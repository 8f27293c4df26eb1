--------------------------- MODULE KeySplitProofs ---------------------------
(* What TLAPS proves of KeySplit, for keys and storages of any number.      *)
EXTENDS KeySplit, SequenceTheorems, FiniteSetTheorems, TLAPS

\* The share is the least one with which b storages take all of a.
LEMMA CeilDivBounds ==
  ASSUME NEW a \in Nat, NEW b \in Nat \ {0}
  PROVE  /\ CeilDiv(a, b) \in Nat
         /\ CeilDiv(a, b) * b >= a
         /\ CeilDiv(a, b) * b < a + b
BY DEF CeilDiv

\* What one storage takes is at most all there is.
LEMMA ShareFits ==
  ASSUME NEW a \in Nat, NEW b \in Nat \ {0}
  PROVE  CeilDiv(a, b) <= a
<1> DEFINE q == CeilDiv(a, b)
<1>1. q \in Nat /\ q * b < a + b
  BY CeilDivBounds
<1> HIDE DEF q
<1>2. ASSUME q >= a + 1 PROVE FALSE
  <2>1. q * b >= (a + 1) * b
    BY <1>1, <1>2
  <2>2. (a + 1) * b >= a + b
    OBVIOUS
  <2> QED BY <1>1, <2>1, <2>2
<1>3. q <= a
  BY <1>1, <1>2
<1> QED BY <1>3 DEF q

\* A share of what m storages can still divide evenly is one of the two even
\* sizes, and leaves what m - 1 storages can divide evenly.
LEMMA EvenShare ==
  ASSUME NEW a \in Nat, NEW m \in Nat \ {0}, NEW q \in Nat, NEW size \in Nat,
         m * q <= a, a <= m * (q + 1), size = CeilDiv(a, m)
  PROVE  /\ q <= size /\ size <= q + 1
         /\ (m - 1) * q <= a - size
         /\ a - size <= (m - 1) * (q + 1)
<1>1. size * m >= a /\ size * m < a + m
  BY CeilDivBounds
<1>2. q <= size
  <2>1. ASSUME size <= q - 1 PROVE FALSE
    <3>1. size * m <= (q - 1) * m
      BY <2>1
    <3>2. (q - 1) * m = m * q - m
      OBVIOUS
    <3>3. a <= m * q - m
      BY <1>1, <3>1, <3>2
    <3>4. m * q \in Int
      OBVIOUS
    <3> QED BY <3>3, <3>4
  <2> QED BY <2>1
<1>3. size <= q + 1
  <2>1. ASSUME size >= q + 2 PROVE FALSE
    <3>1. size * m >= (q + 2) * m
      BY <2>1
    <3>2. (q + 2) * m = m * (q + 1) + m /\ m * (q + 1) \in Int
      OBVIOUS
    <3> QED BY <1>1, <3>1, <3>2
  <2> QED BY <2>1
<1>4. CASE size = q
  <2>1. (m - 1) * q = m * q - q /\ m * q \in Int
    OBVIOUS
  <2>2. size * m = m * q
    BY <1>4
  <2>3. a = m * q
    BY <1>1, <2>1, <2>2
  <2>4. (m - 1) * (q + 1) = (m - 1) * q + (m - 1) /\ (m - 1) * q \in Int
    OBVIOUS
  <2> QED BY <1>2, <1>3, <1>4, <2>1, <2>3, <2>4
<1>5. CASE size = q + 1
  <2>1. size * m = m * q + m /\ m * q \in Int
    BY <1>5
  <2>2. a >= m * q + 1
    BY <1>1, <2>1
  <2>3. (m - 1) * q = m * q - q
    OBVIOUS
  <2>4. (m - 1) * (q + 1) = m * (q + 1) - (q + 1) /\ m * (q + 1) \in Int
    OBVIOUS
  <2> QED BY <1>2, <1>3, <1>5, <2>1, <2>2, <2>3, <2>4
<1> QED BY <1>2, <1>3, <1>4, <1>5

----------------------------------------------------------------------------

Inv == TypeOK /\ SplitIsExact /\ EvenlyLeft /\ Balanced

LEMMA SizeFits ==
  ASSUME TypeOK, i < storages
  PROVE  /\ CurrentSplitSize \in 0..RemainingLength
         /\ RemainingLength \in Nat
         /\ i = storages - 1 => CurrentSplitSize = RemainingLength
<1>1. RemainingLength \in Nat /\ storages - i \in Nat \ {0}
  BY DEF TypeOK, RemainingLength
<1>2. /\ CeilDiv(RemainingLength, storages - i) \in Nat
      /\ CeilDiv(RemainingLength, storages - i) <= RemainingLength
  BY <1>1, CeilDivBounds, ShareFits
<1> QED BY <1>1, <1>2 DEF CurrentSplitSize, Share

LEMMA InitInv == Init => Inv
<1> SUFFICES ASSUME Init PROVE Inv
  OBVIOUS
<1>1. TypeOK
  BY BoundsAssumption DEF Init, TypeOK
<1>2. SplitIsExact /\ Balanced
  BY <1>1 DEF Init, SplitIsExact, Adjacent, CoversKey, Balanced
<1>3. EvenlyLeft
  <2>1. ASSUME storages > 0
        PROVE  /\ storages * (length \div storages) <= length
               /\ length <= storages * ((length \div storages) + 1)
    BY <1>1, <2>1 DEF TypeOK
  <2> QED BY <1>1, <2>1 DEF Init, EvenlyLeft, TypeOK
<1> QED BY <1>1, <1>2, <1>3 DEF Inv

LEMMA StepInv == Inv /\ [Next]_vars => Inv'
<1> SUFFICES ASSUME Inv, [Next]_vars PROVE Inv'
  OBVIOUS
<1> USE DEF Inv
<1>1. CASE CutSlice
  <2> DEFINE size == CurrentSplitSize
             q == length \div storages
             new == [from |-> taken, to |-> taken + size]
  <2>t. /\ length \in Nat /\ storages \in Nat \ {0} /\ i \in Nat /\ i < storages
        /\ taken \in Nat /\ taken <= length /\ parts \in Seq(Slice) /\ Len(parts) = i
        /\ q \in Nat
    BY <1>1 DEF CutSlice, TypeOK
  <2>s. /\ size \in Nat /\ taken + size <= length
        /\ i = storages - 1 => taken + size = length
    BY <1>1, <2>t, SizeFits DEF CutSlice, RemainingLength
  <2>u. /\ parts' = Append(parts, new) /\ taken' = taken + size /\ i' = i + 1
        /\ length' = length /\ storages' = storages /\ pc' = pc
    BY <1>1 DEF CutSlice
  <2>n. new \in Slice /\ new.from = taken /\ new.to = taken + size
    BY <2>s, <2>t DEF Slice
  <2> HIDE DEF size, q, new
  <2>p. /\ parts' \in Seq(Slice) /\ Len(parts') = i + 1 /\ parts'[i + 1] = new
        /\ \A k \in 1..i : parts'[k] = parts[k] /\ parts[k] \in Slice
    BY <2>t, <2>u, <2>n
  <2>1. TypeOK'
    BY <2>t, <2>s, <2>u, <2>p DEF TypeOK
  <2>2. Adjacent'
    <3>1. \A k \in 1..Len(parts') : parts'[k].from <= parts'[k].to
      <4>1. new.from <= new.to
        BY <2>t, <2>s, <2>n
      <4>2. \A k \in 1..i : parts[k].from <= parts[k].to
        BY <2>t DEF SplitIsExact, Adjacent
      <4> QED BY <2>t, <2>p, <4>1, <4>2
    <3>2. parts'[1].from = 0 /\ parts'[Len(parts')].to = taken'
      <4>1. CASE i = 0
        <5>1. taken = 0
          BY <4>1, <2>t DEF SplitIsExact, Adjacent
        <5> QED BY <4>1, <5>1, <2>t, <2>p, <2>n, <2>u
      <4>2. CASE i > 0
        BY <4>2, <2>t, <2>p, <2>n, <2>u DEF SplitIsExact, Adjacent
      <4> QED BY <4>1, <4>2, <2>t
    <3>3. \A k \in 1..(Len(parts') - 1) : parts'[k].to = parts'[k + 1].from
      BY <2>t, <2>p, <2>n DEF SplitIsExact, Adjacent
    <3> QED BY <2>t, <2>p, <3>1, <3>2, <3>3 DEF Adjacent
  <2>3. CoversKey'
    BY <2>t, <2>s, <2>u DEF CoversKey
  <2>4. /\ q <= size /\ size <= q + 1
        /\ i + 1 < storages =>
             /\ (storages - (i + 1)) * q <= length - (taken + size)
             /\ length - (taken + size) <= (storages - (i + 1)) * (q + 1)
    <3> DEFINE m == storages - i
               a == length - taken
    <3>1. m \in Nat \ {0} /\ a \in Nat
      BY <2>t
    <3>2. m * q <= a /\ a <= m * (q + 1)
      BY <2>t DEF EvenlyLeft, q
    <3>3. CASE m = 1
      BY <2>s, <2>t, <3>1, <3>2, <3>3
    <3>4. CASE m # 1
      <4>1. size = CeilDiv(a, m)
        BY <2>t, <3>4 DEF size, CurrentSplitSize, RemainingLength, Share
      <4>2. /\ q <= size /\ size <= q + 1
            /\ (m - 1) * q <= a - size /\ a - size <= (m - 1) * (q + 1)
        <5> HIDE DEF m, a
        <5> QED BY <2>s, <2>t, <3>1, <3>2, <4>1, EvenShare
      <4>3. m - 1 = storages - (i + 1) /\ a - size = length - (taken + size)
        BY <2>t, <2>s
      <4> QED BY <4>2, <4>3
    <3> QED BY <3>3, <3>4
  <2>5. EvenlyLeft'
    BY <2>4, <2>u DEF EvenlyLeft, q
  <2>6. Balanced'
    <3>1. Size(new) = size
      BY <2>n, <2>t, <2>s DEF Size
    <3>2. \A k \in 1..i : Size(parts[k]) >= q /\ Size(parts[k]) <= q + 1
      BY <2>t DEF Balanced, q
    <3> QED BY <2>p, <2>t, <2>u, <2>4, <3>1, <3>2 DEF Balanced, q
  <2> QED BY <2>1, <2>2, <2>3, <2>5, <2>6 DEF SplitIsExact
<1>2. CASE UNCHANGED <<length, storages, i, taken, parts>> /\ pc' \in {"split", "fetch", "joined"}
  BY <1>2 DEF TypeOK, SplitIsExact, Adjacent, CoversKey, EvenlyLeft, Balanced
<1> QED
  BY <1>1, <1>2
  DEF Next, vars, StartFetch, FetchPart, JoinParts, Done, TypeOK

\* The loop cuts the key into adjacent slices that cover it (SplitIsExact).
THEOREM SplitExact == Spec => []SplitIsExact
BY InitInv, StepInv, PTL DEF Spec, Inv

\* Each storage gets length \div storages characters or one more (Balanced).
THEOREM SplitBalanced == Spec => []Balanced
BY InitInv, StepInv, PTL DEF Spec, Inv

----------------------------------------------------------------------------
(* Joining.                                                                 *)

\* Parts of all the indexes below their number, in any order.
Complete(ps, n) ==
  /\ ps \in Seq(Part) /\ Len(ps) = n
  /\ \A m \in 1..n : ps[m].index < n
  /\ \A m, k \in 1..n : ps[m].index = ps[k].index => m = k

\* As many parts as indexes, and no index twice: each index is there.
LEMMA EachIndexCame ==
  ASSUME NEW n \in Nat, NEW ps, Complete(ps, n), NEW j \in 0..(n - 1)
  PROVE  \E m \in 1..n : ps[m].index = j
<1> DEFINE f == [m \in 1..n |-> ps[m].index]
<1>1. f \in Injection(1..n, 0..(n - 1))
  <2>1. \A m \in 1..n : ps[m] \in Part
    BY DEF Complete
  <2>2. f \in [1..n -> 0..(n - 1)]
    BY <2>1 DEF Complete, Part
  <2>3. IsInjective(f)
    BY DEF Complete, IsInjective
  <2> QED BY <2>2, <2>3 DEF Injection
<1>2. /\ IsFiniteSet(0..(n - 1)) /\ Cardinality(0..(n - 1)) = n
      /\ Cardinality(1..n) = n
  BY FS_Interval
<1>3. f \in Surjection(1..n, 0..(n - 1))
  BY <1>1, <1>2, FS_Injection
<1> QED BY <1>3 DEF Surjection

\* The place of a part is the one its index says.
LEMMA RankIsIndex ==
  ASSUME NEW n \in Nat, NEW ps, Complete(ps, n), NEW m \in 1..n
  PROVE  Rank(ps, m) = ps[m].index + 1
<1> DEFINE x == ps[m].index
           before == {k \in DOMAIN ps : ps[k].index < x}
           f == [k \in before |-> ps[k].index]
<1>1. /\ DOMAIN ps = 1..n /\ x \in Nat /\ x < n
      /\ \A k \in 1..n : ps[k].index \in Nat
  <2>1. DOMAIN ps = 1..n /\ \A k \in 1..n : ps[k] \in Part
    BY DEF Complete
  <2>2. \A k \in 1..n : ps[k].index \in Nat
    BY <2>1 DEF Part
  <2> QED BY <2>1, <2>2 DEF Complete
<1>2. f \in Bijection(before, 0..(x - 1))
  <2>1. f \in [before -> 0..(x - 1)]
    BY <1>1
  <2>2. IsInjective(f)
    BY <1>1 DEF Complete, IsInjective
  <2>3. ASSUME NEW j \in 0..(x - 1) PROVE \E k \in before : f[k] = j
    <3>1. PICK k \in 1..n : ps[k].index = j
      BY <1>1, EachIndexCame
    <3> QED BY <1>1, <3>1
  <2> QED BY <2>1, <2>2, <2>3 DEF Bijection, Injection, Surjection
<1>3. IsFiniteSet(before)
  BY <1>1, FS_Interval, FS_Subset
<1>4. Cardinality(before) = Cardinality(0..(x - 1))
  BY <1>2, <1>3, FS_Bijection DEF ExistsBijection
<1>5. Cardinality(0..(x - 1)) = x
  <2>1. x \in Nat
    BY <1>1
  <2> HIDE DEF x
  <2>2. /\ 0 \in Int /\ x - 1 \in Int
        /\ (0 > x - 1 => x = 0) /\ (x - 1) - 0 + 1 = x
    BY <2>1
  <2>3. Cardinality(0..(x - 1)) = IF 0 > x - 1 THEN 0 ELSE (x - 1) - 0 + 1
    BY <2>2, FS_Interval
  <2> QED BY <2>1, <2>2, <2>3
<1> QED BY <1>4, <1>5 DEF Rank

\* What has come back: each part once, with the index it was stored under.
FetchedOnce ==
  /\ pc # "split" => i = storages
  /\ pc = "split" => fetched = <<>>
  /\ fetched \in Seq(Part)
  /\ \A m \in 1..Len(fetched) :
       fetched[m].index < storages /\ fetched[m].slice = parts[fetched[m].index + 1]
  /\ \A m, k \in 1..Len(fetched) : fetched[m].index = fetched[k].index => m = k

JoinInv == FetchedOnce /\ JoinedIsKey

LEMMA JoinInit == Init => JoinInv
BY DEF Init, JoinInv, FetchedOnce, JoinedIsKey, Part

LEMMA JoinStep == Inv /\ JoinInv /\ [Next]_vars => JoinInv'
<1> SUFFICES ASSUME Inv, JoinInv, [Next]_vars PROVE JoinInv'
  OBVIOUS
<1>t. /\ length \in Nat /\ storages \in Nat /\ i \in 0..storages
      /\ parts \in Seq(Slice) /\ Len(parts) = i
  BY DEF Inv, TypeOK
<1>1. CASE CutSlice
  BY <1>1, <1>t DEF CutSlice, JoinInv, FetchedOnce, JoinedIsKey
<1>2. CASE StartFetch
  BY <1>2, <1>t DEF StartFetch, JoinInv, FetchedOnce, JoinedIsKey
<1>3. ASSUME NEW k \in 1..Len(parts), FetchPart(k) PROVE JoinInv'
  <2> DEFINE new == [index |-> k - 1, slice |-> parts[k]]
  <2>1. new \in Part /\ new.index = k - 1 /\ new.slice = parts[(k - 1) + 1]
    BY <1>t, <1>3 DEF Part
  <2>2. /\ pc = "fetch" /\ fetched' = Append(fetched, new)
        /\ \A m \in DOMAIN fetched : fetched[m].index # k - 1
        /\ UNCHANGED <<length, storages, i, taken, parts, joined, pc>>
    BY <1>3 DEF FetchPart
  <2>3. fetched \in Seq(Part) /\ i = storages
    BY <2>2 DEF JoinInv, FetchedOnce
  <2> HIDE DEF new
  <2>4. /\ fetched' \in Seq(Part) /\ Len(fetched') = Len(fetched) + 1
        /\ fetched'[Len(fetched) + 1] = new
        /\ \A m \in 1..Len(fetched) : fetched'[m] = fetched[m]
        /\ Len(fetched) \in Nat /\ DOMAIN fetched = 1..Len(fetched)
    BY <2>1, <2>2, <2>3
  <2>5. ASSUME NEW m \in 1..Len(fetched')
        PROVE  fetched'[m].index < storages /\ fetched'[m].slice = parts[fetched'[m].index + 1]
    <3>1. CASE m = Len(fetched) + 1
      BY <1>t, <2>1, <2>3, <2>4, <3>1
    <3>2. CASE m \in 1..Len(fetched)
      BY <2>4, <3>2 DEF JoinInv, FetchedOnce
    <3> QED BY <2>4, <3>1, <3>2
  <2>6. ASSUME NEW m \in 1..Len(fetched'), NEW j \in 1..Len(fetched'),
               fetched'[m].index = fetched'[j].index
        PROVE  m = j
    <3>1. CASE m \in 1..Len(fetched) /\ j \in 1..Len(fetched)
      BY <2>4, <2>6, <3>1 DEF JoinInv, FetchedOnce
    <3>2. CASE m = Len(fetched) + 1 /\ j \in 1..Len(fetched)
      BY <2>1, <2>2, <2>4, <2>6, <3>2
    <3>3. CASE m \in 1..Len(fetched) /\ j = Len(fetched) + 1
      BY <2>1, <2>2, <2>4, <2>6, <3>3
    <3> QED BY <2>4, <3>1, <3>2, <3>3
  <2> QED BY <2>2, <2>3, <2>4, <2>5, <2>6 DEF JoinInv, FetchedOnce, JoinedIsKey
<1>4. CASE JoinParts
  <2>1. /\ pc = "fetch" /\ Len(fetched) = storages /\ i = storages
        /\ joined' = [k \in 1..storages |->
              fetched[CHOOSE m \in DOMAIN fetched : PlaceOf(fetched, m) = k].slice]
        /\ UNCHANGED <<length, storages, i, taken, parts, fetched>> /\ pc' = "joined"
    BY <1>4 DEF JoinParts, JoinInv, FetchedOnce
  <2>2. Complete(fetched, storages) /\ DOMAIN fetched = 1..storages
    BY <2>1 DEF JoinInv, FetchedOnce, Complete
  <2>3. ASSUME NEW k \in 1..storages PROVE joined'[k] = parts[k]
    <3>1. \A m \in 1..storages : PlaceOf(fetched, m) = fetched[m].index + 1
      BY <1>t, <2>2, RankIsIndex DEF PlaceOf
    <3>2. \A m \in 1..storages : fetched[m].index \in Nat
      <4>1. \A m \in 1..storages : fetched[m] \in Part
        BY <2>2 DEF Complete
      <4> QED BY <4>1 DEF Part
    <3>3. PICK n \in 1..storages : fetched[n].index = k - 1
      BY <1>t, <2>2, EachIndexCame
    <3>4. PlaceOf(fetched, n) = k
      BY <3>1, <3>3
    <3> DEFINE p == CHOOSE m \in DOMAIN fetched : PlaceOf(fetched, m) = k
    <3>5. p \in 1..storages /\ PlaceOf(fetched, p) = k
      BY <2>2, <3>4
    <3>6. joined'[k] = fetched[p].slice
      BY <2>1
    <3> HIDE DEF p
    <3>7. fetched[p].index + 1 = k
      BY <3>1, <3>5
    <3>8. fetched[p].slice = parts[fetched[p].index + 1]
      BY <2>1, <3>5 DEF JoinInv, FetchedOnce
    <3> QED BY <1>t, <3>2, <3>5, <3>6, <3>7, <3>8
  <2>4. ASSUME storages > 0 PROVE parts[1].from = 0 /\ parts[storages].to = length
    BY <1>t, <2>1, <2>4 DEF Inv, SplitIsExact, Adjacent, CoversKey
  <2>5. JoinedIsKey'
    <3>1. storages' = storages /\ parts' = parts /\ length' = length
      BY <2>1
    <3>2. ASSUME storages > 0 PROVE joined'[1] = parts[1] /\ joined'[storages] = parts[storages]
      BY <1>t, <2>3, <3>2
    <3>3. storages > 0 => joined'[1].from = 0 /\ joined'[storages].to = length
      BY <2>4, <3>2
    <3> QED BY <2>3, <3>1, <3>3 DEF JoinedIsKey
  <2> QED BY <2>1, <2>5 DEF JoinInv, FetchedOnce
<1>5. CASE UNCHANGED vars
  BY <1>5 DEF vars, JoinInv, FetchedOnce, JoinedIsKey
<1> QED BY <1>1, <1>2, <1>3, <1>4, <1>5 DEF Next, Done

\* The slices read back in any order are joined to the key that was cut
\* (JoinedIsKey), whatever its length and the number of storages.
THEOREM JoinExact == Spec => []JoinedIsKey
<1>1. JoinInv => JoinedIsKey
  BY DEF JoinInv
<1> QED BY <1>1, InitInv, StepInv, JoinInit, JoinStep, PTL DEF Spec

============================================================================
