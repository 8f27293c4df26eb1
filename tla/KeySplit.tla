------------------------------ MODULE KeySplit ------------------------------
(* How a key is cut into one slice per backup storage when it is generated, *)
(* and put together again when it signs.                                    *)
(*                                                                          *)
(* A slice is the half-open range of the positions of the key it holds: no  *)
(* step depends on the characters.  The split is the loop of                *)
(* splitKeyForBackupStorages, one iteration a step.  The slices then come   *)
(* back in whatever order the database lists the storages, each with the    *)
(* index it was stored under; sorting by index and joining gives the key.   *)
EXTENDS Integers, FiniteSets, Sequences

CONSTANTS MaxLength, MaxStorages  \* bounds of the keys and storages tried

ASSUME BoundsAssumption == MaxLength \in Nat /\ MaxStorages \in Nat

VARIABLES
  length,    \* key.length
  storages,  \* backupStoragesIds.length
  i,         \* the loop's counter
  taken,     \* characters no longer in remainingKey
  parts,     \* backupStorageParts
  fetched,   \* the parts read back, in the order they came
  joined,    \* the slices in the order in which they were joined
  pc

vars == <<length, storages, i, taken, parts, fetched, joined, pc>>

Slice == [from : Nat, to : Nat]
Part == [index : Nat, slice : Slice]

Size(slice) == slice.to - slice.from

CeilDiv(a, b) == (a + b - 1) \div b

RemainingLength == length - taken

Share(a, b) == CeilDiv(a, b)

\* Deviation: the remaining key is always shared among all storages.
ShareOfAll == Share(RemainingLength, storages)

\* Deviation: every storage but the last gets the same share of the whole key.
ShareOfWholeKey ==
  IF i = storages - 1 THEN RemainingLength ELSE length \div storages

CurrentSplitSize ==
  IF i = storages - 1 THEN RemainingLength ELSE Share(RemainingLength, storages - i)

Init ==
  /\ length \in 0..MaxLength
  /\ storages \in 0..MaxStorages
  /\ i = 0
  /\ taken = 0
  /\ parts = <<>>
  /\ fetched = <<>>
  /\ joined = <<>>
  /\ pc = "split"

\* One iteration: substring(0, size) goes to storage i, the rest remains.
CutSlice ==
  /\ pc = "split"
  /\ i < storages
  /\ LET size == CurrentSplitSize
     IN /\ parts' = Append(parts, [from |-> taken, to |-> taken + size])
        /\ taken' = taken + size
  /\ i' = i + 1
  /\ UNCHANGED <<length, storages, fetched, joined, pc>>

StartFetch ==
  /\ pc = "split"
  /\ i = storages
  /\ pc' = "fetch"
  /\ UNCHANGED <<length, storages, i, taken, parts, fetched, joined>>

\* The storages are read back in any order; each returns "index:slice".
FetchPart(k) ==
  /\ pc = "fetch"
  /\ \A m \in DOMAIN fetched : fetched[m].index # k - 1
  /\ fetched' = Append(fetched, [index |-> k - 1, slice |-> parts[k]])
  /\ UNCHANGED <<length, storages, i, taken, parts, joined, pc>>

\* Position of a part in the order by index.
Rank(ps, m) == Cardinality({n \in DOMAIN ps : ps[n].index < ps[m].index}) + 1

\* Deviation: the parts are joined in the order they came.
ArrivalOrder(ps, m) == m

PlaceOf(ps, m) == Rank(ps, m)

\* sort by index, keep the slices, join.
JoinParts ==
  /\ pc = "fetch"
  /\ Len(fetched) = storages
  /\ joined' = [k \in 1..storages |->
                  fetched[CHOOSE m \in DOMAIN fetched : PlaceOf(fetched, m) = k].slice]
  /\ pc' = "joined"
  /\ UNCHANGED <<length, storages, i, taken, parts, fetched>>

\* The call is over.
Done == pc = "joined" /\ UNCHANGED vars

Next ==
  \/ CutSlice
  \/ StartFetch
  \/ \E k \in 1..Len(parts) : FetchPart(k)
  \/ JoinParts
  \/ Done

Spec == Init /\ [][Next]_vars

----------------------------------------------------------------------------
(* Properties.                                                              *)

\* The type invariant.
TypeOK ==
  /\ length \in Nat /\ storages \in Nat /\ i \in 0..storages /\ taken \in 0..length
  /\ parts \in Seq(Slice) /\ Len(parts) = i
  /\ pc \in {"split", "fetch", "joined"}

\* The slices cut so far are adjacent and cover what has been taken from the
\* key: no character of it is stored twice or left out.
Adjacent ==
  /\ \A k \in 1..Len(parts) : parts[k].from <= parts[k].to
  /\ Len(parts) = 0 => taken = 0
  /\ Len(parts) > 0 => parts[1].from = 0 /\ parts[Len(parts)].to = taken
  /\ \A k \in 1..(Len(parts) - 1) : parts[k].to = parts[k + 1].from

\* When the loop ends the slices cover the whole key, if there is a storage.
CoversKey == i = storages /\ storages > 0 => taken = length

\* The slices are a partition of the key, at every step of the loop.
SplitIsExact == Adjacent /\ CoversKey

\* The slices differ by at most one character, whatever the rounding of the
\* earlier shares left for the later ones; so no storage gets the whole key
\* while another gets none, and none is empty when the key is long enough.
Balanced ==
  \A k \in 1..Len(parts) :
    /\ Size(parts[k]) >= length \div storages
    /\ Size(parts[k]) <= (length \div storages) + 1

\* What is left can still be cut evenly among the storages still to come.
EvenlyLeft ==
  i < storages =>
    /\ (storages - i) * (length \div storages) <= length - taken
    /\ length - taken <= (storages - i) * ((length \div storages) + 1)

\* The slices are joined to the key in its order, in whatever order they came.
JoinedIsKey ==
  pc = "joined" =>
    /\ \A k \in 1..storages : joined[k] = parts[k]
    /\ storages > 0 => joined[1].from = 0 /\ joined[storages].to = length

============================================================================
