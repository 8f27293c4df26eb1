--------------------------- MODULE MCMailDispatch ---------------------------
(* MailDispatch on small instances.                                         *)
EXTENDS MailDispatch

\* Not set; one name of two unknown; a provider repeated; no name known.
AllOrders ==
  {<<>>, <<"sendgrid", "Brevo">>, <<"SendGrid", "Brevo", "SendGrid">>, <<"Postmark">>}

============================================================================
