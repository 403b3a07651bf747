-------------------------- MODULE MCMailIngestion --------------------------
(* Two mails with the same invoice and one with none, two executions.        *)
EXTENDS MailIngestion, TLC

CONSTANTS m1, m2, m3, c1, c2

MCCarries == [m \in Messages |-> IF m = m3 THEN NoInvoice ELSE c1]
=============================================================================
