-------------------------- MODULE InvoiceRegistry --------------------------
(***************************************************************************)
(* What the mail subsystem promises about the books: an electronic invoice, *)
(* identified by its CUFE, is in the expenses at most once, whichever mails *)
(* carry it and however often they are processed.  Once the user deletes    *)
(* its expense an invoice may be registered again.                          *)
(***************************************************************************)
CONSTANTS Cufes, Expenses, Unused, Removed

VARIABLE expenseOf  \* Unused, Removed, or the invoice an expense registers

Registered(c) == \E e \in Expenses : expenseOf[e] = c

Init == expenseOf = [e \in Expenses |-> Unused]

Register(e, c) ==
  /\ expenseOf[e] = Unused
  /\ ~Registered(c)
  /\ expenseOf' = [expenseOf EXCEPT ![e] = c]

Remove(e) ==
  /\ expenseOf[e] \in Cufes
  /\ expenseOf' = [expenseOf EXCEPT ![e] = Removed]

Next == \E e \in Expenses : Remove(e) \/ \E c \in Cufes : Register(e, c)

Spec == Init /\ [][Next]_expenseOf
=============================================================================
