-------------------------------- MODULE Rows --------------------------------
(***************************************************************************)
(* What save() of TypeORM does with a copy of a row, as the services use it. *)
(***************************************************************************)

\* The row after a copy is saved: the columns the copy has, over those of the row
\* (the @@ of module TLC, in a form that can be reasoned about).
Over(copy, row) ==
  [column \in DOMAIN copy \cup DOMAIN row |-> IF column \in DOMAIN copy THEN copy[column] ELSE row[column]]
=============================================================================
