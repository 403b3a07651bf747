--------------------------- MODULE OperationIndex ---------------------------
(***************************************************************************)
(* The rows of investment_transactions as the ways in see them: typed by   *)
(* hand, confirmed from a file, brought by a broker.  Every way in inserts *)
(* with orIgnore against two unique indexes, the natural key of an         *)
(* operation within an account (dedupe.ts) and the reference a broker      *)
(* gives within a connection.  Two operations may have one natural key: two *)
(* equal purchases of a day; and one operation two, since a synchronisation *)
(* converts what it brings and an import does not.                         *)
(***************************************************************************)
EXTENDS Integers, FiniteSets

CONSTANTS
  BookAccounts,  \* investment accounts of one user
  NaturalKeys,   \* type, date, instrument, quantity, amount and currency of an operation
  Conversions,   \* of the keys in another currency than their instrument's: what
                 \* toInstrumentCurrency may make of them, with the rates it finds
  References,    \* external ids, of brokers and of files
  NoReference,   \* the row brings no external id
  NoSource       \* no connection, no batch

VARIABLES
  booked,     \* the rows of the table
  forgotten   \* history: traces of the rows deleted with their account

OperationRow ==
  [account : BookAccounts, key : NaturalKeys, ref : References \cup {NoReference},
   connection : Nat \cup {NoSource}, batch : STRING \cup {NoSource}]

\* Without a rate an operation stays as it came.
ASSUME ConversionsAssumption ==
  /\ DOMAIN Conversions \subseteq NaturalKeys
  /\ \A k \in DOMAIN Conversions : k \in Conversions[k] /\ Conversions[k] \subseteq NaturalKeys

StoredAs(key) == IF key \in DOMAIN Conversions THEN Conversions[key] ELSE {key}

\* The hash is of the values the row is stored with: in an import those of the
\* file.  Every operation that enters through a file or a broker has occurrenceIndex 0.
DedupeHash(row) == <<row.account, row.key>>

\* What the two indexes tell a row by, also after it is gone.
Trace(row) == [account |-> row.account, key |-> row.key, ref |-> row.ref]
Ever == {Trace(r) : r \in booked} \cup forgotten

SameReference(r, s) ==
  /\ r.ref # NoReference /\ r.connection # NoSource
  /\ r.ref = s.ref /\ r.connection = s.connection

Collide(r, s) == DedupeHash(r) = DedupeHash(s) \/ SameReference(r, s)

\* INSERT ... ON CONFLICT DO NOTHING: of the rows that collide one goes in,
\* whichever comes first, and none that collides with the table.
InsertOrIgnore(rows) ==
  {new \in SUBSET rows :
     /\ \A r \in new : \A s \in (new \ {r}) \cup booked : ~Collide(r, s)
     /\ \A r \in rows \ new : \E s \in new \cup booked : Collide(r, s)}
=============================================================================
