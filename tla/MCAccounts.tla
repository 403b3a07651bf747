----------------------------- MODULE MCAccounts -----------------------------
(* Small instances of Accounts: a bank account and a card with a limit of 2. *)
EXTENDS Accounts

CONSTANTS bank, card

MCAccountIds == {bank, card}
MCCreditIds == {card}
MCCreditLimit == [a \in {card} |-> 2]
MCSchedules == {<<1, 1>>, <<1>>}
=============================================================================
