-------------------------- MODULE MCInvestmentBook --------------------------
(* Three accounts, one instrument, a pool of operations that holds every    *)
(* type, and books to start from.                                           *)
EXTENDS InvestmentBook

CONSTANTS a1, a2, a3, i1

Op(id, type, account, on, quantity, amount) ==
  [id |-> id, type |-> type, account |-> account, instrument |-> i1, on |-> on, at |-> 0,
   quantity |-> quantity, per |-> 1, price |-> 0, amount |-> amount, charges |-> 0,
   to |-> NoAccount, currency |-> "USD", settlement |-> "COP", settled |-> 0]

\* Two lots of different cost, sold, moved on through a2 to a3, split.
Bought == [Op(1, "BUY", a1, 1, 2, 18) EXCEPT !.charges = 2]
BoughtAgain == Op(2, "BUY", a1, 2, 2, 40)
Moved == [Op(3, "TRANSFER_OUT", a1, 3, 3, 0) EXCEPT !.to = a2]
Sold == [Op(4, "SELL", a2, 4, 1, 31) EXCEPT !.charges = 1]
Onward == [Op(5, "TRANSFER_OUT", a2, 4, 2, 0) EXCEPT !.to = a3]
Halved == Op(6, "SPLIT", a1, 3, 2, 0)
Received == Op(7, "TRANSFER_IN", a2, 1, 2, 0)
Withdrawn == Op(8, "TRANSFER_OUT", a1, 4, 1, 0)

\* Operations that only move cash, one for each way of moving it.
Cash == {Op(9, "DEPOSIT", a1, 1, 0, 50), Op(10, "DIVIDEND", a1, 2, 0, 5), Op(11, "FEE", a1, 2, 0, 2),
         [Op(12, "CURRENCY_EXCHANGE", a1, 2, 0, 20) EXCEPT !.settled = 8, !.instrument = NoInstrument]}

MCOperations ==
  {Bought, BoughtAgain, Moved, Sold, Onward, Halved, Received, Withdrawn}
    \cup {[Bought EXCEPT !.on = 3], [Bought EXCEPT !.account = a2], [Moved EXCEPT !.quantity = 4]}

MCInitialBooks ==
  {{}, {Bought}, {Bought, BoughtAgain, Moved}, {Bought, Received, Halved},
   {Bought, Withdrawn} \cup Cash}

MCClosePrice == [x \in Instruments |-> 6]
=============================================================================
