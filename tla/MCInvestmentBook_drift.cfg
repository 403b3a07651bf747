\* One write at a time: the derived tables still part from the book.
SPECIFICATION Spec
CONSTANTS
  a1 = a1  a2 = a2  a3 = a3  i1 = i1
  Accounts = {a1, a2, a3}
  Instruments = {i1}
  NoAccount = NoAccount
  NoInstrument = NoInstrument
  Writers = {w1}
  ClosePrice <- MCClosePrice
  Operations <- MCOperations
  InitialBooks <- MCInitialBooks
  Prices = {8}
  MaxRequests = 2
INVARIANT DerivedMatchesBook
