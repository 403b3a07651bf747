\* Finding: crashBeforeLink registers an invoice twice.
SPECIFICATION Spec
CONSTANTS
  m1 = m1  m2 = m2  m3 = m3  c1 = c1  c2 = c2
  None = None  NoInvoice = NoInvoice  Unused = Unused  Removed = Removed
  Messages = {m1}
  Cufes = {c1}
  Carries <- MCCarries
  Workers = {w1, w2}
  Expenses = {e1, e2}
  Faults = {"crashBeforeLink"}
INVARIANT AtMostOneExpense
