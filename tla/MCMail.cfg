\* Crashes outside the window between expense and link, failed calls and statements;
\* with no crash, everything else that can go wrong; which mails are read; what a model suggests.
SPECIFICATION MailSpec
CONSTANTS
  m1 = m1  m2 = m2  m3 = m3  c1 = c1  c2 = c2
  e1 = e1  e2 = e2  s1 = s1  s2 = s2  h1 = h1  h2 = h2  Unset = Unset
  k1 = k1  k2 = k2  Null = Null
  \* Gmail's history of one day, from the 5th to the 7th.
  Syncs = {s1, s2}  Hunts = {h1, h2}  HistoryKept = 1  SearchBack = 1
  FirstDay = 5  LastDay = 7  MaxMails = 2  MaxMailboxes = 2
  Purchases = {p1}  Articles = {a1}  Categories = {k1, k2}  ParentOf <- MCParentOf
  None = None  NoInvoice = NoInvoice  Unused = Unused  Removed = Removed
  Messages = {m1, m2, m3}
  Cufes = {c1}
  Carries <- MCCarries
  Workers = {w1, w2}
  Expenses = {e1, e2}
  Faults = {"crash", "errorInFinish", "errorOutside"}
INVARIANTS MailTypesOK Custody AtMostOneExpense DuplicateJustified LogAndLinksSound MailboxRead LateAnswerYields
PROPERTIES ImplementsRegistry EveryMailSettles
CHECK_DEADLOCK FALSE
