----------------------------- MODULE Inventory -----------------------------
(***************************************************************************)
(* What there is at home and what there is to buy: purchases of articles,   *)
(* consumption cycles and the shopping list (products/purchases.service.ts, *)
(* articles/articles.service.ts).  A purchase of its own commits after      *)
(* every statement; one that comes with an expense is part of its           *)
(* transaction.  Running out closes the cycle in a commit and adds to the   *)
(* list in another.                                                         *)
(***************************************************************************)
EXTENDS Integers, FiniteSets

CONSTANTS
  ArticleNames,   \* names under which articles are bought
  Shoppers,       \* requests that may be in course
  MaxErrands      \* bound: requests begun

ASSUME InventoryAssumption == MaxErrands \in Nat

VARIABLES
  article,     \* articles: name |-> row; a row that does not exist has exists = FALSE
  cycle,       \* consumption_cycles: name |-> number of the open one, 0 if none is
  cycles,      \* cycles opened so far
  listed,      \* shopping_list_items: name |-> items that are pending
  errand,      \* what each request has in course
  errands,     \* requests begun
  unsettled,   \* history: names two requests handled at once, or one that failed
  removed,     \* history: requests whose article was removed since they began
  refused      \* history: a purchase failed because its article was being created

inventoryVars == <<article, cycle, cycles, listed, errand, errands, unsettled, removed, refused>>

ArticleRow == [exists : BOOLEAN, consumable : BOOLEAN, bought : BOOLEAN]
CycleRow == Nat                        \* depleted_on IS NULL in one at most
ListItems == Nat
ErrandStages ==
  {"find", "insert", "again", "buy", "check", "open", "mark", "read", "commit", "close", "look", "add"}
ErrandKinds == {"own", "expense", "depletion"}

NoErrand == [stage |-> "none"]
ErrandInHand == [stage : ErrandStages, name : ArticleNames, kind : ErrandKinds, seen : Int]
InHand(a) == {s \in Shoppers : errand[s].stage # "none" /\ errand[s].name = a}

InventoryInit ==
  /\ article = [a \in ArticleNames |-> [exists |-> FALSE, consumable |-> TRUE, bought |-> FALSE]]
  /\ cycle = [a \in ArticleNames |-> 0] /\ cycles = 0
  /\ listed = [a \in ArticleNames |-> 0]
  /\ errand = [s \in Shoppers |-> NoErrand] /\ errands = 0
  /\ unsettled = {} /\ removed = {} /\ refused = FALSE

Unsettle(names) == unsettled' = unsettled \cup names

BeginErrand(s, a, first, kind) ==
  /\ errand[s].stage = "none" /\ errands < MaxErrands
  /\ errand' = [errand EXCEPT ![s] = [stage |-> first, name |-> a, kind |-> kind, seen |-> 0]]
  /\ errands' = errands + 1 /\ removed' = removed \ {s}
  /\ Unsettle(IF InHand(a) # {} THEN {a} ELSE {})

Go(s, stage) == errand' = [errand EXCEPT ![s].stage = stage]
Finish(s) == errand' = [errand EXCEPT ![s] = NoErrand]
At(s, stage) == errand[s].stage = stage

-----------------------------------------------------------------------------
(* Articles (resolveOrCreate, findOrCreateByName) *)

\* "own": a purchase by itself; "expense": with the expense it belongs to.
BeginPurchase(s, a, kind) ==
  /\ BeginErrand(s, a, "find", kind)
  /\ UNCHANGED <<article, cycle, cycles, listed, refused>>

FindArticle(s) ==
  /\ At(s, "find")
  /\ Go(s, IF article[errand[s].name].exists
           THEN IF errand[s].kind = "own" THEN "buy" ELSE "read" ELSE "insert")
  /\ UNCHANGED <<article, cycle, cycles, listed, errands, unsettled, removed, refused>>

\* Mutant of InsertArticle: the violation of articles_name_unique is not caught.
InsertArticle_Uncaught(s) ==
  LET a == errand[s].name IN
  /\ At(s, "insert")
  /\ \E consumable \in BOOLEAN :
       article' = IF article[a].exists THEN article
                  ELSE [article EXCEPT ![a] = [exists |-> TRUE, consumable |-> consumable, bought |-> FALSE]]
  /\ IF article[a].exists THEN Finish(s) ELSE Go(s, "find")
  /\ refused' = (refused \/ article[a].exists)
  /\ UNCHANGED <<cycle, cycles, listed, errands, unsettled, removed>>

\* Where the name is taken by now, the article is looked for again.
InsertArticle(s) ==
  LET a == errand[s].name IN
  /\ At(s, "insert")
  /\ \E consumable \in BOOLEAN :
       article' = IF article[a].exists THEN article
                  ELSE [article EXCEPT ![a] = [exists |-> TRUE, consumable |-> consumable, bought |-> FALSE]]
  /\ Go(s, IF article[a].exists THEN "again" ELSE "find")
  /\ UNCHANGED <<cycle, cycles, listed, errands, unsettled, removed, refused>>

FindAgain(s) ==
  LET a == errand[s].name IN
  /\ At(s, "again")
  /\ IF article[a].exists THEN Go(s, "find") ELSE Finish(s)
  /\ refused' = (refused \/ (~article[a].exists /\ s \notin removed))
  /\ UNCHANGED <<article, cycle, cycles, listed, errands, unsettled, removed>>

\* Purchases, cycles and items go with the article (ON DELETE CASCADE).
RemoveArticle(a) ==
  /\ article[a].exists
  /\ article' = [article EXCEPT ![a].exists = FALSE, ![a].bought = FALSE]
  /\ cycle' = [cycle EXCEPT ![a] = 0]
  /\ listed' = [listed EXCEPT ![a] = 0]
  /\ Unsettle({a})
  /\ removed' = removed \cup InHand(a)
  /\ UNCHANGED <<cycles, errand, errands, refused>>

-----------------------------------------------------------------------------
(* recordPurchase *)

SavePurchase(s) ==
  /\ At(s, "buy") /\ article[errand[s].name].exists
  /\ article' = [article EXCEPT ![errand[s].name].bought = TRUE]
  /\ Go(s, "check")
  /\ UNCHANGED <<cycle, cycles, listed, errands, unsettled, removed, refused>>

\* hasOpenCycle, for an article that is consumed.
CheckOpenCycle(s) ==
  LET a == errand[s].name IN
  /\ At(s, "check")
  /\ Go(s, IF article[a].consumable /\ cycle[a] = 0 THEN "open" ELSE "mark")
  /\ UNCHANGED <<article, cycle, cycles, listed, errands, unsettled, removed, refused>>

\* idx_cycles_one_open lets one in; the other purchase fails, and stays bought.
OpenCycle(s) ==
  LET a == errand[s].name IN
  /\ At(s, "open") /\ article[a].exists /\ cycle[a] = 0
  /\ cycle' = [cycle EXCEPT ![a] = cycles + 1]
  /\ cycles' = cycles + 1
  /\ Go(s, "mark")
  /\ UNCHANGED <<article, listed, errands, unsettled, removed, refused>>

MarkPendingListItemsPurchased(s) ==
  /\ At(s, "mark")
  /\ listed' = [listed EXCEPT ![errand[s].name] = 0]
  /\ Finish(s)
  /\ UNCHANGED <<article, cycle, cycles, errands, unsettled, removed, refused>>

\* Within the transaction of an expense: what was read of the cycles is old when
\* it commits; if another cycle was opened the expense is rolled back.
ReadInTransaction(s) ==
  LET a == errand[s].name IN
  /\ At(s, "read")
  /\ errand' = [errand EXCEPT ![s].stage = "commit",
                              ![s].seen = IF article[a].consumable THEN cycle[a] ELSE -1]
  /\ UNCHANGED <<article, cycle, cycles, listed, errands, unsettled, removed, refused>>

\* Mutant of CommitWithExpense: a purchase that comes with an expense opens no cycle.
CommitWithExpense_NoCycle(s) ==
  LET a == errand[s].name IN
  /\ At(s, "commit") /\ article[a].exists
  /\ article' = [article EXCEPT ![a].bought = TRUE]
  /\ listed' = [listed EXCEPT ![a] = 0]
  /\ Finish(s)
  /\ UNCHANGED <<cycle, cycles, errands, unsettled, removed, refused>>

CommitWithExpense(s) ==
  LET a == errand[s].name
      opens == errand[s].seen = 0
  IN
  /\ At(s, "commit") /\ article[a].exists /\ (opens => cycle[a] = 0)
  /\ article' = [article EXCEPT ![a].bought = TRUE]
  /\ cycle' = IF opens THEN [cycle EXCEPT ![a] = cycles + 1] ELSE cycle
  /\ cycles' = IF opens THEN cycles + 1 ELSE cycles
  /\ listed' = [listed EXCEPT ![a] = 0]
  /\ Finish(s)
  /\ UNCHANGED <<errands, unsettled, removed, refused>>

-----------------------------------------------------------------------------
(* markDepleted and addToShoppingList *)

BeginDepletion(s, a) ==
  /\ article[a].exists /\ cycle[a] # 0
  /\ errand[s].stage = "none" /\ errands < MaxErrands
  /\ errand' = [errand EXCEPT ![s] = [stage |-> "close", name |-> a, kind |-> "depletion", seen |-> cycle[a]]]
  /\ errands' = errands + 1 /\ removed' = removed \ {s}
  /\ Unsettle(IF InHand(a) # {} THEN {a} ELSE {})
  /\ UNCHANGED <<article, cycle, cycles, listed, refused>>

CloseCycle(s) ==
  LET a == errand[s].name IN
  /\ At(s, "close") /\ article[a].exists
  /\ cycle' = IF cycle[a] = errand[s].seen THEN [cycle EXCEPT ![a] = 0] ELSE cycle
  /\ Go(s, "look")
  /\ UNCHANGED <<article, cycles, listed, errands, unsettled, removed, refused>>

LookAtList(s) ==
  LET a == errand[s].name IN
  /\ At(s, "look")
  /\ IF listed[a] > 0 THEN Finish(s) ELSE Go(s, "add")
  /\ UNCHANGED <<article, cycle, cycles, listed, errands, unsettled, removed, refused>>

\* The list itself is made when there is none.
AddToShoppingList(s) ==
  LET a == errand[s].name IN
  /\ At(s, "add") /\ article[a].exists
  /\ listed' = [listed EXCEPT ![a] = @ + 1]
  /\ Finish(s)
  /\ UNCHANGED <<article, cycle, cycles, errands, unsettled, removed, refused>>

\* A statement fails, a constraint is broken or the process ends; what the
\* request had committed stays.
FailErrand(s) ==
  /\ errand[s].stage # "none"
  /\ Finish(s)
  /\ Unsettle({errand[s].name})
  /\ UNCHANGED <<article, cycle, cycles, listed, errands, removed, refused>>

InventoryNext ==
  \/ \E s \in Shoppers, a \in ArticleNames :
       \/ \E kind \in {"own", "expense"} : BeginPurchase(s, a, kind)
       \/ BeginDepletion(s, a)
  \/ \E s \in Shoppers :
       \/ FindArticle(s) \/ InsertArticle(s) \/ FindAgain(s)
       \/ SavePurchase(s) \/ CheckOpenCycle(s) \/ OpenCycle(s) \/ MarkPendingListItemsPurchased(s)
       \/ ReadInTransaction(s) \/ CommitWithExpense(s)
       \/ CloseCycle(s) \/ LookAtList(s) \/ AddToShoppingList(s) \/ FailErrand(s)
  \/ \E a \in ArticleNames : RemoveArticle(a)

InventorySpec == InventoryInit /\ [][InventoryNext]_inventoryVars

-----------------------------------------------------------------------------
InventoryTypeOK ==
  /\ article \in [ArticleNames -> ArticleRow]
  /\ cycle \in [ArticleNames -> CycleRow] /\ cycles \in CycleRow
  /\ listed \in [ArticleNames -> ListItems]
  /\ errand \in [Shoppers -> {NoErrand} \cup ErrandInHand] /\ errands \in 0 .. MaxErrands
  /\ unsettled \subseteq ArticleNames /\ removed \subseteq Shoppers /\ refused \in BOOLEAN

\* "Se acabó: cierra el ciclo abierto y agrega el artículo a la lista", "hay
\* Shampoo: abre ciclo" (purchases.service.ts): while no request has it in hand, a
\* consumable that was bought is either at home, with a cycle open and nothing to
\* buy, or on the list; but for those that two requests handled at once and those
\* one failed on, which the two commits of markDepleted leave in neither.
InStockOrListed ==
  \A a \in ArticleNames :
    article[a].bought /\ article[a].consumable /\ InHand(a) = {} /\ a \notin unsettled
      => (cycle[a] # 0 <=> listed[a] = 0)

\* "otra ingesta concurrente lo creó entre la búsqueda y el insert"
\* (findOrCreateByName): a purchase whose article another one is creating goes on with
\* it, and finds none at the second look only if somebody removed it meanwhile.
CreationShared == ~refused
=============================================================================
