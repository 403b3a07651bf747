--------------------------- MODULE Categorization ---------------------------
(***************************************************************************)
(* The categories a model suggests for a purchase already registered       *)
(* (mail-ingestion.service.ts, expense-items-categorization.service.ts,    *)
(* category-classifier.service.ts), against what the user does meanwhile.  *)
(*                                                                         *)
(* An expense of the mail or made by hand leaves a task behind; some time  *)
(* later the task asks the model, and writes the answers one statement at  *)
(* a time.  By then the user may have edited the expense or the article,   *)
(* removed a category or changed the sender's default.                     *)
(*                                                                         *)
(* The thresholds of decideCategory turn the model's probabilities into    *)
(* any category that was an option, or none.  The user edits one row at a  *)
(* time, which takes two steps: the row is read, and saved.                *)
(***************************************************************************)
EXTENDS FiniteSets

CONSTANTS
  Purchases,     \* ids of expenses
  Articles,
  Categories,
  ParentOf,      \* the category each one hangs from; two levels
  Null

ASSUME CategorizationAssumption ==
  /\ Null \notin Categories
  /\ ParentOf \in [Categories -> Categories \cup {Null}]

VARIABLES
  category,      \* rows of categories
  filed,         \* category_id of the articles and of the expenses
  usual,         \* mail_senders.default_category_id
  task,          \* the classification each expense leaves behind
  edit,          \* the edition in flight
  kept           \* history: what was put in a row by its user, or inherited

categorizationVars == <<category, filed, usual, task, edit, kept>>

Rows == Purchases \cup Articles
Perhaps(S) == S \cup {Null}
NoAnswer == [a \in Articles |-> Null]

Task == [stage : {"none", "lines", "queued", "saving", "done"}, mail : BOOLEAN,
         lines : SUBSET Articles, asked : SUBSET Articles, usual : Perhaps(Categories),
         initial : Perhaps(Categories),
         answer : [Articles -> Perhaps(Categories)], whole : Perhaps(Categories)]

NoTask == [stage |-> "none", mail |-> FALSE, lines |-> {}, asked |-> {}, usual |-> Null,
           initial |-> Null, answer |-> NoAnswer, whole |-> Null]

Ended == [NoTask EXCEPT !.stage = "done"]

CategorizationInit ==
  /\ category = Categories
  /\ filed = [r \in Rows |-> Null]
  /\ usual = Null
  /\ task = [e \in Purchases |-> NoTask]
  /\ edit = Null
  /\ kept = [r \in Rows |-> Null]

InBooks(e) == task[e].stage \notin {"none", "lines"}

---------------------------------------------------------------------------
(* The purchase is registered.                                             *)

Uncategorized(items) == {a \in items : filed[a] = Null}

\* An expense of one article inherits its category.
ResolveCategory(given, items) ==
  IF given # Null THEN given
  ELSE IF \E a \in items : items = {a} THEN filed[CHOOSE a \in items : TRUE]
  ELSE Null

\* registerExpense: the sender and the articles are read ...
ResolveLines(e, items) ==
  /\ task[e].stage = "none"
  /\ task' = [task EXCEPT ![e] = [NoTask EXCEPT !.stage = "lines", !.mail = TRUE,
       !.lines = items, !.asked = Uncategorized(items), !.usual = usual]]
  /\ UNCHANGED <<category, filed, usual, edit, kept>>

\* ... and the expense created, unless the default category is gone by then.
RegisterExpense(e) ==
  LET t == task[e]
      initial == ResolveCategory(t.usual, t.lines)
  IN /\ t.stage = "lines"
     /\ IF t.usual \in Perhaps(category)
        THEN /\ task' = [task EXCEPT ![e].stage = "queued", ![e].lines = {}, ![e].initial = initial]
             /\ filed' = [filed EXCEPT ![e] = initial]
             /\ kept' = [kept EXCEPT ![e] = IF t.usual = Null THEN initial ELSE Null]
        ELSE /\ task' = [task EXCEPT ![e] = NoTask]
             /\ UNCHANGED <<filed, kept>>
     /\ UNCHANGED <<category, usual, edit>>

\* createExpense, and enqueueFor: only the articles without category are asked.
CreateExpense(e, given, items) ==
  LET initial == ResolveCategory(given, items)
      asked == Uncategorized(items)
  IN /\ task[e].stage = "none"
     /\ task' = [task EXCEPT ![e] = IF asked = {} THEN Ended
          ELSE [NoTask EXCEPT !.stage = "queued", !.asked = asked, !.initial = initial]]
     /\ filed' = [filed EXCEPT ![e] = initial]
     /\ kept' = [kept EXCEPT ![e] = initial]
     /\ UNCHANGED <<category, usual, edit>>

---------------------------------------------------------------------------
(* The task asks and writes.                                               *)

\* The default stays unless the model rejects it and names another.
ResolveExpenseCategory(default, choice, rejected) ==
  IF default = Null \/ (rejected /\ choice \notin {Null, default}) THEN choice ELSE default

\* Without key, without categories, or after an error of the service.
Unclassified(e) ==
  /\ task[e].stage = "queued"
  /\ task' = [task EXCEPT ![e].stage = "saving", ![e].asked = {}, ![e].whole = task[e].usual]
  /\ UNCHANGED <<category, filed, usual, edit, kept>>

Classify(e) ==
  LET t == task[e]
      options == Perhaps(category)
  IN /\ t.stage = "queued"
     /\ category # {}
     /\ \E answer \in [t.asked -> options], choice \in options,
           rejected \in (IF t.usual \in category THEN BOOLEAN ELSE {FALSE}) :
          task' = [task EXCEPT ![e].stage = "saving", ![e].asked = {},
            ![e].answer = [a \in Articles |-> IF a \in t.asked THEN answer[a] ELSE Null],
            ![e].whole = ResolveExpenseCategory(t.usual, choice, rejected)]
     /\ UNCHANGED <<category, filed, usual, edit, kept>>

\* Mutant of AssignCategoryIfMissing: an UPDATE without category_id IS NULL.
AssignCategoryIfMissing_Always(a, c) == filed' = [filed EXCEPT ![a] = c]

\* One UPDATE: where the article is still without category.
AssignCategoryIfMissing(a, c) ==
  filed' = [filed EXCEPT ![a] = IF @ = Null THEN c ELSE @]

\* The suggestion for one article; a category removed meanwhile is refused, and
\* the next article goes on.
AssignArticle(e, a) ==
  LET c == task[e].answer[a]
  IN /\ task[e].stage = "saving"
     /\ c # Null
     /\ IF c \in category THEN AssignCategoryIfMissing(a, c) ELSE UNCHANGED filed
     /\ task' = [task EXCEPT ![e].answer[a] = Null]
     /\ UNCHANGED <<category, usual, edit, kept>>

\* The rules of updateExpenseCategory: an inherited category is respected.
Replaces(t) ==
  /\ t.mail
  /\ t.whole \notin {Null, t.initial}
  /\ t.initial # Null => t.usual # Null

\* Mutant of UpdateCategoryIfUnchanged: the row is not compared.
UpdateCategoryIfUnchanged_Always(e, expected, c) == filed' = [filed EXCEPT ![e] = c]

\* One UPDATE: where the expense still has the category it was registered with.
UpdateCategoryIfUnchanged(e, expected, c) ==
  filed' = [filed EXCEPT ![e] = IF @ = expected THEN c ELSE @]

UpdateExpenseCategory(e) ==
  LET t == task[e]
  IN /\ t.stage = "saving"
     /\ t.answer = NoAnswer
     /\ IF Replaces(t) /\ t.whole \in category
        THEN UpdateCategoryIfUnchanged(e, t.initial, t.whole)
        ELSE UNCHANGED filed
     /\ task' = [task EXCEPT ![e] = Ended]
     /\ UNCHANGED <<category, usual, edit, kept>>

\* The queue lives in memory: the end of the process or its time-out loses it.
LoseTask(e) ==
  /\ task[e].stage \in {"queued", "saving"}
  /\ task' = [task EXCEPT ![e] = Ended]
  /\ UNCHANGED <<category, filed, usual, edit, kept>>

---------------------------------------------------------------------------
(* The user.                                                               *)

BeginEdit(r) ==
  /\ edit = Null
  /\ r \in Purchases => InBooks(r)
  /\ edit' = [row |-> r, loaded |-> filed[r]]
  /\ UNCHANGED <<category, filed, usual, task, kept>>

\* save() of a row read with its relation: a category that was loaded wins over
\* the one given; without one, what the edition carries is written, NULL too.
SaveEdit ==
  /\ edit # Null
  /\ edit' = Null
  /\ \E given \in Perhaps(category) :
       LET saved == IF edit.loaded # Null THEN edit.loaded ELSE given
       IN IF saved \in Perhaps(category)
          THEN /\ filed' = [filed EXCEPT ![edit.row] = saved]
               /\ kept' = [kept EXCEPT ![edit.row] = IF edit.loaded # Null THEN @ ELSE given]
          ELSE UNCHANGED <<filed, kept>>
  /\ UNCHANGED <<category, usual, task>>

\* ON DELETE: the subcategories go too, and the references become NULL.
RemoveCategory(c) ==
  LET gone == {d \in category : d = c \/ ParentOf[d] = c}
      Without(v) == IF v \in gone THEN Null ELSE v
  IN /\ c \in category
     /\ category' = category \ gone
     /\ filed' = [r \in Rows |-> Without(filed[r])]
     /\ kept' = [r \in Rows |-> Without(kept[r])]
     /\ usual' = Without(usual)
     /\ UNCHANGED <<task, edit>>

SetUsual(c) ==
  /\ c # usual
  /\ usual' = c
  /\ UNCHANGED <<category, filed, task, edit, kept>>

CategorizationNext ==
  \/ \E e \in Purchases :
       \/ \E items \in SUBSET Articles :
            \/ ResolveLines(e, items)
            \/ \E given \in Perhaps(category) : CreateExpense(e, given, items)
       \/ RegisterExpense(e) \/ Unclassified(e) \/ Classify(e)
       \/ \E a \in Articles : AssignArticle(e, a)
       \/ UpdateExpenseCategory(e) \/ LoseTask(e)
  \/ \E r \in Rows : BeginEdit(r)
  \/ SaveEdit
  \/ \E c \in category : RemoveCategory(c)
  \/ \E c \in Perhaps(category) : SetUsual(c)

CategorizationSpec == CategorizationInit /\ [][CategorizationNext]_categorizationVars

---------------------------------------------------------------------------
(* Properties.                                                             *)

\* References lead to categories there are, and answers come after the question.
CategorizationTypeOK ==
  /\ category \subseteq Categories
  /\ \A r \in Rows : filed[r] \in Perhaps(category)
  /\ usual \in Perhaps(category)
  /\ \A e \in Purchases : /\ task[e] \in Task
                          /\ task[e].answer # NoAnswer => task[e].stage = "saving"

\* "nunca se pisa la que puso el usuario" (mail-ingestion.service.ts, categorize),
\* "la heredo de su unico articulo, ...: esa se respeta": whatever the task read
\* and however late it answers, a category put by the user in an expense or in
\* an article, or inherited by the expense, is there until its user changes it
\* or removes the category.
LateAnswerYields == \A r \in Rows : kept[r] # Null => filed[r] = kept[r]

=============================================================================
