----------------------------- MODULE MailProofs -----------------------------
(***************************************************************************)
(* Why a suggestion yields to the user, and why the mail as a whole keeps    *)
(* its types and its references, for any number of purchases, articles,      *)
(* workers and synchronisations.                                             *)
(***************************************************************************)
EXTENDS MCMail, MailIngestionProofs

-----------------------------------------------------------------------------
(* Why a late answer yields.  The comparison of UpdateCategoryIfUnchanged is *)
(* by value, so it is safe only because the category an expense was          *)
(* registered with cannot come back: the user changes it by removing it      *)
(* (DefaultGone), and an edition that began before writes back what it read  *)
(* (EditAgrees).                                                             *)

Typing ==
  /\ category \subseteq Categories
  /\ filed \in [Rows -> Perhaps(category)]
  /\ usual \in Perhaps(category)
  /\ task \in [Purchases -> Task]
  /\ kept \in [Rows -> Perhaps(Categories)]
  /\ \/ edit = Null
     \/ edit \in [row : Rows, loaded : Perhaps(Categories)]

(* A task that may still write over the default of the sender. *)
MayOverwrite(e) == /\ task[e].stage \in {"queued", "saving"}
                   /\ task[e].mail
                   /\ task[e].usual # Null

DefaultGone ==
  \A e \in Purchases : MayOverwrite(e) =>
    /\ task[e].initial = task[e].usual
    /\ kept[e] # task[e].initial
    /\ filed[e] # task[e].initial => task[e].initial \notin category

(* What the edition in flight read. *)
EditAgrees ==
  edit # Null =>
    /\ edit.row \in Purchases =>
         /\ InBooks(edit.row)
         /\ MayOverwrite(edit.row) /\ edit.loaded # task[edit.row].initial
              => task[edit.row].initial \notin category
    /\ kept[edit.row] # Null => edit.loaded \in {Null, kept[edit.row]}

LateInv == Typing /\ LateAnswerYields /\ DefaultGone /\ EditAgrees

LEMMA CategorizationStart == CategorizationInit => LateInv
<1> SUFFICES ASSUME CategorizationInit PROVE LateInv
  OBVIOUS
<1>1. NoTask \in Task
  BY DEF NoTask, Task, NoAnswer, Perhaps
<1>2. Typing
  BY <1>1 DEF CategorizationInit, Typing, Perhaps
<1>3. LateAnswerYields /\ DefaultGone /\ EditAgrees
  BY DEF CategorizationInit, LateAnswerYields, DefaultGone, EditAgrees, MayOverwrite, NoTask
<1> QED BY <1>2, <1>3 DEF LateInv

(* What a task is made of. *)
LEMMA TaskAttributes ==
  ASSUME Typing, NEW e \in Purchases
  PROVE  /\ task[e] \in Task
         /\ task[e].usual \in Perhaps(Categories)
         /\ task[e].initial \in Perhaps(Categories)
         /\ task[e].whole \in Perhaps(Categories)
         /\ task[e].answer \in [Articles -> Perhaps(Categories)]
         /\ task[e].lines \in SUBSET Articles
         /\ task[e].asked \in SUBSET Articles
  BY DEF Typing, Task

(* The inherited category is one there is. *)
LEMMA ResolvedExists ==
  ASSUME Typing, NEW given \in Perhaps(category), NEW items \in SUBSET Articles
  PROVE  ResolveCategory(given, items) \in Perhaps(category)
<1>1. CASE given = Null /\ \E a \in items : items = {a}
  <2>1. PICK a \in items : items = {a}
    BY <1>1
  <2>2. (CHOOSE b \in items : TRUE) = a
    BY <2>1
  <2>3. filed[a] \in Perhaps(category)
    BY DEF Typing, Rows
  <2> QED BY <1>1, <2>1, <2>2, <2>3 DEF ResolveCategory
<1>2. CASE ~(given = Null /\ \E a \in items : items = {a})
  BY <1>2 DEF ResolveCategory, Perhaps
<1> QED BY <1>1, <1>2

(* A step that changes the task of one expense which nothing else shows. *)
LEMMA OneTaskMoves ==
  ASSUME LateInv, NEW e \in Purchases, NEW s \in Task, task' = [task EXCEPT ![e] = s],
         UNCHANGED <<category, filed, usual, edit, kept>>,
         InBooks(e) => s.stage \notin {"none", "lines"},
         s.stage \in {"queued", "saving"} =>
           /\ MayOverwrite(e) \/ ~s.mail \/ s.usual = Null
           /\ s.usual = task[e].usual /\ s.initial = task[e].initial
  PROVE  LateInv'
<1>1. Typing'
  BY DEF LateInv, Typing
<1>2. \A f \in Purchases : f # e => task'[f] = task[f]
  BY DEF LateInv, Typing
<1>3. task'[e] = s
  BY DEF LateInv, Typing
<1>4. DefaultGone'
  BY <1>2, <1>3 DEF LateInv, DefaultGone, MayOverwrite
<1>5. EditAgrees'
  BY <1>2, <1>3 DEF LateInv, EditAgrees, MayOverwrite, InBooks
<1>6. LateAnswerYields'
  BY DEF LateInv, LateAnswerYields
<1> QED BY <1>1, <1>4, <1>5, <1>6 DEF LateInv

LEMMA ResolveLinesKeepsLateInv ==
  ASSUME LateInv, NEW e \in Purchases, NEW items \in SUBSET Articles, ResolveLines(e, items)
  PROVE  LateInv'
<1> DEFINE s == [NoTask EXCEPT !.stage = "lines", !.mail = TRUE,
                  !.lines = items, !.asked = Uncategorized(items), !.usual = usual]
<1>1. s \in Task /\ s.stage = "lines"
  BY DEF NoTask, Task, NoAnswer, Perhaps, Uncategorized, LateInv, Typing
<1>2. task' = [task EXCEPT ![e] = s] /\ UNCHANGED <<category, filed, usual, edit, kept>>
  BY DEF ResolveLines
<1>3. ~InBooks(e)
  BY DEF ResolveLines, InBooks
<1> HIDE DEF s
<1> QED BY <1>1, <1>2, <1>3, OneTaskMoves

LEMMA UnclassifiedKeepsLateInv ==
  ASSUME LateInv, NEW e \in Purchases, Unclassified(e)
  PROVE  LateInv'
<1> DEFINE s == [task[e] EXCEPT !.stage = "saving", !.asked = {}, !.whole = task[e].usual]
<1>1. s \in Task
  BY TaskAttributes DEF Task, LateInv
<1>2. /\ s.stage = "saving" /\ s.usual = task[e].usual
      /\ s.initial = task[e].initial /\ s.mail = task[e].mail
  BY TaskAttributes DEF Task, LateInv
<1>3. task' = [task EXCEPT ![e] = s]
  BY DEF Unclassified, LateInv, Typing
<1>4. task[e].stage = "queued" /\ UNCHANGED <<category, filed, usual, edit, kept>>
  BY DEF Unclassified
<1> HIDE DEF s
<1>5. MayOverwrite(e) \/ ~s.mail \/ s.usual = Null
  BY <1>2, <1>4 DEF MayOverwrite
<1> QED BY <1>1, <1>2, <1>3, <1>4, <1>5, OneTaskMoves

LEMMA ClassifyKeepsLateInv ==
  ASSUME LateInv, NEW e \in Purchases, Classify(e)
  PROVE  LateInv'
<1>1. PICK answer \in [task[e].asked -> Perhaps(category)], choice \in Perhaps(category),
           rejected \in BOOLEAN :
        task' = [task EXCEPT ![e].stage = "saving", ![e].asked = {},
          ![e].answer = [a \in Articles |-> IF a \in task[e].asked THEN answer[a] ELSE Null],
          ![e].whole = ResolveExpenseCategory(task[e].usual, choice, rejected)]
  BY DEF Classify
<1> DEFINE answers == [a \in Articles |-> IF a \in task[e].asked THEN answer[a] ELSE Null]
           whole == ResolveExpenseCategory(task[e].usual, choice, rejected)
           s == [task[e] EXCEPT !.stage = "saving", !.asked = {}, !.answer = answers, !.whole = whole]
<1>2. answers \in [Articles -> Perhaps(Categories)] /\ whole \in Perhaps(Categories)
  BY TaskAttributes DEF LateInv, Typing, Perhaps, ResolveExpenseCategory
<1> HIDE DEF answers, whole
<1>3. s \in Task
  BY <1>2, TaskAttributes DEF Task, LateInv
<1>4. /\ s.stage = "saving" /\ s.usual = task[e].usual
      /\ s.initial = task[e].initial /\ s.mail = task[e].mail
  BY TaskAttributes DEF Task, LateInv
<1>5. task' = [task EXCEPT ![e] = s]
  BY <1>1 DEF LateInv, Typing, answers, whole
<1>6. task[e].stage = "queued" /\ UNCHANGED <<category, filed, usual, edit, kept>>
  BY DEF Classify
<1> HIDE DEF s
<1>7. MayOverwrite(e) \/ ~s.mail \/ s.usual = Null
  BY <1>4, <1>6 DEF MayOverwrite
<1> QED BY <1>3, <1>4, <1>5, <1>6, <1>7, OneTaskMoves

LEMMA LoseTaskKeepsLateInv ==
  ASSUME LateInv, NEW e \in Purchases, LoseTask(e)
  PROVE  LateInv'
<1>1. Ended \in Task /\ Ended.stage = "done"
  BY DEF Ended, NoTask, Task, NoAnswer, Perhaps
<1>2. task' = [task EXCEPT ![e] = Ended] /\ UNCHANGED <<category, filed, usual, edit, kept>>
  BY DEF LoseTask
<1> QED BY <1>1, <1>2, OneTaskMoves

(* An expense enters the books: a row no edition holds. *)
LEMMA NewExpense ==
  ASSUME LateInv, NEW e \in Purchases, ~InBooks(e), NEW s \in Task, NEW c \in Perhaps(category),
         NEW k \in {Null, c},
         task' = [task EXCEPT ![e] = s], filed' = [filed EXCEPT ![e] = c],
         kept' = [kept EXCEPT ![e] = k], UNCHANGED <<category, usual, edit>>,
         s.mail /\ s.usual # Null => s.initial = s.usual /\ c = s.usual /\ k = Null
  PROVE  LateInv'
<1>1. e \in Rows /\ c \in Perhaps(Categories) /\ k \in Perhaps(Categories)
  BY DEF Rows, Perhaps, LateInv, Typing
<1>2. /\ \A f \in Purchases : f # e => task'[f] = task[f]
      /\ \A r \in Rows : r # e => filed'[r] = filed[r] /\ kept'[r] = kept[r]
      /\ task'[e] = s /\ filed'[e] = c /\ kept'[e] = k
  BY <1>1 DEF LateInv, Typing
<1>3. edit # Null => edit.row # e /\ edit.row \in Rows
  BY DEF LateInv, Typing, EditAgrees
<1>4. Typing'
  BY <1>1 DEF LateInv, Typing
<1>5. LateAnswerYields'
  BY <1>1, <1>2 DEF LateInv, LateAnswerYields
<1>6. DefaultGone'
  <2> SUFFICES ASSUME NEW f \in Purchases, MayOverwrite(f)'
               PROVE  /\ task'[f].initial = task'[f].usual
                      /\ kept'[f] # task'[f].initial
                      /\ filed'[f] # task'[f].initial => task'[f].initial \notin category'
    BY DEF DefaultGone
  <2>1. CASE f = e
    BY <1>2, <2>1 DEF MayOverwrite
  <2>2. CASE f # e
    <3>1. MayOverwrite(f) /\ f \in Rows
      BY <1>2, <2>2 DEF MayOverwrite, Rows
    <3> QED BY <1>2, <2>2, <3>1 DEF LateInv, DefaultGone
  <2> QED BY <2>1, <2>2
<1>7. EditAgrees'
  BY <1>2, <1>3 DEF LateInv, EditAgrees, MayOverwrite, InBooks
<1> QED BY <1>4, <1>5, <1>6, <1>7 DEF LateInv

LEMMA RegisterExpenseKeepsLateInv ==
  ASSUME LateInv, NEW e \in Purchases, RegisterExpense(e)
  PROVE  LateInv'
<1> DEFINE c == ResolveCategory(task[e].usual, task[e].lines)
<1>1. task[e].stage = "lines" /\ ~InBooks(e)
  BY DEF RegisterExpense, InBooks
<1>2. CASE task[e].usual \in Perhaps(category)
  <2> DEFINE s == [task[e] EXCEPT !.stage = "queued", !.lines = {}, !.initial = c]
             k == IF task[e].usual = Null THEN c ELSE Null
  <2>1. c \in Perhaps(category) /\ (task[e].usual # Null => c = task[e].usual)
    BY <1>2, ResolvedExists, TaskAttributes DEF LateInv, ResolveCategory
  <2>2. /\ task' = [task EXCEPT ![e] = s]
        /\ filed' = [filed EXCEPT ![e] = c] /\ kept' = [kept EXCEPT ![e] = k]
        /\ UNCHANGED <<category, usual, edit>>
    BY <1>2 DEF RegisterExpense, LateInv, Typing
  <2> HIDE DEF c
  <2>3. s \in Task /\ s.usual = task[e].usual /\ s.initial = c
    BY <2>1, TaskAttributes DEF Task, LateInv, Typing, Perhaps
  <2>4. k \in {Null, c} /\ (task[e].usual # Null => k = Null)
    OBVIOUS
  <2> HIDE DEF s, k
  <2> QED BY <1>1, <2>1, <2>2, <2>3, <2>4, NewExpense
<1>3. CASE task[e].usual \notin Perhaps(category)
  <2>1. task' = [task EXCEPT ![e] = NoTask] /\ UNCHANGED <<category, filed, usual, edit, kept>>
    BY <1>3 DEF RegisterExpense
  <2>2. NoTask \in Task /\ NoTask.stage = "none"
    BY DEF NoTask, Task, NoAnswer, Perhaps
  <2> QED BY <1>1, <2>1, <2>2, OneTaskMoves
<1> QED BY <1>2, <1>3

LEMMA CreateExpenseKeepsLateInv ==
  ASSUME LateInv, NEW e \in Purchases, NEW given \in Perhaps(category),
         NEW items \in SUBSET Articles, CreateExpense(e, given, items)
  PROVE  LateInv'
<1> DEFINE c == ResolveCategory(given, items)
           s == IF Uncategorized(items) = {} THEN Ended
                ELSE [NoTask EXCEPT !.stage = "queued", !.asked = Uncategorized(items), !.initial = c]
<1>1. c \in Perhaps(category)
  BY ResolvedExists DEF LateInv
<1>2. ~InBooks(e)
  BY DEF CreateExpense, InBooks
<1>3. /\ task' = [task EXCEPT ![e] = s] /\ filed' = [filed EXCEPT ![e] = c]
      /\ kept' = [kept EXCEPT ![e] = c] /\ UNCHANGED <<category, usual, edit>>
  BY DEF CreateExpense
<1> HIDE DEF c
<1>4. s \in Task /\ ~s.mail
  BY <1>1 DEF Ended, NoTask, Task, NoAnswer, Perhaps, Uncategorized, LateInv, Typing
<1> HIDE DEF s
<1> QED BY <1>1, <1>2, <1>3, <1>4, NewExpense

LEMMA AssignArticleKeepsLateInv ==
  ASSUME LateInv, NEW e \in Purchases, NEW a \in Articles, AssignArticle(e, a)
  PROVE  LateInv'
<1> DEFINE s == [task[e] EXCEPT !.answer = [task[e].answer EXCEPT ![a] = Null]]
<1>1. /\ task[e].stage = "saving" /\ task' = [task EXCEPT ![e] = s]
      /\ UNCHANGED <<category, usual, edit, kept>>
  BY DEF AssignArticle, LateInv, Typing
<1>2. s \in Task /\ s.stage = "saving" /\ s.usual = task[e].usual
      /\ s.initial = task[e].initial /\ s.mail = task[e].mail
  BY <1>1, TaskAttributes DEF Task, LateInv, Perhaps
<1> HIDE DEF s
<1>3. \A f \in Purchases : /\ MayOverwrite(f)' <=> MayOverwrite(f)
                           /\ task'[f].initial = task[f].initial /\ task'[f].usual = task[f].usual
                           /\ InBooks(f)' <=> InBooks(f)
  BY <1>1, <1>2 DEF LateInv, Typing, MayOverwrite, InBooks
<1>4. \/ filed' = filed
      \/ /\ filed[a] = Null /\ filed' = [filed EXCEPT ![a] = task[e].answer[a]]
         /\ task[e].answer[a] \in category
  BY DEF AssignArticle, AssignCategoryIfMissing, LateInv, Typing, Rows
<1>5. Typing'
  BY <1>1, <1>2, <1>4 DEF LateInv, Typing, Perhaps, Rows
<1>6. LateAnswerYields'
  BY <1>1, <1>4 DEF LateInv, Typing, LateAnswerYields, Rows
<1>7. DefaultGone'
  <2> SUFFICES ASSUME NEW f \in Purchases, MayOverwrite(f)
               PROVE  /\ task[f].initial = task[f].usual
                      /\ kept[f] # task[f].initial
                      /\ filed'[f] # task[f].initial => task[f].initial \notin category
    BY <1>1, <1>3 DEF DefaultGone
  <2>1. f \in Rows /\ task[f].initial # Null /\ task[f].initial = task[f].usual
    BY DEF Rows, LateInv, DefaultGone, MayOverwrite
  <2>2. filed'[f] = filed[f] \/ filed[f] = Null
    BY <1>4, <2>1 DEF LateInv, Typing
  <2> QED BY <2>1, <2>2 DEF LateInv, DefaultGone
<1>8. EditAgrees'
  BY <1>1, <1>3 DEF LateInv, EditAgrees
<1> QED BY <1>5, <1>6, <1>7, <1>8 DEF LateInv

(* The statement that compares: the category it would write over is the        *)
(* default, or there is none.                                                  *)
LEMMA UpdateExpenseCategoryKeepsLateInv ==
  ASSUME LateInv, NEW e \in Purchases, UpdateExpenseCategory(e)
  PROVE  LateInv'
<1>1. /\ task[e].stage = "saving" /\ task' = [task EXCEPT ![e] = Ended]
      /\ UNCHANGED <<category, usual, edit, kept>>
  BY DEF UpdateExpenseCategory
<1>2. Ended \in Task /\ Ended.stage = "done"
  BY DEF Ended, NoTask, Task, NoAnswer, Perhaps
<1>3. e \in Rows /\ InBooks(e)
  BY <1>1 DEF Rows, InBooks
<1>4. /\ task'[e].stage = "done" /\ \A f \in Purchases : f # e => task'[f] = task[f]
  BY <1>1, <1>2 DEF LateInv, Typing
<1>5. \/ filed' = filed
      \/ /\ Replaces(task[e]) /\ filed[e] = task[e].initial /\ task[e].whole \in category
         /\ filed' = [filed EXCEPT ![e] = task[e].whole]
  BY <1>3 DEF UpdateExpenseCategory, UpdateCategoryIfUnchanged, LateInv, Typing
<1>6. filed' # filed => kept[e] = Null
  <2> SUFFICES ASSUME filed' # filed, kept[e] # Null PROVE FALSE
    OBVIOUS
  <2>1. kept[e] = task[e].initial
    BY <1>3, <1>5 DEF LateInv, LateAnswerYields
  <2>2. task[e].mail /\ task[e].usual # Null
    BY <1>5, <2>1 DEF Replaces
  <2> QED BY <1>1, <2>1, <2>2 DEF LateInv, DefaultGone, MayOverwrite
<1>7. Typing'
  BY <1>1, <1>2, <1>5 DEF LateInv, Typing, Perhaps
<1>8. LateAnswerYields'
  BY <1>1, <1>3, <1>5, <1>6 DEF LateInv, Typing, LateAnswerYields
<1>9. DefaultGone'
  <2> SUFFICES ASSUME NEW f \in Purchases, MayOverwrite(f)'
               PROVE  /\ task'[f].initial = task'[f].usual
                      /\ kept'[f] # task'[f].initial
                      /\ filed'[f] # task'[f].initial => task'[f].initial \notin category'
    BY DEF DefaultGone
  <2>1. f # e
    BY <1>4 DEF MayOverwrite
  <2>2. task'[f] = task[f] /\ MayOverwrite(f) /\ f \in Rows
    BY <1>4, <2>1 DEF MayOverwrite, Rows
  <2>3. filed'[f] = filed[f]
    BY <1>5, <2>1, <2>2 DEF LateInv, Typing
  <2> QED BY <1>1, <2>2, <2>3 DEF LateInv, DefaultGone
<1>10. EditAgrees'
  BY <1>1, <1>3, <1>4 DEF LateInv, EditAgrees, MayOverwrite, InBooks
<1> QED BY <1>7, <1>8, <1>9, <1>10 DEF LateInv

LEMMA BeginEditKeepsLateInv ==
  ASSUME LateInv, NEW r \in Rows, BeginEdit(r)
  PROVE  LateInv'
<1>1. edit' = [row |-> r, loaded |-> filed[r]] /\ (r \in Purchases => InBooks(r))
      /\ UNCHANGED <<category, filed, usual, task, kept>>
  BY DEF BeginEdit
<1>2. filed[r] \in Perhaps(Categories)
  BY DEF LateInv, Typing, Perhaps
<1>3. Typing'
  BY <1>1, <1>2 DEF LateInv, Typing
<1>4. LateAnswerYields' /\ DefaultGone'
  BY <1>1 DEF LateInv, LateAnswerYields, DefaultGone, MayOverwrite
<1>5. EditAgrees'
  BY <1>1 DEF LateInv, LateAnswerYields, DefaultGone, EditAgrees, MayOverwrite, InBooks
<1> QED BY <1>3, <1>4, <1>5 DEF LateInv

LEMMA SaveEditKeepsLateInv ==
  ASSUME LateInv, SaveEdit
  PROVE  LateInv'
<1> DEFINE r == edit.row
<1>1. edit # Null /\ edit' = Null /\ UNCHANGED <<category, usual, task>>
  BY DEF SaveEdit
<1>2. r \in Rows /\ edit.loaded \in Perhaps(Categories)
  BY <1>1 DEF LateInv, Typing
<1>3. PICK given \in Perhaps(category) :
        LET saved == IF edit.loaded # Null THEN edit.loaded ELSE given
        IN IF saved \in Perhaps(category)
           THEN /\ filed' = [filed EXCEPT ![r] = saved]
                /\ kept' = [kept EXCEPT ![r] = IF edit.loaded # Null THEN @ ELSE given]
           ELSE UNCHANGED <<filed, kept>>
  BY DEF SaveEdit
<1> DEFINE saved == IF edit.loaded # Null THEN edit.loaded ELSE given
           k == IF edit.loaded # Null THEN kept[r] ELSE given
<1>4. CASE saved \in Perhaps(category)
  <2>1. filed' = [filed EXCEPT ![r] = saved] /\ kept' = [kept EXCEPT ![r] = k]
    BY <1>2, <1>3, <1>4 DEF LateInv, Typing
  <2>2. k \in Perhaps(Categories) /\ (k # Null => saved = k)
    BY <1>1, <1>2 DEF LateInv, Typing, EditAgrees, Perhaps
  <2>3. r \in Purchases /\ MayOverwrite(r) /\ saved # task[r].initial =>
          task[r].initial \notin category
    BY <1>1 DEF LateInv, EditAgrees, DefaultGone, MayOverwrite
  <2>4. r \in Purchases /\ MayOverwrite(r) => k # task[r].initial
    <3> SUFFICES ASSUME r \in Purchases, MayOverwrite(r) PROVE k # task[r].initial
      OBVIOUS
    <3>1. task[r].initial # Null /\ kept[r] # task[r].initial
      BY DEF LateInv, DefaultGone, MayOverwrite
    <3>2. CASE edit.loaded # Null
      BY <3>1, <3>2
    <3>3. CASE edit.loaded = Null
      <4>1. task[r].initial \notin category
        BY <1>1, <3>1, <3>3 DEF LateInv, EditAgrees
      <4> QED BY <3>1, <3>3, <4>1 DEF Perhaps
    <3> QED BY <3>2, <3>3
  <2> HIDE DEF saved, k
  <2>5. Typing'
    BY <1>1, <1>2, <1>4, <2>1, <2>2 DEF LateInv, Typing
  <2>6. LateAnswerYields'
    BY <1>2, <2>1, <2>2 DEF LateInv, Typing, LateAnswerYields
  <2>7. DefaultGone'
    <3> SUFFICES ASSUME NEW f \in Purchases, MayOverwrite(f)
                 PROVE  /\ task[f].initial = task[f].usual
                        /\ kept'[f] # task[f].initial
                        /\ filed'[f] # task[f].initial => task[f].initial \notin category
      BY <1>1 DEF DefaultGone, MayOverwrite
    <3>1. f \in Rows
      BY DEF Rows
    <3>2. CASE f = r
      BY <1>2, <2>1, <2>3, <2>4, <3>2 DEF LateInv, Typing, DefaultGone
    <3>3. CASE f # r
      BY <1>2, <2>1, <3>1, <3>3 DEF LateInv, Typing, DefaultGone
    <3> QED BY <3>2, <3>3
  <2>8. EditAgrees'
    BY <1>1 DEF EditAgrees
  <2> QED BY <2>5, <2>6, <2>7, <2>8 DEF LateInv
<1>5. CASE saved \notin Perhaps(category)
  <2>1. UNCHANGED <<filed, kept>>
    BY <1>3, <1>5
  <2> QED BY <1>1, <2>1 DEF LateInv, Typing, LateAnswerYields, DefaultGone, EditAgrees, MayOverwrite
<1> QED BY <1>4, <1>5

LEMMA RemoveCategoryKeepsLateInv ==
  ASSUME LateInv, NEW c \in category, RemoveCategory(c)
  PROVE  LateInv'
<1> DEFINE gone == {d \in category : d = c \/ ParentOf[d] = c}
           Without(v) == IF v \in gone THEN Null ELSE v
<1>1. /\ category' = category \ gone
      /\ filed' = [r \in Rows |-> Without(filed[r])]
      /\ kept' = [r \in Rows |-> Without(kept[r])]
      /\ usual' = Without(usual)
      /\ UNCHANGED <<task, edit>>
  BY DEF RemoveCategory
<1>2. gone \subseteq category /\ Null \notin gone
  BY CategorizationAssumption DEF LateInv, Typing
<1> HIDE DEF gone
<1>3. Typing'
  BY <1>1, <1>2 DEF LateInv, Typing, Perhaps
<1>4. LateAnswerYields'
  BY <1>1 DEF LateInv, LateAnswerYields
<1>5. DefaultGone'
  <2> SUFFICES ASSUME NEW f \in Purchases, MayOverwrite(f)
               PROVE  /\ task[f].initial = task[f].usual
                      /\ kept'[f] # task[f].initial
                      /\ filed'[f] # task[f].initial => task[f].initial \notin category'
    BY <1>1 DEF DefaultGone, MayOverwrite
  <2>1. f \in Rows /\ task[f].initial # Null
    BY DEF Rows, LateInv, DefaultGone, MayOverwrite
  <2> QED BY <1>1, <1>2, <2>1 DEF LateInv, DefaultGone
<1>6. EditAgrees'
  <2> SUFFICES ASSUME edit # Null
               PROVE  /\ edit.row \in Purchases =>
                           /\ InBooks(edit.row)
                           /\ MayOverwrite(edit.row) /\ edit.loaded # task[edit.row].initial
                                => task[edit.row].initial \notin category'
                      /\ kept'[edit.row] # Null => edit.loaded \in {Null, kept'[edit.row]}
    BY <1>1 DEF EditAgrees, InBooks, MayOverwrite
  <2>1. edit.row \in Rows
    BY DEF LateInv, Typing
  <2> QED BY <1>1, <1>2, <2>1 DEF LateInv, EditAgrees
<1> QED BY <1>3, <1>4, <1>5, <1>6 DEF LateInv

LEMMA SetUsualKeepsLateInv ==
  ASSUME LateInv, NEW c \in Perhaps(category), SetUsual(c)
  PROVE  LateInv'
  BY DEF LateInv, Typing, LateAnswerYields, DefaultGone, EditAgrees, MayOverwrite, InBooks, SetUsual

LEMMA CategorizationStep == LateInv /\ [CategorizationNext]_categorizationVars => LateInv'
<1> SUFFICES ASSUME LateInv, [CategorizationNext]_categorizationVars PROVE LateInv'
  OBVIOUS
<1>1. CASE \E e \in Purchases : \E items \in SUBSET Articles :
             \/ ResolveLines(e, items)
             \/ \E given \in Perhaps(category) : CreateExpense(e, given, items)
  BY <1>1, ResolveLinesKeepsLateInv, CreateExpenseKeepsLateInv
<1>2. CASE \E e \in Purchases :
             \/ RegisterExpense(e) \/ Unclassified(e) \/ Classify(e)
             \/ \E a \in Articles : AssignArticle(e, a)
             \/ UpdateExpenseCategory(e) \/ LoseTask(e)
  BY <1>2, RegisterExpenseKeepsLateInv, UnclassifiedKeepsLateInv, ClassifyKeepsLateInv,
     AssignArticleKeepsLateInv, UpdateExpenseCategoryKeepsLateInv, LoseTaskKeepsLateInv
<1>3. CASE (\E r \in Rows : BeginEdit(r)) \/ SaveEdit
  BY <1>3, BeginEditKeepsLateInv, SaveEditKeepsLateInv
<1>4. CASE \/ \E c \in category : RemoveCategory(c)
           \/ \E c \in Perhaps(category) : SetUsual(c)
  BY <1>4, RemoveCategoryKeepsLateInv, SetUsualKeepsLateInv
<1>5. CASE UNCHANGED categorizationVars
  BY <1>5 DEF categorizationVars, LateInv, Typing, LateAnswerYields, DefaultGone, EditAgrees,
     MayOverwrite, InBooks
<1> QED BY <1>1, <1>2, <1>3, <1>4, <1>5 DEF CategorizationNext

(* However late the model answers, in whatever order the tasks write and the   *)
(* user edits, the category a user put or an expense inherited stays.          *)
THEOREM SuggestionsYield == CategorizationSpec => []LateAnswerYields
<1>1. LateInv => LateAnswerYields
  BY DEF LateInv
<1> QED BY <1>1, CategorizationStart, CategorizationStep, PTL DEF CategorizationSpec

(* Only a task that is writing has an answer. *)
Answered == \A e \in Purchases : task[e].answer # NoAnswer => task[e].stage = "saving"

LEMMA FreshTasks ==
  NoTask.answer = NoAnswer /\ Ended.answer = NoAnswer
  BY DEF NoTask, Ended

LEMMA AnsweredStep ==
  ASSUME LateInv, Answered, [CategorizationNext]_categorizationVars
  PROVE  Answered'
<1>1. DOMAIN task = Purchases /\ \A e \in Purchases : task[e] \in Task
  BY DEF LateInv, Typing
<1>2. ASSUME NEW e \in Purchases, NEW s, task' = [task EXCEPT ![e] = s],
             s.answer # NoAnswer => s.stage = "saving"
      PROVE  Answered'
  <2>1. task'[e] = s /\ \A f \in Purchases \ {e} : task'[f] = task[f]
    BY <1>1, <1>2
  <2> QED BY <1>2, <2>1 DEF Answered
<1>3. ASSUME task' = task PROVE Answered'
  BY <1>3 DEF Answered
<1>4. ASSUME NEW e \in Purchases, NEW items \in SUBSET Articles, ResolveLines(e, items)
      PROVE  Answered'
  <2> DEFINE s == [NoTask EXCEPT !.stage = "lines", !.mail = TRUE, !.lines = items,
                                 !.asked = Uncategorized(items), !.usual = usual]
  <2>1. task' = [task EXCEPT ![e] = s]
    BY <1>4 DEF ResolveLines
  <2>2. s.answer = NoAnswer
    BY DEF NoTask
  <2> HIDE DEF s
  <2> QED BY <1>2, <2>1, <2>2
<1>5. ASSUME NEW e \in Purchases, NEW items \in SUBSET Articles,
             NEW given \in Perhaps(category), CreateExpense(e, given, items)
      PROVE  Answered'
  <2> DEFINE s == [NoTask EXCEPT !.stage = "queued", !.asked = Uncategorized(items),
                                 !.initial = ResolveCategory(given, items)]
  <2>1. task' = [task EXCEPT ![e] = Ended] \/ task' = [task EXCEPT ![e] = s]
    BY <1>5 DEF CreateExpense
  <2>2. s.answer = NoAnswer
    BY DEF NoTask
  <2> HIDE DEF s
  <2> QED BY <1>2, <2>1, <2>2, FreshTasks
<1>6. ASSUME NEW e \in Purchases, RegisterExpense(e) PROVE Answered'
  <2> DEFINE s == [task[e] EXCEPT !.stage = "queued", !.lines = {},
                                  !.initial = ResolveCategory(task[e].usual, task[e].lines)]
  <2>1. task' = [task EXCEPT ![e] = NoTask] \/ task' = [task EXCEPT ![e] = s]
    BY <1>1, <1>6 DEF RegisterExpense
  <2>2. task[e].answer = NoAnswer
    BY <1>6 DEF RegisterExpense, Answered
  <2>3. s.answer = NoAnswer
    BY <1>1, <2>2 DEF Task
  <2> HIDE DEF s
  <2> QED BY <1>2, <2>1, <2>3, FreshTasks
<1>7. ASSUME NEW e \in Purchases, Unclassified(e) PROVE Answered'
  <2> DEFINE s == [task[e] EXCEPT !.stage = "saving", !.asked = {}, !.whole = task[e].usual]
  <2>1. task' = [task EXCEPT ![e] = s]
    BY <1>1, <1>7 DEF Unclassified
  <2>2. s.stage = "saving"
    BY <1>1 DEF Task
  <2> HIDE DEF s
  <2> QED BY <1>2, <2>1, <2>2
<1>8. ASSUME NEW e \in Purchases, Classify(e) PROVE Answered'
  <2>1. PICK answers, whole :
          task' = [task EXCEPT ![e].stage = "saving", ![e].asked = {}, ![e].answer = answers,
                               ![e].whole = whole]
    BY <1>8 DEF Classify
  <2> DEFINE s == [task[e] EXCEPT !.stage = "saving", !.asked = {}, !.answer = answers, !.whole = whole]
  <2>2. task' = [task EXCEPT ![e] = s]
    BY <1>1, <2>1
  <2>3. s.stage = "saving"
    BY <1>1 DEF Task
  <2> HIDE DEF s
  <2> QED BY <1>2, <2>2, <2>3
<1>9. ASSUME NEW e \in Purchases, NEW a \in Articles, AssignArticle(e, a) PROVE Answered'
  <2> DEFINE s == [task[e] EXCEPT !.answer = [task[e].answer EXCEPT ![a] = Null]]
  <2>1. task' = [task EXCEPT ![e] = s] /\ task[e].stage = "saving"
    BY <1>1, <1>9 DEF AssignArticle
  <2>2. s.stage = "saving"
    BY <1>1, <2>1 DEF Task
  <2> HIDE DEF s
  <2> QED BY <1>2, <2>1, <2>2
<1>10. ASSUME NEW e \in Purchases, UpdateExpenseCategory(e) \/ LoseTask(e) PROVE Answered'
  <2>1. task' = [task EXCEPT ![e] = Ended]
    BY <1>10 DEF UpdateExpenseCategory, LoseTask
  <2> QED BY <1>2, <2>1, FreshTasks
<1>11. CASE \/ \E r \in Rows : BeginEdit(r)
            \/ SaveEdit
            \/ \E c \in category : RemoveCategory(c)
            \/ \E c \in Perhaps(category) : SetUsual(c)
            \/ UNCHANGED categorizationVars
  BY <1>3, <1>11 DEF BeginEdit, SaveEdit, RemoveCategory, SetUsual, categorizationVars
<1> QED
  BY <1>4, <1>5, <1>6, <1>7, <1>8, <1>9, <1>10, <1>11 DEF CategorizationNext

(* What is filed or usual is a category there is, whatever is removed while it  *)
(* is asked for or written, and only a task that is writing has an answer       *)
(* (assignCategoryIfMissing, updateCategoryIfUnchanged, ON DELETE).             *)
THEOREM CategoriesExist == CategorizationSpec => []CategorizationTypeOK
<1>1. CategorizationInit => LateInv /\ Answered
  BY CategorizationStart, FreshTasks DEF CategorizationInit, Answered
<1>2. LateInv /\ Answered /\ [CategorizationNext]_categorizationVars => LateInv' /\ Answered'
  BY CategorizationStep, AnsweredStep
<1>3. LateInv /\ Answered => CategorizationTypeOK
  BY DEF LateInv, Typing, Answered, CategorizationTypeOK
<1> QED BY <1>1, <1>2, <1>3, PTL DEF CategorizationSpec

-----------------------------------------------------------------------------
(* The subsystem of the mail: the instance of the ingestion that meets every   *)
(* fault has the theorems of MailIngestionProofs.                              *)

Again == INSTANCE MailIngestionProofs WITH
  Messages <- TwoMails, Carries <- OneInvoice, Faults <- LiveFaults,
  status <- log, link <- tie, reserved <- invoice, expenseOf <- books, worker <- hand

LEMMA AgainAssumed == Again!MailIngestionAssumption
  BY SettlingAssumption
  DEF Settling!MailIngestionAssumption, Again!MailIngestionAssumption,
      Settling!AllFaults, Again!AllFaults, Settling!Reservation, Again!Reservation

LEMMA SameSets ==
  /\ Settling!Statuses = Again!Statuses /\ Settling!Steps = Again!Steps
  /\ Settling!RETRYABLE = Again!RETRYABLE /\ Settling!Idle = Again!Idle
  /\ Settling!Reservation = Again!Reservation /\ Settling!WorkerState = Again!WorkerState
  BY DEF Settling!Statuses, Again!Statuses, Settling!Steps, Again!Steps,
         Settling!RETRYABLE, Again!RETRYABLE, Settling!Idle, Again!Idle,
         Settling!Reservation, Again!Reservation, Settling!WorkerState, Again!WorkerState

LEMMA SameStep == ASSUME NEW w PROVE Settling!Step(w) <=> Again!Step(w)
<1> USE DEF Settling!At, Again!At, Settling!Invoice, Again!Invoice, Settling!GoTo, Again!GoTo,
            Settling!Finish, Again!Finish, Settling!Rest, Again!Rest, Settling!Holds, Again!Holds,
            Settling!Idle, Again!Idle
<1>1. Settling!ReleaseStale(w) <=> Again!ReleaseStale(w)
  BY DEF Settling!ReleaseStale, Again!ReleaseStale, Settling!Stale, Again!Stale
<1>2. Settling!Mark(w) <=> Again!Mark(w)
  BY DEF Settling!Mark, Again!Mark
<1>3. Settling!Fetch(w) <=> Again!Fetch(w)
  BY DEF Settling!Fetch, Again!Fetch
<1>4. Settling!Reserve(w) <=> Again!Reserve(w)
  BY DEF Settling!Reserve, Again!Reserve, Settling!CanReserve, Again!CanReserve,
         Settling!ReserveFails, Again!ReserveFails
<1>5. Settling!Register(w) <=> Again!Register(w)
  BY DEF Settling!Register, Again!Register
<1>6. Settling!Release(w) <=> Again!Release(w)
  BY DEF Settling!Release, Again!Release
<1>7. Settling!Link(w) <=> Again!Link(w)
  BY DEF Settling!Link, Again!Link
<1>8. Settling!FinishStep(w) <=> Again!FinishStep(w)
  BY DEF Settling!FinishStep, Again!FinishStep
<1> QED
  BY <1>1, <1>2, <1>3, <1>4, <1>5, <1>6, <1>7, <1>8, Zenon DEF Settling!Step, Again!Step

LEMMA SameNext == Settling!Next <=> Again!Next
<1>1. ASSUME NEW w, NEW m
      PROVE  (Settling!Ingest(w, m) <=> Again!Ingest(w, m))
             /\ (Settling!BeginRetry(w, m) <=> Again!BeginRetry(w, m))
  BY DEF Settling!Ingest, Again!Ingest, Settling!BeginRetry, Again!BeginRetry, Settling!At, Again!At,
         Settling!Idle, Again!Idle, Settling!Busy, Again!Busy, Settling!RETRYABLE, Again!RETRYABLE
<1>2. ASSUME NEW e PROVE Settling!RemoveExpense(e) <=> Again!RemoveExpense(e)
  BY DEF Settling!RemoveExpense, Again!RemoveExpense
<1>3. Settling!Disconnect <=> Again!Disconnect
  BY DEF Settling!Disconnect, Again!Disconnect, Settling!At, Again!At
<1>4. Settling!Crash <=> Again!Crash
  BY DEF Settling!Crash, Again!Crash, Settling!At, Again!At, Settling!Idle, Again!Idle
<1> QED
  BY <1>1, <1>2, <1>3, <1>4, SameStep, Zenon DEF Settling!Next, Again!Next

LEMMA SameTypes ==
  /\ Settling!Init <=> Again!Init
  /\ Settling!TypeOK <=> Again!TypeOK
  /\ Settling!LinksSound <=> Again!LinksSound
<1>1. Settling!Init <=> Again!Init
  BY DEF Settling!Init, Again!Init, Settling!Idle, Again!Idle
<1>2. ASSUME NEW s PROVE Settling!Equipped(s) <=> Again!Equipped(s)
  BY DEF Settling!Equipped, Again!Equipped, Settling!Statuses, Again!Statuses
<1>3. Settling!TypeOK <=> Again!TypeOK
  BY <1>2, SameSets, Zenon DEF Settling!TypeOK, Again!TypeOK
<1>4. Settling!LinksSound <=> Again!LinksSound
  BY DEF Settling!LinksSound, Again!LinksSound
<1> QED BY <1>1, <1>3, <1>4

(* What the tables of that instance keep. *)
SettlingInv == Again!TypeOK /\ Again!References

LEMMA SettlingStart == Settling!Init => SettlingInv
  BY SameTypes, Again!InitTypeOK, Again!InitReferences, AgainAssumed, SyncAssumption, Zenon
  DEF SettlingInv

LEMMA SettlingStep == SettlingInv /\ (Settling!Next \/ UNCHANGED settleVars) => SettlingInv'
<1>1. UNCHANGED settleVars <=> UNCHANGED Again!vars
  BY DEF settleVars, Again!vars
<1> QED
  BY <1>1, SameNext, Again!NextTypeOK, Again!NextKeepsReferences, AgainAssumed, SyncAssumption, Zenon
  DEF SettlingInv

LEMMA SettlingSound == SettlingInv => Settling!TypeOK /\ Settling!LinksSound
<1>1. Again!References => Again!LinksSound
  BY DEF Again!References, Again!Logged, Again!Matched, Again!LinksSound
<1> QED BY <1>1, SameTypes, Zenon DEF SettlingInv

(* A step of the subsystem is a step of one part, and the others stay.          *)
LEMMA MailMoves ==
  [MailNext]_<<exercised, vars, settleVars, syncVars, categorizationVars>> =>
    /\ [Next]_vars /\ [Settling!Next]_settleVars
    /\ [SyncNext]_syncVars /\ [CategorizationNext]_categorizationVars
<1> SUFFICES ASSUME [MailNext]_<<exercised, vars, settleVars, syncVars, categorizationVars>>
             PROVE  /\ [Next]_vars /\ [Settling!Next]_settleVars
                    /\ [SyncNext]_syncVars /\ [CategorizationNext]_categorizationVars
  OBVIOUS
<1>1. CASE MailNext
  <2>1. CASE Next /\ UNCHANGED <<settleVars, syncVars, categorizationVars>>
    BY <2>1, Zenon
  <2>2. CASE Settling!Next /\ UNCHANGED <<vars, syncVars, categorizationVars>>
    BY <2>2, Zenon
  <2>3. CASE SyncNext /\ UNCHANGED <<vars, settleVars, categorizationVars>>
    BY <2>3, Zenon
  <2>4. CASE CategorizationNext /\ UNCHANGED <<vars, settleVars, syncVars>>
    BY <2>4, Zenon
  <2>5. \/ Arrive \/ Connect \/ AdoptHistory \/ SetSender(TRUE) \/ \E w \in {s1, s2} : SyncHistory(w)
        \/ Passing \/ Connecting \/ SyncHistory(s1)
        \/ (\E active \in BOOLEAN : SetSender(active)) \/ \E t \in {h1, h2} : Backfill(t)
        => SyncNext
    BY ExecutionsAssumption DEF SyncNext, Passing, Connecting
  <2>6. \/ Next /\ UNCHANGED <<settleVars, syncVars, categorizationVars>>
        \/ Settling!Next /\ UNCHANGED <<vars, syncVars, categorizationVars>>
        \/ SyncNext /\ UNCHANGED <<vars, settleVars, categorizationVars>>
        \/ CategorizationNext /\ UNCHANGED <<vars, settleVars, syncVars>>
    BY <1>1, <2>5, Zenon DEF MailNext
  <2> QED BY <2>1, <2>2, <2>3, <2>4, <2>6
<1>2. CASE UNCHANGED <<exercised, vars, settleVars, syncVars, categorizationVars>>
  BY <1>2, Zenon
<1> QED BY <1>1, <1>2, Zenon

(* Every behaviour of the subsystem is one of each of its parts, so what the     *)
(* theorems say of a part holds in the subsystem too.                            *)
THEOREM MailIsItsParts == MailSpec => Spec /\ Settling!Spec /\ SyncSpec /\ CategorizationSpec
<1>1. MailInit => Init /\ Settling!Init /\ SyncInit /\ CategorizationInit
  BY DEF MailInit
<1>2. [MailNext]_<<exercised, vars, settleVars, syncVars, categorizationVars>> =>
        /\ [Next]_vars /\ [Settling!Next]_(Settling!vars)
        /\ [SyncNext]_syncVars /\ [CategorizationNext]_categorizationVars
  BY MailMoves DEF settleVars, Settling!vars
<1> QED
  BY <1>1, <1>2, PTL DEF MailSpec, Spec, Settling!Spec, SyncSpec, CategorizationSpec

MailInv == TypeOK /\ SettlingInv /\ SyncInv /\ LateInv /\ Answered

LEMMA MailStep ==
  MailInv /\ [MailNext]_<<exercised, vars, settleVars, syncVars, categorizationVars>> => MailInv'
  BY MailMoves, NextTypeOK, SettlingStep, NextKeepsSync, CategorizationStep, AnsweredStep, Zenon
  DEF MailInv

(* Whichever part of the mail a behaviour exercises, the tables and what the   *)
(* executions know keep their types, and in the instance that meets every fault *)
(* that is not a crash no reference to an expense is crossed or left dangling.  *)
THEOREM MailTypeCorrect == MailSpec => []MailTypesOK
<1>1. MailInit => MailInv
  <2>1. CategorizationInit => LateInv /\ Answered
    BY CategorizationStart, FreshTasks DEF CategorizationInit, Answered
  <2> QED
    BY <2>1, InitTypeOK, SettlingStart, InitSync, Zenon DEF MailInit, MailInv
<1>2. MailInv => MailTypesOK
  BY SettlingSound DEF MailInv, MailTypesOK, SyncInv, LateInv, Typing, Answered, CategorizationTypeOK
<1> QED BY <1>1, <1>2, MailStep, PTL DEF MailSpec
=============================================================================
