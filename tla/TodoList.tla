------------------------------ MODULE TodoList ------------------------------
(***************************************************************************)
(* The todo list of a user (tools/todo_tool.py), in the memory of the      *)
(* process.  The items are objects that the list refers to: one that is    *)
(* named twice by a reorder stands in two places and has one order.  What  *)
(* the tool refuses (no content, an unknown id, an unknown status) changes *)
(* nothing.                                                                *)
(***************************************************************************)
EXTENDS Naturals, Sequences, SequencesExt

CONSTANTS TodoIds    \* the ids that uuid4() gives

VARIABLES
  todos,       \* the list, of ids
  todoOrder,   \* TodoItem.order
  todoStatus,  \* TodoItem.status
  promised,    \* history: the items that todo_added has told of, todo_removed has not
  doubled      \* history: a reorder has named an id twice

todoVars == <<todos, todoOrder, todoStatus, promised, doubled>>

TodoStatuses == {"pending", "completed"}

TodoTypeOK ==
  /\ todos \in Seq(TodoIds) /\ promised \subseteq TodoIds /\ doubled \in BOOLEAN
  /\ todoOrder \in [TodoIds -> Nat]
  /\ todoStatus \in [TodoIds -> TodoStatuses \cup {"none", "gone"}]

TodoInit ==
  /\ todos = <<>> /\ promised = {} /\ doubled = FALSE
  /\ todoOrder = [t \in TodoIds |-> 0] /\ todoStatus = [t \in TodoIds |-> "none"]

FirstPlace(list, t) ==
  CHOOSE i \in DOMAIN list : list[i] = t /\ \A j \in DOMAIN list : list[j] = t => i <= j
LastPlace(list, t) ==
  CHOOSE i \in DOMAIN list : list[i] = t /\ \A j \in DOMAIN list : list[j] = t => j <= i

\* The order of an item is the last of its positions in the list.
Numbered(list) ==
  [t \in TodoIds |-> IF t \in Range(list) THEN LastPlace(list, t) - 1 ELSE 0]

\* An id that none has had; which one makes no difference.
Fresh == {t \in TodoIds : todoStatus[t] = "none"}

AddTodo ==
  \E t \in Fresh, mark \in TodoStatuses :
    /\ t = CHOOSE u \in Fresh : TRUE
    /\ todos' = Append(todos, t) /\ promised' = promised \cup {t}
    /\ todoOrder' = [todoOrder EXCEPT ![t] = Len(todos)]
    /\ todoStatus' = [todoStatus EXCEPT ![t] = mark]
    /\ UNCHANGED doubled

UpdateTodo ==
  \E t \in Range(todos), mark \in TodoStatuses :
    /\ todoStatus' = [todoStatus EXCEPT ![t] = mark]
    /\ UNCHANGED <<todos, todoOrder, promised, doubled>>

\* Mutant of Renumbered, which violates CallsAreHandled.
KeepsNumbers(list) == todoOrder

Renumbered(list) == Numbered(list)

\* An item that the list no longer refers to is gone.
Forgotten(list) ==
  [t \in TodoIds |-> IF t \in Range(todos) \ Range(list) THEN "gone" ELSE todoStatus[t]]

\* The first place of the item is taken out of the list.
RemoveTodo ==
  \E t \in Range(todos) :
    LET rest == RemoveAt(todos, FirstPlace(todos, t)) IN
    /\ todos' = rest /\ todoOrder' = Renumbered(rest) /\ promised' = promised \ {t}
    /\ todoStatus' = Forgotten(rest) /\ UNCHANGED doubled

\* Mutant of MayReorder, which violates CallsAreHandled.
KnowsAll(ids) == Range(ids) \subseteq Range(todos)

\* As many ids as there are items, and every one is known.  The ids that the tool
\* is given here are all known, too few or right in number.
MayReorder(ids) == Len(ids) = Len(todos) /\ Range(ids) \subseteq Range(todos)

ReorderTodos ==
  \E n \in 1..Len(todos) : \E ids \in [1..n -> Range(todos)] :
    /\ n + 1 >= Len(todos) /\ MayReorder(ids)
    /\ todos' = ids /\ todoOrder' = Numbered(ids) /\ todoStatus' = Forgotten(ids)
    /\ doubled' = (doubled \/ (n = Len(todos) /\ Range(ids) # Range(todos)))
    /\ UNCHANGED promised

TodoNext == AddTodo \/ UpdateTodo \/ RemoveTodo \/ ReorderTodos

TodoSpec == TodoInit /\ [][TodoNext]_todoVars

-----------------------------------------------------------------------------
\* The list without a filter, sorted by order (sorted() keeps the places of items of
\* one order), and with one, as it stands.
ComesBefore(i, j) ==
  \/ todoOrder[todos[i]] < todoOrder[todos[j]]
  \/ todoOrder[todos[i]] = todoOrder[todos[j]] /\ i < j
PlacesByOrder ==
  CHOOSE p \in [DOMAIN todos -> DOMAIN todos] :
    \A i, j \in DOMAIN todos : i < j => ComesBefore(p[i], p[j])
ShownTodos == [i \in DOMAIN todos |-> todos[PlacesByOrder[i]]]

ByStatus(list, mark) == SelectSeq(list, LAMBDA t : todoStatus[t] = mark)
ShownWith(mark) == ByStatus(todos, mark)

\* What was added is listed once until it is removed, and a list by status has its
\* items in the order of the whole one, through any adding, removing and reordering
\* but a reorder that names an id twice, which drops an item that it does not name.
TodosAreKept ==
  doubled \/ /\ Range(todos) = promised /\ IsInjective(todos)
             /\ \A mark \in TodoStatuses : ShownWith(mark) = ByStatus(ShownTodos, mark)
=============================================================================
