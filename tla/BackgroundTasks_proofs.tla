----------------------- MODULE BackgroundTasks_proofs -----------------------
(***************************************************************************)
(* Proofs about BackgroundTasks for any number of processes on one table,  *)
(* of tasks and of starts: an end that is marked, and so not told again,   *)
(* was told or went down with a turn.  Whoever marks an end holds a proof  *)
(* of its telling; the inductive invariant says which one, at each place.  *)
(***************************************************************************)
EXTENDS BackgroundTasks, TLAPS

\* Told, on its way into the session, or lost with the turn that took it.
Accounted(t) == Told(t) \/ t \in dropped \/ \E p \in Processes : t \in carried[p]

\* A thread works for the process its task was submitted to.
ThreadHasOwner == \A t \in Tasks : thread[t] # "none" => owner[t] \in Processes

\* What a process remembers as marked is accounted for.
NotedIsAccounted == \A p \in Processes : \A t \in noted[p] : Accounted(t)

\* Who is about to mark an end has told it.
MarkerHasTold ==
  /\ \A p \in Processes : \A t \in told[p] : heard[p][t] > 0
  /\ \A t \in Tasks : thread[t] = "marking" => heard[owner[t]][t] > 0

TypeInv == TypeOK /\ ThreadHasOwner

IInv == TypeInv /\ MarkedIsTold /\ NotedIsAccounted /\ MarkerHasTold

-----------------------------------------------------------------------------

LEMMA InitInv == Init => IInv
  BY BackgroundAssumption
     DEF Init, IInv, TypeInv, TypeOK, ThreadHasOwner, MarkedIsTold, NotedIsAccounted,
         MarkerHasTold, Blank, Statuses, BackgroundAssumption

\* One more telling.
OnceMore(h, p, t) == [h EXCEPT ![p][t] = @ + 1]

LEMMA HeardOnceMore ==
  ASSUME NEW h \in [Processes -> [Tasks -> Nat]], NEW p \in Processes, NEW t \in Tasks
  PROVE  /\ OnceMore(h, p, t) \in [Processes -> [Tasks -> Nat]]
         /\ OnceMore(h, p, t)[p][t] > 0
         /\ \A q \in Processes, u \in Tasks : h[q][u] > 0 => OnceMore(h, p, t)[q][u] > 0
<1>1. h[p] \in [Tasks -> Nat] /\ h[p][t] + 1 \in Nat /\ h[p][t] + 1 > 0
  OBVIOUS
<1>. DEFINE g == [h[p] EXCEPT ![t] = h[p][t] + 1]
<1>2. g \in [Tasks -> Nat] /\ g[t] = h[p][t] + 1
  BY <1>1
<1>3. OnceMore(h, p, t) = [h EXCEPT ![p] = g]
  BY DEF OnceMore
<1>4. \A u \in Tasks : h[p][u] > 0 => g[u] > 0
  BY <1>1
<1>. HIDE DEF g
<1>5. /\ OnceMore(h, p, t) \in [Processes -> [Tasks -> Nat]]
      /\ OnceMore(h, p, t)[p] = g
      /\ \A q \in Processes : q # p => OnceMore(h, p, t)[q] = h[q]
  BY <1>2, <1>3
<1>. QED
  BY <1>1, <1>2, <1>4, <1>5

LEMMA NextType ==
  ASSUME TypeInv, [Next]_vars
  PROVE  TypeInv'
<1>. USE BackgroundAssumption DEF TypeInv, TypeOK, ThreadHasOwner, BackgroundAssumption,
         table, manager, threads, history, Statuses, Active, Ended
<1>1. ASSUME NEW p \in Processes, Recover(p)
      PROVE  TypeInv'
  BY <1>1 DEF Recover
<1>2. ASSUME NEW p \in Processes, Load(p)
      PROVE  TypeInv'
  BY <1>2 DEF Load
<1>3. ASSUME NEW p \in Processes, Listen(p)
      PROVE  TypeInv'
  <2>1. Untold(p) \in SUBSET Tasks
    BY DEF Untold
  <2>. QED
    BY <1>3, <2>1 DEF Listen
<1>4. ASSUME NEW p \in Processes, Replay(p)
      PROVE  TypeInv'
  <2>1. PICK t \in replay[p] :
          /\ replay' = [replay EXCEPT ![p] = @ \ {t}]
          /\ \/ told' = [told EXCEPT ![p] = {t}] /\ heard' = OnceMore(heard, p, t)
             \/ UNCHANGED <<told, heard>>
    BY <1>4 DEF Replay, OnceMore
  <2>2. t \in Tasks
    BY <2>1
  <2>3. heard' \in [Processes -> [Tasks -> Nat]]
    <3>1. heard \in [Processes -> [Tasks -> Nat]]
      OBVIOUS
    <3>2. OnceMore(heard, p, t) \in [Processes -> [Tasks -> Nat]]
      BY <2>2, <3>1, HeardOnceMore
    <3>. QED
      BY <2>1, <3>1, <3>2, Zenon
  <2>4. replay' \in [Processes -> SUBSET Tasks]
    BY <2>1
  <2>5. told' \in [Processes -> SUBSET Tasks]
    <3>1. told \in [Processes -> SUBSET Tasks] /\ {t} \in SUBSET Tasks
      BY <2>2
    <3>2. told' = [told EXCEPT ![p] = {t}] \/ told' = told
      BY <2>1
    <3>. HIDE DEF TypeInv, TypeOK, ThreadHasOwner
    <3>. QED
      BY <3>1, <3>2
  <2>. QED
    BY <1>4, <2>3, <2>4, <2>5 DEF Replay
<1>5. ASSUME NEW p \in Processes, ReplayMark(p)
      PROVE  TypeInv'
  BY <1>5 DEF ReplayMark, Marked, Save
<1>6. ASSUME NEW p \in Processes, NEW t \in Tasks, Submit(p, t)
      PROVE  TypeInv'
  BY <1>6 DEF Submit, Save
<1>7. ASSUME NEW p \in Processes, Drain(p)
      PROVE  TypeInv'
  <2>1. Untold(p) \in SUBSET Tasks
    BY DEF Untold
  <2>2. /\ carried' \in [Processes -> SUBSET Tasks] /\ noted' \in [Processes -> SUBSET Tasks]
        /\ turn' \in [Processes -> {"none", "begun", "works"}]
    BY <1>7, <2>1 DEF Drain
  <2>3. row' \in [Tasks -> Statuses] /\ delivered' \in SUBSET Tasks
    BY <1>7, <2>1, <2>2 DEF Drain, Save
  <2>. QED
    BY <1>7, <2>2, <2>3 DEF Drain
<1>8. ASSUME NEW p \in Processes, Append(p)
      PROVE  TypeInv'
  <2>1. PICK t \in carried[p] :
          /\ carried' = [carried EXCEPT ![p] = @ \ {t}]
          /\ read' = [read EXCEPT ![t] = @ + 1]
    BY <1>8 DEF Append
  <2>2. t \in Tasks /\ carried[p] \subseteq Tasks
    BY <2>1
  <2>3. carried' \in [Processes -> SUBSET Tasks]
    BY <2>1, <2>2
  <2>4. read' \in [Tasks -> Nat]
    BY <2>1, <2>2
  <2>. QED
    BY <1>8, <2>3, <2>4 DEF Append
<1>9. ASSUME NEW p \in Processes, Crash(p)
      PROVE  TypeInv'
  BY <1>9 DEF Crash, Blank
<1>10. ASSUME NEW t \in Tasks, Begin(t)
       PROVE  TypeInv'
  BY <1>10 DEF Begin, Save
<1>11. ASSUME NEW t \in Tasks, Finish(t)
       PROVE  TypeInv'
  BY <1>11 DEF Finish, Save, Results
<1>12. ASSUME NEW t \in Tasks, Tell(t)
       PROVE  TypeInv'
  <2>1. owner[t] \in Processes
    BY <1>12 DEF Tell
  <2>2. heard' = OnceMore(heard, owner[t], t) \/ heard' = heard
    BY <1>12 DEF Tell, OnceMore
  <2>3. heard' \in [Processes -> [Tasks -> Nat]]
    <3>1. heard \in [Processes -> [Tasks -> Nat]]
      OBVIOUS
    <3>2. OnceMore(heard, owner[t], t) \in [Processes -> [Tasks -> Nat]]
      BY <2>1, <3>1, HeardOnceMore
    <3>. QED
      BY <2>2, <3>1, <3>2, Zenon
  <2>. QED
    BY <1>12, <2>3 DEF Tell
<1>13. ASSUME NEW t \in Tasks, Mark(t)
       PROVE  TypeInv'
  <2>1. owner[t] \in Processes
    BY <1>13 DEF Mark
  <2>a. noted' \in [Processes -> SUBSET Tasks] /\ memory' = memory
    BY <1>13, <2>1 DEF Mark, Marked
  <2>b. row' \in [Tasks -> Statuses] /\ delivered' \in SUBSET Tasks
    BY <1>13, <2>1, <2>a DEF Mark, Marked, Save
  <2>3. thread' \in [Tasks -> {"none", "waiting", "running", "telling", "held", "replied", "marking"}]
    BY <1>13 DEF Mark
  <2>. QED
    BY <1>13, <2>a, <2>b, <2>3 DEF Mark
<1>14. CASE UNCHANGED vars
  BY <1>14 DEF vars
<1>15. ASSUME NEW p \in Processes, BeginTurn(p) \/ EndTurn(p)
       PROVE  TypeInv'
  <2>1. CASE BeginTurn(p)
    BY <2>1 DEF BeginTurn
  <2>2. CASE EndTurn(p)
    <3>1. /\ carried' \in [Processes -> SUBSET Tasks] /\ dropped' \in SUBSET Tasks
          /\ turn' \in [Processes -> {"none", "begun", "works"}]
      BY <2>2 DEF EndTurn
    <3>2. thread' = [t \in Tasks |-> IF owner[t] = p /\ thread[t] = "held" THEN "replied"
                                    ELSE thread[t]]
      BY <2>2 DEF EndTurn
    <3>3. /\ thread' \in [Tasks -> {"none", "waiting", "running", "telling", "held", "replied",
                                   "marking"}]
          /\ \A t \in Tasks : thread'[t] # "none" => thread[t] # "none"
      BY <3>2
    <3>. QED
      BY <2>2, <3>1, <3>3 DEF EndTurn
  <2>. QED
    BY <1>15, <2>1, <2>2
<1>16. ASSUME NEW t \in Tasks, Hold(t)
       PROVE  TypeInv'
  BY <1>16 DEF Hold
<1>. QED
  BY <1>1, <1>2, <1>3, <1>4, <1>5, <1>6, <1>7, <1>8, <1>9, <1>10, <1>11, <1>12, <1>13,
     <1>14, <1>15, <1>16 DEF Next, StartUp, Manage, Turn, Work

\* The types of the specification.
THEOREM TypeCorrect == Spec => []TypeOK
<1>1. Init => TypeInv
  BY InitInv DEF IInv
<1>2. TypeInv /\ [Next]_vars => TypeInv'
  BY NextType
<1>3. TypeInv => TypeOK
  BY DEF TypeInv
<1>. QED
  BY <1>1, <1>2, <1>3, PTL DEF Spec

-----------------------------------------------------------------------------
\* Nothing that is accounted for is ever forgotten.
LEMMA AccountedStays ==
  ASSUME TypeInv, [Next]_vars, NEW t \in Tasks, Accounted(t)
  PROVE  Accounted(t)'
<1>. USE DEF TypeInv, TypeOK, Accounted, Told, table, manager, threads, history
<1>1. ASSUME NEW p \in Processes, Replay(p)
      PROVE  Accounted(t)'
  <2>0. PICK u \in replay[p] : heard' = OnceMore(heard, p, u) \/ heard' = heard
    BY <1>1 DEF Replay, OnceMore
  <2>1. \A q \in Processes : heard[q][t] > 0 => heard'[q][t] > 0
    BY <2>0, HeardOnceMore
  <2>. QED
    BY <1>1, <2>1 DEF Replay
<1>2. ASSUME NEW p \in Processes, Drain(p)
      PROVE  Accounted(t)'
  BY <1>2 DEF Drain
<1>3. ASSUME NEW p \in Processes, Append(p)
      PROVE  Accounted(t)'
  <2>0. PICK u \in carried[p] :
          /\ carried' = [carried EXCEPT ![p] = @ \ {u}]
          /\ read' = [read EXCEPT ![u] = @ + 1]
          /\ UNCHANGED dropped
    BY <1>3 DEF Append
  <2>1. read[t] > 0 => read'[t] > 0
    <3>1. read[t] \in Nat /\ read \in [Tasks -> Nat]
      OBVIOUS
    <3>2. read' = [read EXCEPT ![u] = @ + 1] \/ read' = read
      BY <2>0
    <3>3. ASSUME read[t] > 0, read' = [read EXCEPT ![u] = @ + 1]
          PROVE  read'[t] > 0
      <4>1. CASE t = u
        BY <3>1, <3>3, <4>1
      <4>2. CASE t # u
        BY <3>1, <3>3, <4>2
      <4>. QED
        BY <4>1, <4>2
    <3>. QED
      BY <3>2, <3>3
  <2>2. t \in dropped => t \in dropped'
    BY <2>0
  <2>3. ASSUME NEW q \in Processes, t \in carried[q]
        PROVE  t \in carried'[q] \/ t \in dropped' \/ read'[t] > 0
    <3>1. CASE q # p
      BY <2>0, <2>3, <3>1
    <3>2. CASE q = p /\ t # u
      BY <2>0, <2>3, <3>2
    <3>3. CASE q = p /\ t = u
      BY <2>0, <2>3, <3>3
    <3>. QED
      BY <3>1, <3>2, <3>3
  <2>. QED
    BY <1>3, <2>1, <2>2, <2>3 DEF Append
<1>4. ASSUME NEW p \in Processes, Crash(p)
      PROVE  Accounted(t)'
  BY <1>4 DEF Crash
<1>5. ASSUME NEW u \in Tasks, Tell(u)
      PROVE  Accounted(t)'
  <2>1. owner[u] \in Processes
    BY <1>5 DEF Tell, ThreadHasOwner
  <2>2. heard' = OnceMore(heard, owner[u], u) \/ heard' = heard
    BY <1>5 DEF Tell, OnceMore
  <2>3. \A q \in Processes : heard[q][t] > 0 => heard'[q][t] > 0
    BY <2>1, <2>2, HeardOnceMore
  <2>. QED
    BY <1>5, <2>3 DEF Tell
<1>6. ASSUME NEW p \in Processes, StartUp(p) \/ ReplayMark(p)
      PROVE  Accounted(t)'
  BY <1>6 DEF StartUp, Recover, Load, Listen, ReplayMark
<1>7. ASSUME NEW p \in Processes, NEW u \in Tasks, Submit(p, u)
      PROVE  Accounted(t)'
  BY <1>7 DEF Submit
<1>8. ASSUME NEW u \in Tasks, Begin(u) \/ Finish(u) \/ Mark(u)
      PROVE  Accounted(t)'
  BY <1>8 DEF Begin, Finish, Mark
<1>9. CASE UNCHANGED vars
  BY <1>9 DEF vars
<1>10. ASSUME NEW p \in Processes, BeginTurn(p) \/ EndTurn(p)
       PROVE  Accounted(t)'
  BY <1>10 DEF BeginTurn, EndTurn
<1>11. ASSUME NEW u \in Tasks, Hold(u)
       PROVE  Accounted(t)'
  BY <1>11 DEF Hold
<1>. QED
  BY <1>1, <1>2, <1>3, <1>4, <1>5, <1>6, <1>7, <1>8, <1>9, <1>10, <1>11
     DEF Next, Manage, Turn, Work

\* A step that saves only what is accounted for keeps both marks accounted for.
LEMMA SavedMarks ==
  ASSUME IInv, [Next]_vars,
         \A t \in delivered' : t \in delivered \/ Accounted(t)'
                               \/ \E p \in Processes : t \in noted[p],
         \A p \in Processes : \A t \in noted'[p] :
           t \in noted[p] \/ t \in delivered \/ Accounted(t)'
  PROVE  MarkedIsTold' /\ NotedIsAccounted'
<1>1. TypeInv /\ TypeInv'
  BY NextType DEF IInv
<1>2. \A t \in Tasks : Accounted(t) => Accounted(t)'
  BY <1>1, AccountedStays
<1>3. /\ delivered \subseteq Tasks /\ delivered' \subseteq Tasks
      /\ \A p \in Processes : noted[p] \subseteq Tasks /\ noted'[p] \subseteq Tasks
  BY <1>1 DEF TypeInv, TypeOK
<1>4. /\ \A t \in delivered : Accounted(t)
      /\ \A p \in Processes : \A t \in noted[p] : Accounted(t)
  BY DEF IInv, MarkedIsTold, NotedIsAccounted, Accounted
<1>5. \A t \in delivered' : Accounted(t)'
  BY <1>2, <1>3, <1>4
<1>6. NotedIsAccounted'
  BY <1>2, <1>3, <1>4 DEF NotedIsAccounted
<1>. QED
  BY <1>5, <1>6 DEF MarkedIsTold, Accounted

LEMMA NextInv ==
  ASSUME IInv, [Next]_vars
  PROVE  IInv'
<1>t. TypeInv /\ TypeInv'
  BY NextType DEF IInv
<1>. USE <1>t DEF TypeInv, TypeOK, table, manager, threads, history
<1>1. MarkerHasTold'
  <2>. USE DEF IInv, MarkerHasTold
  <2>1. ASSUME NEW p \in Processes, Replay(p)
        PROVE  MarkerHasTold'
    <3>0. PICK u \in replay[p] :
            \/ told' = [told EXCEPT ![p] = {u}] /\ heard' = OnceMore(heard, p, u)
            \/ UNCHANGED <<told, heard>>
      BY <2>1 DEF Replay, OnceMore
    <3>1. \A q \in Processes, t \in Tasks : heard[q][t] > 0 => heard'[q][t] > 0
      BY <3>0, HeardOnceMore
    <3>2. \A q \in Processes : \A t \in told'[q] : heard'[q][t] > 0
      <4>1. CASE UNCHANGED told
        BY <3>1, <4>1
      <4>2. CASE told' = [told EXCEPT ![p] = {u}] /\ heard' = OnceMore(heard, p, u)
        <5>1. u \in Tasks /\ heard'[p][u] > 0
          BY <4>2, HeardOnceMore
        <5>2. told'[p] = {u} /\ \A q \in Processes : q # p => told'[q] = told[q]
          BY <4>2
        <5>. QED
          BY <3>1, <5>1, <5>2
      <4>. QED
        BY <3>0, <4>1, <4>2
    <3>3. \A t \in Tasks : thread[t] = "marking" => heard'[owner[t]][t] > 0
      BY <3>1 DEF ThreadHasOwner
    <3>. QED
      BY <2>1, <3>2, <3>3 DEF Replay
  <2>2. ASSUME NEW u \in Tasks, Tell(u)
        PROVE  MarkerHasTold'
    <3>0. \/ heard' = OnceMore(heard, owner[u], u)
          \/ heard' = heard /\ thread'[u] = "none"
      BY <2>2 DEF Tell, OnceMore
    <3>1. owner[u] \in Processes
      BY <2>2 DEF Tell, ThreadHasOwner
    <3>2. \A q \in Processes, t \in Tasks : heard[q][t] > 0 => heard'[q][t] > 0
      BY <3>0, <3>1, HeardOnceMore
    <3>3. \A q \in Processes : \A t \in told[q] : heard'[q][t] > 0
      BY <3>2
    <3>4. thread'[u] = "marking" => heard'[owner[u]][u] > 0
      BY <3>0, <3>1, HeardOnceMore
    <3>5. \A t \in Tasks : t # u => thread'[t] = thread[t]
      BY <2>2 DEF Tell
    <3>6. \A t \in Tasks : thread'[t] = "marking" => heard'[owner[t]][t] > 0
      BY <3>2, <3>4, <3>5 DEF ThreadHasOwner
    <3>. QED
      BY <2>2, <3>3, <3>6 DEF Tell
  <2>3. ASSUME NEW p \in Processes, StartUp(p) \/ ReplayMark(p) \/ Turn(p) \/ Crash(p)
        PROVE  MarkerHasTold'
    <3>1. CASE StartUp(p) \/ Turn(p)
      BY <3>1 DEF StartUp, Recover, Load, Listen, Turn, BeginTurn, Drain, Append, EndTurn
    <3>2. CASE ReplayMark(p)
      BY <3>2 DEF ReplayMark
    <3>3. CASE Crash(p)
      BY <3>3 DEF Crash
    <3>. QED
      BY <2>3, <3>1, <3>2, <3>3
  <2>4. ASSUME NEW p \in Processes, NEW u \in Tasks, Submit(p, u)
        PROVE  MarkerHasTold'
    BY <2>4 DEF Submit
  <2>5. ASSUME NEW u \in Tasks, Begin(u) \/ Finish(u) \/ Hold(u) \/ Mark(u)
        PROVE  MarkerHasTold'
    BY <2>5 DEF Begin, Finish, Hold, Mark
  <2>6. CASE UNCHANGED vars
    BY <2>6 DEF vars
  <2>. QED
    BY <2>1, <2>2, <2>3, <2>4, <2>5, <2>6 DEF Next, Manage, Work
<1>2. /\ \A t \in delivered' : t \in delivered \/ Accounted(t)'
                               \/ \E p \in Processes : t \in noted[p]
      /\ \A p \in Processes : \A t \in noted'[p] :
           t \in noted[p] \/ t \in delivered \/ Accounted(t)'
  <2>1. ASSUME NEW p \in Processes, ReplayMark(p)
        PROVE  <1>2!1 /\ <1>2!2
    <3>1. PICK u \in told[p] : Marked(p, u)
      BY <2>1 DEF ReplayMark
    <3>2. u \in Tasks /\ heard'[p][u] > 0
      BY <2>1, <3>1 DEF ReplayMark, IInv, MarkerHasTold
    <3>3. Accounted(u)'
      BY <3>2 DEF Accounted, Told
    <3>. QED
      BY <3>1, <3>2, <3>3 DEF Marked, Save
  <2>2. ASSUME NEW u \in Tasks, Mark(u)
        PROVE  <1>2!1 /\ <1>2!2
    <3>1. owner[u] \in Processes /\ Marked(owner[u], u)
      BY <2>2 DEF Mark, ThreadHasOwner
    <3>2. heard'[owner[u]][u] > 0
      BY <2>2 DEF Mark, IInv, MarkerHasTold
    <3>3. Accounted(u)'
      BY <3>1, <3>2 DEF Accounted, Told
    <3>. QED
      BY <3>1, <3>3 DEF Marked, Save
  <2>3. ASSUME NEW p \in Processes, Drain(p)
        PROVE  <1>2!1 /\ <1>2!2
    <3>1. \A t \in Untold(p) : Accounted(t)'
      BY <2>3 DEF Drain, Accounted, Untold
    <3>2. noted'[p] = noted[p] \cup Untold(p)
      BY <2>3 DEF Drain
    <3>3. \A t \in delivered' : t \in delivered \/ t \in Untold(p)
      BY <2>3 DEF Drain, Save
    <3>4. \A q \in Processes : q # p => noted'[q] = noted[q]
      BY <2>3 DEF Drain
    <3>. QED
      BY <3>1, <3>2, <3>3, <3>4
  <2>4. ASSUME NEW p \in Processes, NEW u \in Tasks, Submit(p, u)
        PROVE  <1>2!1 /\ <1>2!2
    BY <2>4 DEF Submit, Save
  <2>5. ASSUME NEW u \in Tasks, Begin(u) \/ Finish(u)
        PROVE  <1>2!1 /\ <1>2!2
    <3>1. owner[u] \in Processes
      BY <2>5 DEF Begin, Finish, ThreadHasOwner
    <3>. QED
      BY <2>5, <3>1 DEF Begin, Finish, Save
  <2>6. ASSUME NEW p \in Processes, StartUp(p) \/ Replay(p) \/ BeginTurn(p) \/ Append(p)
                                    \/ EndTurn(p) \/ Crash(p)
        PROVE  <1>2!1 /\ <1>2!2
    BY <2>6 DEF StartUp, Recover, Load, Listen, Replay, BeginTurn, Append, EndTurn, Crash
  <2>7. ASSUME NEW u \in Tasks, Hold(u) \/ Tell(u)
        PROVE  <1>2!1 /\ <1>2!2
    BY <2>7 DEF Hold, Tell
  <2>8. CASE UNCHANGED vars
    BY <2>8 DEF vars
  <2>. QED
    BY <2>1, <2>2, <2>3, <2>4, <2>5, <2>6, <2>7, <2>8 DEF Next, Manage, Turn, Work
<1>3. MarkedIsTold' /\ NotedIsAccounted'
  BY <1>2, SavedMarks
<1>. QED
  BY <1>1, <1>3 DEF IInv

\* Whatever the crashes, the listeners that raise and the processes that share
\* the table: an end that is marked was told, is about to be put into the
\* session, or went down with the turn that had drained it.
THEOREM NoEndIsForgotten == Spec => []MarkedIsTold
<1>1. Init => IInv
  BY InitInv
<1>2. IInv /\ [Next]_vars => IInv'
  BY NextInv
<1>3. IInv => MarkedIsTold
  BY DEF IInv
<1>. QED
  BY <1>1, <1>2, <1>3, PTL DEF Spec
-----------------------------------------------------------------------------
(* Each end reaches the listener of a process once for each of its starts. *)

Telling == {"telling", "held", "replied"}
Working == {"waiting", "running"}

\* Threads and turns end with their process.
LivesInItsProcess ==
  /\ \A t \in Tasks : thread[t] # "none" => life[owner[t]] = "up"
  /\ \A p \in Processes : turn[p] # "none" => life[p] = "up"

\* The manager's memory says what the thread of a task does, and only a process that has a
\* listener has a thread that tells it.
MemoryFollowsThread == \A t \in Tasks :
  /\ thread[t] \in Working => memory[owner[t]][t] \in Active
  /\ thread[t] \in Telling => owner[t] \in listening /\ memory[owner[t]][t] \in Ended

\* No process knows of a task that was not submitted.
NotYetSubmitted == \A t \in Tasks : owner[t] = Nobody =>
  row[t] = "absent" /\ \A p \in Processes : memory[p][t] = "absent"

\* What is told to a new listener had ended before, and no thread tells it.
ReplayIsLate == \A p \in Processes :
  /\ p \in listening => life[p] = "up"
  /\ \A t \in replay[p] : /\ p \in listening /\ memory[p][t] \in Ended
                          /\ ~(owner[t] = p /\ thread[t] \in Telling)

LifeInv == LivesInItsProcess /\ MemoryFollowsThread /\ NotYetSubmitted /\ ReplayIsLate

LEMMA ThreadKinds ==
  ASSUME TypeInv
  PROVE  \A t \in Tasks :
           /\ thread[t] # "none" => owner[t] \in Processes /\ owner[t] # Nobody
           /\ thread[t] \in {"none", "marking"} \cup Working \cup Telling
  BY BackgroundAssumption DEF TypeInv, TypeOK, ThreadHasOwner, Working, Telling,
     BackgroundAssumption

LEMMA NextLife ==
  ASSUME TypeInv, LifeInv, [Next]_vars
  PROVE  LifeInv'
<1>. USE ThreadKinds, BackgroundAssumption
     DEF LifeInv, LivesInItsProcess, MemoryFollowsThread, NotYetSubmitted, ReplayIsLate,
         Working, Telling, Active, Ended, TypeInv, TypeOK, BackgroundAssumption,
         table, manager, threads, history
<1>1. ASSUME NEW p \in Processes, Recover(p)
      PROVE  LifeInv'
  BY <1>1 DEF Recover, AtWork
<1>2. ASSUME NEW p \in Processes, Load(p)
      PROVE  LifeInv'
  BY <1>2 DEF Load
<1>3. ASSUME NEW p \in Processes, Listen(p)
      PROVE  LifeInv'
  BY <1>3 DEF Listen, Untold
<1>4. ASSUME NEW p \in Processes, Replay(p)
      PROVE  LifeInv'
  BY <1>4 DEF Replay
<1>5. ASSUME NEW p \in Processes, ReplayMark(p)
      PROVE  LifeInv'
  BY <1>5 DEF ReplayMark, Marked, Save
<1>6. ASSUME NEW p \in Processes, NEW t \in Tasks, Submit(p, t)
      PROVE  LifeInv'
  <2>1. \A q \in Processes, u \in Tasks :
          memory'[q][u] = IF q = p /\ u = t THEN "queued" ELSE memory[q][u]
    BY <1>6 DEF Submit
  <2>2. \A u \in Tasks : /\ thread'[u] = IF u = t THEN "waiting" ELSE thread[u]
                         /\ owner'[u] = IF u = t THEN p ELSE owner[u]
                         /\ row'[u] = IF u = t THEN memory'[p][t] ELSE row[u]
    BY <1>6 DEF Submit, Save
  <2>3. owner[t] = Nobody /\ thread[t] = "none" /\ UNCHANGED <<life, listening, replay, turn>>
    BY <1>6 DEF Submit
  <2>4. life[p] = "up"
    BY <1>6 DEF Submit
  <2>5. LivesInItsProcess'
    <3>1. ASSUME NEW u \in Tasks, thread'[u] # "none" PROVE life'[owner'[u]] = "up"
      <4>1. CASE u = t
        BY <2>2, <2>3, <2>4, <4>1
      <4>2. CASE u # t
        BY <2>2, <2>3, <3>1, <4>2
      <4>. QED
        BY <4>1, <4>2
    <3>2. \A q \in Processes : turn'[q] # "none" => life'[q] = "up"
      BY <2>3
    <3>. QED
      BY <3>1, <3>2
  <2>6. MemoryFollowsThread'
    <3>. SUFFICES ASSUME NEW u \in Tasks
                  PROVE  /\ thread'[u] \in Working => memory'[owner'[u]][u] \in Active
                         /\ thread'[u] \in Telling => /\ owner'[u] \in listening'
                                                      /\ memory'[owner'[u]][u] \in Ended
      OBVIOUS
    <3>1. CASE u = t
      BY <2>1, <2>2, <3>1
    <3>2. CASE u # t
      <4>1. thread[u] # "none" => owner[u] \in Processes
        OBVIOUS
      <4>2. thread[u] # "none" => memory'[owner[u]][u] = memory[owner[u]][u]
        BY <2>1, <3>2, <4>1
      <4>. QED
        BY <2>2, <2>3, <3>2, <4>2
    <3>. QED
      BY <3>1, <3>2
  <2>7. NotYetSubmitted'
    BY <2>1, <2>2, <2>3
  <2>8. ReplayIsLate'
    BY <2>1, <2>2, <2>3
  <2>. QED
    BY <2>5, <2>6, <2>7, <2>8
<1>7. ASSUME NEW p \in Processes, Drain(p)
      PROVE  LifeInv'
  BY <1>7 DEF Drain, Save, Untold
<1>8. ASSUME NEW p \in Processes, Append(p)
      PROVE  LifeInv'
  BY <1>8 DEF Append
<1>9. ASSUME NEW p \in Processes, Crash(p)
      PROVE  LifeInv'
  BY <1>9 DEF Crash, Blank
<1>10. ASSUME NEW t \in Tasks, Begin(t)
       PROVE  LifeInv'
  <2>1. owner[t] \in Processes /\ owner[t] # Nobody
    BY <1>10 DEF Begin
  <2>2. /\ memory'[owner[t]][t] = "running"
        /\ \A q \in Processes, u \in Tasks :
             ~(q = owner[t] /\ u = t) => memory'[q][u] = memory[q][u]
    BY <1>10, <2>1 DEF Begin
  <2>3. \A u \in Tasks : u # t => thread'[u] = thread[u] /\ row'[u] = row[u]
    BY <1>10 DEF Begin, Save
  <2>4. thread[t] = "waiting" /\ thread'[t] = "running"
    BY <1>10 DEF Begin
  <2>5. UNCHANGED <<owner, life, listening, replay, turn>>
    BY <1>10 DEF Begin
  <2>6. LivesInItsProcess' /\ NotYetSubmitted'
    BY <2>1, <2>2, <2>3, <2>4, <2>5
  <2>7. MemoryFollowsThread'
    BY <2>1, <2>2, <2>3, <2>4, <2>5
  <2>8. ReplayIsLate'
    <3>1. \A q \in Processes, u \in Tasks : u \in replay[q] => ~(q = owner[t] /\ u = t)
      BY <2>4
    <3>2. \A q \in Processes, u \in Tasks : u \in replay'[q] =>
            /\ q \in listening' /\ memory'[q][u] \in Ended
            /\ ~(owner'[u] = q /\ thread'[u] \in Telling)
      <4>. SUFFICES ASSUME NEW q \in Processes, NEW u \in Tasks, u \in replay[q]
                    PROVE  /\ q \in listening /\ memory'[q][u] \in Ended
                           /\ ~(owner[u] = q /\ thread'[u] \in Telling)
        BY <2>5
      <4>1. q \in listening /\ memory[q][u] \in Ended /\ ~(owner[u] = q /\ thread[u] \in Telling)
        OBVIOUS
      <4>2. CASE u # t
        BY <2>2, <2>3, <4>1, <4>2
      <4>3. CASE u = t
        BY <2>2, <3>1, <4>1, <4>3
      <4>. QED
        BY <4>2, <4>3
    <3>3. \A q \in Processes : replay'[q] \subseteq Tasks
      BY <2>5
    <3>. QED
      BY <2>5, <3>2, <3>3
  <2>. QED
    BY <2>6, <2>7, <2>8
<1>11. ASSUME NEW t \in Tasks, Finish(t)
       PROVE  LifeInv'
  <2>1. owner[t] \in Processes /\ owner[t] # Nobody
    BY <1>11 DEF Finish
  <2>2. /\ memory'[owner[t]][t] \in Results
        /\ \A q \in Processes, u \in Tasks :
             ~(q = owner[t] /\ u = t) => memory'[q][u] = memory[q][u]
    BY <1>11, <2>1 DEF Finish
  <2>3. \A u \in Tasks : u # t => thread'[u] = thread[u] /\ row'[u] = row[u]
    BY <1>11 DEF Finish, Save
  <2>4. /\ thread[t] = "running"
        /\ thread'[t] = IF owner[t] \in listening THEN "telling" ELSE "none"
    BY <1>11 DEF Finish
  <2>5. UNCHANGED <<owner, life, listening, replay, turn>>
    BY <1>11 DEF Finish
  <2>6. LivesInItsProcess' /\ NotYetSubmitted'
    BY <2>1, <2>2, <2>3, <2>4, <2>5
  <2>7. MemoryFollowsThread'
    BY <2>1, <2>2, <2>3, <2>4, <2>5 DEF Results
  <2>8. ReplayIsLate'
    <3>1. \A q \in Processes, u \in Tasks : u \in replay[q] => ~(q = owner[t] /\ u = t)
      BY <2>4
    <3>2. \A q \in Processes, u \in Tasks : u \in replay'[q] =>
            /\ q \in listening' /\ memory'[q][u] \in Ended
            /\ ~(owner'[u] = q /\ thread'[u] \in Telling)
      <4>. SUFFICES ASSUME NEW q \in Processes, NEW u \in Tasks, u \in replay[q]
                    PROVE  /\ q \in listening /\ memory'[q][u] \in Ended
                           /\ ~(owner[u] = q /\ thread'[u] \in Telling)
        BY <2>5
      <4>1. q \in listening /\ memory[q][u] \in Ended /\ ~(owner[u] = q /\ thread[u] \in Telling)
        OBVIOUS
      <4>2. CASE u # t
        BY <2>2, <2>3, <4>1, <4>2
      <4>3. CASE u = t
        BY <2>2, <3>1, <4>1, <4>3
      <4>. QED
        BY <4>2, <4>3
    <3>3. \A q \in Processes : replay'[q] \subseteq Tasks
      BY <2>5
    <3>. QED
      BY <2>5, <3>2, <3>3
  <2>. QED
    BY <2>6, <2>7, <2>8
<1>12. ASSUME NEW t \in Tasks, Tell(t) \/ Hold(t)
       PROVE  LifeInv'
  BY <1>12 DEF Tell, Hold
<1>13. ASSUME NEW t \in Tasks, Mark(t)
       PROVE  LifeInv'
  BY <1>13 DEF Mark, Marked, Save
<1>14. ASSUME NEW p \in Processes, BeginTurn(p) \/ EndTurn(p)
       PROVE  LifeInv'
  BY <1>14 DEF BeginTurn, EndTurn
<1>15. CASE UNCHANGED vars
  BY <1>15 DEF vars
<1>. QED
  BY <1>1, <1>2, <1>3, <1>4, <1>5, <1>6, <1>7, <1>8, <1>9, <1>10, <1>11, <1>12, <1>13,
     <1>14, <1>15 DEF Next, StartUp, Manage, Turn, Work

\* Whether this start of p may still tell the end of t to its listener.
StillToTell(p, t) ==
  \/ p \notin listening \/ t \in replay[p] \/ owner[t] = Nobody
  \/ owner[t] = p /\ thread[t] \in Working \cup Telling

HeardPerStart == \A p \in Processes, t \in Tasks :
  /\ heard[p][t] <= starts[p]
  /\ life[p] # "down" /\ StillToTell(p, t) => heard[p][t] < starts[p]

\* Who has not told more and may not tell more than before has not told too much.
LEMMA NothingTold ==
  ASSUME TypeInv, TypeInv', HeardPerStart, UNCHANGED <<heard, starts>>,
         \A p \in Processes, t \in Tasks :
           life'[p] # "down" /\ StillToTell(p, t)' => life[p] # "down" /\ StillToTell(p, t)
  PROVE  HeardPerStart'
  BY DEF HeardPerStart

LEMMA OnlyOnceMore ==
  ASSUME TypeInv, NEW p \in Processes, NEW t \in Tasks, heard' = OnceMore(heard, p, t)
  PROVE  /\ heard'[p][t] = heard[p][t] + 1
         /\ \A q \in Processes, u \in Tasks : ~(q = p /\ u = t) => heard'[q][u] = heard[q][u]
<1>. heard \in [Processes -> [Tasks -> Nat]]
  BY DEF TypeInv, TypeOK
<1>. QED
  BY DEF OnceMore

LEMMA NextHeard ==
  ASSUME TypeInv, LifeInv, HeardPerStart, [Next]_vars
  PROVE  HeardPerStart'
<1>t. TypeInv'
  BY NextType
<1>. USE ThreadKinds, BackgroundAssumption
     DEF LifeInv, LivesInItsProcess, MemoryFollowsThread, NotYetSubmitted, ReplayIsLate,
         Working, Telling, Active, Ended, TypeInv, TypeOK, BackgroundAssumption,
         table, manager, threads, history
<1>1. ASSUME NEW p \in Processes, Recover(p)
      PROVE  HeardPerStart'
  <2>1. /\ starts'[p] = starts[p] + 1 /\ UNCHANGED heard
        /\ \A q \in Processes : q # p => starts'[q] = starts[q] /\ life'[q] = life[q]
        /\ UNCHANGED <<listening, replay, threads>>
    BY <1>1 DEF Recover
  <2>2. life[p] = "down"
    BY <1>1 DEF Recover
  <2>. SUFFICES ASSUME NEW q \in Processes, NEW t \in Tasks
                PROVE  /\ heard[q][t] <= starts'[q]
                       /\ life'[q] # "down" /\ StillToTell(q, t)' => heard[q][t] < starts'[q]
    BY <2>1 DEF HeardPerStart
  <2>3. heard[q][t] <= starts[q] /\ heard[q][t] \in Nat /\ starts[q] \in Nat
    BY DEF HeardPerStart
  <2>4. CASE q = p
    BY <2>1, <2>3, <2>4
  <2>5. CASE q # p
    BY <2>1, <2>3, <2>5 DEF HeardPerStart, StillToTell
  <2>. QED
    BY <2>4, <2>5
<1>2. ASSUME NEW p \in Processes, Load(p) \/ ReplayMark(p) \/ Drain(p) \/ Append(p) \/ BeginTurn(p)
      PROVE  HeardPerStart'
  <2>1. /\ UNCHANGED <<heard, starts, listening, replay, threads>>
        /\ \A q \in Processes : life'[q] # "down" => life[q] # "down"
    BY <1>2 DEF Load, ReplayMark, Drain, Append, BeginTurn
  <2>. QED
    BY <2>1, <1>t, NothingTold DEF StillToTell
<1>3. ASSUME NEW p \in Processes, Listen(p)
      PROVE  HeardPerStart'
  <2>1. \A q \in Processes, t \in Tasks : StillToTell(q, t)' => StillToTell(q, t)
    BY <1>3 DEF Listen, StillToTell
  <2>2. UNCHANGED <<heard, starts, life>>
    BY <1>3 DEF Listen
  <2>. QED
    BY <2>1, <2>2, <1>t, NothingTold
<1>4. ASSUME NEW p \in Processes, Replay(p)
      PROVE  HeardPerStart'
  <2>1. PICK t \in replay[p] :
          /\ replay' = [replay EXCEPT ![p] = @ \ {t}]
          /\ heard' = OnceMore(heard, p, t) \/ UNCHANGED heard
    BY <1>4 DEF Replay, OnceMore
  <2>2. t \in Tasks /\ p \in listening /\ life[p] = "up"
    BY <2>1
  <2>3. UNCHANGED <<starts, life, listening, threads>>
    BY <1>4 DEF Replay
  <2>4. \A q \in Processes, u \in Tasks : StillToTell(q, u)' => StillToTell(q, u)
    BY <2>1, <2>3 DEF StillToTell
  <2>5. ~StillToTell(p, t)'
    <3>1. memory[p][t] \in Ended /\ ~(owner[t] = p /\ thread[t] \in Telling)
      BY <2>1
    <3>2. owner[t] # Nobody /\ ~(owner[t] = p /\ thread[t] \in Working)
      BY <2>2, <3>1
    <3>3. t \notin replay'[p]
      BY <2>1
    <3>. QED
      BY <2>2, <2>3, <3>1, <3>2, <3>3 DEF StillToTell
  <2>6. CASE UNCHANGED heard
    BY <2>3, <2>4, <2>6, <1>t, NothingTold
  <2>7. CASE heard' = OnceMore(heard, p, t)
    <3>1. /\ heard'[p][t] = heard[p][t] + 1
          /\ \A q \in Processes, u \in Tasks : ~(q = p /\ u = t) => heard'[q][u] = heard[q][u]
      BY <2>2, <2>7, OnlyOnceMore
    <3>2. heard[p][t] < starts[p]
      BY <2>1, <2>2 DEF HeardPerStart, StillToTell
    <3>3. ASSUME NEW q \in Processes, NEW u \in Tasks
          PROVE  /\ heard'[q][u] <= starts'[q]
                 /\ life'[q] # "down" /\ StillToTell(q, u)' => heard'[q][u] < starts'[q]
      <4>1. CASE q = p /\ u = t
        BY <2>2, <2>3, <2>5, <3>1, <3>2, <4>1
      <4>2. CASE ~(q = p /\ u = t)
        BY <2>3, <2>4, <3>1, <4>2 DEF HeardPerStart
      <4>. QED
        BY <4>1, <4>2
    <3>. QED
      BY <3>3 DEF HeardPerStart
  <2>. QED
    BY <2>1, <2>6, <2>7
<1>5. ASSUME NEW p \in Processes, NEW t \in Tasks, Submit(p, t)
      PROVE  HeardPerStart'
  <2>1. UNCHANGED <<heard, starts, life, listening, replay>> /\ owner[t] = Nobody
    BY <1>5 DEF Submit
  <2>2. \A u \in Tasks : u # t => thread'[u] = thread[u] /\ owner'[u] = owner[u]
    BY <1>5 DEF Submit
  <2>3. \A q \in Processes, u \in Tasks : StillToTell(q, u)' => StillToTell(q, u)
    BY <2>1, <2>2 DEF StillToTell
  <2>. QED
    BY <2>1, <2>3, <1>t, NothingTold
<1>6. ASSUME NEW p \in Processes, Crash(p)
      PROVE  HeardPerStart'
  <2>1. /\ UNCHANGED <<heard, starts, owner>> /\ life'[p] = "down"
        /\ \A q \in Processes : q # p => /\ life'[q] = life[q] /\ replay'[q] = replay[q]
                                         /\ q \in listening' <=> q \in listening
        /\ \A u \in Tasks : thread'[u] \in {"none", thread[u]}
    BY <1>6 DEF Crash
  <2>. QED
    BY <2>1, <1>t, NothingTold DEF StillToTell
<1>7. ASSUME NEW t \in Tasks, Begin(t) \/ Finish(t) \/ Hold(t) \/ Mark(t)
      PROVE  HeardPerStart'
  <2>1. UNCHANGED <<heard, starts, life, listening, replay, owner>>
    BY <1>7 DEF Begin, Finish, Hold, Mark
  <2>2. /\ \A u \in Tasks : u # t => thread'[u] = thread[u]
        /\ thread'[t] \in Working \cup Telling => thread[t] \in Working \cup Telling
    BY <1>7 DEF Begin, Finish, Hold, Mark
  <2>3. \A q \in Processes, u \in Tasks : StillToTell(q, u)' => StillToTell(q, u)
    BY <2>1, <2>2 DEF StillToTell
  <2>. QED
    BY <2>1, <2>3, <1>t, NothingTold
<1>8. ASSUME NEW t \in Tasks, Tell(t)
      PROVE  HeardPerStart'
  <2>1. /\ thread[t] \in Telling /\ thread'[t] \in {"marking", "none"}
        /\ \A u \in Tasks : u # t => thread'[u] = thread[u]
        /\ UNCHANGED <<starts, life, listening, replay, owner>>
        /\ heard' = OnceMore(heard, owner[t], t) \/ UNCHANGED heard
    BY <1>8 DEF Tell, OnceMore
  <2>2. owner[t] \in Processes /\ owner[t] # Nobody /\ owner[t] \in listening
        /\ life[owner[t]] = "up" /\ t \notin replay[owner[t]]
    BY <2>1
  <2>3. \A q \in Processes, u \in Tasks : StillToTell(q, u)' => StillToTell(q, u)
    BY <2>1 DEF StillToTell
  <2>4. ~StillToTell(owner[t], t)'
    BY <2>1, <2>2 DEF StillToTell
  <2>5. CASE UNCHANGED heard
    BY <2>1, <2>3, <2>5, <1>t, NothingTold
  <2>6. CASE heard' = OnceMore(heard, owner[t], t)
    <3>1. /\ heard'[owner[t]][t] = heard[owner[t]][t] + 1
          /\ \A q \in Processes, u \in Tasks :
               ~(q = owner[t] /\ u = t) => heard'[q][u] = heard[q][u]
      BY <2>2, <2>6, OnlyOnceMore
    <3>2. heard[owner[t]][t] < starts[owner[t]]
      BY <2>1, <2>2 DEF HeardPerStart, StillToTell
    <3>3. ASSUME NEW q \in Processes, NEW u \in Tasks
          PROVE  /\ heard'[q][u] <= starts'[q]
                 /\ life'[q] # "down" /\ StillToTell(q, u)' => heard'[q][u] < starts'[q]
      <4>1. CASE q = owner[t] /\ u = t
        BY <2>1, <2>2, <2>4, <3>1, <3>2, <4>1
      <4>2. CASE ~(q = owner[t] /\ u = t)
        BY <2>1, <2>3, <3>1, <4>2 DEF HeardPerStart
      <4>. QED
        BY <4>1, <4>2
    <3>. QED
      BY <3>3 DEF HeardPerStart
  <2>. QED
    BY <2>1, <2>5, <2>6
<1>9. ASSUME NEW p \in Processes, EndTurn(p)
      PROVE  HeardPerStart'
  <2>1. /\ UNCHANGED <<heard, starts, life, listening, replay, owner>>
        /\ \A u \in Tasks : thread'[u] = thread[u] \/ (thread[u] = "held" /\ thread'[u] = "replied")
    BY <1>9 DEF EndTurn
  <2>2. \A q \in Processes, u \in Tasks : StillToTell(q, u)' => StillToTell(q, u)
    BY <2>1 DEF StillToTell
  <2>. QED
    BY <2>1, <2>2, <1>t, NothingTold
<1>10. CASE UNCHANGED vars
  BY <1>10, <1>t, NothingTold DEF vars, StillToTell
<1>. QED
  BY <1>1, <1>2, <1>3, <1>4, <1>5, <1>6, <1>7, <1>8, <1>9, <1>10
     DEF Next, StartUp, Manage, Turn, Work

LEMMA InitLife == Init => LifeInv /\ HeardPerStart
  BY BackgroundAssumption
     DEF Init, LifeInv, LivesInItsProcess, MemoryFollowsThread, NotYetSubmitted, ReplayIsLate,
         HeardPerStart, Blank, Working, Telling, BackgroundAssumption

HeardOncePerStart == \A p \in Processes, t \in Tasks : heard[p][t] <= starts[p]

\* However many processes share the table: no listener is told the end of a task twice by one
\* start of its process, neither by the thread of the task and the replay to a new listener,
\* nor by a turn that let the thread wait and the next one.
THEOREM NoListenerHearsTwice == Spec => []HeardOncePerStart
<1>1. Init => TypeInv /\ LifeInv /\ HeardPerStart
  BY InitInv, InitLife DEF IInv
<1>2. TypeInv /\ LifeInv /\ HeardPerStart /\ [Next]_vars => (TypeInv /\ LifeInv /\ HeardPerStart)'
  BY NextType, NextLife, NextHeard
<1>3. HeardPerStart => HeardOncePerStart
  BY DEF HeardPerStart, HeardOncePerStart
<1>. QED
  BY <1>1, <1>2, <1>3, PTL DEF Spec

-----------------------------------------------------------------------------
(* One process on the table: its memory is the table, so that an end is taken *)
(* by one turn only and stays as it is.  A second process would recover, from *)
(* the table, the tasks that the first one still has at work.                 *)

Alone == \A p, q \in Processes : p = q

Synced == \A p \in Processes :
  /\ life[p] = "up" => memory[p] = row /\ noted[p] = delivered
  /\ told[p] # {} => life[p] = "up"

ReadOnce == \A t \in Tasks :
  /\ read[t] <= 1
  /\ read[t] > 0 => t \in delivered
  /\ \A p \in Processes : t \in carried[p] => read[t] = 0 /\ t \in delivered

\* What may happen to the row of a task in one step.
Final == \A t \in Tasks :
  /\ row[t] \in Ended => row'[t] = row[t]
  /\ t \in delivered => t \in delivered'

\* save() after a change of the tasks it saves keeps memory and table alike.
LEMMA SavedInSync ==
  ASSUME TypeInv, TypeInv', Synced, Alone, NEW p \in Processes, life[p] = "up",
         UNCHANGED life, told'[p] \subseteq told[p], NEW set \in SUBSET Tasks, Save(p, set),
         \A t \in Tasks \ set : memory'[p][t] = memory[p][t],
         noted[p] \subseteq noted'[p], noted'[p] \subseteq noted[p] \cup set
  PROVE  /\ Synced'
         /\ delivered' = noted'[p]
         /\ delivered \subseteq delivered'
         /\ \A t \in Tasks : row'[t] = IF t \in set THEN memory'[p][t] ELSE row[t]
<1>0. /\ memory[p] = row /\ noted[p] = delivered
      /\ row \in [Tasks -> Statuses] /\ row' \in [Tasks -> Statuses]
      /\ memory'[p] \in [Tasks -> Statuses]
  BY DEF Synced, TypeInv, TypeOK
<1>1. \A t \in Tasks : row'[t] = memory'[p][t]
  BY <1>0 DEF Save
<1>2. row' = memory'[p]
  BY <1>0, <1>1
<1>3. delivered' = (delivered \ set) \cup (set \cap noted'[p])
  BY DEF Save
<1>4. delivered' = noted'[p]
  BY <1>0, <1>3
<1>5. Synced'
  <2>1. \A q \in Processes : q = p
    BY DEF Alone
  <2>. QED
    BY <1>2, <1>4, <2>1 DEF Synced
<1>. QED
  BY <1>0, <1>4, <1>5 DEF Save

LEMMA NextSynced ==
  ASSUME TypeInv, LifeInv, Synced, Alone, [Next]_vars
  PROVE  Synced' /\ Final
<1>t. TypeInv'
  BY NextType
<1>a. \A p, q \in Processes : p = q
  BY DEF Alone
<1>. USE BackgroundAssumption DEF table, manager, threads, history
<1>1. ASSUME NEW p \in Processes, Recover(p)
      PROVE  Synced' /\ Final
  <2>1. life[p] = "down" /\ life'[p] = "loading" /\ UNCHANGED <<delivered, told>>
    BY <1>1 DEF Recover, TypeInv, TypeOK
  <2>2. \A t \in Tasks : row[t] \in Ended => row'[t] = row[t]
    BY <1>1 DEF Recover, AtWork, Active, Ended, TypeInv, TypeOK
  <2>. QED
    BY <1>a, <2>1, <2>2 DEF Synced, Final
<1>2. ASSUME NEW p \in Processes, Load(p)
      PROVE  Synced' /\ Final
  <2>1. /\ memory'[p] = row /\ noted'[p] = delivered /\ life'[p] = "up"
        /\ UNCHANGED <<row, delivered>>
    BY <1>2 DEF Load, TypeInv, TypeOK
  <2>. QED
    BY <1>a, <2>1 DEF Synced, Final
<1>3. ASSUME NEW p \in Processes,
             Listen(p) \/ BeginTurn(p) \/ Append(p) \/ EndTurn(p)
      PROVE  Synced' /\ Final
  <2>1. /\ UNCHANGED <<table, memory, noted, told>>
        /\ \A q \in Processes : life'[q] = life[q]
    BY <1>3 DEF Listen, BeginTurn, Append, EndTurn
  <2>. QED
    BY <2>1 DEF Synced, Final
<1>4. ASSUME NEW p \in Processes, Replay(p)
      PROVE  Synced' /\ Final
  <2>1. /\ UNCHANGED <<table, memory, noted, life>> /\ life[p] = "up"
    BY <1>4 DEF Replay, LifeInv, ReplayIsLate
  <2>. QED
    BY <1>a, <2>1 DEF Synced, Final
<1>5. ASSUME NEW p \in Processes, NEW t \in Tasks, life[p] = "up", Marked(p, t),
             UNCHANGED life, told'[p] \subseteq told[p]
      PROVE  Synced' /\ Final
  <2>1. /\ noted'[p] = noted[p] \cup {t} /\ UNCHANGED memory
    BY <1>5 DEF Marked, TypeInv, TypeOK
  <2>2. CASE t \in noted[p]
    <3>1. UNCHANGED <<row, delivered>> /\ noted'[p] = noted[p]
      BY <1>5, <2>1, <2>2 DEF Marked
    <3>. QED
      BY <1>5, <1>a, <2>1, <3>1 DEF Synced, Final
  <2>3. CASE t \notin noted[p]
    <3>1. Save(p, {t})
      BY <1>5, <2>3 DEF Marked
    <3>2. /\ Synced' /\ delivered \subseteq delivered'
          /\ \A u \in Tasks : row'[u] = IF u \in {t} THEN memory'[p][u] ELSE row[u]
      BY <1>5, <1>t, <2>1, <3>1, SavedInSync
    <3>3. memory'[p] = row
      BY <1>5, <2>1 DEF Synced
    <3>. QED
      BY <3>2, <3>3 DEF Final
  <2>. QED
    BY <2>2, <2>3
<1>6. ASSUME NEW p \in Processes, ReplayMark(p)
      PROVE  Synced' /\ Final
  <2>1. PICK t \in told[p] : Marked(p, t)
    BY <1>6 DEF ReplayMark
  <2>2. t \in Tasks /\ life[p] = "up" /\ UNCHANGED life /\ told'[p] = {}
    BY <1>6, <2>1 DEF ReplayMark, Synced, TypeInv, TypeOK
  <2>. QED
    BY <1>5, <2>1, <2>2
<1>7. ASSUME NEW p \in Processes, NEW t \in Tasks, Submit(p, t)
      PROVE  Synced' /\ Final
  <2>1. /\ life[p] = "up" /\ UNCHANGED <<life, told, noted>> /\ Save(p, {t})
        /\ \A u \in Tasks : u # t => memory'[p][u] = memory[p][u]
    BY <1>7 DEF Submit, LifeInv, LivesInItsProcess, TypeInv, TypeOK
  <2>2. row[t] = "absent"
    BY <1>7 DEF Submit, LifeInv, NotYetSubmitted
  <2>3. /\ Synced' /\ delivered \subseteq delivered'
        /\ \A u \in Tasks : row'[u] = IF u \in {t} THEN memory'[p][u] ELSE row[u]
    BY <2>1, <1>t, SavedInSync
  <2>. QED
    BY <2>2, <2>3 DEF Final, Ended
<1>8. ASSUME NEW p \in Processes, Drain(p)
      PROVE  Synced' /\ Final
  <2>1. /\ life[p] = "up" /\ UNCHANGED <<life, told, memory>> /\ Save(p, Untold(p))
        /\ noted'[p] = noted[p] \cup Untold(p) /\ Untold(p) \in SUBSET Tasks
    BY <1>8 DEF Drain, LifeInv, LivesInItsProcess, TypeInv, TypeOK, Untold
  <2>2. memory'[p] = row
    BY <2>1 DEF Synced
  <2>3. /\ Synced' /\ delivered \subseteq delivered'
        /\ \A u \in Tasks : row'[u] = IF u \in Untold(p) THEN memory'[p][u] ELSE row[u]
    BY <2>1, <1>t, SavedInSync
  <2>. QED
    BY <2>2, <2>3 DEF Final
<1>9. ASSUME NEW p \in Processes, Crash(p)
      PROVE  Synced' /\ Final
  <2>1. life'[p] = "down" /\ told'[p] = {} /\ UNCHANGED <<row, delivered>>
    BY <1>9 DEF Crash, TypeInv, TypeOK
  <2>. QED
    BY <1>a, <2>1 DEF Synced, Final
<1>10. ASSUME NEW t \in Tasks, Begin(t) \/ Finish(t)
       PROVE  Synced' /\ Final
  <2>1. owner[t] \in Processes /\ life[owner[t]] = "up" /\ memory[owner[t]][t] \in Active
    BY <1>10, ThreadKinds
       DEF Begin, Finish, LifeInv, LivesInItsProcess, MemoryFollowsThread, Working
  <2>2. /\ UNCHANGED <<life, told, noted>> /\ Save(owner[t], {t})
        /\ \A u \in Tasks : u # t => memory'[owner[t]][u] = memory[owner[t]][u]
    BY <1>10, <2>1 DEF Begin, Finish, TypeInv, TypeOK
  <2>3. row[t] \notin Ended
    BY <2>1 DEF Synced, Active, Ended
  <2>4. /\ Synced' /\ delivered \subseteq delivered'
        /\ \A u \in Tasks : row'[u] = IF u \in {t} THEN memory'[owner[t]][u] ELSE row[u]
    BY <2>1, <2>2, <1>t, SavedInSync
  <2>. QED
    BY <2>3, <2>4 DEF Final
<1>11. ASSUME NEW t \in Tasks, Hold(t) \/ Tell(t)
       PROVE  Synced' /\ Final
  <2>1. UNCHANGED <<table, manager>>
    BY <1>11 DEF Hold, Tell
  <2>. QED
    BY <2>1 DEF Synced, Final
<1>12. ASSUME NEW t \in Tasks, Mark(t)
       PROVE  Synced' /\ Final
  <2>1. /\ owner[t] \in Processes /\ life[owner[t]] = "up" /\ Marked(owner[t], t)
        /\ UNCHANGED <<life, told>>
    BY <1>12, ThreadKinds DEF Mark, LifeInv, LivesInItsProcess
  <2>. QED
    BY <1>5, <2>1
<1>13. CASE UNCHANGED vars
  BY <1>13 DEF vars, Synced, Final
<1>. QED
  BY <1>1, <1>2, <1>3, <1>4, <1>6, <1>7, <1>8, <1>9, <1>10, <1>11, <1>12, <1>13
     DEF Next, StartUp, Manage, Turn, Work

LEMMA NextReadOnce ==
  ASSUME TypeInv, LifeInv, Synced, Alone, ReadOnce, [Next]_vars
  PROVE  ReadOnce'
<1>t. TypeInv' /\ Final
  BY NextType, NextSynced
<1>. USE DEF table, manager, threads, history, ReadOnce
<1>1. ASSUME NEW p \in Processes, Drain(p)
      PROVE  ReadOnce'
  <2>1. /\ carried'[p] = Untold(p) /\ UNCHANGED read
        /\ delivered' = (delivered \ Untold(p)) \cup (Untold(p) \cap noted'[p])
        /\ noted'[p] = noted[p] \cup Untold(p)
    BY <1>1 DEF Drain, Save, TypeInv, TypeOK
  <2>2. noted[p] = delivered
    BY <1>1 DEF Drain, Synced, LifeInv, LivesInItsProcess
  <2>3. \A t \in Untold(p) : t \in Tasks /\ t \notin delivered /\ t \in delivered'
    BY <2>1, <2>2 DEF Untold
  <2>4. \A t \in Untold(p) : read[t] = 0
    BY <2>3 DEF TypeInv, TypeOK
  <2>. QED
    BY <1>t, <2>1, <2>3, <2>4 DEF Alone, Final
<1>2. ASSUME NEW p \in Processes, Append(p)
      PROVE  ReadOnce'
  <2>1. PICK t \in carried[p] : /\ carried' = [carried EXCEPT ![p] = @ \ {t}]
                                /\ read' = [read EXCEPT ![t] = @ + 1]
    BY <1>2 DEF Append
  <2>2. t \in Tasks /\ read[t] = 0 /\ t \in delivered /\ UNCHANGED delivered
    BY <1>2, <2>1 DEF Append, TypeInv, TypeOK
  <2>3. /\ read'[t] = 1 /\ \A u \in Tasks : u # t => read'[u] = read[u]
        /\ \A q \in Processes : carried'[q] = carried[q] \ {t}
    BY <2>1, <2>2 DEF Alone, TypeInv, TypeOK
  <2>. QED
    BY <2>2, <2>3
<1>3. ASSUME UNCHANGED read, \A p \in Processes : carried'[p] \subseteq carried[p]
      PROVE  ReadOnce'
  BY <1>t, <1>3 DEF Final
<1>4. ASSUME NEW p \in Processes, Crash(p) \/ EndTurn(p)
      PROVE  ReadOnce'
  BY <1>3, <1>4 DEF Crash, EndTurn, TypeInv, TypeOK
<1>5. ASSUME NEW p \in Processes, StartUp(p) \/ Manage(p) \/ BeginTurn(p)
      PROVE  ReadOnce'
  BY <1>3, <1>5 DEF StartUp, Recover, Load, Listen, Manage, Replay, ReplayMark, BeginTurn
<1>6. ASSUME NEW p \in Processes, NEW t \in Tasks, Submit(p, t)
      PROVE  ReadOnce'
  BY <1>3, <1>6 DEF Submit
<1>7. ASSUME NEW t \in Tasks, Work(t)
      PROVE  ReadOnce'
  BY <1>3, <1>7 DEF Work, Begin, Finish, Hold, Tell, Mark
<1>8. CASE UNCHANGED vars
  BY <1>3, <1>8 DEF vars
<1>. QED
  BY <1>1, <1>2, <1>4, <1>5, <1>6, <1>7, <1>8 DEF Next, Turn

OneProcess == IInv /\ LifeInv /\ HeardPerStart /\ Synced /\ ReadOnce

LEMMA InitOneProcess == Init => OneProcess
  BY InitInv, InitLife DEF OneProcess, Init, Synced, ReadOnce

LEMMA NextOneProcess ==
  ASSUME Alone, OneProcess, [Next]_vars
  PROVE  OneProcess' /\ Final
<1>1. TypeInv
  BY DEF OneProcess, IInv
<1>. QED
  BY <1>1, NextInv, NextLife, NextHeard, NextSynced, NextReadOnce DEF OneProcess

\* When one process has the table to itself, every end is told before it is marked, no turn
\* puts it into the session twice, and no listener hears it twice from one start.
THEOREM EachEndIsToldOnce ==
  ASSUME Alone
  PROVE  Spec => []EndsAreToldOnce
<1>1. Init => OneProcess
  BY InitOneProcess
<1>2. OneProcess /\ [Next]_vars => OneProcess'
  BY NextOneProcess
<1>3. OneProcess => EndsAreToldOnce
  BY DEF OneProcess, IInv, EndsAreToldOnce, ToldOnce, ReadOnce, HeardPerStart
<1>. QED
  BY <1>1, <1>2, <1>3, PTL DEF Spec

\* And no late thread, replay or restart changes how a task ended, or makes it untold again.
THEOREM NoEndIsChanged ==
  ASSUME Alone
  PROVE  Spec => EndIsFinal
<1>1. Init => OneProcess
  BY InitOneProcess
<1>2. OneProcess /\ [Next]_vars => OneProcess'
  BY NextOneProcess
<1>3. OneProcess /\ [Next]_vars => [\A t \in Tasks :
        /\ row[t] \in Ended => row'[t] = row[t]
        /\ t \in delivered => t \in delivered']_vars
  BY NextOneProcess DEF Final
<1>. QED
  BY <1>1, <1>2, <1>3, PTL DEF Spec, EndIsFinal
=============================================================================
