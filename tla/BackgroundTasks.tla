--------------------------- MODULE BackgroundTasks ---------------------------
(***************************************************************************)
(* BackgroundTaskManager and BackgroundTaskStore of                        *)
(* runtime/tasks/background.py, for the tasks of one conversation.  Every  *)
(* process of the agent has a manager of its own over the same table: it   *)
(* keeps the tasks in memory under a lock and writes each change through.  *)
(* A task's thread runs the command and then tells the completion listener *)
(* outside of the lock; a turn of the conversation takes what ended and    *)
(* was not told yet (drain_completed) and writes it into the session; a    *)
(* crash ends all threads.  The gateway's listener waits for the reply of  *)
(* the turn it finds at work, and holds the task's slot while it waits.    *)
(* The background_tasks table never raises here.                           *)
(***************************************************************************)
EXTENDS Naturals, FiniteSets

CONSTANTS
  Processes,
  Gateways,         \* the processes that register a completion listener
  Tasks,
  MaxConcurrent,    \* max_concurrent_tasks
  MaxPending,       \* max_pending_tasks
  MaxStarts,        \* bound on the starts of a process
  Nobody            \* no process

ASSUME BackgroundAssumption ==
  /\ Gateways \subseteq Processes
  /\ MaxConcurrent \in Nat \ {0} /\ MaxPending \in Nat /\ MaxPending >= MaxConcurrent
  /\ MaxStarts \in Nat
  /\ Nobody \notin Processes

VARIABLES
  row,        \* background_tasks.status, "absent" when there is no such row
  delivered,  \* rows with notification_delivered set
  life,       \* where a process is: down, between the two transactions of
              \* the manager's constructor, or up
  memory,     \* the status of a task in _tasks of a process
  noted,      \* the tasks whose notification_delivered is set in memory
  listening,  \* processes with a completion listener
  replay,     \* what add_completion_listener() has still to tell
  told,       \* and what it has told and not yet marked
  turn,       \* the turn of the conversation in a process: it has taken no step,
              \* or it works
  carried,    \* what a turn has drained and not yet appended to the session
  owner,      \* the process a task was submitted to
  thread,     \* where the thread of a task is
  heard,      \* history: how often a listener was told the end of a task
  read,       \* history: how often a turn put it into the session
  dropped,    \* history: what a turn had drained when it failed
  starts      \* history: starts of a process

table == <<row, delivered>>
manager == <<life, memory, noted, listening, replay, told, turn, carried>>
threads == <<owner, thread>>
history == <<heard, read, dropped, starts>>
vars == <<table, manager, threads, history>>

Active == {"queued", "running"}
Ended == {"succeeded", "failed", "interrupted"}
Statuses == {"absent"} \cup Active \cup Ended

TypeOK ==
  /\ row \in [Tasks -> Statuses] /\ delivered \subseteq Tasks
  /\ life \in [Processes -> {"down", "loading", "up"}]
  /\ memory \in [Processes -> [Tasks -> Statuses]]
  /\ noted \in [Processes -> SUBSET Tasks]
  /\ listening \subseteq Gateways
  /\ replay \in [Processes -> SUBSET Tasks] /\ told \in [Processes -> SUBSET Tasks]
  /\ owner \in [Tasks -> Processes \cup {Nobody}]
  /\ thread \in [Tasks -> {"none", "waiting", "running", "telling", "held", "replied", "marking"}]
  /\ turn \in [Processes -> {"none", "begun", "works"}]
  /\ carried \in [Processes -> SUBSET Tasks]
  /\ heard \in [Processes -> [Tasks -> Nat]] /\ read \in [Tasks -> Nat]
  /\ dropped \subseteq Tasks
  /\ starts \in [Processes -> 0..MaxStarts]

Blank == [t \in Tasks |-> "absent"]

Init ==
  /\ row = Blank /\ delivered = {}
  /\ life = [p \in Processes |-> "down"]
  /\ memory = [p \in Processes |-> Blank]
  /\ noted = [p \in Processes |-> {}]
  /\ listening = {}
  /\ replay = [p \in Processes |-> {}] /\ told = [p \in Processes |-> {}]
  /\ owner = [t \in Tasks |-> Nobody]
  /\ thread = [t \in Tasks |-> "none"]
  /\ turn = [p \in Processes |-> "none"] /\ carried = [p \in Processes |-> {}]
  /\ heard = [p \in Processes |-> [t \in Tasks |-> 0]] /\ read = [t \in Tasks |-> 0]
  /\ dropped = {}
  /\ starts = [p \in Processes |-> 0]

-----------------------------------------------------------------------------
(* The manager *)

\* save(): the row takes all of what the process knows of the task.
Save(p, set) ==
  /\ row' = [t \in Tasks |-> IF t \in set THEN memory'[p][t] ELSE row[t]]
  /\ delivered' = (delivered \ set) \cup (set \cap noted'[p])

\* Mutant of Untold, which violates EveryEndIsTold.
UntoldUnlessInterrupted(p) ==
  {t \in Tasks : memory[p][t] \in {"succeeded", "failed"} /\ t \notin noted[p]}

Untold(p) == {t \in Tasks : memory[p][t] \in Ended /\ t \notin noted[p]}

\* Mutant of AtWork, which violates EndIsFinal.
AtWorkUnmarked == {t \in Tasks : row[t] # "absent" /\ t \notin delivered}

\* recover_interrupted(), of every row that says its task is still at work.
AtWork == {t \in Tasks : row[t] \in Active}

Recover(p) ==
  /\ life[p] = "down" /\ starts[p] < MaxStarts
  /\ life' = [life EXCEPT ![p] = "loading"]
  /\ row' = [t \in Tasks |-> IF t \in AtWork THEN "interrupted" ELSE row[t]]
  /\ starts' = [starts EXCEPT ![p] = @ + 1]
  /\ UNCHANGED <<delivered, memory, noted, listening, replay, told, turn, carried, threads>>
  /\ UNCHANGED <<heard, read, dropped>>

\* list_tasks()
Load(p) ==
  /\ life[p] = "loading"
  /\ life' = [life EXCEPT ![p] = "up"]
  /\ memory' = [memory EXCEPT ![p] = row]
  /\ noted' = [noted EXCEPT ![p] = delivered]
  /\ UNCHANGED <<table, listening, replay, told, turn, carried, threads, history>>

\* add_completion_listener(): registered first, then told what ended before.
Listen(p) ==
  /\ life[p] = "up" /\ p \in Gateways \ listening
  /\ listening' = listening \cup {p}
  /\ replay' = [replay EXCEPT ![p] = Untold(p)]
  /\ UNCHANGED <<table, life, memory, noted, told, turn, carried, threads, history>>

\* The listener of the gateway returns or raises; an exception is logged.
Replay(p) ==
  /\ told[p] = {}
  /\ \E t \in replay[p] :
       /\ replay' = [replay EXCEPT ![p] = @ \ {t}]
       /\ \/ /\ told' = [told EXCEPT ![p] = {t}]
             /\ heard' = [heard EXCEPT ![p][t] = @ + 1]
          \/ UNCHANGED <<told, heard>>
  /\ UNCHANGED <<table, life, memory, noted, listening, turn, carried, threads, read, dropped, starts>>

\* _mark_notification_delivered()
Marked(p, t) ==
  /\ noted' = [noted EXCEPT ![p] = @ \cup {t}]
  /\ UNCHANGED memory
  /\ IF t \in noted[p] THEN UNCHANGED table ELSE Save(p, {t})

ReplayMark(p) ==
  /\ \E t \in told[p] : Marked(p, t)
  /\ told' = [told EXCEPT ![p] = {}]
  /\ UNCHANGED <<life, listening, replay, turn, carried, threads, history>>

\* bash calls it, in a turn.
Submit(p, t) ==
  /\ turn[p] = "works" /\ owner[t] = Nobody
  /\ Cardinality({u \in Tasks : memory[p][u] \in Active}) < MaxPending
  /\ owner' = [owner EXCEPT ![t] = p]
  /\ thread' = [thread EXCEPT ![t] = "waiting"]
  /\ memory' = [memory EXCEPT ![p][t] = "queued"]
  /\ UNCHANGED noted
  /\ Save(p, {t})
  /\ UNCHANGED <<life, listening, replay, told, turn, carried, history>>

BeginTurn(p) ==
  /\ life[p] = "up" /\ turn[p] = "none" /\ turn' = [turn EXCEPT ![p] = "begun"]
  /\ UNCHANGED <<table, life, memory, noted, listening, replay, told, carried, threads, history>>

\* drain_completed(), at each step of a turn.
Drain(p) ==
  /\ turn[p] # "none" /\ carried[p] = {} /\ turn' = [turn EXCEPT ![p] = "works"]
  /\ carried' = [carried EXCEPT ![p] = Untold(p)]
  /\ noted' = [noted EXCEPT ![p] = @ \cup Untold(p)]
  /\ UNCHANGED memory
  /\ Save(p, Untold(p))
  /\ UNCHANGED <<life, listening, replay, told, threads, history>>

\* inject_background_notifications(): the session takes them one by one.
Append(p) ==
  /\ \E t \in carried[p] :
       /\ carried' = [carried EXCEPT ![p] = @ \ {t}]
       /\ read' = [read EXCEPT ![t] = @ + 1]
  /\ UNCHANGED <<table, life, memory, noted, listening, replay, told, turn, threads, heard>>
  /\ UNCHANGED <<dropped, starts>>

\* Mutant of EndTurn, which violates EveryEndIsTold: nothing sets reply_sent.
EndTurnSilently(p) ==
  /\ turn[p] = "works" /\ turn' = [turn EXCEPT ![p] = "none"]
  /\ carried' = [carried EXCEPT ![p] = {}] /\ dropped' = dropped \cup carried[p]
  /\ UNCHANGED <<table, life, memory, noted, listening, replay, told, threads, heard, read, starts>>

\* Its finally sets reply_sent, which the listeners of its time wait for.
EndTurn(p) ==
  /\ turn[p] = "works" /\ turn' = [turn EXCEPT ![p] = "none"]
  /\ thread' = [t \in Tasks |-> IF owner[t] = p /\ thread[t] = "held" THEN "replied"
                                ELSE thread[t]]
  /\ carried' = [carried EXCEPT ![p] = {}] /\ dropped' = dropped \cup carried[p]
  /\ UNCHANGED <<table, life, memory, noted, listening, replay, told, owner, heard, read, starts>>

-----------------------------------------------------------------------------
(* The threads *)

\* A slot is held until the listener has returned.
Slots(p) == {t \in Tasks : owner[t] = p /\ thread[t] \notin {"none", "waiting"}}

Begin(t) ==
  /\ thread[t] = "waiting"
  /\ Cardinality(Slots(owner[t])) < MaxConcurrent
  /\ thread' = [thread EXCEPT ![t] = "running"]
  /\ memory' = [memory EXCEPT ![owner[t]][t] = "running"]
  /\ UNCHANGED noted
  /\ Save(owner[t], {t})
  /\ UNCHANGED <<life, listening, replay, told, turn, carried, owner, history>>

\* The command ends; the listeners are read under the same lock.
Results == {"succeeded", "failed"}

\* Mutant of Finish, which violates EndsAreToldOnce.
FinishUnlocked(t) ==
  /\ thread[t] = "running"
  /\ thread' = [thread EXCEPT ![t] = IF owner[t] \in Gateways THEN "telling" ELSE "none"]
  /\ \E result \in Results : memory' = [memory EXCEPT ![owner[t]][t] = result]
  /\ UNCHANGED noted
  /\ Save(owner[t], {t})
  /\ UNCHANGED <<life, listening, replay, told, turn, carried, owner, history>>

Finish(t) ==
  /\ thread[t] = "running"
  /\ thread' = [thread EXCEPT ![t] = IF owner[t] \in listening THEN "telling" ELSE "none"]
  /\ \E result \in Results : memory' = [memory EXCEPT ![owner[t]][t] = result]
  /\ UNCHANGED noted
  /\ Save(owner[t], {t})
  /\ UNCHANGED <<life, listening, replay, told, turn, carried, owner, history>>

\* _send_background_notification(): it takes the route of the turn at work and
\* waits for its reply, however many turns come after it; without a route it
\* raises.
Hold(t) ==
  /\ thread[t] = "telling" /\ turn[owner[t]] # "none"
  /\ thread' = [thread EXCEPT ![t] = "held"]
  /\ UNCHANGED <<table, manager, owner, history>>

Tell(t) ==
  /\ thread[t] = "replied" \/ (thread[t] = "telling" /\ turn[owner[t]] = "none")
  /\ \/ /\ thread' = [thread EXCEPT ![t] = "marking"]
        /\ heard' = [heard EXCEPT ![owner[t]][t] = @ + 1]
     \/ /\ thread' = [thread EXCEPT ![t] = "none"]
        /\ UNCHANGED heard
  /\ UNCHANGED <<table, manager, owner, read, dropped, starts>>

Mark(t) ==
  /\ thread[t] = "marking"
  /\ Marked(owner[t], t)
  /\ thread' = [thread EXCEPT ![t] = "none"]
  /\ UNCHANGED <<life, listening, replay, told, turn, carried, owner, history>>

\* The threads are daemons: an exit is as good as a crash.
Crash(p) ==
  /\ life[p] # "down" /\ starts[p] < MaxStarts
  /\ life' = [life EXCEPT ![p] = "down"]
  /\ memory' = [memory EXCEPT ![p] = Blank]
  /\ noted' = [noted EXCEPT ![p] = {}]
  /\ listening' = listening \ {p}
  /\ replay' = [replay EXCEPT ![p] = {}] /\ told' = [told EXCEPT ![p] = {}]
  /\ thread' = [t \in Tasks |-> IF owner[t] = p THEN "none" ELSE thread[t]]
  /\ turn' = [turn EXCEPT ![p] = "none"]
  /\ carried' = [carried EXCEPT ![p] = {}] /\ dropped' = dropped \cup carried[p]
  /\ UNCHANGED <<table, owner, heard, read, starts>>

-----------------------------------------------------------------------------

StartUp(p) == Recover(p) \/ Load(p) \/ Listen(p)
Manage(p) == Replay(p) \/ ReplayMark(p)
Turn(p) == BeginTurn(p) \/ Drain(p) \/ Append(p) \/ EndTurn(p)
Work(t) == Begin(t) \/ Finish(t) \/ Hold(t) \/ Tell(t) \/ Mark(t)

Next ==
  \/ \E p \in Processes :
       \/ StartUp(p) \/ Manage(p) \/ Turn(p) \/ Crash(p)
       \/ \E t \in Tasks : Submit(p, t)
  \/ \E t \in Tasks : Work(t)

Spec == Init /\ [][Next]_vars

\* A process comes up again, commands end, a listener returns, and the user
\* goes on with the conversation.
FairSpec ==
  /\ Spec
  /\ \A p \in Processes : WF_vars(StartUp(p)) /\ WF_vars(Manage(p)) /\ WF_vars(Turn(p))
  /\ \A t \in Tasks : WF_vars(Work(t))

-----------------------------------------------------------------------------
(* Properties *)

\* A task that occupies one of the MaxPending places of a process has a thread
\* there that will give it back.
ActiveHasThread ==
  \A p \in Processes : life[p] = "up" =>
    \A t \in Tasks : memory[p][t] \in Active =>
      owner[t] = p /\ thread[t] \in {"waiting", "running"}

Told(t) == read[t] > 0 \/ \E p \in Processes : heard[p][t] > 0

\* What is marked, and so never told again, was told or is on its way into the
\* session.  A listener that raises loses nothing, nor does a crash between
\* telling and marking: only a turn that fails with what it drained does.
MarkedIsTold ==
  \A t \in delivered : Told(t) \/ t \in dropped \/ \E p \in Processes : t \in carried[p]

\* tests/runtime/test_background_tasks.py: "completed_notifications_are_drained_
\* once".  No listener, replay or restart makes a turn take an end again, and an
\* end reaches the listener of a process at most once for each of its starts,
\* also when the listener is registered while the task ends.
ToldOnce ==
  \A t \in Tasks :
    /\ read[t] <= 1
    /\ \A p \in Processes : heard[p][t] <= starts[p]

\* An end is told before it is forgotten, and not taken twice.
EndsAreToldOnce == MarkedIsTold /\ ToldOnce

\* An end is final: no late thread, replay or restart changes how a task ended,
\* or makes it untold again.
EndIsFinal ==
  [][\A t \in Tasks :
       /\ row[t] \in Ended => row'[t] = row[t]
       /\ t \in delivered => t \in delivered']_vars

\* The end of every task is told, by the process that ran it or a later one,
\* unless a turn failed with it.
EveryEndIsTold == \A t \in Tasks : row[t] # "absent" ~> (Told(t) \/ t \in dropped)
=============================================================================
