------------------------------ MODULE BashTool ------------------------------
(***************************************************************************)
(* The processes of tools/bash_tool.py: a call waits for its command, hands *)
(* it to BackgroundTaskManager.submit() when it takes long, or starts it as *)
(* a task; whoever waits ends it when it is cancelled or out of time.       *)
(***************************************************************************)
EXTENDS Naturals, FiniteSets

CONSTANTS
  Commands,
  MaxRunningTasks,  \* max_concurrent_tasks
  MaxTasks          \* max_pending_tasks

ASSUME BashAssumption ==
  /\ MaxRunningTasks \in Nat \ {0} /\ MaxTasks \in Nat /\ MaxRunningTasks <= MaxTasks

VARIABLES
  watcher,    \* who waits for a command, and how
  process,    \* its process
  overtime,   \* its timeout has passed since its process was started
  cancelled,  \* its turn or its task was cancelled
  reply,      \* what its call has returned
  report      \* the end its task has told

bashVars == <<watcher, process, overtime, cancelled, reply, report>>

Watchers == {"none", "call", "call_to_the_end", "task_queued", "task", "over"}
ProcessEnds == {"completed", "timed_out", "cancelled"}

BashTypeOK ==
  /\ watcher \in [Commands -> Watchers]
  /\ process \in [Commands -> {"none", "live", "exited", "terminated"}]
  /\ overtime \in [Commands -> BOOLEAN] /\ cancelled \in [Commands -> BOOLEAN]
  /\ reply \in [Commands -> ProcessEnds \cup {"none", "task", "full"}]
  /\ report \in [Commands -> ProcessEnds \cup {"none"}]

BashInit ==
  /\ watcher = [c \in Commands |-> "none"] /\ process = [c \in Commands |-> "none"]
  /\ overtime = [c \in Commands |-> FALSE] /\ cancelled = [c \in Commands |-> FALSE]
  /\ reply = [c \in Commands |-> "none"] /\ report = [c \in Commands |-> "none"]

TasksAt(states) == {c \in Commands : watcher[c] \in states}
HasRoom == Cardinality(TasksAt({"task_queued", "task"})) < MaxTasks
HasSlot == Cardinality(TasksAt({"task"})) < MaxRunningTasks

\* _terminate_process(): what has ended by itself stays as it is.
Terminated(c) == IF process[c] = "live" THEN "terminated" ELSE process[c]

\* _wait_for_process(): the order in which it looks.
EndOf(c) ==
  CASE process[c] # "live" -> "completed"
    [] process[c] = "live" /\ cancelled[c] -> "cancelled"
    [] process[c] = "live" /\ ~cancelled[c] /\ overtime[c] -> "timed_out"
    [] OTHER -> "none"

-----------------------------------------------------------------------------
(* The call *)

\* _cancelled_result(): there is no process.
CancelledResult(c) ==
  /\ watcher' = [watcher EXCEPT ![c] = "over"]
  /\ reply' = [reply EXCEPT ![c] = "cancelled"] /\ UNCHANGED process

\* _execute() and _execute_with_yield() up to the wait.
StartProcess(c) ==
  /\ watcher[c] = "none"
  /\ IF cancelled[c] THEN CancelledResult(c)
     ELSE /\ \E how \in {"call", "call_to_the_end"} : watcher' = [watcher EXCEPT ![c] = how]
          /\ process' = [process EXCEPT ![c] = "live"] /\ UNCHANGED reply
  /\ UNCHANGED <<overtime, cancelled, report>>

\* background = true
StartTask(c) ==
  /\ watcher[c] = "none"
  /\ watcher' = [watcher EXCEPT ![c] = IF HasRoom THEN "task_queued" ELSE "over"]
  /\ reply' = [reply EXCEPT ![c] = IF HasRoom THEN "task" ELSE "full"]
  /\ UNCHANGED <<process, overtime, cancelled, report>>

\* The wait of a call ends, and _finish_process() with it.
ReturnResult(c) ==
  /\ watcher[c] \in {"call", "call_to_the_end"} /\ EndOf(c) # "none"
  /\ reply' = [reply EXCEPT ![c] = EndOf(c)]
  /\ process' = [process EXCEPT ![c] = Terminated(c)]
  /\ watcher' = [watcher EXCEPT ![c] = "over"]
  /\ UNCHANGED <<overtime, cancelled, report>>

\* yield_time_ms has passed; without room the call goes on waiting.
Yield(c) ==
  /\ watcher[c] = "call" /\ EndOf(c) = "none"
  /\ watcher' = [watcher EXCEPT ![c] = IF HasRoom THEN "task_queued" ELSE "call_to_the_end"]
  /\ reply' = [reply EXCEPT ![c] = IF HasRoom THEN "task" ELSE @]
  /\ UNCHANGED <<process, overtime, cancelled, report>>

-----------------------------------------------------------------------------
(* The task *)

\* The thread of a task has a slot: it starts the process, or resumes the wait.
RunTask(c) ==
  /\ watcher[c] = "task_queued" /\ HasSlot
  /\ IF process[c] = "none" /\ cancelled[c]
     THEN /\ watcher' = [watcher EXCEPT ![c] = "over"]
          /\ report' = [report EXCEPT ![c] = "cancelled"] /\ UNCHANGED process
     ELSE /\ watcher' = [watcher EXCEPT ![c] = "task"]
          /\ process' = [process EXCEPT ![c] = IF @ = "none" THEN "live" ELSE @]
          /\ UNCHANGED report
  /\ UNCHANGED <<overtime, cancelled, reply>>

\* Mutant of EndTask, which violates EveryProcessIsWatched.
EndTaskAlone(c) ==
  /\ watcher[c] = "task" /\ EndOf(c) # "none"
  /\ report' = [report EXCEPT ![c] = EndOf(c)]
  /\ watcher' = [watcher EXCEPT ![c] = "over"]
  /\ UNCHANGED <<process, overtime, cancelled, reply>>

EndTask(c) ==
  /\ watcher[c] = "task" /\ EndOf(c) # "none"
  /\ report' = [report EXCEPT ![c] = EndOf(c)]
  /\ process' = [process EXCEPT ![c] = Terminated(c)]
  /\ watcher' = [watcher EXCEPT ![c] = "over"]
  /\ UNCHANGED <<overtime, cancelled, reply>>

-----------------------------------------------------------------------------
(* The command, the clock and the user *)

Exit(c) ==
  /\ process[c] = "live" /\ process' = [process EXCEPT ![c] = "exited"]
  /\ UNCHANGED <<watcher, overtime, cancelled, reply, report>>
PassTimeout(c) ==
  /\ process[c] = "live" /\ ~overtime[c] /\ overtime' = [overtime EXCEPT ![c] = TRUE]
  /\ UNCHANGED <<watcher, process, cancelled, reply, report>>

\* The token of the turn, or the action cancel of background_task.
Cancel(c) ==
  /\ watcher[c] # "over" /\ ~cancelled[c] /\ cancelled' = [cancelled EXCEPT ![c] = TRUE]
  /\ UNCHANGED <<watcher, process, overtime, reply, report>>

-----------------------------------------------------------------------------
Waiting(c) == ReturnResult(c) \/ RunTask(c) \/ EndTask(c)
BashNext == \E c \in Commands :
  StartProcess(c) \/ StartTask(c) \/ Yield(c) \/ Waiting(c) \/ Exit(c) \/ PassTimeout(c) \/ Cancel(c)

BashSpec == BashInit /\ [][BashNext]_bashVars

-----------------------------------------------------------------------------
(* Properties *)

\* Every process has somebody who waits for it, until its end was told once, to
\* the call or by the task the call named: then no process is left.
EveryProcessIsWatched ==
  \A c \in Commands :
    /\ process[c] = "live" => watcher[c] \notin {"none", "over"}
    /\ report[c] # "none" => reply[c] = "task"
    /\ watcher[c] = "over" => reply[c] # "none" /\ (reply[c] = "task" => report[c] # "none")
    /\ watcher[c] = "over" /\ "completed" \in {reply[c], report[c]} => process[c] = "exited"
=============================================================================
