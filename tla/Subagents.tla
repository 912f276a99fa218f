----------------------------- MODULE Subagents -----------------------------
(***************************************************************************)
(* One delegate_task call: runtime/tasks/subagents.py runs its tasks on a  *)
(* pool of threads, each as a conversation of its own, and waits for them  *)
(* until the deadline or until the turn of the parent is cancelled.  Those *)
(* that it stops waiting for are told through their tokens, and go on to   *)
(* their next look at it.                                                  *)
(***************************************************************************)
EXTENDS Naturals, FiniteSets, Sequences

CONSTANT Children  \* as many as the tasks of the call, in their order

ASSUME ChildrenAssumption == Children \in Nat \ {0}

VARIABLES
  delegation,  \* _execute(): where it is, and the status of what is unfinished
  awaited,     \* pending, or unfinished
  child,       \* where the run of each task is, and its result
  toldToStop,  \* the tokens that are cancelled
  late,        \* the deadline has passed
  stopped,     \* cancellation_requested()
  reported     \* the runs the call returns

childVars == <<delegation, awaited, child, toldToStop, late, stopped, reported>>

ChildTasks == 1..Children
ChildEnds == {"success", "failed", "awaiting_input", "cancelled"}
RunStatuses == ChildEnds \cup {"timed_out"}

ChildTypeOK ==
  /\ delegation \in [at : {"idle", "waits", "tells", "answers", "done"},
                    why : {"timed_out", "cancelled"}]
  /\ awaited \subseteq ChildTasks /\ toldToStop \subseteq ChildTasks
  /\ child \in [ChildTasks -> {"absent", "queued", "runs", "withdrawn"} \cup ChildEnds]
  /\ late \in BOOLEAN /\ stopped \in BOOLEAN
  /\ reported \in [ChildTasks -> RunStatuses \cup {"none"}]

ChildInit ==
  /\ delegation = [at |-> "idle", why |-> "timed_out"] /\ awaited = {}
  /\ child = [i \in ChildTasks |-> "absent"] /\ toldToStop = {}
  /\ late = FALSE /\ stopped = FALSE /\ reported = [i \in ChildTasks |-> "none"]

-----------------------------------------------------------------------------
(* _execute() *)

\* The tasks are well formed, and the pool has a thread for each.
Delegate ==
  /\ delegation.at = "idle" /\ delegation' = [delegation EXCEPT !.at = "waits"]
  /\ awaited' = ChildTasks /\ child' = [i \in ChildTasks |-> "queued"]
  /\ UNCHANGED <<toldToStop, late, stopped, reported>>

\* wait() returns with those that are done by now.
Wait ==
  /\ delegation.at = "waits" /\ awaited # {}
  /\ awaited' = {i \in awaited : child[i] \notin ChildEnds}
  /\ UNCHANGED <<delegation, child, toldToStop, late, stopped, reported>>

\* The loop ends; who is unfinished is decided once.
StopWaiting ==
  /\ delegation.at = "waits"
  /\ \E why \in {"timed_out", "cancelled"} :
       /\ \/ awaited = {} /\ why = "timed_out"
          \/ late /\ why = "timed_out"
          \/ stopped /\ awaited # {} /\ why = "cancelled"
       /\ delegation' = [at |-> "tells", why |-> why]
  /\ UNCHANGED <<awaited, child, toldToStop, late, stopped, reported>>

\* Mutant of TellChildren, which violates ChildrenStop.
TellFirst ==
  /\ delegation.at = "tells"
  /\ delegation' = [delegation EXCEPT !.at = "answers"]
  /\ IF awaited = {} THEN UNCHANGED <<child, toldToStop>>
     ELSE LET i == CHOOSE i \in awaited : \A j \in awaited : i <= j IN
          /\ toldToStop' = toldToStop \cup {i}
          /\ child' = [child EXCEPT ![i] = IF @ = "queued" THEN "withdrawn" ELSE @]
  /\ UNCHANGED <<awaited, late, stopped, reported>>

\* The next unfinished child's token, and its future if it has not begun.
TellChildren ==
  /\ delegation.at = "tells"
  /\ IF awaited \subseteq toldToStop
     THEN delegation' = [delegation EXCEPT !.at = "answers"] /\ UNCHANGED <<child, toldToStop>>
     ELSE LET i == CHOOSE i \in awaited \ toldToStop : \A j \in awaited \ toldToStop : i <= j IN
          /\ toldToStop' = toldToStop \cup {i}
          /\ child' = [child EXCEPT ![i] = IF @ = "queued" THEN "withdrawn" ELSE @]
          /\ UNCHANGED delegation
  /\ UNCHANGED <<awaited, late, stopped, reported>>

Answer ==
  /\ delegation.at = "answers" /\ delegation' = [delegation EXCEPT !.at = "done"]
  /\ reported' = [i \in ChildTasks |-> IF i \in awaited THEN delegation.why ELSE child[i]]
  /\ UNCHANGED <<awaited, child, toldToStop, late, stopped>>

-----------------------------------------------------------------------------
(* _run_one() on a thread of the pool *)

BeginChild(i) ==
  /\ child[i] = "queued" /\ child' = [child EXCEPT ![i] = "runs"]
  /\ UNCHANGED <<delegation, awaited, toldToStop, late, stopped, reported>>

\* The turn of the child looks at its token, or ends by itself.
EndChild(i) ==
  /\ child[i] = "runs"
  /\ \E end \in IF i \in toldToStop THEN ChildEnds ELSE ChildEnds \ {"cancelled"} :
       child' = [child EXCEPT ![i] = end]
  /\ UNCHANGED <<delegation, awaited, toldToStop, late, stopped, reported>>

\* A child that is told does not go on for ever; one that is not told may.
ObeyToken(i) == i \in toldToStop /\ EndChild(i)

PassDeadline ==
  /\ delegation.at = "waits" /\ ~late /\ late' = TRUE
  /\ UNCHANGED <<delegation, awaited, child, toldToStop, stopped, reported>>
StopParent ==
  /\ delegation.at = "waits" /\ ~stopped /\ stopped' = TRUE
  /\ UNCHANGED <<delegation, awaited, child, toldToStop, late, reported>>

-----------------------------------------------------------------------------
ParentStep == Wait \/ StopWaiting \/ TellChildren \/ Answer
ChildNext ==
  \/ Delegate \/ ParentStep \/ PassDeadline \/ StopParent
  \/ \E i \in ChildTasks : BeginChild(i) \/ EndChild(i)

ChildSpec == ChildInit /\ [][ChildNext]_childVars

\* The parent's thread, the pool and the clock go on.
ChildFairness ==
  /\ WF_childVars(StopWaiting) /\ WF_childVars(TellChildren) /\ WF_childVars(Answer)
  /\ WF_childVars(PassDeadline)
  /\ \A i \in ChildTasks : WF_childVars(BeginChild(i)) /\ WF_childVars(ObeyToken(i))

-----------------------------------------------------------------------------
(* Properties *)

\* delegate_task returns whatever its children do, with the end of each that was
\* done in time, and then no child is left that works on for ever: each one is
\* done, or was told to stop and does.
ChildrenStop ==
  delegation.at = "waits" ~>
    [](/\ delegation.at = "done"
       /\ \A i \in ChildTasks : /\ child[i] \in ChildEnds \cup {"withdrawn"}
                          /\ reported[i] \in {child[i], delegation.why})
=============================================================================
