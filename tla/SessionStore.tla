----------------------------- MODULE SessionStore -----------------------------
(***************************************************************************)
(* What the store of a session promises to the turns that use it, whoever  *)
(* they are and however they interleave: the runs and operations of the    *)
(* protocol in runtime/sessions/store.py, as the in-memory store of        *)
(* runtime/sessions/memory.py keeps them.  Each call is one step, and the  *)
(* order of the calls is left open: OperationJournal says in which one the *)
(* turns make them, over the SQLite store, and implements this.            *)
(***************************************************************************)
CONSTANTS Runs, Calls

VARIABLES
  runs,       \* the status of a run, "absent" when it was not started
  operations  \* the status of the operation of a call of a run

storeVars == <<runs, operations>>

Unfinished == {"planned", "running"}
WithResult == {"succeeded", "failed"}

StoreInit ==
  /\ runs = [r \in Runs |-> "absent"]
  /\ operations = [o \in Runs \X Calls |-> "absent"]

\* start_run(): a run that still runs gives way, with what it had not finished.
StartRun(r) ==
  LET interrupted == {s \in Runs : runs[s] = "running"}
  IN /\ runs[r] = "absent"
     /\ runs' = [s \in Runs |-> IF s = r THEN "running"
                                ELSE IF s \in interrupted THEN "interrupted" ELSE runs[s]]
     /\ operations' = [o \in Runs \X Calls |->
          IF o[1] \in interrupted /\ operations[o] \in Unfinished
            THEN "interrupted" ELSE operations[o]]

\* resume_run(): of any run that was started.
ResumeRun(r) ==
  /\ runs[r] # "absent"
  /\ runs' = [runs EXCEPT ![r] = "running"]
  /\ UNCHANGED operations

\* plan_operation(): of a call that is not there yet.
PlanOperation(o) ==
  /\ operations[o] = "absent"
  /\ operations' = [operations EXCEPT ![o] = "planned"]
  /\ UNCHANGED runs

\* mark_operation_running(): for the first time, or after the user has answered.
MarkOperationRunning(o) ==
  /\ operations[o] \in {"planned", "awaiting_input"}
  /\ operations' = [operations EXCEPT ![o] = "running"]
  /\ UNCHANGED runs

\* complete_operation(): of one that runs; a result is kept unless it is awaited.
CompleteOperation(o) ==
  /\ operations[o] = "running"
  /\ \E status \in WithResult \cup {"awaiting_input"} :
       operations' = [operations EXCEPT ![o] = status]
  /\ UNCHANGED runs

\* finalize(): nobody asks what the run was.
FinalizeRun(r) ==
  /\ runs[r] # "absent"
  /\ \E status \in {"completed", "failed", "cancelled", "awaiting_input"} :
       runs' = [runs EXCEPT ![r] = status]
  /\ UNCHANGED operations

StoreNext ==
  \/ \E r \in Runs : StartRun(r) \/ ResumeRun(r) \/ FinalizeRun(r)
  \/ \E o \in Runs \X Calls :
       PlanOperation(o) \/ MarkOperationRunning(o) \/ CompleteOperation(o)

StoreSpec == StoreInit /\ [][StoreNext]_storeVars
=============================================================================
