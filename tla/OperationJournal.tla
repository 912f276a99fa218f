-------------------------- MODULE OperationJournal --------------------------
(***************************************************************************)
(* One session of the agent runtime: the turn loop (runtime/agent/loop.py, *)
(* runtime/agent/engine.py) over the durable run and operation records     *)
(* (runtime/sessions/sqlite.py, runtime/operations.py).  A turn plans the  *)
(* tool calls of a model response, marks them running, dispatches them and *)
(* records their results; each SQLite transaction and each side effect is  *)
(* one step.  A call may be put before the user; the interaction this      *)
(* leaves behind (runtime/tools/interactions.py) lets a later request      *)
(* resume the run at that call (app/conversation_service.py).  A crash, or *)
(* an exception that escapes the turn, loses what the process knew and     *)
(* leaves the records as they are.  Several processes may share them.      *)
(***************************************************************************)
EXTENDS Naturals, FiniteSets

CONSTANTS
  Processes,      \* each runs at most one turn of the session at a time
  Runs,           \* run ids
  Calls,          \* tool call ids the model may use, in any run
  MaxIterations,  \* of the loop of one turn
  None            \* no run, no call

ASSUME JournalAssumption ==
  /\ MaxIterations \in Nat \ {0}
  /\ None \notin Runs /\ None \notin Calls /\ None \notin Runs \X Calls

VARIABLES
  runStatus,  \* runs.status, "absent" when there is no such row
  opStatus,   \* tool_executions.status of a run's call
  interaction,\* the stored interaction of a call, "none" when there is none
  attached,   \* calls the interaction made for them is attached to
  effects,    \* history: how often the side effect of a call was executed
  pc,         \* where the turn of each process is
  run,        \* its run
  resumed,    \* the call whose interaction it claimed
  call,       \* the call being planned
  batch,      \* calls of the response still to be planned
  ready,      \* calls marked running and not yet dispatched
  result,     \* results in memory, "none" when there is none
  waiting,    \* the call that was put before the user
  asked,      \* the older interaction it was put in, None when it has its own
  verdict,    \* the status finalize() will be given
  iteration,  \* of the loop
  cancelled   \* the cancellation token

interactions == <<interaction, attached>>
durable == <<runStatus, opStatus, interactions, effects>>
turn == <<pc, run, resumed, call, batch, ready, result, waiting, asked, verdict,
          iteration, cancelled>>
vars == <<durable, turn>>

RunStatuses == {"absent", "running", "awaiting_input", "completed", "failed",
                "cancelled", "interrupted"}
OpStatuses == {"absent", "planned", "running", "awaiting_input", "succeeded",
               "failed", "interrupted"}
Ended == {"completed", "failed", "cancelled", "interrupted"}
Settled == {"succeeded", "failed"}

\* "cancelled" stands for the end of a steered turn, "superseded", as well.
Verdicts == {"completed", "failed", "cancelled", "awaiting_input"}
Interactions == {"none", "pending", "resolved", "claimed"}
Places == {"idle", "claimed", "stray", "resuming", "redo", "model", "tools", "mark",
           "finish", "attach", "complete"}
Operations == Runs \X Calls

TypeOK ==
  /\ runStatus \in [Runs -> RunStatuses]
  /\ opStatus \in [Operations -> OpStatuses]
  /\ interaction \in [Operations -> Interactions]
  /\ attached \in SUBSET Operations
  /\ effects \in [Operations -> Nat]
  /\ pc \in [Processes -> Places]
  /\ run \in [Processes -> Runs \cup {None}]
  /\ resumed \in [Processes -> Calls \cup {None}]
  /\ call \in [Processes -> Calls \cup {None}]
  /\ batch \in [Processes -> SUBSET Calls]
  /\ ready \in [Processes -> SUBSET Calls]
  /\ result \in [Processes -> [Calls -> {"none", "awaiting_input"} \cup Settled]]
  /\ waiting \in [Processes -> Calls \cup {None}]
  /\ asked \in [Processes -> Operations \cup {None}]
  /\ verdict \in [Processes -> Verdicts \cup {"none"}]
  /\ iteration \in [Processes -> 0..MaxIterations]
  /\ cancelled \in [Processes -> BOOLEAN]

NoResults == [c \in Calls |-> "none"]

Init ==
  /\ runStatus = [r \in Runs |-> "absent"]
  /\ opStatus = [o \in Operations |-> "absent"]
  /\ interaction = [o \in Operations |-> "none"]
  /\ attached = {}
  /\ effects = [o \in Operations |-> 0]
  /\ pc = [p \in Processes |-> "idle"]
  /\ run = [p \in Processes |-> None]
  /\ resumed = [p \in Processes |-> None]
  /\ call = [p \in Processes |-> None]
  /\ batch = [p \in Processes |-> {}]
  /\ ready = [p \in Processes |-> {}]
  /\ result = [p \in Processes |-> NoResults]
  /\ waiting = [p \in Processes |-> None]
  /\ asked = [p \in Processes |-> None]
  /\ verdict = [p \in Processes |-> "none"]
  /\ iteration = [p \in Processes |-> 0]
  /\ cancelled = [p \in Processes |-> FALSE]

-----------------------------------------------------------------------------
(* Operation records *)

\* Mutant of AllowedTransition, which violates ImplementsSessionStore.
AllowedLate(from, to) ==
  \/ from = "planned" /\ to \in {"running", "interrupted"}
  \/ from \in {"running", "interrupted"} /\ to \in {"awaiting_input", "interrupted"} \cup Settled
  \/ from = "awaiting_input" /\ to = "running"

\* validate_operation_transition()
AllowedTransition(from, to) ==
  \/ from = "planned" /\ to \in {"running", "interrupted"}
  \/ from = "running" /\ to \in {"awaiting_input", "interrupted"} \cup Settled
  \/ from = "awaiting_input" /\ to = "running"

\* The operation of a call of the run of p.
Op(p, c) == <<run[p], c>>

Moves(p, from, to) == pc[p] = from /\ pc' = [pc EXCEPT ![p] = to]

\* The turn of p is over: it returned, it raised, or its process died.
Forget(p) ==
  /\ pc' = [pc EXCEPT ![p] = "idle"]
  /\ run' = [run EXCEPT ![p] = None]
  /\ resumed' = [resumed EXCEPT ![p] = None]
  /\ call' = [call EXCEPT ![p] = None]
  /\ batch' = [batch EXCEPT ![p] = {}]
  /\ ready' = [ready EXCEPT ![p] = {}]
  /\ result' = [result EXCEPT ![p] = NoResults]
  /\ waiting' = [waiting EXCEPT ![p] = None]
  /\ asked' = [asked EXCEPT ![p] = None]
  /\ verdict' = [verdict EXCEPT ![p] = "none"]
  /\ iteration' = [iteration EXCEPT ![p] = 0]
  /\ cancelled' = [cancelled EXCEPT ![p] = FALSE]

\* An exception escapes the turn; nothing is written.
Raise(p) == Forget(p) /\ UNCHANGED durable

-----------------------------------------------------------------------------
(* Starting and resuming a run *)

\* Mutant of Superseded, which violates VerdictIsFinal.
SupersededAny(r) == runStatus[r] # "absent"

\* The runs and operations start_run() interrupts.
Superseded(r) == runStatus[r] = "running"

\* Mutant of Interrupts, which violates EndedRunsAreSettled.
InterruptsNone(o) == FALSE

\* Mutant of Interrupts, which violates JournalIsAhead.
InterruptsWaiting(o) == opStatus[o] \in {"planned", "running", "awaiting_input"}
Interrupts(o) == Superseded(o[1]) /\ opStatus[o] \in {"planned", "running"}

\* start_run(): one transaction ends every run of the session that is still
\* running, with its unfinished operations, and inserts the new run.  The
\* handler starts a run only when it finds no resolved interaction to claim.
Start(p, r) ==
  /\ Moves(p, "idle", "model")
  /\ \A o \in Operations : interaction[o] # "resolved"
  /\ runStatus[r] = "absent"
  /\ runStatus' = [s \in Runs |-> IF s = r THEN "running"
                                  ELSE IF Superseded(s) THEN "interrupted"
                                  ELSE runStatus[s]]
  /\ opStatus' = [o \in Operations |-> IF Interrupts(o) THEN "interrupted" ELSE opStatus[o]]
  /\ run' = [run EXCEPT ![p] = r]
  /\ UNCHANGED <<interactions, effects, resumed, call, batch, ready, result, waiting,
                 asked, verdict, iteration, cancelled>>

\* Mutant of MarksClaimed, which violates AtMostOnceEffect.
MarksNothing(o) == UNCHANGED interaction

\* claim_resolved(): the handler gets the interaction as it is stored now, and
\* can resume its run only if it is attached to a call of this run.
MarksClaimed(o) == interaction' = [interaction EXCEPT ![o] = "claimed"]

Claim(p, r, c) ==
  /\ Moves(p, "idle", IF <<r, c>> \in attached THEN "claimed" ELSE "stray")
  /\ interaction[<<r, c>>] = "resolved"
  /\ MarksClaimed(<<r, c>>)
  /\ run' = [run EXCEPT ![p] = r]
  /\ resumed' = [resumed EXCEPT ![p] = c]
  /\ UNCHANGED <<runStatus, opStatus, attached, effects, call, batch, ready, result,
                 waiting, asked, verdict, iteration, cancelled>>

\* resume_run()
Resumes(p) == runStatus' = [runStatus EXCEPT ![run[p]] = "running"]

ResumeRun(p) ==
  /\ Moves(p, "claimed", "resuming")
  /\ Resumes(p)
  /\ UNCHANGED <<opStatus, interactions, effects, run, resumed, call, batch, ready,
                 result, waiting, asked, verdict, iteration, cancelled>>

\* "pending interaction is missing its tool-call checkpoint", or it names the
\* call of another run: the resume raises once the run is marked as running.
StrayResume(p) ==
  /\ pc[p] = "stray"
  /\ Resumes(p)
  /\ Forget(p)
  /\ UNCHANGED <<opStatus, interactions, effects>>

\* mark_operation_running() for operation o; its callers raise otherwise.
MarkRunning(o) ==
  /\ opStatus[o] = "running" \/ AllowedTransition(opStatus[o], "running")
  /\ opStatus' = [opStatus EXCEPT ![o] = "running"]
CannotRun(o) == opStatus[o] # "running" /\ ~AllowedTransition(opStatus[o], "running")

\* _resume_turn_interaction(): the checkpointed operation runs again, unless it
\* is completed already.
MarkResumed(p) ==
  /\ Moves(p, "resuming", "redo")
  /\ opStatus[Op(p, resumed[p])] \notin Settled
  /\ MarkRunning(Op(p, resumed[p]))
  /\ UNCHANGED <<runStatus, interactions, effects, run, resumed, call, batch, ready,
                 result, waiting, asked, verdict, iteration, cancelled>>

\* The side effect of a call happens, and its outcome is known to the process.
Execute(p, c) ==
  /\ effects' = [effects EXCEPT ![Op(p, c)] = @ + 1]
  /\ \E outcome \in Settled : result' = [result EXCEPT ![p] = [@ EXCEPT ![c] = outcome]]

\* dispatch_approved() executes the approved call, or refuses it; the user's
\* answer or denial becomes the result of the call without an effect.
Redo(p) ==
  /\ Moves(p, "redo", "tools")
  /\ \/ Execute(p, resumed[p])
     \/ /\ \E outcome \in Settled :
             result' = [result EXCEPT ![p] = [@ EXCEPT ![resumed[p]] = outcome]]
        /\ UNCHANGED effects
  /\ UNCHANGED <<runStatus, opStatus, interactions, run, resumed, call, batch, ready,
                 waiting, asked, verdict, iteration, cancelled>>

-----------------------------------------------------------------------------
(* The loop of a turn *)

Ends(p, from, status) ==
  /\ Moves(p, from, "finish")
  /\ verdict' = [verdict EXCEPT ![p] = status]

\* The token is read before and after the request to the model, whose response
\* is discarded when the turn was cancelled.
Discard(p) ==
  /\ iteration[p] < MaxIterations /\ cancelled[p]
  /\ Ends(p, "model", "cancelled")
  /\ UNCHANGED <<durable, run, resumed, call, batch, ready, result, waiting, asked,
                 iteration, cancelled>>

\* The request fails, or its response is the final answer.
Answer(p) ==
  /\ iteration[p] < MaxIterations
  /\ \/ Ends(p, "model", "failed")
     \/ ~cancelled[p] /\ Ends(p, "model", "completed")
  /\ UNCHANGED <<durable, run, resumed, call, batch, ready, result, waiting, asked,
                 iteration, cancelled>>

\* An exhausted turn ends with the answer to a last request for a summary, or
\* without one.
Exhausted(p) ==
  /\ iteration[p] = MaxIterations
  /\ \E status \in {"completed", "failed"} : Ends(p, "model", status)
  /\ UNCHANGED <<durable, run, resumed, call, batch, ready, result, waiting, asked,
                 iteration, cancelled>>

\* The stop hook asks for another step instead of the final answer.
FollowUp(p) ==
  /\ Moves(p, "model", "model")
  /\ ~cancelled[p] /\ iteration[p] < MaxIterations
  /\ iteration' = [iteration EXCEPT ![p] = @ + 1]
  /\ UNCHANGED <<durable, run, resumed, call, batch, ready, result, waiting, asked,
                 verdict, cancelled>>

\* Mutant of AskForTools, which violates EveryTurnEnds.
AskUncounted(p, calls) ==
  /\ Moves(p, "model", "tools")
  /\ ~cancelled[p] /\ iteration[p] < MaxIterations
  /\ calls # {}
  /\ batch' = [batch EXCEPT ![p] = calls]
  /\ UNCHANGED <<durable, run, resumed, call, ready, result, waiting, asked, verdict,
                 iteration, cancelled>>

\* The response holds tool calls; repeated ids count once.
AskForTools(p, calls) ==
  /\ Moves(p, "model", "tools")
  /\ ~cancelled[p] /\ iteration[p] < MaxIterations
  /\ calls # {}
  /\ batch' = [batch EXCEPT ![p] = calls]
  /\ iteration' = [iteration EXCEPT ![p] = @ + 1]
  /\ UNCHANGED <<durable, run, resumed, call, ready, result, waiting, asked, verdict,
                 cancelled>>

\* plan_operation(): inserted unless the run already has this call.
Plan(p, c) ==
  /\ Moves(p, "tools", "mark")
  /\ c \in batch[p]
  /\ call' = [call EXCEPT ![p] = c]
  /\ batch' = [batch EXCEPT ![p] = @ \ {c}]
  /\ opStatus' = [opStatus EXCEPT ![Op(p, c)] = IF @ = "absent" THEN "planned" ELSE @]
  /\ UNCHANGED <<runStatus, interactions, effects, run, resumed, ready, result, waiting,
                 asked, verdict, iteration, cancelled>>

\* get_tool_result() finds a completed operation: its result is reused.
Reuse(p) ==
  /\ Moves(p, "mark", "tools")
  /\ opStatus[Op(p, call[p])] \in Settled
  /\ call' = [call EXCEPT ![p] = None]
  /\ UNCHANGED <<durable, run, resumed, batch, ready, result, waiting, asked, verdict,
                 iteration, cancelled>>

\* There is no result yet: the operation is marked running before it is
\* dispatched.
Mark(p) ==
  /\ Moves(p, "mark", "tools")
  /\ opStatus[Op(p, call[p])] \notin Settled
  /\ MarkRunning(Op(p, call[p]))
  /\ ready' = [ready EXCEPT ![p] = @ \cup {call[p]}]
  /\ call' = [call EXCEPT ![p] = None]
  /\ UNCHANGED <<runStatus, interactions, effects, run, resumed, batch, result, waiting,
                 asked, verdict, iteration, cancelled>>

\* Marking an operation that may not run raises.
MarkRaises(p) ==
  /\ pc[p] = "mark"
  /\ opStatus[Op(p, call[p])] \notin Settled
  /\ CannotRun(Op(p, call[p]))
  /\ Raise(p)

\* Calls are dispatched when all are marked, and recorded when all have results.
Marked(p) == pc[p] = "tools" /\ batch[p] = {}
Dispatched(p) == Marked(p) /\ ready[p] = {}

\* ToolRegistry.dispatch(): a call is executed, refused without effect, or put
\* before the user; once one waits for the user the others are deferred.
Waits(p) == \E c \in Calls : result[p][c] = "awaiting_input"

\* create(): a request that is pending already, from this run or an earlier
\* one, is not put to the user again.
PutToUser(p, c) ==
  /\ result' = [result EXCEPT ![p] = [@ EXCEPT ![c] = "awaiting_input"]]
  /\ \/ /\ interaction' = [interaction EXCEPT ![Op(p, c)] = "pending"]
        /\ UNCHANGED asked
     \/ /\ \E o \in Operations \ {Op(p, c)} :
             interaction[o] = "pending" /\ asked' = [asked EXCEPT ![p] = o]
        /\ UNCHANGED interaction

Dispatch(p, c) ==
  /\ Marked(p)
  /\ c \in ready[p]
  /\ ready' = [ready EXCEPT ![p] = @ \ {c}]
  /\ \/ ~Waits(p) /\ Execute(p, c) /\ UNCHANGED <<interaction, asked>>
     \/ /\ result' = [result EXCEPT ![p] = [@ EXCEPT ![c] = "failed"]]
        /\ UNCHANGED <<interaction, effects, asked>>
     \/ ~Waits(p) /\ PutToUser(p, c) /\ UNCHANGED effects
  /\ UNCHANGED <<runStatus, opStatus, attached, pc, run, resumed, call, batch, waiting,
                 verdict, iteration, cancelled>>

\* record_tool_result(): complete_operation() unless it is completed already.
Record(p, c) ==
  /\ Dispatched(p)
  /\ result[p][c] # "none"
  /\ \/ opStatus[Op(p, c)] \in Settled /\ UNCHANGED opStatus
     \/ /\ AllowedTransition(opStatus[Op(p, c)], result[p][c])
        /\ opStatus' = [opStatus EXCEPT ![Op(p, c)] = result[p][c]]
  /\ result' = [result EXCEPT ![p] = [@ EXCEPT ![c] = "none"]]
  /\ waiting' = IF result[p][c] = "awaiting_input"
                THEN [waiting EXCEPT ![p] = c] ELSE waiting
  /\ UNCHANGED <<runStatus, interactions, effects, pc, run, resumed, call, batch, ready,
                 asked, verdict, iteration, cancelled>>

\* complete_operation() refuses a record another process has interrupted.
RecordRaises(p, c) ==
  /\ Dispatched(p)
  /\ result[p][c] # "none"
  /\ opStatus[Op(p, c)] \notin Settled
  /\ ~AllowedTransition(opStatus[Op(p, c)], result[p][c])
  /\ Raise(p)

\* After the tools: cancelled, waiting for the user, or once more round.
AfterTools(p) ==
  /\ Dispatched(p)
  /\ result[p] = NoResults
  /\ \/ cancelled[p] /\ Ends(p, "tools", "cancelled")
     \/ ~cancelled[p] /\ waiting[p] # None /\ Ends(p, "tools", "awaiting_input")
     \/ /\ ~cancelled[p] /\ waiting[p] = None
        /\ Moves(p, "tools", "model") /\ UNCHANGED verdict
  /\ UNCHANGED <<durable, run, resumed, call, batch, ready, result, waiting, asked,
                 iteration, cancelled>>

\* finalize(): the verdict becomes the run's status.
Finish(p) ==
  /\ Moves(p, "finish", "attach")
  /\ runStatus' = [runStatus EXCEPT ![run[p]] = verdict[p]]
  /\ UNCHANGED <<opStatus, interactions, effects, run, resumed, call, batch, ready,
                 result, waiting, asked, verdict, iteration, cancelled>>

\* attach_tool_call(): the interaction of the waiting call, if there still is
\* one, gets the id of this call ...
Attach(p) ==
  /\ Moves(p, "attach", "complete")
  /\ \/ /\ verdict[p] # "awaiting_input"
        /\ UNCHANGED attached
     \/ /\ verdict[p] = "awaiting_input" /\ asked[p] = None
        /\ attached' = attached \cup {o \in {Op(p, waiting[p])} : interaction[o] # "none"}
     \/ /\ verdict[p] = "awaiting_input" /\ asked[p] # None
        /\ attached' = attached \ {asked[p]}
  /\ UNCHANGED <<runStatus, opStatus, interaction, effects, run, resumed, call, batch,
                 ready, result, waiting, asked, verdict, iteration, cancelled>>

\* ... and the handler drops the one it resumed, unless it was approved for the
\* whole session.
Dropped(o) ==
  /\ interaction' = [interaction EXCEPT ![o] = "none"]
  /\ attached' = attached \ {o}

Complete(p) ==
  /\ pc[p] = "complete"
  /\ \/ resumed[p] # None /\ Dropped(Op(p, resumed[p]))
     \/ UNCHANGED interactions
  /\ Forget(p)
  /\ UNCHANGED <<runStatus, opStatus, effects>>

-----------------------------------------------------------------------------
(* The surroundings *)

\* The user answers a pending interaction: approved, denied, or clarified.
Resolve(o) ==
  /\ interaction[o] = "pending"
  /\ interaction' = [interaction EXCEPT ![o] = "resolved"]
  /\ UNCHANGED <<runStatus, opStatus, attached, effects, turn>>

\* An interaction lives for a day, unless a later call with the same arguments
\* consumes its approval.
Expire(o) ==
  /\ interaction[o] # "none"
  /\ Dropped(o)
  /\ UNCHANGED <<runStatus, opStatus, effects, turn>>

\* ActiveRunRegistry.cancel() reaches a turn from the moment it is registered
\* to the moment it ends.
Cancel(p) ==
  /\ pc[p] \notin {"idle", "stray", "attach", "complete"}
  /\ ~cancelled[p]
  /\ cancelled' = [cancelled EXCEPT ![p] = TRUE]
  /\ UNCHANGED <<durable, pc, run, resumed, call, batch, ready, result, waiting, asked,
                 verdict, iteration>>

\* The process dies, or any other call of the turn raises.
Crash(p) == pc[p] # "idle" /\ Raise(p)

Step(p) ==
  \/ ResumeRun(p) \/ StrayResume(p) \/ MarkResumed(p) \/ Redo(p)
  \/ Discard(p) \/ Answer(p) \/ Exhausted(p) \/ FollowUp(p)
  \/ \E calls \in SUBSET Calls : AskForTools(p, calls)
  \/ \E c \in Calls : Plan(p, c) \/ Dispatch(p, c) \/ Record(p, c) \/ RecordRaises(p, c)
  \/ Reuse(p) \/ Mark(p) \/ MarkRaises(p) \/ AfterTools(p)
  \/ Finish(p) \/ Attach(p) \/ Complete(p)
Begin(p) == \E r \in Runs : Start(p, r) \/ \E c \in Calls : Claim(p, r, c)

Next == \/ \E p \in Processes : Begin(p) \/ Step(p) \/ Cancel(p) \/ Crash(p)
        \/ \E o \in Operations : Resolve(o) \/ Expire(o)

Spec == Init /\ [][Next]_vars

\* A turn under way is never starved: models and tools return or raise.
FairSpec == Spec /\ \A p \in Processes : WF_vars(Step(p))

-----------------------------------------------------------------------------
(* Properties *)

\* No side effect is executed twice for one call of a run, whatever crashes,
\* resumes and other processes do: the record of a completed operation is
\* reused, and one that was left running is never run again.
AtMostOnceEffect == \A o \in Operations : effects[o] <= 1

\* The record is written ahead: a call whose effect happened is never one the
\* records show as not yet begun, or as waiting for the user.
EffectIsJournaled ==
  \A o \in Operations :
    effects[o] > 0 => opStatus[o] \in {"running", "interrupted"} \cup Settled

\* A result or an interruption, once recorded, is what every later turn and
\* every other process sees.
SettledIsFinal ==
  [][\A o \in Operations :
       opStatus[o] \in Settled \cup {"interrupted"} => opStatus'[o] = opStatus[o]]_vars

\* The call attached to an interaction that can still be claimed waits for the
\* user, so that a resume that finds its checkpoint can continue it.
CheckpointWaits ==
  \A o \in attached :
    interaction[o] \in {"pending", "resolved"} => opStatus[o] = "awaiting_input"

\* The records are ahead of what happens, and an answer finds its checkpoint: the
\* journal can be trusted at whichever step a process died.
JournalIsAhead == EffectIsJournaled /\ CheckpointWaits

\* A run that has ended leaves no operation half way, whichever way it ended.
FinishedRunsAreSettled ==
  \A o \in Operations :
    runStatus[o[1]] \in Ended \cup {"awaiting_input"} =>
      opStatus[o] \notin {"planned", "running"}

\* A run that waits for the user waits at exactly one call.
AwaitingIsResumable ==
  \A r \in Runs : runStatus[r] = "awaiting_input" =>
    \E c \in Calls : \A d \in Calls : (opStatus[<<r, d>>] = "awaiting_input") <=> (d = c)

\* Whoever finds a run ended finds its calls settled, or one of them waiting.
EndedRunsAreSettled == FinishedRunsAreSettled /\ AwaitingIsResumable

\* The answer or the failure of a run is never taken back.
VerdictIsFinal ==
  [][\A r \in Runs :
       runStatus[r] \in {"completed", "failed"} => runStatus'[r] = runStatus[r]]_vars

Store == INSTANCE SessionStore WITH runs <- runStatus, operations <- opStatus

\* What the turns and resumes of any number of processes do to the runs and the
\* operations, is what the protocol of the session store lets its callers do:
\* whatever the in-memory store promises, the SQLite one keeps under them.
ImplementsSessionStore == Store!StoreSpec

\* A turn, however it begins, is over at some point.
TurnEnds == \A p \in Processes : (pc[p] # "idle") ~> (pc[p] = "idle")
=============================================================================
