-------------------------- MODULE SessionScheduler --------------------------
(***************************************************************************)
(* runtime/tasks/scheduler.py: SessionTaskScheduler.  Each critical        *)
(* section of the scheduler's condition is one step; between two of them   *)
(* any other thread may run.  The ThreadPoolExecutor underneath is         *)
(* external: a FIFO of work items and a fixed set of worker threads.       *)
(***************************************************************************)
EXTENDS Naturals, Sequences

CONSTANTS
  Tasks,      \* the calls of submit()
  Sessions,   \* session ids
  SessionOf,  \* the session each call names
  Workers,    \* the threads of the pool (max_workers of them)
  NoTask      \* an idle worker's job

ASSUME SchedulerAssumption ==
  /\ SessionOf \in [Tasks -> Sessions]
  /\ NoTask \notin Tasks
  /\ Workers # {}

VARIABLES
  closer,       \* how far close() has come; "open" while _accepting
  queues,       \* _queues: the waiting tasks of each session
  keyed,        \* the sessions that have an entry in _queues
  active,       \* _active_sessions
  dispatchers,  \* submit() calls between their critical section and dispatch
  workQueue,    \* the executor's own FIFO of work items
  dropped,      \* tasks whose work item the executor refused or cancelled
  shut,         \* executor.shutdown() was called
  job,          \* job[w]: the task in the hands of worker w
  step,         \* step[w]: how far worker w is in _execute
  future,       \* future[t]: the caller's future
  accepted,     \* history: how many tasks were accepted
  ticket        \* history: ticket[t], the place of t in order of acceptance

vars == <<closer, queues, keyed, active, dispatchers, workQueue, dropped, shut,
          job, step, future, accepted, ticket>>
bookkeeping == <<queues, keyed, active>>
history == <<accepted, ticket>>
executor == <<workQueue, dropped, shut>>

Elements(seq) == {seq[i] : i \in DOMAIN seq}
Busy(w) == step[w] # "idle"
Pending(t) == future[t] = "pending"
Resolved(t) == future[t] \in {"finished", "failed", "cancelled"}
GivenUp == closer \in {"undrained", "cancelled", "abandoned"}

TypeOK ==
  /\ closer \in {"open", "checking", "asleep", "drained", "closed",
                 "undrained", "cancelled", "abandoned"}
  /\ queues \in [Sessions -> Seq(Tasks)]
  /\ keyed \in SUBSET Sessions
  /\ active \in SUBSET Sessions
  /\ dispatchers \in SUBSET Tasks
  /\ workQueue \in Seq(Tasks)
  /\ dropped \in SUBSET Tasks
  /\ shut \in BOOLEAN
  /\ job \in [Workers -> Tasks \cup {NoTask}]
  /\ step \in [Workers -> {"idle", "picked", "running", "ran"}]
  /\ future \in [Tasks -> {"none", "pending", "running", "finished", "failed",
                           "cancelled"}]
  /\ accepted \in Nat
  /\ ticket \in [Tasks -> Nat]

Init ==
  /\ closer = "open"
  /\ queues = [s \in Sessions |-> <<>>]
  /\ keyed = {}
  /\ active = {}
  /\ dispatchers = {}
  /\ workQueue = <<>>
  /\ dropped = {}
  /\ shut = FALSE
  /\ job = [w \in Workers |-> NoTask]
  /\ step = [w \in Workers |-> "idle"]
  /\ future = [t \in Tasks |-> "none"]
  /\ accepted = 0
  /\ ticket = [t \in Tasks |-> 0]

-----------------------------------------------------------------------------
(* Futures and wake-ups *)

\* Future.cancel(): only a future that is still pending changes.
Cancelled(set) ==
  [t \in Tasks |-> IF t \in set /\ Pending(t) THEN "cancelled" ELSE future[t]]

\* Mutant of Notified, which violates DrainEnds.
NotifiesNobody == closer

\* condition.notify_all(): a close() asleep in wait_for_idle looks again.
Notified == IF closer = "asleep" THEN "checking" ELSE closer

-----------------------------------------------------------------------------
(* submit() and _dispatch_next() *)

\* Mutant of Appended, which violates ImplementsSerialExecutor.
AppendedLeft(queue, t, replace_pending) ==
  <<t>> \o (IF replace_pending THEN <<>> ELSE queue)

\* The queue after submit() put its task at the end.
Appended(queue, t, replace_pending) ==
  Append(IF replace_pending THEN <<>> ELSE queue, t)

\* Only the call that finds the session idle claims it and will dispatch.
Claim(t) ==
  /\ active' = active \cup {SessionOf[t]}
  /\ dispatchers' = IF SessionOf[t] \in active THEN dispatchers
                    ELSE dispatchers \cup {t}

\* The critical section of submit(): enqueue, and claim an idle session.
Submit(t, replace_pending) ==
  LET s == SessionOf[t]
      stale == IF replace_pending THEN Elements(queues[s]) ELSE {} IN
  /\ closer = "open"
  /\ future[t] = "none"
  /\ future' = [Cancelled(stale) EXCEPT ![t] = "pending"]
  /\ queues' = [queues EXCEPT ![s] = Appended(@, t, replace_pending)]
  /\ keyed' = keyed \cup {s}
  /\ Claim(t)
  /\ accepted' = accepted + 1
  /\ ticket' = [ticket EXCEPT ![t] = accepted + 1]
  /\ UNCHANGED <<closer, executor, job, step>>

\* _dispatch_next() on a non-empty queue: executor.submit() takes the work
\* item, or raises once the executor is shut down and the task is lost.
HandToExecutor(s) ==
  /\ queues[s] # <<>>
  /\ queues' = [queues EXCEPT ![s] = Tail(@)]
  /\ workQueue' = IF shut THEN workQueue ELSE Append(workQueue, Head(queues[s]))
  /\ dropped' = IF shut THEN dropped \cup {Head(queues[s])} ELSE dropped
  /\ UNCHANGED <<closer, keyed, active, shut>>

\* Mutant of GiveBack, which violates DispatchIsSound.
GiveBackKeepsClaim(s) ==
  /\ queues[s] = <<>>
  /\ closer' = Notified
  /\ UNCHANGED <<bookkeeping, executor>>

\* _dispatch_next() on an empty queue: the claim is given back.
GiveBack(s) ==
  /\ queues[s] = <<>>
  /\ active' = active \ {s}
  /\ closer' = Notified
  /\ UNCHANGED <<queues, keyed, executor>>

\* submit() goes on to _dispatch_next() after it released the condition.
Dispatch(t) ==
  /\ t \in dispatchers
  /\ dispatchers' = dispatchers \ {t}
  /\ HandToExecutor(SessionOf[t]) \/ GiveBack(SessionOf[t])
  /\ UNCHANGED <<job, step, future, history>>

-----------------------------------------------------------------------------
(* The worker threads *)

\* An idle pool thread takes the oldest work item (external).
Pick(w) ==
  /\ ~Busy(w)
  /\ workQueue # <<>>
  /\ job' = [job EXCEPT ![w] = Head(workQueue)]
  /\ step' = [step EXCEPT ![w] = "picked"]
  /\ workQueue' = Tail(workQueue)
  /\ UNCHANGED <<closer, bookkeeping, dispatchers, dropped, shut, future, history>>

\* set_running_or_notify_cancel(): a cancelled task's callback is skipped.
Begin(w) ==
  /\ step[w] = "picked"
  /\ \/ /\ Pending(job[w])
        /\ future' = [future EXCEPT ![job[w]] = "running"]
        /\ step' = [step EXCEPT ![w] = "running"]
     \/ /\ ~Pending(job[w])
        /\ step' = [step EXCEPT ![w] = "ran"]
        /\ UNCHANGED future
  /\ UNCHANGED <<closer, bookkeeping, dispatchers, executor, job, history>>

\* The callback returns or raises.
Return(w) ==
  /\ step[w] = "running"
  /\ \E outcome \in {"finished", "failed"} :
       future' = [future EXCEPT ![job[w]] = outcome]
  /\ step' = [step EXCEPT ![w] = "ran"]
  /\ UNCHANGED <<closer, bookkeeping, dispatchers, executor, job, history>>

\* Mutant of Release, which violates DrainedMeansResolved.
ReleaseUnchecked(s) ==
  /\ keyed' = keyed \ {s}
  /\ active' = active \ {s}
  /\ closer' = Notified
  /\ UNCHANGED <<queues, executor>>

\* _execute() drops the session's entry and claim.
Release(s) ==
  /\ queues[s] = <<>>
  /\ keyed' = keyed \ {s}
  /\ active' = active \ {s}
  /\ closer' = Notified
  /\ UNCHANGED <<queues, executor>>

\* The critical section that ends _execute().
Leave(w) ==
  /\ step[w] = "ran"
  /\ HandToExecutor(SessionOf[job[w]]) \/ Release(SessionOf[job[w]])
  /\ job' = [job EXCEPT ![w] = NoTask]
  /\ step' = [step EXCEPT ![w] = "idle"]
  /\ UNCHANGED <<dispatchers, future, history>>

\* The caller cancels the future it was given.
CallerCancel(t) ==
  /\ Pending(t)
  /\ future' = Cancelled({t})
  /\ UNCHANGED <<closer, bookkeeping, dispatchers, executor, job, step, history>>

-----------------------------------------------------------------------------
(* close() and wait_for_idle() *)

CloserGoes(from, to) == closer = from /\ closer' = to

\* close() stops acceptance, then drains or gives up at once (wait=False).
Close(wait) ==
  /\ CloserGoes("open", IF wait THEN "checking" ELSE "undrained")
  /\ UNCHANGED <<bookkeeping, dispatchers, executor, job, step, future, history>>

\* One look of wait_for_idle() at _active_sessions.
CheckIdle ==
  /\ CloserGoes("checking", IF active = {} THEN "drained" ELSE "asleep")
  /\ UNCHANGED <<bookkeeping, dispatchers, executor, job, step, future, history>>

\* The deadline of wait_for_idle() has passed and sessions are still active.
TimeOut ==
  /\ active # {}
  /\ \E from \in {"checking", "asleep"} : CloserGoes(from, "undrained")
  /\ UNCHANGED <<bookkeeping, dispatchers, executor, job, step, future, history>>

\* _cancel_pending(): every queue is emptied and its futures cancelled.
CancelPending ==
  /\ CloserGoes("undrained", "cancelled")
  /\ future' = Cancelled(UNION {Elements(queues[s]) : s \in keyed})
  /\ queues' = [s \in Sessions |-> <<>>]
  /\ keyed' = keyed \cap active
  /\ UNCHANGED <<active, dispatchers, executor, job, step, history>>

\* executor.shutdown(): after a failed drain the executor cancels the work
\* items no worker has picked, which leaves the callers' futures alone.
Shutdown ==
  /\ \/ CloserGoes("drained", "closed") /\ UNCHANGED <<workQueue, dropped>>
     \/ /\ CloserGoes("cancelled", "abandoned")
        /\ workQueue' = <<>>
        /\ dropped' = dropped \cup Elements(workQueue)
  /\ shut' = TRUE
  /\ UNCHANGED <<bookkeeping, dispatchers, job, step, future, history>>

-----------------------------------------------------------------------------
Callers == \E t \in Tasks :
  (\E replace_pending \in BOOLEAN : Submit(t, replace_pending)) \/ CallerCancel(t)
Closing == (\E wait \in BOOLEAN : Close(wait)) \/ CheckIdle \/ TimeOut
           \/ CancelPending \/ Shutdown
Worker(w) == Pick(w) \/ Begin(w) \/ Return(w) \/ Leave(w)

Next ==
  \/ Callers
  \/ \E t \in Tasks : Dispatch(t)
  \/ \E w \in Workers : Worker(w)
  \/ Closing

Spec == Init /\ [][Next]_vars

\* Threads are never starved and callbacks return; callers and the deadline
\* of a drain are under no obligation.
Fairness ==
  /\ \A t \in Tasks : WF_vars(Dispatch(t))
  /\ \A w \in Workers : WF_vars(Worker(w))
  /\ WF_vars(CheckIdle) /\ WF_vars(CancelPending) /\ WF_vars(Shutdown)

FairSpec == Spec /\ Fairness

-----------------------------------------------------------------------------
(* Safety *)

\* scheduler.py:22 "Run one task per session at a time": two workers never
\* hold tasks of the same session, not even in the tail of _execute.
OneAtATime ==
  \A v, w \in Workers :
    (Busy(v) /\ Busy(w) /\ SessionOf[job[v]] = SessionOf[job[w]]) => v = w

\* A task begins only when every task its session accepted before it has been
\* resolved: replace_pending, cancelled futures, dropped work items and the
\* unlocked window of submit() never let a later task overtake.
SubmissionOrder ==
  \A t, u \in Tasks :
    ( /\ SessionOf[t] = SessionOf[u]
      /\ 0 < ticket[t] /\ ticket[t] < ticket[u]
      /\ future[u] \in {"running", "finished", "failed"} )
    => Resolved(t)

\* A session that has work waiting is active and exactly one party is
\* responsible for moving it on: a submit() about to dispatch, a work item, a
\* worker, or the executor that dropped the item.  No claim is lost and none
\* is held twice.
Carriers(s) ==
  {<<"submit", t>> : t \in {u \in dispatchers : SessionOf[u] = s}}
  \cup {<<"item", i>> : i \in {j \in DOMAIN workQueue : SessionOf[workQueue[j]] = s}}
  \cup {<<"worker", w>> : w \in {v \in Workers : Busy(v) /\ SessionOf[job[v]] = s}}
  \cup {<<"dropped", t>> : t \in {u \in dropped : SessionOf[u] = s}}
ClaimHeldOnce ==
  \A s \in Sessions :
    /\ s \in active => \E c \in Carriers(s) : Carriers(s) = {c}
    /\ s \notin active => Carriers(s) = {} /\ queues[s] = <<>>

\* _execute() indexes _queues[session_id] without a default: the entry is
\* there for as long as the session is active.
EntryWhileActive == active \subseteq keyed

\* Nothing is left to dispatch once the executor is shut down, so that no
\* executor.submit() can raise after a task was accepted.
NothingLeftAtShutdown == shut => \A s \in Sessions : queues[s] = <<>>

\* Every session with work is moved on by one party, which finds what it looks up
\* and an executor that takes what it hands over.
DispatchIsSound == ClaimHeldOnce /\ EntryWhileActive /\ NothingLeftAtShutdown

\* close() returns True only if every future it ever handed out is resolved.
DrainedMeansResolved ==
  closer \in {"drained", "closed"} =>
    \A t \in Tasks : future[t] = "none" \/ Resolved(t)

(* Liveness *)

\* A drain with no deadline ends: the notification is never missed.
DrainEnds == (closer = "checking") ~> (closer \notin {"checking", "asleep"})

-----------------------------------------------------------------------------
(* Refinement *)

SchedulerPhase ==
  IF closer = "open" THEN "open" ELSE IF GivenUp THEN "abandoned" ELSE "closing"
Serial == INSTANCE SerialExecutor WITH phase <- SchedulerPhase
ImplementsSerialExecutor == Serial!FairSpec
=============================================================================
