------------------------- MODULE BackgroundReviews -------------------------
(***************************************************************************)
(* When a session's turns are reviewed: evolution/reviews/trigger.py counts*)
(* the tool executions, app/evolution_service.py asks for a review when    *)
(* there are enough of them, and one thread (reviews/background.py) runs   *)
(* the reviews.  The counter is in memory: a new process reads it back     *)
(* from the traces.  A memory review is asked for in the same way, by a    *)
(* count of turns.                                                         *)
(***************************************************************************)
EXTENDS Naturals, Sequences

CONSTANTS
  SkillInterval,     \* skill_tool_interval
  MaxTraces,         \* bound on the turns that leave a trace
  MaxReviewCrashes   \* bound on the restarts

ASSUME ReviewAssumption ==
  SkillInterval \in Nat \ {0} /\ MaxTraces \in Nat /\ MaxReviewCrashes \in Nat

VARIABLES
  traces,        \* the trace store
  executions,    \* tool_executions_since_skill
  observed,      \* observed_trace_ids
  sessionAt,        \* how far the session's turn is; "new" in a new process
  asked,         \* the number of reviews put in the queue, by any process
  reviewQueue,   \* the traces to review; the first is under review
  reviewing,     \* what the worker's thread is at
  draining,      \* the application closes, and waits for the queue
  reviewCrashes

policy == <<executions, observed>>
reviews == <<reviewQueue, reviewing>>
reviewVars == <<traces, policy, sessionAt, asked, reviews, draining, reviewCrashes>>

MaxTools == SkillInterval + 1   \* bound on the tool executions of a turn
Traces == [kind : {"plain", "skill_write", "failed"}, tools : 0..MaxTools]

ReviewTypeOK ==
  /\ traces \in Seq(Traces) /\ Len(traces) <= MaxTraces
  /\ executions \in 0..MaxTools * MaxTraces /\ observed \subseteq 1..MaxTraces
  /\ sessionAt \in {"new", "idle", "ready", "observe", "submit", "acknowledge"}
  /\ asked \in Nat
  /\ reviewQueue \in Seq(1..MaxTraces) /\ reviewing \in {"get", "review", "reset", "done"}
  /\ draining \in BOOLEAN /\ reviewCrashes \in 0..MaxReviewCrashes

ReviewInit ==
  /\ traces = <<>> /\ executions = 0 /\ observed = {} /\ sessionAt = "new" /\ asked = 0
  /\ reviewQueue = <<>> /\ reviewing = "get" /\ draining = FALSE /\ reviewCrashes = 0

-----------------------------------------------------------------------------
(* NudgeReviewTriggerPolicy *)

\* _observe_skill() of a trace: a skill write starts the count anew.
Observe(count, trace) ==
  CASE trace.kind = "failed" -> count
    [] trace.kind = "skill_write" -> 0
    [] OTHER -> count + trace.tools

\* Mutant of ObserveOnce, which violates EvolutionIsTraceable.
ObserveAgain(count, id) == Observe(count, traces[id])

\* The latest trace may have been seen before.
ObserveOnce(count, id) == IF id \in observed THEN count ELSE Observe(count, traces[id])

\* hydrate() from all traces, with _consume_skill_watermark(): whole intervals
\* are taken to be reviewed.
CountAfter(past) ==
  LET count[n \in 0..Len(past)] == IF n = 0 THEN 0 ELSE Observe(count[n - 1], past[n]) IN count
Recounted(past) == CountAfter(past)[Len(past)] % SkillInterval

-----------------------------------------------------------------------------
(* The session's thread: ConversationService.handle() *)

\* prepare_online_run(); only the first turn of a process finds no state.
Hydrate ==
  /\ sessionAt \in {"new", "idle"} /\ ~draining /\ sessionAt' = "ready"
  /\ IF sessionAt = "new" THEN executions' = Recounted(traces) /\ observed' = DOMAIN traces
     ELSE UNCHANGED policy
  /\ UNCHANGED <<traces, asked, reviews, draining, reviewCrashes>>

\* The turn.  The trace builder is a subscriber: when it fails there is no trace.
RunTurn ==
  /\ sessionAt = "ready" /\ sessionAt' = "observe"
  /\ \/ Len(traces) < MaxTraces /\ \E trace \in Traces : traces' = Append(traces, trace)
     \/ UNCHANGED traces
  /\ UNCHANGED <<policy, asked, reviews, draining, reviewCrashes>>

\* observe_runtime_result(): decide() on the latest trace, if there is one.
Decide ==
  /\ sessionAt = "observe"
  /\ IF traces = <<>> THEN sessionAt' = "idle" /\ UNCHANGED policy
     ELSE /\ executions' = ObserveOnce(executions, Len(traces))
          /\ observed' = observed \cup {Len(traces)}
          /\ sessionAt' = IF executions' >= SkillInterval THEN "submit" ELSE "idle"
  /\ UNCHANGED <<traces, asked, reviews, draining, reviewCrashes>>

\* submit() puts the task in the queue, unless its thread cannot be started.
SubmitReview ==
  /\ sessionAt = "submit"
  /\ \/ /\ reviewQueue' = Append(reviewQueue, Len(traces)) /\ asked' = asked + 1
        /\ sessionAt' = "acknowledge"
     \/ sessionAt' = "idle" /\ UNCHANGED <<reviewQueue, asked>>
  /\ UNCHANGED <<traces, policy, reviewing, draining, reviewCrashes>>

Acknowledge ==
  /\ sessionAt = "acknowledge" /\ sessionAt' = "idle"
  /\ executions' = IF executions < SkillInterval THEN 0 ELSE executions - SkillInterval
  /\ UNCHANGED <<traces, observed, asked, reviews, draining, reviewCrashes>>

\* close(), and the end of the command line
Drain ==
  /\ sessionAt \in {"new", "idle"} /\ ~draining /\ draining' = TRUE
  /\ UNCHANGED <<traces, policy, sessionAt, asked, reviews, reviewCrashes>>

-----------------------------------------------------------------------------
(* BackgroundSkillReviewWorker._run() *)

TakeReview ==
  /\ reviewing = "get" /\ reviewQueue # <<>> /\ reviewing' = "review"
  /\ UNCHANGED <<traces, policy, sessionAt, asked, reviewQueue, draining, reviewCrashes>>

\* review_and_write() raises or returns; it may have had a skill draft admitted.
RunReview ==
  /\ reviewing = "review" /\ reviewing' \in {"reset", "done"}
  /\ UNCHANGED <<traces, policy, sessionAt, asked, reviewQueue, draining, reviewCrashes>>

\* reset_skill(), whatever the session has counted meanwhile.
ResetSkill ==
  /\ reviewing = "reset" /\ reviewing' = "done" /\ executions' = 0
  /\ UNCHANGED <<traces, observed, sessionAt, asked, reviewQueue, draining, reviewCrashes>>

TaskDone ==
  /\ reviewing = "done" /\ reviewing' = "get" /\ reviewQueue' = Tail(reviewQueue)
  /\ UNCHANGED <<traces, policy, sessionAt, asked, draining, reviewCrashes>>

\* The queue and the counter are in memory; so ends a drained process, too.
ReviewCrash ==
  /\ sessionAt # "new" /\ reviewCrashes < MaxReviewCrashes /\ reviewCrashes' = reviewCrashes + 1
  /\ executions' = 0 /\ observed' = {} /\ sessionAt' = "new"
  /\ reviewQueue' = <<>> /\ reviewing' = "get" /\ draining' = FALSE
  /\ UNCHANGED <<traces, asked>>

ReviewNext ==
  \/ Hydrate \/ RunTurn \/ Decide \/ SubmitReview \/ Acknowledge \/ Drain
  \/ TakeReview \/ RunReview \/ ResetSkill \/ TaskDone \/ ReviewCrash

ReviewSpec == ReviewInit /\ [][ReviewNext]_reviewVars

-----------------------------------------------------------------------------
(* Properties *)

\* The tool executions of the turns that a review may be of.
ExecutedBy(trace) == IF trace.kind = "plain" THEN trace.tools ELSE 0
ExecutedAfter(past) ==
  LET sum[n \in 0..Len(past)] == IF n = 0 THEN 0 ELSE sum[n - 1] + ExecutedBy(past[n]) IN sum
Executed == ExecutedAfter(traces)[Len(traces)]

\* Each review has an interval of tool executions of its own: no restart, no
\* missing trace, no failed submission and no reset by the worker makes one
\* execution count for two reviews.
ReviewsArePaidFor == SkillInterval * asked <= Executed
=============================================================================
