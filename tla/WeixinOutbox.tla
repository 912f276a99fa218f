---------------------------- MODULE WeixinOutbox ----------------------------
(***************************************************************************)
(* The durable outbox of the Weixin gateway: the weixin_outbox table of    *)
(* gateway/weixin/delivery.py and ILinkGateway._drain_outbox() of          *)
(* gateway/weixin/local.py.  Every thread of the gateway that has a text   *)
(* to deliver enqueues it and drains the outbox; the poll loop drains it   *)
(* as well.  The cron worker, another process, enqueues; the command line  *)
(* retries dead letters.  Each SQLite transaction and each send is a step. *)
(***************************************************************************)
EXTENDS Naturals, FiniteSets

CONSTANTS
  Deliveries,    \* delivery keys
  Drainers,      \* threads of the gateway that drain the outbox
  MaxAttempts,   \* max_delivery_attempts
  ClaimLimit,    \* how many rows one drain claims
  StoreMayFail,  \* whether a transaction may raise, as "database is locked"
  MaxRestarts,   \* bound on the restarts of the gateway
  MaxRequeues,   \* bound on the manual retries of a dead letter
  NoText         \* no reply

ASSUME OutboxAssumption ==
  /\ MaxAttempts \in Nat \ {0} /\ ClaimLimit \in Nat \ {0}
  /\ MaxRestarts \in Nat /\ MaxRequeues \in Nat
  /\ StoreMayFail \in BOOLEAN
  /\ NoText \notin Deliveries

VARIABLES
  outbox,     \* weixin_outbox.status, "absent" when there is no such row
  attempts,   \* weixin_outbox.attempt_count
  due,        \* rows whose next_attempt_at has passed
  claimed,    \* rows a drainer has claimed and not yet sent
  sending,    \* the row it is sending
  sendAnswer, \* what the send came to
  gatewayUp,  \* whether the gateway process is up
  sends,      \* history: send_text() calls for a row
  declined,   \* history: rows whose send the service refused for good
  retries,    \* history: manual retries of a row
  restarts    \* history: restarts of the gateway

outboxRows == <<outbox, attempts, due>>
threads == <<claimed, sending, sendAnswer, gatewayUp>>
history == <<sends, declined, retries, restarts>>
outboxVars == <<outboxRows, threads, history>>

OutboxStatuses == {"absent", "pending", "sending", "delivered", "dead_letter"}
SendAnswers == {"none", "ok", "raised", "refused"}

OutboxTypeOK ==
  /\ outbox \in [Deliveries -> OutboxStatuses]
  /\ attempts \in [Deliveries -> Nat]
  /\ due \in SUBSET Deliveries
  /\ claimed \in [Drainers -> SUBSET Deliveries]
  /\ sending \in [Drainers -> Deliveries \cup {NoText}]
  /\ sendAnswer \in [Drainers -> SendAnswers]
  /\ gatewayUp \in BOOLEAN
  /\ sends \in [Deliveries -> Nat]
  /\ declined \in SUBSET Deliveries
  /\ retries \in [Deliveries -> 0..MaxRequeues]
  /\ restarts \in 0..MaxRestarts

NoClaims == [d \in Drainers |-> {}]
NothingSent == [d \in Drainers |-> NoText]
NoneAnswered == [d \in Drainers |-> "none"]

OutboxInit ==
  /\ outbox = [k \in Deliveries |-> "absent"]
  /\ attempts = [k \in Deliveries |-> 0]
  /\ due = {}
  /\ claimed = NoClaims /\ sending = NothingSent /\ sendAnswer = NoneAnswered
  /\ gatewayUp = TRUE
  /\ sends = [k \in Deliveries |-> 0]
  /\ declined = {}
  /\ retries = [k \in Deliveries |-> 0]
  /\ restarts = 0

-----------------------------------------------------------------------------
(* The table *)

\* Mutant of Enqueue, which violates DeliveredIsFinal.
EnqueueReplacing(k) ==
  /\ outbox' = [outbox EXCEPT ![k] = "pending"]
  /\ due' = due \cup {k}
  /\ UNCHANGED <<attempts, threads, history>>

\* enqueue_outbound(): INSERT OR IGNORE, then the row is read back.
Enqueue(k) ==
  /\ outbox[k] = "absent"
  /\ outbox' = [outbox EXCEPT ![k] = "pending"]
  /\ due' = due \cup {k}
  /\ UNCHANGED <<attempts, threads, history>>

\* Mutant of Due, which violates OneHolder.
DueUnchecked == {k \in due : outbox[k] \in {"pending", "sending"}}

\* claim_due_outbound(): one transaction takes the pending rows that are due,
\* at most ClaimLimit of them, and counts the attempt.
Due == {k \in due : outbox[k] = "pending"}

Batches ==
  {batch \in SUBSET Due :
     \/ batch = Due /\ Cardinality(Due) <= ClaimLimit
     \/ Cardinality(batch) = ClaimLimit}

Claim(d) ==
  /\ gatewayUp
  /\ claimed[d] = {} /\ sending[d] = NoText
  /\ \E batch \in Batches \ {{}} :
       /\ claimed' = [claimed EXCEPT ![d] = batch]
       /\ outbox' =
            [k \in Deliveries |-> IF k \in batch THEN "sending" ELSE outbox[k]]
       /\ attempts' =
            [k \in Deliveries |-> attempts[k] + IF k \in batch THEN 1 ELSE 0]
  /\ UNCHANGED <<due, sending, sendAnswer, gatewayUp, history>>

\* send_text(): accepted, refused by the service, or an exception, after which
\* the text may have arrived or not.
Send(d, k) ==
  /\ k \in claimed[d] /\ sending[d] = NoText
  /\ claimed' = [claimed EXCEPT ![d] = @ \ {k}]
  /\ sending' = [sending EXCEPT ![d] = k]
  /\ \E a \in SendAnswers \ {"none"} :
       /\ sendAnswer' = [sendAnswer EXCEPT ![d] = a]
       /\ declined' = IF a = "refused" THEN declined \cup {k} ELSE declined
  /\ sends' = [sends EXCEPT ![k] = @ + 1]
  /\ UNCHANGED <<outboxRows, gatewayUp, retries, restarts>>

\* mark_outbound_delivered() and mark_outbound_failed(), for a row that is
\* still being sent.
Exhausted(k) == attempts[k] >= MaxAttempts

MarkedAs(k, a) ==
  IF a = "ok" THEN "delivered"
  ELSE IF a = "refused" \/ Exhausted(k) THEN "dead_letter" ELSE "pending"

Mark(d) ==
  /\ \E k \in Deliveries :
       /\ sending[d] = k
       /\ outbox' = IF outbox[k] = "sending"
                    THEN [outbox EXCEPT ![k] = MarkedAs(k, sendAnswer[d])]
                    ELSE outbox
       /\ due' = IF sendAnswer[d] = "ok" THEN due ELSE due \ {k}
  /\ sending' = [sending EXCEPT ![d] = NoText]
  /\ sendAnswer' = [sendAnswer EXCEPT ![d] = "none"]
  /\ UNCHANGED <<attempts, claimed, gatewayUp, history>>

\* The transaction raises: the drain is over, and with it the rest of its
\* claim, whoever called it.
MarkRaises(d) ==
  /\ StoreMayFail
  /\ sending[d] # NoText
  /\ claimed' = [claimed EXCEPT ![d] = {}]
  /\ sending' = [sending EXCEPT ![d] = NoText]
  /\ sendAnswer' = [sendAnswer EXCEPT ![d] = "none"]
  /\ UNCHANGED <<outboxRows, gatewayUp, history>>

-----------------------------------------------------------------------------
(* The surroundings *)

\* _delivery_retry_delay() has passed.
BackoffEnds(k) ==
  /\ k \notin due /\ outbox[k] = "pending"
  /\ due' = due \cup {k}
  /\ UNCHANGED <<outbox, attempts, threads, history>>

\* navi-agent gateway retry-dead-letter
RetryDeadLetter(k) ==
  /\ outbox[k] = "dead_letter" /\ retries[k] < MaxRequeues
  /\ outbox' = [outbox EXCEPT ![k] = "pending"]
  /\ due' = due \cup {k}
  /\ retries' = [retries EXCEPT ![k] = @ + 1]
  /\ UNCHANGED <<attempts, threads, sends, declined, restarts>>

Crash ==
  /\ gatewayUp /\ restarts < MaxRestarts
  /\ gatewayUp' = FALSE
  /\ claimed' = NoClaims /\ sending' = NothingSent /\ sendAnswer' = NoneAnswered
  /\ UNCHANGED <<outboxRows, history>>

\* Mutant of Interrupted, which violates EveryTextIsSettled.
InterruptedInBudget == {k \in Deliveries : outbox[k] = "sending" /\ ~Exhausted(k)}

\* recover_outbound(), before anything else is drained.
Interrupted == {k \in Deliveries : outbox[k] = "sending"}

Recover ==
  /\ ~gatewayUp
  /\ gatewayUp' = TRUE
  /\ outbox' =
       [k \in Deliveries |-> IF k \in Interrupted THEN "pending" ELSE outbox[k]]
  /\ due' = due \cup Interrupted
  /\ restarts' = restarts + 1
  /\ UNCHANGED <<attempts, claimed, sending, sendAnswer, sends, declined, retries>>

DrainOutbox(d) == Claim(d) \/ (\E k \in Deliveries : Send(d, k)) \/ Mark(d)

OutboxNext ==
  \/ \E d \in Drainers : DrainOutbox(d) \/ MarkRaises(d)
  \/ \E k \in Deliveries : Enqueue(k) \/ BackoffEnds(k) \/ RetryDeadLetter(k)
  \/ Crash \/ Recover

OutboxSpec == OutboxInit /\ [][OutboxNext]_outboxVars

\* The poll loop keeps draining, a send returns or raises, time passes, and a
\* gateway that is down is started again.
OutboxFairSpec ==
  /\ OutboxSpec
  /\ \A d \in Drainers : WF_outboxVars(DrainOutbox(d))
  /\ \A k \in Deliveries : WF_outboxVars(BackoffEnds(k))
  /\ WF_outboxVars(Recover)

-----------------------------------------------------------------------------
(* Properties *)

InHands(d) == claimed[d] \cup ({sending[d]} \ {NoText})

\* However many threads drain at once, a row is in the hands of one of them,
\* and as long as it is, the table says so.
OneHolder ==
  \A d \in Drainers :
    /\ \A k \in InHands(d) : outbox[k] = "sending"
    /\ \A e \in Drainers \ {d} : InHands(d) \cap InHands(e) = {}
    /\ sending[d] \notin claimed[d]

\* A claim is worth one send: nothing sends a row it did not claim, and only a
\* restart can cost an attempt that never reached the service.
AttemptsAreSends ==
  \A k \in Deliveries :
    /\ sends[k] <= attempts[k]
    /\ attempts[k] <= sends[k] + restarts + IF outbox[k] = "sending" THEN 1 ELSE 0

\* A delivered text stays delivered and is never sent again, although a turn
\* that is run again after a crash enqueues its reply once more.
DeliveredIsFinal ==
  [][\A k \in Deliveries :
       outbox[k] = "delivered" =>
         outbox'[k] = "delivered" /\ sends'[k] = sends[k]]_outboxVars

\* A text that was not refused is given up only after all its attempts, those
\* that a restart cut short included.
GivenUpLate ==
  \A k \in Deliveries :
    outbox[k] = "dead_letter" /\ k \notin declined =>
      sends[k] + restarts >= MaxAttempts

\* Restarts and manual retries each buy one more attempt, nothing else does.
AttemptsAreBounded ==
  \A k \in Deliveries : attempts[k] <= MaxAttempts + restarts + retries[k]

\* A row that says it is being sent while nobody sends it.
Stranded(k) ==
  gatewayUp /\ outbox[k] = "sending" /\ \A d \in Drainers : k \notin InHands(d)

\* Every text that was enqueued is delivered at some point, or is a dead letter
\* an operator finds, unless a transaction of its drain raised: nothing else, a
\* restart least of all, leaves one behind.
EveryTextIsSettled ==
  /\ \A k \in Deliveries :
       outbox[k] \in {"pending", "sending"} ~>
         outbox[k] \in {"delivered", "dead_letter"} \/ Stranded(k)
  /\ [][\A k \in Deliveries :
          Stranded(k)' => Stranded(k) \/ \E d \in Drainers : MarkRaises(d)]_outboxVars
=============================================================================
