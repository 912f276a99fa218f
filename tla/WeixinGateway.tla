---------------------------- MODULE WeixinGateway ----------------------------
(***************************************************************************)
(* The inbound side of the Weixin gateway: ILinkGateway of                 *)
(* gateway/weixin/local.py with the weixin_inbox table of delivery.py and  *)
(* the cursor file of ilink.py.  One thread polls the service, records     *)
(* each message and submits it to the session scheduler, here the abstract *)
(* SerialExecutor that SessionScheduler is proved to implement; the        *)
(* workers run the turns and enqueue the replies, which WeixinOutbox       *)
(* delivers.  The process may crash or be interrupted between any two      *)
(* steps, and a new one recovers what the database and the file hold.      *)
(***************************************************************************)
EXTENDS Naturals

CONSTANTS
  Count,            \* how many messages there are
  Stops,            \* the messages that say /stop
  Sessions,
  SessionOf,        \* the conversation a message belongs to
  StoreMayFail,     \* whether a transaction may raise
  TurnMayRaise,     \* whether app.handle() may raise
  DrainMayTimeOut,  \* whether a close may find turns after shutdown_drain_seconds
  MaxRestarts       \* bound on the restarts of the gateway

\* As the service numbers what it delivers.
Messages == 1..Count

ASSUME GatewayAssumption ==
  /\ Count \in Nat
  /\ Stops \subseteq Messages
  /\ SessionOf \in [Messages -> Sessions]
  /\ {StoreMayFail, TurnMayRaise, DrainMayTimeOut} \subseteq BOOLEAN
  /\ MaxRestarts \in Nat

VARIABLES
  inbox,     \* weixin_inbox.status, "absent" when there is no such row
  replied,   \* messages with a reply in weixin_outbox
  saved,     \* the cursor in the file, 0 when there is none
  poll,      \* where the polling thread is
  position,  \* its sync_buf: it has handled the messages up to here
  upto,      \* the last message of the batch it handles, position if none
  todo,      \* the messages it still has to handle, in increasing order
  steering,  \* what is_session_active() told it
  seen,      \* seen_message_ids
  stage,     \* where the worker that handles a message is
  reason,    \* why its cancellation token was set
  phase, accepted, ticket, future,  \* the session scheduler
  turns,     \* history: turns run for a message
  restarts   \* history: restarts of the gateway

durable == <<inbox, replied, saved>>
poller == <<poll, position, upto, todo, steering, seen>>
workers == <<stage, reason>>
scheduler == <<phase, accepted, ticket, future>>
history == <<turns, restarts>>
vars == <<durable, poller, workers, scheduler, history>>

\* A message would need a second future only if it were submitted twice.
Tasks == Messages \X {1, 2}

Serial == INSTANCE SerialExecutor
            WITH SessionOf <- [t \in Tasks |-> SessionOf[t[1]]]

Statuses == {"absent", "received", "running", "completed", "failed", "superseded"}
Settled == {"completed", "failed", "superseded"}

TypeOK ==
  /\ inbox \in [Messages -> Statuses]
  /\ replied \subseteq Messages
  /\ saved \in Messages \cup {0} /\ position \in Messages \cup {0}
  /\ upto \in Messages \cup {0}
  /\ poll \in {"polling", "accepting", "looking", "steering", "submitting", "answering",
               "completing", "saving", "writing", "draining", "closing", "abandoning", "joining",
               "down"}
  /\ todo \subseteq Messages /\ seen \subseteq Messages
  /\ steering \in BOOLEAN
  /\ stage \in [Messages -> {"none", "starting", "turn", "replying", "completing", "failing"}]
  /\ reason \in [Messages -> {"none", "user_steer", "user_stop"}]
  /\ turns \in [Messages -> Nat]
  /\ restarts \in 0..MaxRestarts

Init ==
  /\ inbox = [m \in Messages |-> "absent"]
  /\ replied = {} /\ saved = 0
  /\ poll = "polling" /\ position = 0 /\ upto = 0
  /\ todo = {} /\ steering = FALSE /\ seen = {}
  /\ stage = [m \in Messages |-> "none"]
  /\ reason = [m \in Messages |-> "none"]
  /\ Serial!Init
  /\ turns = [m \in Messages |-> 0]
  /\ restarts = 0

-----------------------------------------------------------------------------
(* The polling thread *)

\* Mutant of IsNext, which violates ConversationOrder.
IsNewest(m) == m \in todo /\ \A k \in todo : k <= m

\* The message at hand: a batch and the inbox are gone through in order.
IsNext(m) == m \in todo /\ \A k \in todo : m <= k

Recovering == upto = position

\* On to the next message of the batch or, after a restart, of the inbox.
Proceed(m) ==
  /\ todo' = todo \ {m}
  /\ poll' = IF todo' # {} THEN IF Recovering THEN "looking" ELSE "accepting"
             ELSE IF Recovering THEN "polling" ELSE "saving"
  /\ UNCHANGED <<position, upto>>

\* An exception leaves the batch to the next tick; recover_pending() is called
\* outside of the loop that survives one.
Abandon ==
  /\ StoreMayFail
  /\ todo' = {} /\ upto' = position /\ steering' = FALSE
  /\ poll' = IF Recovering THEN "closing" ELSE "polling"
  /\ phase' = IF Recovering THEN "closing" ELSE phase
  /\ UNCHANGED <<position, accepted, ticket, future>>

\* get_updates(): the service answers with messages that follow the cursor.
Fetch ==
  /\ poll = "polling"
  /\ \E last \in Messages :
       /\ last > position
       /\ upto' = last /\ todo' = (position + 1)..last
  /\ poll' = "accepting"
  /\ UNCHANGED <<durable, position, steering, seen, workers, scheduler, history>>

\* Mutant of Fresh, which violates RunsOncePerLife.
FreshUnlessDone(m) == inbox[m] # "completed"

\* _accept_message(): in memory first, then in the inbox.
Fresh(m) == inbox[m] = "absent"

Accept(m) ==
  /\ poll = "accepting" /\ IsNext(m)
  /\ IF m \in seen \/ ~Fresh(m)
     THEN /\ Proceed(m)
          /\ UNCHANGED <<inbox, seen>>
     ELSE /\ inbox' = [inbox EXCEPT ![m] = "received"]
          /\ seen' = seen \cup {m}
          /\ poll' = "looking"
          /\ UNCHANGED <<position, upto, todo>>
  /\ UNCHANGED <<replied, saved, steering, workers, scheduler, history>>

\* record_inbound() raises, or WeixinRouteStore.remember() after it.
AcceptRaises(m) ==
  /\ poll = "accepting" /\ IsNext(m)
  /\ m \notin seen
  /\ Abandon
  /\ \/ UNCHANGED <<inbox, seen>>
     \/ /\ Fresh(m)
        /\ inbox' = [inbox EXCEPT ![m] = "received"]
        /\ seen' = seen \cup {m}
  /\ UNCHANGED <<replied, saved, workers, history>>

ActiveTurns(s) == {m \in Messages : SessionOf[m] = s /\ stage[m] = "turn"}

\* Mutant of Cancelled, which violates SilencedByNewer.
CancelledEverywhere(s, why) ==
  [m \in Messages |-> IF stage[m] = "turn" /\ reason[m] = "none" THEN why ELSE reason[m]]

\* cancel_session(): the first reason stays.
Cancelled(s, why) ==
  [m \in Messages |-> IF m \in ActiveTurns(s) /\ reason[m] = "none" THEN why ELSE reason[m]]

\* _dispatch_message() of a message that is to be run.
Look(m) ==
  /\ poll = "looking" /\ IsNext(m) /\ m \notin Stops
  /\ steering' = (ActiveTurns(SessionOf[m]) # {})
  /\ poll' = IF steering' THEN "steering" ELSE "submitting"
  /\ UNCHANGED <<durable, position, upto, todo, seen, workers, scheduler, history>>

Steer(m) ==
  /\ poll = "steering" /\ IsNext(m)
  /\ reason' = Cancelled(SessionOf[m], "user_steer")
  /\ poll' = "submitting"
  /\ UNCHANGED <<durable, position, upto, todo, steering, seen, stage, scheduler, history>>

\* The tasks of a session that wait in its queue; a session that runs nothing
\* has handed its oldest one to the thread pool.
Waiting(s) == {t \in Tasks : Serial!Pending(t) /\ SessionOf[t[1]] = s}
HandedOver(s) ==
  {t \in Waiting(s) : /\ \A u \in Waiting(s) : ticket[t] <= ticket[u]
                      /\ \A u \in Tasks : SessionOf[u[1]] = s => future[u] # "running"}

\* The done callback of a cancelled future: mark_inbound_superseded(), whose
\* exception is swallowed.
Superseded ==
  LET gone == {m \in Messages : /\ inbox[m] = "received"
                                /\ \E t \in Tasks : t[1] = m /\ Serial!Pending(t)
                                                   /\ future'[t] = "cancelled"}
  IN \E marked \in SUBSET gone :
       /\ ~StoreMayFail => marked = gone
       /\ inbox' = [m \in Messages |-> IF m \in marked THEN "superseded" ELSE inbox[m]]

Submit(m) ==
  /\ poll = "submitting" /\ IsNext(m)
  /\ LET t == IF future[<<m, 1>>] = "none" THEN <<m, 1>> ELSE <<m, 2>>
         s == SessionOf[m]
     IN /\ Serial!Accept(t)
        /\ \A u \in Waiting(s) :
             future'[u] = IF steering /\ u \notin HandedOver(s) THEN "cancelled" ELSE "pending"
  /\ Superseded
  /\ steering' = FALSE
  /\ Proceed(m)
  /\ UNCHANGED <<replied, saved, seen, workers, history>>

\* _dispatch_message() of a /stop: cancel, answer, complete.
Stop(m) ==
  /\ poll = "looking" /\ IsNext(m) /\ m \in Stops
  /\ reason' = Cancelled(SessionOf[m], "user_stop")
  /\ poll' = "answering"
  /\ UNCHANGED <<durable, position, upto, todo, steering, seen, stage, scheduler, history>>

AnswerStop(m) ==
  /\ poll = "answering" /\ IsNext(m)
  /\ replied' = replied \cup {m}
  /\ poll' = "completing"
  /\ UNCHANGED <<inbox, saved, position, upto, todo, steering, seen, workers, scheduler, history>>

CompleteStop(m) ==
  /\ poll = "completing" /\ IsNext(m)
  /\ inbox' = [inbox EXCEPT ![m] = "completed"]
  /\ Proceed(m)
  /\ UNCHANGED <<replied, saved, steering, seen, workers, scheduler, history>>

\* The reply or the completion of a /stop raises; the reply may be enqueued.
StopRaises(m) ==
  /\ poll \in {"answering", "completing"} /\ IsNext(m)
  /\ Abandon
  /\ replied' \in {replied, replied \cup {m}}
  /\ UNCHANGED <<inbox, saved, seen, workers, history>>

\* save_sync_buf() truncates the file before it writes it.
Truncate ==
  /\ poll = "saving"
  /\ saved' = 0 /\ poll' = "writing"
  /\ UNCHANGED <<inbox, replied, position, upto, todo, steering, seen, workers, scheduler, history>>

Write ==
  /\ poll = "writing"
  /\ saved' = upto /\ poll' = "draining"
  /\ UNCHANGED <<inbox, replied, position, upto, todo, steering, seen, workers, scheduler, history>>

\* The drain that follows may raise: run_forever() then keeps its old cursor.
Advance ==
  /\ poll = "draining"
  /\ \/ position' = upto /\ upto' = upto
     \/ StoreMayFail /\ position' = position /\ upto' = position
  /\ poll' = "polling"
  /\ UNCHANGED <<durable, todo, steering, seen, workers, scheduler, history>>

-----------------------------------------------------------------------------
(* The workers *)

RunningTask(m) == CHOOSE t \in Tasks : t[1] = m /\ future[t] = "running"

WorkerLeaves(m) ==
  /\ stage' = [stage EXCEPT ![m] = "none"]
  /\ reason' = [reason EXCEPT ![m] = "none"]
  /\ Serial!Finish(RunningTask(m))

Start(m) ==
  /\ \E t \in Tasks : t[1] = m /\ phase # "abandoned" /\ Serial!Start(t)
  /\ stage' = [stage EXCEPT ![m] = "starting"]
  /\ UNCHANGED <<durable, poller, reason, history>>

\* _start_inbound(), and app.handle() registers the run as active.
Enter(m) ==
  /\ stage[m] = "starting"
  /\ IF inbox[m] \in {"received", "failed"}
     THEN /\ inbox' = [inbox EXCEPT ![m] = "running"]
          /\ stage' = [stage EXCEPT ![m] = "turn"]
          /\ turns' = [turns EXCEPT ![m] = @ + 1]
          /\ UNCHANGED <<reason, scheduler>>
     ELSE /\ WorkerLeaves(m)
          /\ UNCHANGED <<inbox, turns>>
  /\ UNCHANGED <<replied, saved, poller, restarts>>

\* Mutant of TurnEnds, which violates NothingIsDropped.
TurnEndsSilently(m) ==
  /\ stage[m] = "turn"
  /\ \/ stage' = [stage EXCEPT ![m] = "replying"]
     \/ /\ reason[m] = "user_steer"
        /\ stage' = [stage EXCEPT ![m] = "completing"]
  /\ UNCHANGED <<durable, poller, reason, scheduler, history>>

\* The turn ends with an answer, which a steered run leaves empty: enqueueing
\* that is a ValueError, as is whatever the turn itself raises an exception.
TurnEnds(m) ==
  /\ stage[m] = "turn"
  /\ \/ stage' = [stage EXCEPT ![m] = "replying"]
     \/ /\ TurnMayRaise \/ reason[m] = "user_steer"
        /\ stage' = [stage EXCEPT ![m] = "failing"]
  /\ UNCHANGED <<durable, poller, reason, scheduler, history>>

\* _deliver_text() of the reply.
Reply(m) ==
  /\ stage[m] = "replying"
  /\ replied' = replied \cup {m}
  /\ stage' = [stage EXCEPT ![m] = "completing"]
  /\ UNCHANGED <<inbox, saved, poller, reason, scheduler, history>>

Complete(m) ==
  /\ stage[m] = "completing"
  /\ inbox' = IF inbox[m] = "running" THEN [inbox EXCEPT ![m] = "completed"] ELSE inbox
  /\ WorkerLeaves(m)
  /\ UNCHANGED <<replied, saved, poller, history>>

\* mark_inbound_failed()
Fail(m) ==
  /\ stage[m] = "failing"
  /\ inbox' = IF inbox[m] = "running" THEN [inbox EXCEPT ![m] = "failed"] ELSE inbox
  /\ WorkerLeaves(m)
  /\ UNCHANGED <<replied, saved, poller, history>>

\* A transaction of the worker raises: on the way into the turn and out of
\* mark_inbound_failed() the task is over, elsewhere the message has failed.
WorkerRaises(m) ==
  /\ StoreMayFail
  /\ \/ /\ stage[m] \in {"starting", "failing"}
        /\ WorkerLeaves(m)
        /\ UNCHANGED replied
     \/ /\ stage[m] \in {"replying", "completing"}
        /\ replied' \in {replied, replied \cup {m}}
        /\ stage' = [stage EXCEPT ![m] = "failing"]
        /\ UNCHANGED <<reason, scheduler>>
  /\ UNCHANGED <<inbox, saved, poller, history>>

-----------------------------------------------------------------------------
(* The process *)

\* KeyboardInterrupt: run_forever() closes the gateway on its way out.
Interrupt ==
  /\ poll \notin {"closing", "abandoning", "joining", "down"} /\ restarts < MaxRestarts
  /\ poll' = "closing" /\ phase' = "closing"
  /\ todo' = {} /\ upto' = position /\ steering' = FALSE
  /\ UNCHANGED <<durable, position, seen, workers, accepted, ticket, future, history>>

\* What a process takes with it.
Ended ==
  /\ poll' = "down"
  /\ position' = saved /\ upto' = saved
  /\ todo' = {} /\ steering' = FALSE /\ seen' = {}
  /\ stage' = [m \in Messages |-> "none"]
  /\ reason' = [m \in Messages |-> "none"]
  /\ phase' = "open" /\ accepted' = 0
  /\ ticket' = [t \in Tasks |-> 0]
  /\ future' = [t \in Tasks |-> "none"]
  /\ UNCHANGED <<durable, history>>

InUse == {t \in Tasks : future[t] \in {"pending", "running"}}

Drained == poll = "closing" /\ InUse = {} /\ Ended

\* The drain times out: the queues are emptied, ...
GiveUp ==
  /\ poll = "closing" /\ DrainMayTimeOut /\ InUse # {}
  /\ Serial!Withdraw
  /\ \A s \in Sessions : \A u \in Waiting(s) :
       future'[u] = IF u \notin HandedOver(s) THEN "cancelled" ELSE "pending"
  /\ Superseded
  /\ poll' = "abandoning"
  /\ UNCHANGED <<replied, saved, position, upto, todo, steering, seen, workers, history>>

\* ... the pool starts nothing more, and what runs is waited for.
ShutDown ==
  /\ poll = "abandoning"
  /\ Serial!Close /\ phase' = "abandoned"
  /\ poll' = "joining"
  /\ UNCHANGED <<durable, position, upto, todo, steering, seen, workers, history>>

Joined == poll = "joining" /\ (\A t \in Tasks : future[t] # "running") /\ Ended

Crash ==
  /\ poll # "down" /\ restarts < MaxRestarts
  /\ Ended

\* Mutant of Interrupted, which violates EveryMessageSettles.
InterruptedUnanswered == {m \in Messages : inbox[m] = "running" /\ m \notin replied}

\* A new process: recover_inbound(), and the cursor as the file has it.
Interrupted == {m \in Messages : inbox[m] = "running"}

Restart ==
  /\ poll = "down" /\ restarts < MaxRestarts
  /\ inbox' = [m \in Messages |-> IF m \in Interrupted THEN "received" ELSE inbox[m]]
  /\ todo' = {m \in Messages : inbox'[m] = "received"}
  /\ poll' = IF todo' = {} THEN "polling" ELSE "looking"
  /\ restarts' = restarts + 1
  /\ UNCHANGED <<replied, saved, position, upto, steering, seen, workers, scheduler, turns>>

-----------------------------------------------------------------------------

Handle(m) ==
  Accept(m) \/ Look(m) \/ Steer(m) \/ Submit(m) \/ Stop(m) \/ AnswerStop(m) \/ CompleteStop(m)
Poll == Fetch \/ (\E m \in Messages : Handle(m)) \/ Truncate \/ Write \/ Advance
Work(m) == Enter(m) \/ TurnEnds(m) \/ Reply(m) \/ Complete(m) \/ Fail(m)
Raise(m) == AcceptRaises(m) \/ StopRaises(m) \/ WorkerRaises(m)
Closing == Drained \/ GiveUp \/ ShutDown \/ Joined

Next ==
  \/ Poll
  \/ \E m \in Messages : Start(m) \/ Work(m) \/ Raise(m)
  \/ Interrupt \/ Closing \/ Crash \/ Restart

Spec == Init /\ [][Next]_vars

\* The thread keeps polling, a turn ends, a waiting task is started, a close
\* comes to an end and a gateway that is down is started again.
FairSpec ==
  /\ Spec
  /\ WF_vars(Poll) /\ WF_vars(Closing) /\ WF_vars(Restart)
  /\ \A m \in Messages : WF_vars(Start(m)) /\ WF_vars(Work(m))

-----------------------------------------------------------------------------
(* Properties *)

\* Polling is resumed after the messages the inbox knows: what the cursor has
\* passed was recorded, whatever raised or crashed before.
NothingLost ==
  \A m \in Messages : m <= saved \/ m <= position => inbox[m] # "absent"

\* A message is marked completed only with its reply in the outbox.
CompletedIsAnswered ==
  \A m \in Messages : inbox[m] = "completed" => m \in replied

\* From the service to the outbox, a message is always in some durable place.
NothingIsDropped == NothingLost /\ CompletedIsAnswered

\* Neither a redelivery by the service nor a recovery runs what is settled, and
\* a process runs no message twice.
RunsOncePerLife ==
  [][\A m \in Messages :
       /\ inbox[m] \in Settled => inbox'[m] = inbox[m] /\ turns'[m] = turns[m]
       /\ turns'[m] <= restarts + 1]_vars

\* A turn begins when every earlier message of its conversation is settled,
\* whatever the crashes, the redeliveries and the steering in between.
ConversationOrder ==
  [][\A m \in Messages : turns'[m] # turns[m] =>
       \A k \in Messages : k < m /\ SessionOf[k] = SessionOf[m] => inbox[k] \in Settled]_vars

\* The conversation's last word is answered: a message stays without an answer
\* only because a later one of the same conversation took its place.
SilencedByNewer ==
  \A m \in Messages : inbox[m] \in {"failed", "superseded"} =>
    \E n \in Messages \ Stops :
      n > m /\ SessionOf[n] = SessionOf[m] /\ inbox[n] # "absent"

\* Every message the service has is settled at some point.
EveryMessageSettles == \A m \in Messages : <>(inbox[m] \in Settled)
=============================================================================
