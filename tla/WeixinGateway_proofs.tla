------------------------ MODULE WeixinGateway_proofs ------------------------
(***************************************************************************)
(* Proofs about WeixinGateway, for any number of messages, conversations   *)
(* and restarts.  A row of the inbox is never deleted, so the first        *)
(* invariant says, of every place a message can be passed over at, that    *)
(* its row is there; and of every place it can be marked completed at,     *)
(* that its reply is in the outbox.  The second ties each row to its       *)
(* future and its worker and the tickets to the numbers of the messages,   *)
(* and holds with everything that may fail failing.  The order of a        *)
(* conversation and the reason of every silence need a third and a fourth, *)
(* under the assumptions their theorems name.                              *)
(***************************************************************************)
EXTENDS WeixinGateway, TLAPS

Known(m) == inbox[m] # "absent"

\* What the cursors and the thread have passed is in the inbox.
PassedIsKnown ==
  \A m \in Messages :
    m <= saved \/ m <= position \/ (m <= upto /\ m \notin todo) => Known(m)

\* So is what this process has seen, what it recovers, and what it handles.
SeenIsKnown == \A m \in seen : Known(m)
RecoveredIsKnown == upto = position => \A m \in todo : Known(m)

Handling == {"looking", "steering", "submitting", "answering", "completing"}
HandledIsKnown ==
  poll \in Handling => \A m \in Messages : IsNext(m) => Known(m)

\* A process that is down has no batch.
DownIsReset == poll = "down" => upto = position

\* A batch is saved when all of it is handled.
SavedIsHandled == poll \in {"saving", "writing", "draining"} => todo = {}

\* A completion follows the reply.
ReplyComesFirst ==
  /\ \A m \in Messages : stage[m] = "completing" => m \in replied
  /\ poll = "completing" => \A m \in Messages : IsNext(m) => m \in replied

IInv ==
  /\ TypeOK
  /\ PassedIsKnown
  /\ SeenIsKnown
  /\ RecoveredIsKnown
  /\ HandledIsKnown
  /\ SavedIsHandled
  /\ DownIsReset
  /\ ReplyComesFirst
  /\ CompletedIsAnswered

-----------------------------------------------------------------------------
LEMMA InitInv == Init => IInv
<1>. SUFFICES ASSUME Init PROVE IInv
  OBVIOUS
<1>. USE DEF Init
<1>1. TypeOK
  <2>1. restarts \in 0..MaxRestarts
    BY GatewayAssumption DEF GatewayAssumption
  <2>. QED
    BY <2>1 DEF TypeOK, Statuses
<1>2. PassedIsKnown /\ SeenIsKnown /\ RecoveredIsKnown
  BY GatewayAssumption DEF GatewayAssumption, Messages, PassedIsKnown, SeenIsKnown,
     RecoveredIsKnown, Known
<1>3. HandledIsKnown /\ SavedIsHandled /\ DownIsReset /\ ReplyComesFirst /\ CompletedIsAnswered
  BY DEF DownIsReset, HandledIsKnown, Handling, SavedIsHandled, ReplyComesFirst, CompletedIsAnswered
<1>. QED
  BY <1>1, <1>2, <1>3 DEF IInv

\* What a step that leaves the polling thread alone must keep.
LEMMA WorkerStepInv ==
  ASSUME IInv, UNCHANGED <<poller, saved>>, TypeOK',
         replied \subseteq replied',
         \A m \in Messages : Known(m) => inbox'[m] # "absent",
         \A m \in Messages : inbox'[m] = "completed" => inbox[m] = "completed" \/ m \in replied,
         \A m \in Messages : stage'[m] = "completing" => m \in replied'
  PROVE  IInv'
<1>. USE DEF IInv, poller
<1>1. PassedIsKnown' /\ SeenIsKnown' /\ RecoveredIsKnown' /\ HandledIsKnown'
  BY DEF PassedIsKnown, SeenIsKnown, RecoveredIsKnown, HandledIsKnown, Known, IsNext, TypeOK
<1>2. SavedIsHandled' /\ DownIsReset' /\ ReplyComesFirst' /\ CompletedIsAnswered'
  BY DEF SavedIsHandled, DownIsReset, ReplyComesFirst, CompletedIsAnswered, IsNext
<1>. QED
  BY <1>1, <1>2

LEMMA WorkInv ==
  ASSUME IInv, NEW m \in Messages, Start(m) \/ Work(m) \/ WorkerRaises(m)
  PROVE  IInv'
<1>. USE GatewayAssumption DEF GatewayAssumption
<1>1. UNCHANGED <<poller, saved>>
  BY DEF Start, Work, Enter, TurnEnds, Reply, Complete, Fail, WorkerRaises, durable, poller
<1>2. TypeOK'
  <2>1. stage' \in [Messages -> {"none", "starting", "turn", "replying", "completing", "failing"}]
    BY DEF IInv, TypeOK, Start, Work, Enter, TurnEnds, Reply, Complete, Fail, WorkerRaises,
           WorkerLeaves
  <2>2. /\ reason' \in [Messages -> {"none", "user_steer", "user_stop"}]
        /\ turns' \in [Messages -> Nat]
        /\ restarts' \in 0..MaxRestarts
    BY DEF IInv, TypeOK, Start, Work, Enter, TurnEnds, Reply, Complete, Fail, WorkerRaises,
           WorkerLeaves, history
  <2>3. inbox' \in [Messages -> Statuses] /\ replied' \subseteq Messages
    BY DEF IInv, TypeOK, Statuses, Start, Work, Enter, TurnEnds, Reply, Complete, Fail,
           WorkerRaises, durable
  <2>. QED
    BY <1>1, <2>1, <2>2, <2>3 DEF IInv, TypeOK, poller
<1>3. replied \subseteq replied'
  BY DEF Start, Work, Enter, TurnEnds, Reply, Complete, Fail, WorkerRaises, durable
<1>4. \A k \in Messages : /\ Known(k) => inbox'[k] # "absent"
                          /\ inbox'[k] = "completed" => inbox[k] = "completed" \/ k \in replied
  BY DEF IInv, TypeOK, ReplyComesFirst, Known, Start, Work, Enter, TurnEnds, Reply, Complete,
         Fail, WorkerRaises, durable
<1>5. \A k \in Messages : stage'[k] = "completing" => k \in replied'
  BY <1>3 DEF IInv, TypeOK, ReplyComesFirst, Start, Work, Enter, TurnEnds, Reply, Complete, Fail,
         WorkerRaises, WorkerLeaves, durable
<1>. QED
  BY <1>1, <1>2, <1>3, <1>4, <1>5, WorkerStepInv

-----------------------------------------------------------------------------
(* The polling thread *)

LEMMA PollTypes ==
  ASSUME IInv,
         \/ Fetch \/ Truncate \/ Write \/ Advance
         \/ \E m \in Messages : Handle(m) \/ AcceptRaises(m) \/ StopRaises(m)
  PROVE  TypeOK'
<1>. USE DEF IInv, TypeOK
<1>1. CASE Fetch
  BY <1>1, GatewayAssumption DEF Fetch, durable, workers, history, Messages, GatewayAssumption
<1>2. CASE Truncate
  BY <1>2 DEF Truncate, workers, history
<1>3. CASE Write
  BY <1>3 DEF Write, workers, history
<1>4. CASE Advance
  BY <1>4 DEF Advance, durable, workers, history
<1>5. ASSUME NEW m \in Messages, Handle(m) PROVE TypeOK'
  <2>1. CASE Accept(m)
    BY <2>1 DEF Accept, Proceed, workers, history, Statuses
  <2>2. CASE Look(m)
    BY <2>2 DEF Look, durable, workers, history
  <2>3. CASE Steer(m)
    BY <2>3 DEF Steer, Cancelled, durable, history
  <2>4. CASE Submit(m)
    <3>1. inbox' \in [Messages -> Statuses]
      BY <2>4 DEF Submit, Superseded, Statuses
    <3>. QED
      BY <2>4, <3>1 DEF Submit, Proceed, workers, history
  <2>5. CASE Stop(m)
    BY <2>5 DEF Stop, Cancelled, durable, history
  <2>6. CASE AnswerStop(m)
    BY <2>6 DEF AnswerStop, workers, history
  <2>7. CASE CompleteStop(m)
    BY <2>7 DEF CompleteStop, Proceed, workers, history, Statuses
  <2>. QED
    BY <1>5, <2>1, <2>2, <2>3, <2>4, <2>5, <2>6, <2>7 DEF Handle
<1>6. ASSUME NEW m \in Messages, AcceptRaises(m) \/ StopRaises(m) PROVE TypeOK'
  BY <1>6 DEF AcceptRaises, StopRaises, Abandon, workers, history, Statuses
<1>. QED
  BY <1>1, <1>2, <1>3, <1>4, <1>5, <1>6

\* Whatever the thread does, a row stays and a completed one is answered.
LEMMA PollRows ==
  ASSUME IInv,
         \/ Fetch \/ Truncate \/ Write \/ Advance
         \/ \E m \in Messages : Handle(m) \/ AcceptRaises(m) \/ StopRaises(m)
  PROVE  /\ \A m \in Messages : Known(m) => Known(m)'
         /\ replied \subseteq replied'
         /\ CompletedIsAnswered'
         /\ \A m \in Messages : stage'[m] = "completing" => m \in replied'
<1>. USE DEF IInv, TypeOK, Known, CompletedIsAnswered, ReplyComesFirst
<1>1. CASE Fetch \/ Truncate \/ Write \/ Advance
  BY <1>1 DEF Fetch, Truncate, Write, Advance, durable, workers
<1>2. ASSUME NEW m \in Messages, AcceptRaises(m) \/ StopRaises(m)
      PROVE  /\ \A k \in Messages : Known(k) => Known(k)'
             /\ replied \subseteq replied'
             /\ CompletedIsAnswered'
             /\ \A k \in Messages : stage'[k] = "completing" => k \in replied'
  BY <1>2 DEF AcceptRaises, StopRaises, workers
<1>3. ASSUME NEW m \in Messages, Handle(m)
      PROVE  /\ \A k \in Messages : Known(k) => Known(k)'
             /\ replied \subseteq replied'
             /\ CompletedIsAnswered'
             /\ \A k \in Messages : stage'[k] = "completing" => k \in replied'
  <2>1. CASE Accept(m)
    BY <2>1 DEF Accept, workers
  <2>2. CASE Look(m) \/ Steer(m) \/ Stop(m) \/ AnswerStop(m)
    BY <2>2 DEF Look, Steer, Stop, AnswerStop, durable, workers
  <2>3. CASE Submit(m)
    <3>1. \A k \in Messages : inbox'[k] = inbox[k] \/ inbox'[k] = "superseded"
      BY <2>3 DEF Submit, Superseded
    <3>. QED
      BY <2>3, <3>1 DEF Submit, workers
  <2>4. CASE CompleteStop(m)
    BY <2>4 DEF CompleteStop, workers
  <2>. QED
    BY <1>3, <2>1, <2>2, <2>3, <2>4 DEF Handle
<1>. QED
  BY <1>1, <1>2, <1>3

LEMMA PollInv ==
  ASSUME IInv,
         \/ Fetch \/ Truncate \/ Write \/ Advance
         \/ \E m \in Messages : Handle(m) \/ AcceptRaises(m) \/ StopRaises(m)
  PROVE  IInv'
<1>. DEFINE Bookkeeping == /\ PassedIsKnown' /\ SeenIsKnown' /\ RecoveredIsKnown'
                           /\ HandledIsKnown' /\ SavedIsHandled' /\ DownIsReset'
                           /\ (poll' = "completing" =>
                                 \A k \in Messages : IsNext(k)' => k \in replied')
<1>1. TypeOK'
  BY PollTypes
<1>2. /\ \A m \in Messages : Known(m) => Known(m)'
      /\ replied \subseteq replied'
      /\ CompletedIsAnswered'
      /\ \A m \in Messages : stage'[m] = "completing" => m \in replied'
  BY PollRows
<1>3. Bookkeeping
  <2>. USE <1>2 DEF IInv, PassedIsKnown, SeenIsKnown, RecoveredIsKnown, HandledIsKnown, Handling,
                    SavedIsHandled, DownIsReset, ReplyComesFirst, IsNext
  <2>t. todo \subseteq Messages /\ seen \subseteq Messages
    BY DEF TypeOK
  <2>1. CASE Fetch
    BY <2>1, <2>t, GatewayAssumption
    DEF Fetch, durable, TypeOK, Messages, GatewayAssumption, Known
  <2>2. CASE Truncate
    BY <2>2, <2>t, GatewayAssumption DEF Truncate, TypeOK, Messages, GatewayAssumption
  <2>6. CASE Write
    BY <2>6, <2>t DEF Write
  <2>3. CASE Advance
    BY <2>3, <2>t DEF Advance, durable
  <2>4. ASSUME NEW m \in Messages, Handle(m) PROVE Bookkeeping
    <3>1. CASE Accept(m)
      <4>1. CASE m \in seen \/ ~Fresh(m)
        <5>1. Known(m)
          BY <4>1 DEF Fresh, Known
        <5>. QED
          BY <3>1, <4>1, <5>1, <2>t DEF Accept, Proceed, Recovering
      <4>2. CASE ~(m \in seen \/ ~Fresh(m))
        <5>1. Known(m)'
          BY <3>1, <4>2 DEF Accept, Known, TypeOK
        <5>. QED
          <6>1. /\ UNCHANGED <<saved, position, upto, todo>>
                /\ seen' = seen \cup {m} /\ poll' = "looking" /\ IsNext(m)
            BY <3>1, <4>2 DEF Accept
          <6>2. \A k \in Messages : IsNext(k) => k = m
            BY <6>1, GatewayAssumption DEF TypeOK, Messages, GatewayAssumption
          <6>. QED
            BY <5>1, <6>1, <6>2, <2>t
      <4>. QED
        BY <4>1, <4>2
    <3>2. CASE Look(m) \/ Steer(m) \/ Stop(m) \/ AnswerStop(m)
      <4>1. /\ UNCHANGED <<inbox, saved, position, upto, todo, seen>>
            /\ poll \in Handling /\ poll' \in Handling /\ IsNext(m)
            /\ poll' = "completing" => m \in replied'
        BY <3>2 DEF Look, Steer, Stop, AnswerStop, durable
      <4>2. \A k \in Messages : IsNext(k) => k = m
        BY <4>1, GatewayAssumption DEF TypeOK, Messages, GatewayAssumption
      <4>3. PassedIsKnown' /\ SeenIsKnown' /\ RecoveredIsKnown'
        BY <4>1, <2>t
      <4>4. HandledIsKnown' /\ SavedIsHandled' /\ DownIsReset'
        BY <4>1, <2>t
      <4>. QED
        BY <4>1, <4>2, <4>3, <4>4
    <3>3. CASE Submit(m)
      BY <3>3, <2>t DEF Submit, Proceed, Recovering
    <3>4. CASE CompleteStop(m)
      BY <3>4, <2>t DEF CompleteStop, Proceed, Recovering
    <3>. QED
      BY <2>4, <3>1, <3>2, <3>3, <3>4 DEF Handle
  <2>5. ASSUME NEW m \in Messages, AcceptRaises(m) \/ StopRaises(m) PROVE Bookkeeping
    <3>1. /\ UNCHANGED <<saved, position>> /\ todo' = {} /\ upto' = position
          /\ poll' \in {"closing", "polling"}
      BY <2>5 DEF AcceptRaises, StopRaises, Abandon
    <3>2. SeenIsKnown'
      BY <2>5, <2>t DEF AcceptRaises, StopRaises, Known, TypeOK
    <3>3. PassedIsKnown'
      BY <3>1
    <3>. QED
      BY <3>1, <3>2, <3>3
  <2>. QED
    BY <2>1, <2>2, <2>3, <2>4, <2>5, <2>6
<1>. QED
  BY <1>1, <1>2, <1>3 DEF IInv, ReplyComesFirst

-----------------------------------------------------------------------------
(* The process *)

LEMMA ProcessInv ==
  ASSUME IInv, Interrupt \/ Closing \/ Crash \/ Restart
  PROVE  IInv'
<1>. USE DEF IInv, PassedIsKnown, SeenIsKnown, RecoveredIsKnown, HandledIsKnown, Handling,
             SavedIsHandled, DownIsReset, ReplyComesFirst, CompletedIsAnswered, IsNext, Known
<1>1. CASE Interrupt
  <2>1. TypeOK'
    BY <1>1 DEF Interrupt, TypeOK, durable, workers, history
  <2>. QED
    BY <1>1, <2>1 DEF Interrupt, durable, workers
<1>2. CASE GiveUp
  <2>1. /\ inbox' \in [Messages -> Statuses]
        /\ \A k \in Messages : inbox'[k] = inbox[k] \/ inbox'[k] = "superseded"
    BY <1>2 DEF GiveUp, Superseded, TypeOK, Statuses
  <2>2. /\ UNCHANGED <<replied, saved, position, upto, todo, steering, seen, workers, history>>
        /\ poll' = "abandoning"
    BY <1>2 DEF GiveUp
  <2>3. TypeOK'
    BY <2>1, <2>2 DEF TypeOK, workers, history
  <2>4. todo \subseteq Messages /\ seen \subseteq Messages
    BY DEF TypeOK
  <2>. QED
    BY <2>1, <2>2, <2>3, <2>4 DEF workers
<1>3. CASE ShutDown
  <2>1. TypeOK'
    BY <1>3 DEF ShutDown, TypeOK, durable, workers, history
  <2>. QED
    BY <1>3, <2>1 DEF ShutDown, durable, workers
<1>4. CASE Ended
  <2>1. TypeOK'
    BY <1>4 DEF Ended, TypeOK, durable, history
  <2>. QED
    BY <1>4, <2>1 DEF Ended, durable
<1>5. CASE Restart
  <2>1. TypeOK'
    BY <1>5, GatewayAssumption
    DEF Restart, TypeOK, Statuses, workers, GatewayAssumption
  <2>2. \A k \in Messages : /\ Known(k) => inbox'[k] # "absent"
                            /\ inbox'[k] = "completed" => inbox[k] = "completed"
    BY <1>5 DEF Restart, TypeOK
  <2>3. \A k \in todo' : inbox'[k] # "absent"
    BY <1>5 DEF Restart
  <2>4. /\ UNCHANGED <<replied, saved, position, upto, seen, workers>>
        /\ poll' \in {"polling", "looking"} /\ poll = "down"
    BY <1>5 DEF Restart
  <2>5. seen \subseteq Messages
    BY DEF TypeOK
  <2>6. \A k \in Messages : k <= saved \/ k <= position => inbox'[k] # "absent"
    BY <2>2
  <2>7. PassedIsKnown'
    <3>1. upto = position
      BY <2>4
    <3>. QED
      BY <2>4, <2>6, <3>1
  <2>8. SeenIsKnown' /\ RecoveredIsKnown' /\ HandledIsKnown' /\ SavedIsHandled' /\ DownIsReset'
    BY <2>2, <2>3, <2>4, <2>5
  <2>9. ReplyComesFirst' /\ CompletedIsAnswered'
    BY <2>2, <2>4 DEF workers
  <2>. QED
    BY <2>1, <2>7, <2>8, <2>9
<1>. QED
  BY <1>1, <1>2, <1>3, <1>4, <1>5 DEF Closing, Drained, Joined, Crash

\* Wherever a cursor is, a message it has passed is known, and a reply is durable before its
\* message is completed (local.py, poll_once and _handle_accepted_message).
THEOREM InductiveInvariant == Spec => []IInv
<1>1. IInv /\ [Next]_vars => IInv'
  <2>. SUFFICES ASSUME IInv, [Next]_vars PROVE IInv'
    OBVIOUS
  <2>1. CASE Poll
    BY <2>1, PollInv DEF Poll
  <2>2. ASSUME NEW m \in Messages, Start(m) \/ Work(m) \/ Raise(m) PROVE IInv'
    BY <2>2, WorkInv, PollInv DEF Raise
  <2>3. CASE Interrupt \/ Closing \/ Crash \/ Restart
    BY <2>3, ProcessInv
  <2>4. CASE UNCHANGED vars
    BY <2>4 DEF vars, durable, poller, workers, history, IInv, TypeOK, PassedIsKnown, SeenIsKnown,
                RecoveredIsKnown, HandledIsKnown, SavedIsHandled, DownIsReset, ReplyComesFirst,
                CompletedIsAnswered, IsNext, Known
  <2>. QED
    BY <2>1, <2>2, <2>3, <2>4 DEF Next
<1>. QED
  BY InitInv, <1>1, PTL DEF Spec

\* The state keeps its type, whatever raises and whenever the process dies.
THEOREM TypeCorrect == Spec => []TypeOK
<1>1. IInv => TypeOK
  BY DEF IInv
<1>. QED
  BY <1>1, InductiveInvariant, PTL

\* No message the cursor has passed is missing from the inbox: neither a store
\* that raises, nor a crash between recording a batch and saving the cursor, nor
\* an interrupted write of the cursor loses one.
THEOREM NothingIsLost == Spec => []NothingLost
<1>1. IInv => NothingLost
  BY DEF IInv, PassedIsKnown, NothingLost, Known
<1>. QED
  BY <1>1, InductiveInvariant, PTL

\* No crash, recovery or failing store lets a message be completed before its
\* reply is durable.
THEOREM RepliesAreDurable == Spec => []CompletedIsAnswered
<1>1. IInv => CompletedIsAnswered
  BY DEF IInv
<1>. QED
  BY <1>1, InductiveInvariant, PTL

\* From the service to the outbox, a message is always in some durable place: in the
\* service's hands, in the inbox, or with its reply in the outbox (local.py, poll_once,
\* recover_inbound and _handle_message).
THEOREM DropsNothing == Spec => []NothingIsDropped
<1>1. NothingLost /\ CompletedIsAnswered => NothingIsDropped
  BY DEF NothingIsDropped
<1>. QED
  BY <1>1, NothingIsLost, RepliesAreDurable, PTL

-----------------------------------------------------------------------------
(* One turn for each message of a process, in the order of its conversation. *)

\* The message that the polling thread is about to dispatch.
InHand(m) == (upto = position /\ m \in todo) \/ (poll \in Handling /\ IsNext(m))

InTurn == {"turn", "replying", "completing", "failing"}

SerialType ==
  /\ future \in [Tasks -> {"none", "pending", "running", "finished", "failed", "cancelled"}]
  /\ ticket \in [Tasks -> Nat] /\ accepted \in Nat

\* The future of a message, and none besides it.
Future(m) == future[<<m, 1>>]
Ticket(m) == ticket[<<m, 1>>]
OneFuture == \A m \in Messages : future[<<m, 2>>] = "none"

\* What the row of a message says of its future and of its worker.
RowTells(m) ==
  /\ inbox[m] = "absent" => Future(m) = "none"
  /\ InHand(m) => inbox[m] = "received" /\ Future(m) = "none"
  /\ Future(m) = "pending" => inbox[m] = "received"
  /\ stage[m] # "none" <=> Future(m) = "running"
  /\ stage[m] = "starting" => inbox[m] = "received"
  /\ stage[m] \in InTurn => inbox[m] = "running"
RowTellsFuture == \A m \in Messages : RowTells(m)

\* A message that has still to run in this process has not run in it.
TurnsCounted == \A m \in Messages :
  /\ turns[m] <= restarts + 1
  /\ inbox[m] \in {"absent", "received"} => turns[m] <= restarts

\* The messages are handled in the order of their numbers.
BatchInOrder ==
  /\ upto >= position
  /\ poll = "accepting" => upto # position
  /\ \A m \in todo : upto = position \/ m <= upto
OlderIsKnown == \A m, k \in Messages : Known(m) /\ k < m => Known(k)
HandIsNewest == \A m, k \in Messages : InHand(k) /\ Future(m) # "none" => m < k
TicketsInOrder ==
  /\ \A m \in Messages : Ticket(m) <= accepted
  /\ \A m, k \in Messages : k < m /\ Future(k) # "none" /\ Future(m) # "none" => Ticket(k) < Ticket(m)

\* No future outlives its process.
DownIsIdle == poll = "down" => \A m \in Messages : Future(m) = "none"

DispatchInv ==
  /\ SerialType /\ OneFuture /\ RowTellsFuture /\ TurnsCounted /\ DownIsIdle
  /\ BatchInOrder /\ OlderIsKnown /\ HandIsNewest /\ TicketsInOrder

\* What a step does to rows that are settled, and to the count of turns.
RowsStay ==
  \A m \in Messages :
    /\ inbox[m] \in Settled => inbox'[m] = inbox[m] /\ turns'[m] = turns[m]
    /\ turns'[m] <= restarts + 1

LEMMA OfMessages ==
  /\ \A m \in Messages : <<m, 1>> \in Tasks /\ <<m, 2>> \in Tasks
  /\ \A t \in Tasks : t[1] \in Messages /\ (t = <<t[1], 1>> \/ t = <<t[1], 2>>)
  /\ Messages \subseteq Nat
  /\ \A m, k \in Messages, i, j \in {1, 2} : <<m, i>> = <<k, j>> <=> m = k /\ i = j
  BY GatewayAssumption DEF Tasks, Messages, GatewayAssumption

\* The scheduler, as the messages see it.
OthersKeep(m) == \A k \in Messages : k # m => future'[<<k, 1>>] = future[<<k, 1>>]

\* What a superseding step does to the rows.
LEMMA SupersededRows ==
  ASSUME IInv, SerialType, OneFuture, Superseded
  PROVE  \A k \in Messages :
           /\ \/ inbox'[k] = inbox[k]
              \/ /\ inbox[k] = "received" /\ inbox'[k] = "superseded"
                 /\ Future(k) = "pending" /\ Future(k)' = "cancelled"
           /\ ~StoreMayFail /\ inbox[k] = "received" /\ Future(k) = "pending"
                /\ Future(k)' = "cancelled" => inbox'[k] = "superseded"
<1>. DEFINE gone == {m \in Messages : /\ inbox[m] = "received"
                                      /\ \E t \in Tasks : t[1] = m /\ Serial!Pending(t)
                                                         /\ future'[t] = "cancelled"}
<1>1. PICK marked \in SUBSET gone :
        /\ ~StoreMayFail => marked = gone
        /\ inbox' = [m \in Messages |-> IF m \in marked THEN "superseded" ELSE inbox[m]]
  BY DEF Superseded
<1>2. \A m \in Messages : m \in gone <=> /\ inbox[m] = "received" /\ Future(m) = "pending"
                                         /\ Future(m)' = "cancelled"
  <2>. SUFFICES ASSUME NEW m \in Messages
                PROVE  (\E t \in Tasks : t[1] = m /\ Serial!Pending(t) /\ future'[t] = "cancelled")
                         <=> Future(m) = "pending" /\ Future(m)' = "cancelled"
    OBVIOUS
  <2>1. ASSUME NEW t \in Tasks, t[1] = m, Serial!Pending(t), future'[t] = "cancelled"
        PROVE  Future(m) = "pending" /\ Future(m)' = "cancelled"
    <3>1. future[t] = "pending"
      BY <2>1 DEF Serial!Pending
    <3>2. t = <<m, 1>>
      BY <2>1, <3>1, OfMessages DEF OneFuture
    <3>. QED
      BY <2>1, <3>1, <3>2 DEF Future
  <2>2. ASSUME Future(m) = "pending", Future(m)' = "cancelled"
        PROVE  \E t \in Tasks : t[1] = m /\ Serial!Pending(t) /\ future'[t] = "cancelled"
    <3>1. <<m, 1>> \in Tasks /\ <<m, 1>>[1] = m
      BY OfMessages
    <3>. QED
      BY <2>2, <3>1 DEF Serial!Pending, Future
  <2>. QED
    BY <2>1, <2>2
<1>. HIDE DEF gone
<1>. QED
  BY <1>1, <1>2

LEMMA SubmitEffect ==
  ASSUME IInv, SerialType, OneFuture, NEW m \in Messages, Submit(m), Future(m) = "none"
  PROVE  /\ Future(m)' = "pending"
         /\ \A k \in Messages : k # m =>
              \/ Future(k)' = Future(k)
              \/ /\ Future(k) = "pending" /\ Future(k)' = "cancelled"
                 /\ SessionOf[k] = SessionOf[m]
         /\ \A k \in Messages : future'[<<k, 2>>] = "none"
         /\ accepted' = accepted + 1 /\ Ticket(m)' = accepted + 1
         /\ \A k \in Messages : k # m => Ticket(k)' = Ticket(k)
         /\ SerialType'
<1>. DEFINE t == <<m, 1>>
<1>1. Serial!Accept(t) /\ t \in Tasks
  BY OfMessages DEF Submit, Future
<1>2. PICK replaced \in SUBSET {u \in Tasks : Serial!Pending(u) /\ Serial!SameSession(t, u)} :
        future' = [u \in Tasks |-> IF u = t THEN "pending"
                                   ELSE IF u \in replaced THEN "cancelled" ELSE future[u]]
  BY <1>1 DEF Serial!Accept
<1>3. accepted' = accepted + 1 /\ ticket' = [ticket EXCEPT ![t] = accepted + 1]
  BY <1>1 DEF Serial!Accept
<1>4. \A u \in replaced : u \in Tasks /\ future[u] = "pending" /\ SessionOf[u[1]] = SessionOf[m]
  BY <1>1, <1>2 DEF Serial!Pending, Serial!SameSession
<1>5. ASSUME NEW k \in Messages
      PROVE  future'[<<k, 2>>] = "none"
  <2>1. <<k, 2>> \in Tasks
    BY OfMessages
  <2>2. future[<<k, 2>>] = "none"
    BY DEF OneFuture
  <2>3. <<k, 2>> # t
    OBVIOUS
  <2>. HIDE DEF t
  <2>. QED
    BY <1>2, <1>4, <2>1, <2>2, <2>3
<1>6. \A k \in Messages : k # m =>
        \/ Future(k)' = Future(k)
        \/ /\ Future(k) = "pending" /\ Future(k)' = "cancelled" /\ SessionOf[k] = SessionOf[m]
  <2>. SUFFICES ASSUME NEW k \in Messages, k # m
                PROVE  \/ Future(k)' = Future(k)
                       \/ /\ Future(k) = "pending" /\ Future(k)' = "cancelled"
                          /\ SessionOf[k] = SessionOf[m]
    OBVIOUS
  <2>1. <<k, 1>> \in Tasks /\ <<k, 1>> # t /\ <<k, 1>>[1] = k
    BY OfMessages
  <2>. HIDE DEF t
  <2>. QED
    BY <1>2, <1>4, <2>1 DEF Future
<1>7. Future(m)' = "pending"
  BY <1>1, <1>2 DEF Future
<1>8. Ticket(m)' = accepted + 1 /\ \A k \in Messages : k # m => Ticket(k)' = Ticket(k)
  BY <1>1, <1>3, OfMessages DEF Ticket, SerialType
<1>9. SerialType'
  BY <1>1, <1>2, <1>3 DEF SerialType
<1>. QED
  BY <1>3, <1>5, <1>6, <1>7, <1>8, <1>9

LEMMA GiveUpEffect ==
  ASSUME IInv, SerialType, OneFuture, GiveUp
  PROVE  /\ \A k \in Messages : \/ Future(k)' = Future(k)
                                \/ Future(k) = "pending" /\ Future(k)' = "cancelled"
         /\ SerialType' /\ OneFuture' /\ ticket' = ticket /\ accepted' = accepted
<1>1. PICK withdrawn \in SUBSET {u \in Tasks : Serial!Pending(u)} :
        future' = [u \in Tasks |-> IF u \in withdrawn THEN "cancelled" ELSE future[u]]
  BY DEF GiveUp, Serial!Withdraw
<1>2. ticket' = ticket /\ accepted' = accepted
  BY DEF GiveUp, Serial!Withdraw
<1>3. \A u \in withdrawn : future[u] = "pending"
  BY <1>1 DEF Serial!Pending
<1>. QED
  BY <1>1, <1>2, <1>3, OfMessages DEF Future, SerialType, OneFuture

LEMMA StartEffect ==
  ASSUME IInv, SerialType, OneFuture, NEW m \in Messages, Start(m)
  PROVE  /\ Future(m) = "pending" /\ Future(m)' = "running" /\ OthersKeep(m)
         /\ SerialType' /\ OneFuture' /\ ticket' = ticket /\ accepted' = accepted
         /\ \A k \in Messages : SessionOf[k] = SessionOf[m] =>
              /\ Future(k) # "running"
              /\ Future(k) = "pending" => Ticket(m) <= Ticket(k)
         /\ stage'[m] = "starting" /\ \A k \in Messages : k # m => stage'[k] = stage[k]
<1>. DEFINE t == <<m, 1>>
<1>1. t \in Tasks /\ Serial!Start(t)
  <2>1. PICK u \in Tasks : u[1] = m /\ Serial!Start(u)
    BY DEF Start
  <2>2. future[u] = "pending"
    BY <2>1 DEF Serial!Start, Serial!Pending
  <2>3. u = t
    BY <2>1, <2>2, OfMessages DEF OneFuture
  <2>. QED
    BY <2>1, <2>3
<1>2. /\ future[t] = "pending" /\ future' = [future EXCEPT ![t] = "running"]
      /\ ticket' = ticket /\ accepted' = accepted
  BY <1>1 DEF Serial!Start, Serial!Pending
<1>3. \A k \in Messages : SessionOf[k] = SessionOf[m] =>
        /\ Future(k) # "running"
        /\ Future(k) = "pending" => Ticket(m) <= Ticket(k)
  <2>. SUFFICES ASSUME NEW k \in Messages, SessionOf[k] = SessionOf[m]
                PROVE  /\ Future(k) # "running"
                       /\ Future(k) = "pending" => Ticket(m) <= Ticket(k)
    OBVIOUS
  <2>1. <<k, 1>> \in Tasks /\ Serial!SameSession(t, <<k, 1>>)
    BY <1>1, OfMessages DEF Serial!SameSession
  <2>. QED
    BY <1>1, <2>1 DEF Serial!Start, Serial!Pending, Future, Ticket
<1>4. Future(m) = "pending" /\ Future(m)' = "running" /\ OthersKeep(m) /\ OneFuture'
  BY <1>1, <1>2, OfMessages DEF Future, OthersKeep, SerialType, OneFuture
<1>5. stage'[m] = "starting" /\ \A k \in Messages : k # m => stage'[k] = stage[k]
  BY DEF Start, IInv, TypeOK
<1>6. SerialType'
  BY <1>1, <1>2 DEF SerialType
<1>. QED
  BY <1>2, <1>3, <1>4, <1>5, <1>6

LEMMA LeaveEffect ==
  ASSUME IInv, SerialType, OneFuture, NEW m \in Messages, Future(m) = "running", WorkerLeaves(m)
  PROVE  /\ Future(m)' \in {"finished", "failed"} /\ OthersKeep(m)
         /\ SerialType' /\ OneFuture' /\ ticket' = ticket /\ accepted' = accepted
         /\ stage'[m] = "none" /\ \A k \in Messages : k # m => stage'[k] = stage[k]
         /\ reason'[m] = "none" /\ \A k \in Messages : k # m => reason'[k] = reason[k]
<1>. DEFINE t == <<m, 1>>
<1>1. RunningTask(m) = t
  <2>1. t \in Tasks /\ t[1] = m /\ future[t] = "running"
    BY OfMessages DEF Future
  <2>2. \A u \in Tasks : u[1] = m /\ future[u] = "running" => u = t
    BY OfMessages DEF OneFuture
  <2>. QED
    BY <2>1, <2>2 DEF RunningTask
<1>2. Serial!Finish(t) /\ t \in Tasks
  BY <1>1, OfMessages DEF WorkerLeaves
<1>3. PICK outcome \in {"finished", "failed"} : future' = [future EXCEPT ![t] = outcome]
  BY <1>2 DEF Serial!Finish
<1>4. ticket' = ticket /\ accepted' = accepted
  BY <1>2 DEF Serial!Finish
<1>5. Future(m)' \in {"finished", "failed"} /\ OthersKeep(m) /\ OneFuture' /\ SerialType'
  BY <1>2, <1>3, <1>4, OfMessages DEF Future, OthersKeep, SerialType, OneFuture
<1>. QED
  BY <1>4, <1>5 DEF WorkerLeaves, IInv, TypeOK

LEMMA InitDispatch == Init => DispatchInv
<1>. SUFFICES ASSUME Init PROVE DispatchInv
  OBVIOUS
<1>. USE DEF Init, Serial!Init
<1>1. SerialType /\ OneFuture /\ DownIsIdle
  BY OfMessages DEF SerialType, OneFuture, DownIsIdle
<1>2. \A m \in Messages : /\ Future(m) = "none" /\ stage[m] = "none" /\ inbox[m] = "absent"
                          /\ turns[m] = 0 /\ ~InHand(m) /\ Ticket(m) = 0
  <2>1. ASSUME NEW m \in Messages PROVE Future(m) = "none" /\ Ticket(m) = 0
    <3>1. <<m, 1>> \in Tasks
      BY OfMessages
    <3>2. future[<<m, 1>>] = "none" /\ ticket[<<m, 1>>] = 0
      BY <3>1
    <3>. QED
      BY <3>2 DEF Future, Ticket
  <2>2. \A m \in Messages : ~InHand(m)
    BY DEF InHand, Handling
  <2>. QED
    BY <2>1, <2>2
<1>3. restarts = 0 /\ accepted = 0 /\ upto = 0 /\ position = 0 /\ poll = "polling" /\ todo = {}
  OBVIOUS
<1>. HIDE DEF Init, Serial!Init
<1>4. RowTellsFuture /\ TurnsCounted
  BY <1>2, <1>3 DEF RowTellsFuture, RowTells, TurnsCounted, InTurn
<1>5. OlderIsKnown /\ HandIsNewest
  BY <1>2 DEF OlderIsKnown, HandIsNewest, Known
<1>6. BatchInOrder
  BY <1>3 DEF BatchInOrder
<1>7. TicketsInOrder
  BY <1>2, <1>3 DEF TicketsInOrder
<1>. QED
  BY <1>1, <1>4, <1>5, <1>6, <1>7 DEF DispatchInv

\* A step that leaves the rows and the futures alone.
LEMMA RowsKept ==
  ASSUME IInv, DispatchInv, BatchInOrder',
         UNCHANGED <<inbox, turns, restarts, accepted, ticket, future>>,
         poll' = "down" => poll = "down",
         \A m \in Messages : \/ stage'[m] = stage[m]
                             \/ stage[m] \in InTurn /\ stage'[m] \in InTurn,
         \A m \in Messages : InHand(m)' => InHand(m)
  PROVE  DispatchInv' /\ RowsStay
<1>1. SerialType' /\ OneFuture' /\ DownIsIdle'
  BY DEF DispatchInv, SerialType, OneFuture, DownIsIdle, Future
<1>2. RowTellsFuture'
  <2>. SUFFICES ASSUME NEW m \in Messages
                PROVE  RowTells(m)'
    BY DEF RowTellsFuture
  <2>. USE DEF RowTells, Future
  <2>1. InHand(m)' => InHand(m)
    OBVIOUS
  <2>2. CASE stage'[m] = stage[m]
    BY <2>1, <2>2 DEF DispatchInv, RowTellsFuture, RowTells
  <2>3. CASE stage[m] \in InTurn /\ stage'[m] \in InTurn
    BY <2>1, <2>3 DEF DispatchInv, RowTellsFuture, RowTells, InTurn
  <2>. QED
    BY <2>2, <2>3
<1>3. TurnsCounted' /\ OlderIsKnown' /\ TicketsInOrder' /\ RowsStay
  BY DEF DispatchInv, TurnsCounted, OlderIsKnown, TicketsInOrder, Known, Future, Ticket, RowsStay
<1>4. HandIsNewest'
  BY DEF DispatchInv, HandIsNewest, Future
<1>. QED
  BY <1>1, <1>2, <1>3, <1>4 DEF DispatchInv

LEMMA RowsUntouched ==
  ASSUME IInv, DispatchInv, BatchInOrder', poll' # "down",
         UNCHANGED <<inbox, turns, restarts, accepted, ticket, future>>, UNCHANGED stage,
         \A m \in Messages : InHand(m)' => InHand(m)
  PROVE  DispatchInv' /\ RowsStay
<1>1. \A m \in Messages : \/ stage'[m] = stage[m]
                          \/ stage[m] \in InTurn /\ stage'[m] \in InTurn
  OBVIOUS
<1>. QED
  BY <1>1, RowsKept

\* A step that records a message.
LEMMA RowRecorded ==
  ASSUME IInv, DispatchInv, BatchInOrder', poll' # "down",
         UNCHANGED <<turns, restarts, accepted, ticket, future, stage>>,
         NEW m \in Messages, inbox[m] = "absent", inbox' = [inbox EXCEPT ![m] = "received"],
         \A k \in Messages : k < m => Known(k),
         \A k \in Messages : InHand(k)' => k = m
  PROVE  DispatchInv' /\ RowsStay
<1>1. SerialType' /\ OneFuture' /\ DownIsIdle'
  BY DEF DispatchInv, SerialType, OneFuture, DownIsIdle, Future
<1>2. inbox'[m] = "received" /\ \A k \in Messages : k # m => inbox'[k] = inbox[k]
  BY DEF IInv, TypeOK
<1>3. Future(m) = "none"
  BY DEF DispatchInv, RowTellsFuture, RowTells
<1>4. RowTellsFuture'
  <2>. SUFFICES ASSUME NEW k \in Messages
                PROVE  RowTells(k)'
    BY DEF RowTellsFuture
  <2>. USE DEF RowTells, Future
  <2>1. InHand(k)' => k = m
    OBVIOUS
  <2>2. /\ inbox[k] = "absent" => Future(k) = "none"
        /\ Future(k) = "pending" => inbox[k] = "received"
        /\ stage[k] # "none" <=> Future(k) = "running"
        /\ stage[k] = "starting" => inbox[k] = "received"
        /\ stage[k] \in InTurn => inbox[k] = "running"
    BY DEF DispatchInv, RowTellsFuture, RowTells
  <2>3. CASE k = m
    BY <1>2, <1>3, <2>2, <2>3
  <2>4. CASE k # m
    BY <1>2, <2>1, <2>2, <2>4
  <2>. QED
    BY <2>3, <2>4
<1>5. TurnsCounted' /\ RowsStay
  BY <1>2 DEF DispatchInv, TurnsCounted, RowsStay, Settled
<1>6. OlderIsKnown'
  BY <1>2 DEF DispatchInv, OlderIsKnown, Known
<1>7. HandIsNewest'
  <2>. SUFFICES ASSUME NEW x \in Messages, Future(x) # "none"
                PROVE  x < m
    BY DEF HandIsNewest, Future
  <2>1. Known(x) /\ x # m
    BY <1>3 DEF DispatchInv, RowTellsFuture, RowTells, Known
  <2>2. ~(m < x)
    BY <2>1 DEF DispatchInv, OlderIsKnown, Known
  <2>. QED
    BY <2>1, <2>2, OfMessages
<1>8. TicketsInOrder'
  BY DEF DispatchInv, TicketsInOrder, Future, Ticket
<1>. QED
  BY <1>1, <1>4, <1>5, <1>6, <1>7, <1>8 DEF DispatchInv

\* A batch is gone through in order.
LEMMA NextInOrder ==
  ASSUME IInv, DispatchInv, NEW m \in Messages, IsNext(m), Proceed(m), poll # "down"
  PROVE  /\ BatchInOrder' /\ poll' # "down"
         /\ \A k \in Messages : InHand(k)' => InHand(k) /\ m < k
<1>1. todo \subseteq Messages /\ position \in Nat /\ upto \in Nat
  BY OfMessages DEF IInv, TypeOK
<1>2. BatchInOrder' /\ poll' # "down"
  BY <1>1 DEF DispatchInv, BatchInOrder, Proceed, Recovering
<1>3. ASSUME NEW k \in Messages, InHand(k)'
      PROVE  upto = position /\ k \in todo /\ k # m
  BY <1>3 DEF InHand, Proceed, Recovering, Handling, IsNext
<1>4. \A k \in todo : k # m => m < k
  BY <1>1, OfMessages DEF IsNext
<1>. QED
  BY <1>2, <1>3, <1>4 DEF InHand

\* The steps of the thread that touch neither a row nor a future.
LEMMA ThreadDispatch ==
  ASSUME IInv, DispatchInv,
         \/ Fetch \/ Truncate \/ Write \/ Advance \/ Interrupt \/ ShutDown
         \/ \E m \in Messages : Look(m) \/ Steer(m) \/ Stop(m) \/ AnswerStop(m) \/ StopRaises(m)
  PROVE  DispatchInv' /\ RowsStay
<1>1. todo \subseteq Messages /\ position \in Nat /\ upto \in Nat
  BY OfMessages DEF IInv, TypeOK
<1>2. UNCHANGED <<inbox, turns, restarts, accepted, ticket, future, stage>>
  BY DEF Fetch, Truncate, Write, Advance, Interrupt, ShutDown, Look, Steer, Stop, AnswerStop,
         StopRaises, Abandon, Serial!Close, durable, workers, scheduler, history
<1>3. poll' # "down" /\ BatchInOrder' /\ \A k \in Messages : InHand(k)' => InHand(k)
  <2>1. CASE Fetch
    <3>1. PICK last \in Messages : /\ last > position /\ upto' = last
                                   /\ todo' = (position + 1)..last
      BY <2>1 DEF Fetch
    <3>2. poll' = "accepting" /\ position' = position
      BY <2>1 DEF Fetch
    <3>3. last \in Nat
      BY OfMessages
    <3>. QED
      BY <1>1, <3>1, <3>2, <3>3 DEF BatchInOrder, InHand, Handling
  <2>2. CASE Truncate \/ Write \/ Advance
    <3>1. todo = {} /\ todo' = {}
      BY <2>2 DEF Truncate, Write, Advance, IInv, SavedIsHandled
    <3>2. /\ poll' \in {"writing", "draining", "polling"}
          /\ upto' >= position'
      BY <1>1, <2>2 DEF Truncate, Write, Advance, DispatchInv, BatchInOrder
    <3>. QED
      BY <3>1, <3>2 DEF BatchInOrder, InHand, Handling
  <2>3. CASE Interrupt \/ \E m \in Messages : StopRaises(m)
    <3>1. /\ todo' = {} /\ upto' = position /\ position' = position
          /\ poll' \in {"closing", "polling"}
      BY <2>3 DEF Interrupt, StopRaises, Abandon
    <3>. QED
      BY <1>1, <3>1 DEF BatchInOrder, InHand, Handling
  <2>4. CASE ShutDown
    <3>1. UNCHANGED <<todo, upto, position>> /\ poll = "abandoning" /\ poll' = "joining"
      BY <2>4 DEF ShutDown
    <3>. QED
      BY <3>1 DEF DispatchInv, BatchInOrder, InHand, Handling
  <2>5. ASSUME NEW m \in Messages, Look(m) \/ Steer(m) \/ Stop(m) \/ AnswerStop(m)
        PROVE  poll' # "down" /\ BatchInOrder' /\ \A k \in Messages : InHand(k)' => InHand(k)
    <3>1. UNCHANGED <<todo, upto, position>> /\ poll \in Handling /\ poll' \in Handling
      BY <2>5 DEF Look, Steer, Stop, AnswerStop, Handling
    <3>. QED
      BY <3>1 DEF DispatchInv, BatchInOrder, InHand, Handling, IsNext
  <2>. QED
    BY <2>1, <2>2, <2>3, <2>4, <2>5
<1>. QED
  BY <1>2, <1>3, RowsUntouched

LEMMA AcceptDispatch ==
  ASSUME IInv, DispatchInv, NEW m \in Messages, Accept(m) \/ AcceptRaises(m)
  PROVE  DispatchInv' /\ RowsStay
<1>1. todo \subseteq Messages /\ position \in Nat /\ upto \in Nat
  BY OfMessages DEF IInv, TypeOK
<1>2. /\ UNCHANGED <<turns, restarts, accepted, ticket, future, stage>>
      /\ poll = "accepting" /\ IsNext(m) /\ upto # position
  BY DEF Accept, AcceptRaises, Abandon, workers, scheduler, history, DispatchInv, BatchInOrder
<1>3. ASSUME NEW k \in Messages, k < m PROVE Known(k)
  <2>1. k <= upto /\ k \notin todo
    BY <1>1, <1>2, <1>3, OfMessages DEF IsNext, DispatchInv, BatchInOrder
  <2>. QED
    BY <2>1 DEF IInv, PassedIsKnown
<1>4. CASE Accept(m) /\ (m \in seen \/ ~Fresh(m))
  <2>1. Proceed(m) /\ UNCHANGED inbox
    BY <1>4 DEF Accept
  <2>. QED
    BY <1>2, <2>1, NextInOrder, RowsUntouched
<1>5. CASE Accept(m) /\ ~(m \in seen \/ ~Fresh(m))
  <2>1. /\ inbox[m] = "absent" /\ inbox' = [inbox EXCEPT ![m] = "received"]
        /\ poll' = "looking" /\ UNCHANGED <<position, upto, todo>>
    BY <1>5 DEF Accept, Fresh
  <2>2. BatchInOrder'
    BY <2>1 DEF DispatchInv, BatchInOrder
  <2>3. \A k \in Messages : InHand(k)' => k = m
    BY <1>1, <1>2, <2>1, OfMessages DEF InHand, IsNext
  <2>. QED
    BY <1>2, <1>3, <2>1, <2>2, <2>3, RowRecorded
<1>6. CASE AcceptRaises(m)
  <2>1. /\ todo' = {} /\ upto' = position /\ position' = position
        /\ poll' \in {"closing", "polling"}
    BY <1>6 DEF AcceptRaises, Abandon
  <2>2. poll' # "down" /\ BatchInOrder' /\ \A k \in Messages : ~InHand(k)'
    BY <1>1, <2>1 DEF BatchInOrder, InHand, Handling
  <2>3. CASE UNCHANGED inbox
    BY <1>2, <2>2, <2>3, RowsUntouched
  <2>4. CASE Fresh(m) /\ inbox' = [inbox EXCEPT ![m] = "received"]
    BY <1>2, <1>3, <2>2, <2>4, RowRecorded DEF Fresh
  <2>. QED
    BY <1>6, <2>3, <2>4 DEF AcceptRaises
<1>. QED
  BY <1>4, <1>5, <1>6

LEMMA SubmitDispatch ==
  ASSUME IInv, DispatchInv, NEW m \in Messages, Submit(m)
  PROVE  DispatchInv' /\ RowsStay
<1>1. /\ poll = "submitting" /\ IsNext(m) /\ Proceed(m) /\ Superseded
      /\ UNCHANGED <<turns, restarts, stage>>
  BY DEF Submit, workers, history
<1>2. InHand(m) /\ Future(m) = "none" /\ inbox[m] = "received"
  BY <1>1 DEF InHand, Handling, DispatchInv, RowTellsFuture, RowTells
<1>3. /\ BatchInOrder' /\ poll' # "down"
      /\ \A k \in Messages : InHand(k)' => InHand(k) /\ m < k
  BY <1>1, NextInOrder
<1>4. /\ Future(m)' = "pending"
      /\ \A k \in Messages : k # m => \/ Future(k)' = Future(k)
                                      \/ Future(k) = "pending" /\ Future(k)' = "cancelled"
      /\ OneFuture' /\ SerialType'
      /\ accepted' = accepted + 1 /\ Ticket(m)' = accepted + 1
      /\ \A k \in Messages : k # m => Ticket(k)' = Ticket(k)
  BY <1>2, SubmitEffect DEF DispatchInv, OneFuture
<1>5. \A k \in Messages :
        \/ inbox'[k] = inbox[k]
        \/ /\ inbox[k] = "received" /\ inbox'[k] = "superseded"
           /\ Future(k) = "pending" /\ Future(k)' = "cancelled"
  BY <1>1, SupersededRows DEF DispatchInv
<1>6. RowTellsFuture'
  <2>. SUFFICES ASSUME NEW k \in Messages
                PROVE  RowTells(k)'
    BY DEF RowTellsFuture
  <2>1. RowTells(k)
    BY DEF DispatchInv, RowTellsFuture
  <2>2. InHand(k)' => InHand(k) /\ k # m
    BY <1>3, OfMessages
  <2>3. CASE k = m
    BY <1>1, <1>2, <1>4, <1>5, <2>1, <2>2, <2>3 DEF RowTells, InTurn
  <2>4. CASE k # m
    BY <1>1, <1>4, <1>5, <2>1, <2>2, <2>4 DEF RowTells, InTurn
  <2>. QED
    BY <2>3, <2>4
<1>7. TurnsCounted' /\ RowsStay
  BY <1>1, <1>5 DEF DispatchInv, TurnsCounted, RowsStay, Settled
<1>8. OlderIsKnown' /\ DownIsIdle'
  <2>1. \A k \in Messages : Known(k)' <=> Known(k)
    BY <1>5 DEF Known
  <2>. QED
    BY <1>3, <2>1 DEF DispatchInv, OlderIsKnown, DownIsIdle
<1>9. HandIsNewest'
  <2>. SUFFICES ASSUME NEW x \in Messages, NEW k \in Messages, InHand(k)', Future(x)' # "none"
                PROVE  x < k
    BY DEF HandIsNewest
  <2>1. InHand(k) /\ m < k
    BY <1>3
  <2>2. CASE x = m
    BY <2>1, <2>2
  <2>3. CASE x # m
    BY <1>4, <2>1, <2>3 DEF DispatchInv, HandIsNewest
  <2>. QED
    BY <2>2, <2>3
<1>10. TicketsInOrder'
  <2>t. accepted \in Nat /\ \A k \in Messages : Ticket(k) \in Nat
    BY OfMessages DEF DispatchInv, SerialType, Ticket
  <2>1. \A k \in Messages : Ticket(k)' <= accepted'
    BY <1>4, <2>t DEF DispatchInv, TicketsInOrder
  <2>2. ASSUME NEW x \in Messages, NEW k \in Messages, k < x, Future(k)' # "none",
               Future(x)' # "none"
        PROVE  Ticket(k)' < Ticket(x)'
    <3>1. k # x
      BY <2>2, OfMessages
    <3>2. CASE x = m
      BY <1>4, <2>t, <3>1, <3>2 DEF DispatchInv, TicketsInOrder
    <3>3. CASE k = m
      <4>1. Future(x) # "none"
        BY <1>4, <2>2, <3>1, <3>3
      <4>2. x < m
        BY <1>2, <4>1 DEF DispatchInv, HandIsNewest
      <4>. QED
        BY <2>2, <3>3, <4>2, OfMessages
    <3>4. CASE x # m /\ k # m
      BY <1>4, <2>2, <3>4 DEF DispatchInv, TicketsInOrder
    <3>. QED
      BY <3>2, <3>3, <3>4
  <2>. QED
    BY <2>1, <2>2 DEF TicketsInOrder
<1>. QED
  BY <1>3, <1>4, <1>6, <1>7, <1>8, <1>9, <1>10 DEF DispatchInv

LEMMA CompleteDispatch ==
  ASSUME IInv, DispatchInv, NEW m \in Messages, CompleteStop(m)
  PROVE  DispatchInv' /\ RowsStay
<1>1. /\ poll = "completing" /\ IsNext(m) /\ Proceed(m)
      /\ inbox' = [inbox EXCEPT ![m] = "completed"]
      /\ UNCHANGED <<turns, restarts, accepted, ticket, future, stage>>
  BY DEF CompleteStop, workers, scheduler, history
<1>2. InHand(m) /\ Future(m) = "none" /\ inbox[m] = "received"
  BY <1>1 DEF InHand, Handling, DispatchInv, RowTellsFuture, RowTells
<1>3. /\ BatchInOrder' /\ poll' # "down"
      /\ \A k \in Messages : InHand(k)' => InHand(k) /\ k # m
  BY <1>1, NextInOrder, OfMessages
<1>4. inbox'[m] = "completed" /\ \A k \in Messages : k # m => inbox'[k] = inbox[k]
  BY <1>1 DEF IInv, TypeOK
<1>5. SerialType' /\ OneFuture' /\ DownIsIdle' /\ TicketsInOrder'
  BY <1>1, <1>3 DEF DispatchInv, SerialType, OneFuture, DownIsIdle, TicketsInOrder, Future, Ticket
<1>6. RowTellsFuture'
  <2>. SUFFICES ASSUME NEW k \in Messages
                PROVE  RowTells(k)'
    BY DEF RowTellsFuture
  <2>1. RowTells(k) /\ Future(k)' = Future(k) /\ stage'[k] = stage[k]
    BY <1>1 DEF DispatchInv, RowTellsFuture, Future
  <2>2. InHand(k)' => InHand(k) /\ k # m
    BY <1>3
  <2>3. CASE k = m
    BY <1>2, <1>4, <2>1, <2>2, <2>3 DEF RowTells, InTurn
  <2>4. CASE k # m
    BY <1>4, <2>1, <2>2, <2>4 DEF RowTells, InTurn
  <2>. QED
    BY <2>3, <2>4
<1>7. TurnsCounted' /\ RowsStay
  BY <1>1, <1>2, <1>4 DEF DispatchInv, TurnsCounted, RowsStay, Settled
<1>8. OlderIsKnown' /\ HandIsNewest'
  BY <1>1, <1>2, <1>3, <1>4 DEF DispatchInv, OlderIsKnown, HandIsNewest, Known, Future
<1>. QED
  BY <1>3, <1>5, <1>6, <1>7, <1>8 DEF DispatchInv

\* What a step of the worker of one message leaves alone, and what it must keep.
LEMMA WorkerDispatch ==
  ASSUME IInv, DispatchInv, NEW m \in Messages,
         Future(m) \in {"pending", "running"}, Future(m)' # "none", OthersKeep(m),
         SerialType', OneFuture', UNCHANGED <<poller, accepted, ticket, restarts>>,
         \A k \in Messages : k # m =>
           inbox'[k] = inbox[k] /\ stage'[k] = stage[k] /\ turns'[k] = turns[k],
         inbox'[m] # "absent", Future(m)' = "pending" => inbox'[m] = "received",
         stage'[m] # "none" <=> Future(m)' = "running",
         stage'[m] = "starting" => inbox'[m] = "received",
         stage'[m] \in InTurn => inbox'[m] = "running",
         inbox[m] \notin Settled,
         turns'[m] <= restarts + 1, inbox'[m] = "received" => turns'[m] <= restarts
  PROVE  DispatchInv' /\ RowsStay
<1>1. UNCHANGED <<poll, position, upto, todo>>
  BY DEF poller
<1>2. poll' # "down" /\ ~InHand(m)
  BY <1>1 DEF DispatchInv, DownIsIdle, RowTellsFuture, RowTells
<1>3. \A k \in Messages : InHand(k)' <=> InHand(k)
  BY <1>1 DEF InHand, IsNext
<1>4. \A k \in Messages : k # m => Future(k)' = Future(k)
  BY DEF OthersKeep, Future
<1>5. \A k \in Messages : Ticket(k)' = Ticket(k)
  BY DEF Ticket
<1>6. BatchInOrder' /\ DownIsIdle'
  BY <1>1, <1>2 DEF DispatchInv, BatchInOrder, DownIsIdle
<1>7. RowTellsFuture'
  <2>. SUFFICES ASSUME NEW k \in Messages
                PROVE  RowTells(k)'
    BY DEF RowTellsFuture
  <2>1. CASE k = m
    BY <1>2, <1>3, <2>1 DEF RowTells, InTurn
  <2>2. CASE k # m
    <3>1. RowTells(k)
      BY DEF DispatchInv, RowTellsFuture
    <3>. QED
      BY <1>3, <1>4, <2>2, <3>1 DEF RowTells, InTurn
  <2>. QED
    BY <2>1, <2>2
<1>8. TurnsCounted' /\ RowsStay
  BY DEF DispatchInv, TurnsCounted, RowsStay
<1>9. OlderIsKnown'
  <2>1. Known(m) /\ Known(m)' /\ \A k \in Messages : k # m => (Known(k)' <=> Known(k))
    BY DEF Known, DispatchInv, RowTellsFuture, RowTells
  <2>2. \A k \in Messages : Known(k)' <=> Known(k)
    BY <2>1
  <2>. QED
    BY <2>2 DEF DispatchInv, OlderIsKnown
<1>10. \A k \in Messages : Future(k)' # "none" <=> Future(k) # "none"
  BY <1>4
<1>11. HandIsNewest' /\ TicketsInOrder'
  BY <1>3, <1>5, <1>10 DEF DispatchInv, HandIsNewest, TicketsInOrder
<1>. QED
  BY <1>6, <1>7, <1>8, <1>9, <1>11 DEF DispatchInv

LEMMA WorkDispatch ==
  ASSUME IInv, DispatchInv, NEW m \in Messages, Start(m) \/ Work(m) \/ WorkerRaises(m)
  PROVE  DispatchInv' /\ RowsStay
<1>. USE DEF IInv, TypeOK
<1>1. RowTells(m) /\ SerialType /\ OneFuture /\ turns[m] <= restarts + 1
      /\ (inbox[m] \in {"absent", "received"} => turns[m] <= restarts)
  BY DEF DispatchInv, RowTellsFuture, TurnsCounted
<1>2. CASE Start(m)
  <2>1. UNCHANGED <<poller, restarts, inbox, turns>>
    BY <1>2 DEF Start, durable, history
  <2>2. /\ Future(m) = "pending" /\ Future(m)' = "running" /\ OthersKeep(m)
        /\ SerialType' /\ OneFuture' /\ ticket' = ticket /\ accepted' = accepted
        /\ stage'[m] = "starting" /\ \A k \in Messages : k # m => stage'[k] = stage[k]
    BY <1>1, <1>2, StartEffect
  <2>3. inbox[m] = "received"
    BY <1>1, <2>2 DEF RowTells
  <2>. HIDE DEF IInv, TypeOK
  <2>. QED
    BY <1>1, <2>1, <2>2, <2>3, WorkerDispatch DEF InTurn, Settled
<1>3. ASSUME stage[m] # "none"
      PROVE  Future(m) = "running"
  BY <1>1, <1>3 DEF RowTells
<1>4. CASE /\ stage[m] # "none" /\ WorkerLeaves(m) /\ UNCHANGED <<poller, restarts, turns>>
           /\ \/ inbox' = inbox
              \/ inbox[m] = "running" /\ \E s \in {"completed", "failed"} :
                                           inbox' = [inbox EXCEPT ![m] = s]
  <2>1. /\ Future(m)' \in {"finished", "failed"} /\ OthersKeep(m)
        /\ SerialType' /\ OneFuture' /\ ticket' = ticket /\ accepted' = accepted
        /\ stage'[m] = "none" /\ \A k \in Messages : k # m => stage'[k] = stage[k]
    BY <1>1, <1>3, <1>4, LeaveEffect
  <2>2. inbox[m] \in {"received", "running"}
    BY <1>1, <1>4 DEF RowTells, InTurn
  <2>3. /\ \A k \in Messages : k # m => inbox'[k] = inbox[k]
        /\ inbox'[m] # "absent" /\ (inbox'[m] = "received" => inbox[m] = "received")
    BY <1>4, <2>2
  <2>. HIDE DEF IInv, TypeOK
  <2>. QED
    BY <1>1, <1>3, <1>4, <2>1, <2>2, <2>3, WorkerDispatch DEF InTurn, Settled
<1>5. CASE Enter(m)
  <2>1. inbox[m] = "received" /\ stage[m] = "starting"
    BY <1>1, <1>5 DEF Enter, RowTells
  <2>2. /\ inbox' = [inbox EXCEPT ![m] = "running"] /\ stage' = [stage EXCEPT ![m] = "turn"]
        /\ turns' = [turns EXCEPT ![m] = @ + 1]
        /\ UNCHANGED <<poller, scheduler, restarts>>
    BY <1>5, <2>1 DEF Enter
  <2>3. /\ OthersKeep(m) /\ SerialType' /\ OneFuture' /\ Future(m)' = Future(m)
        /\ UNCHANGED <<accepted, ticket>>
    BY <1>1, <2>2 DEF scheduler, OthersKeep, SerialType, OneFuture, Future
  <2>4. /\ inbox'[m] = "running" /\ stage'[m] = "turn" /\ turns'[m] = turns[m] + 1
        /\ \A k \in Messages : k # m =>
             inbox'[k] = inbox[k] /\ stage'[k] = stage[k] /\ turns'[k] = turns[k]
    BY <2>2
  <2>5. turns'[m] <= restarts + 1
    BY <1>1, <2>1, <2>4
  <2>. HIDE DEF IInv, TypeOK
  <2>. QED
    BY <1>3, <2>1, <2>2, <2>3, <2>4, <2>5, WorkerDispatch DEF InTurn, Settled
<1>6. CASE \/ TurnEnds(m) \/ Reply(m)
           \/ WorkerRaises(m) /\ stage[m] \in {"replying", "completing"}
  <2>1. /\ UNCHANGED <<inbox, turns, restarts, accepted, ticket, future>> /\ UNCHANGED poller
        /\ stage[m] \in InTurn
        /\ \E s \in InTurn : stage' = [stage EXCEPT ![m] = s]
    BY <1>6 DEF TurnEnds, Reply, WorkerRaises, durable, history, scheduler, InTurn
  <2>2. \A k \in Messages : \/ stage'[k] = stage[k]
                            \/ stage[k] \in InTurn /\ stage'[k] \in InTurn
    BY <2>1
  <2>3. BatchInOrder' /\ (poll' = "down" => poll = "down")
        /\ \A k \in Messages : InHand(k)' => InHand(k)
    BY <2>1 DEF DispatchInv, BatchInOrder, InHand, IsNext, poller
  <2>. HIDE DEF IInv, TypeOK
  <2>. QED
    BY <2>1, <2>2, <2>3, RowsKept
<1>. QED
  <2>1. CASE Complete(m) \/ Fail(m)
    BY <1>4, <2>1 DEF Complete, Fail, history
  <2>2. CASE WorkerRaises(m)
    BY <1>4, <1>6, <2>2 DEF WorkerRaises, history
  <2>. QED
    BY <1>2, <1>5, <1>6, <2>1, <2>2 DEF Work

LEMMA GiveUpDispatch ==
  ASSUME IInv, DispatchInv, GiveUp
  PROVE  DispatchInv' /\ RowsStay
<1>1. /\ poll' = "abandoning" /\ poll = "closing" /\ Superseded
      /\ UNCHANGED <<position, upto, todo, stage, turns, restarts>>
  BY DEF GiveUp, workers, history
<1>2. /\ \A k \in Messages : \/ Future(k)' = Future(k)
                             \/ Future(k) = "pending" /\ Future(k)' = "cancelled"
      /\ SerialType' /\ OneFuture' /\ ticket' = ticket /\ accepted' = accepted
  BY GiveUpEffect DEF DispatchInv
<1>3. \A k \in Messages :
        \/ inbox'[k] = inbox[k]
        \/ /\ inbox[k] = "received" /\ inbox'[k] = "superseded"
           /\ Future(k) = "pending" /\ Future(k)' = "cancelled"
  BY <1>1, SupersededRows DEF DispatchInv
<1>4. \A k \in Messages : InHand(k)' => InHand(k)
  BY <1>1 DEF InHand, Handling
<1>5. RowTellsFuture'
  <2>. SUFFICES ASSUME NEW k \in Messages
                PROVE  RowTells(k)'
    BY DEF RowTellsFuture
  <2>1. RowTells(k)
    BY DEF DispatchInv, RowTellsFuture
  <2>. QED
    BY <1>1, <1>2, <1>3, <1>4, <2>1 DEF RowTells, InTurn
<1>6. TurnsCounted' /\ RowsStay
  BY <1>1, <1>3 DEF DispatchInv, TurnsCounted, RowsStay, Settled
<1>7. BatchInOrder' /\ DownIsIdle'
  BY <1>1 DEF DispatchInv, BatchInOrder, DownIsIdle
<1>8. \A k \in Messages : /\ Known(k)' <=> Known(k)
                          /\ Future(k)' # "none" <=> Future(k) # "none"
                          /\ Ticket(k)' = Ticket(k)
  BY <1>2, <1>3 DEF Known, Ticket
<1>9. OlderIsKnown' /\ HandIsNewest' /\ TicketsInOrder'
  BY <1>2, <1>4, <1>8 DEF DispatchInv, OlderIsKnown, HandIsNewest, TicketsInOrder
<1>. QED
  BY <1>2, <1>5, <1>6, <1>7, <1>9 DEF DispatchInv

LEMMA EndedDispatch ==
  ASSUME IInv, DispatchInv, Ended
  PROVE  DispatchInv' /\ RowsStay
<1>1. /\ todo' = {} /\ upto' = position' /\ poll' = "down" /\ position' \in Nat
      /\ UNCHANGED <<inbox, turns, restarts>> /\ accepted' = 0
  BY OfMessages DEF Ended, IInv, TypeOK, durable, history
<1>2. /\ future' = [t \in Tasks |-> "none"] /\ ticket' = [t \in Tasks |-> 0]
      /\ stage' = [k \in Messages |-> "none"]
  BY DEF Ended
<1>3. ASSUME NEW k \in Messages
      PROVE  Future(k)' = "none" /\ Ticket(k)' = 0 /\ future'[<<k, 2>>] = "none"
  <2>1. <<k, 1>> \in Tasks /\ <<k, 2>> \in Tasks
    BY OfMessages
  <2>2. future'[<<k, 1>>] = "none" /\ future'[<<k, 2>>] = "none" /\ ticket'[<<k, 1>>] = 0
    BY <1>2, <2>1
  <2>. QED
    BY <2>2 DEF Future, Ticket
<1>4. SerialType' /\ OneFuture' /\ DownIsIdle'
  BY <1>1, <1>2, <1>3 DEF SerialType, OneFuture, DownIsIdle
<1>5. \A k \in Messages : ~InHand(k)' /\ stage'[k] = "none"
  BY <1>1, <1>2 DEF InHand, Handling
<1>6. RowTellsFuture'
  BY <1>3, <1>5 DEF RowTellsFuture, RowTells, InTurn
<1>7. TurnsCounted' /\ RowsStay /\ OlderIsKnown'
  BY <1>1 DEF DispatchInv, TurnsCounted, RowsStay, OlderIsKnown, Known
<1>8. HandIsNewest' /\ TicketsInOrder'
  <2>1. HandIsNewest'
    BY <1>5 DEF HandIsNewest
  <2>2. \A k \in Messages : Future(k)' = "none"
    BY <1>3
  <2>3. ASSUME NEW k \in Messages PROVE Ticket(k)' <= accepted'
    <3>1. Ticket(k)' = 0
      BY <1>3
    <3>. QED
      BY <1>1, <3>1
  <2>. QED
    BY <2>2, <2>1, <2>3 DEF TicketsInOrder
<1>9. BatchInOrder'
  BY <1>1 DEF BatchInOrder
<1>. QED
  BY <1>4, <1>6, <1>7, <1>8, <1>9 DEF DispatchInv

LEMMA RestartDispatch ==
  ASSUME IInv, DispatchInv, Restart
  PROVE  DispatchInv' /\ RowsStay
<1>1. /\ poll = "down" /\ poll' \in {"polling", "looking"} /\ restarts' = restarts + 1
      /\ upto' = position' /\ UNCHANGED <<accepted, ticket, future, stage, turns, upto, position>>
      /\ todo' = {m \in Messages : inbox'[m] = "received"}
  BY DEF Restart, workers, scheduler, IInv, DownIsReset
<1>2. \A k \in Messages : \/ inbox'[k] = inbox[k] /\ inbox[k] # "running"
                          \/ inbox[k] = "running" /\ inbox'[k] = "received"
  BY DEF Restart, Interrupted
<1>3. restarts \in Nat /\ \A k \in Messages : turns[k] \in Nat
  BY GatewayAssumption DEF IInv, TypeOK, GatewayAssumption
<1>4. \A k \in Messages : Future(k) = "none" /\ Future(k)' = Future(k)
  <2>1. \A k \in Messages : Future(k) = "none"
    BY <1>1 DEF DispatchInv, DownIsIdle
  <2>2. \A k \in Messages : Future(k)' = Future(k)
    BY <1>1 DEF Future
  <2>. QED
    BY <2>1, <2>2
<1>5. \A k \in Messages : InHand(k)' => inbox'[k] = "received"
  BY <1>1 DEF InHand, IsNext
<1>6. RowTellsFuture'
  <2>. SUFFICES ASSUME NEW k \in Messages
                PROVE  RowTells(k)'
    BY DEF RowTellsFuture
  <2>1. RowTells(k) /\ stage'[k] = stage[k]
    BY <1>1 DEF DispatchInv, RowTellsFuture
  <2>. QED
    BY <1>2, <1>4, <1>5, <2>1 DEF RowTells, InTurn
<1>7. TurnsCounted' /\ RowsStay
  BY <1>1, <1>2, <1>3 DEF DispatchInv, TurnsCounted, RowsStay, Settled
<1>8. SerialType' /\ OneFuture' /\ DownIsIdle' /\ TicketsInOrder' /\ BatchInOrder'
  <2>1. upto >= position /\ position \in Nat
    BY OfMessages DEF DispatchInv, BatchInOrder, IInv, TypeOK
  <2>. QED
    BY <1>1, <2>1 DEF DispatchInv, SerialType, OneFuture, DownIsIdle, TicketsInOrder, BatchInOrder,
                      Future, Ticket
<1>9. OlderIsKnown' /\ HandIsNewest'
  BY <1>2, <1>4 DEF DispatchInv, OlderIsKnown, HandIsNewest, Known
<1>. QED
  BY <1>6, <1>7, <1>8, <1>9 DEF DispatchInv

LEMMA StepDispatch ==
  ASSUME IInv, DispatchInv, [Next]_vars
  PROVE  DispatchInv' /\ RowsStay
<1>1. ASSUME NEW m \in Messages, Handle(m) PROVE DispatchInv' /\ RowsStay
  BY <1>1, ThreadDispatch, AcceptDispatch, SubmitDispatch, CompleteDispatch DEF Handle
<1>2. ASSUME NEW m \in Messages, Start(m) \/ Work(m) \/ Raise(m)
      PROVE  DispatchInv' /\ RowsStay
  BY <1>2, WorkDispatch, ThreadDispatch, AcceptDispatch DEF Raise
<1>3. CASE Fetch \/ Truncate \/ Write \/ Advance \/ Interrupt \/ ShutDown
  BY <1>3, ThreadDispatch
<1>4. CASE GiveUp \/ Drained \/ Joined \/ Crash \/ Restart
  BY <1>4, GiveUpDispatch, EndedDispatch, RestartDispatch DEF Drained, Joined, Crash
<1>5. CASE UNCHANGED vars
  <2>1. /\ UNCHANGED <<inbox, turns, restarts, accepted, ticket, future>> /\ UNCHANGED stage
        /\ UNCHANGED <<poll, position, upto, todo>>
    BY <1>5 DEF vars, durable, poller, workers, scheduler, history
  <2>2. \A k \in Messages : \/ stage'[k] = stage[k]
                            \/ stage[k] \in InTurn /\ stage'[k] \in InTurn
    BY <2>1
  <2>3. BatchInOrder' /\ (poll' = "down" => poll = "down")
        /\ \A k \in Messages : InHand(k)' => InHand(k)
    BY <2>1 DEF DispatchInv, BatchInOrder, InHand, IsNext
  <2>. QED
    BY <2>1, <2>2, <2>3, RowsKept
<1>. QED
  BY <1>1, <1>2, <1>3, <1>4, <1>5 DEF Next, Poll, Closing

LEMMA DispatchInvariant == Spec => [](IInv /\ DispatchInv)
<1>1. IInv /\ DispatchInv /\ [Next]_vars => DispatchInv'
  BY StepDispatch
<1>. QED
  BY InitDispatch, <1>1, InductiveInvariant, PTL DEF Spec

\* Whatever the service delivers again, whatever the inbox gives a new process to
\* recover and whatever raises: a settled message is neither run nor marked
\* again, and no process runs a message twice (local.py, _accept_message and
\* recover_inbound; delivery.py, record_inbound and start_inbound).
THEOREM NoMessageRunsTwice == Spec => RunsOncePerLife
<1>1. IInv /\ DispatchInv /\ [Next]_vars =>
        [\A m \in Messages :
           /\ inbox[m] \in Settled => inbox'[m] = inbox[m] /\ turns'[m] = turns[m]
           /\ turns'[m] <= restarts + 1]_vars
  BY StepDispatch DEF RowsStay
<1>. QED
  BY <1>1, DispatchInvariant, PTL DEF Spec, RunsOncePerLife

-----------------------------------------------------------------------------
(* A conversation is answered in order, if no transaction raises: one that does *)
(* may leave an accepted message to the recovery that follows the next restart. *)

Alive == poll \notin {"closing", "abandoning", "joining", "down"}
AtWork(m) == Future(m) \in {"pending", "running"}
Open(m) == inbox[m] \in {"received", "running"}
Before(k, m) == k < m /\ SessionOf[k] = SessionOf[m]

\* Until the gateway is closed, nothing that is open is forgotten.
NothingIsForgotten ==
  /\ Alive => \A k \in Messages : Open(k) => InHand(k) \/ AtWork(k)
  /\ poll = "polling" => todo = {}

\* What comes before a message that was submitted is settled or submitted.
OlderIsSubmitted ==
  \A k, m \in Messages : Before(k, m) /\ Future(m) # "none" => inbox[k] \in Settled \/ AtWork(k)

StartsInOrder ==
  \A k, m \in Messages : Before(k, m) /\ stage[m] = "starting" => inbox[k] \in Settled

OrderInv == NothingIsForgotten /\ OlderIsSubmitted /\ StartsInOrder

LEMMA InitOrder == Init => OrderInv
<1>. SUFFICES ASSUME Init PROVE OrderInv
  OBVIOUS
<1>1. \A k \in Messages : inbox[k] = "absent" /\ stage[k] = "none" /\ Future(k) = "none"
  <2>1. DispatchInv /\ \A k \in Messages : inbox[k] = "absent" /\ stage[k] = "none"
    BY InitDispatch DEF Init
  <2>. QED
    BY <2>1 DEF DispatchInv, RowTellsFuture, RowTells
<1>2. todo = {}
  BY DEF Init
<1>. QED
  BY <1>1, <1>2 DEF OrderInv, NothingIsForgotten, OlderIsSubmitted, StartsInOrder, Open

\* A step that submits nothing and starts nothing.
LEMMA OrderKept ==
  ASSUME OrderInv, RowsStay, NothingIsForgotten',
         \A k \in Messages : AtWork(k) => AtWork(k)' \/ inbox'[k] \in Settled,
         \A k \in Messages : Future(k)' # "none" => Future(k) # "none",
         \A k \in Messages : stage'[k] = "starting" => stage[k] = "starting"
  PROVE  OrderInv'
<1>1. \A k \in Messages : inbox[k] \in Settled => inbox'[k] \in Settled
  BY DEF RowsStay
<1>2. OlderIsSubmitted'
  <2>. SUFFICES ASSUME NEW k \in Messages, NEW m \in Messages, Before(k, m), Future(m)' # "none"
                PROVE  inbox'[k] \in Settled \/ AtWork(k)'
    BY DEF OlderIsSubmitted, Before, Settled
  <2>1. inbox[k] \in Settled \/ AtWork(k)
    BY DEF OrderInv, OlderIsSubmitted
  <2>. QED
    BY <1>1, <2>1
<1>3. StartsInOrder'
  <2>. SUFFICES ASSUME NEW k \in Messages, NEW m \in Messages, Before(k, m), stage'[m] = "starting"
                PROVE  inbox'[k] \in Settled
    BY DEF StartsInOrder, Before, Settled
  <2>. QED
    BY <1>1 DEF OrderInv, StartsInOrder
<1>. QED
  BY <1>2, <1>3 DEF OrderInv

\* A step that leaves the rows and the futures alone.
LEMMA OrderUntouched ==
  ASSUME OrderInv, RowsStay, UNCHANGED <<inbox, future>>,
         \A k \in Messages : stage'[k] = "starting" => stage[k] = "starting",
         Alive' => Alive /\ \A k \in Messages : InHand(k) => InHand(k)',
         poll' = "polling" => todo' = {}
  PROVE  OrderInv'
<1>1. \A k \in Messages : /\ Future(k)' = Future(k) /\ (AtWork(k)' <=> AtWork(k))
                          /\ (Open(k)' <=> Open(k))
  BY DEF Future, AtWork, Open
<1>2. NothingIsForgotten'
  BY <1>1 DEF OrderInv, NothingIsForgotten
<1>. QED
  BY <1>1, <1>2, OrderKept

LEMMA ThreadOrder ==
  ASSUME IInv, DispatchInv, OrderInv, RowsStay, ~StoreMayFail,
         \/ Fetch \/ Truncate \/ Write \/ Advance \/ Interrupt \/ ShutDown
         \/ \E m \in Messages : Look(m) \/ Steer(m) \/ Stop(m) \/ AnswerStop(m)
  PROVE  OrderInv'
<1>1. UNCHANGED <<inbox, future>> /\ UNCHANGED stage
  BY DEF Fetch, Truncate, Write, Advance, Interrupt, ShutDown, Look, Steer, Stop, AnswerStop,
         Serial!Close, durable, workers, scheduler
<1>2. /\ Alive' => Alive /\ \A k \in Messages : InHand(k) => InHand(k)'
      /\ poll' = "polling" => todo' = {}
  <2>1. CASE Fetch \/ Truncate \/ Write \/ Advance
    <3>1. todo = {} /\ (poll' = "polling" => todo' = {}) /\ Alive
      BY <2>1 DEF Fetch, Truncate, Write, Advance, IInv, SavedIsHandled, OrderInv,
                  NothingIsForgotten, Alive
    <3>. QED
      BY <3>1 DEF InHand, IsNext
  <2>2. CASE Interrupt \/ ShutDown
    BY <2>2 DEF Interrupt, ShutDown, Alive
  <2>3. ASSUME NEW m \in Messages, Look(m) \/ Steer(m) \/ Stop(m) \/ AnswerStop(m)
        PROVE  /\ Alive' => Alive /\ \A k \in Messages : InHand(k) => InHand(k)'
               /\ poll' = "polling" => todo' = {}
    <3>1. UNCHANGED <<todo, upto, position>> /\ poll \in Handling /\ poll' \in Handling
      BY <2>3 DEF Look, Steer, Stop, AnswerStop, Handling
    <3>. QED
      BY <3>1 DEF InHand, IsNext, Handling, Alive
  <2>. QED
    BY <2>1, <2>2, <2>3
<1>. QED
  BY <1>1, <1>2, OrderUntouched

\* What stays in hand when a message is done with.
LEMMA HandStays ==
  ASSUME IInv, DispatchInv, NEW m \in Messages, IsNext(m), Proceed(m)
  PROVE  /\ \A k \in Messages : InHand(k) /\ k # m => InHand(k)'
         /\ poll' = "polling" => todo' = {}
         /\ \A k \in Messages : k < m => ~InHand(k)
<1>1. todo \subseteq Messages /\ Messages \subseteq Nat
  BY OfMessages DEF IInv, TypeOK
<1>2. ASSUME NEW k \in Messages, InHand(k), k # m
      PROVE  upto = position /\ k \in todo
  BY <1>1, <1>2 DEF InHand, IsNext
<1>3. \A k \in Messages : InHand(k) => k \in todo
  BY DEF InHand, IsNext
<1>. QED
  BY <1>1, <1>2, <1>3 DEF InHand, Proceed, IsNext

LEMMA AcceptOrder ==
  ASSUME IInv, DispatchInv, OrderInv, RowsStay, NEW m \in Messages, Accept(m)
  PROVE  OrderInv'
<1>1. /\ UNCHANGED <<future, stage>> /\ poll = "accepting" /\ upto # position
      /\ \A k \in Messages : ~InHand(k)
  BY DEF Accept, workers, scheduler, DispatchInv, BatchInOrder, InHand, Handling
<1>2. CASE m \in seen \/ ~Fresh(m)
  <2>1. UNCHANGED inbox /\ (poll' = "polling" => todo' = {}) /\ Alive
    BY <1>1, <1>2 DEF Accept, Proceed, Alive
  <2>. QED
    BY <1>1, <2>1, OrderUntouched
<1>3. CASE ~(m \in seen \/ ~Fresh(m))
  <2>1. /\ inbox' = [inbox EXCEPT ![m] = "received"] /\ inbox[m] = "absent" /\ IsNext(m)
        /\ poll' = "looking" /\ UNCHANGED <<position, upto, todo>>
    BY <1>3 DEF Accept, Fresh
  <2>2. InHand(m)'
    BY <2>1 DEF InHand, Handling, IsNext
  <2>3. \A k \in Messages : k # m => inbox'[k] = inbox[k]
    BY <2>1
  <2>4. \A k \in Messages : Future(k)' = Future(k) /\ (AtWork(k)' <=> AtWork(k))
    BY <1>1 DEF Future, AtWork
  <2>5. NothingIsForgotten'
    <3>1. Alive
      BY <1>1 DEF Alive
    <3>2. ASSUME NEW k \in Messages, Open(k)'
          PROVE  InHand(k)' \/ AtWork(k)'
      BY <1>1, <2>2, <2>3, <2>4, <3>1, <3>2 DEF Open, OrderInv, NothingIsForgotten
    <3>. QED
      BY <2>1, <3>2 DEF NothingIsForgotten
  <2>. QED
    BY <1>1, <2>4, <2>5, OrderKept
<1>. QED
  BY <1>2, <1>3

LEMMA SubmitOrder ==
  ASSUME IInv, DispatchInv, OrderInv, RowsStay, ~StoreMayFail, NEW m \in Messages, Submit(m)
  PROVE  OrderInv'
<1>1. poll = "submitting" /\ IsNext(m) /\ Proceed(m) /\ Superseded /\ UNCHANGED stage
  BY DEF Submit, workers
<1>2. InHand(m) /\ Future(m) = "none" /\ inbox[m] = "received" /\ Alive
  BY <1>1 DEF InHand, Handling, DispatchInv, RowTellsFuture, RowTells, Alive
<1>3. /\ Future(m)' = "pending"
      /\ \A k \in Messages : k # m => \/ Future(k)' = Future(k)
                                      \/ Future(k) = "pending" /\ Future(k)' = "cancelled"
  BY <1>2, SubmitEffect DEF DispatchInv
<1>4. /\ \A k \in Messages : inbox'[k] = inbox[k] \/ inbox'[k] = "superseded"
      /\ \A k \in Messages : inbox[k] = "received" /\ Future(k) = "pending"
                               /\ Future(k)' = "cancelled" => inbox'[k] = "superseded"
  BY <1>1, SupersededRows DEF DispatchInv
<1>5. \A k \in Messages : AtWork(k) => AtWork(k)' \/ inbox'[k] \in Settled
  <2>. SUFFICES ASSUME NEW k \in Messages, AtWork(k)
                PROVE  AtWork(k)' \/ inbox'[k] \in Settled
    OBVIOUS
  <2>1. k # m /\ (Future(k) = "pending" => inbox[k] = "received")
    BY <1>2 DEF AtWork, DispatchInv, RowTellsFuture, RowTells
  <2>. QED
    BY <1>3, <1>4, <2>1 DEF AtWork, Settled
<1>6. AtWork(m)' /\ \A k \in Messages : k # m => (Future(k)' # "none" => Future(k) # "none")
  BY <1>3 DEF AtWork
<1>7. /\ \A k \in Messages : InHand(k) /\ k # m => InHand(k)'
      /\ poll' = "polling" => todo' = {}
      /\ \A k \in Messages : k < m => ~InHand(k)
  BY <1>1, HandStays
<1>8. NothingIsForgotten'
  <2>1. ASSUME NEW k \in Messages, Open(k)'
        PROVE  InHand(k)' \/ AtWork(k)'
    <3>1. Open(k) /\ inbox'[k] \notin Settled
      BY <1>4, <2>1 DEF Open, Settled
    <3>2. InHand(k) \/ AtWork(k)
      BY <1>2, <3>1 DEF OrderInv, NothingIsForgotten
    <3>. QED
      BY <1>5, <1>6, <1>7, <3>1, <3>2
  <2>. QED
    BY <1>7, <2>1 DEF NothingIsForgotten
<1>9. \A k \in Messages : inbox[k] \in Settled => inbox'[k] \in Settled
  BY DEF RowsStay
<1>10. OlderIsSubmitted'
  <2>. SUFFICES ASSUME NEW k \in Messages, NEW x \in Messages, Before(k, x), Future(x)' # "none"
                PROVE  inbox'[k] \in Settled \/ AtWork(k)'
    BY DEF OlderIsSubmitted, Before, Settled
  <2>1. CASE x # m
    BY <1>5, <1>6, <1>9, <2>1 DEF OrderInv, OlderIsSubmitted
  <2>2. CASE x = m
    <3>1. Known(k) /\ ~InHand(k)
      BY <1>2, <1>7, <2>2 DEF Before, DispatchInv, OlderIsKnown, Known
    <3>2. inbox[k] \in Settled \/ Open(k)
      BY <3>1 DEF Known, Open, Settled, IInv, TypeOK, Statuses
    <3>3. inbox[k] \in Settled \/ AtWork(k)
      BY <1>2, <3>1, <3>2 DEF OrderInv, NothingIsForgotten
    <3>. QED
      BY <1>5, <1>9, <3>3
  <2>. QED
    BY <2>1, <2>2
<1>11. StartsInOrder'
  <2>. SUFFICES ASSUME NEW k \in Messages, NEW x \in Messages, Before(k, x), stage'[x] = "starting"
                PROVE  inbox'[k] \in Settled
    BY DEF StartsInOrder, Before, Settled
  <2>. QED
    BY <1>1, <1>9 DEF OrderInv, StartsInOrder
<1>. QED
  BY <1>8, <1>10, <1>11 DEF OrderInv

LEMMA CompleteOrder ==
  ASSUME IInv, DispatchInv, OrderInv, RowsStay, NEW m \in Messages, CompleteStop(m)
  PROVE  OrderInv'
<1>1. /\ poll = "completing" /\ IsNext(m) /\ Proceed(m) /\ UNCHANGED <<future, stage>>
      /\ inbox' = [inbox EXCEPT ![m] = "completed"]
  BY DEF CompleteStop, workers, scheduler
<1>2. /\ \A k \in Messages : InHand(k) /\ k # m => InHand(k)'
      /\ poll' = "polling" => todo' = {}
  BY <1>1, HandStays
<1>3. \A k \in Messages : Future(k)' = Future(k) /\ (AtWork(k)' <=> AtWork(k))
  BY <1>1 DEF Future, AtWork
<1>4. ASSUME NEW k \in Messages, Open(k)'
      PROVE  InHand(k)' \/ AtWork(k)'
  <2>1. k # m /\ Open(k)
    BY <1>1, <1>4 DEF Open, IInv, TypeOK
  <2>2. Alive
    BY <1>1 DEF Alive
  <2>. QED
    BY <1>2, <1>3, <2>1, <2>2 DEF OrderInv, NothingIsForgotten
<1>5. NothingIsForgotten'
  BY <1>2, <1>4 DEF NothingIsForgotten
<1>. QED
  BY <1>1, <1>3, <1>5, OrderKept

LEMMA StartOrder ==
  ASSUME IInv, DispatchInv, OrderInv, RowsStay, NEW m \in Messages, Start(m)
  PROVE  OrderInv'
<1>1. /\ Future(m) = "pending" /\ Future(m)' = "running" /\ OthersKeep(m)
      /\ \A k \in Messages : SessionOf[k] = SessionOf[m] =>
           /\ Future(k) # "running"
           /\ Future(k) = "pending" => Ticket(m) <= Ticket(k)
      /\ stage'[m] = "starting" /\ \A k \in Messages : k # m => stage'[k] = stage[k]
  BY StartEffect DEF DispatchInv
<1>2. UNCHANGED <<inbox, poll, position, upto, todo>>
  BY DEF Start, durable, poller
<1>3. \A k \in Messages : /\ InHand(k)' <=> InHand(k)
                          /\ AtWork(k) <=> AtWork(k)'
                          /\ Future(k) # "none" <=> Future(k)' # "none"
  <2>1. \A k \in Messages : k # m => Future(k)' = Future(k)
    BY <1>1 DEF OthersKeep, Future
  <2>2. \A k \in Messages : InHand(k)' <=> InHand(k)
    BY <1>2 DEF InHand, IsNext
  <2>. QED
    BY <1>1, <2>1, <2>2 DEF AtWork
<1>4. NothingIsForgotten' /\ OlderIsSubmitted'
  BY <1>2, <1>3 DEF OrderInv, NothingIsForgotten, OlderIsSubmitted, Alive, Open, Before
<1>5. StartsInOrder'
  <2>. SUFFICES ASSUME NEW k \in Messages, NEW x \in Messages, Before(k, x), stage'[x] = "starting"
                PROVE  inbox[k] \in Settled
    BY <1>2 DEF StartsInOrder, Before, Settled
  <2>1. CASE x # m
    BY <1>1, <2>1 DEF OrderInv, StartsInOrder
  <2>2. CASE x = m
    <3>1. Future(k) # "pending"
      <4>1. Future(k) # "none" => Ticket(k) < Ticket(m)
        BY <1>1, <2>2 DEF Before, DispatchInv, TicketsInOrder
      <4>2. Ticket(k) \in Nat /\ Ticket(m) \in Nat
        BY OfMessages DEF DispatchInv, SerialType, Ticket
      <4>. QED
        BY <1>1, <2>2, <4>1, <4>2 DEF Before
    <3>2. ~AtWork(k)
      BY <1>1, <2>2, <3>1 DEF Before, AtWork
    <3>. QED
      BY <1>1, <2>2, <3>2 DEF OrderInv, OlderIsSubmitted
  <2>. QED
    BY <2>1, <2>2
<1>. QED
  BY <1>4, <1>5 DEF OrderInv

\* The worker of one message goes on with it, or settles it.
LEMMA WorkerOrder ==
  ASSUME IInv, DispatchInv, OrderInv, RowsStay, NEW m \in Messages,
         UNCHANGED poller, OthersKeep(m), AtWork(m), Future(m)' # "none",
         \A k \in Messages : k # m => inbox'[k] = inbox[k] /\ stage'[k] = stage[k],
         stage'[m] # "starting", AtWork(m)' \/ inbox'[m] \in Settled
  PROVE  OrderInv'
<1>1. UNCHANGED <<poll, position, upto, todo>>
  BY DEF poller
<1>2. \A k \in Messages : k # m => Future(k)' = Future(k) /\ (AtWork(k)' <=> AtWork(k))
  BY DEF OthersKeep, Future, AtWork
<1>3. ASSUME NEW k \in Messages, Alive, Open(k)'
      PROVE  InHand(k)' \/ AtWork(k)'
  <2>1. InHand(k)' <=> InHand(k)
    BY <1>1 DEF InHand, IsNext
  <2>2. CASE k = m
    BY <1>3, <2>2 DEF Open, Settled
  <2>3. CASE k # m
    BY <1>2, <1>3, <2>1, <2>3 DEF Open, OrderInv, NothingIsForgotten
  <2>. QED
    BY <2>2, <2>3
<1>4. NothingIsForgotten'
  BY <1>1, <1>3 DEF OrderInv, NothingIsForgotten, Alive
<1>5. Future(m) # "none"
  BY DEF AtWork
<1>. QED
  BY <1>2, <1>4, <1>5, OrderKept

LEMMA WorkOrder ==
  ASSUME IInv, DispatchInv, OrderInv, RowsStay, NEW m \in Messages, Work(m)
  PROVE  OrderInv'
<1>1. UNCHANGED poller /\ \A k \in Messages : k # m => inbox'[k] = inbox[k]
  BY DEF Work, Enter, TurnEnds, Reply, Complete, Fail, durable, IInv, TypeOK
<1>2. RowTells(m) /\ stage[m] # "none"
  BY DEF Work, Enter, TurnEnds, Reply, Complete, Fail, DispatchInv, RowTellsFuture
<1>3. Future(m) = "running" /\ AtWork(m)
  BY <1>2 DEF RowTells, AtWork
<1>4. CASE Complete(m) \/ Fail(m)
  <2>1. /\ Future(m)' \in {"finished", "failed"} /\ OthersKeep(m)
        /\ stage'[m] = "none" /\ \A k \in Messages : k # m => stage'[k] = stage[k]
    BY <1>3, <1>4, LeaveEffect DEF Complete, Fail, DispatchInv
  <2>2. inbox[m] = "running"
    BY <1>2, <1>4 DEF Complete, Fail, RowTells, InTurn
  <2>3. inbox'[m] \in Settled
    BY <1>4, <2>2 DEF Complete, Fail, Settled, IInv, TypeOK
  <2>. QED
    BY <1>1, <1>3, <2>1, <2>3, WorkerOrder
<1>5. CASE Enter(m) \/ TurnEnds(m) \/ Reply(m)
  <2>1. stage[m] = "starting" => inbox[m] = "received"
    BY <1>2 DEF RowTells
  <2>2. UNCHANGED future /\ stage'[m] # "starting" /\ \A k \in Messages : k # m => stage'[k] = stage[k]
    BY <1>5, <2>1 DEF Enter, TurnEnds, Reply, scheduler, IInv, TypeOK
  <2>3. OthersKeep(m) /\ AtWork(m)' /\ Future(m)' # "none"
    BY <1>3, <2>2 DEF OthersKeep, AtWork, Future
  <2>. QED
    BY <1>1, <1>3, <2>2, <2>3, WorkerOrder
<1>. QED
  BY <1>4, <1>5 DEF Work

LEMMA ProcessOrder ==
  ASSUME IInv, DispatchInv, OrderInv, RowsStay, DispatchInv', ~StoreMayFail,
         GiveUp \/ Ended \/ Restart
  PROVE  OrderInv'
<1>1. CASE GiveUp
  <2>1. /\ poll' = "abandoning" /\ Superseded /\ UNCHANGED <<todo, stage>>
    BY <1>1 DEF GiveUp, workers
  <2>2. \A k \in Messages : \/ Future(k)' = Future(k)
                            \/ Future(k) = "pending" /\ Future(k)' = "cancelled"
    BY <1>1, GiveUpEffect DEF DispatchInv
  <2>3. \A k \in Messages : inbox[k] = "received" /\ Future(k) = "pending"
                              /\ Future(k)' = "cancelled" => inbox'[k] = "superseded"
    BY <2>1, SupersededRows DEF DispatchInv
  <2>4. \A k \in Messages : Future(k) = "pending" => inbox[k] = "received"
    BY DEF DispatchInv, RowTellsFuture, RowTells
  <2>5. \A k \in Messages : AtWork(k) => AtWork(k)' \/ inbox'[k] \in Settled
    BY <2>2, <2>3, <2>4 DEF AtWork, Settled
  <2>6. NothingIsForgotten'
    BY <2>1 DEF NothingIsForgotten, Alive
  <2>. QED
    BY <2>1, <2>2, <2>5, <2>6, OrderKept
<1>2. CASE Ended \/ Restart
  <2>1. \A k \in Messages : Future(k)' = "none" /\ stage'[k] = "none"
    <3>1. CASE Ended
      <4>1. poll' = "down"
        BY <3>1 DEF Ended
      <4>2. \A k \in Messages : Future(k)' = "none"
        BY <4>1 DEF DispatchInv, DownIsIdle
      <4>. QED
        BY <3>1, <4>2 DEF Ended
    <3>2. CASE Restart
      <4>1. poll = "down" /\ UNCHANGED <<future, stage>>
        BY <3>2 DEF Restart, workers, scheduler
      <4>2. \A k \in Messages : Future(k) = "none"
        BY <4>1 DEF DispatchInv, DownIsIdle
      <4>3. \A k \in Messages : stage[k] = "none"
        BY <4>2 DEF DispatchInv, RowTellsFuture, RowTells
      <4>4. \A k \in Messages : Future(k)' = Future(k)
        BY <4>1 DEF Future
      <4>. QED
        BY <4>1, <4>2, <4>3, <4>4
    <3>. QED
      BY <1>2, <3>1, <3>2
  <2>2. NothingIsForgotten'
    <3>1. CASE Ended
      BY <3>1 DEF Ended, NothingIsForgotten, Alive
    <3>2. CASE Restart
      <4>1. /\ upto' = position' /\ todo' = {k \in Messages : inbox'[k] = "received"}
            /\ poll' = "polling" => todo' = {}
        BY <3>2 DEF Restart, IInv, DownIsReset
      <4>2. \A k \in Messages : inbox'[k] # "running"
        BY <3>2 DEF Restart, Interrupted
      <4>. QED
        BY <4>1, <4>2 DEF NothingIsForgotten, Open, InHand
    <3>. QED
      BY <1>2, <3>1, <3>2
  <2>3. \A k \in Messages : inbox[k] \in Settled => inbox'[k] \in Settled
    BY DEF RowsStay
  <2>. QED
    BY <2>1, <2>2 DEF OrderInv, OlderIsSubmitted, StartsInOrder
<1>. QED
  BY <1>1, <1>2

LEMMA StepOrder ==
  ASSUME IInv, DispatchInv, OrderInv, ~StoreMayFail, [Next]_vars
  PROVE  OrderInv'
<1>1. DispatchInv' /\ RowsStay
  BY StepDispatch
<1>2. ASSUME NEW m \in Messages, Handle(m) PROVE OrderInv'
  BY <1>1, <1>2, ThreadOrder, AcceptOrder, SubmitOrder, CompleteOrder DEF Handle
<1>3. ASSUME NEW m \in Messages, Start(m) \/ Work(m) \/ Raise(m) PROVE OrderInv'
  BY <1>1, <1>3, StartOrder, WorkOrder DEF Raise, AcceptRaises, StopRaises, Abandon, WorkerRaises
<1>4. CASE Fetch \/ Truncate \/ Write \/ Advance \/ Interrupt \/ ShutDown
  BY <1>1, <1>4, ThreadOrder
<1>5. CASE GiveUp \/ Drained \/ Joined \/ Crash \/ Restart
  BY <1>1, <1>5, ProcessOrder DEF Drained, Joined, Crash
<1>6. CASE UNCHANGED vars
  <2>1. UNCHANGED <<inbox, future>> /\ UNCHANGED stage /\ UNCHANGED <<poll, position, upto, todo>>
    BY <1>6 DEF vars, durable, poller, workers, scheduler
  <2>2. /\ Alive' => Alive /\ \A k \in Messages : InHand(k) => InHand(k)'
        /\ poll' = "polling" => todo' = {}
    BY <2>1 DEF InHand, IsNext, Alive, OrderInv, NothingIsForgotten
  <2>. QED
    BY <1>1, <2>1, <2>2, OrderUntouched
<1>. QED
  BY <1>2, <1>3, <1>4, <1>5, <1>6 DEF Next, Poll, Closing

LEMMA TurnsInOrder ==
  ASSUME IInv, OrderInv, [Next]_vars, NEW m \in Messages, turns'[m] # turns[m]
  PROVE  \A k \in Messages : k < m /\ SessionOf[k] = SessionOf[m] => inbox[k] \in Settled
<1>1. stage[m] = "starting"
  <2>1. CASE \E k \in Messages : Enter(k)
    <3>1. PICK k \in Messages : Enter(k)
      BY <2>1
    <3>2. stage[k] = "starting" /\ (turns' = turns \/ turns' = [turns EXCEPT ![k] = @ + 1])
      BY <3>1 DEF Enter
    <3>3. k = m
      BY <3>2 DEF IInv, TypeOK
    <3>. QED
      BY <3>2, <3>3
  <2>2. CASE ~\E k \in Messages : Enter(k)
    <3>1. UNCHANGED turns
      BY <2>2 DEF Next, Poll, Fetch, Handle, Accept, Look, Steer, Submit, Stop, AnswerStop,
         CompleteStop, Truncate, Write, Advance, Start, Work, TurnEnds, Reply, Complete, Fail,
         Raise, AcceptRaises, StopRaises, WorkerRaises, Interrupt, Closing, Drained, GiveUp,
         ShutDown, Joined, Crash, Ended, Restart, vars, history
    <3>. QED
      BY <3>1
  <2>. QED
    BY <2>1, <2>2
<1>. QED
  BY <1>1 DEF OrderInv, StartsInOrder, Before

LEMMA OrderInvariant == ASSUME ~StoreMayFail PROVE Spec => [](IInv /\ DispatchInv /\ OrderInv)
<1>1. IInv /\ DispatchInv /\ OrderInv /\ [Next]_vars => OrderInv'
  BY StepOrder
<1>. QED
  BY InitOrder, <1>1, DispatchInvariant, PTL DEF Spec

\* If no transaction raises, a turn begins when every earlier message of its
\* conversation is settled, whatever crashes, closes that time out, redeliveries
\* and steering came in between (local.py, poll_once and _dispatch_message;
\* session_scheduler.py, submit).
THEOREM TurnsFollowTheConversation ==
  ASSUME ~StoreMayFail PROVE Spec => ConversationOrder
<1>1. IInv /\ OrderInv /\ [Next]_vars =>
        [\A m \in Messages : turns'[m] # turns[m] =>
           \A k \in Messages : k < m /\ SessionOf[k] = SessionOf[m] => inbox[k] \in Settled]_vars
  BY TurnsInOrder
<1>. QED
  BY <1>1, OrderInvariant, PTL DEF Spec, ConversationOrder

-----------------------------------------------------------------------------
(* Who stays without an answer has a newer message, if nothing raises and a close *)
(* waits for its turns. *)

Newer(m) ==
  \E n \in Messages \ Stops : n > m /\ SessionOf[n] = SessionOf[m] /\ inbox[n] # "absent"

\* Everything that takes an answer away from a message, from the cancellation of
\* its turn to its row.
Silenced(m) ==
  reason[m] = "user_steer" \/ stage[m] = "failing" \/ inbox[m] \in {"failed", "superseded"}

SteersFromText ==
  poll \in {"steering", "submitting"} => \A n \in Messages : IsNext(n) => n \notin Stops

SilenceInv == SteersFromText /\ \A m \in Messages : Silenced(m) => Newer(m)

LEMMA InitSilence == Init => SilenceInv
  BY DEF Init, SilenceInv, SteersFromText, Silenced

LEMMA RowsRemain ==
  ASSUME IInv, [Next]_vars
  PROVE  \A k \in Messages : inbox[k] # "absent" => inbox'[k] # "absent"
<1>1. ASSUME NEW m \in Messages, Start(m) \/ Work(m) \/ WorkerRaises(m)
      PROVE  \A k \in Messages : inbox[k] # "absent" => inbox'[k] # "absent"
  BY <1>1 DEF Start, Work, Enter, TurnEnds, Reply, Complete, Fail, WorkerRaises, durable, IInv,
              TypeOK
<1>2. CASE Poll \/ \E m \in Messages : AcceptRaises(m) \/ StopRaises(m)
  BY <1>2, PollRows DEF Poll, Known
<1>3. CASE GiveUp
  <2>1. \A k \in Messages : inbox'[k] = inbox[k] \/ inbox'[k] = "superseded"
    BY <1>3 DEF GiveUp, Superseded
  <2>. QED
    BY <2>1
<1>4. CASE Restart
  BY <1>4 DEF Restart
<1>5. CASE Interrupt \/ ShutDown \/ Ended \/ UNCHANGED vars
  BY <1>5 DEF Interrupt, ShutDown, Ended, vars, durable
<1>. QED
  BY <1>1, <1>2, <1>3, <1>4, <1>5 DEF Next, Raise, Closing, Drained, Joined, Crash

LEMMA SilenceKept ==
  ASSUME IInv, SilenceInv, [Next]_vars, SteersFromText',
         \A m \in Messages : Silenced(m)' => Silenced(m) \/ Newer(m)
  PROVE  SilenceInv'
<1>1. \A m \in Messages : Newer(m) => Newer(m)'
  BY RowsRemain DEF Newer
<1>. QED
  BY <1>1 DEF SilenceInv

LEMMA SubmitSilence ==
  ASSUME IInv, DispatchInv, SilenceInv, [Next]_vars, NEW m \in Messages, Submit(m)
  PROVE  SilenceInv'
<1>1. /\ poll = "submitting" /\ IsNext(m) /\ Superseded /\ Proceed(m)
      /\ UNCHANGED <<reason, stage>>
  BY DEF Submit, workers
<1>2. InHand(m) /\ Future(m) = "none" /\ inbox[m] = "received" /\ m \notin Stops
  BY <1>1 DEF InHand, Handling, DispatchInv, RowTellsFuture, RowTells, SilenceInv, SteersFromText
<1>3. \A k \in Messages : k # m => \/ Future(k)' = Future(k)
                                   \/ SessionOf[k] = SessionOf[m]
  BY <1>2, SubmitEffect DEF DispatchInv
<1>4. \A k \in Messages :
        \/ inbox'[k] = inbox[k]
        \/ Future(k) = "pending" /\ Future(k)' = "cancelled"
  BY <1>1, SupersededRows DEF DispatchInv
<1>5. ASSUME NEW k \in Messages, Silenced(k)', ~Silenced(k)
      PROVE  Newer(k)
  <2>1. Future(k) = "pending" /\ Future(k)' = "cancelled"
    BY <1>1, <1>4, <1>5 DEF Silenced
  <2>2. k # m /\ SessionOf[m] = SessionOf[k]
    BY <1>2, <1>3, <2>1
  <2>3. m > k
    BY <1>2, <2>1, OfMessages DEF DispatchInv, HandIsNewest
  <2>. QED
    BY <1>2, <2>2, <2>3 DEF Newer
<1>6. SteersFromText'
  BY <1>1 DEF SteersFromText, Proceed
<1>. QED
  BY <1>5, <1>6, SilenceKept

LEMMA SteerSilence ==
  ASSUME IInv, DispatchInv, SilenceInv, [Next]_vars, NEW m \in Messages, Steer(m)
  PROVE  SilenceInv'
<1>1. /\ poll = "steering" /\ poll' = "submitting" /\ IsNext(m)
      /\ UNCHANGED <<inbox, stage, todo>> /\ reason' = Cancelled(SessionOf[m], "user_steer")
  BY DEF Steer, durable
<1>2. InHand(m) /\ inbox[m] = "received" /\ m \notin Stops
  BY <1>1 DEF InHand, Handling, DispatchInv, RowTellsFuture, RowTells, SilenceInv, SteersFromText
<1>3. ASSUME NEW k \in Messages, Silenced(k)', ~Silenced(k)
      PROVE  Newer(k)
  <2>1. stage[k] = "turn" /\ SessionOf[m] = SessionOf[k]
    BY <1>1, <1>3 DEF Silenced, Cancelled, ActiveTurns
  <2>2. Future(k) # "none"
    BY <2>1 DEF DispatchInv, RowTellsFuture, RowTells
  <2>3. m > k
    BY <1>2, <2>2, OfMessages DEF DispatchInv, HandIsNewest
  <2>. QED
    BY <1>2, <2>1, <2>3 DEF Newer
<1>4. SteersFromText'
  BY <1>1 DEF SilenceInv, SteersFromText, IsNext
<1>. QED
  BY <1>3, <1>4, SilenceKept

\* The thread takes an answer away in no other step.
LEMMA ThreadSilence ==
  ASSUME IInv, DispatchInv, SilenceInv, [Next]_vars, ~StoreMayFail, ~DrainMayTimeOut,
         \/ Fetch \/ Truncate \/ Write \/ Advance \/ Interrupt \/ Closing \/ Crash \/ Restart
         \/ \E m \in Messages : \/ Accept(m) \/ Look(m) \/ Stop(m) \/ AnswerStop(m)
                                \/ CompleteStop(m)
  PROVE  SilenceInv'
<1>1. /\ \A k \in Messages : inbox'[k] \in {"failed", "superseded"} => inbox'[k] = inbox[k]
      /\ \A k \in Messages : stage'[k] = "failing" => stage[k] = "failing"
  BY DEF Fetch, Truncate, Write, Advance, Interrupt, Closing, Drained, GiveUp, ShutDown, Joined,
     Crash, Ended, Restart, Accept, Look, Stop, AnswerStop, CompleteStop, durable, workers, IInv,
     TypeOK
<1>2. \A k \in Messages : reason'[k] = "user_steer" => reason[k] = "user_steer"
  BY DEF Fetch, Truncate, Write, Advance, Interrupt, Closing, Drained, GiveUp, ShutDown, Joined,
     Crash, Ended, Restart, Accept, Look, Stop, AnswerStop, CompleteStop, Cancelled, workers, IInv,
     TypeOK
<1>3. SteersFromText'
  <2>1. ASSUME NEW m \in Messages, Look(m) PROVE SteersFromText'
    <3>1. IsNext(m) /\ m \notin Stops /\ todo' = todo
      BY <2>1 DEF Look
    <3>2. todo \subseteq Messages /\ Messages \subseteq Nat
      BY OfMessages DEF IInv, TypeOK
    <3>. QED
      BY <3>1, <3>2 DEF SteersFromText, IsNext
  <2>2. CASE ~\E m \in Messages : Look(m)
    <3>1. poll' \notin {"steering", "submitting"}
      BY <2>2 DEF Fetch, Truncate, Write, Advance, Interrupt, Closing, Drained, GiveUp, ShutDown,
         Joined, Crash, Ended, Restart, Accept, Stop, AnswerStop, CompleteStop, Proceed
    <3>. QED
      BY <3>1 DEF SteersFromText
  <2>. QED
    BY <2>1, <2>2
<1>4. \A k \in Messages : Silenced(k)' => Silenced(k)
  BY <1>1, <1>2 DEF Silenced
<1>. QED
  BY <1>3, <1>4, SilenceKept

LEMMA WorkSilence ==
  ASSUME IInv, DispatchInv, SilenceInv, [Next]_vars, ~TurnMayRaise,
         NEW m \in Messages, Start(m) \/ Work(m)
  PROVE  SilenceInv'
<1>1. SteersFromText'
  BY DEF Start, Work, Enter, TurnEnds, Reply, Complete, Fail, poller, SilenceInv, SteersFromText,
     IsNext
<1>2. \A k \in Messages : reason'[k] = "user_steer" => reason[k] = "user_steer"
  BY DEF Start, Work, Enter, TurnEnds, Reply, Complete, Fail, WorkerLeaves, IInv, TypeOK
<1>3. \A k \in Messages : inbox'[k] \in {"failed", "superseded"} =>
                            inbox'[k] = inbox[k] \/ stage[k] = "failing"
  BY DEF Start, Work, Enter, TurnEnds, Reply, Complete, Fail, durable, IInv, TypeOK
<1>4. \A k \in Messages : stage'[k] = "failing" => stage[k] = "failing" \/ reason[k] = "user_steer"
  BY DEF Start, Work, Enter, TurnEnds, Reply, Complete, Fail, WorkerLeaves, IInv, TypeOK
<1>5. \A k \in Messages : Silenced(k)' => Silenced(k)
  BY <1>2, <1>3, <1>4 DEF Silenced
<1>. QED
  BY <1>1, <1>5, SilenceKept

\* If nothing raises and a close waits for its turns, a message stays without an
\* answer only because a later text of the same conversation took its place:
\* neither a crash nor a steering that races the end of a turn silences the last
\* word of a conversation (local.py, _dispatch_message and _handle_message).
THEOREM TheLastWordIsAnswered ==
  ASSUME ~StoreMayFail, ~TurnMayRaise, ~DrainMayTimeOut PROVE Spec => []SilencedByNewer
<1>1. IInv /\ DispatchInv /\ SilenceInv /\ [Next]_vars => SilenceInv'
  <2>. SUFFICES ASSUME IInv, DispatchInv, SilenceInv, [Next]_vars
                PROVE  SilenceInv'
    OBVIOUS
  <2>1. ASSUME NEW m \in Messages, Handle(m) PROVE SilenceInv'
    BY <2>1, SubmitSilence, SteerSilence, ThreadSilence DEF Handle
  <2>2. CASE \/ Fetch \/ Truncate \/ Write \/ Advance \/ Interrupt \/ Closing \/ Crash \/ Restart
    BY <2>2, ThreadSilence
  <2>3. ASSUME NEW m \in Messages, Start(m) \/ Work(m) \/ Raise(m) PROVE SilenceInv'
    BY <2>3, WorkSilence DEF Raise, AcceptRaises, StopRaises, Abandon, WorkerRaises
  <2>4. CASE UNCHANGED vars
    BY <2>4 DEF vars, durable, poller, workers, SilenceInv, SteersFromText, Silenced, Newer, IsNext
  <2>. QED
    BY <2>1, <2>2, <2>3, <2>4 DEF Next, Poll
<1>2. SilenceInv => SilencedByNewer
  BY DEF SilenceInv, Silenced, Newer, SilencedByNewer
<1>. QED
  BY InitSilence, <1>1, <1>2, DispatchInvariant, PTL DEF Spec
=============================================================================
