--------------------------- MODULE WeixinProgress ---------------------------
(***************************************************************************)
(* What a Weixin user is shown of a turn: _WeixinUiEventSink of            *)
(* gateway/weixin/local.py.  Events come from the thread of the turn and   *)
(* from the output of its tools; one thread sends what they say; the turn  *)
(* waits for it before it sends the reply.  No event is published twice,   *)
(* so the ids that were seen are left out.                                 *)
(***************************************************************************)
EXTENDS Naturals, Sequences, SequencesExt

CONSTANTS
  ShownItems,     \* the steps of the turn that events are about
  MaxDetails,     \* bound on the lines of output of the turn
  KeptDetails     \* how many lines an item keeps for its next message: 8

ASSUME ProgressAssumption == MaxDetails \in Nat /\ KeptDetails \in Nat \ {0}

VARIABLES
  sink,        \* the turn: it works, close() waits, the reply is sent
  toSend,      \* what the executor's thread has still to send
  inFlight,    \* what it is sending
  sentTo,      \* history: what the user got, in order
  unsent,      \* _pending_progress
  recent,      \* the items of which a message went out within the interval
  begunItems,  \* history: the items that have begun
  endedItems,  \* history: those that have ended
  details      \* history: how many lines of output there were

progressVars == <<sink, toSend, inFlight, sentTo, unsent, recent, begunItems, endedItems, details>>

Notice(item, what, lines) == [item |-> item, what |-> what, lines |-> lines]
Notices == [item : ShownItems \cup {"turn"}, what : {"started", "progress", "failed", "reply"},
            lines : Seq(1..MaxDetails)]

ProgressTypeOK ==
  /\ sink \in {"open", "closing", "replied"}
  /\ toSend \in Seq(Notices) /\ inFlight \in Seq(Notices) /\ sentTo \in Seq(Notices)
  /\ unsent \in [ShownItems -> Seq(1..MaxDetails)]
  /\ recent \subseteq ShownItems /\ begunItems \subseteq ShownItems
  /\ endedItems \subseteq begunItems /\ details \in 0..MaxDetails

ProgressInit ==
  /\ sink = "open" /\ toSend = <<>> /\ inFlight = <<>> /\ sentTo = <<>>
  /\ unsent = [i \in ShownItems |-> <<>>] /\ recent = {} /\ begunItems = {}
  /\ endedItems = {} /\ details = 0

-----------------------------------------------------------------------------
\* _submit(): an executor that is shut down raises, and the publisher goes on.
SubmitNotice(notice) == toSend' = IF sink = "open" THEN Append(toSend, notice) ELSE toSend

StartItem(i) ==
  /\ sink = "open" /\ i \notin begunItems /\ begunItems' = begunItems \cup {i}
  /\ recent' = recent \cup {i} /\ SubmitNotice(Notice(i, "started", <<>>))
  /\ UNCHANGED <<sink, inFlight, sentTo, unsent, endedItems, details>>

\* Mutant of Left, which violates GatewayIsHonest.
LeftAll(i) == unsent

\* What goes out is no longer pending.
Left(i) == [unsent EXCEPT ![i] = <<>>]

\* A line of output, also after the item's end or while close() waits: it waits
\* for the interval, with the last ones before it.  What comes after the reply is
\* refused by the executor in the same way.
ShowProgress(i) ==
  LET n == details + 1
      lines == Append(unsent[i], n)
      kept == SubSeq(lines, 1 + (IF Len(lines) > KeptDetails THEN Len(lines) - KeptDetails ELSE 0),
                     Len(lines)) IN
  /\ sink # "replied" /\ i \in begunItems /\ details < MaxDetails /\ details' = n
  /\ IF i \in recent
     THEN unsent' = [unsent EXCEPT ![i] = kept] /\ UNCHANGED <<toSend, recent>>
     ELSE /\ SubmitNotice(Notice(i, "progress", kept))
          /\ unsent' = Left(i) /\ recent' = recent \cup {i}
  /\ UNCHANGED <<sink, inFlight, sentTo, begunItems, endedItems>>

IntervalPasses(i) ==
  /\ sink # "replied" /\ i \in recent /\ recent' = recent \ {i}
  /\ UNCHANGED <<sink, toSend, inFlight, sentTo, unsent, begunItems, endedItems, details>>

\* Of an item that has ended only a failure is told.
EndItem(i, failed) ==
  /\ sink = "open" /\ i \in begunItems \ endedItems /\ endedItems' = endedItems \cup {i}
  /\ unsent' = Left(i) /\ recent' = recent \ {i}
  /\ IF failed THEN SubmitNotice(Notice(i, "failed", <<>>)) ELSE UNCHANGED toSend
  /\ UNCHANGED <<sink, inFlight, sentTo, begunItems, details>>

\* The executor's thread, whose send may fail.
TakeNotice ==
  /\ inFlight = <<>> /\ toSend # <<>>
  /\ inFlight' = <<Head(toSend)>> /\ toSend' = Tail(toSend)
  /\ UNCHANGED <<sink, sentTo, unsent, recent, begunItems, endedItems, details>>
SendNotice ==
  /\ inFlight # <<>> /\ inFlight' = <<>>
  /\ sentTo' \in {sentTo, sentTo \o inFlight}
  /\ UNCHANGED <<sink, toSend, unsent, recent, begunItems, endedItems, details>>

CloseSink ==
  /\ sink = "open" /\ sink' = "closing"
  /\ UNCHANGED <<toSend, inFlight, sentTo, unsent, recent, begunItems, endedItems, details>>

\* Mutant of MayReply, which violates GatewayIsHonest.
MayReplyAtOnce == sink = "closing"

\* shutdown(wait=True)
MayReply == sink = "closing" /\ toSend = <<>> /\ inFlight = <<>>

SendReply ==
  /\ MayReply /\ sink' = "replied"
  /\ sentTo' = Append(sentTo, Notice("turn", "reply", <<>>))
  /\ UNCHANGED <<toSend, inFlight, unsent, recent, begunItems, endedItems, details>>

ProgressNext ==
  \/ \E i \in ShownItems : StartItem(i) \/ ShowProgress(i) \/ IntervalPasses(i)
  \/ \E i \in ShownItems, failed \in BOOLEAN : EndItem(i, failed)
  \/ TakeNotice \/ SendNotice \/ CloseSink \/ SendReply

ProgressSpec == ProgressInit /\ [][ProgressNext]_progressVars

-----------------------------------------------------------------------------
\* The reply is the last thing that a user gets of a turn, and the output of an item
\* comes in the order of its lines, each at most once, whatever sends fail.
ProgressPrecedesReply ==
  /\ \A k \in DOMAIN sentTo : sentTo[k].what = "reply" => k = Len(sentTo)
  /\ \A k, l \in DOMAIN sentTo : k <= l /\ sentTo[k].item = sentTo[l].item =>
       \A m \in DOMAIN sentTo[k].lines, n \in DOMAIN sentTo[l].lines :
         k < l \/ m < n => sentTo[k].lines[m] < sentTo[l].lines[n]
=============================================================================
