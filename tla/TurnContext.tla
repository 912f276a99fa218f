---------------------------- MODULE TurnContext ----------------------------
(***************************************************************************)
(* The messages of a session and what of them a request to the model has:  *)
(* the steps of a turn (runtime/agent/loop.py, engine.py) append messages, *)
(* and runtime/agent/context.py builds each request of them, with a summary*)
(* in the place of what does not fit.  A message has a size; that of the   *)
(* run's own system messages is left out, and so is the head of system     *)
(* messages that older sessions have.                                      *)
(***************************************************************************)
EXTENDS Naturals, Sequences, FiniteSets, SequencesExt, FiniteSetsExt

CONSTANTS
  MaxMessages,    \* bound on the messages of the session
  Sizes,          \* tokens of a message
  ContextCalls,   \* ids of tool calls; another response may use them again
  Threshold, InputLimit, TailBudget, ProtectFirst,  \* of the ContextEngine
  SummarySize

ASSUME ContextAssumption ==
  /\ MaxMessages \in Nat /\ Sizes \subseteq Nat \ {0} /\ Sizes # {}
  /\ ContextCalls \subseteq Nat \ {0} /\ IsFiniteSet(ContextCalls)
  /\ Threshold \in Nat /\ InputLimit \in Nat /\ TailBudget \in Nat /\ ProtectFirst \in Nat
  /\ SummarySize \in Nat

VARIABLES
  transcript,   \* the messages of the session
  turnAt,       \* where the turn is
  unanswered,   \* the call whose interaction is pending, as a set
  covering,     \* the compaction checkpoint
  modelRequest  \* the messages of the last request

contextVars == <<transcript, turnAt, unanswered, covering, modelRequest>>

SaidMessages == [role : {"user", "runtime", "assistant", "tool"}, calls : SUBSET ContextCalls,
                 reply : ContextCalls \cup {0}, size : Sizes]
Spoken(role, size) == [role |-> role, calls |-> {}, reply |-> 0, size |-> size]
Reply(call, size) == [role |-> "tool", calls |-> {}, reply |-> call, size |-> size]
NoCover == [covered |-> 0, head |-> 0]

\* A request holds messages by their places, summaries of some, and stubs.
Kept(i) == [kind |-> "said", of |-> {i}, reply |-> transcript[i].reply]
Summary(of) == [kind |-> "summary", of |-> of, reply |-> 0]
Stub(call) == [kind |-> "stub", of |-> {}, reply |-> call]
Whole == [i \in 1..Len(transcript) |-> Kept(i)]

ContextTypeOK ==
  /\ transcript \in Seq(SaidMessages) /\ Len(transcript) <= MaxMessages + 2
  /\ turnAt \in {"idle", "build", "model", "tools", "last_build", "last_model"}
  /\ unanswered \subseteq ContextCalls
  /\ covering \in [covered : 0..Len(transcript), head : 0..Len(transcript)]
  /\ \A n \in DOMAIN modelRequest : modelRequest[n].of \subseteq 1..Len(transcript)

ContextInit ==
  /\ transcript = <<>> /\ turnAt = "idle" /\ unanswered = {} /\ covering = NoCover
  /\ modelRequest = <<>>

-----------------------------------------------------------------------------
(* ContextEngine *)

PlaceIn(item) == CHOOSE i \in item.of : TRUE
SizeOf(items) ==
  FoldSeq(LAMBDA m, sum : sum + (IF m.kind = "said" THEN transcript[PlaceIn(m)].size
                                 ELSE SummarySize), 0, items)
CallsOf(item) == IF item.kind = "said" THEN transcript[PlaceIn(item)].calls ELSE {}
IsTool(item) == item.reply # 0

\* The calls of a message, in their order.
CallsInOrder(calls) ==
  CHOOSE s \in [1..Cardinality(calls) -> calls] :
    \A i, j \in 1..Cardinality(calls) : i < j => s[i] < s[j]

Replies(calls, size) ==
  LET done == CallsInOrder(calls) IN [n \in 1..Len(done) |-> Reply(done[n], size)]

\* _sanitize_tool_pairs(): each call is followed by its result or by a stub, and
\* a result of no such call is left out.
Stubs(calls) == [n \in 1..Cardinality(calls) |-> Stub(CallsInOrder(calls)[n])]
Pair(work, m) ==
  IF ~IsTool(m) THEN [out |-> work.out \o Stubs(work.open) \o <<m>>, open |-> CallsOf(m)]
  ELSE IF m.reply \in work.open
  THEN [out |-> Append(work.out, m), open |-> work.open \ {m.reply}]
  ELSE work
PairedUp(items) ==
  LET work[n \in 0..Len(items)] ==
        IF n = 0 THEN [out |-> <<>>, open |-> {}] ELSE Pair(work[n - 1], items[n])
  IN work[Len(items)]
SanitizeToolPairs(items) == PairedUp(items).out \o Stubs(PairedUp(items).open)

Compacted(head, covered) ==
  SubSeq(Whole, 1, head) \o <<Summary(head + 1..covered)>>
    \o SubSeq(Whole, covered + 1, Len(transcript))

\* _protect_head_end() and _align_start_forward(); places count from 0.
IsToolAt(i) == transcript[i + 1].role = "tool"
CompressStart ==
  LET first == IF Len(transcript) < ProtectFirst THEN Len(transcript) ELSE ProtectFirst IN
  Min({i \in first..Len(transcript) : i = Len(transcript) \/ ~IsToolAt(i)})

LatestUser(start) == {i \in start..Len(transcript) - 1 :
  /\ transcript[i + 1].role = "user"
  /\ \A j \in i + 1..Len(transcript) - 1 : transcript[j + 1].role # "user"}

\* Mutant of AlignTailBackward, which violates RequestIsWhole.
KeepTailAt(i, start) == i

\* _align_tail_backward(): not between a call and its results.
AlignTailBackward(i, start) ==
  IF i <= start \/ i >= Len(transcript) THEN i
  ELSE LET scan == Max({start} \cup {j \in start..i : ~IsToolAt(j)}) IN
       IF transcript[scan + 1].calls # {} THEN scan ELSE i

\* _find_tail_start(): the last message, those before it that fit, and the
\* latest message of the user.
FindTailStart(start) ==
  LET sizeFrom(i) == SizeOf(SubSeq(Whole, i + 1, Len(transcript)))
      fits == {i \in start..Len(transcript) - 1 :
                 i = Len(transcript) - 1 \/ sizeFrom(i) <= TailBudget}
      tail == Min(fits \cup {Len(transcript)})
      user == LatestUser(start) IN
  AlignTailBackward(Min({tail} \cup user), start)

\* build(): the request, its checkpoint, and whether the summarizer was asked.
Reused == Compacted(covering.head, covering.covered)
Build ==
  LET start == CompressStart  tail == FindTailStart(start) IN
  IF covering # NoCover /\ SizeOf(SanitizeToolPairs(Reused)) <= Threshold
  THEN [messages |-> SanitizeToolPairs(Reused), cover |-> covering, asks |-> FALSE]
  ELSE IF SizeOf(Whole) <= Threshold \/ start >= tail
  THEN [messages |-> SanitizeToolPairs(Whole), cover |-> covering, asks |-> FALSE]
  ELSE [messages |-> SanitizeToolPairs(Compacted(start, tail)),
        cover |-> [covered |-> tail, head |-> start], asks |-> TRUE]

-----------------------------------------------------------------------------
(* The turn *)

Say(m) == transcript' = Append(transcript, m)

\* A new turn; one that waits for an answer is superseded.
UserMessage ==
  /\ turnAt = "idle" /\ Len(transcript) < MaxMessages
  /\ \E size \in Sizes : Say(Spoken("user", size))
  /\ turnAt' = "build" /\ unanswered' = {}
  /\ UNCHANGED <<covering, modelRequest>>

\* The turn of a pending interaction goes on with the result of its call.
ResumeTurn ==
  /\ turnAt = "idle" /\ unanswered # {} /\ Len(transcript) < MaxMessages
  /\ \E size \in Sizes, call \in unanswered : Say(Reply(call, size))
  /\ turnAt' = "build" /\ unanswered' = {}
  /\ UNCHANGED <<covering, modelRequest>>

\* inject_background_notifications()
Notify ==
  /\ turnAt \in {"build", "last_build"} /\ Len(transcript) < MaxMessages
  /\ \E size \in Sizes : Say(Spoken("runtime", size))
  /\ UNCHANGED <<turnAt, unanswered, covering, modelRequest>>

\* _prepare_turn_step(): the summarizer may fail, and then the request is not
\* made if the whole is too large.
PrepareStep ==
  /\ turnAt \in {"build", "last_build"}
  /\ \/ /\ modelRequest' = Build.messages /\ covering' = Build.cover
        /\ turnAt' = IF turnAt = "build" THEN "model" ELSE "last_model"
        /\ UNCHANGED transcript
     \/ /\ Build.asks /\ UNCHANGED covering
        /\ modelRequest' = SanitizeToolPairs(Whole)
        /\ IF SizeOf(modelRequest') < InputLimit
           THEN turnAt' = (IF turnAt = "build" THEN "model" ELSE "last_model")
                /\ UNCHANGED transcript
           ELSE turnAt' = "idle" /\ Say(Spoken("assistant", Min(Sizes)))
  /\ UNCHANGED unanswered

\* The model answers: the turn ends, or the stop hook asks for more.
ModelSays ==
  /\ turnAt \in {"model", "last_model"}
  /\ \E more \in IF turnAt = "model" /\ Len(transcript) < MaxMessages THEN BOOLEAN ELSE {FALSE} :
       /\ transcript' = Append(transcript, Spoken("assistant", Min(Sizes)))
                  \o IF more THEN <<Spoken("user", Min(Sizes))>> ELSE <<>>
       /\ turnAt' = IF more THEN "build" ELSE "idle"
  /\ UNCHANGED <<unanswered, covering, modelRequest>>

\* The last request has no tools; a model that calls one anyway is not heard.
ModelCalls ==
  /\ turnAt \in {"model", "last_model"} /\ Len(transcript) < MaxMessages
  /\ \E calls \in (SUBSET ContextCalls) \ {{}} :
       transcript' = Append(transcript, [Spoken("assistant", Min(Sizes)) EXCEPT !.calls = calls])
               \o IF turnAt = "model" THEN <<>> ELSE <<Spoken("assistant", Min(Sizes))>>
  /\ turnAt' = IF turnAt = "model" THEN "tools" ELSE "idle"
  /\ UNCHANGED <<unanswered, covering, modelRequest>>

\* _execute_turn_tools(): the results in the order of the calls, without that of
\* a call that waits; after the last step a summary is asked for.
RecordResults ==
  /\ turnAt = "tools"
  /\ LET calls == transcript[Len(transcript)].calls IN
     \E size \in Sizes, waits \in {{}} \cup {{c} : c \in calls}, exhausted \in BOOLEAN :
       LET results == Replies(calls \ waits, size) IN
       /\ Len(transcript) + Len(results) <= MaxMessages
       /\ exhausted => waits = {} /\ Len(transcript) + Len(results) < MaxMessages
       /\ transcript' = transcript \o results
                          \o IF exhausted THEN <<Spoken("user", Min(Sizes))>> ELSE <<>>
       /\ unanswered' = waits
       /\ turnAt' = IF waits # {} THEN "idle" ELSE IF exhausted THEN "last_build" ELSE "build"
  /\ UNCHANGED <<covering, modelRequest>>

\* The model fails, or the turn is cancelled: either is said.
EndTurn ==
  /\ turnAt # "idle" /\ Len(transcript) < MaxMessages
  /\ Say(Spoken("assistant", Min(Sizes)))
  /\ turnAt' = "idle" /\ UNCHANGED <<unanswered, covering, modelRequest>>

\* The turn is superseded by a steer, or its process dies, in the results too.
BreakOff ==
  /\ turnAt # "idle" /\ turnAt' = "idle"
  /\ \/ UNCHANGED transcript
     \/ turnAt = "tools" /\ Len(transcript) < MaxMessages
        /\ \E size \in Sizes : Say(Reply(Min(transcript[Len(transcript)].calls), size))
  /\ UNCHANGED <<unanswered, covering, modelRequest>>

ContextNext ==
  \/ UserMessage \/ ResumeTurn \/ Notify \/ PrepareStep \/ ModelSays \/ ModelCalls
  \/ RecordResults \/ EndTurn \/ BreakOff

ContextSpec == ContextInit /\ [][ContextNext]_contextVars

-----------------------------------------------------------------------------
(* Properties *)

\* The results that the calls right before them asked for.
AnsweredTools(items) ==
  {n \in DOMAIN items : IsTool(items[n]) /\ \E m \in 1..n - 1 :
     items[n].reply \in CallsOf(items[m]) /\ \A k \in m + 1..n : IsTool(items[k])}
Held(request) == UNION {request[n].of : n \in DOMAIN request}

\* The results of a call among those right after the message that makes it.
ToolResults(items, n, call) ==
  {m \in n + 1..Len(items) : /\ items[m].reply = call
                             /\ \A k \in n + 1..m : IsTool(items[k])}

\* What a provider accepts: results follow their calls, one for each.
Paired(request) ==
  /\ \A n \in DOMAIN request : IsTool(request[n]) => n \in AnsweredTools(request)
  /\ \A n \in DOMAIN request : \A call \in CallsOf(request[n]) :
       \E m \in DOMAIN request : ToolResults(request, n, call) = {m}

\* A request to the model has every message of the session once, in order, or
\* has it in its summary, whatever ended a turn between a call and its results;
\* only a result that lost its call is left out.  The latest message of the user
\* is there as it is.
IsWhole(request) ==
  /\ Paired(request)
  /\ \A i \in 1..Len(transcript) :
        i \in Held(request) \/ (transcript[i].role = "tool" /\ i \notin AnsweredTools(Whole))
  /\ \A m, n \in DOMAIN request : m < n =>
       \A i \in request[m].of, j \in request[n].of : i < j
  /\ \A i \in LatestUser(0) : \E n \in DOMAIN request : request[n] = Kept(i + 1)
RequestIsWhole == turnAt \in {"model", "last_model"} => IsWhole(modelRequest)
=============================================================================
