--------------------------- MODULE ModelTransport ---------------------------
(***************************************************************************)
(* One request to the model: runtime/transports/openai_compatible.py makes *)
(* the messages fit the provider's rules, and reads the answer as a stream,*)
(* showing its text as it comes.  An attempt that fails before its first   *)
(* chunk is made again.  The provider and its client are external.         *)
(***************************************************************************)
EXTENDS Naturals, Sequences, SequencesExt

CONSTANTS
  CallIds,     \* ids of tool calls
  MaxHistory,  \* bound on the messages of the request
  MaxRetries,  \* max_retries
  MaxChunks    \* bound on the chunks of a stream

ASSUME TransportAssumption ==
  CallIds # {} /\ MaxHistory \in Nat /\ MaxRetries \in Nat /\ MaxChunks \in Nat

VARIABLES
  sentHistory,  \* the messages of the request
  attempt,      \* the attempts begun
  transportAt,  \* what the request is at
  chunks,       \* the number of chunks of this stream
  parts,        \* content_parts, each by the attempt it is of
  displayed,    \* what on_text_delta() has been called with
  stopAsked     \* the run is cancelled

transportVars == <<sentHistory, attempt, transportAt, chunks, parts, displayed, stopAsked>>

\* A message, with the calls it makes and those it answers.
SentMessages ==
  [role : {"assistant"}, calls : SUBSET CallIds, answers : {{}}]
    \cup [role : {"tool"}, calls : {{}}, answers : {{id} : id \in CallIds}]
    \cup [role : {"user"}, calls : {{}}, answers : {{}}]
StreamEnded == {"answered", "cancelled", "failed"}

TransportTypeOK ==
  /\ sentHistory \in Seq(SentMessages) /\ Len(sentHistory) <= MaxHistory
  /\ attempt \in 0..MaxRetries + 1
  /\ transportAt \in {"check", "open", "read", "sleep"} \cup StreamEnded
  /\ chunks \in 0..MaxChunks
  /\ parts \in Seq(1..MaxRetries + 1) /\ displayed \in Seq(1..MaxRetries + 1)
  /\ stopAsked \in BOOLEAN

-----------------------------------------------------------------------------
(* _sanitize_serialized_tool_pairs() *)

NotTool(message) == message.role # "tool"

\* discard_unanswered_calls(), of the last message with calls
Discarded(sent, pending) ==
  LET last == CHOOSE k \in DOMAIN sent : NotTool(sent[k])
                /\ \A o \in DOMAIN sent : NotTool(sent[o]) => o <= k IN
  IF pending = {} THEN sent ELSE [sent EXCEPT ![last].calls = @ \ pending]

Serialize(work, message) ==
  CASE message.role = "tool" /\ message.answers \subseteq work.pending ->
         [sent |-> Append(work.sent, message), pending |-> work.pending \ message.answers]
    [] message.role = "tool" /\ ~(message.answers \subseteq work.pending) -> work
    [] OTHER ->
         [sent |-> Append(Discarded(work.sent, work.pending), message),
          pending |-> message.calls]

\* What is sent of the messages, and the calls that still wait for their answers.
Serialized(messages) ==
  LET work[n \in 0..Len(messages)] ==
        IF n = 0 THEN [sent |-> <<>>, pending |-> {}] ELSE Serialize(work[n - 1], messages[n])
  IN work[Len(messages)]

\* Mutant of SerializeMessages, which violates TransportIsFaithful.
SerializeOpenEnd(messages) == Serialized(messages).sent

SerializeMessages(messages) ==
  Discarded(Serialized(messages).sent, Serialized(messages).pending)

-----------------------------------------------------------------------------
(* generate_stream() *)

TransportInit ==
  /\ sentHistory \in BoundedSeq(SentMessages, MaxHistory)
  /\ attempt = 0 /\ transportAt = "check" /\ chunks = 0 /\ parts = <<>> /\ displayed = <<>>
  /\ stopAsked = FALSE

BeginAttempt ==
  /\ transportAt = "check" /\ attempt' = attempt + 1
  /\ transportAt' = IF stopAsked THEN "cancelled" ELSE "open"
  /\ chunks' = 0 /\ parts' = <<>>
  /\ UNCHANGED <<sentHistory, displayed, stopAsked>>

Connect ==
  /\ transportAt = "open" /\ transportAt' = "read"
  /\ UNCHANGED <<sentHistory, attempt, chunks, parts, displayed, stopAsked>>

\* One more chunk, with text or without; a cancelled run reads no further.
ReadChunk ==
  /\ transportAt = "read" /\ chunks < MaxChunks
  /\ IF stopAsked THEN transportAt' = "cancelled" /\ UNCHANGED <<chunks, parts, displayed>>
     ELSE /\ chunks' = chunks + 1 /\ UNCHANGED transportAt
          /\ \/ parts' = Append(parts, attempt) /\ displayed' = Append(displayed, attempt)
             \/ UNCHANGED <<parts, displayed>>
  /\ UNCHANGED <<sentHistory, attempt, stopAsked>>

\* The stream ends; arguments of a tool call that are no JSON fail the request.
EndStream ==
  /\ transportAt = "read" /\ transportAt' \in {"answered", "failed"}
  /\ UNCHANGED <<sentHistory, attempt, chunks, parts, displayed, stopAsked>>

\* Mutant of MayRetry, which violates PartsTypeOK.
MayRetryOnceMore(retryable) == retryable /\ chunks = 0 /\ attempt <= MaxRetries + 1

\* Mutant of MayRetry, which violates TransportIsFaithful.
MayRetryAll(retryable) == retryable /\ attempt <= MaxRetries

\* What an error that may be temporary leads to, and one that is not.
MayRetry(retryable) == retryable /\ chunks = 0 /\ attempt <= MaxRetries

Fail ==
  /\ transportAt \in {"open", "read"}
  /\ \E retryable \in BOOLEAN :
       transportAt' = IF MayRetry(retryable) THEN "sleep" ELSE "failed"
  /\ UNCHANGED <<sentHistory, attempt, chunks, parts, displayed, stopAsked>>

Wake ==
  /\ transportAt = "sleep" /\ transportAt' = "check"
  /\ UNCHANGED <<sentHistory, attempt, chunks, parts, displayed, stopAsked>>

CancelRequest ==
  /\ transportAt \notin StreamEnded /\ ~stopAsked /\ stopAsked' = TRUE
  /\ UNCHANGED <<sentHistory, attempt, transportAt, chunks, parts, displayed>>

TransportNext ==
  BeginAttempt \/ Connect \/ ReadChunk \/ EndStream \/ Fail \/ Wake \/ CancelRequest

TransportSpec == TransportInit /\ [][TransportNext]_transportVars

-----------------------------------------------------------------------------
(* Properties *)

\* The tool messages between one that is no tool's and the next.
AnswersTo(messages, k) ==
  {n \in DOMAIN messages : n > k /\ \A o \in k + 1..n : ~NotTool(messages[o])}

\* Each message with calls is followed by one answer to each of them and no other.
AnswersArePaired(sent) ==
  \A k \in DOMAIN sent :
    /\ NotTool(sent[k]) => sent[k].calls = UNION {sent[n].answers : n \in AnswersTo(sent, k)}
    /\ ~NotTool(sent[k]) =>
         \E o \in 1..k - 1 :
           /\ NotTool(sent[o]) /\ k \in AnswersTo(sent, o)
           /\ \A n \in AnswersTo(sent, o) \ {k} : sent[n].answers # sent[k].answers

\* What is sent are messages of the history in their order, all but tool messages, and
\* a call that the history answers where it has to be answered keeps its answer.
SentInOrder(messages, sent, from) ==
  /\ \A k, o \in DOMAIN sent : k < o => from[k] < from[o]
  /\ \A k \in DOMAIN sent : /\ sent[k].role = messages[from[k]].role
                            /\ sent[k].answers = messages[from[k]].answers
                            /\ sent[k].calls \subseteq messages[from[k]].calls
  /\ \A i \in DOMAIN messages : NotTool(messages[i]) =>
       /\ \E k \in DOMAIN sent : from[k] = i
       /\ \A n \in AnswersTo(messages, i) : messages[n].answers \subseteq messages[i].calls =>
            \E o \in DOMAIN sent : from[o] \in AnswersTo(messages, i)
                                 /\ sent[o].answers = messages[n].answers

PairsAreWhole ==
  LET sent == SerializeMessages(sentHistory) IN
  /\ AnswersArePaired(sent)
  /\ \E from \in [DOMAIN sent -> DOMAIN sentHistory] : SentInOrder(sentHistory, sent, from)

\* Nothing goes to the provider that its rules refuse, and what comes from it is
\* the text that was shown while it came: nothing is shown twice, or shown and
\* not kept, however many attempts there were.
TransportIsFaithful ==
  /\ transportAt = "open" => PairsAreWhole
  /\ transportAt = "answered" => parts = displayed
=============================================================================
