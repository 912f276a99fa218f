------------------------------ MODULE RunEvents ------------------------------
(***************************************************************************)
(* The events of a session's runs: publish_event() of a turn               *)
(* (runtime/agent/engine.py) numbers them, and the publisher (events.py)   *)
(* hands each to the event store, the trace builder, the tracker of run    *)
(* states and the console.  Events come from the thread of the turn, from  *)
(* the output of its tools, also late, and from whoever lets a request     *)
(* expire.  A run that waits for the user goes on in a later turn, which   *)
(* may be of another process, and takes its numbers from the store.        *)
(***************************************************************************)
EXTENDS Naturals, Sequences, SequencesExt, FiniteSetsExt

CONSTANTS
  MaxRuns,           \* bound on the runs of the session
  MaxRunTurns,       \* bound on its turns
  MaxNumber,         \* bound on the events of a run
  MaxMishaps         \* bound on what happens to a turn: an event that the store
                     \* fails to record, output of a tool, the end of the process

ASSUME EventAssumption ==
  MaxRuns \in Nat /\ MaxRunTurns \in Nat /\ MaxNumber \in Nat /\ MaxMishaps \in Nat

VARIABLES
  streams,     \* the transport streams
  running,     \* the turn that runs, with the locals of run_conversation()
  runCount,    \* how many runs there are
  waitsFor,    \* the run whose interaction waits for an answer
  emitted,     \* history: the events but for deltas, in the order of publication
  eventTable,  \* runtime_events of the state database, as inserted
  building,    \* TraceBuilder._traces: the results that each open trace has
  recorded,    \* the traces that are stored
  runState,    \* RunStateTracker: the state of the session
  projecting,  \* what RunStateTracker.handle() has read, in each thread
  console,     \* ConsoleUiEventSink, with the text that stands on the screen
  finalized,   \* history: the turns that were finalized
  processes,   \* how many processes have ended
  mishaps

eventVars == <<streams, running, runCount, waitsFor, emitted, eventTable, building, recorded,
               runState, projecting, console, finalized, processes, mishaps>>

RunIds == 1..MaxRuns
\* An interaction that expires has a run id of its own.
ExpiryOf(r) == MaxRuns + r
TurnIds == 1..MaxRunTurns
None == 0
NotRunning == [turn |-> 0, run |-> 0, at |-> "none", number |-> 0, failed |-> FALSE,
           resumes |-> FALSE, step |-> 1, chunk |-> 0, end |-> "none"]
NoState == [run |-> 0, status |-> "none", interaction |-> 0]
Idle == [on |-> FALSE, to |-> NoState, before |-> NoState]
Blank == [item |-> 0, streamed |-> <<>>, line |-> <<>>, whole |-> FALSE, printed |-> TRUE]

AnswerText == <<1, 2>>    \* the deltas of a response
Fallback == <<3>>         \* the text of a turn that has none
NoTrace == [open |-> FALSE, results |-> 0]

Statuses == {"running", "resumed", "awaiting_input", "cancelled", "expired",
             "completed", "failed"}
EventNames == {"runtime.started", "runtime.resumed", "runtime.waiting", "runtime.cancelled",
               "runtime.completed", "model.delta", "model.response", "tool.result",
               "tool.progress"}
Events == [run : RunIds, turn : TurnIds, number : 1..MaxNumber,
           name : EventNames, kept : BOOLEAN, process : 0..MaxMishaps]
States == [run : 0..2 * MaxRuns, status : Statuses \cup {"none"}, interaction : 0..MaxRuns]

EventTypeOK ==
  /\ streams \in BOOLEAN /\ runCount \in 0..MaxRuns /\ waitsFor \in RunIds \cup {None}
  /\ running \in [turn : 0..MaxRunTurns, run : RunIds \cup {0}, number : 0..MaxNumber,
       at : {"none", "begun", "resuming", "resolves", "works", "answered", "announces",
             "completes", "returns"},
       failed : BOOLEAN, resumes : BOOLEAN, step : Nat, chunk : 0..Len(AnswerText),
       end : {"none", "success", "failed", "cancelled", "awaiting_input"}]
  /\ emitted \in Seq(Events) /\ eventTable \in Seq(Events)
  /\ building \in [RunIds -> [open : BOOLEAN, results : Nat]]
  /\ recorded \in Seq([run : RunIds, results : Nat, process : 0..MaxMishaps])
  /\ runState \in States /\ projecting \in [{"turn", "expiry"} -> [on : BOOLEAN, to : States,
                                                                  before : States]]
  /\ console \in [item : Nat, streamed : Seq(1..2), line : Seq(1..2), whole : BOOLEAN,
                  printed : BOOLEAN]
  /\ finalized \in Seq([turn : TurnIds, whole : BOOLEAN])
  /\ processes \in 0..MaxMishaps /\ mishaps \in 0..MaxMishaps

EventInit ==
  /\ streams \in BOOLEAN /\ running = NotRunning /\ runCount = 0 /\ waitsFor = None
  /\ emitted = <<>> /\ eventTable = <<>> /\ recorded = <<>> /\ finalized = <<>>
  /\ building = [r \in RunIds |-> NoTrace] /\ runState = NoState
  /\ projecting = [t \in {"turn", "expiry"} |-> Idle] /\ console = Blank
  /\ processes = 0 /\ mishaps = 0

-----------------------------------------------------------------------------
(* The subscribers *)

OfRun(r, some) == {e \in Range(some) : e.run = r}
Deltas == {"model.delta", "tool.progress"}
Results == {"model.response", "tool.result"}

\* EventStoreWriter: a delta is not stored, and a number of a run only once.
Store(e) ==
  eventTable' = IF \/ e.name \in Deltas \/ ~e.kept
                   \/ \E i \in DOMAIN eventTable : eventTable[i].run = e.run /\
                                                   eventTable[i].number = e.number
                THEN eventTable ELSE Append(eventTable, e)

\* Mutant of TraceEnds, which violates EventsAreFaithful.
TraceEndsAnyway(e) == e.name = "runtime.completed"

\* A run that waits goes on, and so does its trace.
TraceEnds(e) == e.name = "runtime.completed" /\ running.end # "awaiting_input"

\* TraceBuilder.handle(): what began in an earlier process has no trace here.
BuildTrace(e) ==
  LET r == e.run
      trace == building[r] IN
  /\ building' = [building EXCEPT ![r] =
       IF e.name = "runtime.started" /\ ~trace.open THEN [NoTrace EXCEPT !.open = TRUE]
       ELSE IF ~trace.open \/ TraceEnds(e) THEN NoTrace
       ELSE IF e.name \in Results THEN [trace EXCEPT !.results = @ + 1] ELSE trace]
  /\ recorded' = IF trace.open /\ TraceEnds(e)
                 THEN Append(recorded, [run |-> r, results |-> trace.results,
                                        process |-> e.process])
                 ELSE recorded

\* _project_status(), with the interaction that the event names.
Projected(e) ==
  LET to(status, interaction) ==
        [run |-> e.run, status |-> status, interaction |-> interaction] IN
  CASE e.name = "runtime.started" -> to("running", None)
    [] e.name = "runtime.resumed" -> to("resumed", e.run)
    [] e.name = "runtime.waiting" -> to("awaiting_input", e.run)
    [] e.name = "runtime.cancelled" -> to("cancelled", None)
    [] e.name = "runtime.completed" ->
         to(IF running.end = "success" THEN "completed" ELSE running.end, None)
    [] OTHER -> NoState
Project(thread, new) ==
  projecting' = IF new = NoState THEN projecting
                ELSE [projecting EXCEPT ![thread] =
                        [on |-> TRUE, to |-> new, before |-> runState]]

\* ConsoleUiEventSink.handle() of what UiEventMapper.map() makes of the event.
EndLine(c) == [c EXCEPT !.item = 0, !.line = <<>>]
Written(c, item, chunk) ==
  LET same == c.item = item
      text == Append(IF same THEN c.streamed ELSE <<>>, chunk)
      line == Append(IF same THEN c.line ELSE <<>>, chunk) IN
  [c EXCEPT !.item = item, !.streamed = text, !.line = line,
            !.whole = @ \/ line = AnswerText]
Show(e) ==
  console' = CASE e.name = "model.delta" -> Written(console, running.step, running.chunk + 1)
               [] e.name \in {"runtime.started", "runtime.completed"} /\
                  running.end # "failed" -> console
               [] OTHER -> EndLine(console)

\* Mutant of RenderedResponse, which violates EventsAreFaithful.
RenderedSomething(c, content) == c.streamed # <<>>

RenderedResponse(c, content) == c.streamed # <<>> /\ c.streamed = content

\* Mutant of Merged, which violates EventsAreFaithful.
MergedWithLast(new, before) ==
  IF new.interaction = None THEN [new EXCEPT !.interaction = before.interaction] ELSE new

\* What an event of the same run has said of the interaction stays.
Merged(new, before) ==
  IF before.run = new.run /\ new.interaction = None
  THEN [new EXCEPT !.interaction = before.interaction] ELSE new

\* The second critical section of RunStateTracker.handle().
SetState(thread) ==
  /\ projecting[thread].on
  /\ runState' = Merged(projecting[thread].to, projecting[thread].before)
  /\ projecting' = [projecting EXCEPT ![thread] = Idle]
  /\ UNCHANGED <<streams, running, runCount, waitsFor, emitted, eventTable, building, recorded,
                 console, finalized, processes, mishaps>>

-----------------------------------------------------------------------------
(* A turn *)

\* RuntimeEventPublisher.publish(): a subscriber that fails keeps none of the others.
Deliver(e) ==
  Store(e) /\ BuildTrace(e) /\ Show(e) /\ Project("turn", Projected(e))

\* Mutant of Failed, which violates EventsAreFaithful.
FailedLast(before, kept) == ~kept

\* critical_event_failures of the turn
Failed(before, kept) == before \/ ~kept

\* publish_event(): a number and all subscribers under one lock.  The store is
\* the one that a turn must not fail; the turn goes on all the same.
Publish(name, then) ==
  LET e(kept) == [run |-> running.run, turn |-> running.turn, number |-> running.number + 1,
                  name |-> name, kept |-> kept, process |-> processes] IN
  /\ ~projecting["turn"].on /\ running.number < MaxNumber
  /\ \E kept \in BOOLEAN :
       /\ ~kept => name \notin Deltas
       /\ mishaps' = mishaps + (IF kept /\ name # "tool.progress" THEN 0 ELSE 1)
       /\ mishaps' <= MaxMishaps
       /\ running' = [then EXCEPT !.number = running.number + 1,
                                  !.failed = Failed(running.failed, kept)]
       /\ emitted' = IF name \in Deltas THEN emitted ELSE Append(emitted, e(kept))
       /\ Deliver(e(kept))
  /\ UNCHANGED <<streams, runCount, waitsFor, runState, finalized, processes>>

\* Mutant of LastNumber, which violates EventsAreFaithful.
LastNumberOfProcess(r) == 0

\* A resumed run goes on after the last number that the store has of it.
LastNumber(r) == Max({e.number : e \in OfRun(r, eventTable)} \cup {0})

Begin(r, resumes) ==
  /\ running.at = "none" /\ running.turn < MaxRunTurns
  /\ running' = [NotRunning EXCEPT !.turn = running.turn + 1, !.run = r, !.at = "begun",
                               !.number = IF resumes THEN LastNumber(r) ELSE 0,
                               !.resumes = resumes]
  /\ console' = [console EXCEPT !.whole = FALSE, !.printed = FALSE]
  /\ UNCHANGED <<streams, emitted, eventTable, building, recorded, runState, projecting,
                 finalized, processes, mishaps>>
BeginRun ==
  /\ runCount < MaxRuns /\ runCount' = runCount + 1
  /\ Begin(runCount + 1, FALSE) /\ UNCHANGED waitsFor
ResumeRun ==
  /\ waitsFor # None /\ waitsFor' = None
  /\ Begin(waitsFor, TRUE) /\ UNCHANGED runCount

To(at) == [running EXCEPT !.at = at]
PublishStarted ==
  /\ running.at = "begun"
  /\ Publish("runtime.started", To(IF running.resumes THEN "resuming" ELSE "works"))
PublishResumed ==
  /\ running.at = "resuming" /\ Publish("runtime.resumed", To("resolves"))

\* _invoke_turn_model() and _record_turn_model(): the response follows its deltas.
PublishTextDelta ==
  /\ running.at = "works" /\ streams /\ running.chunk < Len(AnswerText)
  /\ Publish("model.delta", [running EXCEPT !.chunk = @ + 1])
RecordModel ==
  /\ running.at = "works" /\ running.chunk = (IF streams THEN Len(AnswerText) ELSE 0)
  /\ Publish("model.response", [To("answered") EXCEPT !.chunk = 0, !.step = running.step + 1])
\* record_tool_result(), of the resumed call or of one that the model asked for.
RecordToolResult ==
  /\ running.at \in {"resolves", "answered"} /\ Publish("tool.result", To("works"))

\* finish_cancelled() at any point, finish_waiting() in place of a tool's result,
\* a failure of the model, or the end of a turn whose model has answered.
End(end, at) ==
  /\ running' = [running EXCEPT !.at = at, !.end = end] /\ ~projecting["turn"].on
  /\ UNCHANGED <<streams, runCount, waitsFor, emitted, eventTable, building, recorded, runState,
                 projecting, console, finalized, processes, mishaps>>
LeaveLoop ==
  \/ running.at \in {"works", "answered"} /\ End("cancelled", "announces")
  \/ running.at = "answered" /\ End("awaiting_input", "announces")
  \/ running.at = "answered" /\ End("success", "completes")
  \/ running.at = "works" /\ End("failed", "completes")
Announce ==
  /\ running.at = "announces"
  /\ Publish(IF running.end = "cancelled" THEN "runtime.cancelled" ELSE "runtime.waiting",
             To("completes"))

\* _finish_turn_result(): the failure to store its own event counts too.
PublishCompleted ==
  /\ running.at = "completes" /\ Publish("runtime.completed", To("returns"))
FinalizeTurn ==
  LET content == IF running.end = "success" THEN AnswerText ELSE Fallback IN
  /\ running.at = "returns" /\ ~projecting["turn"].on
  /\ finalized' = Append(finalized, [turn |-> running.turn, whole |-> ~running.failed])
  /\ waitsFor' = IF running.end = "awaiting_input" THEN running.run ELSE waitsFor
  /\ running' = [NotRunning EXCEPT !.turn = running.turn]
  /\ console' = [EndLine(console) EXCEPT
                   !.printed = ~RenderedResponse(console, content),
                   !.whole = @ /\ content = AnswerText]
  /\ UNCHANGED <<streams, runCount, emitted, eventTable, building, recorded, runState,
                 projecting, processes, mishaps>>

-----------------------------------------------------------------------------
(* The other threads, and the process *)

\* A tool's output, in whatever step the turn is.  That of an earlier turn has a
\* number of that turn, which nobody sees, and is shown in the same way.
EmitToolOutput ==
  /\ running.at # "none" /\ Publish("tool.progress", running)

\* _publish_expired_interactions() in the thread of whoever answers.
PublishExpired ==
  /\ waitsFor # None /\ waitsFor' = None /\ ~projecting["expiry"].on
  /\ Project("expiry", [run |-> ExpiryOf(waitsFor), status |-> "expired",
                        interaction |-> waitsFor])
  /\ console' = EndLine(console)
  /\ UNCHANGED <<streams, running, runCount, emitted, eventTable, building, recorded, runState,
                 finalized, processes, mishaps>>

EventCrash ==
  /\ mishaps < MaxMishaps /\ mishaps' = mishaps + 1 /\ processes' = processes + 1
  /\ running' = [NotRunning EXCEPT !.turn = running.turn]
  /\ building' = [r \in RunIds |-> NoTrace] /\ runState' = NoState /\ console' = Blank
  /\ projecting' = [t \in {"turn", "expiry"} |-> Idle]
  /\ UNCHANGED <<streams, runCount, waitsFor, emitted, eventTable, recorded, finalized>>

EventNext ==
  \/ BeginRun \/ ResumeRun \/ PublishStarted \/ PublishResumed \/ PublishTextDelta
  \/ RecordModel \/ RecordToolResult \/ LeaveLoop \/ Announce \/ PublishCompleted \/ FinalizeTurn
  \/ EmitToolOutput \/ PublishExpired \/ EventCrash
  \/ \E thread \in {"turn", "expiry"} : SetState(thread)

EventSpec == EventInit /\ [][EventNext]_eventVars

-----------------------------------------------------------------------------
(* Properties *)

\* The events of a run are stored in the order of their publication under growing
\* numbers, in whatever turn and process they were published, and none that the
\* store took is dropped because its number is there.
NumbersAreKept ==
  /\ \A e \in Range(emitted) : e.kept => e \in Range(eventTable)
  /\ \A i, j \in DOMAIN eventTable :
       i < j /\ eventTable[i].run = eventTable[j].run =>
         eventTable[i].number < eventTable[j].number

\* A turn that is finalized with a complete trajectory has all its events in the
\* store, the one that says so included.
TrajectoryIsWhole ==
  \A f \in Range(finalized), e \in Range(emitted) :
    f.whole /\ e.turn = f.turn => e \in Range(eventTable)

\* A recorded trace has every result that the process has published of its run,
\* through all the turns in which the run waited.
TracesAreWhole ==
  \A t \in Range(recorded) :
    t.results = Cardinality({i \in DOMAIN emitted : /\ emitted[i].run = t.run
                                                    /\ emitted[i].process = t.process
                                                    /\ emitted[i].name \in Results})

\* The state of a session names no interaction of another run than its own.
StatesAreTheirOwn == runState.interaction \in {None, runState.run, runState.run - MaxRuns}

\* When a turn is over its response stands on the screen in one piece.
ResponseIsShown == running.at = "none" => console.whole \/ console.printed

\* Store, traces, states and screen tell what was published.
EventsAreFaithful ==
  NumbersAreKept /\ TrajectoryIsWhole /\ TracesAreWhole /\ StatesAreTheirOwn /\ ResponseIsShown
=============================================================================
