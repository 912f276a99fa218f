---------------------------- MODULE OfflineReplay ----------------------------
(***************************************************************************)
(* A turn, recorded as runtime events (telemetry/), and played again from  *)
(* them (telemetry/replay.py, runtime/replay.py): the plan takes the model *)
(* steps and the tool results out of the events, and the same loop         *)
(* (runtime/agent/loop.py) runs on the recorded answers.  The hashes of    *)
(* the request are left out: a replay without the tools' schemas never     *)
(* matches them.                                                           *)
(***************************************************************************)
EXTENDS Naturals, Sequences, FiniteSets, SequencesExt, FiniteSetsExt

CONSTANTS
  MaxSteps,     \* max_iterations of the recorded turn
  MaxFollowUps  \* max_stop_follow_ups

ASSUME ReplayAssumption == MaxSteps \in Nat \ {0} /\ MaxFollowUps \in Nat

VARIABLES
  recording,  \* the turn under way: its iteration, its follow-ups and its end
  events,     \* what the event store has of it
  lost,       \* the store, a critical subscriber, failed at an event
  replayed    \* the replay under way: iteration, index, consumed, divergences, end

replayVars == <<recording, events, lost, replayed>>

\* What the model answers: text, an empty text, tool calls with their results,
\* a call that waits for the user; or an error.
Answers == {"text", "empty", "tools", "waits", "error"}
Ends == {"success", "failed", "awaiting_input", "cancelled", "iteration_limit_exceeded"}
Shown == Answers \cup {"limit", "cancelled"}   \* what a final response comes from

Event(name, step, value) == [name |-> name, step |-> step, value |-> value]
Running == [step |-> 1, followUps |-> 0, end |-> "none", said |-> "text"]
NotReplayed == [step |-> 0, index |-> 0, consumed |-> {}, diverges |-> FALSE,
                end |-> "none", said |-> "text"]

ReplayTypeOK ==
  /\ recording \in [step : 1..MaxSteps + 1, followUps : 0..MaxFollowUps,
                    end : Ends \cup {"none"}, said : Shown]
  /\ events \in Seq([name : {"response", "summary", "failed", "result", "completed"},
                     step : 1..MaxSteps + 1, value : Answers \cup Ends \cup {"done"}])
  /\ lost \in BOOLEAN
  /\ replayed \in [step : 0..MaxSteps + 2, index : Nat, consumed : SUBSET (1..MaxSteps + 1),
                 diverges : BOOLEAN, end : Ends \cup {"none", "refused"}, said : Shown]

ReplayInit ==
  recording = Running /\ events = <<>> /\ lost = FALSE /\ replayed = NotReplayed

-----------------------------------------------------------------------------
(* The recorded turn *)

\* The events of a step reach the store, or one of them fails.
Record(new) ==
  \/ events' = events \o new /\ UNCHANGED lost
  \/ /\ ~lost /\ lost' = TRUE
     /\ \E k \in DOMAIN new : events' = events \o RemoveAt(new, k)

\* runtime.completed tells if an event before it was lost; it may be lost itself.
Completed(whole, end) == Event("completed", recording.step, IF whole THEN end ELSE "done")
CloseTurn(new, end, said) ==
  /\ recording' = [recording EXCEPT !.end = end, !.said = said]
  /\ \/ events' = events \o new \o <<Completed(~lost, end)>> /\ UNCHANGED lost
     \/ /\ ~lost /\ lost' = TRUE
        /\ \/ \E k \in DOMAIN new :
                events' = events \o RemoveAt(new, k) \o <<Completed(FALSE, end)>>
           \/ events' = events \o new

InLoop == recording.end = "none" /\ recording.step <= MaxSteps
Response(answer) == Event("response", recording.step, answer)

\* _prepare_turn_step() may ask for a summary of the context first.
Summarize ==
  /\ InLoop /\ ~\E k \in DOMAIN events : events[k].name = "summary"
  /\ Record(<<Event("summary", recording.step, "text")>>) /\ UNCHANGED <<recording, replayed>>

\* An answer with tool calls: their results, and on to the next step.
StepWithTools ==
  /\ InLoop /\ recording' = [recording EXCEPT !.step = @ + 1]
  /\ Record(<<Response("tools"), Event("result", recording.step, "done")>>)
  /\ UNCHANGED replayed

\* One of the calls waits: so does the turn.
StepWaits ==
  /\ InLoop /\ UNCHANGED replayed
  /\ CloseTurn(<<Response("waits"), Event("result", recording.step, "waits")>>,
            "awaiting_input", "waits")

\* A text ends the turn, unless the stop hook has something to ask.
StepAnswers ==
  /\ InLoop /\ UNCHANGED replayed
  /\ \E answer \in {"text", "empty"} : CloseTurn(<<Response(answer)>>, "success", answer)
StepFollowsUp ==
  /\ InLoop /\ recording.followUps < MaxFollowUps
  /\ recording' = [recording EXCEPT !.step = @ + 1, !.followUps = @ + 1]
  /\ Record(<<Response("text")>>) /\ UNCHANGED replayed

StepFails ==
  /\ InLoop /\ UNCHANGED replayed
  /\ CloseTurn(<<Event("failed", recording.step, "error")>>, "failed", "error")

\* The user stops it, or a request that is too large; neither is a model step.
StepIsCancelled ==
  /\ InLoop /\ UNCHANGED replayed
  /\ \/ CloseTurn(<<>>, "cancelled", "cancelled")
     \/ CloseTurn(<<>>, "failed", "limit")

\* The last request of a turn that used all its steps; it may fail, without an event.
FinalSummary ==
  /\ recording.end = "none" /\ recording.step = MaxSteps + 1 /\ UNCHANGED replayed
  /\ \/ CloseTurn(<<Response("text")>>, "success", "text")
     \/ \E answer \in {"empty", "tools"} :
          CloseTurn(<<Response(answer)>>, "iteration_limit_exceeded", "limit")
     \/ CloseTurn(<<>>, "iteration_limit_exceeded", "limit")

-----------------------------------------------------------------------------
(* RuntimeReplayPlanner.build() *)

\* The events of these names, in their order.
Named(names, past) ==
  LET found[n \in 0..Len(past)] ==
        IF n = 0 THEN <<>>
        ELSE IF past[n].name \in names THEN Append(found[n - 1], past[n]) ELSE found[n - 1]
  IN found[Len(past)]

\* Mutant of AgentSteps, which violates ReplayIsFaithful.
EveryStep == Named({"response", "failed", "summary"}, events)

AgentSteps == Named({"response", "failed"}, events)

RecordedResults == {events[k].step : k \in {n \in DOMAIN events : events[n].name = "result"}}

\* _exactly_one() end, which says that the trace is whole
Completions == Named({"completed"}, events)
Expected == Completions[1].value
Plannable == Len(Completions) = 1 /\ Expected # "done"

BeginReplay ==
  /\ recording.end # "none" /\ replayed = NotReplayed
  /\ replayed' = IF Plannable THEN [replayed EXCEPT !.step = 1]
                ELSE [replayed EXCEPT !.end = "refused"]
  /\ UNCHANGED <<recording, events, lost>>

-----------------------------------------------------------------------------
(* OfflineRuntimeReplay.execute() *)

ReplaySteps == Max({AgentSteps[k].step : k \in DOMAIN AgentSteps} \cup {1})

\* generate(): the next recorded answer; one that was not recorded is empty.
Generated == IF replayed.index < Len(AgentSteps) THEN AgentSteps[replayed.index + 1].value
             ELSE "empty"
Asked == [replayed EXCEPT !.index = IF @ < Len(AgentSteps) THEN @ + 1 ELSE @,
                        !.diverges = @ \/ replayed.index >= Len(AgentSteps)]

\* _result_for() of the calls of the answer just given, which are known by the
\* step that they were recorded at.
Dispatched ==
  LET at == IF replayed.index < Len(AgentSteps) THEN AgentSteps[replayed.index + 1].step ELSE 1 IN
  [Asked EXCEPT !.consumed = @ \cup ({at} \cap RecordedResults),
                !.diverges = @ \/ at \notin RecordedResults]

EndReplay(work, end, said) ==
  [work EXCEPT !.end = end, !.said = said,
     !.diverges = @ \/ end # Expected \/ said # recording.said
                    \/ work.index < Len(AgentSteps) \/ work.consumed # RecordedResults]

ReplayStep ==
  /\ replayed.step \in 1..ReplaySteps /\ replayed.end = "none"
  /\ replayed' =
       CASE Generated = "tools" -> [Dispatched EXCEPT !.step = @ + 1]
         [] Generated = "waits" -> EndReplay(Dispatched, "awaiting_input", "waits")
         [] Generated = "error" -> EndReplay(Asked, "failed", "error")
         [] OTHER -> EndReplay(Asked, "success", Generated)
  /\ UNCHANGED <<recording, events, lost>>

ReplaySummary ==
  /\ replayed.step = ReplaySteps + 1 /\ replayed.end = "none"
  /\ replayed' = IF Generated = "text" THEN EndReplay(Asked, "success", "text")
               ELSE EndReplay(Asked, "iteration_limit_exceeded", "limit")
  /\ UNCHANGED <<recording, events, lost>>

ReplayNext ==
  \/ Summarize \/ StepWithTools \/ StepWaits \/ StepAnswers \/ StepFollowsUp \/ StepFails
  \/ StepIsCancelled \/ FinalSummary \/ BeginReplay \/ ReplayStep \/ ReplaySummary

ReplaySpec == ReplayInit /\ [][ReplayNext]_replayVars

-----------------------------------------------------------------------------
(* Properties *)

\* The model and the tools alone made the turn what it was.
OfRecordedSteps == recording.followUps = 0 /\ recording.said \notin {"limit", "cancelled"}

\* A turn that the model and its tools decided is replayed without a difference,
\* and one with a lost event is not replayed at all: a verdict is of whole turns.
ReplayIsFaithful ==
  /\ replayed.end \notin {"none", "refused"} => ~lost
  /\ replayed.end \notin {"none", "refused"} /\ OfRecordedSteps => ~replayed.diverges
  /\ replayed.end = "refused" => lost
=============================================================================
