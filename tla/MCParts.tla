------------------------------- MODULE MCParts -------------------------------
(***************************************************************************)
(* The parts whose properties are of safety alone: what a turn makes of    *)
(* its tools, its messages, its model and other sessions, its replay, and  *)
(* what the agent learns (skills, memories, candidates, reviews), and what *)
(* the gateway keeps and shows beside its messages.  Nothing of their      *)
(* models is shared, so a behaviour is one of them, chosen at the start:   *)
(* the states of the parts add up instead of multiplying.                  *)
(***************************************************************************)
EXTENDS SkillGovernance, MemoryFiles, EvolutionCandidates, BackgroundReviews,
        RunEvents, ToolApprovals, ToolBatch, TurnContext, ModelTransport,
        OfflineReplay, SessionRecall, SessionDatabase, TodoList, WeixinPairing,
        WeixinProgress

VARIABLE part

turnVars == <<approvalVars, batchVars, contextVars, transportVars, eventVars, replayVars,
              recallVars, databaseVars, todoVars>>
learningVars == <<skillVars, memVars, candidateVars, reviewVars>>
gatewayVars == <<pairingVars, progressVars>>
allVars == <<part, turnVars, learningVars, gatewayVars>>

\* The reviews of a skill version, and the lines that a supplied skill has.
OneLine == {{"a"}}
For == [preference |-> "variant", factuality |-> FALSE]
Against == [preference |-> "baseline", factuality |-> TRUE]
ForAndAgainst == {For, Against}
\* The calls that a turn may ask for: a pipe that changes something, and a look with
\* what it prints redirected by a joined sign.
Command(syntax, words) ==
  [tool |-> "bash", background |-> FALSE, syntax |-> syntax, words |-> words]
TwoCommands == {Command("plain", <<"reads", "changes">>), Command("joined", <<"reads">>)}
\* What code_executor may be asked to do: its second step fails, or finds the text
\* that the first has left, or both succeed; or the second raises.
FileStep(tool, path) == [tool |-> tool, path |-> path, fresh |-> FALSE]
TwoSteps == {<<FileStep("write_file", "a"), FileStep("patch", "a")>>,
             <<FileStep("patch", "a"), FileStep("patch", "b")>>,
             <<FileStep("bash", "/"), FileStep("write_file", "b")>>,
             <<FileStep("patch", "a"), FileStep("read_file", "c")>>}
\* One session has the turns that an answer needs, the other is a stranger to it.
ThreeAndOne == [s \in Talks |-> IF s = "x" THEN 3 ELSE 1]
\* Every pair of these texts is a contradiction or a duplicate.
AllPairs == {"tea", "notea"} \X {"tea", "notea"}

\* The parts that are not chosen begin, and stay, at one of their initial states.
Still ==
  /\ IF part = "approvals" THEN TRUE ELSE provider = "deferred"
  /\ IF part = "batch" THEN TRUE ELSE (/\ batch = <<CHOOSE call \in ToolCalls : TRUE>>
                        /\ asking = {"bash", "code_executor"} /\ granted = FALSE)
  /\ IF part = "transport" THEN TRUE ELSE sentHistory = <<>>
  /\ IF part = "events" THEN TRUE ELSE streams = FALSE
  /\ IF part = "recall" THEN TRUE ELSE sessions = [s \in Sessions |->
       [user |-> CHOOSE user \in Users : TRUE,
        parent |-> IF s \in Delegated THEN CHOOSE other \in Sessions \ Delegated : TRUE
                   ELSE NoSession]]
  /\ IF part = "skills" THEN TRUE ELSE live = Gone
  /\ IF part = "candidates" THEN TRUE ELSE scope = [c \in Candidates |-> CHOOSE s \in Scopes : TRUE]

PartsInit ==
  /\ part \in {"approvals", "batch", "context", "transport", "events", "replay", "recall",
               "database", "todos", "skills", "memory", "candidates", "reviews", "pairing",
               "progress"}
  /\ Still
  /\ ApprovalInit /\ BatchInit /\ ContextInit /\ TransportInit /\ EventInit /\ ReplayInit /\ RecallInit
  /\ \A s \in Delegated : sessions[s].user = CHOOSE user \in Users : TRUE   \* no user is special
  /\ DatabaseInit /\ (part = "database" \/ db.version = CurrentVersion)
  /\ SkillInit /\ FilesInit /\ CandidateInit /\ ReviewInit
  /\ TodoInit /\ PairingInit /\ ProgressInit

TurnNext ==
  \/ /\ part = "approvals" /\ ApprovalNext
     /\ UNCHANGED <<batchVars, contextVars, transportVars, eventVars, replayVars,
                    recallVars, databaseVars, todoVars>>
  \/ /\ part = "batch" /\ BatchNext
     /\ UNCHANGED <<approvalVars, contextVars, transportVars, eventVars, replayVars,
                    recallVars, databaseVars, todoVars>>
  \/ /\ part = "context" /\ ContextNext
     /\ UNCHANGED <<approvalVars, batchVars, transportVars, eventVars, replayVars,
                    recallVars, databaseVars, todoVars>>
  \/ /\ part = "transport" /\ TransportNext
     /\ UNCHANGED <<approvalVars, batchVars, contextVars, eventVars, replayVars,
                    recallVars, databaseVars, todoVars>>
  \/ /\ part = "events" /\ EventNext
     /\ UNCHANGED <<approvalVars, batchVars, contextVars, transportVars, replayVars,
                    recallVars, databaseVars, todoVars>>
  \/ /\ part = "replay" /\ ReplayNext
     /\ UNCHANGED <<approvalVars, batchVars, contextVars, transportVars, eventVars,
                    recallVars, databaseVars, todoVars>>
  \/ /\ part = "recall" /\ RecallNext
     /\ UNCHANGED <<approvalVars, batchVars, contextVars, transportVars, eventVars,
                    replayVars, databaseVars, todoVars>>
  \/ /\ part = "database" /\ DatabaseNext
     /\ UNCHANGED <<approvalVars, batchVars, contextVars, transportVars, eventVars,
                    replayVars, recallVars, todoVars>>
  \/ /\ part = "todos" /\ TodoNext
     /\ UNCHANGED <<approvalVars, batchVars, contextVars, transportVars, eventVars, replayVars,
                    recallVars, databaseVars>>

LearningNext ==
  \/ part = "skills" /\ SkillNext /\ UNCHANGED <<memVars, candidateVars, reviewVars>>
  \/ part = "memory" /\ FilesNext /\ UNCHANGED <<skillVars, candidateVars, reviewVars>>
  \/ part = "candidates" /\ CandidateNext /\ UNCHANGED <<skillVars, memVars, reviewVars>>
  \/ part = "reviews" /\ ReviewNext /\ UNCHANGED <<skillVars, memVars, candidateVars>>

GatewayNext ==
  \/ part = "pairing" /\ PairingNext /\ UNCHANGED progressVars
  \/ part = "progress" /\ ProgressNext /\ UNCHANGED pairingVars

PartsSpec ==
  PartsInit /\ [][/\ UNCHANGED part
                  /\ \/ TurnNext /\ UNCHANGED <<learningVars, gatewayVars>>
                     \/ LearningNext /\ UNCHANGED <<turnVars, gatewayVars>>
                     \/ GatewayNext /\ UNCHANGED <<turnVars, learningVars>>]_allVars

\* The values that the variables of the part may have.
PartsTypeOK ==
  CASE part = "approvals" -> ApprovalTypeOK
    [] part = "batch" -> BatchTypeOK
    [] part = "context" -> ContextTypeOK
    [] part = "transport" -> TransportTypeOK
    [] part = "events" -> EventTypeOK
    [] part = "replay" -> ReplayTypeOK
    [] part = "recall" -> RecallTypeOK
    [] part = "database" -> DatabaseTypeOK
    [] part = "skills" -> SkillTypeOK
    [] part = "memory" -> FilesTypeOK
    [] part = "candidates" -> CandidateTypeOK
    [] part = "reviews" -> ReviewTypeOK
    [] part = "todos" -> TodoTypeOK
    [] part = "pairing" -> PairingTypeOK
    [] part = "progress" -> ProgressTypeOK

\* The model is asked for what the turn holds, and what it answers reaches the
\* turn: RequestIsWhole of the context, TransportIsFaithful of the transport.
ModelExchangeIsFaithful == RequestIsWhole /\ TransportIsFaithful

\* What is read of earlier runs is what happened in them: RecallIsWhole of
\* another session's search, ReplayIsFaithful of a replayed one, DatabaseIsSound
\* of the messages of this one, which two processes write and summarize.
HistoryIsFaithful == RecallIsWhole /\ ReplayIsFaithful /\ DatabaseIsSound

\* What is called is what the user agreed to, and the calls of a batch have the
\* effects of one after the other and tell them, with the exceptions that these
\* name: CallsAreConsented of the approvals, BatchRunsInOrder and WritesAreReported
\* of the batch, TodosAreKept of the todo list.
CallsAreHandled == CallsAreConsented /\ BatchRunsInOrder /\ WritesAreReported /\ TodosAreKept

\* What becomes of an experience can be followed: PromptIsTraceable of the blocks
\* of the prompt, ReviewsArePaidFor of the reviews that were started.
EvolutionIsTraceable == PromptIsTraceable /\ ReviewsArePaidFor

\* What the gateway tells a user is so, and comes in order: PairingIsKept of the
\* pairing, ProgressPrecedesReply of what is shown of a turn.
GatewayIsHonest == PairingIsKept /\ ProgressPrecedesReply
=============================================================================
