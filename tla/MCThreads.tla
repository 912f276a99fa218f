------------------------------ MODULE MCThreads ------------------------------
(***************************************************************************)
(* The parts of one process that are threads: the command line, the bash   *)
(* tool, the subagents, the clients of the MCP servers, and a turn of up   *)
(* to two iterations.  Nothing of their models is shared, so a behaviour   *)
(* is one of them, chosen at the start: the states of the parts add up     *)
(* instead of multiplying.                                                 *)
(***************************************************************************)
EXTENDS InteractiveCli, BashTool, Subagents, McpClient

CONSTANT NoRun

VARIABLES
  part,
  runStatus, opStatus, interaction, attached, effects, pc, run, resumed, call, batch,
  resultReady, result, waitingCall, askedBefore, verdict, iteration, turnCancelled

Journal == INSTANCE OperationJournal WITH
  Processes <- {"p"}, Runs <- {"r1", "r2"}, Calls <- {"c"}, MaxIterations <- 2, None <- NoRun,
  ready <- resultReady, waiting <- waitingCall, asked <- askedBefore,
  cancelled <- turnCancelled

journalVars ==
  <<runStatus, opStatus, interaction, attached, effects, pc, run, resumed, call, batch,
    resultReady, result, waitingCall, askedBefore, verdict, iteration, turnCancelled>>
threadVars == <<cliVars, bashVars, childVars, mcpVars>>
allVars == <<part, journalVars, threadVars>>

\* Of a part only, the others stand still at their initial states.
Of(name, step) == part = name /\ step

ServerList == <<"s1", "s2">>

MCInit ==
  /\ part \in {"cli", "bash", "subagents", "mcp", "turn"}
  /\ Journal!Init /\ CliInit /\ BashInit /\ ChildInit /\ McpInit

ThreadNext ==
  \/ part = "cli" /\ CliNext /\ UNCHANGED <<bashVars, childVars, mcpVars>>
  \/ part = "bash" /\ BashNext /\ UNCHANGED <<cliVars, childVars, mcpVars>>
  \/ part = "subagents" /\ ChildNext /\ UNCHANGED <<cliVars, bashVars, mcpVars>>
  \/ part = "mcp" /\ McpNext /\ UNCHANGED <<cliVars, bashVars, childVars>>

MCNext ==
  /\ UNCHANGED part
  /\ \/ ThreadNext /\ UNCHANGED journalVars
     \/ part = "turn" /\ Journal!Next /\ UNCHANGED threadVars

\* The fairness of each part, in its own behaviours.
MCFairness ==
  /\ WF_journalVars(Of("turn", Journal!Step("p")))
  /\ WF_cliVars(Of("cli", ~closed /\ PromptStep))
  /\ \A n \in Typing : WF_cliVars(Of("cli", ~closed /\ TurnEnds(n)))
  /\ WF_childVars(Of("subagents", StopWaiting)) /\ WF_childVars(Of("subagents", TellChildren))
  /\ WF_childVars(Of("subagents", Answer)) /\ WF_childVars(Of("subagents", PassDeadline))
  /\ \A i \in ChildTasks :
       /\ WF_childVars(Of("subagents", BeginChild(i)))
       /\ WF_childVars(Of("subagents", ObeyToken(i)))
  /\ \A s \in Names :
       WF_mcpVars(Of("mcp", Publish(s) \/ ServeOrStop(s) \/ EndServe(s) \/ SignalStop(s)))

MCSpec == MCInit /\ [][MCNext]_allVars /\ MCFairness

\* A turn, however it begins, is over at some point (OperationJournal).
EveryTurnEnds == Journal!TurnEnds
=============================================================================
