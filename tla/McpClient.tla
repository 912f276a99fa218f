------------------------------ MODULE McpClient ------------------------------
(***************************************************************************)
(* The clients of the MCP servers (mcp/client.py): each has a thread whose *)
(* event loop opens the session, publishes it to the other threads and     *)
(* keeps it until it is told to stop.  The provider (mcp/tools.py) starts  *)
(* them one after the other, with a time limit, and closes them at the end.*)
(* The servers and the SDK are external: opening a session may take        *)
(* forever, and so may a call.                                             *)
(***************************************************************************)
EXTENDS Naturals, Sequences, SequencesExt

CONSTANT Servers   \* the configured servers, in order

ASSUME McpAssumption == Servers \in Seq(STRING) /\ IsInjective(Servers)

VARIABLES
  served,     \* how far each client's thread is with the session
  ready,      \* _ready is set
  failed,     \* _terminal_error is set
  stopping,   \* _stop_requested is set
  stopEvent,  \* _stop_event is set
  closing,    \* the close() under way on a client, and how far it is
  provider,   \* the server that discover() is at, or "up" or "down"
  clients,    \* _clients: those that started
  mcpCall     \* a call of one of a server's tools, once discover() has them

mcpThread == <<served, ready, failed, stopEvent>>
mcpVars == <<mcpThread, stopping, closing, provider, clients, mcpCall>>

Names == ToSet(Servers)
Positions == 1..Len(Servers)

McpTypeOK ==
  /\ served \in [Names -> {"none", "opening", "loop", "event", "serving", "gone"}]
  /\ ready \in [Names -> BOOLEAN] /\ failed \in [Names -> BOOLEAN]
  /\ stopping \in [Names -> BOOLEAN] /\ stopEvent \in [Names -> BOOLEAN]
  /\ closing \in [Names -> {"no", "look", "done"}]
  /\ provider \in [at : {"start", "wait", "fail", "up", "down"}, server : 0..Len(Servers)]
  /\ clients \subseteq Names
  /\ mcpCall \in [Names -> {"none", "idle", "sent", "returned", "timed_out", "refused"}]

McpInit ==
  /\ served = [s \in Names |-> "none"] /\ ready = [s \in Names |-> FALSE]
  /\ failed = [s \in Names |-> FALSE] /\ stopping = [s \in Names |-> FALSE]
  /\ stopEvent = [s \in Names |-> FALSE] /\ closing = [s \in Names |-> "no"]
  /\ provider = [at |-> IF Servers = <<>> THEN "up" ELSE "start",
                 server |-> IF Servers = <<>> THEN 0 ELSE 1]
  /\ clients = {} /\ mcpCall = [s \in Names |-> "none"]

-----------------------------------------------------------------------------
(* The client's thread: _thread_main() and _serve() *)

\* The session opens and its tools are listed, or that fails: the thread ends.
OpenClient(s) ==
  /\ served[s] = "opening"
  /\ \/ served' = [served EXCEPT ![s] = "loop"] /\ UNCHANGED <<ready, failed>>
     \/ /\ served' = [served EXCEPT ![s] = "gone"]
        /\ failed' = [failed EXCEPT ![s] = TRUE] /\ ready' = [ready EXCEPT ![s] = TRUE]
  /\ UNCHANGED <<stopEvent, stopping, closing, provider, clients, mcpCall>>

\* _stop_event, _client and _tools are published after _loop; then all is ready.
Publish(s) ==
  /\ served[s] = "loop"
  /\ served' = [served EXCEPT ![s] = "event"] /\ ready' = [ready EXCEPT ![s] = TRUE]
  /\ UNCHANGED <<failed, stopEvent, stopping, closing, provider, clients, mcpCall>>

\* Mutant of StopsAtOnce, which violates StopIsHeard.
StopsNever(s) == FALSE

\* A stop that was asked for before close() could see the event.
StopsAtOnce(s) == stopping[s]

ServeOrStop(s) ==
  /\ served[s] = "event" /\ served' = [served EXCEPT ![s] = "serving"]
  /\ stopEvent' = [stopEvent EXCEPT ![s] = @ \/ StopsAtOnce(s)]
  /\ UNCHANGED <<ready, failed, stopping, closing, provider, clients, mcpCall>>

EndServe(s) ==
  /\ served[s] = "serving" /\ stopEvent[s] /\ served' = [served EXCEPT ![s] = "gone"]
  /\ UNCHANGED <<ready, failed, stopEvent, stopping, closing, provider, clients, mcpCall>>

-----------------------------------------------------------------------------
(* close(): the flag, then a look at what the thread has published.  It joins *)
(* the thread for two seconds, and goes on.                                   *)

CloseClient(s) ==
  /\ stopping' = [stopping EXCEPT ![s] = TRUE] /\ closing' = [closing EXCEPT ![s] = "look"]

SignalStop(s) ==
  /\ closing[s] = "look" /\ closing' = [closing EXCEPT ![s] = "done"]
  /\ stopEvent' = [stopEvent EXCEPT ![s] = @ \/ served[s] \in {"event", "serving"}]
  /\ UNCHANGED <<served, ready, failed, stopping, provider, clients, mcpCall>>

-----------------------------------------------------------------------------
(* MCPToolProvider: discover() and close() *)

Current == Servers[provider.server]
Following == IF provider.server = Len(Servers) THEN [at |-> "up", server |-> 0]
             ELSE [at |-> "start", server |-> provider.server + 1]

StartClient ==
  /\ provider.at = "start" /\ provider' = [provider EXCEPT !.at = "wait"]
  /\ served' = [served EXCEPT ![Current] = "opening"]
  /\ UNCHANGED <<ready, failed, stopEvent, stopping, closing, clients, mcpCall>>

Started ==
  /\ provider.at = "wait" /\ ready[Current] /\ ~failed[Current]
  /\ clients' = clients \cup {Current} /\ provider' = Following
  /\ mcpCall' = [mcpCall EXCEPT ![Current] = "idle"]
  /\ UNCHANGED <<mcpThread, stopping, closing>>

\* It has failed, or the time is over: start() closes it, and so does discover().
NotStarted ==
  /\ provider.at = "wait" /\ (ready[Current] => failed[Current])
  /\ CloseClient(Current) /\ provider' = [provider EXCEPT !.at = "fail"]
  /\ UNCHANGED <<mcpThread, clients, mcpCall>>
GiveUp ==
  /\ provider.at = "fail" /\ closing[Current] = "done" /\ provider' = Following
  /\ UNCHANGED <<mcpThread, stopping, closing, clients, mcpCall>>

\* The last one first; each after the one before it, whether it has stopped or not.
CloseNext ==
  /\ provider.at = "up" /\ \A s \in Names : closing[s] # "look"
  /\ LET open == {k \in Positions : Servers[k] \in clients} IN
     IF open = {} THEN provider' = [at |-> "down", server |-> 0]
                       /\ UNCHANGED <<stopping, closing, clients>>
     ELSE LET last == CHOOSE k \in open : \A o \in open : o <= k IN
          /\ CloseClient(Servers[last]) /\ clients' = clients \ {Servers[last]}
          /\ UNCHANGED provider
  /\ UNCHANGED <<mcpThread, mcpCall>>

-----------------------------------------------------------------------------
(* call_tool() on a thread of the turn *)

CallTool(s) ==
  /\ provider.at \in {"up", "down"} /\ mcpCall[s] = "idle"
  /\ mcpCall' = [mcpCall EXCEPT ![s] =
       IF served[s] \in {"event", "serving"} /\ ~failed[s] THEN "sent" ELSE "refused"]
  /\ UNCHANGED <<mcpThread, stopping, closing, provider, clients>>

\* A session that ends cancels its calls.
EndCall(s) ==
  /\ mcpCall[s] = "sent"
  /\ mcpCall' = [mcpCall EXCEPT ![s] = IF served[s] = "gone" THEN "refused" ELSE "returned"]
  /\ UNCHANGED <<mcpThread, stopping, closing, provider, clients>>
TimeOutCall(s) ==
  /\ mcpCall[s] = "sent" /\ mcpCall' = [mcpCall EXCEPT ![s] = "timed_out"]
  /\ UNCHANGED <<mcpThread, stopping, closing, provider, clients>>

McpNext ==
  \/ \E s \in Names :
       \/ OpenClient(s) \/ Publish(s) \/ ServeOrStop(s) \/ EndServe(s) \/ SignalStop(s)
       \/ CallTool(s) \/ EndCall(s) \/ TimeOutCall(s)
  \/ StartClient \/ Started \/ NotStarted \/ GiveUp \/ CloseNext

\* Threads that can go on do; a session need not open, nor a call return.
McpFairness ==
  \A s \in Names : WF_mcpVars(Publish(s) \/ ServeOrStop(s) \/ EndServe(s) \/ SignalStop(s))

McpSpec == McpInit /\ [][McpNext]_mcpVars

-----------------------------------------------------------------------------
(* Properties *)

\* A client that is told to stop has its session ended, once it is open: also the
\* one that opens only after the time limit, and however the telling and the
\* publishing interleave.
StopIsHeard ==
  \A s \in Names : (stopping[s] /\ served[s] # "opening") ~> served[s] = "gone"
=============================================================================
