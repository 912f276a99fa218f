--------------------------- MODULE SerialExecutor ---------------------------
(***************************************************************************)
(* What SessionTaskScheduler promises its callers, with no queue, lock or  *)
(* worker in sight: every accepted task gets a future; a session runs its  *)
(* tasks one at a time and in the order they were accepted; a task that    *)
(* has not begun may be withdrawn; and unless the executor is abandoned,   *)
(* every accepted future is eventually resolved.                           *)
(***************************************************************************)
EXTENDS Naturals

CONSTANTS Tasks, Sessions, SessionOf

VARIABLES
  phase,     \* "open", then "closing" (draining) and/or "abandoned"
  accepted,  \* how many tasks were accepted so far
  ticket,    \* ticket[t]: the place of t in the order of acceptance, 0 if none
  future     \* future[t]: the state of the future handed to the caller

abstractVars == <<phase, accepted, ticket, future>>

SameSession(t, u) == SessionOf[t] = SessionOf[u]
Pending(t) == future[t] = "pending"
Resolved(t) == future[t] \in {"finished", "failed", "cancelled"}

Init ==
  /\ phase = "open"
  /\ accepted = 0
  /\ ticket = [t \in Tasks |-> 0]
  /\ future = [t \in Tasks |-> "none"]

\* A task is accepted; tasks of its session that still wait may give way to it.
Accept(t) ==
  /\ phase = "open"
  /\ future[t] = "none"
  /\ \E replaced \in SUBSET {u \in Tasks : Pending(u) /\ SameSession(t, u)} :
       future' = [u \in Tasks |-> IF u = t THEN "pending"
                                  ELSE IF u \in replaced THEN "cancelled"
                                  ELSE future[u]]
  /\ accepted' = accepted + 1
  /\ ticket' = [ticket EXCEPT ![t] = accepted + 1]
  /\ UNCHANGED phase

\* A session that is free takes the oldest of its waiting tasks.
Start(t) ==
  /\ Pending(t)
  /\ \A u \in Tasks : SameSession(t, u) =>
       /\ future[u] # "running"
       /\ Pending(u) => ticket[t] <= ticket[u]
  /\ future' = [future EXCEPT ![t] = "running"]
  /\ UNCHANGED <<phase, accepted, ticket>>

Finish(t) ==
  /\ future[t] = "running"
  /\ \E outcome \in {"finished", "failed"} :
       future' = [future EXCEPT ![t] = outcome]
  /\ UNCHANGED <<phase, accepted, ticket>>

\* Waiting tasks are withdrawn: by their caller, or by a close that gives up.
Withdraw ==
  /\ \E withdrawn \in SUBSET {u \in Tasks : Pending(u)} :
       future' = [u \in Tasks |-> IF u \in withdrawn THEN "cancelled"
                                  ELSE future[u]]
  /\ UNCHANGED <<phase, accepted, ticket>>

Close ==
  /\ \/ phase = "open" /\ phase' \in {"closing", "abandoned"}
     \/ phase = "closing" /\ phase' = "abandoned"
  /\ UNCHANGED <<accepted, ticket, future>>

Next ==
  \/ \E t \in Tasks : Accept(t) \/ Start(t) \/ Finish(t)
  \/ Withdraw
  \/ Close

Spec == Init /\ [][Next]_abstractVars

\* Nobody owes anything to a waiting task once the executor is abandoned.
KeptStart(t) == phase # "abandoned" /\ Start(t)

FairSpec ==
  /\ Spec
  /\ \A t \in Tasks : WF_abstractVars(KeptStart(t)) /\ WF_abstractVars(Finish(t))
=============================================================================
