---------------------- MODULE OperationJournal_proofs ----------------------
(***************************************************************************)
(* Theorems of OperationJournal for any processes, runs and calls; the     *)
(* last one, for any runs and calls of one process.                        *)
(***************************************************************************)
EXTENDS OperationJournal, TLAPS

\* The process of a turn knows what its place in the turn needs.
PlacesKnown == \A p \in Processes :
  /\ pc[p] # "idle" => run[p] \in Runs
  /\ pc[p] \in {"claimed", "stray", "resuming", "redo"} => resumed[p] \in Calls
  /\ pc[p] = "mark" => call[p] \in Calls
  /\ pc[p] \in {"finish", "attach"} =>
       /\ verdict[p] \in Verdicts
       /\ verdict[p] = "awaiting_input" => waiting[p] \in Calls

TypeInv == TypeOK /\ PlacesKnown

LEMMA InitType == Init => TypeInv
  BY JournalAssumption DEF Init, TypeInv, PlacesKnown, TypeOK, JournalAssumption,
     RunStatuses, OpStatuses, Interactions, Places, NoResults, Settled

LEMMA NextType ==
  ASSUME TypeInv, [Next]_vars
  PROVE  TypeInv'
<1>. USE DEF durable, turn, interactions, Raise, Ends, Moves, Op, Settled, NoResults
<1>t. /\ runStatus \in [Runs -> RunStatuses]
      /\ opStatus \in [Operations -> OpStatuses]
      /\ interaction \in [Operations -> Interactions]
      /\ attached \in SUBSET Operations
      /\ effects \in [Operations -> Nat]
      /\ pc \in [Processes -> Places]
      /\ run \in [Processes -> Runs \cup {None}]
      /\ resumed \in [Processes -> Calls \cup {None}]
      /\ call \in [Processes -> Calls \cup {None}]
      /\ batch \in [Processes -> SUBSET Calls]
      /\ ready \in [Processes -> SUBSET Calls]
      /\ result \in [Processes -> [Calls -> {"none", "awaiting_input"} \cup Settled]]
      /\ waiting \in [Processes -> Calls \cup {None}]
      /\ asked \in [Processes -> Operations \cup {None}]
      /\ verdict \in [Processes -> Verdicts \cup {"none"}]
      /\ iteration \in [Processes -> 0..MaxIterations]
      /\ cancelled \in [Processes -> BOOLEAN]
      /\ MaxIterations \in Nat \ {0}
  BY JournalAssumption DEF TypeInv, TypeOK, JournalAssumption
<1>k. PlacesKnown
  BY DEF TypeInv
<1>1. ASSUME NEW p \in Processes, Forget(p)
      PROVE  /\ pc' \in [Processes -> Places]
             /\ run' \in [Processes -> Runs \cup {None}]
             /\ resumed' \in [Processes -> Calls \cup {None}]
             /\ call' \in [Processes -> Calls \cup {None}]
             /\ batch' \in [Processes -> SUBSET Calls]
             /\ ready' \in [Processes -> SUBSET Calls]
             /\ result' \in [Processes -> [Calls -> {"none", "awaiting_input"} \cup Settled]]
             /\ waiting' \in [Processes -> Calls \cup {None}]
             /\ asked' \in [Processes -> Operations \cup {None}]
             /\ verdict' \in [Processes -> Verdicts \cup {"none"}]
             /\ iteration' \in [Processes -> 0..MaxIterations]
             /\ cancelled' \in [Processes -> BOOLEAN]
             /\ PlacesKnown'
  BY <1>1, <1>t, <1>k DEF Forget, Places, PlacesKnown
<1>2. ASSUME NEW p \in Processes, NEW r \in Runs, Start(p, r)
      PROVE  TypeInv'
  <2>1. TypeOK'
    BY <1>2, <1>t, <1>k DEF Start, TypeOK, RunStatuses, OpStatuses, Places
  <2>2. PlacesKnown'
    BY <1>2, <1>t, <1>k DEF Start, PlacesKnown
  <2>. QED
    BY <2>1, <2>2 DEF TypeInv
<1>3. ASSUME NEW p \in Processes, NEW r \in Runs, NEW c \in Calls, Claim(p, r, c)
      PROVE  TypeInv'
  <2>1. TypeOK'
    BY <1>3, <1>t, <1>k DEF Claim, MarksClaimed, TypeOK, Interactions, Places,
       Operations
  <2>2. PlacesKnown'
    BY <1>3, <1>t, <1>k DEF Claim, MarksClaimed, PlacesKnown
  <2>. QED
    BY <2>1, <2>2 DEF TypeInv
<1>4. ASSUME NEW p \in Processes, ResumeRun(p)
      PROVE  TypeInv'
  <2>1. TypeOK'
    BY <1>4, <1>t, <1>k DEF ResumeRun, Resumes, TypeOK, RunStatuses, Places
  <2>2. PlacesKnown'
    BY <1>4, <1>t, <1>k DEF ResumeRun, Resumes, PlacesKnown
  <2>. QED
    BY <2>1, <2>2 DEF TypeInv
<1>5. ASSUME NEW p \in Processes, StrayResume(p)
      PROVE  TypeInv'
  <2>1. TypeOK'
    BY <1>5, <1>1, <1>t, <1>k DEF StrayResume, Resumes, TypeOK, RunStatuses
  <2>2. PlacesKnown'
    BY <1>5, <1>1, <1>t, <1>k DEF StrayResume, Resumes, PlacesKnown
  <2>. QED
    BY <2>1, <2>2 DEF TypeInv
<1>6. ASSUME NEW p \in Processes, MarkResumed(p)
      PROVE  TypeInv'
  <2>1. TypeOK'
    BY <1>6, <1>t, <1>k DEF MarkResumed, MarkRunning, TypeOK, OpStatuses, Places
  <2>2. PlacesKnown'
    BY <1>6, <1>t, <1>k DEF MarkResumed, MarkRunning, PlacesKnown
  <2>. QED
    BY <2>1, <2>2 DEF TypeInv
<1>7. ASSUME NEW p \in Processes, Redo(p)
      PROVE  TypeInv'
  <2>1. TypeOK'
    <3>1. /\ pc' = [pc EXCEPT ![p] = "tools"]
          /\ UNCHANGED <<runStatus, opStatus, interactions, run, resumed, call, batch,
                         ready, waiting, asked, verdict, iteration, cancelled>>
      BY <1>7 DEF Redo
    <3>2. effects' \in [Operations -> Nat]
      <4>1. Op(p, resumed[p]) \in Operations
        BY <1>7, <1>k DEF Redo, PlacesKnown, Operations
      <4>2. effects' = effects \/ effects' = [effects EXCEPT ![Op(p, resumed[p])] = @ + 1]
        BY <1>7 DEF Redo, Execute
      <4>3. effects[Op(p, resumed[p])] + 1 \in Nat
        BY <4>1, <1>t
      <4>. HIDE DEF Op
      <4>. QED
        BY <4>2, <4>3, <1>t
    <3>3. PICK outcome \in Settled :
            result' = [result EXCEPT ![p] = [@ EXCEPT ![resumed[p]] = outcome]]
      BY <1>7 DEF Redo, Execute
    <3>4. result' \in [Processes -> [Calls -> {"none", "awaiting_input"} \cup Settled]]
      BY <3>3, <1>t
    <3>. QED
      BY <3>1, <3>2, <3>4, <1>t DEF TypeOK, Places
  <2>2. PlacesKnown'
    BY <1>7, <1>t, <1>k DEF Redo, Execute, PlacesKnown
  <2>. QED
    BY <2>1, <2>2 DEF TypeInv
<1>8. ASSUME NEW p \in Processes, Discard(p) \/ Answer(p) \/ Exhausted(p)
      PROVE  TypeInv'
  <2>1. TypeOK'
    BY <1>8, <1>t, <1>k DEF Discard, Answer, Exhausted, TypeOK, Verdicts, Places
  <2>2. PlacesKnown'
    BY <1>8, <1>t, <1>k DEF Discard, Answer, Exhausted, PlacesKnown, Verdicts
  <2>. QED
    BY <2>1, <2>2 DEF TypeInv
<1>9. ASSUME NEW p \in Processes, FollowUp(p)
      PROVE  TypeInv'
  <2>1. TypeOK'
    BY <1>9, <1>t, <1>k DEF FollowUp, TypeOK, Places
  <2>2. PlacesKnown'
    BY <1>9, <1>t, <1>k DEF FollowUp, PlacesKnown
  <2>. QED
    BY <2>1, <2>2 DEF TypeInv
<1>10. ASSUME NEW p \in Processes, NEW calls \in SUBSET Calls, AskForTools(p, calls)
       PROVE  TypeInv'
  <2>1. TypeOK'
    BY <1>10, <1>t, <1>k DEF AskForTools, TypeOK, Places
  <2>2. PlacesKnown'
    BY <1>10, <1>t, <1>k DEF AskForTools, PlacesKnown
  <2>. QED
    BY <2>1, <2>2 DEF TypeInv
<1>11. ASSUME NEW p \in Processes, NEW c \in Calls, Plan(p, c)
       PROVE  TypeInv'
  <2>1. TypeOK'
    BY <1>11, <1>t, <1>k DEF Plan, TypeOK, OpStatuses, Places
  <2>2. PlacesKnown'
    BY <1>11, <1>t, <1>k DEF Plan, PlacesKnown
  <2>. QED
    BY <2>1, <2>2 DEF TypeInv
<1>12. ASSUME NEW p \in Processes, NEW c \in Calls, Dispatch(p, c)
       PROVE  TypeInv'
  <2>1. TypeOK'
    <3>1. UNCHANGED <<runStatus, opStatus, attached, pc, run, resumed, call, batch,
                      waiting, verdict, iteration, cancelled>>
      BY <1>12 DEF Dispatch
    <3>2. effects' \in [Operations -> Nat]
      <4>1. Op(p, c) \in Operations
        BY <1>12, <1>k DEF Dispatch, Marked, PlacesKnown, Operations
      <4>2. effects' = effects \/ effects' = [effects EXCEPT ![Op(p, c)] = @ + 1]
        BY <1>12 DEF Dispatch, Execute, PutToUser
      <4>3. effects[Op(p, c)] + 1 \in Nat
        BY <4>1, <1>t
      <4>. HIDE DEF Op
      <4>. QED
        BY <4>2, <4>3, <1>t
    <3>3. PICK outcome \in Settled \cup {"awaiting_input"} :
            result' = [result EXCEPT ![p] = [@ EXCEPT ![c] = outcome]]
      BY <1>12 DEF Dispatch, Execute, PutToUser
    <3>4. result' \in [Processes -> [Calls -> {"none", "awaiting_input"} \cup Settled]]
      BY <3>3, <1>t
    <3>5. /\ ready' \in [Processes -> SUBSET Calls]
          /\ interaction' \in [Operations -> Interactions]
      BY <1>12, <1>t DEF Dispatch, PutToUser, Interactions
    <3>6. asked' = asked \/ \E o \in Operations : asked' = [asked EXCEPT ![p] = o]
      BY <1>12 DEF Dispatch, PutToUser
    <3>7. asked' \in [Processes -> Operations \cup {None}]
      BY <3>6, <1>t
    <3>. QED
      BY <3>1, <3>2, <3>4, <3>5, <3>7, <1>t DEF TypeOK
  <2>2. PlacesKnown'
    BY <1>12, <1>t, <1>k DEF Dispatch, Execute, PutToUser, Marked, PlacesKnown
  <2>. QED
    BY <2>1, <2>2 DEF TypeInv
<1>13. ASSUME NEW p \in Processes, NEW c \in Calls, Record(p, c)
       PROVE  TypeInv'
  <2>1. TypeOK'
    BY <1>13, <1>t, <1>k DEF Record, AllowedTransition, Dispatched, Marked, TypeOK,
       OpStatuses
  <2>2. PlacesKnown'
    BY <1>13, <1>t, <1>k DEF Record, AllowedTransition, Dispatched, Marked, PlacesKnown
  <2>. QED
    BY <2>1, <2>2 DEF TypeInv
<1>14. ASSUME NEW p \in Processes, MarkRaises(p) \/ Crash(p) \/ \E c \in Calls : RecordRaises(p, c)
       PROVE  TypeInv'
  <2>1. TypeOK'
    BY <1>14, <1>1, <1>t, <1>k DEF MarkRaises, Crash, RecordRaises, TypeOK
  <2>2. PlacesKnown'
    BY <1>14, <1>1, <1>t, <1>k DEF MarkRaises, Crash, RecordRaises, PlacesKnown
  <2>. QED
    BY <2>1, <2>2 DEF TypeInv
<1>15. ASSUME NEW p \in Processes, Reuse(p)
       PROVE  TypeInv'
  <2>1. TypeOK'
    BY <1>15, <1>t, <1>k DEF Reuse, TypeOK, Places
  <2>2. PlacesKnown'
    BY <1>15, <1>t, <1>k DEF Reuse, PlacesKnown
  <2>. QED
    BY <2>1, <2>2 DEF TypeInv
<1>16. ASSUME NEW p \in Processes, Mark(p)
       PROVE  TypeInv'
  <2>1. TypeOK'
    <3>1. /\ UNCHANGED <<runStatus, interactions, effects, run, resumed, batch, result,
                         waiting, asked, verdict, iteration, cancelled>>
          /\ pc' = [pc EXCEPT ![p] = "tools"]
          /\ call' = [call EXCEPT ![p] = None]
          /\ ready' = [ready EXCEPT ![p] = @ \cup {call[p]}]
          /\ call[p] \in Calls
      BY <1>16, <1>k DEF Mark, PlacesKnown
    <3>2. opStatus' \in [Operations -> OpStatuses]
      BY <1>16, <1>t DEF Mark, MarkRunning, OpStatuses
    <3>. QED
      BY <3>1, <3>2, <1>t DEF TypeOK, Places
  <2>2. PlacesKnown'
    BY <1>16, <1>t, <1>k DEF Mark, MarkRunning, PlacesKnown
  <2>. QED
    BY <2>1, <2>2 DEF TypeInv
<1>17. ASSUME NEW p \in Processes, AfterTools(p)
       PROVE  TypeInv'
  <2>1. TypeOK'
    BY <1>17, <1>t, <1>k DEF AfterTools, TypeOK, Verdicts, Places
  <2>2. PlacesKnown'
    BY <1>17, <1>t, <1>k DEF AfterTools, PlacesKnown, Verdicts
  <2>. QED
    BY <2>1, <2>2 DEF TypeInv
<1>18. ASSUME NEW p \in Processes, Finish(p)
       PROVE  TypeInv'
  <2>1. TypeOK'
    <3>1. verdict[p] \in RunStatuses
      BY <1>18, <1>k DEF Finish, PlacesKnown, Verdicts, RunStatuses
    <3>. QED
      BY <3>1, <1>18, <1>t DEF Finish, TypeOK, Places
  <2>2. PlacesKnown'
    BY <1>18, <1>t, <1>k DEF Finish, PlacesKnown, Verdicts
  <2>. QED
    BY <2>1, <2>2 DEF TypeInv
<1>19. ASSUME NEW p \in Processes, Attach(p)
       PROVE  TypeInv'
  <2>1. TypeOK'
    <3>1. verdict[p] = "awaiting_input" => Op(p, waiting[p]) \in Operations
      BY <1>19, <1>k DEF Attach, PlacesKnown, Operations
    <3>2. attached' \in SUBSET Operations
      BY <3>1, <1>19, <1>t DEF Attach
    <3>. QED
      BY <3>2, <1>19, <1>t DEF Attach, TypeOK, Places
  <2>2. PlacesKnown'
    BY <1>19, <1>t, <1>k DEF Attach, PlacesKnown
  <2>. QED
    BY <2>1, <2>2 DEF TypeInv
<1>20. ASSUME NEW p \in Processes, Complete(p)
       PROVE  TypeInv'
  <2>1. TypeOK'
    BY <1>20, <1>1, <1>t, <1>k DEF Complete, Dropped, TypeOK, Interactions
  <2>2. PlacesKnown'
    BY <1>20, <1>1, <1>t, <1>k DEF Complete, Dropped, PlacesKnown
  <2>. QED
    BY <2>1, <2>2 DEF TypeInv
<1>21. ASSUME NEW p \in Processes, Cancel(p)
       PROVE  TypeInv'
  <2>1. TypeOK'
    BY <1>21, <1>t, <1>k DEF Cancel, TypeOK
  <2>2. PlacesKnown'
    BY <1>21, <1>t, <1>k DEF Cancel, PlacesKnown
  <2>. QED
    BY <2>1, <2>2 DEF TypeInv
<1>22. ASSUME NEW o \in Operations, Resolve(o) \/ Expire(o)
       PROVE  TypeInv'
  BY <1>22, <1>t, <1>k
  DEF Resolve, Expire, Dropped, TypeInv, TypeOK, PlacesKnown, Interactions
<1>23. CASE UNCHANGED vars
  BY <1>23, <1>t, <1>k DEF vars, TypeInv, TypeOK, PlacesKnown
<1>. QED
  BY <1>2, <1>3, <1>4, <1>5, <1>6, <1>7, <1>8, <1>9, <1>10, <1>11, <1>12, <1>13,
     <1>14, <1>15, <1>16, <1>17, <1>18, <1>19, <1>20, <1>21, <1>22, <1>23
  DEF Next, Begin, Step
-----------------------------------------------------------------------------
(* The inductive invariant *)

\* A turn works on its run, or still has to attach its waiting call to the
\* interaction of the run.
Active(p) ==
  pc[p] \in {"claimed", "resuming", "redo", "model", "tools", "mark", "finish"}
Hands(p) == pc[p] = "attach" /\ verdict[p] = "awaiting_input"
Holds(p) == Active(p) \/ Hands(p)

\* A request may still claim the interaction of an attached call.
Claimable(o) == o \in attached /\ interaction[o] \in {"pending", "resolved"}

\* A run is suspended at one call, and no other call of it is under way.
Parked(r, c) ==
  /\ opStatus[<<r, c>>] = "awaiting_input"
  /\ \A d \in Calls : /\ opStatus[<<r, d>>] # "running"
                      /\ opStatus[<<r, d>>] = "awaiting_input" => d = c

\* Two turns never work on one run: only the claim of an interaction, which is
\* atomic, hands a run from one turn to another.
OneHolder == \A p, q \in Processes :
  Holds(p) /\ Holds(q) /\ run[p] = run[q] => p = q

\* A run whose interaction can be claimed is suspended and nobody works on it.
ClaimableUnheld == \A o \in Operations : Claimable(o) =>
  /\ \A p \in Processes : Holds(p) => run[p] # o[1]
  /\ Parked(o[1], o[2])

\* A resumed turn finds its run suspended at the call it claimed,
ResumeParked == \A p \in Processes :
  pc[p] \in {"claimed", "resuming"} => Parked(run[p], resumed[p])

\* and a turn that ends waiting leaves it suspended at its waiting call.
WaitParked == \A p \in Processes :
  pc[p] \in {"finish", "attach"} /\ verdict[p] = "awaiting_input" =>
    waiting[p] \in Calls /\ Parked(run[p], waiting[p])

\* Between the resume and the verdict; a call is in hand from the moment it is
\* marked running to the moment its effect happens.
Working(p) == pc[p] \in {"redo", "model", "tools", "mark"}
InHand(p, c) == c \in ready[p] \/ (pc[p] = "redo" /\ c = resumed[p])

\* What the records say of the calls of a run is what its turn still knows.
ForgetsNothing(p, c) == Working(p) =>
  /\ opStatus[Op(p, c)] = "awaiting_input" <=> c = waiting[p]
  /\ opStatus[Op(p, c)] = "running" => InHand(p, c) \/ result[p][c] # "none"
NothingForgotten == \A p \in Processes : \A c \in Calls : ForgetsNothing(p, c)

\* What is in memory in each place of the turn.
Phases == \A p \in Processes :
  /\ pc[p] \notin {"tools", "mark"} => batch[p] = {} /\ ready[p] = {}
  /\ pc[p] # "tools" => result[p] = NoResults
  /\ pc[p] \notin {"tools", "finish", "attach", "complete"} => waiting[p] = None
  /\ batch[p] # {} => result[p] = NoResults
  /\ waiting[p] # None => batch[p] = {} /\ ready[p] = {}
  /\ pc[p] = "mark" => call[p] \notin batch[p] \cup ready[p]

\* The planned, the marked and the dispatched calls of a batch are disjoint, and
\* at most one of them was put before the user.
Apart(p, c) ==
  /\ c \in batch[p] => c \notin ready[p]
  /\ c \in ready[p] => result[p][c] = "none"
  /\ result[p][c] = "awaiting_input" =>
       waiting[p] = None /\ \A d \in Calls : result[p][d] = "awaiting_input" => d = c
Batches == \A p \in Processes : \A c \in Calls : Apart(p, c)

\* A call in hand has had no effect yet,
Fresh(p, c) == InHand(p, c) =>
  /\ opStatus[Op(p, c)] \in {"running", "interrupted"}
  /\ effects[Op(p, c)] = 0
  /\ pc[p] # "redo" => Op(p, c) \notin attached
InHandFresh == \A p \in Processes : \A c \in Calls : Fresh(p, c)

\* and one whose result is not yet recorded has no final record.
Open(p, c) == result[p][c] # "none" =>
  /\ opStatus[Op(p, c)] \in {"running", "interrupted"}
  /\ result[p][c] = "awaiting_input" => effects[Op(p, c)] = 0
ResultsOpen == \A p \in Processes : \A c \in Calls : Open(p, c)

\* Only calls that have begun are attached to an interaction.
AttachedBegun == \A o \in attached : opStatus[o] \notin {"absent", "planned"}

\* Nothing is known of a run before it starts.
Unstarted == \A r \in Runs : runStatus[r] = "absent" =>
  /\ \A c \in Calls : opStatus[<<r, c>>] = "absent" /\ interaction[<<r, c>>] = "none"
  /\ \A p \in Processes : run[p] # r

IInv ==
  /\ TypeInv /\ OneHolder /\ ClaimableUnheld /\ ResumeParked
  /\ WaitParked /\ NothingForgotten /\ Phases /\ Batches /\ InHandFresh /\ ResultsOpen
  /\ AttachedBegun /\ Unstarted /\ EffectIsJournaled /\ AtMostOnceEffect

LEMMA InitInv == Init => IInv
<1>. SUFFICES ASSUME Init PROVE IInv
  OBVIOUS
<1>1. TypeInv
  BY InitType
<1>2. /\ OneHolder /\ ClaimableUnheld /\ ResumeParked /\ WaitParked
      /\ NothingForgotten /\ Phases /\ Batches /\ InHandFresh /\ ResultsOpen
      /\ AttachedBegun /\ Unstarted
  BY JournalAssumption
  DEF JournalAssumption, Init, OneHolder, ClaimableUnheld, ResumeParked, WaitParked,
      NothingForgotten, Phases, Batches, InHandFresh, ResultsOpen, AttachedBegun,
      Unstarted, Holds, Active, Hands, Claimable, Parked, Working, InHand, NoResults,
      Operations, ForgetsNothing, Apart, Fresh, Open
<1>3. EffectIsJournaled /\ AtMostOnceEffect
  BY DEF Init, EffectIsJournaled, AtMostOnceEffect
<1>. QED
  BY <1>1, <1>2, <1>3 DEF IInv

LEMMA NextInv ==
  ASSUME IInv, [Next]_vars
  PROVE  IInv'
<1>1. TypeInv /\ TypeInv'
  BY NextType DEF IInv
<1>. DEFINE Goal == /\ OneHolder' /\ ClaimableUnheld' /\ ResumeParked' /\ WaitParked'
                    /\ NothingForgotten' /\ Phases' /\ Batches' /\ InHandFresh'
                    /\ ResultsOpen' /\ AttachedBegun' /\ Unstarted'
                    /\ EffectIsJournaled' /\ AtMostOnceEffect'
<1>. SUFFICES Goal
  BY <1>1 DEF IInv
<1>. USE DEF Op
<1>t. /\ runStatus \in [Runs -> RunStatuses]
      /\ opStatus \in [Runs \X Calls -> OpStatuses]
      /\ interaction \in [Runs \X Calls -> Interactions]
      /\ attached \in SUBSET (Runs \X Calls)
      /\ effects \in [Runs \X Calls -> Nat]
      /\ pc \in [Processes -> Places]
      /\ run \in [Processes -> Runs \cup {None}]
      /\ resumed \in [Processes -> Calls \cup {None}]
      /\ call \in [Processes -> Calls \cup {None}]
      /\ batch \in [Processes -> SUBSET Calls]
      /\ ready \in [Processes -> SUBSET Calls]
      /\ result \in [Processes -> [Calls -> {"none", "awaiting_input"} \cup Settled]]
      /\ waiting \in [Processes -> Calls \cup {None}]
      /\ verdict \in [Processes -> Verdicts \cup {"none"}]
      /\ None \notin Runs /\ None \notin Calls
      /\ Operations = Runs \X Calls
  BY <1>1, JournalAssumption DEF TypeInv, TypeOK, JournalAssumption, Operations
<1>k. /\ \A p \in Processes : pc[p] # "idle" => run[p] \in Runs
      /\ \A p \in Processes :
           pc[p] \in {"claimed", "stray", "resuming", "redo"} => resumed[p] \in Calls
      /\ \A p \in Processes : pc[p] = "mark" => call[p] \in Calls
      /\ \A p \in Processes : pc[p] \in {"finish", "attach"} =>
           /\ verdict[p] \in Verdicts
           /\ verdict[p] = "awaiting_input" => waiting[p] \in Calls
      /\ \A c \in Calls : NoResults[c] = "none"
  BY <1>1 DEF TypeInv, PlacesKnown, NoResults
<1>i. /\ OneHolder /\ ClaimableUnheld /\ ResumeParked /\ WaitParked
      /\ NothingForgotten /\ Phases /\ Batches /\ InHandFresh /\ ResultsOpen
      /\ AttachedBegun /\ Unstarted /\ EffectIsJournaled /\ AtMostOnceEffect
  BY DEF IInv
<1>o. \A o \in Operations : o[1] \in Runs /\ o[2] \in Calls /\ o = <<o[1], o[2]>>
  BY <1>t
<1>e. \A s \in Runs, d \in Calls :
        /\ effects[<<s, d>>] \in Nat /\ effects[<<s, d>>] <= 1
        /\ \/ effects[<<s, d>>] = 0
           \/ opStatus[<<s, d>>] \in {"running", "interrupted", "succeeded", "failed"}
  <2>1. ASSUME NEW s \in Runs, NEW d \in Calls
        PROVE  /\ effects[<<s, d>>] \in Nat
               /\ effects[<<s, d>>] <= 1
               /\ effects[<<s, d>>] > 0 =>
                    opStatus[<<s, d>>] \in {"running", "interrupted"} \cup Settled
    BY <1>t, <1>i DEF EffectIsJournaled, AtMostOnceEffect
  <2>2. \A n \in Nat : n > 0 \/ n = 0
    OBVIOUS
  <2>. QED
    BY <2>1, <2>2 DEF Settled
<1>a. \A p, q \in Processes : p # q /\ Holds(p) /\ Holds(q) => run[p] # run[q]
  BY <1>i DEF OneHolder
<1>w. \A q \in Processes :
        /\ Working(q) \/ pc[q] \in {"claimed", "resuming", "finish"} => Holds(q)
        /\ pc[q] = "attach" /\ verdict[q] = "awaiting_input" => Holds(q)
        /\ \A d \in Calls : InHand(q, d) \/ result[q][d] # "none" => Working(q)
        /\ Holds(q) => run[q] \in Runs
  BY <1>i, <1>k DEF Phases, Working, InHand, Holds, Active, Hands
<1>2. ASSUME NEW p \in Processes, NEW r \in Runs, Start(p, r)
      PROVE  Goal
  <2>1. /\ pc[p] = "idle"
        /\ runStatus[r] = "absent"
        /\ \A o \in Operations : interaction[o] # "resolved"
        /\ \A s \in Runs : runStatus'[s] = "absent" => s # r /\ runStatus[s] = "absent"
        /\ \A s \in Runs, d \in Calls :
                \/ opStatus'[<<s, d>>] = opStatus[<<s, d>>]
                \/ /\ opStatus[<<s, d>>] \in {"planned", "running"}
                   /\ opStatus'[<<s, d>>] = "interrupted"
        /\ pc' = [pc EXCEPT ![p] = "model"]
        /\ run' = [run EXCEPT ![p] = r]
        /\ UNCHANGED <<interaction, attached, effects, resumed, call, batch, ready,
                       result, waiting, verdict>>
    BY <1>2, <1>t, <1>k DEF Start, Interrupts, Superseded, Moves, interactions
  <2>o. \A s \in Runs, d \in Calls :
          /\ opStatus[<<s, d>>] = "awaiting_input" <=> opStatus'[<<s, d>>] = "awaiting_input"
          /\ opStatus'[<<s, d>>] = "running" => opStatus[<<s, d>>] = "running"
          /\ opStatus[<<s, d>>] = "absent" => opStatus'[<<s, d>>] = "absent"
    BY <2>1
  <2>p. \A s \in Runs, d \in Calls : Parked(s, d) => Parked(s, d)'
    BY <2>o DEF Parked
  <2>q. \A q \in Processes : q # p =>
          /\ pc'[q] = pc[q] /\ run'[q] = run[q]
          /\ pc[q] # "idle" => run[q] \in Runs /\ run[q] # r
    BY <2>1, <1>t, <1>k, <1>i DEF Unstarted
  <2>2. OneHolder'
    BY <2>1, <1>t, <1>k, <1>i
    DEF OneHolder, Holds, Active, Hands, Unstarted
  <2>3. ClaimableUnheld'
    <3>1. ASSUME NEW o \in Operations, Claimable(o)
          PROVE  o[1] \in Runs /\ o[2] \in Calls /\ o[1] # r /\ o = <<o[1], o[2]>>
      <4>1. o[1] \in Runs /\ o[2] \in Calls /\ o = <<o[1], o[2]>>
        BY <1>t
      <4>2. opStatus[<<o[1], o[2]>>] = "awaiting_input"
        BY <3>1, <1>i DEF ClaimableUnheld, Parked
      <4>3. opStatus[<<r, o[2]>>] = "absent"
        BY <4>1, <2>1, <1>i DEF Unstarted
      <4>. QED
        BY <4>1, <4>2, <4>3
    <3>. QED
      BY <3>1, <2>1, <2>p, <2>q, <1>t, <1>i
      DEF ClaimableUnheld, Claimable, Holds, Active, Hands
  <2>4. ResumeParked'
    BY <2>1, <2>p, <1>t, <1>k, <1>i DEF ResumeParked
  <2>5. WaitParked'
    BY <2>1, <2>p, <1>t, <1>k, <1>i DEF WaitParked
  <2>6. NothingForgotten'
    <3>1. ASSUME NEW q \in Processes, NEW d \in Calls, q # p
          PROVE  ForgetsNothing(q, d)'
      BY <3>1, <2>1, <2>o, <2>q, <1>w, <1>t, <1>k, <1>i
      DEF NothingForgotten, ForgetsNothing, Working, InHand
    <3>2. ASSUME NEW d \in Calls
          PROVE  ForgetsNothing(p, d)'
      <4>1. opStatus[<<r, d>>] = "absent" /\ opStatus'[<<r, d>>] = "absent" /\ run'[p] = r
        BY <2>1, <2>o, <1>t, <1>i DEF Unstarted
      <4>2. waiting'[p] # d
        BY <2>1, <1>t, <1>i DEF Phases
      <4>. QED
        BY <4>1, <4>2 DEF ForgetsNothing
    <3>. QED
      BY <3>1, <3>2 DEF NothingForgotten
  <2>7. Phases'
    BY <2>1, <1>t, <1>k, <1>i
    DEF Phases
  <2>8. Batches'
    BY <2>1, <1>t, <1>k, <1>i
    DEF Batches, Apart
  <2>9. InHandFresh'
    BY <2>1, <1>t, <1>k, <1>i
    DEF InHandFresh, Fresh, InHand, Phases
  <2>10. ResultsOpen'
    BY <2>1, <1>t, <1>k, <1>i
    DEF ResultsOpen, Open, Phases
  <2>11. AttachedBegun'
    BY <2>1, <1>t, <1>k, <1>i
    DEF AttachedBegun
  <2>12. Unstarted'
    <3>1. ASSUME NEW s \in Runs, runStatus'[s] = "absent", NEW d \in Calls
          PROVE  opStatus'[<<s, d>>] = "absent" /\ interaction'[<<s, d>>] = "none"
      BY <3>1, <2>1, <1>i DEF Unstarted
    <3>2. ASSUME NEW s \in Runs, runStatus'[s] = "absent", NEW q \in Processes
          PROVE  run'[q] # s
      BY <3>2, <2>1, <1>t, <1>i DEF Unstarted
    <3>. QED
      BY <3>1, <3>2 DEF Unstarted
  <2>13. EffectIsJournaled'
    BY <2>1, <1>t, <1>k, <1>i
    DEF EffectIsJournaled, Settled
  <2>14. AtMostOnceEffect'
    BY <2>1, <1>t, <1>k, <1>i
    DEF AtMostOnceEffect
  <2>. QED
    BY <2>2, <2>3, <2>4, <2>5, <2>6, <2>7, <2>8,
       <2>9, <2>10, <2>11, <2>12, <2>13, <2>14
<1>3. ASSUME NEW p \in Processes, NEW r \in Runs, NEW c \in Calls, Claim(p, r, c)
      PROVE  Goal
  <2>1. /\ pc[p] = "idle"
        /\ interaction[<<r, c>>] = "resolved"
        /\ interaction' = [interaction EXCEPT ![<<r, c>>] = "claimed"]
        /\ pc' = [pc EXCEPT ![p] = IF <<r, c>> \in attached THEN "claimed" ELSE "stray"]
        /\ run' = [run EXCEPT ![p] = r]
        /\ resumed' = [resumed EXCEPT ![p] = c]
        /\ UNCHANGED <<runStatus, opStatus, attached, effects, call, batch, ready,
                       result, waiting, verdict>>
    BY <1>3, <1>t, <1>k DEF Claim, MarksClaimed, Moves
  <2>2. OneHolder'
    BY <2>1, <1>t, <1>k, <1>i
    DEF OneHolder, Holds, Active, Hands, ClaimableUnheld, Claimable
  <2>3. ClaimableUnheld'
    BY <2>1, <1>t, <1>k, <1>i
    DEF ClaimableUnheld, Claimable, Parked, Holds, Active, Hands
  <2>4. ResumeParked'
    BY <2>1, <1>t, <1>k, <1>i
    DEF ResumeParked, Parked, ClaimableUnheld, Claimable, Holds, Active, Hands
  <2>5. WaitParked'
    BY <2>1, <1>t, <1>k, <1>i
    DEF WaitParked, Parked
  <2>6. NothingForgotten'
    BY <2>1, <1>t, <1>k, <1>i
    DEF NothingForgotten, ForgetsNothing, Working, InHand
  <2>7. Phases'
    BY <2>1, <1>t, <1>k, <1>i
    DEF Phases
  <2>8. Batches'
    BY <2>1, <1>t, <1>k, <1>i
    DEF Batches, Apart
  <2>9. InHandFresh'
    <3>1. \A q \in Processes, d \in Calls : InHand(q, d)' =>
            InHand(q, d) /\ q # p /\ run'[q] = run[q] /\ pc'[q] = pc[q]
      BY <2>1, <1>t, <1>i DEF InHand, Phases
    <3>. QED
      BY <3>1, <2>1, <1>i DEF InHandFresh, Fresh
  <2>10. ResultsOpen'
    <3>1. \A q \in Processes, d \in Calls : result'[q][d] # "none" =>
            result[q][d] # "none" /\ q # p /\ run'[q] = run[q]
      BY <2>1, <1>t, <1>k, <1>i DEF Phases
    <3>. QED
      BY <3>1, <2>1, <1>i DEF ResultsOpen, Open
  <2>11. AttachedBegun'
    BY <2>1, <1>t, <1>k, <1>i
    DEF AttachedBegun
  <2>12. Unstarted'
    BY <2>1, <1>t, <1>k, <1>i
    DEF Unstarted
  <2>13. EffectIsJournaled'
    BY <2>1, <1>t, <1>k, <1>i
    DEF EffectIsJournaled, Settled
  <2>14. AtMostOnceEffect'
    BY <2>1, <1>t, <1>k, <1>i
    DEF AtMostOnceEffect
  <2>. QED
    BY <2>2, <2>3, <2>4, <2>5, <2>6, <2>7, <2>8,
       <2>9, <2>10, <2>11, <2>12, <2>13, <2>14
<1>4. ASSUME NEW p \in Processes, ResumeRun(p)
      PROVE  Goal
  <2>1. /\ pc[p] = "claimed"
        /\ runStatus' = [runStatus EXCEPT ![run[p]] = "running"]
        /\ pc' = [pc EXCEPT ![p] = "resuming"]
        /\ UNCHANGED <<opStatus, interaction, attached, effects, run, resumed, call,
                       batch, ready, result, waiting, verdict>>
    BY <1>4, <1>t, <1>k DEF ResumeRun, Resumes, Moves, interactions
  <2>2. OneHolder'
    BY <2>1, <1>t, <1>k, <1>i
    DEF OneHolder, Holds, Active, Hands
  <2>3. ClaimableUnheld'
    BY <2>1, <1>t, <1>k, <1>i
    DEF ClaimableUnheld, Claimable, Parked, Holds, Active, Hands
  <2>4. ResumeParked'
    BY <2>1, <1>t, <1>k, <1>i
    DEF ResumeParked, Parked
  <2>5. WaitParked'
    BY <2>1, <1>t, <1>k, <1>i
    DEF WaitParked, Parked
  <2>6. NothingForgotten'
    BY <2>1, <1>t, <1>k, <1>i
    DEF NothingForgotten, ForgetsNothing, Working, InHand
  <2>7. Phases'
    BY <2>1, <1>t, <1>k, <1>i
    DEF Phases
  <2>8. Batches'
    BY <2>1, <1>t, <1>k, <1>i
    DEF Batches, Apart
  <2>9. InHandFresh'
    BY <2>1, <1>t, <1>k, <1>i
    DEF InHandFresh, Fresh, InHand
  <2>10. ResultsOpen'
    BY <2>1, <1>t, <1>k, <1>i
    DEF ResultsOpen, Open
  <2>11. AttachedBegun'
    BY <2>1, <1>t, <1>k, <1>i
    DEF AttachedBegun
  <2>12. Unstarted'
    BY <2>1, <1>t, <1>k, <1>i
    DEF Unstarted
  <2>13. EffectIsJournaled'
    BY <2>1, <1>t, <1>k, <1>i
    DEF EffectIsJournaled, Settled
  <2>14. AtMostOnceEffect'
    BY <2>1, <1>t, <1>k, <1>i
    DEF AtMostOnceEffect
  <2>. QED
    BY <2>2, <2>3, <2>4, <2>5, <2>6, <2>7, <2>8,
       <2>9, <2>10, <2>11, <2>12, <2>13, <2>14
<1>5. ASSUME NEW p \in Processes, StrayResume(p)
      PROVE  Goal
  <2>1. /\ pc[p] = "stray"
        /\ runStatus' = [runStatus EXCEPT ![run[p]] = "running"]
        /\ \A q \in Processes : q # p => pc'[q] = pc[q] /\ run'[q] = run[q]
                /\ resumed'[q] = resumed[q] /\ call'[q] = call[q]
                /\ batch'[q] = batch[q] /\ ready'[q] = ready[q]
                /\ result'[q] = result[q] /\ waiting'[q] = waiting[q]
                /\ verdict'[q] = verdict[q]
        /\ pc'[p] = "idle"
        /\ run'[p] = None /\ batch'[p] = {} /\ ready'[p] = {}
        /\ waiting'[p] = None
        /\ result'[p] = NoResults
        /\ UNCHANGED <<opStatus, interaction, attached, effects>>
    BY <1>5, <1>t, <1>k DEF StrayResume, Resumes, Forget, interactions, NoResults
  <2>h. \A q \in Processes : Holds(q)' => q # p /\ Holds(q) /\ run'[q] = run[q]
    BY <2>1 DEF Holds, Active, Hands
  <2>2. OneHolder'
    BY <2>h, <1>i DEF OneHolder
  <2>3. ClaimableUnheld'
    BY <2>1, <2>h, <1>t, <1>i DEF ClaimableUnheld, Claimable, Parked
  <2>4. ResumeParked'
    BY <2>1, <1>t, <1>k, <1>i
    DEF ResumeParked, Parked
  <2>5. WaitParked'
    BY <2>1, <1>t, <1>k, <1>i
    DEF WaitParked, Parked
  <2>6. NothingForgotten'
    BY <2>1, <1>i DEF NothingForgotten, ForgetsNothing, Working, InHand
  <2>7. Phases'
    BY <2>1, <1>t, <1>k, <1>i
    DEF Phases
  <2>8. Batches'
    BY <2>1, <1>t, <1>k, <1>i
    DEF Batches, Apart
  <2>9. InHandFresh'
    BY <2>1, <1>t, <1>k, <1>i
    DEF InHandFresh, Fresh, InHand
  <2>10. ResultsOpen'
    BY <2>1, <1>t, <1>k, <1>i
    DEF ResultsOpen, Open
  <2>11. AttachedBegun'
    BY <2>1, <1>t, <1>k, <1>i
    DEF AttachedBegun
  <2>12. Unstarted'
    BY <2>1, <1>t, <1>k, <1>i
    DEF Unstarted
  <2>13. EffectIsJournaled'
    BY <2>1, <1>t, <1>k, <1>i
    DEF EffectIsJournaled, Settled
  <2>14. AtMostOnceEffect'
    BY <2>1, <1>t, <1>k, <1>i
    DEF AtMostOnceEffect
  <2>. QED
    BY <2>2, <2>3, <2>4, <2>5, <2>6, <2>7, <2>8,
       <2>9, <2>10, <2>11, <2>12, <2>13, <2>14
<1>6. ASSUME NEW p \in Processes, MarkResumed(p)
      PROVE  Goal
  <2>1. /\ pc[p] = "resuming"
        /\ run[p] \in Runs /\ resumed[p] \in Calls
        /\ \A s \in Runs, d \in Calls :
                s # run[p] \/ d # resumed[p] => opStatus'[<<s, d>>] = opStatus[<<s, d>>]
        /\ opStatus'[<<run[p], resumed[p]>>] = "running"
        /\ pc' = [pc EXCEPT ![p] = "redo"]
        /\ UNCHANGED <<runStatus, interaction, attached, effects, run, resumed, call,
                       batch, ready, result, waiting, verdict>>
    BY <1>6, <1>t, <1>k DEF MarkResumed, MarkRunning, Moves, interactions
  <2>b. Holds(p)
    BY <2>1 DEF Holds, Active
  <2>s. \A q \in Processes : q # p /\ Holds(q) => \A d \in Calls :
          /\ opStatus'[Op(q, d)] = opStatus[Op(q, d)]
          /\ effects'[Op(q, d)] = effects[Op(q, d)]
          /\ (Op(q, d) \in attached') = (Op(q, d) \in attached)
    BY <2>1, <2>b, <1>a, <1>w, <1>t
  <2>o. \A s \in Runs, d \in Calls :
          s # run[p] => opStatus'[<<s, d>>] = opStatus[<<s, d>>]
    BY <2>1, <2>b, <1>t
  <2>p. \A s \in Runs, d \in Calls : s # run[p] /\ Parked(s, d) => Parked(s, d)'
    BY <2>o, <2>b DEF Parked
  <2>f. effects[<<run[p], resumed[p]>>] = 0
    BY <2>1, <1>t, <1>i, <1>e DEF ResumeParked, Parked
  <2>y. /\ pc[p] = "resuming" /\ pc'[p] = "redo" /\ waiting[p] = None /\ None \notin Calls
        /\ run'[p] = run[p] /\ resumed'[p] = resumed[p]
        /\ waiting'[p] = waiting[p]
        /\ \A d \in Calls : d \notin ready'[p] /\ result'[p][d] = "none"
        /\ \A d \in Calls : d # resumed[p] => opStatus'[<<run[p], d>>] = opStatus[<<run[p], d>>]
        /\ opStatus'[<<run[p], resumed[p]>>] = "running"
        /\ \A d \in Calls : d # resumed[p] => opStatus[<<run[p], d>>] \notin {"running", "awaiting_input"}
        /\ effects' = effects /\ attached' = attached
    BY <2>1, <1>t, <1>k, <1>i DEF Phases, ResumeParked, Parked
  <2>2. OneHolder'
    BY <2>1, <1>t, <1>k, <1>i
    DEF OneHolder, Holds, Active, Hands
  <2>3. ClaimableUnheld'
    BY <2>1, <2>p, <2>b, <1>w, <1>t, <1>i
    DEF ClaimableUnheld, Claimable, Holds, Active, Hands
  <2>4. ResumeParked'
    BY <2>1, <2>p, <2>b, <1>a, <1>w, <1>t, <1>k, <1>i DEF ResumeParked
  <2>5. WaitParked'
    BY <2>1, <2>p, <2>b, <1>a, <1>w, <1>t, <1>k, <1>i DEF WaitParked
  <2>6. NothingForgotten'
    <3>1. ASSUME NEW q \in Processes, NEW d \in Calls, q # p
          PROVE  ForgetsNothing(q, d)'
      BY <3>1, <2>1, <2>s, <1>w, <1>t, <1>i
      DEF NothingForgotten, ForgetsNothing, Working, InHand
    <3>2. ASSUME NEW d \in Calls
          PROVE  ForgetsNothing(p, d)'
      <4>1. ForgetsNothing(p, d) /\ Apart(p, d) /\ Fresh(p, d) /\ Open(p, d)
        BY <1>i DEF NothingForgotten, Batches, InHandFresh, ResultsOpen
      <4>2. CASE d = resumed[p]
        BY <4>1, <4>2, <2>y DEF ForgetsNothing, Working, InHand
      <4>3. CASE d # resumed[p]
        BY <4>1, <4>3, <2>y DEF ForgetsNothing, Working, InHand
      <4>. QED
        BY <4>2, <4>3
    <3>. QED
      BY <3>1, <3>2 DEF NothingForgotten
  <2>7. Phases'
    BY <2>1, <1>t, <1>k, <1>i
    DEF Phases
  <2>8. Batches'
    BY <2>1, <1>t, <1>k, <1>i
    DEF Batches, Apart
  <2>9. InHandFresh'
    <3>1. ASSUME NEW q \in Processes, NEW d \in Calls, q # p
          PROVE  Fresh(q, d)'
      BY <3>1, <2>1, <2>s, <1>w, <1>t, <1>i
      DEF InHandFresh, Fresh, InHand
    <3>2. ASSUME NEW d \in Calls
          PROVE  Fresh(p, d)'
      BY <2>1, <2>f, <1>t, <1>i
      DEF InHandFresh, Fresh, InHand, Phases
    <3>. QED
      BY <3>1, <3>2 DEF InHandFresh
  <2>10. ResultsOpen'
    <3>1. ASSUME NEW q \in Processes, NEW d \in Calls, q # p
          PROVE  Open(q, d)'
      BY <3>1, <2>1, <2>s, <1>w, <1>t, <1>i
      DEF ResultsOpen, Open
    <3>2. ASSUME NEW d \in Calls
          PROVE  Open(p, d)'
      BY <2>1, <1>t, <1>k, <1>i
      DEF ResultsOpen, Open, Phases
    <3>. QED
      BY <3>1, <3>2 DEF ResultsOpen
  <2>11. AttachedBegun'
    <3>1. ASSUME NEW s \in Runs, NEW d \in Calls, s # run[p] \/ d # resumed[p]
          PROVE  <<s, d>> \in attached => opStatus'[<<s, d>>] \notin {"absent", "planned"}
      BY <3>1, <2>1, <1>o, <1>i DEF AttachedBegun
    <3>2. ASSUME NEW s \in Runs, NEW d \in Calls, s = run[p], d = resumed[p]
          PROVE  <<s, d>> \in attached => opStatus'[<<s, d>>] \notin {"absent", "planned"}
      BY <3>2, <2>1, <1>t DEF AttachedBegun
    <3>. QED
      BY <3>1, <3>2, <2>1, <1>t, <1>o DEF AttachedBegun
  <2>12. Unstarted'
    BY <2>1, <1>t, <1>k, <1>i
    DEF Unstarted
  <2>13. EffectIsJournaled'
    <3>1. ASSUME NEW s \in Runs, NEW d \in Calls, s # run[p] \/ d # resumed[p]
          PROVE  \/ effects'[<<s, d>>] = 0
                 \/ opStatus'[<<s, d>>] \in {"running", "interrupted", "succeeded", "failed"}
      BY <3>1, <2>1, <1>e
    <3>2. ASSUME NEW s \in Runs, NEW d \in Calls, s = run[p], d = resumed[p]
          PROVE  \/ effects'[<<s, d>>] = 0
                 \/ opStatus'[<<s, d>>] \in {"running", "interrupted", "succeeded", "failed"}
      BY <3>2, <2>1, <1>e
    <3>. QED
      BY <3>1, <3>2, <1>o DEF EffectIsJournaled, Settled
  <2>14. AtMostOnceEffect'
    BY <2>1, <1>t, <1>k, <1>i
    DEF AtMostOnceEffect
  <2>. QED
    BY <2>2, <2>3, <2>4, <2>5, <2>6, <2>7, <2>8,
       <2>9, <2>10, <2>11, <2>12, <2>13, <2>14
<1>7. ASSUME NEW p \in Processes, Redo(p)
      PROVE  Goal
  <2>1. /\ pc[p] = "redo"
        /\ run[p] \in Runs /\ resumed[p] \in Calls
        /\ pc' = [pc EXCEPT ![p] = "tools"]
        /\ \A s \in Runs, d \in Calls :
                s # run[p] \/ d # resumed[p] => effects'[<<s, d>>] = effects[<<s, d>>]
        /\ effects'[<<run[p], resumed[p]>>] \in {effects[Op(p, resumed[p])], effects[Op(p, resumed[p])] + 1}
        /\ \A q \in Processes : q # p => result'[q] = result[q]
        /\ \A d \in Calls : d # resumed[p] => result'[p][d] = result[p][d]
        /\ result'[p][resumed[p]] \in Settled
        /\ UNCHANGED <<runStatus, opStatus, interaction, attached, run, resumed,
                       call, batch, ready, waiting, verdict>>
    BY <1>7, <1>t, <1>k DEF Redo, Execute, Moves, interactions, Settled
  <2>b. Holds(p)
    BY <2>1 DEF Holds, Active
  <2>s. \A q \in Processes : q # p /\ Holds(q) => \A d \in Calls :
          /\ opStatus'[Op(q, d)] = opStatus[Op(q, d)]
          /\ effects'[Op(q, d)] = effects[Op(q, d)]
          /\ (Op(q, d) \in attached') = (Op(q, d) \in attached)
    BY <2>1, <2>b, <1>a, <1>w, <1>t
  <2>o. \A s \in Runs, d \in Calls :
          s # run[p] => opStatus'[<<s, d>>] = opStatus[<<s, d>>]
    BY <2>1, <2>b, <1>t
  <2>p. \A s \in Runs, d \in Calls : s # run[p] /\ Parked(s, d) => Parked(s, d)'
    BY <2>o, <2>b DEF Parked
  <2>f. effects[Op(p, resumed[p])] = 0 /\ opStatus[Op(p, resumed[p])] \in {"running", "interrupted"}
    BY <2>1, <1>i DEF InHandFresh, Fresh, InHand
  <2>g. \A d \in Calls : result[p][d] = "none"
    BY <2>1, <1>k, <1>i DEF Phases
  <2>y. /\ pc[p] = "redo" /\ pc'[p] = "tools" /\ None \notin Calls
        /\ run'[p] = run[p] /\ resumed'[p] = resumed[p] /\ ready'[p] = ready[p]
        /\ opStatus' = opStatus /\ attached' = attached
        /\ \A d \in Calls : d # resumed[p] => result'[p][d] = "none"
        /\ result'[p][resumed[p]] \in {"succeeded", "failed"}
        /\ opStatus[<<run[p], resumed[p]>>] \in {"running", "interrupted"}
    BY <2>1, <2>f, <2>g, <1>t DEF Settled
  <2>2. OneHolder'
    BY <2>1, <1>t, <1>k, <1>i
    DEF OneHolder, Holds, Active, Hands
  <2>3. ClaimableUnheld'
    BY <2>1, <1>t, <1>k, <1>i
    DEF ClaimableUnheld, Claimable, Parked, Holds, Active, Hands
  <2>4. ResumeParked'
    BY <2>1, <1>t, <1>k, <1>i
    DEF ResumeParked, Parked
  <2>5. WaitParked'
    BY <2>1, <1>t, <1>k, <1>i
    DEF WaitParked, Parked
  <2>6. NothingForgotten'
    <3>1. ASSUME NEW q \in Processes, NEW d \in Calls, q # p
          PROVE  ForgetsNothing(q, d)'
      BY <3>1, <2>1, <2>s, <1>w, <1>t, <1>i
      DEF NothingForgotten, ForgetsNothing, Working, InHand
    <3>2. ASSUME NEW d \in Calls
          PROVE  ForgetsNothing(p, d)'
      BY <2>1, <1>t, <1>k, <1>i
      DEF NothingForgotten, ForgetsNothing, Working, InHand, Phases, Settled
    <3>. QED
      BY <3>1, <3>2 DEF NothingForgotten
  <2>7. Phases'
    BY <2>1, <1>t, <1>k, <1>i
    DEF Phases
  <2>8. Batches'
    <3>1. ASSUME NEW q \in Processes, NEW d \in Calls, q # p
          PROVE  Apart(q, d)'
      BY <3>1, <2>1, <2>s, <1>w, <1>t, <1>i
      DEF Batches, Apart
    <3>2. ASSUME NEW d \in Calls
          PROVE  Apart(p, d)'
      BY <2>1, <1>t, <1>k, <1>i
      DEF Batches, Apart, Phases, Settled
    <3>. QED
      BY <3>1, <3>2 DEF Batches
  <2>9. InHandFresh'
    <3>1. ASSUME NEW q \in Processes, NEW d \in Calls, q # p
          PROVE  Fresh(q, d)'
      BY <3>1, <2>1, <2>s, <1>w, <1>t, <1>i
      DEF InHandFresh, Fresh, InHand
    <3>2. ASSUME NEW d \in Calls
          PROVE  Fresh(p, d)'
      BY <2>1, <1>t, <1>k, <1>i
      DEF InHandFresh, Fresh, InHand, Phases, Settled
    <3>. QED
      BY <3>1, <3>2 DEF InHandFresh
  <2>10. ResultsOpen'
    <3>1. ASSUME NEW q \in Processes, NEW d \in Calls, q # p
          PROVE  Open(q, d)'
      BY <3>1, <2>1, <2>s, <1>w, <1>t, <1>i
      DEF ResultsOpen, Open
    <3>2. ASSUME NEW d \in Calls
          PROVE  Open(p, d)'
      <4>1. ForgetsNothing(p, d) /\ Apart(p, d) /\ Fresh(p, d) /\ Open(p, d)
        BY <1>i DEF NothingForgotten, Batches, InHandFresh, ResultsOpen
      <4>2. CASE d = resumed[p]
        BY <4>1, <4>2, <2>y DEF Open
      <4>3. CASE d # resumed[p]
        BY <4>1, <4>3, <2>y DEF Open
      <4>. QED
        BY <4>2, <4>3
    <3>. QED
      BY <3>1, <3>2 DEF ResultsOpen
  <2>11. AttachedBegun'
    BY <2>1, <1>t, <1>k, <1>i
    DEF AttachedBegun
  <2>12. Unstarted'
    BY <2>1, <1>t, <1>k, <1>i
    DEF Unstarted
  <2>13. EffectIsJournaled'
    <3>1. ASSUME NEW s \in Runs, NEW d \in Calls, s # run[p] \/ d # resumed[p]
          PROVE  \/ effects'[<<s, d>>] = 0
                 \/ opStatus'[<<s, d>>] \in {"running", "interrupted", "succeeded", "failed"}
      BY <3>1, <2>1, <1>e
    <3>2. ASSUME NEW s \in Runs, NEW d \in Calls, s = run[p], d = resumed[p]
          PROVE  \/ effects'[<<s, d>>] = 0
                 \/ opStatus'[<<s, d>>] \in {"running", "interrupted", "succeeded", "failed"}
      BY <3>2, <2>1, <2>f
    <3>. QED
      BY <3>1, <3>2, <1>o DEF EffectIsJournaled, Settled
  <2>14. AtMostOnceEffect'
    <3>1. ASSUME NEW s \in Runs, NEW d \in Calls, s # run[p] \/ d # resumed[p]
          PROVE  effects'[<<s, d>>] <= 1
      BY <3>1, <2>1, <1>e
    <3>2. ASSUME NEW s \in Runs, NEW d \in Calls, s = run[p], d = resumed[p]
          PROVE  effects'[<<s, d>>] <= 1
      BY <3>2, <2>1, <2>f
    <3>. QED
      BY <3>1, <3>2, <1>o DEF AtMostOnceEffect
  <2>. QED
    BY <2>2, <2>3, <2>4, <2>5, <2>6, <2>7, <2>8,
       <2>9, <2>10, <2>11, <2>12, <2>13, <2>14
<1>8. ASSUME NEW p \in Processes, Discard(p) \/ Answer(p) \/ Exhausted(p)
      PROVE  Goal
  <2>1. /\ pc[p] = "model"
        /\ pc' = [pc EXCEPT ![p] = "finish"]
        /\ \E status \in {"completed", "failed", "cancelled"} :
                verdict' = [verdict EXCEPT ![p] = status]
        /\ UNCHANGED <<runStatus, opStatus, interaction, attached, effects, run,
                       resumed, call, batch, ready, result, waiting>>
    BY <1>8, <1>t, <1>k DEF Discard, Answer, Exhausted, Ends, Moves, durable,
       interactions, Verdicts
  <2>2. OneHolder'
    BY <2>1, <1>t, <1>k, <1>i
    DEF OneHolder, Holds, Active, Hands
  <2>3. ClaimableUnheld'
    BY <2>1, <1>t, <1>k, <1>i
    DEF ClaimableUnheld, Claimable, Parked, Holds, Active, Hands
  <2>4. ResumeParked'
    BY <2>1, <1>t, <1>k, <1>i
    DEF ResumeParked, Parked
  <2>5. WaitParked'
    BY <2>1, <1>t, <1>k, <1>i
    DEF WaitParked, Parked
  <2>6. NothingForgotten'
    BY <2>1, <1>t, <1>k, <1>i
    DEF NothingForgotten, ForgetsNothing, Working, InHand
  <2>7. Phases'
    BY <2>1, <1>t, <1>k, <1>i
    DEF Phases
  <2>8. Batches'
    BY <2>1, <1>t, <1>k, <1>i
    DEF Batches, Apart
  <2>9. InHandFresh'
    BY <2>1, <1>t, <1>k, <1>i
    DEF InHandFresh, Fresh, InHand
  <2>10. ResultsOpen'
    BY <2>1, <1>t, <1>k, <1>i
    DEF ResultsOpen, Open
  <2>11. AttachedBegun'
    BY <2>1, <1>t, <1>k, <1>i
    DEF AttachedBegun
  <2>12. Unstarted'
    BY <2>1, <1>t, <1>k, <1>i
    DEF Unstarted
  <2>13. EffectIsJournaled'
    BY <2>1, <1>t, <1>k, <1>i
    DEF EffectIsJournaled, Settled
  <2>14. AtMostOnceEffect'
    BY <2>1, <1>t, <1>k, <1>i
    DEF AtMostOnceEffect
  <2>. QED
    BY <2>2, <2>3, <2>4, <2>5, <2>6, <2>7, <2>8,
       <2>9, <2>10, <2>11, <2>12, <2>13, <2>14
<1>9. ASSUME NEW p \in Processes, FollowUp(p)
      PROVE  Goal
  <2>1. /\ pc[p] = "model"
        /\ pc' = [pc EXCEPT ![p] = "model"]
        /\ UNCHANGED <<runStatus, opStatus, interaction, attached, effects, run,
                       resumed, call, batch, ready, result, waiting, verdict>>
    BY <1>9, <1>t, <1>k DEF FollowUp, Moves, durable, interactions
  <2>2. OneHolder'
    BY <2>1, <1>t, <1>k, <1>i
    DEF OneHolder, Holds, Active, Hands
  <2>3. ClaimableUnheld'
    BY <2>1, <1>t, <1>k, <1>i
    DEF ClaimableUnheld, Claimable, Parked, Holds, Active, Hands
  <2>4. ResumeParked'
    BY <2>1, <1>t, <1>k, <1>i
    DEF ResumeParked, Parked
  <2>5. WaitParked'
    BY <2>1, <1>t, <1>k, <1>i
    DEF WaitParked, Parked
  <2>6. NothingForgotten'
    BY <2>1, <1>t, <1>k, <1>i
    DEF NothingForgotten, ForgetsNothing, Working, InHand
  <2>7. Phases'
    BY <2>1, <1>t, <1>k, <1>i
    DEF Phases
  <2>8. Batches'
    BY <2>1, <1>t, <1>k, <1>i
    DEF Batches, Apart
  <2>9. InHandFresh'
    BY <2>1, <1>t, <1>k, <1>i
    DEF InHandFresh, Fresh, InHand
  <2>10. ResultsOpen'
    BY <2>1, <1>t, <1>k, <1>i
    DEF ResultsOpen, Open
  <2>11. AttachedBegun'
    BY <2>1, <1>t, <1>k, <1>i
    DEF AttachedBegun
  <2>12. Unstarted'
    BY <2>1, <1>t, <1>k, <1>i
    DEF Unstarted
  <2>13. EffectIsJournaled'
    BY <2>1, <1>t, <1>k, <1>i
    DEF EffectIsJournaled, Settled
  <2>14. AtMostOnceEffect'
    BY <2>1, <1>t, <1>k, <1>i
    DEF AtMostOnceEffect
  <2>. QED
    BY <2>2, <2>3, <2>4, <2>5, <2>6, <2>7, <2>8,
       <2>9, <2>10, <2>11, <2>12, <2>13, <2>14
<1>10. ASSUME NEW p \in Processes, NEW calls \in SUBSET Calls, AskForTools(p, calls)
       PROVE  Goal
  <2>1. /\ pc[p] = "model"
        /\ pc' = [pc EXCEPT ![p] = "tools"]
        /\ batch' = [batch EXCEPT ![p] = calls]
        /\ UNCHANGED <<runStatus, opStatus, interaction, attached, effects, run,
                       resumed, call, ready, result, waiting, verdict>>
    BY <1>10, <1>t, <1>k DEF AskForTools, Moves, durable, interactions
  <2>2. OneHolder'
    BY <2>1, <1>t, <1>k, <1>i
    DEF OneHolder, Holds, Active, Hands
  <2>3. ClaimableUnheld'
    BY <2>1, <1>t, <1>k, <1>i
    DEF ClaimableUnheld, Claimable, Parked, Holds, Active, Hands
  <2>4. ResumeParked'
    BY <2>1, <1>t, <1>k, <1>i
    DEF ResumeParked, Parked
  <2>5. WaitParked'
    BY <2>1, <1>t, <1>k, <1>i
    DEF WaitParked, Parked
  <2>6. NothingForgotten'
    BY <2>1, <1>t, <1>k, <1>i
    DEF NothingForgotten, ForgetsNothing, Working, InHand
  <2>7. Phases'
    BY <2>1, <1>t, <1>k, <1>i
    DEF Phases
  <2>8. Batches'
    BY <2>1, <1>t, <1>i DEF Batches, Apart, Phases
  <2>9. InHandFresh'
    BY <2>1, <1>t, <1>k, <1>i
    DEF InHandFresh, Fresh, InHand
  <2>10. ResultsOpen'
    BY <2>1, <1>t, <1>k, <1>i
    DEF ResultsOpen, Open
  <2>11. AttachedBegun'
    BY <2>1, <1>t, <1>k, <1>i
    DEF AttachedBegun
  <2>12. Unstarted'
    BY <2>1, <1>t, <1>k, <1>i
    DEF Unstarted
  <2>13. EffectIsJournaled'
    BY <2>1, <1>t, <1>k, <1>i
    DEF EffectIsJournaled, Settled
  <2>14. AtMostOnceEffect'
    BY <2>1, <1>t, <1>k, <1>i
    DEF AtMostOnceEffect
  <2>. QED
    BY <2>2, <2>3, <2>4, <2>5, <2>6, <2>7, <2>8,
       <2>9, <2>10, <2>11, <2>12, <2>13, <2>14
<1>11. ASSUME NEW p \in Processes, NEW c \in Calls, Plan(p, c)
       PROVE  Goal
  <2>v. pc[p] = "tools" /\ c \in batch[p] /\ run[p] \in Runs
    BY <1>11, <1>k DEF Plan, Moves
  <2>u. opStatus' = [opStatus EXCEPT ![<<run[p], c>>] =
                               IF opStatus[<<run[p], c>>] = "absent"
                               THEN "planned" ELSE opStatus[<<run[p], c>>]]
    BY <1>11 DEF Plan
  <2>r. /\ \A s \in Runs, d \in Calls :
                s # run[p] \/ d # c => opStatus'[<<s, d>>] = opStatus[<<s, d>>]
        /\ \/ opStatus'[<<run[p], c>>] = opStatus[<<run[p], c>>]
           \/ /\ opStatus[<<run[p], c>>] = "absent"
              /\ opStatus'[<<run[p], c>>] = "planned"
    BY <2>v, <2>u, <1>t
  <2>1. /\ pc[p] = "tools"
        /\ run[p] \in Runs
        /\ c \in batch[p]
        /\ pc' = [pc EXCEPT ![p] = "mark"]
        /\ call' = [call EXCEPT ![p] = c]
        /\ batch' = [batch EXCEPT ![p] = batch[p] \ {c}]
        /\ \A s \in Runs, d \in Calls :
                s # run[p] \/ d # c => opStatus'[<<s, d>>] = opStatus[<<s, d>>]
        /\ \/ opStatus'[<<run[p], c>>] = opStatus[Op(p, c)]
           \/ (opStatus[Op(p, c)] = "absent" /\ opStatus'[<<run[p], c>>] = "planned")
        /\ UNCHANGED <<runStatus, interaction, attached, effects, run, resumed,
                       ready, result, waiting, verdict>>
    BY <1>11, <2>v, <2>u, <2>r, <1>t DEF Plan, Moves, interactions
  <2>b. Holds(p)
    BY <2>1 DEF Holds, Active
  <2>s. \A q \in Processes : q # p /\ Holds(q) => \A d \in Calls :
          /\ opStatus'[Op(q, d)] = opStatus[Op(q, d)]
          /\ effects'[Op(q, d)] = effects[Op(q, d)]
          /\ (Op(q, d) \in attached') = (Op(q, d) \in attached)
    BY <2>1, <2>b, <1>a, <1>w, <1>t
  <2>o. \A s \in Runs, d \in Calls :
          s # run[p] => opStatus'[<<s, d>>] = opStatus[<<s, d>>]
    BY <2>1, <2>b, <1>t
  <2>p. \A s \in Runs, d \in Calls : s # run[p] /\ Parked(s, d) => Parked(s, d)'
    BY <2>o, <2>b DEF Parked
  <2>f. waiting[p] = None /\ result[p] = NoResults
    BY <2>1, <1>i DEF Phases
  <2>g. opStatus[<<run[p], c>>] # "awaiting_input" /\ waiting[p] = None
        /\ \A d \in Calls : result[p][d] = "none"
    BY <2>1, <2>f, <1>t, <1>k, <1>i DEF NothingForgotten, ForgetsNothing, Working
  <2>y. /\ pc[p] = "tools" /\ pc'[p] = "mark" /\ waiting[p] = None /\ None \notin Calls
        /\ run'[p] = run[p] /\ resumed'[p] = resumed[p] /\ ready'[p] = ready[p]
        /\ waiting'[p] = waiting[p] /\ result'[p] = result[p]
        /\ \A d \in Calls : result[p][d] = "none"
        /\ \A d \in Calls : d # c => opStatus'[<<run[p], d>>] = opStatus[<<run[p], d>>]
        /\ \/ opStatus'[<<run[p], c>>] = opStatus[<<run[p], c>>]
           \/ opStatus'[<<run[p], c>>] = "planned"
        /\ opStatus[<<run[p], c>>] # "awaiting_input"
    BY <2>1, <2>g, <1>t, <1>k
  <2>2. OneHolder'
    BY <2>1, <1>t, <1>k, <1>i
    DEF OneHolder, Holds, Active, Hands
  <2>3. ClaimableUnheld'
    BY <2>1, <2>p, <2>b, <1>w, <1>t, <1>i
    DEF ClaimableUnheld, Claimable, Holds, Active, Hands
  <2>4. ResumeParked'
    BY <2>1, <2>p, <2>b, <1>a, <1>w, <1>t, <1>k, <1>i DEF ResumeParked
  <2>5. WaitParked'
    BY <2>1, <2>p, <2>b, <1>a, <1>w, <1>t, <1>k, <1>i DEF WaitParked
  <2>6. NothingForgotten'
    <3>1. ASSUME NEW q \in Processes, NEW d \in Calls, q # p
          PROVE  ForgetsNothing(q, d)'
      BY <3>1, <2>1, <2>s, <1>w, <1>t, <1>i
      DEF NothingForgotten, ForgetsNothing, Working, InHand
    <3>2. ASSUME NEW d \in Calls
          PROVE  ForgetsNothing(p, d)'
      <4>1. ForgetsNothing(p, d) /\ Apart(p, d) /\ Fresh(p, d) /\ Open(p, d)
        BY <1>i DEF NothingForgotten, Batches, InHandFresh, ResultsOpen
      <4>2. CASE d = c
        BY <4>1, <4>2, <2>y DEF ForgetsNothing, Working, InHand
      <4>3. CASE d # c
        BY <4>1, <4>3, <2>y DEF ForgetsNothing, Working, InHand
      <4>. QED
        BY <4>2, <4>3
    <3>. QED
      BY <3>1, <3>2 DEF NothingForgotten
  <2>7. Phases'
    <3>1. c \notin ready[p] /\ result[p] = NoResults /\ waiting[p] = None
      BY <2>1, <1>i DEF Phases, Batches, Apart
    <3>. QED
      BY <3>1, <2>1, <1>t, <1>i DEF Phases
  <2>8. Batches'
    BY <2>1, <1>t, <1>k, <1>i
    DEF Batches, Apart
  <2>9. InHandFresh'
    <3>1. ASSUME NEW q \in Processes, NEW d \in Calls, q # p
          PROVE  Fresh(q, d)'
      BY <3>1, <2>1, <2>s, <1>w, <1>t, <1>i
      DEF InHandFresh, Fresh, InHand
    <3>2. ASSUME NEW d \in Calls
          PROVE  Fresh(p, d)'
      BY <2>1, <1>t, <1>k, <1>i
      DEF InHandFresh, Fresh, InHand
    <3>. QED
      BY <3>1, <3>2 DEF InHandFresh
  <2>10. ResultsOpen'
    <3>1. ASSUME NEW q \in Processes, NEW d \in Calls, q # p
          PROVE  Open(q, d)'
      BY <3>1, <2>1, <2>s, <1>w, <1>t, <1>i
      DEF ResultsOpen, Open
    <3>2. ASSUME NEW d \in Calls
          PROVE  Open(p, d)'
      BY <2>1, <1>t, <1>k, <1>i
      DEF ResultsOpen, Open
    <3>. QED
      BY <3>1, <3>2 DEF ResultsOpen
  <2>11. AttachedBegun'
    <3>1. ASSUME NEW s \in Runs, NEW d \in Calls, s # run[p] \/ d # c
          PROVE  <<s, d>> \in attached => opStatus'[<<s, d>>] \notin {"absent", "planned"}
      BY <3>1, <2>1, <1>o, <1>i DEF AttachedBegun
    <3>2. ASSUME NEW s \in Runs, NEW d \in Calls, s = run[p], d = c
          PROVE  <<s, d>> \in attached => opStatus'[<<s, d>>] \notin {"absent", "planned"}
      BY <3>2, <2>1, <1>t, <1>o, <1>i DEF AttachedBegun
    <3>. QED
      BY <3>1, <3>2, <2>1, <1>t, <1>o DEF AttachedBegun
  <2>12. Unstarted'
    BY <2>1, <1>t, <1>k, <1>i
    DEF Unstarted
  <2>13. EffectIsJournaled'
    <3>1. ASSUME NEW s \in Runs, NEW d \in Calls, s # run[p] \/ d # c
          PROVE  \/ effects'[<<s, d>>] = 0
                 \/ opStatus'[<<s, d>>] \in {"running", "interrupted", "succeeded", "failed"}
      BY <3>1, <2>1, <1>e
    <3>2. ASSUME NEW s \in Runs, NEW d \in Calls, s = run[p], d = c
          PROVE  \/ effects'[<<s, d>>] = 0
                 \/ opStatus'[<<s, d>>] \in {"running", "interrupted", "succeeded", "failed"}
      BY <3>2, <2>1, <1>e
    <3>. QED
      BY <3>1, <3>2, <1>o DEF EffectIsJournaled, Settled
  <2>14. AtMostOnceEffect'
    BY <2>1, <1>t, <1>k, <1>i
    DEF AtMostOnceEffect
  <2>. QED
    BY <2>2, <2>3, <2>4, <2>5, <2>6, <2>7, <2>8,
       <2>9, <2>10, <2>11, <2>12, <2>13, <2>14
<1>12. ASSUME NEW p \in Processes, NEW c \in Calls, Dispatch(p, c)
       PROVE  Goal
  <2>1. /\ pc[p] = "tools"
        /\ run[p] \in Runs
        /\ batch[p] = {}
        /\ c \in ready[p]
        /\ ready' = [ready EXCEPT ![p] = ready[p] \ {c}]
        /\ \A s \in Runs, d \in Calls :
                s # run[p] \/ d # c => effects'[<<s, d>>] = effects[<<s, d>>]
        /\ effects'[<<run[p], c>>] \in {effects[Op(p, c)], effects[Op(p, c)] + 1}
        /\ \A q \in Processes : q # p => result'[q] = result[q]
        /\ \A d \in Calls : d # c => result'[p][d] = result[p][d]
        /\ \/ result'[p][c] \in Settled /\ interaction' = interaction
           \/ /\ \A d \in Calls : result[p][d] # "awaiting_input"
              /\ result'[p][c] = "awaiting_input"
              /\ \/ interaction' = interaction
                 \/ interaction' = [interaction EXCEPT ![Op(p, c)] = "pending"]
              /\ effects'[<<run[p], c>>] = effects[<<run[p], c>>]
        /\ UNCHANGED <<runStatus, opStatus, attached, pc, run, resumed, call, batch,
                       waiting, verdict>>
    BY <1>12, <1>t, <1>k DEF Dispatch, Execute, Waits, Marked, Settled, PutToUser
  <2>b. Holds(p)
    BY <2>1 DEF Holds, Active
  <2>s. \A q \in Processes : q # p /\ Holds(q) => \A d \in Calls :
          /\ opStatus'[Op(q, d)] = opStatus[Op(q, d)]
          /\ effects'[Op(q, d)] = effects[Op(q, d)]
          /\ (Op(q, d) \in attached') = (Op(q, d) \in attached)
    BY <2>1, <2>b, <1>a, <1>w, <1>t
  <2>o. \A s \in Runs, d \in Calls :
          s # run[p] => opStatus'[<<s, d>>] = opStatus[<<s, d>>]
    BY <2>1, <2>b, <1>t
  <2>p. \A s \in Runs, d \in Calls : s # run[p] /\ Parked(s, d) => Parked(s, d)'
    BY <2>o, <2>b DEF Parked
  <2>f. /\ effects[Op(p, c)] = 0 /\ opStatus[Op(p, c)] \in {"running", "interrupted"}
        /\ Op(p, c) \notin attached /\ result[p][c] = "none" /\ waiting[p] = None
    BY <2>1, <1>i DEF InHandFresh, Fresh, InHand, Batches, Apart, Phases
  <2>y. /\ run'[p] = run[p] /\ resumed'[p] = resumed[p] /\ pc'[p] = pc[p]
        /\ waiting'[p] = waiting[p] /\ batch'[p] = batch[p]
        /\ ready'[p] = ready[p] \ {c} /\ waiting[p] = None /\ None \notin Calls
        /\ \A d \in Calls : d # c => result'[p][d] = result[p][d]
        /\ \/ result'[p][c] \in {"succeeded", "failed"}
           \/ /\ result'[p][c] = "awaiting_input"
              /\ \A d \in Calls : result[p][d] # "awaiting_input"
    BY <2>1, <2>f, <1>t DEF Settled
  <2>2. OneHolder'
    BY <2>1, <1>t, <1>k, <1>i
    DEF OneHolder, Holds, Active, Hands
  <2>3. ClaimableUnheld'
    <3>1. \A o \in Operations : Claimable(o)' => Claimable(o)
      BY <2>1, <2>f, <1>t DEF Claimable
    <3>. QED
      BY <3>1, <2>1, <1>i DEF ClaimableUnheld, Parked, Holds, Active, Hands
  <2>4. ResumeParked'
    BY <2>1, <1>t, <1>k, <1>i
    DEF ResumeParked, Parked
  <2>5. WaitParked'
    BY <2>1, <1>t, <1>k, <1>i
    DEF WaitParked, Parked
  <2>6. NothingForgotten'
    <3>1. ASSUME NEW q \in Processes, NEW d \in Calls, q # p
          PROVE  ForgetsNothing(q, d)'
      BY <3>1, <2>1, <2>s, <1>w, <1>t, <1>i
      DEF NothingForgotten, ForgetsNothing, Working, InHand
    <3>2. ASSUME NEW d \in Calls
          PROVE  ForgetsNothing(p, d)'
      BY <2>1, <2>f, <1>t, <1>i
      DEF NothingForgotten, ForgetsNothing, Working, InHand, Phases, Settled
    <3>. QED
      BY <3>1, <3>2 DEF NothingForgotten
  <2>7. Phases'
    BY <2>1, <1>t, <1>k, <1>i
    DEF Phases
  <2>8. Batches'
    <3>1. ASSUME NEW q \in Processes, NEW d \in Calls, q # p
          PROVE  Apart(q, d)'
      BY <3>1, <2>1, <2>s, <1>w, <1>t, <1>i
      DEF Batches, Apart
    <3>2. ASSUME NEW d \in Calls
          PROVE  Apart(p, d)'
      <4>1. ForgetsNothing(p, d) /\ Apart(p, d) /\ Fresh(p, d) /\ Open(p, d)
        BY <1>i DEF NothingForgotten, Batches, InHandFresh, ResultsOpen
      <4>2. CASE d = c
        BY <4>1, <4>2, <2>y DEF Apart
      <4>3. CASE d # c
        BY <4>1, <4>3, <2>y DEF Apart
      <4>. QED
        BY <4>2, <4>3
    <3>. QED
      BY <3>1, <3>2 DEF Batches
  <2>9. InHandFresh'
    <3>1. ASSUME NEW q \in Processes, NEW d \in Calls, q # p
          PROVE  Fresh(q, d)'
      BY <3>1, <2>1, <2>s, <1>w, <1>t, <1>i
      DEF InHandFresh, Fresh, InHand
    <3>2. ASSUME NEW d \in Calls
          PROVE  Fresh(p, d)'
      BY <2>1, <2>f, <1>t, <1>i
      DEF InHandFresh, Fresh, InHand, Phases, Settled
    <3>. QED
      BY <3>1, <3>2 DEF InHandFresh
  <2>10. ResultsOpen'
    <3>1. ASSUME NEW q \in Processes, NEW d \in Calls, q # p
          PROVE  Open(q, d)'
      BY <3>1, <2>1, <2>s, <1>w, <1>t, <1>i
      DEF ResultsOpen, Open
    <3>2. Open(p, c)'
      BY <2>1, <2>f, <1>t, <1>i
      DEF ResultsOpen, Open, Phases, Settled
    <3>3. ASSUME NEW d \in Calls, d # c
          PROVE  Open(p, d)'
      BY <3>3, <2>1, <2>f, <1>t, <1>i
      DEF ResultsOpen, Open, Phases, Settled
    <3>. QED
      BY <3>1, <3>2, <3>3 DEF ResultsOpen
  <2>11. AttachedBegun'
    BY <2>1, <1>t, <1>k, <1>i
    DEF AttachedBegun
  <2>12. Unstarted'
    BY <2>1, <1>t, <1>i DEF Unstarted
  <2>13. EffectIsJournaled'
    <3>1. ASSUME NEW s \in Runs, NEW d \in Calls, s # run[p] \/ d # c
          PROVE  \/ effects'[<<s, d>>] = 0
                 \/ opStatus'[<<s, d>>] \in {"running", "interrupted", "succeeded", "failed"}
      BY <3>1, <2>1, <1>e
    <3>2. ASSUME NEW s \in Runs, NEW d \in Calls, s = run[p], d = c
          PROVE  \/ effects'[<<s, d>>] = 0
                 \/ opStatus'[<<s, d>>] \in {"running", "interrupted", "succeeded", "failed"}
      BY <3>2, <2>1, <2>f
    <3>. QED
      BY <3>1, <3>2, <1>o DEF EffectIsJournaled, Settled
  <2>14. AtMostOnceEffect'
    <3>1. ASSUME NEW s \in Runs, NEW d \in Calls, s # run[p] \/ d # c
          PROVE  effects'[<<s, d>>] <= 1
      BY <3>1, <2>1, <1>e
    <3>2. ASSUME NEW s \in Runs, NEW d \in Calls, s = run[p], d = c
          PROVE  effects'[<<s, d>>] <= 1
      BY <3>2, <2>1, <2>f
    <3>. QED
      BY <3>1, <3>2, <1>o DEF AtMostOnceEffect
  <2>. QED
    BY <2>2, <2>3, <2>4, <2>5, <2>6, <2>7, <2>8,
       <2>9, <2>10, <2>11, <2>12, <2>13, <2>14
<1>13. ASSUME NEW p \in Processes, NEW c \in Calls, Record(p, c)
       PROVE  Goal
  <2>1. /\ pc[p] = "tools"
        /\ run[p] \in Runs
        /\ batch[p] = {} /\ ready[p] = {}
        /\ result[p][c] # "none"
        /\ \A s \in Runs, d \in Calls :
                s # run[p] \/ d # c => opStatus'[<<s, d>>] = opStatus[<<s, d>>]
        /\ \/ /\ opStatus[Op(p, c)] \in Settled
              /\ opStatus'[<<run[p], c>>] = opStatus[Op(p, c)]
           \/ /\ opStatus[Op(p, c)] = "running"
              /\ opStatus'[<<run[p], c>>] = result[p][c]
        /\ \A q \in Processes : q # p => result'[q] = result[q]
        /\ \A d \in Calls : d # c => result'[p][d] = result[p][d]
        /\ result'[p][c] = "none"
        /\ waiting' = IF result[p][c] = "awaiting_input"
                         THEN [waiting EXCEPT ![p] = c] ELSE waiting
        /\ UNCHANGED <<runStatus, interaction, attached, effects, pc, run, resumed,
                       call, batch, ready, verdict>>
    BY <1>13, <1>t, <1>k DEF Record, AllowedTransition, Dispatched, Marked,
       interactions, Settled
  <2>b. Holds(p)
    BY <2>1 DEF Holds, Active
  <2>s. \A q \in Processes : q # p /\ Holds(q) => \A d \in Calls :
          /\ opStatus'[Op(q, d)] = opStatus[Op(q, d)]
          /\ effects'[Op(q, d)] = effects[Op(q, d)]
          /\ (Op(q, d) \in attached') = (Op(q, d) \in attached)
    BY <2>1, <2>b, <1>a, <1>w, <1>t
  <2>o. \A s \in Runs, d \in Calls :
          s # run[p] => opStatus'[<<s, d>>] = opStatus[<<s, d>>]
    BY <2>1, <2>b, <1>t
  <2>p. \A s \in Runs, d \in Calls : s # run[p] /\ Parked(s, d) => Parked(s, d)'
    BY <2>o, <2>b DEF Parked
  <2>f. /\ opStatus[Op(p, c)] = "running" /\ opStatus'[<<run[p], c>>] = result[p][c]
        /\ result[p][c] \in {"awaiting_input"} \cup Settled
        /\ result[p][c] = "awaiting_input" => effects[Op(p, c)] = 0
    BY <2>1, <1>t, <1>i DEF ResultsOpen, Open, Settled
  <2>g. Apart(p, c)
    BY <1>i DEF Batches
  <2>y. /\ pc[p] = "tools" /\ pc'[p] = pc[p] /\ run'[p] = run[p] /\ resumed'[p] = resumed[p] /\ None \notin Calls
        /\ batch'[p] = {} /\ ready[p] = {} /\ ready'[p] = {}
        /\ \A d \in Calls : d # c => result'[p][d] = result[p][d]
        /\ result'[p][c] = "none"
        /\ \A d \in Calls : d # c => opStatus'[<<run[p], d>>] = opStatus[<<run[p], d>>]
        /\ opStatus'[<<run[p], c>>] = result[p][c]
        /\ opStatus[<<run[p], c>>] = "running"
        /\ result[p][c] \in {"awaiting_input", "succeeded", "failed"}
        /\ waiting'[p] = IF result[p][c] = "awaiting_input" THEN c ELSE waiting[p]
        /\ result[p][c] = "awaiting_input" =>
             waiting[p] = None /\ \A d \in Calls : result[p][d] = "awaiting_input" => d = c
    BY <2>1, <2>f, <2>g, <1>t DEF Settled, Apart
  <2>2. OneHolder'
    BY <2>1, <1>t, <1>k, <1>i
    DEF OneHolder, Holds, Active, Hands
  <2>3. ClaimableUnheld'
    BY <2>1, <2>p, <2>b, <1>w, <1>t, <1>i
    DEF ClaimableUnheld, Claimable, Holds, Active, Hands
  <2>4. ResumeParked'
    BY <2>1, <2>p, <2>b, <1>a, <1>w, <1>t, <1>k, <1>i DEF ResumeParked
  <2>5. WaitParked'
    BY <2>1, <2>p, <2>b, <1>a, <1>w, <1>t, <1>k, <1>i DEF WaitParked
  <2>6. NothingForgotten'
    <3>1. ASSUME NEW q \in Processes, NEW d \in Calls, q # p
          PROVE  ForgetsNothing(q, d)'
      BY <3>1, <2>1, <2>s, <1>w, <1>t, <1>i
      DEF NothingForgotten, ForgetsNothing, Working, InHand
    <3>2. ASSUME NEW d \in Calls
          PROVE  ForgetsNothing(p, d)'
      <4>1. ForgetsNothing(p, d) /\ Apart(p, d) /\ Fresh(p, d) /\ Open(p, d)
        BY <1>i DEF NothingForgotten, Batches, InHandFresh, ResultsOpen
      <4>2. CASE d = c
        BY <4>1, <4>2, <2>y DEF ForgetsNothing, Working, InHand
      <4>3. CASE d # c
        BY <4>1, <4>3, <2>y DEF ForgetsNothing, Working, InHand
      <4>. QED
        BY <4>2, <4>3
    <3>. QED
      BY <3>1, <3>2 DEF NothingForgotten
  <2>7. Phases'
    BY <2>1, <1>t, <1>k, <1>i
    DEF Phases
  <2>8. Batches'
    <3>1. ASSUME NEW q \in Processes, NEW d \in Calls, q # p
          PROVE  Apart(q, d)'
      BY <3>1, <2>1, <2>s, <1>w, <1>t, <1>i
      DEF Batches, Apart
    <3>2. ASSUME NEW d \in Calls
          PROVE  Apart(p, d)'
      <4>1. ForgetsNothing(p, d) /\ Apart(p, d) /\ Fresh(p, d) /\ Open(p, d)
        BY <1>i DEF NothingForgotten, Batches, InHandFresh, ResultsOpen
      <4>2. CASE d = c
        BY <4>1, <4>2, <2>y DEF Apart
      <4>3. CASE d # c
        BY <4>1, <4>3, <2>y DEF Apart
      <4>. QED
        BY <4>2, <4>3
    <3>. QED
      BY <3>1, <3>2 DEF Batches
  <2>9. InHandFresh'
    <3>1. ASSUME NEW q \in Processes, NEW d \in Calls, q # p
          PROVE  Fresh(q, d)'
      BY <3>1, <2>1, <2>s, <1>w, <1>t, <1>i
      DEF InHandFresh, Fresh, InHand
    <3>2. Fresh(p, c)'
      BY <2>1, <2>f, <1>t, <1>i
      DEF InHandFresh, Fresh, InHand, Phases, Settled, NothingForgotten,
         ForgetsNothing, Working
    <3>3. ASSUME NEW d \in Calls, d # c
          PROVE  Fresh(p, d)'
      BY <3>3, <2>1, <2>f, <1>t, <1>i
      DEF InHandFresh, Fresh, InHand, Phases, Settled, NothingForgotten,
         ForgetsNothing, Working
    <3>. QED
      BY <3>1, <3>2, <3>3 DEF InHandFresh
  <2>10. ResultsOpen'
    <3>1. ASSUME NEW q \in Processes, NEW d \in Calls, q # p
          PROVE  Open(q, d)'
      BY <3>1, <2>1, <2>s, <1>w, <1>t, <1>i
      DEF ResultsOpen, Open
    <3>2. Open(p, c)'
      BY <2>1, <2>f, <1>t, <1>i
      DEF ResultsOpen, Open, Phases, Settled, NothingForgotten, ForgetsNothing, Working
    <3>3. ASSUME NEW d \in Calls, d # c
          PROVE  Open(p, d)'
      BY <3>3, <2>1, <2>f, <1>t, <1>i
      DEF ResultsOpen, Open, Phases, Settled, NothingForgotten, ForgetsNothing, Working
    <3>. QED
      BY <3>1, <3>2, <3>3 DEF ResultsOpen
  <2>11. AttachedBegun'
    <3>1. ASSUME NEW s \in Runs, NEW d \in Calls, s # run[p] \/ d # c
          PROVE  <<s, d>> \in attached => opStatus'[<<s, d>>] \notin {"absent", "planned"}
      BY <3>1, <2>1, <1>o, <1>i DEF AttachedBegun
    <3>2. ASSUME NEW s \in Runs, NEW d \in Calls, s = run[p], d = c
          PROVE  <<s, d>> \in attached => opStatus'[<<s, d>>] \notin {"absent", "planned"}
      BY <3>2, <2>1, <2>f DEF AttachedBegun, Settled
    <3>. QED
      BY <3>1, <3>2, <2>1, <1>t, <1>o DEF AttachedBegun
  <2>12. Unstarted'
    BY <2>1, <1>t, <1>k, <1>i
    DEF Unstarted
  <2>13. EffectIsJournaled'
    <3>1. ASSUME NEW s \in Runs, NEW d \in Calls, s # run[p] \/ d # c
          PROVE  \/ effects'[<<s, d>>] = 0
                 \/ opStatus'[<<s, d>>] \in {"running", "interrupted", "succeeded", "failed"}
      BY <3>1, <2>1, <1>e
    <3>2. ASSUME NEW s \in Runs, NEW d \in Calls, s = run[p], d = c
          PROVE  \/ effects'[<<s, d>>] = 0
                 \/ opStatus'[<<s, d>>] \in {"running", "interrupted", "succeeded", "failed"}
      BY <3>2, <2>1, <2>y, <2>f, <1>e
    <3>. QED
      BY <3>1, <3>2, <1>o DEF EffectIsJournaled, Settled
  <2>14. AtMostOnceEffect'
    BY <2>1, <1>t, <1>k, <1>i
    DEF AtMostOnceEffect
  <2>. QED
    BY <2>2, <2>3, <2>4, <2>5, <2>6, <2>7, <2>8,
       <2>9, <2>10, <2>11, <2>12, <2>13, <2>14
<1>14. ASSUME NEW p \in Processes,
              MarkRaises(p) \/ Crash(p) \/ \E c \in Calls : RecordRaises(p, c)
       PROVE  Goal
  <2>1. /\ \A q \in Processes : q # p => pc'[q] = pc[q] /\ run'[q] = run[q]
                /\ resumed'[q] = resumed[q] /\ call'[q] = call[q]
                /\ batch'[q] = batch[q] /\ ready'[q] = ready[q]
                /\ result'[q] = result[q] /\ waiting'[q] = waiting[q]
                /\ verdict'[q] = verdict[q]
        /\ pc'[p] = "idle"
        /\ run'[p] = None /\ batch'[p] = {} /\ ready'[p] = {}
        /\ waiting'[p] = None
        /\ result'[p] = NoResults
        /\ UNCHANGED <<runStatus, opStatus, interaction, attached, effects>>
    BY <1>14, <1>t, <1>k DEF MarkRaises, Crash, RecordRaises, Raise, Forget, durable,
       interactions, NoResults
  <2>h. \A q \in Processes : Holds(q)' => q # p /\ Holds(q) /\ run'[q] = run[q]
    BY <2>1 DEF Holds, Active, Hands
  <2>2. OneHolder'
    BY <2>h, <1>i DEF OneHolder
  <2>3. ClaimableUnheld'
    BY <2>1, <2>h, <1>t, <1>i DEF ClaimableUnheld, Claimable, Parked
  <2>4. ResumeParked'
    BY <2>1, <1>t, <1>k, <1>i
    DEF ResumeParked, Parked
  <2>5. WaitParked'
    BY <2>1, <1>t, <1>k, <1>i
    DEF WaitParked, Parked
  <2>6. NothingForgotten'
    BY <2>1, <1>i DEF NothingForgotten, ForgetsNothing, Working, InHand
  <2>7. Phases'
    BY <2>1, <1>t, <1>k, <1>i
    DEF Phases
  <2>8. Batches'
    BY <2>1, <1>t, <1>k, <1>i
    DEF Batches, Apart
  <2>9. InHandFresh'
    BY <2>1, <1>t, <1>k, <1>i
    DEF InHandFresh, Fresh, InHand
  <2>10. ResultsOpen'
    BY <2>1, <1>t, <1>k, <1>i
    DEF ResultsOpen, Open
  <2>11. AttachedBegun'
    BY <2>1, <1>t, <1>k, <1>i
    DEF AttachedBegun
  <2>12. Unstarted'
    BY <2>1, <1>t, <1>k, <1>i
    DEF Unstarted
  <2>13. EffectIsJournaled'
    BY <2>1, <1>t, <1>k, <1>i
    DEF EffectIsJournaled, Settled
  <2>14. AtMostOnceEffect'
    BY <2>1, <1>t, <1>k, <1>i
    DEF AtMostOnceEffect
  <2>. QED
    BY <2>2, <2>3, <2>4, <2>5, <2>6, <2>7, <2>8,
       <2>9, <2>10, <2>11, <2>12, <2>13, <2>14
<1>15. ASSUME NEW p \in Processes, Reuse(p)
       PROVE  Goal
  <2>1. /\ pc[p] = "mark"
        /\ opStatus[Op(p, call[p])] \in Settled
        /\ pc' = [pc EXCEPT ![p] = "tools"]
        /\ call' = [call EXCEPT ![p] = None]
        /\ UNCHANGED <<runStatus, opStatus, interaction, attached, effects, run,
                       resumed, batch, ready, result, waiting, verdict>>
    BY <1>15, <1>t, <1>k DEF Reuse, Moves, durable, interactions
  <2>2. OneHolder'
    BY <2>1, <1>t, <1>k, <1>i
    DEF OneHolder, Holds, Active, Hands
  <2>3. ClaimableUnheld'
    BY <2>1, <1>t, <1>k, <1>i
    DEF ClaimableUnheld, Claimable, Parked, Holds, Active, Hands
  <2>4. ResumeParked'
    BY <2>1, <1>t, <1>k, <1>i
    DEF ResumeParked, Parked
  <2>5. WaitParked'
    BY <2>1, <1>t, <1>k, <1>i
    DEF WaitParked, Parked
  <2>6. NothingForgotten'
    BY <2>1, <1>t, <1>k, <1>i
    DEF NothingForgotten, ForgetsNothing, Working, InHand
  <2>7. Phases'
    BY <2>1, <1>t, <1>k, <1>i
    DEF Phases
  <2>8. Batches'
    BY <2>1, <1>t, <1>k, <1>i
    DEF Batches, Apart
  <2>9. InHandFresh'
    BY <2>1, <1>t, <1>k, <1>i
    DEF InHandFresh, Fresh, InHand
  <2>10. ResultsOpen'
    BY <2>1, <1>t, <1>k, <1>i
    DEF ResultsOpen, Open
  <2>11. AttachedBegun'
    BY <2>1, <1>t, <1>k, <1>i
    DEF AttachedBegun
  <2>12. Unstarted'
    BY <2>1, <1>t, <1>k, <1>i
    DEF Unstarted
  <2>13. EffectIsJournaled'
    BY <2>1, <1>t, <1>k, <1>i
    DEF EffectIsJournaled, Settled
  <2>14. AtMostOnceEffect'
    BY <2>1, <1>t, <1>k, <1>i
    DEF AtMostOnceEffect
  <2>. QED
    BY <2>2, <2>3, <2>4, <2>5, <2>6, <2>7, <2>8,
       <2>9, <2>10, <2>11, <2>12, <2>13, <2>14
<1>16. ASSUME NEW p \in Processes, Mark(p)
       PROVE  Goal
  <2>1. /\ pc[p] = "mark"
        /\ run[p] \in Runs /\ call[p] \in Calls
        /\ opStatus[Op(p, call[p])] \in {"running", "planned", "awaiting_input"}
        /\ \A s \in Runs, d \in Calls :
                s # run[p] \/ d # call[p] => opStatus'[<<s, d>>] = opStatus[<<s, d>>]
        /\ opStatus'[<<run[p], call[p]>>] = "running"
        /\ pc' = [pc EXCEPT ![p] = "tools"]
        /\ call' = [call EXCEPT ![p] = None]
        /\ ready' = [ready EXCEPT ![p] = ready[p] \cup {call[p]}]
        /\ UNCHANGED <<runStatus, interaction, attached, effects, run, resumed,
                       batch, result, waiting, verdict>>
    BY <1>16, <1>t, <1>k DEF Mark, MarkRunning, AllowedTransition, Moves, interactions
  <2>b. Holds(p)
    BY <2>1 DEF Holds, Active
  <2>s. \A q \in Processes : q # p /\ Holds(q) => \A d \in Calls :
          /\ opStatus'[Op(q, d)] = opStatus[Op(q, d)]
          /\ effects'[Op(q, d)] = effects[Op(q, d)]
          /\ (Op(q, d) \in attached') = (Op(q, d) \in attached)
    BY <2>1, <2>b, <1>a, <1>w, <1>t
  <2>o. \A s \in Runs, d \in Calls :
          s # run[p] => opStatus'[<<s, d>>] = opStatus[<<s, d>>]
    BY <2>1, <2>b, <1>t
  <2>p. \A s \in Runs, d \in Calls : s # run[p] /\ Parked(s, d) => Parked(s, d)'
    BY <2>o, <2>b DEF Parked
  <2>f. /\ result[p] = NoResults /\ waiting[p] = None
        /\ call[p] \notin batch[p] \cup ready[p]
    BY <2>1, <1>i DEF Phases
  <2>h. ForgetsNothing(p, call[p])
    BY <2>1, <1>i DEF NothingForgotten
  <2>g. /\ opStatus[<<run[p], call[p]>>] = "planned" /\ effects[<<run[p], call[p]>>] = 0
        /\ <<run[p], call[p]>> \notin attached
    BY <2>1, <2>f, <2>h, <1>e, <1>t, <1>k, <1>i DEF ForgetsNothing, Working, InHand,
       AttachedBegun
  <2>y. /\ pc[p] = "mark" /\ pc'[p] = "tools" /\ waiting[p] = None /\ None \notin Calls
        /\ run'[p] = run[p] /\ resumed'[p] = resumed[p]
        /\ waiting'[p] = waiting[p] /\ batch'[p] = batch[p]
        /\ ready'[p] = ready[p] \cup {call[p]} /\ call[p] \notin batch[p]
        /\ \A d \in Calls : result[p][d] = "none" /\ result'[p][d] = "none"
        /\ \A d \in Calls : d # call[p] => opStatus'[<<run[p], d>>] = opStatus[<<run[p], d>>]
        /\ opStatus'[<<run[p], call[p]>>] = "running" /\ effects[<<run[p], call[p]>>] = 0
        /\ <<run[p], call[p]>> \notin attached
        /\ effects' = effects /\ attached' = attached
    BY <2>1, <2>f, <2>g, <1>t, <1>k
  <2>2. OneHolder'
    BY <2>1, <1>t, <1>k, <1>i
    DEF OneHolder, Holds, Active, Hands
  <2>3. ClaimableUnheld'
    BY <2>1, <2>p, <2>b, <1>w, <1>t, <1>i
    DEF ClaimableUnheld, Claimable, Holds, Active, Hands
  <2>4. ResumeParked'
    BY <2>1, <2>p, <2>b, <1>a, <1>w, <1>t, <1>k, <1>i DEF ResumeParked
  <2>5. WaitParked'
    BY <2>1, <2>p, <2>b, <1>a, <1>w, <1>t, <1>k, <1>i DEF WaitParked
  <2>6. NothingForgotten'
    <3>1. ASSUME NEW q \in Processes, NEW d \in Calls, q # p
          PROVE  ForgetsNothing(q, d)'
      BY <3>1, <2>1, <2>s, <1>w, <1>t, <1>i
      DEF NothingForgotten, ForgetsNothing, Working, InHand
    <3>2. ASSUME NEW d \in Calls
          PROVE  ForgetsNothing(p, d)'
      <4>1. ForgetsNothing(p, d) /\ Apart(p, d) /\ Fresh(p, d) /\ Open(p, d)
        BY <1>i DEF NothingForgotten, Batches, InHandFresh, ResultsOpen
      <4>2. CASE d = call[p]
        BY <4>1, <4>2, <2>y DEF ForgetsNothing, Working, InHand
      <4>3. CASE d # call[p]
        BY <4>1, <4>3, <2>y DEF ForgetsNothing, Working, InHand
      <4>. QED
        BY <4>2, <4>3
    <3>. QED
      BY <3>1, <3>2 DEF NothingForgotten
  <2>7. Phases'
    BY <2>1, <1>t, <1>k, <1>i
    DEF Phases
  <2>8. Batches'
    <3>1. ASSUME NEW q \in Processes, NEW d \in Calls, q # p
          PROVE  Apart(q, d)'
      BY <3>1, <2>1, <2>s, <1>w, <1>t, <1>i
      DEF Batches, Apart
    <3>2. ASSUME NEW d \in Calls
          PROVE  Apart(p, d)'
      <4>1. ForgetsNothing(p, d) /\ Apart(p, d) /\ Fresh(p, d) /\ Open(p, d)
        BY <1>i DEF NothingForgotten, Batches, InHandFresh, ResultsOpen
      <4>2. CASE d = call[p]
        BY <4>1, <4>2, <2>y DEF Apart
      <4>3. CASE d # call[p]
        BY <4>1, <4>3, <2>y DEF Apart
      <4>. QED
        BY <4>2, <4>3
    <3>. QED
      BY <3>1, <3>2 DEF Batches
  <2>9. InHandFresh'
    <3>1. ASSUME NEW q \in Processes, NEW d \in Calls, q # p
          PROVE  Fresh(q, d)'
      BY <3>1, <2>1, <2>s, <1>w, <1>t, <1>i
      DEF InHandFresh, Fresh, InHand
    <3>2. ASSUME NEW d \in Calls
          PROVE  Fresh(p, d)'
      <4>1. ForgetsNothing(p, d) /\ Apart(p, d) /\ Fresh(p, d) /\ Open(p, d)
        BY <1>i DEF NothingForgotten, Batches, InHandFresh, ResultsOpen
      <4>2. CASE d = call[p]
        BY <4>1, <4>2, <2>y DEF Fresh, InHand
      <4>3. CASE d # call[p]
        BY <4>1, <4>3, <2>y DEF Fresh, InHand
      <4>. QED
        BY <4>2, <4>3
    <3>. QED
      BY <3>1, <3>2 DEF InHandFresh
  <2>10. ResultsOpen'
    <3>1. ASSUME NEW q \in Processes, NEW d \in Calls, q # p
          PROVE  Open(q, d)'
      BY <3>1, <2>1, <2>s, <1>w, <1>t, <1>i
      DEF ResultsOpen, Open
    <3>2. ASSUME NEW d \in Calls
          PROVE  Open(p, d)'
      <4>1. ForgetsNothing(p, d) /\ Apart(p, d) /\ Fresh(p, d) /\ Open(p, d)
        BY <1>i DEF NothingForgotten, Batches, InHandFresh, ResultsOpen
      <4>2. CASE d = call[p]
        BY <4>1, <4>2, <2>y DEF Open
      <4>3. CASE d # call[p]
        BY <4>1, <4>3, <2>y DEF Open
      <4>. QED
        BY <4>2, <4>3
    <3>. QED
      BY <3>1, <3>2 DEF ResultsOpen
  <2>11. AttachedBegun'
    <3>1. ASSUME NEW s \in Runs, NEW d \in Calls, s # run[p] \/ d # call[p]
          PROVE  <<s, d>> \in attached => opStatus'[<<s, d>>] \notin {"absent", "planned"}
      BY <3>1, <2>1, <1>o, <1>i DEF AttachedBegun
    <3>2. ASSUME NEW s \in Runs, NEW d \in Calls, s = run[p], d = call[p]
          PROVE  <<s, d>> \in attached => opStatus'[<<s, d>>] \notin {"absent", "planned"}
      BY <3>2, <2>1, <2>g DEF AttachedBegun
    <3>. QED
      BY <3>1, <3>2, <2>1, <1>t, <1>o DEF AttachedBegun
  <2>12. Unstarted'
    BY <2>1, <1>t, <1>k, <1>i
    DEF Unstarted
  <2>13. EffectIsJournaled'
    <3>1. ASSUME NEW s \in Runs, NEW d \in Calls, s # run[p] \/ d # call[p]
          PROVE  \/ effects'[<<s, d>>] = 0
                 \/ opStatus'[<<s, d>>] \in {"running", "interrupted", "succeeded", "failed"}
      BY <3>1, <2>1, <1>e
    <3>2. ASSUME NEW s \in Runs, NEW d \in Calls, s = run[p], d = call[p]
          PROVE  \/ effects'[<<s, d>>] = 0
                 \/ opStatus'[<<s, d>>] \in {"running", "interrupted", "succeeded", "failed"}
      BY <3>2, <2>1, <1>e
    <3>. QED
      BY <3>1, <3>2, <1>o DEF EffectIsJournaled, Settled
  <2>14. AtMostOnceEffect'
    BY <2>1, <1>t, <1>k, <1>i
    DEF AtMostOnceEffect
  <2>. QED
    BY <2>2, <2>3, <2>4, <2>5, <2>6, <2>7, <2>8,
       <2>9, <2>10, <2>11, <2>12, <2>13, <2>14
<1>17. ASSUME NEW p \in Processes, AfterTools(p)
       PROVE  Goal
  <2>1. /\ pc[p] = "tools"
        /\ batch[p] = {} /\ ready[p] = {} /\ result[p] = NoResults
        /\ \/ /\ pc' = [pc EXCEPT ![p] = "finish"]
              /\ \/ verdict' = [verdict EXCEPT ![p] = "cancelled"]
                 \/ /\ waiting[p] # None
                    /\ verdict' = [verdict EXCEPT ![p] = "awaiting_input"]
           \/ /\ pc' = [pc EXCEPT ![p] = "model"] /\ verdict' = verdict
              /\ waiting[p] = None
        /\ UNCHANGED <<runStatus, opStatus, interaction, attached, effects, run,
                       resumed, call, batch, ready, result, waiting>>
    BY <1>17, <1>t, <1>k DEF AfterTools, Dispatched, Marked, Ends, Moves, durable,
       interactions
  <2>2. OneHolder'
    BY <2>1, <1>t, <1>k, <1>i
    DEF OneHolder, Holds, Active, Hands
  <2>3. ClaimableUnheld'
    BY <2>1, <1>t, <1>k, <1>i
    DEF ClaimableUnheld, Claimable, Parked, Holds, Active, Hands
  <2>4. ResumeParked'
    BY <2>1, <1>t, <1>k, <1>i
    DEF ResumeParked, Parked
  <2>5. WaitParked'
    <3>1. ASSUME waiting[p] # None
          PROVE  waiting[p] \in Calls /\ Parked(run[p], waiting[p])
      <4>1. ASSUME NEW d \in Calls
            PROVE  /\ opStatus[<<run[p], d>>] = "awaiting_input" => d = waiting[p]
                   /\ d = waiting[p] => opStatus[<<run[p], d>>] = "awaiting_input"
                   /\ opStatus[<<run[p], d>>] # "running"
        <5>1. ForgetsNothing(p, d) /\ Working(p) /\ ~InHand(p, d)
          BY <2>1, <1>i DEF NothingForgotten, Working, InHand
        <5>2. result[p][d] = "none"
          BY <2>1, <1>k
        <5>. QED
          BY <5>1, <5>2 DEF ForgetsNothing
      <4>. QED
        BY <4>1, <3>1, <1>t DEF Parked
    <3>2. ASSUME NEW q \in Processes, q # p, pc'[q] \in {"finish", "attach"},
                 verdict'[q] = "awaiting_input"
          PROVE  waiting[q] \in Calls /\ Parked(run[q], waiting[q])'
      BY <3>2, <2>1, <1>t, <1>i DEF WaitParked, Parked
    <3>3. pc'[p] = "finish" /\ verdict'[p] = "awaiting_input" => waiting[p] # None
      BY <2>1, <1>t
    <3>4. ASSUME waiting[p] # None
          PROVE  waiting'[p] \in Calls /\ Parked(run[p], waiting[p])'
      BY <3>1, <3>4, <2>1 DEF Parked
    <3>. QED
      BY <3>2, <3>3, <3>4, <2>1, <1>t DEF WaitParked
  <2>6. NothingForgotten'
    BY <2>1, <1>t, <1>k, <1>i
    DEF NothingForgotten, ForgetsNothing, Working, InHand
  <2>7. Phases'
    BY <2>1, <1>t, <1>k, <1>i
    DEF Phases
  <2>8. Batches'
    BY <2>1, <1>t, <1>k, <1>i
    DEF Batches, Apart
  <2>9. InHandFresh'
    BY <2>1, <1>t, <1>k, <1>i
    DEF InHandFresh, Fresh, InHand
  <2>10. ResultsOpen'
    BY <2>1, <1>t, <1>k, <1>i
    DEF ResultsOpen, Open
  <2>11. AttachedBegun'
    BY <2>1, <1>t, <1>k, <1>i
    DEF AttachedBegun
  <2>12. Unstarted'
    BY <2>1, <1>t, <1>k, <1>i
    DEF Unstarted
  <2>13. EffectIsJournaled'
    BY <2>1, <1>t, <1>k, <1>i
    DEF EffectIsJournaled, Settled
  <2>14. AtMostOnceEffect'
    BY <2>1, <1>t, <1>k, <1>i
    DEF AtMostOnceEffect
  <2>. QED
    BY <2>2, <2>3, <2>4, <2>5, <2>6, <2>7, <2>8,
       <2>9, <2>10, <2>11, <2>12, <2>13, <2>14
<1>18. ASSUME NEW p \in Processes, Finish(p)
       PROVE  Goal
  <2>1. /\ pc[p] = "finish"
        /\ run[p] \in Runs /\ verdict[p] \in Verdicts
        /\ pc' = [pc EXCEPT ![p] = "attach"]
        /\ runStatus' = [runStatus EXCEPT ![run[p]] = verdict[p]]
        /\ UNCHANGED <<opStatus, interaction, attached, effects, run, resumed, call,
                       batch, ready, result, waiting, verdict>>
    BY <1>18, <1>t, <1>k DEF Finish, Moves, interactions
  <2>2. OneHolder'
    BY <2>1, <1>t, <1>k, <1>i
    DEF OneHolder, Holds, Active, Hands
  <2>3. ClaimableUnheld'
    BY <2>1, <1>t, <1>k, <1>i
    DEF ClaimableUnheld, Claimable, Parked, Holds, Active, Hands
  <2>4. ResumeParked'
    BY <2>1, <1>t, <1>k, <1>i
    DEF ResumeParked, Parked
  <2>5. WaitParked'
    BY <2>1, <1>t, <1>k, <1>i
    DEF WaitParked, Parked
  <2>6. NothingForgotten'
    BY <2>1, <1>t, <1>k, <1>i
    DEF NothingForgotten, ForgetsNothing, Working, InHand
  <2>7. Phases'
    BY <2>1, <1>t, <1>k, <1>i
    DEF Phases
  <2>8. Batches'
    BY <2>1, <1>t, <1>k, <1>i
    DEF Batches, Apart
  <2>9. InHandFresh'
    BY <2>1, <1>t, <1>k, <1>i
    DEF InHandFresh, Fresh, InHand
  <2>10. ResultsOpen'
    BY <2>1, <1>t, <1>k, <1>i
    DEF ResultsOpen, Open
  <2>11. AttachedBegun'
    BY <2>1, <1>t, <1>k, <1>i
    DEF AttachedBegun
  <2>12. Unstarted'
    BY <2>1, <1>t, <1>i DEF Unstarted, Verdicts
  <2>13. EffectIsJournaled'
    BY <2>1, <1>t, <1>k, <1>i
    DEF EffectIsJournaled, Settled
  <2>14. AtMostOnceEffect'
    BY <2>1, <1>t, <1>k, <1>i
    DEF AtMostOnceEffect
  <2>. QED
    BY <2>2, <2>3, <2>4, <2>5, <2>6, <2>7, <2>8,
       <2>9, <2>10, <2>11, <2>12, <2>13, <2>14
<1>19. ASSUME NEW p \in Processes, Attach(p)
       PROVE  Goal
  <2>v. pc[p] = "attach" /\ run[p] \in Runs
    BY <1>19, <1>k DEF Attach, Moves
  <2>u. \/ attached' \subseteq attached
        \/ /\ verdict[p] = "awaiting_input"
           /\ attached' \subseteq attached \cup {<<run[p], waiting[p]>>}
    BY <1>19 DEF Attach
  <2>r. \A o \in attached' :
          o \in attached \/ (o = <<run[p], waiting[p]>> /\ verdict[p] = "awaiting_input")
    BY <2>u
  <2>1. /\ pc[p] = "attach"
        /\ pc' = [pc EXCEPT ![p] = "complete"]
        /\ run[p] \in Runs
        /\ \A o \in attached' : o \in attached \/ (o = Op(p, waiting[p]) /\ verdict[p] = "awaiting_input")
        /\ UNCHANGED <<runStatus, opStatus, interaction, effects, run, resumed, call,
                       batch, ready, result, waiting, verdict>>
    BY <1>19, <2>v, <2>u, <2>r, <1>t DEF Attach, Moves, interactions
  <2>f. verdict[p] = "awaiting_input" => waiting[p] \in Calls /\ Parked(run[p], waiting[p])
    BY <2>1, <1>i DEF WaitParked
  <2>q. \A q \in Processes : Holds(q)' =>
          q # p /\ Holds(q) /\ run'[q] = run[q] /\ (verdict[p] = "awaiting_input" => run[q] # run[p])
    <3>. SUFFICES ASSUME NEW q \in Processes, Holds(q)'
                  PROVE  /\ q # p /\ Holds(q) /\ run'[q] = run[q]
                         /\ verdict[p] = "awaiting_input" => run[q] # run[p]
      OBVIOUS
    <3>1. q # p /\ Holds(q) /\ run'[q] = run[q]
      BY <2>1, <1>t DEF Holds, Active, Hands
    <3>2. verdict[p] = "awaiting_input" => Holds(p)
      BY <2>1 DEF Holds, Hands
    <3>. QED
    BY <3>1, <3>2, <1>a
  <2>c. \A o \in Operations : Claimable(o)' =>
          Claimable(o) \/ (o = Op(p, waiting[p]) /\ verdict[p] = "awaiting_input")
    BY <2>1 DEF Claimable
  <2>2. OneHolder'
    BY <2>1, <1>t, <1>k, <1>i
    DEF OneHolder, Holds, Active, Hands
  <2>3. ClaimableUnheld'
    BY <2>1, <2>f, <2>q, <2>c, <1>i DEF ClaimableUnheld, Parked
  <2>4. ResumeParked'
    BY <2>1, <1>t, <1>k, <1>i
    DEF ResumeParked, Parked
  <2>5. WaitParked'
    BY <2>1, <1>t, <1>k, <1>i
    DEF WaitParked, Parked
  <2>6. NothingForgotten'
    BY <2>1, <1>t, <1>k, <1>i
    DEF NothingForgotten, ForgetsNothing, Working, InHand
  <2>7. Phases'
    BY <2>1, <1>t, <1>k, <1>i
    DEF Phases
  <2>8. Batches'
    BY <2>1, <1>t, <1>k, <1>i
    DEF Batches, Apart
  <2>9. InHandFresh'
    <3>1. \A q \in Processes, d \in Calls : InHand(q, d) => Holds(q) /\ q # p
      BY <2>1, <1>w, <1>i DEF InHand, Phases
    <3>2. \A q \in Processes, d \in Calls : Op(q, d) \in attached' =>
            \/ Op(q, d) \in attached
            \/ run[q] = run[p] /\ verdict[p] = "awaiting_input"
      BY <2>1
    <3>3. \A q \in Processes, d \in Calls : InHand(q, d)' = InHand(q, d)
      BY <2>1, <1>i DEF InHand, Phases
    <3>. QED
      BY <3>1, <3>2, <3>3, <2>1, <1>a, <1>w, <1>i DEF InHandFresh, Fresh
  <2>10. ResultsOpen'
    BY <2>1, <1>t, <1>k, <1>i
    DEF ResultsOpen, Open
  <2>11. AttachedBegun'
    BY <2>1, <2>f, <1>t, <1>i DEF AttachedBegun, Parked
  <2>12. Unstarted'
    BY <2>1, <1>t, <1>k, <1>i
    DEF Unstarted
  <2>13. EffectIsJournaled'
    BY <2>1, <1>t, <1>k, <1>i
    DEF EffectIsJournaled, Settled
  <2>14. AtMostOnceEffect'
    BY <2>1, <1>t, <1>k, <1>i
    DEF AtMostOnceEffect
  <2>. QED
    BY <2>2, <2>3, <2>4, <2>5, <2>6, <2>7, <2>8,
       <2>9, <2>10, <2>11, <2>12, <2>13, <2>14
<1>20. ASSUME NEW p \in Processes, Complete(p)
       PROVE  Goal
  <2>v. pc[p] = "complete" /\ run[p] \in Runs
    BY <1>20, <1>k DEF Complete
  <2>r. \/ interaction' = interaction /\ attached' = attached
        \/ /\ resumed[p] \in Calls
           /\ interaction' = [interaction EXCEPT ![<<run[p], resumed[p]>>] = "none"]
           /\ attached' = attached \ {<<run[p], resumed[p]>>}
    BY <1>20, <1>t DEF Complete, Dropped, interactions
  <2>u. /\ attached' \subseteq attached
        /\ \A s \in Runs, d \in Calls :
             interaction[<<s, d>>] = "none" => interaction'[<<s, d>>] = "none"
        /\ \A o \in attached' : o \in Operations => interaction'[o] = interaction[o]
    BY <2>v, <2>r, <1>t
  <2>1. /\ pc[p] = "complete"
        /\ \A q \in Processes : q # p => pc'[q] = pc[q] /\ run'[q] = run[q]
                /\ resumed'[q] = resumed[q] /\ call'[q] = call[q]
                /\ batch'[q] = batch[q] /\ ready'[q] = ready[q]
                /\ result'[q] = result[q] /\ waiting'[q] = waiting[q]
                /\ verdict'[q] = verdict[q]
        /\ pc'[p] = "idle"
        /\ run'[p] = None /\ batch'[p] = {} /\ ready'[p] = {}
        /\ waiting'[p] = None
        /\ result'[p] = NoResults
        /\ UNCHANGED <<runStatus, opStatus, effects>>
        /\ attached' \subseteq attached
        /\ \A s \in Runs, d \in Calls :
                interaction[<<s, d>>] = "none" => interaction'[<<s, d>>] = "none"
        /\ \A o \in attached' : o \in Operations => interaction'[o] = interaction[o]
    BY <1>20, <2>v, <2>r, <2>u, <1>t, <1>k DEF Complete, Dropped, Forget,
       interactions, NoResults
  <2>h. \A q \in Processes : Holds(q)' => q # p /\ Holds(q) /\ run'[q] = run[q]
    BY <2>1 DEF Holds, Active, Hands
  <2>2. OneHolder'
    BY <2>h, <1>i DEF OneHolder
  <2>3. ClaimableUnheld'
    BY <2>1, <2>h, <1>t, <1>i DEF ClaimableUnheld, Claimable, Parked
  <2>4. ResumeParked'
    BY <2>1, <1>t, <1>k, <1>i
    DEF ResumeParked, Parked
  <2>5. WaitParked'
    BY <2>1, <1>t, <1>k, <1>i
    DEF WaitParked, Parked
  <2>6. NothingForgotten'
    BY <2>1, <1>i DEF NothingForgotten, ForgetsNothing, Working, InHand
  <2>7. Phases'
    BY <2>1, <1>t, <1>k, <1>i
    DEF Phases
  <2>8. Batches'
    BY <2>1, <1>t, <1>k, <1>i
    DEF Batches, Apart
  <2>9. InHandFresh'
    BY <2>1, <1>t, <1>k, <1>i
    DEF InHandFresh, Fresh, InHand
  <2>10. ResultsOpen'
    BY <2>1, <1>t, <1>k, <1>i
    DEF ResultsOpen, Open
  <2>11. AttachedBegun'
    BY <2>1, <1>t, <1>k, <1>i
    DEF AttachedBegun
  <2>12. Unstarted'
    BY <2>1, <1>t, <1>i DEF Unstarted
  <2>13. EffectIsJournaled'
    BY <2>1, <1>t, <1>k, <1>i
    DEF EffectIsJournaled, Settled
  <2>14. AtMostOnceEffect'
    BY <2>1, <1>t, <1>k, <1>i
    DEF AtMostOnceEffect
  <2>. QED
    BY <2>2, <2>3, <2>4, <2>5, <2>6, <2>7, <2>8,
       <2>9, <2>10, <2>11, <2>12, <2>13, <2>14
<1>21. ASSUME NEW p \in Processes, Cancel(p)
       PROVE  Goal
  <2>1. /\ UNCHANGED <<runStatus, opStatus, interaction, attached, effects, pc, run,
                       resumed, call, batch, ready, result, waiting, verdict>>
    BY <1>21, <1>t, <1>k DEF Cancel, durable, interactions
  <2>2. OneHolder'
    BY <2>1, <1>t, <1>k, <1>i
    DEF OneHolder, Holds, Active, Hands
  <2>3. ClaimableUnheld'
    BY <2>1, <1>t, <1>k, <1>i
    DEF ClaimableUnheld, Claimable, Parked, Holds, Active, Hands
  <2>4. ResumeParked'
    BY <2>1, <1>t, <1>k, <1>i
    DEF ResumeParked, Parked
  <2>5. WaitParked'
    BY <2>1, <1>t, <1>k, <1>i
    DEF WaitParked, Parked
  <2>6. NothingForgotten'
    BY <2>1, <1>t, <1>k, <1>i
    DEF NothingForgotten, ForgetsNothing, Working, InHand
  <2>7. Phases'
    BY <2>1, <1>t, <1>k, <1>i
    DEF Phases
  <2>8. Batches'
    BY <2>1, <1>t, <1>k, <1>i
    DEF Batches, Apart
  <2>9. InHandFresh'
    BY <2>1, <1>t, <1>k, <1>i
    DEF InHandFresh, Fresh, InHand
  <2>10. ResultsOpen'
    BY <2>1, <1>t, <1>k, <1>i
    DEF ResultsOpen, Open
  <2>11. AttachedBegun'
    BY <2>1, <1>t, <1>k, <1>i
    DEF AttachedBegun
  <2>12. Unstarted'
    BY <2>1, <1>t, <1>k, <1>i
    DEF Unstarted
  <2>13. EffectIsJournaled'
    BY <2>1, <1>t, <1>k, <1>i
    DEF EffectIsJournaled, Settled
  <2>14. AtMostOnceEffect'
    BY <2>1, <1>t, <1>k, <1>i
    DEF AtMostOnceEffect
  <2>. QED
    BY <2>2, <2>3, <2>4, <2>5, <2>6, <2>7, <2>8,
       <2>9, <2>10, <2>11, <2>12, <2>13, <2>14
<1>22. ASSUME NEW x \in Operations, Resolve(x) \/ Expire(x)
       PROVE  Goal
  <2>1. /\ UNCHANGED <<runStatus, opStatus, effects, pc, run, resumed, call, batch,
                       ready, result, waiting, verdict>>
        /\ attached' \subseteq attached
        /\ \A s \in Runs, d \in Calls :
                interaction[<<s, d>>] = "none" => interaction'[<<s, d>>] = "none"
        /\ \A o \in attached' : o \in Operations =>
                   \/ interaction'[o] = interaction[o]
                   \/ interaction[o] = "pending" /\ interaction'[o] = "resolved"
    BY <1>22, <1>t, <1>k DEF Resolve, Expire, Dropped, turn
  <2>2. OneHolder'
    BY <2>1, <1>t, <1>k, <1>i
    DEF OneHolder, Holds, Active, Hands
  <2>3. ClaimableUnheld'
    BY <2>1, <1>t, <1>k, <1>i
    DEF ClaimableUnheld, Claimable, Parked, Holds, Active, Hands
  <2>4. ResumeParked'
    BY <2>1, <1>t, <1>k, <1>i
    DEF ResumeParked, Parked
  <2>5. WaitParked'
    BY <2>1, <1>t, <1>k, <1>i
    DEF WaitParked, Parked
  <2>6. NothingForgotten'
    BY <2>1, <1>t, <1>k, <1>i
    DEF NothingForgotten, ForgetsNothing, Working, InHand
  <2>7. Phases'
    BY <2>1, <1>t, <1>k, <1>i
    DEF Phases
  <2>8. Batches'
    BY <2>1, <1>t, <1>k, <1>i
    DEF Batches, Apart
  <2>9. InHandFresh'
    BY <2>1, <1>t, <1>k, <1>i
    DEF InHandFresh, Fresh, InHand
  <2>10. ResultsOpen'
    BY <2>1, <1>t, <1>k, <1>i
    DEF ResultsOpen, Open
  <2>11. AttachedBegun'
    BY <2>1, <1>t, <1>k, <1>i
    DEF AttachedBegun
  <2>12. Unstarted'
    BY <2>1, <1>t, <1>i DEF Unstarted
  <2>13. EffectIsJournaled'
    BY <2>1, <1>t, <1>k, <1>i
    DEF EffectIsJournaled, Settled
  <2>14. AtMostOnceEffect'
    BY <2>1, <1>t, <1>k, <1>i
    DEF AtMostOnceEffect
  <2>. QED
    BY <2>2, <2>3, <2>4, <2>5, <2>6, <2>7, <2>8,
       <2>9, <2>10, <2>11, <2>12, <2>13, <2>14
<1>23. CASE UNCHANGED vars
  BY <1>23, <1>i
  DEF vars, durable, interactions, turn, OneHolder, ClaimableUnheld, ResumeParked,
      WaitParked, NothingForgotten, Phases, Batches, InHandFresh, ResultsOpen,
      AttachedBegun, Unstarted, EffectIsJournaled, AtMostOnceEffect, Holds, Active,
      Hands, Claimable, Parked, Working, InHand, ForgetsNothing, Apart, Fresh, Open
<1>. QED
  BY <1>2, <1>3, <1>4, <1>5, <1>6, <1>7, <1>8, <1>9, <1>10, <1>11, <1>12, <1>13,
     <1>14, <1>15, <1>16, <1>17, <1>18, <1>19, <1>20, <1>21, <1>22, <1>23
  DEF Next, Begin, Step

LEMMA InductiveInvariant == Spec => []IInv
<1>1. Init => IInv
  BY InitInv
<1>2. IInv /\ [Next]_vars => IInv'
  BY NextInv
<1>. QED
  BY <1>1, <1>2, PTL DEF Spec

-----------------------------------------------------------------------------
\* Every variable keeps its type.
THEOREM TypeCorrect == Spec => []TypeOK
<1>1. IInv => TypeOK
  BY DEF IInv, TypeInv
<1>. QED
  BY <1>1, InductiveInvariant, PTL

\* No interleaving of turns, resumes, interruptions and crashes, of any number
\* of processes, executes the side effect of a call of a run twice.
THEOREM AtMostOnce == Spec => []AtMostOnceEffect
<1>1. IInv => AtMostOnceEffect
  BY DEF IInv
<1>. QED
  BY <1>1, InductiveInvariant, PTL

\* A side effect that happened is always visible in the records: its operation
\* is running, interrupted or settled.
THEOREM WriteAhead == Spec => []EffectIsJournaled
<1>1. IInv => EffectIsJournaled
  BY DEF IInv
<1>. QED
  BY <1>1, InductiveInvariant, PTL

\* An interaction a request may still claim, once attached, has its checkpoint:
\* the operation of its call waits for the user.
THEOREM CheckpointsWait == Spec => []CheckpointWaits
<1>1. ASSUME IInv, NEW o \in attached, interaction[o] \in {"pending", "resolved"}
      PROVE  opStatus[o] = "awaiting_input"
  <2>1. o \in Operations /\ o = <<o[1], o[2]>>
    BY <1>1 DEF IInv, TypeInv, TypeOK, Operations
  <2>2. Parked(o[1], o[2])
    BY <1>1, <2>1 DEF IInv, ClaimableUnheld, Claimable
  <2>. QED
    BY <2>1, <2>2 DEF Parked
<1>2. IInv => CheckpointWaits
  BY <1>1 DEF CheckpointWaits
<1>. QED
  BY <1>2, InductiveInvariant, PTL

\* No step of any turn, and no other process that starts or resumes a run,
\* overwrites the result or the interruption an operation ended with.
THEOREM OutcomesAreFinal == Spec => SettledIsFinal
<1>. DEFINE Final == \A o \in Operations :
               opStatus[o] \in Settled \cup {"interrupted"} => opStatus'[o] = opStatus[o]
<1>1. ASSUME TypeInv, [Next]_vars
      PROVE  Final
  <2>. SUFFICES ASSUME NEW o \in Operations, opStatus[o] \in Settled \cup {"interrupted"}
                PROVE  opStatus'[o] = opStatus[o]
    OBVIOUS
  <2>t. opStatus \in [Operations -> OpStatuses]
    BY <1>1 DEF TypeInv, TypeOK
  <2>1. ASSUME NEW p \in Processes, NEW r \in Runs, Start(p, r)
        PROVE  opStatus'[o] = opStatus[o]
    BY <2>1, <2>t DEF Start, Interrupts, Settled
  <2>2. ASSUME NEW p \in Processes, NEW c, MarkRunning(Op(p, c))
        PROVE  opStatus'[o] = opStatus[o]
    BY <2>2, <2>t DEF MarkRunning, AllowedTransition, Settled
  <2>3. ASSUME NEW p \in Processes, NEW c \in Calls, Plan(p, c)
        PROVE  opStatus'[o] = opStatus[o]
    BY <2>3, <2>t DEF Plan, Settled
  <2>4. ASSUME NEW p \in Processes, NEW c \in Calls, Record(p, c)
        PROVE  opStatus'[o] = opStatus[o]
    BY <2>4, <2>t DEF Record, AllowedTransition, Settled
  <2>5. CASE UNCHANGED opStatus
    BY <2>5
  <2>. USE DEF durable, interactions, Raise, Moves, Ends, turn
  <2>6. ASSUME NEW p \in Processes, Step(p)
        PROVE  opStatus'[o] = opStatus[o]
    <3>1. CASE MarkResumed(p) \/ Mark(p)
      BY <3>1, <2>2 DEF MarkResumed, Mark
    <3>2. CASE ResumeRun(p) \/ StrayResume(p) \/ Redo(p) \/ Discard(p) \/ Answer(p)
               \/ Exhausted(p) \/ FollowUp(p)
      BY <3>2, <2>5
      DEF ResumeRun, StrayResume, Redo, Discard, Answer, Exhausted, FollowUp
    <3>3. CASE \E calls \in SUBSET Calls : AskForTools(p, calls)
      BY <3>3, <2>5 DEF AskForTools
    <3>4. CASE \E c \in Calls : Plan(p, c) \/ Dispatch(p, c) \/ Record(p, c) \/ RecordRaises(p, c)
      BY <3>4, <2>3, <2>4, <2>5 DEF Dispatch, RecordRaises
    <3>5. CASE Reuse(p) \/ MarkRaises(p) \/ AfterTools(p) \/ Finish(p) \/ Attach(p) \/ Complete(p)
      BY <3>5, <2>5 DEF Reuse, MarkRaises, AfterTools, Finish, Attach, Complete
    <3>. QED
      BY <2>6, <3>1, <3>2, <3>3, <3>4, <3>5 DEF Step
  <2>7. ASSUME NEW p \in Processes, Begin(p) \/ Cancel(p) \/ Crash(p)
        PROVE  opStatus'[o] = opStatus[o]
    BY <2>7, <2>1, <2>5 DEF Begin, Claim, Cancel, Crash
  <2>8. ASSUME NEW x \in Operations, Resolve(x) \/ Expire(x)
        PROVE  opStatus'[o] = opStatus[o]
    BY <2>8, <2>5 DEF Resolve, Expire
  <2>9. CASE UNCHANGED vars
    BY <2>9, <2>5 DEF vars
  <2>. QED
    BY <1>1, <2>6, <2>7, <2>8, <2>9 DEF Next
<1>2. IInv /\ [Next]_vars => [Final]_vars
  BY <1>1 DEF IInv
<1>. QED
  BY <1>2, InductiveInvariant, PTL DEF Spec, SettledIsFinal

\* The records are ahead of the side effects and an answer finds its checkpoint,
\* at whichever step of whichever turn a process dies.
THEOREM JournalAhead == Spec => []JournalIsAhead
<1>1. Spec => [](EffectIsJournaled /\ CheckpointWaits)
  BY WriteAhead, CheckpointsWait, PTL
<1>. QED
  BY <1>1, PTL DEF JournalIsAhead

-----------------------------------------------------------------------------
(* Verdicts: an interaction that may still be answered, or was just claimed *)
(* by a request that cannot resume it, belongs to a run without a verdict.  *)

Asks(r, c) ==
  \/ interaction[<<r, c>>] \in {"pending", "resolved"}
  \/ \E p \in Processes : pc[p] = "stray" /\ run[p] = r /\ resumed[p] = c

\* The turn knows that it has put the call before the user.
AskedBy(p, c) == waiting[p] = c \/ result[p][c] = "awaiting_input"

Unended(r) == runStatus[r] \notin {"absent", "completed", "failed"}

AskingUnended == \A r \in Runs, c \in Calls : Asks(r, c) => Unended(r)
AsksOnce == \A r \in Runs, c, d \in Calls : Asks(r, c) /\ Asks(r, d) => c = d
StrayTook == \A p \in Processes :
  pc[p] = "stray" => interaction[<<run[p], resumed[p]>>] \notin {"pending", "resolved"}
AskingIsKnown == \A p \in Processes, r \in Runs, c \in Calls :
  Active(p) /\ run[p] = r /\ Asks(r, c) => AskedBy(p, c)
ActiveUnended == \A p \in Processes : Active(p) => Unended(run[p])
VerdictFits == \A p \in Processes :
  pc[p] = "finish" /\ verdict[p] \in {"completed", "failed"} => waiting[p] = None

VerdictInv == /\ AskingUnended /\ AsksOnce /\ StrayTook /\ AskingIsKnown
              /\ ActiveUnended /\ VerdictFits

\* A step of one turn that changes neither the runs nor what the user is asked.
LEMMA QuietVerdicts ==
  ASSUME IInv, VerdictInv, NEW p \in Processes,
         UNCHANGED <<runStatus, interaction, run, resumed, waiting, result>>,
         \A q \in Processes : q # p => pc'[q] = pc[q] /\ verdict'[q] = verdict[q],
         Active(p)' => Active(p), pc'[p] # "stray",
         pc'[p] = "finish" /\ verdict'[p] \in {"completed", "failed"} => waiting[p] = None
  PROVE  VerdictInv'
<1>1. \A r \in Runs, c \in Calls : Asks(r, c)' => Asks(r, c)
  BY DEF Asks
<1>2. \A q \in Processes : Active(q)' => Active(q)
  BY DEF Active
<1>3. \A q \in Processes : Active(q) => run[q] \in Runs
  BY DEF IInv, TypeInv, PlacesKnown, Active
<1>4. AskingUnended' /\ AsksOnce'
  BY <1>1 DEF VerdictInv, AskingUnended, AsksOnce, Unended
<1>5. StrayTook'
  BY DEF VerdictInv, StrayTook
<1>6. AskingIsKnown' /\ ActiveUnended'
  BY <1>1, <1>2, <1>3 DEF VerdictInv, AskingIsKnown, ActiveUnended, AskedBy, Unended
<1>7. VerdictFits'
  BY DEF VerdictInv, VerdictFits
<1>. QED
  BY <1>4, <1>5, <1>6, <1>7 DEF VerdictInv

\* A turn that is over, while runs keep their verdicts and the user is asked no more
\* than before.
LEMMA OverVerdicts ==
  ASSUME IInv, VerdictInv, NEW p \in Processes, Forget(p),
         \A r \in Runs : Unended(r) => Unended(r)',
         \A o \in Operations : interaction'[o] \in {"pending", "resolved"} =>
                               interaction[o] \in {"pending", "resolved"}
  PROVE  VerdictInv'
<1>t. /\ pc \in [Processes -> Places]
      /\ run \in [Processes -> Runs \cup {None}]
      /\ resumed \in [Processes -> Calls \cup {None}]
      /\ waiting \in [Processes -> Calls \cup {None}]
      /\ result \in [Processes -> [Calls -> {"none", "awaiting_input"} \cup Settled]]
      /\ verdict \in [Processes -> Verdicts \cup {"none"}]
      /\ Operations = Runs \X Calls
  BY DEF IInv, TypeInv, TypeOK, Operations
<1>p. /\ pc'[p] = "idle"
      /\ \A q \in Processes : q # p =>
           /\ pc'[q] = pc[q] /\ run'[q] = run[q] /\ resumed'[q] = resumed[q]
           /\ waiting'[q] = waiting[q] /\ result'[q] = result[q]
           /\ verdict'[q] = verdict[q]
  BY <1>t DEF Forget
<1>i. \A r \in Runs, c \in Calls :
        interaction'[<<r, c>>] \in {"pending", "resolved"} =>
        interaction[<<r, c>>] \in {"pending", "resolved"}
  BY <1>t
<1>1. \A r \in Runs, c \in Calls : Asks(r, c)' => Asks(r, c)
  BY <1>p, <1>i DEF Asks
<1>2. \A q \in Processes : Active(q)' => q # p /\ Active(q)
  BY <1>p DEF Active
<1>3. \A q \in Processes : Active(q) => run[q] \in Runs
  BY DEF IInv, TypeInv, PlacesKnown, Active
<1>4. AskingUnended' /\ AsksOnce'
  BY <1>1 DEF VerdictInv, AskingUnended, AsksOnce
<1>5. StrayTook'
  BY <1>p, <1>i DEF VerdictInv, StrayTook, IInv, TypeInv, PlacesKnown
<1>6. AskingIsKnown' /\ ActiveUnended'
  BY <1>1, <1>2, <1>3, <1>p DEF VerdictInv, AskingIsKnown, ActiveUnended, AskedBy
<1>7. VerdictFits'
  BY <1>p DEF VerdictInv, VerdictFits
<1>. QED
  BY <1>4, <1>5, <1>6, <1>7 DEF VerdictInv

LEMMA NextVerdicts ==
  ASSUME IInv, VerdictInv, [Next]_vars
  PROVE  VerdictInv'
<1>. USE DEF durable, turn, interactions, Raise, Moves, Ends, Op
<1>t. /\ runStatus \in [Runs -> RunStatuses]
      /\ interaction \in [Operations -> Interactions]
      /\ pc \in [Processes -> Places]
      /\ run \in [Processes -> Runs \cup {None}]
      /\ resumed \in [Processes -> Calls \cup {None}]
      /\ waiting \in [Processes -> Calls \cup {None}]
      /\ result \in [Processes -> [Calls -> {"none", "awaiting_input"} \cup Settled]]
      /\ verdict \in [Processes -> Verdicts \cup {"none"}]
      /\ Operations = Runs \X Calls
  BY DEF IInv, TypeInv, TypeOK, Operations
<1>k. /\ \A p \in Processes : pc[p] # "idle" => run[p] \in Runs
      /\ \A p \in Processes : pc[p] = "stray" => resumed[p] \in Calls
      /\ \A c \in Calls : NoResults[c] = "none"
  BY DEF IInv, TypeInv, PlacesKnown, NoResults
<1>n. /\ \A p \in Processes, c \in Calls :
           pc[p] \notin {"tools", "finish", "attach", "complete"} => ~AskedBy(p, c)
      /\ \A p \in Processes : pc[p] = "finish" => result[p] = NoResults
  BY <1>k, JournalAssumption DEF IInv, Phases, AskedBy, JournalAssumption
<1>1. ASSUME NEW p \in Processes, NEW r \in Runs, Start(p, r)
      PROVE  VerdictInv'
  <2>1. /\ runStatus[r] = "absent" /\ runStatus'[r] = "running"
        /\ \A s \in Runs : Unended(s) => Unended(s)'
        /\ pc' = [pc EXCEPT ![p] = "model"] /\ run' = [run EXCEPT ![p] = r]
        /\ pc[p] = "idle"
        /\ UNCHANGED <<interaction, resumed, waiting, result, verdict>>
    BY <1>1, <1>t DEF Start, Unended, Superseded
  <2>2. \A s \in Runs, c \in Calls : Asks(s, c)' => Asks(s, c)
    BY <2>1, <1>t DEF Asks
  <2>3. \A c \in Calls : ~Asks(r, c)
    BY <2>1 DEF VerdictInv, AskingUnended, Unended
  <2>4. \A q \in Processes : q # p => pc'[q] = pc[q] /\ run'[q] = run[q]
    BY <2>1, <1>t
  <2>5. pc'[p] = "model" /\ run'[p] = r
    BY <2>1, <1>t
  <2>6. AskingUnended' /\ AsksOnce'
    BY <2>1, <2>2 DEF VerdictInv, AskingUnended, AsksOnce
  <2>7. StrayTook' /\ VerdictFits'
    BY <2>1, <2>4, <2>5 DEF VerdictInv, StrayTook, VerdictFits
  <2>8. AskingIsKnown'
    <3>1. \A q \in Processes : q # p => (Active(q)' <=> Active(q))
      BY <2>4 DEF Active
    <3>. QED
      BY <2>1, <2>2, <2>3, <2>4, <2>5, <3>1, <1>k
      DEF VerdictInv, AskingIsKnown, AskedBy, Active
  <2>9. ActiveUnended'
    BY <2>1, <2>4, <2>5, <1>k DEF VerdictInv, ActiveUnended, Active, Unended
  <2>. QED
    BY <2>6, <2>7, <2>8, <2>9 DEF VerdictInv
<1>2. ASSUME NEW p \in Processes, NEW r \in Runs, NEW c \in Calls, Claim(p, r, c)
      PROVE  VerdictInv'
  <2>1. /\ pc[p] = "idle" /\ interaction[<<r, c>>] = "resolved"
        /\ interaction' = [interaction EXCEPT ![<<r, c>>] = "claimed"]
        /\ run' = [run EXCEPT ![p] = r] /\ resumed' = [resumed EXCEPT ![p] = c]
        /\ UNCHANGED <<runStatus, waiting, result, verdict>>
    BY <1>2 DEF Claim, MarksClaimed
  <2>2. /\ run'[p] = r /\ resumed'[p] = c
        /\ \A q \in Processes : q # p =>
             pc'[q] = pc[q] /\ run'[q] = run[q] /\ resumed'[q] = resumed[q]
    BY <1>2, <2>1, <1>t DEF Claim
  <2>3. /\ interaction'[<<r, c>>] = "claimed"
        /\ \A s \in Runs, d \in Calls :
             <<s, d>> # <<r, c>> => interaction'[<<s, d>>] = interaction[<<s, d>>]
    BY <2>1, <1>t
  <2>4. Asks(r, c) /\ Unended(r) /\ \A d \in Calls : Asks(r, d) => d = c
    BY <2>1 DEF Asks, VerdictInv, AskingUnended, AsksOnce
  <2>5. \A s \in Runs, d \in Calls : Asks(s, d)' => Asks(s, d)
    BY <2>2, <2>3, <2>4 DEF Asks
  <2>6. AskingUnended' /\ AsksOnce'
    BY <2>1, <2>5 DEF VerdictInv, AskingUnended, AsksOnce, Unended
  <2>7. StrayTook'
    BY <2>2, <2>3, <1>k DEF VerdictInv, StrayTook
  <2>8. VerdictFits'
    BY <1>2, <2>1, <1>t DEF VerdictInv, VerdictFits, Claim
  <2>9. \A q \in Processes : q # p =>
          /\ Active(q)' <=> Active(q)
          /\ Active(q) => run'[q] = run[q] /\ run[q] \in Runs
    BY <2>2, <1>k DEF Active
  <2>10. AskingIsKnown'
    <3>1. ASSUME NEW q \in Processes, NEW s \in Runs, NEW d \in Calls, q # p,
                 Active(q)', s = run'[q], Asks(s, d)'
          PROVE  AskedBy(q, d)'
      <4>1. Active(q) /\ s = run[q] /\ Asks(s, d)
        BY <2>5, <2>9, <3>1
      <4>2. AskedBy(q, d)
        BY <4>1 DEF VerdictInv, AskingIsKnown
      <4>. QED
        BY <2>1, <4>2 DEF AskedBy
    <3>2. ASSUME NEW d \in Calls, Active(p)', Asks(r, d)'
          PROVE  FALSE
      <4>1. <<r, c>> \in attached /\ pc'[p] # "stray"
        BY <1>2, <3>2, <1>t DEF Claim, Active
      <4>2. d = c
        BY <2>4, <2>5, <3>2
      <4>3. PICK q \in Processes : pc'[q] = "stray" /\ run'[q] = r /\ resumed'[q] = c
        BY <2>3, <3>2, <4>2 DEF Asks
      <4>4. q # p
        BY <4>1, <4>3
      <4>. QED
        BY <2>1, <2>2, <4>3, <4>4 DEF VerdictInv, StrayTook
    <3>. QED
      BY <2>2, <3>1, <3>2 DEF AskingIsKnown
  <2>11. ActiveUnended'
    <3>1. \A q \in Processes : q # p /\ Active(q)' => Unended(run'[q])
      BY <2>9 DEF VerdictInv, ActiveUnended
    <3>. QED
      BY <2>1, <2>2, <2>4, <3>1 DEF ActiveUnended, Unended
  <2>. QED
    BY <2>6, <2>7, <2>8, <2>10, <2>11 DEF VerdictInv
<1>3. ASSUME NEW p \in Processes, ResumeRun(p)
      PROVE  VerdictInv'
  <2>1. /\ pc[p] = "claimed" /\ pc' = [pc EXCEPT ![p] = "resuming"]
        /\ runStatus' = [runStatus EXCEPT ![run[p]] = "running"]
        /\ UNCHANGED <<interaction, run, resumed, waiting, result, verdict>>
    BY <1>3 DEF ResumeRun, Resumes
  <2>2. \A s \in Runs : Unended(s) => Unended(s)'
    BY <2>1, <1>t DEF Unended
  <2>3. \A q \in Processes : /\ Active(q)' <=> Active(q)
                             /\ pc'[q] = "stray" <=> pc[q] = "stray"
                             /\ pc'[q] = "finish" <=> pc[q] = "finish"
    BY <2>1, <1>t DEF Active
  <2>4. \A s \in Runs, c \in Calls : Asks(s, c)' <=> Asks(s, c)
    BY <2>1, <2>3 DEF Asks
  <2>5. \A q \in Processes : Active(q) => run[q] \in Runs
    BY <1>k DEF Active
  <2>. QED
    BY <2>1, <2>2, <2>3, <2>4, <2>5
    DEF VerdictInv, AskingUnended, AsksOnce, StrayTook, AskingIsKnown, AskedBy,
        ActiveUnended, VerdictFits
<1>4. ASSUME NEW p \in Processes, StrayResume(p)
      PROVE  VerdictInv'
  <2>1. Forget(p) /\ interaction' = interaction
        /\ runStatus' = [runStatus EXCEPT ![run[p]] = "running"]
    BY <1>4 DEF StrayResume, Resumes
  <2>2. \A s \in Runs : Unended(s) => Unended(s)'
    BY <2>1, <1>t DEF Unended
  <2>. QED
    BY <2>1, <2>2, OverVerdicts
<1>5. ASSUME NEW p \in Processes,
             \/ MarkResumed(p) \/ Discard(p) \/ Answer(p) \/ Exhausted(p) \/ FollowUp(p)
             \/ \E calls \in SUBSET Calls : AskForTools(p, calls)
             \/ \E c \in Calls : Plan(p, c)
             \/ Reuse(p) \/ Mark(p) \/ AfterTools(p) \/ Cancel(p) \/ Attach(p)
      PROVE  VerdictInv'
  <2>1. UNCHANGED <<runStatus, interaction, run, resumed, waiting, result>>
    BY <1>5 DEF MarkResumed, Discard, Answer, Exhausted, FollowUp, AskForTools, Plan,
       Reuse, Mark, AfterTools, Cancel, Attach
  <2>2. \A q \in Processes : q # p => pc'[q] = pc[q] /\ verdict'[q] = verdict[q]
    BY <1>5, <1>t DEF MarkResumed, Discard, Answer, Exhausted, FollowUp, AskForTools,
       Plan, Reuse, Mark, AfterTools, Cancel, Attach
  <2>3. (Active(p)' => Active(p)) /\ pc'[p] # "stray"
    BY <1>5, <1>t DEF MarkResumed, Discard, Answer, Exhausted, FollowUp, AskForTools,
       Plan, Reuse, Mark, AfterTools, Cancel, Attach, Active
  <2>4. pc'[p] = "finish" /\ verdict'[p] \in {"completed", "failed"} => waiting[p] = None
    <3>1. CASE Discard(p) \/ Answer(p) \/ Exhausted(p)
      BY <3>1 DEF Discard, Answer, Exhausted, IInv, Phases
    <3>2. CASE AfterTools(p)
      BY <3>2, <1>t DEF AfterTools
    <3>3. CASE Cancel(p)
      BY <3>3 DEF Cancel, VerdictInv, VerdictFits
    <3>. QED
      BY <1>5, <1>t, <3>1, <3>2, <3>3
      DEF MarkResumed, FollowUp, AskForTools, Plan, Reuse, Mark, Attach
  <2>. QED
    BY <2>1, <2>2, <2>3, <2>4, QuietVerdicts
<1>6. ASSUME NEW p \in Processes,
             \/ MarkRaises(p) \/ (\E c \in Calls : RecordRaises(p, c)) \/ Crash(p)
             \/ Complete(p)
      PROVE  VerdictInv'
  <2>1. Forget(p) /\ runStatus' = runStatus
    BY <1>6 DEF MarkRaises, RecordRaises, Crash, Complete
  <2>2. \A o \in Operations : interaction'[o] \in {"pending", "resolved"} =>
                              interaction[o] \in {"pending", "resolved"}
    BY <1>6, <1>t DEF MarkRaises, RecordRaises, Crash, Complete, Dropped
  <2>. QED
    BY <2>1, <2>2, OverVerdicts DEF Unended
<1>7. ASSUME NEW p \in Processes, Redo(p)
      PROVE  VerdictInv'
  <2>1. /\ pc[p] = "redo" /\ pc' = [pc EXCEPT ![p] = "tools"]
        /\ UNCHANGED <<runStatus, interaction, run, resumed, waiting, verdict>>
        /\ \A q \in Processes : q # p => result'[q] = result[q]
    BY <1>7, <1>t DEF Redo, Execute
  <2>2. \A q \in Processes : /\ Active(q)' <=> Active(q)
                             /\ pc'[q] = "stray" <=> pc[q] = "stray"
                             /\ pc'[q] = "finish" <=> pc[q] = "finish"
    BY <2>1, <1>t DEF Active
  <2>3. \A s \in Runs, c \in Calls : Asks(s, c)' <=> Asks(s, c)
    BY <2>1, <2>2 DEF Asks
  <2>4. \A q \in Processes : Active(q) => run[q] \in Runs
    BY <1>k DEF Active
  <2>5. \A c \in Calls : ~Asks(run[p], c)
    BY <2>1, <2>4, <1>n DEF VerdictInv, AskingIsKnown, Active
  <2>6. AskingIsKnown'
    BY <2>1, <2>2, <2>3, <2>4, <2>5 DEF VerdictInv, AskingIsKnown, AskedBy
  <2>. QED
    BY <2>1, <2>2, <2>3, <2>4, <2>6
    DEF VerdictInv, AskingUnended, AsksOnce, StrayTook, ActiveUnended, VerdictFits, Unended
<1>8. ASSUME NEW p \in Processes, NEW c \in Calls, Record(p, c)
      PROVE  VerdictInv'
  <2>1. /\ pc[p] = "tools"
        /\ UNCHANGED <<runStatus, interaction, pc, run, resumed, verdict>>
        /\ result' = [result EXCEPT ![p] = [@ EXCEPT ![c] = "none"]]
        /\ waiting' = IF result[p][c] = "awaiting_input"
                      THEN [waiting EXCEPT ![p] = c] ELSE waiting
    BY <1>8 DEF Record, Dispatched, Marked
  <2>2. \A q \in Processes, d \in Calls : AskedBy(q, d) => AskedBy(q, d)'
    <3>1. ASSUME NEW d \in Calls, AskedBy(p, d)
          PROVE  AskedBy(p, d)'
      <4>1. CASE result[p][c] = "awaiting_input"
        <5>1. waiting[p] = None /\ d = c
          BY <3>1, <4>1, JournalAssumption
          DEF JournalAssumption, IInv, Batches, Apart, AskedBy
        <5>. QED
          BY <2>1, <4>1, <5>1, <1>t DEF AskedBy
      <4>2. CASE result[p][c] # "awaiting_input"
        BY <2>1, <3>1, <4>2, <1>t DEF AskedBy
      <4>. QED
        BY <4>1, <4>2
    <3>2. \A q \in Processes : q # p => waiting'[q] = waiting[q] /\ result'[q] = result[q]
      BY <2>1, <1>t
    <3>. QED
      BY <3>1, <3>2 DEF AskedBy
  <2>3. \A s \in Runs, d \in Calls : Asks(s, d)' <=> Asks(s, d)
    BY <2>1 DEF Asks
  <2>4. \A q \in Processes : (Active(q)' <=> Active(q)) /\ (Active(q) => run[q] \in Runs)
    BY <2>1, <1>k DEF Active
  <2>5. VerdictFits'
    BY <2>1, <1>t DEF VerdictInv, VerdictFits
  <2>. QED
    BY <2>1, <2>2, <2>3, <2>4, <2>5
    DEF VerdictInv, AskingUnended, AsksOnce, StrayTook, AskingIsKnown, ActiveUnended,
        Unended
<1>9. ASSUME NEW p \in Processes, NEW c \in Calls, Dispatch(p, c)
      PROVE  VerdictInv'
  <2>1. /\ pc[p] = "tools" /\ c \in ready[p]
        /\ UNCHANGED <<runStatus, pc, run, resumed, waiting, verdict>>
        /\ \A q \in Processes : q # p => result'[q] = result[q]
        /\ \A d \in Calls : d # c => result'[p][d] = result[p][d]
    BY <1>9, <1>t DEF Dispatch, Marked, Execute, PutToUser
  <2>2. run[p] \in Runs /\ Active(p)
    BY <2>1, <1>k DEF Active
  <2>3. waiting[p] = None /\ result[p][c] = "none"
    BY <2>1 DEF IInv, Phases, Batches, Apart
  <2>4. \A q \in Processes : (Active(q)' <=> Active(q)) /\ (Active(q) => run[q] \in Runs)
    BY <2>1, <1>k DEF Active
  <2>5. \A q \in Processes, d \in Calls : AskedBy(q, d) => AskedBy(q, d)'
    BY <2>1, <2>3, JournalAssumption DEF AskedBy, JournalAssumption
  <2>6. CASE interaction' = interaction
    <3>1. \A s \in Runs, d \in Calls : Asks(s, d)' <=> Asks(s, d)
      BY <2>1, <2>6 DEF Asks
    <3>. QED
      BY <2>1, <2>4, <2>5, <2>6, <3>1
      DEF VerdictInv, AskingUnended, AsksOnce, StrayTook, AskingIsKnown, ActiveUnended,
          VerdictFits, Unended
  <2>7. CASE /\ ~Waits(p) /\ interaction' = [interaction EXCEPT ![<<run[p], c>>] = "pending"]
             /\ result' = [result EXCEPT ![p] = [@ EXCEPT ![c] = "awaiting_input"]]
    <3>1. \A d \in Calls : ~AskedBy(p, d)
      BY <2>3, <2>7, JournalAssumption DEF AskedBy, Waits, JournalAssumption
    <3>2. \A d \in Calls : ~Asks(run[p], d)
      BY <2>2, <3>1 DEF VerdictInv, AskingIsKnown
    <3>3. \A s \in Runs, d \in Calls : <<s, d>> # <<run[p], c>> =>
            interaction'[<<s, d>>] = interaction[<<s, d>>]
      BY <2>2, <2>7, <1>t
    <3>4. \A s \in Runs, d \in Calls :
            Asks(s, d)' => Asks(s, d) \/ (s = run[p] /\ d = c)
      BY <2>1, <3>3 DEF Asks
    <3>5. AskedBy(p, c)'
      BY <2>7, <1>t DEF AskedBy
    <3>6. Unended(run[p])
      BY <2>2 DEF VerdictInv, ActiveUnended
    <3>7. AskingUnended'
      BY <2>1, <3>4, <3>6 DEF VerdictInv, AskingUnended, Unended
    <3>8. AsksOnce'
      BY <3>2, <3>4 DEF VerdictInv, AsksOnce
    <3>9. StrayTook'
      <4>1. ASSUME NEW q \in Processes, pc[q] = "stray"
            PROVE  run[q] \in Runs /\ resumed[q] \in Calls /\ Asks(run[q], resumed[q])
        BY <4>1, <1>k DEF Asks
      <4>. QED
        BY <2>1, <3>2, <3>3, <4>1 DEF VerdictInv, StrayTook
    <3>10. AskingIsKnown'
      <4>1. ASSUME NEW q \in Processes, Active(q), q # p
            PROVE  run[q] # run[p]
        BY <2>2, <4>1 DEF IInv, OneHolder, Holds
      <4>. QED
        BY <2>1, <2>4, <2>5, <3>4, <3>5, <4>1 DEF VerdictInv, AskingIsKnown
    <3>. QED
      BY <2>1, <2>4, <3>7, <3>8, <3>9, <3>10
      DEF VerdictInv, ActiveUnended, VerdictFits, Unended
  <2>. QED
    BY <1>9, <2>6, <2>7 DEF Dispatch, PutToUser
<1>10. ASSUME NEW p \in Processes, Finish(p)
       PROVE  VerdictInv'
  <2>1. /\ pc[p] = "finish" /\ pc' = [pc EXCEPT ![p] = "attach"]
        /\ runStatus' = [runStatus EXCEPT ![run[p]] = verdict[p]]
        /\ UNCHANGED <<interaction, run, resumed, waiting, result, verdict>>
    BY <1>10 DEF Finish
  <2>2. run[p] \in Runs /\ Active(p) /\ verdict[p] \in Verdicts
    BY <2>1, <1>k DEF Active, IInv, TypeInv, PlacesKnown
  <2>3. \A q \in Processes : /\ Active(q)' => Active(q) /\ q # p
                             /\ pc'[q] = "stray" <=> pc[q] = "stray"
                             /\ pc'[q] = "finish" => pc[q] = "finish"
                             /\ Active(q) => run[q] \in Runs
    BY <2>1, <1>t, <1>k DEF Active
  <2>4. \A s \in Runs, c \in Calls : Asks(s, c)' <=> Asks(s, c)
    BY <2>1, <2>3 DEF Asks
  <2>5. \A s \in Runs : s # run[p] => runStatus'[s] = runStatus[s]
    BY <2>1, <1>t
  <2>6. ASSUME NEW s \in Runs, NEW c \in Calls, s = run[p], Asks(s, c)
        PROVE  Unended(s)'
    <3>1. AskedBy(p, c)
      BY <2>2, <2>6 DEF VerdictInv, AskingIsKnown
    <3>2. waiting[p] # None
      BY <2>1, <3>1, <1>n, <1>k, JournalAssumption DEF AskedBy, JournalAssumption
    <3>3. verdict[p] \notin {"completed", "failed"}
      BY <2>1, <3>2 DEF VerdictInv, VerdictFits
    <3>. QED
      BY <2>1, <2>2, <2>6, <3>3, <1>t DEF Unended, Verdicts
  <2>7. AskingUnended'
    BY <2>4, <2>5, <2>6 DEF VerdictInv, AskingUnended, Unended
  <2>8. ActiveUnended'
    <3>1. ASSUME NEW q \in Processes, Active(q)'
          PROVE  run[q] # run[p] /\ Active(q)
      BY <2>2, <2>3, <3>1 DEF IInv, OneHolder, Holds
    <3>. QED
      BY <2>1, <2>3, <2>5, <3>1 DEF VerdictInv, ActiveUnended, Unended
  <2>. QED
    BY <2>1, <2>3, <2>4, <2>7, <2>8
    DEF VerdictInv, AsksOnce, StrayTook, AskingIsKnown, AskedBy, VerdictFits
<1>11. ASSUME NEW o \in Operations, Resolve(o) \/ Expire(o)
       PROVE  VerdictInv'
  <2>1. UNCHANGED <<runStatus, pc, run, resumed, waiting, result, verdict>>
    BY <1>11 DEF Resolve, Expire
  <2>2. \A s \in Runs, c \in Calls :
          interaction'[<<s, c>>] \in {"pending", "resolved"} =>
          interaction[<<s, c>>] \in {"pending", "resolved"}
    BY <1>11, <1>t DEF Resolve, Expire, Dropped
  <2>3. \A s \in Runs, c \in Calls : Asks(s, c)' => Asks(s, c)
    BY <2>1, <2>2 DEF Asks
  <2>4. \A q \in Processes : (Active(q)' <=> Active(q)) /\ (Active(q) => run[q] \in Runs)
    BY <2>1, <1>k DEF Active
  <2>. QED
    BY <2>1, <2>2, <2>3, <2>4, <1>k
    DEF VerdictInv, AskingUnended, AsksOnce, StrayTook, AskingIsKnown, AskedBy,
        ActiveUnended, VerdictFits, Unended
<1>12. CASE UNCHANGED vars
  BY <1>12 DEF vars, VerdictInv, AskingUnended, AsksOnce, StrayTook, AskingIsKnown,
     AskedBy, ActiveUnended, VerdictFits, Unended, Asks, Active
<1>. QED
  BY <1>1, <1>2, <1>3, <1>4, <1>5, <1>6, <1>7, <1>8, <1>9, <1>10, <1>11, <1>12
  DEF Next, Begin, Step

\* The answer or the failure a run ended with is never taken back, by no turn, resume,
\* interruption or stray answer of any process (engine.py, _finalize and resume_run).
THEOREM VerdictsAreFinal == Spec => VerdictIsFinal
<1>. DEFINE Kept == \A r \in Runs :
               runStatus[r] \in {"completed", "failed"} => runStatus'[r] = runStatus[r]
<1>1. Init => VerdictInv
  BY JournalAssumption
  DEF JournalAssumption, Init, VerdictInv, AskingUnended, AsksOnce, StrayTook,
      AskingIsKnown, ActiveUnended, VerdictFits, Asks, Active, Operations
<1>2. ASSUME IInv, VerdictInv, [Next]_vars
      PROVE  Kept
  <2>. SUFFICES ASSUME NEW r \in Runs, runStatus[r] \in {"completed", "failed"}
                PROVE  runStatus'[r] = runStatus[r]
    OBVIOUS
  <2>t. runStatus \in [Runs -> RunStatuses]
    BY <1>2 DEF IInv, TypeInv, TypeOK
  <2>. USE DEF durable, turn, interactions, Raise, Moves, Ends
  <2>1. ASSUME NEW p \in Processes, NEW s \in Runs, Start(p, s)
        PROVE  runStatus'[r] = runStatus[r]
    BY <2>1, <2>t DEF Start, Superseded
  <2>2. ASSUME NEW p \in Processes, ResumeRun(p) \/ Finish(p)
        PROVE  runStatus'[r] = runStatus[r]
    <3>1. Unended(run[p])
      BY <1>2, <2>2 DEF VerdictInv, ActiveUnended, Active, ResumeRun, Finish
    <3>. QED
      BY <2>2, <2>t, <3>1 DEF Unended, ResumeRun, Finish, Resumes
  <2>3. ASSUME NEW p \in Processes, StrayResume(p)
        PROVE  runStatus'[r] = runStatus[r]
    <3>1. pc[p] = "stray" /\ run[p] \in Runs /\ resumed[p] \in Calls
      BY <1>2, <2>3 DEF StrayResume, IInv, TypeInv, PlacesKnown
    <3>2. Unended(run[p])
      BY <1>2, <3>1 DEF VerdictInv, AskingUnended, Asks
    <3>. QED
      BY <2>3, <2>t, <3>2 DEF Unended, StrayResume, Resumes
  <2>4. CASE UNCHANGED runStatus
    BY <2>4
  <2>5. ASSUME NEW p \in Processes, Step(p)
        PROVE  runStatus'[r] = runStatus[r]
    <3>1. CASE MarkResumed(p) \/ Redo(p) \/ Discard(p) \/ Answer(p) \/ Exhausted(p)
               \/ FollowUp(p) \/ \E calls \in SUBSET Calls : AskForTools(p, calls)
      BY <3>1, <2>4
      DEF MarkResumed, Redo, Discard, Answer, Exhausted, FollowUp, AskForTools
    <3>2. CASE \E c \in Calls : Plan(p, c) \/ Dispatch(p, c) \/ Record(p, c) \/ RecordRaises(p, c)
      BY <3>2, <2>4 DEF Plan, Dispatch, Record, RecordRaises
    <3>3. CASE Reuse(p) \/ Mark(p) \/ MarkRaises(p) \/ AfterTools(p) \/ Attach(p) \/ Complete(p)
      BY <3>3, <2>4 DEF Reuse, Mark, MarkRaises, AfterTools, Attach, Complete
    <3>. QED
      BY <2>2, <2>3, <2>5, <3>1, <3>2, <3>3 DEF Step
  <2>6. ASSUME NEW p \in Processes, Begin(p) \/ Cancel(p) \/ Crash(p)
        PROVE  runStatus'[r] = runStatus[r]
    BY <2>6, <2>1, <2>4 DEF Begin, Claim, Cancel, Crash
  <2>7. ASSUME NEW x \in Operations, Resolve(x) \/ Expire(x)
        PROVE  runStatus'[r] = runStatus[r]
    BY <2>7, <2>4 DEF Resolve, Expire
  <2>8. CASE UNCHANGED vars
    BY <2>8, <2>4 DEF vars
  <2>. QED
    BY <1>2, <2>5, <2>6, <2>7, <2>8 DEF Next
<1>3. IInv /\ VerdictInv /\ [Next]_vars => VerdictInv' /\ [Kept]_vars
  BY <1>2, NextVerdicts
<1>. QED
  BY <1>1, <1>3, InductiveInvariant, PTL DEF Spec, VerdictIsFinal

-----------------------------------------------------------------------------
(* The turns use the store by its protocol. *)

LEMMA MarksByProtocol ==
  ASSUME TypeInv, NEW o \in Operations, MarkRunning(o), UNCHANGED runStatus
  PROVE  Store!StoreNext \/ UNCHANGED <<runStatus, opStatus>>
<1>t. opStatus \in [Operations -> OpStatuses]
  BY DEF TypeInv, TypeOK
<1>1. CASE opStatus[o] = "running"
  BY <1>1, <1>t DEF MarkRunning
<1>2. CASE opStatus[o] # "running"
  <2>1. opStatus[o] \in {"planned", "awaiting_input"}
    BY <1>2 DEF MarkRunning, AllowedTransition, Settled
  <2>2. Store!MarkOperationRunning(o)
    BY <2>1 DEF MarkRunning, Store!MarkOperationRunning
  <2>. QED
    BY <2>2 DEF Store!StoreNext, Operations
<1>. QED
  BY <1>1, <1>2

LEMMA StepByProtocol ==
  ASSUME TypeInv, Unstarted, [Next]_vars
  PROVE  [Store!StoreNext]_(Store!storeVars)
<1>. DEFINE Same == UNCHANGED <<runStatus, opStatus>>
<1>. DEFINE Goal == Store!StoreNext \/ Same
<1>. SUFFICES Goal
  BY DEF Store!storeVars
<1>t. /\ runStatus \in [Runs -> RunStatuses] /\ opStatus \in [Operations -> OpStatuses]
      /\ run \in [Processes -> Runs \cup {None}]
      /\ result \in [Processes -> [Calls -> {"none", "awaiting_input"} \cup Settled]]
      /\ PlacesKnown
  BY DEF TypeInv, TypeOK
<1>s. ASSUME NEW p \in Processes, pc[p] # "idle"
      PROVE  run[p] \in Runs /\ runStatus[run[p]] # "absent"
  BY <1>s, <1>t DEF PlacesKnown, Unstarted
<1>o. ASSUME NEW p \in Processes, pc[p] # "idle", NEW c \in Calls
      PROVE  Op(p, c) \in Operations
  BY <1>o, <1>s DEF Op, Operations
<1>1. ASSUME NEW p \in Processes, NEW r \in Runs, Start(p, r)
      PROVE  Goal
  <2>1. Store!StartRun(r)
    BY <1>1 DEF Start, Superseded, Interrupts, Store!StartRun, Store!Unfinished, Operations
  <2>. QED
    BY <2>1 DEF Store!StoreNext
<1>2. ASSUME NEW p \in Processes, ResumeRun(p) \/ StrayResume(p)
      PROVE  Goal
  <2>1. pc[p] # "idle" /\ Resumes(p) /\ UNCHANGED opStatus
    BY <1>2 DEF ResumeRun, StrayResume, Moves
  <2>2. run[p] \in Runs /\ Store!ResumeRun(run[p])
    BY <2>1, <1>s DEF Resumes, Store!ResumeRun
  <2>. QED
    BY <2>2 DEF Store!StoreNext
<1>3. ASSUME NEW p \in Processes, MarkResumed(p) \/ Mark(p)
      PROVE  Goal
  <2>1. PICK c \in Calls : pc[p] # "idle" /\ MarkRunning(Op(p, c)) /\ UNCHANGED runStatus
    <3>1. CASE MarkResumed(p)
      BY <3>1, <1>t DEF MarkResumed, Moves, PlacesKnown
    <3>2. CASE Mark(p)
      BY <3>2, <1>t DEF Mark, Moves, PlacesKnown
    <3>. QED
      BY <1>3, <3>1, <3>2
  <2>2. Op(p, c) \in Operations
    BY <2>1, <1>o
  <2>. QED
    BY <2>1, <2>2, MarksByProtocol
<1>4. ASSUME NEW p \in Processes, NEW c \in Calls, Plan(p, c)
      PROVE  Goal
  <2>1. Op(p, c) \in Operations /\ UNCHANGED runStatus
    BY <1>4, <1>o DEF Plan, Moves
  <2>2. CASE opStatus[Op(p, c)] = "absent"
    <3>1. Store!PlanOperation(Op(p, c))
      BY <1>4, <2>1, <2>2 DEF Plan, Store!PlanOperation
    <3>. QED
      BY <2>1, <3>1 DEF Store!StoreNext, Operations
  <2>3. CASE opStatus[Op(p, c)] # "absent"
    BY <1>4, <2>1, <2>3, <1>t DEF Plan
  <2>. QED
    BY <2>2, <2>3
<1>5. ASSUME NEW p \in Processes, NEW c \in Calls, Record(p, c)
      PROVE  Goal
  <2>1. Op(p, c) \in Operations /\ UNCHANGED runStatus
    BY <1>5, <1>o DEF Record, Dispatched, Marked
  <2>2. CASE UNCHANGED opStatus
    BY <2>1, <2>2
  <2>3. CASE opStatus' # opStatus
    <3>1. /\ AllowedTransition(opStatus[Op(p, c)], result[p][c])
          /\ opStatus' = [opStatus EXCEPT ![Op(p, c)] = result[p][c]]
      BY <1>5, <2>3 DEF Record
    <3>2. result[p][c] \in {"awaiting_input"} \cup Settled
      BY <1>5, <1>t DEF Record
    <3>3. opStatus[Op(p, c)] = "running"
      BY <3>1, <3>2 DEF AllowedTransition, Settled
    <3>4. Store!CompleteOperation(Op(p, c))
      BY <3>1, <3>2, <3>3, <2>1 DEF Store!CompleteOperation, Store!WithResult, Settled
    <3>. QED
      BY <2>1, <3>4 DEF Store!StoreNext, Operations
  <2>. QED
    BY <2>2, <2>3
<1>6. ASSUME NEW p \in Processes, Finish(p)
      PROVE  Goal
  <2>1. /\ run[p] \in Runs /\ runStatus[run[p]] # "absent"
        /\ verdict[p] \in {"completed", "failed", "cancelled", "awaiting_input"}
    BY <1>6, <1>s, <1>t DEF Finish, Moves, PlacesKnown, Verdicts
  <2>2. Store!FinalizeRun(run[p])
    BY <1>6, <2>1 DEF Finish, Store!FinalizeRun
  <2>. QED
    BY <2>1, <2>2 DEF Store!StoreNext
<1>. USE DEF durable, interactions, Raise, Moves, Ends, turn
<1>7. ASSUME NEW p \in Processes, Step(p)
      PROVE  Goal
  <2>1. CASE Redo(p) \/ Discard(p) \/ Answer(p) \/ Exhausted(p) \/ FollowUp(p)
             \/ Reuse(p) \/ MarkRaises(p) \/ AfterTools(p) \/ Attach(p) \/ Complete(p)
    BY <2>1 DEF Redo, Discard, Answer, Exhausted, FollowUp, Reuse, MarkRaises, AfterTools,
                Attach, Complete
  <2>2. CASE \E calls \in SUBSET Calls : AskForTools(p, calls)
    BY <2>2 DEF AskForTools
  <2>3. CASE \E c \in Calls : Plan(p, c) \/ Dispatch(p, c) \/ Record(p, c) \/ RecordRaises(p, c)
    BY <2>3, <1>4, <1>5 DEF Dispatch, RecordRaises
  <2>. QED
    BY <1>7, <1>2, <1>3, <1>6, <2>1, <2>2, <2>3 DEF Step
<1>8. ASSUME NEW p \in Processes, Begin(p) \/ Cancel(p) \/ Crash(p)
      PROVE  Goal
  BY <1>8, <1>1 DEF Begin, Claim, Cancel, Crash
<1>9. ASSUME NEW o \in Operations, Resolve(o) \/ Expire(o)
      PROVE  Goal
  BY <1>9 DEF Resolve, Expire
<1>10. CASE UNCHANGED vars
  BY <1>10 DEF vars
<1>. QED
  BY <1>7, <1>8, <1>9, <1>10 DEF Next

\* Any number of processes, with their crashes, resumes and interruptions, call
\* the store only as its protocol says, so that what SessionStore promises of
\* the runs and operations of a session holds under them.
THEOREM StoreIsImplemented == Spec => ImplementsSessionStore
<1>1. Init => Store!StoreInit
  BY DEF Init, Store!StoreInit, Operations
<1>2. IInv /\ [Next]_vars => [Store!StoreNext]_(Store!storeVars)
  BY StepByProtocol DEF IInv
<1>. QED
  BY <1>1, <1>2, InductiveInvariant, PTL DEF Spec, ImplementsSessionStore, Store!StoreSpec

-----------------------------------------------------------------------------
(* One process: a run that has ended is settled.  With two, a process may end a *)
(* run whose turn goes on in the other, so the records alone cannot promise it.  *)

Alone == \A p, q \in Processes : p = q

\* The run of a turn is running until the turn says otherwise.
RunsWhileHeld == \A p \in Processes :
  /\ pc[p] \in {"resuming", "redo", "model", "tools", "mark", "finish"} =>
       runStatus[run[p]] = "running"
  /\ pc[p] = "attach" => runStatus[run[p]] # "running"

\* A call of a run under way is planned for one moment only, and none is under
\* way when its turn ends.
PlannedIsNext == \A p \in Processes, c \in Calls :
  Active(p) /\ opStatus[Op(p, c)] = "planned" => pc[p] = "mark" /\ call[p] = c
NoneAtFinish == \A p \in Processes, c \in Calls :
  pc[p] = "finish" => opStatus[Op(p, c)] # "running"

\* Nor is one left behind in a run that can be resumed, or that awaits the user.
ClaimHasNoPlan == \A o \in Operations, d \in Calls :
  Claimable(o) => opStatus[<<o[1], d>>] # "planned"
AwaitingIsParked == \A r \in Runs :
  runStatus[r] = "awaiting_input" => \E c \in Calls : Parked(r, c)

SettleInv ==
  /\ RunsWhileHeld /\ PlannedIsNext /\ NoneAtFinish /\ ClaimHasNoPlan /\ AwaitingIsParked
  /\ FinishedRunsAreSettled

LEMMA InitSettle == Init => SettleInv
<1>. SUFFICES ASSUME Init PROVE SettleInv
  OBVIOUS
<1>1. RunsWhileHeld /\ PlannedIsNext /\ NoneAtFinish /\ ClaimHasNoPlan
  BY DEF Init, RunsWhileHeld, PlannedIsNext, NoneAtFinish, ClaimHasNoPlan, Active, Claimable
<1>2. AwaitingIsParked /\ FinishedRunsAreSettled
  BY DEF Init, AwaitingIsParked, FinishedRunsAreSettled
<1>. QED
  BY <1>1, <1>2 DEF SettleInv

LEMMA OfOperations ==
  /\ \A r \in Runs, c \in Calls : <<r, c>> \in Operations
  /\ \A o \in Operations : o[1] \in Runs /\ o[2] \in Calls /\ o = <<o[1], o[2]>>
  BY DEF Operations

\* A step that leaves the records alone.
LEMMA RecordsKept ==
  ASSUME IInv, SettleInv, UNCHANGED <<runStatus, opStatus>>,
         RunsWhileHeld', PlannedIsNext', NoneAtFinish',
         \A o \in Operations : Claimable(o)' =>
           Claimable(o) \/ \A d \in Calls : opStatus[<<o[1], d>>] # "planned"
  PROVE  SettleInv'
<1>1. ClaimHasNoPlan'
  BY DEF SettleInv, ClaimHasNoPlan
<1>2. AwaitingIsParked' /\ FinishedRunsAreSettled'
  BY DEF SettleInv, AwaitingIsParked, Parked, FinishedRunsAreSettled
<1>. QED
  BY <1>1, <1>2 DEF SettleInv

\* A call under way is in hand or has a result.
LEMMA IdleIsSettled ==
  ASSUME IInv, SettleInv, NEW p \in Processes, pc[p] \in {"model", "tools"},
         ready[p] = {}, result[p] = NoResults
  PROVE  \A c \in Calls : opStatus[Op(p, c)] \notin {"planned", "running"}
<1>. SUFFICES ASSUME NEW c \in Calls
              PROVE  opStatus[Op(p, c)] \notin {"planned", "running"}
  OBVIOUS
<1>1. ForgetsNothing(p, c)
  BY DEF IInv, NothingForgotten
<1>2. opStatus[Op(p, c)] # "running"
  BY <1>1 DEF ForgetsNothing, Working, InHand, NoResults
<1>3. opStatus[Op(p, c)] # "planned"
  BY DEF SettleInv, PlannedIsNext, Active
<1>. QED
  BY <1>2, <1>3

LEMMA WorkSettle ==
  ASSUME Alone, IInv, IInv', SettleInv, NEW p \in Processes,
         \/ Redo(p) \/ Discard(p) \/ Answer(p) \/ Exhausted(p) \/ FollowUp(p) \/ Reuse(p)
         \/ AfterTools(p) \/ \E calls \in SUBSET Calls : AskForTools(p, calls)
         \/ \E c \in Calls : Dispatch(p, c)
  PROVE  SettleInv'
<1>1. \A q \in Processes : q = p
  BY DEF Alone
<1>2. /\ UNCHANGED <<runStatus, opStatus, attached, run>>
      /\ pc[p] \in {"redo", "model", "tools", "mark"}
      /\ pc'[p] \in {"model", "tools", "finish"}
      /\ pc[p] = "mark" => \E c \in Calls : c = call[p] /\ opStatus[Op(p, c)] \in Settled
      /\ pc'[p] = "finish" => pc[p] \in {"model", "tools"} /\ ready[p] = {} /\ result[p] = NoResults
  <2>t. pc \in [Processes -> Places] /\ (pc[p] = "mark" => call[p] \in Calls)
    BY DEF IInv, TypeInv, TypeOK, PlacesKnown
  <2>m. ready[p] = {} \/ pc[p] # "model"
    BY DEF IInv, Phases
  <2>n. result[p] = NoResults \/ pc[p] # "model"
    BY DEF IInv, Phases
  <2>. USE DEF Moves, Ends, durable, interactions
  <2>1. CASE Redo(p) \/ FollowUp(p) \/ \E calls \in SUBSET Calls : AskForTools(p, calls)
    BY <2>1, <2>t DEF Redo, FollowUp, AskForTools
  <2>2. CASE Discard(p) \/ Answer(p) \/ Exhausted(p)
    BY <2>2, <2>t, <2>m, <2>n DEF Discard, Answer, Exhausted
  <2>3. CASE Reuse(p)
    BY <2>3, <2>t DEF Reuse
  <2>4. CASE AfterTools(p)
    BY <2>4, <2>t DEF AfterTools, Dispatched, Marked
  <2>5. CASE \E c \in Calls : Dispatch(p, c)
    BY <2>5, <2>t DEF Dispatch, Marked
  <2>. QED
    BY <2>1, <2>2, <2>3, <2>4, <2>5
<1>3. \A o \in Operations : interaction'[o] = interaction[o] \/ o[1] = run[p]
  <2>1. ASSUME NEW c \in Calls, Dispatch(p, c)
        PROVE  \A o \in Operations : interaction'[o] = interaction[o] \/ o[1] = run[p]
    <3>1. \/ UNCHANGED interaction
          \/ interaction' = [interaction EXCEPT ![<<run[p], c>>] = "pending"]
      BY <2>1 DEF Dispatch, PutToUser, Op
    <3>2. interaction \in [Operations -> Interactions]
      BY DEF IInv, TypeInv, TypeOK
    <3>. QED
      BY <3>1, <3>2
  <2>2. CASE UNCHANGED interaction
    BY <2>2
  <2>. QED
    BY <2>1, <2>2 DEF Redo, Discard, Answer, Exhausted, FollowUp, Reuse, AfterTools, AskForTools,
                      durable, interactions
<1>4. \A c \in Calls : opStatus[Op(p, c)] # "planned"
  BY <1>2 DEF SettleInv, PlannedIsNext, Active, Settled
<1>5. RunsWhileHeld'
  BY <1>1, <1>2 DEF SettleInv, RunsWhileHeld
<1>6. PlannedIsNext'
  BY <1>1, <1>2, <1>4 DEF PlannedIsNext, Op
<1>7. NoneAtFinish'
  BY <1>1, <1>2, IdleIsSettled DEF NoneAtFinish, Op
<1>8. \A o \in Operations : Claimable(o)' => Claimable(o)
  <2>1. Holds(p)'
    BY <1>2 DEF Holds, Active
  <2>2. \A o \in Operations : Claimable(o)' => o[1] # run[p]
    BY <1>2, <2>1 DEF IInv, ClaimableUnheld
  <2>. QED
    BY <1>2, <1>3, <2>2 DEF Claimable
<1>. QED
  BY <1>2, <1>5, <1>6, <1>7, <1>8, RecordsKept

LEMMA OverSettle ==
  ASSUME Alone, IInv, SettleInv, NEW p \in Processes,
         Complete(p) \/ Crash(p) \/ MarkRaises(p) \/ \E c \in Calls : RecordRaises(p, c)
  PROVE  SettleInv'
<1>1. \A q \in Processes : q = p
  BY DEF Alone
<1>2. UNCHANGED <<runStatus, opStatus>> /\ pc' = [pc EXCEPT ![p] = "idle"]
  BY DEF Complete, Crash, MarkRaises, RecordRaises, Raise, Forget, durable
<1>3. pc'[p] = "idle"
  BY <1>2 DEF IInv, TypeInv, TypeOK
<1>4. \A o \in Operations : Claimable(o)' => Claimable(o)
  <2>1. CASE UNCHANGED interactions
    BY <2>1 DEF interactions, Claimable
  <2>2. CASE Dropped(Op(p, resumed[p]))
    BY <2>2 DEF Dropped, Claimable, IInv, TypeInv, TypeOK
  <2>. QED
    BY <2>1, <2>2 DEF Complete, Crash, MarkRaises, RecordRaises, Raise, durable
<1>5. RunsWhileHeld' /\ PlannedIsNext' /\ NoneAtFinish'
  BY <1>1, <1>3 DEF RunsWhileHeld, PlannedIsNext, NoneAtFinish, Active
<1>. QED
  BY <1>2, <1>4, <1>5, RecordsKept

LEMMA SurroundingsSettle ==
  ASSUME IInv, SettleInv,
         \/ \E p \in Processes : Cancel(p)
         \/ \E o \in Operations : Resolve(o) \/ Expire(o)
         \/ UNCHANGED vars
  PROVE  SettleInv'
<1>1. UNCHANGED <<runStatus, opStatus, pc, run, call>>
  BY DEF Cancel, Resolve, Expire, vars, turn, durable
<1>2. \A o \in Operations : Claimable(o)' => Claimable(o)
  <2>1. CASE UNCHANGED interactions
    BY <2>1 DEF interactions, Claimable
  <2>2. ASSUME NEW o \in Operations, Resolve(o) \/ Dropped(o)
        PROVE  \A x \in Operations : Claimable(x)' => Claimable(x)
    BY <2>2 DEF Resolve, Dropped, Claimable, IInv, TypeInv, TypeOK
  <2>. QED
    BY <2>1, <2>2 DEF Cancel, Expire, vars, durable
<1>3. RunsWhileHeld' /\ PlannedIsNext' /\ NoneAtFinish'
  BY <1>1 DEF SettleInv, RunsWhileHeld, PlannedIsNext, NoneAtFinish, Active, Op
<1>. QED
  BY <1>1, <1>2, <1>3, RecordsKept

LEMMA ClaimSettle ==
  ASSUME Alone, IInv, SettleInv, NEW p \in Processes, NEW r \in Runs, NEW c \in Calls,
         Claim(p, r, c)
  PROVE  SettleInv'
<1>1. \A q \in Processes : q = p
  BY DEF Alone
<1>t. /\ pc \in [Processes -> Places] /\ run \in [Processes -> Runs \cup {None}]
      /\ interaction \in [Operations -> Interactions]
  BY DEF IInv, TypeInv, TypeOK
<1>2. /\ UNCHANGED <<runStatus, opStatus, attached>> /\ run'[p] = r
      /\ pc'[p] = IF <<r, c>> \in attached THEN "claimed" ELSE "stray"
      /\ interaction[<<r, c>>] = "resolved"
      /\ interaction' = [interaction EXCEPT ![<<r, c>>] = "claimed"]
  BY <1>t DEF Claim, Moves, MarksClaimed
<1>3. \A o \in Operations : Claimable(o)' => Claimable(o)
  BY <1>t, <1>2 DEF Claimable
<1>4. PlannedIsNext'
  <2>. SUFFICES ASSUME NEW d \in Calls, pc'[p] = "claimed"
                PROVE  opStatus[<<r, d>>] # "planned"
    BY <1>1, <1>2 DEF PlannedIsNext, Active, Op
  <2>1. Claimable(<<r, c>>) /\ <<r, c>> \in Operations
    BY <1>2, OfOperations DEF Claimable
  <2>. QED
    BY <2>1 DEF SettleInv, ClaimHasNoPlan
<1>5. RunsWhileHeld' /\ NoneAtFinish'
  BY <1>1, <1>2 DEF RunsWhileHeld, NoneAtFinish
<1>. QED
  BY <1>2, <1>3, <1>4, <1>5, RecordsKept

LEMMA AttachSettle ==
  ASSUME Alone, IInv, SettleInv, NEW p \in Processes, Attach(p)
  PROVE  SettleInv'
<1>1. \A q \in Processes : q = p
  BY DEF Alone
<1>2. /\ UNCHANGED <<runStatus, opStatus, interaction, run>> /\ pc[p] = "attach" /\ pc'[p] = "complete"
      /\ \A o \in attached' : o \in attached \/ o = Op(p, waiting[p])
  BY DEF Attach, Moves, IInv, TypeInv, TypeOK
<1>3. RunsWhileHeld' /\ PlannedIsNext' /\ NoneAtFinish'
  BY <1>1, <1>2 DEF RunsWhileHeld, PlannedIsNext, NoneAtFinish, Active
<1>4. \A d \in Calls : opStatus[<<run[p], d>>] # "planned"
  <2>1. run[p] \in Runs /\ runStatus[run[p]] # "absent" /\ runStatus[run[p]] # "running"
    BY <1>2 DEF IInv, TypeInv, PlacesKnown, Unstarted, SettleInv, RunsWhileHeld
  <2>2. runStatus[run[p]] \in Ended \cup {"awaiting_input"}
    BY <2>1 DEF IInv, TypeInv, TypeOK, RunStatuses, Ended
  <2>. QED
    BY <2>1, <2>2, OfOperations DEF SettleInv, FinishedRunsAreSettled
<1>5. \A o \in Operations : Claimable(o)' =>
        Claimable(o) \/ \A d \in Calls : opStatus[<<o[1], d>>] # "planned"
  BY <1>2, <1>4 DEF Claimable, Op
<1>. QED
  BY <1>2, <1>3, <1>5, RecordsKept

LEMMA StartSettle ==
  ASSUME Alone, IInv, SettleInv, NEW p \in Processes, NEW r \in Runs, Start(p, r)
  PROVE  SettleInv'
<1>1. \A q \in Processes : q = p
  BY DEF Alone
<1>t. /\ pc \in [Processes -> Places] /\ run \in [Processes -> Runs \cup {None}]
      /\ runStatus \in [Runs -> RunStatuses]
  BY DEF IInv, TypeInv, TypeOK
<1>2. UNCHANGED interactions /\ run'[p] = r /\ pc'[p] = "model" /\ runStatus[r] = "absent"
  BY <1>t DEF Start, Moves
<1>3. /\ runStatus'[r] = "running"
      /\ \A s \in Runs : s # r => runStatus'[s] = IF runStatus[s] = "running" THEN "interrupted"
                                                  ELSE runStatus[s]
  BY DEF Start, Superseded
<1>4. ASSUME NEW s \in Runs, NEW d \in Calls
      PROVE  opStatus'[<<s, d>>] =
               IF runStatus[s] = "running" /\ opStatus[<<s, d>>] \in {"planned", "running"}
                 THEN "interrupted" ELSE opStatus[<<s, d>>]
  <2>1. <<s, d>> \in Operations /\ <<s, d>>[1] = s
    BY OfOperations
  <2>2. opStatus' = [o \in Operations |-> IF Interrupts(o) THEN "interrupted" ELSE opStatus[o]]
    BY DEF Start
  <2>. QED
    BY <2>1, <2>2 DEF Interrupts, Superseded
<1>5. \A d \in Calls : opStatus'[<<r, d>>] = "absent"
  BY <1>2, <1>4 DEF IInv, Unstarted
<1>6. RunsWhileHeld' /\ PlannedIsNext' /\ NoneAtFinish'
  BY <1>1, <1>2, <1>3, <1>5 DEF RunsWhileHeld, PlannedIsNext, NoneAtFinish, Op
<1>7. ClaimHasNoPlan'
  BY <1>2, <1>4, OfOperations DEF SettleInv, ClaimHasNoPlan, Claimable, interactions
<1>8. AwaitingIsParked'
  <2>. SUFFICES ASSUME NEW s \in Runs, runStatus'[s] = "awaiting_input"
                PROVE  \E c \in Calls : Parked(s, c)'
    BY DEF AwaitingIsParked
  <2>1. runStatus[s] = "awaiting_input"
    BY <1>3
  <2>2. PICK c \in Calls : Parked(s, c)
    BY <2>1 DEF SettleInv, AwaitingIsParked
  <2>3. \A d \in Calls : opStatus'[<<s, d>>] = opStatus[<<s, d>>]
    BY <1>4, <2>1
  <2>. QED
    BY <2>2, <2>3 DEF Parked
<1>9. FinishedRunsAreSettled'
  <2>. SUFFICES ASSUME NEW s \in Runs, NEW d \in Calls,
                       runStatus'[s] \in Ended \cup {"awaiting_input"}
                PROVE  opStatus'[<<s, d>>] \notin {"planned", "running"}
    BY OfOperations DEF FinishedRunsAreSettled, Ended
  <2>1. CASE runStatus[s] = "running"
    BY <1>4, <2>1
  <2>2. CASE runStatus[s] # "running"
    <3>1. s # r /\ runStatus'[s] = runStatus[s]
      BY <1>3, <2>2 DEF Ended
    <3>2. opStatus[<<s, d>>] \notin {"planned", "running"}
      BY <3>1, OfOperations DEF SettleInv, FinishedRunsAreSettled
    <3>. QED
      BY <1>4, <2>2, <3>2
  <2>. QED
    BY <2>1, <2>2
<1>. QED
  BY <1>6, <1>7, <1>8, <1>9 DEF SettleInv

LEMMA ResumeSettle ==
  ASSUME Alone, IInv, SettleInv, NEW p \in Processes, ResumeRun(p) \/ StrayResume(p)
  PROVE  SettleInv'
<1>1. \A q \in Processes : q = p
  BY DEF Alone
<1>2. run[p] \in Runs
  BY DEF ResumeRun, StrayResume, Moves, IInv, TypeInv, PlacesKnown
<1>3. /\ UNCHANGED opStatus /\ UNCHANGED interactions
      /\ runStatus'[run[p]] = "running"
      /\ \A s \in Runs : runStatus'[s] = runStatus[s] \/ runStatus'[s] = "running"
  BY <1>2 DEF ResumeRun, StrayResume, Resumes, interactions, IInv, TypeInv, TypeOK
<1>4. \/ pc[p] = "claimed" /\ pc'[p] = "resuming" /\ run'[p] = run[p]
      \/ pc'[p] = "idle"
  BY DEF ResumeRun, StrayResume, Moves, Forget, IInv, TypeInv, TypeOK
<1>5. RunsWhileHeld' /\ NoneAtFinish'
  BY <1>1, <1>3, <1>4 DEF RunsWhileHeld, NoneAtFinish
<1>6. PlannedIsNext'
  BY <1>1, <1>3, <1>4 DEF SettleInv, PlannedIsNext, Active, Op
<1>7. ClaimHasNoPlan'
  BY <1>3 DEF SettleInv, ClaimHasNoPlan, Claimable, interactions
<1>8. AwaitingIsParked' /\ FinishedRunsAreSettled'
  <2>1. \A s \in Runs : runStatus'[s] # "running" => runStatus'[s] = runStatus[s]
    BY <1>3
  <2>2. AwaitingIsParked'
    BY <1>3, <2>1 DEF SettleInv, AwaitingIsParked, Parked
  <2>3. FinishedRunsAreSettled'
    BY <1>3, <2>1, OfOperations DEF SettleInv, FinishedRunsAreSettled, Ended
  <2>. QED
    BY <2>2, <2>3
<1>. QED
  BY <1>5, <1>6, <1>7, <1>8 DEF SettleInv

\* A step that moves an operation of a run under way.
LEMMA OperationSettle ==
  ASSUME Alone, IInv, SettleInv, NEW p \in Processes,
         pc[p] \in {"resuming", "redo", "model", "tools", "mark"},
         pc'[p] \in {"redo", "tools", "mark"}, UNCHANGED <<runStatus, interactions, run>>,
         \A s \in Runs, d \in Calls : s # run[p] => opStatus'[<<s, d>>] = opStatus[<<s, d>>],
         \A d \in Calls : opStatus'[<<run[p], d>>] = "planned" => pc'[p] = "mark" /\ call'[p] = d
  PROVE  SettleInv'
<1>1. \A q \in Processes : q = p
  BY DEF Alone
<1>2. runStatus[run[p]] = "running" /\ Holds(p)
  BY DEF SettleInv, RunsWhileHeld, Holds, Active
<1>3. RunsWhileHeld' /\ PlannedIsNext' /\ NoneAtFinish'
  BY <1>1, <1>2 DEF RunsWhileHeld, PlannedIsNext, NoneAtFinish, Op
<1>4. ClaimHasNoPlan'
  <2>. SUFFICES ASSUME NEW o \in Operations, NEW d \in Calls, Claimable(o)
                PROVE  opStatus'[<<o[1], d>>] # "planned"
    BY DEF ClaimHasNoPlan, Claimable, interactions
  <2>1. o[1] # run[p] /\ o[1] \in Runs
    BY <1>2, OfOperations DEF IInv, ClaimableUnheld
  <2>. QED
    BY <2>1 DEF SettleInv, ClaimHasNoPlan
<1>5. AwaitingIsParked'
  <2>. SUFFICES ASSUME NEW s \in Runs, runStatus[s] = "awaiting_input"
                PROVE  \E c \in Calls : Parked(s, c)'
    BY DEF AwaitingIsParked
  <2>1. PICK c \in Calls : Parked(s, c)
    BY DEF SettleInv, AwaitingIsParked
  <2>2. \A d \in Calls : opStatus'[<<s, d>>] = opStatus[<<s, d>>]
    BY <1>2
  <2>. QED
    BY <2>1, <2>2 DEF Parked
<1>6. FinishedRunsAreSettled'
  <2>. SUFFICES ASSUME NEW s \in Runs, NEW d \in Calls,
                       runStatus[s] \in Ended \cup {"awaiting_input"}
                PROVE  opStatus'[<<s, d>>] \notin {"planned", "running"}
    BY OfOperations DEF FinishedRunsAreSettled, Ended
  <2>1. s # run[p]
    BY <1>2 DEF Ended
  <2>. QED
    BY <2>1, OfOperations DEF SettleInv, FinishedRunsAreSettled
<1>. QED
  BY <1>3, <1>4, <1>5, <1>6 DEF SettleInv

LEMMA MarkSettle ==
  ASSUME Alone, IInv, SettleInv, NEW p \in Processes,
         \/ MarkResumed(p) \/ Mark(p)
         \/ \E c \in Calls : Plan(p, c) \/ Record(p, c)
  PROVE  SettleInv'
<1>t. /\ pc \in [Processes -> Places] /\ opStatus \in [Operations -> OpStatuses]
      /\ call \in [Processes -> Calls \cup {None}]
      /\ PlacesKnown /\ PlannedIsNext
  BY DEF IInv, TypeInv, TypeOK, SettleInv
<1>1. /\ UNCHANGED <<runStatus, interactions, run>>
      /\ pc[p] \in {"resuming", "tools", "mark"} /\ pc'[p] \in {"redo", "tools", "mark"}
  BY <1>t DEF MarkResumed, Mark, Plan, Record, Moves, Dispatched, Marked
<1>2. run[p] \in Runs
  BY <1>1, <1>t DEF PlacesKnown
<1>3. ASSUME NEW c \in Calls, NEW status, opStatus' = [opStatus EXCEPT ![<<run[p], c>>] = status],
             \A d \in Calls \ {c} : opStatus[<<run[p], d>>] # "planned",
             status = "planned" => pc'[p] = "mark" /\ call'[p] = c
      PROVE  SettleInv'
  <2>1. \A s \in Runs, d \in Calls : s # run[p] => opStatus'[<<s, d>>] = opStatus[<<s, d>>]
    BY <1>3, <1>t, OfOperations
  <2>2. /\ opStatus'[<<run[p], c>>] = status
        /\ \A d \in Calls \ {c} : opStatus'[<<run[p], d>>] = opStatus[<<run[p], d>>]
    BY <1>2, <1>3, <1>t, OfOperations
  <2>3. \A d \in Calls : opStatus'[<<run[p], d>>] = "planned" => pc'[p] = "mark" /\ call'[p] = d
    BY <1>3, <2>2
  <2>. QED
    BY <1>1, <2>1, <2>3, OperationSettle
<1>4. CASE MarkResumed(p)
  <2>1. resumed[p] \in Calls /\ pc[p] = "resuming"
    BY <1>4, <1>t DEF MarkResumed, Moves, PlacesKnown
  <2>2. \A d \in Calls : opStatus[<<run[p], d>>] # "planned"
    BY <2>1, <1>t DEF PlannedIsNext, Active, Op
  <2>. QED
    BY <1>3, <1>4, <2>1, <2>2 DEF MarkResumed, MarkRunning, Op
<1>5. CASE Mark(p)
  <2>1. call[p] \in Calls /\ pc[p] = "mark"
    BY <1>5, <1>t DEF Mark, Moves, PlacesKnown
  <2>2. \A d \in Calls \ {call[p]} : opStatus[<<run[p], d>>] # "planned"
    BY <2>1, <1>t DEF PlannedIsNext, Active, Op
  <2>. QED
    BY <1>3, <1>5, <2>1, <2>2 DEF Mark, MarkRunning, Op
<1>6. ASSUME NEW c \in Calls, Plan(p, c) PROVE SettleInv'
  <2>1. pc[p] = "tools" /\ pc'[p] = "mark" /\ call'[p] = c
    BY <1>6, <1>t DEF Plan, Moves
  <2>2. \A d \in Calls : opStatus[<<run[p], d>>] # "planned"
    BY <2>1, <1>t DEF PlannedIsNext, Active, Op
  <2>. QED
    BY <1>3, <1>6, <2>1, <2>2 DEF Plan, Op
<1>7. ASSUME NEW c \in Calls, Record(p, c) PROVE SettleInv'
  <2>1. pc[p] = "tools" /\ pc'[p] = "tools"
    BY <1>7 DEF Record, Dispatched, Marked
  <2>2. \A d \in Calls : opStatus[<<run[p], d>>] # "planned"
    BY <2>1, <1>t DEF PlannedIsNext, Active, Op
  <2>3. CASE UNCHANGED opStatus
    BY <1>1, <2>2, <2>3, OperationSettle
  <2>4. CASE /\ AllowedTransition(opStatus[<<run[p], c>>], result[p][c])
             /\ opStatus' = [opStatus EXCEPT ![<<run[p], c>>] = result[p][c]]
    <3>1. result[p][c] # "planned"
      BY <2>4 DEF AllowedTransition, Settled
    <3>. QED
      BY <1>3, <2>2, <2>4, <3>1
  <2>. QED
    BY <1>7, <2>3, <2>4 DEF Record, Op
<1>. QED
  BY <1>4, <1>5, <1>6, <1>7

LEMMA FinishSettle ==
  ASSUME Alone, IInv, SettleInv, NEW p \in Processes, Finish(p)
  PROVE  SettleInv'
<1>1. \A q \in Processes : q = p
  BY DEF Alone
<1>2. /\ UNCHANGED <<opStatus, interactions, run>> /\ pc[p] = "finish" /\ pc'[p] = "attach"
      /\ run[p] \in Runs /\ verdict[p] \in Verdicts
      /\ runStatus'[run[p]] = verdict[p]
      /\ \A s \in Runs : s # run[p] => runStatus'[s] = runStatus[s]
  BY DEF Finish, Moves, IInv, TypeInv, TypeOK, PlacesKnown
<1>3. \A d \in Calls : opStatus[<<run[p], d>>] \notin {"planned", "running"}
  BY <1>2 DEF SettleInv, PlannedIsNext, NoneAtFinish, Active, Op
<1>4. RunsWhileHeld' /\ PlannedIsNext' /\ NoneAtFinish'
  BY <1>1, <1>2 DEF RunsWhileHeld, PlannedIsNext, NoneAtFinish, Active, Verdicts
<1>5. ClaimHasNoPlan'
  BY <1>2 DEF SettleInv, ClaimHasNoPlan, Claimable, interactions
<1>6. AwaitingIsParked'
  <2>. SUFFICES ASSUME NEW s \in Runs, runStatus'[s] = "awaiting_input"
                PROVE  \E c \in Calls : Parked(s, c)
    BY <1>2 DEF AwaitingIsParked, Parked
  <2>1. CASE s = run[p]
    BY <1>2, <2>1 DEF IInv, WaitParked
  <2>2. CASE s # run[p]
    BY <1>2, <2>2 DEF SettleInv, AwaitingIsParked
  <2>. QED
    BY <2>1, <2>2
<1>7. FinishedRunsAreSettled'
  <2>. SUFFICES ASSUME NEW s \in Runs, NEW d \in Calls,
                       runStatus'[s] \in Ended \cup {"awaiting_input"}
                PROVE  opStatus[<<s, d>>] \notin {"planned", "running"}
    BY <1>2, OfOperations DEF FinishedRunsAreSettled, Ended
  <2>1. CASE s = run[p]
    BY <1>3, <2>1
  <2>2. CASE s # run[p]
    BY <1>2, <2>2, OfOperations DEF SettleInv, FinishedRunsAreSettled
  <2>. QED
    BY <2>1, <2>2
<1>. QED
  BY <1>4, <1>5, <1>6, <1>7 DEF SettleInv

LEMMA NextSettle ==
  ASSUME Alone, IInv, IInv', SettleInv, [Next]_vars
  PROVE  SettleInv'
<1>1. ASSUME NEW p \in Processes, Begin(p) PROVE SettleInv'
  BY <1>1, StartSettle, ClaimSettle DEF Begin
<1>2. ASSUME NEW p \in Processes, Step(p) PROVE SettleInv'
  <2>1. CASE ResumeRun(p) \/ StrayResume(p)
    BY <2>1, ResumeSettle
  <2>2. CASE MarkResumed(p) \/ Mark(p) \/ \E c \in Calls : Plan(p, c) \/ Record(p, c)
    BY <2>2, MarkSettle
  <2>3. CASE \/ Redo(p) \/ Discard(p) \/ Answer(p) \/ Exhausted(p) \/ FollowUp(p) \/ Reuse(p)
             \/ AfterTools(p) \/ \E calls \in SUBSET Calls : AskForTools(p, calls)
             \/ \E c \in Calls : Dispatch(p, c)
    BY <2>3, WorkSettle
  <2>4. CASE Complete(p) \/ Crash(p) \/ MarkRaises(p) \/ \E c \in Calls : RecordRaises(p, c)
    BY <2>4, OverSettle
  <2>5. CASE Finish(p) \/ Attach(p)
    BY <2>5, FinishSettle, AttachSettle
  <2>. QED
    BY <1>2, <2>1, <2>2, <2>3, <2>4, <2>5 DEF Step
<1>3. ASSUME NEW p \in Processes, Crash(p) PROVE SettleInv'
  BY <1>3, OverSettle
<1>4. CASE \/ \E p \in Processes : Cancel(p)
           \/ \E o \in Operations : Resolve(o) \/ Expire(o)
           \/ UNCHANGED vars
  BY <1>4, SurroundingsSettle
<1>. QED
  BY <1>1, <1>2, <1>3, <1>4 DEF Next

\* While one process serves the session, whoever finds a run ended finds its calls
\* settled, and whoever finds it waiting finds exactly one call that waits:
\* wherever the process crashed, was resumed or interrupted a run before
\* (sqlite.py, start_run and complete_operation; engine.py, resume_run).
THEOREM EndedRunsSettle == ASSUME Alone PROVE Spec => []EndedRunsAreSettled
<1>1. IInv /\ SettleInv /\ IInv' /\ [Next]_vars => SettleInv'
  BY NextSettle
<1>2. SettleInv => EndedRunsAreSettled
  <2>1. SettleInv => AwaitingIsResumable
    BY DEF SettleInv, AwaitingIsParked, AwaitingIsResumable, Parked
  <2>. QED
    BY <2>1 DEF SettleInv, EndedRunsAreSettled
<1>. QED
  BY InitSettle, <1>1, <1>2, InductiveInvariant, PTL DEF Spec
=============================================================================
