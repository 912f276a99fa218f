------------------------ MODULE CronScheduler_proofs ------------------------
(***************************************************************************)
(* Proofs about CronScheduler for any workers, editors, jobs and bounds.   *)
(* Every place of a tick is reached with the lock: recover_interrupted()   *)
(* never meets a turn that works; and a worker that marks a run has put it *)
(* into the outbox, where a second insertion changes nothing.  While reads *)
(* and writes of jobs.json do not overlap, every table in a process or in  *)
(* the file has only times with a run to spare, and all of the edits.      *)
(***************************************************************************)
EXTENDS CronScheduler, FiniteSetTheorems, TLAPS

\* A worker inside of a tick holds the lock.
TickHoldsLock ==
  \A w \in Workers : pc[w] \in {"recover", "load", "scan", "turn", "put"} => holder = w

\* A worker that has a run at hand knows which one.
CurrentIsKnown ==
  \A w \in Workers : pc[w] \in {"turn", "mark"} => current[w] \in Runs

\* A run that is worked on has a job.
TurnHasJob == \A w \in Workers : pc[w] = "turn" => run[current[w]].job \in Jobs

\* Who is about to mark a run has put it into the outbox.
MarkerHasEnqueued == \A w \in Workers : pc[w] = "mark" => outbox[current[w]] > 0

TypeInv == TypeOK /\ CurrentIsKnown /\ TurnHasJob

IInv == /\ TypeInv
        /\ TickHoldsLock /\ TurnIsRunning
        /\ MarkerHasEnqueued /\ MarkedIsInOutbox /\ DeliveredOnce

-----------------------------------------------------------------------------

LEMMA EmptyType == Empty \in Tables
  BY CronAssumption DEF Empty, Tables, Entries, Times, CronAssumption

LEMMA EntryType ==
  ASSUME NEW table \in Tables, NEW j \in Jobs, NEW entry \in Entries
  PROVE  [table EXCEPT ![j] = entry] \in Tables
  BY DEF Tables

\* Rows keep their type when their status or their delivery changes.
LEMMA RowType ==
  ASSUME NEW row \in Rows, NEW s \in {"absent", "running", "interrupted"} \cup Ends,
         NEW d \in {"pending", "enqueued"}
  PROVE  /\ [row EXCEPT !.status = s] \in Rows
         /\ [row EXCEPT !.status = s].status = s
         /\ [row EXCEPT !.status = s].job = row.job
         /\ [row EXCEPT !.status = s].delivery = row.delivery
         /\ [row EXCEPT !.delivery = d] \in Rows
         /\ [row EXCEPT !.delivery = d].delivery = d
         /\ [row EXCEPT !.delivery = d].job = row.job
         /\ [row EXCEPT !.delivery = d].status = row.status
  BY DEF Rows

LEMMA InitInv == Init => IInv
<1>. SUFFICES ASSUME Init
              PROVE  IInv
  OBVIOUS
<1>. USE CronAssumption DEF CronAssumption, Init
<1>1. Empty \in Tables
  BY EmptyType
<1>2. file \in Tables
  BY <1>1 DEF Tables, Entries, Times
<1>3. NoRow \in Rows
  BY DEF NoRow, Rows, Times, Ends
<1>4. TypeOK
  <2>1. now \in 1..MaxNow /\ crashes \in 0..MaxCrashes /\ at \in [Workers -> 0..MaxNow]
    OBVIOUS
  <2>2. mine \in [Workers -> Tables] /\ copy \in [Editors -> Tables]
    BY <1>1
  <2>3. run \in [Runs -> Rows] /\ outbox \in [Runs -> Nat]
    BY <1>3
  <2>4. /\ due \in [Workers -> SUBSET Jobs] /\ batch \in [Workers -> SUBSET Runs]
        /\ current \in [Workers -> Runs \cup {0}] /\ change \in [Editors -> SUBSET Jobs]
    OBVIOUS
  <2>5. /\ edit \in [Editors -> {"idle", "truncate", "put"}]
        /\ pc \in [Workers -> {"idle", "recover", "load", "scan", "turn", "put", "list",
                               "deliver", "mark", "down"}]
    OBVIOUS
  <2>. QED
    BY <1>2, <2>1, <2>2, <2>3, <2>4, <2>5 DEF TypeOK
<1>5. CurrentIsKnown /\ TurnHasJob /\ TickHoldsLock /\ TurnIsRunning /\ MarkerHasEnqueued
  BY DEF CurrentIsKnown, TurnHasJob, TickHoldsLock, TurnIsRunning, MarkerHasEnqueued
<1>6. MarkedIsInOutbox /\ DeliveredOnce
  BY DEF MarkedIsInOutbox, DeliveredOnce, NoRow
<1>. QED
  BY <1>4, <1>5, <1>6 DEF IInv, TypeInv

-----------------------------------------------------------------------------

LEMMA NextInv ==
  ASSUME IInv, [Next]_vars
  PROVE  IInv'
<1>t. /\ file \in Tables /\ now \in 1..MaxNow
      /\ holder \in Workers \cup {Nobody}
      /\ pc \in [Workers -> {"idle", "recover", "load", "scan", "turn", "put", "list",
                             "deliver", "mark", "down"}]
      /\ at \in [Workers -> 0..MaxNow] /\ mine \in [Workers -> Tables]
      /\ due \in [Workers -> SUBSET Jobs]
      /\ current \in [Workers -> Runs \cup {0}] /\ batch \in [Workers -> SUBSET Runs]
      /\ edit \in [Editors -> {"idle", "truncate", "put"}] /\ copy \in [Editors -> Tables]
      /\ change \in [Editors -> SUBSET Jobs]
      /\ run \in [Runs -> Rows] /\ outbox \in [Runs -> Nat] /\ routed \in BOOLEAN
      /\ made \subseteq Jobs /\ cancelled \subseteq Jobs
      /\ crashes \in 0..MaxCrashes /\ torn \in BOOLEAN /\ clash \in BOOLEAN
  BY DEF IInv, TypeInv, TypeOK
<1>k. CurrentIsKnown /\ TurnHasJob /\ TickHoldsLock /\ TurnIsRunning /\ MarkerHasEnqueued
      /\ MarkedIsInOutbox /\ DeliveredOnce
  BY DEF IInv, TypeInv
<1>a. /\ MaxNow \in Nat \ {0} /\ MaxRuns \in Nat /\ MaxCrashes \in Nat
      /\ Nobody \notin Workers /\ Empty \in Tables /\ Rare \subseteq Jobs
  BY CronAssumption, EmptyType DEF CronAssumption
<1>. USE <1>t, <1>k, <1>a DEF IInv, TypeInv, To, worker, editor, world, history
<1>1. ASSUME NEW w \in Workers, Acquire(w)
      PROVE  IInv'
  <2>1. TypeOK'
    BY <1>1 DEF Acquire, TypeOK, Times
  <2>2. TickHoldsLock'
    BY <1>1 DEF Acquire, TickHoldsLock
  <2>3. (CurrentIsKnown /\ TurnHasJob /\ TurnIsRunning /\ MarkerHasEnqueued)'
    BY <1>1 DEF Acquire, CurrentIsKnown, TurnHasJob, TurnIsRunning, MarkerHasEnqueued
  <2>4. (MarkedIsInOutbox /\ DeliveredOnce)'
    BY <1>1 DEF Acquire, MarkedIsInOutbox, DeliveredOnce
  <2>. QED
    BY <2>1, <2>2, <2>3, <2>4
<1>2. ASSUME NEW w \in Workers, Recover(w)
      PROVE  IInv'
  <2>0. /\ holder = w /\ \A v \in Workers : v # w => pc[v] # "turn"
        /\ pc' = [pc EXCEPT ![w] = "load"]
    BY <1>2 DEF Recover, TickHoldsLock
  <2>1. run' \in [Runs -> Rows]
    BY <1>2, RowType DEF Recover
  <2>2. \A r \in Runs : run'[r].delivery = run[r].delivery /\ run'[r].job = run[r].job
    BY <1>2, RowType DEF Recover
  <2>3. TypeOK'
    BY <1>2, <2>1 DEF Recover, TypeOK
  <2>4. (TickHoldsLock /\ CurrentIsKnown /\ TurnHasJob /\ TurnIsRunning /\ MarkerHasEnqueued)'
    BY <1>2, <2>0 DEF Recover, TickHoldsLock, CurrentIsKnown, TurnHasJob, TurnIsRunning,
       MarkerHasEnqueued
  <2>5. (MarkedIsInOutbox /\ DeliveredOnce)'
    BY <1>2, <2>2 DEF Recover, MarkedIsInOutbox, DeliveredOnce
  <2>. QED
    BY <2>3, <2>4, <2>5
<1>3. ASSUME NEW w \in Workers, Load(w)
      PROVE  IInv'
  <2>1. clash' \in BOOLEAN
    BY <1>3 DEF Load, Editing
  <2>2. TypeOK'
    BY <1>3, <2>1 DEF Load, TypeOK
  <2>3. (TickHoldsLock /\ CurrentIsKnown /\ TurnHasJob /\ TurnIsRunning /\ MarkerHasEnqueued)'
    BY <1>3 DEF Load, TickHoldsLock, CurrentIsKnown, TurnHasJob, TurnIsRunning,
       MarkerHasEnqueued
  <2>4. (MarkedIsInOutbox /\ DeliveredOnce)'
    BY <1>3 DEF Load, MarkedIsInOutbox, DeliveredOnce
  <2>. QED
    BY <2>2, <2>3, <2>4
<1>4. ASSUME NEW w \in Workers, Start(w)
      PROVE  IInv'
  <2>0. PICK j \in due[w], r \in Runs :
          /\ run[r].status = "absent"
          /\ run' = [run EXCEPT ![r] = [job |-> j, slot |-> mine[w][j].next,
                                        status |-> "running", delivery |-> "pending"]]
          /\ due' = [due EXCEPT ![w] = @ \ {j}]
          /\ current' = [current EXCEPT ![w] = r]
    BY <1>4 DEF Start
  <2>1. j \in Jobs
    BY <2>0
  <2>2. mine[w][j].next \in Times
    BY <2>1 DEF Tables, Entries
  <2>3. run' \in [Runs -> Rows]
    BY <2>0, <2>1, <2>2 DEF Rows
  <2>4. /\ run'[r].status = "running" /\ run'[r].job = j /\ run'[r].delivery = "pending"
        /\ \A q \in Runs : q # r => run'[q] = run[q]
    BY <2>0
  <2>5. holder = w /\ \A v \in Workers : v # w => pc[v] # "turn"
    BY <1>4 DEF Start, TickHoldsLock
  <2>6. TypeOK'
    BY <1>4, <2>0, <2>3 DEF Start, TypeOK
  <2>7. (TickHoldsLock /\ CurrentIsKnown)'
    BY <1>4, <2>0 DEF Start, TickHoldsLock, CurrentIsKnown
  <2>8. (TurnHasJob /\ TurnIsRunning)'
    BY <1>4, <2>0, <2>1, <2>4, <2>5 DEF Start, TurnHasJob, TurnIsRunning
  <2>9. MarkerHasEnqueued'
    BY <1>4, <2>0 DEF Start, MarkerHasEnqueued
  <2>10. (MarkedIsInOutbox /\ DeliveredOnce)'
    BY <1>4, <2>4 DEF Start, MarkedIsInOutbox, DeliveredOnce
  <2>. QED
    BY <2>6, <2>7, <2>8, <2>9, <2>10
<1>5. ASSUME NEW w \in Workers, Finish(w)
      PROVE  IInv'
  <2>. DEFINE r == current[w]
              j == run[r].job
  <2>0. /\ pc[w] = "turn" /\ r \in Runs /\ j \in Jobs
        /\ holder = w /\ \A v \in Workers : v # w => pc[v] # "turn"
    BY <1>5 DEF Finish, CurrentIsKnown, TurnHasJob, TickHoldsLock
  <2>1. PICK end \in Ends :
          run' = IF run[r].status = "running" THEN [run EXCEPT ![r].status = end] ELSE run
    BY <1>5 DEF Finish
  <2>2. /\ run' \in [Runs -> Rows]
        /\ \A q \in Runs : run'[q].delivery = run[q].delivery /\ run'[q].job = run[q].job
    <3>1. [run[r] EXCEPT !.status = end] \in Rows
          /\ [run[r] EXCEPT !.status = end].job = run[r].job
          /\ [run[r] EXCEPT !.status = end].delivery = run[r].delivery
      BY <2>0, RowType
    <3>2. run' = [run EXCEPT ![r] = [run[r] EXCEPT !.status = end]] \/ run' = run
      BY <2>1
    <3>. HIDE DEF r
    <3>. QED
      BY <2>0, <3>1, <3>2
  <2>3. Advanced(j, at[w]) \in Entries
    <3>1. at[w] \in 0..MaxNow
      OBVIOUS
    <3>2. at[w] + 1 \in Times /\ 0 \in Times
      BY <3>1 DEF Times
    <3>. QED
      BY <3>2 DEF Advanced, NextRun, Entries
  <2>4. /\ mine' \in [Workers -> Tables]
        /\ at' \in [Workers -> 0..MaxNow] /\ due' \in [Workers -> SUBSET Jobs]
        /\ holder' \in Workers \cup {Nobody}
        /\ \/ pc' = [pc EXCEPT ![w] = "scan"] /\ holder' = holder
           \/ pc' = [pc EXCEPT ![w] = "down"]
    <3>1. CASE j \notin Rare
      <4>1. [mine[w] EXCEPT ![j] = Advanced(j, at[w])] \in Tables
        BY <2>0, <2>3, EntryType
      <4>2. /\ mine' = [mine EXCEPT ![w] = [mine[w] EXCEPT ![j] = Advanced(j, at[w])]]
            /\ UNCHANGED <<holder, at, due>> /\ pc' = [pc EXCEPT ![w] = "scan"]
        BY <1>5, <3>1 DEF Finish
      <4>. QED
        BY <4>1, <4>2
    <3>2. CASE j \in Rare
      <4>1. /\ mine' = [mine EXCEPT ![w] = Empty] /\ due' = [due EXCEPT ![w] = {}]
            /\ at' = [at EXCEPT ![w] = 0] /\ pc' = [pc EXCEPT ![w] = "down"]
            /\ holder' = Nobody
        BY <1>5, <3>2 DEF Finish
      <4>. QED
        BY <4>1
    <3>. QED
      BY <3>1, <3>2
  <2>5. current' = [current EXCEPT ![w] = 0]
        /\ UNCHANGED <<file, batch, editor, outbox, world, history>>
    BY <1>5 DEF Finish
  <2>6. TypeOK'
    BY <2>2, <2>4, <2>5 DEF TypeOK
  <2>7. (TickHoldsLock /\ CurrentIsKnown /\ TurnHasJob /\ TurnIsRunning /\ MarkerHasEnqueued)'
    BY <2>0, <2>4, <2>5 DEF TickHoldsLock, CurrentIsKnown, TurnHasJob, TurnIsRunning,
       MarkerHasEnqueued
  <2>8. (MarkedIsInOutbox /\ DeliveredOnce)'
    BY <2>2, <2>5 DEF MarkedIsInOutbox, DeliveredOnce
  <2>. QED
    BY <2>6, <2>7, <2>8
<1>6. ASSUME NEW w \in Workers, Truncate(w) \/ ListPending(w) \/ Sleep(w) \/ Restart(w)
      PROVE  IInv'
  <2>1. TypeOK'
    BY <1>6 DEF Truncate, ListPending, Sleep, Restart, TypeOK
  <2>2. (TickHoldsLock /\ CurrentIsKnown /\ TurnHasJob /\ TurnIsRunning /\ MarkerHasEnqueued)'
    BY <1>6 DEF Truncate, ListPending, Sleep, Restart, TickHoldsLock, CurrentIsKnown,
       TurnHasJob, TurnIsRunning, MarkerHasEnqueued
  <2>3. (MarkedIsInOutbox /\ DeliveredOnce)'
    BY <1>6 DEF Truncate, ListPending, Sleep, Restart, MarkedIsInOutbox, DeliveredOnce
  <2>. QED
    BY <2>1, <2>2, <2>3
<1>7. ASSUME NEW w \in Workers, Put(w)
      PROVE  IInv'
  <2>0. holder = w
    BY <1>7 DEF Put, TickHoldsLock
  <2>1. TypeOK'
    BY <1>7 DEF Put, TypeOK
  <2>2. (TickHoldsLock /\ CurrentIsKnown /\ TurnHasJob /\ TurnIsRunning /\ MarkerHasEnqueued)'
    BY <1>7, <2>0 DEF Put, TickHoldsLock, CurrentIsKnown, TurnHasJob, TurnIsRunning,
       MarkerHasEnqueued
  <2>3. (MarkedIsInOutbox /\ DeliveredOnce)'
    BY <1>7 DEF Put, MarkedIsInOutbox, DeliveredOnce
  <2>. QED
    BY <2>1, <2>2, <2>3
<1>8. ASSUME NEW w \in Workers, Deliver(w)
      PROVE  IInv'
  <2>0. PICK r \in batch[w] :
          \/ /\ outbox' = [outbox EXCEPT ![r] = 1]
             /\ current' = [current EXCEPT ![w] = r] /\ pc' = [pc EXCEPT ![w] = "mark"]
             /\ UNCHANGED batch
          \/ /\ batch' = [batch EXCEPT ![w] = @ \ {r}]
             /\ UNCHANGED <<outbox, current, pc>>
    BY <1>8 DEF Deliver, Enqueued
  <2>1. /\ r \in Runs /\ pc[w] = "deliver"
        /\ UNCHANGED <<file, holder, at, mine, due, editor, run, world, history>>
    BY <1>8 DEF Deliver
  <2>2. TypeOK'
    BY <2>0, <2>1 DEF TypeOK
  <2>3. \A q \in Runs : /\ outbox'[q] > 0 \/ outbox'[q] = outbox[q]
                        /\ outbox'[q] = 1 \/ outbox'[q] = outbox[q]
    BY <2>0, <2>1
  <2>4. (TickHoldsLock /\ CurrentIsKnown /\ TurnHasJob /\ TurnIsRunning)'
    BY <2>0, <2>1 DEF TickHoldsLock, CurrentIsKnown, TurnHasJob, TurnIsRunning
  <2>5. MarkerHasEnqueued'
    BY <2>0, <2>1, <2>3 DEF MarkerHasEnqueued, CurrentIsKnown
  <2>6. (MarkedIsInOutbox /\ DeliveredOnce)'
    BY <2>1, <2>3 DEF MarkedIsInOutbox, DeliveredOnce
  <2>. QED
    BY <2>2, <2>4, <2>5, <2>6
<1>9. ASSUME NEW w \in Workers, MarkEnqueued(w)
      PROVE  IInv'
  <2>. DEFINE r == current[w]
  <2>0. pc[w] = "mark" /\ r \in Runs /\ outbox[r] > 0
    BY <1>9 DEF MarkEnqueued, CurrentIsKnown, MarkerHasEnqueued
  <2>1. /\ [run[r] EXCEPT !.delivery = "enqueued"] \in Rows
        /\ [run[r] EXCEPT !.delivery = "enqueued"].status = run[r].status
        /\ [run[r] EXCEPT !.delivery = "enqueued"].job = run[r].job
    BY <2>0, RowType
  <2>2. /\ run' = [run EXCEPT ![r] = [run[r] EXCEPT !.delivery = "enqueued"]]
        /\ batch' = [batch EXCEPT ![w] = @ \ {r}] /\ current' = [current EXCEPT ![w] = 0]
        /\ pc' = [pc EXCEPT ![w] = "deliver"]
        /\ UNCHANGED <<file, holder, at, mine, due, editor, outbox, world, history>>
    BY <1>9 DEF MarkEnqueued
  <2>. HIDE DEF r
  <2>3. /\ run' \in [Runs -> Rows]
        /\ \A q \in Runs : /\ run'[q].status = run[q].status /\ run'[q].job = run[q].job
                           /\ q # r => run'[q] = run[q]
    BY <2>0, <2>1, <2>2
  <2>4. TypeOK'
    BY <2>2, <2>3 DEF TypeOK
  <2>5. (TickHoldsLock /\ CurrentIsKnown /\ TurnHasJob /\ TurnIsRunning /\ MarkerHasEnqueued)'
    BY <2>2, <2>3 DEF TickHoldsLock, CurrentIsKnown, TurnHasJob, TurnIsRunning,
       MarkerHasEnqueued
  <2>6. (MarkedIsInOutbox /\ DeliveredOnce)'
    BY <2>0, <2>2, <2>3 DEF MarkedIsInOutbox, DeliveredOnce
  <2>. QED
    BY <2>4, <2>5, <2>6
<1>10. ASSUME NEW w \in Workers, Crash(w)
       PROVE  IInv'
  <2>1. TypeOK'
    BY <1>10 DEF Crash, Freed, TypeOK
  <2>2. (TickHoldsLock /\ CurrentIsKnown /\ TurnHasJob /\ TurnIsRunning /\ MarkerHasEnqueued)'
    BY <1>10 DEF Crash, Freed, TickHoldsLock, CurrentIsKnown, TurnHasJob, TurnIsRunning,
       MarkerHasEnqueued
  <2>3. (MarkedIsInOutbox /\ DeliveredOnce)'
    BY <1>10 DEF Crash, MarkedIsInOutbox, DeliveredOnce
  <2>. QED
    BY <2>1, <2>2, <2>3
<1>11. ASSUME NEW e \in Editors, Edit(e)
       PROVE  IInv'
  <2>1. TypeOK'
    <3>1. ASSUME NEW j \in Jobs, Create(e, j)
          PROVE  TypeOK'
      <4>1. PICK t \in IF j \in Once THEN 1..MaxNow ELSE {NextRun(now)} :
              copy' = [copy EXCEPT ![e] = [file EXCEPT ![j] = [status |-> "enabled", next |-> t]]]
        BY <3>1 DEF Create
      <4>2. t \in Times
        BY <4>1 DEF NextRun, Times
      <4>3. [file EXCEPT ![j] = [status |-> "enabled", next |-> t]] \in Tables
        BY <4>2, EntryType DEF Entries
      <4>4. clash' \in BOOLEAN
        BY <3>1 DEF Create, Editing
      <4>. QED
        BY <3>1, <4>1, <4>3, <4>4 DEF Create, TypeOK
    <3>2. ASSUME NEW j \in Jobs, Cancel(e, j)
          PROVE  TypeOK'
      <4>1. file[j] \in Entries
        BY DEF Tables
      <4>2. [file[j] EXCEPT !.status = "disabled"] \in Entries
        BY <4>1 DEF Entries
      <4>3. [file EXCEPT ![j] = [file[j] EXCEPT !.status = "disabled"]] \in Tables
        BY <4>2, EntryType
      <4>4. copy' = [copy EXCEPT ![e] = [file EXCEPT ![j] = [file[j] EXCEPT !.status = "disabled"]]]
        BY <3>2 DEF Cancel
      <4>5. clash' \in BOOLEAN
        BY <3>2 DEF Cancel, Editing
      <4>. QED
        BY <3>2, <4>3, <4>4, <4>5 DEF Cancel, TypeOK
    <3>3. CASE EditTruncate(e)
      BY <3>3 DEF EditTruncate, TypeOK
    <3>4. CASE EditPut(e)
      BY <3>4 DEF EditPut, TypeOK
    <3>. QED
      BY <1>11, <3>1, <3>2, <3>3, <3>4 DEF Edit
  <2>2. UNCHANGED <<holder, worker, run, outbox>>
    BY <1>11 DEF Edit, Create, Cancel, EditTruncate, EditPut
  <2>3. (TickHoldsLock /\ CurrentIsKnown /\ TurnHasJob /\ TurnIsRunning /\ MarkerHasEnqueued)'
    BY <2>2 DEF TickHoldsLock, CurrentIsKnown, TurnHasJob, TurnIsRunning, MarkerHasEnqueued
  <2>4. (MarkedIsInOutbox /\ DeliveredOnce)'
    BY <2>2 DEF MarkedIsInOutbox, DeliveredOnce
  <2>. QED
    BY <2>1, <2>3, <2>4
<1>12. CASE Passes \/ RouteLearned \/ UNCHANGED vars
  <2>1. TypeOK'
    <3>1. CASE Passes
      <4>1. now' \in 1..MaxNow
        BY <3>1 DEF Passes
      <4>. QED
        BY <3>1, <4>1 DEF Passes, TypeOK
    <3>2. CASE RouteLearned \/ UNCHANGED vars
      BY <3>2 DEF RouteLearned, vars, TypeOK
    <3>. QED
      BY <1>12, <3>1, <3>2
  <2>2. (TickHoldsLock /\ CurrentIsKnown /\ TurnHasJob /\ TurnIsRunning /\ MarkerHasEnqueued)'
    BY <1>12 DEF Passes, RouteLearned, vars, TickHoldsLock, CurrentIsKnown, TurnHasJob,
       TurnIsRunning, MarkerHasEnqueued
  <2>3. (MarkedIsInOutbox /\ DeliveredOnce)'
    BY <1>12 DEF Passes, RouteLearned, vars, MarkedIsInOutbox, DeliveredOnce
  <2>. QED
    BY <2>1, <2>2, <2>3
<1>. HIDE <1>t, <1>k, <1>a DEF IInv
<1>. QED
  BY <1>1, <1>2, <1>3, <1>4, <1>5, <1>6, <1>7, <1>8, <1>9, <1>10, <1>11, <1>12
     DEF Next, Tick

LEMMA InductiveInvariant == Spec => []IInv
<1>1. Init => IInv
  BY InitInv
<1>2. IInv /\ [Next]_vars => IInv'
  BY NextInv
<1>. QED
  BY <1>1, <1>2, PTL DEF Spec

-----------------------------------------------------------------------------

\* The types of the specification.
THEOREM TypeCorrect == Spec => []TypeOK
<1>1. IInv => TypeOK
  BY DEF IInv, TypeInv
<1>. QED
  BY <1>1, InductiveInvariant, PTL

\* However many workers tick, crash and are restarted: a turn at work is never
\* called interrupted.
THEOREM NoLiveTurnIsInterrupted == Spec => []TurnIsRunning
<1>1. IInv => TurnIsRunning
  BY DEF IInv
<1>. QED
  BY <1>1, InductiveInvariant, PTL

\* However many workers deliver, and wherever they crash: the end of a run is in
\* the outbox at most once, and it is there when it will not be listed again.
THEOREM DeliveryIsExact == Spec => []DeliveredExactly
<1>1. IInv => DeliveredExactly
  BY DEF IInv, DeliveredExactly
<1>. QED
  BY <1>1, InductiveInvariant, PTL

-----------------------------------------------------------------------------
(* What a tick knows of the jobs it works on. *)

\* The file is read and not yet written back.
Reads(w) == pc[w] \in {"scan", "turn", "put"}

InTick(w) == pc[w] \in {"recover", "load"} \/ Reads(w)

\* What is still to be run is enabled, and so is the job whose turn works.
DueIsEnabled == \A w \in Workers :
  /\ pc[w] \in {"scan", "turn"} =>
       \A j \in due[w] : mine[w][j].status = "enabled" /\ mine[w][j].next <= at[w]
  /\ pc[w] = "turn" => /\ run[current[w]].job \notin due[w]
                       /\ mine[w][run[current[w]].job].status = "enabled"

\* No run was for a time that the tick at work has still ahead.
SlotsArePast == \A r \in Runs : run[r].status # "absent" =>
  /\ run[r].slot <= now
  /\ \A w \in Workers : InTick(w) => run[r].slot <= at[w]

TickIsPast == \A w \in Workers : InTick(w) => at[w] <= now

\* A job is in a table, or has run, only after it was made.
OnlyMade ==
  /\ \A j \in Jobs : file[j].status # "absent" => j \in made
  /\ \A w \in Workers, j \in Jobs : mine[w][j].status # "absent" => j \in made
  /\ \A e \in Editors, j \in Jobs : copy[e][j].status # "absent" => j \in made
  /\ \A r \in Runs : run[r].status # "absent" => run[r].job \in made
  /\ cancelled \subseteq made /\ \A e \in Editors : change[e] \subseteq made

JobsInv == DueIsEnabled /\ SlotsArePast /\ TickIsPast /\ OnlyMade

\* The types that a step relies on, and the lock.
LEMMA Types ==
  ASSUME IInv
  PROVE  /\ file \in [Jobs -> Entries] /\ now \in Nat
         /\ pc \in [Workers -> {"idle", "recover", "load", "scan", "turn", "put", "list",
                                "deliver", "mark", "down"}]
         /\ at \in [Workers -> Nat] /\ mine \in [Workers -> [Jobs -> Entries]]
         /\ due \in [Workers -> SUBSET Jobs] /\ current \in [Workers -> Runs \cup {0}]
         /\ edit \in [Editors -> {"idle", "truncate", "put"}]
         /\ copy \in [Editors -> [Jobs -> Entries]] /\ change \in [Editors -> SUBSET Jobs]
         /\ run \in [Runs -> Rows] /\ made \subseteq Jobs /\ cancelled \subseteq Jobs
         /\ crashes \in Nat /\ torn \in BOOLEAN /\ clash \in BOOLEAN
         /\ \A w \in Workers : pc[w] = "turn" =>
              current[w] \in Runs /\ run[current[w]].job \in Jobs
         /\ \A v, w \in Workers : InTick(v) /\ InTick(w) => v = w
  BY CronAssumption
     DEF IInv, TypeInv, TypeOK, Tables, CurrentIsKnown, TurnHasJob, TickHoldsLock, InTick,
         Reads, CronAssumption

LEMMA EntryFields ==
  /\ \A entry \in Entries : /\ entry.status \in {"absent", "enabled", "disabled"}
                            /\ entry.next \in Times
  /\ \A row \in Rows : /\ row.slot \in Times
                       /\ row.status \in {"absent", "running", "interrupted"} \cup Ends
  /\ Times \subseteq Nat /\ Empty \in [Jobs -> Entries]
  /\ \A j \in Jobs : Empty[j].status = "absent"
  BY CronAssumption DEF Entries, Rows, Times, Empty, CronAssumption

\* The steps of a worker but for the start of a run.
Quiet(w) ==
  \/ Acquire(w) \/ Recover(w) \/ Load(w) \/ Finish(w) \/ Truncate(w) \/ Put(w)
  \/ ListPending(w) \/ Deliver(w) \/ MarkEnqueued(w) \/ Sleep(w) \/ Restart(w) \/ Crash(w)

SameRuns == \A r \in Runs :
  /\ run'[r].job = run[r].job /\ run'[r].slot = run[r].slot
  /\ run'[r].status = "absent" <=> run[r].status = "absent"

LEMMA RunsStay ==
  ASSUME IInv, NEW w \in Workers, Quiet(w)
  PROVE  SameRuns
<1>. USE Types DEF Rows, SameRuns
<1>1. CASE Recover(w)
  BY <1>1 DEF Recover
<1>2. CASE Finish(w)
  <2>1. current[w] \in Runs
    BY <1>2 DEF Finish
  <2>2. PICK end \in Ends :
          run' = IF run[current[w]].status = "running"
                 THEN [run EXCEPT ![current[w]].status = end] ELSE run
    BY <1>2 DEF Finish
  <2>. QED
    BY <2>1, <2>2 DEF Ends
<1>3. CASE MarkEnqueued(w)
  BY <1>3 DEF MarkEnqueued
<1>4. CASE Acquire(w) \/ Load(w) \/ Truncate(w) \/ Put(w) \/ ListPending(w) \/ Deliver(w)
             \/ Sleep(w) \/ Restart(w) \/ Crash(w)
  BY <1>4 DEF Acquire, Load, Truncate, Put, ListPending, Deliver, Sleep, Restart, Crash
<1>. QED
  BY <1>1, <1>2, <1>3, <1>4 DEF Quiet

LEMMA Started ==
  ASSUME IInv, JobsInv, NEW w \in Workers, Start(w)
  PROVE  \E j \in due[w], r \in Runs :
           /\ j \in Jobs /\ mine[w][j].status = "enabled"
           /\ mine[w][j].next \in Times /\ mine[w][j].next <= at[w]
           /\ run[r].status = "absent"
           /\ run'[r].job = j /\ run'[r].slot = mine[w][j].next
           /\ run'[r].status = "running"
           /\ \A q \in Runs : q # r => run'[q] = run[q]
           /\ due'[w] = due[w] \ {j} /\ current'[w] = r
           /\ \A v \in Workers : v # w => due'[v] = due[v] /\ current'[v] = current[v]
<1>1. PICK j \in due[w], r \in Runs :
        /\ run[r].status = "absent"
        /\ run' = [run EXCEPT ![r] = [job |-> j, slot |-> mine[w][j].next,
                                      status |-> "running", delivery |-> "pending"]]
        /\ due' = [due EXCEPT ![w] = @ \ {j}]
        /\ current' = [current EXCEPT ![w] = r]
  BY DEF Start
<1>2. j \in Jobs /\ mine[w][j] \in Entries
  BY Types
<1>3. mine[w][j].status = "enabled" /\ mine[w][j].next <= at[w]
  BY <1>1 DEF JobsInv, DueIsEnabled, Start
<1>. QED
  BY <1>1, <1>2, <1>3, Types, EntryFields

LEMMA Finished ==
  ASSUME IInv, NEW w \in Workers, Finish(w)
  PROVE  /\ pc[w] = "turn" /\ run[current[w]].job \in Jobs
         /\ \/ /\ run[current[w]].job \notin Rare /\ pc'[w] = "scan"
               /\ mine'[w][run[current[w]].job] = Advanced(run[current[w]].job, at[w])
               /\ \A j \in Jobs : j # run[current[w]].job => mine'[w][j] = mine[w][j]
               /\ due' = due /\ at' = at
            \/ run[current[w]].job \in Rare /\ pc'[w] = "down" /\ mine'[w] = Empty
         /\ \A v \in Workers : v # w => /\ pc'[v] = pc[v] /\ mine'[v] = mine[v]
                                        /\ due'[v] = due[v] /\ at'[v] = at[v]
         /\ current'[w] = 0 /\ \A v \in Workers : v # w => current'[v] = current[v]
         /\ UNCHANGED <<file, editor, now, history>>
<1>. DEFINE j == run[current[w]].job
<1>1. pc[w] = "turn" /\ j \in Jobs
  BY Types DEF Finish
<1>2. /\ current' = [current EXCEPT ![w] = 0] /\ UNCHANGED <<file, editor, now, history>>
  BY DEF Finish, world
<1>3. CASE j \notin Rare
  <2>1. /\ mine' = [mine EXCEPT ![w] = [mine[w] EXCEPT ![j] = Advanced(j, at[w])]]
        /\ pc' = [pc EXCEPT ![w] = "scan"] /\ due' = due /\ at' = at
    BY <1>3 DEF Finish, To
  <2>. HIDE DEF j
  <2>. QED
    BY <1>1, <1>2, <1>3, <2>1, Types DEF j
<1>4. CASE j \in Rare
  <2>1. /\ mine' = [mine EXCEPT ![w] = Empty] /\ due' = [due EXCEPT ![w] = {}]
        /\ at' = [at EXCEPT ![w] = 0] /\ pc' = [pc EXCEPT ![w] = "down"]
    BY <1>4 DEF Finish, To
  <2>. QED
    BY <1>1, <1>2, <1>4, <2>1, Types
<1>. QED
  BY <1>3, <1>4

LEMMA InitJobs == Init => JobsInv
  BY CronAssumption
     DEF Init, JobsInv, DueIsEnabled, SlotsArePast, TickIsPast, OnlyMade, Empty, NoRow, Reads,
         InTick, CronAssumption

LEMMA NextDue ==
  ASSUME IInv, JobsInv, [Next]_vars
  PROVE  DueIsEnabled'
<1>d. DueIsEnabled
  BY DEF JobsInv
<1>. USE <1>d, Types, EntryFields DEF DueIsEnabled, To, worker, editor, world, history
<1>1. ASSUME NEW w \in Workers, Load(w)
      PROVE  DueIsEnabled'
  <2>1. /\ pc'[w] = "scan" /\ mine'[w] = file /\ at' = at
        /\ \A j \in due'[w] : IsDue(file[j], at[w])
        /\ \A v \in Workers : v # w => /\ pc'[v] = pc[v] /\ mine'[v] = mine[v]
                                       /\ due'[v] = due[v] /\ current'[v] = current[v]
        /\ run' = run
    BY <1>1 DEF Load
  <2>. QED
    BY <2>1 DEF IsDue
<1>2. ASSUME NEW w \in Workers, Start(w)
      PROVE  DueIsEnabled'
  <2>1. PICK j \in due[w], r \in Runs :
           /\ j \in Jobs /\ mine[w][j].status = "enabled"
           /\ run'[r].job = j
           /\ due'[w] = due[w] \ {j} /\ current'[w] = r
           /\ \A q \in Runs : q # r => run'[q] = run[q]
           /\ \A v \in Workers : v # w => due'[v] = due[v] /\ current'[v] = current[v]
    BY <1>2, Started
  <2>2. /\ pc[w] = "scan" /\ pc'[w] = "turn" /\ mine' = mine /\ at' = at
        /\ \A v \in Workers : v # w => pc'[v] = pc[v]
    BY <1>2 DEF Start
  <2>3. \A v \in Workers : v # w => pc[v] \notin {"scan", "turn"}
    BY <2>2 DEF InTick, Reads
  <2>. QED
    BY <2>1, <2>2, <2>3
<1>3. ASSUME NEW w \in Workers, Finish(w)
      PROVE  DueIsEnabled'
  <2>1. \A v \in Workers : v # w => pc[v] \notin {"scan", "turn"}
    BY <1>3, Finished DEF InTick, Reads
  <2>. DEFINE i == run[current[w]].job
  <2>2. CASE pc'[w] = "scan"
    <3>1. i \notin due[w] /\ due'[w] = due[w] /\ at'[w] = at[w]
      BY <1>3, <2>2, Finished
    <3>2. \A j \in due[w] : mine'[w][j] = mine[w][j]
      <4>1. \A j \in Jobs : j # i => mine'[w][j] = mine[w][j]
        BY <1>3, <2>2, Finished
      <4>2. due[w] \subseteq Jobs
        OBVIOUS
      <4>. QED
        BY <3>1, <4>1, <4>2
    <3>3. \A v \in Workers : v # w => pc'[v] \notin {"scan", "turn"}
      BY <1>3, <2>1, Finished
    <3>4. \A j \in due'[w] : mine'[w][j].status = "enabled" /\ mine'[w][j].next <= at'[w]
      BY <1>3, <3>1, <3>2, Finished
    <3>. QED
      BY <2>2, <3>3, <3>4
  <2>3. CASE pc'[w] = "down"
    BY <1>3, <2>1, <2>3, Finished
  <2>. QED
    BY <1>3, <2>2, <2>3, Finished
<1>4. ASSUME NEW w \in Workers,
             Acquire(w) \/ Recover(w) \/ Truncate(w) \/ Put(w) \/ ListPending(w) \/ Deliver(w)
               \/ MarkEnqueued(w) \/ Sleep(w) \/ Restart(w) \/ Crash(w)
      PROVE  DueIsEnabled'
  <2>1. pc'[w] \notin {"scan", "turn"}
    BY <1>4 DEF Acquire, Recover, Truncate, Put, ListPending, Deliver, MarkEnqueued, Sleep,
       Restart, Crash
  <2>2. /\ \A v \in Workers : v # w => /\ pc'[v] = pc[v] /\ mine'[v] = mine[v]
                                       /\ due'[v] = due[v] /\ current'[v] = current[v]
                                       /\ at'[v] = at[v]
    BY <1>4 DEF Acquire, Recover, Truncate, Put, ListPending, Deliver, MarkEnqueued, Sleep,
       Restart, Crash
  <2>3. \A r \in Runs : run'[r].job = run[r].job
    BY <1>4, RunsStay DEF Quiet, SameRuns
  <2>. QED
    BY <2>1, <2>2, <2>3
<1>5. ASSUME NEW e \in Editors, Edit(e)
      PROVE  DueIsEnabled'
  BY <1>5 DEF Edit, Create, Cancel, EditTruncate, EditPut
<1>6. CASE Passes \/ RouteLearned \/ UNCHANGED vars
  BY <1>6 DEF Passes, RouteLearned, vars
<1>. QED
  BY <1>1, <1>2, <1>3, <1>4, <1>5, <1>6 DEF Next, Tick

LEMMA NextPast ==
  ASSUME IInv, JobsInv, [Next]_vars
  PROVE  SlotsArePast' /\ TickIsPast'
<1>d. SlotsArePast /\ TickIsPast
  BY DEF JobsInv
<1>. USE <1>d, Types, EntryFields
     DEF SlotsArePast, TickIsPast, InTick, Reads, To, worker, editor, world, history
<1>1. ASSUME NEW w \in Workers, Acquire(w)
      PROVE  SlotsArePast' /\ TickIsPast'
  BY <1>1 DEF Acquire
<1>2. ASSUME NEW w \in Workers, Start(w)
      PROVE  SlotsArePast' /\ TickIsPast'
  <2>0. \E j \in due[w], r \in Runs :
          /\ mine[w][j].next \in Times /\ mine[w][j].next <= at[w]
          /\ run'[r].slot = mine[w][j].next
          /\ \A q \in Runs : q # r => run'[q] = run[q]
    <3>. HIDE Types, EntryFields
    <3>. QED
      BY <1>2, Started
  <2>1. PICK j \in due[w], r \in Runs :
          /\ mine[w][j].next \in Times /\ mine[w][j].next <= at[w]
          /\ run'[r].slot = mine[w][j].next
          /\ \A q \in Runs : q # r => run'[q] = run[q]
    BY <2>0
  <2>2. /\ pc[w] = "scan" /\ at' = at /\ now' = now
        /\ \A v \in Workers : InTick(v)' => InTick(v)
    BY <1>2 DEF Start
  <2>3. at[w] <= now /\ \A v \in Workers : InTick(v) => v = w
    BY <2>2
  <2>4. run'[r].slot <= now
    <3>1. mine[w][j].next \in Nat /\ at[w] \in Nat /\ now \in Nat
      BY <2>1
    <3>. QED
      BY <2>1, <2>3, <3>1
  <2>5. \A q \in Runs : run'[q].status # "absent" =>
          /\ run'[q].slot <= now /\ run'[q].slot <= at[w]
    BY <2>1, <2>2, <2>4
  <2>. QED
    BY <2>2, <2>3, <2>5
<1>3. ASSUME SameRuns, now' = now, \A v \in Workers : InTick(v)' => InTick(v) /\ at'[v] = at[v]
      PROVE  SlotsArePast' /\ TickIsPast'
  BY <1>3 DEF SameRuns
<1>4. ASSUME NEW w \in Workers, Quiet(w), ~Acquire(w)
      PROVE  SlotsArePast' /\ TickIsPast'
  <2>1. CASE Finish(w)
    <3>1. now' = now /\ \A v \in Workers : InTick(v)' => InTick(v) /\ at'[v] = at[v]
      BY <2>1, Finished
    <3>. QED
      BY <1>3, <1>4, <3>1, RunsStay
  <2>2. CASE ~Finish(w)
    <3>1. now' = now /\ \A v \in Workers : InTick(v)' => InTick(v) /\ at'[v] = at[v]
      BY <1>4, <2>2 DEF Quiet, Recover, Load, Truncate, Put, ListPending, Deliver, MarkEnqueued,
         Sleep, Restart, Crash
    <3>. QED
      BY <1>3, <1>4, <3>1, RunsStay
  <2>. QED
    BY <2>1, <2>2
<1>5. ASSUME NEW e \in Editors, Edit(e)
      PROVE  SlotsArePast' /\ TickIsPast'
  BY <1>5 DEF Edit, Create, Cancel, EditTruncate, EditPut
<1>6. CASE Passes
  <2>1. now' = now + 1 /\ UNCHANGED <<run, pc, at>>
    BY <1>6 DEF Passes
  <2>2. \A r \in Runs : run[r].slot \in Nat
    OBVIOUS
  <2>3. \A w \in Workers : at[w] \in Nat
    OBVIOUS
  <2>. QED
    BY <2>1, <2>2, <2>3
<1>7. CASE RouteLearned \/ UNCHANGED vars
  BY <1>7 DEF RouteLearned, vars
<1>. QED
  BY <1>1, <1>2, <1>4, <1>5, <1>6, <1>7 DEF Next, Tick, Quiet

LEMMA NextMade ==
  ASSUME IInv, JobsInv, [Next]_vars
  PROVE  OnlyMade'
<1>d. OnlyMade
  BY DEF JobsInv
<1>. USE <1>d, Types, EntryFields DEF OnlyMade, To, worker, editor, world, history
<1>1. ASSUME NEW w \in Workers, Load(w)
      PROVE  OnlyMade'
  BY <1>1 DEF Load
<1>2. ASSUME NEW w \in Workers, Start(w)
      PROVE  OnlyMade'
  <2>1. PICK j \in due[w], r \in Runs :
          /\ j \in Jobs /\ mine[w][j].status = "enabled" /\ run'[r].job = j
          /\ \A q \in Runs : q # r => run'[q] = run[q]
    BY <1>2, Started
  <2>2. j \in made
    BY <2>1
  <2>3. UNCHANGED <<file, mine, copy, change, made, cancelled>>
    BY <1>2 DEF Start
  <2>. QED
    BY <2>1, <2>2, <2>3
<1>3. ASSUME NEW w \in Workers, Finish(w)
      PROVE  OnlyMade'
  <2>. DEFINE i == run[current[w]].job
  <2>0. SameRuns
    BY <1>3, RunsStay DEF Quiet
  <2>1. UNCHANGED <<file, copy, change, made, cancelled>>
    BY <1>3, Finished
  <2>2. i \in made
    BY <1>3, Finished DEF JobsInv, DueIsEnabled
  <2>3. \A j \in Jobs : mine'[w][j].status # "absent" => j \in made
    <3>1. CASE pc'[w] = "scan"
      <4>1. \A j \in Jobs : j # i => mine'[w][j] = mine[w][j]
        BY <1>3, <3>1, Finished
      <4>. QED
        BY <2>2, <4>1
    <3>2. CASE pc'[w] = "down"
      BY <1>3, <3>2, Finished
    <3>. QED
      BY <1>3, <3>1, <3>2, Finished
  <2>4. \A v \in Workers : v # w => mine'[v] = mine[v]
    BY <1>3, Finished
  <2>5. \A r \in Runs : run'[r].status # "absent" => run'[r].job \in made
    BY <2>0 DEF SameRuns
  <2>. QED
    BY <2>1, <2>3, <2>4, <2>5
<1>4. ASSUME NEW w \in Workers, Put(w)
      PROVE  OnlyMade'
  BY <1>4 DEF Put
<1>5. ASSUME NEW w \in Workers, Quiet(w), ~Load(w), ~Finish(w), ~Put(w)
      PROVE  OnlyMade'
  <2>1. SameRuns
    BY <1>5, RunsStay
  <2>2. /\ UNCHANGED <<copy, change, made, cancelled>>
        /\ file' \in {file, Empty}
        /\ \A v \in Workers : mine'[v] = mine[v] \/ mine'[v] = Empty
    BY <1>5 DEF Quiet, Acquire, Recover, Truncate, ListPending, Deliver, MarkEnqueued, Sleep,
       Restart, Crash
  <2>3. \A r \in Runs : run'[r].status # "absent" => run'[r].job \in made
    BY <2>1 DEF SameRuns
  <2>. QED
    BY <2>2, <2>3
<1>6. ASSUME NEW e \in Editors, NEW j \in Jobs, Create(e, j)
      PROVE  OnlyMade'
  <2>1. PICK t \in IF j \in Once THEN 1..MaxNow ELSE {NextRun(now)} :
           copy' = [copy EXCEPT ![e] = [file EXCEPT ![j] = [status |-> "enabled", next |-> t]]]
    BY <1>6 DEF Create
  <2>2. /\ \A i \in Jobs : i # j => copy'[e][i] = file[i]
        /\ \A f \in Editors : f # e => copy'[f] = copy[f]
    BY <2>1
  <2>3. made' = made \cup {j} /\ UNCHANGED <<file, mine, change, cancelled, run>>
    BY <1>6 DEF Create
  <2>. QED
    BY <2>2, <2>3
<1>7. ASSUME NEW e \in Editors, NEW j \in Jobs, Cancel(e, j)
      PROVE  OnlyMade'
  <2>1. /\ copy'[e] = [file EXCEPT ![j].status = "disabled"]
        /\ change'[e] = {j} /\ file[j].status # "absent"
        /\ \A f \in Editors : f # e => copy'[f] = copy[f] /\ change'[f] = change[f]
    BY <1>7 DEF Cancel
  <2>2. \A i \in Jobs : i # j => copy'[e][i] = file[i]
    BY <2>1
  <2>3. UNCHANGED <<file, mine, made, cancelled, run>>
    BY <1>7 DEF Cancel
  <2>. HIDE Types, EntryFields
  <2>4. j \in made
    BY <2>1
  <2>5. \A f \in Editors : change'[f] \subseteq made
    BY <2>1, <2>4
  <2>6. \A f \in Editors, i \in Jobs : copy'[f][i].status # "absent" => i \in made
    BY <2>1, <2>2, <2>4
  <2>. QED
    BY <2>3, <2>5, <2>6
<1>8. ASSUME NEW e \in Editors, EditTruncate(e)
      PROVE  OnlyMade'
  BY <1>8 DEF EditTruncate
<1>9. ASSUME NEW e \in Editors, EditPut(e)
      PROVE  OnlyMade'
  BY <1>9 DEF EditPut
<1>10. CASE Passes \/ RouteLearned \/ UNCHANGED vars
  BY <1>10 DEF Passes, RouteLearned, vars
<1>. QED
  BY <1>1, <1>2, <1>3, <1>4, <1>5, <1>6, <1>7, <1>8, <1>9, <1>10 DEF Next, Tick, Edit, Quiet

LEMMA NextJobs ==
  ASSUME IInv, JobsInv, [Next]_vars
  PROVE  JobsInv'
  BY NextDue, NextPast, NextMade DEF JobsInv

-----------------------------------------------------------------------------
(* While reads and writes of the file do not overlap: each time of a job is  *)
(* run once, and once more for every crash; and no edit is lost.             *)

\* Whoever has read the file is alone in that until it has written.
OneReader ==
  /\ \A w \in Workers : Reads(w) => \A e \in Editors : edit[e] = "idle"
  /\ \A e, f \in Editors : edit[e] # "idle" /\ edit[f] # "idle" => e = f

LEMMA NextReader ==
  ASSUME IInv, OneReader, [Next]_vars, ~clash'
  PROVE  OneReader' /\ ~clash
<1>. USE Types DEF OneReader, Reads, To, worker, editor, world, history
<1>1. ASSUME NEW w \in Workers, Load(w)
      PROVE  OneReader' /\ ~clash
  BY <1>1 DEF Load, Editing
<1>2. ASSUME NEW w \in Workers, Start(w)
      PROVE  OneReader' /\ ~clash
  BY <1>2 DEF Start
<1>3. ASSUME NEW w \in Workers, Finish(w)
      PROVE  OneReader' /\ ~clash
  BY <1>3, Finished
<1>4. ASSUME NEW w \in Workers, Quiet(w), ~Load(w), ~Finish(w)
      PROVE  OneReader' /\ ~clash
  <2>1. /\ UNCHANGED <<edit, clash>>
        /\ \A v \in Workers : Reads(v)' => Reads(v)
    BY <1>4 DEF Quiet, Acquire, Recover, Truncate, Put, ListPending, Deliver, MarkEnqueued,
       Sleep, Restart, Crash
  <2>. QED
    BY <2>1
<1>5. ASSUME NEW e \in Editors, NEW j \in Jobs, Create(e, j) \/ Cancel(e, j)
      PROVE  OneReader' /\ ~clash
  <2>1. ~Editing /\ ~clash
    BY <1>5 DEF Create, Cancel
  <2>2. pc' = pc /\ \A f \in Editors : f # e => edit'[f] = edit[f]
    BY <1>5 DEF Create, Cancel
  <2>. QED
    BY <2>1, <2>2 DEF Editing
<1>6. ASSUME NEW e \in Editors, EditTruncate(e) \/ EditPut(e)
      PROVE  OneReader' /\ ~clash
  <2>1. /\ UNCHANGED <<pc, clash>> /\ edit[e] # "idle"
        /\ \A f \in Editors : f # e => edit'[f] = edit[f]
    BY <1>6 DEF EditTruncate, EditPut
  <2>. QED
    BY <2>1
<1>7. CASE Passes \/ RouteLearned \/ UNCHANGED vars
  BY <1>7 DEF Passes, RouteLearned, vars
<1>. QED
  BY <1>1, <1>2, <1>3, <1>4, <1>5, <1>6, <1>7 DEF Next, Tick, Edit, Quiet

\* The times of jobs that may still be run once more.
Spare == {slot \in Jobs \X Times : Cardinality(Taken(slot[1], slot[2])) <= crashes}

\* They hold every time that a table has still to bring.
Fresh(table) == \A j \in Jobs : table[j].status = "enabled" => <<j, table[j].next>> \in Spare

\* Also in the table of a turn, but for the job that it runs and will advance.
FreshTables ==
  /\ (\A w \in Workers : ~Reads(w)) => Fresh(file)
  /\ \A w \in Workers : pc[w] \in {"scan", "put"} => Fresh(mine[w])
  /\ \A w \in Workers : pc[w] = "turn" =>
       \A j \in Jobs \ {run[current[w]].job} :
         mine[w][j].status = "enabled" => <<j, mine[w][j].next>> \in Spare
  /\ \A e \in Editors : edit[e] # "idle" => Fresh(copy[e])

LEMMA TakenFinite ==
  ASSUME NEW j \in Jobs, NEW s \in Times
  PROVE  IsFiniteSet(Taken(j, s)) /\ Cardinality(Taken(j, s)) \in Nat
<1>1. IsFiniteSet(Runs)
  BY CronAssumption, FS_Interval DEF Runs, CronAssumption
<1>2. Taken(j, s) \subseteq Runs
  BY DEF Taken
<1>. QED
  BY <1>1, <1>2, FS_Subset, FS_CardinalityType

LEMMA SpareOf ==
  \A j \in Jobs, s \in Times : <<j, s>> \in Spare <=> Cardinality(Taken(j, s)) <= crashes
  BY DEF Spare

LEMMA CrashesGrow ==
  ASSUME IInv, [Next]_vars
  PROVE  crashes \in Nat /\ crashes' \in Nat /\ crashes' >= crashes
<1>1. crashes \in Nat
  BY Types
<1>2. crashes' = crashes \/ crashes' = crashes + 1
  BY DEF Next, Tick, Edit, Acquire, Recover, Load, Start, Finish, Truncate, Put, ListPending,
     Deliver, MarkEnqueued, Sleep, Restart, Crash, Create, Cancel, EditTruncate, EditPut,
     Passes, RouteLearned, vars, history
<1>. QED
  BY <1>1, <1>2

\* A step that starts nothing keeps what the tables have still to bring, and a crash brings
\* one more run of every time.
LEMMA SlotsStay ==
  ASSUME IInv, [Next]_vars, SameRuns, RunsOncePerSlot
  PROVE  /\ Spare \subseteq Spare'
         /\ RunsOncePerSlot'
         /\ crashes' > crashes => Spare' = Jobs \X Times
<1>0. crashes \in Nat /\ crashes' \in Nat /\ crashes' >= crashes
  BY CrashesGrow
<1>1. \A j \in Jobs, s \in Times : Taken(j, s)' = Taken(j, s)
  BY DEF Taken, SameRuns
<1>2. \A j \in Jobs, s \in Times :
        /\ Cardinality(Taken(j, s)) \in Nat
        /\ Cardinality(Taken(j, s)) <= 1 + crashes
  BY TakenFinite DEF RunsOncePerSlot
<1>3. ASSUME NEW j \in Jobs, NEW s \in Times
      PROVE  /\ Cardinality(Taken(j, s)') <= 1 + crashes'
             /\ crashes' > crashes => Cardinality(Taken(j, s)') <= crashes'
             /\ Cardinality(Taken(j, s)) <= crashes => Cardinality(Taken(j, s)') <= crashes'
  <2>1. Cardinality(Taken(j, s)') = Cardinality(Taken(j, s))
    BY <1>1
  <2>. QED
    BY <1>0, <1>2, <2>1
<1>4. RunsOncePerSlot'
  BY <1>3 DEF RunsOncePerSlot
<1>5. \A slot \in Jobs \X Times :
        /\ crashes' > crashes => slot \in Spare'
        /\ slot \in Spare => slot \in Spare'
  <2>. SUFFICES ASSUME NEW j \in Jobs, NEW s \in Times
                PROVE  /\ crashes' > crashes => <<j, s>> \in Spare'
                       /\ <<j, s>> \in Spare => <<j, s>> \in Spare'
    OBVIOUS
  <2>. QED
    BY <1>3 DEF Spare
<1>. QED
  BY <1>4, <1>5 DEF Spare

SlotInv == OneReader /\ FreshTables /\ RunsOncePerSlot

\* Who starts a run has the table that is to be written, and its job had a run to spare.
LEMMA StartSlots ==
  ASSUME IInv, JobsInv, SlotInv, NEW w \in Workers, Start(w)
  PROVE  FreshTables' /\ RunsOncePerSlot'
<1>1. PICK j \in due[w], r \in Runs :
        /\ j \in Jobs /\ mine[w][j].status = "enabled" /\ mine[w][j].next \in Times
        /\ run[r].status = "absent"
        /\ run'[r].job = j /\ run'[r].slot = mine[w][j].next /\ run'[r].status = "running"
        /\ \A q \in Runs : q # r => run'[q] = run[q]
        /\ current'[w] = r
  BY Started
<1>2. /\ pc[w] = "scan" /\ pc'[w] = "turn" /\ UNCHANGED <<file, mine, edit, copy, crashes>>
      /\ \A v \in Workers : v # w => pc'[v] = pc[v]
  BY Types DEF Start, To, editor, history
<1>3. /\ \A v \in Workers : v # w => ~Reads(v)
      /\ \A e \in Editors : edit[e] = "idle"
  BY <1>2, Types DEF InTick, Reads, SlotInv, OneReader
<1>s. PICK s \in Times : s = mine[w][j].next
  BY <1>1
<1>4. Cardinality(Taken(j, s)) <= crashes
  BY <1>1, <1>2, <1>s, SpareOf DEF SlotInv, FreshTables, Fresh
<1>5. Taken(j, s)' = Taken(j, s) \cup {r}
  <2>1. \A q \in Runs : q # r =>
          (run'[q].status # "absent" /\ run'[q].job = j /\ run'[q].slot = s
             <=> run[q].status # "absent" /\ run[q].job = j /\ run[q].slot = s)
    BY <1>1
  <2>2. run'[r].status # "absent" /\ run'[r].job = j /\ run'[r].slot = s
    BY <1>1, <1>s
  <2>3. Taken(j, s)' = {q \in Runs : run'[q].status # "absent" /\ run'[q].job = j /\ run'[q].slot = s}
    BY DEF Taken
  <2>. QED
    BY <2>1, <2>2, <2>3 DEF Taken
<1>6. \A i \in Jobs, t \in Times : ~(i = j /\ t = s) => Taken(i, t)' = Taken(i, t)
  BY <1>1, <1>s DEF Taken
<1>7. crashes \in Nat
  BY Types
<1>8. ASSUME NEW i \in Jobs, NEW t \in Times
      PROVE  Cardinality(Taken(i, t)') <= 1 + crashes
  <2>1. CASE i = j /\ t = s
    <3>1. r \notin Taken(j, s) /\ IsFiniteSet(Taken(j, s)) /\ Cardinality(Taken(j, s)) \in Nat
      BY <1>1, <1>7, TakenFinite DEF Taken
    <3>2. Cardinality(Taken(j, s) \cup {r}) = Cardinality(Taken(j, s)) + 1
      BY <3>1, FS_AddElement
    <3>3. Taken(i, t)' = Taken(j, s)'
      BY <2>1 DEF Taken
    <3>. QED
      BY <1>4, <1>5, <1>7, <3>1, <3>2, <3>3
  <2>2. CASE ~(i = j /\ t = s)
    BY <1>6, <2>2 DEF SlotInv, RunsOncePerSlot
  <2>. QED
    BY <2>1, <2>2
<1>9. RunsOncePerSlot'
  BY <1>2, <1>8 DEF RunsOncePerSlot
<1>10. \A i \in Jobs \ {j}, t \in Times : <<i, t>> \in Spare => <<i, t>> \in Spare'
  <2>. SUFFICES ASSUME NEW i \in Jobs \ {j}, NEW t \in Times, Cardinality(Taken(i, t)) <= crashes
                PROVE  <<i, t>> \in Spare'
    BY SpareOf
  <2>1. Taken(i, t)' = Taken(i, t)
    BY <1>6
  <2>. QED
    BY <1>2, <2>1 DEF Spare
<1>11. FreshTables'
  <2>1. \A v \in Workers : pc'[v] \in {"scan", "put"} => FALSE
    BY <1>2, <1>3 DEF Reads
  <2>2. \A v \in Workers : pc'[v] = "turn" => v = w
    BY <1>2, <1>3 DEF Reads
  <2>3. run'[current'[w]].job = j
    BY <1>1
  <2>4. Reads(w)'
    BY <1>2 DEF Reads
  <2>5. \A i \in Jobs \ {j} : mine'[w][i].status = "enabled" => <<i, mine'[w][i].next>> \in Spare'
    <3>1. \A i \in Jobs : mine[w][i].status = "enabled" => <<i, mine[w][i].next>> \in Spare
      BY <1>2 DEF SlotInv, FreshTables, Fresh
    <3>2. \A i \in Jobs : mine[w][i].next \in Times
      BY Types, EntryFields
    <3>. QED
      BY <1>2, <1>10, <3>1, <3>2
  <2>. QED
    BY <1>2, <1>3, <2>1, <2>2, <2>3, <2>4, <2>5 DEF FreshTables
<1>. QED
  BY <1>9, <1>11

LEMMA NextSlots ==
  ASSUME Rare = {}, IInv, JobsInv, SlotInv, [Next]_vars, ~clash'
  PROVE  SlotInv'
<1>r. OneReader /\ OneReader' /\ FreshTables
  BY NextReader DEF SlotInv
<1>t. ASSUME SameRuns
      PROVE  /\ Spare \subseteq Spare' /\ RunsOncePerSlot'
             /\ crashes' > crashes => Spare' = Jobs \X Times
  BY <1>t, SlotsStay DEF SlotInv
<1>1. ASSUME NEW w \in Workers, Load(w)
      PROVE  FreshTables' /\ RunsOncePerSlot'
  <2>1. Spare \subseteq Spare' /\ RunsOncePerSlot'
    BY <1>1, <1>t, RunsStay DEF Quiet
  <2>2. /\ ~Editing /\ pc'[w] = "scan" /\ mine'[w] = file /\ UNCHANGED <<file, edit>>
        /\ \A v \in Workers : v # w => pc'[v] = pc[v]
    BY <1>1, <1>r, NextReader, Types DEF Load, To, editor
  <2>3. \A v \in Workers : Reads(v)' => v = w
    BY <2>2 DEF Editing, Reads
  <2>4. Fresh(mine[w])'
    <3>1. Fresh(file) \/ pc[w] # "load" \/ Reads(w)
      BY <1>r, <2>2 DEF FreshTables, Editing, Reads
    <3>2. Fresh(file)
      BY <1>1, <3>1 DEF Load, Reads
    <3>. QED
      BY <2>1, <2>2, <3>2 DEF Fresh
  <2>5. \A e \in Editors : edit'[e] = "idle"
    BY <2>2 DEF Editing
  <2>. QED
    BY <2>1, <2>2, <2>3, <2>4, <2>5 DEF FreshTables, Reads
<1>2. ASSUME NEW w \in Workers, Start(w)
      PROVE  FreshTables' /\ RunsOncePerSlot'
  BY <1>2, StartSlots
<1>3. ASSUME NEW w \in Workers, Finish(w)
      PROVE  FreshTables' /\ RunsOncePerSlot'
  <2>. DEFINE j == run[current[w]].job
  <2>1. /\ pc[w] = "turn" /\ j \in Jobs /\ pc'[w] = "scan"
        /\ mine'[w][j] = Advanced(j, at[w])
        /\ \A i \in Jobs : i # j => mine'[w][i] = mine[w][i]
        /\ \A v \in Workers : v # w => pc'[v] = pc[v] /\ mine'[v] = mine[v]
        /\ UNCHANGED <<file, editor>>
    BY <1>3, Finished
  <2>2. SameRuns
    BY <1>3, RunsStay DEF Quiet
  <2>3. Spare \subseteq Spare' /\ RunsOncePerSlot'
    BY <1>t, <2>2
  <2>4. at[w] + 1 \in Times => <<j, at[w] + 1>> \in Spare
    <3>. SUFFICES ASSUME at[w] + 1 \in Times
                  PROVE  <<j, at[w] + 1>> \in Spare
      OBVIOUS
    <3>1. \A r \in Runs : run[r].status # "absent" => run[r].slot # at[w] + 1
      <4>1. \A r \in Runs : run[r].status # "absent" => run[r].slot <= at[w]
        BY <2>1 DEF JobsInv, SlotsArePast, InTick, Reads
      <4>2. at[w] \in Nat /\ \A r \in Runs : run[r].slot \in Nat
        BY Types, EntryFields
      <4>. QED
        BY <4>1, <4>2
    <3>2. Taken(j, at[w] + 1) = {}
      BY <3>1 DEF Taken
    <3>3. Cardinality(Taken(j, at[w] + 1)) = 0 /\ crashes \in Nat
      BY <3>2, FS_EmptySet, Types
    <3>. QED
      BY <2>1, <3>3, SpareOf
  <2>5. mine'[w][j].status = "enabled" => <<j, mine'[w][j].next>> \in Spare'
    <3>1. at[w] + 1 \in Times
      BY CronAssumption DEF IInv, TypeInv, TypeOK, Times, CronAssumption
    <3>. QED
      BY <2>1, <2>3, <2>4, <3>1 DEF Advanced, NextRun
  <2>6. \A i \in Jobs : i # j /\ mine'[w][i].status = "enabled" => <<i, mine'[w][i].next>> \in Spare'
    BY <1>r, <2>1, <2>3 DEF FreshTables
  <2>7. Fresh(mine[w])'
    BY <2>5, <2>6 DEF Fresh
  <2>8. /\ \A v \in Workers : Reads(v) => v = w
        /\ \A e \in Editors : edit[e] = "idle"
    BY <1>r, <2>1, Types DEF InTick, Reads, OneReader
  <2>9. /\ Reads(w)' /\ \A v \in Workers : Reads(v)' => v = w
        /\ \A e \in Editors : edit'[e] = "idle"
    BY <2>1, <2>8 DEF Reads, editor
  <2>. QED
    BY <2>1, <2>3, <2>7, <2>9 DEF FreshTables, Reads
<1>4. ASSUME NEW w \in Workers, Put(w)
      PROVE  FreshTables' /\ RunsOncePerSlot'
  <2>1. Spare \subseteq Spare' /\ RunsOncePerSlot'
    BY <1>4, <1>t, RunsStay DEF Quiet
  <2>2. /\ pc[w] = "put" /\ pc'[w] = "list" /\ file' = mine[w] /\ UNCHANGED <<edit, copy>>
        /\ \A v \in Workers : v # w => pc'[v] = pc[v]
    BY <1>4, Types DEF Put, To, editor
  <2>3. /\ \A v \in Workers : Reads(v) => v = w
        /\ \A e \in Editors : edit[e] = "idle"
    BY <1>r, <2>2, Types DEF InTick, Reads, OneReader
  <2>4. \A v \in Workers : ~Reads(v)'
    BY <2>2, <2>3 DEF Reads
  <2>5. Fresh(file)'
    BY <1>r, <2>1, <2>2 DEF FreshTables, Fresh
  <2>. QED
    BY <2>1, <2>2, <2>3, <2>4, <2>5 DEF FreshTables, Reads
<1>5. ASSUME NEW w \in Workers, Crash(w)
      PROVE  FreshTables' /\ RunsOncePerSlot'
  <2>1. Spare' = Jobs \X Times /\ RunsOncePerSlot'
    <3>1. crashes' = crashes + 1 /\ crashes \in Nat
      BY <1>5, Types DEF Crash
    <3>. QED
      BY <1>5, <1>t, <3>1, RunsStay DEF Quiet
  <2>2. IInv'
    BY NextInv
  <2>3. /\ \A j \in Jobs : file'[j].next \in Times
        /\ \A v \in Workers, j \in Jobs : mine'[v][j].next \in Times
        /\ \A e \in Editors, j \in Jobs : copy'[e][j].next \in Times
    BY <2>2, EntryFields DEF IInv, TypeInv, TypeOK, Tables
  <2>. QED
    BY <2>1, <2>3 DEF FreshTables, Fresh
<1>6. ASSUME NEW w \in Workers, Quiet(w), ~Load(w), ~Finish(w), ~Put(w), ~Crash(w)
      PROVE  FreshTables' /\ RunsOncePerSlot'
  <2>1. SameRuns
    BY <1>6, RunsStay
  <2>2. Spare \subseteq Spare' /\ RunsOncePerSlot'
    BY <1>t, <2>1
  <2>3. /\ UNCHANGED <<mine, edit, copy>>
        /\ \A v \in Workers : /\ Reads(v)' <=> Reads(v)
                              /\ pc'[v] = "turn" => pc[v] = "turn" /\ current'[v] = current[v]
        /\ file' = file \/ (file' = Empty)
        /\ \A v \in Workers : pc'[v] \in {"scan", "put"} => pc[v] \in {"scan", "put"}
    BY <1>6, Types DEF Quiet, Acquire, Recover, Truncate, ListPending, Deliver, MarkEnqueued,
       Sleep, Restart, To, editor, Reads
  <2>4. (\A w_1 \in Workers : ~Reads(w_1)') => Fresh(file)'
    BY <1>r, <2>2, <2>3, EntryFields DEF FreshTables, Fresh
  <2>5. \A v \in Workers : pc'[v] \in {"scan", "put"} => Fresh(mine[v])'
    BY <1>r, <2>2, <2>3 DEF FreshTables, Fresh
  <2>6. \A v \in Workers : pc'[v] = "turn" =>
          \A j \in Jobs \ {run'[current'[v]].job} :
            mine'[v][j].status = "enabled" => <<j, mine'[v][j].next>> \in Spare'
    <3>1. \A v \in Workers : pc'[v] = "turn" => run'[current'[v]].job = run[current[v]].job
      BY <2>1, <2>3, Types DEF SameRuns
    <3>. QED
      BY <1>r, <2>2, <2>3, <3>1 DEF FreshTables
  <2>7. \A e \in Editors : edit'[e] # "idle" => Fresh(copy[e])'
    BY <1>r, <2>2, <2>3 DEF FreshTables, Fresh
  <2>. QED
    BY <2>2, <2>4, <2>5, <2>6, <2>7 DEF FreshTables
<1>7. ASSUME NEW e \in Editors, NEW j \in Jobs, Create(e, j) \/ Cancel(e, j)
      PROVE  FreshTables' /\ RunsOncePerSlot'
  <2>1. /\ UNCHANGED <<file, worker, run>> /\ ~Editing
        /\ \A f \in Editors : f # e => edit'[f] = edit[f]
    BY <1>7, Types DEF Create, Cancel
  <2>2. Spare \subseteq Spare' /\ RunsOncePerSlot'
    BY <1>t, <2>1 DEF SameRuns
  <2>3. /\ \A w \in Workers : ~Reads(w) /\ ~Reads(w)'
        /\ \A f \in Editors : f # e => edit'[f] = "idle"
    BY <2>1 DEF Editing, Reads, worker
  <2>4. Fresh(file) /\ Fresh(file)'
    BY <1>r, <2>1, <2>2, <2>3 DEF FreshTables, Fresh
  <2>5. \A i \in Jobs : i # j => copy'[e][i] = file[i]
    BY <1>7, Types DEF Create, Cancel
  <2>6. copy'[e][j].status = "enabled" => <<j, copy'[e][j].next>> \in Spare'
    <3>1. CASE Cancel(e, j)
      <4>1. copy'[e] = [file EXCEPT ![j].status = "disabled"]
        BY <3>1, Types DEF Cancel
      <4>2. file \in [Jobs -> Entries]
        BY Types
      <4>3. copy'[e][j] = [file[j] EXCEPT !.status = "disabled"] /\ file[j] \in Entries
        BY <4>1, <4>2
      <4>. QED
        BY <4>3 DEF Entries
    <3>2. CASE Create(e, j)
      <4>1. copy'[e][j].next \in Times
        <5>1. IInv'
          BY NextInv
        <5>. QED
          BY <5>1, EntryFields DEF IInv, TypeInv, TypeOK, Tables
      <4>2. \A t \in Times : Taken(j, t) = {}
        BY <3>2 DEF Create, JobsInv, OnlyMade, Taken
      <4>3. \A t \in Times : Cardinality(Taken(j, t)) = 0
        BY <4>2, FS_EmptySet
      <4>4. \A t \in Times : <<j, t>> \in Spare
        BY <4>3, SpareOf, Types
      <4>. QED
        BY <2>2, <4>1, <4>4
    <3>. QED
      BY <1>7, <3>1, <3>2
  <2>7. Fresh(copy[e])'
    BY <2>2, <2>4, <2>5, <2>6 DEF Fresh
  <2>. QED
    BY <2>2, <2>3, <2>4, <2>7 DEF FreshTables, Reads
<1>8. ASSUME NEW e \in Editors, EditTruncate(e) \/ EditPut(e)
      PROVE  FreshTables' /\ RunsOncePerSlot'
  <2>1. /\ UNCHANGED <<worker, run>> /\ edit[e] # "idle"
        /\ \A f \in Editors : edit'[f] # "idle" => edit[f] # "idle" /\ copy'[f] = copy[f]
        /\ file' = Empty \/ file' = copy[e]
    BY <1>8, Types DEF EditTruncate, EditPut
  <2>2. Spare \subseteq Spare' /\ RunsOncePerSlot'
    BY <1>t, <2>1 DEF SameRuns
  <2>3. Fresh(file)'
    BY <1>r, <2>1, <2>2, EntryFields DEF FreshTables, Fresh
  <2>4. \A w \in Workers : ~Reads(w)'
    BY <1>r, <2>1 DEF OneReader, Reads, worker
  <2>5. \A f \in Editors : edit'[f] # "idle" => Fresh(copy[f])'
    BY <1>r, <2>1, <2>2 DEF FreshTables, Fresh
  <2>. QED
    BY <2>2, <2>3, <2>4, <2>5 DEF FreshTables, Reads
<1>9. CASE Passes \/ RouteLearned \/ UNCHANGED vars
  <2>1. UNCHANGED <<file, worker, editor, run>>
    BY <1>9 DEF Passes, RouteLearned, vars
  <2>2. Spare \subseteq Spare' /\ RunsOncePerSlot'
    BY <1>t, <2>1 DEF SameRuns
  <2>. QED
    BY <1>r, <2>1, <2>2 DEF SlotInv, FreshTables, Fresh, Reads, worker, editor
<1>. QED
  BY <1>r, <1>1, <1>2, <1>3, <1>4, <1>5, <1>6, <1>7, <1>8, <1>9
     DEF Next, Tick, Edit, Quiet, SlotInv

-----------------------------------------------------------------------------

\* A table has every job that was made, and none of these is enabled.
Kept(table, gone) == \A j \in Jobs : /\ j \in made => table[j].status # "absent"
                                     /\ j \in gone => table[j].status # "enabled"

\* What is, or is to be, written has all that was confirmed so far.
KeptTables ==
  /\ \A w \in Workers : Reads(w) => Kept(mine[w], cancelled)
  /\ (\A w \in Workers : pc[w] # "put") /\ (\A e \in Editors : edit[e] = "idle") =>
       Kept(file, cancelled)
  /\ \A e \in Editors : /\ edit[e] = "idle" => change[e] = {}
                        /\ edit[e] # "idle" => Kept(copy[e], cancelled \cup change[e])

EditInv == OneReader /\ KeptTables

LEMMA NextEdits ==
  ASSUME IInv, JobsInv, EditInv, [Next]_vars, ~clash', ~torn'
  PROVE  EditInv' /\ ~torn
<1>r. OneReader /\ OneReader' /\ KeptTables
  BY NextReader DEF EditInv
<1>1. ASSUME NEW w \in Workers, Load(w)
      PROVE  KeptTables' /\ ~torn
  <2>1. /\ ~Editing /\ ~torn /\ pc'[w] = "scan" /\ mine'[w] = file
        /\ UNCHANGED <<file, editor, made, cancelled>>
        /\ \A v \in Workers : v # w => pc'[v] = pc[v]
    BY <1>1, Types DEF Load, To
  <2>2. \A v \in Workers : Reads(v)' => v = w
    BY <2>1 DEF Editing, Reads
  <2>3. Kept(file, cancelled) /\ \A e \in Editors : edit[e] = "idle"
    BY <1>r, <2>1 DEF KeptTables, Editing
  <2>4. Kept(mine[w], cancelled)' /\ Kept(file, cancelled)'
    BY <2>1, <2>3 DEF Kept
  <2>. QED
    BY <1>r, <2>1, <2>2, <2>3, <2>4 DEF KeptTables, editor
<1>2. ASSUME NEW w \in Workers, Start(w)
      PROVE  KeptTables' /\ ~torn
  <2>1. /\ UNCHANGED <<file, mine, editor, made, cancelled, torn>>
        /\ \A v \in Workers : /\ Reads(v)' <=> Reads(v)
                              /\ pc'[v] = "put" <=> pc[v] = "put"
    BY <1>2, Types DEF Start, To, history, Reads
  <2>. QED
    BY <1>r, <2>1 DEF KeptTables, Kept, editor
<1>3. ASSUME NEW w \in Workers, Finish(w)
      PROVE  KeptTables' /\ ~torn
  <2>. DEFINE j == run[current[w]].job
  <2>1. /\ pc[w] = "turn" /\ j \in Jobs /\ pc'[w] \in {"scan", "down"}
        /\ pc'[w] = "scan" => /\ mine'[w][j] = Advanced(j, at[w])
                              /\ \A i \in Jobs : i # j => mine'[w][i] = mine[w][i]
        /\ \A v \in Workers : v # w => pc'[v] = pc[v] /\ mine'[v] = mine[v]
        /\ UNCHANGED <<file, editor, history>>
    BY <1>3, Finished
  <2>2. /\ \A v \in Workers : Reads(v) => v = w
        /\ \A e \in Editors : edit[e] = "idle"
    BY <1>r, <2>1, Types DEF InTick, Reads, OneReader
  <2>3. Kept(mine[w], cancelled) /\ Kept(file, cancelled)
    BY <1>r, <2>1, <2>2 DEF KeptTables, Reads
  <2>4. mine[w][j].status = "enabled"
    BY <2>1 DEF JobsInv, DueIsEnabled
  <2>5. pc'[w] = "scan" => Kept(mine[w], cancelled)'
    BY <2>1, <2>3, <2>4 DEF Kept, Advanced, history
  <2>6. Kept(file, cancelled)'
    BY <2>1, <2>3 DEF Kept, history
  <2>7. \A v \in Workers : Reads(v)' => v = w /\ pc'[w] = "scan"
    BY <2>1, <2>2 DEF Reads
  <2>. QED
    BY <1>r, <2>1, <2>2, <2>5, <2>6, <2>7 DEF KeptTables, editor, history
<1>4. ASSUME NEW w \in Workers, Truncate(w)
      PROVE  KeptTables' /\ ~torn
  <2>1. /\ pc'[w] = "put" /\ UNCHANGED <<mine, editor, made, cancelled, torn>>
        /\ \A v \in Workers : Reads(v)' <=> Reads(v)
    BY <1>4, Types DEF Truncate, To, history, Reads
  <2>. QED
    BY <1>r, <2>1 DEF KeptTables, Kept, editor
<1>5. ASSUME NEW w \in Workers, Put(w)
      PROVE  KeptTables' /\ ~torn
  <2>1. /\ pc[w] = "put" /\ pc'[w] = "list" /\ file' = mine[w]
        /\ UNCHANGED <<editor, made, cancelled, torn>>
        /\ \A v \in Workers : v # w => pc'[v] = pc[v]
    BY <1>5, Types DEF Put, To, history
  <2>2. /\ \A v \in Workers : Reads(v) => v = w
        /\ \A e \in Editors : edit[e] = "idle"
    BY <1>r, <2>1, Types DEF InTick, Reads, OneReader
  <2>3. \A v \in Workers : ~Reads(v)'
    BY <2>1, <2>2 DEF Reads
  <2>4. Kept(file, cancelled)'
    BY <1>r, <2>1 DEF KeptTables, Reads, Kept
  <2>. QED
    BY <1>r, <2>1, <2>2, <2>3, <2>4 DEF KeptTables, editor
<1>6. ASSUME NEW w \in Workers, Quiet(w), ~Load(w), ~Finish(w), ~Truncate(w), ~Put(w)
      PROVE  KeptTables' /\ ~torn
  <2>1. /\ UNCHANGED <<file, editor, made, cancelled>> /\ ~torn
        /\ \A v \in Workers : /\ Reads(v)' => Reads(v) /\ mine'[v] = mine[v]
                              /\ pc[v] = "put" => pc'[v] = "put"
    <3>1. CASE Crash(w)
      <4>1. /\ pc' = [pc EXCEPT ![w] = "down"] /\ mine' = [mine EXCEPT ![w] = Empty]
            /\ torn' = (torn \/ pc[w] = "put")
            /\ UNCHANGED <<file, editor, made, cancelled>>
        BY <3>1 DEF Crash, To
      <4>. QED
        BY <4>1, Types DEF Reads
    <3>2. CASE Acquire(w) \/ Recover(w) \/ ListPending(w) \/ Deliver(w) \/ MarkEnqueued(w)
                 \/ Sleep(w) \/ Restart(w)
      <4>1. /\ UNCHANGED <<file, editor, made, cancelled, torn, mine>>
            /\ pc[w] # "put" /\ pc'[w] \notin {"scan", "turn", "put"}
            /\ \A v \in Workers : v # w => pc'[v] = pc[v]
        BY <3>2, Types DEF Acquire, Recover, ListPending, Deliver, MarkEnqueued, Sleep, Restart,
           To, history
      <4>. QED
        BY <4>1 DEF Reads
    <3>. QED
      BY <1>6, <3>1, <3>2 DEF Quiet
  <2>. QED
    BY <1>r, <2>1 DEF KeptTables, Kept, editor
<1>7. ASSUME NEW e \in Editors, NEW j \in Jobs, Create(e, j) \/ Cancel(e, j)
      PROVE  KeptTables' /\ ~torn
  <2>1. /\ UNCHANGED <<file, worker, cancelled, torn>> /\ ~Editing
        /\ edit'[e] = "truncate" /\ \A f \in Editors : f # e => /\ edit'[f] = edit[f]
                                                                /\ change'[f] = change[f]
    BY <1>7, Types DEF Create, Cancel
  <2>2. /\ \A w \in Workers : ~Reads(w)' /\ pc[w] # "put"
        /\ \A f \in Editors : edit[f] = "idle" /\ (f # e => edit'[f] = "idle")
    BY <2>1 DEF Editing, Reads, worker
  <2>3. Kept(file, cancelled) /\ \A f \in Editors : change[f] = {}
    BY <1>r, <2>2 DEF KeptTables
  <2>4. \A i \in Jobs : i # j => copy'[e][i] = file[i]
    BY <1>7, Types DEF Create, Cancel
  <2>5. Kept(copy[e], cancelled \cup change[e])'
    <3>1. CASE Create(e, j)
      <4>1. /\ copy'[e][j].status = "enabled" /\ made' = made \cup {j} /\ change' = change
            /\ j \notin made
        BY <3>1, Types DEF Create
      <4>2. j \notin cancelled
        BY <4>1 DEF JobsInv, OnlyMade
      <4>. QED
        BY <2>1, <2>3, <2>4, <4>1, <4>2 DEF Kept
    <3>2. CASE Cancel(e, j)
      <4>1. /\ copy'[e] = [file EXCEPT ![j].status = "disabled"] /\ made' = made
            /\ change'[e] = {j} /\ file \in [Jobs -> Entries]
        BY <3>2, Types DEF Cancel
      <4>2. copy'[e][j].status = "disabled"
        BY <4>1 DEF Entries
      <4>. QED
        BY <2>1, <2>3, <2>4, <4>1, <4>2 DEF Kept
    <3>. QED
      BY <1>7, <3>1, <3>2
  <2>. QED
    BY <2>1, <2>2, <2>3, <2>5 DEF KeptTables
<1>8. ASSUME NEW e \in Editors, EditTruncate(e)
      PROVE  KeptTables' /\ ~torn
  <2>1. /\ UNCHANGED <<worker, copy, change, history>> /\ edit[e] = "truncate"
        /\ edit'[e] = "put" /\ \A f \in Editors : f # e => edit'[f] = edit[f]
    BY <1>8, Types DEF EditTruncate
  <2>. QED
    BY <1>r, <2>1 DEF KeptTables, Kept, Reads, worker, history
<1>9. ASSUME NEW e \in Editors, EditPut(e)
      PROVE  KeptTables' /\ ~torn
  <2>1. /\ UNCHANGED <<worker, made, torn>> /\ edit[e] = "put"
        /\ cancelled' = cancelled \cup change[e] /\ file' = copy[e]
        /\ edit'[e] = "idle" /\ change'[e] = {}
        /\ \A f \in Editors : f # e => edit'[f] = edit[f] /\ change'[f] = change[f]
    BY <1>9, Types DEF EditPut
  <2>2. /\ \A w \in Workers : ~Reads(w)'
        /\ \A f \in Editors : edit'[f] = "idle"
    BY <1>r, <2>1 DEF OneReader, Reads, worker
  <2>3. Kept(file, cancelled)'
    BY <1>r, <2>1 DEF KeptTables, Kept
  <2>. QED
    BY <1>r, <2>1, <2>2, <2>3 DEF KeptTables
<1>10. CASE Passes \/ RouteLearned \/ UNCHANGED vars
  <2>1. UNCHANGED <<file, worker, editor, history>>
    BY <1>10 DEF Passes, RouteLearned, vars
  <2>2. KeptTables' /\ ~torn
    BY <1>r, <2>1 DEF KeptTables, Kept, Reads, worker, editor, history
  <2>. QED
    BY <1>r, <2>2 DEF EditInv
<1>. QED
  BY <1>r, <1>1, <1>2, <1>3, <1>4, <1>5, <1>6, <1>7, <1>8, <1>9, <1>10
     DEF Next, Tick, Edit, Quiet, EditInv

-----------------------------------------------------------------------------

LEMMA HistoryStays ==
  ASSUME [Next]_vars
  PROVE  (clash => clash') /\ (torn => torn')
<1>1. ASSUME NEW w \in Workers, Load(w)
      PROVE  torn' = torn /\ clash' = (clash \/ Editing)
  BY <1>1 DEF Load
<1>2. ASSUME NEW w \in Workers, Crash(w)
      PROVE  clash' = clash /\ torn' = (torn \/ pc[w] = "put")
  BY <1>2 DEF Crash
<1>3. ASSUME NEW e \in Editors, NEW j \in Jobs, Create(e, j) \/ Cancel(e, j)
      PROVE  torn' = torn /\ clash' = (clash \/ Editing)
  BY <1>3 DEF Create, Cancel
<1>4. ASSUME NEW w \in Workers, Tick(w), ~Load(w)
      PROVE  clash' = clash /\ torn' = torn
  BY <1>4 DEF Tick, Acquire, Recover, Start, Finish, Truncate, Put, ListPending, Deliver,
     MarkEnqueued, Sleep, Restart, history
<1>5. ASSUME NEW e \in Editors, EditTruncate(e) \/ EditPut(e)
      PROVE  clash' = clash /\ torn' = torn
  BY <1>5 DEF EditTruncate, EditPut, history
<1>6. CASE Passes \/ RouteLearned \/ UNCHANGED vars
  BY <1>6 DEF Passes, RouteLearned, vars, history
<1>. QED
  BY <1>1, <1>2, <1>3, <1>4, <1>5, <1>6, Zenon DEF Next, Edit

LEMMA InitTables == Init => SlotInv /\ EditInv
<1>. SUFFICES ASSUME Init
              PROVE  SlotInv /\ EditInv
  OBVIOUS
<1>. USE CronAssumption DEF Init, CronAssumption
<1>1. OneReader
  BY DEF OneReader, Reads
<1>2. \A j \in Jobs, s \in Times : Cardinality(Taken(j, s)) = 0
  <2>1. \A j \in Jobs, s \in Times : Taken(j, s) = {}
    BY DEF Taken, NoRow
  <2>. QED
    BY <2>1, FS_EmptySet
<1>3. RunsOncePerSlot
  BY <1>2 DEF RunsOncePerSlot
<1>4. FreshTables
  <2>1. Fresh(file)
    BY <1>2, SpareOf DEF Fresh, Empty, Times
  <2>. QED
    BY <2>1 DEF FreshTables
<1>5. KeptTables
  BY DEF KeptTables, Kept, Empty, Reads
<1>. QED
  BY <1>1, <1>3, <1>4, <1>5 DEF SlotInv, EditInv

\* When every job recurs or runs once, and nobody reads the file while another has still to
\* write it: no time of a job is run twice, but for one more run after each crash, whatever
\* job a worker was at and however late its tick ends.
THEOREM EachSlotRunsOnce ==
  ASSUME Rare = {}
  PROVE  Spec => [](clash \/ RunsOncePerSlot)
<1>1. Init => IInv /\ JobsInv /\ (clash \/ SlotInv)
  BY InitInv, InitJobs, InitTables
<1>2. IInv /\ JobsInv /\ (clash \/ SlotInv) /\ [Next]_vars => (IInv /\ JobsInv /\ (clash \/ SlotInv))'
  <2>. SUFFICES ASSUME IInv, JobsInv, clash \/ SlotInv, [Next]_vars
                PROVE  IInv' /\ JobsInv' /\ (clash' \/ SlotInv')
    OBVIOUS
  <2>1. clash => clash'
    BY HistoryStays
  <2>. QED
    BY <2>1, NextInv, NextJobs, NextSlots
<1>3. (clash \/ SlotInv) => (clash \/ RunsOncePerSlot)
  BY DEF SlotInv
<1>. QED
  BY <1>1, <1>2, <1>3, PTL DEF Spec

\* Without editors the workers keep out of each other's way by the lock.
LEMMA NoEditors ==
  ASSUME Editors = {}, IInv, ~clash, [Next]_vars
  PROVE  ~clash'
<1>1. ASSUME NEW w \in Workers, Load(w)
      PROVE  ~clash'
  <2>1. \A v \in Workers : ~Reads(v)
    BY <1>1, Types DEF Load, InTick, Reads
  <2>. QED
    BY <1>1, <2>1 DEF Load, Editing, Reads
<1>2. CASE \A w \in Workers : ~Load(w)
  BY <1>2 DEF Next, Tick, Acquire, Recover, Start, Finish, Truncate, Put, ListPending, Deliver,
     MarkEnqueued, Sleep, Restart, Crash, Passes, RouteLearned, vars, history
<1>. QED
  BY <1>1, <1>2

\* And so, when nobody edits the jobs, the workers run no time of a job twice.
THEOREM EachSlotRunsOnceUnedited ==
  ASSUME Rare = {}, Editors = {}
  PROVE  Spec => []RunsOncePerSlot
<1>1. Init => IInv /\ ~clash
  BY InitInv DEF Init
<1>2. IInv /\ ~clash /\ [Next]_vars => IInv' /\ ~clash'
  BY NextInv, NoEditors
<1>. QED
  BY <1>1, <1>2, EachSlotRunsOnce, PTL DEF Spec

\* While no reads and writes of the file overlap and no crash tears it, the table that will be
\* written has every job the tool made, and has disabled every job the tool cancelled.
THEOREM NoEditIsLost == Spec => []EditsAreKept
<1>1. Init => IInv /\ JobsInv /\ (clash \/ torn \/ EditInv)
  BY InitInv, InitJobs, InitTables
<1>2. IInv /\ JobsInv /\ (clash \/ torn \/ EditInv) /\ [Next]_vars =>
        (IInv /\ JobsInv /\ (clash \/ torn \/ EditInv))'
  <2>. SUFFICES ASSUME IInv, JobsInv, clash \/ torn \/ EditInv, [Next]_vars
                PROVE  IInv' /\ JobsInv' /\ (clash' \/ torn' \/ EditInv')
    OBVIOUS
  <2>1. (clash => clash') /\ (torn => torn')
    BY HistoryStays
  <2>. QED
    BY <2>1, NextInv, NextJobs, NextEdits
<1>3. (clash \/ torn \/ EditInv) => EditsAreKept
  BY DEF EditInv, KeptTables, Kept, EditsAreKept, Editing, Reads
<1>. QED
  BY <1>1, <1>2, <1>3, PTL DEF Spec
=============================================================================
