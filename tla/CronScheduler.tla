--------------------------- MODULE CronScheduler ---------------------------
(***************************************************************************)
(* Scheduled jobs: runtime/tasks/cron.py, its worker loop in cli/main.py   *)
(* and the edits of tools/cron_tool.py.  The jobs are a JSON file that a   *)
(* worker reads at the start of a tick and writes back whole at its end,   *)
(* after the turns of all due jobs; a tick holds a file lock that the      *)
(* editing tool does not take.  Runs are rows of a table, whose ends a     *)
(* worker puts into the Weixin outbox after its tick, outside of the lock. *)
(***************************************************************************)
EXTENDS Naturals, FiniteSets

CONSTANTS
  Workers,       \* processes of "navi-agent cron"
  Editors,       \* calls of the cron tool, in the processes of the agent
  Jobs,
  Once,          \* jobs of schedule_type "once"; the others recur
  Rare,          \* recurring jobs with no run within 366 days of the last
  Scheduled,     \* the jobs in the file at the start
  MaxNow,        \* bound on the time
  MaxRuns,       \* bound on the rows of cron_runs
  MaxCrashes,    \* bound on the crashes of workers
  Nobody         \* no worker

ASSUME CronAssumption ==
  /\ Once \subseteq Jobs /\ Rare \subseteq Jobs \ Once /\ Scheduled \subseteq Jobs
  /\ MaxNow \in Nat \ {0} /\ MaxRuns \in Nat /\ MaxCrashes \in Nat
  /\ Nobody \notin Workers

VARIABLES
  file,       \* jobs.json: each job's status and next_run_at, 0 for null
  now,
  holder,     \* who holds the tick lock
  pc, at, mine, due, current, batch,   \* the locals of a worker
  edit, copy, change,                  \* the locals of an editor
  run,        \* cron_runs
  outbox,     \* rows of weixin_outbox for a run
  routed,     \* a Weixin route to the user is known
  made,       \* history: jobs that were created
  cancelled,  \* history: jobs a call of the tool said it had cancelled
  crashes,    \* history: crashes of workers
  torn,       \* history: a crash hit a file that was being written
  clash       \* history: a reader of the file began while another had not
              \* written it back

worker == <<pc, at, mine, due, current, batch>>
editor == <<edit, copy, change>>
world == <<now, routed>>
history == <<made, cancelled, crashes, torn, clash>>
vars == <<file, holder, worker, editor, run, outbox, world, history>>

Runs == 1..MaxRuns
Times == 0..MaxNow + 1
Entries == [status : {"absent", "enabled", "disabled"}, next : Times]
Tables == [Jobs -> Entries]

\* An empty file reads as an empty list.
Empty == [j \in Jobs |-> [status |-> "absent", next |-> 0]]

\* How a turn may end: "done" is success or failed, "unfinished" one of
\* awaiting_input, cancelled and iteration_limit_exceeded.
Ends == {"done", "unfinished"}
Rows == [job : Jobs \cup {Nobody}, slot : Times,
         status : {"absent", "running", "interrupted"} \cup Ends,
         delivery : {"pending", "enqueued"}]

TypeOK ==
  /\ file \in Tables /\ now \in 1..MaxNow
  /\ holder \in Workers \cup {Nobody}
  /\ pc \in [Workers -> {"idle", "recover", "load", "scan", "turn", "put", "list",
                         "deliver", "mark", "down"}]
  /\ at \in [Workers -> 0..MaxNow] /\ mine \in [Workers -> Tables]
  /\ due \in [Workers -> SUBSET Jobs]
  /\ current \in [Workers -> Runs \cup {0}] /\ batch \in [Workers -> SUBSET Runs]
  /\ edit \in [Editors -> {"idle", "truncate", "put"}] /\ copy \in [Editors -> Tables]
  /\ change \in [Editors -> SUBSET Jobs]
  /\ run \in [Runs -> Rows] /\ outbox \in [Runs -> Nat] /\ routed \in BOOLEAN
  /\ made \subseteq Jobs /\ cancelled \subseteq Jobs
  /\ crashes \in 0..MaxCrashes /\ torn \in BOOLEAN /\ clash \in BOOLEAN

NoRow == [job |-> Nobody, slot |-> 0, status |-> "absent", delivery |-> "pending"]

Init ==
  /\ file = [j \in Jobs |-> IF j \in Scheduled THEN [status |-> "enabled", next |-> 1]
                                               ELSE Empty[j]]
  /\ now = 1 /\ holder = Nobody
  /\ pc = [w \in Workers |-> "idle"] /\ at = [w \in Workers |-> 0]
  /\ mine = [w \in Workers |-> Empty] /\ due = [w \in Workers |-> {}]
  /\ current = [w \in Workers |-> 0] /\ batch = [w \in Workers |-> {}]
  /\ edit = [e \in Editors |-> "idle"] /\ copy = [e \in Editors |-> Empty]
  /\ change = [e \in Editors |-> {}]
  /\ run = [r \in Runs |-> NoRow] /\ outbox = [r \in Runs |-> 0] /\ routed = FALSE
  /\ made = Scheduled /\ cancelled = {} /\ crashes = 0 /\ torn = FALSE /\ clash = FALSE

\* Someone has read the file and not yet written it back.
Editing == \/ \E w \in Workers : pc[w] \in {"scan", "turn", "put"}
           \/ \E e \in Editors : edit[e] # "idle"

To(w, place) == pc' = [pc EXCEPT ![w] = place]

-----------------------------------------------------------------------------
(* A tick: run_due() *)

\* CronTickLock.__enter__: without the lock the tick is skipped.
Acquire(w) ==
  /\ pc[w] = "idle"
  /\ \/ /\ holder = Nobody
        /\ holder' = w /\ at' = [at EXCEPT ![w] = now]
        /\ To(w, "recover")
     \/ /\ holder # Nobody
        /\ To(w, "list")
        /\ UNCHANGED <<holder, at>>
  /\ UNCHANGED <<file, mine, due, current, batch, editor, run, outbox, world, history>>

\* recover_interrupted()
Recover(w) ==
  /\ pc[w] = "recover"
  /\ run' = [r \in Runs |-> IF run[r].status = "running"
                            THEN [run[r] EXCEPT !.status = "interrupted"] ELSE run[r]]
  /\ To(w, "load")
  /\ UNCHANGED <<file, holder, at, mine, due, current, batch, editor, outbox, world, history>>

\* Mutant of IsDue, which violates EditsAreKept.
IsDueDisabled(job, t) == job.status # "absent" /\ job.next # 0 /\ job.next <= t

IsDue(job, t) == job.status = "enabled" /\ job.next # 0 /\ job.next <= t

Load(w) ==
  /\ pc[w] = "load"
  /\ mine' = [mine EXCEPT ![w] = file]
  /\ due' = [due EXCEPT ![w] = {j \in Jobs : IsDue(file[j], at[w])}]
  /\ clash' = (clash \/ Editing)
  /\ To(w, "scan")
  /\ UNCHANGED <<file, holder, at, current, batch, editor, run, outbox, world>>
  /\ UNCHANGED <<made, cancelled, crashes, torn>>

\* CronRunStore.start(), then app.handle().  The jobs are taken in some order.
Start(w) ==
  /\ pc[w] = "scan"
  /\ \E j \in due[w], r \in Runs :
       /\ run[r].status = "absent" /\ \A q \in 1..r - 1 : run[q].status # "absent"
       /\ run' = [run EXCEPT ![r] = [job |-> j, slot |-> mine[w][j].next,
                                     status |-> "running", delivery |-> "pending"]]
       /\ due' = [due EXCEPT ![w] = @ \ {j}]
       /\ current' = [current EXCEPT ![w] = r]
  /\ To(w, "turn")
  /\ UNCHANGED <<file, holder, at, mine, batch, editor, outbox, world, history>>

\* Mutant of NextRun, which violates RunsOncePerSlot.
NextRunOrNow(t) == t

\* next_cron_run(): the first minute after t.
NextRun(t) == t + 1

Advanced(j, t) ==
  IF j \in Once THEN [status |-> "disabled", next |-> 0]
  ELSE [status |-> "enabled", next |-> NextRun(t)]

\* The turn ends or raises, and its row is completed; for a rare job
\* next_cron_run() then raises: the tick and its process end.
Finish(w) ==
  LET r == current[w]  j == run[r].job
  IN /\ pc[w] = "turn"
     /\ \E end \in Ends :
          run' = IF run[r].status = "running" THEN [run EXCEPT ![r].status = end] ELSE run
     /\ \/ /\ j \notin Rare
           /\ mine' = [mine EXCEPT ![w][j] = Advanced(j, at[w])]
           /\ To(w, "scan")
           /\ UNCHANGED <<holder, at, due>>
        \/ /\ j \in Rare
           /\ mine' = [mine EXCEPT ![w] = Empty] /\ due' = [due EXCEPT ![w] = {}]
           /\ at' = [at EXCEPT ![w] = 0]
           /\ To(w, "down")
           /\ holder' = Nobody
     /\ current' = [current EXCEPT ![w] = 0]
     /\ UNCHANGED <<file, batch, editor, outbox, world, history>>

\* write_jobs() truncates the file and then writes all that was read.
Truncate(w) ==
  /\ pc[w] = "scan" /\ due[w] = {}
  /\ file' = Empty
  /\ To(w, "put")
  /\ UNCHANGED <<holder, at, mine, due, current, batch, editor, run, outbox, world, history>>

Put(w) ==
  /\ pc[w] = "put"
  /\ file' = mine[w]
  /\ mine' = [mine EXCEPT ![w] = Empty] /\ at' = [at EXCEPT ![w] = 0]
  /\ holder' = Nobody
  /\ To(w, "list")
  /\ UNCHANGED <<due, current, batch, editor, run, outbox, world, history>>

-----------------------------------------------------------------------------
(* Its deliveries: _enqueue_pending_cron_deliveries() *)

\* Mutant of Deliverable, which violates EveryJobIsTold.
DeliverableDone == {"done"}

Deliverable == {"done", "interrupted"}

ListPending(w) ==
  /\ pc[w] = "list"
  /\ batch' = [batch EXCEPT ![w] =
       {r \in Runs : run[r].status \in Deliverable /\ run[r].delivery = "pending"}]
  /\ To(w, "deliver")
  /\ UNCHANGED <<file, holder, at, mine, due, current, editor, run, outbox, world, history>>

\* Mutant of Enqueued, which violates DeliveredExactly.
EnqueuedAgain(r) == [outbox EXCEPT ![r] = @ + 1]

\* enqueue_outbound() ignores a delivery key that it has.
Enqueued(r) == [outbox EXCEPT ![r] = 1]

Deliver(w) ==
  /\ pc[w] = "deliver"
  /\ \E r \in batch[w] :
       \/ /\ routed
          /\ outbox' = Enqueued(r)
          /\ current' = [current EXCEPT ![w] = r]
          /\ To(w, "mark")
          /\ UNCHANGED batch
       \/ /\ ~routed
          /\ batch' = [batch EXCEPT ![w] = @ \ {r}]
          /\ UNCHANGED <<outbox, current, pc>>
  /\ UNCHANGED <<file, holder, at, mine, due, editor, run, world, history>>

\* mark_delivery_enqueued()
MarkEnqueued(w) ==
  /\ pc[w] = "mark"
  /\ run' = [run EXCEPT ![current[w]].delivery = "enqueued"]
  /\ batch' = [batch EXCEPT ![w] = @ \ {current[w]}]
  /\ current' = [current EXCEPT ![w] = 0]
  /\ To(w, "deliver")
  /\ UNCHANGED <<file, holder, at, mine, due, editor, outbox, world, history>>

\* _run_cron_loop() sleeps.
Sleep(w) ==
  /\ pc[w] = "deliver" /\ batch[w] = {}
  /\ To(w, "idle")
  /\ UNCHANGED <<file, holder, at, mine, due, current, batch, editor, run, outbox, world, history>>

\* The lock is the kernel's: it ends with the process.
Freed(w) == IF holder = w THEN Nobody ELSE holder

Crash(w) ==
  /\ pc[w] \notin {"idle", "down"} /\ crashes < MaxCrashes
  /\ crashes' = crashes + 1
  /\ torn' = (torn \/ pc[w] = "put")
  /\ holder' = Freed(w)
  /\ To(w, "down")
  /\ mine' = [mine EXCEPT ![w] = Empty] /\ due' = [due EXCEPT ![w] = {}]
  /\ current' = [current EXCEPT ![w] = 0] /\ batch' = [batch EXCEPT ![w] = {}]
  /\ at' = [at EXCEPT ![w] = 0]
  /\ UNCHANGED <<file, editor, run, outbox, world, made, cancelled, clash>>

Restart(w) ==
  /\ pc[w] = "down"
  /\ To(w, "idle")
  /\ UNCHANGED <<file, holder, at, mine, due, current, batch, editor, run, outbox, world, history>>

-----------------------------------------------------------------------------
(* The tool: CronJobStore.add() and cancel() *)

Create(e, j) ==
  /\ edit[e] = "idle" /\ j \notin made
  /\ \E t \in IF j \in Once THEN 1..MaxNow ELSE {NextRun(now)} :
       copy' = [copy EXCEPT ![e] = [file EXCEPT ![j] = [status |-> "enabled", next |-> t]]]
  /\ edit' = [edit EXCEPT ![e] = "truncate"]
  /\ made' = made \cup {j} /\ clash' = (clash \/ Editing)
  /\ UNCHANGED <<file, holder, worker, change, run, outbox, world, cancelled, crashes, torn>>

Cancel(e, j) ==
  /\ edit[e] = "idle" /\ file[j].status # "absent" /\ j \notin cancelled
  /\ copy' = [copy EXCEPT ![e] = [file EXCEPT ![j].status = "disabled"]]
  /\ change' = [change EXCEPT ![e] = {j}]
  /\ edit' = [edit EXCEPT ![e] = "truncate"]
  /\ clash' = (clash \/ Editing)
  /\ UNCHANGED <<file, holder, worker, run, outbox, world, made, cancelled, crashes, torn>>

EditTruncate(e) ==
  /\ edit[e] = "truncate"
  /\ file' = Empty
  /\ edit' = [edit EXCEPT ![e] = "put"]
  /\ UNCHANGED <<holder, worker, copy, change, run, outbox, world, history>>

EditPut(e) ==
  /\ edit[e] = "put"
  /\ file' = copy[e]
  /\ copy' = [copy EXCEPT ![e] = Empty] /\ change' = [change EXCEPT ![e] = {}]
  /\ cancelled' = cancelled \cup change[e]
  /\ edit' = [edit EXCEPT ![e] = "idle"]
  /\ UNCHANGED <<holder, worker, run, outbox, world, made, crashes, torn, clash>>

-----------------------------------------------------------------------------

Passes ==
  /\ now < MaxNow
  /\ now' = now + 1
  /\ UNCHANGED <<file, holder, worker, editor, run, outbox, routed, history>>

\* The user writes to the Weixin gateway.
RouteLearned ==
  /\ ~routed
  /\ routed' = TRUE
  /\ UNCHANGED <<file, holder, worker, editor, run, outbox, now, history>>

Tick(w) ==
  \/ Acquire(w) \/ Recover(w) \/ Load(w) \/ Start(w) \/ Finish(w) \/ Truncate(w) \/ Put(w)
  \/ ListPending(w) \/ Deliver(w) \/ MarkEnqueued(w) \/ Sleep(w) \/ Restart(w)

Edit(e) ==
  \/ \E j \in Jobs : Create(e, j) \/ Cancel(e, j)
  \/ EditTruncate(e) \/ EditPut(e)

Next ==
  \/ \E w \in Workers : Tick(w) \/ Crash(w)
  \/ \E e \in Editors : Edit(e)
  \/ Passes \/ RouteLearned

Spec == Init /\ [][Next]_vars

\* A worker goes on ticking and is started again when it ended, and the user
\* writes to the gateway some day.
FairSpec ==
  /\ Spec
  /\ \A w \in Workers : WF_vars(Tick(w))
  /\ WF_vars(RouteLearned)

-----------------------------------------------------------------------------
(* Properties *)

Taken(j, s) == {r \in Runs : run[r].status # "absent" /\ run[r].job = j /\ run[r].slot = s}

\* A turn that still works is not called interrupted: recover_interrupted() of
\* another tick is kept out by the lock, also when the worker before crashed.
TurnIsRunning == \A w \in Workers : pc[w] = "turn" => run[current[w]].status = "running"

\* A job runs once for each of its times, and once more for each crash.
RunsOncePerSlot == \A j \in Jobs, s \in Times : Cardinality(Taken(j, s)) <= 1 + crashes

\* A run is in the outbox once, whoever delivers and whenever a worker crashes.
DeliveredOnce == \A r \in Runs : outbox[r] <= 1

\* A run that is not listed again for delivery is in the outbox.
MarkedIsInOutbox == \A r \in Runs : run[r].delivery = "enqueued" => outbox[r] > 0

\* However often a run is listed, its text goes to the outbox once, and before
\* it is marked.
DeliveredExactly == DeliveredOnce /\ MarkedIsInOutbox

\* The end of a run, of a success, a failure or a crash, reaches the outbox.  Nothing
\* is said of a run that ends unfinished, because it waits for input, was
\* cancelled or met the iteration limit: list_pending_delivery() (cron.py:141) never
\* lists its status, so its user is not told that it ended.
EveryEndIsEnqueued ==
  \A r \in Runs : run[r].status \in {"done", "interrupted"} ~> outbox[r] > 0

\* A scheduled job is run, unless a crash tore the file.
EveryJobRuns == \A j \in Scheduled : <>(torn \/ \E r \in Runs : run[r].job = j)

\* What is scheduled is run, and of what came to a success, a failure or a crash the
\* end is put in the outbox for the user.  A run that ends unfinished is left out.
EveryJobIsTold == EveryJobRuns /\ EveryEndIsEnqueued

\* Unless a tick and an edit, or two edits, overlap or a crash tears the file,
\* what the tool confirmed is kept: no job it made is missing, and none it
\* cancelled is enabled.
EditsAreKept ==
  clash \/ torn \/ Editing
    \/ \A j \in Jobs : /\ j \in made => file[j].status # "absent"
                      /\ j \in cancelled => file[j].status # "enabled"

\* tools/cron_tool.py: "cancel disables a job".  A job whose cancellation was
\* confirmed is not enabled again.
CancelDisables == \A j \in cancelled : file[j].status # "enabled"
=============================================================================
