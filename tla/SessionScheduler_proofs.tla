---------------------- MODULE SessionScheduler_proofs ----------------------
(***************************************************************************)
(* Theorems of SessionScheduler for any tasks, sessions and worker pool.   *)
(* The last sections are about the other threads that a turn waits for: of *)
(* its subagents (Subagents) and of the MCP servers' clients (McpClient).  *)
(***************************************************************************)
EXTENDS SessionScheduler, Subagents, McpClient, FiniteSetTheorems, TLAPS

(* Tail and Append keep a sequence's element set, in the form the steps    *)
(* below need it.                                                          *)
LEMMA TailFacts ==
  ASSUME NEW S, NEW q \in Seq(S), q # <<>>
  PROVE  /\ Head(q) \in S
         /\ Head(q) = q[1]
         /\ 1 \in DOMAIN q
         /\ Tail(q) \in Seq(S)
         /\ \A i \in DOMAIN Tail(q) : /\ i \in Nat /\ i > 0
                                      /\ i + 1 \in DOMAIN q
                                      /\ Tail(q)[i] = q[i + 1]
OBVIOUS

LEMMA AppendFacts ==
  ASSUME NEW S, NEW q \in Seq(S), NEW e \in S
  PROVE  /\ Append(q, e) \in Seq(S)
         /\ Append(q, e) # <<>>
         /\ DOMAIN q = 1..Len(q)
         /\ \A i \in DOMAIN Append(q, e) :
              \/ i \in DOMAIN q /\ Append(q, e)[i] = q[i]
              \/ i = Len(q) + 1 /\ Append(q, e)[i] = e
<1>1. /\ Append(q, e) \in Seq(S)
      /\ DOMAIN q = 1..Len(q)
      /\ Len(Append(q, e)) = Len(q) + 1
      /\ Append(q, e)[Len(q) + 1] = e
  OBVIOUS
<1>2. \A i \in 1..Len(q) : Append(q, e)[i] = q[i]
  OBVIOUS
<1>3. DOMAIN Append(q, e) = 1..(Len(q) + 1) /\ Len(q) \in Nat
  OBVIOUS
<1>4. Append(q, e) # <<>>
  BY <1>1, <1>3
<1>. QED
  BY <1>1, <1>2, <1>3, <1>4

-----------------------------------------------------------------------------
\* A worker that is not idle has a task in its hands.
BusyHasTask == \A w \in Workers : Busy(w) => job[w] \in Tasks
TypeInv == TypeOK /\ BusyHasTask

LEMMA InitType == Init => TypeInv
<1>1. <<>> \in Seq(Tasks)
  OBVIOUS
<1>2. Init => /\ queues \in [Sessions -> Seq(Tasks)]
              /\ workQueue \in Seq(Tasks)
  BY <1>1 DEF Init
<1>3. Init => /\ future \in [Tasks -> {"none", "pending", "running",
                                       "finished", "failed", "cancelled"}]
              /\ step \in [Workers -> {"idle", "picked", "running", "ran"}]
              /\ job \in [Workers -> Tasks \cup {NoTask}]
              /\ ticket \in [Tasks -> Nat]
              /\ BusyHasTask
  BY DEF Init, BusyHasTask, Busy
<1>4. Init => shut \in BOOLEAN
  BY Zenon DEF Init
<1>. QED
  BY <1>2, <1>3, <1>4 DEF Init, TypeInv, TypeOK

LEMMA HandType ==
  ASSUME TypeOK, NEW s \in Sessions, HandToExecutor(s)
  PROVE  /\ queues' \in [Sessions -> Seq(Tasks)]
         /\ workQueue' \in Seq(Tasks)
         /\ dropped' \in SUBSET Tasks
BY TailFacts DEF HandToExecutor, TypeOK

LEMMA NextType ==
  ASSUME TypeInv, [Next]_vars
  PROVE  TypeInv'
<1>. USE SchedulerAssumption DEF SchedulerAssumption, TypeInv, TypeOK,
     BusyHasTask, Busy, bookkeeping, history, executor
<1>1. ASSUME NEW t \in Tasks, NEW r \in BOOLEAN, Submit(t, r)
      PROVE  TypeInv'
  <2>1. Appended(queues[SessionOf[t]], t, r) \in Seq(Tasks)
    BY DEF Appended
  <2>2. future' \in [Tasks -> {"none", "pending", "running", "finished",
                               "failed", "cancelled"}]
    BY <1>1 DEF Submit, Cancelled
  <2>. QED
    BY <1>1, <2>1, <2>2 DEF Submit, Claim
<1>2. ASSUME NEW t \in Tasks, CallerCancel(t)
      PROVE  TypeInv'
  BY <1>2 DEF CallerCancel, Cancelled
<1>3. ASSUME NEW t \in Tasks, Dispatch(t)
      PROVE  TypeInv'
  BY <1>3, HandType DEF Dispatch, HandToExecutor, GiveBack, Notified
<1>4. ASSUME NEW w \in Workers, Pick(w)
      PROVE  TypeInv'
  BY <1>4, TailFacts DEF Pick
<1>5. ASSUME NEW w \in Workers, Begin(w)
      PROVE  TypeInv'
  BY <1>5 DEF Begin
<1>6. ASSUME NEW w \in Workers, Return(w)
      PROVE  TypeInv'
  BY <1>6 DEF Return
<1>7. ASSUME NEW w \in Workers, Leave(w)
      PROVE  TypeInv'
  BY <1>7, HandType DEF Leave, HandToExecutor, Release, Notified
<1>8. ASSUME NEW wait \in BOOLEAN, Close(wait)
      PROVE  TypeInv'
  BY <1>8 DEF Close, CloserGoes
<1>9. CASE CheckIdle
  BY <1>9 DEF CheckIdle, CloserGoes
<1>10. CASE TimeOut
  BY <1>10 DEF TimeOut, CloserGoes
<1>11. CASE CancelPending
  BY <1>11 DEF CancelPending, CloserGoes, Cancelled
<1>12. CASE Shutdown
  <2>1. shut' \in BOOLEAN
    BY <1>12, Zenon DEF Shutdown
  <2>2. <<>> \in Seq(Tasks) /\ Elements(workQueue) \subseteq Tasks
    BY DEF Elements
  <2>3. workQueue' \in Seq(Tasks) /\ dropped' \in SUBSET Tasks
    BY <1>12, <2>2 DEF Shutdown
  <2>. QED
    BY <1>12, <2>1, <2>3 DEF Shutdown, CloserGoes
<1>13. CASE UNCHANGED vars
  BY <1>13 DEF vars
<1>. QED
  BY <1>1, <1>2, <1>3, <1>4, <1>5, <1>6, <1>7, <1>8, <1>9, <1>10, <1>11,
     <1>12, <1>13 DEF Next, Callers, Closing, Worker

-----------------------------------------------------------------------------
(* The claim of a session.  A session that is not active has nothing       *)
(* queued and nobody acting for it; for an active one, the submit() calls  *)
(* about to dispatch, the work items, the workers and the dropped items    *)
(* hold at most one claim between them.                                    *)

ItemOf(i) == SessionOf[workQueue[i]]
WorkOf(w) == SessionOf[job[w]]

ClaimsAreActive ==
  /\ \A t \in dispatchers : SessionOf[t] \in active
  /\ \A i \in DOMAIN workQueue : ItemOf(i) \in active
  /\ \A w \in Workers : Busy(w) => WorkOf(w) \in active
  /\ \A t \in dropped : SessionOf[t] \in active
  /\ \A s \in Sessions : s \notin active => queues[s] = <<>>
  /\ active \subseteq keyed

ClaimsAreAlone ==
  /\ \A t, u \in dispatchers : SessionOf[t] = SessionOf[u] => t = u
  /\ \A i, j \in DOMAIN workQueue : ItemOf(i) = ItemOf(j) => i = j
  /\ \A v, w \in Workers : (Busy(v) /\ Busy(w) /\ WorkOf(v) = WorkOf(w)) => v = w
  /\ \A t, u \in dropped : SessionOf[t] = SessionOf[u] => t = u

ClaimsAreApart ==
  /\ \A t \in dispatchers :
       /\ \A i \in DOMAIN workQueue : SessionOf[t] # ItemOf(i)
       /\ \A w \in Workers : Busy(w) => SessionOf[t] # WorkOf(w)
       /\ \A u \in dropped : SessionOf[t] # SessionOf[u]
  /\ \A i \in DOMAIN workQueue :
       /\ \A w \in Workers : Busy(w) => ItemOf(i) # WorkOf(w)
       /\ \A u \in dropped : ItemOf(i) # SessionOf[u]
  /\ \A w \in Workers, u \in dropped : Busy(w) => WorkOf(w) # SessionOf[u]

\* What is queued under a session names that session.
QueuedUnderOwnSession ==
  \A s \in Sessions : \A i \in DOMAIN queues[s] : SessionOf[queues[s][i]] = s

\* close() reaches shutdown() only with every queue empty.
CloseInOrder ==
  /\ closer \in {"drained", "closed"} => active = {}
  /\ closer \in {"drained", "closed", "cancelled", "abandoned"} =>
       \A s \in Sessions : queues[s] = <<>>
  /\ shut => closer \in {"closed", "abandoned"}

ClaimInv ==
  /\ TypeInv
  /\ ClaimsAreActive
  /\ ClaimsAreAlone
  /\ ClaimsAreApart
  /\ QueuedUnderOwnSession
  /\ CloseInOrder

LEMMA InitClaim == Init => ClaimInv
BY InitType DEF Init, ClaimInv, ClaimsAreActive, ClaimsAreAlone, ClaimsAreApart,
   QueuedUnderOwnSession, CloseInOrder, Busy

(* A queue loses its head only to the executor, and only before shutdown.  *)
LEMMA HandFacts ==
  ASSUME ClaimInv, NEW s \in Sessions, HandToExecutor(s)
  PROVE  /\ ~shut
         /\ s \in active
         /\ SessionOf[Head(queues[s])] = s
         /\ Head(queues[s]) \in Tasks
         /\ workQueue' = Append(workQueue, Head(queues[s]))
         /\ dropped' = dropped
         /\ queues' = [queues EXCEPT ![s] = Tail(queues[s])]
         /\ closer' = closer /\ active' = active /\ keyed' = keyed /\ shut' = shut
         /\ \A i \in DOMAIN workQueue' :
              \/ i \in DOMAIN workQueue /\ workQueue'[i] = workQueue[i]
              \/ i = Len(workQueue) + 1 /\ workQueue'[i] = Head(queues[s])
         /\ \A r \in Sessions : \A i \in DOMAIN queues'[r] :
              SessionOf[queues'[r][i]] = r
<1>1. queues[s] # <<>> /\ queues[s] \in Seq(Tasks) /\ workQueue \in Seq(Tasks)
  BY DEF HandToExecutor, ClaimInv, TypeInv, TypeOK
<1>2. ~shut /\ s \in active
  BY <1>1 DEF ClaimInv, CloseInOrder, ClaimsAreActive
<1>3. /\ SessionOf[Head(queues[s])] = s
      /\ Head(queues[s]) \in Tasks
  BY <1>1, TailFacts DEF ClaimInv, QueuedUnderOwnSession
<1>4. /\ workQueue' = Append(workQueue, Head(queues[s]))
      /\ dropped' = dropped
      /\ queues' = [queues EXCEPT ![s] = Tail(queues[s])]
      /\ closer' = closer /\ active' = active /\ keyed' = keyed /\ shut' = shut
  BY <1>2 DEF HandToExecutor
<1>5. \A i \in DOMAIN workQueue' :
        \/ i \in DOMAIN workQueue /\ workQueue'[i] = workQueue[i]
        \/ i = Len(workQueue) + 1 /\ workQueue'[i] = Head(queues[s])
  BY <1>1, <1>3, <1>4, AppendFacts
<1>6. ASSUME NEW r \in Sessions, NEW i \in DOMAIN queues'[r]
      PROVE  SessionOf[queues'[r][i]] = r
  <2>1. CASE r = s
    <3>1. queues'[r] = Tail(queues[s])
      BY <1>4, <2>1 DEF ClaimInv, TypeInv, TypeOK
    <3>2. i + 1 \in DOMAIN queues[s] /\ queues'[r][i] = queues[s][i + 1]
      BY <1>1, <1>6, <3>1, TailFacts
    <3>. QED
      BY <2>1, <3>2 DEF ClaimInv, QueuedUnderOwnSession
  <2>2. CASE r # s
    BY <1>4, <1>6, <2>2 DEF ClaimInv, QueuedUnderOwnSession, TypeInv, TypeOK
  <2>. QED
    BY <2>1, <2>2
<1>. QED
  BY <1>2, <1>3, <1>4, <1>5, <1>6

LEMMA NextClaim ==
  ASSUME ClaimInv, [Next]_vars
  PROVE  ClaimInv'
<1>1. TypeInv /\ TypeInv'
  BY NextType DEF ClaimInv
<1>. DEFINE Goal == /\ ClaimsAreActive' /\ ClaimsAreAlone' /\ ClaimsAreApart'
                    /\ QueuedUnderOwnSession' /\ CloseInOrder'
<1>. SUFFICES Goal
  BY <1>1 DEF ClaimInv
<1>. USE DEF bookkeeping, history, executor, Busy, ItemOf, WorkOf
<1>t. /\ SessionOf \in [Tasks -> Sessions]
      /\ dispatchers \in SUBSET Tasks /\ dropped \in SUBSET Tasks
      /\ queues \in [Sessions -> Seq(Tasks)] /\ active \in SUBSET Sessions
      /\ keyed \in SUBSET Sessions
      /\ job \in [Workers -> Tasks \cup {NoTask}]
      /\ step \in [Workers -> {"idle", "picked", "running", "ran"}]
      /\ workQueue \in Seq(Tasks)
      /\ \A w \in Workers : Busy(w) => job[w] \in Tasks
  BY <1>1, SchedulerAssumption
  DEF SchedulerAssumption, TypeInv, TypeOK, BusyHasTask
<1>i. ClaimsAreActive /\ ClaimsAreAlone /\ ClaimsAreApart /\ QueuedUnderOwnSession
      /\ CloseInOrder
  BY DEF ClaimInv
<1>2. ASSUME NEW t \in Tasks, NEW r \in BOOLEAN, Submit(t, r)
      PROVE  Goal
  <2>. DEFINE s == SessionOf[t]
  <2>1. /\ s \in Sessions /\ closer = "open" /\ closer' = closer
        /\ queues' = [queues EXCEPT ![s] = Appended(queues[s], t, r)]
        /\ keyed' = keyed \cup {s} /\ active' = active \cup {s}
        /\ dispatchers' = IF s \in active THEN dispatchers ELSE dispatchers \cup {t}
        /\ workQueue' = workQueue /\ dropped' = dropped /\ shut' = shut
        /\ job' = job /\ step' = step
    BY <1>2, <1>t DEF Submit, Claim
  <2>2. ClaimsAreActive'
    BY <2>1, <1>t, <1>i DEF ClaimsAreActive
  <2>3. ClaimsAreAlone'
    BY <2>1, <1>i DEF ClaimsAreAlone, ClaimsAreActive
  <2>4. ClaimsAreApart'
    BY <2>1, <1>i DEF ClaimsAreApart, ClaimsAreActive
  <2>5. QueuedUnderOwnSession'
    <3>1. \A i \in DOMAIN Appended(queues[s], t, r) :
            SessionOf[Appended(queues[s], t, r)[i]] = s
      <4>1. queues[s] \in Seq(Tasks) /\ <<>> \in Seq(Tasks) /\ t \in Tasks
        BY <1>t, <2>1
      <4>2. CASE r
        BY <4>1, <4>2, AppendFacts DEF Appended
      <4>3. CASE ~r
        BY <4>1, <4>3, <2>1, <1>i, AppendFacts DEF Appended, QueuedUnderOwnSession
      <4>. QED
        BY <4>2, <4>3
    <3>. HIDE DEF s
    <3>. QED
      BY <3>1, <2>1, <1>t, <1>i DEF QueuedUnderOwnSession
  <2>6. CloseInOrder'
    BY <2>1, <1>i DEF CloseInOrder
  <2>. QED
    BY <2>2, <2>3, <2>4, <2>5, <2>6
<1>3. ASSUME NEW t \in Tasks, Dispatch(t)
      PROVE  Goal
  <2>. DEFINE s == SessionOf[t]
  <2>1. /\ t \in dispatchers /\ s \in Sessions
        /\ dispatchers' = dispatchers \ {t}
        /\ job' = job /\ step' = step
    BY <1>3, <1>t DEF Dispatch
  <2>2. CASE HandToExecutor(s)
    <3>1. /\ active' = active /\ keyed' = keyed /\ dropped' = dropped
          /\ closer' = closer /\ shut' = shut /\ ~shut
          /\ SessionOf[Head(queues[s])] = s
          /\ queues' = [queues EXCEPT ![s] = Tail(queues[s])]
          /\ \A i \in DOMAIN workQueue' :
              \/ i \in DOMAIN workQueue /\ workQueue'[i] = workQueue[i]
              \/ i = Len(workQueue) + 1 /\ workQueue'[i] = Head(queues[s])
          /\ QueuedUnderOwnSession'
      BY <2>1, <2>2, HandFacts DEF QueuedUnderOwnSession
    <3>2. \A i \in DOMAIN workQueue' :
              \/ i \in DOMAIN workQueue /\ ItemOf(i)' = ItemOf(i)
              \/ i = Len(workQueue) + 1 /\ ItemOf(i)' = s
      BY <3>1
    <3>3. s \in active /\ queues[s] # <<>>
      BY <2>1, <2>2, <1>i DEF ClaimsAreActive, HandToExecutor
    <3>4. \A x \in Sessions : x \notin active => queues'[x] = <<>>
      BY <3>1, <3>3, <1>t, <1>i DEF ClaimsAreActive
    <3>5. ClaimsAreActive'
      BY <2>1, <3>1, <3>2, <3>3, <3>4, <1>i DEF ClaimsAreActive
    <3>6. ClaimsAreAlone'
      BY <2>1, <3>1, <3>2, <1>i DEF ClaimsAreAlone, ClaimsAreApart
    <3>7. ClaimsAreApart'
      BY <2>1, <3>1, <3>2, <1>i DEF ClaimsAreAlone, ClaimsAreApart
    <3>8. CloseInOrder'
      BY <3>1, <3>3, <1>i, <2>1 DEF CloseInOrder
    <3>. QED
      BY <3>1, <3>5, <3>6, <3>7, <3>8
  <2>3. CASE GiveBack(s)
    <3>1. /\ queues[s] = <<>> /\ active' = active \ {s} /\ closer' = Notified
          /\ queues' = queues /\ keyed' = keyed /\ workQueue' = workQueue
          /\ dropped' = dropped /\ shut' = shut
      BY <2>3 DEF GiveBack
    <3>2. ClaimsAreActive'
      BY <2>1, <3>1, <1>i DEF ClaimsAreActive, ClaimsAreAlone, ClaimsAreApart
    <3>3. ClaimsAreAlone'
      BY <2>1, <3>1, <1>i DEF ClaimsAreAlone
    <3>4. ClaimsAreApart'
      BY <2>1, <3>1, <1>i DEF ClaimsAreApart
    <3>5. QueuedUnderOwnSession' /\ CloseInOrder'
      BY <3>1, <1>i DEF QueuedUnderOwnSession, CloseInOrder, Notified
    <3>. QED
      BY <3>2, <3>3, <3>4, <3>5
  <2>. QED
    BY <1>3, <2>2, <2>3 DEF Dispatch
<1>4. ASSUME NEW w \in Workers, Pick(w)
      PROVE  Goal
  <2>1. /\ step[w] = "idle" /\ workQueue # <<>>
        /\ job' = [job EXCEPT ![w] = Head(workQueue)]
        /\ step' = [step EXCEPT ![w] = "picked"]
        /\ workQueue' = Tail(workQueue)
        /\ closer' = closer /\ queues' = queues /\ keyed' = keyed
        /\ active' = active /\ dispatchers' = dispatchers /\ dropped' = dropped
        /\ shut' = shut
    BY <1>4 DEF Pick
  <2>2. /\ 1 \in DOMAIN workQueue /\ Head(workQueue) = workQueue[1]
        /\ \A i \in DOMAIN workQueue' : /\ i \in Nat /\ i > 0
                                        /\ i + 1 \in DOMAIN workQueue
                                        /\ ItemOf(i)' = ItemOf(i + 1)
    BY <2>1, <1>t, TailFacts
  <2>3. /\ step'[w] = "picked" /\ WorkOf(w)' = ItemOf(1)
        /\ \A v \in Workers : v # w => step'[v] = step[v] /\ WorkOf(v)' = WorkOf(v)
    BY <2>1, <2>2, <1>t
  <2>4. ClaimsAreActive'
    BY <2>1, <2>2, <2>3, <1>i DEF ClaimsAreActive
  <2>5. ClaimsAreAlone'
    <3>1. \A i, j \in DOMAIN workQueue' : ItemOf(i)' = ItemOf(j)' => i = j
      BY <2>2, <1>i DEF ClaimsAreAlone
    <3>2. \A u, v \in Workers : (Busy(u)' /\ Busy(v)' /\ WorkOf(u)' = WorkOf(v)')
                                => u = v
      BY <2>1, <2>2, <2>3, <1>i DEF ClaimsAreAlone, ClaimsAreApart
    <3>. QED
      BY <2>1, <3>1, <3>2, <1>i DEF ClaimsAreAlone
  <2>6. ClaimsAreApart'
    <3>1. \A i \in DOMAIN workQueue' : ItemOf(i)' # ItemOf(1)
      BY <2>2, <1>i DEF ClaimsAreAlone
    <3>. QED
      BY <2>1, <2>2, <2>3, <3>1, <1>i DEF ClaimsAreApart
  <2>. QED
    BY <2>1, <2>4, <2>5, <2>6, <1>i DEF QueuedUnderOwnSession, CloseInOrder
<1>5. ASSUME NEW w \in Workers, Begin(w) \/ Return(w)
      PROVE  Goal
  <2>1. /\ closer' = closer /\ queues' = queues /\ keyed' = keyed
        /\ active' = active /\ dispatchers' = dispatchers /\ dropped' = dropped
        /\ workQueue' = workQueue /\ shut' = shut /\ job' = job
        /\ \A v \in Workers : Busy(v)' <=> Busy(v)
    BY <1>5, <1>t DEF Begin, Return
  <2>. HIDE DEF Busy
  <2>. QED
    BY <2>1, <1>i DEF ClaimsAreActive, ClaimsAreAlone, ClaimsAreApart,
       QueuedUnderOwnSession, CloseInOrder
<1>6. ASSUME NEW w \in Workers, Leave(w)
      PROVE  Goal
  <2>. DEFINE s == SessionOf[job[w]]
  <2>1. /\ step[w] = "ran" /\ s \in Sessions
        /\ dispatchers' = dispatchers
        /\ step'[w] = "idle"
        /\ \A v \in Workers : v # w => step'[v] = step[v] /\ job'[v] = job[v]
    BY <1>6, <1>t DEF Leave
  <2>2. CASE HandToExecutor(s)
    <3>1. /\ active' = active /\ keyed' = keyed /\ dropped' = dropped
          /\ closer' = closer /\ shut' = shut /\ ~shut /\ s \in active
          /\ SessionOf[Head(queues[s])] = s
          /\ queues' = [queues EXCEPT ![s] = Tail(queues[s])]
          /\ \A i \in DOMAIN workQueue' :
              \/ i \in DOMAIN workQueue /\ workQueue'[i] = workQueue[i]
              \/ i = Len(workQueue) + 1 /\ workQueue'[i] = Head(queues[s])
          /\ QueuedUnderOwnSession'
      BY <2>1, <2>2, HandFacts DEF QueuedUnderOwnSession
    <3>2. \A i \in DOMAIN workQueue' :
              \/ i \in DOMAIN workQueue /\ ItemOf(i)' = ItemOf(i)
              \/ i = Len(workQueue) + 1 /\ ItemOf(i)' = s
      BY <3>1
    <3>3. \A x \in Sessions : x \notin active => queues'[x] = <<>>
      BY <3>1, <1>t, <1>i DEF ClaimsAreActive
    <3>4. ClaimsAreActive'
      BY <2>1, <3>1, <3>2, <3>3, <1>i DEF ClaimsAreActive
    <3>5. ClaimsAreAlone'
      BY <2>1, <3>1, <3>2, <1>i DEF ClaimsAreAlone, ClaimsAreApart
    <3>6. ClaimsAreApart'
      BY <2>1, <3>1, <3>2, <1>i DEF ClaimsAreAlone, ClaimsAreApart
    <3>7. CloseInOrder'
      BY <2>1, <3>1, <1>i DEF CloseInOrder
    <3>. QED
      BY <3>1, <3>4, <3>5, <3>6, <3>7
  <2>3. CASE Release(s)
    <3>1. /\ queues[s] = <<>> /\ active' = active \ {s} /\ closer' = Notified
          /\ queues' = queues /\ keyed' = keyed \ {s} /\ workQueue' = workQueue
          /\ dropped' = dropped /\ shut' = shut
      BY <2>3 DEF Release
    <3>2. ClaimsAreActive'
      BY <2>1, <3>1, <1>i DEF ClaimsAreActive, ClaimsAreAlone, ClaimsAreApart
    <3>3. ClaimsAreAlone'
      BY <2>1, <3>1, <1>i DEF ClaimsAreAlone
    <3>4. ClaimsAreApart'
      BY <2>1, <3>1, <1>i DEF ClaimsAreApart
    <3>5. QueuedUnderOwnSession' /\ CloseInOrder'
      BY <3>1, <1>i DEF QueuedUnderOwnSession, CloseInOrder, Notified
    <3>. QED
      BY <3>2, <3>3, <3>4, <3>5
  <2>. QED
    BY <1>6, <2>2, <2>3 DEF Leave
<1>7. CASE (\E t \in Tasks : CallerCancel(t)) \/ UNCHANGED vars
  <2>1. /\ closer' = closer /\ queues' = queues /\ keyed' = keyed
        /\ active' = active /\ dispatchers' = dispatchers /\ dropped' = dropped
        /\ workQueue' = workQueue /\ shut' = shut /\ job' = job /\ step' = step
    BY <1>7 DEF CallerCancel, vars
  <2>. QED
    BY <2>1, <1>i DEF ClaimsAreActive, ClaimsAreAlone, ClaimsAreApart,
       QueuedUnderOwnSession, CloseInOrder
<1>8. CASE (\E wait \in BOOLEAN : Close(wait)) \/ CheckIdle \/ TimeOut
  <2>1. /\ queues' = queues /\ keyed' = keyed
        /\ active' = active /\ dispatchers' = dispatchers /\ dropped' = dropped
        /\ workQueue' = workQueue /\ shut' = shut /\ job' = job /\ step' = step
    BY <1>8 DEF Close, CheckIdle, TimeOut
  <2>2. CloseInOrder'
    BY <1>8, <2>1, <1>i
    DEF Close, CheckIdle, TimeOut, CloserGoes, CloseInOrder, ClaimsAreActive
  <2>. QED
    BY <2>1, <2>2, <1>i DEF ClaimsAreActive, ClaimsAreAlone, ClaimsAreApart,
       QueuedUnderOwnSession
<1>9. CASE CancelPending
  <2>1. /\ closer = "undrained" /\ closer' = "cancelled"
        /\ keyed' = keyed \cap active /\ active' = active
        /\ dispatchers' = dispatchers /\ dropped' = dropped
        /\ workQueue' = workQueue /\ shut' = shut /\ job' = job /\ step' = step
        /\ \A s \in Sessions : queues'[s] = <<>>
    BY <1>9 DEF CancelPending, CloserGoes
  <2>2. QueuedUnderOwnSession'
    BY <2>1 DEF QueuedUnderOwnSession
  <2>. QED
    BY <2>1, <2>2, <1>i DEF ClaimsAreActive, ClaimsAreAlone, ClaimsAreApart,
       CloseInOrder
<1>10. CASE Shutdown
  <2>1. /\ queues' = queues /\ keyed' = keyed /\ active' = active
        /\ dispatchers' = dispatchers /\ job' = job /\ step' = step
        /\ \/ closer = "drained" /\ closer' = "closed"
              /\ workQueue' = workQueue /\ dropped' = dropped
           \/ closer = "cancelled" /\ closer' = "abandoned"
              /\ workQueue' = <<>>
              /\ dropped' = dropped \cup {workQueue[i] : i \in DOMAIN workQueue}
    BY <1>10 DEF Shutdown, CloserGoes, Elements
  <2>2. ClaimsAreActive' /\ ClaimsAreAlone' /\ ClaimsAreApart'
    <3>1. CASE closer = "drained"
      BY <2>1, <3>1, <1>i DEF ClaimsAreActive, ClaimsAreAlone, ClaimsAreApart
    <3>2. CASE closer = "cancelled"
      <4>1. ClaimsAreActive'
        BY <2>1, <3>2, <1>i DEF ClaimsAreActive
      <4>2. ClaimsAreAlone'
        BY <2>1, <3>2, <1>i DEF ClaimsAreAlone, ClaimsAreApart
      <4>3. ClaimsAreApart'
        BY <2>1, <3>2, <1>i DEF ClaimsAreApart
      <4>. QED
        BY <4>1, <4>2, <4>3
    <3>. QED
      BY <2>1, <3>1, <3>2
  <2>. QED
    BY <2>1, <2>2, <1>i DEF QueuedUnderOwnSession, CloseInOrder
<1>. QED
  BY <1>2, <1>3, <1>4, <1>5, <1>6, <1>7, <1>8, <1>9, <1>10
  DEF Next, Callers, Closing, Worker

-----------------------------------------------------------------------------
(* The futures and the order of acceptance.  What is queued or handed to   *)
(* the executor still waits, what a worker holds is in the state its step  *)
(* says, a pending or running future is somewhere, and what was handed to  *)
(* the executor is older than everything its session still has queued.     *)

Waiting(t) == future[t] \in {"pending", "cancelled"}

\* The executor has the task: as a work item, in a worker, or dropped.
InHand(t) ==
  \/ t \in Elements(workQueue)
  \/ \E w \in Workers : Busy(w) /\ job[w] = t
  \/ t \in dropped

FuturesMatchPlaces ==
  /\ \A s \in Sessions : \A t \in Elements(queues[s]) : Waiting(t)
  /\ \A t \in Elements(workQueue) : Waiting(t)
  /\ \A t \in dropped : Waiting(t)
  /\ \A w \in Workers :
       /\ step[w] = "picked" => Waiting(job[w])
       /\ step[w] = "running" => future[job[w]] = "running"
       /\ step[w] = "ran" => Resolved(job[w])

UnresolvedIsPlaced ==
  \A t \in Tasks :
    /\ Pending(t) => t \in Elements(queues[SessionOf[t]]) \/ InHand(t)
    /\ future[t] = "running" => \E w \in Workers : step[w] = "running" /\ job[w] = t

TicketsCount ==
  \A t \in Tasks : ticket[t] <= accepted /\ (future[t] = "none" <=> ticket[t] = 0)

Ordered(q, tk) == \A i, j \in DOMAIN q : i < j => tk[q[i]] < tk[q[j]]

OlderFirst ==
  /\ \A s \in Sessions : Ordered(queues[s], ticket)
  /\ \A t \in Tasks : InHand(t) =>
       \A u \in Elements(queues[SessionOf[t]]) : ticket[t] < ticket[u]

OrderInv ==
  /\ ClaimInv
  /\ FuturesMatchPlaces
  /\ UnresolvedIsPlaced
  /\ TicketsCount
  /\ OlderFirst
  /\ SubmissionOrder

LEMMA ElementsAppend ==
  ASSUME NEW S, NEW q \in Seq(S), NEW e \in S
  PROVE  Elements(Append(q, e)) = Elements(q) \cup {e}
<1>1. /\ DOMAIN q = 1..Len(q) /\ Len(q) \in Nat
      /\ DOMAIN Append(q, e) = 1..(Len(q) + 1)
      /\ Append(q, e)[Len(q) + 1] = e
      /\ \A i \in 1..Len(q) : Append(q, e)[i] = q[i]
  OBVIOUS
<1>2. \A i \in 1..(Len(q) + 1) : i \in 1..Len(q) \/ i = Len(q) + 1
  BY <1>1
<1>3. 1..Len(q) \subseteq 1..(Len(q) + 1) /\ Len(q) + 1 \in 1..(Len(q) + 1)
  BY <1>1
<1>. QED
  BY <1>1, <1>2, <1>3 DEF Elements

LEMMA ElementsTail ==
  ASSUME NEW S, NEW q \in Seq(S), q # <<>>
  PROVE  Elements(q) = {Head(q)} \cup Elements(Tail(q))
<1>1. /\ DOMAIN q = 1..Len(q) /\ Len(q) \in Nat /\ Len(q) > 0
      /\ DOMAIN Tail(q) = 1..(Len(q) - 1)
      /\ Head(q) = q[1]
      /\ \A i \in 1..(Len(q) - 1) : Tail(q)[i] = q[i + 1]
  OBVIOUS
<1>2. \A i \in 1..Len(q) : i = 1 \/ (i - 1 \in 1..(Len(q) - 1) /\ (i - 1) + 1 = i)
  BY <1>1
<1>3. \A i \in 1..(Len(q) - 1) : i + 1 \in 1..Len(q)
  BY <1>1
<1>4. 1 \in 1..Len(q)
  BY <1>1
<1>5. Elements(q) \subseteq {Head(q)} \cup Elements(Tail(q))
  <2>1. SUFFICES ASSUME NEW i \in 1..Len(q)
                 PROVE  q[i] \in {Head(q)} \cup Elements(Tail(q))
    BY <1>1 DEF Elements
  <2>2. CASE i = 1
    BY <1>1, <2>2
  <2>3. CASE i # 1
    <3>1. i - 1 \in 1..(Len(q) - 1) /\ q[i] = Tail(q)[i - 1]
      BY <1>1, <1>2, <2>3
    <3>. QED
      BY <1>1, <3>1 DEF Elements
  <2>. QED
    BY <2>2, <2>3
<1>6. {Head(q)} \cup Elements(Tail(q)) \subseteq Elements(q)
  BY <1>1, <1>3, <1>4 DEF Elements
<1>. QED
  BY <1>5, <1>6

LEMMA OrderedAppend ==
  ASSUME NEW q \in Seq(Tasks), NEW e \in Tasks, NEW tk, Ordered(q, tk),
         \A u \in Elements(q) : tk[u] < tk[e]
  PROVE  Ordered(Append(q, e), tk)
<1>1. /\ DOMAIN q = 1..Len(q) /\ Len(q) \in Nat
      /\ DOMAIN Append(q, e) = 1..(Len(q) + 1)
      /\ Append(q, e)[Len(q) + 1] = e
      /\ \A i \in 1..Len(q) : Append(q, e)[i] = q[i]
  OBVIOUS
<1>2. SUFFICES ASSUME NEW i \in 1..(Len(q) + 1), NEW j \in 1..(Len(q) + 1), i < j
               PROVE  tk[Append(q, e)[i]] < tk[Append(q, e)[j]]
  BY <1>1 DEF Ordered
<1>3. i \in 1..Len(q) /\ (j \in 1..Len(q) \/ j = Len(q) + 1)
  BY <1>1, <1>2
<1>. QED
  BY <1>1, <1>2, <1>3 DEF Ordered, Elements

LEMMA OrderedTail ==
  ASSUME NEW q \in Seq(Tasks), q # <<>>, NEW tk, Ordered(q, tk)
  PROVE  /\ Ordered(Tail(q), tk)
         /\ \A u \in Elements(Tail(q)) : tk[Head(q)] < tk[u]
<1>1. /\ DOMAIN q = 1..Len(q) /\ Len(q) \in Nat /\ Len(q) > 0
      /\ DOMAIN Tail(q) = 1..(Len(q) - 1)
      /\ Head(q) = q[1]
      /\ \A i \in 1..(Len(q) - 1) : Tail(q)[i] = q[i + 1]
  OBVIOUS
<1>2. \A i \in 1..(Len(q) - 1) : i + 1 \in 1..Len(q) /\ 1 < i + 1 /\ 1 \in 1..Len(q)
  BY <1>1
<1>3. \A i, j \in 1..(Len(q) - 1) : i < j => i + 1 < j + 1
  OBVIOUS
<1>. QED
  BY <1>1, <1>2, <1>3 DEF Ordered, Elements

\* The executor has at most one task of each session.
LEMMA OneInHand ==
  ASSUME ClaimInv, NEW t \in Tasks, NEW u \in Tasks, InHand(t), InHand(u),
         SessionOf[t] = SessionOf[u]
  PROVE  t = u /\ SessionOf[t] \in active
BY DEF ClaimInv, ClaimsAreActive, ClaimsAreAlone, ClaimsAreApart, InHand, Elements,
   ItemOf, WorkOf

LEMMA InitOrder == Init => OrderInv
<1>1. Init => /\ \A s \in Sessions : Elements(queues[s]) = {}
              /\ \A s \in Sessions : Ordered(queues[s], ticket)
              /\ Elements(workQueue) = {}
              /\ \A w \in Workers : step[w] = "idle"
              /\ dropped = {} /\ accepted = 0
              /\ \A t \in Tasks : future[t] = "none" /\ ticket[t] = 0
  BY DEF Init, Elements, Ordered
<1>2. Init => \A t \in Tasks : SessionOf[t] \in Sessions
  BY SchedulerAssumption DEF SchedulerAssumption
<1>. QED
  BY <1>1, <1>2, InitClaim
  DEF OrderInv, FuturesMatchPlaces, UnresolvedIsPlaced, TicketsCount, OlderFirst,
      SubmissionOrder, Waiting, InHand, Pending, Busy

\* A worker that begins a pending task begins the oldest unresolved task of a
\* session in which nothing runs.
LEMMA BeginIsFair ==
  ASSUME OrderInv, NEW w \in Workers, step[w] = "picked", Pending(job[w]),
         NEW u \in Tasks, SessionOf[u] = SessionOf[job[w]]
  PROVE  /\ future[u] # "running"
         /\ Pending(u) => ticket[job[w]] <= ticket[u]
<1>. DEFINE t == job[w]
<1>1. t \in Tasks /\ Busy(w) /\ InHand(t)
  BY DEF OrderInv, ClaimInv, TypeInv, BusyHasTask, Busy, InHand
<1>2. ticket \in [Tasks -> Nat]
  BY DEF OrderInv, ClaimInv, TypeInv, TypeOK
<1>3. future[u] # "running"
  <2>1. SUFFICES ASSUME NEW v \in Workers, step[v] = "running", job[v] = u
                 PROVE  FALSE
    BY DEF OrderInv, UnresolvedIsPlaced
  <2>2. v = w
    BY <1>1, <2>1 DEF OrderInv, ClaimInv, ClaimsAreAlone, WorkOf, Busy
  <2>. QED
    BY <2>1, <2>2
<1>4. ASSUME Pending(u)
      PROVE  ticket[t] <= ticket[u]
  <2>1. CASE u \in Elements(queues[SessionOf[u]])
    BY <1>1, <1>2, <2>1 DEF OrderInv, OlderFirst
  <2>2. CASE InHand(u)
    <3>1. u = t
      BY <1>1, <2>2, OneInHand DEF OrderInv
    <3>. QED
      BY <1>2, <3>1
  <2>. QED
    BY <1>4, <2>1, <2>2 DEF OrderInv, UnresolvedIsPlaced
<1>. QED
  BY <1>3, <1>4

(* What handing the head of a queue over does to queues and places.        *)
LEMMA HandOrder ==
  ASSUME OrderInv, NEW s \in Sessions, HandToExecutor(s)
  PROVE  /\ Head(queues[s]) \in Tasks /\ SessionOf[Head(queues[s])] = s
         /\ Waiting(Head(queues[s]))
         /\ Elements(queues[s]) = {Head(queues[s])} \cup Elements(queues'[s])
         /\ Ordered(queues'[s], ticket)
         /\ \A u \in Elements(queues'[s]) : ticket[Head(queues[s])] < ticket[u]
         /\ \A r \in Sessions : r # s => queues'[r] = queues[r]
         /\ Elements(workQueue') = Elements(workQueue) \cup {Head(queues[s])}
         /\ dropped' = dropped
<1>1. ClaimInv /\ queues \in [Sessions -> Seq(Tasks)] /\ workQueue \in Seq(Tasks)
      /\ queues[s] # <<>>
  BY DEF OrderInv, ClaimInv, TypeInv, TypeOK, HandToExecutor
<1>2. /\ Head(queues[s]) \in Tasks /\ SessionOf[Head(queues[s])] = s
      /\ workQueue' = Append(workQueue, Head(queues[s]))
      /\ dropped' = dropped
      /\ queues' = [queues EXCEPT ![s] = Tail(queues[s])]
  BY <1>1, HandFacts
<1>3. queues'[s] = Tail(queues[s]) /\ \A r \in Sessions : r # s => queues'[r] = queues[r]
  BY <1>1, <1>2
<1>4. Elements(queues[s]) = {Head(queues[s])} \cup Elements(Tail(queues[s]))
  BY <1>1, ElementsTail
<1>5. Waiting(Head(queues[s]))
  BY <1>4 DEF OrderInv, FuturesMatchPlaces
<1>6. /\ Ordered(Tail(queues[s]), ticket)
      /\ \A u \in Elements(Tail(queues[s])) : ticket[Head(queues[s])] < ticket[u]
  BY <1>1, OrderedTail DEF OrderInv, OlderFirst
<1>7. Elements(workQueue') = Elements(workQueue) \cup {Head(queues[s])}
  BY <1>1, <1>2, ElementsAppend
<1>. QED
  BY <1>2, <1>3, <1>4, <1>5, <1>6, <1>7

LEMMA NextOrder ==
  ASSUME OrderInv, [Next]_vars
  PROVE  OrderInv'
<1>1. ClaimInv /\ ClaimInv'
  BY NextClaim DEF OrderInv
<1>. DEFINE Goal == /\ FuturesMatchPlaces' /\ UnresolvedIsPlaced' /\ TicketsCount'
                    /\ OlderFirst' /\ SubmissionOrder'
<1>. SUFFICES Goal
  BY <1>1 DEF OrderInv
<1>. USE DEF bookkeeping, history, executor
<1>t. /\ SessionOf \in [Tasks -> Sessions]
      /\ dispatchers \in SUBSET Tasks /\ dropped \in SUBSET Tasks
      /\ queues \in [Sessions -> Seq(Tasks)]
      /\ job \in [Workers -> Tasks \cup {NoTask}]
      /\ step \in [Workers -> {"idle", "picked", "running", "ran"}]
      /\ workQueue \in Seq(Tasks)
      /\ future \in [Tasks -> {"none", "pending", "running", "finished", "failed",
                               "cancelled"}]
      /\ accepted \in Nat /\ ticket \in [Tasks -> Nat]
      /\ \A w \in Workers : Busy(w) => job[w] \in Tasks
  BY <1>1, SchedulerAssumption
  DEF SchedulerAssumption, ClaimInv, TypeInv, TypeOK, BusyHasTask
<1>e. /\ \A s \in Sessions : Elements(queues[s]) \subseteq Tasks
      /\ \A s \in Sessions : \A t \in Elements(queues[s]) : SessionOf[t] = s
      /\ Elements(workQueue) \subseteq Tasks
  BY <1>t, <1>1 DEF ClaimInv, QueuedUnderOwnSession, Elements
<1>i. FuturesMatchPlaces /\ UnresolvedIsPlaced /\ TicketsCount /\ OlderFirst
      /\ SubmissionOrder
  BY DEF OrderInv
<1>2. ASSUME NEW t \in Tasks, NEW r \in BOOLEAN, Submit(t, r)
      PROVE  Goal
  <2>. DEFINE s == SessionOf[t]
              q == IF r THEN <<>> ELSE queues[s]
              stale == IF r THEN Elements(queues[s]) ELSE {}
  <2>1. /\ s \in Sessions /\ future[t] = "none" /\ ticket[t] = 0
        /\ queues'[s] = Append(q, t)
        /\ \A x \in Sessions : x # s => queues'[x] = queues[x]
        /\ workQueue' = workQueue /\ dropped' = dropped
        /\ job' = job /\ step' = step
        /\ future'[t] = "pending"
        /\ \A u \in Tasks : u # t => future'[u] =
             IF u \in stale /\ Pending(u) THEN "cancelled" ELSE future[u]
        /\ accepted' = accepted + 1
        /\ ticket'[t] = accepted + 1
        /\ \A u \in Tasks : u # t => ticket'[u] = ticket[u]
    BY <1>2, <1>t, <1>i DEF Submit, Appended, Cancelled, TicketsCount
  <2>2. q \in Seq(Tasks)
    BY <1>t, <2>1
  <2>3. /\ Elements(queues'[s]) = Elements(q) \cup {t}
        /\ Elements(q) \subseteq Elements(queues[s])
        /\ Elements(q) \cap stale = {}
        /\ Elements(queues[s]) = Elements(q) \cup stale
    BY <2>1, <2>2, ElementsAppend DEF Elements
  <2>4. ASSUME NEW u \in Tasks, InHand(u)
        PROVE  u # t /\ u \notin stale
    <3>1. future[u] # "none"
      BY <2>4, <1>t, <1>i DEF FuturesMatchPlaces, InHand, Waiting, Resolved, Busy
    <3>2. \A v \in Elements(queues[SessionOf[u]]) : ticket[u] < ticket[v]
      BY <2>4, <1>i DEF OlderFirst
    <3>3. ~(ticket[u] < ticket[u])
      BY <1>t
    <3>4. u \notin Elements(queues[s])
      BY <2>1, <3>2, <3>3, <1>e
    <3>. QED
      BY <2>1, <3>1, <3>4
  <2>5. \A u \in Tasks : InHand(u)' <=> InHand(u)
    BY <2>1 DEF InHand, Busy
  <2>. HIDE DEF s, q, stale
  <2>6. FuturesMatchPlaces'
    <3>1. \A x \in Sessions : \A u \in Elements(queues'[x]) : Waiting(u)'
      BY <2>1, <2>3, <1>i, <1>e DEF FuturesMatchPlaces, Waiting
    <3>2. \A u \in Tasks : InHand(u) => future'[u] = future[u]
      BY <2>1, <2>4
    <3>. QED
      BY <2>1, <3>1, <3>2, <1>i, <1>e, <1>t
      DEF FuturesMatchPlaces, Waiting, InHand, Busy, Resolved
  <2>7. UnresolvedIsPlaced'
    <3>1. ASSUME NEW u \in Tasks, Pending(u)'
          PROVE  u \in Elements(queues'[SessionOf[u]]) \/ InHand(u)'
      <4>1. CASE u = t
        BY <4>1, <2>3 DEF s
      <4>2. CASE u # t
        <5>1. Pending(u) /\ u \notin stale
          BY <3>1, <4>2, <2>1 DEF Pending
        <5>2. u \in Elements(queues[SessionOf[u]]) \/ InHand(u)
          BY <5>1, <1>i DEF UnresolvedIsPlaced
        <5>3. SessionOf[u] \in Sessions
          BY <1>t
        <5>. QED
          BY <5>1, <5>2, <5>3, <2>1, <2>3, <2>5
      <4>. QED
        BY <4>1, <4>2
    <3>2. ASSUME NEW u \in Tasks, future'[u] = "running"
          PROVE  \E w \in Workers : step'[w] = "running" /\ job'[w] = u
      BY <3>2, <2>1, <1>i DEF UnresolvedIsPlaced
    <3>. QED
      BY <3>1, <3>2 DEF UnresolvedIsPlaced
  <2>8. TicketsCount'
    <3>1. ticket'[t] <= accepted' /\ future'[t] # "none" /\ ticket'[t] # 0
      BY <2>1, <1>t
    <3>2. ASSUME NEW u \in Tasks, u # t
          PROVE  ticket'[u] <= accepted' /\ (future'[u] = "none" <=> ticket'[u] = 0)
      <4>1. ticket'[u] = ticket[u] /\ ticket[u] <= accepted'
        BY <2>1, <3>2, <1>t, <1>i DEF TicketsCount
      <4>2. future'[u] = "none" <=> future[u] = "none"
        BY <2>1, <3>2 DEF Pending
      <4>. QED
        BY <4>1, <4>2, <1>i DEF TicketsCount
    <3>. QED
      BY <3>1, <3>2 DEF TicketsCount
  <2>9. OlderFirst'
    <3>1. \A u \in Tasks : u # t => ticket'[u] = ticket[u] /\ ticket'[u] < ticket'[t]
      BY <2>1, <1>t, <1>i DEF TicketsCount
    <3>2. \A x \in Sessions : \A u \in Elements(queues[x]) : u # t /\ u \in Tasks
      BY <2>1, <1>i, <1>e DEF FuturesMatchPlaces, Waiting
    <3>3. ASSUME NEW x \in Sessions
          PROVE  Ordered(queues[x], ticket')
      <4>1. \A i \in DOMAIN queues[x] : ticket'[queues[x][i]] = ticket[queues[x][i]]
        BY <3>1, <3>2 DEF Elements
      <4>. QED
        BY <4>1, <1>i DEF OlderFirst, Ordered
    <3>4. Ordered(q, ticket')
      BY <2>1, <3>3 DEF Ordered, q
    <3>5. Ordered(queues'[s], ticket')
      BY <2>1, <2>2, <2>3, <3>1, <3>2, <3>4, OrderedAppend
    <3>6. ASSUME NEW u \in Tasks, InHand(u)',
                 NEW v \in Elements(queues'[SessionOf[u]])
          PROVE  ticket'[u] < ticket'[v]
      <4>1. u # t /\ InHand(u) /\ SessionOf[u] \in Sessions
        BY <3>6, <2>4, <2>5, <1>t
      <4>2. v = t \/ v \in Elements(queues[SessionOf[u]])
        BY <3>6, <4>1, <2>1, <2>3
      <4>. QED
        BY <3>1, <3>2, <4>1, <4>2, <1>i DEF OlderFirst
    <3>. QED
      BY <2>1, <3>3, <3>5, <3>6 DEF OlderFirst
  <2>10. SubmissionOrder'
    <3>1. SUFFICES ASSUME NEW u \in Tasks, NEW v \in Tasks,
                          SessionOf[u] = SessionOf[v],
                          0 < ticket'[u], ticket'[u] < ticket'[v],
                          future'[v] \in {"running", "finished", "failed"}
                   PROVE  Resolved(u)'
      BY DEF SubmissionOrder
    <3>2. v # t /\ future[v] = future'[v] /\ ticket'[v] = ticket[v]
      BY <2>1, <3>1
    <3>3. u # t
      BY <2>1, <3>1, <3>2, <1>t, <1>i DEF TicketsCount
    <3>4. Resolved(u)
      BY <2>1, <3>1, <3>2, <3>3, <1>i DEF SubmissionOrder
    <3>. QED
      BY <2>1, <3>3, <3>4 DEF Resolved, Pending
  <2>. QED
    BY <2>6, <2>7, <2>8, <2>9, <2>10
<1>3. ASSUME NEW t \in Tasks, Dispatch(t)
      PROVE  Goal
  <2>. DEFINE s == SessionOf[t]
  <2>1. /\ s \in Sessions /\ job' = job /\ step' = step /\ future' = future
        /\ accepted' = accepted /\ ticket' = ticket
    BY <1>3, <1>t DEF Dispatch
  <2>2. TicketsCount' /\ SubmissionOrder'
    BY <2>1, <1>i DEF TicketsCount, SubmissionOrder, Resolved
  <2>3. CASE HandToExecutor(s)
    <3>. DEFINE h == Head(queues[s])
    <3>1. /\ h \in Tasks /\ SessionOf[h] = s /\ Waiting(h)
          /\ Elements(queues[s]) = {h} \cup Elements(queues'[s])
          /\ Ordered(queues'[s], ticket)
          /\ \A u \in Elements(queues'[s]) : ticket[h] < ticket[u]
          /\ \A r \in Sessions : r # s => queues'[r] = queues[r]
          /\ Elements(workQueue') = Elements(workQueue) \cup {h}
          /\ dropped' = dropped
      BY <2>1, <2>3, HandOrder
    <3>. HIDE DEF h, s
    <3>2. \A u \in Tasks : InHand(u)' <=> (InHand(u) \/ u = h)
      BY <2>1, <3>1 DEF InHand, Busy
    <3>3. FuturesMatchPlaces'
      BY <2>1, <3>1, <1>i DEF FuturesMatchPlaces, Waiting, Resolved
    <3>4. UnresolvedIsPlaced'
      BY <2>1, <3>1, <3>2, <1>i, <1>t DEF UnresolvedIsPlaced, Pending
    <3>5. OlderFirst'
      BY <2>1, <3>1, <3>2, <1>i, <1>t DEF OlderFirst
    <3>. QED
      BY <2>2, <3>3, <3>4, <3>5
  <2>4. CASE GiveBack(s)
    <3>1. queues' = queues /\ workQueue' = workQueue /\ dropped' = dropped
      BY <2>4 DEF GiveBack
    <3>. QED
      BY <2>1, <2>2, <3>1, <1>i
      DEF FuturesMatchPlaces, UnresolvedIsPlaced, OlderFirst, InHand, Waiting,
          Pending, Resolved, Busy
  <2>. QED
    BY <1>3, <2>3, <2>4 DEF Dispatch
<1>4. ASSUME NEW w \in Workers, Pick(w)
      PROVE  Goal
  <2>. DEFINE h == Head(workQueue)
  <2>1. /\ step[w] = "idle" /\ job'[w] = h /\ step'[w] = "picked"
        /\ \A v \in Workers : v # w => step'[v] = step[v] /\ job'[v] = job[v]
        /\ queues' = queues /\ dropped' = dropped /\ future' = future
        /\ accepted' = accepted /\ ticket' = ticket
    BY <1>4, <1>t DEF Pick, Busy
  <2>2. Elements(workQueue) = {h} \cup Elements(workQueue')
    BY <1>4, <1>t, ElementsTail DEF Pick
  <2>. HIDE DEF h
  <2>3. \A u \in Tasks : InHand(u)' <=> InHand(u)
    BY <2>1, <2>2 DEF InHand, Busy
  <2>4. FuturesMatchPlaces'
    BY <2>1, <2>2, <1>i DEF FuturesMatchPlaces, Waiting, Resolved
  <2>5. UnresolvedIsPlaced'
    BY <2>1, <2>3, <1>i DEF UnresolvedIsPlaced, Pending
  <2>. QED
    BY <2>1, <2>3, <2>4, <2>5, <1>i
    DEF TicketsCount, OlderFirst, SubmissionOrder, Resolved
<1>5. ASSUME NEW w \in Workers, Begin(w)
      PROVE  Goal
  <2>. DEFINE t == job[w]
  <2>1. /\ step[w] = "picked" /\ t \in Tasks /\ InHand(t) /\ Waiting(t)
        /\ job' = job
        /\ \A v \in Workers : v # w => step'[v] = step[v]
        /\ queues' = queues /\ dropped' = dropped /\ workQueue' = workQueue
        /\ accepted' = accepted /\ ticket' = ticket
    BY <1>5, <1>t, <1>i DEF Begin, Busy, InHand, FuturesMatchPlaces
  <2>2. CASE ~Pending(t)
    <3>1. future' = future /\ step'[w] = "ran" /\ Resolved(t)
      BY <1>5, <2>1, <2>2, <1>t DEF Begin, Waiting, Pending, Resolved
    <3>2. \A u \in Tasks : InHand(u)' <=> InHand(u)
      BY <2>1, <3>1 DEF InHand, Busy
    <3>3. FuturesMatchPlaces'
      BY <2>1, <3>1, <1>i DEF FuturesMatchPlaces, Waiting, Resolved
    <3>4. UnresolvedIsPlaced'
      BY <2>1, <3>1, <3>2, <1>i DEF UnresolvedIsPlaced, Pending
    <3>. QED
      BY <2>1, <3>1, <3>2, <3>3, <3>4, <1>i
      DEF TicketsCount, OlderFirst, SubmissionOrder, Resolved
  <2>3. CASE Pending(t)
    <3>1. /\ future'[t] = "running" /\ step'[w] = "running"
          /\ \A u \in Tasks : u # t => future'[u] = future[u]
      BY <1>5, <2>1, <2>3, <1>t DEF Begin
    <3>2. \A u \in Tasks : InHand(u)' <=> InHand(u)
      BY <2>1, <3>1 DEF InHand, Busy
    <3>3. ASSUME NEW u \in Elements(queues[SessionOf[t]])
          PROVE  u # t
      <4>1. ticket[t] < ticket[u] /\ ~(ticket[t] < ticket[t])
        BY <2>1, <1>t, <1>i DEF OlderFirst
      <4>. QED
        BY <4>1
    <3>4. t \notin Elements(workQueue) /\ t \notin dropped
      BY <2>1, <1>1, <1>t
      DEF ClaimInv, ClaimsAreApart, Elements, ItemOf, WorkOf, Busy
    <3>5. \A v \in Workers : Busy(v) /\ v # w => job[v] # t
      BY <2>1, <1>1 DEF ClaimInv, ClaimsAreAlone, WorkOf, Busy
    <3>6. FuturesMatchPlaces'
      <4>1. \A x \in Sessions : \A u \in Elements(queues'[x]) : Waiting(u)'
        BY <2>1, <3>1, <3>3, <1>i, <1>e DEF FuturesMatchPlaces, Waiting
      <4>2. \A u \in Elements(workQueue') \cup dropped' : Waiting(u)'
        BY <2>1, <3>1, <3>4, <1>i, <1>e, <1>t DEF FuturesMatchPlaces, Waiting
      <4>3. ASSUME NEW v \in Workers
            PROVE  /\ step'[v] = "picked" => Waiting(job[v])'
                   /\ step'[v] = "running" => future'[job'[v]] = "running"
                   /\ step'[v] = "ran" => Resolved(job[v])'
        <5>1. CASE v = w
          BY <2>1, <3>1, <5>1
        <5>2. CASE v # w
          <6>1. Busy(v) => job[v] # t /\ job[v] \in Tasks
            BY <3>5, <5>2, <1>t
          <6>. QED
            BY <2>1, <3>1, <5>2, <6>1, <1>i
            DEF FuturesMatchPlaces, Waiting, Resolved, Busy
        <5>. QED
          BY <5>1, <5>2
      <4>. QED
        BY <2>1, <4>1, <4>2, <4>3 DEF FuturesMatchPlaces
    <3>7. UnresolvedIsPlaced'
      BY <2>1, <3>1, <3>2, <1>i DEF UnresolvedIsPlaced, Pending
    <3>8. TicketsCount'
      BY <2>1, <2>3, <3>1, <1>i DEF TicketsCount, Pending
    <3>9. SubmissionOrder'
      <4>1. SUFFICES ASSUME NEW u \in Tasks, NEW v \in Tasks,
                            SessionOf[u] = SessionOf[v],
                            0 < ticket[u], ticket[u] < ticket[v],
                            future'[v] \in {"running", "finished", "failed"}
                     PROVE  Resolved(u)'
        BY <2>1 DEF SubmissionOrder
      <4>2. CASE v # t
        BY <2>1, <2>3, <3>1, <4>1, <4>2, <1>i DEF SubmissionOrder, Resolved, Pending
      <4>3. CASE v = t
        <5>1. future[u] # "running" /\ ~Pending(u)
          BY <2>1, <2>3, <4>1, <4>3, <1>t, BeginIsFair
        <5>2. future[u] # "none"
          BY <4>1, <1>i, <1>t DEF TicketsCount
        <5>3. u # t
          BY <4>1, <4>3, <1>t
        <5>. QED
          BY <3>1, <5>1, <5>2, <5>3, <1>t DEF Resolved, Pending
      <4>. QED
        BY <4>2, <4>3
    <3>. QED
      BY <2>1, <3>2, <3>6, <3>7, <3>8, <3>9, <1>i DEF OlderFirst
  <2>. QED
    BY <2>2, <2>3
<1>6. ASSUME NEW w \in Workers, Return(w)
      PROVE  Goal
  <2>. DEFINE t == job[w]
  <2>1. /\ step[w] = "running" /\ t \in Tasks /\ future[t] = "running"
        /\ step'[w] = "ran" /\ job' = job
        /\ \A v \in Workers : v # w => step'[v] = step[v]
        /\ future'[t] \in {"finished", "failed"}
        /\ \A u \in Tasks : u # t => future'[u] = future[u]
        /\ queues' = queues /\ dropped' = dropped /\ workQueue' = workQueue
        /\ accepted' = accepted /\ ticket' = ticket
    BY <1>6, <1>t, <1>i DEF Return, Busy, FuturesMatchPlaces
  <2>2. \A u \in Tasks : InHand(u)' <=> InHand(u)
    BY <2>1 DEF InHand, Busy
  <2>3. \A v \in Workers : Busy(v) /\ v # w => job[v] # t
    BY <2>1, <1>1 DEF ClaimInv, ClaimsAreAlone, WorkOf, Busy
  <2>4. FuturesMatchPlaces'
    <3>1. \A u \in Tasks : Waiting(u) => Waiting(u)'
      BY <2>1 DEF Waiting
    <3>2. ASSUME NEW v \in Workers
          PROVE  /\ step'[v] = "picked" => Waiting(job[v])'
                 /\ step'[v] = "running" => future'[job'[v]] = "running"
                 /\ step'[v] = "ran" => Resolved(job[v])'
      <4>1. CASE v = w
        BY <2>1, <4>1 DEF Resolved
      <4>2. CASE v # w
        <5>1. Busy(v) => job[v] # t /\ job[v] \in Tasks
          BY <2>3, <4>2, <1>t
        <5>. QED
          BY <2>1, <4>2, <5>1, <1>i DEF FuturesMatchPlaces, Waiting, Resolved, Busy
      <4>. QED
        BY <4>1, <4>2
    <3>. QED
      BY <2>1, <3>1, <3>2, <1>i, <1>e, <1>t DEF FuturesMatchPlaces
  <2>5. UnresolvedIsPlaced'
    BY <2>1, <2>2, <1>i DEF UnresolvedIsPlaced, Pending
  <2>6. TicketsCount'
    BY <2>1, <1>i DEF TicketsCount
  <2>7. SubmissionOrder'
    BY <2>1, <1>i DEF SubmissionOrder, Resolved
  <2>. QED
    BY <2>1, <2>2, <2>4, <2>5, <2>6, <2>7, <1>i DEF OlderFirst
<1>7. ASSUME NEW w \in Workers, Leave(w)
      PROVE  Goal
  <2>. DEFINE s == SessionOf[job[w]]
  <2>1. /\ s \in Sessions /\ step[w] = "ran" /\ step'[w] = "idle"
        /\ Resolved(job[w])
        /\ \A v \in Workers : v # w => step'[v] = step[v] /\ job'[v] = job[v]
        /\ future' = future /\ accepted' = accepted /\ ticket' = ticket
    BY <1>7, <1>t, <1>i DEF Leave, Busy, FuturesMatchPlaces
  <2>2. TicketsCount' /\ SubmissionOrder'
    BY <2>1, <1>i DEF TicketsCount, SubmissionOrder, Resolved
  <2>3. CASE HandToExecutor(s)
    <3>. DEFINE h == Head(queues[s])
    <3>1. /\ h \in Tasks /\ SessionOf[h] = s /\ Waiting(h)
          /\ Elements(queues[s]) = {h} \cup Elements(queues'[s])
          /\ Ordered(queues'[s], ticket)
          /\ \A u \in Elements(queues'[s]) : ticket[h] < ticket[u]
          /\ \A r \in Sessions : r # s => queues'[r] = queues[r]
          /\ Elements(workQueue') = Elements(workQueue) \cup {h}
          /\ dropped' = dropped
      BY <2>1, <2>3, HandOrder
    <3>. HIDE DEF h, s
    <3>2. \A u \in Tasks : InHand(u)' => (InHand(u) \/ u = h)
      BY <2>1, <3>1 DEF InHand, Busy
    <3>3. \A u \in Tasks : u = h \/ (Pending(u) /\ InHand(u)) => InHand(u)'
      BY <2>1, <3>1 DEF InHand, Busy, Pending, Resolved
    <3>4. FuturesMatchPlaces'
      BY <2>1, <3>1, <1>i DEF FuturesMatchPlaces, Waiting, Resolved
    <3>5. UnresolvedIsPlaced'
      <4>1. \A u \in Tasks : Pending(u) =>
              u \in Elements(queues'[SessionOf[u]]) \/ InHand(u)'
        BY <3>1, <3>3, <1>i, <1>t DEF UnresolvedIsPlaced
      <4>2. \A u \in Tasks : future[u] = "running" =>
              \E v \in Workers : step'[v] = "running" /\ job'[v] = u
        BY <2>1, <1>i DEF UnresolvedIsPlaced
      <4>. QED
        BY <2>1, <4>1, <4>2 DEF UnresolvedIsPlaced, Pending
    <3>6. OlderFirst'
      BY <2>1, <3>1, <3>2, <1>i, <1>t DEF OlderFirst
    <3>. QED
      BY <2>2, <3>4, <3>5, <3>6
  <2>4. CASE Release(s)
    <3>1. queues' = queues /\ workQueue' = workQueue /\ dropped' = dropped
      BY <2>4 DEF Release
    <3>2. \A u \in Tasks : InHand(u)' => InHand(u)
      BY <2>1, <3>1 DEF InHand, Busy
    <3>3. \A u \in Tasks : Pending(u) /\ InHand(u) => InHand(u)'
      BY <2>1, <3>1 DEF InHand, Busy, Pending, Resolved
    <3>4. FuturesMatchPlaces'
      BY <2>1, <3>1, <1>i DEF FuturesMatchPlaces, Waiting, Resolved
    <3>5. UnresolvedIsPlaced'
      BY <2>1, <3>1, <3>3, <1>i DEF UnresolvedIsPlaced, Pending
    <3>6. OlderFirst'
      BY <2>1, <3>1, <3>2, <1>i DEF OlderFirst
    <3>. QED
      BY <2>2, <3>4, <3>5, <3>6
  <2>. QED
    BY <1>7, <2>3, <2>4 DEF Leave
<1>8. ASSUME NEW set \in SUBSET Tasks, future' = Cancelled(set),
             \A s \in Sessions :
               \/ queues'[s] = queues[s]
               \/ queues'[s] = <<>> /\ Elements(queues[s]) \subseteq set,
             UNCHANGED <<executor, job, step, history>>
      PROVE  Goal
  <2>1. /\ \A u \in Tasks : future'[u] = IF u \in set /\ Pending(u) THEN "cancelled"
                                        ELSE future[u]
        /\ workQueue' = workQueue /\ dropped' = dropped /\ job' = job /\ step' = step
        /\ accepted' = accepted /\ ticket' = ticket
    BY <1>8 DEF Cancelled
  <2>2. \A u \in Tasks : InHand(u)' <=> InHand(u)
    BY <2>1 DEF InHand, Busy
  <2>3. \A s \in Sessions :
          /\ Elements(queues'[s]) \subseteq Elements(queues[s])
          /\ \A u \in Elements(queues[s]) : u \in Elements(queues'[s]) \/ u \in set
          /\ Ordered(queues'[s], ticket)
    BY <1>8, <1>i DEF Elements, Ordered, OlderFirst
  <2>4. \A u \in Tasks :
          /\ Waiting(u) => Waiting(u)'
          /\ Resolved(u) => Resolved(u)'
          /\ future[u] = "running" <=> future'[u] = "running"
          /\ Pending(u)' => Pending(u) /\ u \notin set
          /\ future'[u] = "none" <=> future[u] = "none"
          /\ future'[u] \in {"running", "finished", "failed"} => future[u] = future'[u]
    BY <2>1 DEF Waiting, Resolved, Pending
  <2>5. FuturesMatchPlaces'
    <3>1. \A s \in Sessions : \A u \in Elements(queues'[s]) : Waiting(u)'
      BY <2>3, <2>4, <1>i, <1>e DEF FuturesMatchPlaces
    <3>2. \A u \in Elements(workQueue') \cup dropped' : Waiting(u)'
      BY <2>1, <2>4, <1>i, <1>e, <1>t DEF FuturesMatchPlaces
    <3>3. \A w \in Workers : Busy(w) => job[w] \in Tasks
      BY <1>t
    <3>4. \A w \in Workers :
            /\ step'[w] = "picked" => Waiting(job[w])'
            /\ step'[w] = "running" => future'[job'[w]] = "running"
            /\ step'[w] = "ran" => Resolved(job[w])'
      BY <2>1, <2>4, <3>3, <1>i DEF FuturesMatchPlaces, Waiting, Resolved, Busy
    <3>. QED
      BY <3>1, <3>2, <3>4 DEF FuturesMatchPlaces
  <2>6. UnresolvedIsPlaced'
    BY <2>1, <2>2, <2>3, <2>4, <1>i, <1>t DEF UnresolvedIsPlaced, Pending
  <2>7. TicketsCount'
    BY <2>1, <2>4, <1>i DEF TicketsCount
  <2>8. SubmissionOrder'
    BY <2>1, <2>4, <1>i DEF SubmissionOrder, Resolved
  <2>9. OlderFirst'
    <3>1. \A s \in Sessions : Ordered(queues'[s], ticket')
      BY <2>1, <2>3
    <3>2. ASSUME NEW t \in Tasks, InHand(t)', NEW u \in Elements(queues'[SessionOf[t]])
          PROVE  ticket'[t] < ticket'[u]
      BY <3>2, <2>1, <2>2, <2>3, <1>i, <1>t DEF OlderFirst
    <3>. QED
      BY <3>1, <3>2 DEF OlderFirst
  <2>. QED
    BY <2>5, <2>6, <2>7, <2>8, <2>9
<1>9. CASE \E t \in Tasks : CallerCancel(t)
  BY <1>8, <1>9 DEF CallerCancel
<1>10. CASE CancelPending
  <2>. DEFINE set == UNION {Elements(queues[s]) : s \in keyed}
  <2>1. set \in SUBSET Tasks
    BY <1>e, <1>1 DEF ClaimInv, TypeInv, TypeOK
  <2>2. \A s \in Sessions : s \notin keyed => queues[s] = <<>>
    BY <1>1 DEF ClaimInv, ClaimsAreActive
  <2>3. \A s \in Sessions : queues'[s] = <<>> /\ Elements(queues[s]) \subseteq set
    BY <1>10, <2>2 DEF CancelPending, Elements
  <2>. QED
    BY <1>8, <1>10, <2>1, <2>3 DEF CancelPending
<1>11. CASE (\E wait \in BOOLEAN : Close(wait)) \/ CheckIdle \/ TimeOut
            \/ UNCHANGED vars
  BY <1>11, <1>i
  DEF Close, CheckIdle, TimeOut, vars, FuturesMatchPlaces, UnresolvedIsPlaced,
      TicketsCount, OlderFirst, SubmissionOrder, InHand, Waiting, Pending,
      Resolved, Busy
<1>12. CASE Shutdown
  <2>1. /\ queues' = queues /\ job' = job /\ step' = step /\ future' = future
        /\ accepted' = accepted /\ ticket' = ticket
        /\ \A t \in Tasks : InHand(t)' <=> InHand(t)
        /\ Elements(workQueue') \cup dropped' = Elements(workQueue) \cup dropped
    BY <1>12 DEF Shutdown, InHand, Busy, Elements
  <2>2. FuturesMatchPlaces'
    BY <2>1, <1>i DEF FuturesMatchPlaces, Waiting, Resolved
  <2>. QED
    BY <2>1, <2>2, <1>i
    DEF UnresolvedIsPlaced, TicketsCount, OlderFirst, SubmissionOrder, Pending, Resolved
<1>. QED
  BY <1>2, <1>3, <1>4, <1>5, <1>6, <1>7, <1>9, <1>10, <1>11, <1>12
  DEF Next, Callers, Closing, Worker

-----------------------------------------------------------------------------
(* An active session is carried by a submit() about to dispatch, a work    *)
(* item, a worker or an item the executor dropped.                         *)

Carried(s) ==
  \/ \E t \in dispatchers : SessionOf[t] = s
  \/ \E i \in DOMAIN workQueue : ItemOf(i) = s
  \/ \E w \in Workers : Busy(w) /\ WorkOf(w) = s
  \/ \E t \in dropped : SessionOf[t] = s

ActiveIsCarried == \A s \in active : Carried(s)

LEMMA NextCarried ==
  ASSUME ClaimInv, ActiveIsCarried, [Next]_vars
  PROVE  ActiveIsCarried'
<1>. USE DEF bookkeeping, history, executor, Busy, ItemOf, WorkOf
<1>t. /\ SessionOf \in [Tasks -> Sessions]
      /\ dispatchers \in SUBSET Tasks /\ dropped \in SUBSET Tasks
      /\ queues \in [Sessions -> Seq(Tasks)] /\ active \in SUBSET Sessions
      /\ job \in [Workers -> Tasks \cup {NoTask}]
      /\ step \in [Workers -> {"idle", "picked", "running", "ran"}]
      /\ workQueue \in Seq(Tasks)
      /\ \A w \in Workers : Busy(w) => job[w] \in Tasks
  BY SchedulerAssumption
  DEF SchedulerAssumption, ClaimInv, TypeInv, TypeOK, BusyHasTask
<1>1. ASSUME NEW t \in Tasks, NEW r \in BOOLEAN, Submit(t, r)
      PROVE  ActiveIsCarried'
  BY <1>1, <1>t DEF Submit, Claim, ActiveIsCarried, Carried
<1>2. ASSUME NEW s \in Sessions, HandToExecutor(s)
      PROVE  /\ active' = active
             /\ \E i \in DOMAIN workQueue' : ItemOf(i)' = s
             /\ \A i \in DOMAIN workQueue :
                  i \in DOMAIN workQueue' /\ ItemOf(i)' = ItemOf(i)
             /\ dropped' = dropped
  <2>1. /\ workQueue' = Append(workQueue, Head(queues[s]))
        /\ SessionOf[Head(queues[s])] = s /\ Head(queues[s]) \in Tasks
        /\ active' = active /\ dropped' = dropped
    BY <1>2, HandFacts
  <2>2. /\ DOMAIN workQueue = 1..Len(workQueue) /\ Len(workQueue) \in Nat
        /\ DOMAIN workQueue' = 1..(Len(workQueue) + 1)
        /\ workQueue'[Len(workQueue) + 1] = Head(queues[s])
        /\ \A i \in 1..Len(workQueue) : workQueue'[i] = workQueue[i]
    BY <1>t, <2>1
  <2>. QED
    BY <2>1, <2>2
<1>3. ASSUME NEW t \in Tasks, Dispatch(t)
      PROVE  ActiveIsCarried'
  <2>1. SessionOf[t] \in Sessions /\ dispatchers' = dispatchers \ {t}
        /\ job' = job /\ step' = step
    BY <1>3, <1>t DEF Dispatch
  <2>2. CASE HandToExecutor(SessionOf[t])
    BY <2>1, <2>2, <1>2 DEF ActiveIsCarried, Carried
  <2>3. CASE GiveBack(SessionOf[t])
    BY <2>1, <2>3 DEF GiveBack, ActiveIsCarried, Carried
  <2>. QED
    BY <1>3, <2>2, <2>3 DEF Dispatch
<1>4. ASSUME NEW w \in Workers, Pick(w)
      PROVE  ActiveIsCarried'
  <2>1. /\ step[w] = "idle" /\ workQueue # <<>>
        /\ job' = [job EXCEPT ![w] = workQueue[1]]
        /\ step' = [step EXCEPT ![w] = "picked"]
        /\ active' = active /\ dispatchers' = dispatchers /\ dropped' = dropped
    BY <1>4, <1>t DEF Pick
  <2>2. /\ step'[w] = "picked" /\ job'[w] = workQueue[1]
        /\ \A v \in Workers : v # w => step'[v] = step[v] /\ job'[v] = job[v]
    BY <2>1, <1>t
  <2>3. \A i \in DOMAIN workQueue :
          i = 1 \/ (i - 1 \in DOMAIN workQueue' /\ workQueue'[i - 1] = workQueue[i])
    BY <1>4, <2>1, <1>t DEF Pick
  <2>4. \A i \in DOMAIN workQueue :
          \/ WorkOf(w)' = ItemOf(i)
          \/ \E j \in DOMAIN workQueue' : ItemOf(j)' = ItemOf(i)
    BY <2>2, <2>3
  <2>5. \A v \in Workers : Busy(v) => Busy(v)' /\ WorkOf(v)' = WorkOf(v)
    BY <2>1, <2>2
  <2>6. Busy(w)'
    BY <2>2
  <2>. HIDE DEF Busy, ItemOf, WorkOf
  <2>. QED
    BY <2>1, <2>4, <2>5, <2>6 DEF ActiveIsCarried, Carried
<1>5. ASSUME NEW w \in Workers, Begin(w) \/ Return(w)
      PROVE  ActiveIsCarried'
  <2>1. /\ active' = active /\ dispatchers' = dispatchers /\ dropped' = dropped
        /\ workQueue' = workQueue /\ job' = job
        /\ \A v \in Workers : Busy(v)' <=> Busy(v)
    BY <1>5, <1>t DEF Begin, Return
  <2>. HIDE DEF Busy
  <2>. QED
    BY <2>1 DEF ActiveIsCarried, Carried
<1>6. ASSUME NEW w \in Workers, Leave(w)
      PROVE  ActiveIsCarried'
  <2>1. /\ step[w] = "ran" /\ WorkOf(w) \in Sessions
        /\ dispatchers' = dispatchers
        /\ \A v \in Workers : v # w => step'[v] = step[v] /\ job'[v] = job[v]
    BY <1>6, <1>t DEF Leave
  <2>2. \A v \in Workers : v # w /\ Busy(v) => Busy(v)' /\ WorkOf(v)' = WorkOf(v)
    BY <2>1
  <2>3. CASE HandToExecutor(WorkOf(w))
    <3>1. /\ active' = active /\ dropped' = dropped
          /\ \E i \in DOMAIN workQueue' : ItemOf(i)' = WorkOf(w)
          /\ \A i \in DOMAIN workQueue :
               i \in DOMAIN workQueue' /\ ItemOf(i)' = ItemOf(i)
      BY <2>1, <2>3, <1>2
    <3>. HIDE DEF Busy, ItemOf, WorkOf
    <3>. QED
      BY <2>1, <2>2, <3>1 DEF ActiveIsCarried, Carried
  <2>4. CASE Release(WorkOf(w))
    <3>1. /\ active' = active \ {WorkOf(w)} /\ dropped' = dropped
          /\ workQueue' = workQueue
      BY <2>4 DEF Release
    <3>. QED
      BY <2>1, <2>2, <3>1 DEF ActiveIsCarried, Carried
  <2>. QED
    BY <1>6, <2>3, <2>4 DEF Leave
<1>7. CASE \/ \E t \in Tasks : CallerCancel(t)
           \/ \E wait \in BOOLEAN : Close(wait)
           \/ CheckIdle \/ TimeOut \/ CancelPending \/ UNCHANGED vars
  <2>1. /\ active' = active /\ dispatchers' = dispatchers /\ dropped' = dropped
        /\ workQueue' = workQueue /\ job' = job /\ step' = step
    BY <1>7 DEF CallerCancel, Close, CheckIdle, TimeOut, CancelPending, vars
  <2>. QED
    BY <2>1 DEF ActiveIsCarried, Carried
<1>8. CASE Shutdown
  <2>1. /\ active' = active /\ dispatchers' = dispatchers
        /\ job' = job /\ step' = step
        /\ \/ workQueue' = workQueue /\ dropped' = dropped
           \/ dropped' = dropped \cup {workQueue[i] : i \in DOMAIN workQueue}
    BY <1>8 DEF Shutdown, Elements
  <2>. QED
    BY <2>1 DEF ActiveIsCarried, Carried
<1>. QED
  BY <1>1, <1>3, <1>4, <1>5, <1>6, <1>7, <1>8
  DEF Next, Callers, Closing, Worker

(* Carriers are at least one by ActiveIsCarried and at most one by         *)
(* ClaimsAreAlone and ClaimsAreApart.                                      *)
LEMMA OneCarrier ==
  ASSUME ClaimInv, ActiveIsCarried, NEW s \in active
  PROVE  \E c \in Carriers(s) : Carriers(s) = {c}
<1>1. Carriers(s) # {}
  <2>1. Carried(s)
    BY DEF ActiveIsCarried
  <2>2. /\ \A t \in dispatchers : SessionOf[t] = s => <<"submit", t>> \in Carriers(s)
        /\ \A i \in DOMAIN workQueue : ItemOf(i) = s => <<"item", i>> \in Carriers(s)
    BY DEF Carriers, ItemOf
  <2>3. /\ \A w \in Workers :
             Busy(w) /\ WorkOf(w) = s => <<"worker", w>> \in Carriers(s)
        /\ \A t \in dropped : SessionOf[t] = s => <<"dropped", t>> \in Carriers(s)
    BY DEF Carriers, WorkOf
  <2>. QED
    BY <2>1, <2>2, <2>3 DEF Carried
<1>2. ASSUME NEW c \in Carriers(s), NEW d \in Carriers(s)
      PROVE  c = d
  <2>1. CASE \E t \in dispatchers : SessionOf[t] = s /\ c = <<"submit", t>>
    BY <1>2, <2>1 DEF Carriers, ClaimInv, ClaimsAreAlone, ClaimsAreApart, ItemOf, WorkOf
  <2>2. CASE \E i \in DOMAIN workQueue : ItemOf(i) = s /\ c = <<"item", i>>
    BY <1>2, <2>2 DEF Carriers, ClaimInv, ClaimsAreAlone, ClaimsAreApart, ItemOf, WorkOf
  <2>3. CASE \E w \in Workers : Busy(w) /\ WorkOf(w) = s /\ c = <<"worker", w>>
    BY <1>2, <2>3 DEF Carriers, ClaimInv, ClaimsAreAlone, ClaimsAreApart, ItemOf, WorkOf
  <2>4. CASE \E t \in dropped : SessionOf[t] = s /\ c = <<"dropped", t>>
    BY <1>2, <2>4 DEF Carriers, ClaimInv, ClaimsAreAlone, ClaimsAreApart, ItemOf, WorkOf
  <2>. QED
    BY <1>2, <2>1, <2>2, <2>3, <2>4 DEF Carriers, ItemOf, WorkOf
<1>. QED
  BY <1>1, <1>2

-----------------------------------------------------------------------------
(* The theorems.                                                           *)

LEMMA InductiveInvariant == Spec => []OrderInv
BY InitOrder, NextOrder, PTL DEF Spec

(* Every variable of the scheduler keeps its type, whatever the tasks and  *)
(* the pool.                                                               *)
THEOREM TypeCorrect == Spec => []TypeOK
<1>1. OrderInv => TypeOK
  BY DEF OrderInv, ClaimInv, TypeInv
<1>. QED
  BY <1>1, InductiveInvariant, PTL

(* Two workers never hold tasks of one session, from the start of          *)
(* _execute() to its end: "one task per session at a time".                *)
THEOREM SerialPerSession == Spec => []OneAtATime
<1>1. OrderInv => OneAtATime
  BY DEF OrderInv, ClaimInv, ClaimsAreAlone, OneAtATime, WorkOf
<1>. QED
  BY <1>1, InductiveInvariant, PTL

(* A task begins only after everything its session accepted before it was  *)
(* resolved, whatever was replaced, cancelled or dropped on the way.       *)
THEOREM FirstComeFirstServed == Spec => []SubmissionOrder
<1>1. OrderInv => SubmissionOrder
  BY DEF OrderInv
<1>. QED
  BY <1>1, InductiveInvariant, PTL

(* No claim of a session is lost or held twice, _execute() finds the entry  *)
(* of its session in _queues, and submit() never meets an executor that is  *)
(* already shut down.                                                       *)
THEOREM NoFailureInDispatch == Spec => []DispatchIsSound
<1>1. Init => ActiveIsCarried
  BY DEF Init, ActiveIsCarried
<1>2. OrderInv /\ ActiveIsCarried /\ [Next]_vars => ActiveIsCarried'
  BY NextCarried DEF OrderInv
<1>3. ASSUME ClaimInv, ActiveIsCarried
      PROVE  DispatchIsSound
  <2>1. ClaimHeldOnce
    <3>1. ASSUME NEW s \in Sessions, s \notin active
          PROVE  Carriers(s) = {} /\ queues[s] = <<>>
      BY <1>3, <3>1 DEF ClaimInv, ClaimsAreActive, Carriers, ItemOf, WorkOf
    <3>. QED
      BY <1>3, <3>1, OneCarrier DEF ClaimHeldOnce
  <2>. QED
    BY <1>3, <2>1 DEF DispatchIsSound, EntryWhileActive, NothingLeftAtShutdown,
       ClaimInv, ClaimsAreActive, CloseInOrder
<1>4. OrderInv /\ ActiveIsCarried => DispatchIsSound
  BY <1>3 DEF OrderInv
<1>. QED
  BY <1>1, <1>2, <1>4, InductiveInvariant, PTL DEF Spec

(* When close() reports a drain, every future it handed out is resolved.   *)
THEOREM DrainIsComplete == Spec => []DrainedMeansResolved
<1>1. ASSUME OrderInv, closer \in {"drained", "closed"}, NEW t \in Tasks
      PROVE  future[t] = "none" \/ Resolved(t)
  <2>1. /\ active = {} /\ SessionOf[t] \in Sessions
        /\ future[t] \in {"none", "pending", "running", "finished", "failed",
                          "cancelled"}
        /\ \A s \in Sessions : queues[s] = <<>>
    BY <1>1, SchedulerAssumption
    DEF SchedulerAssumption, OrderInv, ClaimInv, CloseInOrder, TypeInv, TypeOK
  <2>2. ~InHand(t)
    BY <1>1, <2>1, OneInHand DEF OrderInv
  <2>3. Elements(queues[SessionOf[t]]) = {}
    BY <2>1 DEF Elements
  <2>4. ~Pending(t)
    BY <1>1, <2>2, <2>3 DEF OrderInv, UnresolvedIsPlaced
  <2>5. future[t] # "running"
    BY <1>1, <2>2 DEF OrderInv, UnresolvedIsPlaced, InHand, Busy
  <2>. QED
    BY <2>1, <2>4, <2>5 DEF Pending, Resolved
<1>2. OrderInv => DrainedMeansResolved
  BY <1>1 DEF DrainedMeansResolved
<1>. QED
  BY <1>2, InductiveInvariant, PTL

(* The scheduler implements the serial executor: every step of its queues, *)
(* pool and close() is a step of the abstract executor or changes nothing  *)
(* its callers see.                                                        *)
THEOREM Refinement == Spec => Serial!Spec
<1>. USE DEF Serial!abstractVars
<1>1. Init => Serial!Init
  BY DEF Init, Serial!Init, SchedulerPhase
<1>2. ASSUME OrderInv, [Next]_vars
      PROVE  [Serial!Next]_(Serial!abstractVars)
  <2>. USE DEF bookkeeping, history, executor
  <2>t. /\ SessionOf \in [Tasks -> Sessions]
        /\ queues \in [Sessions -> Seq(Tasks)]
        /\ \A s \in Sessions : Elements(queues[s]) \subseteq Tasks
        /\ \A s \in Sessions : \A t \in Elements(queues[s]) : SessionOf[t] = s
        /\ future \in [Tasks -> {"none", "pending", "running", "finished", "failed",
                                 "cancelled"}]
        /\ \A w \in Workers : Busy(w) => job[w] \in Tasks
    BY <1>2, SchedulerAssumption
    DEF SchedulerAssumption, OrderInv, ClaimInv, TypeInv, TypeOK, BusyHasTask,
        QueuedUnderOwnSession, Elements
  <2>1. ASSUME NEW t \in Tasks, NEW r \in BOOLEAN, Submit(t, r)
        PROVE  Serial!Accept(t)
    <3>. DEFINE stale == IF r THEN Elements(queues[SessionOf[t]]) ELSE {}
                replaced == {u \in stale : Pending(u)}
    <3>1. /\ closer = "open" /\ closer' = closer /\ future[t] = "none"
          /\ future' = [Cancelled(stale) EXCEPT ![t] = "pending"]
          /\ accepted' = accepted + 1
          /\ ticket' = [ticket EXCEPT ![t] = accepted + 1]
      BY <2>1 DEF Submit
    <3>2. replaced \in SUBSET {u \in Tasks : Serial!Pending(u) /\ Serial!SameSession(t, u)}
      BY <2>t DEF Serial!Pending, Serial!SameSession, Pending
    <3>3. future' = [u \in Tasks |-> IF u = t THEN "pending"
                                     ELSE IF u \in replaced THEN "cancelled"
                                     ELSE future[u]]
      BY <3>1, <2>t DEF Cancelled
    <3>. HIDE DEF replaced, stale
    <3>. QED
      BY <3>1, <3>2, <3>3 DEF Serial!Accept, SchedulerPhase, GivenUp
  <2>2. ASSUME NEW w \in Workers, Begin(w), Pending(job[w])
        PROVE  Serial!Start(job[w])
    <3>1. /\ step[w] = "picked" /\ job[w] \in Tasks
          /\ future' = [future EXCEPT ![job[w]] = "running"]
          /\ closer' = closer /\ accepted' = accepted /\ ticket' = ticket
      BY <2>2, <2>t DEF Begin, Busy
    <3>2. \A u \in Tasks : Serial!SameSession(job[w], u) =>
            future[u] # "running" /\ (Serial!Pending(u) => ticket[job[w]] <= ticket[u])
      BY <1>2, <2>2, <3>1, BeginIsFair
      DEF Serial!SameSession, Serial!Pending, Pending
    <3>. QED
      BY <2>2, <3>1, <3>2
      DEF Serial!Start, Serial!Pending, Pending, SchedulerPhase, GivenUp
  <2>3. ASSUME NEW w \in Workers, Return(w)
        PROVE  Serial!Finish(job[w]) /\ job[w] \in Tasks
    <3>1. job[w] \in Tasks /\ future[job[w]] = "running"
      BY <1>2, <2>3, <2>t DEF Return, Busy, OrderInv, FuturesMatchPlaces
    <3>. QED
      BY <2>3, <3>1 DEF Return, Serial!Finish, SchedulerPhase, GivenUp
  <2>4. ASSUME NEW set \in SUBSET Tasks, future' = Cancelled(set),
               SchedulerPhase' = SchedulerPhase, UNCHANGED history
        PROVE  Serial!Withdraw
    <3>. DEFINE withdrawn == {t \in set : Pending(t)}
    <3>1. withdrawn \in SUBSET {t \in Tasks : Serial!Pending(t)}
      BY DEF Serial!Pending, Pending
    <3>2. future' = [t \in Tasks |-> IF t \in withdrawn THEN "cancelled" ELSE future[t]]
      BY <2>4 DEF Cancelled
    <3>. HIDE DEF withdrawn
    <3>. QED
      BY <2>4, <3>1, <3>2 DEF Serial!Withdraw
  <2>5. CASE \E t \in Tasks : CallerCancel(t)
    BY <2>4, <2>5 DEF CallerCancel, SchedulerPhase, GivenUp, Serial!Next
  <2>6. CASE CancelPending
    <3>1. UNION {Elements(queues[s]) : s \in keyed} \in SUBSET Tasks
      BY <1>2, <2>t DEF OrderInv, ClaimInv, TypeInv, TypeOK
    <3>. QED
      BY <2>4, <2>6, <3>1
      DEF CancelPending, CloserGoes, SchedulerPhase, GivenUp, Serial!Next
  <2>7. CASE (\E wait \in BOOLEAN : Close(wait)) \/ TimeOut
    <3>1. Serial!Close
      BY <2>7 DEF Close, TimeOut, CloserGoes, SchedulerPhase, GivenUp, Serial!Close
    <3>. QED
      BY <3>1 DEF Serial!Next
  <2>8. CASE (\E t \in Tasks : Dispatch(t)) \/ CheckIdle \/ Shutdown \/ UNCHANGED vars
    BY <2>8
    DEF Dispatch, HandToExecutor, GiveBack, Notified, CheckIdle, Shutdown,
        CloserGoes, SchedulerPhase, GivenUp, vars
  <2>9. CASE \E w \in Workers : Pick(w) \/ Leave(w) \/ (Begin(w) /\ ~Pending(job[w]))
    BY <2>9
    DEF Pick, Leave, Begin, HandToExecutor, Release, Notified, SchedulerPhase, GivenUp
  <2>. QED
    BY <1>2, <2>1, <2>2, <2>3, <2>5, <2>6, <2>7, <2>8, <2>9, <2>t
    DEF Next, Callers, Closing, Worker, Serial!Next, Begin, Busy
<1>. QED
  BY <1>1, <1>2, InductiveInvariant, PTL DEF Spec, Serial!Spec

-----------------------------------------------------------------------------
(* The greatest and the least of some numbers *)

LEMMA GreatestIn ==
  ASSUME NEW n \in Nat, NEW S, S \subseteq 0..n, S # {}
  PROVE  \E x \in S : \A y \in S : y <= x
<1> DEFINE below == {u \in 0..n : \E y \in S : u <= y}
           next == [u \in below |-> u + 1]
<1>1. SUFFICES ASSUME \A x \in S : \E y \in S : x < y PROVE FALSE
  BY SMT
<1>2. IsFiniteSet(below)
  <2>1. IsFiniteSet(0..n) /\ below \subseteq 0..n
    BY FS_Interval
  <2> QED BY <2>1, FS_Subset
<1>3. \A u \in below : u + 1 \in below
  BY <1>1
<1>4. 0 \in below
  <2>1. PICK y \in S : y \in 0..n
    OBVIOUS
  <2> QED BY <2>1
<1>5. next \in Injection(below, below)
  BY <1>3 DEF Injection, IsInjective
<1> HIDE DEF below, next
<1>6. next \in Surjection(below, below)
  BY <1>2, <1>5, FS_Injection
<1>7. PICK u \in below : next[u] = 0
  BY <1>4, <1>6 DEF Surjection
<1> QED BY <1>7 DEF next, below

LEMMA LeastIn ==
  ASSUME NEW n \in Nat, NEW S, S \subseteq 0..n, S # {}
  PROVE  \E x \in S : \A y \in S : x <= y
<1> DEFINE T == {k \in 0..n : n - k \in S}
<1>1. ASSUME NEW x \in S PROVE n - x \in T
  <2>1. x \in 0..n
    OBVIOUS
  <2>2. n - x \in 0..n /\ n - (n - x) = x
    BY <2>1
  <2> QED BY <2>2
<1>2. T \subseteq 0..n /\ T # {}
  BY <1>1
<1> HIDE DEF T
<1>3. PICK k \in T : \A l \in T : l <= k
  BY <1>2, GreatestIn
<1>4. k \in 0..n /\ n - k \in S
  BY <1>3 DEF T
<1>5. ASSUME NEW y \in S PROVE n - k <= y
  <2>1. n - y <= k /\ y \in 0..n
    BY <1>1, <1>3
  <2> QED BY <1>4, <2>1
<1> QED BY <1>4, <1>5

-----------------------------------------------------------------------------
(* The children of a delegation (Subagents) *)

\* Who is waited for no longer is at its end; who is still waited for when the call
\* answers was told, and is not waiting to begin.
ChildInv ==
  /\ ChildTypeOK
  /\ delegation.at = "idle" => awaited = {}
  /\ delegation.at # "idle" => \A i \in ChildTasks : child[i] # "absent"
  /\ delegation.at # "idle" => \A i \in ChildTasks \ awaited : child[i] \in ChildEnds
  /\ delegation.at \in {"idle", "waits"} => toldToStop = {}
  /\ delegation.at \in {"answers", "done"} => awaited \subseteq toldToStop
  /\ toldToStop \subseteq awaited
  /\ \A i \in toldToStop : child[i] \in {"runs", "withdrawn"} \cup ChildEnds
  /\ \A i \in ChildTasks : child[i] \in {"cancelled", "withdrawn"} => i \in toldToStop
  /\ delegation.at = "done" =>
       \A i \in ChildTasks : reported[i] = IF i \in awaited THEN delegation.why ELSE child[i]

\* What ChildrenStop needs of every state: once the call has returned, a child is at its
\* end, or withdrawn, or goes on having been told; what the call says of it is its end
\* or why it was not waited for; and no child is cancelled that was not told.
UnfinishedAreTold ==
  /\ delegation.at = "done" =>
       \A i \in ChildTasks :
         /\ child[i] \in ChildEnds \cup {"withdrawn"} \/ (child[i] = "runs" /\ i \in toldToStop)
         /\ reported[i] \in {child[i], delegation.why}
  /\ \A i \in ChildTasks : child[i] = "cancelled" => i \in toldToStop

LEMMA ChildInvHolds == ChildInit => ChildInv
<1> SUFFICES ASSUME ChildInit PROVE ChildInv
  OBVIOUS
<1>1. /\ delegation.at = "idle" /\ delegation.why = "timed_out" /\ awaited = {}
      /\ toldToStop = {} /\ \A i \in ChildTasks : child[i] = "absent"
  BY DEF ChildInit
<1>2. ChildTypeOK
  BY DEF ChildInit, ChildTypeOK, RunStatuses, ChildEnds
<1> QED BY <1>1, <1>2 DEF ChildInv

LEMMA NextChildIs ==
  ASSUME ChildInv, ~(awaited \subseteq toldToStop)
  PROVE  (CHOOSE i \in awaited \ toldToStop : \A j \in awaited \ toldToStop : i <= j)
           \in awaited \ toldToStop
<1> DEFINE left == awaited \ toldToStop
<1>1. left \subseteq 0..Children /\ left # {} /\ Children \in Nat
  BY ChildrenAssumption DEF ChildInv, ChildTypeOK, ChildTasks
<1> HIDE DEF left
<1>2. \E i \in left : \A j \in left : i <= j
  BY <1>1, LeastIn
<1> QED BY <1>2, Zenon DEF left

LEMMA TellChildrenKeeps ==
  ASSUME ChildInv, TellChildren
  PROVE  ChildInv'
<1>1. /\ delegation.at = "tells" /\ UNCHANGED <<awaited, late, stopped, reported>>
      /\ ChildTypeOK
  BY DEF TellChildren, ChildInv
<1>2. CASE awaited \subseteq toldToStop
  <2>1. delegation' = [delegation EXCEPT !.at = "answers"] /\ UNCHANGED <<child, toldToStop>>
    BY <1>2 DEF TellChildren
  <2>2. delegation'.at = "answers" /\ delegation'.why = delegation.why
    BY <1>1, <2>1 DEF ChildTypeOK
  <2>3. ChildTypeOK'
    BY <1>1, <2>1 DEF ChildTypeOK
  <2> QED BY <1>1, <1>2, <2>1, <2>2, <2>3 DEF ChildInv
<1>3. CASE ~(awaited \subseteq toldToStop)
  <2> DEFINE i == CHOOSE i \in awaited \ toldToStop : \A j \in awaited \ toldToStop : i <= j
  <2>1. i \in awaited \ toldToStop
    BY <1>3, NextChildIs
  <2>2. /\ toldToStop' = toldToStop \cup {i} /\ delegation' = delegation
        /\ child' = [child EXCEPT ![i] = IF @ = "queued" THEN "withdrawn" ELSE @]
    BY <1>3, Zenon DEF TellChildren
  <2> HIDE DEF i
  <2>3. i \in ChildTasks /\ awaited \subseteq ChildTasks
    BY <1>1, <2>1 DEF ChildTypeOK
  <2>4. /\ child'[i] = IF child[i] = "queued" THEN "withdrawn" ELSE child[i]
        /\ \A j \in ChildTasks : j # i => child'[j] = child[j]
    BY <1>1, <2>2, <2>3 DEF ChildTypeOK
  <2>5. child[i] # "absent"
    BY <1>1, <2>3 DEF ChildInv
  <2>6. ChildTypeOK'
    BY <1>1, <2>2, <2>3 DEF ChildTypeOK, ChildEnds
  <2>7. \A j \in toldToStop' : child'[j] \in {"runs", "withdrawn"} \cup ChildEnds
    BY <1>1, <2>2, <2>3, <2>4, <2>5 DEF ChildInv, ChildTypeOK
  <2>8. \A j \in ChildTasks : child'[j] \in {"cancelled", "withdrawn"} => j \in toldToStop'
    BY <2>2, <2>4 DEF ChildInv
  <2>9. \A j \in ChildTasks \ awaited : child'[j] \in ChildEnds
    BY <1>1, <2>1, <2>4 DEF ChildInv
  <2>10. \A j \in ChildTasks : child'[j] # "absent"
    BY <1>1, <2>4 DEF ChildInv
  <2> QED BY <1>1, <2>1, <2>2, <2>6, <2>7, <2>8, <2>9, <2>10 DEF ChildInv
<1> QED BY <1>2, <1>3

LEMMA ParentKeeps ==
  ASSUME ChildInv, Delegate \/ Wait \/ StopWaiting \/ Answer \/ PassDeadline \/ StopParent
  PROVE  ChildInv'
<1>1. ChildTypeOK
  BY DEF ChildInv
<1>2. ASSUME Delegate PROVE ChildInv'
  BY <1>1, <1>2 DEF Delegate, ChildInv, ChildTypeOK, ChildEnds
<1>3. ASSUME Wait PROVE ChildInv'
  BY <1>1, <1>3 DEF Wait, ChildInv, ChildTypeOK
<1>4. ASSUME StopWaiting PROVE ChildInv'
  BY <1>1, <1>4 DEF StopWaiting, ChildInv, ChildTypeOK
<1>5. ASSUME Answer PROVE ChildInv'
  <2>1. /\ delegation.at = "answers" /\ delegation' = [delegation EXCEPT !.at = "done"]
        /\ UNCHANGED <<awaited, child, toldToStop, late, stopped>>
        /\ reported' = [i \in ChildTasks |-> IF i \in awaited THEN delegation.why ELSE child[i]]
    BY <1>5 DEF Answer
  <2>2. delegation'.at = "done" /\ delegation'.why = delegation.why
        /\ delegation.why \in {"timed_out", "cancelled"}
    BY <1>1, <2>1 DEF ChildTypeOK
  <2>3. \A i \in ChildTasks \ awaited : child[i] \in ChildEnds
    BY <2>1 DEF ChildInv
  <2>4. reported' \in [ChildTasks -> RunStatuses \cup {"none"}]
    BY <2>1, <2>2, <2>3 DEF RunStatuses, ChildEnds
  <2>5. ChildTypeOK'
    BY <1>1, <2>1, <2>4 DEF ChildTypeOK
  <2> QED BY <2>1, <2>2, <2>3, <2>5 DEF ChildInv
<1>6. ASSUME PassDeadline \/ StopParent PROVE ChildInv'
  BY <1>1, <1>6 DEF PassDeadline, StopParent, ChildInv, ChildTypeOK
<1> QED BY <1>2, <1>3, <1>4, <1>5, <1>6

LEMMA ChildKeeps ==
  ASSUME ChildInv, NEW i \in ChildTasks, BeginChild(i) \/ EndChild(i)
  PROVE  ChildInv'
<1>1. /\ ChildTypeOK /\ UNCHANGED <<delegation, awaited, toldToStop, late, stopped, reported>>
  BY DEF BeginChild, EndChild, ChildInv
<1>2. ASSUME BeginChild(i) PROVE ChildInv'
  <2>1. child[i] = "queued" /\ child' = [child EXCEPT ![i] = "runs"]
    BY <1>2 DEF BeginChild
  <2>2. child'[i] = "runs" /\ \A j \in ChildTasks : j # i => child'[j] = child[j]
    BY <1>1, <2>1 DEF ChildTypeOK
  <2>3. ChildTypeOK' /\ toldToStop \subseteq ChildTasks
    BY <1>1, <2>1 DEF ChildTypeOK
  <2>4. delegation.at # "idle" => i \in awaited
    BY <2>1 DEF ChildInv, ChildEnds
  <2>5. i \notin toldToStop
    BY <2>1 DEF ChildInv, ChildEnds
  <2>6. delegation.at = "done" => FALSE
    BY <2>4, <2>5 DEF ChildInv
  <2> QED BY <1>1, <2>2, <2>3, <2>4, <2>5, <2>6 DEF ChildInv
<1>3. ASSUME EndChild(i) PROVE ChildInv'
  <2>1. PICK end \in IF i \in toldToStop THEN ChildEnds ELSE ChildEnds \ {"cancelled"} :
          child' = [child EXCEPT ![i] = end]
    BY <1>3, Zenon DEF EndChild
  <2>2. child[i] = "runs" /\ end \in ChildEnds /\ (end = "cancelled" => i \in toldToStop)
    BY <1>3, <2>1 DEF EndChild
  <2>3. child'[i] = end /\ \A j \in ChildTasks : j # i => child'[j] = child[j]
    BY <1>1, <2>1 DEF ChildTypeOK
  <2>4. ChildTypeOK' /\ toldToStop \subseteq ChildTasks
    BY <1>1, <2>1, <2>2 DEF ChildTypeOK
  <2>5. delegation.at # "idle" => i \in awaited
    BY <2>2 DEF ChildInv, ChildEnds
  <2>6. end # "withdrawn" /\ end # "absent"
    BY <2>2 DEF ChildEnds
  <2>7. \A j \in ChildTasks \ awaited : delegation.at # "idle" => child'[j] \in ChildEnds
    BY <2>3, <2>5 DEF ChildInv
  <2>8. /\ \A j \in toldToStop : child'[j] \in {"runs", "withdrawn"} \cup ChildEnds
        /\ \A j \in ChildTasks : child'[j] \in {"cancelled", "withdrawn"} => j \in toldToStop
    BY <2>2, <2>3, <2>4, <2>6 DEF ChildInv
  <2>9. delegation.at = "done" =>
          \A j \in ChildTasks : reported[j] = IF j \in awaited THEN delegation.why ELSE child'[j]
    BY <2>3, <2>5 DEF ChildInv
  <2>10. \A j \in ChildTasks : delegation.at # "idle" => child'[j] # "absent"
    BY <2>3, <2>6 DEF ChildInv
  <2> QED BY <1>1, <2>4, <2>7, <2>8, <2>9, <2>10 DEF ChildInv
<1> QED BY <1>2, <1>3

\* For any number of children, stopped by a deadline or with their parent at any moment:
\* when delegate_task returns, whoever still works was told to stop, and none was
\* cancelled that was not.
THEOREM TheUnfinishedAreTold == ChildSpec => []UnfinishedAreTold
<1>1. ChildInv /\ [ChildNext]_childVars => ChildInv'
  <2> SUFFICES ASSUME ChildInv, [ChildNext]_childVars PROVE ChildInv'
    OBVIOUS
  <2>1. CASE Delegate \/ PassDeadline \/ StopParent
    BY <2>1, ParentKeeps
  <2>2. CASE ParentStep
    BY <2>2, ParentKeeps, TellChildrenKeeps DEF ParentStep
  <2>3. CASE \E i \in ChildTasks : BeginChild(i) \/ EndChild(i)
    BY <2>3, ChildKeeps
  <2>4. CASE UNCHANGED childVars
    BY <2>4 DEF childVars, ChildInv, ChildTypeOK
  <2> QED BY <2>1, <2>2, <2>3, <2>4 DEF ChildNext
<1>2. ChildInv => UnfinishedAreTold
  BY DEF ChildInv, UnfinishedAreTold, ChildTypeOK
<1> QED BY <1>1, <1>2, ChildInvHolds, PTL DEF ChildSpec

-----------------------------------------------------------------------------
(* The clients of the MCP servers (McpClient) *)

\* The servers that discover() is done with.
Passed(s) ==
  \/ provider.at \in {"up", "down"}
  \/ \E k \in Positions : k < provider.server /\ Servers[k] = s
AtServer == provider.at \in {"start", "wait", "fail"}

McpInv ==
  /\ McpTypeOK
  /\ AtServer => provider.server \in Positions
  /\ \A s \in Names : stopping[s] <=> closing[s] # "no"
  /\ \A s \in Names : stopEvent[s] => stopping[s]
  /\ \A s \in Names : closing[s] = "done" /\ served[s] = "serving" => stopEvent[s]
  /\ \A s \in Names : Passed(s) => s \in clients \/ stopping[s]
  /\ provider.at = "down" => clients = {} /\ \A s \in Names : closing[s] = "done"

\* What StopIsHeard needs of every state: a session that is served after its client was
\* closed has the event that ends it, whichever of the two came first; none has the event
\* that was not told; and a provider that is down has told all of them.
StopsAreTold ==
  /\ \A s \in Names : closing[s] = "done" /\ served[s] = "serving" => stopEvent[s]
  /\ \A s \in Names : stopEvent[s] => stopping[s]
  /\ provider.at = "down" => \A s \in Names : stopping[s] /\ closing[s] = "done"

LEMMA PlacesOfServers ==
  /\ Len(Servers) \in Nat /\ Positions = 1..Len(Servers)
  /\ \A k \in Positions : Servers[k] \in Names
  /\ \A s \in Names : \E k \in Positions : Servers[k] = s
<1>1. Len(Servers) \in Nat /\ DOMAIN Servers = 1..Len(Servers)
  BY McpAssumption
<1> QED BY <1>1 DEF Positions, Names, ToSet

LEMMA McpInvHolds == McpInit => McpInv
<1> SUFFICES ASSUME McpInit PROVE McpInv
  OBVIOUS
<1>1. Servers # <<>> => Len(Servers) > 0
  BY McpAssumption
<1>2. provider \in [at : {"start", "wait", "fail", "up", "down"}, server : 0..Len(Servers)]
  BY <1>1, PlacesOfServers DEF McpInit
<1>3. McpTypeOK
  BY <1>2 DEF McpInit, McpTypeOK
<1>4. AtServer => provider.server \in Positions
  BY <1>1, PlacesOfServers DEF McpInit, AtServer
<1>5. ASSUME NEW s \in Names PROVE ~Passed(s)
  <2>1. Servers # <<>>
    BY PlacesOfServers
  <2>2. provider.at = "start" /\ provider.server = 1
    BY <2>1 DEF McpInit
  <2>3. \A k \in Positions : ~(k < 1)
    BY PlacesOfServers
  <2> QED BY <2>2, <2>3 DEF Passed
<1>6. provider.at # "down"
  BY DEF McpInit
<1> QED BY <1>3, <1>4, <1>5, <1>6 DEF McpInit, McpInv

\* The thread of a client.
LEMMA ThreadKeepsStops ==
  ASSUME McpInv, NEW s \in Names,
         OpenClient(s) \/ Publish(s) \/ ServeOrStop(s) \/ EndServe(s)
  PROVE  McpInv'
<1>1. McpTypeOK /\ UNCHANGED <<stopping, closing, provider, clients, mcpCall>>
  BY DEF OpenClient, Publish, ServeOrStop, EndServe, McpInv
<1>2. AtServer' = AtServer /\ \A n : Passed(n)' = Passed(n)
  BY <1>1 DEF AtServer, Passed
<1>3. ASSUME OpenClient(s) \/ Publish(s) \/ EndServe(s) PROVE McpInv'
  <2>1. /\ stopEvent' = stopEvent /\ served'[s] # "serving"
        /\ \A n \in Names : n # s => served'[n] = served[n]
    BY <1>1, <1>3 DEF OpenClient, Publish, EndServe, McpTypeOK
  <2>2. McpTypeOK'
    BY <1>1, <1>3 DEF OpenClient, Publish, EndServe, McpTypeOK
  <2> QED BY <1>1, <1>2, <2>1, <2>2 DEF McpInv
<1>4. ASSUME ServeOrStop(s) PROVE McpInv'
  <2>1. /\ stopEvent'[s] = (stopEvent[s] \/ stopping[s])
        /\ \A n \in Names : n # s => stopEvent'[n] = stopEvent[n] /\ served'[n] = served[n]
    BY <1>1, <1>4 DEF ServeOrStop, StopsAtOnce, McpTypeOK
  <2>2. McpTypeOK'
    BY <1>1, <1>4 DEF ServeOrStop, StopsAtOnce, McpTypeOK
  <2>3. \A n \in Names : closing[n] = "done" => stopping[n]
    BY DEF McpInv
  <2> QED BY <1>1, <1>2, <2>1, <2>2, <2>3 DEF McpInv
<1> QED BY <1>3, <1>4

LEMMA SignalKeepsStops ==
  ASSUME McpInv, NEW s \in Names, SignalStop(s)
  PROVE  McpInv'
<1>1. /\ McpTypeOK /\ UNCHANGED <<served, ready, failed, stopping, provider, clients, mcpCall>>
      /\ closing[s] = "look" /\ closing' = [closing EXCEPT ![s] = "done"]
      /\ stopEvent' = [stopEvent EXCEPT ![s] = @ \/ served[s] \in {"event", "serving"}]
  BY DEF SignalStop, McpInv
<1>2. AtServer' = AtServer /\ \A n : Passed(n)' = Passed(n)
  BY <1>1 DEF AtServer, Passed
<1>3. /\ closing'[s] = "done" /\ stopEvent'[s] = (stopEvent[s] \/ served[s] \in {"event", "serving"})
      /\ \A n \in Names : n # s => stopEvent'[n] = stopEvent[n] /\ closing'[n] = closing[n]
  BY <1>1 DEF McpTypeOK
<1>4. McpTypeOK'
  BY <1>1 DEF McpTypeOK
<1>5. stopping[s]
  BY <1>1 DEF McpInv
<1> QED BY <1>1, <1>2, <1>3, <1>4, <1>5 DEF McpInv

LEMMA CallsKeepStops ==
  ASSUME McpInv, NEW s \in Names, CallTool(s) \/ EndCall(s) \/ TimeOutCall(s)
  PROVE  McpInv'
<1>1. /\ McpTypeOK /\ UNCHANGED <<served, ready, failed, stopEvent, stopping, closing, provider, clients>>
  BY DEF CallTool, EndCall, TimeOutCall, mcpThread, McpInv
<1>2. AtServer' = AtServer /\ \A n : Passed(n)' = Passed(n)
  BY <1>1 DEF AtServer, Passed
<1>3. McpTypeOK'
  BY <1>1 DEF CallTool, EndCall, TimeOutCall, McpTypeOK
<1> QED BY <1>1, <1>2, <1>3 DEF McpInv

\* The provider goes on to the server that follows.
LEMMA FollowingPasses ==
  ASSUME McpInv, AtServer, provider' = Following
  PROVE  /\ provider' \in [at : {"start", "wait", "fail", "up", "down"}, server : 0..Len(Servers)]
         /\ AtServer' => provider'.server \in Positions
         /\ provider'.at # "down"
         /\ \A s \in Names : Passed(s)' => Passed(s) \/ s = Current
<1>1. provider.server \in 1..Len(Servers) /\ Len(Servers) \in Nat
  BY PlacesOfServers DEF McpInv
<1>2. CASE provider.server = Len(Servers)
  <2>1. provider' = [at |-> "up", server |-> 0]
    BY <1>2 DEF Following
  <2>2. ASSUME NEW s \in Names PROVE Passed(s) \/ s = Current
    <3>1. PICK k \in Positions : Servers[k] = s
      BY PlacesOfServers
    <3>2. k < provider.server \/ k = provider.server
      BY <1>1, <1>2, PlacesOfServers
    <3> QED BY <3>1, <3>2 DEF Passed, Current
  <2> QED BY <1>1, <2>1, <2>2 DEF AtServer
<1>3. CASE provider.server # Len(Servers)
  <2>1. provider' = [at |-> "start", server |-> provider.server + 1]
    BY <1>3 DEF Following
  <2>2. provider.server + 1 \in 1..Len(Servers)
    BY <1>1, <1>3
  <2>3. ASSUME NEW s \in Names, Passed(s)' PROVE Passed(s) \/ s = Current
    <3>1. provider'.at = "start" /\ provider'.server = provider.server + 1
      BY <2>1
    <3>2. PICK k \in Positions : k < provider.server + 1 /\ Servers[k] = s
      BY <2>3, <3>1 DEF Passed
    <3>3. k < provider.server \/ k = provider.server
      BY <1>1, <3>2, PlacesOfServers
    <3> QED BY <3>2, <3>3 DEF Passed, Current
  <2> QED BY <1>1, <2>1, <2>2, <2>3, PlacesOfServers DEF AtServer
<1> QED BY <1>2, <1>3

LEMMA DiscoverKeepsStops ==
  ASSUME McpInv, StartClient \/ Started \/ NotStarted \/ GiveUp
  PROVE  McpInv'
<1>1. McpTypeOK /\ AtServer /\ provider.server \in Positions /\ Current \in Names
  BY PlacesOfServers DEF StartClient, Started, NotStarted, GiveUp, AtServer, McpInv, Current
<1>2. ASSUME StartClient PROVE McpInv'
  <2>1. /\ provider' = [provider EXCEPT !.at = "wait"]
        /\ served' = [served EXCEPT ![Current] = "opening"]
        /\ UNCHANGED <<ready, failed, stopEvent, stopping, closing, clients, mcpCall>>
        /\ provider.at = "start"
    BY <1>2 DEF StartClient
  <2>2. provider'.at = "wait" /\ provider'.server = provider.server
    BY <1>1, <2>1 DEF McpTypeOK
  <2>3. AtServer' /\ \A n : Passed(n)' <=> Passed(n)
    BY <2>1, <2>2 DEF AtServer, Passed
  <2>4. \A n \in Names : served'[n] = "serving" => served[n] = "serving"
    BY <1>1, <2>1 DEF McpTypeOK
  <2>5. McpTypeOK'
    BY <1>1, <2>1 DEF McpTypeOK
  <2> QED BY <1>1, <2>1, <2>2, <2>3, <2>4, <2>5 DEF McpInv
<1>3. ASSUME Started PROVE McpInv'
  <2>1. /\ provider' = Following /\ clients' = clients \cup {Current}
        /\ UNCHANGED <<served, ready, failed, stopEvent, stopping, closing>>
        /\ mcpCall' = [mcpCall EXCEPT ![Current] = "idle"]
    BY <1>3 DEF Started, mcpThread
  <2>2. /\ provider' \in [at : {"start", "wait", "fail", "up", "down"}, server : 0..Len(Servers)]
        /\ AtServer' => provider'.server \in Positions
        /\ provider'.at # "down"
        /\ \A s \in Names : Passed(s)' => Passed(s) \/ s = Current
    BY <1>1, <2>1, FollowingPasses
  <2>3. McpTypeOK'
    BY <1>1, <2>1, <2>2 DEF McpTypeOK
  <2>4. \A s \in Names : Passed(s)' => s \in clients' \/ stopping'[s]
    BY <2>1, <2>2 DEF McpInv
  <2> QED BY <2>1, <2>2, <2>3, <2>4 DEF McpInv
<1>4. ASSUME NotStarted PROVE McpInv'
  <2>1. /\ provider' = [provider EXCEPT !.at = "fail"] /\ provider.at = "wait"
        /\ UNCHANGED <<served, ready, failed, stopEvent, clients, mcpCall>>
        /\ stopping' = [stopping EXCEPT ![Current] = TRUE]
        /\ closing' = [closing EXCEPT ![Current] = "look"]
    BY <1>4 DEF NotStarted, CloseClient, mcpThread
  <2>2. provider'.at = "fail" /\ provider'.server = provider.server
    BY <1>1, <2>1 DEF McpTypeOK
  <2>3. AtServer' /\ \A n : Passed(n)' <=> Passed(n)
    BY <2>1, <2>2 DEF AtServer, Passed
  <2>4. /\ stopping'[Current] /\ closing'[Current] = "look"
        /\ \A n \in Names : n # Current => stopping'[n] = stopping[n] /\ closing'[n] = closing[n]
    BY <1>1, <2>1 DEF McpTypeOK
  <2>5. McpTypeOK'
    BY <1>1, <2>1 DEF McpTypeOK
  <2> QED BY <1>1, <2>1, <2>2, <2>3, <2>4, <2>5 DEF McpInv
<1>5. ASSUME GiveUp PROVE McpInv'
  <2>1. /\ provider' = Following /\ closing[Current] = "done"
        /\ UNCHANGED <<served, ready, failed, stopEvent, stopping, closing, clients, mcpCall>>
    BY <1>5 DEF GiveUp, mcpThread
  <2>2. /\ provider' \in [at : {"start", "wait", "fail", "up", "down"}, server : 0..Len(Servers)]
        /\ AtServer' => provider'.server \in Positions
        /\ provider'.at # "down"
        /\ \A s \in Names : Passed(s)' => Passed(s) \/ s = Current
    BY <1>1, <2>1, FollowingPasses
  <2>3. McpTypeOK'
    BY <1>1, <2>1, <2>2 DEF McpTypeOK
  <2>4. stopping[Current]
    BY <1>1, <2>1 DEF McpInv
  <2>5. \A s \in Names : Passed(s)' => s \in clients' \/ stopping'[s]
    BY <2>1, <2>2, <2>4 DEF McpInv
  <2> QED BY <2>1, <2>2, <2>3, <2>5 DEF McpInv
<1> QED BY <1>2, <1>3, <1>4, <1>5

LEMMA CloseKeepsStops ==
  ASSUME McpInv, CloseNext
  PROVE  McpInv'
<1> DEFINE open == {k \in Positions : Servers[k] \in clients}
           last == CHOOSE k \in open : \A o \in open : o <= k
<1>1. /\ McpTypeOK /\ provider.at = "up" /\ \A s \in Names : closing[s] # "look"
      /\ UNCHANGED <<served, ready, failed, stopEvent, mcpCall>>
  BY DEF CloseNext, mcpThread, McpInv
<1>2. \A s \in Names : Passed(s)
  BY <1>1 DEF Passed
<1>3. CASE open = {}
  <2>1. provider' = [at |-> "down", server |-> 0] /\ UNCHANGED <<stopping, closing, clients>>
    BY <1>3 DEF CloseNext
  <2>2. clients = {}
    BY <1>1, <1>3, PlacesOfServers DEF McpTypeOK
  <2>3. \A s \in Names : closing[s] = "done" /\ stopping[s]
    BY <1>1, <1>2, <2>2 DEF McpInv, McpTypeOK
  <2>4. 0 \in 0..Len(Servers)
    BY PlacesOfServers
  <2>5. McpTypeOK'
    BY <1>1, <2>1, <2>4 DEF McpTypeOK
  <2> QED BY <1>1, <2>1, <2>2, <2>3, <2>5 DEF McpInv, AtServer
<1>4. CASE open # {}
  <2>1. /\ CloseClient(Servers[last]) /\ clients' = clients \ {Servers[last]}
        /\ UNCHANGED provider
    BY <1>4 DEF CloseNext
  <2>2. last \in open
    <3>1. open \subseteq 0..Len(Servers) /\ Len(Servers) \in Nat
      BY PlacesOfServers
    <3> HIDE DEF open
    <3>2. \E k \in open : \A o \in open : o <= k
      BY <1>4, <3>1, GreatestIn
    <3> QED BY <3>2, Zenon
  <2>3. Servers[last] \in Names
    BY <2>2, PlacesOfServers
  <2> DEFINE s == Servers[last]
  <2>4. stopping' = [stopping EXCEPT ![s] = TRUE] /\ closing' = [closing EXCEPT ![s] = "look"]
    BY <2>1 DEF CloseClient
  <2> HIDE DEF last, open
  <2>5. s \in Names /\ clients' = clients \ {s} /\ provider' = provider
    BY <2>1, <2>3
  <2> HIDE DEF s
  <2>6. /\ stopping'[s] /\ closing'[s] = "look"
        /\ \A n \in Names : n # s => stopping'[n] = stopping[n] /\ closing'[n] = closing[n]
    BY <1>1, <2>4, <2>5 DEF McpTypeOK
  <2>7. McpTypeOK'
    BY <1>1, <2>4, <2>5 DEF McpTypeOK
  <2>8. AtServer' = AtServer /\ \A n : Passed(n)' = Passed(n)
    BY <2>5 DEF AtServer, Passed
  <2>9. \A n \in Names : Passed(n)' => n \in clients' \/ stopping'[n]
    BY <2>5, <2>6, <2>8 DEF McpInv
  <2>10. /\ \A n \in Names : stopping'[n] <=> closing'[n] # "no"
         /\ \A n \in Names : stopEvent'[n] => stopping'[n]
         /\ \A n \in Names : closing'[n] = "done" /\ served'[n] = "serving" => stopEvent'[n]
    BY <1>1, <2>6 DEF McpInv
  <2> QED BY <1>1, <2>5, <2>7, <2>8, <2>9, <2>10 DEF McpInv
<1> QED BY <1>3, <1>4

\* For any servers, and however the opening of a session, its publication, the look of
\* close() at it and the calls of its tools interleave: no stop falls between the flag and
\* the event, none comes unasked, and a provider that is down has told every client.
THEOREM NoStopIsLost == McpSpec => []StopsAreTold
<1>1. McpInv /\ [McpNext]_mcpVars => McpInv'
  <2> SUFFICES ASSUME McpInv, [McpNext]_mcpVars PROVE McpInv'
    OBVIOUS
  <2>1. ASSUME NEW s \in Names,
               OpenClient(s) \/ Publish(s) \/ ServeOrStop(s) \/ EndServe(s) \/ SignalStop(s)
                 \/ CallTool(s) \/ EndCall(s) \/ TimeOutCall(s)
        PROVE  McpInv'
    BY <2>1, ThreadKeepsStops, SignalKeepsStops, CallsKeepStops
  <2>2. CASE StartClient \/ Started \/ NotStarted \/ GiveUp \/ CloseNext
    BY <2>2, DiscoverKeepsStops, CloseKeepsStops
  <2>3. CASE UNCHANGED mcpVars
    BY <2>3 DEF mcpVars, mcpThread, McpInv, McpTypeOK, AtServer, Passed
  <2> QED BY <2>1, <2>2, <2>3 DEF McpNext
<1>2. McpInv => StopsAreTold
  BY DEF McpInv, StopsAreTold
<1> QED BY <1>1, <1>2, McpInvHolds, PTL DEF McpSpec
=============================================================================
