------------------------- MODULE Interfaces_proofs --------------------------
(***************************************************************************)
(* What of a turn is seen from outside (its events and the screen, their   *)
(* replay, the search of other sessions, the interactive session, the      *)
(* texts, pairings and notices of the Weixin gateway) and the bash tool,   *)
(* proved one by one for any number of turns, texts, users and crashes:    *)
(* each section has the inductive invariant of a component, one lemma for  *)
(* each of its actions, and the theorems about its specification.  The     *)
(* first two sections are facts that other modules need as well.           *)
(***************************************************************************)
EXTENDS BashTool, InteractiveCli, RunEvents, OfflineReplay, SessionRecall,
        WeixinOutbox, WeixinPairing, WeixinProgress, SequenceTheorems,
        FiniteSetTheorems, TLAPS

-----------------------------------------------------------------------------
(* Numbers and elements *)

\* A set of numbers up to n that is not empty has a greatest one.
LEMMA GreatestExists ==
  ASSUME NEW n \in Nat, NEW S, S \subseteq 0..n, S # {}
  PROVE  Max(S) \in S /\ \A y \in S : y <= Max(S)
<1> DEFINE below == {u \in 0..n : \E y \in S : u <= y}
           next == [u \in below |-> u + 1]
<1>1. \E x \in S : \A y \in S : x >= y
  <2>1. SUFFICES ASSUME \A x \in S : \E y \in S : x < y PROVE FALSE
    BY SMT
  <2>2. IsFiniteSet(below)
    <3>1. IsFiniteSet(0..n) /\ below \subseteq 0..n
      BY FS_Interval
    <3> QED BY <3>1, FS_Subset
  <2>3. \A u \in below : u + 1 \in below
    BY <2>1
  <2>4. 0 \in below
    <3>1. PICK y \in S : y \in 0..n
      OBVIOUS
    <3> QED BY <3>1
  <2>5. next \in Injection(below, below)
    BY <2>3 DEF Injection, IsInjective
  <2> HIDE DEF below, next
  <2>6. next \in Surjection(below, below)
    BY <2>2, <2>5, FS_Injection
  <2>7. PICK u \in below : next[u] = 0
    BY <2>4, <2>6 DEF Surjection
  <2> QED BY <2>7 DEF next, below
<1>2. Max(S) \in S /\ \A y \in S : Max(S) >= y
  BY <1>1, Zenon DEF Max
<1> QED BY <1>2

\* A set of numbers that is not empty has a least one.
LEMMA LeastExists ==
  ASSUME NEW ids, ids \subseteq Nat, NEW m \in ids
  PROVE  \E i \in ids : \A j \in ids : i <= j
<1> DEFINE S == {k \in 0..m : \A j \in ids : k <= j}
<1>1. S \subseteq 0..m /\ 0 \in S
  OBVIOUS
<1>2. Max(S) \in S /\ \A k \in S : k <= Max(S)
  <2> HIDE DEF S
  <2> QED BY <1>1, GreatestExists
<1>3. Max(S) + 1 \notin S /\ Max(S) \in Nat
  <2>1. Max(S) \in 0..m
    BY <1>1, <1>2
  <2> HIDE DEF S
  <2> QED BY <1>2, <2>1
<1> DEFINE g == Max(S)
<1> HIDE DEF g
<1>4. g \in 0..m /\ (\A j \in ids : g <= j) /\ g + 1 \notin S
  BY <1>2, <1>3 DEF g
<1>5. g \in ids
  <2> SUFFICES ASSUME g \notin ids PROVE FALSE
    OBVIOUS
  <2>1. \A j \in ids : g + 1 <= j
    BY <1>4
  <2>2. g + 1 \in 0..m
    BY <1>4, <2>1
  <2> QED BY <1>4, <2>1, <2>2
<1> QED BY <1>4, <1>5

\* What appending an element adds to the elements of a sequence.
LEMMA RangeOfAppend ==
  ASSUME NEW S, NEW s \in Seq(S), NEW e \in S
  PROVE  Range(Append(s, e)) = Range(s) \cup {e}
<1>1. DOMAIN Append(s, e) = DOMAIN s \cup {Len(s) + 1}
  OBVIOUS
<1>2. Append(s, e)[Len(s) + 1] = e /\ \A i \in DOMAIN s : Append(s, e)[i] = s[i]
  OBVIOUS
<1> QED BY <1>1, <1>2 DEF Range

\* The elements of a sequence are of its set.
LEMMA RangeIsOf ==
  ASSUME NEW S, NEW s \in Seq(S)
  PROVE  Range(s) \subseteq S
<1>1. DOMAIN s = 1..Len(s)
  BY LenProperties
<1>2. \A i \in 1..Len(s) : s[i] \in S
  BY ElementOfSeq
<1> QED BY <1>1, <1>2 DEF Range

-----------------------------------------------------------------------------
(* Folds *)

\* What holds of 0, and of i + 1 when it holds of i, holds of every number up to n:
\* as a fact about sets, by an injection of a finite set into itself.
LEMMA UpTo ==
  ASSUME NEW n \in Nat, NEW T, 0 \in T, \A i \in 0..(n - 1) : i \in T => i + 1 \in T
  PROVE  \A i \in 0..n : i \in T
<1> SUFFICES ASSUME NEW j \in 0..n, j \notin T PROVE FALSE
  OBVIOUS
<1> DEFINE below == {i \in 0..n : \A m \in 0..i : m \in T}
           next == [i \in below |-> i + 1]
<1>1. IsFiniteSet(below)
  <2>1. IsFiniteSet(0..n) /\ below \subseteq 0..n
    <3>1. 0 \in Int /\ n \in Int
      OBVIOUS
    <3> QED BY <3>1, FS_Interval
  <2> QED BY <2>1, FS_Subset
<1>2. 0 \in below
  OBVIOUS
<1>3. ASSUME NEW i \in below PROVE i + 1 \in below
  <2>1. i \in 0..n /\ i < j /\ i \in T /\ \A m \in 0..i : m \in T
    BY <1>3
  <2>2. i \in 0..(n - 1) /\ i + 1 \in 0..n
    BY <2>1
  <2>3. i + 1 \in T
    BY <2>1, <2>2
  <2>4. \A m \in 0..(i + 1) : m \in 0..i \/ m = i + 1
    BY <2>1
  <2> QED BY <2>1, <2>2, <2>3, <2>4
<1>4. next \in Injection(below, below)
  BY <1>3 DEF Injection, IsInjective
<1> HIDE DEF below, next
<1>5. next \in Surjection(below, below)
  BY <1>1, <1>4, FS_Injection
<1>6. PICK u \in below : next[u] = 0
  BY <1>2, <1>5 DEF Surjection
<1> QED BY <1>6 DEF next, below

IsFold(f, base, step, s) == f[0] = base /\ \A i \in 1..Len(s) : f[i] = step[f[i - 1]][s[i]]

\* A fold of a sequence exists, as a function of how much of it is folded, ...
LEMMA FoldExists ==
  ASSUME NEW A, NEW B, NEW base \in A, NEW step \in [A -> [B -> A]], NEW s \in Seq(B)
  PROVE  \E f \in [0..Len(s) -> A] : IsFold(f, base, step, s)
<1> DEFINE Folds(k, f) == f[0] = base /\ \A i \in 1..k : f[i] = step[f[i - 1]][s[i]]
           T == {k \in 0..Len(s) : \E f \in [0..k -> A] : Folds(k, f)}
<1>0. Len(s) \in Nat
  BY LenProperties
<1>1. 0 \in T
  <2> DEFINE f == [k \in 0..0 |-> base]
  <2>1. f \in [0..0 -> A] /\ Folds(0, f)
    OBVIOUS
  <2>2. 0 \in 0..Len(s)
    BY <1>0
  <2> HIDE DEF f
  <2>3. \E g \in [0..0 -> A] : Folds(0, g)
    BY <2>1, Zenon
  <2> HIDE DEF Folds
  <2> QED BY <2>2, <2>3
<1>2. ASSUME NEW k \in 0..(Len(s) - 1), k \in T PROVE k + 1 \in T
  <2>1. PICK f \in [0..k -> A] : Folds(k, f)
    BY <1>2
  <2>2. k \in Nat /\ k + 1 \in 1..Len(s)
    BY <1>0
  <2>3. s[k + 1] \in B
    BY <2>2, ElementOfSeq
  <2>4. step[f[k]][s[k + 1]] \in A
    BY <2>2, <2>3
  <2> DEFINE g == [i \in 0..(k + 1) |-> IF i = k + 1 THEN step[f[k]][s[k + 1]] ELSE f[i]]
  <2>5. g \in [0..(k + 1) -> A]
    BY <2>2, <2>4
  <2>6. \A i \in 0..k : g[i] = f[i]
    BY <2>2
  <2>7. g[k + 1] = step[f[k]][s[k + 1]]
    BY <2>2
  <2> HIDE DEF g
  <2>8. Folds(k + 1, g)
    <3>1. g[0] = base
      <4>1. 0 \in 0..k
        BY <2>2
      <4> QED BY <2>1, <2>6, <4>1
    <3>2. ASSUME NEW i \in 1..(k + 1) PROVE g[i] = step[g[i - 1]][s[i]]
      <4>1. CASE i = k + 1
        <5>1. i - 1 = k /\ g[k] = f[k]
          BY <2>2, <2>6, <4>1
        <5> QED BY <2>7, <4>1, <5>1
      <4>2. CASE i # k + 1
        <5>1. i \in 1..k /\ i \in 0..k /\ i - 1 \in 0..k
          BY <2>2, <4>2
        <5> QED BY <2>1, <2>6, <5>1
      <4> QED BY <4>1, <4>2
    <3> QED BY <3>1, <3>2
  <2>9. k + 1 \in 0..Len(s)
    BY <1>0, <2>2
  <2> QED BY <2>5, <2>8, <2>9
<1> HIDE DEF T
<1>3. \A i \in 0..Len(s) : i \in T
  BY <1>0, <1>1, <1>2, UpTo, Zenon
<1>4. Len(s) \in T
  BY <1>0, <1>3
<1> QED BY <1>4 DEF T, IsFold

\* ... and is the same for what a longer sequence begins with.
GoOnAlike(f, g, n) == f[0] = g[0] /\ \A i \in 1..n : f[i - 1] = g[i - 1] => f[i] = g[i]
LEMMA FoldIsOne ==
  ASSUME NEW n \in Nat, NEW f, NEW g, GoOnAlike(f, g, n)
  PROVE  \A i \in 0..n : f[i] = g[i]
<1> DEFINE T == {i \in 0..n : f[i] = g[i]}
<1>1. 0 \in T
  BY DEF GoOnAlike
<1>2. ASSUME NEW i \in 0..(n - 1), i \in T PROVE i + 1 \in T
  <2>1. i + 1 \in 1..n /\ (i + 1) - 1 = i /\ i + 1 \in 0..n
    OBVIOUS
  <2> QED BY <1>2, <2>1 DEF GoOnAlike
<1> HIDE DEF T
<1>3. \A i \in 0..n : i \in T
  BY <1>1, <1>2, UpTo, Zenon
<1> QED BY <1>3 DEF T

-----------------------------------------------------------------------------
(* The outbox (WeixinOutbox) *)

(***************************************************************************)
(* For any number of texts and of draining threads, any limits, and a      *)
(* store that may fail: the inductive invariant adds to the properties     *)
(* what a row's count of attempts is worth at each place the row can be:   *)
(* claimed and not yet sent, being sent, waiting for another attempt, or   *)
(* given up.                                                               *)
(***************************************************************************)

\* A claimed row has an attempt that is not yet a send.
ClaimedIsUnsent ==
  \A d \in Drainers : \A k \in claimed[d] : sends[k] + 1 <= attempts[k]

\* While a row is being sent, and when it waits for the next attempt, each of
\* its attempts is a send or was cut short by a restart.
SentIsCounted ==
  /\ \A d \in Drainers :
       sending[d] # NoText => attempts[sending[d]] <= sends[sending[d]] + restarts
  /\ \A k \in Deliveries :
       outbox[k] # "sending" => attempts[k] <= sends[k] + restarts

\* A row that waits has an attempt left.
PendingHasAttempt ==
  \A k \in Deliveries :
    outbox[k] \in {"absent", "pending"} => attempts[k] < MaxAttempts + restarts + retries[k]

\* The history of refusals knows of a refusal that is not yet recorded.
RefusalIsKnown ==
  \A d \in Drainers : sendAnswer[d] = "refused" => sending[d] \in declined

\* Only exhausted or refused rows are given up.
DeadIsExhausted ==
  \A k \in Deliveries : outbox[k] = "dead_letter" /\ k \notin declined => attempts[k] >= MaxAttempts

\* A process that is down holds nothing, and is restarted once more.
DownHoldsNothing ==
  ~gatewayUp => /\ \A d \in Drainers : claimed[d] = {} /\ sending[d] = NoText
              /\ restarts < MaxRestarts

OutboxInv ==
  /\ OutboxTypeOK
  /\ OneHolder
  /\ \A k \in Deliveries : sends[k] <= attempts[k]
  /\ \A k \in Deliveries : attempts[k] <= sends[k] + restarts + 1
  /\ ClaimedIsUnsent
  /\ SentIsCounted
  /\ PendingHasAttempt
  /\ AttemptsAreBounded
  /\ RefusalIsKnown
  /\ DeadIsExhausted
  /\ DownHoldsNothing

-----------------------------------------------------------------------------
LEMMA OutboxInitInv == OutboxInit => OutboxInv
<1>. SUFFICES ASSUME OutboxInit PROVE OutboxInv
  OBVIOUS
<1>. USE OutboxAssumption DEF OutboxAssumption
<1>1. OutboxTypeOK
  BY DEF OutboxInit, OutboxTypeOK, OutboxStatuses, SendAnswers, NoClaims, NothingSent, NoneAnswered
<1>2. OneHolder
  BY DEF OutboxInit, OneHolder, InHands, NoClaims, NothingSent
<1>3. /\ ClaimedIsUnsent /\ SentIsCounted /\ PendingHasAttempt /\ AttemptsAreBounded
      /\ RefusalIsKnown /\ DeadIsExhausted /\ DownHoldsNothing
      /\ \A k \in Deliveries : sends[k] <= attempts[k] /\ attempts[k] <= sends[k] + restarts + 1
  BY DEF OutboxInit, ClaimedIsUnsent, SentIsCounted, PendingHasAttempt, AttemptsAreBounded,
     RefusalIsKnown, DeadIsExhausted, DownHoldsNothing, NoClaims, NothingSent, NoneAnswered
<1>. QED
  BY <1>1, <1>2, <1>3 DEF OutboxInv

\* A new row is pending with all its attempts left.
LEMMA EnqueueInv ==
  ASSUME NEW k \in Deliveries, OutboxInv, Enqueue(k)
  PROVE  OutboxInv'
<1>. USE OutboxAssumption DEF OutboxAssumption, OutboxInv, outboxRows, threads, history
<1>1. OutboxTypeOK'
  BY DEF Enqueue, OutboxTypeOK, OutboxStatuses, SendAnswers, NoClaims, NothingSent, NoneAnswered
<1>. USE DEF OutboxTypeOK
<1>2. OneHolder'
  BY DEF Enqueue, OneHolder, InHands, NoClaims, NothingSent
<1>3. (\A r \in Deliveries : sends[r] <= attempts[r] /\ attempts[r] <= sends[r] + restarts + 1)'
  BY DEF Enqueue, OneHolder, InHands, ClaimedIsUnsent, SentIsCounted
<1>4. (ClaimedIsUnsent /\ SentIsCounted)'
  BY DEF Enqueue, OneHolder, InHands, ClaimedIsUnsent, SentIsCounted, NoClaims, NothingSent
<1>5. (PendingHasAttempt /\ AttemptsAreBounded)'
  BY DEF Enqueue, OneHolder, InHands, PendingHasAttempt, AttemptsAreBounded
<1>6. (RefusalIsKnown /\ DeadIsExhausted /\ DownHoldsNothing)'
  BY DEF Enqueue, OneHolder, InHands, RefusalIsKnown, DeadIsExhausted, DownHoldsNothing, NoClaims, NothingSent, NoneAnswered
<1>. QED
  BY <1>1, <1>2, <1>3, <1>4, <1>5, <1>6

\* A claim takes pending rows only, which nobody else holds.
LEMMA ClaimInv ==
  ASSUME NEW d \in Drainers, OutboxInv, Claim(d)
  PROVE  OutboxInv'
<1>. USE OutboxAssumption DEF OutboxAssumption, OutboxInv, outboxRows, threads, history
<1>1. OutboxTypeOK'
  BY DEF Claim, Batches, Due, OutboxTypeOK, OutboxStatuses, SendAnswers, NoClaims, NothingSent, NoneAnswered
<1>. USE DEF OutboxTypeOK
<1>2. OneHolder'
  BY DEF Claim, Batches, Due, OneHolder, InHands, NoClaims, NothingSent
<1>3. (\A r \in Deliveries : sends[r] <= attempts[r] /\ attempts[r] <= sends[r] + restarts + 1)'
  BY DEF Claim, Batches, Due, OneHolder, InHands, ClaimedIsUnsent, SentIsCounted
<1>4. (ClaimedIsUnsent /\ SentIsCounted)'
  BY DEF Claim, Batches, Due, OneHolder, InHands, ClaimedIsUnsent, SentIsCounted, NoClaims, NothingSent
<1>5. (PendingHasAttempt /\ AttemptsAreBounded)'
  BY DEF Claim, Batches, Due, OneHolder, InHands, PendingHasAttempt, AttemptsAreBounded
<1>6. (RefusalIsKnown /\ DeadIsExhausted /\ DownHoldsNothing)'
  BY DEF Claim, Batches, Due, OneHolder, InHands, RefusalIsKnown, DeadIsExhausted, DownHoldsNothing, NoClaims, NothingSent, NoneAnswered
<1>. QED
  BY <1>1, <1>2, <1>3, <1>4, <1>5, <1>6

\* A send turns a claim of its thread into a send.
LEMMA SendInv ==
  ASSUME NEW d \in Drainers, NEW k \in Deliveries, OutboxInv, Send(d, k)
  PROVE  OutboxInv'
<1>. USE OutboxAssumption DEF OutboxAssumption, OutboxInv, outboxRows, threads, history
<1>1. OutboxTypeOK'
  BY DEF Send, OutboxTypeOK, OutboxStatuses, SendAnswers, NoClaims, NothingSent, NoneAnswered
<1>. USE DEF OutboxTypeOK
<1>2. OneHolder'
  BY DEF Send, OneHolder, InHands, NoClaims, NothingSent
<1>3. (\A r \in Deliveries : sends[r] <= attempts[r] /\ attempts[r] <= sends[r] + restarts + 1)'
  BY DEF Send, OneHolder, InHands, ClaimedIsUnsent, SentIsCounted
<1>4. (ClaimedIsUnsent /\ SentIsCounted)'
  BY DEF Send, OneHolder, InHands, ClaimedIsUnsent, SentIsCounted, NoClaims, NothingSent
<1>5. (PendingHasAttempt /\ AttemptsAreBounded)'
  BY DEF Send, OneHolder, InHands, PendingHasAttempt, AttemptsAreBounded
<1>6. (RefusalIsKnown /\ DeadIsExhausted /\ DownHoldsNothing)'
  BY DEF Send, OneHolder, InHands, RefusalIsKnown, DeadIsExhausted, DownHoldsNothing, NoClaims, NothingSent, NoneAnswered
<1>. QED
  BY <1>1, <1>2, <1>3, <1>4, <1>5, <1>6

\* A marked row leaves the hands of its thread.
LEMMA MarkInv ==
  ASSUME NEW d \in Drainers, OutboxInv, Mark(d)
  PROVE  OutboxInv'
<1>. USE OutboxAssumption DEF OutboxAssumption, OutboxInv, outboxRows, threads, history
<1>1. OutboxTypeOK'
  BY DEF Mark, MarkedAs, Exhausted, OutboxTypeOK, OutboxStatuses, SendAnswers, NoClaims, NothingSent, NoneAnswered
<1>. USE DEF OutboxTypeOK
<1>2. OneHolder'
  BY DEF Mark, MarkedAs, Exhausted, OneHolder, InHands, NoClaims, NothingSent
<1>3. (\A r \in Deliveries : sends[r] <= attempts[r] /\ attempts[r] <= sends[r] + restarts + 1)'
  BY DEF Mark, MarkedAs, Exhausted, OneHolder, InHands, ClaimedIsUnsent, SentIsCounted
<1>4. (ClaimedIsUnsent /\ SentIsCounted)'
  BY DEF Mark, MarkedAs, Exhausted, OneHolder, InHands, ClaimedIsUnsent, SentIsCounted, NoClaims, NothingSent
<1>5. (PendingHasAttempt /\ AttemptsAreBounded)'
  BY DEF Mark, MarkedAs, Exhausted, OneHolder, InHands, PendingHasAttempt, AttemptsAreBounded
<1>6. (RefusalIsKnown /\ DeadIsExhausted /\ DownHoldsNothing)'
  BY DEF Mark, MarkedAs, Exhausted, OneHolder, InHands, RefusalIsKnown, DeadIsExhausted, DownHoldsNothing, NoClaims, NothingSent, NoneAnswered
<1>. QED
  BY <1>1, <1>2, <1>3, <1>4, <1>5, <1>6

\* A drain that raises drops its claims and leaves the rows as they are.
LEMMA MarkRaisesInv ==
  ASSUME NEW d \in Drainers, OutboxInv, MarkRaises(d)
  PROVE  OutboxInv'
<1>. USE OutboxAssumption DEF OutboxAssumption, OutboxInv, outboxRows, threads, history
<1>1. OutboxTypeOK'
  BY DEF MarkRaises, OutboxTypeOK, OutboxStatuses, SendAnswers, NoClaims, NothingSent, NoneAnswered
<1>. USE DEF OutboxTypeOK
<1>2. OneHolder'
  BY DEF MarkRaises, OneHolder, InHands, NoClaims, NothingSent
<1>3. (\A r \in Deliveries : sends[r] <= attempts[r] /\ attempts[r] <= sends[r] + restarts + 1)'
  BY DEF MarkRaises, OneHolder, InHands, ClaimedIsUnsent, SentIsCounted
<1>4. (ClaimedIsUnsent /\ SentIsCounted)'
  BY DEF MarkRaises, OneHolder, InHands, ClaimedIsUnsent, SentIsCounted, NoClaims, NothingSent
<1>5. (PendingHasAttempt /\ AttemptsAreBounded)'
  BY DEF MarkRaises, OneHolder, InHands, PendingHasAttempt, AttemptsAreBounded
<1>6. (RefusalIsKnown /\ DeadIsExhausted /\ DownHoldsNothing)'
  BY DEF MarkRaises, OneHolder, InHands, RefusalIsKnown, DeadIsExhausted, DownHoldsNothing, NoClaims, NothingSent, NoneAnswered
<1>. QED
  BY <1>1, <1>2, <1>3, <1>4, <1>5, <1>6

\* Nothing but time passes.
LEMMA BackoffEndsInv ==
  ASSUME NEW k \in Deliveries, OutboxInv, BackoffEnds(k)
  PROVE  OutboxInv'
<1>. USE OutboxAssumption DEF OutboxAssumption, OutboxInv, outboxRows, threads, history
<1>1. OutboxTypeOK'
  BY DEF BackoffEnds, OutboxTypeOK, OutboxStatuses, SendAnswers, NoClaims, NothingSent, NoneAnswered
<1>. USE DEF OutboxTypeOK
<1>2. OneHolder'
  BY DEF BackoffEnds, OneHolder, InHands, NoClaims, NothingSent
<1>3. (\A r \in Deliveries : sends[r] <= attempts[r] /\ attempts[r] <= sends[r] + restarts + 1)'
  BY DEF BackoffEnds, OneHolder, InHands, ClaimedIsUnsent, SentIsCounted
<1>4. (ClaimedIsUnsent /\ SentIsCounted)'
  BY DEF BackoffEnds, OneHolder, InHands, ClaimedIsUnsent, SentIsCounted, NoClaims, NothingSent
<1>5. (PendingHasAttempt /\ AttemptsAreBounded)'
  BY DEF BackoffEnds, OneHolder, InHands, PendingHasAttempt, AttemptsAreBounded
<1>6. (RefusalIsKnown /\ DeadIsExhausted /\ DownHoldsNothing)'
  BY DEF BackoffEnds, OneHolder, InHands, RefusalIsKnown, DeadIsExhausted, DownHoldsNothing, NoClaims, NothingSent, NoneAnswered
<1>. QED
  BY <1>1, <1>2, <1>3, <1>4, <1>5, <1>6

\* A retried dead letter has one attempt more.
LEMMA RetryDeadLetterInv ==
  ASSUME NEW k \in Deliveries, OutboxInv, RetryDeadLetter(k)
  PROVE  OutboxInv'
<1>. USE OutboxAssumption DEF OutboxAssumption, OutboxInv, outboxRows, threads, history
<1>1. OutboxTypeOK'
  BY DEF RetryDeadLetter, OutboxTypeOK, OutboxStatuses, SendAnswers, NoClaims, NothingSent, NoneAnswered
<1>. USE DEF OutboxTypeOK
<1>2. OneHolder'
  BY DEF RetryDeadLetter, OneHolder, InHands, NoClaims, NothingSent
<1>3. (\A r \in Deliveries : sends[r] <= attempts[r] /\ attempts[r] <= sends[r] + restarts + 1)'
  BY DEF RetryDeadLetter, OneHolder, InHands, ClaimedIsUnsent, SentIsCounted
<1>4. (ClaimedIsUnsent /\ SentIsCounted)'
  BY DEF RetryDeadLetter, OneHolder, InHands, ClaimedIsUnsent, SentIsCounted, NoClaims, NothingSent
<1>5. (PendingHasAttempt /\ AttemptsAreBounded)'
  BY DEF RetryDeadLetter, OneHolder, InHands, PendingHasAttempt, AttemptsAreBounded
<1>6. (RefusalIsKnown /\ DeadIsExhausted /\ DownHoldsNothing)'
  BY DEF RetryDeadLetter, OneHolder, InHands, RefusalIsKnown, DeadIsExhausted, DownHoldsNothing, NoClaims, NothingSent, NoneAnswered
<1>. QED
  BY <1>1, <1>2, <1>3, <1>4, <1>5, <1>6

\* A crash drops every claim.
LEMMA CrashInv ==
  ASSUME OutboxInv, Crash
  PROVE  OutboxInv'
<1>. USE OutboxAssumption DEF OutboxAssumption, OutboxInv, outboxRows, threads, history
<1>1. OutboxTypeOK'
  BY DEF Crash, OutboxTypeOK, OutboxStatuses, SendAnswers, NoClaims, NothingSent, NoneAnswered
<1>. USE DEF OutboxTypeOK
<1>2. OneHolder'
  BY DEF Crash, OneHolder, InHands, NoClaims, NothingSent
<1>3. (\A r \in Deliveries : sends[r] <= attempts[r] /\ attempts[r] <= sends[r] + restarts + 1)'
  BY DEF Crash, OneHolder, InHands, ClaimedIsUnsent, SentIsCounted
<1>4. (ClaimedIsUnsent /\ SentIsCounted)'
  BY DEF Crash, OneHolder, InHands, ClaimedIsUnsent, SentIsCounted, NoClaims, NothingSent
<1>5. (PendingHasAttempt /\ AttemptsAreBounded)'
  BY DEF Crash, OneHolder, InHands, PendingHasAttempt, AttemptsAreBounded
<1>6. (RefusalIsKnown /\ DeadIsExhausted /\ DownHoldsNothing)'
  BY DEF Crash, OneHolder, InHands, RefusalIsKnown, DeadIsExhausted, DownHoldsNothing, NoClaims, NothingSent, NoneAnswered
<1>. QED
  BY <1>1, <1>2, <1>3, <1>4, <1>5, <1>6

\* No thread holds a row when the gateway is started again.
LEMMA RecoverInv ==
  ASSUME OutboxInv, Recover
  PROVE  OutboxInv'
<1>. USE OutboxAssumption DEF OutboxAssumption, OutboxInv, outboxRows, threads, history
<1>1. OutboxTypeOK'
  BY DEF Recover, Interrupted, DownHoldsNothing, OutboxTypeOK, OutboxStatuses, SendAnswers, NoClaims, NothingSent, NoneAnswered
<1>. USE DEF OutboxTypeOK
<1>2. OneHolder'
  BY DEF Recover, Interrupted, DownHoldsNothing, OneHolder, InHands, NoClaims, NothingSent
<1>3. (\A r \in Deliveries : sends[r] <= attempts[r] /\ attempts[r] <= sends[r] + restarts + 1)'
  BY DEF Recover, Interrupted, OneHolder, InHands, ClaimedIsUnsent, SentIsCounted
<1>4. (ClaimedIsUnsent /\ SentIsCounted)'
  BY DEF Recover, Interrupted, OneHolder, InHands, ClaimedIsUnsent, SentIsCounted, NoClaims, NothingSent
<1>5. (PendingHasAttempt /\ AttemptsAreBounded)'
  BY DEF Recover, Interrupted, OneHolder, InHands, PendingHasAttempt, AttemptsAreBounded
<1>6. (RefusalIsKnown /\ DeadIsExhausted /\ DownHoldsNothing)'
  BY DEF Recover, Interrupted, OneHolder, InHands, RefusalIsKnown, DeadIsExhausted, DownHoldsNothing, NoClaims, NothingSent, NoneAnswered
<1>. QED
  BY <1>1, <1>2, <1>3, <1>4, <1>5, <1>6

LEMMA OutboxInvariant == OutboxSpec => []OutboxInv
<1>1. OutboxInv /\ [OutboxNext]_outboxVars => OutboxInv'
  <2>. SUFFICES ASSUME OutboxInv, [OutboxNext]_outboxVars PROVE OutboxInv'
    OBVIOUS
  <2>1. CASE UNCHANGED outboxVars
    BY <2>1 DEF outboxVars, outboxRows, threads, history, OutboxInv, OutboxTypeOK, OneHolder, InHands, ClaimedIsUnsent,
       SentIsCounted, PendingHasAttempt, AttemptsAreBounded, RefusalIsKnown, DeadIsExhausted,
       DownHoldsNothing
  <2>2. CASE \E d \in Drainers : DrainOutbox(d) \/ MarkRaises(d)
    BY <2>2, ClaimInv, SendInv, MarkInv, MarkRaisesInv DEF DrainOutbox
  <2>3. CASE \E k \in Deliveries : Enqueue(k) \/ BackoffEnds(k) \/ RetryDeadLetter(k)
    BY <2>3, EnqueueInv, BackoffEndsInv, RetryDeadLetterInv
  <2>4. CASE Crash \/ Recover
    BY <2>4, CrashInv, RecoverInv
  <2>. QED
    BY <2>1, <2>2, <2>3, <2>4 DEF OutboxNext
<1>. QED
  BY <1>1, OutboxInitInv, PTL DEF OutboxSpec

-----------------------------------------------------------------------------
\* Every variable keeps its type.
THEOREM OutboxTypes == OutboxSpec => []OutboxTypeOK
<1>1. OutboxInv => OutboxTypeOK
  BY DEF OutboxInv
<1>. QED
  BY <1>1, OutboxInvariant, PTL

\* Any number of threads may drain the outbox at once: no row is ever in the
\* hands of two of them, and no thread sends a row the table lets another claim.
THEOREM ExclusiveClaims == OutboxSpec => []OneHolder
<1>1. OutboxInv => OneHolder
  BY DEF OutboxInv
<1>. QED
  BY <1>1, OutboxInvariant, PTL

\* Attempts and sends of a row differ by what restarts cut short, and by the
\* claim that is not yet sent.
THEOREM AttemptsCountSends == OutboxSpec => []AttemptsAreSends
<1>1. ASSUME OutboxInv, NEW k \in Deliveries
      PROVE  /\ sends[k] <= attempts[k]
             /\ attempts[k] <= sends[k] + restarts + IF outbox[k] = "sending" THEN 1 ELSE 0
  <2>1. CASE outbox[k] = "sending"
    BY <1>1, <2>1 DEF OutboxInv
  <2>2. CASE outbox[k] # "sending"
    BY <1>1, <2>2 DEF OutboxInv, SentIsCounted, OutboxTypeOK
  <2>. QED
    BY <2>1, <2>2
<1>2. OutboxInv => AttemptsAreSends
  BY <1>1 DEF AttemptsAreSends
<1>. QED
  BY <1>2, OutboxInvariant, PTL

\* A text the service did not refuse is a dead letter only after MaxAttempts
\* attempts, of which at most the restarts were no sends.
THEOREM GivenUpLateEnough == OutboxSpec => []GivenUpLate
<1>1. ASSUME OutboxInv, NEW k \in Deliveries, outbox[k] = "dead_letter", k \notin declined
      PROVE  sends[k] + restarts >= MaxAttempts
  BY <1>1, OutboxAssumption DEF OutboxAssumption, OutboxInv, DeadIsExhausted, SentIsCounted, OutboxTypeOK
<1>2. OutboxInv => GivenUpLate
  BY <1>1 DEF GivenUpLate
<1>. QED
  BY <1>2, OutboxInvariant, PTL

\* No row is attempted for ever: restarts and manual retries buy one more
\* attempt each.
THEOREM AttemptsBound == OutboxSpec => []AttemptsAreBounded
<1>1. OutboxInv => AttemptsAreBounded
  BY DEF OutboxInv
<1>. QED
  BY <1>1, OutboxInvariant, PTL

\* No thread, restart or repeated enqueue takes a delivery back or sends a
\* delivered text again.
THEOREM DeliveredOnceForAll == OutboxSpec => DeliveredIsFinal
<1>. DEFINE Final == \A k \in Deliveries :
               outbox[k] = "delivered" => outbox'[k] = "delivered" /\ sends'[k] = sends[k]
<1>1. ASSUME OutboxInv, [OutboxNext]_outboxVars
      PROVE  Final
  <2>. SUFFICES ASSUME NEW k \in Deliveries, outbox[k] = "delivered"
                PROVE  outbox'[k] = "delivered" /\ sends'[k] = sends[k]
    OBVIOUS
  <2>. USE <1>1 DEF OutboxInv, OutboxTypeOK, outboxRows, threads, history
  <2>1. ASSUME NEW d \in Drainers, DrainOutbox(d) \/ MarkRaises(d)
        PROVE  outbox'[k] = "delivered" /\ sends'[k] = sends[k]
    <3>0. \A x \in InHands(d) : outbox[x] = "sending"
      BY <1>1 DEF OneHolder
    <3>1. k \notin claimed[d] /\ sending[d] # k
      <4>1. k \notin InHands(d)
        BY <3>0
      <4>. QED
        BY <4>1, OutboxAssumption DEF InHands
    <3>2. CASE Claim(d)
      BY <3>2 DEF Claim, Batches, Due
    <3>3. CASE \E r \in Deliveries : Send(d, r)
      BY <3>1, <3>3 DEF Send
    <3>4. CASE Mark(d)
      BY <3>1, <3>4 DEF Mark
    <3>5. CASE MarkRaises(d)
      BY <3>5 DEF MarkRaises
    <3>. QED
      BY <2>1, <3>2, <3>3, <3>4, <3>5 DEF DrainOutbox
  <2>2. ASSUME NEW r \in Deliveries, Enqueue(r) \/ BackoffEnds(r) \/ RetryDeadLetter(r)
        PROVE  outbox'[k] = "delivered" /\ sends'[k] = sends[k]
    BY <2>2 DEF Enqueue, BackoffEnds, RetryDeadLetter
  <2>3. CASE Crash \/ Recover
    BY <2>3 DEF Crash, Recover, Interrupted
  <2>4. CASE UNCHANGED outboxVars
    BY <2>4 DEF outboxVars
  <2>. QED
    BY <2>1, <2>2, <2>3, <2>4 DEF OutboxNext
<1>2. OutboxInv /\ [OutboxNext]_outboxVars => [Final]_outboxVars
  BY <1>1
<1>. QED
  BY <1>2, OutboxInvariant, PTL DEF OutboxSpec, DeliveredIsFinal

-----------------------------------------------------------------------------
(* Pairing (WeixinPairing) *)

\* What a user was told holds of a file: he is approved, or the code is his.
Holds(u, c, file) == u \in file.approved \/ c \in CodesOf(u, file)

\* A file that takes nothing of another back, and where a user has one code.
TakesOver(file, before) ==
  /\ before.approved \subseteq file.approved
  /\ \A u, c : Holds(u, c, before) => Holds(u, c, file)
OneCodeEach(file) ==
  \A c, d \in DOMAIN file.pending : file.pending[c] = file.pending[d] => c = d

Writes(w) == rewriting[w].at \in {"writes", "emptied"}
WriterIsSound(w) ==
  LET data == rewriting[w].data IN
  /\ ~data.torn /\ TakesOver(data, pairing) /\ OneCodeEach(data)
  /\ w = "gateway" => Holds(rewriting[w].user, rewriting[w].code, data)
  /\ w = "operator" => rewriting[w].user \in data.approved
TellerIsSound(w) ==
  /\ w = "gateway" => Holds(rewriting[w].user, rewriting[w].code, pairing)
  /\ w = "operator" => rewriting[w].user \in pairing.approved

\* As long as nothing has met or was cut in two: the file holds what was told, and who
\* writes, of whom there is one, only adds to it.
Undisturbed ==
  /\ \A v, w \in Rewriters : Writes(v) /\ Writes(w) => v = w
  /\ pairing.torn => \E w \in Rewriters : rewriting[w].at = "emptied"
  /\ \A w \in Rewriters : Writes(w) => WriterIsSound(w)
  /\ \A w \in Rewriters : rewriting[w].at = "tells" => TellerIsSound(w)
  /\ OneCodeEach(pairing)
  /\ confirmed \subseteq pairing.approved
  /\ \A u, c : <<u, c>> \in toldCodes => Holds(u, c, pairing)

UsersAreKnown ==
  /\ \A w \in Rewriters : rewriting[w].at # "none" => rewriting[w].user \in Strangers
  /\ rewriting["gateway"].at \in {"writes", "emptied", "tells"} =>
       rewriting["gateway"].code \in PairingCodes

PairingInv == PairingTypeOK /\ UsersAreKnown /\ (disturbed \/ Undisturbed)

LEMMA NoPairingType ==
  NoPairing \in PairingFile /\ AtRest.data = NoPairing /\ NoPairing.torn = FALSE
BY DEF NoPairing, PairingFile, AtRest

LEMMA LoadedType ==
  ASSUME PairingTypeOK
  PROVE  Loaded \in PairingFile /\ ~Loaded.torn /\ (~pairing.torn => Loaded = pairing)
BY NoPairingType DEF PairingTypeOK, PairingFile, Loaded

\* One more code, for a user who has none.
LEMMA OneMoreCode ==
  ASSUME NEW file \in PairingFile, NEW u \in Strangers, NEW c \in PairingCodes,
         c \notin DOMAIN file.pending
  PROVE  LET new == [file EXCEPT !.pending =
                       [d \in DOMAIN @ \cup {c} |-> IF d = c THEN u ELSE @[d]]] IN
         /\ new \in PairingFile /\ new.torn = file.torn /\ TakesOver(new, file)
         /\ c \in CodesOf(u, new)
         /\ OneCodeEach(file) /\ CodesOf(u, file) = {} => OneCodeEach(new)
<1> DEFINE p == [d \in DOMAIN file.pending \cup {c} |-> IF d = c THEN u ELSE file.pending[d]]
           new == [file EXCEPT !.pending = p]
<1>1. PICK some \in SUBSET PairingCodes : file.pending \in [some -> Strangers]
  BY DEF PairingFile
<1>2. p \in [some \cup {c} -> Strangers] /\ some \cup {c} \in SUBSET PairingCodes
  BY <1>1
<1>3. p \in UNION {[s -> Strangers] : s \in SUBSET PairingCodes}
  BY <1>2
<1>4. /\ new \in PairingFile /\ new.torn = file.torn /\ new.approved = file.approved
      /\ new.pending = p
  BY <1>3 DEF PairingFile
<1>5. DOMAIN p = DOMAIN file.pending \cup {c}
      /\ \A d \in DOMAIN file.pending \cup {c} : p[d] = IF d = c THEN u ELSE file.pending[d]
  OBVIOUS
<1> HIDE DEF p, new
<1>6. TakesOver(new, file)
  BY <1>4, <1>5 DEF TakesOver, Holds, CodesOf
<1>7. c \in CodesOf(u, new)
  BY <1>4, <1>5 DEF CodesOf
<1>8. OneCodeEach(file) /\ CodesOf(u, file) = {} => OneCodeEach(new)
  <2> SUFFICES ASSUME OneCodeEach(file), CodesOf(u, file) = {},
                      NEW a \in DOMAIN p, NEW b \in DOMAIN p, p[a] = p[b]
               PROVE  a = b
    BY <1>4 DEF OneCodeEach
  <2>1. \A d \in DOMAIN file.pending : file.pending[d] # u
    BY DEF CodesOf
  <2> QED BY <1>5, <2>1 DEF OneCodeEach
<1> QED BY <1>4, <1>6, <1>7, <1>8 DEF new, p

\* The owner of a code is approved for it.
LEMMA OneCodeLess ==
  ASSUME NEW file \in PairingFile, NEW c \in DOMAIN file.pending
  PROVE  LET u == file.pending[c]
             new == [file EXCEPT !.pending = Restrict(@, DOMAIN @ \ {c}),
                                 !.approved = Approved(file, u)] IN
         /\ new \in PairingFile /\ new.torn = file.torn /\ TakesOver(new, file)
         /\ u \in Strangers /\ u \in new.approved /\ c \in PairingCodes
         /\ OneCodeEach(file) => OneCodeEach(new)
<1> DEFINE u == file.pending[c]
           p == Restrict(file.pending, DOMAIN file.pending \ {c})
           new == [file EXCEPT !.pending = p, !.approved = Approved(file, u)]
<1>1. PICK some \in SUBSET PairingCodes : file.pending \in [some -> Strangers]
  BY DEF PairingFile
<1>2. u \in Strangers /\ c \in PairingCodes
  BY <1>1
<1>3. p \in [some \ {c} -> Strangers] /\ some \ {c} \in SUBSET PairingCodes
  BY <1>1 DEF Restrict
<1>4. p \in UNION {[s -> Strangers] : s \in SUBSET PairingCodes}
  BY <1>3
<1>5. /\ new \in PairingFile /\ new.torn = file.torn /\ new.pending = p
      /\ new.approved = file.approved \cup {u}
  BY <1>2, <1>4 DEF PairingFile, Approved
<1>6. DOMAIN p = DOMAIN file.pending \ {c}
      /\ \A d \in DOMAIN file.pending \ {c} : p[d] = file.pending[d]
  BY DEF Restrict
<1>7. TakesOver(new, file)
  <2> HIDE DEF p, new
  <2> QED BY <1>5, <1>6 DEF TakesOver, Holds, CodesOf
<1>8. OneCodeEach(file) => OneCodeEach(new)
  <2> HIDE DEF p, new
  <2> QED BY <1>5, <1>6 DEF OneCodeEach
<1> HIDE DEF p
<1> QED BY <1>2, <1>5, <1>7, <1>8 DEF new, u, p

LEMMA PairingInvHolds == PairingInit => PairingInv
<1> SUFFICES ASSUME PairingInit PROVE PairingInv
  OBVIOUS
<1>1. AtRest.at = "none" /\ AtRest.user = NoOne /\ AtRest.code = "none" /\ AtRest.data = NoPairing
  BY DEF AtRest, NoOne
<1>2. PairingTypeOK
  <2>1. AtRest \in [at : {"none", "stranger", "writes", "emptied", "tells"}, data : PairingFile,
                     user : Strangers \cup {NoOne}, code : PairingCodes \cup {"none"}]
    BY <1>1, NoPairingType DEF AtRest, NoOne
  <2>2. rewriting = [w \in Rewriters |-> AtRest] /\ pairing = NoPairing
    BY DEF PairingInit
  <2>3. /\ toldCodes \subseteq Strangers \X PairingCodes /\ confirmed \subseteq Strangers
        /\ disturbed \in BOOLEAN /\ pairingCrashes \in 0..MaxPairingCrashes
    <3>1. 0 \in 0..MaxPairingCrashes
      BY PairingAssumption
    <3>2. disturbed \in BOOLEAN /\ pairingCrashes \in 0..MaxPairingCrashes
      BY <3>1 DEF PairingInit
    <3>3. toldCodes = {} /\ confirmed = {}
      BY DEF PairingInit
    <3> QED BY <3>2, <3>3, Zenon
  <2> QED BY <2>1, <2>2, <2>3, NoPairingType DEF PairingTypeOK
<1>3. \A w \in Rewriters : rewriting[w].at = "none"
  BY <1>1 DEF PairingInit
<1>4. DOMAIN pairing.pending = {} /\ pairing.torn = FALSE /\ confirmed = {} /\ toldCodes = {}
  BY DEF PairingInit, NoPairing
<1>5. UsersAreKnown
  BY <1>3 DEF UsersAreKnown, Rewriters
<1>6. Undisturbed
  BY <1>3, <1>4 DEF Undisturbed, Writes, OneCodeEach
<1> QED BY <1>2, <1>5, <1>6 DEF PairingInv

\* What an action that moves one writer, and does not touch the file, has to show.
LEMMA OneMoves ==
  ASSUME PairingInv, NEW w \in Rewriters, NEW r,
         rewriting' = [rewriting EXCEPT ![w] = r], pairing' = pairing,
         disturbed => disturbed', disturbed' \in BOOLEAN,
         toldCodes' \subseteq Strangers \X PairingCodes, confirmed' \subseteq Strangers,
         pairingCrashes' \in 0..MaxPairingCrashes,
         r \in [at : {"none", "stranger", "writes", "emptied", "tells"}, data : PairingFile,
                user : Strangers \cup {NoOne}, code : PairingCodes \cup {"none"}],
         r.at # "none" => r.user \in Strangers,
         w = "gateway" /\ r.at \in {"writes", "emptied", "tells"} => r.code \in PairingCodes,
         ~disturbed' =>
           /\ rewriting[w].at # "emptied" /\ r.at # "emptied"
           /\ r.at = "writes" =>
                /\ \A v \in Rewriters : v # w => ~Writes(v)
                /\ ~r.data.torn /\ TakesOver(r.data, pairing) /\ OneCodeEach(r.data)
                /\ w = "gateway" => Holds(r.user, r.code, r.data)
                /\ w = "operator" => r.user \in r.data.approved
           /\ r.at = "tells" =>
                /\ w = "gateway" => Holds(r.user, r.code, pairing)
                /\ w = "operator" => r.user \in pairing.approved
           /\ confirmed' \subseteq pairing.approved
           /\ \A u, c : <<u, c>> \in toldCodes' => Holds(u, c, pairing)
  PROVE  PairingInv'
<1>1. PairingTypeOK /\ UsersAreKnown
  BY DEF PairingInv
<1>2. /\ rewriting' \in [Rewriters ->
           [at : {"none", "stranger", "writes", "emptied", "tells"}, data : PairingFile,
            user : Strangers \cup {NoOne}, code : PairingCodes \cup {"none"}]]
      /\ rewriting'[w] = r /\ \A v \in Rewriters : v # w => rewriting'[v] = rewriting[v]
  BY <1>1 DEF PairingTypeOK
<1>3. PairingTypeOK'
  BY <1>1, <1>2 DEF PairingTypeOK
<1>4. UsersAreKnown'
  BY <1>1, <1>2 DEF UsersAreKnown, Rewriters
<1>5. ASSUME ~disturbed' PROVE Undisturbed'
  <2>1. Undisturbed
    BY <1>5 DEF PairingInv
  <2>2. \A v \in Rewriters : Writes(v)' <=> IF v = w THEN r.at = "writes" ELSE Writes(v)
    BY <1>2, <1>5 DEF Writes
  <2>3. (\A a, b \in Rewriters : Writes(a) /\ Writes(b) => a = b)'
    BY <2>1, <2>2, <1>5 DEF Undisturbed
  <2>4. (pairing.torn => \E v \in Rewriters : rewriting[v].at = "emptied")'
    BY <2>1, <1>2, <1>5 DEF Undisturbed
  <2>5. ASSUME NEW v \in Rewriters, Writes(v)' PROVE WriterIsSound(v)'
    <3>1. CASE v = w
      BY <3>1, <2>2, <2>5, <1>2, <1>5 DEF WriterIsSound, TakesOver, Holds, OneCodeEach, CodesOf
    <3>2. CASE v # w
      <4>1. Writes(v) /\ rewriting'[v] = rewriting[v]
        BY <3>2, <2>2, <2>5, <1>2
      <4> QED BY <4>1, <2>1 DEF Undisturbed, WriterIsSound, TakesOver, Holds, OneCodeEach, CodesOf
    <3> QED BY <3>1, <3>2
  <2>6. ASSUME NEW v \in Rewriters, rewriting'[v].at = "tells" PROVE TellerIsSound(v)'
    BY <2>1, <2>6, <1>2, <1>5 DEF Undisturbed, TellerIsSound, Holds, CodesOf
  <2>7. (OneCodeEach(pairing) /\ confirmed \subseteq pairing.approved)'
    BY <2>1, <1>5 DEF Undisturbed, OneCodeEach
  <2>8. (\A u, c : <<u, c>> \in toldCodes => Holds(u, c, pairing))'
    BY <1>5 DEF Holds, CodesOf
  <2> QED BY <2>3, <2>4, <2>5, <2>6, <2>7, <2>8 DEF Undisturbed
<1> QED BY <1>3, <1>4, <1>5 DEF PairingInv

LEMMA StrangerIsMet == PairingInv /\ MeetStranger => PairingInv'
<1> SUFFICES ASSUME PairingInv, MeetStranger PROVE PairingInv'
  OBVIOUS
<1>1. PICK u \in Strangers : rewriting' =
        [rewriting EXCEPT !["gateway"] = [AtRest EXCEPT !.at = "stranger", !.user = u]]
  BY Zenon DEF MeetStranger
<1> DEFINE r == [AtRest EXCEPT !.at = "stranger", !.user = u]
<1>2. /\ r.at = "stranger" /\ r.user = u
      /\ r \in [at : {"none", "stranger", "writes", "emptied", "tells"}, data : PairingFile,
                user : Strangers \cup {NoOne}, code : PairingCodes \cup {"none"}]
  BY NoPairingType DEF AtRest
<1>3. ~disturbed => /\ confirmed \subseteq pairing.approved
                    /\ \A p, c : <<p, c>> \in toldCodes => Holds(p, c, pairing)
  BY DEF PairingInv, Undisturbed
<1>4. rewriting["gateway"].at = "none" /\ "gateway" \in Rewriters
  BY DEF MeetStranger, Rewriters
<1>5. rewriting' = [rewriting EXCEPT !["gateway"] = r]
  BY <1>1
<1> HIDE DEF r
<1> QED BY <1>2, <1>3, <1>4, <1>5, OneMoves DEF MeetStranger, PairingInv, PairingTypeOK

LEMMA CodeIsRequested == PairingInv /\ RequestCode => PairingInv'
<1> SUFFICES ASSUME PairingInv, RequestCode PROVE PairingInv'
  OBVIOUS
<1> DEFINE g == rewriting["gateway"]
           known == CodesOf(g.user, Loaded)
<1>1. /\ PairingTypeOK /\ UsersAreKnown
      /\ ~disturbed => /\ confirmed \subseteq pairing.approved
                       /\ \A p, c : <<p, c>> \in toldCodes => Holds(p, c, pairing)
                       /\ OneCodeEach(pairing)
  BY DEF PairingInv, Undisturbed
<1>2. /\ "gateway" \in Rewriters /\ g.at = "stranger" /\ g.user \in Strangers
      /\ g \in [at : {"none", "stranger", "writes", "emptied", "tells"}, data : PairingFile,
                user : Strangers \cup {NoOne}, code : PairingCodes \cup {"none"}]
      /\ UNCHANGED <<pairing, toldCodes, confirmed, pairingCrashes>>
  <2>1. /\ "gateway" \in Rewriters /\ g.at = "stranger"
        /\ UNCHANGED <<pairing, toldCodes, confirmed, pairingCrashes>>
    BY Zenon DEF RequestCode, Rewriters
  <2> QED BY <1>1, <2>1 DEF UsersAreKnown, PairingTypeOK
<1>3. Loaded \in PairingFile /\ ~Loaded.torn /\ (~pairing.torn => Loaded = pairing)
  BY <1>1, LoadedType
<1>4. CASE known # {}
  <2> DEFINE c == CHOOSE d \in known : TRUE
             r == [g EXCEPT !.at = "tells", !.code = c, !.data = NoPairing]
  <2>1. c \in known
    BY <1>4
  <2>2. c \in PairingCodes
    BY <2>1, <1>3 DEF CodesOf, PairingFile
  <2>3. ~pairing.torn
    BY <2>1 DEF CodesOf, Loaded, NoPairing
  <2>4. Holds(g.user, c, pairing)
    BY <2>1, <2>3, <1>3 DEF Holds
  <2>5. rewriting' = [rewriting EXCEPT !["gateway"] = r] /\ disturbed' = disturbed
    BY <1>4 DEF RequestCode, KnownCodes
  <2> HIDE DEF c
  <2>6. /\ r.at = "tells" /\ r.user = g.user /\ r.code = c
        /\ r \in [at : {"none", "stranger", "writes", "emptied", "tells"}, data : PairingFile,
                  user : Strangers \cup {NoOne}, code : PairingCodes \cup {"none"}]
    BY <1>2, <2>2, NoPairingType
  <2> HIDE DEF r
  <2> QED BY <1>1, <1>2, <2>2, <2>4, <2>5, <2>6, OneMoves DEF PairingTypeOK
<1>5. CASE known = {}
  <2>1. PICK c \in PairingCodes \ DOMAIN Loaded.pending :
          rewriting' = [rewriting EXCEPT !["gateway"] =
            [g EXCEPT !.at = "writes", !.code = c, !.data = [Loaded EXCEPT !.pending =
               [d \in DOMAIN @ \cup {c} |-> IF d = c THEN g.user ELSE @[d]]]]]
    BY <1>5, Zenon DEF RequestCode, KnownCodes
  <2> DEFINE new == [Loaded EXCEPT !.pending =
                       [d \in DOMAIN @ \cup {c} |-> IF d = c THEN g.user ELSE @[d]]]
             r == [g EXCEPT !.at = "writes", !.code = c, !.data = new]
  <2>2. disturbed' = (disturbed \/ Disturbs("gateway"))
    BY <1>5, Zenon DEF RequestCode, KnownCodes
  <2>3. /\ new \in PairingFile /\ new.torn = Loaded.torn /\ TakesOver(new, Loaded)
        /\ c \in CodesOf(g.user, new) /\ (OneCodeEach(Loaded) => OneCodeEach(new))
    BY <1>2, <1>3, <1>5, OneMoreCode
  <2> HIDE DEF new
  <2>4. /\ r.at = "writes" /\ r.user = g.user /\ r.code = c /\ r.data = new
        /\ r \in [at : {"none", "stranger", "writes", "emptied", "tells"}, data : PairingFile,
                  user : Strangers \cup {NoOne}, code : PairingCodes \cup {"none"}]
    BY <1>2, <2>3
  <2>5. rewriting' = [rewriting EXCEPT !["gateway"] = r]
    BY <2>1 DEF new
  <2>6. ASSUME ~disturbed' PROVE /\ \A v \in Rewriters : v # "gateway" => ~Writes(v)
                                 /\ Loaded = pairing
    BY <2>2, <2>6, <1>3 DEF Disturbs, Writes
  <2>7. Holds(g.user, c, new)
    BY <2>3 DEF Holds
  <2> HIDE DEF r
  <2> QED BY <1>1, <1>2, <1>3, <2>2, <2>3, <2>4, <2>5, <2>6, <2>7, OneMoves
          DEF PairingTypeOK
<1> QED BY <1>4, <1>5

LEMMA CodeIsApproved == PairingInv /\ Approve => PairingInv'
<1> SUFFICES ASSUME PairingInv, Approve PROVE PairingInv'
  OBVIOUS
<1>1. /\ PairingTypeOK
      /\ ~disturbed => /\ confirmed \subseteq pairing.approved
                       /\ \A p, c : <<p, c>> \in toldCodes => Holds(p, c, pairing)
                       /\ OneCodeEach(pairing)
  BY DEF PairingInv, Undisturbed
<1>2. PICK c \in DOMAIN Loaded.pending :
        rewriting' = [rewriting EXCEPT !["operator"] =
          [at |-> "writes", user |-> Loaded.pending[c], code |-> c,
           data |-> [Loaded EXCEPT !.pending = Restrict(@, DOMAIN @ \ {c}),
                                   !.approved = Approved(Loaded, Loaded.pending[c])]]]
  BY Zenon DEF Approve
<1>3. /\ "operator" \in Rewriters /\ rewriting["operator"].at = "none"
      /\ disturbed' = (disturbed \/ Disturbs("operator"))
      /\ UNCHANGED <<pairing, toldCodes, confirmed, pairingCrashes>>
  BY Zenon DEF Approve, Rewriters
<1>4. Loaded \in PairingFile /\ ~Loaded.torn /\ (~pairing.torn => Loaded = pairing)
  BY <1>1, LoadedType
<1> DEFINE u == Loaded.pending[c]
           new == [Loaded EXCEPT !.pending = Restrict(@, DOMAIN @ \ {c}),
                                 !.approved = Approved(Loaded, u)]
           r == [at |-> "writes", user |-> u, code |-> c, data |-> new]
<1>5. /\ new \in PairingFile /\ new.torn = Loaded.torn /\ TakesOver(new, Loaded)
      /\ u \in Strangers /\ u \in new.approved /\ c \in PairingCodes
      /\ (OneCodeEach(Loaded) => OneCodeEach(new))
  BY <1>2, <1>4, OneCodeLess, Zenon
<1>6. rewriting' = [rewriting EXCEPT !["operator"] = r]
  BY <1>2
<1> HIDE DEF new, u
<1>7. /\ r.at = "writes" /\ r.user = u /\ r.data = new
      /\ r \in [at : {"none", "stranger", "writes", "emptied", "tells"}, data : PairingFile,
                user : Strangers \cup {NoOne}, code : PairingCodes \cup {"none"}]
  BY <1>5
<1>8. ASSUME ~disturbed' PROVE /\ \A v \in Rewriters : v # "operator" => ~Writes(v)
                               /\ Loaded = pairing
  BY <1>3, <1>4, <1>8 DEF Disturbs, Writes
<1> HIDE DEF r
<1> QED BY <1>1, <1>3, <1>4, <1>5, <1>6, <1>7, <1>8, OneMoves DEF PairingTypeOK

LEMMA CodeIsTold == PairingInv /\ TellCode => PairingInv'
<1> SUFFICES ASSUME PairingInv, TellCode PROVE PairingInv'
  OBVIOUS
<1> DEFINE g == rewriting["gateway"]
<1>1. /\ "gateway" \in Rewriters /\ g.at = "tells"
      /\ rewriting' = [rewriting EXCEPT !["gateway"] = AtRest]
      /\ toldCodes' = toldCodes \cup {<<g.user, g.code>>}
      /\ UNCHANGED <<pairing, confirmed, disturbed, pairingCrashes>>
  BY DEF TellCode, Rewriters
<1>2. PairingTypeOK /\ g.user \in Strangers /\ g.code \in PairingCodes
  BY <1>1 DEF PairingInv, UsersAreKnown
<1>3. /\ AtRest.at = "none"
      /\ AtRest \in [at : {"none", "stranger", "writes", "emptied", "tells"}, data : PairingFile,
                     user : Strangers \cup {NoOne}, code : PairingCodes \cup {"none"}]
  BY NoPairingType DEF AtRest, NoOne
<1>4. ASSUME ~disturbed
      PROVE  /\ confirmed \subseteq pairing.approved
             /\ \A u, c : <<u, c>> \in toldCodes' => Holds(u, c, pairing)
  <2>1. Undisturbed /\ Holds(g.user, g.code, pairing)
    BY <1>1, <1>4 DEF PairingInv, Undisturbed, TellerIsSound
  <2>2. \A u, c : <<u, c>> \in toldCodes' =>
                   <<u, c>> \in toldCodes \/ (u = g.user /\ c = g.code)
    BY <1>1
  <2> QED BY <2>1, <2>2 DEF Undisturbed
<1>5. toldCodes' \subseteq Strangers \X PairingCodes
  BY <1>1, <1>2 DEF PairingTypeOK
<1> QED BY <1>1, <1>2, <1>3, <1>4, <1>5, OneMoves DEF PairingTypeOK

LEMMA ApprovalIsTold == PairingInv /\ TellApproved => PairingInv'
<1> SUFFICES ASSUME PairingInv, TellApproved PROVE PairingInv'
  OBVIOUS
<1> DEFINE o == rewriting["operator"]
<1>1. /\ "operator" \in Rewriters /\ o.at = "tells"
      /\ rewriting' = [rewriting EXCEPT !["operator"] = AtRest]
      /\ confirmed' = confirmed \cup {o.user}
      /\ UNCHANGED <<pairing, toldCodes, disturbed, pairingCrashes>>
  BY DEF TellApproved, Rewriters
<1>2. PairingTypeOK /\ o.user \in Strangers
  BY <1>1 DEF PairingInv, UsersAreKnown
<1>3. /\ AtRest.at = "none"
      /\ AtRest \in [at : {"none", "stranger", "writes", "emptied", "tells"}, data : PairingFile,
                     user : Strangers \cup {NoOne}, code : PairingCodes \cup {"none"}]
  BY NoPairingType DEF AtRest, NoOne
<1>4. ASSUME ~disturbed
      PROVE  /\ confirmed' \subseteq pairing.approved
             /\ \A u, c : <<u, c>> \in toldCodes => Holds(u, c, pairing)
  BY <1>1, <1>4 DEF PairingInv, Undisturbed, TellerIsSound
<1> QED BY <1>1, <1>2, <1>3, <1>4, OneMoves DEF PairingTypeOK

LEMMA WriterEnds ==
  ASSUME NEW w \in Rewriters PROVE PairingInv /\ PairingCrash(w) => PairingInv'
<1> SUFFICES ASSUME PairingInv, PairingCrash(w) PROVE PairingInv'
  OBVIOUS
<1>1. /\ rewriting' = [rewriting EXCEPT ![w] = AtRest]
      /\ disturbed' = (disturbed \/ rewriting[w].at = "emptied")
      /\ pairingCrashes < MaxPairingCrashes /\ pairingCrashes' = pairingCrashes + 1
      /\ UNCHANGED <<pairing, toldCodes, confirmed>>
  BY DEF PairingCrash
<1>2. PairingTypeOK /\ pairingCrashes' \in 0..MaxPairingCrashes
  BY <1>1, PairingAssumption DEF PairingInv, PairingTypeOK
<1>3. /\ AtRest.at = "none"
      /\ AtRest \in [at : {"none", "stranger", "writes", "emptied", "tells"}, data : PairingFile,
                     user : Strangers \cup {NoOne}, code : PairingCodes \cup {"none"}]
  BY NoPairingType DEF AtRest, NoOne
<1>4. ASSUME ~disturbed'
      PROVE  /\ rewriting[w].at # "emptied" /\ confirmed \subseteq pairing.approved
             /\ \A u, c : <<u, c>> \in toldCodes => Holds(u, c, pairing)
  BY <1>1, <1>4 DEF PairingInv, Undisturbed
<1> QED BY <1>1, <1>2, <1>3, <1>4, OneMoves DEF PairingTypeOK

LEMMA FileIsEmptied ==
  ASSUME NEW w \in Rewriters PROVE PairingInv /\ EmptyFile(w) => PairingInv'
<1> SUFFICES ASSUME PairingInv, EmptyFile(w) PROVE PairingInv'
  OBVIOUS
<1>1. PairingTypeOK /\ UsersAreKnown
  BY DEF PairingInv
<1>2. /\ pairing' \in PairingFile /\ pairing'.pending = pairing.pending
      /\ pairing'.approved = pairing.approved
  BY <1>1 DEF EmptyFile, PairingTypeOK, PairingFile
<1>3. /\ rewriting' \in [Rewriters ->
           [at : {"none", "stranger", "writes", "emptied", "tells"}, data : PairingFile,
            user : Strangers \cup {NoOne}, code : PairingCodes \cup {"none"}]]
      /\ \A v \in Rewriters :
           /\ rewriting'[v].at = IF v = w THEN "emptied" ELSE rewriting[v].at
           /\ rewriting'[v].data = rewriting[v].data /\ rewriting'[v].user = rewriting[v].user
           /\ rewriting'[v].code = rewriting[v].code
  BY <1>1 DEF EmptyFile, PairingTypeOK
<1>4. rewriting[w].at = "writes" /\ UNCHANGED <<toldCodes, confirmed, disturbed, pairingCrashes>>
  BY DEF EmptyFile
<1>5. PairingTypeOK' /\ UsersAreKnown'
  BY <1>1, <1>2, <1>3, <1>4 DEF PairingTypeOK, UsersAreKnown, Rewriters
<1>6. ASSUME ~disturbed PROVE Undisturbed'
  <2>1. Undisturbed
    BY <1>6 DEF PairingInv
  <2>2. \A v \in Rewriters : Writes(v)' <=> Writes(v)
    BY <1>3, <1>4 DEF Writes
  <2>3. \A v \in Rewriters : Writes(v) => WriterIsSound(v)'
    <3> SUFFICES ASSUME NEW v \in Rewriters, Writes(v) PROVE WriterIsSound(v)'
      OBVIOUS
    <3>1. WriterIsSound(v)
      BY <2>1 DEF Undisturbed
    <3> QED BY <3>1, <1>2, <1>3 DEF WriterIsSound, TakesOver, OneCodeEach, Holds, CodesOf
  <2>4. \A v \in Rewriters : rewriting'[v].at = "tells" => TellerIsSound(v)'
    BY <2>1, <1>2, <1>3 DEF Undisturbed, TellerIsSound, Holds, CodesOf
  <2>5. (pairing.torn => \E v \in Rewriters : rewriting[v].at = "emptied")'
    BY <1>3
  <2>6. (OneCodeEach(pairing) /\ confirmed \subseteq pairing.approved)'
    BY <2>1, <1>2, <1>4 DEF Undisturbed, OneCodeEach
  <2>7. (\A u, c : <<u, c>> \in toldCodes => Holds(u, c, pairing))'
    BY <2>1, <1>2, <1>4 DEF Undisturbed, Holds, CodesOf
  <2> QED BY <2>1, <2>2, <2>3, <2>4, <2>5, <2>6, <2>7 DEF Undisturbed
<1> QED BY <1>4, <1>5, <1>6 DEF PairingInv

LEMMA FileIsFilled ==
  ASSUME NEW w \in Rewriters PROVE PairingInv /\ FillFile(w) => PairingInv'
<1> SUFFICES ASSUME PairingInv, FillFile(w) PROVE PairingInv'
  OBVIOUS
<1> DEFINE data == rewriting[w].data
<1>1. PairingTypeOK /\ UsersAreKnown /\ data \in PairingFile
  BY DEF PairingInv, PairingTypeOK
<1>2. /\ pairing' \in PairingFile /\ pairing'.pending = data.pending /\ pairing'.torn = FALSE
      /\ pairing'.approved = data.approved
  BY <1>1 DEF FillFile, PairingFile
<1>3. /\ rewriting' \in [Rewriters ->
           [at : {"none", "stranger", "writes", "emptied", "tells"}, data : PairingFile,
            user : Strangers \cup {NoOne}, code : PairingCodes \cup {"none"}]]
      /\ \A v \in Rewriters :
           /\ rewriting'[v].at = IF v = w THEN "tells" ELSE rewriting[v].at
           /\ rewriting'[v].data = rewriting[v].data /\ rewriting'[v].user = rewriting[v].user
           /\ rewriting'[v].code = rewriting[v].code
  BY <1>1 DEF FillFile, PairingTypeOK
<1>4. rewriting[w].at = "emptied" /\ UNCHANGED <<toldCodes, confirmed, disturbed, pairingCrashes>>
  BY DEF FillFile
<1>5. PairingTypeOK' /\ UsersAreKnown'
  BY <1>1, <1>2, <1>3, <1>4 DEF PairingTypeOK, UsersAreKnown, Rewriters
<1>6. ASSUME ~disturbed PROVE Undisturbed'
  <2>1. Undisturbed /\ WriterIsSound(w) /\ Writes(w)
    BY <1>4, <1>6 DEF PairingInv, Undisturbed, Writes
  <2>2. \A v \in Rewriters : ~Writes(v)'
    BY <2>1, <1>3, <1>4 DEF Writes, Undisturbed
  <2>3. /\ \A u, c : Holds(u, c, pairing) => Holds(u, c, data)
        /\ pairing.approved \subseteq data.approved /\ OneCodeEach(data)
        /\ w = "gateway" => Holds(rewriting[w].user, rewriting[w].code, data)
        /\ w = "operator" => rewriting[w].user \in data.approved
    BY <2>1 DEF WriterIsSound, TakesOver
  <2>4. \A u, c : Holds(u, c, pairing)' <=> Holds(u, c, data)
    BY <1>2 DEF Holds, CodesOf
  <2>5. ASSUME NEW v \in Rewriters, rewriting'[v].at = "tells" PROVE TellerIsSound(v)'
    <3>1. v # w => TellerIsSound(v)
      BY <2>1, <2>5, <1>3 DEF Undisturbed
    <3>2. /\ v = "gateway" => Holds(rewriting[v].user, rewriting[v].code, data)
          /\ v = "operator" => rewriting[v].user \in data.approved
      BY <3>1, <2>3 DEF TellerIsSound
    <3> QED BY <3>2, <1>2, <1>3 DEF TellerIsSound, Holds, CodesOf
  <2>6. (OneCodeEach(pairing) /\ confirmed \subseteq pairing.approved)'
    BY <2>1, <2>3, <1>2, <1>4 DEF Undisturbed, OneCodeEach
  <2>7. (\A u, c : <<u, c>> \in toldCodes => Holds(u, c, pairing))'
    BY <2>1, <2>3, <2>4, <1>4 DEF Undisturbed
  <2> QED BY <1>2, <2>2, <2>5, <2>6, <2>7 DEF Undisturbed
<1> QED BY <1>4, <1>5, <1>6 DEF PairingInv

LEMMA PairingStep == PairingInv /\ [PairingNext]_pairingVars => PairingInv'
<1> SUFFICES ASSUME PairingInv, [PairingNext]_pairingVars PROVE PairingInv'
  OBVIOUS
<1>1. CASE UNCHANGED pairingVars
  BY <1>1 DEF pairingVars, PairingInv, PairingTypeOK, UsersAreKnown, Undisturbed, Writes,
     WriterIsSound, TellerIsSound, TakesOver, OneCodeEach, Holds, CodesOf
<1> QED BY <1>1, StrangerIsMet, CodeIsRequested, CodeIsTold, CodeIsApproved, ApprovalIsTold,
           FileIsEmptied, FileIsFilled, WriterEnds DEF PairingNext

\* The file that a writer who has emptied it is about to fill is settled already.
LEMMA PairingInvKeeps == PairingInv => PairingIsKept
<1> SUFFICES ASSUME PairingInv, ~disturbed PROVE PairingIsKept
  BY DEF PairingIsKept
<1>1. Undisturbed
  BY DEF PairingInv
<1>2. /\ confirmed \subseteq SettledPairing.approved /\ OneCodeEach(SettledPairing)
      /\ \A u, c : <<u, c>> \in toldCodes => Holds(u, c, SettledPairing)
  <2>1. CASE \E w \in Rewriters : rewriting[w].at = "emptied"
    <3> DEFINE w == CHOOSE w \in Rewriters : rewriting[w].at = "emptied"
    <3>1. w \in Rewriters /\ rewriting[w].at = "emptied"
      BY <2>1
    <3>2. SettledPairing = rewriting[w].data
      BY <2>1 DEF SettledPairing
    <3> HIDE DEF w
    <3>3. WriterIsSound(w)
      BY <1>1, <3>1 DEF Undisturbed, Writes
    <3>4. TakesOver(SettledPairing, pairing) /\ OneCodeEach(SettledPairing)
      BY <3>2, <3>3 DEF WriterIsSound
    <3> QED BY <1>1, <3>4 DEF Undisturbed, TakesOver
  <2>2. CASE ~\E w \in Rewriters : rewriting[w].at = "emptied"
    <3>1. SettledPairing = pairing
      BY <2>2 DEF SettledPairing
    <3> QED BY <1>1, <3>1 DEF Undisturbed
  <2> QED BY <2>1, <2>2
<1>3. ASSUME NEW u \in Strangers PROVE Cardinality(CodesOf(u, SettledPairing)) <= 1
  <2>1. \A c, d \in CodesOf(u, SettledPairing) : c = d
    BY <1>2 DEF OneCodeEach, CodesOf
  <2>2. CASE CodesOf(u, SettledPairing) = {}
    BY <2>2, FS_EmptySet
  <2>3. CASE CodesOf(u, SettledPairing) # {}
    <3>1. PICK c : c \in CodesOf(u, SettledPairing)
      BY <2>3
    <3>2. CodesOf(u, SettledPairing) = {c}
      BY <2>1, <3>1
    <3>3. Cardinality({c}) = 1
      BY FS_Singleton
    <3> QED BY <3>2, <3>3
  <2> QED BY <2>2, <2>3
<1> QED BY <1>2, <1>3 DEF PairingIsKept, Holds

\* Unless a rewriting met another or was cut in two, the file of pairings keeps what was
\* told (request_code() and approve() in gateway/weixin/pairing.py): who was confirmed
\* stays approved, the code a user was sent is his until he is approved, and he has one.
THEOREM PairingsAreKept == PairingSpec => []PairingIsKept
<1>1. PairingSpec => []PairingInv
  BY PairingInvHolds, PairingStep, PTL DEF PairingSpec
<1> QED BY <1>1, PairingInvKeeps, PTL

-----------------------------------------------------------------------------
(* What is shown of a turn (WeixinProgress) *)

\* Within the notices s, and from those of s to those of t, the lines of an item
\* grow; no line of s is later than d, or than what u keeps of the item.
Increases(lines) == \A m, n \in DOMAIN lines : m < n => lines[m] < lines[n]
OrderedIn(s) ==
  \A k, l \in DOMAIN s : k <= l /\ s[k].item = s[l].item =>
    \A m \in DOMAIN s[k].lines, n \in DOMAIN s[l].lines :
      k < l \/ m < n => s[k].lines[m] < s[l].lines[n]
Ordered(s, t) ==
  \A k \in DOMAIN s, l \in DOMAIN t : s[k].item = t[l].item =>
    \A m \in DOMAIN s[k].lines, n \in DOMAIN t[l].lines : s[k].lines[m] < t[l].lines[n]
Told(s, d, u) ==
  \A k \in DOMAIN s : \A m \in DOMAIN s[k].lines :
    /\ s[k].lines[m] <= d
    /\ s[k].item \in ShownItems =>
         \A n \in DOMAIN u[s[k].item] : s[k].lines[m] < u[s[k].item][n]
NoticesInOrder(sent, flight, s, d, u) ==
  /\ OrderedIn(sent) /\ OrderedIn(flight) /\ OrderedIn(s)
  /\ Ordered(sent, flight) /\ Ordered(sent, s) /\ Ordered(flight, s)
  /\ Told(sent, d, u) /\ Told(flight, d, u) /\ Told(s, d, u)
\* What v keeps is of u, or later than d.
Remains(u, v, d) ==
  \A i \in ShownItems : \A n \in DOMAIN v[i] :
    v[i][n] \in Nat /\ (v[i][n] > d \/ \E m \in DOMAIN u[i] : v[i][n] = u[i][m])
NoReply(s) == \A k \in DOMAIN s : s[k].what # "reply"

NoticesAreInOrder == NoticesInOrder(sentTo, inFlight, toSend, details, unsent)
UnsentIsNewer ==
  \A i \in ShownItems :
    Increases(unsent[i]) /\ \A n \in DOMAIN unsent[i] : unsent[i][n] <= details
ReplyIsLast ==
  /\ NoReply(inFlight) /\ NoReply(toSend)
  /\ sink = "replied" => inFlight = <<>> /\ toSend = <<>>
  /\ \A k \in DOMAIN sentTo :
       sentTo[k].what = "reply" => sink = "replied" /\ k = Len(sentTo)
ProgressInv == ProgressTypeOK /\ NoticesAreInOrder /\ UnsentIsNewer /\ ReplyIsLast

LEMMA ProgressTypes ==
  ASSUME ProgressTypeOK
  PROVE  /\ toSend \in Seq(Notices) /\ inFlight \in Seq(Notices) /\ sentTo \in Seq(Notices)
         /\ unsent \in [ShownItems -> Seq(1..MaxDetails)] /\ details \in 0..MaxDetails
         /\ details \in Nat
BY ProgressAssumption DEF ProgressTypeOK

LEMMA ProgressInvHolds == ProgressInit => ProgressInv
<1> SUFFICES ASSUME ProgressInit PROVE ProgressInv
  OBVIOUS
<1>1. /\ sink = "open" /\ toSend = <<>> /\ inFlight = <<>> /\ sentTo = <<>>
      /\ unsent = [i \in ShownItems |-> <<>>] /\ recent = {} /\ begunItems = {}
      /\ endedItems = {} /\ details = 0
  BY DEF ProgressInit
<1>2. ProgressTypeOK
  BY <1>1, ProgressAssumption DEF ProgressTypeOK
<1>3. NoticesAreInOrder
  BY <1>1 DEF NoticesAreInOrder, NoticesInOrder, OrderedIn, Ordered, Told
<1>4. UnsentIsNewer
  BY <1>1 DEF UnsentIsNewer, Increases
<1>5. ReplyIsLast
  BY <1>1 DEF ReplyIsLast, NoReply
<1> QED BY <1>2, <1>3, <1>4, <1>5 DEF ProgressInv

\* One more notice at the end
LEMMA OneMoreNotice ==
  ASSUME NEW s \in Seq(Notices), NEW notice \in Notices, OrderedIn(s), Increases(notice.lines),
         Ordered(s, <<notice>>)
  PROVE  /\ Append(s, notice) \in Seq(Notices) /\ OrderedIn(Append(s, notice))
         /\ DOMAIN Append(s, notice) = DOMAIN s \cup {Len(s) + 1}
         /\ Append(s, notice)[Len(s) + 1] = notice /\ Len(Append(s, notice)) = Len(s) + 1
         /\ \A k \in DOMAIN s : Append(s, notice)[k] = s[k] /\ k \in Nat /\ k < Len(s) + 1
<1> DEFINE t == Append(s, notice)
           last == Len(s) + 1
<1>1. /\ t \in Seq(Notices) /\ DOMAIN t = DOMAIN s \cup {last} /\ Len(t) = last
      /\ t[last] = notice /\ \A k \in DOMAIN s : t[k] = s[k] /\ k \in Nat /\ k < last
  OBVIOUS
<1>2. \A k \in DOMAIN s : s[k].item = notice.item =>
        \A m \in DOMAIN s[k].lines, n \in DOMAIN notice.lines : s[k].lines[m] < notice.lines[n]
  BY DEF Ordered
<1>3. last \in Nat
  BY LenProperties
<1> HIDE DEF t, last
<1>4. ASSUME NEW k \in DOMAIN t, NEW l \in DOMAIN t, k <= l, t[k].item = t[l].item,
             NEW m \in DOMAIN t[k].lines, NEW n \in DOMAIN t[l].lines, k < l \/ m < n
      PROVE  t[k].lines[m] < t[l].lines[n]
  <2>1. CASE k \in DOMAIN s /\ l \in DOMAIN s
    BY <1>1, <1>4, <2>1 DEF OrderedIn
  <2>2. CASE k \in DOMAIN s /\ l = last
    BY <1>1, <1>2, <1>4, <2>2
  <2>3. CASE k = last
    <3>1. l = last
      BY <1>1, <1>3, <1>4, <2>3
    <3>2. m < n
      BY <1>3, <1>4, <2>3, <3>1
    <3> QED BY <1>1, <1>4, <2>3, <3>1, <3>2 DEF Increases
  <2> QED BY <1>1, <1>4, <2>1, <2>2, <2>3
<1>5. OrderedIn(t)
  BY <1>4 DEF OrderedIn
<1> QED BY <1>1, <1>5 DEF t, last

\* What was told stays told when the unsent lines of v are of u, or new.
LEMMA ToldRemains ==
  ASSUME NEW s \in Seq(Notices), NEW d \in Nat, NEW e \in Nat, d <= e, NEW u, NEW v,
         Told(s, d, u),
         Remains(u, v, d)
  PROVE  Told(s, e, v)
<1>1. ASSUME NEW k \in DOMAIN s, NEW m \in DOMAIN s[k].lines
      PROVE  /\ s[k].lines[m] <= e
             /\ s[k].item \in ShownItems =>
                  \A n \in DOMAIN v[s[k].item] : s[k].lines[m] < v[s[k].item][n]
  <2>1. /\ s[k].lines[m] <= d
        /\ s[k].item \in ShownItems =>
             \A n \in DOMAIN u[s[k].item] : s[k].lines[m] < u[s[k].item][n]
    BY <1>1 DEF Told
  <2>2. s[k].lines[m] \in Nat
    <3>1. s[k] \in Notices
      BY <1>1
    <3>2. s[k].lines \in Seq(1..MaxDetails)
      BY <3>1 DEF Notices
    <3>3. m \in 1..Len(s[k].lines)
      BY <1>1, <3>2, LenProperties
    <3>4. s[k].lines[m] \in 1..MaxDetails
      BY <3>2, <3>3, ElementOfSeq
    <3> QED BY <3>4, ProgressAssumption
  <2>3. ASSUME s[k].item \in ShownItems, NEW n \in DOMAIN v[s[k].item]
        PROVE  s[k].lines[m] < v[s[k].item][n]
    <3>1. /\ v[s[k].item][n] \in Nat
          /\ v[s[k].item][n] > d \/ \E p \in DOMAIN u[s[k].item] : v[s[k].item][n] = u[s[k].item][p]
      BY <2>3 DEF Remains
    <3>2. CASE v[s[k].item][n] > d
      BY <2>1, <2>2, <3>1, <3>2
    <3>3. CASE \E p \in DOMAIN u[s[k].item] : v[s[k].item][n] = u[s[k].item][p]
      BY <2>1, <2>3, <3>3
    <3> QED BY <3>1, <3>2, <3>3
  <2> QED BY <2>1, <2>2, <2>3
<1> QED BY <1>1 DEF Told

\* Time passes: some lines are dropped or kept, no notice moves.
LEMMA OrderRemains ==
  ASSUME NEW sent \in Seq(Notices), NEW flight \in Seq(Notices), NEW s \in Seq(Notices),
         NEW d \in Nat, NEW e \in Nat, d <= e, NEW u, NEW v, NoticesInOrder(sent, flight, s, d, u),
         Remains(u, v, d)
  PROVE  NoticesInOrder(sent, flight, s, e, v)
<1>1. Told(sent, d, u) /\ Told(flight, d, u) /\ Told(s, d, u)
  BY DEF NoticesInOrder
<1>2. Told(sent, e, v)
  BY <1>1, ToldRemains, Zenon
<1>3. Told(flight, e, v)
  BY <1>1, ToldRemains, Zenon
<1>4. Told(s, e, v)
  BY <1>1, ToldRemains, Zenon
<1> QED BY <1>2, <1>3, <1>4 DEF NoticesInOrder

\* A notice is submitted.
LEMMA SubmittedInOrder ==
  ASSUME NEW sent \in Seq(Notices), NEW flight \in Seq(Notices), NEW s \in Seq(Notices),
         NEW d, NEW u, NoticesInOrder(sent, flight, s, d, u), NEW notice \in Notices,
         Increases(notice.lines), Told(<<notice>>, d, u),
         Ordered(sent, <<notice>>), Ordered(flight, <<notice>>), Ordered(s, <<notice>>)
  PROVE  NoticesInOrder(sent, flight, Append(s, notice), d, u)
<1> DEFINE t == Append(s, notice)
           last == Len(s) + 1
<1>0. Told(<<notice>>, d, u) /\ 1 \in DOMAIN <<notice>> /\ <<notice>>[1] = notice
  OBVIOUS
<1>1. /\ OrderedIn(t) /\ DOMAIN t = DOMAIN s \cup {last} /\ t[last] = notice
      /\ \A k \in DOMAIN s : t[k] = s[k]
  BY OneMoreNotice DEF NoticesInOrder
<1> HIDE DEF t, last
<1>2. ASSUME NEW r \in {sent, flight} PROVE Ordered(r, t)
  <2>1. Ordered(r, s) /\ Ordered(r, <<notice>>)
    BY <1>2 DEF NoticesInOrder
  <2>2. \A k \in DOMAIN r : r[k].item = notice.item =>
          \A m \in DOMAIN r[k].lines, n \in DOMAIN notice.lines : r[k].lines[m] < notice.lines[n]
    BY <1>0, <2>1 DEF Ordered
  <2> QED BY <1>1, <2>1, <2>2 DEF Ordered
<1>3. Told(t, d, u)
  <2>1. Told(s, d, u)
    BY DEF NoticesInOrder
  <2>2. \A m \in DOMAIN notice.lines :
          /\ notice.lines[m] <= d
          /\ notice.item \in ShownItems =>
               \A n \in DOMAIN u[notice.item] : notice.lines[m] < u[notice.item][n]
    BY <1>0 DEF Told
  <2> QED BY <1>1, <2>1, <2>2 DEF Told
<1> QED BY <1>1, <1>2, <1>3 DEF NoticesInOrder, t

\* A notice without lines is in order everywhere.
LEMMA NoLines ==
  ASSUME NEW s, NEW notice, notice.lines = <<>>, NEW d, NEW u
  PROVE  Ordered(s, <<notice>>) /\ Increases(notice.lines) /\ Told(<<notice>>, d, u)
<1>1. DOMAIN <<notice>> = {1} /\ <<notice>>[1] = notice /\ DOMAIN notice.lines = {}
  OBVIOUS
<1> QED BY <1>1 DEF Ordered, Increases, Told

\* The last lines of an item.
LEMMA LastLines ==
  ASSUME NEW u \in Seq(1..MaxDetails), NEW n \in 1..MaxDetails, Increases(u),
         \A m \in DOMAIN u : u[m] < n, NEW x \in Nat, x <= Len(u)
  PROVE  LET kept == SubSeq(Append(u, n), 1 + x, Len(Append(u, n))) IN
         /\ kept \in Seq(1..MaxDetails) /\ Increases(kept)
         /\ \A m \in DOMAIN kept : kept[m] <= n /\ (kept[m] = n \/ \E p \in DOMAIN u : kept[m] = u[p])
<1> DEFINE lines == Append(u, n)
           kept == SubSeq(lines, 1 + x, Len(lines))
<1>1. /\ lines \in Seq(1..MaxDetails) /\ Len(lines) = Len(u) + 1 /\ Len(u) \in Nat
      /\ DOMAIN u = 1..Len(u) /\ \A m \in 1..Len(u) : lines[m] = u[m] /\ lines[Len(u) + 1] = n
  BY LenProperties
<1>2. /\ kept \in Seq(1..MaxDetails) /\ Len(kept) = Len(lines) - x
      /\ \A m \in 1..Len(kept) : kept[m] = lines[x + m]
  <2>1. 1 + x \in Int /\ Len(lines) \in Int /\ 1 + x <= Len(lines)
    BY <1>1
  <2>2. \A m \in (1 + x)..Len(lines) : lines[m] \in 1..MaxDetails
    <3>1. \A m \in 1..Len(lines) : lines[m] \in 1..MaxDetails
      BY <1>1, ElementOfSeq
    <3>2. \A m \in (1 + x)..Len(lines) : m \in 1..Len(lines)
      BY <1>1
    <3> QED BY <3>1, <3>2
  <2>3. /\ kept \in Seq(1..MaxDetails) /\ Len(kept) = Len(lines) - (1 + x) + 1
        /\ \A m \in 1..(Len(lines) - (1 + x) + 1) : kept[m] = lines[1 + x + m - 1]
    <3> HIDE DEF lines
    <3> QED BY <2>1, <2>2, SubSeqProperties
  <2> HIDE DEF kept, lines
  <2>4. Len(lines) - (1 + x) + 1 = Len(lines) - x
    BY <1>1
  <2>5. \A m \in 1..(Len(lines) - x) : 1 + x + m - 1 = x + m
    BY <1>1
  <2> QED BY <2>3, <2>4, <2>5
<1>3. DOMAIN kept = 1..Len(kept) /\ Len(kept) \in Nat
  BY <1>2, LenProperties
<1>4. lines[Len(u) + 1] = n
  BY <1>1
<1> HIDE DEF lines, kept
<1>5. ASSUME NEW m \in DOMAIN kept
      PROVE  kept[m] <= n /\ (kept[m] = n \/ \E p \in DOMAIN u : kept[m] = u[p])
  <2>1. kept[m] = lines[x + m] /\ m \in Nat /\ x + m \in 1..(Len(u) + 1)
    BY <1>1, <1>2, <1>3, <1>5
  <2>2. CASE x + m = Len(u) + 1
    BY <1>4, <2>1, <2>2
  <2>3. CASE x + m \in 1..Len(u)
    <3>1. kept[m] = u[x + m] /\ x + m \in DOMAIN u
      BY <1>1, <2>1, <2>3
    <3>2. u[x + m] \in 1..MaxDetails
      BY <2>3, ElementOfSeq
    <3>3. u[x + m] < n
      BY <3>1
    <3> QED BY <3>1, <3>2, <3>3, ProgressAssumption
  <2> QED BY <1>1, <2>1, <2>2, <2>3
<1>6. ASSUME NEW m \in DOMAIN kept, NEW p \in DOMAIN kept, m < p PROVE kept[m] < kept[p]
  <2>1. /\ kept[m] = lines[x + m] /\ kept[p] = lines[x + p] /\ m \in Nat /\ p \in Nat
        /\ x + m \in 1..Len(u) /\ x + p \in 1..(Len(u) + 1)
    BY <1>1, <1>2, <1>3, <1>6
  <2>2. kept[m] = u[x + m] /\ x + m \in DOMAIN u /\ u[x + m] < n
    BY <1>1, <2>1
  <2>3. CASE x + p = Len(u) + 1
    BY <1>4, <2>1, <2>2, <2>3
  <2>4. CASE x + p \in 1..Len(u)
    BY <1>1, <1>6, <2>1, <2>2, <2>4 DEF Increases
  <2> QED BY <1>1, <2>1, <2>3, <2>4
<1>7. Increases(kept)
  BY <1>6 DEF Increases
<1> QED BY <1>2, <1>5, <1>7 DEF kept, lines

-----------------------------------------------------------------------------
\* No action but ShowProgress, TakeNotice, SendNotice and SendReply moves more
\* than a notice without lines.
LEMMA QuietNotice ==
  ASSUME ProgressInv, NEW notice \in Notices, notice.lines = <<>>, notice.what # "reply",
         UNCHANGED <<sink, inFlight, sentTo, details>>, sink = "open",
         toSend' = toSend \/ SubmitNotice(notice),
         unsent' = unsent \/ \E i \in ShownItems : unsent' = [unsent EXCEPT ![i] = <<>>],
         recent' \subseteq ShownItems, begunItems' \subseteq ShownItems,
         endedItems' \subseteq begunItems'
  PROVE  ProgressInv'
<1>1. /\ toSend \in Seq(Notices) /\ inFlight \in Seq(Notices) /\ sentTo \in Seq(Notices)
      /\ unsent \in [ShownItems -> Seq(1..MaxDetails)] /\ details \in 0..MaxDetails
      /\ details \in Nat
  BY ProgressTypes DEF ProgressInv
<1>2. ASSUME NEW i \in ShownItems
      PROVE  unsent'[i] = unsent[i] \/ unsent'[i] = <<>>
  BY <1>1, <1>2
<1>3. unsent' \in [ShownItems -> Seq(1..MaxDetails)]
  <2>1. <<>> \in Seq(1..MaxDetails)
    OBVIOUS
  <2> QED BY <1>1, <2>1
<1>4. /\ UnsentIsNewer'
      /\ \A i \in ShownItems : \A n \in DOMAIN unsent'[i] :
           unsent'[i][n] \in Nat /\ \E m \in DOMAIN unsent[i] : unsent'[i][n] = unsent[i][m]
  <2>1. ASSUME NEW i \in ShownItems
        PROVE  /\ Increases(unsent'[i])
               /\ \A n \in DOMAIN unsent'[i] :
                    /\ unsent'[i][n] <= details /\ unsent'[i][n] \in Nat
                    /\ \E m \in DOMAIN unsent[i] : unsent'[i][n] = unsent[i][m]
    <3>1. CASE unsent'[i] = <<>>
      <4>1. DOMAIN unsent'[i] = {}
        BY <3>1
      <4> QED BY <4>1 DEF Increases
    <3>2. CASE unsent'[i] = unsent[i]
      <4>1. /\ Increases(unsent[i]) /\ \A n \in DOMAIN unsent[i] : unsent[i][n] <= details
        BY DEF ProgressInv, UnsentIsNewer
      <4>2. ASSUME NEW n \in DOMAIN unsent[i] PROVE unsent[i][n] \in Nat
        <5>1. unsent[i] \in Seq(1..MaxDetails)
          BY <1>1
        <5>2. n \in 1..Len(unsent[i])
          BY <4>2, <5>1, LenProperties
        <5>3. unsent[i][n] \in 1..MaxDetails
          BY <5>1, <5>2, ElementOfSeq
        <5> QED BY <5>3, ProgressAssumption
      <4> QED BY <3>2, <4>1, <4>2
    <3> QED BY <1>2, <3>1, <3>2
  <2> QED BY <2>1 DEF UnsentIsNewer
<1>5. NoticesInOrder(sentTo, inFlight, toSend, details, unsent')
  <2>1. Remains(unsent, unsent', details)
    BY <1>4 DEF Remains
  <2>2. NoticesInOrder(sentTo, inFlight, toSend, details, unsent) /\ details <= details
    BY <1>1 DEF ProgressInv, NoticesAreInOrder
  <2> QED BY <1>1, <2>1, <2>2, OrderRemains, Zenon
<1>6. CASE toSend' = toSend
  <2>1. NoticesAreInOrder' /\ ReplyIsLast'
    BY <1>5, <1>6 DEF NoticesAreInOrder, ProgressInv, ReplyIsLast
  <2>2. ProgressTypeOK'
    BY <1>1, <1>3, <1>6 DEF ProgressInv, ProgressTypeOK
  <2> QED BY <1>4, <2>1, <2>2 DEF ProgressInv
<1>7. CASE toSend' = Append(toSend, notice)
  <2>1. NoticesInOrder(sentTo, inFlight, Append(toSend, notice), details, unsent')
    <3>1. /\ Increases(notice.lines) /\ Told(<<notice>>, details, unsent')
          /\ Ordered(sentTo, <<notice>>) /\ Ordered(inFlight, <<notice>>)
          /\ Ordered(toSend, <<notice>>)
      BY NoLines
    <3> QED BY <1>1, <1>5, <3>1, SubmittedInOrder
  <2>2. NoticesAreInOrder'
    BY <1>7, <2>1 DEF NoticesAreInOrder
  <2>3. /\ Append(toSend, notice) \in Seq(Notices)
        /\ DOMAIN Append(toSend, notice) = DOMAIN toSend \cup {Len(toSend) + 1}
        /\ Append(toSend, notice)[Len(toSend) + 1] = notice
        /\ \A k \in DOMAIN toSend : Append(toSend, notice)[k] = toSend[k]
    BY <1>1
  <2>4. ReplyIsLast'
    BY <1>7, <2>3 DEF ProgressInv, ReplyIsLast, NoReply
  <2>5. ProgressTypeOK'
    BY <1>1, <1>3, <1>7, <2>3 DEF ProgressInv, ProgressTypeOK
  <2> QED BY <1>4, <2>2, <2>4, <2>5 DEF ProgressInv
<1> QED BY <1>6, <1>7 DEF SubmitNotice

LEMMA StartItemKeepsOrder ==
  ASSUME ProgressInv, NEW i \in ShownItems, StartItem(i) PROVE ProgressInv'
<1>1. <<>> \in Seq(1..MaxDetails)
  OBVIOUS
<1>2. /\ Notice(i, "started", <<>>) \in Notices /\ Notice(i, "started", <<>>).lines = <<>>
      /\ Notice(i, "started", <<>>).what # "reply"
  BY <1>1 DEF Notice, Notices
<1>3. /\ recent' \subseteq ShownItems /\ begunItems' \subseteq ShownItems
      /\ endedItems' \subseteq begunItems'
  BY DEF StartItem, ProgressInv, ProgressTypeOK
<1> QED BY <1>2, <1>3, QuietNotice DEF StartItem

LEMMA EndItemKeepsOrder ==
  ASSUME ProgressInv, NEW i \in ShownItems, NEW failed \in BOOLEAN, EndItem(i, failed)
  PROVE  ProgressInv'
<1>1. <<>> \in Seq(1..MaxDetails)
  OBVIOUS
<1>2. /\ Notice(i, "failed", <<>>) \in Notices /\ Notice(i, "failed", <<>>).lines = <<>>
      /\ Notice(i, "failed", <<>>).what # "reply"
  BY <1>1 DEF Notice, Notices
<1>3. /\ recent' \subseteq ShownItems /\ begunItems' \subseteq ShownItems
      /\ endedItems' \subseteq begunItems'
  BY DEF EndItem, ProgressInv, ProgressTypeOK
<1>4. /\ toSend' = toSend \/ SubmitNotice(Notice(i, "failed", <<>>))
      /\ unsent' = [unsent EXCEPT ![i] = <<>>] /\ sink = "open"
      /\ UNCHANGED <<sink, inFlight, sentTo, details>>
  BY DEF EndItem, Left
<1> QED BY <1>2, <1>3, <1>4, QuietNotice

LEMMA IntervalKeepsOrder ==
  ASSUME ProgressInv, NEW i \in ShownItems, IntervalPasses(i) PROVE ProgressInv'
<1>1. /\ UNCHANGED <<sink, toSend, inFlight, sentTo, unsent, begunItems, endedItems, details>>
      /\ recent' \subseteq ShownItems
  BY DEF IntervalPasses, ProgressInv, ProgressTypeOK
<1> QED BY <1>1 DEF ProgressInv, ProgressTypeOK, NoticesAreInOrder, UnsentIsNewer, ReplyIsLast

LEMMA CloseSinkKeepsOrder == ASSUME ProgressInv, CloseSink PROVE ProgressInv'
<1>1. /\ UNCHANGED <<toSend, inFlight, sentTo, unsent, recent, begunItems, endedItems, details>>
      /\ sink = "open" /\ sink' = "closing"
  BY DEF CloseSink
<1> QED BY <1>1 DEF ProgressInv, ProgressTypeOK, NoticesAreInOrder, UnsentIsNewer, ReplyIsLast

\* A line of output.
LEMMA ShowProgressKeepsOrder ==
  ASSUME ProgressInv, NEW i \in ShownItems, ShowProgress(i) PROVE ProgressInv'
<1> DEFINE n == details + 1
           lines == Append(unsent[i], n)
           x == IF Len(lines) > KeptDetails THEN Len(lines) - KeptDetails ELSE 0
           kept == SubSeq(lines, 1 + x, Len(lines))
           notice == Notice(i, "progress", kept)
<1>1. /\ toSend \in Seq(Notices) /\ inFlight \in Seq(Notices) /\ sentTo \in Seq(Notices)
      /\ unsent \in [ShownItems -> Seq(1..MaxDetails)] /\ details \in 0..MaxDetails
      /\ details \in Nat
  BY ProgressTypes DEF ProgressInv
<1>2. /\ sink # "replied" /\ details < MaxDetails /\ details' = n /\ i \in begunItems
      /\ UNCHANGED <<sink, inFlight, sentTo, begunItems, endedItems>>
      /\ \/ unsent' = [unsent EXCEPT ![i] = kept] /\ UNCHANGED <<toSend, recent>>
         \/ /\ SubmitNotice(notice)
            /\ unsent' = [unsent EXCEPT ![i] = <<>>] /\ recent' = recent \cup {i}
  BY DEF ShowProgress, Left
<1>3. n \in 1..MaxDetails /\ n \in Nat /\ details < n
  BY <1>1, <1>2, ProgressAssumption
<1>4. /\ unsent[i] \in Seq(1..MaxDetails) /\ Increases(unsent[i])
      /\ \A m \in DOMAIN unsent[i] : unsent[i][m] <= details /\ unsent[i][m] \in Nat
  <2>1. unsent[i] \in Seq(1..MaxDetails) /\ Increases(unsent[i])
    BY <1>1 DEF ProgressInv, UnsentIsNewer
  <2>2. ASSUME NEW m \in DOMAIN unsent[i] PROVE unsent[i][m] <= details /\ unsent[i][m] \in Nat
    <3>1. m \in 1..Len(unsent[i])
      BY <2>1, <2>2, LenProperties
    <3>2. unsent[i][m] \in 1..MaxDetails
      BY <2>1, <3>1, ElementOfSeq
    <3> QED BY <2>2, <3>2, ProgressAssumption DEF ProgressInv, UnsentIsNewer
  <2> QED BY <2>1, <2>2
<1>5. x \in Nat /\ x <= Len(unsent[i])
  <2>1. Len(lines) = Len(unsent[i]) + 1 /\ Len(unsent[i]) \in Nat
    BY <1>4, LenProperties
  <2> QED BY <2>1, ProgressAssumption
<1>6. /\ kept \in Seq(1..MaxDetails) /\ Increases(kept)
      /\ \A m \in DOMAIN kept :
           kept[m] <= n /\ (kept[m] = n \/ \E p \in DOMAIN unsent[i] : kept[m] = unsent[i][p])
  <2>1. \A m \in DOMAIN unsent[i] : unsent[i][m] < n
    BY <1>1, <1>3, <1>4
  <2> HIDE DEF x, n
  <2> QED BY <1>3, <1>4, <1>5, <2>1, LastLines
<1>7. /\ notice \in Notices /\ notice.item = i /\ notice.what = "progress" /\ notice.lines = kept
  BY <1>6 DEF Notice, Notices
<1> HIDE DEF kept, notice, lines, x, n
<1>8. \A m \in DOMAIN kept : kept[m] \in Nat
  BY <1>3, <1>4, <1>6
<1>9. CASE unsent' = [unsent EXCEPT ![i] = kept] /\ UNCHANGED <<toSend, recent>>
  <2>1. \A j \in ShownItems : unsent'[j] = IF j = i THEN kept ELSE unsent[j]
    BY <1>1, <1>9
  <2>2. unsent' \in [ShownItems -> Seq(1..MaxDetails)]
    BY <1>1, <1>6, <1>9
  <2>3. ASSUME NEW j \in ShownItems
        PROVE  /\ Increases(unsent'[j])
               /\ \A m \in DOMAIN unsent'[j] :
                    /\ unsent'[j][m] <= n /\ unsent'[j][m] \in Nat
                    /\ unsent'[j][m] > details \/ \E p \in DOMAIN unsent[j] : unsent'[j][m] = unsent[j][p]
    <3>1. CASE j = i
      BY <1>3, <1>6, <1>8, <2>1, <3>1
    <3>2. CASE j # i
      <4>1. unsent'[j] = unsent[j]
        BY <2>1, <3>2
      <4>2. Increases(unsent[j]) /\ unsent[j] \in Seq(1..MaxDetails)
        BY <1>1 DEF ProgressInv, UnsentIsNewer
      <4>3. ASSUME NEW m \in DOMAIN unsent[j] PROVE unsent[j][m] <= n /\ unsent[j][m] \in Nat
        <5>1. m \in 1..Len(unsent[j])
          BY <4>2, <4>3, LenProperties
        <5>2. unsent[j][m] \in 1..MaxDetails /\ unsent[j][m] <= details
          BY <4>2, <4>3, <5>1, ElementOfSeq DEF ProgressInv, UnsentIsNewer
        <5> QED BY <1>1, <1>3, <5>2, ProgressAssumption
      <4> QED BY <4>1, <4>2, <4>3
    <3> QED BY <3>1, <3>2
  <2>4. UnsentIsNewer'
    BY <1>2, <2>3 DEF UnsentIsNewer
  <2>5. NoticesInOrder(sentTo, inFlight, toSend, n, unsent')
    <3>1. details <= n
      BY <1>1, <1>3
    <3>2. Remains(unsent, unsent', details)
      BY <2>3 DEF Remains
    <3>3. NoticesInOrder(sentTo, inFlight, toSend, details, unsent)
      BY DEF ProgressInv, NoticesAreInOrder
    <3> QED BY <1>1, <1>3, <3>1, <3>2, <3>3, OrderRemains, Zenon
  <2>6. NoticesAreInOrder' /\ ReplyIsLast'
    BY <1>2, <1>9, <2>5 DEF NoticesAreInOrder, ProgressInv, ReplyIsLast
  <2>7. ProgressTypeOK'
    BY <1>1, <1>2, <1>3, <1>9, <2>2 DEF ProgressInv, ProgressTypeOK
  <2> QED BY <2>4, <2>6, <2>7 DEF ProgressInv
<1>10. CASE /\ SubmitNotice(notice)
            /\ unsent' = [unsent EXCEPT ![i] = <<>>] /\ recent' = recent \cup {i}
  <2>1. \A j \in ShownItems : unsent'[j] = IF j = i THEN <<>> ELSE unsent[j]
    BY <1>1, <1>10
  <2>2. unsent' \in [ShownItems -> Seq(1..MaxDetails)]
    <3>1. <<>> \in Seq(1..MaxDetails)
      OBVIOUS
    <3> QED BY <1>1, <1>10, <3>1
  <2>3. ASSUME NEW j \in ShownItems
        PROVE  /\ Increases(unsent'[j])
               /\ \A m \in DOMAIN unsent'[j] :
                    /\ unsent'[j][m] <= n /\ unsent'[j][m] \in Nat /\ j # i
                    /\ \E p \in DOMAIN unsent[j] : unsent'[j][m] = unsent[j][p]
    <3>1. CASE j = i
      <4>1. DOMAIN unsent'[j] = {}
        BY <2>1, <3>1
      <4> QED BY <4>1 DEF Increases
    <3>2. CASE j # i
      <4>1. unsent'[j] = unsent[j]
        BY <2>1, <3>2
      <4>2. Increases(unsent[j]) /\ unsent[j] \in Seq(1..MaxDetails)
        BY <1>1 DEF ProgressInv, UnsentIsNewer
      <4>3. ASSUME NEW m \in DOMAIN unsent[j] PROVE unsent[j][m] <= n /\ unsent[j][m] \in Nat
        <5>1. m \in 1..Len(unsent[j])
          BY <4>2, <4>3, LenProperties
        <5>2. unsent[j][m] \in 1..MaxDetails /\ unsent[j][m] <= details
          BY <4>2, <4>3, <5>1, ElementOfSeq DEF ProgressInv, UnsentIsNewer
        <5> QED BY <1>1, <1>3, <5>2, ProgressAssumption
      <4> QED BY <3>2, <4>1, <4>2, <4>3
    <3> QED BY <3>1, <3>2
  <2>4. UnsentIsNewer'
    BY <1>2, <2>3 DEF UnsentIsNewer
  <2>5. NoticesInOrder(sentTo, inFlight, toSend, n, unsent')
    <3>1. details <= n
      BY <1>1, <1>3
    <3>2. Remains(unsent, unsent', details)
      BY <2>3 DEF Remains
    <3>3. NoticesInOrder(sentTo, inFlight, toSend, details, unsent)
      BY DEF ProgressInv, NoticesAreInOrder
    <3> QED BY <1>1, <1>3, <3>1, <3>2, <3>3, OrderRemains, Zenon
  <2>6. ASSUME NEW s \in Seq(Notices), Told(s, details, unsent) PROVE Ordered(s, <<notice>>)
    <3>1. DOMAIN <<notice>> = {1} /\ <<notice>>[1] = notice
      OBVIOUS
    <3>2. ASSUME NEW k \in DOMAIN s, s[k].item = i, NEW m \in DOMAIN s[k].lines,
                 NEW p \in DOMAIN kept
          PROVE  s[k].lines[m] < kept[p]
      <4>1. s[k].lines[m] <= details /\ \A q \in DOMAIN unsent[i] : s[k].lines[m] < unsent[i][q]
        BY <2>6, <3>2 DEF Told
      <4>2. s[k].lines[m] \in Nat
        <5>1. s[k] \in Notices
          BY <3>2
        <5>2. s[k].lines \in Seq(1..MaxDetails)
          BY <5>1 DEF Notices
        <5>3. m \in 1..Len(s[k].lines)
          BY <3>2, <5>2, LenProperties
        <5>4. s[k].lines[m] \in 1..MaxDetails
          BY <5>2, <5>3, ElementOfSeq
        <5> QED BY <5>4, ProgressAssumption
      <4>3. kept[p] = n \/ \E q \in DOMAIN unsent[i] : kept[p] = unsent[i][q]
        BY <1>6, <3>2
      <4>4. CASE kept[p] = n
        BY <1>1, <1>3, <4>1, <4>2, <4>4
      <4> QED BY <4>1, <4>3, <4>4
    <3> QED BY <1>7, <3>1, <3>2 DEF Ordered
  <2>7. /\ Ordered(sentTo, <<notice>>) /\ Ordered(inFlight, <<notice>>)
        /\ Ordered(toSend, <<notice>>)
    BY <1>1, <2>6 DEF ProgressInv, NoticesAreInOrder, NoticesInOrder
  <2>8. Told(<<notice>>, n, unsent')
    <3>1. DOMAIN <<notice>> = {1} /\ <<notice>>[1] = notice /\ DOMAIN unsent'[i] = {}
      BY <2>1
    <3> QED BY <1>6, <1>7, <3>1 DEF Told
  <2>9. NoticesInOrder(sentTo, inFlight, Append(toSend, notice), n, unsent')
    BY <1>1, <1>6, <1>7, <2>5, <2>7, <2>8, SubmittedInOrder
  <2>10. /\ Append(toSend, notice) \in Seq(Notices)
         /\ DOMAIN Append(toSend, notice) = DOMAIN toSend \cup {Len(toSend) + 1}
         /\ Append(toSend, notice)[Len(toSend) + 1] = notice
         /\ \A k \in DOMAIN toSend : Append(toSend, notice)[k] = toSend[k]
    BY <1>1, <1>7
  <2>11. toSend' = toSend \/ toSend' = Append(toSend, notice)
    BY <1>10 DEF SubmitNotice
  <2>12. NoticesAreInOrder'
    BY <1>2, <2>5, <2>9, <2>11 DEF NoticesAreInOrder
  <2>13. ReplyIsLast'
    BY <1>2, <1>7, <2>10, <2>11 DEF ProgressInv, ReplyIsLast, NoReply
  <2>14. ProgressTypeOK'
    <3>1. toSend' \in Seq(Notices)
      BY <1>1, <2>10, <2>11
    <3>2. recent' \subseteq ShownItems /\ details' \in 0..MaxDetails
      BY <1>2, <1>3, <1>10 DEF ProgressInv, ProgressTypeOK
    <3> QED BY <1>1, <1>2, <2>2, <3>1, <3>2 DEF ProgressInv, ProgressTypeOK
  <2> QED BY <2>4, <2>12, <2>13, <2>14 DEF ProgressInv
<1> QED BY <1>2, <1>9, <1>10

\* The first notice is taken.
LEMMA TakeNoticeKeepsOrder == ASSUME ProgressInv, TakeNotice PROVE ProgressInv'
<1>1. /\ toSend \in Seq(Notices) /\ inFlight \in Seq(Notices) /\ sentTo \in Seq(Notices)
      /\ inFlight = <<>> /\ toSend # <<>>
      /\ inFlight' = <<Head(toSend)>> /\ toSend' = Tail(toSend)
      /\ UNCHANGED <<sink, sentTo, unsent, recent, begunItems, endedItems, details>>
  BY ProgressTypes DEF ProgressInv, TakeNotice
<1> DEFINE first == toSend[1]
           rest == Tail(toSend)
<1>2. /\ Len(toSend) \in Nat /\ Len(toSend) >= 1 /\ DOMAIN toSend = 1..Len(toSend)
      /\ Head(toSend) = first /\ first \in Notices
  <2>1. Len(toSend) \in Nat /\ Len(toSend) >= 1 /\ DOMAIN toSend = 1..Len(toSend)
    BY <1>1, EmptySeq, LenProperties
  <2>2. first \in Notices
    BY <1>1, <2>1, ElementOfSeq
  <2> QED BY <1>1, <2>1, <2>2
<1>3. /\ rest \in Seq(Notices) /\ DOMAIN rest = 1..(Len(toSend) - 1)
      /\ \A k \in 1..(Len(toSend) - 1) : rest[k] = toSend[k + 1]
  <2>1. rest \in Seq(Notices) /\ Len(rest) = Len(toSend) - 1
        /\ \A k \in 1..Len(rest) : rest[k] = toSend[k + 1]
    BY <1>1, HeadTailProperties
  <2>2. DOMAIN rest = 1..Len(rest)
    BY <2>1, LenProperties
  <2> QED BY <2>1, <2>2
<1>4. inFlight' = <<first>> /\ DOMAIN <<first>> = {1} /\ <<first>>[1] = first
      /\ <<first>> \in Seq(Notices)
  BY <1>1, <1>2
<1>5. NoticesInOrder(sentTo, inFlight, toSend, details, unsent)
  BY DEF ProgressInv, NoticesAreInOrder
<1> HIDE DEF rest, first
<1>6. toSend' = rest
  BY <1>1 DEF rest
<1>7. first = toSend[1] /\ 1 \in DOMAIN toSend
  BY <1>2 DEF first
<1>8. \A k \in DOMAIN rest : k \in Nat /\ k + 1 \in DOMAIN toSend /\ rest[k] = toSend[k + 1]
  BY <1>2, <1>3
<1>9. OrderedIn(<<first>>)
  <2>1. ASSUME NEW k \in DOMAIN <<first>>, NEW l \in DOMAIN <<first>>, k <= l,
               NEW m \in DOMAIN <<first>>[k].lines, NEW n \in DOMAIN <<first>>[l].lines,
               k < l \/ m < n
        PROVE  <<first>>[k].lines[m] < <<first>>[l].lines[n]
    <3>1. k = 1 /\ l = 1 /\ m < n
      BY <1>4, <2>1
    <3> QED BY <1>4, <1>5, <1>7, <2>1, <3>1 DEF NoticesInOrder, OrderedIn
  <2> QED BY <2>1 DEF OrderedIn
<1>10. OrderedIn(rest)
  <2>1. ASSUME NEW k \in DOMAIN rest, NEW l \in DOMAIN rest, k <= l, rest[k].item = rest[l].item,
               NEW m \in DOMAIN rest[k].lines, NEW n \in DOMAIN rest[l].lines, k < l \/ m < n
        PROVE  rest[k].lines[m] < rest[l].lines[n]
    <3>1. /\ k + 1 \in DOMAIN toSend /\ l + 1 \in DOMAIN toSend /\ k + 1 <= l + 1
          /\ k + 1 < l + 1 \/ m < n
          /\ rest[k] = toSend[k + 1] /\ rest[l] = toSend[l + 1]
      BY <1>8, <2>1
    <3> QED BY <1>5, <2>1, <3>1 DEF NoticesInOrder, OrderedIn
  <2> QED BY <2>1 DEF OrderedIn
<1>11. Ordered(<<first>>, rest)
  <2>1. ASSUME NEW l \in DOMAIN rest, first.item = rest[l].item,
               NEW m \in DOMAIN first.lines, NEW n \in DOMAIN rest[l].lines
        PROVE  first.lines[m] < rest[l].lines[n]
    <3>1. l + 1 \in DOMAIN toSend /\ 1 <= l + 1 /\ 1 < l + 1 /\ rest[l] = toSend[l + 1]
      BY <1>3, <1>8, <2>1
    <3> QED BY <1>5, <1>7, <2>1, <3>1 DEF NoticesInOrder, OrderedIn
  <2> QED BY <1>4, <2>1 DEF Ordered
<1>12. Ordered(sentTo, <<first>>) /\ Ordered(sentTo, rest)
  <2>1. Ordered(sentTo, toSend)
    BY <1>5 DEF NoticesInOrder
  <2> QED BY <1>4, <1>7, <1>8, <2>1 DEF Ordered
<1>13. Told(<<first>>, details, unsent) /\ Told(rest, details, unsent)
  <2>1. Told(toSend, details, unsent)
    BY <1>5 DEF NoticesInOrder
  <2> QED BY <1>4, <1>7, <1>8, <2>1 DEF Told
<1>14. NoticesInOrder(sentTo, <<first>>, rest, details, unsent)
  BY <1>5, <1>9, <1>10, <1>11, <1>12, <1>13 DEF NoticesInOrder
<1>15. NoticesAreInOrder'
  BY <1>1, <1>4, <1>6, <1>14 DEF NoticesAreInOrder
<1>16. UnsentIsNewer'
  BY <1>1 DEF ProgressInv, UnsentIsNewer
<1>17. ReplyIsLast'
  <2>1. sink # "replied"
    BY <1>1 DEF ProgressInv, ReplyIsLast
  <2>2. NoReply(rest) /\ NoReply(<<first>>)
    BY <1>4, <1>7, <1>8 DEF ProgressInv, ReplyIsLast, NoReply
  <2> QED BY <1>1, <1>4, <1>6, <2>1, <2>2 DEF ProgressInv, ReplyIsLast
<1>18. ProgressTypeOK'
  BY <1>1, <1>3, <1>4, <1>6 DEF ProgressInv, ProgressTypeOK
<1> QED BY <1>15, <1>16, <1>17, <1>18 DEF ProgressInv

\* It is sent, or lost.
LEMMA SendNoticeKeepsOrder == ASSUME ProgressInv, SendNotice PROVE ProgressInv'
<1>1. /\ toSend \in Seq(Notices) /\ inFlight \in Seq(Notices) /\ sentTo \in Seq(Notices)
      /\ inFlight # <<>> /\ inFlight' = <<>> /\ (sentTo' = sentTo \/ sentTo' = sentTo \o inFlight)
      /\ UNCHANGED <<sink, toSend, unsent, recent, begunItems, endedItems, details>>
  BY ProgressTypes DEF ProgressInv, SendNotice
<1> DEFINE all == sentTo \o inFlight
<1>2. NoticesInOrder(sentTo, inFlight, toSend, details, unsent)
  BY DEF ProgressInv, NoticesAreInOrder
<1>3. /\ all \in Seq(Notices) /\ Len(all) = Len(sentTo) + Len(inFlight)
      /\ \A k \in 1..Len(all) :
           all[k] = IF k <= Len(sentTo) THEN sentTo[k] ELSE inFlight[k - Len(sentTo)]
  BY <1>1, ConcatProperties
<1>4. /\ DOMAIN all = 1..Len(all) /\ DOMAIN sentTo = 1..Len(sentTo)
      /\ DOMAIN inFlight = 1..Len(inFlight) /\ Len(sentTo) \in Nat /\ Len(inFlight) \in Nat
  <2>1. DOMAIN all = 1..Len(all)
    BY <1>3, LenProperties
  <2>2. DOMAIN sentTo = 1..Len(sentTo) /\ Len(sentTo) \in Nat
    BY <1>1, LenProperties
  <2>3. DOMAIN inFlight = 1..Len(inFlight) /\ Len(inFlight) \in Nat
    BY <1>1, LenProperties
  <2> QED BY <2>1, <2>2, <2>3
<1> HIDE DEF all
<1>5. ASSUME NEW k \in DOMAIN all
      PROVE  \/ k \in DOMAIN sentTo /\ all[k] = sentTo[k] /\ k <= Len(sentTo)
             \/ k - Len(sentTo) \in DOMAIN inFlight /\ all[k] = inFlight[k - Len(sentTo)]
                /\ k > Len(sentTo)
  BY <1>3, <1>4, <1>5
<1>6. \A k \in DOMAIN all : k \in Nat
  BY <1>3, <1>4
<1>7. OrderedIn(all)
  <2>1. ASSUME NEW k \in DOMAIN all, NEW l \in DOMAIN all, k <= l, all[k].item = all[l].item,
               NEW m \in DOMAIN all[k].lines, NEW n \in DOMAIN all[l].lines, k < l \/ m < n
        PROVE  all[k].lines[m] < all[l].lines[n]
    <3>1. CASE k \in DOMAIN sentTo /\ all[k] = sentTo[k] /\ l \in DOMAIN sentTo /\ all[l] = sentTo[l]
      BY <1>2, <2>1, <3>1 DEF NoticesInOrder, OrderedIn
    <3>2. CASE /\ k \in DOMAIN sentTo /\ all[k] = sentTo[k]
               /\ l - Len(sentTo) \in DOMAIN inFlight /\ all[l] = inFlight[l - Len(sentTo)]
      BY <1>2, <2>1, <3>2 DEF NoticesInOrder, Ordered
    <3>3. CASE /\ k - Len(sentTo) \in DOMAIN inFlight /\ all[k] = inFlight[k - Len(sentTo)]
               /\ l - Len(sentTo) \in DOMAIN inFlight /\ all[l] = inFlight[l - Len(sentTo)]
      <4>1. /\ k - Len(sentTo) <= l - Len(sentTo)
            /\ k - Len(sentTo) < l - Len(sentTo) \/ m < n
        BY <1>4, <1>6, <2>1
      <4> QED BY <1>2, <2>1, <3>3, <4>1 DEF NoticesInOrder, OrderedIn
    <3> QED BY <1>4, <1>5, <1>6, <2>1, <3>1, <3>2, <3>3
  <2> QED BY <2>1 DEF OrderedIn
<1>8. Ordered(all, toSend) /\ Told(all, details, unsent)
  <2>1. /\ Ordered(sentTo, toSend) /\ Ordered(inFlight, toSend)
        /\ Told(sentTo, details, unsent) /\ Told(inFlight, details, unsent)
    BY <1>2 DEF NoticesInOrder
  <2>2. \A k \in DOMAIN all :
          \/ k \in DOMAIN sentTo /\ all[k] = sentTo[k]
          \/ \E l \in DOMAIN inFlight : all[k] = inFlight[l]
    BY <1>5
  <2>3. Ordered(all, toSend)
    BY <2>1, <2>2 DEF Ordered
  <2>4. Told(all, details, unsent)
    BY <2>1, <2>2 DEF Told
  <2> QED BY <2>3, <2>4
<1>9. ASSUME NEW s PROVE OrderedIn(<<>>) /\ Ordered(s, <<>>) /\ Ordered(<<>>, s)
                         /\ Told(<<>>, details, unsent)
  <2>1. DOMAIN <<>> = {}
    OBVIOUS
  <2> QED BY <2>1 DEF OrderedIn, Ordered, Told
<1>10. NoticesAreInOrder'
  <2>1. NoticesInOrder(all, <<>>, toSend, details, unsent)
    BY <1>2, <1>7, <1>8, <1>9 DEF NoticesInOrder
  <2>2. NoticesInOrder(sentTo, <<>>, toSend, details, unsent)
    BY <1>2, <1>9 DEF NoticesInOrder
  <2>3. sentTo' = sentTo \/ sentTo' = all
    BY <1>1 DEF all
  <2> QED BY <1>1, <2>1, <2>2, <2>3 DEF NoticesAreInOrder
<1>11. UnsentIsNewer'
  BY <1>1 DEF ProgressInv, UnsentIsNewer
<1>12. ReplyIsLast'
  <2>1. sink # "replied" /\ NoReply(inFlight) /\ NoReply(sentTo) /\ NoReply(toSend)
    BY <1>1 DEF ProgressInv, ReplyIsLast, NoReply
  <2>2. NoReply(all)
    BY <1>5, <2>1 DEF NoReply
  <2>3. sentTo' = sentTo \/ sentTo' = all
    BY <1>1 DEF all
  <2>4. NoReply(<<>>)
    BY DEF NoReply
  <2>5. NoReply(sentTo') /\ NoReply(inFlight') /\ NoReply(toSend') /\ sink' # "replied"
    BY <1>1, <2>1, <2>2, <2>3, <2>4
  <2> QED BY <2>5 DEF ReplyIsLast, NoReply
<1>13. ProgressTypeOK'
  <2>1. sentTo' \in Seq(Notices) /\ inFlight' \in Seq(Notices)
    <3>1. <<>> \in Seq(Notices)
      OBVIOUS
    <3>2. sentTo' = sentTo \/ sentTo' = all
      BY <1>1 DEF all
    <3> QED BY <1>1, <1>3, <3>1, <3>2
  <2> QED BY <1>1, <2>1 DEF ProgressInv, ProgressTypeOK
<1> QED BY <1>10, <1>11, <1>12, <1>13 DEF ProgressInv

LEMMA SendReplyKeepsOrder == ASSUME ProgressInv, SendReply PROVE ProgressInv'
<1> DEFINE lastNotice == Notice("turn", "reply", <<>>)
           all == Append(sentTo, lastNotice)
           last == Len(sentTo) + 1
<1>1. /\ toSend = <<>> /\ inFlight = <<>> /\ sink = "closing" /\ sink' = "replied"
      /\ sentTo' = all /\ sentTo \in Seq(Notices)
      /\ UNCHANGED <<toSend, inFlight, unsent, recent, begunItems, endedItems, details>>
  BY ProgressTypes DEF ProgressInv, SendReply, MayReply
<1>2. lastNotice \in Notices /\ lastNotice.lines = <<>> /\ lastNotice.what = "reply"
  <2>1. <<>> \in Seq(1..MaxDetails)
    OBVIOUS
  <2> QED BY <2>1 DEF Notice, Notices
<1>3. NoticesInOrder(sentTo, inFlight, toSend, details, unsent)
  BY DEF ProgressInv, NoticesAreInOrder
<1> HIDE DEF lastNotice
<1>4. Ordered(sentTo, <<lastNotice>>) /\ Increases(lastNotice.lines) /\ Told(<<lastNotice>>, details, unsent)
  BY <1>2, NoLines
<1>5. /\ all \in Seq(Notices) /\ OrderedIn(all) /\ DOMAIN all = DOMAIN sentTo \cup {last}
      /\ all[last] = lastNotice /\ Len(all) = last /\ \A k \in DOMAIN sentTo : all[k] = sentTo[k]
  BY <1>1, <1>2, <1>3, <1>4, OneMoreNotice DEF NoticesInOrder
<1> HIDE DEF all, last
<1>6. Told(all, details, unsent)
  <2>1. DOMAIN lastNotice.lines = {}
    BY <1>2
  <2> QED BY <1>3, <1>5, <2>1 DEF NoticesInOrder, Told
<1>7. Ordered(all, <<>>)
  <2>1. DOMAIN <<>> = {}
    OBVIOUS
  <2> QED BY <2>1 DEF Ordered
<1>8. NoticesAreInOrder'
  BY <1>1, <1>3, <1>5, <1>6, <1>7 DEF NoticesAreInOrder, NoticesInOrder
<1>9. UnsentIsNewer'
  BY <1>1 DEF ProgressInv, UnsentIsNewer
<1>10. ReplyIsLast'
  <2>1. \A k \in DOMAIN sentTo : sentTo[k].what # "reply"
    BY <1>1 DEF ProgressInv, ReplyIsLast
  <2>2. \A k \in DOMAIN all : all[k].what = "reply" => k = Len(all)
    BY <1>5, <2>1
  <2> QED BY <1>1, <2>2 DEF ProgressInv, ReplyIsLast
<1>11. ProgressTypeOK'
  BY <1>1, <1>5 DEF ProgressInv, ProgressTypeOK
<1> QED BY <1>8, <1>9, <1>10, <1>11 DEF ProgressInv

LEMMA ProgressInvKept == ASSUME ProgressInv, [ProgressNext]_progressVars PROVE ProgressInv'
<1>1. ASSUME NEW i \in ShownItems, StartItem(i) \/ ShowProgress(i) \/ IntervalPasses(i)
      PROVE  ProgressInv'
  BY <1>1, StartItemKeepsOrder, ShowProgressKeepsOrder, IntervalKeepsOrder
<1>2. ASSUME NEW i \in ShownItems, NEW failed \in BOOLEAN, EndItem(i, failed) PROVE ProgressInv'
  BY <1>2, EndItemKeepsOrder
<1>3. CASE TakeNotice \/ SendNotice \/ CloseSink \/ SendReply
  BY <1>3, TakeNoticeKeepsOrder, SendNoticeKeepsOrder, CloseSinkKeepsOrder, SendReplyKeepsOrder
<1>4. CASE UNCHANGED progressVars
  BY <1>4 DEF progressVars, ProgressInv, ProgressTypeOK, NoticesAreInOrder, UnsentIsNewer, ReplyIsLast
<1> QED BY <1>1, <1>2, <1>3, <1>4 DEF ProgressNext

\* The reply is the last that a user gets of a turn, and the lines of an item come
\* in their order, each at most once: one executor sends what was submitted in its
\* order, what waits for the interval is newer than all of it, and the reply waits
\* for the executor.
THEOREM NoticesComeInOrder == ProgressSpec => []ProgressPrecedesReply
<1>1. ProgressInv => ProgressPrecedesReply
  BY DEF ProgressInv, NoticesAreInOrder, NoticesInOrder, OrderedIn, ReplyIsLast, ProgressPrecedesReply
<1> QED BY <1>1, ProgressInvHolds, ProgressInvKept, PTL DEF ProgressSpec

-----------------------------------------------------------------------------
(* The interactive session (InteractiveCli) *)

\* A turn from the start of its thread to the end of its output.
Underway(n) == turn[n].at \in {"born", "runs", "asks", "returned", "printed"}

\* One turn is active, and the flag says so; a token is that of a turn which runs in its
\* session; the words on the screen are of a turn that has not been printed.
OneIsActive ==
  /\ \A m, n \in Typing : Underway(m) /\ Underway(n) => m = n
  /\ \A n \in Typing : Underway(n) => turnActive
TokensAreHeld ==
  \A s \in Chats : tokens[s] # 0 => InTurn(tokens[s]) /\ turn[tokens[s]].chat = s
WordsAreHeld == \A n \in onScreen : n # 0 => turn[n].at \in {"runs", "asks", "returned"}
PrompterIsSound ==
  /\ prompter.to = "start" => prompter.msg \in Typing
  /\ prompter.to = "resolve" => typed < MaxTyped
CliInv ==
  /\ CliTypeOK /\ PrompterIsSound
  /\ OneIsActive /\ TokensAreHeld /\ WordsAreHeld /\ ~refused /\ ~mixed

TurnRecord ==
  [at : {"none", "born", "runs", "asks", "returned", "printed", "passed", "over"},
   chat : Chats, reason : {"none", "user_steer", "user_stop", "user_exit"},
   status : {"none", "success", "awaiting_input", "superseded", "cancelled"},
   next : MaybeTyped, exits : BOOLEAN]

LEMMA TypingIsPositive == Typing \subseteq Nat \ {0} /\ MaybeTyped = Typing \cup {0}
BY CliAssumption DEF Typing, MaybeTyped

\* A turn is replaced by another of its type.
LEMMA OneTurnChanges ==
  ASSUME CliTypeOK, NEW n \in Typing, NEW r \in TurnRecord, turn' = [turn EXCEPT ![n] = r]
  PROVE  /\ turn' \in [Typing -> TurnRecord] /\ turn'[n] = r
         /\ \A m \in Typing \ {n} : turn'[m] = turn[m]
<1>1. turn \in [Typing -> TurnRecord]
  BY DEF CliTypeOK, TurnRecord
<1> QED BY <1>1

LEMMA TurnType == ASSUME CliTypeOK, NEW n \in Typing PROVE turn[n] \in TurnRecord
BY DEF CliTypeOK, TurnRecord

LEMMA NoTurnType ==
  /\ NoTurn \in TurnRecord /\ NoTurn.at = "none"
  /\ Over \in TurnRecord /\ Over.at = "over"
BY CliAssumption, TypingIsPositive DEF NoTurn, Over, TurnRecord

LEMMA CliInvHolds == CliInit => CliInv
<1> SUFFICES ASSUME CliInit PROVE CliInv
  OBVIOUS
<1>1. 0 \in MaybeTyped /\ FirstChat \in Chats
  BY CliAssumption, TypingIsPositive
<1>2. /\ \A n \in Typing : turn[n].at = "none"
      /\ turn \in [Typing -> TurnRecord]
  BY NoTurnType DEF CliInit
<1>3. /\ \A s \in Chats : tokens[s] = 0
      /\ tokens \in [Chats -> MaybeTyped] /\ question \in [Chats -> {"none", "pending", "resolved"}]
  BY <1>1 DEF CliInit
<1>4. /\ prompter.to = "read" /\ prompter.msg = 0
      /\ prompter \in [to : {"read", "steer", "start", "exit", "cancel", "switch", "resolve"},
                       msg : MaybeTyped]
  BY <1>1 DEF CliInit, Free
<1>5. /\ turnActive = FALSE /\ waiting = 0 /\ leaving = FALSE /\ chat = FirstChat /\ typed = 0
      /\ panel = FALSE /\ onScreen = {} /\ mixed = FALSE /\ closed = FALSE /\ refused = FALSE
  BY DEF CliInit
<1>6. CliTypeOK
  BY <1>1, <1>2, <1>3, <1>4, <1>5 DEF CliTypeOK, TurnRecord
<1> QED BY <1>2, <1>3, <1>4, <1>5, <1>6 DEF CliInv, PrompterIsSound, OneIsActive, TokensAreHeld, WordsAreHeld,
           Underway

\* What an action has to show that leaves the turns where they are.
LEMMA TurnsStay ==
  ASSUME CliInv, CliTypeOK', PrompterIsSound',
         \A n \in Typing : turn'[n].at = turn[n].at /\ turn'[n].chat = turn[n].chat,
         UNCHANGED <<turnActive, tokens, refused, mixed>>,
         \A n \in onScreen' : n # 0 => n \in onScreen \/ turn[n].at = "runs"
  PROVE  CliInv'
<1>1. CliTypeOK /\ OneIsActive /\ TokensAreHeld /\ WordsAreHeld
  BY DEF CliInv
<1>2. OneIsActive'
  BY <1>1 DEF OneIsActive, Underway
<1>3. TokensAreHeld'
  <2> SUFFICES ASSUME NEW s \in Chats, tokens[s] # 0
               PROVE  (InTurn(tokens[s]) /\ turn[tokens[s]].chat = s)'
    BY DEF TokensAreHeld
  <2>1. tokens[s] \in Typing /\ tokens' = tokens
    BY <1>1, TypingIsPositive DEF CliTypeOK
  <2> QED BY <1>1, <2>1 DEF TokensAreHeld, InTurn
<1>4. WordsAreHeld'
  <2> SUFFICES ASSUME NEW n \in onScreen', n # 0
               PROVE  turn'[n].at \in {"runs", "asks", "returned"}
    BY DEF WordsAreHeld
  <2>1. n \in Typing
    BY TypingIsPositive DEF CliTypeOK
  <2> QED BY <1>1, <2>1 DEF WordsAreHeld
<1> QED BY <1>2, <1>3, <1>4 DEF CliInv

\* cancel_session() says why, and moves no turn.
LEMMA CancelMovesNothing ==
  ASSUME CliInv, NEW s \in Chats, NEW reason \in {"user_steer", "user_stop", "user_exit"},
         CancelSession(s, reason)
  PROVE  /\ turn' \in [Typing -> TurnRecord]
         /\ \A n \in Typing : turn'[n].at = turn[n].at /\ turn'[n].chat = turn[n].chat
<1>1. turn \in [Typing -> TurnRecord]
  BY DEF CliInv, CliTypeOK, TurnRecord
<1> SUFFICES ASSUME NEW n \in Typing
             PROVE  /\ turn'[n] \in TurnRecord /\ turn'[n].at = turn[n].at
                    /\ turn'[n].chat = turn[n].chat
  BY DEF CancelSession
<1>2. turn'[n] = IF n = tokens[s] /\ turn[n].reason = "none"
                 THEN [turn[n] EXCEPT !.reason = reason] ELSE turn[n]
  BY DEF CancelSession
<1>3. CASE n = tokens[s] /\ turn[n].reason = "none"
  BY <1>1, <1>2, <1>3 DEF TurnRecord
<1>4. CASE ~(n = tokens[s] /\ turn[n].reason = "none")
  BY <1>1, <1>2, <1>4
<1> QED BY <1>3, <1>4

LEMMA UserMoves == CliInv /\ UserStep => CliInv'
<1> SUFFICES ASSUME CliInv, UserStep PROVE CliInv'
  OBVIOUS
<1>1. CliTypeOK /\ (typed < MaxTyped => typed + 1 \in Typing)
  BY CliAssumption DEF CliInv, CliTypeOK, Typing, MaybeTyped
<1>2. CASE SubmitText
  <2>1. CliTypeOK' /\ PrompterIsSound'
    BY <1>1, <1>2, TypingIsPositive DEF SubmitText, PrompterIsSound, CliTypeOK, screen
  <2> QED BY <1>2, <2>1, TurnsStay DEF PrompterIsSound, SubmitText, screen
<1>3. CASE SubmitExit
  <2>1. CliTypeOK' /\ PrompterIsSound'
    BY <1>1, <1>3, TypingIsPositive DEF SubmitExit, PrompterIsSound, CliTypeOK, screen
  <2> QED BY <1>3, <2>1, TurnsStay DEF PrompterIsSound, SubmitExit, screen
<1>4. CASE SubmitSwitch
  <2>1. CliTypeOK' /\ PrompterIsSound'
    BY <1>1, <1>4, TypingIsPositive DEF SubmitSwitch, PrompterIsSound, CliTypeOK, screen, flags
  <2> QED BY <1>4, <2>1, TurnsStay DEF PrompterIsSound, SubmitSwitch, screen, flags
<1>5. CASE Stop
  <2>1. /\ CancelSession(chat, "user_stop") /\ prompter' = prompter /\ Reading
        /\ UNCHANGED <<turnActive, waiting, leaving, chat, typed, tokens, onScreen, mixed,
                       closed, refused>>
    BY <1>5 DEF Stop, flags
  <2>2. question' \in [Chats -> {"none", "pending", "resolved"}] /\ panel' \in BOOLEAN
    <3>1. question' \in [Chats -> {"none", "pending", "resolved"}]
      BY <1>1, <1>5 DEF Stop, CliTypeOK
    <3>2. panel' \in BOOLEAN
      BY <1>5, Zenon DEF Stop
    <3> QED BY <3>1, <3>2
  <2>3. /\ turn' \in [Typing -> TurnRecord]
        /\ \A n \in Typing : turn'[n].at = turn[n].at /\ turn'[n].chat = turn[n].chat
    BY <1>1, <2>1, CancelMovesNothing DEF CliTypeOK
  <2>4. CliTypeOK'
    BY <1>1, <2>1, <2>2, <2>3 DEF CliTypeOK, TurnRecord
  <2> QED BY <2>1, <2>3, <2>4, TurnsStay DEF PrompterIsSound, Reading
<1>6. CASE Choose
  <2>1. CliTypeOK' /\ PrompterIsSound'
    BY <1>1, <1>6, TypingIsPositive DEF Choose, PrompterIsSound, CliTypeOK, flags
  <2> QED BY <1>6, <2>1, TurnsStay DEF PrompterIsSound, Choose, flags
<1> QED BY <1>2, <1>3, <1>4, <1>5, <1>6 DEF UserStep

\* What a turn adds to the screen is its own.
LEMMA TurnShows ==
  ASSUME NEW n \in Typing PROVE CliInv /\ (Delta(n) \/ Transient(n) \/ ShowPanel(n)) => CliInv'
<1> SUFFICES ASSUME CliInv, Delta(n) \/ Transient(n) \/ ShowPanel(n) PROVE CliInv'
  OBVIOUS
<1>1. CliTypeOK /\ PrompterIsSound
  BY DEF CliInv
<1>2. CASE Delta(n)
  <2>1. CliTypeOK'
    BY <1>1, <1>2, TypingIsPositive DEF Delta, CliTypeOK, flags
  <2> QED BY <1>1, <1>2, <2>1, TurnsStay DEF PrompterIsSound, Delta, flags
<1>3. CASE Transient(n)
  <2>1. CliTypeOK'
    BY <1>1, <1>3, TypingIsPositive DEF Transient, CliTypeOK, flags
  <2> QED BY <1>1, <1>3, <2>1, TurnsStay DEF PrompterIsSound, Transient, flags
<1>4. CASE ShowPanel(n)
  <2>1. CliTypeOK'
    BY <1>1, <1>4, TypingIsPositive DEF ShowPanel, CliTypeOK, flags
  <2> QED BY <1>1, <1>4, <2>1, TurnsStay DEF PrompterIsSound, ShowPanel, flags
<1> QED BY <1>2, <1>3, <1>4

\* A turn begins when none is active.
LEMMA TurnBegins ==
  ASSUME CliInv, CliTypeOK', NEW n \in Typing, turn'[n].at = "born", ~turnActive, turnActive' = TRUE,
         \A m \in Typing \ {n} :
           turn'[m].at \in {turn[m].at, "over"},
         PrompterIsSound',
         UNCHANGED <<tokens, onScreen, refused, mixed>>
  PROVE  CliInv'
<1>1. CliTypeOK /\ OneIsActive /\ TokensAreHeld /\ WordsAreHeld
  BY DEF CliInv
<1>2. \A m \in Typing : ~Underway(m)
  BY <1>1 DEF OneIsActive
<1>3. OneIsActive'
  <2>1. \A m \in Typing \ {n} : ~Underway(m)'
    BY <1>2 DEF Underway
  <2> QED BY <2>1 DEF OneIsActive
<1>4. ASSUME NEW s \in Chats PROVE tokens[s] = 0
  <2>1. tokens[s] \in Typing \cup {0}
    BY <1>1, TypingIsPositive DEF CliTypeOK
  <2> QED BY <1>1, <1>2, <2>1 DEF TokensAreHeld, InTurn, Underway
<1>5. \A m \in onScreen : m = 0
  BY <1>1, <1>2, TypingIsPositive DEF WordsAreHeld, Underway, CliTypeOK
<1> QED BY <1>3, <1>4, <1>5 DEF CliInv, TokensAreHeld, WordsAreHeld

LEMMA PromptMoves == CliInv /\ PromptStep => CliInv'
<1> SUFFICES ASSUME CliInv, PromptStep PROVE CliInv'
  OBVIOUS
<1>1. CliTypeOK /\ PrompterIsSound
  BY DEF CliInv
<1>2. Free.to = "read" /\ Free.msg = 0 /\
      Free \in [to : {"read", "steer", "start", "exit", "cancel", "switch", "resolve"},
                msg : MaybeTyped]
  BY TypingIsPositive DEF Free
<1>3. CASE Steer
  <2>1. CancelSession(chat, "user_steer") /\ prompter' = Free
        /\ UNCHANGED <<turnActive, waiting, leaving, chat, typed, tokens, question, panel,
                       onScreen, mixed, closed, refused>>
    BY <1>3 DEF Steer, flags, screen
  <2>2. /\ turn' \in [Typing -> TurnRecord]
        /\ \A n \in Typing : turn'[n].at = turn[n].at /\ turn'[n].chat = turn[n].chat
    BY <1>1, <2>1, CancelMovesNothing DEF CliTypeOK
  <2>3. CliTypeOK'
    BY <1>1, <1>2, <2>1, <2>2 DEF CliTypeOK, TurnRecord
  <2> QED BY <1>2, <2>1, <2>2, <2>3, TurnsStay DEF PrompterIsSound
<1>4. CASE Start
  <2> DEFINE n == prompter.msg
  <2>1. /\ n \in Typing /\ prompter' = Free /\ turnActive' = TRUE
        /\ turn' = IF turnActive THEN turn ELSE [turn EXCEPT ![n].at = "born"]
        /\ UNCHANGED <<waiting, leaving, chat, typed, tokens, question, panel, onScreen, mixed,
                       closed, refused>>
    BY <1>1, <1>4 DEF Start, StartRun, screen, PrompterIsSound
  <2> HIDE DEF n
  <2>2. CASE turnActive
    <3>1. CliTypeOK' /\ turnActive' = turnActive
      BY <1>1, <1>2, <2>1, <2>2 DEF CliTypeOK
    <3> QED BY <1>2, <2>1, <2>2, <3>1, TurnsStay DEF PrompterIsSound
  <2>3. CASE ~turnActive
    <3>1. /\ turn' \in [Typing -> TurnRecord] /\ turn'[n].at = "born"
          /\ \A m \in Typing \ {n} : turn'[m].at = turn[m].at
      <4> DEFINE r == [turn[n] EXCEPT !.at = "born"]
      <4>1. r \in TurnRecord /\ r.at = "born"
        BY <1>1, <2>1, TurnType DEF TurnRecord
      <4>2. turn' = [turn EXCEPT ![n] = r]
        BY <2>1, <2>3
      <4> HIDE DEF r
      <4> QED BY <1>1, <2>1, <4>1, <4>2, OneTurnChanges
    <3>2. CliTypeOK'
      BY <1>1, <1>2, <2>1, <3>1 DEF CliTypeOK, TurnRecord
    <3>3. PrompterIsSound' /\ \A m \in Typing \ {n} : turn'[m].at \in {turn[m].at, "over"}
      BY <1>2, <2>1, <3>1 DEF PrompterIsSound
    <3> QED BY <2>1, <2>3, <3>1, <3>2, <3>3, TurnBegins
  <2> QED BY <2>2, <2>3
<1>5. CASE CancelFirst
  <2>1. CancelSession(FirstChat, "user_exit") /\ prompter' = Free
        /\ UNCHANGED <<turnActive, waiting, leaving, chat, typed, tokens, question, panel,
                       onScreen, mixed, closed, refused>>
    BY <1>5 DEF CancelFirst, flags, screen
  <2>2. /\ turn' \in [Typing -> TurnRecord]
        /\ \A n \in Typing : turn'[n].at = turn[n].at /\ turn'[n].chat = turn[n].chat
    BY <1>1, <2>1, CliAssumption, CancelMovesNothing
  <2>3. CliTypeOK'
    BY <1>1, <1>2, <2>1, <2>2 DEF CliTypeOK, TurnRecord
  <2> QED BY <1>2, <2>1, <2>2, <2>3, TurnsStay DEF PrompterIsSound
<1>6. CASE Close
  <2>1. CliTypeOK'
    BY <1>1, <1>2, <1>6 DEF Close, CliTypeOK, flags
  <2> QED BY <1>2, <1>6, <2>1, TurnsStay DEF PrompterIsSound, Close, flags
<1>7. CASE Switch
  <2>1. CliTypeOK'
    BY <1>1, <1>2, <1>7 DEF Switch, CliTypeOK, flags, screen
  <2> QED BY <1>2, <1>7, <2>1, TurnsStay DEF PrompterIsSound, Switch, flags, screen
<1>8. CASE ResolveApproval
  <2>1. UNCHANGED <<turnActive, waiting, leaving, chat, turn, tokens, panel, onScreen, mixed,
                    closed, refused>>
    BY <1>8 DEF ResolveApproval, flags, screen
  <2>2. CASE question[chat] = "pending"
    <3>1. typed + 1 \in Typing
      BY <1>1, <1>8, CliAssumption DEF ResolveApproval, PrompterIsSound, CliTypeOK, Typing,
         MaybeTyped
    <3>2. CliTypeOK' /\ PrompterIsSound'
      BY <1>1, <1>8, <2>1, <2>2, <3>1, TypingIsPositive DEF ResolveApproval, PrompterIsSound, CliTypeOK
    <3> QED BY <2>1, <3>2, TurnsStay DEF PrompterIsSound
  <2>3. CASE question[chat] # "pending"
    <3>1. CliTypeOK' /\ prompter' = Free
      BY <1>1, <1>2, <1>8, <2>1, <2>3 DEF ResolveApproval, CliTypeOK
    <3> QED BY <1>2, <2>1, <3>1, TurnsStay DEF PrompterIsSound
  <2> QED BY <2>2, <2>3
<1> QED BY <1>3, <1>4, <1>5, <1>6, <1>7, <1>8 DEF PromptStep

LEMMA TurnEnters ==
  ASSUME NEW n \in Typing PROVE CliInv /\ Enter(n) => CliInv'
<1> SUFFICES ASSUME CliInv, Enter(n) PROVE CliInv'
  OBVIOUS
<1>1. /\ CliTypeOK /\ PrompterIsSound /\ OneIsActive /\ TokensAreHeld /\ WordsAreHeld
      /\ turn[n].at = "born" /\ n # 0 /\ n \in MaybeTyped
  BY TypingIsPositive DEF CliInv, Enter
<1>2. \A s \in Chats : tokens[s] = 0
  <2> SUFFICES ASSUME NEW s \in Chats, tokens[s] # 0 PROVE FALSE
    OBVIOUS
  <2>1. tokens[s] \in Typing /\ InTurn(tokens[s])
    BY <1>1, TypingIsPositive DEF TokensAreHeld, CliTypeOK
  <2> QED BY <1>1, <2>1 DEF OneIsActive, Underway, InTurn
<1>3. /\ turn' = [turn EXCEPT ![n].at = "runs", ![n].chat = chat]
      /\ tokens' = [tokens EXCEPT ![chat] = n]
      /\ question' = [question EXCEPT ![chat] = IF @ = "resolved" THEN "none" ELSE @]
      /\ UNCHANGED <<turnActive, waiting, leaving, chat, typed, prompter, panel, onScreen, mixed,
                     closed, refused>>
  BY <1>1, <1>2 DEF Enter, flags, screen, CliTypeOK
<1>4. /\ turn' \in [Typing -> TurnRecord] /\ turn'[n].at = "runs" /\ turn'[n].chat = chat
      /\ \A m \in Typing \ {n} : turn'[m] = turn[m]
  <2> DEFINE r == [turn[n] EXCEPT !.at = "runs", !.chat = chat]
  <2>1. r \in TurnRecord /\ r.at = "runs" /\ r.chat = chat
    BY <1>1, TurnType DEF TurnRecord, CliTypeOK
  <2>2. turn' = [turn EXCEPT ![n] = r]
    BY <1>1, <1>3 DEF CliTypeOK
  <2> HIDE DEF r
  <2> QED BY <1>1, <2>1, <2>2, OneTurnChanges
<1>5. CliTypeOK'
  BY <1>1, <1>3, <1>4 DEF CliTypeOK, TurnRecord
<1>6. OneIsActive'
  BY <1>1, <1>3, <1>4 DEF OneIsActive, Underway
<1>7. TokensAreHeld'
  <2>1. \A s \in Chats : tokens'[s] = IF s = chat THEN n ELSE 0
    BY <1>1, <1>2, <1>3 DEF CliTypeOK
  <2> QED BY <2>1, <1>4 DEF TokensAreHeld, InTurn
<1>8. WordsAreHeld'
  BY <1>1, <1>3, <1>4, TypingIsPositive DEF WordsAreHeld, CliTypeOK
<1> QED BY <1>1, <1>3, <1>5, <1>6, <1>7, <1>8 DEF CliInv, PrompterIsSound

LEMMA TurnAsks ==
  ASSUME NEW n \in Typing PROVE CliInv /\ Ask(n) => CliInv'
<1> SUFFICES ASSUME CliInv, Ask(n) PROVE CliInv'
  OBVIOUS
<1>1. CliTypeOK /\ PrompterIsSound /\ OneIsActive /\ TokensAreHeld /\ turn[n].at = "runs"
  BY DEF CliInv, Ask
<1>2. /\ turn' \in [Typing -> TurnRecord] /\ turn'[n].at = "asks" /\ turn'[n].chat = turn[n].chat
      /\ \A m \in Typing \ {n} : turn'[m] = turn[m]
  BY <1>1 DEF Ask, CliTypeOK, TurnRecord
<1>3. /\ onScreen' = {} /\ question' = [question EXCEPT ![turn[n].chat] = "pending"]
      /\ UNCHANGED <<turnActive, waiting, leaving, chat, typed, prompter, tokens, panel, mixed,
                     closed, refused>>
  BY DEF Ask, flags
<1>4. CliTypeOK'
  BY <1>1, <1>2, <1>3 DEF CliTypeOK, TurnRecord
<1>5. OneIsActive'
  BY <1>1, <1>2, <1>3 DEF OneIsActive, Underway
<1>6. TokensAreHeld'
  <2> SUFFICES ASSUME NEW s \in Chats, tokens[s] # 0
               PROVE  (InTurn(tokens[s]) /\ turn[tokens[s]].chat = s)'
    BY <1>3 DEF TokensAreHeld
  <2>1. tokens[s] \in Typing /\ tokens' = tokens
    BY <1>1, <1>3, TypingIsPositive DEF CliTypeOK
  <2> QED BY <1>1, <1>2, <2>1 DEF TokensAreHeld, InTurn
<1> QED BY <1>1, <1>3, <1>4, <1>5, <1>6 DEF CliInv, PrompterIsSound, WordsAreHeld

LEMMA TurnReturns ==
  ASSUME NEW n \in Typing PROVE CliInv /\ Return(n) => CliInv'
<1> SUFFICES ASSUME CliInv, Return(n) PROVE CliInv'
  OBVIOUS
<1>1. /\ CliTypeOK /\ PrompterIsSound /\ OneIsActive /\ TokensAreHeld /\ WordsAreHeld
      /\ turn[n].at \in {"runs", "asks"}
  BY DEF CliInv, Return, InTurn
<1>2. PICK ended \in {"success", "awaiting_input", "superseded", "cancelled"} :
        turn' = [turn EXCEPT ![n].at = "returned", ![n].status = ended]
  BY DEF Return
<1>3. /\ turn' \in [Typing -> TurnRecord] /\ turn'[n].at = "returned"
      /\ \A m \in Typing \ {n} : turn'[m] = turn[m]
  <2> DEFINE r == [turn[n] EXCEPT !.at = "returned", !.status = ended]
  <2>1. r \in TurnRecord /\ r.at = "returned"
    BY <1>1, TurnType DEF TurnRecord
  <2>2. turn' = [turn EXCEPT ![n] = r]
    BY <1>1, <1>2 DEF CliTypeOK
  <2> HIDE DEF r
  <2> QED BY <1>1, <2>1, <2>2, OneTurnChanges
<1>4. /\ tokens' = [tokens EXCEPT ![turn[n].chat] = IF @ = n THEN 0 ELSE @]
      /\ UNCHANGED <<turnActive, waiting, leaving, chat, typed, prompter, question, panel, onScreen,
                     mixed, closed, refused>>
  BY DEF Return, flags, screen
<1>5. /\ tokens' \in [Chats -> MaybeTyped]
      /\ \A s \in Chats : tokens'[s] # 0 => tokens'[s] = tokens[s] /\ tokens[s] # n
  <2>1. \A s \in Chats : tokens'[s] = IF s = turn[n].chat /\ tokens[s] = n THEN 0 ELSE tokens[s]
    BY <1>1, <1>4 DEF CliTypeOK
  <2>2. \A s \in Chats : tokens[s] = n /\ n # 0 => s = turn[n].chat
    BY <1>1 DEF TokensAreHeld
  <2> QED BY <1>1, <1>4, <2>1, <2>2, TypingIsPositive DEF CliTypeOK
<1>6. CliTypeOK'
  BY <1>1, <1>3, <1>4, <1>5 DEF CliTypeOK, TurnRecord
<1>7. OneIsActive'
  BY <1>1, <1>3, <1>4 DEF OneIsActive, Underway
<1>8. TokensAreHeld'
  <2> SUFFICES ASSUME NEW s \in Chats, tokens'[s] # 0
               PROVE  (InTurn(tokens[s]) /\ turn[tokens[s]].chat = s)'
    BY DEF TokensAreHeld
  <2>1. tokens'[s] = tokens[s] /\ tokens[s] # 0 /\ tokens[s] \in Typing \ {n}
    BY <1>1, <1>5, TypingIsPositive DEF CliTypeOK
  <2> QED BY <1>1, <1>3, <2>1 DEF TokensAreHeld, InTurn
<1>9. WordsAreHeld'
  BY <1>1, <1>3, <1>4, TypingIsPositive DEF WordsAreHeld, CliTypeOK
<1> QED BY <1>1, <1>4, <1>6, <1>7, <1>8, <1>9 DEF CliInv, PrompterIsSound

\* Nothing holds a token or is on the screen but what is active.
LEMMA OnlyTheActive ==
  ASSUME CliInv, NEW n \in Typing, Underway(n)
  PROVE  /\ \A m \in Typing \ {n} : ~Underway(m)
         /\ onScreen \subseteq {n, 0}
         /\ turn[n].at \in {"returned", "printed"} => \A s \in Chats : tokens[s] = 0
         /\ turn[n].at = "printed" => onScreen \subseteq {0}
<1>1. CliTypeOK /\ OneIsActive /\ TokensAreHeld /\ WordsAreHeld
  BY DEF CliInv
<1>2. \A m \in Typing \ {n} : ~Underway(m)
  BY <1>1 DEF OneIsActive
<1>3. ASSUME NEW m \in onScreen, m # 0 PROVE m = n /\ turn[n].at # "printed"
  <2>1. m \in Typing /\ turn[m].at \in {"runs", "asks", "returned"}
    BY <1>1, <1>3, TypingIsPositive DEF WordsAreHeld, CliTypeOK
  <2> QED BY <1>2, <2>1 DEF Underway
<1>4. ASSUME NEW s \in Chats, tokens[s] # 0 PROVE turn[n].at \in {"runs", "asks"}
  <2>1. tokens[s] \in Typing /\ turn[tokens[s]].at \in {"runs", "asks"}
    BY <1>1, <1>4, TypingIsPositive DEF TokensAreHeld, InTurn, CliTypeOK
  <2> QED BY <1>2, <2>1 DEF Underway
<1> QED BY <1>2, <1>3, <1>4

LEMMA ResponseIsComplete ==
  ASSUME NEW n \in Typing PROVE CliInv /\ CompleteResponse(n) => CliInv'
<1> SUFFICES ASSUME CliInv, CompleteResponse(n) PROVE CliInv'
  OBVIOUS
<1>1. CliTypeOK /\ PrompterIsSound /\ OneIsActive /\ turn[n].at = "returned" /\ ~mixed /\ ~refused
  BY DEF CliInv, CompleteResponse
<1>2. /\ \A m \in Typing \ {n} : ~Underway(m)
      /\ onScreen \subseteq {n, 0} /\ \A s \in Chats : tokens[s] = 0
  BY <1>1, OnlyTheActive DEF Underway
<1> DEFINE printed == [NoTurn EXCEPT !.at = "printed"]
<1>3. printed \in TurnRecord /\ printed.at = "printed"
  BY NoTurnType DEF TurnRecord
<1>4. /\ turn' = [turn EXCEPT ![n] = printed]
      /\ UNCHANGED <<turnActive, waiting, leaving, chat, typed, prompter, tokens, question, panel,
                     closed, refused>>
  BY DEF CompleteResponse, flags
<1> HIDE DEF printed
<1>5. /\ turn' \in [Typing -> TurnRecord] /\ turn'[n].at = "printed"
      /\ \A m \in Typing \ {n} : turn'[m] = turn[m]
  BY <1>1, <1>3, <1>4 DEF CliTypeOK, TurnRecord
<1>6. onScreen' \subseteq {0} /\ mixed' = FALSE
  <2>1. CASE turn[n].status = "superseded"
    BY <1>1, <1>2, <2>1 DEF CompleteResponse
  <2>2. CASE turn[n].status # "superseded"
    <3>1. onScreen' = {} /\ mixed' = (mixed \/ (~panel /\ ~(onScreen \subseteq {n, 0})))
      BY <2>2, Zenon DEF CompleteResponse
    <3> QED BY <1>1, <1>2, <3>1, Zenon
  <2> QED BY <2>1, <2>2
<1>7. CliTypeOK'
  BY <1>1, <1>4, <1>5, <1>6, TypingIsPositive DEF CliTypeOK, TurnRecord
<1>8. OneIsActive'
  BY <1>1, <1>2, <1>4, <1>5 DEF OneIsActive, Underway
<1> QED BY <1>1, <1>2, <1>4, <1>6, <1>7, <1>8
        DEF CliInv, PrompterIsSound, TokensAreHeld, WordsAreHeld

LEMMA TurnPasses ==
  ASSUME NEW n \in Typing PROVE CliInv /\ (Pass(n) \/ Leave(n)) => CliInv'
<1> SUFFICES ASSUME CliInv, Pass(n) \/ Leave(n) PROVE CliInv'
  OBVIOUS
<1>1. /\ CliTypeOK /\ PrompterIsSound /\ OneIsActive /\ TokensAreHeld /\ WordsAreHeld
      /\ ~mixed /\ ~refused
  BY DEF CliInv
<1>2. CASE Pass(n)
  <2>1. /\ turn[n].at = "printed"
        /\ turn' = [turn EXCEPT ![n].at = "passed", ![n].next = waiting,
                                ![n].exits = leaving /\ waiting = 0]
        /\ turnActive' = FALSE /\ waiting' = 0
        /\ UNCHANGED <<leaving, chat, typed, prompter, tokens, question, panel, onScreen, mixed,
                       closed, refused>>
    BY <1>2 DEF Pass, screen
  <2>2. /\ \A m \in Typing \ {n} : ~Underway(m)
        /\ onScreen \subseteq {0} /\ \A s \in Chats : tokens[s] = 0
    BY <2>1, OnlyTheActive DEF Underway
  <2>3. (leaving /\ waiting = 0) \in BOOLEAN
    OBVIOUS
  <2>4. /\ turn' \in [Typing -> TurnRecord] /\ turn'[n].at = "passed"
        /\ \A m \in Typing \ {n} : turn'[m] = turn[m]
    <3> DEFINE r == [turn[n] EXCEPT !.at = "passed", !.next = waiting,
                                    !.exits = leaving /\ waiting = 0]
    <3>1. r \in TurnRecord /\ r.at = "passed"
      BY <1>1, <2>3, TurnType DEF TurnRecord, CliTypeOK
    <3>2. turn' = [turn EXCEPT ![n] = r]
      BY <1>1, <2>1 DEF CliTypeOK
    <3> HIDE DEF r
    <3> QED BY <1>1, <3>1, <3>2, OneTurnChanges
  <2>5. CliTypeOK'
    BY <1>1, <2>1, <2>4, TypingIsPositive DEF CliTypeOK, TurnRecord
  <2>6. \A m \in Typing : ~Underway(m)'
    BY <2>2, <2>4 DEF Underway
  <2> QED BY <1>1, <2>1, <2>2, <2>5, <2>6
          DEF CliInv, PrompterIsSound, OneIsActive, TokensAreHeld, WordsAreHeld
<1>3. CASE Leave(n)
  <2>1. /\ turn[n].at = "passed" /\ turn' = [turn EXCEPT ![n] = Over]
        /\ UNCHANGED <<turnActive, waiting, leaving, chat, typed, prompter, tokens, question, panel,
                       onScreen, mixed, refused>>
    BY <1>3 DEF Leave, flags
  <2>2. closed' \in BOOLEAN
    BY <1>3, Zenon DEF Leave
  <2>3. /\ turn' \in [Typing -> TurnRecord] /\ turn'[n].at = "over"
        /\ \A m \in Typing \ {n} : turn'[m] = turn[m]
    BY <1>1, <2>1, NoTurnType DEF CliTypeOK, TurnRecord
  <2>4. CliTypeOK'
    BY <1>1, <2>1, <2>2, <2>3 DEF CliTypeOK, TurnRecord
  <2>5. OneIsActive'
    BY <1>1, <2>1, <2>3 DEF OneIsActive, Underway
  <2>6. TokensAreHeld'
    <3> SUFFICES ASSUME NEW s \in Chats, tokens[s] # 0
                 PROVE  (InTurn(tokens[s]) /\ turn[tokens[s]].chat = s)'
      BY <2>1 DEF TokensAreHeld
    <3>1. tokens[s] \in Typing /\ tokens' = tokens
      BY <1>1, <2>1, TypingIsPositive DEF CliTypeOK
    <3> QED BY <1>1, <2>1, <2>3, <3>1 DEF TokensAreHeld, InTurn
  <2>7. WordsAreHeld'
    BY <1>1, <2>1, <2>3, TypingIsPositive DEF WordsAreHeld, CliTypeOK
  <2> QED BY <1>1, <2>1, <2>4, <2>5, <2>6, <2>7 DEF CliInv, PrompterIsSound
<1> QED BY <1>2, <1>3

LEMMA NextTurnFollows ==
  ASSUME NEW n \in Typing PROVE CliInv /\ Follow(n) => CliInv'
<1> SUFFICES ASSUME CliInv, Follow(n) PROVE CliInv'
  OBVIOUS
<1> DEFINE next == turn[n].next
<1>1. /\ CliTypeOK /\ PrompterIsSound /\ OneIsActive /\ TokensAreHeld /\ WordsAreHeld
      /\ ~mixed /\ ~refused
  BY DEF CliInv
<1>2. /\ turn[n].at = "passed" /\ next # 0 /\ turnActive' = TRUE
          /\ UNCHANGED <<waiting, leaving, chat, typed, prompter, tokens, question, panel, onScreen,
                     mixed, closed, refused>>
  BY DEF Follow, screen
<1>3. next \in Typing
  BY <1>1, <1>2, TypingIsPositive, TurnType DEF TurnRecord
<1> HIDE DEF next
<1> DEFINE left == [turn EXCEPT ![n] = Over]
<1>4. /\ left \in [Typing -> TurnRecord] /\ left[n] = Over
      /\ \A m \in Typing \ {n} : left[m] = turn[m]
  BY <1>1, NoTurnType DEF CliTypeOK, TurnRecord
<1>5. turn' = IF turnActive THEN left ELSE [left EXCEPT ![next].at = "born"]
  BY DEF Follow, next
<1> HIDE DEF left
<1>6. CASE turnActive
  <2>1. \A m \in Typing : turn'[m].at = IF m = n THEN "over" ELSE turn[m].at
    BY <1>4, <1>5, <1>6, NoTurnType
  <2>2. \A m \in Typing \ {n} : turn'[m].chat = turn[m].chat
    BY <1>4, <1>5, <1>6
  <2>3. OneIsActive'
    <3>1. \A m \in Typing : Underway(m)' => Underway(m)
      BY <2>1 DEF Underway
    <3> QED BY <1>1, <1>2, <3>1 DEF OneIsActive
  <2>4. TokensAreHeld'
    <3> SUFFICES ASSUME NEW s \in Chats, tokens[s] # 0
                 PROVE  (InTurn(tokens[s]) /\ turn[tokens[s]].chat = s)'
      BY <1>2 DEF TokensAreHeld
    <3>1. tokens[s] \in Typing /\ tokens' = tokens
      BY <1>1, <1>2, TypingIsPositive DEF CliTypeOK
    <3>2. InTurn(tokens[s]) /\ turn[tokens[s]].chat = s /\ tokens[s] # n
      BY <1>1, <1>2 DEF TokensAreHeld, InTurn
    <3>3. (turn'[tokens[s]]).at = turn[tokens[s]].at /\ (turn'[tokens[s]]).chat = s
      BY <2>1, <2>2, <3>1, <3>2
    <3> QED BY <3>1, <3>2, <3>3 DEF InTurn
  <2>5. WordsAreHeld'
    BY <1>1, <1>2, <2>1, TypingIsPositive DEF WordsAreHeld, CliTypeOK
  <2>6. CliTypeOK'
    BY <1>1, <1>2, <1>4, <1>5, <1>6 DEF CliTypeOK, TurnRecord
  <2> QED BY <1>1, <1>2, <2>3, <2>4, <2>5, <2>6 DEF CliInv, PrompterIsSound
<1>7. CASE ~turnActive
  <2> DEFINE r == [left[next] EXCEPT !.at = "born"]
  <2>1. r \in TurnRecord /\ r.at = "born"
    BY <1>3, <1>4 DEF TurnRecord
  <2>2. turn' = [left EXCEPT ![next] = r]
    BY <1>5, <1>7
  <2> HIDE DEF r
  <2>3. /\ turn' \in [Typing -> TurnRecord] /\ turn'[next].at = "born"
        /\ \A m \in Typing \ {next} : turn'[m].at \in {turn[m].at, "over"}
    BY <1>3, <1>4, <2>1, <2>2, NoTurnType
  <2>4. CliTypeOK'
    BY <1>1, <1>2, <2>3 DEF CliTypeOK, TurnRecord
  <2>5. PrompterIsSound' /\ UNCHANGED <<tokens, onScreen, refused, mixed>>
    BY <1>1, <1>2 DEF PrompterIsSound
  <2> QED BY <1>2, <1>3, <1>7, <2>3, <2>4, <2>5, TurnBegins
<1> QED BY <1>6, <1>7

LEMMA CliStep == CliInv /\ [CliNext]_cliVars => CliInv'
<1> SUFFICES ASSUME CliInv, [CliNext]_cliVars PROVE CliInv'
  OBVIOUS
<1>1. CASE UNCHANGED cliVars
  BY <1>1 DEF cliVars, CliInv, CliTypeOK, PrompterIsSound, OneIsActive, Underway, TokensAreHeld,
     InTurn, WordsAreHeld
<1> QED BY <1>1, UserMoves, PromptMoves, TurnShows, TurnEnters, TurnAsks, TurnReturns,
           ResponseIsComplete, TurnPasses, NextTurnFollows DEF CliNext, TurnEnds

\* Turns that are typed, steered, approved and left in any order stay apart (execute() and
\* start_run() in cli/main.py): the registry refuses none, at most one is between its start
\* and the end of its output, and an answer is printed with no words of another turn.
THEOREM TurnsNeverMix == CliSpec => []TurnsStayApart
<1>1. CliSpec => []CliInv
  BY CliInvHolds, CliStep, PTL DEF CliSpec
<1>2. CliInv => TurnsStayApart
  <2> SUFFICES ASSUME CliInv
               PROVE  Cardinality(Turns("born") \cup Turns("runs") \cup Turns("asks")
                        \cup Turns("returned") \cup Turns("printed")) <= 1
    BY DEF CliInv, TurnsStayApart, OneTurnAtATime, AnswerIsItsOwn
  <2> DEFINE some == Turns("born") \cup Turns("runs") \cup Turns("asks")
                     \cup Turns("returned") \cup Turns("printed")
  <2>1. \A m, n \in some : m = n
    BY DEF CliInv, OneIsActive, Underway, Turns
  <2>2. CASE some = {}
    BY <2>2, FS_EmptySet
  <2>3. CASE some # {}
    <3>1. PICK n : some = {n}
      BY <2>1, <2>3
    <3>2. Cardinality({n}) = 1
      BY FS_Singleton
    <3> QED BY <3>1, <3>2
  <2> QED BY <2>2, <2>3
<1> QED BY <1>1, <1>2, PTL

-----------------------------------------------------------------------------
(* Events (RunEvents) *)

ResultsOf(r, p, log) ==
  {i \in DOMAIN log : /\ log[i].run = r /\ log[i].process = p
                         /\ log[i].name \in Results}

\* A run of which more may be published.
LiveRun(r) ==
  \/ r = waitsFor \/ r > runCount
  \/ r = running.run /\ running.at # "none" /\
     (running.at = "returns" => running.end = "awaiting_input")

RunsAreKnown ==
  /\ running.at # "none" =>
       running.run \in 1..runCount /\ running.run # waitsFor /\ running.turn \in TurnIds
  /\ waitsFor <= runCount /\ processes <= mishaps
  /\ \A e \in Range(emitted) \cup Range(eventTable) : e.run <= runCount

\* The turn goes on above the numbers that the store has of its run.
NumbersAreAbove ==
  running.at # "none" =>
    \A i \in DOMAIN eventTable :
      eventTable[i].run = running.run => eventTable[i].number <= running.number

TurnsAreOrdered ==
  /\ \A e \in Range(emitted) : e.turn <= running.turn
  /\ \A f \in Range(finalized) :
       f.turn <= running.turn /\ (running.at # "none" => f.turn < running.turn)
FailureIsKnown ==
  running.at # "none" /\ ~running.failed =>
    \A e \in Range(emitted) : e.turn = running.turn => e.kept

\* A trace is open from the start of its run to its end, and has counted its results.
Traced == {"resuming", "resolves", "works", "answered", "announces", "completes"}
TraceCounts(r, p, log, trace, goesOn) ==
  IF trace.open THEN trace.results = Cardinality(ResultsOf(r, p, log))
  ELSE goesOn => ResultsOf(r, p, log) = {}
TracesCount ==
  /\ \A e \in Range(emitted) : e.process <= processes
  /\ running.at \in Traced => building[running.run].open
  /\ \A r \in RunIds : TraceCounts(r, processes, emitted, building[r], LiveRun(r))
  /\ \A t \in Range(recorded) :
       /\ t.process <= processes /\ (t.process = processes => ~LiveRun(t.run))
       /\ t.results = Cardinality(ResultsOf(t.run, t.process, emitted))

OfItsRun(s) == s.interaction \in {None, s.run, s.run - MaxRuns}
StatesAreOfTheirRuns ==
  /\ OfItsRun(runState)
  /\ \A t \in {"turn", "expiry"} : OfItsRun(projecting[t].to) /\ OfItsRun(projecting[t].before)

\* What stands in one line is what was streamed; the answer of a turn that has
\* streamed any stands there whole.
ScreenIsSound ==
  /\ ~streams => console.streamed = <<>> /\ running.chunk = 0
  /\ console.item # 0 => console.line = console.streamed
  /\ running.step >= 1
  /\ running.at = "answered" \/ running.end = "success" => running.step > 1
  /\ running.at # "none" /\ (running.chunk > 0 \/ running.step > 1) =>
       (console.streamed = AnswerText => console.whole)

EventInv ==
  /\ EventTypeOK
  /\ RunsAreKnown /\ NumbersAreAbove /\ NumbersAreKept
  /\ TurnsAreOrdered /\ FailureIsKnown /\ TrajectoryIsWhole
  /\ TracesCount /\ StatesAreOfTheirRuns /\ ScreenIsSound /\ ResponseIsShown

TurnRecords ==
  [turn : 0..MaxRunTurns, run : RunIds \cup {0}, number : 0..MaxNumber,
   at : {"none", "begun", "resuming", "resolves", "works", "answered", "announces",
         "completes", "returns"},
   failed : BOOLEAN, resumes : BOOLEAN, step : Nat, chunk : 0..Len(AnswerText),
   end : {"none", "success", "failed", "cancelled", "awaiting_input"}]
TraceRecords == [open : BOOLEAN, results : Nat]
Recorded == [run : RunIds, results : Nat, process : 0..MaxMishaps]
Projections == [on : BOOLEAN, to : States, before : States]
Screens == [item : Nat, streamed : Seq(1..2), line : Seq(1..2), whole : BOOLEAN,
            printed : BOOLEAN]

\* The results of one run and process, as events are appended.
LEMMA OneResultMore ==
  ASSUME NEW log \in Seq(Events), NEW e \in Events, NEW r, NEW p
  PROVE  /\ Cardinality(ResultsOf(r, p, log)) \in Nat
         /\ e.run = r /\ e.process = p /\ e.name \in Results =>
              Cardinality(ResultsOf(r, p, Append(log, e))) =
                Cardinality(ResultsOf(r, p, log)) + 1
         /\ ~(e.run = r /\ e.process = p /\ e.name \in Results) =>
              ResultsOf(r, p, Append(log, e)) = ResultsOf(r, p, log)
<1> DEFINE more == Append(log, e)
           n == Len(log)
<1>1. /\ n \in Nat /\ DOMAIN log = 1..n /\ DOMAIN more = 1..n \cup {n + 1}
      /\ more[n + 1] = e /\ \A i \in 1..n : more[i] = log[i]
  BY LenProperties
<1> HIDE DEF more
<1>2. ResultsOf(r, p, log) \subseteq 1..n
  BY <1>1 DEF ResultsOf
<1>3. IsFiniteSet(ResultsOf(r, p, log)) /\ Cardinality(ResultsOf(r, p, log)) \in Nat
  <2>1. IsFiniteSet(1..n)
    BY <1>1, FS_Interval
  <2>2. IsFiniteSet(ResultsOf(r, p, log))
    BY <1>2, <2>1, FS_Subset
  <2> QED BY <2>2, FS_CardinalityType
<1>4. n + 1 \notin ResultsOf(r, p, log)
  BY <1>1, <1>2
<1>5. CASE e.run = r /\ e.process = p /\ e.name \in Results
  <2>1. ResultsOf(r, p, more) = ResultsOf(r, p, log) \cup {n + 1}
    BY <1>1, <1>5 DEF ResultsOf
  <2>2. Cardinality(ResultsOf(r, p, log) \cup {n + 1}) =
          Cardinality(ResultsOf(r, p, log)) + 1
    BY <1>3, <1>4, FS_AddElement
  <2> QED BY <1>3, <1>5, <2>1, <2>2 DEF more
<1>6. CASE ~(e.run = r /\ e.process = p /\ e.name \in Results)
  <2>1. ResultsOf(r, p, more) = ResultsOf(r, p, log)
    BY <1>1, <1>6 DEF ResultsOf
  <2> QED BY <1>3, <1>6, <2>1 DEF more
<1> QED BY <1>5, <1>6

LEMMA NoResults == \A r, p : ResultsOf(r, p, <<>>) = {}
BY DEF ResultsOf

LEMMA EventInvHolds == EventInit => EventInv
<1> SUFFICES ASSUME EventInit PROVE EventInv
  OBVIOUS
<1>1. /\ NotRunning \in TurnRecords /\ NotRunning.at = "none" /\ NotRunning.turn = 0
      /\ NotRunning.step = 1 /\ NotRunning.chunk = 0 /\ NotRunning.end = "none"
  BY EventAssumption DEF NotRunning, TurnRecords, AnswerText
<1>2. /\ NoState \in States /\ OfItsRun(NoState)
      /\ Idle \in Projections /\ Idle.to = NoState /\ Idle.before = NoState
  BY EventAssumption DEF NoState, Idle, States, Projections, OfItsRun, None
<1>3. /\ Blank \in Screens /\ Blank.item = 0 /\ Blank.streamed = <<>> /\ Blank.printed = TRUE
      /\ NoTrace \in TraceRecords /\ NoTrace.open = FALSE
  BY DEF Blank, Screens, NoTrace, TraceRecords
<1>4. /\ streams \in BOOLEAN /\ running = NotRunning /\ runCount = 0 /\ waitsFor = 0
      /\ emitted = <<>> /\ eventTable = <<>> /\ recorded = <<>> /\ finalized = <<>>
      /\ building = [r \in RunIds |-> NoTrace] /\ runState = NoState
      /\ projecting = [t \in {"turn", "expiry"} |-> Idle] /\ console = Blank
      /\ processes = 0 /\ mishaps = 0
  BY DEF EventInit, None
<1>5. 0 \in 0..MaxRuns /\ 0 \in 0..MaxMishaps /\ 0 \in RunIds \cup {None}
  BY EventAssumption DEF None
<1>6. EventTypeOK
  <2>1. building \in [RunIds -> TraceRecords] /\ projecting \in [{"turn", "expiry"} -> Projections]
    BY <1>2, <1>3, <1>4
  <2>2. running \in TurnRecords /\ console \in Screens /\ runState \in States
    BY <1>1, <1>2, <1>3, <1>4
  <2>3. /\ emitted \in Seq(Events) /\ eventTable \in Seq(Events) /\ recorded \in Seq(Recorded)
        /\ finalized \in Seq([turn : TurnIds, whole : BOOLEAN])
    BY <1>4
  <2> QED BY <2>1, <2>2, <2>3, <1>4, <1>5
          DEF EventTypeOK, TurnRecords, TraceRecords, Projections, Screens, Recorded
<1>7. Range(<<>>) = {}
  BY DEF Range
<1>8. RunsAreKnown /\ TurnsAreOrdered /\ TrajectoryIsWhole
  BY <1>1, <1>4, <1>7 DEF RunsAreKnown, TurnsAreOrdered, TrajectoryIsWhole
<1>9. NumbersAreAbove /\ NumbersAreKept /\ FailureIsKnown
  BY <1>1, <1>4, <1>7 DEF NumbersAreAbove, NumbersAreKept, FailureIsKnown
<1>10. TracesCount
  BY <1>1, <1>3, <1>4, <1>7, NoResults DEF TracesCount, TraceCounts, Traced
<1>11. StatesAreOfTheirRuns
  BY <1>2, <1>4 DEF StatesAreOfTheirRuns
<1>12. ScreenIsSound /\ ResponseIsShown
  BY <1>1, <1>3, <1>4 DEF ScreenIsSound, ResponseIsShown
<1> QED BY <1>6, <1>8, <1>9, <1>10, <1>11, <1>12 DEF EventInv

LEMMA EventTypes ==
  ASSUME EventTypeOK
  PROVE  /\ running \in TurnRecords /\ building \in [RunIds -> TraceRecords]
         /\ recorded \in Seq(Recorded) /\ console \in Screens
         /\ projecting \in [{"turn", "expiry"} -> Projections] /\ runState \in States
         /\ emitted \in Seq(Events) /\ eventTable \in Seq(Events)
         /\ runCount \in 0..MaxRuns /\ waitsFor \in RunIds \cup {0} /\ processes \in 0..MaxMishaps
         /\ mishaps \in 0..MaxMishaps
         /\ finalized \in Seq([turn : TurnIds, whole : BOOLEAN])
BY DEF EventTypeOK, TurnRecords, TraceRecords, Recorded, Projections, Screens, None

-----------------------------------------------------------------------------
(* The publication of an event *)

EventOf(name, kept) ==
  [run |-> running.run, turn |-> running.turn, number |-> running.number + 1, name |-> name,
   kept |-> kept, process |-> processes]

LEMMA PublishIs ==
  ASSUME NEW name, NEW then, Publish(name, then)
  PROVE  /\ ~projecting["turn"].on /\ running.number < MaxNumber
         /\ UNCHANGED <<streams, runCount, waitsFor, runState, finalized, processes>>
         /\ \E kept \in BOOLEAN :
              /\ ~kept => name \notin Deltas
              /\ mishaps' = mishaps + (IF kept /\ name # "tool.progress" THEN 0 ELSE 1)
              /\ mishaps' <= MaxMishaps
              /\ running' = [then EXCEPT !.number = running.number + 1,
                                         !.failed = running.failed \/ ~kept]
              /\ emitted' = IF name \in Deltas THEN emitted
                            ELSE Append(emitted, EventOf(name, kept))
              /\ Store(EventOf(name, kept)) /\ BuildTrace(EventOf(name, kept))
              /\ Show(EventOf(name, kept)) /\ Project("turn", Projected(EventOf(name, kept)))
BY Zenon DEF Publish, Deliver, EventOf, Failed

LEMMA ProjectedIsItsOwn ==
  ASSUME NEW e, e.run \in RunIds, running \in TurnRecords
  PROVE  Projected(e) \in States /\ OfItsRun(Projected(e))
<1> DEFINE to(s, interaction) ==
             [run |-> e.run, status |-> s, interaction |-> interaction]
<1>1. /\ e.run \in 0..2 * MaxRuns /\ e.run \in 0..MaxRuns /\ 0 \in 0..MaxRuns
      /\ 0 \in 0..2 * MaxRuns
  BY EventAssumption DEF RunIds
<1>2. ASSUME NEW s \in Statuses \cup {"none"}, NEW i \in {0, e.run}
      PROVE  to(s, i) \in States /\ OfItsRun(to(s, i))
  BY <1>1, <1>2 DEF States, OfItsRun, None
<1>3. NoState \in States /\ OfItsRun(NoState)
  BY <1>1 DEF NoState, States, OfItsRun, None
<1>4. (IF running.end = "success" THEN "completed" ELSE running.end) \in Statuses \cup {"none"}
  BY DEF TurnRecords, Statuses
<1>5. /\ "running" \in Statuses /\ "resumed" \in Statuses /\ "awaiting_input" \in Statuses
      /\ "cancelled" \in Statuses
  BY DEF Statuses
<1>6. \/ Projected(e) = to("running", 0)
      \/ Projected(e) = to("resumed", e.run)
      \/ Projected(e) = to("awaiting_input", e.run)
      \/ Projected(e) = to("cancelled", 0)
      \/ Projected(e) = to(IF running.end = "success" THEN "completed" ELSE running.end, 0)
      \/ Projected(e) = NoState
  BY Zenon DEF Projected, None
<1> HIDE DEF to
<1> QED BY <1>2, <1>3, <1>4, <1>5, <1>6

LEMMA ShowIs ==
  ASSUME NEW e, Show(e)
  PROVE  /\ e.name = "model.delta" => console' = Written(console, running.step, running.chunk + 1)
         /\ e.name # "model.delta" => console' \in {console, EndLine(console)}
<1>1. CASE e.name = "model.delta"
  BY <1>1, Zenon DEF Show
<1>2. CASE e.name # "model.delta"
  BY <1>2, Zenon DEF Show
<1> QED BY <1>1, <1>2

\* What the turn that publishes an event of a name goes on with.
Follows(name, then) ==
  /\ name \in EventNames /\ then \in TurnRecords
  /\ running.at # "none" /\ then.at # "none"
  /\ then.turn = running.turn /\ then.run = running.run
  /\ name \in Results => running.at \in Traced
  /\ name = "runtime.started" => running.at = "begun"
  /\ then.at \in Traced =>
       name = "runtime.started" \/ (running.at \in Traced /\ name # "runtime.completed")
  /\ name = "runtime.completed" =>
       running.at = "completes" /\ then.at = "returns" /\ then.end = running.end
  /\ name # "runtime.completed" /\ "returns" \in {running.at, then.at} => then = running
  /\ then.step >= 1 /\ (~streams => then.chunk = 0)
  /\ then.at = "answered" \/ then.end = "success" => then.step > 1
  /\ name = "model.delta" => streams /\ then.step = running.step /\ running.chunk < Len(AnswerText)
  /\ name # "model.delta" /\ streams /\ (then.chunk > 0 \/ then.step > 1) =>
       running.chunk > 0 \/ running.step > 1

LEMMA EventHasType ==
  ASSUME EventInv, running.at # "none", running.number < MaxNumber, NEW name \in EventNames,
         NEW kept \in BOOLEAN
  PROVE  /\ EventOf(name, kept) \in Events /\ EventOf(name, kept).run = running.run
         /\ EventOf(name, kept).turn = running.turn /\ EventOf(name, kept).name = name
         /\ EventOf(name, kept).number = running.number + 1
         /\ EventOf(name, kept).kept = kept /\ EventOf(name, kept).process = processes
         /\ running.run \in RunIds
<1>1. EventTypeOK /\ RunsAreKnown
  BY DEF EventInv
<1>2. /\ running \in TurnRecords /\ processes \in 0..MaxMishaps /\ runCount \in 0..MaxRuns
      /\ running.turn \in TurnIds /\ running.run \in 1..runCount
  BY <1>1, EventTypes DEF RunsAreKnown
<1>3. running.number + 1 \in 1..MaxNumber /\ running.run \in RunIds
  BY <1>2, EventAssumption DEF TurnRecords, RunIds
<1> QED BY <1>2, <1>3 DEF EventOf, Events

LEMMA PublishedTurn ==
  ASSUME EventInv, NEW name, NEW then, Follows(name, then), Publish(name, then)
  PROVE  /\ running' \in TurnRecords /\ running'.number = running.number + 1
         /\ running'.turn = running.turn /\ running'.run = running.run
         /\ running'.at = then.at /\ running'.end = then.end /\ running'.step = then.step
         /\ running'.chunk = then.chunk
<1>1. running \in TurnRecords /\ then \in TurnRecords
  BY EventTypes DEF EventInv, Follows
<1>2. PICK kept \in BOOLEAN :
        running' = [then EXCEPT !.number = running.number + 1, !.failed = running.failed \/ ~kept]
  BY PublishIs, Zenon
<1>3. running.number + 1 \in 0..MaxNumber
  <2>1. running.number < MaxNumber
    BY PublishIs, Zenon
  <2> QED BY <1>1, <2>1, EventAssumption DEF TurnRecords
<1>4. (running.failed \/ ~kept) \in BOOLEAN
  OBVIOUS
<1> QED BY <1>1, <1>2, <1>3, <1>4 DEF Follows, TurnRecords

LEMMA StoreIs ==
  ASSUME EventInv, NEW e \in Events, Store(e)
  PROVE  /\ eventTable' \in Seq(Events)
         /\ \/ eventTable' = eventTable
            \/ eventTable' = Append(eventTable, e)
         /\ /\ e.name \notin Deltas /\ e.kept
            /\ \A i \in DOMAIN eventTable : ~(eventTable[i].run = e.run /\
                                               eventTable[i].number = e.number)
            => eventTable' = Append(eventTable, e)
BY EventTypes DEF EventInv, Store

LEMMA NumbersFollow ==
  ASSUME EventInv, NEW name, NEW then, Follows(name, then), Publish(name, then)
  PROVE  (RunsAreKnown /\ NumbersAreAbove /\ NumbersAreKept)'
<1>1. PICK kept \in BOOLEAN :
        /\ ~kept => name \notin Deltas
        /\ mishaps' = mishaps + (IF kept /\ name # "tool.progress" THEN 0 ELSE 1)
        /\ emitted' = IF name \in Deltas THEN emitted ELSE Append(emitted, EventOf(name, kept))
        /\ Store(EventOf(name, kept))
  BY PublishIs, Zenon
<1> DEFINE e == EventOf(name, kept)
<1>2. /\ running.number < MaxNumber
      /\ UNCHANGED <<streams, runCount, waitsFor, runState, finalized, processes>>
  BY PublishIs, Zenon
<1>3. /\ EventTypeOK /\ RunsAreKnown /\ NumbersAreAbove /\ NumbersAreKept
      /\ name \in EventNames /\ running.at # "none"
  BY DEF EventInv, Follows
<1>4. /\ e \in Events /\ e.run = running.run /\ e.name = name /\ e.number = running.number + 1
      /\ e.kept = kept
  BY <1>2, <1>3, EventHasType
<1>5. /\ Store(e) /\ emitted' = IF name \in Deltas THEN emitted ELSE Append(emitted, e)
  BY <1>1
<1> HIDE DEF e
<1>6. /\ eventTable' \in Seq(Events) /\ eventTable \in Seq(Events)
      /\ \/ eventTable' = eventTable
         \/ eventTable' = Append(eventTable, e)
  BY <1>3, <1>4, <1>5, StoreIs, EventTypes
<1>7. Range(eventTable') \in {Range(eventTable), Range(eventTable) \cup {e}}
  <2>1. Range(Append(eventTable, e)) = Range(eventTable) \cup {e}
    BY <1>4, <1>6, RangeOfAppend
  <2> QED BY <1>6, <2>1
<1>8. Range(emitted') \in {Range(emitted), Range(emitted) \cup {e}}
  BY <1>3, <1>4, <1>5, EventTypes, RangeOfAppend
<1>9. running' \in TurnRecords /\ running'.number = running.number + 1
      /\ running'.turn = running.turn /\ running'.run = running.run
  BY PublishedTurn
<1>10. mishaps \in Nat /\ mishaps' \in {mishaps, mishaps + 1} /\ processes \in Nat
  BY <1>1, <1>3, EventTypes, EventAssumption
<1>11. RunsAreKnown'
  <2>1. \A f \in Range(emitted') \cup Range(eventTable') : f.run <= runCount
    BY <1>3, <1>4, <1>7, <1>8, EventTypes, EventAssumption DEF RunsAreKnown
  <2> QED BY <1>2, <1>3, <1>9, <1>10, <2>1 DEF RunsAreKnown
<1>12. /\ DOMAIN eventTable = 1..Len(eventTable) /\ Len(eventTable) \in Nat
       /\ \A i \in DOMAIN eventTable : eventTable[i].number \in Nat
  <2>1. DOMAIN eventTable = 1..Len(eventTable) /\ Len(eventTable) \in Nat
    BY <1>6, LenProperties
  <2>2. \A i \in 1..Len(eventTable) : eventTable[i] \in Events
    BY <1>6, ElementOfSeq
  <2> QED BY <2>1, <2>2, EventAssumption DEF Events
<1>13. running.number \in Nat
  BY <1>3, EventTypes, EventAssumption DEF TurnRecords
<1>14. CASE eventTable' = eventTable
  <2>1. NumbersAreAbove'
    BY <1>3, <1>9, <1>12, <1>13, <1>14 DEF NumbersAreAbove
  <2>2. emitted' = Append(emitted, e) => ~kept
    <3> SUFFICES ASSUME kept, name \notin Deltas PROVE eventTable' = Append(eventTable, e)
      <4>1. Append(eventTable, e) # eventTable
        BY <1>4, <1>6
      <4>2. emitted' = Append(emitted, e) => name \notin Deltas
        <5>1. Append(emitted, e) # emitted
          BY <1>3, <1>4, EventTypes
        <5> QED BY <1>5, <5>1
      <4> QED BY <1>14, <4>1, <4>2
    <3>1. \A i \in DOMAIN eventTable : ~(eventTable[i].run = e.run /\
                                            eventTable[i].number = e.number)
      BY <1>3, <1>4, <1>12, <1>13 DEF NumbersAreAbove
    <3> QED BY <1>3, <1>4, <1>5, <3>1, StoreIs, Zenon
  <2>3. NumbersAreKept'
    <3>1. \A f \in Range(emitted') : f.kept => f \in Range(eventTable)
      <4>1. CASE emitted' = emitted
        BY <1>3, <4>1 DEF NumbersAreKept
      <4>2. CASE emitted' = Append(emitted, e)
        BY <1>3, <1>4, <1>8, <2>2, <4>2 DEF NumbersAreKept
      <4> QED BY <1>5, <4>1, <4>2
    <3> QED BY <1>3, <1>14, <3>1 DEF NumbersAreKept
  <2> QED BY <1>11, <2>1, <2>3
<1>15. CASE eventTable' = Append(eventTable, e)
  <2>1. /\ DOMAIN eventTable' = DOMAIN eventTable \cup {Len(eventTable) + 1}
        /\ eventTable'[Len(eventTable) + 1] = e
        /\ \A i \in DOMAIN eventTable : eventTable'[i] = eventTable[i]
    BY <1>4, <1>6, <1>15
  <2>2. NumbersAreAbove'
    BY <1>3, <1>4, <1>9, <1>12, <1>13, <2>1 DEF NumbersAreAbove
  <2>3. Range(eventTable') = Range(eventTable) \cup {e}
    BY <1>4, <1>6, <1>15, RangeOfAppend
  <2>4. \A f \in Range(emitted') : f.kept => f \in Range(eventTable')
    BY <1>3, <1>8, <2>3 DEF NumbersAreKept
  <2>5. ASSUME NEW i \in DOMAIN eventTable', NEW j \in DOMAIN eventTable', i < j,
               eventTable'[i].run = eventTable'[j].run
        PROVE  eventTable'[i].number < eventTable'[j].number
    <3>1. i \in DOMAIN eventTable
      BY <1>12, <2>1, <2>5
    <3>2. CASE j \in DOMAIN eventTable
      BY <1>3, <2>1, <2>5, <3>1, <3>2 DEF NumbersAreKept
    <3>3. CASE j = Len(eventTable) + 1
      BY <1>3, <1>4, <1>12, <1>13, <2>1, <2>5, <3>1, <3>3 DEF NumbersAreAbove
    <3> QED BY <2>1, <2>5, <3>2, <3>3
  <2>6. NumbersAreKept'
    BY <2>4, <2>5 DEF NumbersAreKept
  <2> QED BY <1>11, <2>2, <2>6
<1> QED BY <1>6, <1>14, <1>15

LEMMA BuildTraceIs ==
  ASSUME EventTypeOK, NEW e \in Events, BuildTrace(e)
  PROVE  LET r == e.run IN
         /\ r \in RunIds /\ building' \in [RunIds -> TraceRecords]
         /\ \A other \in RunIds \ {r} : building'[other] = building[other]
         /\ TraceEnds(e) => ~building'[r].open
         /\ ~TraceEnds(e) /\ building[r].open =>
              /\ building'[r].open
              /\ building'[r].results =
                   building[r].results + (IF e.name \in Results THEN 1 ELSE 0)
         /\ ~TraceEnds(e) /\ ~building[r].open =>
              building'[r].open = (e.name = "runtime.started") /\ building'[r].results = 0
         /\ recorded' = IF building[r].open /\ TraceEnds(e)
                        THEN Append(recorded, [run |-> r, results |-> building[r].results,
                                               process |-> e.process])
                        ELSE recorded
<1> DEFINE r == e.run
           new == IF e.name = "runtime.started" /\ ~building[r].open
                  THEN [NoTrace EXCEPT !.open = TRUE]
                  ELSE IF ~building[r].open \/ TraceEnds(e) THEN NoTrace
                  ELSE IF e.name \in Results
                  THEN [building[r] EXCEPT !.results = building[r].results + 1]
                  ELSE building[r]
<1>1. /\ building' = [building EXCEPT ![r] = new]
      /\ recorded' = IF building[r].open /\ TraceEnds(e)
                     THEN Append(recorded, [run |-> r, results |-> building[r].results,
                                            process |-> e.process])
                     ELSE recorded
  BY DEF BuildTrace
<1>2. building \in [RunIds -> TraceRecords] /\ r \in RunIds
  BY EventTypes DEF Events
<1>3. building[r] \in TraceRecords
  BY <1>2
<1>4. /\ NoTrace \in TraceRecords /\ ~NoTrace.open /\ NoTrace.results = 0
      /\ [NoTrace EXCEPT !.open = TRUE] \in TraceRecords
      /\ [NoTrace EXCEPT !.open = TRUE].open /\ [NoTrace EXCEPT !.open = TRUE].results = 0
  BY DEF NoTrace, TraceRecords
<1>5. TraceEnds(e) => e.name # "runtime.started" /\ e.name \notin Results
  BY DEF TraceEnds, Results
<1>6. "runtime.started" \notin Results
  BY DEF Results
<1>7. /\ new \in TraceRecords
      /\ TraceEnds(e) => ~new.open
      /\ ~TraceEnds(e) /\ building[r].open =>
           /\ new.open
           /\ new.results = building[r].results + (IF e.name \in Results THEN 1 ELSE 0)
      /\ ~TraceEnds(e) /\ ~building[r].open =>
           new.open = (e.name = "runtime.started") /\ new.results = 0
  <2>1. CASE e.name = "runtime.started" /\ ~building[r].open
    BY <1>4, <1>5, <2>1
  <2>2. CASE ~(e.name = "runtime.started" /\ ~building[r].open) /\
             (~building[r].open \/ TraceEnds(e))
    <3>1. new = NoTrace
      BY <2>2
    <3>2. ~TraceEnds(e) /\ ~building[r].open => e.name # "runtime.started"
      BY <2>2
    <3>3. ~building[r].open \/ TraceEnds(e)
      BY <2>2
    <3> HIDE DEF new
    <3>4. /\ new \in TraceRecords /\ new.open = FALSE /\ new.results = 0
      BY <1>4, <3>1 DEF TraceRecords
    <3> QED BY <3>2, <3>3, <3>4
  <2>3. CASE building[r].open /\ ~TraceEnds(e) /\ e.name \in Results
    BY <1>3, <1>6, <2>3 DEF TraceRecords
  <2>4. CASE building[r].open /\ ~TraceEnds(e) /\ e.name \notin Results
    BY <1>3, <2>4 DEF TraceRecords
  <2> QED BY <2>1, <2>2, <2>3, <2>4
<1> HIDE DEF new
<1>8. building' \in [RunIds -> TraceRecords] /\ building'[r] = new
      /\ \A other \in RunIds \ {r} : building'[other] = building[other]
  BY <1>1, <1>2, <1>7
<1> QED BY <1>1, <1>2, <1>7, <1>8

\* What the publication of an event makes of everything but the trace.
LEMMA Published ==
  ASSUME EventInv, NEW name, NEW then, Follows(name, then), Publish(name, then)
  PROVE  \E kept \in BOOLEAN, e \in Events :
           /\ e.run = running.run /\ e.turn = running.turn /\ e.name = name
           /\ e.kept = kept /\ e.process = processes /\ e.run \in RunIds
           /\ running'.failed = (running.failed \/ ~kept)
           /\ emitted' = IF name \in Deltas THEN emitted ELSE Append(emitted, e)
           /\ Store(e) /\ BuildTrace(e) /\ Show(e) /\ Project("turn", Projected(e))
           /\ UNCHANGED <<streams, runCount, waitsFor, runState, finalized, processes>>
           /\ mishaps' \in {mishaps, mishaps + 1} /\ mishaps' <= MaxMishaps
<1>1. PICK kept \in BOOLEAN :
        /\ mishaps' = mishaps + (IF kept /\ name # "tool.progress" THEN 0 ELSE 1)
        /\ mishaps' <= MaxMishaps
        /\ running' = [then EXCEPT !.number = running.number + 1,
                                   !.failed = running.failed \/ ~kept]
        /\ emitted' = IF name \in Deltas THEN emitted ELSE Append(emitted, EventOf(name, kept))
        /\ Store(EventOf(name, kept)) /\ BuildTrace(EventOf(name, kept))
        /\ Show(EventOf(name, kept)) /\ Project("turn", Projected(EventOf(name, kept)))
  BY PublishIs, Zenon
<1>2. /\ running.number < MaxNumber
      /\ UNCHANGED <<streams, runCount, waitsFor, runState, finalized, processes>>
  BY PublishIs, Zenon
<1>3. running.at # "none" /\ name \in EventNames /\ then \in TurnRecords
  BY DEF Follows
<1>4. /\ EventOf(name, kept) \in Events /\ EventOf(name, kept).run = running.run
      /\ EventOf(name, kept).turn = running.turn /\ EventOf(name, kept).name = name
      /\ EventOf(name, kept).kept = kept /\ EventOf(name, kept).process = processes
      /\ running.run \in RunIds
  BY <1>2, <1>3, EventHasType
<1>5. mishaps \in Nat
  BY EventTypes, EventAssumption DEF EventInv
<1>6. mishaps' \in {mishaps, mishaps + 1}
  BY <1>1, <1>5
<1>7. running'.failed = (running.failed \/ ~kept)
  <2>1. DOMAIN then = DOMAIN [then EXCEPT !.number = running.number + 1] /\ "failed" \in DOMAIN then
    BY <1>3 DEF TurnRecords
  <2> QED BY <1>1, <2>1
<1> HIDE DEF EventOf
<1> QED BY <1>1, <1>2, <1>4, <1>6, <1>7, Zenon

LEMMA TurnsFollow ==
  ASSUME EventInv, NEW name, NEW then, Follows(name, then), Publish(name, then)
  PROVE  (TurnsAreOrdered /\ FailureIsKnown /\ TrajectoryIsWhole)'
<1>1. PICK kept \in BOOLEAN, e \in Events :
        /\ e.turn = running.turn /\ e.kept = kept
        /\ running'.failed = (running.failed \/ ~kept)
        /\ emitted' = IF name \in Deltas THEN emitted ELSE Append(emitted, e)
        /\ Store(e) /\ UNCHANGED finalized
  BY Published, Zenon
<1>2. /\ EventTypeOK /\ TurnsAreOrdered /\ FailureIsKnown /\ TrajectoryIsWhole
      /\ running.at # "none"
  BY DEF EventInv, Follows
<1>3. Range(emitted') \in {Range(emitted), Range(emitted) \cup {e}}
  BY <1>1, <1>2, EventTypes, RangeOfAppend
<1>4. Range(eventTable) \subseteq Range(eventTable')
  <2>1. eventTable' \in {eventTable, Append(eventTable, e)}
    BY <1>1, StoreIs
  <2>2. Range(Append(eventTable, e)) = Range(eventTable) \cup {e}
    BY <1>2, EventTypes, RangeOfAppend
  <2> QED BY <2>1, <2>2
<1>5. running'.turn = running.turn /\ running.turn \in Nat
  BY <1>2, PublishedTurn, EventTypes, EventAssumption DEF TurnRecords
<1>6. TurnsAreOrdered'
  BY <1>1, <1>2, <1>3, <1>5 DEF TurnsAreOrdered
<1>7. FailureIsKnown'
  BY <1>1, <1>2, <1>3, <1>5 DEF FailureIsKnown
<1>8. TrajectoryIsWhole'
  <2>1. ASSUME NEW f \in Range(finalized'), NEW g \in Range(emitted'), f.whole, g.turn = f.turn
        PROVE  g \in Range(eventTable')
    <3>1. f.turn < running.turn /\ f \in Range(finalized)
      BY <1>1, <1>2, <2>1 DEF TurnsAreOrdered
    <3>2. g # e
      <4>1. f.turn \in Nat
        <5>1. Range(finalized) \subseteq [turn : TurnIds, whole : BOOLEAN]
          BY <1>2, EventTypes, RangeIsOf
        <5> QED BY <3>1, <5>1 DEF TurnIds
      <4> QED BY <1>1, <1>5, <2>1, <3>1, <4>1
    <3>3. g \in Range(emitted)
      BY <1>3, <2>1, <3>2
    <3> QED BY <1>2, <1>4, <2>1, <3>1, <3>3 DEF TrajectoryIsWhole
  <2> QED BY <2>1 DEF TrajectoryIsWhole
<1> QED BY <1>6, <1>7, <1>8

LEMMA ScreenFollows ==
  ASSUME EventInv, NEW name, NEW then, Follows(name, then), Publish(name, then)
  PROVE  console' \in Screens /\ (ScreenIsSound /\ ResponseIsShown)'
<1>1. PICK e \in Events : e.name = name /\ Show(e) /\ UNCHANGED streams
  BY Published, Zenon
<1>2. /\ running'.at = then.at /\ running'.end = then.end /\ running'.step = then.step
      /\ running'.chunk = then.chunk
  BY PublishedTurn
<1>3. /\ EventTypeOK /\ ScreenIsSound /\ console \in Screens /\ running \in TurnRecords
      /\ running.at # "none" /\ then.at # "none" /\ then \in TurnRecords
      /\ streams \in BOOLEAN
  BY EventTypes DEF EventInv, Follows, EventTypeOK
<1>4. ResponseIsShown'
  BY <1>2, <1>3 DEF ResponseIsShown
<1>5. /\ then.step >= 1 /\ (~streams => then.chunk = 0)
      /\ then.at = "answered" \/ then.end = "success" => then.step > 1
  BY Zenon DEF Follows
<1>6. AnswerText # <<>> /\ Len(AnswerText) = 2
  BY DEF AnswerText
<1>7. CASE name = "model.delta"
  <2> DEFINE same == console.item = running.step
             text == Append(IF same THEN console.streamed ELSE <<>>, running.chunk + 1)
             line == Append(IF same THEN console.line ELSE <<>>, running.chunk + 1)
  <2>1. console' = Written(console, running.step, running.chunk + 1)
    BY <1>1, <1>7, ShowIs
  <2>2. streams /\ then.step = running.step /\ running.chunk < Len(AnswerText)
    BY <1>7 DEF Follows
  <2>3. running.step \in Nat \ {0} /\ running.chunk + 1 \in 1..2
    BY <1>3, <1>6, <2>2 DEF TurnRecords, ScreenIsSound
  <2>4. text = line /\ text \in Seq(1..2)
    BY <1>3, <2>3 DEF ScreenIsSound, Screens
  <2>5. console' = [console EXCEPT !.item = running.step, !.streamed = text, !.line = line,
                                   !.whole = console.whole \/ line = AnswerText]
    BY <2>1, Zenon DEF Written
  <2> HIDE DEF text, line
  <2>6. /\ console' \in Screens /\ console'.item # 0 /\ console'.line = console'.streamed
        /\ (console'.streamed = AnswerText => console'.whole)
    BY <1>3, <2>3, <2>4, <2>5 DEF Screens
  <2> QED BY <1>1, <1>2, <1>4, <1>5, <2>2, <2>6 DEF ScreenIsSound
<1>8. CASE name # "model.delta"
  <2>1. console' \in {console, EndLine(console)}
    BY <1>1, <1>8, ShowIs, Zenon
  <2>2. /\ console' \in Screens /\ console'.streamed = console.streamed
        /\ console'.whole = console.whole
        /\ console'.item # 0 => console'.item = console.item /\ console'.line = console.line
    <3>1. CASE console' = console
      BY <1>3, <3>1
    <3>2. CASE console' = EndLine(console)
      <4>1. <<>> \in Seq(1..2) /\ 0 \in Nat
        OBVIOUS
      <4>2. console' = [console EXCEPT !.item = 0, !.line = <<>>]
        BY <3>2, Zenon DEF EndLine
      <4> QED BY <1>3, <4>1, <4>2 DEF Screens
    <3> QED BY <2>1, <3>1, <3>2
  <2>3. streams /\ (then.chunk > 0 \/ then.step > 1) => running.chunk > 0 \/ running.step > 1
    BY <1>8 DEF Follows
  <2> QED BY <1>1, <1>2, <1>3, <1>4, <1>5, <1>6, <2>2, <2>3 DEF ScreenIsSound
<1> QED BY <1>7, <1>8

LEMMA TracesFollow ==
  ASSUME EventInv, NEW name, NEW then, Follows(name, then), Publish(name, then)
  PROVE  /\ building' \in [RunIds -> TraceRecords] /\ recorded' \in Seq(Recorded)
         /\ emitted' \in Seq(Events) /\ TracesCount'
<1>1. PICK e \in Events :
        /\ e.run = running.run /\ e.name = name /\ e.process = processes /\ e.run \in RunIds
        /\ emitted' = (IF name \in Deltas THEN emitted ELSE Append(emitted, e))
        /\ BuildTrace(e)
        /\ UNCHANGED <<streams, runCount, waitsFor, runState, finalized, processes>>
  BY Published, Zenon
<1>2. EventTypeOK /\ TracesCount /\ RunsAreKnown /\ running.at # "none" /\ then.at # "none"
  BY DEF EventInv, Follows
<1>3. /\ building \in [RunIds -> TraceRecords] /\ recorded \in Seq(Recorded)
      /\ emitted \in Seq(Events) /\ processes \in 0..MaxMishaps /\ processes \in Nat
      /\ runCount \in Nat /\ runCount <= MaxRuns
  BY <1>2, EventTypes, EventAssumption
<1> DEFINE r == e.run
           ends == name = "runtime.completed" /\ running.end # "awaiting_input"
           isResult == name \in Results
           record == [run |-> r, results |-> building[r].results, process |-> processes]
<1>4. TraceEnds(e) <=> ends
  BY <1>1 DEF TraceEnds
<1>5. /\ building' \in [RunIds -> TraceRecords]
      /\ \A other \in RunIds \ {r} : building'[other] = building[other]
      /\ ends => ~building'[r].open
      /\ ~ends /\ building[r].open =>
           /\ building'[r].open
           /\ building'[r].results = building[r].results + (IF isResult THEN 1 ELSE 0)
      /\ ~ends /\ ~building[r].open =>
           building'[r].open = (name = "runtime.started") /\ building'[r].results = 0
      /\ recorded' = IF building[r].open /\ ends THEN Append(recorded, record) ELSE recorded
  BY <1>1, <1>2, <1>4, BuildTraceIs
<1>6. emitted' \in Seq(Events)
  BY <1>1, <1>3
<1>7. ASSUME NEW q, NEW p
      PROVE  /\ Cardinality(ResultsOf(q, p, emitted)) \in Nat
             /\ q = r /\ p = processes /\ isResult =>
                  Cardinality(ResultsOf(q, p, emitted')) =
                    Cardinality(ResultsOf(q, p, emitted)) + 1
             /\ ~(q = r /\ p = processes /\ isResult) =>
                  ResultsOf(q, p, emitted') = ResultsOf(q, p, emitted)
  <2>1. isResult => name \notin Deltas
    BY DEF Results, Deltas
  <2>2. /\ Cardinality(ResultsOf(q, p, emitted)) \in Nat
        /\ e.run = q /\ e.process = p /\ e.name \in Results =>
             Cardinality(ResultsOf(q, p, Append(emitted, e))) =
               Cardinality(ResultsOf(q, p, emitted)) + 1
        /\ ~(e.run = q /\ e.process = p /\ e.name \in Results) =>
             ResultsOf(q, p, Append(emitted, e)) = ResultsOf(q, p, emitted)
    BY <1>3, OneResultMore
  <2>3. CASE name \in Deltas
    BY <1>1, <2>1, <2>2, <2>3
  <2>4. CASE name \notin Deltas
    BY <1>1, <2>2, <2>4
  <2> QED BY <2>3, <2>4
<1>8. /\ running'.run = running.run /\ running'.at = then.at /\ running'.end = then.end
  BY PublishedTurn
<1>9. /\ isResult => running.at \in Traced
      /\ name = "runtime.started" => running.at = "begun"
      /\ then.at \in Traced =>
           name = "runtime.started" \/ (running.at \in Traced /\ name # "runtime.completed")
      /\ name = "runtime.completed" =>
           running.at = "completes" /\ then.at = "returns" /\ then.end = running.end
      /\ name # "runtime.completed" /\ "returns" \in {running.at, then.at} => then = running
  BY Zenon DEF Follows
<1>10. (LiveRun(r) /\ running.at # "returns") \/ then = running
  <2>1. CASE name = "runtime.completed"
    BY <1>1, <1>2, <1>9, <2>1 DEF LiveRun
  <2>2. CASE name # "runtime.completed"
    BY <1>1, <1>2, <1>9, <2>2 DEF LiveRun
  <2> QED BY <2>1, <2>2
<1>11. ASSUME NEW q, LiveRun(q)' PROVE LiveRun(q)
  <2>1. q = waitsFor \/ q > runCount \/
        (q = running.run /\ (then.at = "returns" => then.end = "awaiting_input"))
    BY <1>1, <1>8, <1>11 DEF LiveRun
  <2>2. CASE q = running.run /\ then = running
    BY <1>2, <2>1, <2>2 DEF LiveRun
  <2> QED BY <1>1, <1>10, <2>1, <2>2 DEF LiveRun
<1>12. ends => ~LiveRun(r)'
  BY <1>1, <1>2, <1>3, <1>8, <1>9 DEF LiveRun, RunsAreKnown
<1>13. isResult => building[r].open
  BY <1>1, <1>2, <1>9 DEF TracesCount
<1>14. \A f \in Range(emitted') : f.process <= processes'
  <2>1. Range(emitted') \in {Range(emitted), Range(emitted) \cup {e}}
    BY <1>1, <1>3, RangeOfAppend
  <2> QED BY <1>1, <1>2, <1>3, <2>1 DEF TracesCount
<1>15. running'.at \in Traced => building'[running'.run].open
  <2>1. CASE name = "runtime.started"
    BY <1>1, <1>5, <1>8, <2>1
  <2>2. CASE name # "runtime.started"
    BY <1>1, <1>2, <1>5, <1>8, <1>9, <2>2 DEF TracesCount
  <2> QED BY <2>1, <2>2
<1>16. \A q \in RunIds : TraceCounts(q, processes, emitted, building[q], LiveRun(q))
  BY <1>2 DEF TracesCount
<1>17. ASSUME NEW q \in RunIds
       PROVE  TraceCounts(q, processes, emitted', building'[q], LiveRun(q)')
  <2>1. TraceCounts(q, processes, emitted, building[q], LiveRun(q))
    BY <1>16
  <2>2. CASE q # r
    <3>1. ResultsOf(q, processes, emitted') = ResultsOf(q, processes, emitted)
      BY <1>7, <2>2
    <3>2. building'[q] = building[q]
      BY <1>5, <2>2
    <3> QED BY <1>11, <2>1, <3>1, <3>2 DEF TraceCounts
  <2>3. CASE q = r /\ ends
    BY <1>5, <1>12, <2>3 DEF TraceCounts
  <2>4. CASE q = r /\ ~ends /\ building[r].open
    <3>1. building[r].results = Cardinality(ResultsOf(r, processes, emitted))
      BY <2>1, <2>4 DEF TraceCounts
    <3>2. building'[r].results = Cardinality(ResultsOf(r, processes, emitted'))
      <4>1. Cardinality(ResultsOf(r, processes, emitted)) \in Nat
        BY <1>7
      <4>2. CASE isResult
        BY <1>5, <1>7, <2>4, <3>1, <4>2
      <4>3. CASE ~isResult
        <5>1. ResultsOf(r, processes, emitted') = ResultsOf(r, processes, emitted)
          BY <1>7, <4>3
        <5> QED BY <1>5, <2>4, <3>1, <4>1, <4>3, <5>1
      <4> QED BY <4>2, <4>3
    <3> QED BY <1>5, <2>4, <3>2 DEF TraceCounts
  <2>5. CASE q = r /\ ~ends /\ ~building[r].open
    <3>1. ResultsOf(r, processes, emitted') = ResultsOf(r, processes, emitted)
      BY <1>7, <1>13, <2>5
    <3>2. LiveRun(r) => ResultsOf(r, processes, emitted') = {}
      BY <2>1, <2>5, <3>1 DEF TraceCounts
    <3>3. CASE name = "runtime.started"
      <4>1. ResultsOf(r, processes, emitted') = {}
        BY <1>1, <1>2, <1>9, <3>2, <3>3 DEF LiveRun
      <4>2. Cardinality(ResultsOf(r, processes, emitted')) = 0
        BY <4>1, FS_EmptySet
      <4> QED BY <1>5, <2>5, <3>3, <4>2 DEF TraceCounts
    <3>4. CASE name # "runtime.started"
      <4>1. ~building'[r].open
        BY <1>5, <2>5, <3>4
      <4> QED BY <1>11, <2>5, <3>2, <4>1 DEF TraceCounts
    <3> QED BY <3>3, <3>4
  <2> QED BY <2>2, <2>3, <2>4, <2>5
<1>18. recorded' \in Seq(Recorded) /\ record \in Recorded
  <2>1. record \in Recorded
    BY <1>1, <1>3 DEF Recorded, TraceRecords
  <2> QED BY <1>3, <1>5, <2>1
<1>19. ASSUME NEW t \in Range(recorded')
       PROVE  /\ t.process <= processes /\ (t.process = processes => ~LiveRun(t.run)')
              /\ t.results = Cardinality(ResultsOf(t.run, t.process, emitted'))
  <2>1. CASE t \in Range(recorded)
    <3>1. /\ t.process <= processes /\ (t.process = processes => ~LiveRun(t.run))
          /\ t.results = Cardinality(ResultsOf(t.run, t.process, emitted))
      BY <1>2, <2>1 DEF TracesCount
    <3>2. ~(t.run = r /\ t.process = processes /\ isResult)
      BY <1>1, <1>2, <1>9, <3>1 DEF LiveRun, Traced
    <3>3. ResultsOf(t.run, t.process, emitted') = ResultsOf(t.run, t.process, emitted)
      BY <1>7, <3>2
    <3> QED BY <1>11, <3>1, <3>3
  <2>2. CASE t \notin Range(recorded)
    <3>1. Range(Append(recorded, record)) = Range(recorded) \cup {record}
      BY <1>3, <1>18, RangeOfAppend
    <3>2. building[r].open /\ ends /\ t = record
      BY <1>5, <2>2, <3>1
    <3>3. building[r].results = Cardinality(ResultsOf(r, processes, emitted))
      BY <1>1, <1>16, <3>2 DEF TraceCounts
    <3>4. ~isResult
      BY <3>2 DEF Results
    <3>5. ResultsOf(r, processes, emitted') = ResultsOf(r, processes, emitted)
      BY <1>7, <3>4
    <3> QED BY <1>3, <1>12, <3>2, <3>3, <3>5
  <2> QED BY <2>1, <2>2
<1>20. TracesCount'
  BY <1>1, <1>14, <1>15, <1>17, <1>19 DEF TracesCount
<1> QED BY <1>5, <1>6, <1>18, <1>20

LEMMA PublishKeeps ==
  ASSUME EventInv, NEW name, NEW then, Follows(name, then), Publish(name, then)
  PROVE  EventInv'
<1>1. PICK e \in Events :
        /\ e.run \in RunIds /\ Store(e) /\ Project("turn", Projected(e))
        /\ UNCHANGED <<streams, runCount, waitsFor, runState, finalized, processes>>
        /\ mishaps' \in {mishaps, mishaps + 1} /\ mishaps' <= MaxMishaps
  BY Published, Zenon
<1>2. EventTypeOK /\ StatesAreOfTheirRuns
  BY DEF EventInv
<1>3. /\ running \in TurnRecords /\ runState \in States
      /\ projecting \in [{"turn", "expiry"} -> Projections] /\ mishaps \in Nat
  BY <1>2, EventTypes, EventAssumption
<1>4. Projected(e) \in States /\ OfItsRun(Projected(e))
  BY <1>1, <1>3, ProjectedIsItsOwn
<1>5. projecting' \in [{"turn", "expiry"} -> Projections] /\ StatesAreOfTheirRuns'
  <2>1. CASE projecting' = projecting
    BY <1>1, <1>2, <1>3, <2>1 DEF StatesAreOfTheirRuns, OfItsRun
  <2>2. CASE projecting' = [projecting EXCEPT !["turn"] =
               [on |-> TRUE, to |-> Projected(e), before |-> runState]]
    <3> DEFINE new == [on |-> TRUE, to |-> Projected(e), before |-> runState]
    <3>1. new \in Projections /\ OfItsRun(new.to) /\ OfItsRun(new.before)
      BY <1>2, <1>3, <1>4 DEF Projections, StatesAreOfTheirRuns
    <3> HIDE DEF new
    <3>2. /\ projecting' \in [{"turn", "expiry"} -> Projections]
          /\ projecting'["turn"] = new /\ projecting'["expiry"] = projecting["expiry"]
      BY <1>3, <2>2, <3>1 DEF new
    <3> QED BY <1>1, <1>2, <3>1, <3>2 DEF StatesAreOfTheirRuns, OfItsRun
  <2> QED BY <1>1, <2>1, <2>2, Zenon DEF Project
<1>6. running' \in TurnRecords /\ eventTable' \in Seq(Events)
  BY <1>1, PublishedTurn, StoreIs
<1>7. console' \in Screens /\ (ScreenIsSound /\ ResponseIsShown)'
  BY ScreenFollows
<1>8. /\ building' \in [RunIds -> TraceRecords] /\ recorded' \in Seq(Recorded)
      /\ emitted' \in Seq(Events) /\ TracesCount'
  BY TracesFollow
<1>9. EventTypeOK'
  <2>1. mishaps' \in 0..MaxMishaps
    BY <1>1, <1>3, EventAssumption
  <2> QED BY <1>1, <1>2, <1>5, <1>6, <1>7, <1>8, <2>1
          DEF EventTypeOK, TurnRecords, TraceRecords, Recorded, Projections, Screens
<1> QED BY <1>5, <1>7, <1>8, <1>9, NumbersFollow, TurnsFollow DEF EventInv

-----------------------------------------------------------------------------
\* The turns that publish
LEMMA ToIs ==
  ASSUME running \in TurnRecords, NEW at,
         at \in {"resuming", "resolves", "works", "answered", "completes", "returns"}
  PROVE  /\ To(at) \in TurnRecords /\ To(at).at = at /\ To(at).turn = running.turn
         /\ To(at).run = running.run /\ To(at).end = running.end
         /\ To(at).step = running.step /\ To(at).chunk = running.chunk
BY DEF To, TurnRecords

LEMMA StartedKeeps == EventInv /\ PublishStarted => EventInv'
<1> SUFFICES ASSUME EventInv, PublishStarted PROVE EventInv'
  OBVIOUS
<1> DEFINE at == IF running.resumes THEN "resuming" ELSE "works"
<1>1. /\ running \in TurnRecords /\ ScreenIsSound /\ running.at = "begun"
      /\ Publish("runtime.started", To(at))
  BY EventTypes DEF EventInv, PublishStarted
<1>2. at \in {"resuming", "works"}
  OBVIOUS
<1> HIDE DEF at
<1>3. /\ To(at) \in TurnRecords /\ To(at).at = at /\ To(at).turn = running.turn
      /\ To(at).run = running.run /\ To(at).end = running.end
      /\ To(at).step = running.step /\ To(at).chunk = running.chunk
  BY <1>1, <1>2, ToIs
<1>4. Follows("runtime.started", To(at))
  BY <1>1, <1>2, <1>3 DEF Follows, EventNames, ScreenIsSound, Results, Traced
<1> QED BY <1>1, <1>4, PublishKeeps

LEMMA ResumedKeeps == EventInv /\ PublishResumed => EventInv'
<1> SUFFICES ASSUME EventInv, PublishResumed PROVE EventInv'
  OBVIOUS
<1>1. /\ running \in TurnRecords /\ ScreenIsSound /\ running.at = "resuming"
      /\ Publish("runtime.resumed", To("resolves"))
  BY EventTypes DEF EventInv, PublishResumed
<1>2. /\ To("resolves") \in TurnRecords /\ To("resolves").at = "resolves"
      /\ To("resolves").turn = running.turn
      /\ To("resolves").run = running.run /\ To("resolves").end = running.end
      /\ To("resolves").step = running.step /\ To("resolves").chunk = running.chunk
  BY <1>1, ToIs
<1>3. Follows("runtime.resumed", To("resolves"))
  BY <1>1, <1>2 DEF Follows, EventNames, ScreenIsSound, Results, Traced
<1> QED BY <1>1, <1>3, PublishKeeps

LEMMA TextDeltaKeeps == EventInv /\ PublishTextDelta => EventInv'
<1> SUFFICES ASSUME EventInv, PublishTextDelta PROVE EventInv'
  OBVIOUS
<1> DEFINE then == [running EXCEPT !.chunk = running.chunk + 1]
<1>1. /\ running \in TurnRecords /\ ScreenIsSound /\ running.at = "works" /\ streams
      /\ running.chunk < Len(AnswerText) /\ Publish("model.delta", then)
  BY EventTypes DEF EventInv, PublishTextDelta
<1>2. running.chunk + 1 \in 0..Len(AnswerText)
  BY <1>1 DEF TurnRecords, AnswerText
<1>3. /\ then \in TurnRecords /\ then.at = "works" /\ then.turn = running.turn
      /\ then.run = running.run /\ then.end = running.end /\ then.step = running.step
  BY <1>1, <1>2 DEF TurnRecords
<1> HIDE DEF then
<1>4. Follows("model.delta", then)
  BY <1>1, <1>3 DEF Follows, EventNames, ScreenIsSound, Results, Traced
<1> QED BY <1>1, <1>4, PublishKeeps

LEMMA ModelKeeps == EventInv /\ RecordModel => EventInv'
<1> SUFFICES ASSUME EventInv, RecordModel PROVE EventInv'
  OBVIOUS
<1> DEFINE then == [To("answered") EXCEPT !.chunk = 0, !.step = running.step + 1]
<1>1. /\ running \in TurnRecords /\ ScreenIsSound /\ running.at = "works"
      /\ running.chunk = (IF streams THEN Len(AnswerText) ELSE 0)
      /\ Publish("model.response", then)
  BY EventTypes DEF EventInv, RecordModel
<1>2. /\ To("answered") \in TurnRecords /\ To("answered").at = "answered"
      /\ To("answered").turn = running.turn
      /\ To("answered").run = running.run /\ To("answered").end = running.end
      /\ To("answered").step = running.step
  BY <1>1, ToIs
<1>3. /\ then \in TurnRecords /\ then.at = "answered" /\ then.turn = running.turn
      /\ then.run = running.run /\ then.end = running.end /\ then.step = running.step + 1
      /\ then.chunk = 0
  <2>1. 0 \in 0..Len(AnswerText) /\ running.step + 1 \in Nat
    BY <1>1 DEF TurnRecords, AnswerText
  <2> QED BY <1>2, <2>1 DEF TurnRecords
<1> HIDE DEF then
<1>4. /\ running.at = "works" /\ then.step >= 1 /\ then.step > 1
      /\ (streams => running.chunk > 0)
  BY <1>1, <1>3 DEF TurnRecords, AnswerText, ScreenIsSound
<1>5. Follows("model.response", then)
  BY <1>3, <1>4 DEF Follows, EventNames, ScreenIsSound, Results, Traced
<1> QED BY <1>1, <1>5, PublishKeeps

LEMMA ToolResultKeeps == EventInv /\ RecordToolResult => EventInv'
<1> SUFFICES ASSUME EventInv, RecordToolResult PROVE EventInv'
  OBVIOUS
<1>1. /\ running \in TurnRecords /\ ScreenIsSound /\ running.at \in {"resolves", "answered"}
      /\ Publish("tool.result", To("works"))
  BY EventTypes DEF EventInv, RecordToolResult
<1>2. /\ To("works") \in TurnRecords /\ To("works").at = "works"
      /\ To("works").turn = running.turn
      /\ To("works").run = running.run /\ To("works").end = running.end
      /\ To("works").step = running.step /\ To("works").chunk = running.chunk
  BY <1>1, ToIs
<1>3. Follows("tool.result", To("works"))
  BY <1>1, <1>2 DEF Follows, EventNames, ScreenIsSound, Results, Traced
<1> QED BY <1>1, <1>3, PublishKeeps

LEMMA AnnounceKeeps == EventInv /\ Announce => EventInv'
<1> SUFFICES ASSUME EventInv, Announce PROVE EventInv'
  OBVIOUS
<1> DEFINE name == IF running.end = "cancelled" THEN "runtime.cancelled" ELSE "runtime.waiting"
<1>1. /\ running \in TurnRecords /\ ScreenIsSound /\ running.at = "announces"
      /\ Publish(name, To("completes"))
  BY EventTypes DEF EventInv, Announce
<1>2. name \in {"runtime.cancelled", "runtime.waiting"}
  OBVIOUS
<1> HIDE DEF name
<1>3. /\ To("completes") \in TurnRecords /\ To("completes").at = "completes"
      /\ To("completes").turn = running.turn
      /\ To("completes").run = running.run /\ To("completes").end = running.end
      /\ To("completes").step = running.step /\ To("completes").chunk = running.chunk
  BY <1>1, ToIs
<1>4. Follows(name, To("completes"))
  BY <1>1, <1>2, <1>3 DEF Follows, EventNames, ScreenIsSound, Results, Traced
<1> QED BY <1>1, <1>4, PublishKeeps

LEMMA CompletedKeeps == EventInv /\ PublishCompleted => EventInv'
<1> SUFFICES ASSUME EventInv, PublishCompleted PROVE EventInv'
  OBVIOUS
<1>1. /\ running \in TurnRecords /\ ScreenIsSound /\ running.at = "completes"
      /\ Publish("runtime.completed", To("returns"))
  BY EventTypes DEF EventInv, PublishCompleted
<1>2. /\ To("returns") \in TurnRecords /\ To("returns").at = "returns"
      /\ To("returns").turn = running.turn
      /\ To("returns").run = running.run /\ To("returns").end = running.end
      /\ To("returns").step = running.step /\ To("returns").chunk = running.chunk
  BY <1>1, ToIs
<1>3. Follows("runtime.completed", To("returns"))
  BY <1>1, <1>2 DEF Follows, EventNames, ScreenIsSound, Results, Traced
<1> QED BY <1>1, <1>3, PublishKeeps

LEMMA OutputKeeps == EventInv /\ EmitToolOutput => EventInv'
<1> SUFFICES ASSUME EventInv, EmitToolOutput PROVE EventInv'
  OBVIOUS
<1>1. /\ running \in TurnRecords /\ ScreenIsSound /\ running.at # "none"
      /\ Publish("tool.progress", running)
  BY EventTypes DEF EventInv, EmitToolOutput
<1>2. Follows("tool.progress", running)
  BY <1>1 DEF Follows, EventNames, ScreenIsSound, Results
<1> QED BY <1>1, <1>2, PublishKeeps

-----------------------------------------------------------------------------
(* The other steps *)

LEMMA LastNumberIsAbove ==
  ASSUME EventInv, NEW r
  PROVE  /\ LastNumber(r) \in 0..MaxNumber
         /\ \A i \in DOMAIN eventTable :
              eventTable[i].run = r => eventTable[i].number <= LastNumber(r)
<1> DEFINE S == {e.number : e \in OfRun(r, eventTable)} \cup {0}
<1>1. eventTable \in Seq(Events)
  BY EventTypes DEF EventInv
<1>2. Range(eventTable) \subseteq Events
  BY <1>1, RangeIsOf
<1>3. S \subseteq 0..MaxNumber /\ S # {}
  BY <1>2, EventAssumption DEF OfRun, Events
<1>4. \A i \in DOMAIN eventTable : eventTable[i].run = r => eventTable[i].number \in S
  BY DEF OfRun, Range
<1>5. LastNumber(r) = Max(S)
  BY DEF LastNumber
<1> HIDE DEF S
<1>6. Max(S) \in S /\ \A y \in S : y <= Max(S)
  BY <1>3, EventAssumption, GreatestExists
<1> QED BY <1>3, <1>4, <1>5, <1>6

LEMMA BeginKeeps ==
  ASSUME EventInv, NEW r \in RunIds, NEW resumes \in BOOLEAN, Begin(r, resumes),
         runCount' \in 0..MaxRuns, runCount <= runCount', waitsFor' \in RunIds \cup {0},
         waitsFor' <= runCount', r <= runCount', r # waitsFor', LiveRun(r),
         waitsFor' \in {0, waitsFor},
         ~resumes => \A i \in DOMAIN eventTable : eventTable[i].run # r
  PROVE  EventInv'
<1> DEFINE number == IF resumes THEN LastNumber(r) ELSE 0
<1>1. /\ running.at = "none" /\ running.turn < MaxRunTurns
      /\ running' = [NotRunning EXCEPT !.turn = running.turn + 1, !.run = r, !.at = "begun",
                                       !.number = number, !.resumes = resumes]
      /\ console' = [console EXCEPT !.whole = FALSE, !.printed = FALSE]
      /\ UNCHANGED <<streams, emitted, eventTable, building, recorded, runState, projecting,
                     finalized, processes, mishaps>>
  BY DEF Begin
<1>2. /\ EventTypeOK /\ RunsAreKnown /\ NumbersAreKept /\ TurnsAreOrdered /\ TrajectoryIsWhole
      /\ TracesCount /\ StatesAreOfTheirRuns /\ ScreenIsSound
  BY DEF EventInv
<1>3. /\ running \in TurnRecords /\ console \in Screens /\ runCount \in 0..MaxRuns
      /\ emitted \in Seq(Events) /\ eventTable \in Seq(Events) /\ recorded \in Seq(Recorded)
      /\ finalized \in Seq([turn : TurnIds, whole : BOOLEAN]) /\ processes \in 0..MaxMishaps
  BY <1>2, EventTypes
<1>4. number \in 0..MaxNumber /\
      \A i \in DOMAIN eventTable : eventTable[i].run = r => eventTable[i].number <= number
  BY LastNumberIsAbove, EventAssumption
<1> HIDE DEF number
<1>5. running.turn \in Nat /\ running.turn + 1 \in TurnIds /\ running.turn + 1 \in 0..MaxRunTurns
  BY <1>1, <1>3, EventAssumption DEF TurnRecords, TurnIds
<1>6. /\ running' \in TurnRecords /\ running'.turn = running.turn + 1 /\ running'.run = r
      /\ running'.at = "begun" /\ running'.number = number /\ running'.failed = FALSE
      /\ running'.step = 1 /\ running'.chunk = 0 /\ running'.end = "none"
  <2>1. running' = [turn |-> running.turn + 1, run |-> r, at |-> "begun", number |-> number,
                    failed |-> FALSE, resumes |-> resumes, step |-> 1, chunk |-> 0,
                    end |-> "none"]
    BY <1>1 DEF NotRunning
  <2>2. 0 \in 0..Len(AnswerText) /\ 1 \in Nat /\ r \in RunIds \cup {0}
    BY DEF AnswerText
  <2> QED BY <1>4, <1>5, <2>1, <2>2 DEF TurnRecords
<1>7. /\ console' \in Screens /\ console'.item = console.item /\ console'.line = console.line
      /\ console'.streamed = console.streamed
  BY <1>1, <1>3 DEF Screens
<1>8. EventTypeOK'
  BY <1>1, <1>2, <1>6, <1>7 DEF EventTypeOK, TurnRecords, Screens, None
<1>9. /\ \A e \in Range(emitted) : e \in Events
      /\ \A e \in Range(eventTable) : e \in Events
      /\ \A t \in Range(recorded) : t \in Recorded
      /\ \A f \in Range(finalized) : f \in [turn : TurnIds, whole : BOOLEAN]
  BY <1>3, RangeIsOf
<1>10. RunsAreKnown'
  <2>1. \A e \in Range(emitted) \cup Range(eventTable) : e.run <= runCount'
    <3>1. \A e \in Range(emitted) \cup Range(eventTable) : e.run \in Nat /\ e.run <= runCount
      BY <1>2, <1>9 DEF RunsAreKnown, Events, RunIds
    <3>2. runCount \in Nat /\ runCount' \in Nat
      BY <1>3, EventAssumption
    <3> QED BY <3>1, <3>2
  <2> QED BY <1>1, <1>2, <1>5, <1>6, <2>1 DEF RunsAreKnown, RunIds
<1>11. NumbersAreAbove' /\ NumbersAreKept'
  BY <1>1, <1>2, <1>4, <1>6 DEF NumbersAreAbove, NumbersAreKept
<1>12. /\ \A e \in Range(emitted) : e.turn < running.turn + 1
       /\ \A f \in Range(finalized) : f.turn < running.turn + 1
  BY <1>2, <1>5, <1>9, EventAssumption DEF TurnsAreOrdered, Events, TurnIds
<1>13. TurnsAreOrdered' /\ TrajectoryIsWhole'
  <2>1. /\ \A e \in Range(emitted) : e.turn <= running.turn + 1
        /\ \A f \in Range(finalized) : f.turn <= running.turn + 1
    BY <1>2, <1>5, <1>9, EventAssumption DEF TurnsAreOrdered, Events, TurnIds
  <2> QED BY <1>1, <1>2, <1>6, <1>12, <2>1 DEF TurnsAreOrdered, TrajectoryIsWhole
<1>14. FailureIsKnown'
  <2>1. \A e \in Range(emitted) : e.turn # running.turn + 1
    BY <1>9, <1>12, <1>5 DEF Events, TurnIds
  <2> QED BY <1>1, <1>6, <2>1 DEF FailureIsKnown
<1>15. ASSUME NEW q \in RunIds, LiveRun(q)' PROVE LiveRun(q)
  <2>1. q = waitsFor' \/ q > runCount' \/ q = r
    BY <1>6, <1>15 DEF LiveRun
  <2>2. CASE q > runCount'
    BY <1>3, <2>2 DEF LiveRun, RunIds
  <2>3. CASE q = waitsFor'
    BY <2>3 DEF LiveRun, RunIds
  <2> QED BY <2>1, <2>2, <2>3
<1>16. TracesCount'
  <2>1. ASSUME NEW q \in RunIds
        PROVE  TraceCounts(q, processes, emitted, building[q], LiveRun(q)')
    <3>1. TraceCounts(q, processes, emitted, building[q], LiveRun(q))
      BY <1>2 DEF TracesCount
    <3> QED BY <1>15, <3>1 DEF TraceCounts
  <2>2. ASSUME NEW t \in Range(recorded)
        PROVE  /\ t.process <= processes /\ (t.process = processes => ~LiveRun(t.run)')
               /\ t.results = Cardinality(ResultsOf(t.run, t.process, emitted))
    <3>1. t.run \in RunIds
      BY <1>9 DEF Recorded
    <3>2. /\ t.process <= processes /\ (t.process = processes => ~LiveRun(t.run))
          /\ t.results = Cardinality(ResultsOf(t.run, t.process, emitted))
      BY <1>2 DEF TracesCount
    <3> QED BY <1>15, <3>1, <3>2
  <2> QED BY <1>1, <1>2, <1>6, <2>1, <2>2 DEF TracesCount, Traced
<1>17. StatesAreOfTheirRuns'
  BY <1>1, <1>2 DEF StatesAreOfTheirRuns, OfItsRun
<1>18. ScreenIsSound' /\ ResponseIsShown'
  BY <1>1, <1>2, <1>6, <1>7 DEF ScreenIsSound, ResponseIsShown
<1> QED BY <1>8, <1>10, <1>11, <1>13, <1>14, <1>16, <1>17, <1>18 DEF EventInv

LEMMA RunBeginsKeeps == EventInv /\ BeginRun => EventInv'
<1> SUFFICES ASSUME EventInv, BeginRun PROVE EventInv'
  OBVIOUS
<1>1. /\ runCount < MaxRuns /\ runCount' = runCount + 1 /\ Begin(runCount + 1, FALSE)
      /\ waitsFor' = waitsFor
  BY DEF BeginRun
<1>2. /\ EventTypeOK /\ RunsAreKnown /\ runCount \in 0..MaxRuns /\ waitsFor \in RunIds \cup {0}
      /\ eventTable \in Seq(Events) /\ waitsFor <= runCount
  BY EventTypes DEF EventInv, RunsAreKnown
<1>3. runCount + 1 \in RunIds /\ runCount + 1 \in 0..MaxRuns /\ waitsFor < runCount + 1
  BY <1>1, <1>2, EventAssumption DEF RunIds
<1>4. \A i \in DOMAIN eventTable : eventTable[i].run # runCount + 1
  <2>1. ASSUME NEW i \in DOMAIN eventTable PROVE eventTable[i].run # runCount + 1
    <3>1. eventTable[i] \in Range(eventTable) /\ eventTable[i] \in Events
      BY <1>2, RangeIsOf DEF Range
    <3> QED BY <1>2, <3>1, EventAssumption DEF RunsAreKnown, Events, RunIds
  <2> QED BY <2>1
<1>5. LiveRun(runCount + 1)
  BY <1>2, EventAssumption DEF LiveRun
<1>6. /\ runCount <= runCount' /\ waitsFor' <= runCount' /\ runCount + 1 <= runCount'
      /\ runCount + 1 # waitsFor'
  BY <1>1, <1>2, <1>3, EventAssumption DEF RunIds
<1> QED BY <1>1, <1>2, <1>3, <1>4, <1>5, <1>6, BeginKeeps

LEMMA RunResumesKeeps == EventInv /\ ResumeRun => EventInv'
<1> SUFFICES ASSUME EventInv, ResumeRun PROVE EventInv'
  OBVIOUS
<1>1. /\ waitsFor # 0 /\ waitsFor' = 0 /\ Begin(waitsFor, TRUE) /\ runCount' = runCount
  BY DEF ResumeRun, None
<1>2. /\ EventTypeOK /\ RunsAreKnown /\ runCount \in 0..MaxRuns /\ waitsFor \in RunIds \cup {0}
      /\ waitsFor <= runCount
  BY EventTypes DEF EventInv, RunsAreKnown
<1>3. LiveRun(waitsFor)
  BY DEF LiveRun
<1>4. /\ waitsFor \in RunIds /\ runCount' \in 0..MaxRuns /\ runCount <= runCount'
      /\ waitsFor' \in RunIds \cup {0} /\ waitsFor' <= runCount' /\ waitsFor <= runCount'
      /\ waitsFor # waitsFor' /\ waitsFor' \in {0, waitsFor}
  BY <1>1, <1>2, EventAssumption
<1> QED BY <1>1, <1>3, <1>4, BeginKeeps

\* How a turn leaves its loop
LEMMA EndKeeps ==
  ASSUME EventInv, NEW end, NEW at, End(end, at), running.at \in {"works", "answered"},
         end \in {"success", "failed", "cancelled", "awaiting_input"},
         at \in {"announces", "completes"}, end = "success" => running.at = "answered"
  PROVE  EventInv'
<1>1. /\ running' = [running EXCEPT !.at = at, !.end = end]
      /\ UNCHANGED <<streams, runCount, waitsFor, emitted, eventTable, building, recorded,
                     runState, projecting, console, finalized, processes, mishaps>>
  BY DEF End
<1>2. /\ EventTypeOK /\ RunsAreKnown /\ NumbersAreAbove /\ NumbersAreKept
      /\ TurnsAreOrdered /\ FailureIsKnown /\ TrajectoryIsWhole
      /\ TracesCount /\ StatesAreOfTheirRuns /\ ScreenIsSound
  BY DEF EventInv
<1>3. running \in TurnRecords
  BY <1>2, EventTypes
<1>4. /\ running' \in TurnRecords /\ running'.at = at /\ running'.end = end
      /\ running'.turn = running.turn /\ running'.run = running.run
      /\ running'.number = running.number /\ running'.failed = running.failed
      /\ running'.step = running.step /\ running'.chunk = running.chunk
  BY <1>1, <1>3 DEF TurnRecords
<1>5. EventTypeOK'
  BY <1>1, <1>2, <1>4 DEF EventTypeOK, TurnRecords
<1>6. RunsAreKnown' /\ NumbersAreAbove' /\ NumbersAreKept'
  BY <1>1, <1>2, <1>4 DEF RunsAreKnown, NumbersAreAbove, NumbersAreKept
<1>7. TurnsAreOrdered' /\ FailureIsKnown' /\ TrajectoryIsWhole'
  BY <1>1, <1>2, <1>4 DEF TurnsAreOrdered, FailureIsKnown, TrajectoryIsWhole
<1>8. \A q : LiveRun(q)' <=> LiveRun(q)
  BY <1>1, <1>4 DEF LiveRun
<1>9. TracesCount'
  <2>1. \A q \in RunIds : TraceCounts(q, processes, emitted, building[q], LiveRun(q)')
    BY <1>2, <1>8 DEF TracesCount, TraceCounts
  <2>2. building[running.run].open
    BY <1>2 DEF TracesCount, Traced
  <2> QED BY <1>1, <1>2, <1>4, <1>8, <2>1, <2>2 DEF TracesCount
<1>10. StatesAreOfTheirRuns' /\ ScreenIsSound' /\ ResponseIsShown'
  BY <1>1, <1>2, <1>4 DEF StatesAreOfTheirRuns, OfItsRun, ScreenIsSound, ResponseIsShown
<1> QED BY <1>5, <1>6, <1>7, <1>9, <1>10 DEF EventInv

LEMMA LeaveLoopKeeps == EventInv /\ LeaveLoop => EventInv'
<1> SUFFICES ASSUME EventInv, LeaveLoop PROVE EventInv'
  OBVIOUS
<1>1. CASE running.at \in {"works", "answered"} /\ End("cancelled", "announces")
  BY <1>1, EndKeeps
<1>2. CASE running.at = "answered" /\ End("awaiting_input", "announces")
  BY <1>2, EndKeeps
<1>3. CASE running.at = "answered" /\ End("success", "completes")
  BY <1>3, EndKeeps
<1>4. CASE running.at = "works" /\ End("failed", "completes")
  BY <1>4, EndKeeps
<1> QED BY <1>1, <1>2, <1>3, <1>4 DEF LeaveLoop

\* A turn that is over, or the next
LEMMA NoTurnIs ==
  ASSUME EventTypeOK, running' = [NotRunning EXCEPT !.turn = running.turn]
  PROVE  /\ running' \in TurnRecords /\ running'.at = "none" /\ running'.turn = running.turn
         /\ running'.step = 1 /\ running'.chunk = 0 /\ running'.end = "none"
<1>1. running.turn \in 0..MaxRunTurns /\ 0 \in 0..Len(AnswerText) /\ 0 \in 0..MaxNumber
  BY EventTypes, EventAssumption DEF TurnRecords, AnswerText
<1>2. running' = [turn |-> running.turn, run |-> 0, at |-> "none", number |-> 0,
                  failed |-> FALSE, resumes |-> FALSE, step |-> 1, chunk |-> 0, end |-> "none"]
  BY DEF NotRunning
<1>3. NotRunning \in TurnRecords
  BY EventAssumption DEF NotRunning, TurnRecords, AnswerText
<1>4. running' \in TurnRecords
  BY <1>1, <1>3 DEF TurnRecords
<1> QED BY <1>2, <1>4

LEMMA FinalizeKeeps == EventInv /\ FinalizeTurn => EventInv'
<1> SUFFICES ASSUME EventInv, FinalizeTurn PROVE EventInv'
  OBVIOUS
<1> DEFINE content == IF running.end = "success" THEN AnswerText ELSE Fallback
           end == [turn |-> running.turn, whole |-> ~running.failed]
<1>1. /\ running.at = "returns" /\ finalized' = Append(finalized, end)
      /\ waitsFor' = (IF running.end = "awaiting_input" THEN running.run ELSE waitsFor)
      /\ running' = [NotRunning EXCEPT !.turn = running.turn]
      /\ console' = [EndLine(console) EXCEPT
                       !.printed = ~RenderedResponse(console, content),
                       !.whole = @ /\ content = AnswerText]
      /\ UNCHANGED <<streams, runCount, emitted, eventTable, building, recorded, runState,
                     projecting, processes, mishaps>>
  BY DEF FinalizeTurn
<1>2. /\ EventTypeOK /\ RunsAreKnown /\ NumbersAreAbove /\ NumbersAreKept
      /\ TurnsAreOrdered /\ FailureIsKnown /\ TrajectoryIsWhole
      /\ TracesCount /\ StatesAreOfTheirRuns /\ ScreenIsSound
  BY DEF EventInv
<1>3. /\ running \in TurnRecords /\ runCount \in 0..MaxRuns /\ console \in Screens
      /\ finalized \in Seq([turn : TurnIds, whole : BOOLEAN])
      /\ recorded \in Seq(Recorded) /\ waitsFor \in RunIds \cup {0} /\ emitted \in Seq(Events)
  BY <1>2, EventTypes
<1>4. /\ running' \in TurnRecords /\ running'.at = "none" /\ running'.turn = running.turn
      /\ running'.step = 1 /\ running'.chunk = 0 /\ running'.end = "none"
  BY <1>1, <1>2, NoTurnIs
<1>5. /\ running.run \in 1..runCount /\ running.turn \in TurnIds /\ running.run # waitsFor
      /\ waitsFor <= runCount
  BY <1>1, <1>2 DEF RunsAreKnown
<1>6. waitsFor' \in RunIds \cup {0} /\ waitsFor' <= runCount
  BY <1>1, <1>3, <1>5, EventAssumption DEF RunIds
<1>7. /\ end \in [turn : TurnIds, whole : BOOLEAN] /\ end.turn = running.turn
      /\ end.whole => running.failed = FALSE
  BY <1>3, <1>5 DEF TurnRecords
<1>8. /\ finalized' \in Seq([turn : TurnIds, whole : BOOLEAN])
      /\ Range(finalized') = Range(finalized) \cup {end}
  <2> HIDE DEF end
  <2> DEFINE ends == [turn : TurnIds, whole : BOOLEAN]
  <2>1. end \in ends /\ finalized \in Seq(ends)
    BY <1>3, <1>7
  <2> HIDE DEF ends
  <2>2. Range(Append(finalized, end)) = Range(finalized) \cup {end}
    BY <2>1, RangeOfAppend
  <2>3. Append(finalized, end) \in Seq(ends)
    BY <2>1
  <2> QED BY <1>1, <2>2, <2>3 DEF ends
<1> HIDE DEF end
<1>9. /\ console' \in Screens /\ console'.item = 0 /\ console'.line = <<>>
      /\ console'.streamed = console.streamed
      /\ console'.printed = ~RenderedResponse(console, content)
      /\ console'.whole = (console.whole /\ content = AnswerText)
  <2> DEFINE c == EndLine(console)
  <2>1. /\ c \in Screens /\ c.item = 0 /\ c.line = <<>> /\ c.streamed = console.streamed
        /\ c.whole = console.whole
    <3>1. <<>> \in Seq(1..2) /\ 0 \in Nat
      OBVIOUS
    <3>2. c = [console EXCEPT !.item = 0, !.line = <<>>]
      BY Zenon DEF EndLine
    <3> QED BY <1>3, <3>1, <3>2 DEF Screens
  <2> DEFINE printed == ~RenderedResponse(console, content)
             whole == c.whole /\ content = AnswerText
  <2>2. console' = [c EXCEPT !.printed = printed, !.whole = whole]
    BY <1>1, Zenon
  <2>3. printed \in BOOLEAN /\ whole \in BOOLEAN /\ whole = (console.whole /\ content = AnswerText)
    BY <2>1
  <2>4. console'.printed = printed /\ console'.whole = whole
    <3> HIDE DEF printed, whole, c
    <3> QED BY <2>1, <2>2 DEF Screens
  <2>5. /\ console' \in Screens /\ console'.item = 0 /\ console'.line = <<>>
        /\ console'.streamed = console.streamed
    <3> HIDE DEF printed, whole, c
    <3> QED BY <2>1, <2>2, <2>3 DEF Screens
  <2> QED BY <2>3, <2>4, <2>5, Zenon
<1> HIDE DEF content
<1>10. EventTypeOK'
  BY <1>1, <1>2, <1>4, <1>6, <1>8, <1>9 DEF EventTypeOK, TurnRecords, Screens, None
<1>11. RunsAreKnown' /\ NumbersAreAbove' /\ NumbersAreKept'
  BY <1>1, <1>2, <1>4, <1>6 DEF RunsAreKnown, NumbersAreAbove, NumbersAreKept
<1>12. TurnsAreOrdered' /\ FailureIsKnown'
  <2>1. running.turn \in Nat
    BY <1>5 DEF TurnIds
  <2> QED BY <1>1, <1>2, <1>4, <1>7, <1>8, <2>1 DEF TurnsAreOrdered, FailureIsKnown
<1>13. TrajectoryIsWhole'
  <2>1. ASSUME NEW f \in Range(finalized'), NEW e \in Range(emitted), f.whole, e.turn = f.turn
        PROVE  e \in Range(eventTable)
    <3>1. CASE f = end
      BY <1>1, <1>2, <1>7, <2>1, <3>1 DEF FailureIsKnown, NumbersAreKept
    <3>2. CASE f \in Range(finalized)
      BY <1>2, <2>1, <3>2 DEF TrajectoryIsWhole
    <3> QED BY <1>8, <3>1, <3>2
  <2> QED BY <1>1, <2>1 DEF TrajectoryIsWhole
<1>14. ASSUME NEW q, LiveRun(q)' PROVE LiveRun(q)
  BY <1>1, <1>4, <1>14 DEF LiveRun
<1>15. TracesCount'
  <2>1. \A q \in RunIds : TraceCounts(q, processes, emitted, building[q], LiveRun(q)')
    BY <1>2, <1>14 DEF TracesCount, TraceCounts
  <2> QED BY <1>1, <1>2, <1>4, <1>14, <2>1 DEF TracesCount, Traced
<1>16. StatesAreOfTheirRuns' /\ ScreenIsSound'
  BY <1>1, <1>2, <1>4, <1>9 DEF StatesAreOfTheirRuns, OfItsRun, ScreenIsSound
<1>17. ResponseIsShown'
  <2>1. SUFFICES ASSUME RenderedResponse(console, content) PROVE console'.whole
    BY <1>9 DEF ResponseIsShown, Screens
  <2>2. console.streamed = content /\ content \in {AnswerText, Fallback}
    BY <2>1 DEF RenderedResponse, content
  <2>3. content = AnswerText
    <3>1. Fallback \notin Seq(1..2)
      <4>1. Fallback[1] = 3 /\ Len(Fallback) = 1
        BY DEF Fallback
      <4>2. SUFFICES ASSUME Fallback \in Seq(1..2) PROVE FALSE
        OBVIOUS
      <4>3. Fallback[1] \in 1..2
        BY <4>1, <4>2, ElementOfSeq
      <4> QED BY <4>1, <4>3
    <3> QED BY <1>3, <2>2, <3>1 DEF Screens
  <2>4. running.end = "success"
    <3>1. AnswerText # Fallback
      BY DEF AnswerText, Fallback
    <3> QED BY <2>3, <3>1 DEF content
  <2>5. console.whole
    BY <1>1, <1>2, <2>2, <2>3, <2>4 DEF ScreenIsSound
  <2> QED BY <1>9, <2>3, <2>5
<1> QED BY <1>10, <1>11, <1>12, <1>13, <1>15, <1>16, <1>17 DEF EventInv

\* The other threads, and the process
LEMMA SetStateKeeps ==
  ASSUME EventInv, NEW thread \in {"turn", "expiry"}, SetState(thread)
  PROVE  EventInv'
<1> DEFINE new == projecting[thread].to
           before == projecting[thread].before
<1>1. /\ runState' = Merged(new, before)
      /\ projecting' = [projecting EXCEPT ![thread] = Idle]
      /\ UNCHANGED <<streams, running, runCount, waitsFor, emitted, eventTable, building,
                     recorded, console, finalized, processes, mishaps>>
  BY DEF SetState
<1>2. /\ EventTypeOK /\ RunsAreKnown /\ NumbersAreAbove /\ NumbersAreKept
      /\ TurnsAreOrdered /\ FailureIsKnown /\ TrajectoryIsWhole
      /\ TracesCount /\ StatesAreOfTheirRuns /\ ScreenIsSound /\ ResponseIsShown
  BY DEF EventInv
<1>3. projecting \in [{"turn", "expiry"} -> Projections]
  BY <1>2, EventTypes
<1>4. new \in States /\ before \in States /\ OfItsRun(new) /\ OfItsRun(before)
  BY <1>2, <1>3 DEF Projections, StatesAreOfTheirRuns
<1> HIDE DEF new, before
<1>5. Merged(new, before) \in States /\ OfItsRun(Merged(new, before))
  <2>1. CASE before.run = new.run /\ new.interaction = 0
    <3> DEFINE merged == [new EXCEPT !.interaction = before.interaction]
    <3>1. Merged(new, before) = merged
      BY <2>1 DEF Merged, None
    <3>2. merged \in States /\ merged.run = before.run /\ merged.interaction = before.interaction
      BY <1>4, <2>1 DEF States
    <3> HIDE DEF merged
    <3> QED BY <1>4, <3>1, <3>2 DEF OfItsRun
  <2>2. CASE ~(before.run = new.run /\ new.interaction = 0)
    <3>1. Merged(new, before) = new
      BY <2>2 DEF Merged, None
    <3> QED BY <1>4, <3>1
  <2> QED BY <2>1, <2>2
<1>6. /\ Idle \in Projections /\ OfItsRun(Idle.to) /\ OfItsRun(Idle.before)
  BY EventAssumption DEF NoState, Idle, States, Projections, OfItsRun, None
<1>7. /\ projecting' \in [{"turn", "expiry"} -> Projections]
      /\ \A t \in {"turn", "expiry"} : projecting'[t] \in {projecting[t], Idle}
  BY <1>1, <1>3, <1>6, SMTT(30)
<1>8. EventTypeOK'
  BY <1>1, <1>2, <1>5, <1>7 DEF EventTypeOK, Projections
<1>9. StatesAreOfTheirRuns'
  <2>1. \A t \in {"turn", "expiry"} : OfItsRun(projecting'[t].to) /\ OfItsRun(projecting'[t].before)
    BY <1>2, <1>6, <1>7 DEF StatesAreOfTheirRuns
  <2> QED BY <1>1, <1>5, <2>1 DEF StatesAreOfTheirRuns, OfItsRun
<1>10. RunsAreKnown' /\ NumbersAreAbove' /\ NumbersAreKept'
  BY <1>1, <1>2 DEF RunsAreKnown, NumbersAreAbove, NumbersAreKept
<1>11. TurnsAreOrdered' /\ FailureIsKnown' /\ TrajectoryIsWhole'
  BY <1>1, <1>2 DEF TurnsAreOrdered, FailureIsKnown, TrajectoryIsWhole
<1>12. \A q : LiveRun(q)' <=> LiveRun(q)
  BY <1>1 DEF LiveRun
<1>13. TracesCount'
  <2>1. \A q \in RunIds : TraceCounts(q, processes, emitted, building[q], LiveRun(q)')
    BY <1>2, <1>12 DEF TracesCount, TraceCounts
  <2> QED BY <1>1, <1>2, <1>12, <2>1 DEF TracesCount
<1>14. ScreenIsSound' /\ ResponseIsShown'
  BY <1>1, <1>2 DEF ScreenIsSound, ResponseIsShown
<1> QED BY <1>8, <1>9, <1>10, <1>11, <1>13, <1>14 DEF EventInv

LEMMA ExpiredKeeps == EventInv /\ PublishExpired => EventInv'
<1> SUFFICES ASSUME EventInv, PublishExpired PROVE EventInv'
  OBVIOUS
<1> DEFINE to == [run |-> ExpiryOf(waitsFor), status |-> "expired", interaction |-> waitsFor]
           new == [on |-> TRUE, to |-> to, before |-> runState]
<1>1. /\ waitsFor # 0 /\ waitsFor' = 0
      /\ projecting' = (IF to = NoState THEN projecting
                         ELSE [projecting EXCEPT !["expiry"] = new])
      /\ console' = EndLine(console)
      /\ UNCHANGED <<streams, running, runCount, emitted, eventTable, building, recorded,
                     runState, finalized, processes, mishaps>>
  BY DEF PublishExpired, Project, None
<1>2. /\ EventTypeOK /\ RunsAreKnown /\ NumbersAreAbove /\ NumbersAreKept
      /\ TurnsAreOrdered /\ FailureIsKnown /\ TrajectoryIsWhole
      /\ TracesCount /\ StatesAreOfTheirRuns /\ ScreenIsSound /\ ResponseIsShown
  BY DEF EventInv
<1>3. /\ projecting \in [{"turn", "expiry"} -> Projections] /\ console \in Screens
      /\ waitsFor \in RunIds \cup {0} /\ runCount \in Nat /\ runState \in States
      /\ recorded \in Seq(Recorded)
  BY <1>2, EventTypes, EventAssumption
<1>4. waitsFor \in RunIds /\ waitsFor \in 0..MaxRuns /\ MaxRuns + waitsFor \in 0..2 * MaxRuns
      /\ waitsFor = (MaxRuns + waitsFor) - MaxRuns
  BY <1>1, <1>3, EventAssumption DEF RunIds
<1>5. to \in States /\ OfItsRun(to)
  <2>1. "expired" \in Statuses \cup {"none"}
    BY DEF Statuses
  <2> QED BY <1>4, <2>1 DEF States, OfItsRun, ExpiryOf
<1> HIDE DEF to
<1>6. /\ new \in Projections /\ new.to = to /\ new.before = runState
  BY <1>3, <1>5 DEF Projections
<1> HIDE DEF new
<1>7. /\ projecting' \in [{"turn", "expiry"} -> Projections]
      /\ \A t \in {"turn", "expiry"} : projecting'[t] \in {projecting[t], new}
  BY <1>1, <1>3, <1>6
<1>8. /\ console' \in Screens /\ console'.item = 0 /\ console'.streamed = console.streamed
      /\ console'.whole = console.whole /\ console'.printed = console.printed
  <2>1. <<>> \in Seq(1..2) /\ 0 \in Nat
    OBVIOUS
  <2>2. console' = [console EXCEPT !.item = 0, !.line = <<>>]
    BY <1>1, Zenon DEF EndLine
  <2> QED BY <1>3, <2>1, <2>2 DEF Screens
<1>9. EventTypeOK'
  BY <1>1, <1>2, <1>7, <1>8 DEF EventTypeOK, Projections, Screens, None
<1>10. StatesAreOfTheirRuns'
  <2>1. \A t \in {"turn", "expiry"} : OfItsRun(projecting'[t].to) /\ OfItsRun(projecting'[t].before)
    BY <1>2, <1>5, <1>6, <1>7 DEF StatesAreOfTheirRuns
  <2> QED BY <1>1, <1>2, <2>1 DEF StatesAreOfTheirRuns, OfItsRun
<1>11. RunsAreKnown' /\ NumbersAreAbove' /\ NumbersAreKept'
  <2>1. running.run \in 1..runCount => running.run # 0
    BY <1>3
  <2>2. 0 <= runCount
    BY <1>3
  <2> QED BY <1>1, <1>2, <2>1, <2>2 DEF RunsAreKnown, NumbersAreAbove, NumbersAreKept
<1>12. TurnsAreOrdered' /\ FailureIsKnown' /\ TrajectoryIsWhole'
  BY <1>1, <1>2 DEF TurnsAreOrdered, FailureIsKnown, TrajectoryIsWhole
<1>13. ASSUME NEW q \in RunIds, LiveRun(q)' PROVE LiveRun(q)
  BY <1>1, <1>13 DEF LiveRun, RunIds
<1>14. TracesCount'
  <2>1. \A q \in RunIds : TraceCounts(q, processes, emitted, building[q], LiveRun(q)')
    BY <1>2, <1>13 DEF TracesCount, TraceCounts
  <2>2. \A t \in Range(recorded) : t.run \in RunIds
    BY <1>3, RangeIsOf, ZenonT(40) DEF Recorded
  <2> QED BY <1>1, <1>2, <1>13, <2>1, <2>2 DEF TracesCount
<1>15. ScreenIsSound' /\ ResponseIsShown'
  BY <1>1, <1>2, <1>8 DEF ScreenIsSound, ResponseIsShown
<1> QED BY <1>9, <1>10, <1>11, <1>12, <1>14, <1>15 DEF EventInv

LEMMA CrashKeeps == EventInv /\ EventCrash => EventInv'
<1> SUFFICES ASSUME EventInv, EventCrash PROVE EventInv'
  OBVIOUS
<1>1. /\ mishaps < MaxMishaps /\ mishaps' = mishaps + 1 /\ processes' = processes + 1
      /\ running' = [NotRunning EXCEPT !.turn = running.turn]
      /\ building' = [r \in RunIds |-> NoTrace] /\ runState' = NoState /\ console' = Blank
      /\ projecting' = [t \in {"turn", "expiry"} |-> Idle]
      /\ UNCHANGED <<streams, runCount, waitsFor, emitted, eventTable, recorded, finalized>>
  BY DEF EventCrash
<1>2. /\ EventTypeOK /\ RunsAreKnown /\ NumbersAreAbove /\ NumbersAreKept
      /\ TurnsAreOrdered /\ FailureIsKnown /\ TrajectoryIsWhole
      /\ TracesCount /\ StatesAreOfTheirRuns /\ ScreenIsSound /\ ResponseIsShown
  BY DEF EventInv
<1>3. /\ emitted \in Seq(Events) /\ recorded \in Seq(Recorded) /\ mishaps \in 0..MaxMishaps
      /\ processes \in 0..MaxMishaps
  BY <1>2, EventTypes
<1>4. /\ running' \in TurnRecords /\ running'.at = "none" /\ running'.turn = running.turn
      /\ running'.step = 1 /\ running'.chunk = 0 /\ running'.end = "none"
  BY <1>1, <1>2, NoTurnIs
<1>5. /\ mishaps' \in 0..MaxMishaps /\ processes' \in 0..MaxMishaps /\ processes' <= mishaps'
      /\ processes \in Nat
  BY <1>1, <1>2, <1>3, EventAssumption DEF RunsAreKnown
<1>6. /\ Idle \in Projections /\ OfItsRun(Idle.to) /\ OfItsRun(Idle.before)
      /\ NoState \in States /\ OfItsRun(NoState)
  BY EventAssumption DEF NoState, Idle, States, Projections, OfItsRun, None
<1>7. /\ Blank \in Screens /\ Blank.item = 0 /\ Blank.streamed = <<>> /\ Blank.printed = TRUE
      /\ NoTrace \in TraceRecords /\ NoTrace.open = FALSE
  BY DEF Blank, Screens, NoTrace, TraceRecords
<1>8. EventTypeOK'
  <2>1. /\ building' \in [RunIds -> TraceRecords]
        /\ projecting' \in [{"turn", "expiry"} -> Projections]
    BY <1>1, <1>6, <1>7
  <2> QED BY <1>1, <1>2, <1>4, <1>5, <1>6, <1>7, <2>1
          DEF EventTypeOK, TurnRecords, TraceRecords, Projections, Screens
<1>9. RunsAreKnown' /\ NumbersAreAbove' /\ NumbersAreKept'
  BY <1>1, <1>2, <1>4, <1>5 DEF RunsAreKnown, NumbersAreAbove, NumbersAreKept
<1>10. TurnsAreOrdered' /\ FailureIsKnown' /\ TrajectoryIsWhole'
  BY <1>1, <1>2, <1>4 DEF TurnsAreOrdered, FailureIsKnown, TrajectoryIsWhole
<1>11. TracesCount'
  <2>1. \A e \in Range(emitted) : e.process \in Nat /\ e.process <= processes
    <3>1. Range(emitted) \subseteq Events
      BY <1>3, RangeIsOf
    <3> QED BY <1>2, <3>1, EventAssumption DEF TracesCount, Events
  <2>2. \A t \in Range(recorded) : t.process \in Nat /\ t.process <= processes
    <3>1. Range(recorded) \subseteq Recorded
      BY <1>3, RangeIsOf
    <3> QED BY <1>2, <3>1, EventAssumption DEF TracesCount, Recorded
  <2>3. ASSUME NEW q \in RunIds PROVE ResultsOf(q, processes + 1, emitted) = {}
    <3>1. \A i \in DOMAIN emitted : emitted[i].process <= processes /\ emitted[i].process \in Nat
      BY <2>1 DEF Range
    <3> QED BY <1>5, <3>1 DEF ResultsOf
  <2>4. \A q \in RunIds : TraceCounts(q, processes + 1, emitted, building'[q], LiveRun(q)')
    BY <1>1, <1>7, <2>3 DEF TraceCounts
  <2>5. /\ \A e \in Range(emitted) : e.process <= processes + 1
        /\ \A t \in Range(recorded) : t.process <= processes + 1 /\ t.process # processes + 1
    BY <1>5, <2>1, <2>2
  <2> QED BY <1>1, <1>2, <1>4, <2>4, <2>5 DEF TracesCount, Traced
<1>12. StatesAreOfTheirRuns'
  BY <1>1, <1>6 DEF StatesAreOfTheirRuns, OfItsRun
<1>13. ScreenIsSound' /\ ResponseIsShown'
  BY <1>1, <1>4, <1>7 DEF ScreenIsSound, ResponseIsShown
<1> QED BY <1>8, <1>9, <1>10, <1>11, <1>12, <1>13 DEF EventInv

LEMMA EventInvStays == EventInv /\ [EventNext]_eventVars => EventInv'
<1> SUFFICES ASSUME EventInv, [EventNext]_eventVars PROVE EventInv'
  OBVIOUS
<1>1. CASE UNCHANGED eventVars
  <2>1. \A q : LiveRun(q)' <=> LiveRun(q)
    BY <1>1 DEF LiveRun, eventVars
  <2>2. EventTypeOK'
    BY <1>1 DEF EventInv, EventTypeOK, eventVars
  <2>3. RunsAreKnown' /\ NumbersAreAbove' /\ NumbersAreKept'
    BY <1>1 DEF EventInv, RunsAreKnown, NumbersAreAbove, NumbersAreKept, eventVars
  <2>4. TurnsAreOrdered' /\ FailureIsKnown' /\ TrajectoryIsWhole'
    BY <1>1 DEF EventInv, TurnsAreOrdered, FailureIsKnown, TrajectoryIsWhole, eventVars
  <2>5. TracesCount'
    BY <1>1, <2>1 DEF EventInv, TracesCount, TraceCounts, eventVars
  <2>6. StatesAreOfTheirRuns' /\ ScreenIsSound' /\ ResponseIsShown'
    BY <1>1 DEF EventInv, StatesAreOfTheirRuns, OfItsRun, ScreenIsSound, ResponseIsShown,
               eventVars
  <2> QED BY <2>2, <2>3, <2>4, <2>5, <2>6 DEF EventInv
<1>2. CASE EventNext
  BY <1>2, RunBeginsKeeps, RunResumesKeeps, StartedKeeps, ResumedKeeps, TextDeltaKeeps,
     ModelKeeps, ToolResultKeeps, LeaveLoopKeeps, AnnounceKeeps, CompletedKeeps, FinalizeKeeps,
     OutputKeeps, ExpiredKeeps, CrashKeeps, SetStateKeeps
     DEF EventNext
<1> QED BY <1>1, <1>2

\* The event store, the traces, the state of the session and the screen tell what a
\* turn has published: publish_event() and its subscribers, with a store that fails,
\* output that comes late, requests that expire and processes that end.
THEOREM EventsTellTheTruth == EventSpec => []EventsAreFaithful
<1>1. EventInv => EventsAreFaithful
  <2>1. EventInv => TracesAreWhole
    BY Zenon DEF EventInv, TracesCount, TracesAreWhole, ResultsOf
  <2>2. EventInv => StatesAreTheirOwn
    BY Zenon DEF EventInv, StatesAreOfTheirRuns, OfItsRun, StatesAreTheirOwn
  <2> QED BY <2>1, <2>2, Zenon DEF EventInv, EventsAreFaithful
<1> QED BY EventInvHolds, EventInvStays, <1>1, PTL DEF EventSpec

-----------------------------------------------------------------------------
(* Replay (OfflineReplay) *)

Values == Answers \cup Ends \cup {"done"}
RecordedEvents == [name : {"response", "summary", "failed", "result", "completed"}, step : Nat,
             value : Values]
Said == Values \cup Shown
RecordedTurns == [step : Nat, followUps : Nat, end : Ends \cup {"none"}, said : Said]
Replays == [step : Nat, index : Nat, consumed : SUBSET Nat, diverges : BOOLEAN,
            end : Ends \cup {"none", "refused"}, said : Said]

\* What a plan takes out of the events
StepsOf(past) == Named({"response", "failed"}, past)
EndsOf(past) == Named({"completed"}, past)
RecordedResultsOf(past) == {past[k].step : k \in {n \in DOMAIN past : past[n].name = "result"}}

\* The first n steps are all calls of tools, and these have their results.
ToolsUpTo(steps, results, n) ==
  /\ Len(steps) = n /\ results = 1..n
  /\ \A k \in 1..n : steps[k].step = k /\ steps[k].value = "tools"
EndingOf(said) ==
  IF said = "waits" THEN "awaiting_input" ELSE IF said = "error" THEN "failed" ELSE "success"
\* The model and its tools made the turn r what it was, and the steps tell it.
ByModel(r) == r.followUps = 0 /\ r.said \notin {"limit", "cancelled"}
ToldBySteps(steps, results, r) ==
  /\ r.step \in Nat \ {0} /\ Len(steps) = r.step
  /\ steps[r.step].step = r.step /\ steps[r.step].value = r.said
  /\ \A k \in 1..(r.step - 1) : steps[k].step = k /\ steps[k].value = "tools"
  /\ r.said \in {"waits", "error", "text", "empty"} /\ r.end = EndingOf(r.said)
  /\ results = IF r.said = "waits" THEN 1..r.step ELSE 1..(r.step - 1)

TurnFits(r, past, gone) ==
  /\ r \in RecordedTurns /\ r.step # 0 /\ past \in Seq(RecordedEvents) /\ gone \in BOOLEAN
  /\ r.end = "none" => EndsOf(past) = <<>>
  /\ r.end = "none" /\ ~gone /\ r.followUps = 0 =>
       ToolsUpTo(StepsOf(past), RecordedResultsOf(past), r.step - 1)
  /\ r.end # "none" /\ ~gone => Len(EndsOf(past)) = 1 /\ EndsOf(past)[1].value = r.end
  /\ r.end # "none" /\ gone =>
       EndsOf(past) = <<>> \/ (Len(EndsOf(past)) = 1 /\ EndsOf(past)[1].value = "done")
  /\ r.end # "none" /\ ~gone /\ ByModel(r) => ToldBySteps(StepsOf(past), RecordedResultsOf(past), r)
ReplayFits(r, gone, p) ==
  /\ p \in Replays /\ (r.end = "none" => p = NotReplayed)
  /\ p.step # 0 => ~gone
  /\ p.end \notin {"none", "refused"} => p.step # 0
  /\ p.end = "refused" => gone
  /\ ByModel(r) /\ p.step # 0 => ~p.diverges
  /\ ByModel(r) /\ p.step # 0 /\ p.end = "none" =>
       p.index = p.step - 1 /\ p.consumed = 1..(p.step - 1) /\ p.step <= r.step
ReplayInv == TurnFits(recording, events, lost) /\ ReplayFits(recording, lost, replayed)

-----------------------------------------------------------------------------
(* The plan, as the events grow *)

FoundIn(names, past) ==
  CHOOSE g : g = [n \in 0..Len(past) |->
                    IF n = 0 THEN <<>>
                    ELSE IF past[n].name \in names THEN Append(g[n - 1], past[n]) ELSE g[n - 1]]

LEMMA FoundIs ==
  ASSUME NEW names, NEW past \in Seq(RecordedEvents)
  PROVE  /\ Named(names, past) = FoundIn(names, past)[Len(past)]
         /\ FoundIn(names, past) \in [0..Len(past) -> Seq(RecordedEvents)]
         /\ FoundIn(names, past)[0] = <<>>
         /\ \A i \in 1..Len(past) :
              FoundIn(names, past)[i] =
                IF past[i].name \in names THEN Append(FoundIn(names, past)[i - 1], past[i])
                ELSE FoundIn(names, past)[i - 1]
<1> DEFINE More(s, e) == IF e.name \in names THEN Append(s, e) ELSE s
           step == [s \in Seq(RecordedEvents) |-> [e \in RecordedEvents |-> More(s, e)]]
           Found(f) == [n \in 0..Len(past) |-> IF n = 0 THEN <<>> ELSE More(f[n - 1], past[n])]
<1>1. Len(past) \in Nat /\ \A i \in 1..Len(past) : past[i] \in RecordedEvents
  BY LenProperties, ElementOfSeq
<1>2. step \in [Seq(RecordedEvents) -> [RecordedEvents -> Seq(RecordedEvents)]]
  <2>1. \A s \in Seq(RecordedEvents), e \in RecordedEvents : More(s, e) \in Seq(RecordedEvents)
    OBVIOUS
  <2> HIDE DEF More
  <2> QED BY <2>1
<1>3. \E f \in [0..Len(past) -> Seq(RecordedEvents)] : IsFold(f, <<>>, step, past)
  <2> HIDE DEF step
  <2>1. <<>> \in Seq(RecordedEvents)
    OBVIOUS
  <2>2. past \in Seq(RecordedEvents)
    OBVIOUS
  <2> QED BY <1>2, <2>1, <2>2, FoldExists
<1>4. PICK f \in [0..Len(past) -> Seq(RecordedEvents)] :
        f[0] = <<>> /\ \A i \in 1..Len(past) : f[i] = step[f[i - 1]][past[i]]
  BY <1>3 DEF IsFold
<1>5. \A i \in 1..Len(past) : i - 1 \in 0..Len(past) /\ f[i - 1] \in Seq(RecordedEvents)
  BY <1>1, SMTT(30)
<1> HIDE DEF More
<1>6. \A i \in 1..Len(past) : f[i] = More(f[i - 1], past[i])
  BY <1>1, <1>4, <1>5
<1> HIDE DEF step
<1>7. f = Found(f)
  <2>1. \A n \in 0..Len(past) : f[n] = IF n = 0 THEN <<>> ELSE More(f[n - 1], past[n])
    BY <1>1, <1>4, <1>6
  <2> QED BY <2>1
<1>8. /\ FoundIn(names, past) = CHOOSE g : g = Found(g)
      /\ Named(names, past) = (CHOOSE g : g = Found(g))[Len(past)]
  BY DEF FoundIn, Named, More
<1>9. FoundIn(names, past) = Found(FoundIn(names, past))
  <2> HIDE DEF Found
  <2> QED BY <1>7, <1>8
<1> DEFINE h == FoundIn(names, past)
<1>10. Named(names, past) = h[Len(past)]
  <2> HIDE DEF Found
  <2> QED BY <1>8
<1> HIDE DEF h
<1>11. h = Found(h)
  BY <1>9 DEF h
<1>12. h[0] = <<>> /\ \A i \in 1..Len(past) : h[i] = More(h[i - 1], past[i])
  <2>1. 0 \in 0..Len(past) /\ \A i \in 1..Len(past) : i \in 0..Len(past) /\ i # 0
    BY <1>1
  <2>2. \A n \in 0..Len(past) : Found(h)[n] = IF n = 0 THEN <<>> ELSE More(h[n - 1], past[n])
    OBVIOUS
  <2> HIDE DEF Found
  <2> QED BY <1>11, <2>1, <2>2
<1>13. \A i \in 0..Len(past) : h[i] = f[i]
  <2>1. GoOnAlike(h, f, Len(past))
    BY <1>4, <1>6, <1>12 DEF GoOnAlike
  <2>2. Len(past) \in Nat
    BY <1>1
  <2> QED BY <2>1, <2>2, FoldIsOne, Zenon
<1>14. h \in [0..Len(past) -> Seq(RecordedEvents)]
  <2>1. \A i \in 0..Len(past) : h[i] \in Seq(RecordedEvents)
    BY <1>13
  <2>2. DOMAIN h = 0..Len(past) /\ h = [n \in DOMAIN h |-> h[n]]
    BY <1>11
  <2> QED BY <2>1, <2>2
<1> QED BY <1>10, <1>12, <1>14 DEF h, More

LEMMA NamedIs ==
  ASSUME NEW names, NEW past \in Seq(RecordedEvents)
  PROVE  /\ Named(names, past) \in Seq(RecordedEvents)
         /\ \A e \in RecordedEvents :
              Named(names, Append(past, e)) =
                IF e.name \in names THEN Append(Named(names, past), e) ELSE Named(names, past)
<1>1. Len(past) \in Nat /\ Len(past) \in 0..Len(past)
  BY LenProperties
<1>2. Named(names, past) \in Seq(RecordedEvents)
  BY <1>1, FoundIs
<1>3. ASSUME NEW e \in RecordedEvents
      PROVE  Named(names, Append(past, e)) =
               IF e.name \in names THEN Append(Named(names, past), e) ELSE Named(names, past)
  <2> DEFINE more == Append(past, e)
             g == FoundIn(names, past)
             h == FoundIn(names, more)
  <2>1. /\ more \in Seq(RecordedEvents) /\ Len(more) = Len(past) + 1 /\ more[Len(past) + 1] = e
        /\ \A i \in 1..Len(past) : more[i] = past[i]
    BY <1>1
  <2> HIDE DEF more
  <2>2. /\ g[0] = <<>> /\ Named(names, past) = g[Len(past)]
        /\ \A i \in 1..Len(past) :
             g[i] = IF past[i].name \in names THEN Append(g[i - 1], past[i]) ELSE g[i - 1]
    BY FoundIs
  <2>3. /\ h[0] = <<>> /\ Named(names, more) = h[Len(more)]
        /\ \A i \in 1..Len(more) :
             h[i] = IF more[i].name \in names THEN Append(h[i - 1], more[i]) ELSE h[i - 1]
    BY <2>1, FoundIs
  <2> HIDE DEF g, h
  <2>4. \A i \in 1..Len(past) : h[i - 1] = g[i - 1] => h[i] = g[i]
    <3>1. \A i \in 1..Len(past) : i \in 1..Len(more)
      BY <1>1, <2>1
    <3> QED BY <2>1, <2>2, <2>3, <3>1
  <2>5. \A i \in 0..Len(past) : h[i] = g[i]
    <3>1. GoOnAlike(h, g, Len(past))
      BY <2>2, <2>3, <2>4 DEF GoOnAlike
    <3>2. Len(past) \in Nat
      BY <1>1
    <3> QED BY <3>1, <3>2, FoldIsOne, Zenon
  <2>6. h[Len(past)] = g[Len(past)]
    BY <1>1, <2>5
  <2>7. Len(past) + 1 \in 1..Len(more) /\ (Len(past) + 1) - 1 = Len(past)
    BY <1>1, <2>1
  <2>8. h[Len(more)] = IF e.name \in names THEN Append(h[Len(past)], e) ELSE h[Len(past)]
    BY <2>1, <2>3, <2>7
  <2>9. Named(names, more) =
          IF e.name \in names THEN Append(Named(names, past), e) ELSE Named(names, past)
    BY <2>2, <2>3, <2>6, <2>8, Zenon
  <2> QED BY <2>9 DEF more
<1> QED BY <1>2, <1>3

LEMMA NothingIsNamed ==
  ASSUME NEW names
  PROVE  Named(names, <<>>) = <<>>
<1>0. <<>> \in Seq(RecordedEvents)
  OBVIOUS
<1> SUFFICES ASSUME NEW past \in Seq(RecordedEvents), past = <<>>
             PROVE  Named(names, past) = <<>>
  BY <1>0, Zenon
<1>1. Len(past) = 0
  OBVIOUS
<1>2. /\ Named(names, past) = FoundIn(names, past)[Len(past)]
      /\ FoundIn(names, past)[0] = <<>>
  BY FoundIs, Zenon
<1> QED BY <1>1, <1>2

LEMMA ResultsAre ==
  ASSUME NEW past \in Seq(RecordedEvents), NEW e \in RecordedEvents
  PROVE  RecordedResultsOf(Append(past, e)) =
           RecordedResultsOf(past) \cup (IF e.name = "result" THEN {e.step} ELSE {})
<1> DEFINE more == Append(past, e)
           n == Len(past) + 1
<1>1. /\ DOMAIN past = 1..Len(past) /\ Len(past) \in Nat
      /\ DOMAIN more = 1..n /\ more[n] = e
      /\ \A i \in 1..Len(past) : more[i] = past[i]
  BY LenProperties
<1>2. \A k : k \in DOMAIN more <=> k \in DOMAIN past \/ k = n
  BY <1>1
<1> HIDE DEF more
<1>3. \A k \in DOMAIN past : more[k] = past[k]
  BY <1>1
<1>4. more[n] = e /\ n \in DOMAIN more
  BY <1>1, <1>2
<1> HIDE DEF n
<1>5. \A x : x \in RecordedResultsOf(more)
               <=> x \in RecordedResultsOf(past) \cup (IF e.name = "result" THEN {e.step} ELSE {})
  <2>1. \A x : x \in RecordedResultsOf(more) <=> \E k \in DOMAIN more : more[k].name = "result" /\ x = more[k].step
    BY DEF RecordedResultsOf
  <2>2. \A x : x \in RecordedResultsOf(past) <=> \E k \in DOMAIN past : past[k].name = "result" /\ x = past[k].step
    BY DEF RecordedResultsOf
  <2> QED BY <1>2, <1>3, <1>4, <2>1, <2>2
<1>6. RecordedResultsOf(more) = RecordedResultsOf(past) \cup (IF e.name = "result" THEN {e.step} ELSE {})
  BY <1>5, Zenon
<1> QED BY <1>6 DEF more

\* What an event adds to a plan
LEMMA EventAdds ==
  ASSUME NEW past \in Seq(RecordedEvents), NEW e \in RecordedEvents
  PROVE  /\ Append(past, e) \in Seq(RecordedEvents)
         /\ StepsOf(past) \in Seq(RecordedEvents) /\ EndsOf(past) \in Seq(RecordedEvents)
         /\ e.name \in {"response", "failed"} =>
              /\ StepsOf(Append(past, e)) = Append(StepsOf(past), e)
              /\ EndsOf(Append(past, e)) = EndsOf(past)
              /\ RecordedResultsOf(Append(past, e)) = RecordedResultsOf(past)
         /\ e.name = "summary" =>
              /\ StepsOf(Append(past, e)) = StepsOf(past)
              /\ EndsOf(Append(past, e)) = EndsOf(past)
              /\ RecordedResultsOf(Append(past, e)) = RecordedResultsOf(past)
         /\ e.name = "result" =>
              /\ StepsOf(Append(past, e)) = StepsOf(past)
              /\ EndsOf(Append(past, e)) = EndsOf(past)
              /\ RecordedResultsOf(Append(past, e)) = RecordedResultsOf(past) \cup {e.step}
         /\ e.name = "completed" =>
              /\ StepsOf(Append(past, e)) = StepsOf(past)
              /\ EndsOf(Append(past, e)) = Append(EndsOf(past), e)
              /\ RecordedResultsOf(Append(past, e)) = RecordedResultsOf(past)
<1>1. Append(past, e) \in Seq(RecordedEvents)
  OBVIOUS
<1>2. StepsOf(past) \in Seq(RecordedEvents) /\ EndsOf(past) \in Seq(RecordedEvents)
  BY NamedIs DEF StepsOf, EndsOf
<1>3. /\ StepsOf(Append(past, e)) =
           IF e.name \in {"response", "failed"} THEN Append(StepsOf(past), e) ELSE StepsOf(past)
      /\ EndsOf(Append(past, e)) =
           IF e.name \in {"completed"} THEN Append(EndsOf(past), e) ELSE EndsOf(past)
  BY NamedIs, Zenon DEF StepsOf, EndsOf
<1>4. RecordedResultsOf(Append(past, e)) =
        RecordedResultsOf(past) \cup (IF e.name = "result" THEN {e.step} ELSE {})
  BY ResultsAre
<1> DEFINE s1 == StepsOf(Append(past, e))
           s2 == EndsOf(Append(past, e))
           s3 == RecordedResultsOf(Append(past, e))
           t1 == StepsOf(past)
           t2 == EndsOf(past)
           t3 == RecordedResultsOf(past)
           u1 == Append(StepsOf(past), e)
           u2 == Append(EndsOf(past), e)
<1>5. /\ s1 = IF e.name \in {"response", "failed"} THEN u1 ELSE t1
      /\ s2 = IF e.name \in {"completed"} THEN u2 ELSE t2
      /\ s3 = t3 \cup (IF e.name = "result" THEN {e.step} ELSE {})
  BY <1>3, <1>4
<1> HIDE DEF s1, s2, s3, t1, t2, t3, u1, u2
<1>6. /\ e.name \in {"response", "failed"} => s1 = u1 /\ s2 = t2 /\ s3 = t3
      /\ e.name = "summary" => s1 = t1 /\ s2 = t2 /\ s3 = t3
      /\ e.name = "result" => s1 = t1 /\ s2 = t2 /\ s3 = t3 \cup {e.step}
      /\ e.name = "completed" => s1 = t1 /\ s2 = u2 /\ s3 = t3
  BY <1>5
<1> QED BY <1>1, <1>2, <1>6 DEF s1, s2, s3, t1, t2, t3, u1, u2

\* The events of a step: none, one or two, and none that says that the turn is over
OpenEvents == {e \in RecordedEvents : e.name # "completed"}
Few(new) == \/ new = <<>>
            \/ \E a \in OpenEvents : new = <<a>>
            \/ \E a, b \in OpenEvents : new = <<a, b>>

LEMMA FewAdd ==
  ASSUME NEW past \in Seq(RecordedEvents), NEW a \in RecordedEvents, NEW b \in RecordedEvents
  PROVE  past \o <<>> = past /\ past \o <<a>> = Append(past, a)
         /\ past \o <<a, b>> = Append(Append(past, a), b)
<1>1. past \o <<>> = past
  OBVIOUS
<1>2. past \o <<a>> = Append(past, a)
  OBVIOUS
<1>3. past \o <<a, b>> = Append(Append(past, a), b)
  OBVIOUS
<1> QED BY <1>1, <1>2, <1>3

LEMMA FewKeepEnds ==
  ASSUME NEW past \in Seq(RecordedEvents), NEW new, Few(new)
  PROVE  past \o new \in Seq(RecordedEvents) /\ EndsOf(past \o new) = EndsOf(past)
<1>1. CASE new = <<>>
  BY <1>1
<1>2. ASSUME NEW a \in OpenEvents, new = <<a>>
      PROVE  past \o new \in Seq(RecordedEvents) /\ EndsOf(past \o new) = EndsOf(past)
  <2>1. a \in RecordedEvents /\ a.name \in {"response", "failed", "summary", "result"}
    BY DEF OpenEvents, RecordedEvents
  <2>2. past \o new = Append(past, a)
    BY <1>2, <2>1, FewAdd, Zenon
  <2>3. Append(past, a) \in Seq(RecordedEvents) /\ EndsOf(Append(past, a)) = EndsOf(past)
    BY <2>1, EventAdds
  <2> QED BY <2>2, <2>3, Zenon
<1>3. ASSUME NEW a \in OpenEvents, NEW b \in OpenEvents, new = <<a, b>>
      PROVE  past \o new \in Seq(RecordedEvents) /\ EndsOf(past \o new) = EndsOf(past)
  <2>1. /\ a \in RecordedEvents /\ a.name \in {"response", "failed", "summary", "result"}
        /\ b \in RecordedEvents /\ b.name \in {"response", "failed", "summary", "result"}
    BY DEF OpenEvents, RecordedEvents
  <2>2. past \o new = Append(Append(past, a), b)
    BY <1>3, <2>1, FewAdd, Zenon
  <2>3. Append(past, a) \in Seq(RecordedEvents) /\ EndsOf(Append(past, a)) = EndsOf(past)
    BY <2>1, EventAdds
  <2> DEFINE more == Append(past, a)
  <2> HIDE DEF more
  <2>4. more \in Seq(RecordedEvents) /\ EndsOf(more) = EndsOf(past)
    BY <2>3 DEF more
  <2>5. Append(more, b) \in Seq(RecordedEvents) /\ EndsOf(Append(more, b)) = EndsOf(more)
    BY <2>1, <2>4, EventAdds
  <2> QED BY <2>2, <2>4, <2>5, Zenon DEF more
<1> QED BY <1>1, <1>2, <1>3 DEF Few

LEMMA OneElement ==
  ASSUME NEW s, NEW k \in Nat
  PROVE  SubSeq(s, k, k) = <<s[k]>>
<1> DEFINE t == SubSeq(s, k, k)
<1>1. t \in Seq({s[k]}) /\ Len(t) = 1 /\ t[1] = s[k]
  <2>1. \A i \in k..k : s[i] \in {s[k]}
    OBVIOUS
  <2>2. k - k + 1 = 1 /\ 1 \in 1..(k - k + 1) /\ k + 1 - 1 = k
    OBVIOUS
  <2> QED BY <2>1, <2>2, SubSeqProperties
<1> HIDE DEF t
<1>2. t = <<s[k]>>
  BY <1>1
<1> QED BY <1>2 DEF t

LEMMA FewerAreFew ==
  ASSUME NEW new, Few(new), NEW k \in DOMAIN new
  PROVE  Few(RemoveAt(new, k))
<1>1. CASE new = <<>>
  BY <1>1
<1>2. ASSUME NEW a \in OpenEvents, new = <<a>> PROVE Few(RemoveAt(new, k))
  <2>1. k = 1
    BY <1>2
  <2>2. RemoveAt(new, k) = <<>>
    BY <1>2, <2>1 DEF RemoveAt
  <2> QED BY <2>2 DEF Few
<1>3. ASSUME NEW a \in OpenEvents, NEW b \in OpenEvents, new = <<a, b>>
      PROVE  Few(RemoveAt(new, k))
  <2>1. CASE k = 1
    <3>1. SubSeq(<<a, b>>, 1, 0) = <<>> /\ SubSeq(<<a, b>>, 2, 2) = <<b>> /\ <<>> \o <<b>> = <<b>>
      <4>1. SubSeq(<<a, b>>, 1, 0) = <<>>
        OBVIOUS
      <4>2. SubSeq(<<a, b>>, 2, 2) = <<b>>
        <5>1. <<a, b>>[2] = b
          OBVIOUS
        <5>2. SubSeq(<<a, b>>, 2, 2) = <<<<a, b>>[2]>>
          BY OneElement
        <5> QED BY <5>1, <5>2, Zenon
      <4>3. <<>> \o <<b>> = <<b>>
        OBVIOUS
      <4> QED BY <4>1, <4>2, <4>3
    <3>2. RemoveAt(new, k) = SubSeq(<<a, b>>, 1, 0) \o SubSeq(<<a, b>>, 2, 2)
      <4>1. 1 - 1 = 0 /\ 1 + 1 = 2 /\ Len(<<a, b>>) = 2
        OBVIOUS
      <4> QED BY <1>3, <2>1, <4>1, Zenon DEF RemoveAt
    <3>3. RemoveAt(new, k) = <<b>>
      BY <3>1, <3>2, Zenon
    <3> QED BY <3>3, Zenon DEF Few
  <2>2. CASE k = 2
    <3>1. SubSeq(<<a, b>>, 1, 1) = <<a>> /\ SubSeq(<<a, b>>, 3, 2) = <<>> /\ <<a>> \o <<>> = <<a>>
      <4>1. SubSeq(<<a, b>>, 1, 1) = <<a>>
        <5>1. <<a, b>>[1] = a
          OBVIOUS
        <5>2. SubSeq(<<a, b>>, 1, 1) = <<<<a, b>>[1]>>
          BY OneElement
        <5> QED BY <5>1, <5>2, Zenon
      <4>2. SubSeq(<<a, b>>, 3, 2) = <<>>
        OBVIOUS
      <4>3. <<a>> \o <<>> = <<a>>
        OBVIOUS
      <4> QED BY <4>1, <4>2, <4>3
    <3>2. RemoveAt(new, k) = SubSeq(<<a, b>>, 1, 1) \o SubSeq(<<a, b>>, 3, 2)
      <4>1. 2 - 1 = 1 /\ 2 + 1 = 3 /\ Len(<<a, b>>) = 2
        OBVIOUS
      <4> QED BY <1>3, <2>2, <4>1, Zenon DEF RemoveAt
    <3>3. RemoveAt(new, k) = <<a>>
      BY <3>1, <3>2, Zenon
    <3> QED BY <3>3, Zenon DEF Few
  <2>3. k = 1 \/ k = 2
    BY <1>3
  <2> QED BY <2>1, <2>2, <2>3
<1> QED BY <1>1, <1>2, <1>3 DEF Few

-----------------------------------------------------------------------------
(* The recorded turn *)

LEMMA ReplayInvHolds == ReplayInit => ReplayInv
<1> SUFFICES ASSUME ReplayInit PROVE ReplayInv
  OBVIOUS
<1>1. recording = Running /\ events = <<>> /\ lost = FALSE /\ replayed = NotReplayed
  BY DEF ReplayInit
<1>2. Running \in RecordedTurns /\ Running.step = 1 /\ Running.end = "none"
  BY DEF Running, RecordedTurns, Said, Values, Shown, Answers
<1>3. StepsOf(<<>>) = <<>> /\ EndsOf(<<>>) = <<>> /\ RecordedResultsOf(<<>>) = {}
  BY NothingIsNamed DEF StepsOf, EndsOf, RecordedResultsOf
<1>4. ToolsUpTo(<<>>, {}, 0)
  BY DEF ToolsUpTo
<1>5. TurnFits(Running, <<>>, FALSE)
  <2>1. Running.step - 1 = 0 /\ <<>> \in Seq(RecordedEvents) /\ Running.step # 0 /\ FALSE \in BOOLEAN
    BY <1>2
  <2>2. ToolsUpTo(StepsOf(<<>>), RecordedResultsOf(<<>>), Running.step - 1)
    BY <1>3, <1>4, <2>1, Zenon
  <2> QED BY <1>2, <1>3, <2>1, <2>2, Zenon DEF TurnFits
<1>6. NotReplayed \in Replays /\ NotReplayed.step = 0 /\ NotReplayed.end = "none"
  BY DEF NotReplayed, Replays, Said, Values, Shown, Answers
<1>7. ReplayFits(Running, FALSE, NotReplayed)
  BY <1>6 DEF ReplayFits
<1> QED BY <1>1, <1>5, <1>7, Zenon DEF ReplayInv

LEMMA RecordingMoves ==
  ASSUME ReplayInv, recording.end = "none", TurnFits(recording, events, lost)', replayed' = replayed
  PROVE  ReplayInv'
<1>1. replayed = NotReplayed
  BY DEF ReplayInv, ReplayFits
<1>2. NotReplayed \in Replays /\ NotReplayed.step = 0 /\ NotReplayed.end = "none"
  BY DEF NotReplayed, Replays, Said, Values, Shown, Answers
<1>3. \A r, gone : ReplayFits(r, gone, NotReplayed)
  BY <1>2 DEF ReplayFits
<1> QED BY <1>1, <1>3, Zenon DEF ReplayInv

\* The turn under way
LEMMA TurnIs ==
  ASSUME ReplayInv, recording.end = "none"
  PROVE  /\ recording \in RecordedTurns /\ recording.step \in Nat \ {0}
         /\ recording.followUps \in Nat
         /\ events \in Seq(RecordedEvents) /\ lost \in BOOLEAN /\ EndsOf(events) = <<>>
         /\ ~lost /\ recording.followUps = 0 =>
              ToolsUpTo(StepsOf(events), RecordedResultsOf(events), recording.step - 1)
<1>1. TurnFits(recording, events, lost)
  BY DEF ReplayInv
<1>2. recording \in RecordedTurns /\ events \in Seq(RecordedEvents) /\ lost \in BOOLEAN
  BY <1>1 DEF TurnFits
<1>3. recording.step \in Nat \ {0} /\ recording.followUps \in Nat
  BY <1>1, <1>2 DEF TurnFits, RecordedTurns
<1>4. EndsOf(events) = <<>>
  BY <1>1, Zenon DEF TurnFits
<1>5. ~lost /\ recording.followUps = 0 =>
        ToolsUpTo(StepsOf(events), RecordedResultsOf(events), recording.step - 1)
  BY <1>1, Zenon DEF TurnFits
<1> QED BY <1>2, <1>3, <1>4, <1>5

\* The events of a step that does not end the turn
LEMMA RecordIs ==
  ASSUME ReplayInv, recording.end = "none", NEW new, Few(new), Record(new)
  PROVE  /\ events' \in Seq(RecordedEvents) /\ EndsOf(events') = <<>> /\ lost' \in BOOLEAN
         /\ ~lost' => ~lost /\ events' = events \o new
<1>1. events \in Seq(RecordedEvents) /\ EndsOf(events) = <<>> /\ lost \in BOOLEAN
  BY TurnIs
<1>2. CASE events' = events \o new /\ UNCHANGED lost
  <2>1. events \o new \in Seq(RecordedEvents) /\ EndsOf(events \o new) = EndsOf(events)
    BY <1>1, FewKeepEnds
  <2> QED BY <1>1, <1>2, <2>1, Zenon
<1>3. CASE /\ ~lost /\ lost' = TRUE
           /\ \E k \in DOMAIN new : events' = events \o RemoveAt(new, k)
  <2>1. PICK k \in DOMAIN new : events' = events \o RemoveAt(new, k)
    BY <1>3, Zenon
  <2>2. Few(RemoveAt(new, k))
    BY FewerAreFew
  <2> DEFINE fewer == RemoveAt(new, k)
  <2> HIDE DEF fewer
  <2>3. Few(fewer) /\ events' = events \o fewer
    BY <2>1, <2>2 DEF fewer
  <2>4. events \o fewer \in Seq(RecordedEvents) /\ EndsOf(events \o fewer) = EndsOf(events)
    BY <1>1, <2>3, FewKeepEnds
  <2> QED BY <1>1, <1>3, <2>3, <2>4, Zenon
<1> QED BY <1>2, <1>3, Zenon DEF Record

\* The events of a step that ends it
LEMMA CloseTurnIs ==
  ASSUME ReplayInv, recording.end = "none", NEW new, Few(new), NEW end \in Ends, NEW said,
         CloseTurn(new, end, said)
  PROVE  /\ recording' = [recording EXCEPT !.end = end, !.said = said]
         /\ events' \in Seq(RecordedEvents) /\ lost' \in BOOLEAN
         /\ ~lost' => /\ ~lost /\ Len(EndsOf(events')) = 1 /\ EndsOf(events')[1].value = end
                      /\ StepsOf(events') = StepsOf(events \o new)
                      /\ RecordedResultsOf(events') = RecordedResultsOf(events \o new)
         /\ lost' => \/ EndsOf(events') = <<>>
                     \/ Len(EndsOf(events')) = 1 /\ EndsOf(events')[1].value = "done"
<1>1. /\ events \in Seq(RecordedEvents) /\ EndsOf(events) = <<>> /\ lost \in BOOLEAN
      /\ recording.step \in Nat
  BY TurnIs
<1>2. /\ recording' = [recording EXCEPT !.end = end, !.said = said]
      /\ \/ events' = events \o new \o <<Completed(~lost, end)>> /\ UNCHANGED lost
         \/ /\ ~lost /\ lost' = TRUE
            /\ \/ \E k \in DOMAIN new :
                    events' = events \o RemoveAt(new, k) \o <<Completed(FALSE, end)>>
               \/ events' = events \o new
  BY Zenon DEF CloseTurn
<1> DEFINE value(whole) == IF whole THEN end ELSE "done"
<1>3. \A whole \in BOOLEAN : /\ Completed(whole, end) \in RecordedEvents
                             /\ Completed(whole, end).name = "completed"
                             /\ Completed(whole, end).value = value(whole)
  BY <1>1 DEF Completed, Event, RecordedEvents, Values
<1>4. ASSUME NEW few, Few(few), NEW whole \in BOOLEAN
      PROVE  /\ events \o few \o <<Completed(whole, end)>> \in Seq(RecordedEvents)
             /\ Len(EndsOf(events \o few \o <<Completed(whole, end)>>)) = 1
             /\ EndsOf(events \o few \o <<Completed(whole, end)>>)[1].value = value(whole)
             /\ StepsOf(events \o few \o <<Completed(whole, end)>>) = StepsOf(events \o few)
             /\ RecordedResultsOf(events \o few \o <<Completed(whole, end)>>) = RecordedResultsOf(events \o few)
  <2> DEFINE past == events \o few
             e == Completed(whole, end)
  <2>1. past \in Seq(RecordedEvents) /\ EndsOf(past) = <<>>
    BY <1>1, <1>4, FewKeepEnds
  <2>2. e \in RecordedEvents /\ e.name = "completed" /\ e.value = value(whole)
    BY <1>3
  <2> HIDE DEF past, e, value
  <2>3. past \o <<e>> = Append(past, e)
    BY <2>1, <2>2, FewAdd
  <2>4. /\ Append(past, e) \in Seq(RecordedEvents) /\ EndsOf(Append(past, e)) = Append(EndsOf(past), e)
        /\ StepsOf(Append(past, e)) = StepsOf(past) /\ RecordedResultsOf(Append(past, e)) = RecordedResultsOf(past)
    BY <2>1, <2>2, EventAdds
  <2>5. Append(<<>>, e) = <<e>> /\ Len(<<e>>) = 1 /\ <<e>>[1] = e
    OBVIOUS
  <2>6. EndsOf(past \o <<e>>) = <<e>>
    BY <2>1, <2>3, <2>4, <2>5, Zenon
  <2>7. /\ past \o <<e>> \in Seq(RecordedEvents)
        /\ Len(EndsOf(past \o <<e>>)) = 1 /\ EndsOf(past \o <<e>>)[1].value = value(whole)
        /\ StepsOf(past \o <<e>>) = StepsOf(past) /\ RecordedResultsOf(past \o <<e>>) = RecordedResultsOf(past)
    BY <2>2, <2>3, <2>4, <2>5, <2>6, Zenon
  <2> QED BY <2>7 DEF past, e
<1> HIDE DEF value
<1>5. CASE events' = events \o new \o <<Completed(~lost, end)>> /\ UNCHANGED lost
  <2>1. CASE lost
    <3>1. ~lost = FALSE /\ value(FALSE) = "done" /\ lost'
      BY <1>5, <2>1 DEF value
    <3>2. events' = events \o new \o <<Completed(FALSE, end)>>
      BY <1>5, <3>1
    <3> QED BY <1>1, <1>2, <1>4, <1>5, <3>1, <3>2, Zenon
  <2>2. CASE ~lost
    <3>1. ~lost = TRUE /\ value(TRUE) = end /\ ~lost'
      BY <1>5, <2>2 DEF value
    <3>2. events' = events \o new \o <<Completed(TRUE, end)>>
      BY <1>5, <3>1
    <3> QED BY <1>1, <1>2, <1>4, <1>5, <3>1, <3>2, Zenon
  <2> QED BY <2>1, <2>2
<1>6. ASSUME ~lost, lost' = TRUE, NEW k \in DOMAIN new,
             events' = events \o RemoveAt(new, k) \o <<Completed(FALSE, end)>>
      PROVE  /\ events' \in Seq(RecordedEvents) /\ Len(EndsOf(events')) = 1
             /\ EndsOf(events')[1].value = "done"
  <2>1. Few(RemoveAt(new, k))
    BY FewerAreFew
  <2>2. value(FALSE) = "done"
    BY DEF value
  <2> QED BY <1>4, <1>6, <2>1, <2>2, Zenon
<1>7. CASE ~lost /\ lost' = TRUE /\ events' = events \o new
  <2>1. events \o new \in Seq(RecordedEvents) /\ EndsOf(events \o new) = EndsOf(events)
    BY <1>1, FewKeepEnds
  <2> QED BY <1>1, <1>2, <1>7, <2>1, Zenon
<1> QED BY <1>2, <1>5, <1>6, <1>7, Zenon

\* Steps of tools, and one more
LEMMA OneAdds ==
  ASSUME NEW past \in Seq(RecordedEvents), NEW a \in RecordedEvents, a.name \in {"response", "failed"}
  PROVE  /\ StepsOf(past \o <<a>>) = Append(StepsOf(past), a)
         /\ RecordedResultsOf(past \o <<a>>) = RecordedResultsOf(past)
<1>1. past \o <<a>> = Append(past, a)
  BY FewAdd
<1>2. /\ StepsOf(Append(past, a)) = Append(StepsOf(past), a)
      /\ RecordedResultsOf(Append(past, a)) = RecordedResultsOf(past)
  BY EventAdds
<1> QED BY <1>1, <1>2, Zenon

LEMMA PairAdds ==
  ASSUME NEW past \in Seq(RecordedEvents), NEW a \in RecordedEvents, a.name \in {"response", "failed"},
         NEW b \in RecordedEvents, b.name = "result"
  PROVE  /\ StepsOf(past \o <<a, b>>) = Append(StepsOf(past), a)
         /\ RecordedResultsOf(past \o <<a, b>>) = RecordedResultsOf(past) \cup {b.step}
<1>1. past \o <<a, b>> = Append(Append(past, a), b)
  BY FewAdd
<1> DEFINE more == Append(past, a)
<1>2. /\ StepsOf(more) = Append(StepsOf(past), a) /\ RecordedResultsOf(more) = RecordedResultsOf(past)
      /\ more \in Seq(RecordedEvents)
  BY EventAdds
<1>3. past \o <<a, b>> = Append(more, b)
  BY <1>1
<1> HIDE DEF more
<1>4. /\ StepsOf(Append(more, b)) = StepsOf(more)
      /\ RecordedResultsOf(Append(more, b)) = RecordedResultsOf(more) \cup {b.step}
  BY <1>2, EventAdds
<1> QED BY <1>2, <1>3, <1>4, Zenon

LEMMA ToolsGrow ==
  ASSUME NEW steps \in Seq(RecordedEvents), NEW results, NEW n \in Nat, ToolsUpTo(steps, results, n),
         NEW e \in RecordedEvents, e.step = n + 1, e.value = "tools"
  PROVE  ToolsUpTo(Append(steps, e), results \cup {n + 1}, n + 1)
<1>1. /\ Len(steps) = n /\ results = 1..n
      /\ \A k \in 1..n : steps[k].step = k /\ steps[k].value = "tools"
  BY DEF ToolsUpTo
<1> DEFINE more == Append(steps, e)
<1>2. /\ Len(more) = n + 1 /\ more[n + 1] = e
      /\ \A k \in 1..n : more[k] = steps[k]
  BY <1>1
<1> HIDE DEF more
<1>3. \A k \in 1..(n + 1) : k \in 1..n \/ k = n + 1
  OBVIOUS
<1>4. \A k \in 1..(n + 1) : more[k].step = k /\ more[k].value = "tools"
  BY <1>1, <1>2, <1>3
<1>5. results \cup {n + 1} = 1..(n + 1)
  BY <1>1
<1>6. ToolsUpTo(more, results \cup {n + 1}, n + 1)
  BY <1>2, <1>4, <1>5 DEF ToolsUpTo
<1> QED BY <1>6 DEF more

LEMMA LastIsTold ==
  ASSUME NEW steps \in Seq(RecordedEvents), NEW results, NEW r, r.step \in Nat \ {0},
         ToolsUpTo(steps, results, r.step - 1), NEW e \in RecordedEvents, e.step = r.step,
         e.value = r.said, r.said \in {"waits", "error", "text", "empty"}, r.end = EndingOf(r.said),
         NEW whole, whole = IF r.said = "waits" THEN results \cup {r.step} ELSE results
  PROVE  ToldBySteps(Append(steps, e), whole, r)
<1> DEFINE n == r.step
           more == Append(steps, e)
<1>1. /\ Len(steps) = n - 1 /\ results = 1..(n - 1) /\ n \in Nat \ {0}
      /\ \A k \in 1..(n - 1) : steps[k].step = k /\ steps[k].value = "tools"
  BY DEF ToolsUpTo
<1>2. /\ Len(more) = n /\ more[n] = e
      /\ \A k \in 1..(n - 1) : more[k] = steps[k]
  BY <1>1
<1>3. e.step = n
  OBVIOUS
<1>4. results \cup {n} = 1..n
  <2> HIDE DEF n
  <2> QED BY <1>1
<1>5. whole = IF r.said = "waits" THEN 1..r.step ELSE 1..(r.step - 1)
  BY <1>1, <1>4
<1> HIDE DEF more
<1>6. ToldBySteps(more, whole, r)
  BY <1>1, <1>2, <1>3, <1>5, Zenon DEF ToldBySteps
<1> QED BY <1>6 DEF more

\* A turn that ends
LEMMA CloseTurnKeeps ==
  ASSUME ReplayInv, recording.end = "none", NEW new, Few(new), NEW end \in Ends, NEW said \in Said,
         CloseTurn(new, end, said), replayed' = replayed,
         ~lost /\ recording.followUps = 0 /\ said \notin {"limit", "cancelled"} =>
           ToldBySteps(StepsOf(events \o new), RecordedResultsOf(events \o new),
                [recording EXCEPT !.end = end, !.said = said])
  PROVE  ReplayInv'
<1> DEFINE r == [recording EXCEPT !.end = end, !.said = said]
<1>1. /\ recording' = r /\ events' \in Seq(RecordedEvents) /\ lost' \in BOOLEAN
      /\ ~lost' => /\ ~lost /\ Len(EndsOf(events')) = 1 /\ EndsOf(events')[1].value = end
                   /\ StepsOf(events') = StepsOf(events \o new)
                   /\ RecordedResultsOf(events') = RecordedResultsOf(events \o new)
      /\ lost' => \/ EndsOf(events') = <<>>
                  \/ Len(EndsOf(events')) = 1 /\ EndsOf(events')[1].value = "done"
  BY CloseTurnIs, Zenon
<1>2. /\ r \in RecordedTurns /\ r.step # 0 /\ r.end = end /\ r.said = said
      /\ r.followUps = recording.followUps
  BY TurnIs DEF RecordedTurns
<1>3. ~lost /\ ByModel(r) => ToldBySteps(StepsOf(events \o new), RecordedResultsOf(events \o new), r)
  BY <1>2 DEF ByModel
<1>4. end # "none"
  BY DEF Ends
<1> HIDE DEF r
<1> DEFINE past == events'
           gone == lost'
<1>5. /\ past \in Seq(RecordedEvents) /\ gone \in BOOLEAN
      /\ ~gone => /\ Len(EndsOf(past)) = 1 /\ EndsOf(past)[1].value = end
                  /\ (ByModel(r) => ToldBySteps(StepsOf(past), RecordedResultsOf(past), r))
      /\ gone => \/ EndsOf(past) = <<>>
                 \/ Len(EndsOf(past)) = 1 /\ EndsOf(past)[1].value = "done"
  BY <1>1, <1>3, Zenon
<1>6. recording' = r /\ events' = past /\ lost' = gone
  BY <1>1
<1> HIDE DEF past, gone
<1>7. TurnFits(r, past, gone)
  BY <1>2, <1>4, <1>5, Zenon DEF TurnFits
<1>8. TurnFits(recording, events, lost)'
  BY <1>6, <1>7, Zenon
<1> QED BY <1>8, RecordingMoves

LEMMA EventIs ==
  ASSUME NEW name \in {"response", "summary", "failed", "result", "completed"},
         NEW step \in Nat, NEW value \in Values
  PROVE  /\ Event(name, step, value) \in RecordedEvents /\ Event(name, step, value).name = name
         /\ Event(name, step, value).step = step /\ Event(name, step, value).value = value
         /\ name # "completed" => Event(name, step, value) \in OpenEvents
BY DEF Event, RecordedEvents, OpenEvents

\* A turn that ends with what the model answers, or that it does not
LEMMA AnsweredKeeps ==
  ASSUME ReplayInv, recording.end = "none", replayed' = replayed,
         NEW name \in {"response", "failed"}, NEW answer \in {"text", "empty", "error"},
         CloseTurn(<<Event(name, recording.step, answer)>>, EndingOf(answer), answer)
  PROVE  ReplayInv'
<1> DEFINE a == Event(name, recording.step, answer)
           r == [recording EXCEPT !.end = EndingOf(answer), !.said = answer]
<1>1. /\ recording \in RecordedTurns /\ recording.step \in Nat \ {0} /\ events \in Seq(RecordedEvents)
      /\ ~lost /\ recording.followUps = 0 =>
           ToolsUpTo(StepsOf(events), RecordedResultsOf(events), recording.step - 1)
  BY TurnIs
<1>2. answer \in Values /\ answer \in Said /\ EndingOf(answer) \in Ends
  BY DEF Values, Said, Answers, Ends, EndingOf
<1>3. /\ a \in RecordedEvents /\ a \in OpenEvents /\ a.name = name /\ a.step = recording.step
      /\ a.value = answer
  BY <1>1, <1>2, EventIs
<1> HIDE DEF a
<1>4. Few(<<a>>)
  BY <1>3, Zenon DEF Few
<1>5. /\ StepsOf(events \o <<a>>) = Append(StepsOf(events), a)
      /\ RecordedResultsOf(events \o <<a>>) = RecordedResultsOf(events)
  BY <1>1, <1>3, OneAdds
<1>6. /\ r.step = recording.step /\ r.said = answer /\ r.end = EndingOf(r.said)
  BY <1>1 DEF RecordedTurns
<1> HIDE DEF r
<1>7. ~lost /\ recording.followUps = 0 => ToldBySteps(Append(StepsOf(events), a), RecordedResultsOf(events), r)
  <2> SUFFICES ASSUME ~lost, recording.followUps = 0
               PROVE  ToldBySteps(Append(StepsOf(events), a), RecordedResultsOf(events), r)
    OBVIOUS
  <2>1. ToolsUpTo(StepsOf(events), RecordedResultsOf(events), r.step - 1)
    BY <1>1, <1>6
  <2>2. StepsOf(events) \in Seq(RecordedEvents)
    BY <1>1, NamedIs DEF StepsOf
  <2>3. r.step \in Nat \ {0} /\ a.step = r.step /\ a.value = r.said
        /\ r.said \in {"waits", "error", "text", "empty"} /\ r.said # "waits"
    BY <1>1, <1>3, <1>6
  <2>4. RecordedResultsOf(events) = IF r.said = "waits" THEN RecordedResultsOf(events) \cup {r.step} ELSE RecordedResultsOf(events)
    BY <2>3
  <2> QED BY <1>3, <1>6, <2>1, <2>2, <2>3, <2>4, LastIsTold, Zenon
<1>8. CloseTurn(<<a>>, EndingOf(answer), answer)
  BY DEF a
<1>9. ~lost /\ recording.followUps = 0 /\ answer \notin {"limit", "cancelled"} =>
        ToldBySteps(StepsOf(events \o <<a>>), RecordedResultsOf(events \o <<a>>),
             [recording EXCEPT !.end = EndingOf(answer), !.said = answer])
  BY <1>5, <1>7, Zenon DEF r
<1> QED BY <1>2, <1>4, <1>8, <1>9, CloseTurnKeeps, Zenon

\* A turn that ends for another reason
LEMMA StoppedKeeps ==
  ASSUME ReplayInv, recording.end = "none", replayed' = replayed, NEW new, Few(new),
         NEW end \in Ends, NEW said \in {"limit", "cancelled"}, CloseTurn(new, end, said)
  PROVE  ReplayInv'
<1>1. said \in Said
  BY DEF Said, Shown
<1>2. ~lost /\ recording.followUps = 0 /\ said \notin {"limit", "cancelled"} =>
        ToldBySteps(StepsOf(events \o new), RecordedResultsOf(events \o new),
             [recording EXCEPT !.end = end, !.said = said])
  OBVIOUS
<1> QED BY <1>1, <1>2, CloseTurnKeeps, Zenon

LEMMA NoEvents == Few(<<>>)
BY DEF Few

LEMMA StepWaitsKeeps ==
  ASSUME ReplayInv, StepWaits
  PROVE  ReplayInv'
<1> DEFINE a == Response("waits")
           b == Event("result", recording.step, "waits")
           r == [recording EXCEPT !.end = "awaiting_input", !.said = "waits"]
<1>1. recording.end = "none" /\ replayed' = replayed /\ CloseTurn(<<a, b>>, "awaiting_input", "waits")
  BY DEF StepWaits, InLoop
<1>2. /\ recording \in RecordedTurns /\ recording.step \in Nat \ {0} /\ events \in Seq(RecordedEvents)
      /\ ~lost /\ recording.followUps = 0 =>
           ToolsUpTo(StepsOf(events), RecordedResultsOf(events), recording.step - 1)
  BY <1>1, TurnIs
<1>3. "waits" \in Values /\ "waits" \in Said /\ "awaiting_input" \in Ends
  BY DEF Values, Said, Answers, Ends
<1>4. /\ a \in RecordedEvents /\ a \in OpenEvents /\ a.name = "response" /\ a.step = recording.step
      /\ a.value = "waits"
  BY <1>2, <1>3, EventIs DEF Response
<1>5. b \in RecordedEvents /\ b \in OpenEvents /\ b.name = "result" /\ b.step = recording.step
  BY <1>2, <1>3, EventIs
<1> HIDE DEF a, b
<1>6. Few(<<a, b>>)
  BY <1>4, <1>5, Zenon DEF Few
<1>7. /\ StepsOf(events \o <<a, b>>) = Append(StepsOf(events), a)
      /\ RecordedResultsOf(events \o <<a, b>>) = RecordedResultsOf(events) \cup {recording.step}
  <2>1. RecordedResultsOf(events \o <<a, b>>) = RecordedResultsOf(events) \cup {b.step}
    BY <1>2, <1>4, <1>5, PairAdds
  <2>2. StepsOf(events \o <<a, b>>) = Append(StepsOf(events), a)
    BY <1>2, <1>4, <1>5, PairAdds
  <2> QED BY <1>5, <2>1, <2>2, Zenon
<1>8. /\ r.step = recording.step /\ r.said = "waits" /\ r.end = EndingOf(r.said)
  BY <1>2 DEF RecordedTurns, EndingOf
<1> HIDE DEF r
<1>9. ~lost /\ recording.followUps = 0 =>
        ToldBySteps(Append(StepsOf(events), a), RecordedResultsOf(events) \cup {recording.step}, r)
  <2> SUFFICES ASSUME ~lost, recording.followUps = 0
               PROVE  ToldBySteps(Append(StepsOf(events), a), RecordedResultsOf(events) \cup {recording.step}, r)
    OBVIOUS
  <2>1. ToolsUpTo(StepsOf(events), RecordedResultsOf(events), r.step - 1)
    BY <1>2, <1>8
  <2>2. StepsOf(events) \in Seq(RecordedEvents)
    BY <1>2, NamedIs DEF StepsOf
  <2>3. r.step \in Nat \ {0} /\ a.step = r.step /\ a.value = r.said
        /\ r.said \in {"waits", "error", "text", "empty"}
    BY <1>2, <1>4, <1>8
  <2>4. RecordedResultsOf(events) \cup {recording.step} =
          IF r.said = "waits" THEN RecordedResultsOf(events) \cup {r.step} ELSE RecordedResultsOf(events)
    BY <1>8
  <2> QED BY <1>4, <1>8, <2>1, <2>2, <2>3, <2>4, LastIsTold, Zenon
<1>10. ~lost /\ recording.followUps = 0 /\ "waits" \notin {"limit", "cancelled"} =>
         ToldBySteps(StepsOf(events \o <<a, b>>), RecordedResultsOf(events \o <<a, b>>),
              [recording EXCEPT !.end = "awaiting_input", !.said = "waits"])
  BY <1>7, <1>9, Zenon DEF r
<1> QED BY <1>1, <1>3, <1>6, <1>10, CloseTurnKeeps, Zenon

LEMMA StepAnswersKeeps ==
  ASSUME ReplayInv, StepAnswers
  PROVE  ReplayInv'
<1>1. PICK answer \in {"text", "empty"} : CloseTurn(<<Response(answer)>>, "success", answer)
  BY Zenon DEF StepAnswers
<1>2. recording.end = "none" /\ replayed' = replayed
  BY DEF StepAnswers, InLoop
<1>3. EndingOf(answer) = "success" /\ answer \in {"text", "empty", "error"}
  BY DEF EndingOf
<1>4. CloseTurn(<<Event("response", recording.step, answer)>>, EndingOf(answer), answer)
  BY <1>1, <1>3, Zenon DEF Response
<1> QED BY <1>2, <1>3, <1>4, AnsweredKeeps

LEMMA StepFailsKeeps ==
  ASSUME ReplayInv, StepFails
  PROVE  ReplayInv'
<1>1. /\ recording.end = "none" /\ replayed' = replayed
      /\ CloseTurn(<<Event("failed", recording.step, "error")>>, "failed", "error")
  BY DEF StepFails, InLoop
<1>2. EndingOf("error") = "failed"
  BY DEF EndingOf
<1>3. CloseTurn(<<Event("failed", recording.step, "error")>>, EndingOf("error"), "error")
  BY <1>1, <1>2, Zenon
<1> QED BY <1>1, <1>3, AnsweredKeeps

LEMMA StepIsCancelledKeeps ==
  ASSUME ReplayInv, StepIsCancelled
  PROVE  ReplayInv'
<1>1. recording.end = "none" /\ replayed' = replayed
  BY DEF StepIsCancelled, InLoop
<1>2. \/ CloseTurn(<<>>, "cancelled", "cancelled")
      \/ CloseTurn(<<>>, "failed", "limit")
  BY Zenon DEF StepIsCancelled
<1>3. "cancelled" \in Ends /\ "failed" \in Ends
  BY DEF Ends
<1> QED BY <1>1, <1>2, <1>3, NoEvents, StoppedKeeps

LEMMA FinalSummaryKeeps ==
  ASSUME ReplayInv, FinalSummary
  PROVE  ReplayInv'
<1>1. recording.end = "none" /\ replayed' = replayed
  BY DEF FinalSummary
<1>2. \/ CloseTurn(<<Response("text")>>, "success", "text")
      \/ \E answer \in {"empty", "tools"} :
           CloseTurn(<<Response(answer)>>, "iteration_limit_exceeded", "limit")
      \/ CloseTurn(<<>>, "iteration_limit_exceeded", "limit")
  BY Zenon DEF FinalSummary
<1>3. CASE CloseTurn(<<Response("text")>>, "success", "text")
  <2>1. EndingOf("text") = "success"
    BY DEF EndingOf
  <2>2. CloseTurn(<<Event("response", recording.step, "text")>>, EndingOf("text"), "text")
    BY <1>3, <2>1, Zenon DEF Response
  <2> QED BY <1>1, <2>2, AnsweredKeeps
<1>4. "iteration_limit_exceeded" \in Ends
  BY DEF Ends
<1>5. ASSUME NEW answer \in {"empty", "tools"},
             CloseTurn(<<Response(answer)>>, "iteration_limit_exceeded", "limit")
      PROVE  ReplayInv'
  <2>1. Response(answer) \in OpenEvents
    <3>1. recording.step \in Nat
      BY <1>1, TurnIs
    <3>2. answer \in Values
      BY DEF Values, Answers
    <3> QED BY <3>1, <3>2, EventIs DEF Response
  <2>2. Few(<<Response(answer)>>)
    BY <2>1, Zenon DEF Few
  <2> QED BY <1>1, <1>4, <1>5, <2>2, StoppedKeeps
<1>6. CASE CloseTurn(<<>>, "iteration_limit_exceeded", "limit")
  BY <1>1, <1>4, <1>6, NoEvents, StoppedKeeps
<1> QED BY <1>2, <1>3, <1>5, <1>6

\* A turn that goes on
LEMMA TurnGoesOn ==
  ASSUME ReplayInv, recording.end = "none", replayed' = replayed, NEW r \in RecordedTurns,
         recording' = r, r.end = "none", r.step # 0,
         events' \in Seq(RecordedEvents), EndsOf(events') = <<>>, lost' \in BOOLEAN,
         ~lost' /\ r.followUps = 0 => ToolsUpTo(StepsOf(events'), RecordedResultsOf(events'), r.step - 1)
  PROVE  ReplayInv'
<1> DEFINE past == events'
           gone == lost'
<1>1. /\ past \in Seq(RecordedEvents) /\ EndsOf(past) = <<>> /\ gone \in BOOLEAN
      /\ ~gone /\ r.followUps = 0 => ToolsUpTo(StepsOf(past), RecordedResultsOf(past), r.step - 1)
  OBVIOUS
<1>2. recording' = r /\ events' = past /\ lost' = gone
  OBVIOUS
<1> HIDE DEF past, gone
<1>3. TurnFits(r, past, gone)
  BY <1>1, Zenon DEF TurnFits
<1>4. TurnFits(recording, events, lost)'
  BY <1>2, <1>3, Zenon
<1> QED BY <1>4, RecordingMoves

LEMMA SummarizeKeeps ==
  ASSUME ReplayInv, Summarize
  PROVE  ReplayInv'
<1> DEFINE a == Event("summary", recording.step, "text")
<1>1. /\ recording.end = "none" /\ replayed' = replayed /\ recording' = recording
      /\ Record(<<a>>)
  BY DEF Summarize, InLoop
<1>2. /\ recording \in RecordedTurns /\ recording.step \in Nat \ {0} /\ events \in Seq(RecordedEvents)
      /\ ~lost /\ recording.followUps = 0 =>
           ToolsUpTo(StepsOf(events), RecordedResultsOf(events), recording.step - 1)
  BY <1>1, TurnIs
<1>3. a \in RecordedEvents /\ a \in OpenEvents /\ a.name = "summary"
  <2>1. "text" \in Values
    BY DEF Values, Answers
  <2> QED BY <1>2, <2>1, EventIs
<1> HIDE DEF a
<1>4. Few(<<a>>)
  BY <1>3, Zenon DEF Few
<1>5. /\ events' \in Seq(RecordedEvents) /\ EndsOf(events') = <<>> /\ lost' \in BOOLEAN
      /\ ~lost' => ~lost /\ events' = events \o <<a>>
  BY <1>1, <1>4, RecordIs
<1>6. /\ StepsOf(events \o <<a>>) = StepsOf(events)
      /\ RecordedResultsOf(events \o <<a>>) = RecordedResultsOf(events)
  <2>1. events \o <<a>> = Append(events, a)
    BY <1>2, <1>3, FewAdd
  <2>2. /\ StepsOf(Append(events, a)) = StepsOf(events)
        /\ RecordedResultsOf(Append(events, a)) = RecordedResultsOf(events)
    BY <1>2, <1>3, EventAdds
  <2> QED BY <2>1, <2>2, Zenon
<1>7. ~lost' /\ recording.followUps = 0 =>
        ToolsUpTo(StepsOf(events'), RecordedResultsOf(events'), recording.step - 1)
  BY <1>2, <1>5, <1>6, Zenon
<1>8. recording.step # 0
  BY <1>2
<1> QED BY <1>1, <1>2, <1>5, <1>7, <1>8, TurnGoesOn, Zenon

LEMMA StepWithToolsKeeps ==
  ASSUME ReplayInv, StepWithTools
  PROVE  ReplayInv'
<1> DEFINE a == Response("tools")
           b == Event("result", recording.step, "done")
           r == [recording EXCEPT !.step = @ + 1]
<1>1. /\ recording.end = "none" /\ replayed' = replayed /\ recording' = r
      /\ Record(<<a, b>>)
  BY DEF StepWithTools, InLoop
<1>2. /\ recording \in RecordedTurns /\ recording.step \in Nat \ {0} /\ events \in Seq(RecordedEvents)
      /\ ~lost /\ recording.followUps = 0 =>
           ToolsUpTo(StepsOf(events), RecordedResultsOf(events), recording.step - 1)
  BY <1>1, TurnIs
<1>3. "tools" \in Values /\ "done" \in Values
  BY DEF Values, Answers
<1>4. /\ a \in RecordedEvents /\ a \in OpenEvents /\ a.name = "response" /\ a.step = recording.step
      /\ a.value = "tools"
  BY <1>2, <1>3, EventIs DEF Response
<1>5. b \in RecordedEvents /\ b \in OpenEvents /\ b.name = "result" /\ b.step = recording.step
  BY <1>2, <1>3, EventIs
<1> HIDE DEF a, b
<1>6. Few(<<a, b>>)
  BY <1>4, <1>5, Zenon DEF Few
<1>7. /\ events' \in Seq(RecordedEvents) /\ EndsOf(events') = <<>> /\ lost' \in BOOLEAN
      /\ ~lost' => ~lost /\ events' = events \o <<a, b>>
  BY <1>1, <1>6, RecordIs
<1>8. /\ StepsOf(events \o <<a, b>>) = Append(StepsOf(events), a)
      /\ RecordedResultsOf(events \o <<a, b>>) = RecordedResultsOf(events) \cup {recording.step}
  <2>1. RecordedResultsOf(events \o <<a, b>>) = RecordedResultsOf(events) \cup {b.step}
    BY <1>2, <1>4, <1>5, PairAdds
  <2>2. StepsOf(events \o <<a, b>>) = Append(StepsOf(events), a)
    BY <1>2, <1>4, <1>5, PairAdds
  <2> QED BY <1>5, <2>1, <2>2, Zenon
<1>9. /\ r \in RecordedTurns /\ r.step = recording.step + 1 /\ r.end = "none" /\ r.step # 0
      /\ r.step - 1 = recording.step /\ r.followUps = recording.followUps
  <2>1. recording.step + 1 \in Nat /\ recording.step + 1 # 0
        /\ (recording.step + 1) - 1 = recording.step
    BY <1>2
  <2>2. r \in RecordedTurns /\ r.step = recording.step + 1 /\ r.end = "none"
        /\ r.followUps = recording.followUps
    BY <1>1, <1>2, <2>1 DEF RecordedTurns
  <2> QED BY <2>1, <2>2
<1> HIDE DEF r
<1>10. ~lost /\ recording.followUps = 0 =>
         ToolsUpTo(Append(StepsOf(events), a), RecordedResultsOf(events) \cup {recording.step},
                   recording.step)
  <2> SUFFICES ASSUME ~lost, recording.followUps = 0
               PROVE  ToolsUpTo(Append(StepsOf(events), a), RecordedResultsOf(events) \cup {recording.step},
                                recording.step)
    OBVIOUS
  <2> DEFINE n == recording.step - 1
  <2>1. n \in Nat /\ recording.step = n + 1
    BY <1>2
  <2>2. ToolsUpTo(StepsOf(events), RecordedResultsOf(events), n)
    BY <1>2
  <2> HIDE DEF n
  <2>3. StepsOf(events) \in Seq(RecordedEvents)
    BY <1>2, NamedIs DEF StepsOf
  <2>4. a.step = n + 1
    BY <1>4, <2>1
  <2>5. ToolsUpTo(Append(StepsOf(events), a), RecordedResultsOf(events) \cup {n + 1}, n + 1)
    BY <1>4, <2>1, <2>2, <2>3, <2>4, ToolsGrow, Zenon
  <2> QED BY <2>1, <2>5, Zenon
<1>11. ~lost' /\ r.followUps = 0 => ToolsUpTo(StepsOf(events'), RecordedResultsOf(events'), r.step - 1)
  BY <1>7, <1>8, <1>9, <1>10, Zenon
<1> QED BY <1>1, <1>7, <1>9, <1>11, TurnGoesOn, Zenon

LEMMA StepFollowsUpKeeps ==
  ASSUME ReplayInv, StepFollowsUp
  PROVE  ReplayInv'
<1> DEFINE a == Response("text")
           r == [recording EXCEPT !.step = @ + 1, !.followUps = @ + 1]
<1>1. /\ recording.end = "none" /\ replayed' = replayed /\ recording' = r
      /\ Record(<<a>>)
  BY DEF StepFollowsUp, InLoop
<1>2. recording \in RecordedTurns /\ recording.step \in Nat /\ recording.followUps \in Nat
  BY <1>1, TurnIs
<1>3. a \in OpenEvents
  <2>1. "text" \in Values
    BY DEF Values, Answers
  <2> QED BY <1>2, <2>1, EventIs DEF Response
<1> HIDE DEF a
<1>4. Few(<<a>>)
  BY <1>3, Zenon DEF Few
<1>5. events' \in Seq(RecordedEvents) /\ EndsOf(events') = <<>> /\ lost' \in BOOLEAN
  BY <1>1, <1>4, RecordIs
<1>6. /\ r \in RecordedTurns /\ r.end = "none" /\ r.step # 0 /\ r.followUps # 0
  <2>1. /\ recording.step + 1 \in Nat /\ recording.step + 1 # 0
        /\ recording.followUps + 1 \in Nat /\ recording.followUps + 1 # 0
    BY <1>2
  <2>2. r \in RecordedTurns /\ r.step = recording.step + 1 /\ r.end = "none"
        /\ r.followUps = recording.followUps + 1
    BY <1>1, <1>2, <2>1 DEF RecordedTurns
  <2> QED BY <2>1, <2>2
<1> HIDE DEF r
<1> QED BY <1>1, <1>5, <1>6, TurnGoesOn, Zenon

-----------------------------------------------------------------------------
(* The replay *)

LEMMA ReplayMoves ==
  ASSUME ReplayInv, NEW p, replayed' = p, UNCHANGED <<recording, events, lost>>,
         ReplayFits(recording, lost, p)
  PROVE  ReplayInv'
<1>1. recording' = recording /\ events' = events /\ lost' = lost
  OBVIOUS
<1>2. TurnFits(recording, events, lost)
  BY DEF ReplayInv
<1> QED BY <1>1, <1>2, Zenon DEF ReplayInv

\* What is planned is planned out of the events.
LEMMA PlanIs ==
  /\ AgentSteps = StepsOf(events) /\ Completions = EndsOf(events)
  /\ RecordedResults = RecordedResultsOf(events)
BY Zenon DEF AgentSteps, StepsOf, Completions, EndsOf, RecordedResults, RecordedResultsOf

LEMMA BeginReplayKeeps ==
  ASSUME ReplayInv, BeginReplay
  PROVE  ReplayInv'
<1>1. /\ recording.end # "none" /\ replayed = NotReplayed
      /\ UNCHANGED <<recording, events, lost>>
      /\ replayed' = IF Plannable THEN [replayed EXCEPT !.step = 1]
                     ELSE [replayed EXCEPT !.end = "refused"]
  BY DEF BeginReplay
<1>2. /\ recording \in RecordedTurns /\ recording.step # 0
      /\ ~lost => Len(Completions) = 1 /\ Expected = recording.end
      /\ lost => Completions = <<>> \/ (Len(Completions) = 1 /\ Expected = "done")
  BY <1>1, PlanIs, Zenon DEF ReplayInv, TurnFits, Expected
<1>3. recording.end \in Ends /\ recording.end # "done" /\ recording.step \in Nat \ {0}
  BY <1>1, <1>2 DEF RecordedTurns, Ends
<1>4. Plannable <=> ~lost
  <2>1. CASE ~lost
    BY <1>2, <1>3, <2>1 DEF Plannable
  <2>2. CASE lost
    <3>1. Completions = <<>> => Len(Completions) # 1
      <4>1. Len(<<>>) # 1
        OBVIOUS
      <4> QED BY <4>1, Zenon
    <3> QED BY <1>2, <2>2, <3>1, Zenon DEF Plannable
  <2> QED BY <2>1, <2>2
<1>5. /\ NotReplayed \in Replays /\ NotReplayed.step = 0 /\ NotReplayed.end = "none"
      /\ NotReplayed.index = 0 /\ NotReplayed.consumed = {} /\ NotReplayed.diverges = FALSE
  BY DEF NotReplayed, Replays, Said, Values, Shown, Answers
<1>6. CASE Plannable
  <2> DEFINE p == [NotReplayed EXCEPT !.step = 1]
  <2>1. replayed' = p
    BY <1>1, <1>6
  <2>2. /\ p \in Replays /\ p.step = 1 /\ p.end = "none" /\ p.index = 0 /\ p.consumed = {}
        /\ p.diverges = FALSE
    BY <1>5 DEF Replays, NotReplayed
  <2> HIDE DEF p
  <2>3. p.index = p.step - 1 /\ p.consumed = 1..(p.step - 1) /\ p.step <= recording.step
    BY <1>3, <2>2
  <2>4. p.step # 0 /\ p.end # "refused" /\ ~p.diverges
    BY <2>2
  <2>5. ReplayFits(recording, lost, p)
    BY <1>1, <1>4, <1>6, <2>2, <2>3, <2>4, Zenon DEF ReplayFits
  <2> QED BY <1>1, <2>1, <2>5, ReplayMoves, Zenon
<1>7. CASE ~Plannable
  <2> DEFINE p == [NotReplayed EXCEPT !.end = "refused"]
  <2>1. replayed' = p
    BY <1>1, <1>7
  <2>2. p \in Replays /\ p.step = 0 /\ p.end = "refused"
    BY <1>5 DEF Replays
  <2> HIDE DEF p
  <2>3. ReplayFits(recording, lost, p)
    BY <1>1, <1>4, <1>7, <2>2, Zenon DEF ReplayFits
  <2> QED BY <1>1, <2>1, <2>3, ReplayMoves, Zenon
<1> QED BY <1>6, <1>7

\* A replay under way is of a turn that is over and of which nothing was lost.
LEMMA ReplayIs ==
  ASSUME ReplayInv, replayed.step # 0, replayed.end = "none"
  PROVE  /\ recording \in RecordedTurns /\ recording.end \in Ends /\ ~lost /\ replayed \in Replays
         /\ replayed.index \in Nat /\ replayed.step \in Nat
         /\ replayed.diverges \in BOOLEAN /\ replayed.consumed \subseteq Nat
         /\ AgentSteps \in Seq(RecordedEvents) /\ RecordedResults \subseteq Nat
         /\ Expected = recording.end
         /\ ByModel(recording) =>
              /\ ToldBySteps(AgentSteps, RecordedResults, recording) /\ ~replayed.diverges
              /\ replayed.index = replayed.step - 1
              /\ replayed.consumed = 1..(replayed.step - 1)
              /\ replayed.step <= recording.step
<1>1. replayed # NotReplayed
  BY DEF NotReplayed
<1>2. /\ TurnFits(recording, events, lost) /\ ReplayFits(recording, lost, replayed)
  BY DEF ReplayInv
<1>3. recording.end # "none" /\ ~lost /\ replayed \in Replays
  BY <1>1, <1>2, Zenon DEF ReplayFits
<1>4. recording \in RecordedTurns /\ events \in Seq(RecordedEvents)
  BY <1>2, Zenon DEF TurnFits
<1>5. recording.end \in Ends
  BY <1>3, <1>4 DEF RecordedTurns
<1>6. AgentSteps \in Seq(RecordedEvents)
  BY <1>4, NamedIs DEF AgentSteps
<1>7. RecordedResults \subseteq Nat
  <2>1. \A k \in DOMAIN events : events[k].step \in Nat
    <3> SUFFICES ASSUME NEW k \in DOMAIN events PROVE events[k].step \in Nat
      OBVIOUS
    <3>1. k \in 1..Len(events)
      BY <1>4, LenProperties
    <3>2. events[k] \in RecordedEvents
      BY <1>4, <3>1, ElementOfSeq
    <3> QED BY <3>2 DEF RecordedEvents
  <2> QED BY <2>1 DEF RecordedResults
<1>8. Expected = recording.end
  BY <1>2, <1>3, PlanIs, Zenon DEF TurnFits, Expected
<1>9. ByModel(recording) =>
        /\ ToldBySteps(AgentSteps, RecordedResults, recording) /\ ~replayed.diverges
        /\ replayed.index = replayed.step - 1
        /\ replayed.consumed = 1..(replayed.step - 1)
        /\ replayed.step <= recording.step
  BY <1>2, <1>3, PlanIs, Zenon DEF TurnFits, ReplayFits
<1>10. /\ replayed.index \in Nat /\ replayed.step \in Nat
       /\ replayed.diverges \in BOOLEAN /\ replayed.consumed \subseteq Nat
  BY <1>3 DEF Replays
<1> QED BY <1>3, <1>4, <1>5, <1>6, <1>7, <1>8, <1>9, <1>10

\* What the recorded model gives, ...
LEMMA AskedIs ==
  ASSUME ReplayInv, replayed.step # 0, replayed.end = "none"
  PROVE  /\ Generated \in Values
         /\ Asked \in Replays /\ Asked.step = replayed.step /\ Asked.end = "none"
         /\ Asked.consumed = replayed.consumed
         /\ replayed.index < Len(AgentSteps) =>
              /\ Asked.index = replayed.index + 1 /\ Asked.diverges = replayed.diverges
              /\ Generated = AgentSteps[replayed.index + 1].value
<1>1. /\ replayed \in Replays /\ AgentSteps \in Seq(RecordedEvents) /\ replayed.index \in Nat
      /\ replayed.diverges \in BOOLEAN
  BY ReplayIs
<1>2. Len(AgentSteps) \in Nat
  BY <1>1, LenProperties
<1> DEFINE index == IF replayed.index < Len(AgentSteps) THEN replayed.index + 1 ELSE replayed.index
           off == replayed.diverges \/ replayed.index >= Len(AgentSteps)
<1>3. Asked = [replayed EXCEPT !.index = index, !.diverges = off]
  BY DEF Asked
<1>4. /\ index \in Nat /\ off \in BOOLEAN
      /\ replayed.index < Len(AgentSteps) => index = replayed.index + 1
  BY <1>1, <1>2
<1>5. replayed.index < Len(AgentSteps) => off = replayed.diverges
  <2>1. replayed.index < Len(AgentSteps) => ~(replayed.index >= Len(AgentSteps))
    BY <1>1, <1>2
  <2> QED BY <1>1, <2>1, Zenon
<1> HIDE DEF index, off
<1>6. /\ Asked \in Replays /\ Asked.step = replayed.step /\ Asked.end = "none"
      /\ Asked.consumed = replayed.consumed /\ Asked.index = index /\ Asked.diverges = off
  BY <1>1, <1>3, <1>4 DEF Replays
<1>7. Generated \in Values
  <2>1. CASE replayed.index < Len(AgentSteps)
    <3>1. replayed.index + 1 \in 1..Len(AgentSteps)
      BY <1>1, <1>2, <2>1
    <3>2. AgentSteps[replayed.index + 1] \in RecordedEvents
      BY <1>1, <3>1, ElementOfSeq
    <3> QED BY <2>1, <3>2 DEF Generated, RecordedEvents
  <2>2. CASE ~(replayed.index < Len(AgentSteps))
    BY <2>2 DEF Generated, Values, Answers
  <2> QED BY <2>1, <2>2
<1>8. replayed.index < Len(AgentSteps) => Generated = AgentSteps[replayed.index + 1].value
  BY DEF Generated
<1> QED BY <1>4, <1>5, <1>6, <1>7, <1>8, Zenon

\* ... what becomes of its calls, ...
LEMMA DispatchedIs ==
  ASSUME ReplayInv, replayed.step # 0, replayed.end = "none"
  PROVE  /\ Dispatched \in Replays /\ Dispatched.step = replayed.step /\ Dispatched.end = "none"
         /\ replayed.index < Len(AgentSteps) /\ AgentSteps[replayed.index + 1].step \in RecordedResults =>
              /\ Dispatched.index = replayed.index + 1 /\ Dispatched.diverges = replayed.diverges
              /\ Dispatched.consumed =
                   replayed.consumed \cup {AgentSteps[replayed.index + 1].step}
<1>1. /\ RecordedResults \subseteq Nat /\ replayed.consumed \subseteq Nat
      /\ replayed.diverges \in BOOLEAN
  BY ReplayIs
<1>2. /\ Asked \in Replays /\ Asked.step = replayed.step /\ Asked.end = "none"
      /\ Asked.consumed = replayed.consumed
      /\ replayed.index < Len(AgentSteps) =>
           Asked.index = replayed.index + 1 /\ Asked.diverges = replayed.diverges
  BY AskedIs
<1> DEFINE at == IF replayed.index < Len(AgentSteps) THEN AgentSteps[replayed.index + 1].step ELSE 1
           consumed == Asked.consumed \cup ({at} \cap RecordedResults)
           off == Asked.diverges \/ at \notin RecordedResults
<1>3. Dispatched = [Asked EXCEPT !.consumed = consumed, !.diverges = off]
  BY DEF Dispatched
<1>4. consumed \subseteq Nat /\ off \in BOOLEAN
  BY <1>1, <1>2
<1>5. ASSUME replayed.index < Len(AgentSteps),
             AgentSteps[replayed.index + 1].step \in RecordedResults
      PROVE  /\ consumed = replayed.consumed \cup {AgentSteps[replayed.index + 1].step}
             /\ off = Asked.diverges
  <2>1. at = AgentSteps[replayed.index + 1].step
    BY <1>5
  <2> HIDE DEF at
  <2>2. consumed = replayed.consumed \cup {at}
    BY <1>2, <1>5, <2>1
  <2>3. off = Asked.diverges
    <3>1. Asked.diverges \in BOOLEAN
      BY <1>2 DEF Replays
    <3> QED BY <1>5, <2>1, <3>1, Zenon
  <2> QED BY <2>1, <2>2, <2>3, Zenon
<1> HIDE DEF at, consumed, off
<1>6. /\ Dispatched \in Replays /\ Dispatched.step = Asked.step /\ Dispatched.end = Asked.end
      /\ Dispatched.index = Asked.index /\ Dispatched.consumed = consumed
      /\ Dispatched.diverges = off
  BY <1>2, <1>3, <1>4 DEF Replays
<1> QED BY <1>2, <1>5, <1>6, Zenon

\* ... and what the replay is compared by.
LEMMA EndReplayIs ==
  ASSUME ReplayInv, NEW work \in Replays, NEW end \in Ends, NEW said \in Said
  PROVE  /\ EndReplay(work, end, said) \in Replays /\ EndReplay(work, end, said).end = end
         /\ EndReplay(work, end, said).step = work.step
         /\ ~work.diverges /\ end = Expected /\ said = recording.said
              /\ ~(work.index < Len(AgentSteps)) /\ work.consumed = RecordedResults
              => ~EndReplay(work, end, said).diverges
<1> DEFINE off == work.diverges \/ end # Expected \/ said # recording.said
                    \/ work.index < Len(AgentSteps) \/ work.consumed # RecordedResults
           e == EndReplay(work, end, said)
<1>1. e = [work EXCEPT !.end = end, !.said = said, !.diverges = off]
  BY DEF EndReplay
<1>2. off \in BOOLEAN
  <2>1. work.diverges \in BOOLEAN
    BY DEF Replays
  <2> QED BY <2>1
<1>3. ~work.diverges /\ end = Expected /\ said = recording.said
        /\ ~(work.index < Len(AgentSteps)) /\ work.consumed = RecordedResults => ~off
  OBVIOUS
<1> HIDE DEF off, e
<1>4. e \in Replays /\ e.end = end /\ e.step = work.step /\ e.diverges = off
  BY <1>1, <1>2 DEF Replays
<1>5. ~work.diverges /\ end = Expected /\ said = recording.said
        /\ ~(work.index < Len(AgentSteps)) /\ work.consumed = RecordedResults => ~e.diverges
  BY <1>3, <1>4, Zenon
<1> QED BY <1>4, <1>5 DEF e

\* What the replay comes to next, in a turn that the model and its tools made
LEMMA ReplayFollows ==
  ASSUME ReplayInv, replayed.step # 0, replayed.end = "none", ByModel(recording)
  PROVE  /\ replayed.step \in 1..recording.step /\ recording.step \in Nat
         /\ replayed.index + 1 = replayed.step /\ Len(AgentSteps) = recording.step
         /\ replayed.index < Len(AgentSteps) /\ ~replayed.diverges
         /\ AgentSteps[replayed.index + 1].step = replayed.step
         /\ Generated = AgentSteps[replayed.step].value
         /\ replayed.consumed = 1..(replayed.step - 1)
         /\ replayed.step < recording.step =>
              Generated = "tools" /\ replayed.step \in RecordedResults
         /\ replayed.step = recording.step =>
              /\ Generated = recording.said
              /\ recording.said \in {"waits", "error", "text", "empty"}
              /\ recording.end = EndingOf(recording.said)
              /\ RecordedResults = IF recording.said = "waits" THEN 1..replayed.step
                                   ELSE 1..(replayed.step - 1)
<1> DEFINE n == replayed.step
           L == recording.step
<1>1. /\ ToldBySteps(AgentSteps, RecordedResults, recording) /\ ~replayed.diverges
      /\ replayed.index = n - 1 /\ replayed.consumed = 1..(n - 1) /\ n <= L
      /\ n \in Nat /\ replayed.index \in Nat
  BY ReplayIs
<1>2. /\ L \in Nat \ {0} /\ Len(AgentSteps) = L
      /\ AgentSteps[L].step = L /\ AgentSteps[L].value = recording.said
      /\ \A k \in 1..(L - 1) : AgentSteps[k].step = k /\ AgentSteps[k].value = "tools"
      /\ recording.said \in {"waits", "error", "text", "empty"}
      /\ recording.end = EndingOf(recording.said)
      /\ RecordedResults = IF recording.said = "waits" THEN 1..L ELSE 1..(L - 1)
  BY <1>1, Zenon DEF ToldBySteps
<1>3. n \in 1..L /\ replayed.index + 1 = n /\ replayed.index < L /\ n # 0
  BY <1>1, <1>2
<1>4. Generated = AgentSteps[n].value
  BY <1>2, <1>3, AskedIs
<1>5. n < L => n \in 1..(L - 1) /\ n \in 1..L
  BY <1>2, <1>3
<1>6. n < L => Generated = "tools" /\ n \in RecordedResults
  BY <1>2, <1>4, <1>5
<1>7. AgentSteps[n].step = n
  <2>1. n < L \/ n = L
    BY <1>2, <1>3
  <2> QED BY <1>2, <1>5, <2>1
<1>8. n = L => /\ Generated = recording.said
               /\ RecordedResults = IF recording.said = "waits" THEN 1..n ELSE 1..(n - 1)
  BY <1>2, <1>4
<1> HIDE DEF n, L
<1> QED BY <1>1, <1>2, <1>3, <1>4, <1>6, <1>7, <1>8 DEF n, L

\* A replay that ends
LEMMA EndReplayKeeps ==
  ASSUME ReplayInv, replayed.step # 0, replayed.end = "none",
         NEW work \in Replays, work.step = replayed.step, NEW end \in Ends, NEW said \in Said,
         replayed' = EndReplay(work, end, said), UNCHANGED <<recording, events, lost>>,
         ByModel(recording) =>
           /\ ~work.diverges /\ end = recording.end /\ said = recording.said
           /\ work.index = Len(AgentSteps) /\ work.consumed = RecordedResults
  PROVE  ReplayInv'
<1> DEFINE p == EndReplay(work, end, said)
<1>1. /\ recording.end \in Ends /\ ~lost /\ Expected = recording.end
      /\ AgentSteps \in Seq(RecordedEvents)
  BY ReplayIs
<1>2. Len(AgentSteps) \in Nat
  BY <1>1, LenProperties
<1>3. p \in Replays /\ p.end = end /\ p.step = replayed.step
  BY EndReplayIs
<1>4. ByModel(recording) => ~p.diverges
  <2> SUFFICES ASSUME ByModel(recording) PROVE ~p.diverges
    OBVIOUS
  <2>1. ~(work.index < Len(AgentSteps))
    BY <1>2
  <2> QED BY <1>1, <2>1, EndReplayIs, Zenon
<1> HIDE DEF p
<1>5. end \notin {"none", "refused"} /\ recording.end # "none"
  BY <1>1 DEF Ends
<1>6. ReplayFits(recording, lost, p)
  BY <1>1, <1>3, <1>4, <1>5 DEF ReplayFits
<1> QED BY <1>6, ReplayMoves DEF p

LEMMA ReplayStepKeeps ==
  ASSUME ReplayInv, ReplayStep
  PROVE  ReplayInv'
<1>1. /\ replayed.end = "none" /\ replayed.step # 0 /\ UNCHANGED <<recording, events, lost>>
  BY DEF ReplayStep
<1>2. replayed' = CASE Generated = "tools" -> [Dispatched EXCEPT !.step = @ + 1]
                    [] Generated = "waits" -> EndReplay(Dispatched, "awaiting_input", "waits")
                    [] Generated = "error" -> EndReplay(Asked, "failed", "error")
                    [] OTHER -> EndReplay(Asked, "success", Generated)
  BY Zenon DEF ReplayStep
<1>3. /\ Asked \in Replays /\ Asked.step = replayed.step
      /\ Dispatched \in Replays /\ Dispatched.step = replayed.step /\ Dispatched.end = "none"
      /\ Generated \in Said
  BY <1>1, AskedIs, DispatchedIs DEF Said
<1>4. /\ "awaiting_input" \in Ends /\ "failed" \in Ends /\ "success" \in Ends
      /\ "waits" \in Said /\ "error" \in Said
  BY DEF Ends, Said, Values, Answers
<1> DEFINE n == replayed.step
<1>5. ASSUME ByModel(recording)
      PROVE  /\ n \in 1..recording.step /\ recording.step \in Nat
             /\ Len(AgentSteps) = recording.step
             /\ Asked.index = n /\ ~Asked.diverges /\ Asked.consumed = 1..(n - 1)
             /\ n < recording.step => Generated = "tools" /\ n \in RecordedResults
             /\ n = recording.step =>
                  /\ Generated = recording.said
                  /\ recording.said \in {"waits", "error", "text", "empty"}
                  /\ recording.end = EndingOf(recording.said)
                  /\ RecordedResults = IF recording.said = "waits" THEN 1..n ELSE 1..(n - 1)
             /\ n \in RecordedResults =>
                  Dispatched.index = n /\ ~Dispatched.diverges /\ Dispatched.consumed = 1..n
  <2>1. /\ n \in 1..recording.step /\ recording.step \in Nat
        /\ replayed.index + 1 = n /\ Len(AgentSteps) = recording.step
        /\ replayed.index < Len(AgentSteps) /\ ~replayed.diverges
        /\ AgentSteps[replayed.index + 1].step = n
        /\ replayed.consumed = 1..(n - 1)
        /\ n < recording.step => Generated = "tools" /\ n \in RecordedResults
        /\ n = recording.step =>
             /\ Generated = recording.said
             /\ recording.said \in {"waits", "error", "text", "empty"}
             /\ recording.end = EndingOf(recording.said)
             /\ RecordedResults = IF recording.said = "waits" THEN 1..n ELSE 1..(n - 1)
    BY <1>1, <1>5, ReplayFollows
  <2>2. Asked.index = n /\ ~Asked.diverges /\ Asked.consumed = 1..(n - 1)
    BY <1>1, <2>1, AskedIs, Zenon
  <2>3. ASSUME n \in RecordedResults
        PROVE  Dispatched.index = n /\ ~Dispatched.diverges /\ Dispatched.consumed = 1..n
    <3>1. /\ Dispatched.index = replayed.index + 1 /\ Dispatched.diverges = replayed.diverges
          /\ Dispatched.consumed = replayed.consumed \cup {AgentSteps[replayed.index + 1].step}
      <4>1. AgentSteps[replayed.index + 1].step \in RecordedResults
        BY <2>1, <2>3, Zenon
      <4> QED BY <1>1, <2>1, <4>1, DispatchedIs, Zenon
    <3>2. Dispatched.index = n /\ ~Dispatched.diverges
      BY <2>1, <3>1, Zenon
    <3>3. Dispatched.consumed = 1..(n - 1) \cup {n}
      BY <2>1, <3>1, Zenon
    <3>4. 1..(n - 1) \cup {n} = 1..n
      <4> HIDE DEF n
      <4> QED BY <2>1
    <3> QED BY <3>2, <3>3, <3>4
  <2> QED BY <2>1, <2>2, <2>3
<1> HIDE DEF n
<1>6. ASSUME ByModel(recording), Generated # "tools"
      PROVE  /\ n = recording.step /\ Generated = recording.said
             /\ recording.said \in {"waits", "error", "text", "empty"}
             /\ recording.end = EndingOf(recording.said)
             /\ RecordedResults = IF recording.said = "waits" THEN 1..n ELSE 1..(n - 1)
  <2>1. ~(n < recording.step)
    BY <1>5, <1>6
  <2>2. n = recording.step
    BY <1>5, <1>6, <2>1
  <2> QED BY <1>5, <1>6, <2>2
<1>7. CASE Generated = "tools"
  <2> DEFINE p == [Dispatched EXCEPT !.step = @ + 1]
  <2>1. replayed' = p
    BY <1>2, <1>7, Zenon
  <2>2. n \in Nat /\ n # 0 /\ Dispatched.step = n /\ ~lost /\ recording.end \in Ends
    BY <1>1, <1>3, ReplayIs DEF n
  <2>3. /\ p \in Replays /\ p.step = n + 1 /\ p.end = "none" /\ p.index = Dispatched.index
        /\ p.consumed = Dispatched.consumed /\ p.diverges = Dispatched.diverges
    BY <1>3, <2>2 DEF Replays
  <2> HIDE DEF p
  <2>4. ASSUME ByModel(recording)
        PROVE  /\ ~p.diverges /\ p.index = p.step - 1 /\ p.consumed = 1..(p.step - 1)
               /\ p.step <= recording.step
    <3>1. n # recording.step
      BY <1>5, <1>7, <2>4
    <3>2. n < recording.step
      BY <1>5, <2>4, <3>1
    <3>3. Dispatched.index = n /\ ~Dispatched.diverges /\ Dispatched.consumed = 1..n
      BY <1>5, <2>4, <3>2
    <3>4. p.step - 1 = n /\ p.step <= recording.step
      BY <1>5, <2>2, <2>3, <2>4, <3>2
    <3> QED BY <2>3, <3>3, <3>4, Zenon
  <2>5. p.step # 0 /\ recording.end # "none"
    BY <2>2, <2>3 DEF Ends
  <2>6. ReplayFits(recording, lost, p)
    BY <2>2, <2>3, <2>4, <2>5 DEF ReplayFits
  <2> QED BY <1>1, <2>1, <2>6, ReplayMoves, Zenon
<1>8. CASE Generated = "waits"
  <2>1. replayed' = EndReplay(Dispatched, "awaiting_input", "waits")
    BY <1>2, <1>8, Zenon
  <2>2. ASSUME ByModel(recording)
        PROVE  /\ ~Dispatched.diverges /\ "awaiting_input" = recording.end
               /\ "waits" = recording.said /\ Dispatched.index = Len(AgentSteps)
               /\ Dispatched.consumed = RecordedResults
    <3>1. /\ n = recording.step /\ recording.said = "waits" /\ RecordedResults = 1..n
          /\ recording.end = "awaiting_input"
      BY <1>6, <1>8, <2>2 DEF EndingOf
    <3>2. n \in RecordedResults
      BY <1>5, <2>2, <3>1
    <3> QED BY <1>5, <2>2, <3>1, <3>2
  <2> QED BY <1>1, <1>3, <1>4, <2>1, <2>2, EndReplayKeeps
<1>9. CASE Generated = "error"
  <2>1. replayed' = EndReplay(Asked, "failed", "error")
    BY <1>2, <1>9, Zenon
  <2>2. ASSUME ByModel(recording)
        PROVE  /\ ~Asked.diverges /\ "failed" = recording.end
               /\ "error" = recording.said /\ Asked.index = Len(AgentSteps)
               /\ Asked.consumed = RecordedResults
    <3>1. /\ n = recording.step /\ recording.said = "error" /\ RecordedResults = 1..(n - 1)
          /\ recording.end = "failed"
      BY <1>6, <1>9, <2>2 DEF EndingOf
    <3> QED BY <1>5, <2>2, <3>1
  <2> QED BY <1>1, <1>3, <1>4, <2>1, <2>2, EndReplayKeeps
<1>10. CASE Generated \notin {"tools", "waits", "error"}
  <2>1. replayed' = EndReplay(Asked, "success", Generated)
    BY <1>2, <1>10, Zenon
  <2>2. ASSUME ByModel(recording)
        PROVE  /\ ~Asked.diverges /\ "success" = recording.end
               /\ Generated = recording.said /\ Asked.index = Len(AgentSteps)
               /\ Asked.consumed = RecordedResults
    <3>1. /\ n = recording.step /\ recording.said = Generated /\ RecordedResults = 1..(n - 1)
          /\ recording.end = "success"
      BY <1>6, <1>10, <2>2 DEF EndingOf
    <3> QED BY <1>5, <2>2, <3>1
  <2> QED BY <1>1, <1>3, <1>4, <2>1, <2>2, EndReplayKeeps
<1> QED BY <1>7, <1>8, <1>9, <1>10

\* The steps of the plan go up to one of them.
LEMMA StepsAreBounded ==
  ASSUME NEW steps \in Seq(RecordedEvents)
  PROVE  \E m \in Nat : \A k \in DOMAIN steps : steps[k].step <= m
<1> DEFINE T == {i \in 0..Len(steps) : \E m \in Nat : \A k \in 1..i : steps[k].step <= m}
<1>1. Len(steps) \in Nat /\ DOMAIN steps = 1..Len(steps)
  BY LenProperties
<1>2. 0 \in T
  <2>1. 0 \in Nat /\ \A k \in 1..0 : steps[k].step <= 0
    OBVIOUS
  <2>2. \E m \in Nat : \A k \in 1..0 : steps[k].step <= m
    BY <2>1, Zenon
  <2>3. 0 \in 0..Len(steps)
    BY <1>1
  <2> QED BY <2>2, <2>3, Zenon
<1>3. ASSUME NEW i \in 0..(Len(steps) - 1), i \in T PROVE i + 1 \in T
  <2>1. PICK m \in Nat : \A k \in 1..i : steps[k].step <= m
    BY <1>3
  <2>2. steps[i + 1].step \in Nat
    <3>1. i + 1 \in 1..Len(steps)
      BY <1>1
    <3>2. steps[i + 1] \in RecordedEvents
      BY <3>1, ElementOfSeq
    <3> QED BY <3>2 DEF RecordedEvents
  <2> DEFINE more == m + steps[i + 1].step
  <2>3. more \in Nat /\ m <= more /\ steps[i + 1].step <= more
    BY <2>2
  <2>4. \A k \in 1..i : steps[k].step \in Nat
    <3> SUFFICES ASSUME NEW k \in 1..i PROVE steps[k].step \in Nat
      OBVIOUS
    <3>1. k \in 1..Len(steps)
      BY <1>1
    <3>2. steps[k] \in RecordedEvents
      BY <3>1, ElementOfSeq
    <3> QED BY <3>2 DEF RecordedEvents
  <2> HIDE DEF more
  <2>5. \A k \in 1..i : steps[k].step <= more
    BY <2>1, <2>3, <2>4
  <2>6. \A k \in 1..(i + 1) : k \in 1..i \/ k = i + 1
    BY <1>1
  <2>7. \A k \in 1..(i + 1) : steps[k].step <= more
    BY <2>3, <2>5, <2>6
  <2>8. i + 1 \in 0..Len(steps)
    BY <1>1
  <2> QED BY <2>3, <2>7, <2>8
<1> HIDE DEF T
<1>4. \A i \in 0..Len(steps) : i \in T
  BY <1>1, <1>2, <1>3, UpTo, Zenon
<1>5. Len(steps) \in T
  BY <1>1, <1>4
<1> QED BY <1>1, <1>5 DEF T

LEMMA ReplayStepsIs ==
  ASSUME ReplayInv
  PROVE  ReplaySteps \in Nat /\ \A k \in DOMAIN AgentSteps : AgentSteps[k].step <= ReplaySteps
<1> DEFINE S == {AgentSteps[k].step : k \in DOMAIN AgentSteps} \cup {1}
<1>1. AgentSteps \in Seq(RecordedEvents)
  <2>1. events \in Seq(RecordedEvents)
    BY Zenon DEF ReplayInv, TurnFits
  <2> QED BY <2>1, NamedIs DEF AgentSteps
<1>2. \A k \in DOMAIN AgentSteps : AgentSteps[k].step \in Nat
  <2> SUFFICES ASSUME NEW k \in DOMAIN AgentSteps PROVE AgentSteps[k].step \in Nat
    OBVIOUS
  <2>1. k \in 1..Len(AgentSteps)
    BY <1>1, LenProperties
  <2>2. AgentSteps[k] \in RecordedEvents
    BY <1>1, <2>1, ElementOfSeq
  <2> QED BY <2>2 DEF RecordedEvents
<1>3. PICK m \in Nat : \A k \in DOMAIN AgentSteps : AgentSteps[k].step <= m
  BY <1>1, StepsAreBounded
<1>4. S \subseteq 0..(m + 1) /\ S # {} /\ m + 1 \in Nat
  BY <1>2, <1>3
<1>5. \A k \in DOMAIN AgentSteps : AgentSteps[k].step \in S
  OBVIOUS
<1>6. ReplaySteps = Max(S)
  BY DEF ReplaySteps
<1> HIDE DEF S
<1>7. Max(S) \in S /\ \A y \in S : y <= Max(S)
  BY <1>4, GreatestExists
<1>8. Max(S) \in Nat
  <2>1. S \subseteq Nat
    BY <1>4
  <2> QED BY <1>7, <2>1, Zenon
<1> QED BY <1>5, <1>6, <1>7, <1>8, Zenon

\* A turn that the model and its tools made has no summary at a limit.
LEMMA ReplaySummaryKeeps ==
  ASSUME ReplayInv, ReplaySummary
  PROVE  ReplayInv'
<1>1. /\ replayed.step = ReplaySteps + 1 /\ replayed.end = "none"
      /\ UNCHANGED <<recording, events, lost>>
      /\ replayed' = IF Generated = "text" THEN EndReplay(Asked, "success", "text")
                     ELSE EndReplay(Asked, "iteration_limit_exceeded", "limit")
  BY DEF ReplaySummary
<1>2. ReplaySteps \in Nat /\ \A k \in DOMAIN AgentSteps : AgentSteps[k].step <= ReplaySteps
  BY ReplayStepsIs
<1>3. replayed.step # 0
  BY <1>1, <1>2
<1>4. ASSUME ByModel(recording) PROVE FALSE
  <2> DEFINE L == recording.step
  <2>1. /\ ToldBySteps(AgentSteps, RecordedResults, recording) /\ replayed.step <= L
        /\ AgentSteps \in Seq(RecordedEvents)
    BY <1>1, <1>3, <1>4, ReplayIs
  <2>2. L \in Nat \ {0} /\ Len(AgentSteps) = L /\ AgentSteps[L].step = L
    BY <2>1, Zenon DEF ToldBySteps
  <2>3. L \in DOMAIN AgentSteps
    BY <2>1, <2>2, LenProperties
  <2>4. L <= ReplaySteps
    BY <1>2, <2>2, <2>3
  <2> HIDE DEF L
  <2> QED BY <1>1, <1>2, <2>1, <2>2, <2>4
<1>5. Asked \in Replays /\ Asked.step = replayed.step
  BY <1>1, <1>3, AskedIs
<1>6. /\ "success" \in Ends /\ "iteration_limit_exceeded" \in Ends
      /\ "text" \in Said /\ "limit" \in Said
  BY DEF Ends, Said, Values, Shown, Answers
<1>7. CASE Generated = "text"
  <2>1. replayed' = EndReplay(Asked, "success", "text")
    BY <1>1, <1>7
  <2> QED BY <1>1, <1>3, <1>4, <1>5, <1>6, <2>1, EndReplayKeeps
<1>8. CASE Generated # "text"
  <2>1. replayed' = EndReplay(Asked, "iteration_limit_exceeded", "limit")
    BY <1>1, <1>8
  <2> QED BY <1>1, <1>3, <1>4, <1>5, <1>6, <2>1, EndReplayKeeps
<1> QED BY <1>7, <1>8

-----------------------------------------------------------------------------

\* The inductive invariant of a turn and its replay
LEMMA ReplayInvIsInvariant == ReplaySpec => []ReplayInv
<1>1. ReplayInit => ReplayInv
  BY ReplayInvHolds
<1>2. ReplayInv /\ [ReplayNext]_replayVars => ReplayInv'
  <2> SUFFICES ASSUME ReplayInv, [ReplayNext]_replayVars PROVE ReplayInv'
    OBVIOUS
  <2>1. CASE Summarize BY <2>1, SummarizeKeeps
  <2>2. CASE StepWithTools BY <2>2, StepWithToolsKeeps
  <2>3. CASE StepWaits BY <2>3, StepWaitsKeeps
  <2>4. CASE StepAnswers BY <2>4, StepAnswersKeeps
  <2>5. CASE StepFollowsUp BY <2>5, StepFollowsUpKeeps
  <2>6. CASE StepFails BY <2>6, StepFailsKeeps
  <2>7. CASE StepIsCancelled BY <2>7, StepIsCancelledKeeps
  <2>8. CASE FinalSummary BY <2>8, FinalSummaryKeeps
  <2>9. CASE BeginReplay BY <2>9, BeginReplayKeeps
  <2>10. CASE ReplayStep BY <2>10, ReplayStepKeeps
  <2>11. CASE ReplaySummary BY <2>11, ReplaySummaryKeeps
  <2>12. CASE UNCHANGED replayVars
    <3>1. recording' = recording /\ events' = events /\ lost' = lost /\ replayed' = replayed
      BY <2>12 DEF replayVars
    <3> QED BY <3>1, Zenon DEF ReplayInv
  <2> QED
    BY <2>1, <2>2, <2>3, <2>4, <2>5, <2>6, <2>7, <2>8, <2>9, <2>10, <2>11, <2>12 DEF ReplayNext
<1> QED BY <1>1, <1>2, PTL DEF ReplaySpec

\* ReplayIsFaithful: a turn that the model and its tools decided is replayed without a
\* difference, and one of which the store lost an event is not replayed at all.
THEOREM ReplaysAreFaithful == ReplaySpec => []ReplayIsFaithful
<1>1. ReplayInv => ReplayIsFaithful
  <2> SUFFICES ASSUME ReplayInv PROVE ReplayIsFaithful
    OBVIOUS
  <2>1. ReplayFits(recording, lost, replayed)
    BY DEF ReplayInv
  <2>2. OfRecordedSteps <=> ByModel(recording)
    BY DEF OfRecordedSteps, ByModel
  <2> QED BY <2>1, <2>2, Zenon DEF ReplayIsFaithful, ReplayFits
<1> QED BY <1>1, ReplayInvIsInvariant, PTL

-----------------------------------------------------------------------------
(* The values of a turn and its replay (OfflineReplay) *)

ReplayPlaces == 1..MaxSteps + 1
\* What the model answered is among the answers.
AnswerEvents ==
  {e \in [name : {"response", "summary", "failed", "result", "completed"},
          step : ReplayPlaces, value : Answers \cup Ends \cup {"done"}] :
     e.name \in {"response", "failed"} => e.value \in Answers}
TurnIsBounded(r) == r.step \in ReplayPlaces /\ r.followUps \in 0..MaxFollowUps /\ r.said \in Shown
PlayIsBounded(p) == p.step <= MaxSteps + 2 /\ p.consumed \subseteq ReplayPlaces /\ p.said \in Shown
ReplayTypes == events \in Seq(AnswerEvents) /\ TurnIsBounded(recording) /\ PlayIsBounded(replayed)

LEMMA AnswerEventIs ==
  ASSUME NEW name \in {"response", "summary", "failed", "result", "completed"},
         NEW step \in ReplayPlaces, NEW value \in Answers \cup Ends \cup {"done"},
         name \in {"response", "failed"} => value \in Answers
  PROVE  Event(name, step, value) \in AnswerEvents
<1> DEFINE e == Event(name, step, value)
<1>1. e = [name |-> name, step |-> step, value |-> value]
  BY DEF Event
<1> HIDE DEF e
<1>2. e \in [name : {"response", "summary", "failed", "result", "completed"},
             step : ReplayPlaces, value : Answers \cup Ends \cup {"done"}]
  BY <1>1
<1> QED BY <1>1, <1>2 DEF AnswerEvents, e

LEMMA AnswerEventsAre ==
  ASSUME NEW past \in Seq(AnswerEvents), NEW k \in DOMAIN past
  PROVE  past[k] \in AnswerEvents
<1>1. k \in 1..Len(past)
  BY LenProperties
<1> HIDE DEF AnswerEvents
<1> QED BY <1>1, ElementOfSeq

LEMMA OneEventLess ==
  ASSUME NEW A, NEW new \in Seq(A), NEW k \in DOMAIN new
  PROVE  RemoveAt(new, k) \in Seq(A)
<1> DEFINE n == Len(new)
<1>1. n \in Nat /\ k \in 1..n /\ \A i \in 1..n : new[i] \in A
  BY LenProperties, ElementOfSeq
<1>2. RemoveAt(new, k) = SubSeq(new, 1, k - 1) \o SubSeq(new, k + 1, n)
  BY DEF RemoveAt
<1> HIDE DEF n
<1>3. SubSeq(new, 1, k - 1) \in Seq(A)
  <2>1. 1 \in Int /\ k - 1 \in Int /\ \A i \in 1..(k - 1) : new[i] \in A
    BY <1>1
  <2> QED BY <2>1, SubSeqProperties
<1>4. SubSeq(new, k + 1, n) \in Seq(A)
  <2>1. n \in Int /\ k + 1 \in Int /\ \A i \in (k + 1)..n : new[i] \in A
    BY <1>1
  <2> QED BY <2>1, SubSeqProperties
<1> QED BY <1>2, <1>3, <1>4, ConcatProperties

LEMMA RecordedAreTyped ==
  ASSUME NEW new \in Seq(AnswerEvents), events \in Seq(AnswerEvents), Record(new)
  PROVE  events' \in Seq(AnswerEvents)
<1>1. events \o new \in Seq(AnswerEvents)
  <2> HIDE DEF AnswerEvents
  <2> QED BY ConcatProperties
<1>2. ASSUME NEW k \in DOMAIN new PROVE events \o RemoveAt(new, k) \in Seq(AnswerEvents)
  <2> HIDE DEF AnswerEvents
  <2>1. RemoveAt(new, k) \in Seq(AnswerEvents)
    BY OneEventLess
  <2> QED BY <2>1, ConcatProperties
<1> QED BY <1>1, <1>2, Zenon DEF Record

LEMMA ClosedIsTyped ==
  ASSUME ReplayTypes, NEW new \in Seq(AnswerEvents), NEW end \in Ends, NEW said \in Shown,
         recording \in RecordedTurns, CloseTurn(new, end, said), replayed' = replayed
  PROVE  ReplayTypes'
<1>1. events \in Seq(AnswerEvents) /\ TurnIsBounded(recording) /\ PlayIsBounded(replayed)
  BY DEF ReplayTypes
<1>2. \A whole : Completed(whole, end) \in AnswerEvents
  <2> SUFFICES ASSUME NEW whole PROVE Completed(whole, end) \in AnswerEvents
    OBVIOUS
  <2> DEFINE value == IF whole THEN end ELSE "done"
  <2>1. recording.step \in ReplayPlaces
    BY <1>1 DEF TurnIsBounded
  <2>2. value \in Answers \cup Ends \cup {"done"}
    BY Zenon
  <2>3. Completed(whole, end) = Event("completed", recording.step, value)
    BY DEF Completed
  <2> HIDE DEF value
  <2> QED BY <2>1, <2>2, <2>3, AnswerEventIs
<1> HIDE DEF AnswerEvents
<1>3. ASSUME NEW more \in Seq(AnswerEvents), NEW whole
      PROVE  /\ events \o more \in Seq(AnswerEvents)
             /\ events \o more \o <<Completed(whole, end)>> \in Seq(AnswerEvents)
  <2>1. events \o more \in Seq(AnswerEvents) /\ <<Completed(whole, end)>> \in Seq(AnswerEvents)
    BY <1>1, <1>2, ConcatProperties
  <2> QED BY <2>1, ConcatProperties
<1>4. \A k \in DOMAIN new : RemoveAt(new, k) \in Seq(AnswerEvents)
  BY OneEventLess
<1>5. events' \in Seq(AnswerEvents)
  BY <1>3, <1>4, Zenon DEF CloseTurn
<1>6. recording' = [recording EXCEPT !.end = end, !.said = said]
  BY Zenon DEF CloseTurn
<1> DEFINE r == recording'
<1>7. r.step = recording.step /\ r.followUps = recording.followUps /\ r.said = said
  BY <1>6 DEF RecordedTurns
<1>8. TurnIsBounded(r)
  BY <1>1, <1>7 DEF TurnIsBounded
<1>9. TurnIsBounded(recording)'
  BY <1>8 DEF TurnIsBounded
<1>10. PlayIsBounded(replayed)'
  BY <1>1 DEF PlayIsBounded
<1> QED BY <1>5, <1>9, <1>10 DEF ReplayTypes

\* The steps of the turn that leave it under way.
LEMMA TurnStaysTyped ==
  ASSUME ReplayTypes, NEW new \in Seq(AnswerEvents), Record(new), replayed' = replayed,
         TurnIsBounded(recording')
  PROVE  ReplayTypes'
<1>1. events' \in Seq(AnswerEvents)
  BY RecordedAreTyped DEF ReplayTypes
<1>2. PlayIsBounded(replayed)'
  BY DEF ReplayTypes, PlayIsBounded
<1>3. TurnIsBounded(recording)'
  BY DEF TurnIsBounded
<1> QED BY <1>1, <1>2, <1>3 DEF ReplayTypes

\* What is named is what has one of the names.
LEMMA NamedAre ==
  ASSUME NEW names, NEW past \in Seq(RecordedEvents)
  PROVE  Named(names, past) \in Seq({e \in Range(past) : e.name \in names})
<1> DEFINE A == {e \in Range(past) : e.name \in names}
           f == FoundIn(names, past)
           n == Len(past)
           T == {i \in 0..n : f[i] \in Seq(A)}
<1>1. /\ Named(names, past) = f[n] /\ f[0] = <<>>
      /\ \A i \in 1..n : f[i] = IF past[i].name \in names THEN Append(f[i - 1], past[i]) ELSE f[i - 1]
  BY FoundIs
<1>2. n \in Nat /\ DOMAIN past = 1..n
  BY LenProperties
<1>3. \A i \in 1..n : past[i].name \in names => past[i] \in A
  BY <1>2 DEF Range
<1> HIDE DEF f, A, n
<1>4. 0 \in T
  <2>1. 0 \in 0..n
    BY <1>2
  <2>2. <<>> \in Seq(A)
    OBVIOUS
  <2>3. f[0] \in Seq(A)
    BY <1>1, <2>2
  <2> QED BY <2>1, <2>3
<1>5. ASSUME NEW i \in 0..(n - 1), i \in T PROVE i + 1 \in T
  <2>1. i + 1 \in 1..n /\ (i + 1) - 1 = i /\ i + 1 \in 0..n
    BY <1>2
  <2>2. f[i] \in Seq(A)
    BY <1>5
  <2>3. f[i + 1] = IF past[i + 1].name \in names THEN Append(f[i], past[i + 1]) ELSE f[i]
    BY <1>1, <2>1
  <2>4. f[i + 1] \in Seq(A)
    <3>1. CASE past[i + 1].name \in names
      <4>1. past[i + 1] \in A
        BY <1>3, <2>1, <3>1
      <4>2. Append(f[i], past[i + 1]) \in Seq(A)
        BY <2>2, <4>1, AppendProperties
      <4> QED BY <2>3, <3>1, <4>2
    <3>2. CASE ~(past[i + 1].name \in names)
      BY <2>2, <2>3, <3>2
    <3> QED BY <3>1, <3>2
  <2> QED BY <2>1, <2>4
<1> HIDE DEF T
<1>6. \A i \in 0..n : i \in T
  BY <1>2, <1>4, <1>5, UpTo, Zenon
<1>7. n \in T
  BY <1>2, <1>6
<1> QED BY <1>1, <1>7 DEF T, A

\* What the plan takes out of the events
LEMMA PlanIsTyped ==
  ASSUME ReplayAssumption, ReplayInv, ReplayTypes
  PROVE  /\ \A k \in DOMAIN AgentSteps :
              AgentSteps[k].step \in ReplayPlaces /\ AgentSteps[k].value \in Answers
         /\ RecordedResults \subseteq ReplayPlaces
         /\ ReplaySteps \in ReplayPlaces /\ Generated \in Answers
<1>1. events \in Seq(AnswerEvents) /\ events \in Seq(RecordedEvents)
  BY Zenon DEF ReplayTypes, ReplayInv, TurnFits
<1> DEFINE A == {e \in Range(events) : e.name \in {"response", "failed"}}
           n == Len(AgentSteps)
<1>2. AgentSteps \in Seq(A)
  BY <1>1, NamedAre DEF AgentSteps
<1>3. \A e \in A : e.step \in ReplayPlaces /\ e.value \in Answers
  <2> SUFFICES ASSUME NEW e \in A PROVE e.step \in ReplayPlaces /\ e.value \in Answers
    OBVIOUS
  <2>1. PICK k \in DOMAIN events : e = events[k]
    BY DEF Range
  <2>2. e \in AnswerEvents
    BY <1>1, <2>1, AnswerEventsAre
  <2> QED BY <2>2 DEF AnswerEvents
<1> HIDE DEF A
<1>4. n \in Nat /\ DOMAIN AgentSteps = 1..n
  BY <1>2, LenProperties
<1>5. \A k \in 1..n : AgentSteps[k] \in A
  BY <1>2, ElementOfSeq
<1>6. \A k \in DOMAIN AgentSteps :
        AgentSteps[k].step \in ReplayPlaces /\ AgentSteps[k].value \in Answers
  BY <1>3, <1>4, <1>5
<1>7. RecordedResults \subseteq ReplayPlaces
  <2>1. \A k \in DOMAIN events : events[k].step \in ReplayPlaces
    BY <1>1, AnswerEventsAre DEF AnswerEvents
  <2> QED BY <2>1 DEF RecordedResults
<1>8. ReplaySteps \in ReplayPlaces
  <2> DEFINE S == {AgentSteps[k].step : k \in DOMAIN AgentSteps} \cup {1}
  <2>1. MaxSteps + 1 \in Nat /\ 1 \in ReplayPlaces /\ ReplayPlaces \subseteq 0..(MaxSteps + 1)
    BY DEF ReplayAssumption, ReplayPlaces
  <2>2. S \subseteq ReplayPlaces /\ S # {}
    BY <1>6, <2>1
  <2>3. ReplaySteps = Max(S)
    BY DEF ReplaySteps
  <2> HIDE DEF S
  <2>4. S \subseteq 0..(MaxSteps + 1)
    BY <2>1, <2>2
  <2>5. Max(S) \in S
    BY <2>1, <2>2, <2>4, GreatestExists
  <2> QED BY <2>2, <2>3, <2>5
<1>9. Generated \in Answers
  <2>1. CASE replayed.index < n
    <3>1. replayed.index \in Nat
      BY Zenon DEF ReplayInv, ReplayFits, Replays
    <3>2. replayed.index + 1 \in DOMAIN AgentSteps
      BY <1>4, <2>1, <3>1
    <3> QED BY <1>6, <2>1, <3>2 DEF Generated
  <2>2. CASE ~(replayed.index < n)
    BY <2>2 DEF Generated, Answers
  <2> QED BY <2>1, <2>2
<1> QED BY <1>6, <1>7, <1>8, <1>9

LEMMA PlayMoves ==
  ASSUME ReplayTypes, NEW p, PlayIsBounded(p), replayed' = p, UNCHANGED <<recording, events, lost>>
  PROVE  ReplayTypes'
<1>1. PlayIsBounded(replayed)'
  BY DEF PlayIsBounded
<1>2. TurnIsBounded(recording)'
  BY DEF TurnIsBounded, ReplayTypes
<1> QED BY <1>1, <1>2 DEF ReplayTypes

\* What is played of a turn, and how it ends
LEMMA PlayedIsTyped ==
  ASSUME ReplayAssumption, ReplayInv, ReplayTypes, replayed.step # 0, replayed.end = "none"
  PROVE  /\ PlayIsBounded(Asked) /\ PlayIsBounded(Dispatched)
         /\ \A work \in Replays, end \in Ends, said \in Shown :
              PlayIsBounded(work) => PlayIsBounded(EndReplay(work, end, said))
<1>1. replayed \in Replays /\ PlayIsBounded(replayed) /\ RecordedResults \subseteq ReplayPlaces
  BY PlanIsTyped, ReplayIs DEF ReplayTypes
<1>2. Asked \in Replays
  BY AskedIs
<1>3. /\ Asked.step = replayed.step /\ Asked.consumed = replayed.consumed
      /\ Asked.said = replayed.said
  BY <1>1 DEF Asked, Replays
<1>4. PlayIsBounded(Asked)
  BY <1>1, <1>3 DEF PlayIsBounded
<1>5. PlayIsBounded(Dispatched)
  <2> DEFINE at == IF replayed.index < Len(AgentSteps) THEN AgentSteps[replayed.index + 1].step ELSE 1
             consumed == Asked.consumed \cup ({at} \cap RecordedResults)
             off == Asked.diverges \/ at \notin RecordedResults
  <2>1. Dispatched = [Asked EXCEPT !.consumed = consumed, !.diverges = off]
    BY DEF Dispatched
  <2>2. consumed \subseteq ReplayPlaces
    BY <1>1, <1>4 DEF PlayIsBounded
  <2> HIDE DEF consumed, off
  <2>3. /\ Dispatched.step = Asked.step /\ Dispatched.consumed = consumed
        /\ Dispatched.said = Asked.said
    BY <1>2, <2>1 DEF Replays
  <2> QED BY <1>4, <2>2, <2>3 DEF PlayIsBounded
<1>6. ASSUME NEW work \in Replays, NEW end \in Ends, NEW said \in Shown, PlayIsBounded(work)
      PROVE  PlayIsBounded(EndReplay(work, end, said))
  <2> DEFINE e == EndReplay(work, end, said)
  <2>1. e.step = work.step /\ e.consumed = work.consumed /\ e.said = said
    BY DEF EndReplay, Replays
  <2> HIDE DEF e
  <2>2. PlayIsBounded(e)
    BY <1>6, <2>1 DEF PlayIsBounded
  <2> QED BY <2>2 DEF e
<1> QED BY <1>4, <1>5, <1>6

LEMMA ReplayStepIsTyped ==
  ASSUME ReplayAssumption, ReplayInv, ReplayTypes, ReplayStep
  PROVE  ReplayTypes'
<1>1. /\ replayed.step \in 1..ReplaySteps /\ replayed.end = "none" /\ UNCHANGED <<recording, events, lost>>
  BY DEF ReplayStep
<1>2. ReplaySteps \in ReplayPlaces /\ Generated \in Answers /\ replayed.step # 0
  BY <1>1, PlanIsTyped
<1>3. /\ Asked \in Replays /\ Dispatched \in Replays /\ Dispatched.step = replayed.step
      /\ PlayIsBounded(Asked) /\ PlayIsBounded(Dispatched)
      /\ \A work \in Replays, end \in Ends, said \in Shown :
           PlayIsBounded(work) => PlayIsBounded(EndReplay(work, end, said))
  BY <1>1, <1>2, AskedIs, DispatchedIs, PlayedIsTyped
<1>4. /\ "awaiting_input" \in Ends /\ "failed" \in Ends /\ "success" \in Ends
      /\ "waits" \in Shown /\ "error" \in Shown /\ Generated \in Shown
  BY <1>2 DEF Ends, Shown, Answers
<1>5. PlayIsBounded([Dispatched EXCEPT !.step = @ + 1])
  <2> DEFINE d == Dispatched
             p == [d EXCEPT !.step = d.step + 1]
  <2>1. d \in Replays /\ PlayIsBounded(d) /\ d.step \in 1..ReplaySteps
    BY <1>1, <1>3
  <2> HIDE DEF d
  <2>2. p.step = d.step + 1 /\ p.consumed = d.consumed /\ p.said = d.said
    BY <2>1 DEF Replays
  <2>3. MaxSteps \in Nat /\ ReplaySteps \in Nat /\ ReplaySteps <= MaxSteps + 1
    BY <1>2 DEF ReplayAssumption, ReplayPlaces
  <2>4. d.step + 1 <= MaxSteps + 2
    BY <2>1, <2>3
  <2> HIDE DEF p
  <2>5. PlayIsBounded(p)
    BY <2>1, <2>2, <2>4 DEF PlayIsBounded
  <2> QED BY <2>5 DEF p, d
<1>6. PICK p : replayed' = p /\ PlayIsBounded(p)
  <2>1. CASE Generated = "tools"
    BY <1>5, <2>1, Zenon DEF ReplayStep
  <2>2. CASE Generated = "waits"
    <3>1. replayed' = EndReplay(Dispatched, "awaiting_input", "waits")
      BY <2>2 DEF ReplayStep
    <3> QED BY <1>3, <1>4, <3>1
  <2>3. CASE Generated = "error"
    <3>1. replayed' = EndReplay(Asked, "failed", "error")
      BY <2>3 DEF ReplayStep
    <3> QED BY <1>3, <1>4, <3>1
  <2>4. CASE Generated \notin {"tools", "waits", "error"}
    <3>1. replayed' = EndReplay(Asked, "success", Generated)
      BY <2>4 DEF ReplayStep
    <3> QED BY <1>3, <1>4, <3>1
  <2> QED BY <2>1, <2>2, <2>3, <2>4
<1> QED BY <1>1, <1>6, PlayMoves

LEMMA ReplaySummaryIsTyped ==
  ASSUME ReplayAssumption, ReplayInv, ReplayTypes, ReplaySummary
  PROVE  ReplayTypes'
<1>1. /\ replayed.step = ReplaySteps + 1 /\ replayed.end = "none"
      /\ UNCHANGED <<recording, events, lost>>
      /\ replayed' = IF Generated = "text" THEN EndReplay(Asked, "success", "text")
                     ELSE EndReplay(Asked, "iteration_limit_exceeded", "limit")
  BY DEF ReplaySummary
<1>2. ReplaySteps \in Nat
  BY ReplayStepsIs
<1>3. replayed.step # 0
  BY <1>1, <1>2
<1>4. /\ Asked \in Replays /\ PlayIsBounded(Asked)
      /\ \A work \in Replays, end \in Ends, said \in Shown :
           PlayIsBounded(work) => PlayIsBounded(EndReplay(work, end, said))
  BY <1>1, <1>3, AskedIs, PlayedIsTyped
<1>5. /\ "success" \in Ends /\ "iteration_limit_exceeded" \in Ends
      /\ "text" \in Shown /\ "limit" \in Shown
  BY DEF Ends, Shown, Answers
<1>6. PICK p : replayed' = p /\ PlayIsBounded(p)
  BY <1>1, <1>4, <1>5
<1> QED BY <1>1, <1>6, PlayMoves

LEMMA BeginReplayIsTyped ==
  ASSUME ReplayAssumption, ReplayTypes, BeginReplay
  PROVE  ReplayTypes'
<1>1. /\ replayed = NotReplayed /\ UNCHANGED <<recording, events, lost>>
      /\ replayed' = IF Plannable THEN [replayed EXCEPT !.step = 1]
                     ELSE [replayed EXCEPT !.end = "refused"]
  BY DEF BeginReplay
<1>2. MaxSteps \in Nat
  BY DEF ReplayAssumption
<1>3. /\ PlayIsBounded([NotReplayed EXCEPT !.step = 1])
      /\ PlayIsBounded([NotReplayed EXCEPT !.end = "refused"])
  BY <1>2 DEF NotReplayed, PlayIsBounded, Shown, Answers
<1>4. PICK p : replayed' = p /\ PlayIsBounded(p)
  BY <1>1, <1>3
<1> QED BY <1>1, <1>4, PlayMoves

LEMMA RecordingIsTyped ==
  ASSUME ReplayAssumption, ReplayInv, ReplayTypes,
         \/ Summarize \/ StepWithTools \/ StepWaits \/ StepAnswers \/ StepFollowsUp \/ StepFails
         \/ StepIsCancelled \/ FinalSummary
  PROVE  ReplayTypes'
<1>1. recording \in RecordedTurns /\ TurnIsBounded(recording) /\ replayed' = replayed
  <2>1. recording \in RecordedTurns
    BY Zenon DEF ReplayInv, TurnFits
  <2> QED BY <2>1 DEF ReplayTypes, Summarize, StepWithTools, StepWaits, StepAnswers, StepFollowsUp,
                     StepFails, StepIsCancelled, FinalSummary
<1> DEFINE at == recording.step
<1>2. at \in ReplayPlaces
  BY <1>1 DEF TurnIsBounded
<1>3. \A answer \in Answers : Response(answer) \in AnswerEvents
  <2> SUFFICES ASSUME NEW answer \in Answers PROVE Response(answer) \in AnswerEvents
    OBVIOUS
  <2>1. Response(answer) = Event("response", at, answer)
    BY DEF Response
  <2> HIDE DEF at
  <2> QED BY <1>2, <2>1, AnswerEventIs
<1>4. /\ Event("summary", at, "text") \in AnswerEvents /\ Event("failed", at, "error") \in AnswerEvents
      /\ Event("result", at, "done") \in AnswerEvents /\ Event("result", at, "waits") \in AnswerEvents
  <2> HIDE DEF at
  <2>1. "text" \in Answers /\ "error" \in Answers /\ "waits" \in Answers
    BY DEF Answers
  <2> QED BY <1>2, <2>1, AnswerEventIs
<1>5. /\ "tools" \in Answers /\ "waits" \in Answers /\ "text" \in Answers /\ "empty" \in Answers
      /\ \A said \in Answers \cup {"limit", "cancelled"} : said \in Shown
      /\ "awaiting_input" \in Ends /\ "success" \in Ends /\ "failed" \in Ends /\ "cancelled" \in Ends
      /\ "iteration_limit_exceeded" \in Ends /\ "error" \in Answers
  BY DEF Answers, Shown, Ends
<1>6. /\ <<>> \in Seq(AnswerEvents) /\ \A a \in AnswerEvents : <<a>> \in Seq(AnswerEvents)
      /\ \A a, b \in AnswerEvents : <<a, b>> \in Seq(AnswerEvents)
  <2> HIDE DEF AnswerEvents
  <2> QED OBVIOUS
<1>7. ASSUME NEW r, r.step = at, TurnIsBounded(recording), r.followUps = recording.followUps,
             r.said = recording.said
      PROVE  TurnIsBounded(r)
  BY <1>7 DEF TurnIsBounded
<1>8. ASSUME InLoop, NEW r, r.step = at + 1, r.said = recording.said,
             r.followUps \in 0..MaxFollowUps
      PROVE  TurnIsBounded(r)
  <2>1. at <= MaxSteps /\ MaxSteps \in Nat
    BY <1>8 DEF InLoop, ReplayAssumption
  <2>2. at + 1 \in ReplayPlaces
    BY <1>2, <2>1 DEF ReplayPlaces
  <2> QED BY <1>1, <1>8, <2>2 DEF TurnIsBounded
<1>9. CASE Summarize
  <2>1. Record(<<Event("summary", at, "text")>>) /\ recording' = recording
    BY <1>9 DEF Summarize
  <2> HIDE DEF AnswerEvents
  <2>2. <<Event("summary", at, "text")>> \in Seq(AnswerEvents)
    BY <1>4, <1>6, Zenon
  <2>3. TurnIsBounded(recording')
    BY <1>1, <2>1
  <2> QED BY <1>1, <2>1, <2>2, <2>3, TurnStaysTyped
<1>10. CASE StepWithTools
  <2>1. /\ InLoop /\ recording' = [recording EXCEPT !.step = @ + 1]
        /\ Record(<<Response("tools"), Event("result", at, "done")>>)
    BY <1>10 DEF StepWithTools
  <2>2. <<Response("tools"), Event("result", at, "done")>> \in Seq(AnswerEvents)
    <3> HIDE DEF AnswerEvents
    <3> QED BY <1>3, <1>4, <1>5, <1>6, Zenon
  <2> DEFINE r == recording'
  <2>3. r.step = at + 1 /\ r.said = recording.said /\ r.followUps = recording.followUps
    BY <1>1, <2>1 DEF RecordedTurns
  <2>4. r.followUps \in 0..MaxFollowUps
    BY <1>1, <2>3 DEF TurnIsBounded
  <2> HIDE DEF at, r
  <2>5. TurnIsBounded(r)
    BY <1>8, <2>1, <2>3, <2>4
  <2> HIDE DEF AnswerEvents
  <2> QED BY <1>1, <2>1, <2>2, <2>5, TurnStaysTyped DEF r
<1>11. CASE StepWaits
  <2>1. CloseTurn(<<Response("waits"), Event("result", at, "waits")>>, "awaiting_input", "waits")
    BY <1>11 DEF StepWaits
  <2>2. <<Response("waits"), Event("result", at, "waits")>> \in Seq(AnswerEvents)
    <3> HIDE DEF AnswerEvents
    <3> QED BY <1>3, <1>4, <1>5, <1>6, Zenon
  <2> HIDE DEF AnswerEvents
  <2> QED BY <1>1, <1>5, <2>1, <2>2, ClosedIsTyped
<1>12. CASE StepAnswers
  <2>1. PICK answer \in {"text", "empty"} : CloseTurn(<<Response(answer)>>, "success", answer)
    BY <1>12 DEF StepAnswers
  <2>2. answer \in Answers /\ answer \in Shown
    BY <1>5
  <2>3. <<Response(answer)>> \in Seq(AnswerEvents)
    <3> HIDE DEF AnswerEvents
    <3> QED BY <1>3, <1>6, <2>2, Zenon
  <2> HIDE DEF AnswerEvents
  <2> QED BY <1>1, <1>5, <2>1, <2>2, <2>3, ClosedIsTyped
<1>13. CASE StepFollowsUp
  <2>1. /\ InLoop /\ recording.followUps < MaxFollowUps
        /\ recording' = [recording EXCEPT !.step = @ + 1, !.followUps = @ + 1]
        /\ Record(<<Response("text")>>)
    BY <1>13 DEF StepFollowsUp
  <2>2. <<Response("text")>> \in Seq(AnswerEvents)
    <3> HIDE DEF AnswerEvents
    <3> QED BY <1>3, <1>5, <1>6, Zenon
  <2> DEFINE r == recording'
  <2>3. r.step = at + 1 /\ r.said = recording.said /\ r.followUps = recording.followUps + 1
    BY <1>1, <2>1 DEF RecordedTurns
  <2>4. r.followUps \in 0..MaxFollowUps
    <3>1. recording.followUps \in Nat /\ MaxFollowUps \in Nat
      BY <1>1 DEF RecordedTurns, ReplayAssumption
    <3> QED BY <2>1, <2>3, <3>1
  <2> HIDE DEF at, r
  <2>5. TurnIsBounded(r)
    BY <1>8, <2>1, <2>3, <2>4
  <2> HIDE DEF AnswerEvents
  <2> QED BY <1>1, <2>1, <2>2, <2>5, TurnStaysTyped DEF r
<1>14. CASE StepFails
  <2>1. CloseTurn(<<Event("failed", at, "error")>>, "failed", "error")
    BY <1>14 DEF StepFails
  <2>2. <<Event("failed", at, "error")>> \in Seq(AnswerEvents)
    <3> HIDE DEF AnswerEvents
    <3> QED BY <1>4, <1>6, Zenon
  <2> HIDE DEF AnswerEvents
  <2> QED BY <1>1, <1>5, <2>1, <2>2, ClosedIsTyped
<1>15. CASE StepIsCancelled
  <2>1. CloseTurn(<<>>, "cancelled", "cancelled") \/ CloseTurn(<<>>, "failed", "limit")
    BY <1>15 DEF StepIsCancelled
  <2> HIDE DEF AnswerEvents
  <2> QED BY <1>1, <1>5, <1>6, <2>1, ClosedIsTyped
<1>16. CASE FinalSummary
  <2>1. \/ CloseTurn(<<Response("text")>>, "success", "text")
        \/ \E answer \in {"empty", "tools"} :
             CloseTurn(<<Response(answer)>>, "iteration_limit_exceeded", "limit")
        \/ CloseTurn(<<>>, "iteration_limit_exceeded", "limit")
    BY <1>16 DEF FinalSummary
  <2>2. \A answer \in {"text", "empty", "tools"} : <<Response(answer)>> \in Seq(AnswerEvents)
    <3> HIDE DEF AnswerEvents
    <3> QED BY <1>3, <1>5, <1>6
  <2> HIDE DEF AnswerEvents
  <2> QED BY <1>1, <1>5, <1>6, <2>1, <2>2, ClosedIsTyped
<1> QED BY <1>9, <1>10, <1>11, <1>12, <1>13, <1>14, <1>15, <1>16

LEMMA ReplaysKeepTypes == ReplaySpec => []ReplayTypeOK
<1>1. ReplayInit => ReplayTypes
  <2> SUFFICES ASSUME ReplayInit PROVE ReplayTypes
    OBVIOUS
  <2>1. MaxSteps \in Nat \ {0} /\ MaxFollowUps \in Nat
    BY ReplayAssumption DEF ReplayAssumption
  <2>2. events \in Seq(AnswerEvents)
    BY DEF ReplayInit
  <2>3. TurnIsBounded(Running) /\ PlayIsBounded(NotReplayed)
    BY <2>1 DEF Running, NotReplayed, TurnIsBounded, PlayIsBounded, Shown, Answers, ReplayPlaces
  <2> QED BY <2>2, <2>3, Zenon DEF ReplayInit, ReplayTypes
<1>2. ReplayInv /\ ReplayTypes /\ [ReplayNext]_replayVars => ReplayTypes'
  <2> SUFFICES ASSUME ReplayInv, ReplayTypes, [ReplayNext]_replayVars PROVE ReplayTypes'
    OBVIOUS
  <2>1. CASE \/ Summarize \/ StepWithTools \/ StepWaits \/ StepAnswers \/ StepFollowsUp \/ StepFails
             \/ StepIsCancelled \/ FinalSummary
    BY <2>1, ReplayAssumption, RecordingIsTyped
  <2>2. CASE BeginReplay
    BY <2>2, ReplayAssumption, BeginReplayIsTyped
  <2>3. CASE ReplayStep
    BY <2>3, ReplayAssumption, ReplayStepIsTyped
  <2>4. CASE ReplaySummary
    BY <2>4, ReplayAssumption, ReplaySummaryIsTyped
  <2>5. CASE UNCHANGED replayVars
    BY <2>5 DEF replayVars, ReplayTypes, TurnIsBounded, PlayIsBounded
  <2> QED BY <2>1, <2>2, <2>3, <2>4, <2>5 DEF ReplayNext
<1>3. ReplayInv /\ ReplayTypes => ReplayTypeOK
  <2> SUFFICES ASSUME ReplayInv, ReplayTypes PROVE ReplayTypeOK
    OBVIOUS
  <2>1. /\ recording \in RecordedTurns /\ lost \in BOOLEAN /\ replayed \in Replays
        /\ events \in Seq(AnswerEvents) /\ TurnIsBounded(recording) /\ PlayIsBounded(replayed)
    BY Zenon DEF ReplayInv, TurnFits, ReplayFits, ReplayTypes
  <2>2. recording \in [step : 1..MaxSteps + 1, followUps : 0..MaxFollowUps,
                       end : Ends \cup {"none"}, said : Shown]
    BY <2>1 DEF RecordedTurns, TurnIsBounded, ReplayPlaces
  <2>3. replayed \in [step : 0..MaxSteps + 2, index : Nat, consumed : SUBSET (1..MaxSteps + 1),
                      diverges : BOOLEAN, end : Ends \cup {"none", "refused"}, said : Shown]
    <3>1. MaxSteps \in Nat
      BY ReplayAssumption DEF ReplayAssumption
    <3>2. replayed.step \in 0..MaxSteps + 2
      BY <2>1, <3>1 DEF Replays, PlayIsBounded
    <3> QED BY <2>1, <3>2 DEF Replays, PlayIsBounded, ReplayPlaces
  <2>4. events \in Seq([name : {"response", "summary", "failed", "result", "completed"},
                        step : 1..MaxSteps + 1, value : Answers \cup Ends \cup {"done"}])
    <3> DEFINE E == [name : {"response", "summary", "failed", "result", "completed"},
                     step : 1..MaxSteps + 1, value : Answers \cup Ends \cup {"done"}]
    <3>1. \A k \in 1..Len(events) : events[k] \in E
      <4>1. \A k \in 1..Len(events) : events[k] \in AnswerEvents
        <5> HIDE DEF AnswerEvents
        <5> QED BY <2>1, ElementOfSeq
      <4> QED BY <4>1 DEF AnswerEvents, ReplayPlaces
    <3> HIDE DEF E
    <3>2. Len(events) \in Nat /\ events \in [1..Len(events) -> AnswerEvents]
      <4> HIDE DEF AnswerEvents
      <4> QED BY <2>1, LenProperties
    <3>3. events \in [1..Len(events) -> E]
      BY <3>1, <3>2
    <3>4. events \in Seq(E)
      BY <3>2, <3>3
    <3> QED BY <3>4 DEF E
  <2> QED BY <2>1, <2>2, <2>3, <2>4 DEF ReplayTypeOK
<1> QED BY <1>1, <1>2, <1>3, ReplayInvIsInvariant, PTL DEF ReplaySpec

-----------------------------------------------------------------------------
(* The search of other sessions (SessionRecall) *)

RecallPhases ==
  {"idle", "matched", "walk", "taken", "before", "after", "found", "total", "done"}
Views == [session : Sessions, shown : SUBSET Nat, before : Nat, after : Nat]
Recalls == [phase : RecallPhases, asker : Sessions \cup {NoSession}, prior : BOOLEAN,
            asked : Nat, excluded : Sessions \cup {NoSession}, rows : Seq(Nat),
            view : SUBSET Nat, views : Seq(Views)]
StoredMessages == Seq([session : Sessions, matches : BOOLEAN])
Lineages == [Sessions -> [user : Users, parent : Sessions \cup {NoSession}]]

IdsOf(msgs, s) == {id \in 1..Len(msgs) : msgs[id].session = s}
RootOf(kin, s) == IF kin[s].parent # NoSession THEN kin[s].parent ELSE s
Gapless(shown, ids) == \A a, b \in shown, id \in ids : a < id /\ id < b => id \in shown
AskedOf(msgs, r, s) == {id \in IdsOf(msgs, s) : id <= r.asked}

\* The session s may be shown to who asks in r.
Foreign(kin, r, s) ==
  kin[s].parent = NoSession /\ (r.prior => s # r.asker /\ s # RootOf(kin, r.asker))
RowsFit(kin, msgs, r) ==
  \A k \in DOMAIN r.rows :
    /\ r.rows[k] \in 1..Len(msgs) /\ kin[msgs[r.rows[k]].session].parent = NoSession
    /\ r.phase # "matched" /\ msgs[r.rows[k]].session # r.excluded =>
         Foreign(kin, r, msgs[r.rows[k]].session)
ViewsFit(kin, msgs, r) ==
  \A k \in DOMAIN r.views :
    /\ Foreign(kin, r, r.views[k].session)
    /\ r.views[k].shown \subseteq IdsOf(msgs, r.views[k].session)
    /\ Gapless(r.views[k].shown, IdsOf(msgs, r.views[k].session))
    /\ r.phase \notin {"found", "total"} =>
         Cardinality(AskedOf(msgs, r, r.views[k].session))
           <= r.views[k].before + Cardinality(r.views[k].shown) + r.views[k].after
    /\ \A j \in DOMAIN r.views : j # k => r.views[j].session # r.views[k].session
\* The session whose message is being read has no view yet.
ReadingFits(kin, msgs, r) ==
  r.phase \in {"taken", "before", "after"} =>
    /\ r.rows # <<>> /\ Foreign(kin, r, msgs[r.rows[1]].session)
    /\ \A k \in DOMAIN r.views : r.views[k].session # msgs[r.rows[1]].session
\* A window grows around its message.
WindowFits(msgs, r) ==
  /\ r.phase = "before" =>
       /\ r.view \subseteq IdsOf(msgs, msgs[r.rows[1]].session) /\ r.rows[1] \in r.view
       /\ \A id \in r.view : id <= r.rows[1]
       /\ \A a \in r.view, id \in IdsOf(msgs, msgs[r.rows[1]].session) :
            a < id /\ id <= r.rows[1] => id \in r.view
  /\ r.phase = "after" =>
       /\ r.view \subseteq IdsOf(msgs, msgs[r.rows[1]].session) /\ r.rows[1] \in r.view
       /\ Gapless(r.view, IdsOf(msgs, msgs[r.rows[1]].session))
\* A session that is read from its beginning
BeginningFits(msgs, r) ==
  /\ r.phase \in {"found", "total"} =>
       r.rows = <<>> /\ Len(r.views) = 1 /\ r.views[1].shown = {} /\ r.views[1].before = 0
  /\ r.phase = "total" =>
       Cardinality(AskedOf(msgs, r, r.views[1].session)) <= r.views[1].after
RecallTypes(kin, msgs, r) ==
  /\ kin \in Lineages /\ msgs \in StoredMessages /\ r \in Recalls /\ r.asked <= Len(msgs)
  /\ r.phase = "idle" => r = NoRecall
  /\ r.phase # "idle" => r.asker \in Sessions
RecallFits(kin, msgs, r) ==
  /\ RecallTypes(kin, msgs, r) /\ RowsFit(kin, msgs, r) /\ ViewsFit(kin, msgs, r)
  /\ ReadingFits(kin, msgs, r) /\ WindowFits(msgs, r) /\ BeginningFits(msgs, r)
RecallInv == RecallFits(sessions, stored, recall)

LEMMA MessagesOf ==
  ASSUME NEW msgs \in StoredMessages, NEW s
  PROVE  /\ IdsOf(msgs, s) \subseteq 1..Len(msgs) /\ IdsOf(msgs, s) \subseteq Nat
         /\ Len(msgs) \in Nat
         /\ IsFiniteSet(IdsOf(msgs, s)) /\ Cardinality(IdsOf(msgs, s)) \in Nat
<1>1. Len(msgs) \in Nat
  BY LenProperties DEF StoredMessages
<1>2. IdsOf(msgs, s) \subseteq 1..Len(msgs)
  BY DEF IdsOf
<1>3. IsFiniteSet(1..Len(msgs))
  <2>1. 1 \in Int /\ Len(msgs) \in Int
    BY <1>1
  <2> QED BY <2>1, FS_Interval
<1>4. IsFiniteSet(IdsOf(msgs, s))
  BY <1>2, <1>3, FS_Subset
<1>5. Cardinality(IdsOf(msgs, s)) \in Nat
  BY <1>4, FS_CardinalityType
<1> QED BY <1>1, <1>2, <1>4, <1>5

\* A part of a finite set of messages, and its size
LEMMA PartOf ==
  ASSUME NEW T, IsFiniteSet(T), NEW S, S \subseteq T
  PROVE  IsFiniteSet(S) /\ Cardinality(S) \in Nat /\ Cardinality(S) <= Cardinality(T)
<1>1. IsFiniteSet(S) /\ Cardinality(S) <= Cardinality(T)
  BY FS_Subset
<1> QED BY <1>1, FS_CardinalityType

LEMMA LeastIs ==
  ASSUME NEW ids, ids \subseteq Nat, ids # {}
  PROVE  Min(ids) \in ids /\ \A j \in ids : Min(ids) <= j
<1>1. PICK m \in ids : TRUE
  OBVIOUS
<1>2. \E i \in ids : \A j \in ids : i <= j
  BY <1>1, LeastExists
<1> QED BY <1>2, Zenon DEF Min

LEMMA GreatestIs ==
  ASSUME NEW msgs \in StoredMessages, NEW s, NEW ids, ids \subseteq IdsOf(msgs, s), ids # {}
  PROVE  Max(ids) \in ids /\ \A j \in ids : j <= Max(ids)
<1>1. Len(msgs) \in Nat /\ ids \subseteq 0..Len(msgs)
  BY MessagesOf
<1> QED BY <1>1, GreatestExists

\* The messages of a window without a gap, before it and after it are all there are.
LEMMA WindowCounts ==
  ASSUME NEW msgs \in StoredMessages, NEW s, NEW shown, shown \subseteq IdsOf(msgs, s), shown # {},
         Gapless(shown, IdsOf(msgs, s))
  PROVE  /\ Cardinality({id \in IdsOf(msgs, s) : id < Min(shown)}) \in Nat
         /\ Cardinality({id \in IdsOf(msgs, s) : id > Max(shown)}) \in Nat
         /\ Cardinality(shown) \in Nat
         /\ Cardinality(IdsOf(msgs, s)) <=
              Cardinality({id \in IdsOf(msgs, s) : id < Min(shown)}) + Cardinality(shown)
                + Cardinality({id \in IdsOf(msgs, s) : id > Max(shown)})
<1> DEFINE ids == IdsOf(msgs, s)
           A == {id \in ids : id < Min(shown)}
           C == {id \in ids : id > Max(shown)}
<1>1. ids \subseteq Nat /\ IsFiniteSet(ids) /\ Cardinality(ids) \in Nat
  BY MessagesOf
<1>2. /\ Min(shown) \in shown /\ \A j \in shown : Min(shown) <= j
      /\ Max(shown) \in shown /\ \A j \in shown : j <= Max(shown)
  BY <1>1, LeastIs, GreatestIs
<1>3. ASSUME NEW id \in ids PROVE id \in A \/ id \in shown \/ id \in C
  <2>1. id \in Nat /\ Min(shown) \in Nat /\ Max(shown) \in Nat
    BY <1>1, <1>2
  <2>2. id < Min(shown) \/ id = Min(shown) \/ id = Max(shown) \/ id > Max(shown)
          \/ (Min(shown) < id /\ id < Max(shown))
    BY <2>1
  <2> QED BY <1>2, <2>2 DEF Gapless
<1>4. A \subseteq ids /\ C \subseteq ids /\ shown \subseteq ids
  OBVIOUS
<1> HIDE DEF ids, A, C
<1>5. /\ IsFiniteSet(A) /\ Cardinality(A) \in Nat /\ IsFiniteSet(C) /\ Cardinality(C) \in Nat
      /\ IsFiniteSet(shown) /\ Cardinality(shown) \in Nat
  BY <1>1, <1>4, PartOf
<1>6. /\ IsFiniteSet(A \cup shown) /\ IsFiniteSet(A \cap shown)
      /\ Cardinality(A \cup shown) = Cardinality(A) + Cardinality(shown) - Cardinality(A \cap shown)
  BY <1>5, FS_Union, FS_Intersection
<1>7. Cardinality(A \cup shown) \in Nat /\ Cardinality(A \cap shown) \in Nat
  BY <1>6, FS_CardinalityType
<1>8. /\ IsFiniteSet((A \cup shown) \cup C) /\ IsFiniteSet((A \cup shown) \cap C)
      /\ Cardinality((A \cup shown) \cup C) =
           Cardinality(A \cup shown) + Cardinality(C) - Cardinality((A \cup shown) \cap C)
  BY <1>5, <1>6, FS_Union, FS_Intersection
<1>9. Cardinality((A \cup shown) \cap C) \in Nat
  BY <1>8, FS_CardinalityType
<1>10. (A \cup shown) \cup C = ids
  BY <1>3, <1>4
<1>11. Cardinality(ids) <= Cardinality(A) + Cardinality(shown) + Cardinality(C)
  <2>1. Cardinality((A \cup shown) \cup C) = Cardinality(ids)
    BY <1>10, Zenon
  <2>2. Cardinality(ids) <= Cardinality(A \cup shown) + Cardinality(C)
    BY <1>1, <1>5, <1>7, <1>8, <1>9, <2>1
  <2>3. Cardinality(A \cup shown) <= Cardinality(A) + Cardinality(shown)
    BY <1>5, <1>6, <1>7
  <2> QED BY <1>1, <1>5, <1>7, <2>2, <2>3
<1> QED BY <1>5, <1>11 DEF ids, A, C

\* The last n of a set of messages, at least one, and the first n of another
LEMMA LastOfIs ==
  ASSUME NEW S, S \subseteq Nat, IsFiniteSet(S), NEW row \in S, \A id \in S : id <= row,
         NEW n \in Nat \ {0}
  PROVE  /\ LastOf(S, n) \subseteq S /\ row \in LastOf(S, n)
         /\ \A a \in LastOf(S, n), id \in S : a < id => id \in LastOf(S, n)
<1> DEFINE above(id) == {other \in S : other > id}
<1>1. \A id : id \in LastOf(S, n) <=> id \in S /\ Cardinality(above(id)) < n
  BY DEF LastOf
<1>2. \A id \in S : IsFiniteSet(above(id)) /\ Cardinality(above(id)) \in Nat
  <2> SUFFICES ASSUME NEW id \in S PROVE IsFiniteSet(above(id)) /\ Cardinality(above(id)) \in Nat
    OBVIOUS
  <2>1. above(id) \subseteq S
    OBVIOUS
  <2> HIDE DEF above
  <2> QED BY <2>1, PartOf
<1>3. row \in LastOf(S, n)
  <2>1. above(row) = {}
    <3>1. \A id \in S : id <= row /\ id \in Nat /\ row \in Nat
      OBVIOUS
    <3>2. \A id \in S : ~(id > row)
      BY <3>1
    <3> QED BY <3>2
  <2>2. Cardinality(above(row)) = 0
    <3> HIDE DEF above
    <3> QED BY <2>1, FS_EmptySet
  <2> HIDE DEF above
  <2> QED BY <1>1, <2>2
<1>4. ASSUME NEW a \in LastOf(S, n), NEW id \in S, a < id PROVE id \in LastOf(S, n)
  <2>1. a \in S /\ Cardinality(above(a)) < n
    BY <1>1
  <2>2. above(id) \subseteq above(a)
    <3>1. \A other \in S : other > id => other > a
      BY <1>4, <2>1
    <3> QED BY <3>1
  <2> HIDE DEF above
  <2>3. Cardinality(above(id)) <= Cardinality(above(a)) /\ Cardinality(above(id)) \in Nat
    BY <1>2, <2>1, <2>2, PartOf
  <2>4. Cardinality(above(id)) < n
    BY <1>2, <2>1, <2>3
  <2> QED BY <1>1, <2>4
<1> QED BY <1>1, <1>3, <1>4

LEMMA FirstOfIs ==
  ASSUME NEW S, S \subseteq Nat, IsFiniteSet(S), NEW n \in Nat
  PROVE  /\ FirstOf(S, n) \subseteq S
         /\ \A a \in FirstOf(S, n), id \in S : id < a => id \in FirstOf(S, n)
<1> DEFINE below(id) == {other \in S : other < id}
<1>1. \A id : id \in FirstOf(S, n) <=> id \in S /\ Cardinality(below(id)) < n
  BY DEF FirstOf
<1>2. \A id \in S : IsFiniteSet(below(id)) /\ Cardinality(below(id)) \in Nat
  <2> SUFFICES ASSUME NEW id \in S PROVE IsFiniteSet(below(id)) /\ Cardinality(below(id)) \in Nat
    OBVIOUS
  <2>1. below(id) \subseteq S
    OBVIOUS
  <2> HIDE DEF below
  <2> QED BY <2>1, PartOf
<1>3. ASSUME NEW a \in FirstOf(S, n), NEW id \in S, id < a PROVE id \in FirstOf(S, n)
  <2>1. a \in S /\ Cardinality(below(a)) < n
    BY <1>1
  <2>2. below(id) \subseteq below(a)
    <3>1. \A other \in S : other < id => other < a
      BY <1>3, <2>1
    <3> QED BY <3>1
  <2> HIDE DEF below
  <2>3. Cardinality(below(id)) <= Cardinality(below(a)) /\ Cardinality(below(id)) \in Nat
    BY <1>2, <2>1, <2>2, PartOf
  <2>4. Cardinality(below(id)) < n
    BY <1>2, <2>1, <2>3
  <2> QED BY <1>1, <2>4
<1> QED BY <1>1, <1>3

-----------------------------------------------------------------------------
(* The turns go on beside the search *)

LEMMA RecallInvHolds == RecallInit => RecallInv
<1> SUFFICES ASSUME RecallInit PROVE RecallInv
  OBVIOUS
<1>1. stored = <<>> /\ recall = NoRecall
  BY DEF RecallInit
<1>2. sessions \in Lineages
  BY Zenon, RecallAssumption DEF RecallInit, Lineages
<1>3. NoRecall \in Recalls /\ Len(stored) = 0 /\ stored \in StoredMessages
  BY <1>1 DEF NoRecall, Recalls, RecallPhases, StoredMessages
<1>4. /\ recall.phase = "idle" /\ recall.rows = <<>> /\ recall.views = <<>> /\ recall.asked = 0
  BY <1>1 DEF NoRecall
<1>5. RecallTypes(sessions, stored, recall)
  BY <1>1, <1>2, <1>3, <1>4 DEF RecallTypes
<1>6. RowsFit(sessions, stored, recall) /\ ViewsFit(sessions, stored, recall)
  BY <1>4 DEF RowsFit, ViewsFit
<1>7. /\ ReadingFits(sessions, stored, recall) /\ WindowFits(stored, recall)
      /\ BeginningFits(stored, recall)
  BY <1>4 DEF ReadingFits, WindowFits, BeginningFits
<1> QED BY <1>5, <1>6, <1>7 DEF RecallInv, RecallFits

\* A message more is later than all that a search has looked at.
LEMMA AppendedIsLater ==
  ASSUME NEW msgs \in StoredMessages, NEW m \in [session : Sessions, matches : BOOLEAN]
  PROVE  /\ Append(msgs, m) \in StoredMessages /\ Len(Append(msgs, m)) = Len(msgs) + 1
         /\ \A k \in 1..Len(msgs) : Append(msgs, m)[k] = msgs[k]
         /\ \A s : /\ IdsOf(msgs, s) \subseteq IdsOf(Append(msgs, m), s)
                   /\ \A id \in IdsOf(Append(msgs, m), s) :
                        id \in IdsOf(msgs, s) \/ id = Len(msgs) + 1
<1> DEFINE more == Append(msgs, m)
           last == Len(msgs) + 1
<1>1. Len(msgs) \in Nat
  BY MessagesOf
<1>2. /\ more \in StoredMessages /\ Len(more) = last
      /\ \A k \in 1..Len(msgs) : more[k] = msgs[k]
  BY DEF StoredMessages
<1>3. \A k : k \in 1..last <=> k \in 1..Len(msgs) \/ k = last
  BY <1>1
<1> HIDE DEF more, last
<1>4. \A s : /\ IdsOf(msgs, s) \subseteq IdsOf(more, s)
             /\ \A id \in IdsOf(more, s) : id \in IdsOf(msgs, s) \/ id = last
  BY <1>2, <1>3 DEF IdsOf
<1> QED BY <1>2, <1>4 DEF more, last

LEMMA AppendMessageKeeps ==
  ASSUME RecallInv, AppendMessage
  PROVE  RecallInv'
<1>1. PICK m \in [session : Sessions, matches : BOOLEAN] : stored' = Append(stored, m)
  <2>1. PICK session \in Sessions, matches \in BOOLEAN :
          stored' = Append(stored, [session |-> session, matches |-> matches])
    BY DEF AppendMessage
  <2> QED BY <2>1
<1> DEFINE t == Append(stored, m)
           last == Len(stored) + 1
<1>2. sessions' = sessions /\ recall' = recall /\ stored' = t
  BY <1>1 DEF AppendMessage
<1>3. /\ RecallTypes(sessions, stored, recall) /\ RowsFit(sessions, stored, recall)
      /\ ViewsFit(sessions, stored, recall) /\ ReadingFits(sessions, stored, recall)
      /\ WindowFits(stored, recall) /\ BeginningFits(stored, recall)
  BY DEF RecallInv, RecallFits
<1>4. stored \in StoredMessages /\ recall \in Recalls /\ recall.asked <= Len(stored)
  BY <1>3 DEF RecallTypes
<1>5. /\ t \in StoredMessages /\ Len(t) = last /\ Len(stored) \in Nat /\ last = Len(stored) + 1
      /\ \A k \in 1..Len(stored) : t[k] = stored[k]
      /\ \A s : /\ IdsOf(stored, s) \subseteq IdsOf(t, s)
                /\ \A id \in IdsOf(t, s) : id \in IdsOf(stored, s) \/ id = last
  BY <1>4, AppendedIsLater, MessagesOf
<1>6. recall.asked \in Nat /\ recall.asked < last
  BY <1>4, <1>5 DEF Recalls
<1> HIDE DEF t, last
<1>7. \A s, id : id \in IdsOf(stored, s) => id \in 1..Len(stored) /\ id < last
  BY <1>4, <1>5, MessagesOf
<1>8. \A s : AskedOf(t, recall, s) = AskedOf(stored, recall, s)
  BY <1>5, <1>6, <1>7 DEF AskedOf
<1>9. \A s, shown : shown \subseteq IdsOf(stored, s) /\ Gapless(shown, IdsOf(stored, s)) =>
                      Gapless(shown, IdsOf(t, s))
  <2> SUFFICES ASSUME NEW s, NEW shown, shown \subseteq IdsOf(stored, s),
                      Gapless(shown, IdsOf(stored, s)), NEW a \in shown, NEW b \in shown,
                      NEW id \in IdsOf(t, s), a < id, id < b
               PROVE  id \in shown
    BY DEF Gapless
  <2>1. b < last /\ b \in Nat /\ last \in Nat
    BY <1>5, <1>7
  <2>2. id # last
    BY <2>1
  <2>3. id \in IdsOf(stored, s)
    BY <1>5, <2>2
  <2> QED BY <2>3 DEF Gapless
<1>10. RecallTypes(sessions, t, recall)
  BY <1>3, <1>5, <1>6 DEF RecallTypes
<1>11. RowsFit(sessions, t, recall)
  <2>1. \A k \in DOMAIN recall.rows : recall.rows[k] \in 1..Len(stored)
    BY <1>3 DEF RowsFit
  <2>2. \A k \in DOMAIN recall.rows : recall.rows[k] \in 1..Len(t) /\ t[recall.rows[k]] = stored[recall.rows[k]]
    BY <1>5, <2>1
  <2> QED BY <1>3, <2>2, Zenon DEF RowsFit
<1>12. ViewsFit(sessions, t, recall)
  <2>1. \A k \in DOMAIN recall.views :
          recall.views[k].shown \subseteq IdsOf(t, recall.views[k].session)
    BY <1>3, <1>5 DEF ViewsFit
  <2>2. \A k \in DOMAIN recall.views :
          Gapless(recall.views[k].shown, IdsOf(t, recall.views[k].session))
    BY <1>3, <1>9, Zenon DEF ViewsFit
  <2> QED BY <1>3, <1>8, <2>1, <2>2, Zenon DEF ViewsFit
<1>13. ASSUME recall.phase \in {"taken", "before", "after"}
       PROVE  /\ recall.rows # <<>> /\ recall.rows[1] \in 1..Len(stored)
              /\ t[recall.rows[1]] = stored[recall.rows[1]]
  <2>1. recall.rows # <<>> /\ recall.rows \in Seq(Nat)
    BY <1>3, <1>4, <1>13 DEF ReadingFits, Recalls
  <2>2. 1 \in DOMAIN recall.rows
    BY <2>1, EmptySeq, LenProperties
  <2>3. recall.rows[1] \in 1..Len(stored)
    BY <1>3, <2>2 DEF RowsFit
  <2> QED BY <1>5, <2>1, <2>3
<1>14. ReadingFits(sessions, t, recall)
  BY <1>3, <1>13, Zenon DEF ReadingFits
<1>15. WindowFits(t, recall)
  <2>1. CASE recall.phase = "before"
    <3> DEFINE row == recall.rows[1]
               s == stored[row].session
    <3>1. row \in 1..Len(stored) /\ t[row] = stored[row]
      BY <1>13, <2>1
    <3>2. /\ recall.view \subseteq IdsOf(stored, s) /\ row \in recall.view
          /\ \A id \in recall.view : id <= row
          /\ \A a \in recall.view, id \in IdsOf(stored, s) : a < id /\ id <= row => id \in recall.view
      BY <1>3, <2>1 DEF WindowFits
    <3>3. \A id \in IdsOf(t, s) : id <= row => id \in IdsOf(stored, s)
      BY <1>5, <3>1
    <3>4. recall.view \subseteq IdsOf(t, s)
      BY <1>5, <3>2
    <3>5. \A a \in recall.view, id \in IdsOf(t, s) : a < id /\ id <= row => id \in recall.view
      BY <3>2, <3>3
    <3>6. recall.phase # "after" /\ s = t[row].session
      BY <2>1, <3>1
    <3> QED BY <3>2, <3>4, <3>5, <3>6, Zenon DEF WindowFits
  <2>2. CASE recall.phase = "after"
    <3> DEFINE s == stored[recall.rows[1]].session
    <3>1. s = t[recall.rows[1]].session
      BY <1>13, <2>2
    <3>2. /\ recall.view \subseteq IdsOf(stored, s) /\ recall.rows[1] \in recall.view
          /\ Gapless(recall.view, IdsOf(stored, s))
      BY <1>3, <2>2 DEF WindowFits
    <3>3. recall.view \subseteq IdsOf(t, s) /\ Gapless(recall.view, IdsOf(t, s))
      BY <1>5, <1>9, <3>2
    <3>4. recall.phase # "before"
      BY <2>2
    <3> QED BY <3>1, <3>2, <3>3, <3>4, Zenon DEF WindowFits
  <2> QED BY <2>1, <2>2, Zenon DEF WindowFits
<1>16. BeginningFits(t, recall)
  BY <1>3, <1>8, Zenon DEF BeginningFits
<1>17. RecallFits(sessions, t, recall)
  BY <1>10, <1>11, <1>12, <1>14, <1>15, <1>16, Zenon DEF RecallFits
<1> QED BY <1>2, <1>17, Zenon DEF RecallInv

LEMMA ResumeDelegatedKeeps ==
  ASSUME RecallInv, ResumeDelegated
  PROVE  RecallInv'
<1>1. PICK x \in Sessions : sessions' = [sessions EXCEPT ![x].parent = NoSession]
  BY RecallAssumption DEF ResumeDelegated
<1> DEFINE kin == [sessions EXCEPT ![x].parent = NoSession]
<1>2. sessions' = kin /\ recall' = recall /\ stored' = stored
  BY <1>1 DEF ResumeDelegated
<1>3. /\ RecallTypes(sessions, stored, recall) /\ RowsFit(sessions, stored, recall)
      /\ ViewsFit(sessions, stored, recall) /\ ReadingFits(sessions, stored, recall)
      /\ WindowFits(stored, recall) /\ BeginningFits(stored, recall)
  BY DEF RecallInv, RecallFits
<1>4. stored \in StoredMessages /\ recall \in Recalls /\ sessions \in Lineages
  BY <1>3 DEF RecallTypes
<1>5. /\ kin \in Lineages /\ kin[x].parent = NoSession
      /\ \A s \in Sessions : s # x => kin[s].parent = sessions[s].parent
  BY <1>4 DEF Lineages
<1> HIDE DEF kin
<1>6. ASSUME NEW s \in Sessions, sessions[s].parent = NoSession PROVE kin[s].parent = NoSession
  BY <1>5, <1>6
<1>7. ASSUME NEW s \in Sessions, recall.asker \in Sessions, Foreign(sessions, recall, s)
      PROVE  Foreign(kin, recall, s)
  <2>1. CASE recall.asker = x
    BY <1>5, <1>6, <1>7, <2>1 DEF Foreign, RootOf
  <2>2. CASE recall.asker # x
    BY <1>5, <1>6, <1>7, <2>2 DEF Foreign, RootOf
  <2> QED BY <2>1, <2>2
<1>8. ASSUME NEW id \in 1..Len(stored) PROVE stored[id].session \in Sessions
  <2>1. stored[id] \in [session : Sessions, matches : BOOLEAN]
    BY <1>4, <1>8, ElementOfSeq DEF StoredMessages
  <2> QED BY <2>1
<1>9. recall.phase = "idle" => recall.rows = <<>> /\ recall.views = <<>>
  BY <1>3 DEF RecallTypes, NoRecall
<1>10. RecallTypes(kin, stored, recall)
  BY <1>3, <1>5 DEF RecallTypes
<1>11. RowsFit(kin, stored, recall)
  <2> SUFFICES ASSUME NEW k \in DOMAIN recall.rows
               PROVE  /\ recall.rows[k] \in 1..Len(stored)
                      /\ kin[stored[recall.rows[k]].session].parent = NoSession
                      /\ recall.phase # "matched" /\ stored[recall.rows[k]].session # recall.excluded
                           => Foreign(kin, recall, stored[recall.rows[k]].session)
    BY Zenon DEF RowsFit
  <2>1. recall.asker \in Sessions
    BY <1>3, <1>9 DEF RecallTypes
  <2>2. /\ recall.rows[k] \in 1..Len(stored)
        /\ sessions[stored[recall.rows[k]].session].parent = NoSession
        /\ recall.phase # "matched" /\ stored[recall.rows[k]].session # recall.excluded
             => Foreign(sessions, recall, stored[recall.rows[k]].session)
    BY <1>3, Zenon DEF RowsFit
  <2>3. stored[recall.rows[k]].session \in Sessions
    BY <1>8, <2>2
  <2> QED BY <1>6, <1>7, <2>1, <2>2, <2>3, Zenon
<1>12. ViewsFit(kin, stored, recall)
  <2>1. ASSUME NEW k \in DOMAIN recall.views PROVE Foreign(kin, recall, recall.views[k].session)
    <3>1. recall.asker \in Sessions
      BY <1>3, <1>9, <2>1 DEF RecallTypes
    <3>2. recall.views[k] \in Views
      <4>1. recall.views \in Seq(Views)
        BY <1>4 DEF Recalls
      <4>2. k \in 1..Len(recall.views)
        BY <2>1, <4>1, LenProperties
      <4> QED BY <4>1, <4>2, ElementOfSeq
    <3>3. recall.views[k].session \in Sessions
      BY <3>2 DEF Views
    <3> QED BY <1>3, <1>7, <2>1, <3>1, <3>3, Zenon DEF ViewsFit
  <2> QED BY <1>3, <2>1, Zenon DEF ViewsFit
<1>13. ReadingFits(kin, stored, recall)
  <2> SUFFICES ASSUME recall.phase \in {"taken", "before", "after"}
               PROVE  Foreign(kin, recall, stored[recall.rows[1]].session)
    BY <1>3, Zenon DEF ReadingFits
  <2>1. recall.rows # <<>> /\ Foreign(sessions, recall, stored[recall.rows[1]].session)
    BY <1>3 DEF ReadingFits
  <2>2. 1 \in DOMAIN recall.rows
    <3>1. recall.rows \in Seq(Nat)
      BY <1>4 DEF Recalls
    <3> QED BY <2>1, <3>1, EmptySeq, LenProperties
  <2>3. stored[recall.rows[1]].session \in Sessions
    BY <1>3, <1>8, <2>2 DEF RowsFit
  <2>4. recall.asker \in Sessions
    BY <1>3 DEF RecallTypes
  <2> QED BY <1>7, <2>1, <2>3, <2>4
<1>14. RecallFits(kin, stored, recall)
  BY <1>3, <1>10, <1>11, <1>12, <1>13, Zenon DEF RecallFits
<1> QED BY <1>2, <1>14, Zenon DEF RecallInv

-----------------------------------------------------------------------------
(* The search *)

\* What a search finds
LEMMA RecallIs ==
  ASSUME RecallInv
  PROVE  /\ RecallTypes(sessions, stored, recall) /\ RowsFit(sessions, stored, recall)
         /\ ViewsFit(sessions, stored, recall) /\ ReadingFits(sessions, stored, recall)
         /\ WindowFits(stored, recall) /\ BeginningFits(stored, recall)
         /\ stored \in StoredMessages /\ recall \in Recalls /\ sessions \in Lineages
         /\ recall.rows \in Seq(Nat) /\ recall.views \in Seq(Views) /\ recall.view \subseteq Nat
         /\ recall.asked \in Nat
         /\ \A id \in 1..Len(stored) : stored[id].session \in Sessions
<1>1. /\ RecallTypes(sessions, stored, recall) /\ RowsFit(sessions, stored, recall)
      /\ ViewsFit(sessions, stored, recall) /\ ReadingFits(sessions, stored, recall)
      /\ WindowFits(stored, recall) /\ BeginningFits(stored, recall)
  BY DEF RecallInv, RecallFits
<1>2. stored \in StoredMessages /\ recall \in Recalls /\ sessions \in Lineages
  BY <1>1 DEF RecallTypes
<1>3. \A id \in 1..Len(stored) : stored[id].session \in Sessions
  <2> SUFFICES ASSUME NEW id \in 1..Len(stored) PROVE stored[id].session \in Sessions
    OBVIOUS
  <2>1. stored[id] \in [session : Sessions, matches : BOOLEAN]
    BY <1>2, ElementOfSeq DEF StoredMessages
  <2> QED BY <2>1
<1> QED BY <1>1, <1>2, <1>3 DEF Recalls

LEMMA RecallMoves ==
  ASSUME RecallInv, NEW r \in Recalls, recall' = r, UNCHANGED <<sessions, stored>>,
         r.asked <= Len(stored), r.phase # "idle", r.asker \in Sessions,
         RowsFit(sessions, stored, r), ViewsFit(sessions, stored, r),
         ReadingFits(sessions, stored, r), WindowFits(stored, r), BeginningFits(stored, r)
  PROVE  RecallInv'
<1>1. RecallTypes(sessions, stored, r)
  BY RecallIs DEF RecallTypes
<1>2. RecallFits(sessions, stored, r)
  BY <1>1 DEF RecallFits
<1>3. sessions' = sessions /\ stored' = stored /\ recall' = r
  OBVIOUS
<1> QED BY <1>2, <1>3, Zenon DEF RecallInv

LEMMA SearchSessionsKeeps ==
  ASSUME RecallInv, SearchSessions
  PROVE  RecallInv'
<1>1. PICK asker \in Sessions, prior \in BOOLEAN : \E ranked \in SetToSeqs(Matched(asker, prior)) :
        recall' = [recall EXCEPT !.phase = "matched", !.asker = asker, !.prior = prior,
                     !.asked = Len(stored),
                     !.rows = SubSeq(ranked, 1, Min({MatchLimit, Len(ranked)}))]
  BY Zenon DEF SearchSessions
<1>2. PICK ranked \in SetToSeqs(Matched(asker, prior)) :
        recall' = [recall EXCEPT !.phase = "matched", !.asker = asker, !.prior = prior,
                     !.asked = Len(stored),
                     !.rows = SubSeq(ranked, 1, Min({MatchLimit, Len(ranked)}))]
  BY <1>1, Zenon
<1> DEFINE M == Matched(asker, prior)
           n == Min({MatchLimit, Len(ranked)})
           rows == SubSeq(ranked, 1, n)
           r == [recall EXCEPT !.phase = "matched", !.asker = asker, !.prior = prior,
                   !.asked = Len(stored), !.rows = rows]
<1>3. /\ stored \in StoredMessages /\ recall \in Recalls /\ recall = NoRecall
      /\ UNCHANGED <<sessions, stored>>
  BY RecallIs DEF SearchSessions
<1>4. Len(stored) \in Nat
  BY <1>3, MessagesOf
<1>5. \A id \in M : id \in 1..Len(stored) /\ sessions[stored[id].session].parent = NoSession
  BY DEF Matched, MessageIds, IsSubagent
<1>6. M \subseteq 1..Len(stored) /\ IsFiniteSet(M)
  <2>1. M \subseteq 1..Len(stored)
    BY <1>5
  <2>2. IsFiniteSet(1..Len(stored))
    <3>1. 1 \in Int /\ Len(stored) \in Int
      BY <1>4
    <3> QED BY <3>1, FS_Interval
  <2> HIDE DEF M
  <2> QED BY <2>1, <2>2, FS_Subset
<1> HIDE DEF M
<1>7. ranked \in [1..Cardinality(M) -> M] /\ Cardinality(M) \in Nat
  <2>1. ranked \in SetToSeqs(M)
    BY <1>2 DEF M
  <2> QED BY <1>6, <2>1, FS_CardinalityType, Zenon DEF SetToSeqs
<1>8. ranked \in Seq(M) /\ Len(ranked) = Cardinality(M)
  BY <1>7
<1>9. n \in {MatchLimit, Len(ranked)} /\ n <= Len(ranked) /\ n \in Nat
  <2>1. {MatchLimit, Len(ranked)} \subseteq Nat /\ {MatchLimit, Len(ranked)} # {}
    BY <1>7, <1>8, RecallAssumption
  <2> QED BY <2>1, LeastIs
<1> HIDE DEF n
<1>10. rows \in Seq(M)
  BY <1>7, <1>8, <1>9, SubSeqProperties
<1> HIDE DEF rows
<1>11. \A k \in DOMAIN rows : rows[k] \in M
  <2> SUFFICES ASSUME NEW k \in DOMAIN rows PROVE rows[k] \in M
    OBVIOUS
  <2>1. k \in 1..Len(rows)
    BY <1>10, LenProperties
  <2> QED BY <1>10, <2>1, ElementOfSeq
<1>12. rows \in Seq(Nat)
  <2>1. M \subseteq Nat
    BY <1>4, <1>6
  <2>2. \A k \in 1..Len(rows) : rows[k] \in Nat
    BY <1>10, <1>11, <2>1, LenProperties
  <2>3. Len(rows) \in Nat /\ rows = [k \in 1..Len(rows) |-> rows[k]]
    BY <1>10, LenProperties
  <2>4. rows \in [1..Len(rows) -> Nat]
    BY <2>2, <2>3, Zenon
  <2> QED BY <2>3, <2>4, SeqDef
<1>13. /\ r \in Recalls /\ r.phase = "matched" /\ r.asker = asker /\ r.rows = rows
       /\ r.asked = Len(stored) /\ r.views = <<>>
  BY <1>3, <1>4, <1>12 DEF Recalls, RecallPhases, NoRecall
<1>14. recall' = r
  BY <1>2 DEF r, rows, n
<1> HIDE DEF r
<1>15. RowsFit(sessions, stored, r)
  BY <1>5, <1>11, <1>13 DEF RowsFit
<1>16. ViewsFit(sessions, stored, r) /\ ReadingFits(sessions, stored, r)
  BY <1>13 DEF ViewsFit, ReadingFits
<1>17. WindowFits(stored, r) /\ BeginningFits(stored, r)
  BY <1>13 DEF WindowFits, BeginningFits
<1> QED BY <1>3, <1>4, <1>13, <1>14, <1>15, <1>16, <1>17, RecallMoves

\* What a step leaves alone fits as before.
SameSearch(r, q) == r.views = q.views /\ r.prior = q.prior /\ r.asker = q.asker /\ r.asked = q.asked

LEMMA ForeignStays ==
  ASSUME NEW kin, NEW r, NEW q, SameSearch(r, q), NEW s
  PROVE  Foreign(kin, r, s) <=> Foreign(kin, q, s)
BY Zenon DEF Foreign, SameSearch

LEMMA ViewsStay ==
  ASSUME RecallInv, NEW r, SameSearch(r, recall), recall.phase \notin {"found", "total"}
  PROVE  ViewsFit(sessions, stored, r)
<1>1. ViewsFit(sessions, stored, recall)
  BY RecallIs
<1>2. \A s : Foreign(sessions, r, s) <=> Foreign(sessions, recall, s)
  BY ForeignStays
<1>3. \A s : AskedOf(stored, r, s) = AskedOf(stored, recall, s)
  BY Zenon DEF AskedOf, SameSearch
<1>4. r.views = recall.views
  BY DEF SameSearch
<1> QED BY <1>1, <1>2, <1>3, <1>4, Zenon DEF ViewsFit

LEMMA RowsStay ==
  ASSUME RecallInv, NEW r, SameSearch(r, recall), r.rows = recall.rows, r.excluded = recall.excluded,
         recall.phase # "matched"
  PROVE  RowsFit(sessions, stored, r)
<1>1. RowsFit(sessions, stored, recall)
  BY RecallIs
<1>2. \A s : Foreign(sessions, r, s) <=> Foreign(sessions, recall, s)
  BY ForeignStays
<1> QED BY <1>1, <1>2, Zenon DEF RowsFit

\* The row that is next, and the others
LEMMA RowIs ==
  ASSUME RecallInv, recall.rows # <<>>
  PROVE  /\ Row = recall.rows[1] /\ 1 \in DOMAIN recall.rows /\ Row \in 1..Len(stored)
         /\ stored[Row].session \in Sessions
         /\ Tail(recall.rows) \in Seq(Nat)
         /\ \A k \in DOMAIN Tail(recall.rows) :
              k + 1 \in DOMAIN recall.rows /\ Tail(recall.rows)[k] = recall.rows[k + 1]
<1>1. recall.rows \in Seq(Nat)
  BY RecallIs
<1>2. 1 \in DOMAIN recall.rows
  BY <1>1, EmptySeq, LenProperties
<1>3. Row = recall.rows[1]
  BY DEF Row
<1>4. Row \in 1..Len(stored) /\ stored[Row].session \in Sessions
  BY <1>2, <1>3, RecallIs DEF RowsFit
<1>5. /\ Tail(recall.rows) \in Seq(Nat) /\ Len(Tail(recall.rows)) = Len(recall.rows) - 1
      /\ \A k \in 1..Len(Tail(recall.rows)) : Tail(recall.rows)[k] = recall.rows[k + 1]
  BY <1>1, HeadTailProperties
<1>6. /\ DOMAIN Tail(recall.rows) = 1..Len(Tail(recall.rows)) /\ Len(recall.rows) \in Nat
      /\ DOMAIN recall.rows = 1..Len(recall.rows) /\ Len(Tail(recall.rows)) \in Nat
  BY <1>1, <1>5, LenProperties
<1>7. \A k \in DOMAIN Tail(recall.rows) : k + 1 \in DOMAIN recall.rows
  BY <1>5, <1>6
<1> QED BY <1>2, <1>3, <1>4, <1>5, <1>6, <1>7

LEMMA RowsShrink ==
  ASSUME RecallInv, recall.rows # <<>>, NEW r, SameSearch(r, recall), r.rows = Tail(recall.rows),
         r.excluded = recall.excluded, recall.phase # "matched"
  PROVE  RowsFit(sessions, stored, r)
<1>1. RowsFit(sessions, stored, recall)
  BY RecallIs
<1>2. \A s : Foreign(sessions, r, s) <=> Foreign(sessions, recall, s)
  BY ForeignStays
<1>3. \A k \in DOMAIN r.rows : k + 1 \in DOMAIN recall.rows /\ r.rows[k] = recall.rows[k + 1]
  BY RowIs
<1> QED BY <1>1, <1>2, <1>3, Zenon DEF RowsFit

LEMMA ExcludeOwnKeeps ==
  ASSUME RecallInv, ExcludeOwn
  PROVE  RecallInv'
<1> DEFINE excluded == IF recall.prior THEN LineageRoot(recall.asker) ELSE NoSession
           r == [recall EXCEPT !.phase = "walk", !.excluded = excluded]
<1>1. recall.phase = "matched" /\ recall' = r /\ UNCHANGED <<sessions, stored>>
  BY DEF ExcludeOwn
<1>2. /\ recall \in Recalls /\ sessions \in Lineages /\ recall.asker \in Sessions
      /\ recall.asked <= Len(stored)
  BY <1>1, RecallIs DEF RecallTypes
<1>3. LineageRoot(recall.asker) = RootOf(sessions, recall.asker)
  BY DEF LineageRoot, RootOf, IsSubagent
<1>4. excluded \in Sessions \cup {NoSession}
  BY <1>2 DEF LineageRoot, Lineages
<1>5. recall.prior => excluded = RootOf(sessions, recall.asker)
  BY <1>3
<1> HIDE DEF excluded
<1>6. /\ r \in Recalls /\ r.phase = "walk" /\ r.rows = recall.rows /\ r.excluded = excluded
      /\ SameSearch(r, recall)
  BY <1>2, <1>4 DEF Recalls, RecallPhases, SameSearch
<1> HIDE DEF r
<1>7. RowsFit(sessions, stored, r)
  <2> SUFFICES ASSUME NEW k \in DOMAIN recall.rows, stored[recall.rows[k]].session # excluded
               PROVE  Foreign(sessions, recall, stored[recall.rows[k]].session)
    <3>1. RowsFit(sessions, stored, recall)
      BY RecallIs
    <3>2. \A s : Foreign(sessions, r, s) <=> Foreign(sessions, recall, s)
      BY <1>6, ForeignStays
    <3> QED BY <1>6, <3>1, <3>2, Zenon DEF RowsFit
  <2>1. sessions[stored[recall.rows[k]].session].parent = NoSession
    BY RecallIs DEF RowsFit
  <2>2. recall.prior => stored[recall.rows[k]].session # RootOf(sessions, recall.asker)
    BY <1>5
  <2>3. recall.prior => stored[recall.rows[k]].session # recall.asker
    BY <2>1, <2>2 DEF RootOf
  <2> QED BY <2>1, <2>2, <2>3 DEF Foreign
<1>8. ViewsFit(sessions, stored, r)
  BY <1>1, <1>6, ViewsStay
<1>9. ReadingFits(sessions, stored, r) /\ WindowFits(stored, r) /\ BeginningFits(stored, r)
  BY <1>6 DEF ReadingFits, WindowFits, BeginningFits
<1> QED BY <1>1, <1>2, <1>6, <1>7, <1>8, <1>9, RecallMoves DEF SameSearch

LEMMA WalkRowKeeps ==
  ASSUME RecallInv, WalkRow
  PROVE  RecallInv'
<1>1. recall.phase = "walk" /\ UNCHANGED <<sessions, stored>>
  BY DEF WalkRow
<1>2. recall \in Recalls /\ recall.asker \in Sessions /\ recall.asked <= Len(stored)
  BY <1>1, RecallIs DEF RecallTypes
<1>3. CASE recall.rows = <<>>
  <2> DEFINE r == [recall EXCEPT !.phase = "done"]
  <2>1. recall' = r
    BY <1>3 DEF WalkRow
  <2>2. /\ r \in Recalls /\ r.phase = "done" /\ r.rows = recall.rows
        /\ r.excluded = recall.excluded /\ SameSearch(r, recall)
    BY <1>2 DEF Recalls, RecallPhases, SameSearch
  <2> HIDE DEF r
  <2>3. RowsFit(sessions, stored, r) /\ ViewsFit(sessions, stored, r)
    BY <1>1, <2>2, RowsStay, ViewsStay
  <2>4. ReadingFits(sessions, stored, r) /\ WindowFits(stored, r) /\ BeginningFits(stored, r)
    BY <2>2 DEF ReadingFits, WindowFits, BeginningFits
  <2> QED BY <1>1, <1>2, <2>1, <2>2, <2>3, <2>4, RecallMoves DEF SameSearch
<1>4. CASE recall.rows # <<>> /\ Taken
  <2> DEFINE r == [recall EXCEPT !.phase = "taken"]
  <2>1. recall' = r
    BY <1>4 DEF WalkRow
  <2>2. /\ r \in Recalls /\ r.phase = "taken" /\ r.rows = recall.rows
        /\ r.excluded = recall.excluded /\ SameSearch(r, recall)
    BY <1>2 DEF Recalls, RecallPhases, SameSearch
  <2> HIDE DEF r
  <2>3. RowsFit(sessions, stored, r) /\ ViewsFit(sessions, stored, r)
    BY <1>1, <2>2, RowsStay, ViewsStay
  <2>4. WindowFits(stored, r) /\ BeginningFits(stored, r)
    BY <2>2 DEF WindowFits, BeginningFits
  <2> DEFINE s == stored[recall.rows[1]].session
  <2>5. /\ Row = recall.rows[1] /\ 1 \in DOMAIN recall.rows
    BY <1>4, RowIs
  <2>6. sessions[s].parent = NoSession /\ (s # recall.excluded => Foreign(sessions, recall, s))
    BY <1>1, <2>5, RecallIs DEF RowsFit
  <2>7. s \notin Seen \cup {recall.excluded}
    BY <1>4, <2>5, <2>6 DEF Taken, LineageRoot, IsSubagent
  <2>8. Foreign(sessions, r, s) /\ \A k \in DOMAIN r.views : r.views[k].session # s
    <3>1. Foreign(sessions, r, s)
      BY <2>2, <2>6, <2>7, ForeignStays
    <3>2. \A k \in DOMAIN recall.views : recall.views[k].session # s
      BY <2>7 DEF Seen
    <3> QED BY <2>2, <3>1, <3>2 DEF SameSearch
  <2>9. ReadingFits(sessions, stored, r)
    BY <1>4, <2>2, <2>8 DEF ReadingFits
  <2> QED BY <1>1, <1>2, <2>1, <2>2, <2>3, <2>4, <2>9, RecallMoves DEF SameSearch
<1>5. CASE recall.rows # <<>> /\ ~Taken
  <2> DEFINE r == [recall EXCEPT !.rows = Tail(@)]
  <2>1. recall' = r
    BY <1>5 DEF WalkRow
  <2>2. Tail(recall.rows) \in Seq(Nat)
    BY <1>5, RowIs
  <2>3. /\ r \in Recalls /\ r.phase = "walk" /\ r.rows = Tail(recall.rows)
        /\ r.excluded = recall.excluded /\ SameSearch(r, recall)
    BY <1>1, <1>2, <2>2 DEF Recalls, SameSearch
  <2> HIDE DEF r
  <2>4. RowsFit(sessions, stored, r) /\ ViewsFit(sessions, stored, r)
    BY <1>1, <1>5, <2>3, RowsShrink, ViewsStay
  <2>5. ReadingFits(sessions, stored, r) /\ WindowFits(stored, r) /\ BeginningFits(stored, r)
    BY <2>3 DEF ReadingFits, WindowFits, BeginningFits
  <2> QED BY <1>1, <1>2, <2>1, <2>3, <2>4, <2>5, RecallMoves DEF SameSearch
<1> QED BY <1>3, <1>4, <1>5

\* What the model may name is not its own.
LEMMA RecallableIsForeign ==
  ASSUME NEW asker, NEW prior, NEW s, Recallable(asker, prior, s),
         NEW r, r.asker = asker, r.prior = prior
  PROVE  sessions[s].parent = NoSession /\ Foreign(sessions, r, s)
<1>1. sessions[s].parent = NoSession /\ (prior => LineageRoot(s) # LineageRoot(asker))
  BY DEF Recallable, IsSubagent
<1>2. LineageRoot(s) = s
  BY <1>1 DEF LineageRoot, IsSubagent
<1>3. LineageRoot(asker) = RootOf(sessions, asker)
  BY DEF LineageRoot, RootOf, IsSubagent
<1>4. prior => s # RootOf(sessions, asker) /\ s # asker
  BY <1>1, <1>2, <1>3
<1> QED BY <1>1, <1>4 DEF Foreign

LEMMA RecallAroundKeeps ==
  ASSUME RecallInv, RecallAround
  PROVE  RecallInv'
<1>1. PICK asker \in Sessions, prior \in BOOLEAN, id \in MessageIds :
        /\ Recallable(asker, prior, stored[id].session)
        /\ prior \/ stored[id].session = asker
        /\ recall' = [recall EXCEPT !.phase = "taken", !.asker = asker, !.prior = prior,
                        !.asked = Len(stored), !.rows = <<id>>]
  BY Zenon DEF RecallAround
<1> DEFINE r == [recall EXCEPT !.phase = "taken", !.asker = asker, !.prior = prior,
                   !.asked = Len(stored), !.rows = <<id>>]
<1>2. recall' = r /\ recall = NoRecall /\ UNCHANGED <<sessions, stored>>
  BY <1>1, Zenon DEF RecallAround
<1>3. recall \in Recalls /\ stored \in StoredMessages
  BY RecallIs
<1>4. Len(stored) \in Nat /\ id \in 1..Len(stored)
  BY <1>3, MessagesOf DEF MessageIds
<1>5. <<id>> \in Seq(Nat) /\ DOMAIN <<id>> = {1} /\ <<id>>[1] = id /\ <<id>> # <<>>
  BY <1>4
<1>6. /\ r \in Recalls /\ r.phase = "taken" /\ r.asker = asker /\ r.prior = prior
      /\ r.rows = <<id>> /\ r.asked = Len(stored) /\ r.views = <<>>
  BY <1>2, <1>3, <1>4, <1>5 DEF Recalls, RecallPhases, NoRecall
<1> HIDE DEF r
<1>7. sessions[stored[id].session].parent = NoSession /\ Foreign(sessions, r, stored[id].session)
  BY <1>1, <1>6, RecallableIsForeign
<1>8. RowsFit(sessions, stored, r)
  BY <1>4, <1>5, <1>6, <1>7 DEF RowsFit
<1>9. ViewsFit(sessions, stored, r) /\ ReadingFits(sessions, stored, r)
  BY <1>5, <1>6, <1>7 DEF ViewsFit, ReadingFits
<1>10. WindowFits(stored, r) /\ BeginningFits(stored, r)
  BY <1>6 DEF WindowFits, BeginningFits
<1> QED BY <1>1, <1>2, <1>4, <1>6, <1>8, <1>9, <1>10, RecallMoves

LEMMA ReadSessionKeeps ==
  ASSUME RecallInv, ReadSession
  PROVE  RecallInv'
<1>1. PICK asker \in Sessions, prior \in BOOLEAN, session \in Sessions :
        /\ Recallable(asker, prior, session) /\ (prior \/ session = asker)
        /\ recall' = [recall EXCEPT !.phase = "found", !.asker = asker, !.prior = prior,
                        !.asked = Len(stored), !.views = <<View(session, {}, 0, 0)>>]
  BY Zenon DEF ReadSession
<1> DEFINE v == View(session, {}, 0, 0)
           r == [recall EXCEPT !.phase = "found", !.asker = asker, !.prior = prior,
                   !.asked = Len(stored), !.views = <<v>>]
<1>2. recall' = r /\ recall = NoRecall /\ UNCHANGED <<sessions, stored>>
  BY <1>1, Zenon DEF ReadSession
<1>3. recall \in Recalls /\ stored \in StoredMessages
  BY RecallIs
<1>4. Len(stored) \in Nat
  BY <1>3, MessagesOf
<1>5. v \in Views /\ v.session = session /\ v.shown = {} /\ v.before = 0
  BY DEF View, Views
<1> HIDE DEF v
<1>6. <<v>> \in Seq(Views) /\ DOMAIN <<v>> = {1} /\ <<v>>[1] = v /\ Len(<<v>>) = 1
  BY <1>5
<1>7. /\ r \in Recalls /\ r.phase = "found" /\ r.asker = asker /\ r.prior = prior
      /\ r.rows = <<>> /\ r.asked = Len(stored) /\ r.views = <<v>>
  BY <1>2, <1>3, <1>4, <1>6 DEF Recalls, RecallPhases, NoRecall
<1> HIDE DEF r
<1>8. Foreign(sessions, r, session)
  BY <1>1, <1>7, RecallableIsForeign
<1>9. RowsFit(sessions, stored, r) /\ ReadingFits(sessions, stored, r)
  BY <1>7 DEF RowsFit, ReadingFits
<1>10. ViewsFit(sessions, stored, r)
  BY <1>5, <1>6, <1>7, <1>8 DEF ViewsFit, Gapless
<1>11. WindowFits(stored, r) /\ BeginningFits(stored, r)
  BY <1>5, <1>6, <1>7 DEF WindowFits, BeginningFits
<1> QED BY <1>1, <1>2, <1>4, <1>7, <1>9, <1>10, <1>11, RecallMoves

-----------------------------------------------------------------------------
(* The beginning of a session *)

SameSearchOf(r, q) == r.prior = q.prior /\ r.asker = q.asker /\ r.asked = q.asked

\* The one view of a session that is read from its beginning
LEMMA BeginningIs ==
  ASSUME RecallInv, recall.phase \in {"found", "total"}
  PROVE  /\ recall.rows = <<>> /\ recall.views[1] \in Views /\ DOMAIN recall.views = {1}
         /\ recall.views[1].shown = {} /\ recall.views[1].before = 0
         /\ recall.views[1].session \in Sessions /\ recall.views[1].after \in Nat
         /\ Foreign(sessions, recall, recall.views[1].session)
         /\ recall.asker \in Sessions /\ recall.asked <= Len(stored)
<1>1. /\ recall.rows = <<>> /\ Len(recall.views) = 1 /\ recall.views[1].shown = {}
      /\ recall.views[1].before = 0 /\ recall.views \in Seq(Views)
  BY RecallIs DEF BeginningFits
<1>2. DOMAIN recall.views = {1} /\ recall.views[1] \in Views
  <2>1. DOMAIN recall.views = 1..1
    BY <1>1, LenProperties
  <2>2. 1 \in 1..Len(recall.views)
    BY <1>1
  <2> QED BY <1>1, <2>1, <2>2, ElementOfSeq
<1>3. recall.views[1].session \in Sessions /\ recall.views[1].after \in Nat
  BY <1>2 DEF Views
<1>4. Foreign(sessions, recall, recall.views[1].session)
  BY <1>2, RecallIs DEF ViewsFit
<1>5. recall.asker \in Sessions /\ recall.asked <= Len(stored)
  BY RecallIs DEF RecallTypes
<1> QED BY <1>1, <1>2, <1>3, <1>4, <1>5

\* Only the first view changes.
LEMMA BeginningMoves ==
  ASSUME RecallInv, recall.phase \in {"found", "total"}, NEW v \in Views,
         v.session = recall.views[1].session, NEW r,
         r.views = [recall.views EXCEPT ![1] = v], r.prior = recall.prior,
         r.asker = recall.asker, r.asked = recall.asked, r.rows = recall.rows,
         v.shown \subseteq IdsOf(stored, v.session), Gapless(v.shown, IdsOf(stored, v.session)),
         r.phase \notin {"found", "total"} =>
           Cardinality(AskedOf(stored, recall, v.session))
             <= v.before + Cardinality(v.shown) + v.after
  PROVE  /\ r.views \in Seq(Views) /\ Len(r.views) = 1 /\ r.views[1] = v
         /\ ViewsFit(sessions, stored, r) /\ RowsFit(sessions, stored, r)
<1>1. recall.views \in Seq(Views) /\ DOMAIN recall.views = {1} /\ recall.rows = <<>>
  BY RecallIs, BeginningIs
<1>2. DOMAIN r.views = {1} /\ r.views[1] = v
  BY <1>1
<1>3. r.views \in Seq(Views) /\ Len(r.views) = 1
  <2>1. r.views = <<v>>
    BY <1>1
  <2>2. <<v>> \in Seq(Views) /\ Len(<<v>>) = 1
    OBVIOUS
  <2> QED BY <2>1, <2>2, Zenon
<1>4. \A s : Foreign(sessions, r, s) <=> Foreign(sessions, recall, s)
  BY Zenon DEF Foreign
<1>5. \A s : AskedOf(stored, r, s) = AskedOf(stored, recall, s)
  BY Zenon DEF AskedOf
<1>6. Foreign(sessions, r, v.session)
  BY <1>4, BeginningIs
<1>7. ViewsFit(sessions, stored, r)
  BY <1>2, <1>5, <1>6, Zenon DEF ViewsFit
<1>8. RowsFit(sessions, stored, r)
  BY <1>1 DEF RowsFit
<1> QED BY <1>2, <1>3, <1>7, <1>8

LEMMA CountSessionKeeps ==
  ASSUME RecallInv, CountSession
  PROVE  RecallInv'
<1> DEFINE s == recall.views[1].session
           c == Cardinality(OfSession(s))
           v == [recall.views[1] EXCEPT !.after = c]
           r == [recall EXCEPT !.phase = "total", !.views = [recall.views EXCEPT ![1] = v]]
<1>1. recall.phase = "found" /\ UNCHANGED <<sessions, stored>>
  BY DEF CountSession
<1>2. /\ recall.rows = <<>> /\ recall.views[1] \in Views /\ DOMAIN recall.views = {1}
      /\ recall.views[1].shown = {} /\ recall.views[1].before = 0
      /\ s \in Sessions /\ recall.asker \in Sessions /\ recall.asked <= Len(stored)
  BY <1>1, BeginningIs
<1>3. recall \in Recalls /\ recall.views \in Seq(Views) /\ stored \in StoredMessages
  BY RecallIs
<1>4. recall' = r
  BY <1>2, <1>3 DEF CountSession, Recalls
<1>5. OfSession(s) = IdsOf(stored, s)
  BY DEF OfSession, IdsOf, MessageIds
<1>6. c = Cardinality(IdsOf(stored, s)) /\ c \in Nat
  BY <1>3, <1>5, MessagesOf
<1>7. Cardinality(AskedOf(stored, recall, s)) <= c
  <2>1. IsFiniteSet(IdsOf(stored, s)) /\ AskedOf(stored, recall, s) \subseteq IdsOf(stored, s)
    BY <1>3, MessagesOf DEF AskedOf
  <2>2. Cardinality(AskedOf(stored, recall, s)) <= Cardinality(IdsOf(stored, s))
    BY <2>1, PartOf
  <2> QED BY <1>6, <2>2
<1> HIDE DEF c
<1>8. /\ v \in Views /\ v.session = s /\ v.shown = {} /\ v.before = 0 /\ v.after = c
  BY <1>2, <1>6 DEF Views
<1> HIDE DEF v
<1>9. [recall.views EXCEPT ![1] = v] \in Seq(Views)
  <2>1. [recall.views EXCEPT ![1] = v] = <<v>>
    BY <1>2, <1>3
  <2>2. <<v>> \in Seq(Views)
    BY <1>8
  <2> QED BY <2>1, <2>2, Zenon
<1>10. /\ r \in Recalls /\ r.phase = "total" /\ r.views = [recall.views EXCEPT ![1] = v]
       /\ SameSearchOf(r, recall) /\ r.rows = recall.rows
  BY <1>3, <1>9 DEF Recalls, RecallPhases, SameSearchOf
<1> HIDE DEF r
<1>11. Gapless({}, IdsOf(stored, s)) /\ {} \subseteq IdsOf(stored, s)
  BY DEF Gapless
<1>12. /\ ViewsFit(sessions, stored, r) /\ RowsFit(sessions, stored, r)
       /\ Len(r.views) = 1 /\ r.views[1] = v
  <2>1. /\ v.shown \subseteq IdsOf(stored, v.session)
        /\ Gapless(v.shown, IdsOf(stored, v.session))
    BY <1>8, <1>11
  <2> QED BY <1>1, <1>8, <1>10, <2>1, BeginningMoves DEF SameSearchOf
<1>13. ReadingFits(sessions, stored, r) /\ WindowFits(stored, r)
  BY <1>10 DEF ReadingFits, WindowFits
<1>14. BeginningFits(stored, r)
  <2>1. AskedOf(stored, r, s) = AskedOf(stored, recall, s)
    BY <1>10, Zenon DEF AskedOf, SameSearchOf
  <2> QED BY <1>2, <1>7, <1>8, <1>10, <1>12, <2>1 DEF BeginningFits
<1> QED BY <1>1, <1>2, <1>4, <1>10, <1>12, <1>13, <1>14, RecallMoves DEF SameSearchOf

LEMMA MostOfTwo ==
  ASSUME NEW x \in Int
  PROVE  Max({0, x}) \in Nat /\ x <= Max({0, x})
<1>1. \E u \in {0, x} : \A w \in {0, x} : u >= w
  BY SMT
<1>2. Max({0, x}) \in {0, x} /\ \A w \in {0, x} : Max({0, x}) >= w
  BY <1>1, Zenon DEF Max
<1>3. Max({0, x}) >= 0 /\ Max({0, x}) >= x
  BY <1>2, Zenon
<1> DEFINE m == Max({0, x})
<1>4. m \in {0, x} /\ m >= 0 /\ m >= x
  BY <1>2, <1>3
<1> HIDE DEF m
<1>5. m \in Nat /\ x <= m
  BY <1>4
<1> QED BY <1>5 DEF m

LEMMA ReadRowsKeeps ==
  ASSUME RecallInv, ReadRows
  PROVE  RecallInv'
<1> DEFINE s == recall.views[1].session
           was == recall.views[1].after
           shown == FirstOf(OfSession(s), ReadLimit)
           rest == Max({0, was - Cardinality(shown)})
           v == [recall.views[1] EXCEPT !.shown = shown, !.after = rest]
           r == [recall EXCEPT !.phase = "done", !.views = [recall.views EXCEPT ![1] = v]]
<1>1. recall.phase = "total" /\ UNCHANGED <<sessions, stored>>
  BY DEF ReadRows
<1>2. /\ recall.rows = <<>> /\ recall.views[1] \in Views /\ DOMAIN recall.views = {1}
      /\ recall.views[1].before = 0 /\ was \in Nat
      /\ s \in Sessions /\ recall.asker \in Sessions /\ recall.asked <= Len(stored)
  BY <1>1, BeginningIs
<1>3. recall \in Recalls /\ recall.views \in Seq(Views) /\ stored \in StoredMessages
  BY RecallIs
<1>4. recall' = r
  BY <1>2, <1>3 DEF ReadRows, Recalls, Views
<1>5. OfSession(s) = IdsOf(stored, s)
  BY DEF OfSession, IdsOf, MessageIds
<1>6. IdsOf(stored, s) \subseteq Nat /\ IsFiniteSet(IdsOf(stored, s))
  BY <1>3, MessagesOf
<1>7. /\ shown \subseteq IdsOf(stored, s)
      /\ \A a \in shown, id \in IdsOf(stored, s) : id < a => id \in shown
  <2>1. ReadLimit \in Nat
    BY RecallAssumption
  <2> QED BY <1>5, <1>6, <2>1, FirstOfIs
<1> HIDE DEF shown
<1>8. Gapless(shown, IdsOf(stored, s))
  BY <1>7 DEF Gapless
<1>9. Cardinality(shown) \in Nat
  BY <1>6, <1>7, PartOf
<1>10. rest \in Nat /\ was - Cardinality(shown) <= rest
  <2>1. was - Cardinality(shown) \in Int
    BY <1>2, <1>9
  <2> QED BY <2>1, MostOfTwo
<1> HIDE DEF rest
<1>11. Cardinality(AskedOf(stored, recall, s)) <= was
  BY <1>1, RecallIs DEF BeginningFits
<1>12. Cardinality(AskedOf(stored, recall, s)) \in Nat
  <2>1. AskedOf(stored, recall, s) \subseteq IdsOf(stored, s)
    BY DEF AskedOf
  <2> QED BY <1>6, <2>1, PartOf
<1>13. Cardinality(AskedOf(stored, recall, s)) <= 0 + Cardinality(shown) + rest
  <2> DEFINE known == Cardinality(AskedOf(stored, recall, s))
             many == Cardinality(shown)
  <2>1. known \in Nat /\ many \in Nat /\ was \in Nat /\ rest \in Nat /\ known <= was
        /\ was - many <= rest
    BY <1>2, <1>9, <1>10, <1>11, <1>12
  <2> HIDE DEF known, many, was
  <2>2. known <= 0 + many + rest
    BY <2>1
  <2> QED BY <2>2 DEF known, many
<1>14. v \in Views /\ v.session = s /\ v.shown = shown /\ v.before = 0 /\ v.after = rest
  <2>1. shown \subseteq Nat
    BY <1>6, <1>7
  <2> QED BY <1>2, <1>10, <2>1 DEF Views
<1> HIDE DEF v
<1>15. [recall.views EXCEPT ![1] = v] \in Seq(Views)
  <2>1. [recall.views EXCEPT ![1] = v] = <<v>>
    BY <1>2, <1>3
  <2>2. <<v>> \in Seq(Views)
    BY <1>14
  <2> QED BY <2>1, <2>2, Zenon
<1>16. /\ r \in Recalls /\ r.phase = "done" /\ r.views = [recall.views EXCEPT ![1] = v]
       /\ SameSearchOf(r, recall) /\ r.rows = recall.rows
  BY <1>3, <1>15 DEF Recalls, RecallPhases, SameSearchOf
<1> HIDE DEF r
<1>17. ViewsFit(sessions, stored, r) /\ RowsFit(sessions, stored, r)
  <2>1. /\ v.shown \subseteq IdsOf(stored, v.session)
        /\ Gapless(v.shown, IdsOf(stored, v.session))
        /\ Cardinality(AskedOf(stored, recall, v.session))
             <= v.before + Cardinality(v.shown) + v.after
    BY <1>7, <1>8, <1>13, <1>14, Zenon
  <2> QED BY <1>1, <1>14, <1>16, <2>1, BeginningMoves DEF SameSearchOf
<1>18. ReadingFits(sessions, stored, r) /\ WindowFits(stored, r) /\ BeginningFits(stored, r)
  BY <1>16 DEF ReadingFits, WindowFits, BeginningFits
<1> QED BY <1>1, <1>2, <1>4, <1>16, <1>17, <1>18, RecallMoves DEF SameSearchOf

-----------------------------------------------------------------------------
(* The window around a message *)

LEMMA ReadBeforeKeeps ==
  ASSUME RecallInv, ReadBefore
  PROVE  RecallInv'
<1> DEFINE s == stored[recall.rows[1]].session
           row == recall.rows[1]
           S == {id \in IdsOf(stored, s) : id <= row}
           view == LastOf(S, Window + 1)
           r == [recall EXCEPT !.phase = "before", !.view = view]
<1>1. recall.phase = "taken" /\ UNCHANGED <<sessions, stored>>
  BY DEF ReadBefore
<1>2. recall.rows # <<>> /\ recall.asker \in Sessions /\ recall.asked <= Len(stored)
  BY <1>1, RecallIs DEF ReadingFits, RecallTypes
<1>3. Row = row /\ row \in 1..Len(stored)
  BY <1>2, RowIs
<1>4. recall \in Recalls /\ stored \in StoredMessages
  BY RecallIs
<1>5. Neighbours = IdsOf(stored, s)
  BY <1>3 DEF Neighbours, OfSession, IdsOf, MessageIds
<1>6. recall' = r
  BY <1>3, <1>5, Zenon DEF ReadBefore
<1>7. IdsOf(stored, s) \subseteq Nat /\ IsFiniteSet(IdsOf(stored, s)) /\ row \in IdsOf(stored, s)
  BY <1>3, <1>4, MessagesOf DEF IdsOf
<1>8. S \subseteq IdsOf(stored, s) /\ IsFiniteSet(S) /\ row \in S /\ \A id \in S : id <= row
  <2>1. S \subseteq IdsOf(stored, s) /\ row \in S /\ \A id \in S : id <= row
    BY <1>7
  <2> HIDE DEF S
  <2> QED BY <1>7, <2>1, PartOf
<1>9. \A id \in IdsOf(stored, s) : id <= row => id \in S
  OBVIOUS
<1> HIDE DEF S
<1>10. /\ view \subseteq S /\ row \in view
       /\ \A a \in view, id \in S : a < id => id \in view
  <2>1. Window + 1 \in Nat \ {0} /\ S \subseteq Nat
    BY <1>7, <1>8, RecallAssumption
  <2> QED BY <1>8, <2>1, LastOfIs
<1> HIDE DEF view
<1>11. view \subseteq IdsOf(stored, s) /\ view \subseteq Nat /\ \A id \in view : id <= row
  BY <1>7, <1>8, <1>10
<1>12. \A a \in view, id \in IdsOf(stored, s) : a < id /\ id <= row => id \in view
  BY <1>9, <1>10
<1>13. /\ r \in Recalls /\ r.phase = "before" /\ r.view = view /\ r.rows = recall.rows
       /\ r.excluded = recall.excluded /\ SameSearch(r, recall)
  BY <1>4, <1>11 DEF Recalls, RecallPhases, SameSearch
<1> HIDE DEF r
<1>14. RowsFit(sessions, stored, r) /\ ViewsFit(sessions, stored, r)
  BY <1>1, <1>13, RowsStay, ViewsStay
<1>15. WindowFits(stored, r)
  <2>1. /\ r.view \subseteq IdsOf(stored, stored[r.rows[1]].session) /\ r.rows[1] \in r.view
        /\ \A id \in r.view : id <= r.rows[1]
        /\ \A a \in r.view, id \in IdsOf(stored, stored[r.rows[1]].session) :
             a < id /\ id <= r.rows[1] => id \in r.view
    BY <1>10, <1>11, <1>12, <1>13, Zenon
  <2>2. r.phase # "after"
    BY <1>13
  <2> QED BY <2>1, <2>2, Zenon DEF WindowFits
<1>16. ReadingFits(sessions, stored, r)
  <2>1. Foreign(sessions, recall, s) /\ \A k \in DOMAIN recall.views : recall.views[k].session # s
    BY <1>1, RecallIs DEF ReadingFits
  <2>2. Foreign(sessions, r, s)
    BY <1>13, <2>1, ForeignStays
  <2> QED BY <1>2, <1>13, <2>1, <2>2, Zenon DEF ReadingFits, SameSearch
<1>17. BeginningFits(stored, r)
  BY <1>13 DEF BeginningFits
<1> QED BY <1>1, <1>2, <1>6, <1>13, <1>14, <1>15, <1>16, <1>17, RecallMoves DEF SameSearch

LEMMA ReadAfterKeeps ==
  ASSUME RecallInv, ReadAfter
  PROVE  RecallInv'
<1> DEFINE s == stored[recall.rows[1]].session
           row == recall.rows[1]
           S == {id \in IdsOf(stored, s) : id > row}
           later == FirstOf(S, Window)
           r == [recall EXCEPT !.phase = "after", !.view = recall.view \cup later]
<1>1. recall.phase = "before" /\ UNCHANGED <<sessions, stored>>
  BY DEF ReadAfter
<1>2. recall.rows # <<>> /\ recall.asker \in Sessions /\ recall.asked <= Len(stored)
  BY <1>1, RecallIs DEF ReadingFits, RecallTypes
<1>3. Row = row /\ row \in 1..Len(stored)
  BY <1>2, RowIs
<1>4. recall \in Recalls /\ stored \in StoredMessages /\ recall.view \subseteq Nat
  BY RecallIs
<1>5. Neighbours = IdsOf(stored, s)
  BY <1>3 DEF Neighbours, OfSession, IdsOf, MessageIds
<1>6. recall' = r
  BY <1>3, <1>5, Zenon DEF ReadAfter
<1>7. IdsOf(stored, s) \subseteq Nat /\ IsFiniteSet(IdsOf(stored, s)) /\ row \in Nat
  BY <1>3, <1>4, MessagesOf
<1>8. S \subseteq IdsOf(stored, s) /\ IsFiniteSet(S) /\ \A id \in S : id > row
  <2>1. S \subseteq IdsOf(stored, s) /\ \A id \in S : id > row
    BY <1>7
  <2> HIDE DEF S
  <2> QED BY <1>7, <2>1, PartOf
<1>9. \A id \in IdsOf(stored, s) : id > row => id \in S
  OBVIOUS
<1> HIDE DEF S
<1>10. later \subseteq S /\ \A a \in later, id \in S : id < a => id \in later
  <2>1. Window \in Nat /\ S \subseteq Nat
    BY <1>7, <1>8, RecallAssumption
  <2> QED BY <1>8, <2>1, FirstOfIs
<1> HIDE DEF later
<1>11. /\ recall.view \subseteq IdsOf(stored, s) /\ row \in recall.view
       /\ \A id \in recall.view : id <= row
       /\ \A a \in recall.view, id \in IdsOf(stored, s) : a < id /\ id <= row => id \in recall.view
  BY <1>1, RecallIs, Zenon DEF WindowFits
<1>12. recall.view \cup later \subseteq IdsOf(stored, s)
  BY <1>8, <1>10, <1>11
<1>13. Gapless(recall.view \cup later, IdsOf(stored, s))
  <2> SUFFICES ASSUME NEW a \in recall.view \cup later, NEW b \in recall.view \cup later,
                      NEW id \in IdsOf(stored, s), a < id, id < b
               PROVE  id \in recall.view \cup later
    BY Zenon DEF Gapless
  <2>1. a \in Nat /\ b \in Nat /\ id \in Nat
    BY <1>7, <1>12
  <2>2. CASE id <= row
    <3>1. a \notin later
      <4>1. a <= row
        BY <1>7, <2>1, <2>2
      <4> QED BY <1>7, <1>8, <1>10, <2>1, <4>1
    <3> QED BY <1>11, <2>2, <3>1
  <2>3. CASE id > row
    <3>1. b \in later
      <4>1. ~(b <= row)
        BY <1>7, <2>1, <2>3
      <4> QED BY <1>11, <4>1
    <3> QED BY <1>9, <1>10, <2>3, <3>1
  <2> QED BY <1>7, <2>1, <2>2, <2>3
<1>14. /\ r \in Recalls /\ r.phase = "after" /\ r.view = recall.view \cup later
       /\ r.rows = recall.rows /\ r.excluded = recall.excluded /\ SameSearch(r, recall)
  <2>1. recall.view \cup later \subseteq Nat
    BY <1>7, <1>12
  <2> QED BY <1>4, <2>1 DEF Recalls, RecallPhases, SameSearch
<1> HIDE DEF r
<1>15. RowsFit(sessions, stored, r) /\ ViewsFit(sessions, stored, r)
  BY <1>1, <1>14, RowsStay, ViewsStay
<1>16. WindowFits(stored, r)
  <2>1. /\ r.view \subseteq IdsOf(stored, stored[r.rows[1]].session) /\ r.rows[1] \in r.view
        /\ Gapless(r.view, IdsOf(stored, stored[r.rows[1]].session))
    BY <1>11, <1>12, <1>13, <1>14
  <2>2. r.phase # "before"
    BY <1>14
  <2> QED BY <2>1, <2>2, Zenon DEF WindowFits
<1>17. ReadingFits(sessions, stored, r)
  <2>1. Foreign(sessions, recall, s) /\ \A k \in DOMAIN recall.views : recall.views[k].session # s
    BY <1>1, RecallIs DEF ReadingFits
  <2>2. Foreign(sessions, r, s)
    BY <1>14, <2>1, ForeignStays
  <2> QED BY <1>2, <1>14, <2>1, <2>2, Zenon DEF ReadingFits, SameSearch
<1>18. BeginningFits(stored, r)
  BY <1>14 DEF BeginningFits
<1> QED BY <1>1, <1>2, <1>6, <1>14, <1>15, <1>16, <1>17, <1>18, RecallMoves DEF SameSearch

LEMMA CountRestKeeps ==
  ASSUME RecallInv, CountRest
  PROVE  RecallInv'
<1> DEFINE s == stored[recall.rows[1]].session
           row == recall.rows[1]
           shown == recall.view
           v == Counts(IdsOf(stored, s), shown)
           views == Append(recall.views, v)
           r == [recall EXCEPT !.phase = "walk", !.rows = Tail(recall.rows), !.view = {},
                   !.views = views]
<1>1. recall.phase = "after" /\ UNCHANGED <<sessions, stored>>
  BY DEF CountRest
<1>2. recall.rows # <<>> /\ recall.asker \in Sessions /\ recall.asked <= Len(stored)
  BY <1>1, RecallIs DEF ReadingFits, RecallTypes
<1>3. Row = row /\ s \in Sessions /\ Tail(recall.rows) \in Seq(Nat)
  BY <1>2, RowIs
<1>4. /\ recall \in Recalls /\ stored \in StoredMessages /\ shown \subseteq Nat
      /\ recall.views \in Seq(Views)
  BY RecallIs
<1>5. Neighbours = IdsOf(stored, s)
  BY <1>3 DEF Neighbours, OfSession, IdsOf, MessageIds
<1>6. recall' = r
  BY <1>5, Zenon DEF CountRest
<1>7. shown \subseteq IdsOf(stored, s) /\ row \in shown /\ Gapless(shown, IdsOf(stored, s))
  BY <1>1, RecallIs, Zenon DEF WindowFits
<1>8. /\ Cardinality({id \in IdsOf(stored, s) : id < Min(shown)}) \in Nat
      /\ Cardinality({id \in IdsOf(stored, s) : id > Max(shown)}) \in Nat
      /\ Cardinality(shown) \in Nat
      /\ Cardinality(IdsOf(stored, s)) <=
           Cardinality({id \in IdsOf(stored, s) : id < Min(shown)}) + Cardinality(shown)
             + Cardinality({id \in IdsOf(stored, s) : id > Max(shown)})
  <2>1. shown # {}
    BY <1>7
  <2> HIDE DEF shown
  <2> QED BY <1>4, <1>7, <2>1, WindowCounts
<1>9. /\ v.session = s /\ v.shown = shown
      /\ v.before = Cardinality({id \in IdsOf(stored, s) : id < Min(shown)})
      /\ v.after = Cardinality({id \in IdsOf(stored, s) : id > Max(shown)})
  BY <1>3 DEF Counts, View
<1>10. v \in Views
  <2>1. v = [session |-> v.session, shown |-> v.shown, before |-> v.before, after |-> v.after]
    BY DEF Counts, View
  <2> HIDE DEF v
  <2>2. v.before \in Nat /\ v.after \in Nat /\ v.session \in Sessions /\ v.shown \subseteq Nat
    BY <1>3, <1>4, <1>8, <1>9
  <2> QED BY <2>1, <2>2 DEF Views
<1> HIDE DEF v
<1>11. Cardinality(AskedOf(stored, recall, s)) <= v.before + Cardinality(v.shown) + v.after
  <2>1. IsFiniteSet(IdsOf(stored, s)) /\ Cardinality(IdsOf(stored, s)) \in Nat
    BY <1>4, MessagesOf
  <2>2. AskedOf(stored, recall, s) \subseteq IdsOf(stored, s)
    BY DEF AskedOf
  <2>3. /\ Cardinality(AskedOf(stored, recall, s)) <= Cardinality(IdsOf(stored, s))
        /\ Cardinality(AskedOf(stored, recall, s)) \in Nat
    BY <2>1, <2>2, PartOf
  <2> DEFINE all == Cardinality(IdsOf(stored, s))
             known == Cardinality(AskedOf(stored, recall, s))
             many == Cardinality(v.shown)
  <2>4. /\ all \in Nat /\ known \in Nat /\ known <= all /\ v.before \in Nat /\ v.after \in Nat
        /\ many \in Nat /\ all <= v.before + many + v.after
    BY <1>8, <1>9, <2>1, <2>3
  <2> HIDE DEF all, known, many
  <2>5. known <= v.before + many + v.after
    BY <2>4
  <2> QED BY <2>5 DEF known, many
<1>12. /\ views \in Seq(Views) /\ Len(views) = Len(recall.views) + 1
       /\ \A k \in 1..Len(recall.views) : views[k] = recall.views[k]
       /\ views[Len(recall.views) + 1] = v
  BY <1>4, <1>10
<1> HIDE DEF views
<1>13. \A k \in DOMAIN views : \/ k \in DOMAIN recall.views /\ views[k] = recall.views[k]
                               \/ k = Len(views) /\ views[k] = v
  <2>1. /\ DOMAIN views = 1..(Len(recall.views) + 1) /\ Len(recall.views) \in Nat
        /\ DOMAIN recall.views = 1..Len(recall.views)
    BY <1>4, <1>12, LenProperties
  <2> QED BY <1>12, <2>1
<1>14. /\ r \in Recalls /\ r.phase = "walk" /\ r.views = views /\ r.rows = Tail(recall.rows)
       /\ r.excluded = recall.excluded /\ r.prior = recall.prior
       /\ r.asker = recall.asker /\ r.asked = recall.asked
  BY <1>3, <1>4, <1>12 DEF Recalls, RecallPhases
<1> HIDE DEF r
<1>15. \A t : Foreign(sessions, r, t) <=> Foreign(sessions, recall, t)
  BY <1>14, Zenon DEF Foreign
<1>16. RowsFit(sessions, stored, r)
  <2>1. RowsFit(sessions, stored, recall)
    BY RecallIs
  <2>2. \A k \in DOMAIN r.rows : k + 1 \in DOMAIN recall.rows /\ r.rows[k] = recall.rows[k + 1]
    BY <1>2, <1>14, RowIs
  <2>3. recall.phase # "matched"
    BY <1>1
  <2> QED BY <1>14, <1>15, <2>1, <2>2, <2>3, Zenon DEF RowsFit
<1>17. ViewsFit(sessions, stored, r)
  <2>1. /\ ViewsFit(sessions, stored, recall) /\ Foreign(sessions, recall, s)
        /\ \A k \in DOMAIN recall.views : recall.views[k].session # s
    BY <1>1, RecallIs DEF ReadingFits
  <2>2. \A t : AskedOf(stored, r, t) = AskedOf(stored, recall, t)
    BY <1>14, Zenon DEF AskedOf
  <2>3. recall.phase \notin {"found", "total"}
    BY <1>1
  <2>4. ASSUME NEW k \in DOMAIN views
        PROVE  /\ Foreign(sessions, r, views[k].session)
               /\ views[k].shown \subseteq IdsOf(stored, views[k].session)
               /\ Gapless(views[k].shown, IdsOf(stored, views[k].session))
               /\ Cardinality(AskedOf(stored, r, views[k].session))
                    <= views[k].before + Cardinality(views[k].shown) + views[k].after
    <3>1. CASE k \in DOMAIN recall.views /\ views[k] = recall.views[k]
      BY <1>15, <2>1, <2>2, <2>3, <3>1, Zenon DEF ViewsFit
    <3>2. CASE views[k] = v
      <4>1. Foreign(sessions, r, s)
        BY <1>15, <2>1
      <4> QED BY <1>7, <1>9, <1>11, <2>2, <3>2, <4>1, Zenon
    <3> QED BY <1>13, <2>4, <3>1, <3>2
  <2>5. ASSUME NEW k \in DOMAIN views, NEW j \in DOMAIN views, j # k
        PROVE  views[j].session # views[k].session
    <3>1. CASE k \in DOMAIN recall.views /\ views[k] = recall.views[k]
      <4>1. CASE j \in DOMAIN recall.views /\ views[j] = recall.views[j]
        BY <2>1, <2>5, <3>1, <4>1, Zenon DEF ViewsFit
      <4>2. CASE j = Len(views) /\ views[j] = v
        BY <1>9, <2>1, <3>1, <4>2, Zenon
      <4> QED BY <1>13, <2>5, <4>1, <4>2, Zenon
    <3>2. CASE k = Len(views) /\ views[k] = v
      <4>1. j \in DOMAIN recall.views /\ views[j] = recall.views[j]
        BY <1>13, <2>5, <3>2, Zenon
      <4> QED BY <1>9, <2>1, <3>2, <4>1, Zenon
    <3> QED BY <1>13, <2>5, <3>1, <3>2, Zenon
  <2> QED BY <1>14, <2>4, <2>5, Zenon DEF ViewsFit
<1>18. ReadingFits(sessions, stored, r) /\ WindowFits(stored, r) /\ BeginningFits(stored, r)
  BY <1>14 DEF ReadingFits, WindowFits, BeginningFits
<1> QED BY <1>1, <1>2, <1>6, <1>14, <1>16, <1>17, <1>18, RecallMoves

-----------------------------------------------------------------------------

\* The inductive invariant of a search
LEMMA RecallInvIsInvariant == RecallSpec => []RecallInv
<1>1. RecallInit => RecallInv
  BY RecallInvHolds
<1>2. RecallInv /\ [RecallNext]_recallVars => RecallInv'
  <2> SUFFICES ASSUME RecallInv, [RecallNext]_recallVars PROVE RecallInv'
    OBVIOUS
  <2>1. CASE AppendMessage BY <2>1, AppendMessageKeeps
  <2>2. CASE ResumeDelegated BY <2>2, ResumeDelegatedKeeps
  <2>3. CASE SearchSessions BY <2>3, SearchSessionsKeeps
  <2>4. CASE ExcludeOwn BY <2>4, ExcludeOwnKeeps
  <2>5. CASE WalkRow BY <2>5, WalkRowKeeps
  <2>6. CASE RecallAround BY <2>6, RecallAroundKeeps
  <2>7. CASE ReadSession BY <2>7, ReadSessionKeeps
  <2>8. CASE CountSession BY <2>8, CountSessionKeeps
  <2>9. CASE ReadRows BY <2>9, ReadRowsKeeps
  <2>10. CASE ReadBefore BY <2>10, ReadBeforeKeeps
  <2>11. CASE ReadAfter BY <2>11, ReadAfterKeeps
  <2>12. CASE CountRest BY <2>12, CountRestKeeps
  <2>13. CASE UNCHANGED recallVars
    <3>1. sessions' = sessions /\ stored' = stored /\ recall' = recall
      BY <2>13 DEF recallVars
    <3> QED BY <3>1, Zenon DEF RecallInv
  <2> QED
    BY <2>1, <2>2, <2>3, <2>4, <2>5, <2>6, <2>7, <2>8, <2>9, <2>10, <2>11, <2>12, <2>13
       DEF RecallNext
<1> QED BY <1>1, <1>2, PTL DEF RecallSpec

\* RecallIsWhole: a search shows a session only what other lineages of its user hold,
\* each once and without a gap, and accounts for all that was there when it was asked,
\* whatever turns append and whichever subagent is resumed between its reads.
THEOREM SearchesAreWhole == RecallSpec => []RecallIsWhole
<1>1. RecallInv => RecallIsWhole
  <2> SUFFICES ASSUME RecallInv, NEW k \in DOMAIN recall.views
               PROVE  LET view == recall.views[k]
                          own == OfSession(view.session)
                      IN
                      /\ recall.prior => LineageRoot(view.session) # LineageRoot(recall.asker)
                      /\ \A other \in 1..(k - 1) : recall.views[other].session # view.session
                      /\ \A id \in own :
                           view.shown # {} /\ id > Min(view.shown) /\ id < Max(view.shown)
                             => id \in view.shown
                      /\ recall.phase \notin {"found", "total"} =>
                           Cardinality({id \in own : id <= recall.asked})
                             <= view.before + Cardinality(view.shown) + view.after
    BY Zenon DEF RecallIsWhole
  <2> DEFINE view == recall.views[k]
             s == view.session
  <2>1. /\ Foreign(sessions, recall, s) /\ view.shown \subseteq IdsOf(stored, s)
        /\ Gapless(view.shown, IdsOf(stored, s))
        /\ recall.phase \notin {"found", "total"} =>
             Cardinality(AskedOf(stored, recall, s))
               <= view.before + Cardinality(view.shown) + view.after
        /\ \A j \in DOMAIN recall.views : j # k => recall.views[j].session # s
    BY RecallIs, Zenon DEF ViewsFit
  <2>2. OfSession(s) = IdsOf(stored, s)
    BY DEF OfSession, IdsOf, MessageIds
  <2>3. stored \in StoredMessages /\ recall.views \in Seq(Views)
    BY RecallIs
  <2>4. recall.prior => LineageRoot(s) # LineageRoot(recall.asker)
    <3>1. LineageRoot(s) = s
      BY <2>1 DEF Foreign, LineageRoot, IsSubagent
    <3>2. LineageRoot(recall.asker) = RootOf(sessions, recall.asker)
      BY DEF LineageRoot, RootOf, IsSubagent
    <3> QED BY <2>1, <3>1, <3>2 DEF Foreign
  <2>5. \A other \in 1..(k - 1) : recall.views[other].session # s
    <3>1. \A other \in 1..(k - 1) : other \in DOMAIN recall.views /\ other # k
      <4>1. DOMAIN recall.views = 1..Len(recall.views) /\ Len(recall.views) \in Nat
        BY <2>3, LenProperties
      <4> QED BY <4>1
    <3> QED BY <2>1, <3>1, Zenon
  <2>6. ASSUME NEW id \in IdsOf(stored, s), view.shown # {}, id > Min(view.shown),
               id < Max(view.shown)
        PROVE  id \in view.shown
    <3>1. IdsOf(stored, s) \subseteq Nat
      BY <2>3, MessagesOf
    <3> DEFINE shown == view.shown
    <3>2. shown \subseteq Nat /\ shown \subseteq IdsOf(stored, s) /\ shown # {}
      BY <2>1, <2>6, <3>1
    <3> HIDE DEF shown
    <3>3. Min(shown) \in shown /\ Max(shown) \in shown
      BY <2>3, <3>2, LeastIs, GreatestIs
    <3>4. id \in Nat /\ Min(shown) \in Nat /\ Max(shown) \in Nat
      BY <3>1, <3>2, <3>3
    <3>5. Min(shown) < id /\ id < Max(shown)
      BY <2>6, <3>4 DEF shown
    <3>6. Gapless(shown, IdsOf(stored, s))
      BY <2>1 DEF shown
    <3>7. id \in shown
      BY <3>3, <3>5, <3>6, Zenon DEF Gapless
    <3> QED BY <3>7 DEF shown
  <2>7. {id \in OfSession(s) : id <= recall.asked} = AskedOf(stored, recall, s)
    BY <2>2 DEF AskedOf
  <2> HIDE DEF view, s
  <2> QED BY <2>1, <2>2, <2>4, <2>5, <2>6, <2>7, Zenon DEF view, s
<1> QED BY <1>1, RecallInvIsInvariant, PTL

-----------------------------------------------------------------------------
(* The values of a search (SessionRecall) *)

\* Only the window that is being read has messages already.
SearchTypes ==
  /\ Len(stored) <= MaxStored
  /\ recall.phase \notin {"before", "after"} => recall.view = {}

LEMMA SearchTypesKept ==
  RecallAssumption /\ RecallInv /\ SearchTypes /\ [RecallNext]_recallVars => SearchTypes'
<1> SUFFICES ASSUME RecallAssumption, RecallInv, SearchTypes, [RecallNext]_recallVars
             PROVE  SearchTypes'
  OBVIOUS
<1>1. /\ Len(stored) <= MaxStored
      /\ recall.phase \notin {"before", "after"} => recall.view = {}
  BY DEF SearchTypes
<1>2. recall \in Recalls /\ stored \in StoredMessages
  BY RecallIs
<1>4. recall = NoRecall => recall.view = {}
  BY DEF NoRecall
<1>5. CASE AppendMessage
  <2>1. PICK m : stored' = Append(stored, m) /\ Len(stored) < MaxStored /\ recall' = recall
    BY <1>5 DEF AppendMessage
  <2>2. Len(stored) \in Nat /\ Len(Append(stored, m)) = Len(stored) + 1
    BY <1>2, LenProperties DEF StoredMessages
  <2>3. MaxStored \in Nat
    BY DEF RecallAssumption
  <2>4. Len(stored') <= MaxStored
    BY <2>1, <2>2, <2>3
  <2> QED BY <1>1, <2>1, <2>4 DEF SearchTypes
<1>6. CASE ResumeDelegated
  BY <1>1, <1>6 DEF ResumeDelegated, SearchTypes
<1>7. CASE SearchSessions
  <2>1. recall = NoRecall /\ stored' = stored
    BY <1>7 DEF SearchSessions
  <2>2. PICK asker \in Sessions, prior \in BOOLEAN :
          \E ranked \in SetToSeqs(Matched(asker, prior)) :
            recall' = [recall EXCEPT !.phase = "matched", !.asker = asker, !.prior = prior,
                         !.asked = Len(stored),
                         !.rows = SubSeq(ranked, 1, Min({MatchLimit, Len(ranked)}))]
    BY <1>7, Zenon DEF SearchSessions
  <2>3. recall'.view = recall.view
    BY <1>2, <2>2 DEF Recalls
  <2> QED BY <1>1, <1>4, <2>1, <2>3 DEF SearchTypes
<1>8. CASE ExcludeOwn
  <2>1. recall.phase = "matched" /\ stored' = stored /\ recall'.view = recall.view
    BY <1>2, <1>8 DEF ExcludeOwn, Recalls
  <2> QED BY <1>1, <2>1 DEF SearchTypes
<1>9. CASE WalkRow
  <2>1. recall.phase = "walk" /\ stored' = stored /\ recall'.view = recall.view
    BY <1>2, <1>9 DEF WalkRow, Recalls
  <2> QED BY <1>1, <2>1 DEF SearchTypes
<1>10. CASE RecallAround
  <2>1. recall = NoRecall /\ stored' = stored
    BY <1>10 DEF RecallAround
  <2>2. PICK asker \in Sessions, prior \in BOOLEAN, id \in MessageIds :
          /\ Recallable(asker, prior, stored[id].session)
          /\ prior \/ stored[id].session = asker
          /\ recall' = [recall EXCEPT !.phase = "taken", !.asker = asker, !.prior = prior,
                          !.asked = Len(stored), !.rows = <<id>>]
    BY <1>10, Zenon DEF RecallAround
  <2>3. recall'.view = recall.view
    BY <1>2, <2>2 DEF Recalls
  <2> QED BY <1>1, <1>4, <2>1, <2>3 DEF SearchTypes
<1>11. CASE ReadSession
  <2>1. recall = NoRecall /\ stored' = stored
    BY <1>11 DEF ReadSession
  <2>2. PICK asker \in Sessions, prior \in BOOLEAN, session \in Sessions :
          /\ Recallable(asker, prior, session) /\ (prior \/ session = asker)
          /\ recall' = [recall EXCEPT !.phase = "found", !.asker = asker, !.prior = prior,
                          !.asked = Len(stored), !.views = <<View(session, {}, 0, 0)>>]
    BY <1>11, Zenon DEF ReadSession
  <2>3. recall'.view = recall.view
    BY <1>2, <2>2 DEF Recalls
  <2> QED BY <1>1, <1>4, <2>1, <2>3 DEF SearchTypes
<1>12. CASE CountSession
  <2>1. recall.phase = "found" /\ stored' = stored /\ recall'.view = recall.view
    BY <1>2, <1>12 DEF CountSession, Recalls
  <2> QED BY <1>1, <2>1 DEF SearchTypes
<1>13. CASE ReadRows
  <2>1. recall.phase = "total" /\ stored' = stored /\ recall'.view = recall.view
    BY <1>2, <1>13 DEF ReadRows, Recalls
  <2> QED BY <1>1, <2>1 DEF SearchTypes
<1>14. CASE ReadBefore
  <2>1. stored' = stored /\ recall'.phase = "before"
    BY <1>2, <1>14 DEF ReadBefore, Recalls
  <2> QED BY <1>1, <2>1 DEF SearchTypes
<1>15. CASE ReadAfter
  <2>1. stored' = stored /\ recall'.phase = "after"
    BY <1>2, <1>15 DEF ReadAfter, Recalls
  <2> QED BY <1>1, <2>1 DEF SearchTypes
<1>16. CASE CountRest
  <2>1. stored' = stored /\ recall'.view = {}
    BY <1>2, <1>16 DEF CountRest, Recalls
  <2> QED BY <1>1, <2>1 DEF SearchTypes
<1>17. CASE UNCHANGED recallVars
  BY <1>1, <1>17 DEF recallVars, SearchTypes
<1> QED BY <1>5, <1>6, <1>7, <1>8, <1>9, <1>10, <1>11, <1>12, <1>13, <1>14, <1>15, <1>16, <1>17,
           Zenon DEF RecallNext

LEMMA SearchesAreTyped == RecallInv /\ SearchTypes => RecallTypeOK
<1> SUFFICES ASSUME RecallInv, SearchTypes PROVE RecallTypeOK
  OBVIOUS
<1> DEFINE n == Len(stored)
<1>1. /\ RowsFit(sessions, stored, recall) /\ ViewsFit(sessions, stored, recall)
      /\ WindowFits(stored, recall)
      /\ stored \in StoredMessages /\ recall \in Recalls /\ sessions \in Lineages
      /\ recall.rows \in Seq(Nat) /\ recall.views \in Seq(Views)
  BY RecallIs
<1>2. \A s : IdsOf(stored, s) \subseteq MessageIds
  BY DEF IdsOf, MessageIds
<1>3. recall.rows \in Seq(MessageIds)
  <2> DEFINE rows == recall.rows
  <2>1. \A k \in DOMAIN rows : rows[k] \in MessageIds
    BY <1>1 DEF RowsFit, MessageIds
  <2>2. rows \in Seq(Nat) /\ DOMAIN rows = 1..Len(rows) /\ Len(rows) \in Nat
    BY <1>1, LenProperties
  <2> HIDE DEF rows
  <2>3. rows \in [1..Len(rows) -> MessageIds]
    BY <2>1, <2>2
  <2>4. rows \in Seq(MessageIds)
    BY <2>2, <2>3
  <2> QED BY <2>4 DEF rows
<1>4. recall.view \subseteq MessageIds
  BY <1>1, <1>2 DEF SearchTypes, WindowFits
<1>5. ASSUME NEW k \in DOMAIN recall.views
      PROVE  recall.views[k] \in [session : Sessions, shown : SUBSET MessageIds,
                                  before : Nat, after : Nat]
  <2> DEFINE v == recall.views[k]
  <2>1. v \in Views
    BY <1>1, LenProperties, ElementOfSeq
  <2>2. v.shown \subseteq MessageIds
    BY <1>1, <1>2, <1>5 DEF ViewsFit
  <2> HIDE DEF v
  <2>3. v \in [session : Sessions, shown : SUBSET MessageIds, before : Nat, after : Nat]
    BY <2>1, <2>2 DEF Views
  <2> QED BY <2>3 DEF v
<1>6. recall.phase \in {"idle", "matched", "walk", "taken", "before", "after", "found", "total",
                        "done"}
  BY <1>1 DEF Recalls, RecallPhases
<1> QED BY <1>1, <1>3, <1>4, <1>5, <1>6 DEF RecallTypeOK, SearchTypes, StoredMessages, Lineages

LEMMA SearchesKeepTypes == RecallSpec => []RecallTypeOK
<1>1. RecallInit => SearchTypes
  <2> SUFFICES ASSUME RecallInit PROVE SearchTypes
    OBVIOUS
  <2>1. Len(stored) = 0 /\ recall.view = {}
    BY DEF RecallInit, NoRecall
  <2>2. MaxStored \in Nat
    BY RecallAssumption DEF RecallAssumption
  <2> QED BY <2>1, <2>2 DEF SearchTypes
<1>2. RecallInv /\ SearchTypes /\ [RecallNext]_recallVars => SearchTypes'
  BY RecallAssumption, SearchTypesKept
<1> QED BY <1>1, <1>2, SearchesAreTyped, RecallInvIsInvariant, PTL DEF RecallSpec

-----------------------------------------------------------------------------
(* The bash tool (BashTool) *)

\* What a command's watcher says of its process and of what was told of its end.
CommandIsWatched(c) ==
  /\ watcher[c] = "none" => process[c] = "none" /\ reply[c] = "none" /\ report[c] = "none"
  /\ watcher[c] \in {"call", "call_to_the_end"} =>
       process[c] \in {"live", "exited"} /\ reply[c] = "none" /\ report[c] = "none"
  /\ watcher[c] = "task_queued" =>
       process[c] \in {"none", "live", "exited"} /\ reply[c] = "task" /\ report[c] = "none"
  /\ watcher[c] = "task" =>
       process[c] \in {"live", "exited"} /\ reply[c] = "task" /\ report[c] = "none"
  /\ watcher[c] = "over" =>
       /\ process[c] # "live" /\ reply[c] # "none"
       /\ reply[c] = "task" <=> report[c] # "none"
       /\ "completed" \in {reply[c], report[c]} => process[c] = "exited"

BashInv == BashTypeOK /\ \A c \in Commands : CommandIsWatched(c)

\* The end that a wait sees is one of three, and "completed" only of what has exited
\* by itself (EndOf, Terminated).
LEMMA EndIsSeen ==
  ASSUME BashTypeOK, NEW c \in Commands, EndOf(c) # "none", process[c] \in {"live", "exited"}
  PROVE  /\ EndOf(c) \in ProcessEnds
         /\ EndOf(c) = "completed" => Terminated(c) = "exited"
         /\ Terminated(c) \in {"exited", "terminated"}
<1>1. EndOf(c) \in ProcessEnds
  BY Zenon DEF EndOf, ProcessEnds
<1>2. CASE process[c] = "exited"
  BY <1>1, <1>2 DEF Terminated
<1>3. CASE process[c] = "live" /\ cancelled[c]
  <2>1. EndOf(c) = "cancelled"
    BY <1>3, Zenon DEF EndOf
  <2> QED BY <1>1, <1>3, <2>1 DEF Terminated
<1>4. CASE process[c] = "live" /\ ~cancelled[c] /\ overtime[c]
  <2>1. EndOf(c) = "timed_out"
    BY <1>4, Zenon DEF EndOf
  <2> QED BY <1>1, <1>4, <2>1 DEF Terminated
<1>5. CASE process[c] = "live" /\ ~cancelled[c] /\ ~overtime[c]
  BY <1>5, Zenon DEF EndOf
<1> QED BY <1>2, <1>3, <1>4, <1>5

\* A step of one command leaves the invariant of every command.
LEMMA BashStep ==
  ASSUME BashInv, NEW c \in Commands,
         StartProcess(c) \/ StartTask(c) \/ Yield(c) \/ Waiting(c)
         \/ Exit(c) \/ PassTimeout(c) \/ Cancel(c)
  PROVE  BashInv'
<1> USE DEF BashTypeOK
<1>t. BashTypeOK /\ CommandIsWatched(c)
  BY DEF BashInv
<1>o. \A d \in Commands \ {c} : CommandIsWatched(d)
  BY DEF BashInv
<1>1. CASE StartProcess(c)
  <2>1. CASE cancelled[c]
    <3>1. BashTypeOK'
      BY <1>t, <1>1, <2>1 DEF StartProcess, CancelledResult, Watchers, ProcessEnds
    <3>2. CommandIsWatched(c)'
      BY <1>t, <1>1, <2>1 DEF StartProcess, CancelledResult, CommandIsWatched
    <3>3. ASSUME NEW d \in Commands, d # c PROVE CommandIsWatched(d)'
      BY <1>t, <1>o, <1>1, <2>1, <3>3 DEF StartProcess, CancelledResult, CommandIsWatched
    <3> QED BY <3>1, <3>2, <3>3 DEF BashInv
  <2>2. CASE ~cancelled[c]
    <3>0. PICK how \in {"call", "call_to_the_end"} : watcher' = [watcher EXCEPT ![c] = how]
      BY <1>1, <2>2 DEF StartProcess
    <3>1. BashTypeOK'
      BY <1>t, <1>1, <2>2, <3>0 DEF StartProcess, Watchers
    <3>2. CommandIsWatched(c)'
      BY <1>t, <1>1, <2>2, <3>0 DEF StartProcess, CommandIsWatched
    <3>3. ASSUME NEW d \in Commands, d # c PROVE CommandIsWatched(d)'
      BY <1>t, <1>o, <1>1, <2>2, <3>0, <3>3 DEF StartProcess, CommandIsWatched
    <3> QED BY <3>1, <3>2, <3>3 DEF BashInv
  <2> QED BY <2>1, <2>2
<1>2. CASE StartTask(c)
  <2>1. BashTypeOK'
    BY <1>t, <1>2 DEF StartTask, Watchers
  <2>2. CommandIsWatched(c)'
    BY <1>t, <1>2 DEF StartTask, CommandIsWatched
  <2>3. ASSUME NEW d \in Commands, d # c PROVE CommandIsWatched(d)'
    BY <1>t, <1>o, <1>2, <2>3 DEF StartTask, CommandIsWatched
  <2> QED BY <2>1, <2>2, <2>3 DEF BashInv
<1>3. CASE Yield(c)
  <2>1. BashTypeOK'
    BY <1>t, <1>3 DEF Yield, Watchers
  <2>2. CommandIsWatched(c)'
    BY <1>t, <1>3 DEF Yield, CommandIsWatched
  <2>3. ASSUME NEW d \in Commands, d # c PROVE CommandIsWatched(d)'
    BY <1>t, <1>o, <1>3, <2>3 DEF Yield, CommandIsWatched
  <2> QED BY <2>1, <2>2, <2>3 DEF BashInv
<1>4. CASE ReturnResult(c)
  <2>e. EndOf(c) \in ProcessEnds /\ (EndOf(c) = "completed" => Terminated(c) = "exited")
        /\ Terminated(c) \in {"exited", "terminated"}
    BY <1>t, <1>4, EndIsSeen DEF ReturnResult, CommandIsWatched
  <2>1. BashTypeOK'
    BY <1>t, <1>4, <2>e DEF ReturnResult, Watchers
  <2>2. CommandIsWatched(c)'
    BY <1>t, <1>4, <2>e DEF ReturnResult, CommandIsWatched, ProcessEnds
  <2>3. ASSUME NEW d \in Commands, d # c PROVE CommandIsWatched(d)'
    BY <1>t, <1>o, <1>4, <2>3 DEF ReturnResult, CommandIsWatched
  <2> QED BY <2>1, <2>2, <2>3 DEF BashInv
<1>5. CASE RunTask(c)
  <2>1. BashTypeOK'
    BY <1>t, <1>5 DEF RunTask, Watchers, ProcessEnds
  <2>2. CommandIsWatched(c)'
    BY <1>t, <1>5 DEF RunTask, CommandIsWatched
  <2>3. ASSUME NEW d \in Commands, d # c PROVE CommandIsWatched(d)'
    BY <1>t, <1>o, <1>5, <2>3 DEF RunTask, CommandIsWatched
  <2> QED BY <2>1, <2>2, <2>3 DEF BashInv
<1>6. CASE EndTask(c)
  <2>e. EndOf(c) \in ProcessEnds /\ (EndOf(c) = "completed" => Terminated(c) = "exited")
        /\ Terminated(c) \in {"exited", "terminated"}
    BY <1>t, <1>6, EndIsSeen DEF EndTask, CommandIsWatched
  <2>1. BashTypeOK'
    BY <1>t, <1>6, <2>e DEF EndTask, Watchers
  <2>2. CommandIsWatched(c)'
    BY <1>t, <1>6, <2>e DEF EndTask, CommandIsWatched, ProcessEnds
  <2>3. ASSUME NEW d \in Commands, d # c PROVE CommandIsWatched(d)'
    BY <1>t, <1>o, <1>6, <2>3 DEF EndTask, CommandIsWatched
  <2> QED BY <2>1, <2>2, <2>3 DEF BashInv
<1>7. CASE Exit(c)
  <2>1. BashTypeOK'
    BY <1>t, <1>7 DEF Exit
  <2>2. CommandIsWatched(c)'
    BY <1>t, <1>7 DEF Exit, CommandIsWatched
  <2>3. ASSUME NEW d \in Commands, d # c PROVE CommandIsWatched(d)'
    BY <1>t, <1>o, <1>7, <2>3 DEF Exit, CommandIsWatched
  <2> QED BY <2>1, <2>2, <2>3 DEF BashInv
<1>8. CASE PassTimeout(c) \/ Cancel(c)
  <2>1. BashTypeOK' /\ UNCHANGED <<watcher, process, reply, report>>
    BY <1>t, <1>8 DEF PassTimeout, Cancel
  <2> QED BY <1>t, <1>o, <2>1 DEF BashInv, CommandIsWatched
<1> QED BY <1>1, <1>2, <1>3, <1>4, <1>5, <1>6, <1>7, <1>8 DEF Waiting

\* No process of a command is left without somebody who waits for it, and its end is
\* told once, for any number of commands, of tasks and of slots
\* (_wait_for_process() and _finish_process() of tools/bash_tool.py).
THEOREM ProcessesAreWatched == BashSpec => []EveryProcessIsWatched
<1>1. BashInit => BashInv
  BY DEF BashInit, BashInv, BashTypeOK, CommandIsWatched, Watchers, ProcessEnds
<1>2. BashInv /\ [BashNext]_bashVars => BashInv'
  <2> SUFFICES ASSUME BashInv, [BashNext]_bashVars PROVE BashInv'
    OBVIOUS
  <2>1. CASE UNCHANGED bashVars
    BY <2>1 DEF BashInv, BashTypeOK, CommandIsWatched, bashVars
  <2>2. CASE BashNext
    BY <2>2, BashStep DEF BashNext
  <2> QED BY <2>1, <2>2
<1>3. BashInv => EveryProcessIsWatched
  BY DEF BashInv, BashTypeOK, CommandIsWatched, EveryProcessIsWatched, Watchers
<1> QED BY <1>1, <1>2, <1>3, PTL DEF BashSpec
=============================================================================
