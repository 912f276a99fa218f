---------------------------- MODULE Agent_proofs ----------------------------
(***************************************************************************)
(* What the agent does in a turn: the request it builds, the transport of  *)
(* it, the calls it makes and their approval, the todo list.  Proved for   *)
(* any number of messages, calls, retries and crashes: each section has    *)
(* the inductive invariant of a component, one lemma for each of its       *)
(* actions, and the theorems about its specification.                      *)
(***************************************************************************)
EXTENDS TurnContext, ModelTransport, ToolApprovals, ToolBatch, TodoList,
        Interfaces_proofs

-----------------------------------------------------------------------------
(* Approvals (ToolApprovals) *)

SpentRecords == [home : Talks, answer : {"none", "once", "session", "denied"},
                 resumed : 0..2, reused : 0..2, by : SUBSET Talks]
TalkRecords ==
  [at : {"idle", "reply", "claim", "resume", "run", "create", "attach", "complete"},
   run : Runs \cup {0}, resumes : InteractionRecords \cup {Nothing}, asked : Ids \cup {0},
   wants : Requests \cup {Clarify}]

\* An interaction agrees with what the user answered to it, and with what was run on it.
AnswerFits(item, answer) ==
  /\ item.status = "pending" => answer = "none"
  /\ item.status \in {"approved", "granted"} => answer \in {"once", "session"}
  /\ item.status = "denied" => answer = "denied"
  /\ item.lasting <=> answer = "session"
  /\ item.status = "granted" => item.lasting
ItemFits(item, past) ==
  /\ item.id \in DOMAIN past /\ item.session = past[item.id].home
  /\ AnswerFits(item, past[item.id].answer)
  /\ item.status # "granted" /\ ~item.claimed => past[item.id].resumed = 0
  /\ ~item.lasting => past[item.id].reused = 0
FileFits(items, past) ==
  /\ items \in Seq(InteractionRecords) /\ Len(items) <= Len(past)
  /\ \A item \in Range(items) : ItemFits(item, past)

\* A turn that resumes has claimed the interaction of its own session, which no turn can
\* claim again, and has not run its call yet.
IsTaken(i, items) ==
  \A item \in Range(items) : item.id = i => item.claimed \/ item.status = "granted"
ResumeFits(s, t, items, past) ==
  /\ t.at # "idle" => t.run \in Runs
  /\ t.resumes # Nothing =>
       /\ t.resumes.id \in DOMAIN past /\ past[t.resumes.id].home = s
       /\ t.resumes.status = "approved" => past[t.resumes.id].answer \in {"once", "session"}
       /\ t.resumes.status \in {"approved", "denied"}
  /\ t.at = "resume" =>
       /\ t.resumes # Nothing /\ past[t.resumes.id].resumed = 0
       /\ IsTaken(t.resumes.id, items)
TalksFit(talks, items, past) ==
  talks \in [Talks -> TalkRecords] /\ \A s \in Talks : ResumeFits(s, talks[s], items, past)

SpentSoFar(entry) ==
  /\ entry.by \subseteq {entry.home} /\ entry.resumed <= 1
  /\ entry.answer # "session" => entry.reused <= 1
  /\ entry.answer \in {"none", "denied"} => entry.resumed = 0 /\ entry.reused = 0
PastFits(past) ==
  /\ past \in Seq(SpentRecords) /\ Len(past) <= MaxRequests
  /\ \A i \in DOMAIN past : SpentSoFar(past[i])

ConsentedRequest(r) ==
  \/ r.tool = "bash" /\ r.syntax # "dynamic" /\ ~r.background /\ Range(r.words) = {"reads"}
  \/ provider = "yolo" /\ r.tool \in HostTools
  \/ provider = "console"
ApprovalInv ==
  /\ provider \in {"deferred", "deny", "yolo", "console"}
  /\ turnsRun \in [Talks -> Runs \cup {0}] /\ approvalCrashes \in 0..MaxApprovalCrashes
  /\ excused \subseteq Requests /\ \A r \in excused : ConsentedRequest(r)
  /\ FileFits(interactions, spent) /\ TalksFit(talk, interactions, spent) /\ PastFits(spent)

-----------------------------------------------------------------------------
(* What is kept of a sequence *)

KeptOf(wanted, items) ==
  CHOOSE g : g = [n \in 0..Len(items) |->
                    IF n = 0 THEN <<>>
                    ELSE IF items[n] \in wanted THEN Append(g[n - 1], items[n]) ELSE g[n - 1]]

LEMMA KeptIs ==
  ASSUME NEW A, NEW wanted, NEW items \in Seq(A)
  PROVE  /\ Only(wanted, items) = KeptOf(wanted, items)[Len(items)]
         /\ KeptOf(wanted, items)[0] = <<>>
         /\ \A i \in 1..Len(items) :
              KeptOf(wanted, items)[i] =
                IF items[i] \in wanted THEN Append(KeptOf(wanted, items)[i - 1], items[i])
                ELSE KeptOf(wanted, items)[i - 1]
<1> DEFINE More(s, e) == IF e \in wanted THEN Append(s, e) ELSE s
           step == [s \in Seq(A) |-> [e \in A |-> More(s, e)]]
           KeptHere(f) == [n \in 0..Len(items) |-> IF n = 0 THEN <<>> ELSE More(f[n - 1], items[n])]
<1>1. Len(items) \in Nat /\ \A i \in 1..Len(items) : items[i] \in A
  BY LenProperties, ElementOfSeq
<1>2. step \in [Seq(A) -> [A -> Seq(A)]]
  <2>1. \A s \in Seq(A), e \in A : More(s, e) \in Seq(A)
    OBVIOUS
  <2> HIDE DEF More
  <2> QED BY <2>1
<1>3. \E f \in [0..Len(items) -> Seq(A)] : IsFold(f, <<>>, step, items)
  <2> HIDE DEF step
  <2>1. <<>> \in Seq(A)
    OBVIOUS
  <2>2. items \in Seq(A)
    OBVIOUS
  <2> QED BY <1>2, <2>1, <2>2, FoldExists
<1>4. PICK f \in [0..Len(items) -> Seq(A)] :
        f[0] = <<>> /\ \A i \in 1..Len(items) : f[i] = step[f[i - 1]][items[i]]
  BY <1>3 DEF IsFold
<1>5. \A i \in 1..Len(items) : i - 1 \in 0..Len(items) /\ f[i - 1] \in Seq(A)
  BY <1>1, SMTT(30)
<1> HIDE DEF More
<1>6. \A i \in 1..Len(items) : f[i] = More(f[i - 1], items[i])
  BY <1>1, <1>4, <1>5
<1> HIDE DEF step
<1>7. f = KeptHere(f)
  <2>1. \A n \in 0..Len(items) : f[n] = IF n = 0 THEN <<>> ELSE More(f[n - 1], items[n])
    BY <1>1, <1>4, <1>6
  <2> QED BY <2>1
<1>8. /\ KeptOf(wanted, items) = CHOOSE g : g = KeptHere(g)
      /\ Only(wanted, items) = (CHOOSE g : g = KeptHere(g))[Len(items)]
  BY DEF KeptOf, Only, More
<1>9. KeptOf(wanted, items) = KeptHere(KeptOf(wanted, items))
  <2> HIDE DEF KeptHere
  <2> QED BY <1>7, <1>8
<1> DEFINE h == KeptOf(wanted, items)
<1>10. Only(wanted, items) = h[Len(items)]
  <2> HIDE DEF KeptHere
  <2> QED BY <1>8
<1> HIDE DEF h
<1>11. h = KeptHere(h)
  BY <1>9 DEF h
<1>12. h[0] = <<>> /\ \A i \in 1..Len(items) : h[i] = More(h[i - 1], items[i])
  <2>1. 0 \in 0..Len(items) /\ \A i \in 1..Len(items) : i \in 0..Len(items) /\ i # 0
    BY <1>1
  <2>2. \A n \in 0..Len(items) : KeptHere(h)[n] = IF n = 0 THEN <<>> ELSE More(h[n - 1], items[n])
    OBVIOUS
  <2> HIDE DEF KeptHere
  <2> QED BY <1>11, <2>1, <2>2
<1> QED BY <1>10, <1>12 DEF h, More

\* What is kept are the members that are wanted; it is shorter if another is left out.
LEMMA OnlyIs ==
  ASSUME NEW A, NEW wanted, NEW items \in Seq(A)
  PROVE  /\ Only(wanted, items) \in Seq(A)
         /\ Range(Only(wanted, items)) = Range(items) \cap wanted
         /\ Len(Only(wanted, items)) <= Len(items)
         /\ \A x \in Range(items) : x \notin wanted => Len(Only(wanted, items)) < Len(items)
<1> DEFINE h == KeptOf(wanted, items)
           Had(n) == {items[k] : k \in 1..n}
           Fits(n) == /\ h[n] \in Seq(A) /\ Range(h[n]) = Had(n) \cap wanted /\ Len(h[n]) <= n
                      /\ \A x \in Had(n) : x \notin wanted => Len(h[n]) < n
           T == {n \in 0..Len(items) : Fits(n)}
<1>1. Len(items) \in Nat /\ \A i \in 1..Len(items) : items[i] \in A
  BY LenProperties, ElementOfSeq
<1>2. /\ Only(wanted, items) = h[Len(items)] /\ h[0] = <<>>
      /\ \A i \in 1..Len(items) :
           h[i] = IF items[i] \in wanted THEN Append(h[i - 1], items[i]) ELSE h[i - 1]
  <2>1. items \in Seq(A)
    OBVIOUS
  <2> QED BY <2>1, KeptIs
<1> HIDE DEF h
<1>3. 0 \in T
  <2>1. Had(0) = {} /\ 0 \in 0..Len(items)
    BY <1>1
  <2>2. <<>> \in Seq(A) /\ Len(<<>>) = 0 /\ Range(<<>>) = {}
    BY DEF Range
  <2> HIDE DEF Had
  <2>3. h[0] \in Seq(A) /\ Len(h[0]) <= 0
    BY <1>2, <2>2
  <2>4. Range(h[0]) = Had(0) \cap wanted
    BY <1>2, <2>1, <2>2
  <2> QED BY <2>1, <2>3, <2>4
<1>4. ASSUME NEW i \in 0..(Len(items) - 1), i \in T PROVE i + 1 \in T
  <2>1. i \in Nat /\ i + 1 \in 1..Len(items) /\ i + 1 \in 0..Len(items) /\ (i + 1) - 1 = i
    BY <1>1
  <2>2. Had(i + 1) = Had(i) \cup {items[i + 1]}
    <3>1. 1..(i + 1) = 1..i \cup {i + 1}
      BY <2>1
    <3> QED BY <3>1
  <2>3. /\ h[i] \in Seq(A) /\ Range(h[i]) = Had(i) \cap wanted /\ Len(h[i]) <= i
        /\ \A x \in Had(i) : x \notin wanted => Len(h[i]) < i
    BY <1>4
  <2>4. items[i + 1] \in A
    BY <1>1, <2>1
  <2> HIDE DEF Had
  <2>5. CASE items[i + 1] \in wanted
    <3>1. h[i + 1] = Append(h[i], items[i + 1])
      BY <1>2, <2>1, <2>5
    <3>2. /\ Append(h[i], items[i + 1]) \in Seq(A)
          /\ Len(Append(h[i], items[i + 1])) = Len(h[i]) + 1
      BY <2>3, <2>4
    <3>4. Range(Append(h[i], items[i + 1])) = Range(h[i]) \cup {items[i + 1]}
      BY <2>3, <2>4, RangeOfAppend
    <3>3. Len(h[i]) \in Nat
      BY <2>3, LenProperties
    <3>5. Range(h[i + 1]) = Had(i + 1) \cap wanted
      BY <2>2, <2>3, <2>5, <3>1, <3>4
    <3>6. Len(h[i + 1]) <= i + 1
      BY <2>1, <2>3, <3>1, <3>2, <3>3
    <3>7. \A x \in Had(i + 1) : x \notin wanted => Len(h[i + 1]) < i + 1
      BY <2>1, <2>2, <2>3, <2>5, <3>1, <3>2, <3>3
    <3> QED BY <2>1, <3>1, <3>2, <3>5, <3>6, <3>7
  <2>6. CASE items[i + 1] \notin wanted
    <3>1. h[i + 1] = h[i]
      BY <1>2, <2>1, <2>6
    <3>2. Len(h[i]) \in Nat
      BY <2>3, LenProperties
    <3> QED BY <2>1, <2>2, <2>3, <2>6, <3>1, <3>2
  <2> QED BY <2>5, <2>6
<1> HIDE DEF T
<1>5. Len(items) \in T
  <2>1. \A n \in 0..Len(items) : n \in T
    BY <1>1, <1>3, <1>4, UpTo, Zenon
  <2>2. Len(items) \in 0..Len(items)
    BY <1>1
  <2> QED BY <2>1, <2>2
<1>6. Had(Len(items)) = Range(items)
  <2>1. DOMAIN items = 1..Len(items)
    BY LenProperties
  <2> QED BY <2>1 DEF Range
<1> QED BY <1>2, <1>5, <1>6 DEF T

LEMMA HeadIs ==
  ASSUME NEW A, NEW wanted, NEW items \in Seq(A), Only(wanted, items) # <<>>
  PROVE  /\ Head(Only(wanted, items)) \in Range(items)
         /\ Head(Only(wanted, items)) \in wanted /\ Head(Only(wanted, items)) \in A
<1>1. Only(wanted, items) \in Seq(A) /\ Range(Only(wanted, items)) = Range(items) \cap wanted
  BY OnlyIs, Zenon
<1>2. \A kept \in Seq(A) : kept # <<>> => Head(kept) \in Range(kept) /\ Head(kept) \in A
  BY DEF Range
<1> QED BY <1>1, <1>2, Zenon

\* The first of a session in one of some statuses is fresh, and of the file.
LEMMA FirstIs ==
  ASSUME NEW A, NEW items \in Seq(A), NEW s, NEW statuses
  PROVE  /\ Active(items) \in Seq(A) /\ Range(Active(items)) = {x \in Range(items) : ~x.old}
         /\ Len(Active(items)) <= Len(items)
         /\ Of(s, statuses, Active(items)) \in Seq(A)
         /\ \A x \in Range(Of(s, statuses, Active(items))) :
              x \in Range(items) /\ ~x.old /\ x.session = s /\ x.status \in statuses
         /\ Of(s, statuses, Active(items)) # <<>> =>
              LET first == Head(Of(s, statuses, Active(items))) IN
              /\ first \in Range(items) /\ first \in A /\ ~first.old
              /\ first.session = s /\ first.status \in statuses
<1> DEFINE fresh == Active(items)
           mine == {x \in Range(fresh) : x.session = s /\ x.status \in statuses}
           kept == Of(s, statuses, fresh)
<1>1. /\ fresh \in Seq(A) /\ Len(fresh) <= Len(items)
      /\ Range(fresh) = {x \in Range(items) : ~x.old}
  <2>1. /\ fresh \in Seq(A) /\ Len(fresh) <= Len(items)
        /\ Range(fresh) = Range(items) \cap {x \in Range(items) : ~x.old}
    BY OnlyIs, Zenon DEF Active
  <2> QED BY <2>1
<1> HIDE DEF fresh
<1>2. kept = Only(mine, fresh)
  BY DEF Of
<1> HIDE DEF kept
<1>3. kept \in Seq(A) /\ Range(kept) = Range(fresh) \cap mine
  BY <1>1, <1>2, OnlyIs, Zenon
<1>4. kept # <<>> => Head(kept) \in mine /\ Head(kept) \in A
  BY <1>1, <1>2, HeadIs, Zenon
<1> QED
  <2>1. Of(s, statuses, Active(items)) = kept /\ Active(items) = fresh
    BY DEF kept, fresh
  <2>2. \A x \in mine : x.session = s /\ x.status \in statuses /\ x \in Range(items) /\ ~x.old
    BY <1>1
  <2> HIDE DEF mine
  <2> QED BY <1>1, <1>3, <1>4, <2>1, <2>2

\* The same of the first that is wanted among them.
LEMMA FirstWantedIs ==
  ASSUME NEW A, NEW items \in Seq(A), NEW s, NEW statuses, NEW wanted,
         Only(wanted, Of(s, statuses, Active(items))) # <<>>
  PROVE  LET first == Head(Only(wanted, Of(s, statuses, Active(items)))) IN
         /\ first \in Range(items) /\ first \in A /\ ~first.old
         /\ first.session = s /\ first.status \in statuses /\ first \in wanted
<1> DEFINE kept == Of(s, statuses, Active(items))
<1>1. /\ kept \in Seq(A)
      /\ \A x \in Range(kept) :
           x \in Range(items) /\ ~x.old /\ x.session = s /\ x.status \in statuses
  BY FirstIs
<1> HIDE DEF kept
<1>2. Only(wanted, kept) # <<>>
  BY DEF kept
<1>3. /\ Head(Only(wanted, kept)) \in Range(kept) /\ Head(Only(wanted, kept)) \in wanted
      /\ Head(Only(wanted, kept)) \in A
  BY <1>1, <1>2, HeadIs, Zenon
<1> QED BY <1>1, <1>3 DEF kept

LEMMA WithoutIs ==
  ASSUME NEW A, interactions \in Seq(A), NEW i
  PROVE  /\ Without(i) \in Seq(A) /\ Len(Without(i)) <= Len(interactions)
         /\ Range(Without(i)) = {x \in Range(interactions) : ~x.old /\ x.id # i}
         /\ \A x \in Range(interactions) : x.id = i => Len(Without(i)) < Len(interactions)
<1> DEFINE others == {x \in Range(interactions) : ~x.old /\ x.id # i}
<1>1. /\ Without(i) \in Seq(A) /\ Range(Without(i)) = Range(interactions) \cap others
      /\ Len(Without(i)) <= Len(interactions)
      /\ \A x \in Range(interactions) : x \notin others => Len(Without(i)) < Len(interactions)
  <2>1. Without(i) = Only(others, interactions)
    BY DEF Without
  <2> HIDE DEF others
  <2>2. interactions \in Seq(A)
    OBVIOUS
  <2> QED BY <2>1, <2>2, OnlyIs
<1> QED BY <1>1

LEMMA ReplacedIs ==
  ASSUME NEW A, interactions \in Seq(A), NEW item \in A, NEW x \in Range(interactions), x.id = item.id
  PROVE  /\ Replaced(item) \in Seq(A) /\ Len(Replaced(item)) <= Len(interactions)
         /\ Range(Replaced(item)) =
              {y \in Range(interactions) : ~y.old /\ y.id # item.id} \cup {item}
<1> DEFINE rest == Without(item.id)
<1>1. /\ rest \in Seq(A) /\ Len(rest) < Len(interactions)
      /\ Range(rest) = {y \in Range(interactions) : ~y.old /\ y.id # item.id}
  BY WithoutIs, Zenon
<1> HIDE DEF rest
<1>2. Append(rest, item) \in Seq(A) /\ Len(Append(rest, item)) = Len(rest) + 1
  BY <1>1
<1>3. Range(Append(rest, item)) = Range(rest) \cup {item}
  BY <1>1, RangeOfAppend
<1>4. Len(rest) \in Nat /\ Len(interactions) \in Nat
  BY <1>1, LenProperties
<1> QED BY <1>1, <1>2, <1>3, <1>4 DEF Replaced, rest

-----------------------------------------------------------------------------
(* What the changes of the file and of its history keep *)

\* An interaction that is claimed, granted, attached to its call or old is the one it was.
EntryFollows(new, one) ==
  /\ new.id = one.id /\ new.session = one.session /\ new.lasting = one.lasting
  /\ \/ new.status = one.status
     \/ new.status = "granted" /\ one.status = "approved" /\ one.lasting
  /\ one.claimed => new.claimed
AllFollow(after, before) == \A new \in Range(after) : \E one \in Range(before) : EntryFollows(new, one)

LEMMA FollowKeeps ==
  ASSUME NEW before, NEW after \in Seq(InteractionRecords), NEW past, NEW talks,
         FileFits(before, past), TalksFit(talks, before, past), PastFits(past),
         Len(after) <= Len(before), AllFollow(after, before)
  PROVE  FileFits(after, past) /\ TalksFit(talks, after, past)
<1>1. /\ before \in Seq(InteractionRecords) /\ Len(before) <= Len(past)
      /\ \A item \in Range(before) : ItemFits(item, past)
  BY DEF FileFits
<1>2. Len(after) \in Nat /\ Len(before) \in Nat /\ Len(past) \in Nat
  BY <1>1, LenProperties DEF PastFits
<1>3. ASSUME NEW new \in Range(after) PROVE ItemFits(new, past)
  <2>1. PICK one \in Range(before) : EntryFollows(new, one)
    BY DEF AllFollow
  <2>2. ItemFits(one, past)
    BY <1>1
  <2>3. new.claimed \in BOOLEAN /\ one.claimed \in BOOLEAN /\ new.lasting \in BOOLEAN
    <3>1. new \in InteractionRecords /\ one \in InteractionRecords
      BY <1>1, RangeIsOf
    <3> QED BY <3>1 DEF InteractionRecords
  <2>4. AnswerFits(new, past[one.id].answer)
    BY <2>1, <2>2 DEF EntryFollows, ItemFits, AnswerFits
  <2> QED BY <2>1, <2>2, <2>3, <2>4 DEF EntryFollows, ItemFits
<1>4. ASSUME NEW i, IsTaken(i, before) PROVE IsTaken(i, after)
  BY <1>4 DEF IsTaken, AllFollow, EntryFollows
<1>5. TalksFit(talks, after, past)
  <2>1. \A s \in Talks : ResumeFits(s, talks[s], after, past)
    BY <1>4 DEF TalksFit, ResumeFits
  <2> QED BY <2>1 DEF TalksFit
<1> QED BY <1>1, <1>2, <1>3, <1>5 DEF FileFits

LEMMA EntryIs ==
  ASSUME NEW past, PastFits(past), NEW i \in DOMAIN past, NEW e \in SpentRecords, SpentSoFar(e)
  PROVE  LET later == [past EXCEPT ![i] = e] IN
         /\ PastFits(later) /\ DOMAIN later = DOMAIN past /\ Len(later) = Len(past)
         /\ \A j \in DOMAIN past : past[j] \in SpentRecords /\ SpentSoFar(past[j])
         /\ \A j \in DOMAIN past : later[j] = IF j = i THEN e ELSE past[j]
<1> DEFINE later == [past EXCEPT ![i] = e]
<1>1. past \in Seq(SpentRecords) /\ \A j \in DOMAIN past : SpentSoFar(past[j])
  BY DEF PastFits
<1>2. DOMAIN past = 1..Len(past) /\ Len(past) \in Nat /\ \A j \in DOMAIN past : past[j] \in SpentRecords
  BY <1>1, LenProperties, ElementOfSeq
<1>3. later \in Seq(SpentRecords) /\ Len(later) = Len(past)
  <2>1. later \in [1..Len(past) -> SpentRecords]
    BY <1>2
  <2> HIDE DEF later
  <2> QED BY <1>2, <2>1
<1>4. DOMAIN later = DOMAIN past /\ \A j \in DOMAIN past : later[j] = IF j = i THEN e ELSE past[j]
  OBVIOUS
<1> HIDE DEF later
<1>5. PastFits(later)
  <2>1. \A j \in DOMAIN later : SpentSoFar(later[j])
    BY <1>1, <1>4
  <2> QED BY <1>3, <2>1 DEF PastFits
<1> QED BY <1>1, <1>2, <1>3, <1>4, <1>5 DEF later

\* The user answers an interaction that waits.
Answered(new, item, answer) ==
  /\ new \in InteractionRecords /\ new.id = item.id /\ new.session = item.session
  /\ new.claimed = item.claimed /\ new.lasting = (answer = "session")
  /\ new.status = IF answer = "denied" THEN "denied" ELSE "approved"
AllButOne(after, before, new) ==
  \A x \in Range(after) : x = new \/ (x \in Range(before) /\ x.id # new.id)

LEMMA AnswerKeeps ==
  ASSUME NEW before, NEW after \in Seq(InteractionRecords), NEW past, NEW talks,
         FileFits(before, past), TalksFit(talks, before, past), PastFits(past),
         Len(after) <= Len(before),
         NEW item \in Range(before), item.status = "pending",
         NEW answer \in {"once", "session", "denied"}, NEW new,
         Answered(new, item, answer), AllButOne(after, before, new)
  PROVE  LET later == [past EXCEPT ![item.id].answer = answer] IN
         FileFits(after, later) /\ TalksFit(talks, after, later) /\ PastFits(later)
<1> DEFINE i == item.id
           e == [past[i] EXCEPT !.answer = answer]
           later == [past EXCEPT ![i] = e]
<1>1. /\ before \in Seq(InteractionRecords) /\ Len(before) <= Len(past)
      /\ \A x \in Range(before) : ItemFits(x, past) /\ x \in InteractionRecords
  BY RangeIsOf DEF FileFits
<1>2. /\ i \in DOMAIN past /\ item.session = past[i].home /\ past[i].answer = "none"
      /\ past[i] \in SpentRecords /\ past[i].resumed = 0 /\ past[i].reused = 0
      /\ past[i].by \subseteq {past[i].home}
  <2>1. i \in DOMAIN past /\ item.session = past[i].home /\ past[i].answer = "none"
    BY <1>1 DEF ItemFits, AnswerFits
  <2>2. past[i] \in SpentRecords /\ SpentSoFar(past[i])
    BY <2>1, ElementOfSeq, LenProperties DEF PastFits
  <2> QED BY <2>1, <2>2 DEF SpentSoFar
<1>3. /\ e \in SpentRecords /\ e.answer = answer /\ e.home = past[i].home /\ e.by = past[i].by
      /\ e.resumed = past[i].resumed /\ e.reused = past[i].reused
  BY <1>2 DEF SpentRecords
<1>4. SpentSoFar(e)
  <2> HIDE DEF e
  <2> QED BY <1>2, <1>3 DEF SpentSoFar
<1> HIDE DEF e, i
<1>5. /\ PastFits(later) /\ DOMAIN later = DOMAIN past /\ Len(later) = Len(past)
      /\ \A j \in DOMAIN past : later[j] = IF j = i THEN e ELSE past[j]
  BY <1>2, <1>3, <1>4, EntryIs
<1>6. [past EXCEPT ![item.id].answer = answer] = later
  BY DEF e, i
<1> HIDE DEF later
<1>7. /\ new \in InteractionRecords /\ new.id = i /\ new.session = item.session
      /\ new.claimed = item.claimed /\ new.lasting = (answer = "session")
      /\ new.status = IF answer = "denied" THEN "denied" ELSE "approved"
  BY DEF Answered, i
<1>8. ASSUME NEW x \in Range(after) PROVE ItemFits(x, later)
  <2>1. CASE x = new
    <3>1. AnswerFits(x, later[i].answer)
      BY <1>2, <1>3, <1>5, <1>7, <2>1 DEF AnswerFits
    <3>2. x.id = i /\ i \in DOMAIN later /\ x.session = later[i].home
      BY <1>2, <1>3, <1>5, <1>7, <2>1
    <3>3. later[i].resumed = 0 /\ later[i].reused = 0
      BY <1>2, <1>3, <1>5
    <3> QED BY <3>1, <3>2, <3>3 DEF ItemFits
  <2>2. CASE x \in Range(before) /\ x.id # i
    <3>1. ItemFits(x, past) /\ x.id \in DOMAIN past
      BY <1>1, <2>2 DEF ItemFits
    <3>2. later[x.id] = past[x.id] /\ x.id \in DOMAIN later
      BY <1>5, <2>2, <3>1
    <3> QED BY <3>1, <3>2 DEF ItemFits
  <2> QED BY <1>7, <2>1, <2>2 DEF AllButOne
<1>9. ASSUME NEW s \in Talks PROVE ResumeFits(s, talks[s], after, later)
  <2> DEFINE t == talks[s]
  <2>1. ResumeFits(s, t, before, past)
    BY DEF TalksFit
  <2> HIDE DEF t
  <2>2. ASSUME NEW k, IsTaken(k, before) PROVE IsTaken(k, after)
    <3>1. ASSUME NEW x \in Range(after), x.id = k PROVE x.claimed \/ x.status = "granted"
      <4>1. CASE x = new
        <5>1. item.claimed \/ item.status = "granted"
          BY <1>7, <2>2, <3>1, <4>1 DEF IsTaken, i
        <5> QED BY <1>7, <4>1, <5>1
      <4>2. CASE x \in Range(before)
        BY <2>2, <3>1, <4>2 DEF IsTaken
      <4> QED BY <4>1, <4>2 DEF AllButOne
    <3> QED BY <3>1 DEF IsTaken
  <2>3. ASSUME t.resumes # Nothing
        PROVE  /\ t.resumes.id \in DOMAIN later /\ later[t.resumes.id].home = s
               /\ t.resumes.status = "approved" =>
                    later[t.resumes.id].answer \in {"once", "session"}
               /\ t.resumes.status \in {"approved", "denied"}
               /\ later[t.resumes.id].resumed = past[t.resumes.id].resumed
    BY <1>2, <1>3, <1>5, <2>1, <2>3 DEF ResumeFits
  <2>4. ResumeFits(s, t, after, later)
    BY <2>1, <2>2, <2>3 DEF ResumeFits
  <2> QED BY <2>4 DEF t
<1>10. TalksFit(talks, after, later)
  BY <1>9 DEF TalksFit
<1>11. FileFits(after, later)
  <2>1. Len(after) \in Nat /\ Len(before) \in Nat /\ Len(past) \in Nat
    BY <1>1, LenProperties DEF PastFits
  <2> QED BY <1>1, <1>5, <1>8, <2>1 DEF FileFits
<1> QED BY <1>5, <1>6, <1>10, <1>11

Lasts(i, items) == \A item \in Range(items) : item.id = i => item.lasting

\* A call of the session runs on an answer that the user gave and that is not used up.
LEMMA ReusedKeeps ==
  ASSUME NEW items, NEW past, NEW talks,
         FileFits(items, past), TalksFit(talks, items, past), PastFits(past),
         NEW i \in DOMAIN past, NEW home, past[i].home = home, past[i].answer \in {"once", "session"},
         past[i].answer = "session" \/ past[i].reused = 0,
         Lasts(i, items)
  PROVE  LET later == [past EXCEPT ![i].reused = Twice(@), ![i].by = @ \cup {home}] IN
         FileFits(items, later) /\ TalksFit(talks, items, later) /\ PastFits(later)
<1> DEFINE e == [past[i] EXCEPT !.reused = Twice(@), !.by = @ \cup {home}]
           later == [past EXCEPT ![i] = e]
<1>1. past[i] \in SpentRecords /\ SpentSoFar(past[i])
  BY ElementOfSeq, LenProperties DEF PastFits
<1>2. /\ e \in SpentRecords /\ e.answer = past[i].answer /\ e.home = past[i].home
      /\ e.by \subseteq {past[i].home} /\ e.resumed = past[i].resumed
      /\ past[i].reused = 0 => e.reused = 1
  <2>1. /\ past[i].home \in Talks /\ past[i].by \in SUBSET Talks /\ past[i].reused \in 0..2
        /\ past[i].by \subseteq {past[i].home}
    BY <1>1 DEF SpentRecords, SpentSoFar
  <2>2. Twice(past[i].reused) \in 0..2 /\ (past[i].reused = 0 => Twice(past[i].reused) = 1)
    BY <2>1 DEF Twice
  <2> QED BY <1>1, <2>1, <2>2 DEF SpentRecords
<1> HIDE DEF e
<1>3. SpentSoFar(e)
  BY <1>1, <1>2 DEF SpentSoFar
<1>4. /\ PastFits(later) /\ DOMAIN later = DOMAIN past /\ Len(later) = Len(past)
      /\ \A j \in DOMAIN past : later[j] = IF j = i THEN e ELSE past[j]
  BY <1>2, <1>3, EntryIs
<1>5. later = [past EXCEPT ![i].reused = Twice(@), ![i].by = @ \cup {home}]
  BY Zenon DEF e
<1> HIDE DEF later
<1>6. \A j \in DOMAIN past : /\ later[j].home = past[j].home /\ later[j].answer = past[j].answer
                             /\ later[j].resumed = past[j].resumed
                             /\ j # i => later[j].reused = past[j].reused
  BY <1>2, <1>4
<1>7. \A x \in Range(items) : ItemFits(x, later)
  BY <1>4, <1>6 DEF FileFits, ItemFits, Lasts
<1>8. \A s \in Talks : ResumeFits(s, talks[s], items, later)
  <2>1. ASSUME NEW s \in Talks PROVE ResumeFits(s, talks[s], items, later)
    <3> DEFINE t == talks[s]
    <3>1. ResumeFits(s, t, items, past)
      BY DEF TalksFit
    <3> HIDE DEF t
    <3>2. ResumeFits(s, t, items, later)
      BY <1>4, <1>6, <3>1 DEF ResumeFits
    <3> QED BY <3>2 DEF t
  <2> QED BY <2>1
<1> QED BY <1>4, <1>5, <1>7, <1>8 DEF FileFits, TalksFit

\* The call of an interaction that was claimed is resumed, and its turn goes on.
LEMMA ApprovalResumedKeeps ==
  ASSUME NEW items, NEW past, NEW talks,
         FileFits(items, past), TalksFit(talks, items, past), PastFits(past),
         NEW s \in Talks, talks[s].at = "resume", talks[s].resumes.status # "denied"
  PROVE  LET i == talks[s].resumes.id
             later == [past EXCEPT ![i].resumed = Twice(@), ![i].by = @ \cup {s}]
         IN  /\ FileFits(items, later) /\ TalksFit([talks EXCEPT ![s].at = "run"], items, later)
             /\ PastFits(later)
<1> DEFINE i == talks[s].resumes.id
           e == [past[i] EXCEPT !.resumed = Twice(@), !.by = @ \cup {s}]
           later == [past EXCEPT ![i] = e]
           on == [talks EXCEPT ![s].at = "run"]
<1>1. ResumeFits(s, talks[s], items, past)
  BY DEF TalksFit
<1>2. /\ i \in DOMAIN past /\ past[i].home = s /\ past[i].answer \in {"once", "session"}
      /\ past[i].resumed = 0 /\ IsTaken(i, items)
  BY <1>1 DEF ResumeFits
<1>3. past[i] \in SpentRecords /\ SpentSoFar(past[i])
  BY <1>2, ElementOfSeq, LenProperties DEF PastFits
<1> HIDE DEF i
<1>4. /\ e \in SpentRecords /\ e.answer = past[i].answer /\ e.home = past[i].home
      /\ e.by \subseteq {past[i].home} /\ e.reused = past[i].reused /\ e.resumed = 1
  <2>1. /\ past[i].home \in Talks /\ past[i].by \in SUBSET Talks
        /\ past[i].by \subseteq {past[i].home}
    BY <1>3 DEF SpentRecords, SpentSoFar
  <2>2. Twice(past[i].resumed) = 1 /\ 1 \in 0..2
    BY <1>2 DEF Twice
  <2> QED BY <1>2, <1>3, <2>1, <2>2 DEF SpentRecords
<1> HIDE DEF e
<1>5. SpentSoFar(e)
  BY <1>2, <1>3, <1>4 DEF SpentSoFar
<1>6. /\ PastFits(later) /\ DOMAIN later = DOMAIN past /\ Len(later) = Len(past)
      /\ \A j \in DOMAIN past : later[j] = IF j = i THEN e ELSE past[j]
  BY <1>2, <1>4, <1>5, EntryIs
<1>7. later = [past EXCEPT ![talks[s].resumes.id].resumed = Twice(@),
                           ![talks[s].resumes.id].by = @ \cup {s}]
  BY DEF e, i
<1> HIDE DEF later
<1>8. \A j \in DOMAIN past : /\ later[j].home = past[j].home /\ later[j].answer = past[j].answer
                             /\ later[j].reused = past[j].reused
                             /\ j # i => later[j].resumed = past[j].resumed
  BY <1>4, <1>6
<1>9. \A x \in Range(items) : ItemFits(x, later)
  <2>1. ASSUME NEW x \in Range(items) PROVE ItemFits(x, later)
    <3>1. ItemFits(x, past)
      BY DEF FileFits
    <3>2. x.id = i => x.claimed \/ x.status = "granted"
      BY <1>2 DEF IsTaken
    <3> QED BY <1>6, <1>8, <3>1, <3>2 DEF ItemFits
  <2> QED BY <2>1
<1>10. talks \in [Talks -> TalkRecords] /\ on \in [Talks -> TalkRecords]
  <2>1. talks \in [Talks -> TalkRecords]
    BY DEF TalksFit
  <2>2. [talks[s] EXCEPT !.at = "run"] \in TalkRecords
    BY <2>1 DEF TalkRecords
  <2>3. on = [talks EXCEPT ![s] = [talks[s] EXCEPT !.at = "run"]]
    BY <2>1
  <2> HIDE DEF on
  <2> QED BY <2>1, <2>2, <2>3
<1>11. /\ on[s].at = "run" /\ on[s].run = talks[s].run /\ on[s].resumes = talks[s].resumes
       /\ \A other \in Talks : other # s => on[other] = talks[other]
  BY <1>10 DEF TalkRecords
<1> HIDE DEF on
<1>12. ASSUME NEW other \in Talks PROVE ResumeFits(other, on[other], items, later)
  <2>1. ResumeFits(other, talks[other], items, past)
    BY DEF TalksFit
  <2>2. CASE other = s
    BY <1>6, <1>8, <1>11, <2>1, <2>2 DEF ResumeFits
  <2>3. CASE other # s
    <3> DEFINE t == talks[other]
    <3>1. on[other] = t
      BY <1>11, <2>3
    <3>2. ResumeFits(other, t, items, past)
      BY <2>1
    <3> HIDE DEF t
    <3>3. ResumeFits(other, t, items, later)
      BY <1>2, <1>6, <1>8, <2>3, <3>2 DEF ResumeFits
    <3> QED BY <3>1, <3>3
  <2> QED BY <2>2, <2>3
<1>13. FileFits(items, later)
  BY <1>6, <1>9 DEF FileFits
<1>14. TalksFit(on, items, later)
  BY <1>10, <1>12 DEF TalksFit
<1>15. TalksFit([talks EXCEPT ![s].at = "run"], items, later)
  BY <1>14 DEF on
<1> QED
  <2>1. PastFits(later)
    BY <1>6
  <2> QED BY <1>7, <1>13, <1>15, <2>1, Zenon

\* A request that is not pending yet is added to the file.
LEMMA RequestKeeps ==
  ASSUME NEW before, NEW fresh \in Seq(InteractionRecords), NEW past, NEW talks,
         FileFits(before, past), TalksFit(talks, before, past), PastFits(past),
         Len(fresh) <= Len(before), AllFollow(fresh, before),
         Len(past) + 1 <= MaxRequests, MaxRequests \in Nat,
         NEW s \in Talks, NEW r \in Requests \cup {Clarify}, NEW run \in Runs
  PROVE  LET new == [id |-> Len(past) + 1, session |-> s, asks |-> r, status |-> "pending",
                     lasting |-> FALSE, claimed |-> FALSE, run |-> run,
                     call |-> NoCall, old |-> FALSE]
             later == Append(past, [home |-> s, answer |-> "none", resumed |-> 0,
                                    reused |-> 0, by |-> {}])
         IN  /\ FileFits(Append(fresh, new), later)
             /\ TalksFit(talks, Append(fresh, new), later) /\ PastFits(later)
<1> DEFINE new == [id |-> Len(past) + 1, session |-> s, asks |-> r, status |-> "pending",
                   lasting |-> FALSE, claimed |-> FALSE, run |-> run,
                   call |-> NoCall, old |-> FALSE]
           e == [home |-> s, answer |-> "none", resumed |-> 0, reused |-> 0, by |-> {}]
           later == Append(past, e)
           after == Append(fresh, new)
<1>1. past \in Seq(SpentRecords) /\ Len(past) \in Nat /\ \A j \in DOMAIN past : SpentSoFar(past[j])
  BY LenProperties DEF PastFits
<1>2. new \in InteractionRecords
  <2>1. Len(past) + 1 \in Ids
    BY <1>1 DEF Ids
  <2> QED BY <2>1 DEF InteractionRecords
<1>3. /\ new.id = Len(past) + 1 /\ new.session = s /\ new.status = "pending" /\ ~new.lasting
      /\ ~new.claimed
  OBVIOUS
<1> HIDE DEF new
<1>4. e \in SpentRecords
  BY DEF SpentRecords
<1>5. e.home = s /\ e.answer = "none" /\ e.resumed = 0 /\ e.reused = 0 /\ e.by = {}
  OBVIOUS
<1> HIDE DEF e
<1>6. SpentSoFar(e)
  BY <1>5 DEF SpentSoFar
<1>7. /\ later \in Seq(SpentRecords) /\ Len(later) = Len(past) + 1
      /\ DOMAIN later = 1..(Len(past) + 1) /\ DOMAIN past = 1..Len(past)
      /\ \A j \in DOMAIN past : later[j] = past[j]
      /\ later[Len(past) + 1] = e
  BY <1>1, <1>4
<1> HIDE DEF later
<1>8. PastFits(later)
  <2>1. \A j \in DOMAIN later : SpentSoFar(later[j])
    BY <1>1, <1>6, <1>7
  <2> QED BY <1>7, <2>1 DEF PastFits
<1>9. /\ after \in Seq(InteractionRecords) /\ Len(after) = Len(fresh) + 1
      /\ Range(after) = Range(fresh) \cup {new}
  BY <1>2, RangeOfAppend
<1> HIDE DEF after
<1>10. FileFits(fresh, past) /\ TalksFit(talks, fresh, past)
  BY FollowKeeps
<1>11. ASSUME NEW x \in Range(after) PROVE ItemFits(x, later)
  <2>1. CASE x = new
    <3>1. x.id \in DOMAIN later /\ later[x.id] = e
      BY <1>1, <1>3, <1>7, <2>1
    <3>2. AnswerFits(x, e.answer)
      BY <1>3, <1>5, <2>1 DEF AnswerFits
    <3> QED BY <1>3, <1>5, <2>1, <3>1, <3>2 DEF ItemFits
  <2>2. CASE x \in Range(fresh)
    <3>1. ItemFits(x, past) /\ x.id \in DOMAIN past
      BY <1>10, <2>2 DEF FileFits, ItemFits
    <3>2. later[x.id] = past[x.id] /\ x.id \in DOMAIN later
      BY <1>1, <1>7, <3>1
    <3> QED BY <3>1, <3>2 DEF ItemFits
  <2> QED BY <1>9, <2>1, <2>2
<1>12. FileFits(after, later)
  <2>1. Len(fresh) \in Nat /\ Len(before) \in Nat /\ Len(before) <= Len(past)
    BY LenProperties DEF FileFits
  <2>2. Len(after) <= Len(later)
    BY <1>1, <1>7, <1>9, <2>1
  <2> QED BY <1>9, <1>11, <2>2 DEF FileFits
<1>13. ASSUME NEW other \in Talks PROVE ResumeFits(other, talks[other], after, later)
  <2> DEFINE t == talks[other]
  <2>1. ResumeFits(other, t, fresh, past)
    BY <1>10 DEF TalksFit
  <2> HIDE DEF t
  <2>2. ASSUME NEW k \in DOMAIN past, IsTaken(k, fresh) PROVE IsTaken(k, after)
    <3>1. k # new.id
      BY <1>1, <1>3, <1>7
    <3> QED BY <1>9, <2>2, <3>1 DEF IsTaken
  <2>3. \A k \in DOMAIN past : k \in DOMAIN later /\ later[k] = past[k]
    BY <1>1, <1>7
  <2>4. ResumeFits(other, t, after, later)
    BY <2>1, <2>2, <2>3 DEF ResumeFits
  <2> QED BY <2>4 DEF t
<1>14. TalksFit(talks, after, later)
  BY <1>10, <1>13 DEF TalksFit
<1> QED BY <1>8, <1>12, <1>14 DEF after, later, new, e

\* The turn of a session goes on, to where it does not resume.
LEMMA TurnKeeps ==
  ASSUME NEW items, NEW past, NEW talks, TalksFit(talks, items, past),
         NEW s \in Talks, NEW t \in TalkRecords, ResumeFits(s, t, items, past)
  PROVE  TalksFit([talks EXCEPT ![s] = t], items, past)
<1> DEFINE later == [talks EXCEPT ![s] = t]
<1>1. talks \in [Talks -> TalkRecords]
  BY DEF TalksFit
<1>2. later \in [Talks -> TalkRecords]
  BY <1>1
<1>3. \A other \in Talks : later[other] = IF other = s THEN t ELSE talks[other]
  BY <1>1
<1> HIDE DEF later
<1>4. \A other \in Talks : ResumeFits(other, later[other], items, past)
  BY <1>3 DEF TalksFit
<1>5. TalksFit(later, items, past)
  BY <1>2, <1>4 DEF TalksFit
<1> QED BY <1>5 DEF later

-----------------------------------------------------------------------------
(* The steps *)

LEMMA ConsentKeeps ==
  ASSUME provider' = provider
  PROVE  \A r : ConsentedRequest(r) => ConsentedRequest(r)'
BY DEF ConsentedRequest

\* What is left of the invariant when a step changes only the file, the turns and the past.
LEMMA OthersKeep ==
  ASSUME ApprovalInv, UNCHANGED <<provider, turnsRun, excused, approvalCrashes>>,
         FileFits(interactions', spent'), TalksFit(talk', interactions', spent'), PastFits(spent')
  PROVE  ApprovalInv'
<1>1. /\ provider' \in {"deferred", "deny", "yolo", "console"}
      /\ turnsRun' \in [Talks -> Runs \cup {0}] /\ approvalCrashes' \in 0..MaxApprovalCrashes
      /\ excused' \subseteq Requests
  BY DEF ApprovalInv
<1>2. \A r \in excused' : ConsentedRequest(r)'
  BY ConsentKeeps DEF ApprovalInv
<1> QED BY <1>1, <1>2 DEF ApprovalInv

\* A subset of the file follows it.
LEMMA FewerFollow ==
  ASSUME NEW before, NEW after, Range(after) \subseteq Range(before)
  PROVE  AllFollow(after, before)
BY DEF AllFollow, EntryFollows

\* A member that takes the place of one that it follows.
LEMMA ReplacedFollows ==
  ASSUME interactions \in Seq(InteractionRecords), NEW new \in InteractionRecords,
         NEW one \in Range(interactions), EntryFollows(new, one)
  PROVE  /\ Replaced(new) \in Seq(InteractionRecords) /\ Len(Replaced(new)) <= Len(interactions)
         /\ AllFollow(Replaced(new), interactions)
         /\ AllButOne(Replaced(new), interactions, new)
<1>1. one.id = new.id
  BY DEF EntryFollows
<1>2. /\ Replaced(new) \in Seq(InteractionRecords) /\ Len(Replaced(new)) <= Len(interactions)
      /\ Range(Replaced(new)) = {y \in Range(interactions) : ~y.old /\ y.id # new.id} \cup {new}
  <2>1. interactions \in Seq(InteractionRecords)
    OBVIOUS
  <2> QED BY <1>1, <2>1, ReplacedIs
<1>3. \A y : EntryFollows(y, y)
  BY DEF EntryFollows
<1>4. AllFollow(Replaced(new), interactions)
  BY <1>2, <1>3 DEF AllFollow
<1>5. AllButOne(Replaced(new), interactions, new)
  BY <1>2 DEF AllButOne
<1> QED BY <1>2, <1>4, <1>5

LEMMA ActiveFollows ==
  ASSUME interactions \in Seq(InteractionRecords)
  PROVE  /\ Active(interactions) \in Seq(InteractionRecords)
         /\ Len(Active(interactions)) <= Len(interactions)
         /\ AllFollow(Active(interactions), interactions)
<1>1. interactions \in Seq(InteractionRecords)
  OBVIOUS
<1>2. /\ Active(interactions) \in Seq(InteractionRecords)
      /\ Len(Active(interactions)) <= Len(interactions)
      /\ Range(Active(interactions)) = {x \in Range(interactions) : ~x.old}
  BY <1>1, FirstIs
<1> QED BY <1>2, FewerFollow

\* The answer of the user.
LEMMA ResolveKeeps ==
  ASSUME ApprovalInv, NEW s \in Talks, NEW answer \in {"once", "session", "denied"},
         Resolve(s, answer)
  PROVE  ApprovalInv'
<1> DEFINE still == PendingFor(s)
           item == Head(still)
           new == [item EXCEPT !.status = IF answer = "denied" THEN "denied" ELSE "approved",
                               !.lasting = (answer = "session")]
           fresh == {x \in Range(interactions) : ~(x.old /\ x.session = s)}
<1>1. /\ FileFits(interactions, spent) /\ TalksFit(talk, interactions, spent) /\ PastFits(spent)
      /\ interactions \in Seq(InteractionRecords)
  BY DEF ApprovalInv, FileFits
<1>2. /\ UNCHANGED <<provider, talk, turnsRun, excused, approvalCrashes>>
      /\ still = <<>> => interactions' = Only(fresh, interactions) /\ UNCHANGED spent
      /\ still # <<>> => /\ interactions' = Replaced(new)
                           /\ spent' = [spent EXCEPT ![item.id].answer = answer]
  BY DEF Resolve
<1>3. still # <<>> => /\ item \in Range(interactions) /\ item \in InteractionRecords
                        /\ item.status = "pending"
  BY <1>1, FirstIs DEF PendingFor
<1> HIDE DEF still, fresh
<1>4. FileFits(interactions', spent') /\ TalksFit(talk, interactions', spent') /\ PastFits(spent')
  <2>1. CASE still = <<>>
    <3>1. /\ Only(fresh, interactions) \in Seq(InteractionRecords)
          /\ Len(Only(fresh, interactions)) <= Len(interactions)
          /\ Range(Only(fresh, interactions)) \subseteq Range(interactions)
      BY <1>1, OnlyIs
    <3>2. AllFollow(Only(fresh, interactions), interactions)
      BY <3>1, FewerFollow
    <3>3. /\ FileFits(Only(fresh, interactions), spent)
          /\ TalksFit(talk, Only(fresh, interactions), spent)
      BY <1>1, <3>1, <3>2, FollowKeeps
    <3> QED BY <1>1, <1>2, <2>1, <3>3
  <2>2. CASE still # <<>>
    <3>1. item \in Range(interactions) /\ item \in InteractionRecords /\ item.status = "pending"
      BY <1>3, <2>2
    <3> HIDE DEF item
    <3>2. Answered(new, item, answer)
      BY <3>1 DEF Answered, InteractionRecords
    <3>3. /\ new \in InteractionRecords /\ new.id = item.id
      BY <3>2 DEF Answered
    <3> HIDE DEF new
    <3>4. /\ Replaced(new) \in Seq(InteractionRecords) /\ Len(Replaced(new)) <= Len(interactions)
          /\ Range(Replaced(new)) =
               {y \in Range(interactions) : ~y.old /\ y.id # new.id} \cup {new}
      BY <1>1, <3>1, <3>3, ReplacedIs
    <3>5. AllButOne(Replaced(new), interactions, new)
      BY <3>4 DEF AllButOne
    <3> DEFINE later == [spent EXCEPT ![item.id].answer = answer]
               after == Replaced(new)
    <3>6. FileFits(after, later) /\ TalksFit(talk, after, later) /\ PastFits(later)
      <4> HIDE DEF after
      <4>1. after \in Seq(InteractionRecords) /\ Len(after) <= Len(interactions)
            /\ AllButOne(after, interactions, new)
        BY <3>4, <3>5 DEF after
      <4> QED BY <1>1, <3>1, <3>2, <4>1, AnswerKeeps
    <3> QED BY <1>2, <2>2, <3>6
  <2> QED BY <2>1, <2>2
<1>5. TalksFit(talk', interactions', spent')
  BY <1>2, <1>4
<1> QED BY <1>2, <1>4, <1>5, OthersKeep

LEMMA FileIs ==
  ASSUME ApprovalInv
  PROVE  /\ FileFits(interactions, spent) /\ TalksFit(talk, interactions, spent) /\ PastFits(spent)
         /\ interactions \in Seq(InteractionRecords) /\ talk \in [Talks -> TalkRecords]
BY DEF ApprovalInv, FileFits, TalksFit

LEMMA GetOldKeeps ==
  ASSUME ApprovalInv, NEW k \in DOMAIN interactions, GetOld(k)
  PROVE  ApprovalInv'
<1> DEFINE item == [interactions[k] EXCEPT !.old = TRUE]
           after == [interactions EXCEPT ![k] = item]
<1>1. /\ FileFits(interactions, spent) /\ TalksFit(talk, interactions, spent) /\ PastFits(spent)
      /\ interactions \in Seq(InteractionRecords)
  BY FileIs
<1>2. /\ interactions[k] \in InteractionRecords /\ DOMAIN interactions = 1..Len(interactions)
      /\ Len(interactions) \in Nat
      /\ \A j \in DOMAIN interactions : interactions[j] \in InteractionRecords
  BY <1>1, LenProperties, ElementOfSeq
<1>3. item \in InteractionRecords /\ EntryFollows(item, interactions[k])
  BY <1>2 DEF InteractionRecords, EntryFollows
<1> HIDE DEF item
<1>4. after \in Seq(InteractionRecords) /\ Len(after) = Len(interactions)
  <2>1. after \in [1..Len(interactions) -> InteractionRecords]
    BY <1>2, <1>3
  <2> HIDE DEF after
  <2> QED BY <1>2, <2>1
<1>5. AllFollow(after, interactions)
  <2>1. \A y : EntryFollows(y, y)
    BY DEF EntryFollows
  <2>2. \A j \in DOMAIN after : j \in DOMAIN interactions /\ EntryFollows(after[j], interactions[j])
    BY <1>2, <1>3, <2>1
  <2> HIDE DEF after
  <2> QED BY <2>2 DEF AllFollow, Range
<1>6. interactions' = after
  BY DEF GetOld, item
<1> HIDE DEF after
<1>7. Len(after) <= Len(interactions)
  BY <1>2, <1>4
<1>8. FileFits(after, spent) /\ TalksFit(talk, after, spent)
  BY <1>1, <1>4, <1>5, <1>7, FollowKeeps
<1>9. UNCHANGED <<provider, talk, turnsRun, spent, excused, approvalCrashes>>
  BY DEF GetOld
<1> QED BY <1>1, <1>6, <1>8, <1>9, OthersKeep

LEMMA BeginTurnKeeps ==
  ASSUME ApprovalInv, ApprovalAssumption, NEW s \in Talks, BeginTurn(s)
  PROVE  ApprovalInv'
<1> DEFINE at == IF PendingFor(s) # <<>> /\ Head(PendingFor(s)).asks = Clarify THEN "reply" ELSE "claim"
           t == [talk[s] EXCEPT !.at = at, !.run = turnsRun[s] + 1]
           fresh == Active(interactions)
           turns == [talk EXCEPT ![s] = t]
<1>1. /\ FileFits(interactions, spent) /\ TalksFit(talk, interactions, spent) /\ PastFits(spent)
      /\ interactions \in Seq(InteractionRecords) /\ talk \in [Talks -> TalkRecords]
      /\ turnsRun \in [Talks -> Runs \cup {0}]
  BY FileIs DEF ApprovalInv
<1>2. /\ turnsRun[s] < MaxTurns[s] /\ turnsRun' = [turnsRun EXCEPT ![s] = @ + 1]
      /\ interactions' = fresh /\ UNCHANGED <<provider, spent, excused, approvalCrashes>>
  BY DEF BeginTurn
<1>3. talk' = turns
  BY Zenon DEF BeginTurn
<1>4. turnsRun[s] + 1 \in Runs
  <2>1. MaxTurns[s] \in Nat /\ turnsRun[s] \in Nat
    BY <1>1 DEF ApprovalAssumption, Runs
  <2>2. turnsRun[s] + 1 \in 1..MaxTurns[s]
    BY <1>2, <2>1
  <2> QED BY <2>2 DEF Runs
<1>5. at \in {"reply", "claim"}
  OBVIOUS
<1> HIDE DEF at
<1>6. /\ t \in TalkRecords /\ t.at = at /\ t.run = turnsRun[s] + 1 /\ t.resumes = talk[s].resumes
  BY <1>1, <1>4, <1>5 DEF TalkRecords
<1> HIDE DEF t, fresh
<1>7. /\ fresh \in Seq(InteractionRecords) /\ Len(fresh) <= Len(interactions)
      /\ AllFollow(fresh, interactions)
  BY <1>1, ActiveFollows DEF fresh
<1>8. FileFits(fresh, spent) /\ TalksFit(talk, fresh, spent)
  BY <1>1, <1>7, FollowKeeps
<1>9. ResumeFits(s, t, fresh, spent)
  <2>1. ResumeFits(s, talk[s], fresh, spent)
    BY <1>8 DEF TalksFit
  <2> QED BY <1>4, <1>5, <1>6, <2>1 DEF ResumeFits
<1>10. TalksFit(turns, fresh, spent)
  BY <1>6, <1>8, <1>9, TurnKeeps
<1>11. turnsRun' \in [Talks -> Runs \cup {0}]
  BY <1>1, <1>2, <1>4
<1>12. \A r \in excused' : ConsentedRequest(r)'
  BY <1>2, ConsentKeeps DEF ApprovalInv
<1>13. /\ FileFits(interactions', spent') /\ TalksFit(talk', interactions', spent')
       /\ PastFits(spent')
  BY <1>1, <1>2, <1>3, <1>8, <1>10
<1> QED BY <1>2, <1>11, <1>12, <1>13 DEF ApprovalInv

\* The turn of s goes on somewhere else than to a resumption.
LEMMA StepKeeps ==
  ASSUME NEW items, NEW past, NEW talks, TalksFit(talks, items, past),
         NEW s \in Talks, talks[s].at # "idle", NEW at \in {"claim", "run"}
  PROVE  TalksFit([talks EXCEPT ![s].at = at], items, past)
<1> DEFINE t == [talks[s] EXCEPT !.at = at]
<1>1. talks \in [Talks -> TalkRecords] /\ ResumeFits(s, talks[s], items, past)
  BY DEF TalksFit
<1>2. /\ t \in TalkRecords /\ t.at = at /\ t.run = talks[s].run /\ t.resumes = talks[s].resumes
  BY <1>1 DEF TalkRecords
<1> HIDE DEF t
<1>3. ResumeFits(s, t, items, past)
  BY <1>1, <1>2 DEF ResumeFits
<1>4. TalksFit([talks EXCEPT ![s] = t], items, past)
  BY <1>2, <1>3, TurnKeeps
<1>5. [talks EXCEPT ![s].at = at] = [talks EXCEPT ![s] = t]
  BY Zenon DEF t
<1> QED BY <1>4, <1>5

LEMMA ResolveClarificationKeeps ==
  ASSUME ApprovalInv, NEW s \in Talks, ResolveClarification(s)
  PROVE  ApprovalInv'
<1> DEFINE questions == {x \in Range(interactions) : x.asks = Clarify}
           waits == Only(questions, PendingFor(s))
           item == Head(waits)
           new == [item EXCEPT !.status = "approved"]
<1>1. /\ FileFits(interactions, spent) /\ TalksFit(talk, interactions, spent) /\ PastFits(spent)
      /\ interactions \in Seq(InteractionRecords) /\ talk \in [Talks -> TalkRecords]
  BY FileIs
<1>2. /\ talk[s].at = "reply" /\ talk' = [talk EXCEPT ![s].at = "claim"]
      /\ UNCHANGED <<provider, turnsRun, excused, approvalCrashes>>
      /\ waits = <<>> => interactions' = interactions /\ spent' = spent
      /\ waits # <<>> => /\ interactions' = Replaced(new)
                         /\ spent' = [spent EXCEPT ![item.id].answer = "once"]
  BY DEF ResolveClarification, Step
<1> HIDE DEF questions
<1>3. waits # <<>> => /\ item \in Range(interactions) /\ item \in InteractionRecords
                      /\ item.status = "pending"
  BY <1>1, FirstWantedIs DEF PendingFor
<1> HIDE DEF waits
<1>4. FileFits(interactions', spent') /\ TalksFit(talk, interactions', spent') /\ PastFits(spent')
  <2>1. CASE waits = <<>>
    BY <1>1, <1>2, <2>1
  <2>2. CASE waits # <<>>
    <3>1. item \in Range(interactions) /\ item \in InteractionRecords /\ item.status = "pending"
      BY <1>3, <2>2
    <3> HIDE DEF item
    <3>2. ~item.lasting
      <4>1. ItemFits(item, spent)
        BY <1>1, <3>1 DEF FileFits
      <4> QED BY <3>1, <4>1 DEF ItemFits, AnswerFits
    <3>3. Answered(new, item, "once")
      BY <3>1, <3>2 DEF Answered, InteractionRecords
    <3>4. /\ new \in InteractionRecords /\ new.id = item.id
      BY <3>3 DEF Answered
    <3> HIDE DEF new
    <3>5. /\ Replaced(new) \in Seq(InteractionRecords) /\ Len(Replaced(new)) <= Len(interactions)
          /\ Range(Replaced(new)) =
               {y \in Range(interactions) : ~y.old /\ y.id # new.id} \cup {new}
      BY <1>1, <3>1, <3>4, ReplacedIs
    <3> DEFINE later == [spent EXCEPT ![item.id].answer = "once"]
               after == Replaced(new)
    <3>6. FileFits(after, later) /\ TalksFit(talk, after, later) /\ PastFits(later)
      <4> HIDE DEF after
      <4>1. after \in Seq(InteractionRecords) /\ Len(after) <= Len(interactions)
            /\ AllButOne(after, interactions, new)
        BY <3>5 DEF after, AllButOne
      <4> QED BY <1>1, <3>1, <3>3, <4>1, AnswerKeeps
    <3> QED BY <1>2, <2>2, <3>6
  <2> QED BY <2>1, <2>2
<1>5. TalksFit([talk EXCEPT ![s].at = "claim"], interactions', spent')
  <2>1. talk[s].at # "idle"
    BY <1>2
  <2> QED BY <1>4, <2>1, StepKeeps
<1>6. TalksFit(talk', interactions', spent')
  BY <1>2, <1>5
<1> QED BY <1>2, <1>4, <1>6, OthersKeep

\* What a turn may claim: an answer of its session that no turn has claimed.
LEMMA ClaimIs ==
  ASSUME ApprovalInv, NEW s \in Talks, Claimable(s) # <<>>
  PROVE  LET item == Head(Claimable(s)) IN
         /\ item \in Range(interactions) /\ item \in InteractionRecords /\ item.session = s
         /\ item.status \in {"approved", "denied"} /\ ~item.claimed /\ ItemFits(item, spent)
<1> DEFINE wanted == {x \in Range(interactions) : ~x.claimed}
           answers == Of(s, {"approved", "denied"}, Active(interactions))
           item == Head(Claimable(s))
<1>1. Claimable(s) = Only(wanted, answers)
  BY DEF Claimable
<1>2. FileFits(interactions, spent) /\ interactions \in Seq(InteractionRecords)
  BY FileIs
<1>3. \A x \in wanted : ~x.claimed
  OBVIOUS
<1> HIDE DEF wanted
<1>4. /\ item \in Range(interactions) /\ item \in InteractionRecords /\ item.session = s
      /\ item.status \in {"approved", "denied"} /\ item \in wanted
  BY <1>1, <1>2, FirstWantedIs
<1> HIDE DEF item
<1>5. ItemFits(item, spent)
  BY <1>2, <1>4 DEF FileFits
<1> QED BY <1>3, <1>4, <1>5 DEF item

LEMMA ClaimResolvedKeeps ==
  ASSUME ApprovalInv, NEW s \in Talks, ClaimResolved(s)
  PROVE  ApprovalInv'
<1> DEFINE claims == Claimable(s)
           item == Head(claims)
           new == [item EXCEPT !.claimed = TRUE]
           t == [talk[s] EXCEPT !.at = "resume", !.run = item.run, !.resumes = item]
           after == Replaced(new)
           turns == [talk EXCEPT ![s] = t]
<1>1. /\ FileFits(interactions, spent) /\ TalksFit(talk, interactions, spent) /\ PastFits(spent)
      /\ interactions \in Seq(InteractionRecords) /\ talk \in [Talks -> TalkRecords]
  BY FileIs
<1>2. /\ talk[s].at = "claim" /\ UNCHANGED <<provider, turnsRun, spent, excused, approvalCrashes>>
      /\ claims = <<>> => talk' = [talk EXCEPT ![s].at = "run"] /\ UNCHANGED interactions
      /\ claims # <<>> =>
           /\ talk' = [talk EXCEPT ![s].at = "resume", ![s].run = item.run, ![s].resumes = item]
           /\ interactions' = after
  BY DEF ClaimResolved, Step
<1>3. claims # <<>> =>
        /\ item \in Range(interactions) /\ item \in InteractionRecords /\ item.session = s
        /\ item.status \in {"approved", "denied"} /\ ~item.claimed /\ ItemFits(item, spent)
  BY ClaimIs
<1> HIDE DEF claims, item
<1>4. CASE claims = <<>>
  <2>1. TalksFit([talk EXCEPT ![s].at = "run"], interactions, spent)
    <3>1. talk[s].at # "idle"
      BY <1>2
    <3> QED BY <1>1, <3>1, StepKeeps
  <2>2. FileFits(interactions', spent') /\ TalksFit(talk', interactions', spent') /\ PastFits(spent')
    BY <1>1, <1>2, <1>4, <2>1
  <2> QED BY <1>2, <2>2, OthersKeep
<1>5. CASE claims # <<>>
  <2>1. /\ item \in Range(interactions) /\ item \in InteractionRecords /\ item.session = s
        /\ item.status \in {"approved", "denied"} /\ ~item.claimed /\ ItemFits(item, spent)
    BY <1>3, <1>5
  <2>2. talk' = turns
    <3>1. talk' = [talk EXCEPT ![s].at = "resume", ![s].run = item.run, ![s].resumes = item]
      BY <1>2, <1>5
    <3> QED BY <3>1, Zenon
  <2>3. new \in InteractionRecords /\ EntryFollows(new, item) /\ new.claimed /\ new.id = item.id
    BY <2>1 DEF InteractionRecords, EntryFollows
  <2>4. item.run \in Runs /\ item.id \in Ids /\ item # Nothing
    BY <2>1 DEF InteractionRecords, Nothing, Ids
  <2>5. t \in TalkRecords /\ t.at = "resume" /\ t.run = item.run /\ t.resumes = item
    <3>1. talk[s] \in TalkRecords /\ item.run \in Runs \cup {0}
          /\ item \in InteractionRecords \cup {Nothing}
      BY <1>1, <2>1, <2>4

    <3> QED BY <3>1 DEF TalkRecords
  <2> HIDE DEF new, t
  <2>6. /\ after \in Seq(InteractionRecords) /\ Len(after) <= Len(interactions)
        /\ AllFollow(after, interactions) /\ AllButOne(after, interactions, new)
    BY <1>1, <2>1, <2>3, ReplacedFollows
  <2> HIDE DEF after
  <2>7. FileFits(after, spent) /\ TalksFit(talk, after, spent)
    BY <1>1, <2>6, FollowKeeps
  <2>8. IsTaken(item.id, after)
    BY <2>3, <2>6 DEF IsTaken, AllButOne
  <2>9. ResumeFits(s, t, after, spent)
    <3>1. /\ item.id \in DOMAIN spent /\ spent[item.id].home = s
          /\ item.status = "approved" => spent[item.id].answer \in {"once", "session"}
          /\ spent[item.id].resumed = 0
      BY <2>1 DEF ItemFits, AnswerFits
    <3> QED BY <2>1, <2>4, <2>5, <2>8, <3>1 DEF ResumeFits
  <2>10. TalksFit(turns, after, spent)
    BY <2>5, <2>7, <2>9, TurnKeeps
  <2>11. FileFits(interactions', spent') /\ TalksFit(talk', interactions', spent') /\ PastFits(spent')
    BY <1>1, <1>2, <1>5, <2>2, <2>7, <2>10
  <2> QED BY <1>2, <2>11, OthersKeep
<1> QED BY <1>4, <1>5

LEMMA QuietIs ==
  ASSUME NEW items, NEW past, NEW s
  PROVE  Quiet \in TalkRecords /\ ResumeFits(s, Quiet, items, past)
<1>1. /\ Quiet.at = "idle" /\ Quiet.run = 0 /\ Quiet.resumes = Nothing /\ Quiet.asked = 0
      /\ Quiet.wants = Clarify
  BY DEF Quiet
<1>2. Quiet \in TalkRecords
  BY DEF Quiet, TalkRecords
<1> QED BY <1>1, <1>2 DEF ResumeFits

LEMMA ResumeInteractionKeeps ==
  ASSUME ApprovalInv, NEW s \in Talks, ResumeInteraction(s)
  PROVE  ApprovalInv'
<1> DEFINE item == talk[s].resumes
           later == [spent EXCEPT ![item.id].resumed = Twice(@), ![item.id].by = @ \cup {s}]
<1>1. /\ FileFits(interactions, spent) /\ TalksFit(talk, interactions, spent) /\ PastFits(spent)
      /\ talk \in [Talks -> TalkRecords]
  BY FileIs
<1>2. /\ talk[s].at = "resume"
      /\ UNCHANGED <<provider, interactions, turnsRun, excused, approvalCrashes>>
  BY DEF ResumeInteraction
<1>3. talk[s].at # "idle"
  BY <1>2
<1>4. TalksFit([talk EXCEPT ![s] = Quiet], interactions, spent)
  BY <1>1, QuietIs, TurnKeeps
<1>5. TalksFit([talk EXCEPT ![s].at = "run"], interactions, spent)
  BY <1>1, <1>3, StepKeeps
<1>6. ResumeFits(s, talk[s], interactions, spent)
  BY <1>1 DEF TalksFit
<1>7. CASE talk' = [talk EXCEPT ![s] = Quiet] /\ UNCHANGED spent
  <2>1. FileFits(interactions', spent') /\ TalksFit(talk', interactions', spent') /\ PastFits(spent')
    BY <1>1, <1>2, <1>4, <1>7
  <2> QED BY <1>2, <2>1, OthersKeep
<1>8. CASE talk' = [talk EXCEPT ![s].at = "run"] /\ UNCHANGED spent
  <2>1. FileFits(interactions', spent') /\ TalksFit(talk', interactions', spent') /\ PastFits(spent')
    BY <1>1, <1>2, <1>5, <1>8
  <2> QED BY <1>2, <2>1, OthersKeep
<1>9. CASE /\ talk' = [talk EXCEPT ![s].at = "run"] /\ spent' = later
           /\ item.status # "denied"
  <2>1. /\ FileFits(interactions, later) /\ TalksFit([talk EXCEPT ![s].at = "run"], interactions, later)
        /\ PastFits(later)
    BY <1>1, <1>2, <1>9, ApprovalResumedKeeps
  <2>2. FileFits(interactions', spent') /\ TalksFit(talk', interactions', spent') /\ PastFits(spent')
    BY <1>2, <1>9, <2>1, Zenon
  <2> QED BY <1>2, <2>2, OthersKeep
<1>10. \/ talk' = [talk EXCEPT ![s] = Quiet] /\ UNCHANGED spent
       \/ talk' = [talk EXCEPT ![s].at = "run"] /\ UNCHANGED spent
       \/ /\ talk' = [talk EXCEPT ![s].at = "run"] /\ spent' = later
          /\ item.status # "denied"
  BY DEF ResumeInteraction, DispatchApproved, Step
<1> QED BY <1>7, <1>8, <1>9, <1>10

LEMMA CompleteTurnKeeps ==
  ASSUME ApprovalInv, NEW s \in Talks, CompleteTurn(s)
  PROVE  ApprovalInv'
<1> DEFINE rest == Without(talk[s].resumes.id)
           turns == [talk EXCEPT ![s] = Quiet]
<1>1. /\ FileFits(interactions, spent) /\ TalksFit(talk, interactions, spent) /\ PastFits(spent)
      /\ interactions \in Seq(InteractionRecords)
  BY FileIs
<1>2. /\ talk' = turns /\ interactions' \in {rest, interactions}
      /\ UNCHANGED <<provider, turnsRun, spent, excused, approvalCrashes>>
  BY DEF CompleteTurn
<1>3. /\ rest \in Seq(InteractionRecords) /\ Len(rest) <= Len(interactions)
      /\ Range(rest) \subseteq Range(interactions)
  BY <1>1, WithoutIs
<1> HIDE DEF rest
<1>4. AllFollow(rest, interactions)
  BY <1>3, FewerFollow
<1>5. FileFits(rest, spent) /\ TalksFit(talk, rest, spent)
  BY <1>1, <1>3, <1>4, FollowKeeps
<1>6. TalksFit(turns, rest, spent) /\ TalksFit(turns, interactions, spent)
  BY <1>1, <1>5, QuietIs, TurnKeeps
<1>7. FileFits(interactions', spent') /\ TalksFit(talk', interactions', spent') /\ PastFits(spent')
  BY <1>1, <1>2, <1>5, <1>6
<1> QED BY <1>2, <1>7, OthersKeep

LEMMA ApprovalCrashKeeps ==
  ASSUME ApprovalInv, ApprovalAssumption, ApprovalCrash
  PROVE  ApprovalInv'
<1>1. /\ FileFits(interactions, spent) /\ PastFits(spent)
  BY FileIs
<1>2. /\ talk' = [s \in Talks |-> Quiet] /\ approvalCrashes' = approvalCrashes + 1
      /\ approvalCrashes < MaxApprovalCrashes
      /\ UNCHANGED <<provider, interactions, turnsRun, spent, excused>>
  BY DEF ApprovalCrash
<1>3. TalksFit(talk', interactions, spent)
  BY <1>2, QuietIs DEF TalksFit
<1>4. approvalCrashes' \in 0..MaxApprovalCrashes
  BY <1>2 DEF ApprovalInv, ApprovalAssumption
<1>5. \A r \in excused' : ConsentedRequest(r)'
  BY <1>2, ConsentKeeps DEF ApprovalInv
<1>6. /\ provider' \in {"deferred", "deny", "yolo", "console"}
      /\ turnsRun' \in [Talks -> Runs \cup {0}] /\ excused' \subseteq Requests
  BY <1>2 DEF ApprovalInv
<1>7. FileFits(interactions', spent') /\ TalksFit(talk', interactions', spent') /\ PastFits(spent')
  BY <1>1, <1>2, <1>3
<1> QED BY <1>4, <1>5, <1>6, <1>7 DEF ApprovalInv

\* A bash call that the policy allows has commands, all of which only read.
LEMMA AllowedReads ==
  ASSUME ApprovalAssumption, NEW r \in Requests, DecideApproval(r) = "allow"
  PROVE  r.tool = "bash" /\ r.syntax # "dynamic" /\ ~r.background /\ Range(r.words) = {"reads"}
<1>1. /\ r.tool = "bash" /\ Assess(r) = "allow"
  BY DEF DecideApproval
<1>2. /\ r.words # <<>> /\ ~(r.background \/ r.syntax = "dynamic")
      /\ Only({"changes", "forbidden"}, r.words) = <<>>
  BY <1>1, Zenon DEF Assess
<1>3. r.words \in Seq({"reads", "changes", "forbidden"})
  BY DEF ApprovalAssumption
<1>4. Range(r.words) \cap {"changes", "forbidden"} = {}
  <2>1. Range(Only({"changes", "forbidden"}, r.words)) = Range(r.words) \cap {"changes", "forbidden"}
    BY <1>3, OnlyIs
  <2>2. Range(<<>>) = {}
    BY DEF Range
  <2> QED BY <1>2, <2>1, <2>2
<1>5. Range(r.words) \subseteq {"reads", "changes", "forbidden"} /\ Range(r.words) # {}
  <2>1. 1 \in DOMAIN r.words
    BY <1>2, <1>3
  <2>2. r.words[1] \in Range(r.words)
    BY <2>1 DEF Range
  <2>3. Range(r.words) \subseteq {"reads", "changes", "forbidden"}
    BY <1>3, RangeIsOf
  <2> QED BY <2>2, <2>3
<1> QED BY <1>1, <1>2, <1>4, <1>5

LEMMA ExcuseKeeps ==
  ASSUME ApprovalInv, NEW s \in Talks, NEW r \in Requests, Excuse(s, r), ConsentedRequest(r)
  PROVE  ApprovalInv'
<1>1. /\ excused' = excused \cup {r}
      /\ UNCHANGED <<provider, interactions, talk, turnsRun, spent, approvalCrashes>>
  BY DEF Excuse
<1>2. \A q \in excused' : ConsentedRequest(q)'
  BY <1>1, ConsentKeeps DEF ApprovalInv
<1>3. /\ provider' \in {"deferred", "deny", "yolo", "console"}
      /\ turnsRun' \in [Talks -> Runs \cup {0}] /\ approvalCrashes' \in 0..MaxApprovalCrashes
      /\ excused' \subseteq Requests
  BY <1>1 DEF ApprovalInv
<1>4. FileFits(interactions', spent') /\ TalksFit(talk', interactions', spent') /\ PastFits(spent')
  BY <1>1, FileIs
<1> QED BY <1>2, <1>3, <1>4 DEF ApprovalInv

LEMMA RunsAloneKeep ==
  ASSUME ApprovalInv, ApprovalAssumption, NEW s \in Talks, NEW r \in Requests,
         RunAllowed(s, r) \/ ApproveAtOnce(s, r)
  PROVE  ApprovalInv'
<1>1. Excuse(s, r)
  BY DEF RunAllowed, ApproveAtOnce
<1>2. ConsentedRequest(r)
  <2>1. CASE RunAllowed(s, r)
    BY <2>1, AllowedReads DEF RunAllowed, ConsentedRequest
  <2>2. CASE ApproveAtOnce(s, r)
    BY <2>2 DEF ApproveAtOnce, ConsentedRequest
  <2> QED BY <2>1, <2>2
<1> QED BY <1>1, <1>2, ExcuseKeeps

LEMMA CreateKeeps ==
  ASSUME ApprovalInv, ApprovalAssumption, NEW s \in Talks, NEW r \in Requests \cup {Clarify},
         talk[s].at # "idle", Create(s, r),
         UNCHANGED <<provider, turnsRun, excused, approvalCrashes>>
  PROVE  ApprovalInv'
<1> DEFINE same == Same(s, r)
           id == IF same # <<>> THEN Head(same).id ELSE Len(spent) + 1
           t == [talk[s] EXCEPT !.at = "attach", !.wants = Clarify, !.asked = id]
           turns == [talk EXCEPT ![s] = t]
           new == [id |-> Len(spent) + 1, session |-> s, asks |-> r, status |-> "pending",
                   lasting |-> FALSE, claimed |-> FALSE, run |-> talk[s].run,
                   call |-> NoCall, old |-> FALSE]
           e == [home |-> s, answer |-> "none", resumed |-> 0, reused |-> 0, by |-> {}]
           fresh == Active(interactions)
<1>1. /\ FileFits(interactions, spent) /\ TalksFit(talk, interactions, spent) /\ PastFits(spent)
      /\ interactions \in Seq(InteractionRecords) /\ talk \in [Talks -> TalkRecords]
  BY FileIs
<1>2. ResumeFits(s, talk[s], interactions, spent) /\ talk[s].run \in Runs
  BY <1>1 DEF TalksFit, ResumeFits
<1>3. id <= MaxRequests
  BY DEF Create
<1>4. talk' = turns
  BY Zenon DEF Create
<1>5. /\ same # <<>> => UNCHANGED <<interactions, spent>>
      /\ same = <<>> => interactions' = Append(fresh, new) /\ spent' = Append(spent, e)
  <2>1. IF same # <<>> THEN UNCHANGED <<interactions, spent>>
        ELSE /\ interactions' = Append(fresh, [id |-> id, session |-> s, asks |-> r,
                  status |-> "pending", lasting |-> FALSE, claimed |-> FALSE,
                  run |-> talk[s].run, call |-> NoCall, old |-> FALSE])
             /\ spent' = Append(spent, e)
    BY DEF Create
  <2>2. same = <<>> => id = Len(spent) + 1
    OBVIOUS
  <2> HIDE DEF same, id, fresh
  <2> QED BY <2>1, <2>2
<1>6. id \in Ids
  <2>1. same # <<>> => Head(same) \in InteractionRecords
    <3> DEFINE wanted == {x \in Range(interactions) :
                            x.asks = r /\ (r = Clarify => x.call = NoCall)}
    <3>1. same = Only(wanted, Of(s, {"pending"}, fresh))
      BY DEF Same, PendingFor
    <3> HIDE DEF wanted, same
    <3> QED BY <1>1, <3>1, FirstWantedIs
  <2>2. same # <<>> => Head(same).id \in Ids
    BY <2>1 DEF InteractionRecords
  <2>3. Len(spent) + 1 >= 1 /\ Len(spent) \in Nat
    BY <1>1 DEF PastFits
  <2>4. MaxRequests \in Nat
    BY DEF ApprovalAssumption
  <2> HIDE DEF same
  <2> QED BY <1>3, <2>2, <2>3, <2>4 DEF Ids
<1> HIDE DEF id
<1>7. t \in TalkRecords /\ t.at = "attach" /\ t.run = talk[s].run /\ t.resumes = talk[s].resumes
  BY <1>1, <1>6 DEF TalkRecords
<1> HIDE DEF t
<1>8. ASSUME NEW items, NEW past, TalksFit(talk, items, past)
      PROVE  TalksFit(turns, items, past)
  <2>1. ResumeFits(s, talk[s], items, past)
    BY <1>8 DEF TalksFit
  <2>2. ResumeFits(s, t, items, past)
    BY <1>2, <1>7, <2>1 DEF ResumeFits
  <2> QED BY <1>7, <1>8, <2>2, TurnKeeps
<1> HIDE DEF turns
<1>9. CASE same # <<>>
  BY <1>1, <1>4, <1>5, <1>8, <1>9, OthersKeep
<1>10. CASE same = <<>>
  <2>1. /\ fresh \in Seq(InteractionRecords) /\ Len(fresh) <= Len(interactions)
        /\ AllFollow(fresh, interactions)
    BY <1>1, ActiveFollows
  <2>2. Len(spent) + 1 <= MaxRequests /\ MaxRequests \in Nat
    BY <1>3, <1>10 DEF id, ApprovalAssumption
  <2> HIDE DEF fresh, same
  <2>3. /\ FileFits(Append(fresh, new), Append(spent, e))
        /\ TalksFit(talk, Append(fresh, new), Append(spent, e)) /\ PastFits(Append(spent, e))
    BY <1>1, <1>2, <2>1, <2>2, RequestKeeps
  <2> HIDE DEF new, e
  <2>4. TalksFit(turns, Append(fresh, new), Append(spent, e))
    BY <1>8, <2>3
  <2>5. FileFits(interactions', spent') /\ TalksFit(talk', interactions', spent') /\ PastFits(spent')
    BY <1>4, <1>5, <1>10, <2>3, <2>4
  <2> QED BY <2>5, OthersKeep
<1> QED BY <1>9, <1>10

LEMMA AttachCallKeeps ==
  ASSUME ApprovalInv, NEW s \in Talks, AttachCall(s)
  PROVE  ApprovalInv'
<1> DEFINE questions == {x \in Range(interactions) : x.id = talk[s].asked}
           called == Only(questions, Active(interactions))
           item == Head(called)
           new == [item EXCEPT !.call = talk[s].run]
           t == [talk[s] EXCEPT !.at = "complete", !.asked = 0]
           turns == [talk EXCEPT ![s] = t]
           after == Replaced(new)
<1>1. /\ FileFits(interactions, spent) /\ TalksFit(talk, interactions, spent) /\ PastFits(spent)
      /\ interactions \in Seq(InteractionRecords) /\ talk \in [Talks -> TalkRecords]
  BY FileIs
<1>2. talk[s].at = "attach" /\ UNCHANGED <<provider, turnsRun, spent, excused, approvalCrashes>>
  BY DEF AttachCall
<1>3. talk' = turns
  BY Zenon DEF AttachCall
<1>4. interactions' = IF called = <<>> THEN interactions ELSE after
  BY DEF AttachCall
<1>5. talk[s].run \in Runs
  BY <1>1, <1>2 DEF TalksFit, ResumeFits
<1>6. called # <<>> => item \in Range(interactions) /\ item \in InteractionRecords
  <2>1. /\ Active(interactions) \in Seq(InteractionRecords)
        /\ Range(Active(interactions)) \subseteq Range(interactions)
    BY <1>1, FirstIs
  <2> HIDE DEF questions
  <2> QED BY <2>1, HeadIs
<1> HIDE DEF called, item
<1>7. t \in TalkRecords /\ t.at = "complete" /\ t.run = talk[s].run /\ t.resumes = talk[s].resumes
  BY <1>1 DEF TalkRecords
<1> HIDE DEF t
<1>8. ASSUME NEW items, NEW past, TalksFit(talk, items, past)
      PROVE  TalksFit(turns, items, past)
  <2>1. ResumeFits(s, talk[s], items, past)
    BY <1>8 DEF TalksFit
  <2>2. ResumeFits(s, t, items, past)
    BY <1>5, <1>7, <2>1 DEF ResumeFits
  <2> QED BY <1>7, <1>8, <2>2, TurnKeeps
<1> HIDE DEF turns
<1>9. CASE called = <<>>
  BY <1>1, <1>2, <1>3, <1>4, <1>8, <1>9, OthersKeep
<1>10. CASE called # <<>>
  <2>1. item \in Range(interactions) /\ item \in InteractionRecords
    BY <1>6, <1>10
  <2>2. new \in InteractionRecords /\ EntryFollows(new, item)
    BY <1>5, <2>1 DEF InteractionRecords, EntryFollows
  <2> HIDE DEF new
  <2>3. /\ after \in Seq(InteractionRecords) /\ Len(after) <= Len(interactions)
        /\ AllFollow(after, interactions)
    BY <1>1, <2>1, <2>2, ReplacedFollows
  <2> HIDE DEF after
  <2>4. FileFits(after, spent) /\ TalksFit(talk, after, spent)
    BY <1>1, <2>3, FollowKeeps
  <2>5. FileFits(interactions', spent') /\ TalksFit(talk', interactions', spent') /\ PastFits(spent')
    BY <1>1, <1>2, <1>3, <1>4, <1>8, <1>10, <2>4
  <2> QED BY <1>2, <2>5, OthersKeep
<1> QED BY <1>9, <1>10

\* A call runs on an approval of its session: it is gone unless it lasts.
LEMMA ConsumeKeeps ==
  ASSUME ApprovalInv, NEW s \in Talks, NEW item \in Range(interactions),
         item.session = s, item.status \in {"approved", "granted"}, Consume(s, item),
         spent' = [spent EXCEPT ![item.id].reused = Twice(@), ![item.id].by = @ \cup {s}],
         UNCHANGED <<provider, talk, turnsRun, excused, approvalCrashes>>
  PROVE  ApprovalInv'
<1> DEFINE i == item.id
           new == [item EXCEPT !.status = "granted"]
           after == IF item.lasting THEN Replaced(new) ELSE Without(i)
<1>1. /\ FileFits(interactions, spent) /\ TalksFit(talk, interactions, spent) /\ PastFits(spent)
      /\ interactions \in Seq(InteractionRecords)
  BY FileIs
<1>2. item \in InteractionRecords /\ ItemFits(item, spent) /\ item.lasting \in BOOLEAN
  <2>1. item \in InteractionRecords
    BY <1>1, RangeIsOf
  <2> QED BY <1>1, <2>1 DEF FileFits, InteractionRecords
<1>3. /\ i \in DOMAIN spent /\ spent[i].home = s /\ spent[i].answer \in {"once", "session"}
      /\ spent[i].answer = "session" <=> item.lasting
      /\ ~item.lasting => spent[i].reused = 0
  BY <1>2 DEF ItemFits, AnswerFits
<1>4. interactions' = after
  BY Zenon DEF Consume
<1>5. /\ after \in Seq(InteractionRecords) /\ Len(after) <= Len(interactions)
      /\ AllFollow(after, interactions) /\ Lasts(i, after)
  <2>1. CASE item.lasting
    <3>1. new \in InteractionRecords /\ new.id = i /\ new.lasting
      BY <1>2, <2>1 DEF InteractionRecords
    <3>2. EntryFollows(new, item)
      BY <1>2, <2>1 DEF InteractionRecords, EntryFollows
    <3> HIDE DEF new
    <3>3. /\ Replaced(new) \in Seq(InteractionRecords) /\ Len(Replaced(new)) <= Len(interactions)
          /\ AllFollow(Replaced(new), interactions) /\ AllButOne(Replaced(new), interactions, new)
      BY <1>1, <3>1, <3>2, ReplacedFollows
    <3> QED BY <2>1, <3>1, <3>3 DEF AllButOne, Lasts
  <2>2. CASE ~item.lasting
    <3>1. /\ Without(i) \in Seq(InteractionRecords) /\ Len(Without(i)) <= Len(interactions)
          /\ Range(Without(i)) = {x \in Range(interactions) : ~x.old /\ x.id # i}
      BY <1>1, WithoutIs
    <3>2. AllFollow(Without(i), interactions)
      BY <3>1, FewerFollow
    <3> QED BY <2>2, <3>1, <3>2 DEF Lasts
  <2> QED BY <2>1, <2>2
<1> HIDE DEF after, i
<1>6. FileFits(after, spent) /\ TalksFit(talk, after, spent)
  BY <1>1, <1>5, FollowKeeps
<1> DEFINE later == [spent EXCEPT ![i].reused = Twice(@), ![i].by = @ \cup {s}]
<1>7. FileFits(after, later) /\ TalksFit(talk, after, later) /\ PastFits(later)
  <2>1. spent[i].answer = "session" \/ spent[i].reused = 0
    BY <1>2, <1>3
  <2>2. /\ FileFits(after, spent) /\ TalksFit(talk, after, spent) /\ PastFits(spent)
        /\ i \in DOMAIN spent /\ spent[i].home = s /\ spent[i].answer \in {"once", "session"}
        /\ Lasts(i, after)
    BY <1>1, <1>3, <1>5, <1>6
  <2> QED BY <2>1, <2>2, ReusedKeeps, Zenon
<1>8. spent' = later
  BY DEF i
<1> HIDE DEF later
<1>9. FileFits(interactions', spent') /\ TalksFit(talk', interactions', spent') /\ PastFits(spent')
  BY <1>4, <1>7, <1>8
<1> QED BY <1>9, OthersKeep

LEMMA RequestApprovalKeeps ==
  ASSUME ApprovalInv, NEW s \in Talks, NEW r \in Requests, RequestApproval(s, r)
  PROVE  ApprovalInv'
<1> DEFINE found == Consumable(s, r)
           item == Head(found)
           t == [talk[s] EXCEPT !.at = "create", !.wants = r]
           turns == [talk EXCEPT ![s] = t]
<1>1. /\ FileFits(interactions, spent) /\ TalksFit(talk, interactions, spent) /\ PastFits(spent)
      /\ interactions \in Seq(InteractionRecords) /\ talk \in [Talks -> TalkRecords]
  BY FileIs
<1>2. talk[s].at = "run" /\ UNCHANGED <<provider, turnsRun, excused, approvalCrashes>>
  BY DEF RequestApproval
<1>3. found = <<>> => /\ talk' = [talk EXCEPT ![s].at = "create", ![s].wants = r]
                      /\ UNCHANGED <<interactions, spent>>
  BY DEF RequestApproval
<1>4. found # <<>> =>
        /\ Consume(s, item) /\ UNCHANGED talk
        /\ spent' = [spent EXCEPT ![item.id].reused = Twice(@), ![item.id].by = @ \cup {s}]
  BY DEF RequestApproval
<1>5. found # <<>> => /\ item \in Range(interactions) /\ item.session = s
                      /\ item.status \in {"approved", "granted"}
  <2> DEFINE wanted == {x \in Range(interactions) : x.asks = r}
  <2>1. found = Only(wanted, Of(s, {"approved", "granted"}, Active(interactions)))
    BY DEF Consumable
  <2> HIDE DEF wanted, found
  <2> QED BY <1>1, <2>1, FirstWantedIs
<1> HIDE DEF found, item
<1>6. CASE found = <<>>
  <2>1. talk' = turns
    <3>1. talk' = [talk EXCEPT ![s].at = "create", ![s].wants = r]
      BY <1>3, <1>6
    <3> QED BY <3>1, Zenon
  <2>2. t \in TalkRecords /\ t.at = "create" /\ t.run = talk[s].run /\ t.resumes = talk[s].resumes
    BY <1>1 DEF TalkRecords
  <2> HIDE DEF t
  <2>3. ResumeFits(s, talk[s], interactions, spent)
    BY <1>1 DEF TalksFit
  <2>4. ResumeFits(s, t, interactions, spent)
    BY <1>2, <2>2, <2>3 DEF ResumeFits
  <2>5. TalksFit(turns, interactions, spent)
    BY <1>1, <2>2, <2>4, TurnKeeps
  <2>6. FileFits(interactions', spent') /\ TalksFit(talk', interactions', spent') /\ PastFits(spent')
    BY <1>1, <1>3, <1>6, <2>1, <2>5
  <2> QED BY <1>2, <2>6, OthersKeep
<1>7. CASE found # <<>>
  BY <1>2, <1>4, <1>5, <1>7, ConsumeKeeps
<1> QED BY <1>6, <1>7

LEMMA ApprovalNextKeeps ==
  ASSUME ApprovalInv, ApprovalAssumption, [ApprovalNext]_approvalVars
  PROVE  ApprovalInv'
<1>1. CASE UNCHANGED approvalVars
  <2>1. UNCHANGED <<provider, turnsRun, excused, approvalCrashes, interactions, talk, spent>>
    BY <1>1 DEF approvalVars
  <2>2. FileFits(interactions', spent') /\ TalksFit(talk', interactions', spent') /\ PastFits(spent')
    BY <2>1, FileIs
  <2> QED BY <2>1, <2>2, OthersKeep
<1>2. ASSUME NEW s \in Talks, BeginTurn(s) PROVE ApprovalInv'
  BY <1>2, BeginTurnKeeps
<1>3. ASSUME NEW s \in Talks, ResolveClarification(s) PROVE ApprovalInv'
  BY <1>3, ResolveClarificationKeeps
<1>4. ASSUME NEW s \in Talks, ClaimResolved(s) PROVE ApprovalInv'
  BY <1>4, ClaimResolvedKeeps
<1>5. ASSUME NEW s \in Talks, ResumeInteraction(s) PROVE ApprovalInv'
  BY <1>5, ResumeInteractionKeeps
<1>6. ASSUME NEW s \in Talks, CreateRequest(s) PROVE ApprovalInv'
  <2>1. /\ talk[s].at # "idle" /\ Create(s, talk[s].wants)
        /\ UNCHANGED <<provider, turnsRun, excused, approvalCrashes>>
    BY <1>6 DEF CreateRequest
  <2>2. talk[s].wants \in Requests \cup {Clarify}
    BY FileIs DEF TalkRecords
  <2> QED BY <2>1, <2>2, CreateKeeps
<1>7. ASSUME NEW s \in Talks, AskUser(s) PROVE ApprovalInv'
  <2>1. /\ talk[s].at # "idle" /\ Create(s, Clarify)
        /\ UNCHANGED <<provider, turnsRun, excused, approvalCrashes>>
    BY <1>7 DEF AskUser
  <2>2. Clarify \in Requests \cup {Clarify}
    OBVIOUS
  <2> QED BY <2>1, <2>2, CreateKeeps
<1>8. ASSUME NEW s \in Talks, AttachCall(s) PROVE ApprovalInv'
  BY <1>8, AttachCallKeeps
<1>9. ASSUME NEW s \in Talks, CompleteTurn(s) PROVE ApprovalInv'
  BY <1>9, CompleteTurnKeeps
<1>10. ASSUME NEW s \in Talks, NEW r \in Requests, RunAllowed(s, r) \/ ApproveAtOnce(s, r)
       PROVE  ApprovalInv'
  BY <1>10, RunsAloneKeep
<1>11. ASSUME NEW s \in Talks, NEW r \in Requests, RequestApproval(s, r) PROVE ApprovalInv'
  BY <1>11, RequestApprovalKeeps
<1>12. ASSUME NEW s \in Talks, NEW answer \in {"once", "session", "denied"}, Resolve(s, answer)
       PROVE  ApprovalInv'
  BY <1>12, ResolveKeeps
<1>13. ASSUME NEW k \in DOMAIN interactions, GetOld(k) PROVE ApprovalInv'
  BY <1>13, GetOldKeeps
<1>14. CASE ApprovalCrash
  BY <1>14, ApprovalCrashKeeps
<1> QED
  BY <1>1, <1>2, <1>3, <1>4, <1>5, <1>6, <1>7, <1>8, <1>9, <1>10, <1>11, <1>12, <1>13, <1>14,
     Zenon DEF ApprovalNext

LEMMA ApprovalStarts ==
  ASSUME ApprovalAssumption, ApprovalInit
  PROVE  ApprovalInv
<1>1. /\ interactions = <<>> /\ spent = <<>> /\ excused = {} /\ approvalCrashes = 0
      /\ talk = [s \in Talks |-> Quiet] /\ turnsRun = [s \in Talks |-> 0]
      /\ provider \in {"deferred", "deny", "yolo", "console"}
  BY DEF ApprovalInit
<1>2. interactions \in Seq(InteractionRecords)
  BY <1>1
<1>3. spent \in Seq(SpentRecords)
  BY <1>1
<1>4. /\ Len(interactions) = 0 /\ Len(spent) = 0 /\ DOMAIN spent = {} /\ Range(interactions) = {}
  BY <1>1 DEF Range
<1>5. FileFits(interactions, spent) /\ PastFits(spent)
  BY <1>2, <1>3, <1>4 DEF FileFits, PastFits, ApprovalAssumption
<1>6. TalksFit(talk, interactions, spent)
  BY <1>1, QuietIs DEF TalksFit
<1>7. approvalCrashes \in 0..MaxApprovalCrashes /\ turnsRun \in [Talks -> Runs \cup {0}]
  BY <1>1 DEF ApprovalAssumption
<1> QED BY <1>1, <1>5, <1>6, <1>7 DEF ApprovalInv

LEMMA ApprovalInvIsInvariant == ApprovalSpec => []ApprovalInv
<1>1. ApprovalInit => ApprovalInv
  BY ApprovalAssumption, ApprovalStarts
<1>2. ApprovalInv /\ [ApprovalNext]_approvalVars => ApprovalInv'
  BY ApprovalAssumption, ApprovalNextKeeps
<1> QED BY <1>1, <1>2, PTL DEF ApprovalSpec

\* Calls run as the user has allowed them to: an answer is spent once, by a turn of its own
\* session, in whatever order turns, answers, expiries and crashes come; and a call that
\* runs without asking is a bash call whose every command is known to only read, or runs
\* where the user has said so beforehand.  A redirection whose sign is joined with another
\* is an argument of its command here, as it is in the code: it asks for nothing.
THEOREM CallsNeedConsent == ApprovalSpec => []CallsAreConsented
<1>1. ApprovalInv => CallsAreConsented
  <2> SUFFICES ASSUME ApprovalInv PROVE CallsAreConsented
    OBVIOUS
  <2>1. OnlyConsentedRun
    BY DEF ApprovalInv, ConsentedRequest, OnlyConsentedRun
  <2>2. ApprovalsAreSpent
    BY DEF ApprovalInv, PastFits, SpentSoFar, ApprovalsAreSpent
  <2> QED BY <2>1, <2>2 DEF CallsAreConsented
<1> QED BY <1>1, ApprovalInvIsInvariant, PTL

-----------------------------------------------------------------------------
(* A batch of calls (ToolBatch) *)

(* What a call does *)

\* A tool on a file whose text is not UTF-8 raises before it does anything.
LEMMA GarbledRaises ==
  ASSUME NEW i, NEW call, NEW tree, call.tool \in PathScoped, call.path \in Garbled
  PROVE  FileEffect(i, call, tree) = [tree |-> tree, result |-> Says("raised")]
BY DEF FileEffect, PathScoped

\* A call on a file leaves the others alone, and says so if it writes.
LEMMA FileEffectIs ==
  ASSUME NEW i \in Texts, NEW call, NEW tree \in Trees
  PROVE  LET e == FileEffect(i, call, tree) IN
         /\ e.tree \in Trees
         /\ \/ e.tree = tree /\ e.result.kind # "written"
            \/ /\ e.tree = [tree EXCEPT ![call.path] = i] /\ e.result.kind = "written"
               /\ call.tool \in {"write_file", "patch"}
<1> DEFINE e == FileEffect(i, call, tree)
           put == [tree EXCEPT ![call.path] = i]
<1>1. put \in Trees
  BY DEF Trees
<1> HIDE DEF put
<1>2. \/ e.tree = tree /\ e.result.kind # "written"
      \/ e.tree = put /\ e.result.kind = "written" /\ call.tool \in {"write_file", "patch"}
  <2>0. CASE call.tool \in PathScoped /\ call.path \in Garbled
    <3>1. e = [tree |-> tree, result |-> Says("raised")]
      BY <2>0, GarbledRaises
    <3> HIDE DEF e
    <3> QED BY <3>1 DEF Says
  <2>1. CASE call.tool = "read_file" /\ call.path \notin Garbled
    BY <2>1 DEF FileEffect, ReadFile
  <2>2. CASE call.tool = "grep"
    BY <2>2 DEF FileEffect, Grep, PathScoped
  <2>3. CASE call.tool = "write_file" /\ call.path \notin Garbled
    <3>1. e = WriteFile(i, call, tree)
      BY <2>3 DEF FileEffect
    <3>2. WriteFile(i, call, tree) \in {[tree |-> tree, result |-> Says("stale")],
                                        [tree |-> put, result |-> Says("written")]}
      BY DEF WriteFile, put
    <3> HIDE DEF e
    <3> QED BY <2>3, <3>1, <3>2 DEF Says
  <2>4. CASE call.tool = "patch" /\ call.path \notin Garbled
    <3>1. e = Patch(i, call, tree)
      BY <2>4 DEF FileEffect
    <3>2. Patch(i, call, tree) \in {[tree |-> tree, result |-> Says("stale")],
                                    [tree |-> put, result |-> Says("written")]}
      BY DEF Patch, put
    <3> HIDE DEF e
    <3> QED BY <2>4, <3>1, <3>2 DEF Says
  <2>5. CASE call.tool \notin {"read_file", "grep", "write_file", "patch"}
    BY <2>5 DEF FileEffect, Says, PathScoped
  <2> QED BY <2>0, <2>1, <2>2, <2>3, <2>4, <2>5 DEF PathScoped
<1> QED BY <1>1, <1>2 DEF put

ExecutionOf(i, call, tree) ==
  CHOOSE g : g = [n \in 0..Len(call.steps) |->
        IF n = 0 THEN [tree |-> tree, changed |-> {}, kind |-> "success"]
        ELSE IF g[n - 1].kind # "success" THEN g[n - 1]
        ELSE LET effect == FileEffect(i, call.steps[n], g[n - 1].tree) IN
             [tree |-> effect.tree, changed |-> Changed(g[n - 1], call.steps[n], effect),
              kind |-> CASE effect.result.kind = "stale" -> "error"
                         [] effect.result.kind = "raised" -> "raised"
                         [] OTHER -> "success"]]
StepEnds == {"success", "error", "raised"}
Executions == [tree : Trees, changed : SUBSET Paths, kind : StepEnds]

\* One step of code_executor.
Onward(i, run, step) ==
  IF run.kind # "success" THEN run
  ELSE LET effect == FileEffect(i, step, run.tree) IN
       [tree |-> effect.tree, changed |-> Changed(run, step, effect),
        kind |-> CASE effect.result.kind = "stale" -> "error"
                   [] effect.result.kind = "raised" -> "raised"
                   [] OTHER -> "success"]

LEMMA OnwardIs ==
  ASSUME NEW i \in Texts, NEW run \in Executions, NEW step \in ProgramSteps
  PROVE  /\ Onward(i, run, step) \in Executions
         /\ run.changed \subseteq Onward(i, run, step).changed
         /\ \A p \in Paths : \/ Onward(i, run, step).tree[p] = run.tree[p]
                             \/ /\ Onward(i, run, step).tree[p] = i
                                /\ p \in Onward(i, run, step).changed
<1> DEFINE effect == FileEffect(i, step, run.tree)
           next == Onward(i, run, step)
<1>1. /\ run.tree \in Trees /\ run.changed \in SUBSET Paths
      /\ step.path \in Paths \cup {"/"}
  BY DEF Executions, ProgramSteps
<1>w. step.tool \in {"write_file", "patch"} => step.path \in Paths
  BY DEF ProgramSteps
<1>2. /\ effect.tree \in Trees
      /\ \/ effect.tree = run.tree /\ effect.result.kind # "written"
         \/ /\ effect.tree = [run.tree EXCEPT ![step.path] = i] /\ effect.result.kind = "written"
            /\ step.tool \in {"write_file", "patch"}
  BY <1>1, FileEffectIs
<1> DEFINE end == CASE effect.result.kind = "stale" -> "error"
                    [] effect.result.kind = "raised" -> "raised"
                    [] OTHER -> "success"
<1>e. end \in StepEnds
  BY DEF StepEnds
<1>3. next = IF run.kind # "success" THEN run
             ELSE [tree |-> effect.tree, changed |-> Changed(run, step, effect), kind |-> end]
  BY DEF Onward
<1>4. Changed(run, step, effect) = IF step.tool \in {"write_file", "patch"} /\ effect.result.kind = "written"
                                   THEN run.changed \cup {step.path} ELSE run.changed
  BY DEF Changed
<1> HIDE DEF effect, next, end
<1>5. CASE run.kind # "success"
  BY <1>3, <1>5 DEF next
<1>6. CASE run.kind = "success"
  <2>1. /\ next.tree = effect.tree /\ next.changed = Changed(run, step, effect)
        /\ next.kind \in StepEnds
        /\ next = [tree |-> next.tree, changed |-> next.changed, kind |-> next.kind]
    BY <1>3, <1>e, <1>6
  <2>2. Changed(run, step, effect) \in SUBSET Paths
        /\ run.changed \subseteq Changed(run, step, effect)
    BY <1>1, <1>w, <1>4
  <2>3. next \in Executions
    BY <1>2, <2>1, <2>2 DEF Executions
  <2>4. ASSUME NEW p \in Paths
        PROVE  next.tree[p] = run.tree[p] \/ (next.tree[p] = i /\ p \in next.changed)
    <3>1. CASE effect.tree = run.tree
      BY <2>1, <3>1
    <3>2. CASE /\ effect.tree = [run.tree EXCEPT ![step.path] = i] /\ effect.result.kind = "written"
               /\ step.tool \in {"write_file", "patch"}
      <4>1. step.path \in Changed(run, step, effect)
        BY <1>4, <3>2
      <4>2. effect.tree[p] = IF p = step.path THEN i ELSE run.tree[p]
        BY <1>1, <3>2 DEF Trees
      <4> QED BY <2>1, <4>1, <4>2
    <3> QED BY <1>2, <3>1, <3>2
  <2> QED BY <2>1, <2>2, <2>3, <2>4 DEF next
<1> QED BY <1>5, <1>6

\* Whatever code_executor leaves in a file its result tells, unless a step raises.
LEMMA ExecuteIs ==
  ASSUME NEW i \in Texts, NEW call, call.steps \in Seq(ProgramSteps), NEW tree \in Trees
  PROVE  LET e == Execute(i, call, tree) IN
         /\ e.tree \in Trees
         /\ \/ e.result = Says("raised")
            \/ e.result \in [kind : {"success", "error"}, of : SUBSET Paths]
         /\ \A p \in Paths : \/ e.tree[p] = tree[p]
                             \/ e.tree[p] = i /\ (e.result = Says("raised") \/ p \in e.result.of)
<1> DEFINE N == Len(call.steps)
           first == [tree |-> tree, changed |-> {}, kind |-> "success"]
           step == [run \in Executions |-> [s \in ProgramSteps |-> Onward(i, run, s)]]
           Goes(f) == [n \in 0..N |-> IF n = 0 THEN first ELSE Onward(i, f[n - 1], call.steps[n])]
           h == ExecutionOf(i, call, tree)
<1>1. N \in Nat /\ \A n \in 1..N : call.steps[n] \in ProgramSteps
  BY LenProperties, ElementOfSeq
<1>2. step \in [Executions -> [ProgramSteps -> Executions]]
  <2>1. \A run \in Executions, s \in ProgramSteps : Onward(i, run, s) \in Executions
    BY OnwardIs
  <2> QED BY <2>1
<1>3. first \in Executions
  BY DEF Executions, StepEnds
<1>4. \E f \in [0..N -> Executions] : IsFold(f, first, step, call.steps)
  <2> HIDE DEF step, first, Goes
  <2> QED BY <1>2, <1>3, FoldExists
<1>5. PICK f \in [0..N -> Executions] :
        f[0] = first /\ \A n \in 1..N : f[n] = step[f[n - 1]][call.steps[n]]
  <2> HIDE DEF step, first
  <2> QED BY <1>4 DEF IsFold
<1>6. \A n \in 1..N : n - 1 \in 0..N /\ f[n - 1] \in Executions /\ n \in 0..N
  BY <1>1, <1>5
<1>7. \A n \in 1..N : f[n] = Onward(i, f[n - 1], call.steps[n])
  BY <1>1, <1>5, <1>6
<1> HIDE DEF step, first
<1>8. f = Goes(f)
  <2>1. \A n \in 0..N : f[n] = IF n = 0 THEN first ELSE Onward(i, f[n - 1], call.steps[n])
    BY <1>1, <1>5, <1>7
  <2> QED BY <2>1
<1>9. /\ h = CHOOSE g : g = Goes(g)
      /\ Execute(i, call, tree) =
           [tree |-> h[N].tree, result |-> IF h[N].kind = "raised" THEN Says("raised")
                                           ELSE [kind |-> h[N].kind, of |-> h[N].changed]]
  BY DEF ExecutionOf, Execute, Onward, first
<1>10. h = Goes(h)
  <2> HIDE DEF Goes, h
  <2> QED BY <1>8, <1>9
<1> HIDE DEF h
<1>11. h[0] = first /\ \A n \in 1..N : h[n] = Onward(i, h[n - 1], call.steps[n])
  <2>1. 0 \in 0..N /\ \A n \in 1..N : n \in 0..N /\ n # 0
    BY <1>1
  <2>2. \A n \in 0..N : Goes(h)[n] = IF n = 0 THEN first ELSE Onward(i, h[n - 1], call.steps[n])
    OBVIOUS
  <2> HIDE DEF Goes
  <2> QED BY <1>10, <2>1, <2>2
<1> HIDE DEF Goes
<1> DEFINE Tells(n) == /\ h[n] \in Executions
                       /\ \A p \in Paths : h[n].tree[p] = tree[p] \/ (h[n].tree[p] = i /\ p \in h[n].changed)
           T == {n \in 0..N : Tells(n)}
<1>12. 0 \in T
  <2>1. Tells(0)
    BY <1>3, <1>11 DEF first
  <2>2. 0 \in 0..N
    BY <1>1
  <2> HIDE DEF Tells
  <2> QED BY <2>1, <2>2
<1>13. ASSUME NEW n \in 0..(N - 1), n \in T PROVE n + 1 \in T
  <2>1. n + 1 \in 1..N /\ n + 1 \in 0..N /\ (n + 1) - 1 = n
    BY <1>1
  <2>2. Tells(n) /\ call.steps[n + 1] \in ProgramSteps
    BY <1>1, <1>13, <2>1
  <2>3. h[n + 1] = Onward(i, h[n], call.steps[n + 1])
    BY <1>11, <2>1
  <2>4. Tells(n + 1)
    <3> DEFINE s == call.steps[n + 1]
    <3>1. h[n] \in Executions /\ s \in ProgramSteps
      BY <2>2
    <3> HIDE DEF s
    <3>2. /\ Onward(i, h[n], s) \in Executions
          /\ h[n].changed \subseteq Onward(i, h[n], s).changed
          /\ \A p \in Paths : \/ Onward(i, h[n], s).tree[p] = h[n].tree[p]
                              \/ /\ Onward(i, h[n], s).tree[p] = i
                                 /\ p \in Onward(i, h[n], s).changed
      BY <3>1, OnwardIs
    <3>3. h[n + 1] = Onward(i, h[n], s)
      BY <2>3 DEF s
    <3>4. \A p \in Paths : h[n].tree[p] = tree[p] \/ (h[n].tree[p] = i /\ p \in h[n].changed)
      BY <2>2, Zenon
    <3> QED BY <3>2, <3>3, <3>4
  <2> HIDE DEF Tells
  <2> QED BY <2>1, <2>4
<1> HIDE DEF T
<1>14. N \in T
  <2>1. \A n \in 0..N : n \in T
    BY <1>1, <1>12, <1>13, UpTo, Zenon
  <2>2. N \in 0..N
    BY <1>1
  <2> QED BY <2>1, <2>2
<1>15. Tells(N)
  BY <1>14 DEF T
<1> QED
  <2>1. h[N].tree \in Trees /\ h[N].kind \in StepEnds /\ h[N].changed \in SUBSET Paths
    BY <1>15 DEF Executions
  <2>2. \A p \in Paths : h[N].tree[p] = tree[p] \/ (h[N].tree[p] = i /\ p \in h[N].changed)
    BY <1>15, Zenon
  <2> DEFINE e == Execute(i, call, tree)
  <2>3. /\ e.tree = h[N].tree
        /\ e.result = IF h[N].kind = "raised" THEN Says("raised")
                      ELSE [kind |-> h[N].kind, of |-> h[N].changed]
    BY <1>9
  <2> HIDE DEF e
  <2>4. CASE h[N].kind = "raised"
    BY <2>1, <2>2, <2>3, <2>4 DEF e
  <2>5. CASE h[N].kind # "raised"
    <3>1. e.result = [kind |-> h[N].kind, of |-> h[N].changed] /\ h[N].kind \in {"success", "error"}
      BY <2>1, <2>3, <2>5 DEF StepEnds
    <3> QED BY <2>1, <2>2, <2>3, <3>1 DEF e
  <2> QED BY <2>4, <2>5

\* What a call leaves: what was there, or its own text, which its result tells unless a
\* step has raised.
Tells(call, result, p) ==
  \/ result.kind = "written" /\ p = call.path
  \/ result.kind \in {"success", "error"} /\ p \in result.of
  \/ result.kind = "raised" /\ call.tool = "code_executor"
LEMMA EffectIs ==
  ASSUME BatchAssumption, NEW i \in Texts, NEW call \in ToolCalls, NEW tree \in Trees
  PROVE  LET e == Effect(i, call, tree) IN
         /\ e.tree \in Trees
         /\ \A p \in Paths : \/ e.tree[p] = tree[p]
                             \/ e.tree[p] = i /\ Tells(call, e.result, p) /\ p \in Touches(call)
<1> DEFINE e == Effect(i, call, tree)
<1>1. CASE call.tool = "code_executor"
  <2>1. call.steps \in Seq(ProgramSteps)
    <3>1. call \in [tool : {"code_executor"}, path : {"/"}, fresh : {FALSE}, steps : Programs]
      BY <1>1 DEF ToolCalls, On
    <3>2. call.steps \in Programs
      BY <3>1
    <3> QED BY <3>2 DEF BatchAssumption
  <2>2. e = Execute(i, call, tree) /\ Touches(call) = Paths
    BY <1>1 DEF Effect, Touches
  <2> HIDE DEF e
  <2>3. /\ e.tree \in Trees
        /\ e.result.kind = "raised" \/ e.result.kind \in {"success", "error"}
        /\ \A p \in Paths : \/ e.tree[p] = tree[p]
                            \/ e.tree[p] = i /\ (e.result.kind = "raised" \/ p \in e.result.of)
    <3> DEFINE x == Execute(i, call, tree)
    <3>1. /\ x.tree \in Trees
          /\ \/ x.result = Says("raised")
             \/ x.result \in [kind : {"success", "error"}, of : SUBSET Paths]
          /\ \A p \in Paths : \/ x.tree[p] = tree[p]
                              \/ x.tree[p] = i /\ (x.result = Says("raised") \/ p \in x.result.of)
      BY <2>1, ExecuteIs
    <3> HIDE DEF x
    <3>2. e = x
      BY <2>2 DEF x
    <3>3. /\ Says("raised").kind = "raised"
          /\ x.result \in [kind : {"success", "error"}, of : SUBSET Paths] =>
               x.result.kind \in {"success", "error"}
      BY DEF Says
    <3> QED BY <3>1, <3>2, <3>3
  <2>4. \A p \in Paths : \/ e.tree[p] = tree[p]
                         \/ e.tree[p] = i /\ Tells(call, e.result, p) /\ p \in Touches(call)
    BY <1>1, <2>2, <2>3, Zenon DEF Tells
  <2> QED BY <2>3, <2>4 DEF e
<1>2. CASE call.tool # "code_executor"
  <2>1. e = FileEffect(i, call, tree) /\ Touches(call) = {call.path}
    BY <1>2 DEF Effect, Touches
  <2> HIDE DEF e
  <2>2. /\ e.tree \in Trees
        /\ \/ e.tree = tree /\ e.result.kind # "written"
           \/ /\ e.tree = [tree EXCEPT ![call.path] = i] /\ e.result.kind = "written"
              /\ call.tool \in {"write_file", "patch"}
    <3> DEFINE x == FileEffect(i, call, tree)
    <3>1. /\ x.tree \in Trees
          /\ \/ x.tree = tree /\ x.result.kind # "written"
             \/ /\ x.tree = [tree EXCEPT ![call.path] = i] /\ x.result.kind = "written"
                /\ call.tool \in {"write_file", "patch"}
      BY FileEffectIs
    <3> HIDE DEF x
    <3>2. e = x
      BY <2>1 DEF x
    <3> QED BY <3>1, <3>2
  <2>3. ASSUME NEW p \in Paths
        PROVE  \/ e.tree[p] = tree[p]
               \/ e.tree[p] = i /\ Tells(call, e.result, p) /\ p \in Touches(call)
    <3>1. CASE e.tree = tree
      BY <3>1
    <3>2. CASE e.tree = [tree EXCEPT ![call.path] = i] /\ e.result.kind = "written"
      BY <2>1, <3>2 DEF Tells, Trees
    <3> QED BY <2>2, <3>1, <3>2
  <2> QED BY <2>2, <2>3 DEF e
<1> QED BY <1>1, <1>2

\* What a call on one file makes of it depends on that file alone.
Looks(call) == IF call.tool = "grep" THEN Paths ELSE {call.path}
Scoped(call) == call.tool \in PathScoped
LEMMA EffectIsLocal ==
  ASSUME NEW i \in Texts, NEW call \in ToolCalls, call.tool \in PathScoped \cup ParallelSafe,
         NEW one \in Trees, NEW other \in Trees, \A p \in Looks(call) : one[p] = other[p]
  PROVE  /\ Effect(i, call, one).result = Effect(i, call, other).result
         /\ Scoped(call) => call.path \in Paths
         /\ Scoped(call) =>
              Effect(i, call, one).tree[call.path] = Effect(i, call, other).tree[call.path]
         /\ call.tool \notin {"write_file", "patch"} => Effect(i, call, one).tree = one
<1>1. /\ Effect(i, call, one) = FileEffect(i, call, one)
      /\ Effect(i, call, other) = FileEffect(i, call, other)
      /\ call.tool \in {"read_file", "write_file", "patch", "grep"}
  BY DEF Effect, PathScoped, ParallelSafe
<1>2. /\ call.tool = "read_file" => call \in On("read_file", {FALSE})
      /\ call.tool = "write_file" => call \in On("write_file", BOOLEAN)
      /\ call.tool = "patch" => call \in On("patch", {TRUE})
  BY DEF ToolCalls, On
<1>3. call.tool # "grep" => call.path \in Paths /\ one[call.path] = other[call.path]
  BY <1>1, <1>2 DEF On, Looks
<1>4. CASE call.tool = "grep"
  <2>1. one = other
    BY <1>4 DEF Looks, Trees
  <2>2. FileEffect(i, call, one) = [tree |-> one, result |-> [kind |-> "found", of |-> one]]
    BY <1>4 DEF FileEffect, Grep, PathScoped
  <2> QED BY <1>1, <1>4, <2>1, <2>2 DEF Scoped, PathScoped
<1>g. CASE call.tool \in PathScoped /\ call.path \in Garbled
  <2>1. /\ FileEffect(i, call, one) = [tree |-> one, result |-> Says("raised")]
        /\ FileEffect(i, call, other) = [tree |-> other, result |-> Says("raised")]
    BY <1>g, GarbledRaises
  <2>2. call.tool # "grep"
    BY <1>g DEF PathScoped
  <2> QED BY <1>1, <1>3, <2>1, <2>2
<1>5. CASE call.tool = "read_file" /\ call.path \notin Garbled
  <2>1. /\ FileEffect(i, call, one) = ReadFile(call, one)
        /\ FileEffect(i, call, other) = ReadFile(call, other)
    BY <1>5 DEF FileEffect
  <2> QED BY <1>1, <1>3, <1>5, <2>1 DEF ReadFile
<1>6. CASE call.tool = "write_file" /\ call.path \notin Garbled
  <2>1. /\ FileEffect(i, call, one) = WriteFile(i, call, one)
        /\ FileEffect(i, call, other) = WriteFile(i, call, other)
    BY <1>6 DEF FileEffect
  <2> QED BY <1>1, <1>3, <1>6, <2>1 DEF WriteFile, Trees
<1>7. CASE call.tool = "patch" /\ call.path \notin Garbled
  <2>1. /\ FileEffect(i, call, one) = Patch(i, call, one)
        /\ FileEffect(i, call, other) = Patch(i, call, other)
    BY <1>7 DEF FileEffect
  <2> QED BY <1>1, <1>3, <1>7, <2>1 DEF Patch, Trees
<1> QED BY <1>1, <1>4, <1>5, <1>6, <1>7, <1>g DEF PathScoped

-----------------------------------------------------------------------------
(* One call after the other *)

\* The calls are typed, and what holds of them when they run at once.
BatchFits ==
  /\ batch \in Seq(ToolCalls) /\ Len(batch) \in 1..MaxCalls
  /\ together = (ShouldRunConcurrently(batch) /\ CanExecuteConcurrently(batch, asking))

RunsNext(before, i) ==
  IF before.waits THEN [before EXCEPT !.result = Says("deferred")]
  ELSE IF Waits(batch[i])
  THEN [tree |-> before.tree, result |-> Says("pending"), waits |-> TRUE]
  ELSE LET effect == Effect(i, batch[i], before.tree) IN
       [tree |-> effect.tree, result |-> effect.result, waits |-> FALSE]
NoTexts == [p \in Paths |-> 0]

LEMMA CallsAre ==
  ASSUME BatchAssumption, BatchFits
  PROVE  /\ Len(batch) \in Nat /\ Calls = 1..Len(batch)
         /\ \A i \in Calls : i \in Texts /\ i # 0 /\ batch[i] \in ToolCalls
         /\ NoTexts \in Trees
<1>1. Len(batch) \in Nat /\ DOMAIN batch = 1..Len(batch) /\ MaxCalls \in Nat /\ Len(batch) <= MaxCalls
  BY LenProperties DEF BatchFits, BatchAssumption
<1>2. \A i \in 1..Len(batch) : batch[i] \in ToolCalls
  BY ElementOfSeq DEF BatchFits
<1>3. NoTexts \in Trees
  BY <1>1 DEF NoTexts, Trees, Texts
<1> QED BY <1>1, <1>2, <1>3 DEF Calls, Texts

LEMMA OrderIs ==
  ASSUME BatchAssumption, BatchFits
  PROVE  /\ InOrder[0] = [tree |-> NoTexts, result |-> Says("none"), waits |-> FALSE]
         /\ \A i \in Calls : InOrder[i] = RunsNext(InOrder[i - 1], i)
         /\ \A i \in 0..Len(batch) :
              /\ InOrder[i].tree \in Trees /\ InOrder[i].waits \in BOOLEAN
              /\ InOrder[i] = [tree |-> InOrder[i].tree, result |-> InOrder[i].result,
                               waits |-> InOrder[i].waits]
<1> DEFINE N == Len(batch)
           ResultRecords == {Says("none"), Says("pending"), Says("deferred")}
             \cup {Effect(i, batch[i], tree).result : i \in Calls, tree \in Trees}
           Stages == [tree : Trees, result : ResultRecords, waits : BOOLEAN]
           first == [tree |-> NoTexts, result |-> Says("none"), waits |-> FALSE]
           step == [before \in Stages |-> [i \in Calls |-> RunsNext(before, i)]]
           count == [i \in 1..N |-> i]
           Goes(f) == [n \in 0..N |-> IF n = 0 THEN first ELSE RunsNext(f[n - 1], n)]
           h == InOrder
<1>1. /\ N \in Nat /\ Calls = 1..N /\ NoTexts \in Trees
      /\ \A i \in Calls : i \in Texts /\ batch[i] \in ToolCalls
  BY CallsAre
<1>0. \A i \in Calls, tree \in Trees : Effect(i, batch[i], tree).tree \in Trees
  BY <1>1, EffectIs
<1>2. step \in [Stages -> [Calls -> Stages]]
  <2>1. ASSUME NEW before \in Stages, NEW i \in Calls PROVE RunsNext(before, i) \in Stages
    <3>1. CASE before.waits
      <4>1. RunsNext(before, i) = [before EXCEPT !.result = Says("deferred")]
        BY <3>1 DEF RunsNext
      <4>2. Says("deferred") \in ResultRecords
        OBVIOUS
      <4> HIDE DEF ResultRecords
      <4> QED BY <4>1, <4>2
    <3>2. CASE ~before.waits /\ Waits(batch[i])
      <4>1. RunsNext(before, i) = [tree |-> before.tree, result |-> Says("pending"), waits |-> TRUE]
        BY <3>2 DEF RunsNext
      <4>2. Says("pending") \in ResultRecords
        OBVIOUS
      <4> HIDE DEF ResultRecords
      <4> QED BY <4>1, <4>2
    <3>3. CASE ~before.waits /\ ~Waits(batch[i])
      <4> DEFINE e == Effect(i, batch[i], before.tree)
      <4>1. RunsNext(before, i) = [tree |-> e.tree, result |-> e.result, waits |-> FALSE]
        BY <3>3 DEF RunsNext
      <4>2. before.tree \in Trees
        OBVIOUS
      <4>3. e.result \in ResultRecords
        BY <4>2
      <4>4. e.tree \in Trees
        BY <1>0, <4>2
      <4> HIDE DEF ResultRecords, e
      <4> QED BY <4>1, <4>3, <4>4
    <3> QED BY <3>1, <3>2, <3>3
  <2> HIDE DEF Stages
  <2> QED BY <2>1
<1>3. first \in Stages
  <2>1. Says("none") \in ResultRecords
    OBVIOUS
  <2> HIDE DEF ResultRecords
  <2> QED BY <1>1, <2>1
<1>4. count \in Seq(Calls) /\ Len(count) = N /\ \A i \in 1..N : count[i] = i
  BY <1>1
<1> HIDE DEF Stages, ResultRecords
<1>5. \E f \in [0..Len(count) -> Stages] : IsFold(f, first, step, count)
  <2> HIDE DEF step, first, count
  <2> QED BY <1>2, <1>3, <1>4, FoldExists
<1> HIDE DEF count
<1>6. PICK f \in [0..N -> Stages] : f[0] = first /\ \A i \in 1..N : f[i] = step[f[i - 1]][i]
  <2> HIDE DEF step, first
  <2> QED BY <1>4, <1>5 DEF IsFold
<1>7. \A i \in 1..N : i - 1 \in 0..N /\ f[i - 1] \in Stages /\ i \in 0..N
  BY <1>1, <1>6
<1>8. \A i \in 1..N : f[i] = RunsNext(f[i - 1], i)
  BY <1>1, <1>6, <1>7
<1> HIDE DEF step, first
<1>9. f = Goes(f)
  <2>1. \A n \in 0..N : f[n] = IF n = 0 THEN first ELSE RunsNext(f[n - 1], n)
    BY <1>1, <1>6, <1>8
  <2> QED BY <2>1
<1>10. h = CHOOSE g : g = Goes(g)
  BY DEF InOrder, RunsNext, first, NoTexts
<1>11. h = Goes(h)
  <2> HIDE DEF Goes, h
  <2> QED BY <1>9, <1>10
<1> HIDE DEF h
<1>12. h[0] = first /\ \A i \in 1..N : h[i] = RunsNext(h[i - 1], i)
  <2>1. 0 \in 0..N /\ \A n \in 1..N : n \in 0..N /\ n # 0
    BY <1>1
  <2>2. \A n \in 0..N : Goes(h)[n] = IF n = 0 THEN first ELSE RunsNext(h[n - 1], n)
    OBVIOUS
  <2> HIDE DEF Goes
  <2> QED BY <1>11, <2>1, <2>2
<1>13. \A i \in 0..N : h[i] = f[i]
  <2>1. GoOnAlike(h, f, N)
    BY <1>6, <1>8, <1>12 DEF GoOnAlike
  <2> QED BY <1>1, <2>1, FoldIsOne
<1>14. \A i \in 0..N : /\ h[i].tree \in Trees /\ h[i].waits \in BOOLEAN
                        /\ h[i] = [tree |-> h[i].tree, result |-> h[i].result, waits |-> h[i].waits]
  BY <1>6, <1>13 DEF Stages
<1> QED BY <1>1, <1>12, <1>14 DEF h, first

\* After a call that waits every other one is deferred.
LEMMA OrderStays ==
  ASSUME BatchAssumption, BatchFits, NEW k \in Calls, InOrder[k].waits
  PROVE  \A j \in k..Len(batch) : /\ InOrder[j].waits /\ InOrder[j].tree = InOrder[k].tree
                                  /\ j > k => InOrder[j].result = Says("deferred")
<1> DEFINE n == Len(batch) - k
           Stays(j) == /\ InOrder[j].waits /\ InOrder[j].tree = InOrder[k].tree
                       /\ j > k => InOrder[j].result = Says("deferred")
           T == {d \in 0..n : Stays(k + d)}
<1>1. /\ Len(batch) \in Nat /\ k \in 1..Len(batch) /\ Calls = 1..Len(batch) /\ n \in Nat
  <2>1. Len(batch) \in Nat /\ Calls = 1..Len(batch)
    BY CallsAre
  <2> QED BY <2>1
<1>2. 0 \in T
  BY <1>1
<1>3. ASSUME NEW d \in 0..(n - 1), d \in T PROVE d + 1 \in T
  <2> DEFINE j == k + d
  <2>1. j + 1 \in Calls /\ (j + 1) - 1 = j /\ j \in 0..Len(batch) /\ k + (d + 1) = j + 1
    BY <1>1
  <2>2. Stays(j)
    BY <1>3
  <2> HIDE DEF j
  <2>3. InOrder[j + 1] = RunsNext(InOrder[j], j + 1)
    BY <2>1, OrderIs
  <2>4. InOrder[j + 1] = [InOrder[j] EXCEPT !.result = Says("deferred")]
    BY <2>2, <2>3 DEF RunsNext
  <2>5. InOrder[j] = [tree |-> InOrder[j].tree, result |-> InOrder[j].result,
                      waits |-> InOrder[j].waits]
    BY <2>1, OrderIs
  <2>6. /\ InOrder[j + 1].tree = InOrder[j].tree /\ InOrder[j + 1].waits = InOrder[j].waits
        /\ InOrder[j + 1].result = Says("deferred")
    BY <2>4, <2>5
  <2>7. Stays(j + 1)
    BY <2>2, <2>6
  <2>8. d + 1 \in 0..n
    BY <1>1
  <2> HIDE DEF Stays
  <2> QED BY <2>1, <2>7, <2>8
<1> HIDE DEF T
<1>4. \A d \in 0..n : d \in T
  BY <1>1, <1>2, <1>3, UpTo, Zenon
<1>5. \A j \in k..Len(batch) : j - k \in 0..n /\ k + (j - k) = j
  BY <1>1
<1>6. \A j \in k..Len(batch) : Stays(j)
  <2> HIDE DEF n, Stays
  <2> QED BY <1>4, <1>5 DEF T
<1> QED BY <1>6

\* The first m calls are done, and have left what they leave in order.
DoneUpTo(m) ==
  \A i \in Calls : (callAt[i] = "done" <=> i <= m) /\ (i > m + 1 => callAt[i] = "todo")
InOrderSoFar(m) ==
  /\ DoneUpTo(m) /\ files = InOrder[m].tree /\ \A i \in 1..m : outcome[i] = InOrder[i].result
  /\ m < Len(batch) => ~InOrder[m].waits
  /\ \A i \in Calls : callAt[i] = "open" => seen[i] = files /\ ~Waits(batch[i])

\* Whatever is in a file, or was when an open call read it, a call that is done tells.
Reported(at, results, j, calls, p) ==
  j \in DOMAIN calls /\ at[j] = "done" /\ Tells(calls[j], results[j], p)
IsReported(at, results, tree, calls) ==
  \A p \in Paths : tree[p] # 0 => Reported(at, results, tree[p], calls, p)
AllReported ==
  /\ IsReported(callAt, outcome, files, batch)
  /\ \A i \in Calls : callAt[i] = "open" => IsReported(callAt, outcome, seen[i], batch)

\* What the calls of a set leave when each finds its file as it was at first.
Alone(i) == Effect(i, batch[i], NoTexts)
HoldsEach(tree, done) ==
  /\ tree \in Trees
  /\ \A i \in done : Scoped(batch[i]) => tree[batch[i].path] = Alone(i).tree[batch[i].path]
  /\ \A p \in Paths : (\A i \in done : Scoped(batch[i]) => batch[i].path # p) => tree[p] = 0
FindsFresh(tree, i) == \A p \in Looks(batch[i]) : tree[p] = 0
Done == {i \in Calls : callAt[i] = "done"}
AtOnce ==
  /\ HoldsEach(files, Done)
  /\ \A i \in Calls : callAt[i] = "open" => FindsFresh(seen[i], i)
  /\ \A i \in Done : outcome[i] = Alone(i).result

BatchInv ==
  /\ BatchFits /\ files \in Trees /\ seen \in [Calls -> Trees]
  /\ callAt \in [Calls -> {"todo", "open", "done"}]
  /\ outcome = [i \in Calls |-> outcome[i]]
  /\ AllReported
  /\ ~together => \E m \in 0..Len(batch) : InOrderSoFar(m)
  /\ together /\ ~SearchesAndWrites => AtOnce

LEMMA SameRequest ==
  ASSUME UNCHANGED request
  PROVE  /\ batch' = batch /\ together' = together /\ Calls' = Calls
         /\ InOrder' = InOrder /\ SearchesAndWrites' = SearchesAndWrites
         /\ BatchFits => BatchFits'
         /\ \A call : Waits(call)' = Waits(call)
         /\ \A i : Alone(i)' = Alone(i)
         /\ \A tree, done : HoldsEach(tree, done)' = HoldsEach(tree, done)
         /\ \A tree, i : FindsFresh(tree, i)' = FindsFresh(tree, i)
<1>1. batch' = batch /\ asking' = asking /\ granted' = granted /\ together' = together
  BY DEF request
<1>2. InOrder' = InOrder
  BY <1>1, ZenonT(60) DEF InOrder, Waits
<1>3. Calls' = Calls /\ SearchesAndWrites' = SearchesAndWrites
  BY <1>1 DEF Calls, SearchesAndWrites
<1>4. BatchFits => BatchFits'
  BY <1>1 DEF BatchFits
<1>5. (\A call : Waits(call)' = Waits(call)) /\ (\A i : Alone(i)' = Alone(i))
  BY <1>1 DEF Waits, Alone
<1>6. \A tree, done : HoldsEach(tree, done)' = HoldsEach(tree, done)
  BY <1>1, <1>5 DEF HoldsEach
<1>7. \A tree, i : FindsFresh(tree, i)' = FindsFresh(tree, i)
  BY <1>1 DEF FindsFresh
<1> QED BY <1>1, <1>2, <1>3, <1>4, <1>5, <1>6, <1>7

\* Calls that run at once do not wait, and name different files.
LEMMA TogetherIs ==
  ASSUME BatchFits, together
  PROVE  \A i \in Calls : /\ ~Waits(batch[i]) /\ batch[i].tool \in PathScoped \cup ParallelSafe
                          /\ \A j \in Calls : Scoped(batch[i]) /\ j # i => batch[j].path # batch[i].path
<1>1. ShouldRunConcurrently(batch) /\ CanExecuteConcurrently(batch, asking)
  BY DEF BatchFits
<1>2. \A i \in Calls : /\ batch[i].tool \in PathScoped \cup ParallelSafe /\ batch[i].tool \notin asking
                       /\ \A j \in Calls : Scoped(batch[i]) /\ j # i => batch[j].path # batch[i].path
  BY <1>1 DEF ShouldRunConcurrently, CanExecuteConcurrently, Scoped, Calls
<1>3. "ask_user" \notin PathScoped \cup ParallelSafe
  BY DEF PathScoped, ParallelSafe
<1> QED BY <1>2, <1>3 DEF Waits

\* A call that is not among those done finds what it looks at as it was at first ...
LEMMA LooksFresh ==
  ASSUME BatchAssumption, BatchFits, together, ~SearchesAndWrites,
         NEW done \in SUBSET Calls, NEW tree, HoldsEach(tree, done), NEW i \in Calls \ done
  PROVE  FindsFresh(tree, i)
<1> SUFFICES ASSUME NEW p \in Looks(batch[i]) PROVE tree[p] = 0
  BY DEF FindsFresh
<1>1. \A j \in Calls : j \in Texts /\ batch[j] \in ToolCalls /\ NoTexts \in Trees
  BY CallsAre
<1>2. \A j \in Calls : batch[j].tool \in PathScoped \cup ParallelSafe
  BY TogetherIs
<1>3. CASE batch[i].tool = "grep"
  <2>1. \A j \in Calls : batch[j].tool \notin {"write_file", "patch"}
    BY <1>3 DEF SearchesAndWrites
  <2>2. p \in Paths
    BY <1>3 DEF Looks
  <2>3. ASSUME NEW j \in done, Scoped(batch[j]), batch[j].path = p PROVE tree[p] = 0
    <3>1. Alone(j).tree = NoTexts
      <4>1. Effect(j, batch[j], NoTexts).tree = NoTexts
        BY <1>1, <1>2, <2>1, EffectIsLocal
      <4> QED BY <4>1 DEF Alone
    <3>2. tree[p] = Alone(j).tree[p]
      BY <2>3 DEF HoldsEach
    <3> QED BY <2>2, <3>1, <3>2 DEF NoTexts
  <2> QED BY <2>2, <2>3 DEF HoldsEach
<1>4. CASE batch[i].tool # "grep"
  <2>1. Scoped(batch[i]) /\ p = batch[i].path
    BY <1>2, <1>4 DEF Looks, Scoped, PathScoped, ParallelSafe
  <2>2. p \in Paths
    <3>1. \A q \in Looks(batch[i]) : NoTexts[q] = NoTexts[q]
      OBVIOUS
    <3> QED BY <1>1, <1>2, <2>1, <3>1, EffectIsLocal
  <2>3. \A j \in done : batch[j].path # p
    BY <2>1, TogetherIs
  <2> QED BY <2>2, <2>3 DEF HoldsEach
<1> QED BY <1>3, <1>4

\* ... and so does to its file what it would do alone.
LEMMA HoldsMore ==
  ASSUME BatchAssumption, BatchFits, together, ~SearchesAndWrites,
         NEW done \in SUBSET Calls, NEW tree, HoldsEach(tree, done), NEW i \in Calls \ done,
         NEW found \in Trees, FindsFresh(found, i)
  PROVE  LET e == Effect(i, batch[i], found)
             later == [p \in Paths |-> IF p \in Touches(batch[i]) THEN e.tree[p] ELSE tree[p]]
         IN  e.result = Alone(i).result /\ HoldsEach(later, done \cup {i})
<1> DEFINE call == batch[i]
           e == Effect(i, batch[i], found)
           later == [p \in Paths |-> IF p \in Touches(batch[i]) THEN e.tree[p] ELSE tree[p]]
<1>1. i \in Texts /\ call \in ToolCalls /\ NoTexts \in Trees
  BY CallsAre
<1>2. /\ call.tool \in PathScoped \cup ParallelSafe /\ Touches(call) = {call.path}
      /\ \A j \in Calls : Scoped(call) /\ j # i => batch[j].path # call.path
  BY TogetherIs DEF Touches, PathScoped, ParallelSafe
<1>3. \A p \in Looks(call) : found[p] = NoTexts[p]
  <2>1. Scoped(call) => call.path \in Paths
    <3>1. \A q \in Looks(call) : NoTexts[q] = NoTexts[q]
      OBVIOUS
    <3> QED BY <1>1, <1>2, <3>1, EffectIsLocal
  <2>2. Looks(call) \subseteq Paths
    BY <1>2, <2>1 DEF Looks, Scoped, PathScoped, ParallelSafe
  <2> QED BY <2>2 DEF NoTexts, FindsFresh
<1> HIDE DEF call, e
<1>4. /\ Scoped(call) => call.path \in Paths /\ e.tree[call.path] = Alone(i).tree[call.path]
      /\ e.result = Alone(i).result
  <2>1. /\ Effect(i, call, found).result = Effect(i, call, NoTexts).result
        /\ Scoped(call) => call.path \in Paths
        /\ Scoped(call) =>
             Effect(i, call, found).tree[call.path] = Effect(i, call, NoTexts).tree[call.path]
    BY <1>1, <1>2, <1>3, EffectIsLocal
  <2> QED BY <2>1 DEF Alone, e, call
<1>5. e.tree \in Trees
  BY <1>1, EffectIs DEF e, call
<1>6. tree \in Trees
  BY DEF HoldsEach
<1>7. /\ later \in Trees
      /\ \A p \in Paths : later[p] = IF p = call.path THEN e.tree[p] ELSE tree[p]
  BY <1>2, <1>5, <1>6 DEF Trees, call
<1>8. /\ later = [p \in Paths |-> IF p \in Touches(batch[i]) THEN Effect(i, batch[i], found).tree[p]
                                  ELSE tree[p]]
      /\ e = Effect(i, batch[i], found) /\ call = batch[i]
  BY DEF e, call
<1> HIDE DEF later
<1>9. ASSUME NEW j \in done \cup {i}, Scoped(batch[j])
      PROVE  later[batch[j].path] = Alone(j).tree[batch[j].path]
  <2>1. CASE j = i
    BY <1>4, <1>7, <1>8, <1>9, <2>1
  <2>2. CASE j \in done /\ j # i
    <3>1. batch[j].path # call.path
      BY <1>8, <1>9, <2>2, TogetherIs
    <3>2. batch[j].path \in Paths
      <4>1. batch[j] \in ToolCalls /\ batch[j].tool \in PathScoped \cup ParallelSafe /\ j \in Texts
        BY <2>2, CallsAre, TogetherIs
      <4>2. \A q \in Looks(batch[j]) : NoTexts[q] = NoTexts[q]
        OBVIOUS
      <4> QED BY <1>1, <1>9, <4>1, <4>2, EffectIsLocal
    <3>3. tree[batch[j].path] = Alone(j).tree[batch[j].path]
      BY <1>9, <2>2 DEF HoldsEach
    <3> QED BY <1>7, <3>1, <3>2, <3>3
  <2> QED BY <2>1, <2>2
<1>10. ASSUME NEW p \in Paths, \A j \in done \cup {i} : Scoped(batch[j]) => batch[j].path # p
       PROVE  later[p] = 0
  <2>1. tree[p] = 0
    BY <1>10 DEF HoldsEach
  <2>2. CASE p # call.path
    BY <1>7, <2>1, <2>2
  <2>3. CASE p = call.path
    <3>1. ~Scoped(call)
      BY <1>8, <1>10, <2>3
    <3>2. call.tool \notin {"write_file", "patch"} /\ call.tool = "grep"
      BY <1>2, <3>1 DEF Scoped, PathScoped, ParallelSafe
    <3>3. e.tree = found
      BY <1>1, <1>2, <1>3, <1>8, <3>2, EffectIsLocal
    <3>4. found[p] = 0
      BY <1>8, <3>2 DEF Looks, FindsFresh
    <3> QED BY <1>7, <2>3, <3>3, <3>4
  <2> QED BY <2>2, <2>3
<1>11. HoldsEach(later, done \cup {i})
  BY <1>7, <1>9, <1>10 DEF HoldsEach
<1> QED BY <1>4, <1>8, <1>11

\* There is one way to hold what a set of calls leaves.
LEMMA HoldsIsOne ==
  ASSUME NEW done, NEW one, NEW other, HoldsEach(one, done), HoldsEach(other, done)
  PROVE  one = other
<1>1. one \in Trees /\ other \in Trees
  BY DEF HoldsEach
<1>2. ASSUME NEW p \in Paths PROVE one[p] = other[p]
  <2>1. CASE \A i \in done : Scoped(batch[i]) => batch[i].path # p
    BY <2>1 DEF HoldsEach
  <2>2. CASE \E i \in done : Scoped(batch[i]) /\ batch[i].path = p
    BY <2>2 DEF HoldsEach
  <2> QED BY <2>1, <2>2
<1> QED BY <1>1, <1>2 DEF Trees

\* In order, calls that may run at once do what they would do alone.
LEMMA OrderHolds ==
  ASSUME BatchAssumption, BatchFits, together, ~SearchesAndWrites
  PROVE  /\ HoldsEach(InOrder[Len(batch)].tree, Calls)
         /\ \A i \in Calls : InOrder[i].result = Alone(i).result
<1> DEFINE N == Len(batch)
           Good(n) == /\ HoldsEach(InOrder[n].tree, 1..n) /\ ~InOrder[n].waits
                      /\ n > 0 => InOrder[n].result = Alone(n).result
           T == {n \in 0..N : Good(n)}
<1>1. N \in Nat /\ Calls = 1..N /\ NoTexts \in Trees
  BY CallsAre
<1>2. 0 \in T
  <2>1. InOrder[0].tree = NoTexts /\ ~InOrder[0].waits
    <3>1. InOrder[0] = [tree |-> NoTexts, result |-> Says("none"), waits |-> FALSE]
      BY OrderIs
    <3> QED BY <3>1
  <2>2. HoldsEach(NoTexts, 1..0)
    BY <1>1 DEF HoldsEach, NoTexts
  <2> QED BY <1>1, <2>1, <2>2
<1>3. ASSUME NEW n \in 0..(N - 1), n \in T PROVE n + 1 \in T
  <2> DEFINE i == n + 1
             before == InOrder[n].tree
             e == Effect(i, batch[i], before)
             later == [p \in Paths |-> IF p \in Touches(batch[i]) THEN e.tree[p] ELSE before[p]]
  <2>1. /\ i \in Calls /\ i \in 0..N /\ i - 1 = n /\ n \in 0..N /\ i \notin 1..n
        /\ 1..n \subseteq Calls /\ 1..i = 1..n \cup {i} /\ i > 0
    BY <1>1
  <2>2. Good(n)
    BY <1>3
  <2> HIDE DEF i
  <2>3. InOrder[i] = RunsNext(InOrder[n], i) /\ before \in Trees
    BY <2>1, OrderIs
  <2>4. ~Waits(batch[i])
    BY <2>1, TogetherIs
  <2>5. InOrder[i].tree = e.tree /\ InOrder[i].result = e.result /\ ~InOrder[i].waits
    BY <2>2, <2>3, <2>4 DEF RunsNext
  <2>6. HoldsEach(before, 1..n)
    BY <2>2
  <2> HIDE DEF Good, before
  <2>7. FindsFresh(before, i)
    BY <2>1, <2>6, LooksFresh
  <2>8. e.result = Alone(i).result /\ HoldsEach(later, 1..n \cup {i})
    <3>1. 1..n \in SUBSET Calls /\ i \in Calls \ (1..n)
      BY <2>1
    <3> QED BY <2>3, <2>6, <2>7, <3>1, HoldsMore, Zenon
  <2>9. later = e.tree
    <3>1. batch[i] \in ToolCalls /\ i \in Texts
      BY <2>1, CallsAre
    <3>2. /\ e.tree \in Trees
          /\ \A p \in Paths : e.tree[p] = before[p] \/ p \in Touches(batch[i])
      BY <2>3, <3>1, EffectIs, ZenonT(60)
    <3> HIDE DEF e
    <3>3. ASSUME NEW p \in Paths PROVE later[p] = e.tree[p]
      <4>1. later[p] = IF p \in Touches(batch[i]) THEN e.tree[p] ELSE before[p]
        OBVIOUS
      <4> QED BY <3>2, <4>1
    <3> HIDE DEF later
    <3>4. later \in [Paths -> Texts]
      BY <2>8 DEF HoldsEach, Trees
    <3> QED BY <3>2, <3>3, <3>4 DEF Trees
  <2> HIDE DEF later, e
  <2>10. Good(i)
    BY <2>1, <2>5, <2>8, <2>9 DEF Good
  <2> QED BY <2>1, <2>10 DEF i
<1> HIDE DEF T
<1>4. \A n \in 0..N : n \in T
  BY <1>1, <1>2, <1>3, UpTo, Zenon
<1>5. N \in 0..N /\ \A i \in Calls : i \in 0..N /\ i > 0
  BY <1>1
<1> QED BY <1>1, <1>4, <1>5 DEF T

-----------------------------------------------------------------------------
(* The steps *)

StillTold(calls, at, results, later, told) ==
  \A j \in DOMAIN calls : at[j] = "done" => later[j] = at[j] /\ told[j] = results[j]
LEMMA ReportedStays ==
  ASSUME NEW at, NEW results, NEW tree, NEW calls, IsReported(at, results, tree, calls),
         NEW later, NEW told, StillTold(calls, at, results, later, told)
  PROVE  IsReported(later, told, tree, calls)
BY DEF IsReported, Reported, StillTold

LEMMA OpenKeeps ==
  ASSUME BatchAssumption, BatchInv, NEW i \in Calls, Open(i)
  PROVE  BatchInv'
<1>1. /\ callAt[i] = "todo" /\ ~Waits(batch[i])
      /\ ~together => \A j \in 1..(i - 1) : callAt[j] = "done"
      /\ callAt' = [callAt EXCEPT ![i] = "open"] /\ seen' = [seen EXCEPT ![i] = files]
      /\ UNCHANGED request /\ files' = files /\ outcome' = outcome
  BY DEF Open, MayBegin
<1>2. /\ batch' = batch /\ together' = together /\ Calls' = Calls /\ InOrder' = InOrder
      /\ SearchesAndWrites' = SearchesAndWrites /\ BatchFits'
      /\ \A call : Waits(call)' = Waits(call)
      /\ \A k : Alone(k)' = Alone(k)
      /\ \A tree, done : HoldsEach(tree, done)' = HoldsEach(tree, done)
      /\ \A tree, k : FindsFresh(tree, k)' = FindsFresh(tree, k)
  BY <1>1, SameRequest DEF BatchInv
<1>3. /\ files \in Trees /\ seen \in [Calls -> Trees]
      /\ callAt \in [Calls -> {"todo", "open", "done"}]
      /\ outcome = [k \in Calls |-> outcome[k]] /\ BatchFits
  BY DEF BatchInv
<1>4. /\ callAt' \in [Calls -> {"todo", "open", "done"}] /\ seen' \in [Calls -> Trees]
      /\ \A k \in Calls : callAt'[k] = IF k = i THEN "open" ELSE callAt[k]
      /\ \A k \in Calls : seen'[k] = IF k = i THEN files ELSE seen[k]
  BY <1>1, <1>3
<1>5. Done' = Done
  BY <1>1, <1>2, <1>4 DEF Done
<1>6. AllReported'
  <2>1. StillTold(batch, callAt, outcome, callAt', outcome')
    BY <1>1, <1>4 DEF Calls, StillTold
  <2>2. IsReported(callAt', outcome', files, batch)
    BY <2>1, ReportedStays DEF BatchInv, AllReported
  <2>3. ASSUME NEW k \in Calls, callAt'[k] = "open" PROVE IsReported(callAt', outcome', seen'[k], batch)
    <3>1. CASE k = i
      BY <1>4, <2>2, <3>1
    <3>2. CASE k # i
      <4>1. seen'[k] = seen[k] /\ IsReported(callAt, outcome, seen[k], batch)
        BY <1>4, <2>3, <3>2 DEF BatchInv, AllReported
      <4>2. IsReported(callAt', outcome', seen[k], batch)
        BY <2>1, <4>1, ReportedStays
      <4> QED BY <4>1, <4>2
    <3> QED BY <3>1, <3>2
  <2> QED BY <1>1, <1>2, <2>2, <2>3 DEF AllReported
<1>7. ASSUME ~together' PROVE \E m \in 0..Len(batch') : InOrderSoFar(m)'
  <2>1. PICK m \in 0..Len(batch) : InOrderSoFar(m)
    BY <1>2, <1>7 DEF BatchInv
  <2>2. Len(batch) \in Nat /\ Calls = 1..Len(batch)
    BY <1>3, CallsAre
  <2>3. i = m + 1
    <3>1. ~(i <= m) /\ (i > m + 1 => callAt[m + 1] = "done" /\ m + 1 \in Calls)
      BY <1>1, <1>2, <1>7, <2>1, <2>2 DEF InOrderSoFar, DoneUpTo
    <3> QED BY <2>1, <2>2, <3>1 DEF InOrderSoFar, DoneUpTo
  <2>4. DoneUpTo(m)'
    BY <1>2, <1>4, <2>1, <2>2, <2>3 DEF InOrderSoFar, DoneUpTo
  <2>5. \A k \in Calls : callAt'[k] = "open" => seen'[k] = files /\ ~Waits(batch[k])
    BY <1>1, <1>4, <2>1 DEF InOrderSoFar
  <2>6. InOrderSoFar(m)'
    BY <1>1, <1>2, <2>1, <2>4, <2>5 DEF InOrderSoFar
  <2> QED BY <1>2, <2>6
<1>8. ASSUME together', ~SearchesAndWrites' PROVE AtOnce'
  <2>1. together /\ ~SearchesAndWrites /\ AtOnce
    BY <1>2, <1>8 DEF BatchInv
  <2>2. HoldsEach(files, Done)'
    BY <1>1, <1>2, <1>5, <2>1 DEF AtOnce
  <2>3. ASSUME NEW k \in Calls, callAt'[k] = "open" PROVE FindsFresh(seen'[k], k)
    <3>1. CASE k = i
      <4>1. Done \in SUBSET Calls /\ i \in Calls \ Done
        BY <1>1 DEF Done
      <4>2. FindsFresh(files, i)
        BY <1>3, <2>1, <4>1, LooksFresh DEF AtOnce
      <4> QED BY <1>4, <3>1, <4>2
    <3>2. CASE k # i
      BY <1>4, <2>1, <2>3, <3>2 DEF AtOnce
    <3> QED BY <3>1, <3>2
  <2>4. \A k \in Done' : outcome'[k] = Alone(k)'.result
    BY <1>1, <1>2, <1>5, <2>1 DEF AtOnce
  <2>5. \A k \in Calls' : callAt'[k] = "open" => FindsFresh(seen[k], k)'
    BY <1>2, <2>3
  <2> QED BY <2>2, <2>4, <2>5 DEF AtOnce
<1> QED BY <1>1, <1>2, <1>3, <1>4, <1>6, <1>7, <1>8 DEF BatchInv

LEMMA FinishCallKeeps ==
  ASSUME BatchAssumption, BatchInv, NEW i \in Calls, FinishCall(i)
  PROVE  BatchInv'
<1> DEFINE effect == Effect(i, batch[i], seen[i])
           later == [p \in Paths |-> IF p \in Touches(batch[i]) THEN effect.tree[p] ELSE files[p]]
           told == effect.result
<1>1. /\ callAt[i] = "open" /\ callAt' = [callAt EXCEPT ![i] = "done"]
      /\ UNCHANGED request /\ seen' = seen
      /\ files' = later /\ outcome' = [outcome EXCEPT ![i] = told]
  BY DEF FinishCall
<1>2. /\ batch' = batch /\ together' = together /\ Calls' = Calls /\ InOrder' = InOrder
      /\ SearchesAndWrites' = SearchesAndWrites /\ BatchFits'
      /\ \A call : Waits(call)' = Waits(call)
      /\ \A k : Alone(k)' = Alone(k)
      /\ \A tree, done : HoldsEach(tree, done)' = HoldsEach(tree, done)
      /\ \A tree, k : FindsFresh(tree, k)' = FindsFresh(tree, k)
  BY <1>1, SameRequest DEF BatchInv
<1>3. /\ files \in Trees /\ seen \in [Calls -> Trees]
      /\ callAt \in [Calls -> {"todo", "open", "done"}]
      /\ outcome = [k \in Calls |-> outcome[k]] /\ BatchFits
  BY DEF BatchInv
<1>4. /\ i \in Texts /\ i # 0 /\ batch[i] \in ToolCalls /\ seen[i] \in Trees
  BY <1>3, CallsAre
<1>5. /\ effect.tree \in Trees
      /\ \A p \in Paths : \/ effect.tree[p] = seen[i][p]
                          \/ /\ effect.tree[p] = i /\ Tells(batch[i], told, p)
                             /\ p \in Touches(batch[i])
  BY <1>4, EffectIs
<1>6. /\ callAt' \in [Calls -> {"todo", "open", "done"}]
      /\ \A k \in Calls : callAt'[k] = IF k = i THEN "done" ELSE callAt[k]
      /\ \A k \in Calls : outcome'[k] = IF k = i THEN told ELSE outcome[k]
      /\ outcome' = [k \in Calls |-> outcome'[k]]
  <2> HIDE DEF told
  <2> QED BY <1>1, <1>3
<1> HIDE DEF effect, told
<1>7. later \in Trees /\ \A p \in Paths : later[p] = IF p \in Touches(batch[i]) THEN effect.tree[p] ELSE files[p]
  BY <1>3, <1>5 DEF Trees
<1>8. Done' = Done \cup {i} /\ i \notin Done
  BY <1>1, <1>2, <1>6 DEF Done
<1>9. AllReported'
  <2>1. StillTold(batch, callAt, outcome, callAt', outcome')
    BY <1>1, <1>6 DEF Calls, StillTold
  <2>2. IsReported(callAt', outcome', files, batch)
    BY <2>1, ReportedStays DEF BatchInv, AllReported
  <2>3. ASSUME NEW k \in Calls, callAt[k] = "open" PROVE IsReported(callAt', outcome', seen[k], batch)
    <3>1. IsReported(callAt, outcome, seen[k], batch)
      BY <2>3 DEF BatchInv, AllReported
    <3> QED BY <2>1, <3>1, ReportedStays
  <2>4. ASSUME NEW p \in Paths, later[p] # 0 PROVE Reported(callAt', outcome', later[p], batch, p)
    <3>1. CASE later[p] = files[p]
      BY <2>2, <2>4, <3>1 DEF IsReported
    <3>2. CASE later[p] = seen[i][p]
      BY <1>1, <2>3, <2>4, <3>2 DEF IsReported
    <3>3. CASE later[p] = i /\ Tells(batch[i], told, p)
      BY <1>6, <3>3 DEF Reported, Calls
    <3> QED BY <1>5, <1>7, <3>1, <3>2, <3>3
  <2>5. IsReported(callAt', outcome', later, batch)
    BY <2>4 DEF IsReported
  <2> HIDE DEF later
  <2> QED BY <1>1, <1>2, <1>6, <2>3, <2>5 DEF AllReported
<1> HIDE DEF later
<1>10. ASSUME ~together' PROVE \E m \in 0..Len(batch') : InOrderSoFar(m)'
  <2>1. PICK m \in 0..Len(batch) : InOrderSoFar(m)
    BY <1>2, <1>10 DEF BatchInv
  <2>2. Len(batch) \in Nat /\ Calls = 1..Len(batch)
    BY <1>3, CallsAre
  <2>3. i = m + 1 /\ m < Len(batch) /\ m + 1 \in 0..Len(batch)
    BY <1>1, <2>1, <2>2 DEF InOrderSoFar, DoneUpTo
  <2>4. DoneUpTo(m + 1)'
    BY <1>2, <1>6, <2>1, <2>2, <2>3 DEF InOrderSoFar, DoneUpTo
  <2>5. /\ seen[i] = files /\ ~Waits(batch[i]) /\ ~InOrder[m].waits /\ files = InOrder[m].tree
        /\ \A k \in 1..m : outcome[k] = InOrder[k].result
    BY <1>1, <2>1, <2>3 DEF InOrderSoFar
  <2>6. later = effect.tree
    <3>1. ASSUME NEW p \in Paths PROVE later[p] = effect.tree[p]
      <4>1. CASE p \in Touches(batch[i])
        BY <1>7, <4>1
      <4>2. CASE p \notin Touches(batch[i])
        <5>1. later[p] = files[p] /\ effect.tree[p] = seen[i][p]
          BY <1>5, <1>7, <4>2
        <5> QED BY <2>5, <5>1
      <4> QED BY <4>1, <4>2
    <3> QED BY <1>5, <1>7, <3>1 DEF Trees
  <2>7. /\ InOrder[m + 1].tree = later /\ InOrder[m + 1].result = told /\ ~InOrder[m + 1].waits
    <3>1. InOrder[i] = RunsNext(InOrder[i - 1], i)
      BY <1>3, OrderIs
    <3>2. i - 1 = m
      BY <2>1, <2>2, <2>3
    <3> QED BY <2>3, <2>5, <2>6, <3>1, <3>2 DEF RunsNext, effect, told
  <2>8. \A k \in 1..(m + 1) : outcome'[k] = InOrder[k].result
    BY <1>6, <2>1, <2>2, <2>3, <2>5, <2>7
  <2>9. \A k \in Calls : callAt'[k] # "open"
    BY <1>6, <2>1, <2>2, <2>3 DEF InOrderSoFar, DoneUpTo
  <2>10. InOrderSoFar(m + 1)'
    BY <1>1, <1>2, <2>4, <2>7, <2>8, <2>9 DEF InOrderSoFar
  <2> QED BY <1>2, <2>3, <2>10
<1>11. ASSUME together', ~SearchesAndWrites' PROVE AtOnce'
  <2>1. together /\ ~SearchesAndWrites /\ AtOnce
    BY <1>2, <1>11 DEF BatchInv
  <2>2. told = Alone(i).result /\ HoldsEach(later, Done \cup {i})
    <3>1. Done \in SUBSET Calls /\ i \in Calls \ Done
      BY <1>8 DEF Done
    <3>2. FindsFresh(seen[i], i) /\ HoldsEach(files, Done)
      BY <1>1, <2>1 DEF AtOnce
    <3>3. /\ Effect(i, batch[i], seen[i]).result = Alone(i).result
          /\ HoldsEach([p \in Paths |-> IF p \in Touches(batch[i]) THEN Effect(i, batch[i], seen[i]).tree[p]
                                    ELSE files[p]], Done \cup {i})
      BY <1>3, <1>4, <2>1, <3>1, <3>2, HoldsMore, Zenon
    <3> QED BY <3>3 DEF later, effect, told
  <2>3. HoldsEach(files, Done)'
    BY <1>1, <1>2, <1>8, <2>2
  <2>4. \A k \in Calls' : callAt'[k] = "open" => FindsFresh(seen[k], k)'
    BY <1>1, <1>2, <1>6, <2>1 DEF AtOnce
  <2>5. \A k \in Done' : outcome'[k] = Alone(k)'.result
    <3>1. ASSUME NEW k \in Done \cup {i} PROVE outcome'[k] = Alone(k).result
      <4>1. k \in Calls /\ (k # i => k \in Done)
        BY DEF Done
      <4> QED BY <1>6, <2>1, <2>2, <4>1 DEF AtOnce
    <3> QED BY <1>2, <1>8, <3>1
  <2> QED BY <2>3, <2>4, <2>5 DEF AtOnce
<1> QED BY <1>1, <1>2, <1>3, <1>6, <1>7, <1>9, <1>10, <1>11 DEF BatchInv

LEMMA DeferKeeps ==
  ASSUME BatchAssumption, BatchInv, NEW i \in Calls, Defer(i)
  PROVE  BatchInv'
<1> DEFINE at == [j \in Calls |-> IF j >= i THEN "done" ELSE callAt[j]]
           told == [j \in Calls |-> IF j = i THEN Says("pending")
                                    ELSE IF j > i THEN Says("deferred") ELSE outcome[j]]
<1>1. /\ callAt[i] = "todo" /\ Waits(batch[i])
      /\ together \/ \A j \in 1..(i - 1) : callAt[j] = "done"
      /\ callAt' = at /\ outcome' = told
      /\ UNCHANGED request /\ seen' = seen /\ files' = files
  BY DEF Defer, MayBegin
<1>2. /\ batch' = batch /\ together' = together /\ Calls' = Calls /\ InOrder' = InOrder
      /\ SearchesAndWrites' = SearchesAndWrites /\ BatchFits'
      /\ \A call : Waits(call)' = Waits(call)
  BY <1>1, SameRequest DEF BatchInv
<1>3. /\ files \in Trees /\ seen \in [Calls -> Trees]
      /\ callAt \in [Calls -> {"todo", "open", "done"}] /\ BatchFits
  BY DEF BatchInv
<1>4. ~together
  BY <1>1, <1>3, TogetherIs
<1>5. PICK m \in 0..Len(batch) : InOrderSoFar(m)
  BY <1>4 DEF BatchInv
<1>6. Len(batch) \in Nat /\ Calls = 1..Len(batch)
  BY <1>3, CallsAre
<1>7. i = m + 1 /\ m < Len(batch)
  <2>1. ~(i <= m) /\ (i > m + 1 => callAt[m + 1] = "done" /\ m + 1 \in Calls)
    BY <1>1, <1>4, <1>5, <1>6 DEF InOrderSoFar, DoneUpTo
  <2> QED BY <1>5, <1>6, <2>1 DEF InOrderSoFar, DoneUpTo
<1>8. /\ \A j \in Calls : at[j] = "done"
      /\ \A j \in 1..m : told[j] = outcome[j] /\ told[i] = Says("pending")
      /\ \A j \in Calls : j > i => told[j] = Says("deferred")
  BY <1>5, <1>6, <1>7 DEF InOrderSoFar, DoneUpTo
<1>9. /\ at \in [Calls -> {"todo", "open", "done"}] /\ told = [k \in Calls |-> told[k]]
  BY <1>3
<1>10. told[i] = Says("pending")
  BY <1>6, <1>7
<1> HIDE DEF at, told
<1>11. AllReported'
  <2>1. StillTold(batch, callAt, outcome, at, told)
    BY <1>5, <1>6, <1>8 DEF InOrderSoFar, DoneUpTo, Calls, StillTold
  <2>2. IsReported(at, told, files, batch)
    BY <2>1, ReportedStays DEF BatchInv, AllReported
  <2> QED BY <1>1, <1>2, <1>8, <2>2 DEF AllReported
<1>12. InOrderSoFar(Len(batch))'
  <2>1. InOrder[i] = RunsNext(InOrder[m], i)
    <3>1. InOrder[i] = RunsNext(InOrder[i - 1], i)
      BY <1>3, OrderIs
    <3>2. i - 1 = m
      BY <1>5, <1>6, <1>7
    <3> QED BY <3>1, <3>2
  <2>2. /\ InOrder[i].tree = InOrder[m].tree /\ InOrder[i].result = Says("pending")
        /\ InOrder[i].waits
    BY <1>1, <1>5, <1>7, <2>1 DEF InOrderSoFar, RunsNext
  <2>3. \A j \in i..Len(batch) : /\ InOrder[j].waits /\ InOrder[j].tree = InOrder[i].tree
                                 /\ j > i => InOrder[j].result = Says("deferred")
    BY <1>3, <2>2, OrderStays
  <2>4. Len(batch) \in i..Len(batch) /\ \A j \in Calls : j \in i..Len(batch) \/ j \in 1..m
    BY <1>5, <1>6, <1>7
  <2>5. \A j \in 1..Len(batch) : told[j] = InOrder[j].result
    <3>1. ASSUME NEW j \in Calls PROVE told[j] = InOrder[j].result
      <4>1. CASE j \in 1..m
        BY <1>5, <1>8, <4>1 DEF InOrderSoFar
      <4>2. CASE j = i
        BY <1>10, <2>2, <4>2
      <4>3. CASE j > i
        <5>1. j \in i..Len(batch)
          BY <1>5, <1>6, <1>7, <4>3
        <5> QED BY <1>8, <2>3, <4>3, <5>1
      <4> QED BY <1>5, <1>6, <1>7, <4>1, <4>2, <4>3
    <3> QED BY <1>6, <3>1
  <2>6. files = InOrder[Len(batch)].tree
    BY <1>5, <2>2, <2>3, <2>4 DEF InOrderSoFar
  <2>7. DoneUpTo(Len(batch))'
    BY <1>1, <1>2, <1>6, <1>8 DEF DoneUpTo
  <2>8. \A j \in Calls : at[j] # "open"
    BY <1>8
  <2> QED BY <1>1, <1>2, <1>6, <2>5, <2>6, <2>7, <2>8 DEF InOrderSoFar
<1>13. \E k \in 0..Len(batch') : InOrderSoFar(k)'
  <2>1. Len(batch) \in 0..Len(batch)
    BY <1>6
  <2> QED BY <1>2, <1>12, <2>1
<1> QED BY <1>1, <1>2, <1>3, <1>4, <1>9, <1>11, <1>13 DEF BatchInv

LEMMA BatchStarts ==
  ASSUME BatchAssumption, BatchInit
  PROVE  BatchInv
<1>1. /\ together = (ShouldRunConcurrently(batch) /\ CanExecuteConcurrently(batch, asking))
      /\ files = [p \in Paths |-> 0] /\ callAt = [i \in Calls |-> "todo"]
      /\ seen = [i \in Calls |-> [p \in Paths |-> 0]] /\ outcome = [i \in Calls |-> Says("none")]
  BY DEF BatchInit
<1>2. BatchFits
  <2>1. PICK n \in 1..MaxCalls : batch \in [1..n -> ToolCalls]
    BY DEF BatchInit
  <2>2. n \in Nat
    BY DEF BatchAssumption
  <2>3. batch \in Seq(ToolCalls) /\ Len(batch) = n
    BY <2>1, <2>2
  <2> QED BY <1>1, <2>1, <2>3 DEF BatchFits
<1>3. Len(batch) \in Nat /\ Calls = 1..Len(batch) /\ NoTexts \in Trees
  BY <1>2, CallsAre
<1>4. files = NoTexts /\ seen = [i \in Calls |-> NoTexts]
  BY <1>1 DEF NoTexts
<1>5. /\ files \in Trees /\ seen \in [Calls -> Trees]
      /\ callAt \in [Calls -> {"todo", "open", "done"}]
      /\ outcome = [i \in Calls |-> outcome[i]] /\ \A i \in Calls : callAt[i] = "todo"
  BY <1>1, <1>3, <1>4
<1>6. AllReported
  BY <1>4, <1>5 DEF AllReported, IsReported, NoTexts
<1>7. InOrderSoFar(0)
  <2>1. InOrder[0] = [tree |-> NoTexts, result |-> Says("none"), waits |-> FALSE]
    BY <1>2, OrderIs
  <2>2. DoneUpTo(0)
    BY <1>3, <1>5 DEF DoneUpTo
  <2> QED BY <1>3, <1>4, <1>5, <2>1, <2>2 DEF InOrderSoFar
<1>8. AtOnce
  <2>1. Done = {}
    BY <1>5 DEF Done
  <2> QED BY <1>3, <1>4, <1>5, <2>1 DEF AtOnce, HoldsEach, NoTexts
<1>9. 0 \in 0..Len(batch)
  BY <1>3
<1> QED BY <1>2, <1>5, <1>6, <1>7, <1>8, <1>9 DEF BatchInv

LEMMA BatchNextKeeps ==
  ASSUME BatchAssumption, BatchInv, [BatchNext]_batchVars
  PROVE  BatchInv'
<1>1. ASSUME NEW i \in Calls, Open(i) PROVE BatchInv'
  BY <1>1, OpenKeeps
<1>2. ASSUME NEW i \in Calls, FinishCall(i) PROVE BatchInv'
  BY <1>2, FinishCallKeeps
<1>3. ASSUME NEW i \in Calls, Defer(i) PROVE BatchInv'
  BY <1>3, DeferKeeps
<1>4. CASE UNCHANGED batchVars
  <2>1. UNCHANGED request /\ UNCHANGED <<files, callAt, seen, outcome>>
    BY <1>4 DEF batchVars, request
  <2>2. /\ batch' = batch /\ together' = together /\ Calls' = Calls /\ InOrder' = InOrder
        /\ SearchesAndWrites' = SearchesAndWrites /\ BatchFits'
        /\ \A call : Waits(call)' = Waits(call)
        /\ \A k : Alone(k)' = Alone(k)
        /\ \A tree, done : HoldsEach(tree, done)' = HoldsEach(tree, done)
        /\ \A tree, k : FindsFresh(tree, k)' = FindsFresh(tree, k)
    BY <2>1, SameRequest DEF BatchInv
  <2>3. AllReported'
    BY <2>1, <2>2 DEF BatchInv, AllReported
  <2>4. ASSUME NEW m, InOrderSoFar(m) PROVE InOrderSoFar(m)'
    BY <2>1, <2>2, <2>4 DEF InOrderSoFar, DoneUpTo
  <2>5. AtOnce => AtOnce'
    <3>1. Done' = Done
      BY <2>1, <2>2 DEF Done
    <3> QED BY <2>1, <2>2, <3>1 DEF AtOnce
  <2> QED BY <2>1, <2>2, <2>3, <2>4, <2>5 DEF BatchInv
<1> QED BY <1>1, <1>2, <1>3, <1>4, Zenon DEF BatchNext

\* The calls of a response leave the files and the results that they would have left one
\* after the other, unless a search is among them beside a write; and whatever is in a file
\* the result of its call tells, unless it is code_executor and one of its steps raised: for
\* any files and any programs of code_executor, in whatever order the threads go on.
THEOREM BatchesRunInOrder == BatchSpec => [](BatchRunsInOrder /\ WritesAreReported)
<1>1. BatchInit => BatchInv
  BY BatchAssumption, BatchStarts
<1>2. BatchInv /\ [BatchNext]_batchVars => BatchInv'
  BY BatchAssumption, BatchNextKeeps
<1>3. BatchInv => BatchRunsInOrder
  <2> SUFFICES ASSUME BatchInv, Settled, ~SearchesAndWrites
               PROVE  outcome = [i \in Calls |-> InOrder[i].result] /\ files = InOrder[Len(batch)].tree
    BY DEF BatchRunsInOrder
  <2>1. BatchFits /\ outcome = [i \in Calls |-> outcome[i]] /\ \A i \in Calls : callAt[i] = "done"
    BY DEF BatchInv, Settled
  <2>2. Len(batch) \in Nat /\ Calls = 1..Len(batch) /\ Len(batch) \in 1..MaxCalls
    BY <2>1, BatchAssumption, CallsAre DEF BatchFits
  <2>3. CASE ~together
    <3>1. PICK m \in 0..Len(batch) : InOrderSoFar(m)
      BY <2>3 DEF BatchInv
    <3>2. m = Len(batch)
      <4>1. Len(batch) \in Calls
        BY <2>2
      <4>2. Len(batch) <= m
        BY <2>1, <3>1, <4>1 DEF InOrderSoFar, DoneUpTo
      <4> QED BY <2>2, <4>2
    <3>3. \A i \in Calls : outcome[i] = InOrder[i].result
      BY <2>2, <3>1, <3>2 DEF InOrderSoFar
    <3>4. outcome = [i \in Calls |-> InOrder[i].result]
      BY <2>1, <3>3
    <3> QED BY <3>1, <3>2, <3>4 DEF InOrderSoFar
  <2>4. CASE together
    <3>1. AtOnce /\ Done = Calls
      BY <2>1, <2>4 DEF BatchInv, Done
    <3>2. /\ HoldsEach(InOrder[Len(batch)].tree, Calls)
          /\ \A i \in Calls : InOrder[i].result = Alone(i).result
      BY <2>1, <2>4, BatchAssumption, OrderHolds
    <3>3. files = InOrder[Len(batch)].tree
      BY <3>1, <3>2, HoldsIsOne DEF AtOnce
    <3>4. \A i \in Calls : outcome[i] = InOrder[i].result
      BY <3>1, <3>2 DEF AtOnce
    <3>5. outcome = [i \in Calls |-> InOrder[i].result]
      BY <2>1, <3>4
    <3> QED BY <3>3, <3>5
  <2> QED BY <2>3, <2>4
<1>4. BatchInv => WritesAreReported
  BY DEF BatchInv, AllReported, IsReported, Reported, Tells, WritesAreReported
<1> QED BY <1>1, <1>2, <1>3, <1>4, PTL DEF BatchSpec

-----------------------------------------------------------------------------
(* The todo list (TodoList) *)

\* Numbers that grow with their place, within as many places, are their places.
LEMMA GrowingIsIdentity ==
  ASSUME NEW n \in Nat, NEW p \in [1..n -> 1..n],
         \A i, j \in 1..n : i < j => p[i] < p[j]
  PROVE  \A i \in 1..n : p[i] = i
<1>1. \A i \in 1..n : p[i] >= i
  <2> DEFINE T == {i \in 0..n : i = 0 \/ p[i] >= i}
  <2>1. 0 \in T
    OBVIOUS
  <2>2. ASSUME NEW i \in 0..(n - 1), i \in T PROVE i + 1 \in T
    <3>1. CASE i = 0
      BY <3>1
    <3>2. CASE i # 0
      <4>1. i \in 1..n /\ i + 1 \in 1..n /\ i < i + 1
        BY <3>2
      <4>2. p[i] \in Int /\ p[i + 1] \in Int /\ p[i] < p[i + 1] /\ p[i] >= i
        BY <4>1, <2>2, <3>2
      <4> QED BY <4>1, <4>2
    <3> QED BY <3>1, <3>2
  <2>3. \A i \in 0..n : i \in T
    <3> HIDE DEF T
    <3> QED BY <2>1, <2>2, UpTo
  <2> QED BY <2>3
<1>2. \A i \in 1..n : p[i] <= i
  <2> DEFINE T == {i \in 0..n : i = n \/ p[n - i] <= n - i}
  <2>1. 0 \in T
    <3>1. CASE n = 0
      BY <3>1
    <3>2. CASE n # 0
      <4>1. n \in 1..n /\ n - 0 = n
        BY <3>2
      <4>2. p[n] \in 1..n
        BY <4>1
      <4> QED BY <4>1, <4>2
    <3> QED BY <3>1, <3>2
  <2>2. ASSUME NEW i \in 0..(n - 1), i \in T PROVE i + 1 \in T
    <3>1. CASE i + 1 = n
      BY <3>1
    <3>2. CASE i + 1 # n
      <4>1. n - i \in 1..n /\ n - (i + 1) \in 1..n /\ n - (i + 1) < n - i
        BY <3>2
      <4>2. p[n - i] \in Int /\ p[n - (i + 1)] \in Int /\ p[n - (i + 1)] < p[n - i]
        BY <4>1
      <4>3. p[n - i] <= n - i
        BY <2>2
      <4> QED BY <4>1, <4>2, <4>3
    <3> QED BY <3>1, <3>2
  <2>3. \A i \in 0..n : i \in T
    <3> HIDE DEF T
    <3> QED BY <2>1, <2>2, UpTo
  <2>4. ASSUME NEW i \in 1..n PROVE p[i] <= i
    <3>1. n - i \in 0..n /\ n - i # n /\ n - (n - i) = i
      OBVIOUS
    <3> QED BY <3>1, <2>3
  <2> QED BY <2>4
<1> QED BY <1>1, <1>2

\* Every item of the list has its place for its order.
InPlace(list, order) == \A k \in DOMAIN list : order[list[k]] = k - 1

\* As long as no reorder named an id twice: the list has the items it should have, each
\* once and by its order, and none of them is of an id still to be given.
TodoInv ==
  \/ doubled
  \/ /\ todos \in Seq(TodoIds) /\ IsInjective(todos) /\ Range(todos) = promised
     /\ todoOrder \in [TodoIds -> Nat] /\ InPlace(todos, todoOrder)
     /\ DOMAIN todoStatus = TodoIds /\ \A t \in promised : todoStatus[t] # "none"

\* A list by order is the list as it stands, when each item has its place for its order.
LEMMA ShownIsTodos ==
  ASSUME todos \in Seq(TodoIds), InPlace(todos, todoOrder)
  PROVE  ShownTodos = todos
<1> DEFINE n == Len(todos)
           Sorts(p) == \A i, j \in 1..n : i < j => ComesBefore(p[i], p[j])
<1>1. n \in Nat /\ DOMAIN todos = 1..n
  BY LenProperties
<1> HIDE DEF n
<1>2. \A i, j \in 1..n : ComesBefore(i, j) <=> i < j
  BY <1>1 DEF ComesBefore, InPlace
<1>3. [i \in 1..n |-> i] \in [1..n -> 1..n] /\ Sorts([i \in 1..n |-> i])
  BY <1>2
<1>4. PlacesByOrder \in [1..n -> 1..n] /\ Sorts(PlacesByOrder)
  <2>1. PlacesByOrder = CHOOSE p \in [1..n -> 1..n] : Sorts(p)
    BY <1>1, Zenon DEF PlacesByOrder
  <2>2. \E p \in [1..n -> 1..n] : Sorts(p)
    BY <1>3, Zenon
  <2> HIDE DEF Sorts
  <2> QED BY <2>1, <2>2, Zenon
<1>5. \A i, j \in 1..n : i < j => PlacesByOrder[i] < PlacesByOrder[j]
  BY <1>2, <1>4
<1>6. \A i \in 1..n : PlacesByOrder[i] = i
  BY <1>1, <1>4, <1>5, GrowingIsIdentity, Zenon
<1>7. ShownTodos = [i \in 1..n |-> todos[i]]
  BY <1>1, <1>6 DEF ShownTodos
<1>8. todos = [i \in 1..n |-> todos[i]]
  BY <1>1
<1> QED BY <1>7, <1>8, Zenon

LEMMA TodoInvIsEnough == TodoInv => TodosAreKept
<1> SUFFICES ASSUME TodoInv, ~doubled PROVE TodosAreKept
  BY DEF TodosAreKept
<1>1. ShownTodos = todos
  BY ShownIsTodos DEF TodoInv
<1>2. \A mark \in TodoStatuses : ShownWith(mark) = ByStatus(ShownTodos, mark)
  BY <1>1, Zenon DEF ShownWith
<1> QED BY <1>2 DEF TodoInv, TodosAreKept

\* In a list of different items an item stands in one place.
LEMMA PlacesOf ==
  ASSUME NEW list \in Seq(TodoIds), IsInjective(list), NEW k \in DOMAIN list
  PROVE  FirstPlace(list, list[k]) = k /\ LastPlace(list, list[k]) = k
<1>1. DOMAIN list = 1..Len(list) /\ Len(list) \in Nat
  BY LenProperties
<1>2. \A i \in DOMAIN list : list[i] = list[k] => i = k
  BY DEF IsInjective
<1> DEFINE A(i) == list[i] = list[k] /\ \A j \in DOMAIN list : list[j] = list[k] => i <= j
           B(i) == list[i] = list[k] /\ \A j \in DOMAIN list : list[j] = list[k] => j <= i
<1>3. A(k) /\ B(k)
  BY <1>1, <1>2
<1>4. \A i \in DOMAIN list : (A(i) => i = k) /\ (B(i) => i = k)
  BY <1>2
<1>5. FirstPlace(list, list[k]) = CHOOSE i \in DOMAIN list : A(i)
  BY Zenon DEF FirstPlace
<1>6. LastPlace(list, list[k]) = CHOOSE i \in DOMAIN list : B(i)
  BY Zenon DEF LastPlace
<1> HIDE DEF A, B
<1>7. (CHOOSE i \in DOMAIN list : A(i)) = k /\ (CHOOSE i \in DOMAIN list : B(i)) = k
  BY <1>3, <1>4, Zenon
<1> QED BY <1>5, <1>6, <1>7, Zenon

\* Numbering such a list gives every item its place for its order.
LEMMA NumberedInPlace ==
  ASSUME NEW list \in Seq(TodoIds), IsInjective(list)
  PROVE  Numbered(list) \in [TodoIds -> Nat] /\ InPlace(list, Numbered(list))
<1>1. DOMAIN list = 1..Len(list) /\ Len(list) \in Nat
  BY LenProperties
<1>2. ASSUME NEW k \in DOMAIN list
      PROVE  list[k] \in TodoIds /\ list[k] \in Range(list) /\ LastPlace(list, list[k]) = k
  BY <1>1, <1>2, PlacesOf, ElementOfSeq DEF Range
<1>3. \A k \in DOMAIN list : Numbered(list)[list[k]] = k - 1
  BY <1>2 DEF Numbered
<1>4. ASSUME NEW t \in TodoIds PROVE Numbered(list)[t] \in Nat
  <2>1. CASE t \in Range(list)
    <3>1. PICK k \in DOMAIN list : list[k] = t
      BY <2>1 DEF Range
    <3> QED BY <1>1, <1>3, <3>1
  <2>2. CASE t \notin Range(list)
    BY <2>2 DEF Numbered
  <2> QED BY <2>1, <2>2
<1>5. Numbered(list) = [t \in TodoIds |-> Numbered(list)[t]]
  BY DEF Numbered
<1> QED BY <1>3, <1>4, <1>5 DEF InPlace

LEMMA TodoAdd ==
  ASSUME TodoInv, ~doubled, AddTodo PROVE TodoInv'
<1>1. PICK t \in Fresh, mark \in TodoStatuses :
        /\ todos' = Append(todos, t) /\ promised' = promised \cup {t}
        /\ todoOrder' = [todoOrder EXCEPT ![t] = Len(todos)]
        /\ todoStatus' = [todoStatus EXCEPT ![t] = mark]
        /\ UNCHANGED doubled
  BY Zenon DEF AddTodo
<1> DEFINE n == Len(todos)
<1>2. n \in Nat /\ DOMAIN todos = 1..n /\ todos \in Seq(TodoIds)
  BY LenProperties DEF TodoInv
<1>3. t \in TodoIds /\ t \notin promised /\ mark # "none"
  BY DEF TodoInv, Fresh, TodoStatuses
<1>4. /\ todos' \in Seq(TodoIds) /\ Len(todos') = n + 1 /\ todos'[n + 1] = t
      /\ \A i \in 1..n : todos'[i] = todos[i]
  BY <1>1, <1>2, <1>3, AppendProperties
<1>5. DOMAIN todos' = 1..(n + 1)
  BY <1>2, <1>4, LenProperties
<1> HIDE DEF n
<1>6. \A i \in 1..n : todos[i] \in promised /\ todos[i] # t /\ todos[i] \in TodoIds
  BY <1>2, <1>3, ElementOfSeq DEF TodoInv, Range, n
<1>7. IsInjective(todos')
  BY <1>2, <1>4, <1>5, <1>6 DEF TodoInv, IsInjective
<1>8. Range(todos') = promised'
  <2>1. Range(todos) = promised
    BY DEF TodoInv
  <2>2. \A i \in 1..(n + 1) : i \in 1..n \/ i = n + 1
    BY <1>2
  <2>3. n + 1 \in 1..(n + 1) /\ \A i \in 1..n : i \in 1..(n + 1)
    BY <1>2
  <2> QED BY <1>1, <1>2, <1>4, <1>5, <2>1, <2>2, <2>3 DEF Range
<1>9. todoOrder' \in [TodoIds -> Nat]
  BY <1>1, <1>2 DEF TodoInv, n
<1>10. InPlace(todos', todoOrder')
  <2>1. todoOrder'[t] = n
    BY <1>1, <1>3 DEF TodoInv, n
  <2>2. \A i \in 1..n : todoOrder'[todos[i]] = i - 1
    BY <1>1, <1>2, <1>6 DEF TodoInv, InPlace
  <2>3. \A i \in 1..(n + 1) : i \in 1..n \/ i = n + 1
    BY <1>2
  <2>4. (n + 1) - 1 = n
    BY <1>2
  <2> QED BY <1>4, <1>5, <2>1, <2>2, <2>3, <2>4 DEF InPlace
<1>11. DOMAIN todoStatus' = TodoIds /\ \A u \in promised' : todoStatus'[u] # "none"
  BY <1>1, <1>3 DEF TodoInv
<1> QED BY <1>1, <1>4, <1>7, <1>8, <1>9, <1>10, <1>11 DEF TodoInv

LEMMA TodoUpdate ==
  ASSUME TodoInv, ~doubled, UpdateTodo PROVE TodoInv'
<1>1. DOMAIN todoStatus' = TodoIds /\ \A u \in promised : todoStatus'[u] # "none"
  BY DEF TodoInv, UpdateTodo, TodoStatuses
<1>2. UNCHANGED <<todos, todoOrder, promised, doubled>>
  BY DEF UpdateTodo
<1> QED BY <1>1, <1>2 DEF TodoInv

LEMMA TodoRemove ==
  ASSUME TodoInv, ~doubled, RemoveTodo PROVE TodoInv'
<1> DEFINE n == Len(todos)
<1>1. n \in Nat /\ DOMAIN todos = 1..n /\ todos \in Seq(TodoIds)
  BY LenProperties DEF TodoInv
<1>2. PICK t \in Range(todos) :
        /\ todos' = RemoveAt(todos, FirstPlace(todos, t))
        /\ todoOrder' = Renumbered(RemoveAt(todos, FirstPlace(todos, t)))
        /\ promised' = promised \ {t}
        /\ todoStatus' = Forgotten(RemoveAt(todos, FirstPlace(todos, t))) /\ UNCHANGED doubled
  BY Zenon DEF RemoveTodo
<1>3. PICK k \in 1..n : todos[k] = t
  BY <1>1 DEF Range
<1>4. FirstPlace(todos, t) = k
  BY <1>1, <1>3, PlacesOf DEF TodoInv
<1>5. \A i \in 1..n : todos[i] \in TodoIds
  BY <1>1, ElementOfSeq DEF n
<1> HIDE DEF n
<1>6. /\ todos' \in Seq(TodoIds) /\ Len(todos') = n - 1
      /\ \A i \in 1..(n - 1) : todos'[i] = IF i < k THEN todos[i] ELSE todos[i + 1]
  <2> DEFINE l == SubSeq(todos, 1, k - 1)
             r == SubSeq(todos, k + 1, n)
  <2>1. l \in Seq(TodoIds) /\ Len(l) = k - 1 /\ \A i \in 1..(k - 1) : l[i] = todos[i]
    <3>1. 1 \in Int /\ k - 1 \in Int /\ \A i \in 1..(k - 1) : todos[i] \in TodoIds
      BY <1>1, <1>5
    <3>2. /\ l \in Seq(TodoIds) /\ Len(l) = IF 1 <= k - 1 THEN (k - 1) - 1 + 1 ELSE 0
          /\ \A i \in 1..((k - 1) - 1 + 1) : l[i] = todos[1 + i - 1]
      BY <3>1, SubSeqProperties
    <3> HIDE DEF l
    <3>3. (IF 1 <= k - 1 THEN (k - 1) - 1 + 1 ELSE 0) = k - 1 /\ (k - 1) - 1 + 1 = k - 1
          /\ \A i \in 1..(k - 1) : 1 + i - 1 = i
      BY <1>1
    <3> QED BY <3>2, <3>3
  <2>2. r \in Seq(TodoIds) /\ Len(r) = n - k /\ \A i \in 1..(n - k) : r[i] = todos[k + i]
    <3>1. n \in Int /\ k + 1 \in Int /\ \A i \in (k + 1)..n : todos[i] \in TodoIds
      BY <1>1, <1>5
    <3>2. /\ r \in Seq(TodoIds) /\ Len(r) = IF k + 1 <= n THEN n - (k + 1) + 1 ELSE 0
          /\ \A i \in 1..(n - (k + 1) + 1) : r[i] = todos[(k + 1) + i - 1]
      BY <3>1, SubSeqProperties
    <3> HIDE DEF r
    <3>3. (IF k + 1 <= n THEN n - (k + 1) + 1 ELSE 0) = n - k /\ n - (k + 1) + 1 = n - k
          /\ \A i \in 1..(n - k) : (k + 1) + i - 1 = k + i
      BY <1>1
    <3> QED BY <3>2, <3>3
  <2>3. todos' = l \o r
    BY <1>2, <1>4 DEF RemoveAt, n
  <2> HIDE DEF l, r
  <2>4. /\ l \o r \in Seq(TodoIds) /\ Len(l \o r) = Len(l) + Len(r)
        /\ \A i \in 1..(Len(l) + Len(r)) :
             (l \o r)[i] = IF i <= Len(l) THEN l[i] ELSE r[i - Len(l)]
    BY <2>1, <2>2, ConcatProperties
  <2>5. Len(l) + Len(r) = n - 1
    BY <1>1, <2>1, <2>2
  <2>6. ASSUME NEW i \in 1..(n - 1)
        PROVE  (l \o r)[i] = IF i < k THEN todos[i] ELSE todos[i + 1]
    <3>1. CASE i < k
      BY <1>1, <2>1, <2>4, <2>5, <3>1
    <3>2. CASE ~(i < k)
      <4>1. ~(i <= Len(l)) /\ i - Len(l) \in 1..(n - k) /\ k + (i - Len(l)) = i + 1
        BY <1>1, <2>1, <3>2
      <4>2. (l \o r)[i] = r[i - Len(l)]
        BY <2>4, <2>5, <4>1
      <4>3. r[i - Len(l)] = todos[k + (i - Len(l))]
        BY <2>2, <4>1
      <4> QED BY <3>2, <4>1, <4>2, <4>3
    <3> QED BY <3>1, <3>2
  <2> QED BY <2>3, <2>4, <2>5, <2>6
<1>7. DOMAIN todos' = 1..(n - 1)
  BY <1>6, LenProperties
<1> DEFINE old == [i \in 1..(n - 1) |-> IF i < k THEN i ELSE i + 1]
<1>8. \A i \in 1..(n - 1) : old[i] \in 1..n /\ old[i] # k /\ todos'[i] = todos[old[i]]
  BY <1>1, <1>6
<1>9. \A i, j \in 1..(n - 1) : old[i] = old[j] => i = j
  OBVIOUS
<1>10. ASSUME NEW m \in 1..n, m # k PROVE \E i \in 1..(n - 1) : old[i] = m
  <2>1. CASE m < k
    <3>1. m \in 1..(n - 1) /\ old[m] = m
      BY <1>1, <2>1
    <3> QED BY <3>1
  <2>2. CASE m > k
    <3>1. m - 1 \in 1..(n - 1) /\ old[m - 1] = m
      BY <1>1, <2>2
    <3> QED BY <3>1
  <2> QED BY <1>10, <2>1, <2>2
<1> HIDE DEF old
<1>11. IsInjective(todos')
  BY <1>1, <1>7, <1>8, <1>9 DEF TodoInv, IsInjective
<1>12. Range(todos') = promised'
  <2>1. Range(todos) = promised /\ \A i, j \in 1..n : todos[i] = todos[j] => i = j
    BY <1>1 DEF TodoInv, IsInjective
  <2>2. \A i \in 1..(n - 1) : todos'[i] \in promised \ {t}
    BY <1>1, <1>3, <1>8, <2>1 DEF Range
  <2>3. ASSUME NEW u \in promised \ {t} PROVE \E i \in 1..(n - 1) : todos'[i] = u
    <3>1. PICK m \in 1..n : todos[m] = u
      BY <1>1, <2>1 DEF Range
    <3>2. PICK i \in 1..(n - 1) : old[i] = m
      BY <1>3, <1>10, <3>1
    <3> QED BY <1>8, <3>1, <3>2
  <2> QED BY <1>2, <1>7, <2>2, <2>3 DEF Range
<1>13. todoOrder' \in [TodoIds -> Nat] /\ InPlace(todos', todoOrder')
  <2>1. todoOrder' = Numbered(todos')
    BY <1>2 DEF Renumbered
  <2>2. \A list \in Seq(TodoIds) : IsInjective(list) =>
          Numbered(list) \in [TodoIds -> Nat] /\ InPlace(list, Numbered(list))
    BY NumberedInPlace
  <2> QED BY <1>6, <1>11, <2>1, <2>2
<1>14. DOMAIN todoStatus' = TodoIds /\ \A u \in promised' : todoStatus'[u] # "none"
  <2>1. promised' \subseteq TodoIds /\ promised' \subseteq promised
    BY <1>1, <1>2, <1>5 DEF TodoInv, Range
  <2> QED BY <1>2, <2>1 DEF Forgotten, TodoInv
<1> QED BY <1>2, <1>6, <1>11, <1>12, <1>13, <1>14 DEF TodoInv

\* A list of as many items as before, of all of them, names none twice.
LEMMA ReorderedOnce ==
  ASSUME NEW n \in Nat, NEW old \in [1..n -> TodoIds], IsInjective(old),
         NEW new \in [1..n -> TodoIds], Range(new) = Range(old)
  PROVE  IsInjective(new)
<1>1. old \in Surjection(1..n, Range(old)) /\ old \in Injection(1..n, Range(old))
  BY DEF Surjection, Injection, Range
<1>2. new \in Surjection(1..n, Range(old))
  BY DEF Surjection, Range
<1>3. IsFiniteSet(1..n)
  BY FS_Interval
<1>4. Cardinality(1..n) = Cardinality(Range(old))
  BY <1>1, <1>3, FS_Surjection
<1>5. new \in Injection(1..n, Range(old))
  BY <1>2, <1>3, <1>4, FS_SurjSameCardinalityImpliesInj
<1> QED BY <1>5 DEF Injection

LEMMA TodoReorder ==
  ASSUME TodoInv, ~doubled, ReorderTodos PROVE TodoInv'
<1> SUFFICES ASSUME ~doubled' PROVE TodoInv'
  BY DEF TodoInv
<1>1. PICK n \in 1..Len(todos) : \E ids \in [1..n -> Range(todos)] :
        /\ MayReorder(ids) /\ todos' = ids /\ todoOrder' = Numbered(ids)
        /\ todoStatus' = Forgotten(ids)
        /\ doubled' = (doubled \/ (n = Len(todos) /\ Range(ids) # Range(todos)))
        /\ UNCHANGED promised
  BY Zenon DEF ReorderTodos
<1>2. PICK ids \in [1..n -> Range(todos)] :
        /\ MayReorder(ids) /\ todos' = ids /\ todoOrder' = Numbered(ids)
        /\ todoStatus' = Forgotten(ids)
        /\ doubled' = (doubled \/ (n = Len(todos) /\ Range(ids) # Range(todos)))
        /\ UNCHANGED promised
  BY <1>1, Zenon
<1>3. /\ todos \in Seq(TodoIds) /\ Len(todos) \in Nat /\ DOMAIN todos = 1..Len(todos)
      /\ Range(todos) = promised
  BY LenProperties DEF TodoInv
<1>4. Range(todos) \subseteq TodoIds
  BY <1>3, ElementOfSeq DEF Range
<1>5. ids \in Seq(TodoIds) /\ Len(ids) = n /\ n \in Nat
  BY <1>3, <1>4, IsASeq
<1>6. n = Len(todos)
  BY <1>2, <1>5 DEF MayReorder
<1>7. Range(ids) = Range(todos)
  BY <1>2, <1>6
<1>8. todos \in [1..n -> TodoIds] /\ ids \in [1..n -> TodoIds] /\ IsInjective(todos)
  BY <1>3, <1>4, <1>6, ElementOfSeq DEF TodoInv
<1>9. IsInjective(ids)
  BY <1>5, <1>7, <1>8, ReorderedOnce, Zenon
<1>10. Numbered(ids) \in [TodoIds -> Nat] /\ InPlace(ids, Numbered(ids))
  BY <1>5, <1>9, NumberedInPlace
<1>11. DOMAIN todoStatus' = TodoIds /\ \A u \in promised : todoStatus'[u] # "none"
  BY <1>2, <1>3, <1>4, <1>7 DEF Forgotten, TodoInv
<1> QED BY <1>2, <1>3, <1>5, <1>7, <1>9, <1>10, <1>11 DEF TodoInv

LEMMA TodoStep == TodoInv /\ [TodoNext]_todoVars => TodoInv'
<1> SUFFICES ASSUME TodoInv, [TodoNext]_todoVars PROVE TodoInv'
  OBVIOUS
<1>1. CASE doubled
  <2>1. doubled'
    BY <1>1 DEF TodoNext, AddTodo, UpdateTodo, RemoveTodo, ReorderTodos, todoVars
  <2> QED BY <2>1 DEF TodoInv
<1>2. CASE ~doubled
  <2>1. CASE UNCHANGED todoVars
    BY <2>1 DEF todoVars, TodoInv
  <2> QED
    BY <1>2, <2>1, TodoAdd, TodoUpdate, TodoRemove, TodoReorder DEF TodoNext
<1> QED BY <1>1, <1>2

\* What was added to the list is listed once until it is removed, in one order for the
\* list as a whole and by status, for any number of items.
THEOREM TodosStayOnTheList == TodoSpec => []TodosAreKept
<1>1. TodoInit => TodoInv
  <2> SUFFICES ASSUME TodoInit PROVE TodoInv
    OBVIOUS
  <2>1. todos = <<>> /\ todos \in Seq(TodoIds) /\ DOMAIN todos = {}
    BY EmptySeq DEF TodoInit
  <2>2. IsInjective(todos) /\ Range(todos) = {} /\ InPlace(todos, todoOrder)
    BY <2>1 DEF IsInjective, Range, InPlace
  <2> QED BY <2>1, <2>2 DEF TodoInit, TodoInv
<1> QED BY <1>1, TodoStep, TodoInvIsEnough, PTL DEF TodoSpec

-----------------------------------------------------------------------------
(* The transport (ModelTransport) *)

(* What is sent of the messages *)

Workings == [sent : Seq(SentMessages), pending : SUBSET CallIds]

LEMMA MessagesAre ==
  ASSUME NEW m \in SentMessages
  PROVE  /\ m.calls \in SUBSET CallIds /\ m.answers \in SUBSET CallIds
         /\ NotTool(m) => m.answers = {}
         /\ ~NotTool(m) => m.calls = {} /\ \E id \in CallIds : m.answers = {id}
  BY DEF SentMessages, NotTool

\* A message that makes fewer calls is one still.
LEMMA FewerCalls ==
  ASSUME NEW m \in SentMessages, NEW pending
  PROVE  [m EXCEPT !.calls = @ \ pending] \in SentMessages
<1>1. CASE m.role = "assistant"
  <2>1. m.calls \in SUBSET CallIds /\ m \in [role : {"assistant"}, calls : SUBSET CallIds, answers : {{}}]
    BY <1>1 DEF SentMessages
  <2>2. m.calls \ pending \in SUBSET CallIds
    BY <2>1
  <2>3. [m EXCEPT !.calls = @ \ pending]
          \in [role : {"assistant"}, calls : SUBSET CallIds, answers : {{}}]
    BY <2>1, <2>2
  <2> QED BY <2>3 DEF SentMessages
<1>2. CASE m.role # "assistant"
  <2>1. m.calls = {} /\ m.calls \ pending = {}
    BY <1>2 DEF SentMessages
  <2>2. [m EXCEPT !.calls = @ \ pending] = m
    BY <2>1 DEF SentMessages
  <2> QED BY <2>2
<1> QED BY <1>1, <1>2

\* The place of the last message that is no tool's.
LastSpoken(sent, k) ==
  k \in DOMAIN sent /\ NotTool(sent[k]) /\ \A o \in DOMAIN sent : NotTool(sent[o]) => o <= k

LEMMA DiscardedIs ==
  ASSUME NEW sent \in Seq(SentMessages), NEW pending
  PROVE  /\ Discarded(sent, pending) \in Seq(SentMessages)
         /\ pending = {} => Discarded(sent, pending) = sent
         /\ \A k : pending # {} /\ LastSpoken(sent, k) =>
              Discarded(sent, pending) = [sent EXCEPT ![k].calls = @ \ pending]
<1> DEFINE Latest(k) == NotTool(sent[k]) /\ \A o \in DOMAIN sent : NotTool(sent[o]) => o <= k
           last == CHOOSE k \in DOMAIN sent : Latest(k)
<1>1. Len(sent) \in Nat /\ DOMAIN sent = 1..Len(sent) /\ \A k \in DOMAIN sent : sent[k] \in SentMessages
  BY LenProperties, ElementOfSeq
<1>2. Discarded(sent, pending)
        = IF pending = {} THEN sent ELSE [sent EXCEPT ![last].calls = @ \ pending]
  BY Zenon DEF Discarded
<1>3. ASSUME NEW k, LastSpoken(sent, k) PROVE last = k
  <2>1. \A o \in DOMAIN sent : Latest(o) => o = k
    BY <1>1, <1>3 DEF LastSpoken
  <2>2. k \in DOMAIN sent /\ Latest(k)
    BY <1>3, Zenon DEF LastSpoken
  <2> HIDE DEF Latest
  <2> QED BY <2>1, <2>2, Zenon
<1> HIDE DEF last
<1>4. [sent EXCEPT ![last].calls = @ \ pending] \in Seq(SentMessages)
  <2>1. CASE last \in DOMAIN sent
    <3>1. [sent[last] EXCEPT !.calls = @ \ pending] \in SentMessages
      BY <1>1, <2>1, FewerCalls
    <3>2. [sent EXCEPT ![last].calls = @ \ pending]
            = [sent EXCEPT ![last] = [sent[last] EXCEPT !.calls = @ \ pending]]
      OBVIOUS
    <3> QED BY <1>1, <2>1, <3>1, <3>2, ExceptSeq
  <2>2. CASE last \notin DOMAIN sent
    <3>1. [sent EXCEPT ![last].calls = @ \ pending] = sent
      BY <1>1, <2>2
    <3> QED BY <3>1
  <2> QED BY <2>1, <2>2
<1> QED BY <1>2, <1>3, <1>4, Zenon

LEMMA SerializeIs ==
  ASSUME NEW work \in Workings, NEW m \in SentMessages
  PROVE  Serialize(work, m) \in Workings
<1>1. work.sent \in Seq(SentMessages) /\ work.pending \in SUBSET CallIds
  BY DEF Workings
<1>2. Discarded(work.sent, work.pending) \in Seq(SentMessages)
  BY <1>1, DiscardedIs
<1>3. /\ Append(work.sent, m) \in Seq(SentMessages)
      /\ Append(Discarded(work.sent, work.pending), m) \in Seq(SentMessages)
  BY <1>1, <1>2, AppendProperties
<1>4. m.calls \in SUBSET CallIds /\ work.pending \ m.answers \in SUBSET CallIds
  BY <1>1, MessagesAre
<1>5. Serialize(work, m) \in
        {[sent |-> Append(work.sent, m), pending |-> work.pending \ m.answers], work,
         [sent |-> Append(Discarded(work.sent, work.pending), m), pending |-> m.calls]}
  BY Zenon DEF Serialize
<1> QED BY <1>3, <1>4, <1>5, SMTT(30) DEF Workings

\* The work on so many of the messages.
WorkOn(messages) ==
  CHOOSE g : g = [n \in 0..Len(messages) |->
    IF n = 0 THEN [sent |-> <<>>, pending |-> {}] ELSE Serialize(g[n - 1], messages[n])]

LEMMA WorkIs ==
  ASSUME NEW messages \in Seq(SentMessages)
  PROVE  /\ Serialized(messages) = WorkOn(messages)[Len(messages)]
         /\ WorkOn(messages)[0] = [sent |-> <<>>, pending |-> {}]
         /\ \A i \in 1..Len(messages) :
              WorkOn(messages)[i] = Serialize(WorkOn(messages)[i - 1], messages[i])
<1> DEFINE N == Len(messages)
           first == [sent |-> <<>>, pending |-> {}]
           step == [w \in Workings |-> [m \in SentMessages |-> Serialize(w, m)]]
           Goes(f) == [n \in 0..N |-> IF n = 0 THEN first ELSE Serialize(f[n - 1], messages[n])]
<1>1. N \in Nat /\ \A i \in 1..N : messages[i] \in SentMessages
  BY LenProperties, ElementOfSeq
<1>2. first \in Workings
  BY DEF Workings
<1>3. step \in [Workings -> [SentMessages -> Workings]]
  BY SerializeIs
<1>4. \E f \in [0..N -> Workings] : IsFold(f, first, step, messages)
  <2> HIDE DEF step, first
  <2> QED BY <1>2, <1>3, FoldExists
<1>5. PICK f \in [0..N -> Workings] : f[0] = first /\ \A i \in 1..N : f[i] = step[f[i - 1]][messages[i]]
  BY <1>4 DEF IsFold
<1>6. \A i \in 1..N : i - 1 \in 0..N /\ f[i - 1] \in Workings
  <2> HIDE DEF N, first, step
  <2> QED BY <1>1
<1>7. \A i \in 1..N : f[i] = Serialize(f[i - 1], messages[i])
  BY <1>1, <1>5, <1>6
<1> HIDE DEF step
<1>8. f = Goes(f)
  <2> HIDE DEF first, N
  <2>1. \A n \in 0..N : f[n] = IF n = 0 THEN first ELSE Serialize(f[n - 1], messages[n])
    BY <1>1, <1>5, <1>7
  <2> QED BY <2>1
<1>9. /\ WorkOn(messages) = CHOOSE g : g = Goes(g)
      /\ Serialized(messages) = (CHOOSE g : g = Goes(g))[N]
  BY DEF WorkOn, Serialized
<1> DEFINE h == WorkOn(messages)
<1>10. h = Goes(h) /\ Serialized(messages) = h[N]
  <2> HIDE DEF Goes
  <2> QED BY <1>8, <1>9
<1> HIDE DEF h
<1>11. h[0] = first /\ \A i \in 1..N : h[i] = Serialize(h[i - 1], messages[i])
  <2> HIDE DEF N, first
  <2>1. 0 \in 0..N /\ \A i \in 1..N : i \in 0..N /\ i # 0
    BY <1>1
  <2>2. \A n \in 0..N : Goes(h)[n] = IF n = 0 THEN first ELSE Serialize(h[n - 1], messages[n])
    OBVIOUS
  <2> HIDE DEF Goes
  <2> QED BY <1>10, <2>1, <2>2
<1> QED BY <1>10, <1>11 DEF h

-----------------------------------------------------------------------------
(* Calls and their answers *)

AnswersIn(sent, k) == UNION {sent[n].answers : n \in AnswersTo(sent, k)}

\* A tool message answers a call of the message before it, as the only one.
IsAnswer(sent, k) ==
  \E o \in 1..k - 1 :
    /\ NotTool(sent[o]) /\ k \in AnswersTo(sent, o)
    /\ \A n \in AnswersTo(sent, o) \ {k} : sent[n].answers # sent[k].answers

\* What is sent so far is in order, but that the calls of the last message may wait.
StillOpen(work, k) == IF LastSpoken(work.sent, k) THEN work.pending ELSE {}
CallsFit(work, k) ==
  /\ work.sent[k].calls = AnswersIn(work.sent, k) \cup StillOpen(work, k)
  /\ AnswersIn(work.sent, k) \cap StillOpen(work, k) = {}
WorkIsSound(work) ==
  /\ work \in Workings
  /\ work.pending # {} => \E k : LastSpoken(work.sent, k)
  /\ \A k \in DOMAIN work.sent : NotTool(work.sent[k]) => CallsFit(work, k)
  /\ \A k \in DOMAIN work.sent : ~NotTool(work.sent[k]) => IsAnswer(work.sent, k)

\* It is what the first n messages make, each from its own.
KeepsAnswers(messages, sent, from, i, n) ==
  \A j \in AnswersTo(messages, i) : j <= n /\ messages[j].answers \subseteq messages[i].calls =>
    \E o \in DOMAIN sent :
      from[o] \in AnswersTo(messages, i) /\ sent[o].answers = messages[j].answers
ComesFrom(messages, sent, from) ==
  /\ \A k, o \in DOMAIN sent : k < o => from[k] < from[o]
  /\ \A k \in DOMAIN sent : /\ sent[k].role = messages[from[k]].role
                            /\ sent[k].answers = messages[from[k]].answers
                            /\ sent[k].calls \subseteq messages[from[k]].calls
WorkComesFrom(messages, n, work, from) ==
  /\ from \in [DOMAIN work.sent -> 1..n]
  /\ ComesFrom(messages, work.sent, from)
  /\ \A k : LastSpoken(work.sent, k) => work.sent[k].calls = messages[from[k]].calls
  /\ \A i \in 1..n : NotTool(messages[i]) =>
       /\ \E k \in DOMAIN work.sent : from[k] = i
       /\ KeepsAnswers(messages, work.sent, from, i, n)

\* Two sequences of the same roles and answers.
Alike(s, t) ==
  /\ DOMAIN s = DOMAIN t
  /\ \A k \in DOMAIN s : s[k].role = t[k].role /\ s[k].answers = t[k].answers

LEMMA AlikeAnswers ==
  ASSUME NEW s \in Seq(SentMessages), NEW t \in Seq(SentMessages), Alike(s, t)
  PROVE  /\ \A k \in DOMAIN s : NotTool(s[k]) <=> NotTool(t[k])
         /\ \A k \in DOMAIN s : AnswersTo(s, k) = AnswersTo(t, k)
         /\ \A k \in DOMAIN s : AnswersIn(s, k) = AnswersIn(t, k)
         /\ \A k \in DOMAIN s : IsAnswer(s, k) => IsAnswer(t, k)
<1>0. Len(s) \in Nat /\ DOMAIN s = 1..Len(s) /\ DOMAIN t = 1..Len(s)
  BY LenProperties DEF Alike
<1>1. \A k \in DOMAIN s : NotTool(s[k]) <=> NotTool(t[k])
  BY DEF Alike, NotTool
<1>2. \A k \in DOMAIN s, n \in DOMAIN s : \A o \in k + 1..n : o \in DOMAIN s
  BY <1>0
<1>3. \A k \in DOMAIN s : AnswersTo(s, k) = AnswersTo(t, k)
  BY <1>0, <1>1, <1>2 DEF AnswersTo
<1>4. \A k \in DOMAIN s : \A n \in AnswersTo(s, k) : s[n].answers = t[n].answers
  BY DEF AnswersTo, Alike
<1>5. \A k \in DOMAIN s : AnswersIn(s, k) = AnswersIn(t, k)
  BY <1>3, <1>4 DEF AnswersIn
<1>6. ASSUME NEW k \in DOMAIN s, IsAnswer(s, k) PROVE IsAnswer(t, k)
  <2>1. PICK o \in 1..k - 1 :
          /\ NotTool(s[o]) /\ k \in AnswersTo(s, o)
          /\ \A n \in AnswersTo(s, o) \ {k} : s[n].answers # s[k].answers
    BY <1>6 DEF IsAnswer
  <2>2. o \in DOMAIN s
    BY <1>0
  <2>3. NotTool(t[o]) /\ k \in AnswersTo(t, o)
    BY <1>1, <1>3, <2>1, <2>2
  <2>4. \A n \in AnswersTo(t, o) \ {k} : t[n].answers # t[k].answers
    BY <1>3, <1>4, <2>1, <2>2
  <2> QED BY <2>3, <2>4 DEF IsAnswer
<1> QED BY <1>1, <1>3, <1>5, <1>6

\* One more message answers the last one that is no tool's, if it is a tool's.
LEMMA AppendAnswers ==
  ASSUME NEW s \in Seq(SentMessages), NEW m \in SentMessages
  PROVE  LET t == Append(s, m) IN
         /\ \A k \in DOMAIN s : AnswersTo(t, k) = AnswersTo(s, k) \cup
              (IF ~NotTool(m) /\ \A o \in k + 1..Len(s) : ~NotTool(s[o])
               THEN {Len(s) + 1} ELSE {})
         /\ AnswersTo(t, Len(s) + 1) = {}
<1> DEFINE t == Append(s, m)
           N == Len(s)
<1>1. /\ N \in Nat /\ DOMAIN s = 1..N /\ t \in Seq(SentMessages) /\ Len(t) = N + 1
      /\ \A k \in 1..N : t[k] = s[k]
      /\ t[N + 1] = m
  BY LenProperties, AppendProperties
<1>2. DOMAIN t = 1..(N + 1)
  BY <1>1, LenProperties
<1> HIDE DEF N, t
<1>3. AnswersTo(t, N + 1) = {}
  BY <1>1, <1>2 DEF AnswersTo
<1>4. ASSUME NEW k \in 1..N
      PROVE  AnswersTo(t, k) = AnswersTo(s, k) \cup
               (IF ~NotTool(m) /\ \A o \in k + 1..N : ~NotTool(s[o]) THEN {N + 1} ELSE {})
  <2>1. ASSUME NEW n \in 1..N PROVE n \in AnswersTo(t, k) <=> n \in AnswersTo(s, k)
    <3>1. \A o \in k + 1..n : o \in 1..N
      BY <1>1
    <3> QED BY <1>1, <1>2, <3>1 DEF AnswersTo
  <2>2. N + 1 \in AnswersTo(t, k) <=> ~NotTool(m) /\ \A o \in k + 1..N : ~NotTool(s[o])
    <3>1. k + 1..(N + 1) = (k + 1..N) \cup {N + 1}
      BY <1>1
    <3>2. N + 1 \in 1..(N + 1) /\ N + 1 > k /\ \A o \in k + 1..N : t[o] = s[o]
      BY <1>1
    <3> QED BY <1>1, <1>2, <3>1, <3>2 DEF AnswersTo
  <2>3. \A n \in AnswersTo(t, k) : n \in 1..N \/ n = N + 1
    BY <1>1, <1>2 DEF AnswersTo
  <2>4. \A n \in AnswersTo(s, k) : n \in 1..N
    BY <1>1 DEF AnswersTo
  <2> QED BY <2>1, <2>2, <2>3, <2>4
<1> QED BY <1>1, <1>3, <1>4 DEF N, t

\* Once the calls that wait are taken out, each message has the calls that are answered.
LEMMA SettledIs ==
  ASSUME NEW work, WorkIsSound(work)
  PROVE  LET sent == Discarded(work.sent, work.pending) IN
         /\ sent \in Seq(SentMessages) /\ Alike(work.sent, sent)
         /\ \A k \in DOMAIN sent : NotTool(sent[k]) => sent[k].calls = AnswersIn(sent, k)
         /\ \A k \in DOMAIN sent : sent[k].calls \subseteq work.sent[k].calls
<1> DEFINE sent == Discarded(work.sent, work.pending)
<1>1. work.sent \in Seq(SentMessages) /\ work.pending \in SUBSET CallIds
  BY DEF WorkIsSound, Workings
<1>2. /\ sent \in Seq(SentMessages)
      /\ work.pending = {} => sent = work.sent
      /\ \A k : work.pending # {} /\ LastSpoken(work.sent, k) =>
           sent = [work.sent EXCEPT ![k].calls = @ \ work.pending]
  BY <1>1, DiscardedIs, Zenon
<1> HIDE DEF sent
<1>3. DOMAIN work.sent = 1..Len(work.sent) /\ \A k \in DOMAIN work.sent : work.sent[k] \in SentMessages
  BY <1>1, LenProperties, ElementOfSeq
<1>4. \A k \in DOMAIN work.sent : work.sent[k] = [work.sent[k] EXCEPT !.calls = @]
  BY <1>3 DEF SentMessages
<1>5. /\ Alike(work.sent, sent)
      /\ \A k \in DOMAIN sent : sent[k].calls = work.sent[k].calls \ StillOpen(work, k)
  <2>1. CASE work.pending = {}
    BY <1>2, <2>1 DEF Alike, StillOpen
  <2>2. CASE work.pending # {}
    <3>1. PICK last : LastSpoken(work.sent, last)
      BY <2>2 DEF WorkIsSound
    <3>2. sent = [work.sent EXCEPT ![last].calls = @ \ work.pending]
      BY <1>2, <2>2, <3>1
    <3>3. last \in DOMAIN work.sent
      BY <3>1 DEF LastSpoken
    <3>4. \A k \in DOMAIN work.sent : LastSpoken(work.sent, k) => k = last
      BY <1>3, <3>1 DEF LastSpoken
    <3>5. DOMAIN sent = DOMAIN work.sent /\ \A k \in DOMAIN sent : k # last => sent[k] = work.sent[k]
      BY <3>2
    <3>6. sent[last] = [work.sent[last] EXCEPT !.calls = @ \ work.pending]
      BY <3>2, <3>3
    <3>7. /\ sent[last].calls = work.sent[last].calls \ work.pending
          /\ sent[last].role = work.sent[last].role /\ sent[last].answers = work.sent[last].answers
      BY <1>3, <3>3, <3>6 DEF SentMessages
    <3>8. Alike(work.sent, sent)
      BY <3>5, <3>7 DEF Alike
    <3>9. \A k \in DOMAIN sent : k # last => StillOpen(work, k) = {}
      BY <3>4, <3>5 DEF StillOpen
    <3>10. StillOpen(work, last) = work.pending
      BY <3>1 DEF StillOpen
    <3> QED BY <3>5, <3>7, <3>8, <3>9, <3>10
  <2> QED BY <2>1, <2>2
<1>6. /\ \A k \in DOMAIN sent : NotTool(work.sent[k]) <=> NotTool(sent[k])
      /\ \A k \in DOMAIN sent : AnswersIn(work.sent, k) = AnswersIn(sent, k)
      /\ DOMAIN sent = DOMAIN work.sent
  BY <1>1, <1>2, <1>5, AlikeAnswers DEF Alike
<1>7. ASSUME NEW k \in DOMAIN sent, NotTool(sent[k]) PROVE sent[k].calls = AnswersIn(sent, k)
  <2>1. CallsFit(work, k)
    BY <1>6, <1>7 DEF WorkIsSound
  <2> QED BY <1>5, <1>6, <2>1 DEF CallsFit
<1> QED BY <1>2, <1>5, <1>7 DEF sent

-----------------------------------------------------------------------------
(* One more message *)

\* The message before which all others are made by the last that is no tool's.
LEMMA LastIs ==
  ASSUME NEW s \in Seq(SentMessages), NEW k \in DOMAIN s, NotTool(s[k])
  PROVE  LastSpoken(s, k) <=> \A o \in k + 1..Len(s) : ~NotTool(s[o])
<1>1. Len(s) \in Nat /\ DOMAIN s = 1..Len(s)
  BY LenProperties
<1>2. \A o \in DOMAIN s : o <= k \/ o \in k + 1..Len(s)
  BY <1>1
<1>3. \A o \in k + 1..Len(s) : o \in DOMAIN s /\ ~(o <= k)
  BY <1>1
<1> QED BY <1>2, <1>3 DEF LastSpoken

\* A tool message that answers a call that waits.
LEMMA AnswerIsSound ==
  ASSUME NEW work, WorkIsSound(work), NEW m \in SentMessages, ~NotTool(m),
         m.answers \subseteq work.pending
  PROVE  WorkIsSound([sent |-> Append(work.sent, m), pending |-> work.pending \ m.answers])
<1> DEFINE s == work.sent
           t == Append(work.sent, m)
           N == Len(work.sent)
           next == [sent |-> t, pending |-> work.pending \ m.answers]
<1>1. s \in Seq(SentMessages) /\ work.pending \in SUBSET CallIds
  BY DEF WorkIsSound, Workings
<1>2. /\ N \in Nat /\ DOMAIN s = 1..N /\ t \in Seq(SentMessages) /\ Len(t) = N + 1
      /\ \A k \in 1..N : t[k] = s[k]
      /\ t[N + 1] = m
  BY <1>1, LenProperties, AppendProperties
<1>3. DOMAIN t = 1..(N + 1)
  BY <1>2, LenProperties
<1>4. PICK id \in CallIds : m.answers = {id}
  BY MessagesAre
<1>5. /\ \A k \in DOMAIN s : AnswersTo(t, k) = AnswersTo(s, k) \cup
           (IF \A o \in k + 1..N : ~NotTool(s[o]) THEN {N + 1} ELSE {})
      /\ AnswersTo(t, N + 1) = {}
  BY <1>1, AppendAnswers
<1> HIDE DEF t, N
<1>6. \A k \in 1..N : NotTool(s[k]) =>
        AnswersTo(t, k) = AnswersTo(s, k) \cup (IF LastSpoken(s, k) THEN {N + 1} ELSE {})
  BY <1>1, <1>2, <1>5, LastIs DEF N
<1>7. \A k : LastSpoken(t, k) <=> LastSpoken(s, k)
  <2>1. \A k \in 1..(N + 1) : k \in 1..N \/ k = N + 1
    BY <1>2
  <2>2. \A k \in 1..N : k \in 1..(N + 1)
    BY <1>2
  <2> QED BY <1>2, <1>3, <2>1, <2>2 DEF LastSpoken
<1>8. \A k \in 1..N : \A n \in AnswersTo(s, k) : n \in 1..N /\ t[n].answers = s[n].answers
  BY <1>2 DEF AnswersTo
<1>9. PICK last : LastSpoken(s, last)
  BY <1>4 DEF WorkIsSound
<1>10. last \in 1..N /\ NotTool(s[last]) /\ CallsFit(work, last)
  BY <1>2, <1>9 DEF LastSpoken, WorkIsSound
<1>11. \A n \in AnswersTo(s, last) : s[n].answers # m.answers
  <2>1. AnswersIn(s, last) \cap work.pending = {}
    BY <1>9, <1>10 DEF CallsFit, StillOpen
  <2>2. \A n \in AnswersTo(s, last) : s[n].answers \subseteq AnswersIn(s, last)
    BY DEF AnswersIn
  <2> QED BY <1>4, <2>1, <2>2
<1>12. next \in Workings
  BY <1>1, <1>2 DEF Workings
<1>13. next.pending # {} => \E k : LastSpoken(next.sent, k)
  BY <1>7, <1>9
<1>14. ASSUME NEW k \in 1..(N + 1), NotTool(t[k]) PROVE CallsFit(next, k)
  <2>1. k \in 1..N /\ NotTool(s[k]) /\ t[k] = s[k]
    BY <1>2, <1>14
  <2>2. CallsFit(work, k)
    BY <1>2, <2>1 DEF WorkIsSound
  <2>3. CASE LastSpoken(s, k)
    <3>1. AnswersTo(t, k) = AnswersTo(s, k) \cup {N + 1}
      BY <1>6, <2>1, <2>3
    <3>2. AnswersIn(t, k) = AnswersIn(s, k) \cup m.answers
      BY <1>2, <1>8, <2>1, <3>1 DEF AnswersIn
    <3>3. StillOpen(next, k) = work.pending \ m.answers /\ StillOpen(work, k) = work.pending
      BY <1>7, <2>3 DEF StillOpen
    <3>4. /\ s[k].calls = AnswersIn(s, k) \cup work.pending
          /\ AnswersIn(s, k) \cap work.pending = {}
      BY <2>2, <3>3 DEF CallsFit
    <3>5. /\ t[k].calls = AnswersIn(t, k) \cup (work.pending \ m.answers)
          /\ AnswersIn(t, k) \cap (work.pending \ m.answers) = {}
      BY <2>1, <3>2, <3>4
    <3> QED BY <3>3, <3>5 DEF CallsFit
  <2>4. CASE ~LastSpoken(s, k)
    <3>1. AnswersTo(t, k) = AnswersTo(s, k)
      BY <1>6, <2>1, <2>4
    <3>2. AnswersIn(t, k) = AnswersIn(s, k)
      BY <1>8, <2>1, <3>1 DEF AnswersIn
    <3>3. StillOpen(next, k) = {} /\ StillOpen(work, k) = {}
      BY <1>7, <2>4 DEF StillOpen
    <3> QED BY <2>1, <2>2, <3>2, <3>3 DEF CallsFit
  <2> QED BY <2>3, <2>4
<1>15. ASSUME NEW k \in 1..(N + 1), ~NotTool(t[k]) PROVE IsAnswer(t, k)
  <2>1. CASE k = N + 1
    <3>1. last \in 1..k - 1 /\ NotTool(t[last])
      BY <1>2, <1>10, <2>1
    <3>2. AnswersTo(t, last) = AnswersTo(s, last) \cup {k}
      BY <1>6, <1>9, <1>10, <2>1
    <3>3. \A n \in AnswersTo(t, last) \ {k} : t[n].answers # t[k].answers
      BY <1>2, <1>8, <1>10, <1>11, <2>1, <3>2
    <3> QED BY <3>1, <3>2, <3>3 DEF IsAnswer
  <2>2. CASE k # N + 1
    <3>1. k \in 1..N /\ t[k] = s[k]
      BY <1>2, <2>2
    <3>2. PICK o \in 1..k - 1 :
            /\ NotTool(s[o]) /\ k \in AnswersTo(s, o)
            /\ \A n \in AnswersTo(s, o) \ {k} : s[n].answers # s[k].answers
      BY <1>2, <1>15, <3>1 DEF WorkIsSound, IsAnswer
    <3>3. o \in 1..N /\ t[o] = s[o]
      BY <1>2, <3>1
    <3>4. AnswersTo(t, o) = AnswersTo(s, o) \cup (IF LastSpoken(s, o) THEN {N + 1} ELSE {})
      BY <1>6, <3>2, <3>3
    <3>5. LastSpoken(s, o) => s[k].answers # m.answers
      <4>1. LastSpoken(s, o) => o = last
        BY <1>2, <1>9, <1>10, <3>3 DEF LastSpoken
      <4> QED BY <1>11, <3>2, <4>1
    <3>6. \A n \in AnswersTo(t, o) \ {k} : t[n].answers # t[k].answers
      BY <1>2, <1>8, <3>1, <3>2, <3>3, <3>4, <3>5
    <3> QED BY <3>2, <3>3, <3>4, <3>6 DEF IsAnswer
  <2> QED BY <2>1, <2>2
<1> HIDE DEF s
<1>16. WorkIsSound(next)
  BY <1>3, <1>12, <1>13, <1>14, <1>15 DEF WorkIsSound
<1> QED BY <1>16 DEF s, t

\* A message that is no tool's: no call before it waits any longer.
LEMMA SpeechIsSound ==
  ASSUME NEW work, WorkIsSound(work), NEW m \in SentMessages, NotTool(m)
  PROVE  WorkIsSound([sent |-> Append(Discarded(work.sent, work.pending), m),
                      pending |-> m.calls])
<1> DEFINE s == Discarded(work.sent, work.pending)
           t == Append(s, m)
           N == Len(s)
           next == [sent |-> t, pending |-> m.calls]
<1>1. work.sent \in Seq(SentMessages) /\ work.pending \in SUBSET CallIds
  BY DEF WorkIsSound, Workings
<1>2. /\ s \in Seq(SentMessages) /\ Alike(work.sent, s)
      /\ \A k \in DOMAIN s : NotTool(s[k]) => s[k].calls = AnswersIn(s, k)
  BY SettledIs
<1> HIDE DEF s
<1>3. \A k \in DOMAIN s : ~NotTool(s[k]) => IsAnswer(s, k)
  BY <1>1, <1>2, AlikeAnswers DEF Alike, WorkIsSound
<1>4. /\ N \in Nat /\ DOMAIN s = 1..N /\ t \in Seq(SentMessages) /\ Len(t) = N + 1
      /\ \A k \in 1..N : t[k] = s[k]
      /\ t[N + 1] = m
  BY <1>2, LenProperties, AppendProperties
<1>5. DOMAIN t = 1..(N + 1)
  BY <1>4, LenProperties
<1>6. /\ \A k \in 1..N : AnswersTo(t, k) = AnswersTo(s, k)
      /\ AnswersTo(t, N + 1) = {}
  <2>1. /\ \A k \in DOMAIN s : AnswersTo(Append(s, m), k) = AnswersTo(s, k) \cup
             (IF ~NotTool(m) /\ \A o \in k + 1..Len(s) : ~NotTool(s[o]) THEN {Len(s) + 1} ELSE {})
        /\ AnswersTo(Append(s, m), Len(s) + 1) = {}
    BY <1>2, AppendAnswers
  <2>2. \A k \in DOMAIN s : AnswersTo(Append(s, m), k) = AnswersTo(s, k)
    BY <2>1
  <2> QED BY <1>4, <2>1, <2>2
<1> HIDE DEF t, N
<1>7. \A k \in 1..N : \A n \in AnswersTo(s, k) : n \in 1..N /\ t[n].answers = s[n].answers
  BY <1>4 DEF AnswersTo
<1>8. \A k \in 1..N : AnswersIn(t, k) = AnswersIn(s, k)
  BY <1>6, <1>7 DEF AnswersIn
<1>9. LastSpoken(t, N + 1) /\ \A k \in 1..N : ~LastSpoken(t, k)
  BY <1>4, <1>5 DEF LastSpoken
<1>10. next \in Workings
  BY <1>4, MessagesAre DEF Workings
<1>11. ASSUME NEW k \in 1..(N + 1), NotTool(t[k]) PROVE CallsFit(next, k)
  <2>1. CASE k = N + 1
    <3>1. AnswersIn(t, k) = {} /\ StillOpen(next, k) = m.calls
      BY <1>6, <1>9, <2>1 DEF AnswersIn, StillOpen
    <3> QED BY <1>4, <2>1, <3>1 DEF CallsFit
  <2>2. CASE k # N + 1
    <3>1. k \in 1..N /\ t[k] = s[k]
      BY <1>4, <2>2
    <3>2. StillOpen(next, k) = {} /\ s[k].calls = AnswersIn(s, k)
      BY <1>2, <1>4, <1>9, <1>11, <3>1 DEF StillOpen
    <3> QED BY <1>8, <3>1, <3>2 DEF CallsFit
  <2> QED BY <2>1, <2>2
<1>12. ASSUME NEW k \in 1..(N + 1), ~NotTool(t[k]) PROVE IsAnswer(t, k)
  <2>1. k \in 1..N /\ t[k] = s[k]
    BY <1>4, <1>12
  <2>2. PICK o \in 1..k - 1 :
          /\ NotTool(s[o]) /\ k \in AnswersTo(s, o)
          /\ \A n \in AnswersTo(s, o) \ {k} : s[n].answers # s[k].answers
    BY <1>3, <1>4, <1>12, <2>1 DEF IsAnswer
  <2>3. o \in 1..N /\ t[o] = s[o]
    BY <1>4, <2>1
  <2> QED BY <1>6, <1>7, <2>1, <2>2, <2>3 DEF IsAnswer
<1> HIDE DEF next
<1>13. next.sent = t /\ next.pending = m.calls
  BY DEF next
<1>14. WorkIsSound(next)
  BY <1>5, <1>9, <1>10, <1>11, <1>12, <1>13 DEF WorkIsSound
<1> QED BY <1>14 DEF next, t, s

\* An answer to a call of the i-th message that comes from one of the first n + 1.
LEMMA AnswersOfNext ==
  ASSUME NEW messages \in Seq(SentMessages), NEW n \in 0..(Len(messages) - 1),
         NEW i \in 1..n, NEW j \in AnswersTo(messages, i), j <= n + 1
  PROVE  j <= n \/ (j = n + 1 /\ ~NotTool(messages[n + 1]))
<1>1. Len(messages) \in Nat /\ DOMAIN messages = 1..Len(messages)
  BY LenProperties
<1>2. j \in 1..Len(messages) /\ j > i /\ j \in i + 1..j /\ ~NotTool(messages[j])
  BY <1>1 DEF AnswersTo
<1> QED BY <1>1, <1>2

\* The messages that are sent, and one more, that comes from the (n + 1)-th.
MoreFrom(from, N, n) == [k \in 1..(N + 1) |-> IF k = N + 1 THEN n + 1 ELSE from[k]]
FewerCallsIn(s, t) == \A k \in DOMAIN s : s[k].calls \subseteq t[k].calls
TracesSoFar(messages, n, sent, from) ==
  /\ from \in [DOMAIN sent -> 1..n]
  /\ ComesFrom(messages, sent, from)
  /\ \A i \in 1..n : NotTool(messages[i]) =>
       /\ \E k \in DOMAIN sent : from[k] = i
       /\ KeepsAnswers(messages, sent, from, i, n)

\* What is sent comes from one message more when its own is added, ...
LEMMA TracesMore ==
  ASSUME NEW messages \in Seq(SentMessages), NEW n \in 0..(Len(messages) - 1), NEW work,
         WorkIsSound(work), NEW from, WorkComesFrom(messages, n, work, from),
         NEW s \in Seq(SentMessages), Alike(work.sent, s),
         FewerCallsIn(s, work.sent)
  PROVE  TracesSoFar(messages, n + 1, Append(s, messages[n + 1]), MoreFrom(from, Len(s), n))
<1> DEFINE t == Append(s, messages[n + 1])
           more == MoreFrom(from, Len(s), n)
           N == Len(s)
           m == messages[n + 1]
<1>0. Len(messages) \in Nat /\ DOMAIN messages = 1..Len(messages) /\ n + 1 \in 1..Len(messages)
  BY LenProperties
<1>1. m \in SentMessages
  BY <1>0, ElementOfSeq
<1>2. /\ N \in Nat /\ DOMAIN s = 1..N /\ t \in Seq(SentMessages) /\ Len(t) = N + 1
      /\ \A k \in 1..N : t[k] = s[k]
      /\ t[N + 1] = m
  BY <1>1, LenProperties, AppendProperties
<1>3. DOMAIN t = 1..(N + 1)
  BY <1>2, LenProperties
<1>4. DOMAIN work.sent = 1..N
  BY <1>2 DEF Alike
<1> HIDE DEF t, N, m, more
<1>5. from \in [1..N -> 1..n] /\ ComesFrom(messages, work.sent, from)
  BY <1>4 DEF WorkComesFrom
<1>6. /\ more \in [1..(N + 1) -> 1..(n + 1)] /\ more[N + 1] = n + 1
      /\ \A k \in 1..N : more[k] = from[k] /\ from[k] \in 1..n
  <2>1. /\ more[N + 1] = n + 1
        /\ \A k \in 1..N : more[k] = from[k] /\ from[k] \in 1..n
    <3>1. more = [k \in 1..(N + 1) |-> IF k = N + 1 THEN n + 1 ELSE from[k]]
      BY DEF N, more, MoreFrom
    <3>2. N + 1 \in 1..(N + 1) /\ \A k \in 1..N : k \in 1..(N + 1) /\ k # N + 1
      BY <1>2
    <3> QED BY <1>5, <3>1, <3>2
  <2>2. \A k \in 1..(N + 1) : k \in 1..N \/ k = N + 1
    BY <1>2
  <2>3. n + 1 \in 1..(n + 1) /\ \A k \in 1..n : k \in 1..(n + 1)
    OBVIOUS
  <2>4. \A k \in 1..(N + 1) : more[k] \in 1..(n + 1)
    BY <2>1, <2>2, <2>3
  <2>5. more = [k \in 1..(N + 1) |-> more[k]]
    BY DEF N, more, MoreFrom
  <2> QED BY <2>1, <2>4, <2>5
<1>7. \A k, o \in 1..(N + 1) : k < o => more[k] < more[o]
  <2> SUFFICES ASSUME NEW k \in 1..(N + 1), NEW o \in 1..(N + 1), k < o PROVE more[k] < more[o]
    OBVIOUS
  <2>1. k \in 1..N
    BY <1>2
  <2>2. CASE o = N + 1
    <3>1. more[k] \in 1..n /\ more[o] = n + 1
      BY <1>6, <2>1, <2>2
    <3> QED BY <3>1
  <2>3. CASE o # N + 1
    <3>1. o \in 1..N
      BY <1>2, <2>3
    <3> QED BY <1>4, <1>5, <1>6, <2>1, <3>1 DEF ComesFrom
  <2> QED BY <2>2, <2>3
<1>8. ASSUME NEW k \in 1..(N + 1)
      PROVE  /\ t[k].role = messages[more[k]].role
             /\ t[k].answers = messages[more[k]].answers
             /\ t[k].calls \subseteq messages[more[k]].calls
  <2>1. CASE k = N + 1
    BY <1>2, <1>6, <2>1 DEF m
  <2>2. CASE k # N + 1
    <3>1. k \in 1..N
      BY <1>2, <2>2
    <3>2. /\ s[k].role = work.sent[k].role /\ s[k].answers = work.sent[k].answers
          /\ s[k].calls \subseteq work.sent[k].calls
      BY <1>2, <1>4, <3>1 DEF Alike, FewerCallsIn
    <3>3. /\ work.sent[k].role = messages[from[k]].role
          /\ work.sent[k].answers = messages[from[k]].answers
          /\ work.sent[k].calls \subseteq messages[from[k]].calls
      BY <1>4, <1>5, <3>1 DEF ComesFrom
    <3> QED BY <1>2, <1>6, <3>1, <3>2, <3>3
  <2> QED BY <2>1, <2>2
<1>9. ASSUME NEW i \in 1..(n + 1), NotTool(messages[i])
      PROVE  (\E k \in 1..(N + 1) : more[k] = i) /\ KeepsAnswers(messages, t, more, i, n + 1)
  <2>1. CASE i = n + 1
    <3>1. N + 1 \in 1..(N + 1)
      BY <1>2
    <3>2. \A j \in AnswersTo(messages, i) : ~(j <= n + 1)
      BY <1>0, <2>1 DEF AnswersTo
    <3> QED BY <1>6, <2>1, <3>1, <3>2 DEF KeepsAnswers
  <2>2. CASE i # n + 1
    <3>1. i \in 1..n
      BY <2>2
    <3>2. (\E k \in DOMAIN work.sent : from[k] = i) /\ KeepsAnswers(messages, work.sent, from, i, n)
      BY <1>9, <3>1 DEF WorkComesFrom
    <3>3. \E k \in 1..(N + 1) : more[k] = i
      <4>1. \A k \in 1..N : k \in 1..(N + 1)
        BY <1>2
      <4> QED BY <1>4, <1>6, <3>2, <4>1
    <3>4. ASSUME NEW j \in AnswersTo(messages, i), j <= n + 1,
                 messages[j].answers \subseteq messages[i].calls
          PROVE  \E o \in 1..(N + 1) :
                   more[o] \in AnswersTo(messages, i) /\ t[o].answers = messages[j].answers
      <4>1. CASE j <= n
        <5>1. PICK o \in 1..N : from[o] \in AnswersTo(messages, i)
                                /\ work.sent[o].answers = messages[j].answers
          BY <1>4, <3>2, <3>4, <4>1 DEF KeepsAnswers
        <5>2. o \in 1..(N + 1) /\ more[o] = from[o] /\ t[o] = s[o]
          BY <1>2, <1>6, <5>1
        <5>3. s[o].answers = work.sent[o].answers
          BY <1>4, <5>1 DEF Alike
        <5> QED BY <5>1, <5>2, <5>3
      <4>2. CASE j = n + 1
        <5>1. N + 1 \in 1..(N + 1)
          BY <1>2
        <5> QED BY <1>2, <1>6, <3>4, <4>2, <5>1 DEF m
      <4> QED BY <3>1, <3>4, <4>1, <4>2, AnswersOfNext
    <3> QED BY <1>3, <3>3, <3>4 DEF KeepsAnswers
  <2> QED BY <2>1, <2>2
<1>10. ComesFrom(messages, t, more)
  BY <1>3, <1>7, <1>8 DEF ComesFrom
<1>11. TracesSoFar(messages, n + 1, t, more)
  BY <1>3, <1>6, <1>9, <1>10 DEF TracesSoFar
<1> QED BY <1>11 DEF t, N, m, more

\* ... and from one more when that is a tool message that no call waits for.
LEMMA TracesOn ==
  ASSUME NEW messages \in Seq(SentMessages), NEW n \in 0..(Len(messages) - 1), NEW work,
         WorkIsSound(work), NEW from, WorkComesFrom(messages, n, work, from),
         ~NotTool(messages[n + 1]), ~(messages[n + 1].answers \subseteq work.pending)
  PROVE  WorkComesFrom(messages, n + 1, work, from)
<1> DEFINE m == messages[n + 1]
           s == work.sent
<1>0. Len(messages) \in Nat /\ DOMAIN messages = 1..Len(messages) /\ n + 1 \in 1..Len(messages)
  BY LenProperties
<1>1. m \in SentMessages
  BY <1>0, ElementOfSeq
<1>2. PICK id \in CallIds : m.answers = {id}
  BY <1>1, MessagesAre
<1>3. id \notin work.pending
  BY <1>2
<1> HIDE DEF m
<1>4. s \in Seq(SentMessages)
  BY DEF WorkIsSound, Workings
<1>5. Len(s) \in Nat /\ DOMAIN s = 1..Len(s) /\ \A k \in DOMAIN s : s[k] \in SentMessages
  BY <1>4, LenProperties, ElementOfSeq
<1> HIDE DEF s
<1>6. from \in [DOMAIN s -> 1..n] /\ ComesFrom(messages, s, from)
  BY DEF WorkComesFrom, s
<1>7. from \in [DOMAIN s -> 1..(n + 1)]
  <2>1. \A k \in DOMAIN s : from[k] \in 1..(n + 1)
    BY <1>6
  <2> QED BY <1>6, <2>1
<1>8. ASSUME NEW i \in 1..(n + 1), NotTool(messages[i])
      PROVE  (\E k \in DOMAIN s : from[k] = i) /\ KeepsAnswers(messages, s, from, i, n + 1)
  <2>1. i \in 1..n
    BY <1>8
  <2>2. (\E k \in DOMAIN s : from[k] = i) /\ KeepsAnswers(messages, s, from, i, n)
    BY <1>8, <2>1 DEF WorkComesFrom, s
  <2>3. ASSUME NEW j \in AnswersTo(messages, i), j <= n + 1,
               messages[j].answers \subseteq messages[i].calls
        PROVE  \E o \in DOMAIN s :
                 from[o] \in AnswersTo(messages, i) /\ s[o].answers = messages[j].answers
    <3>1. CASE j <= n
      BY <2>2, <2>3, <3>1 DEF KeepsAnswers
    <3>2. CASE j = n + 1
      <4>1. PICK k \in DOMAIN s : from[k] = i
        BY <2>2
      <4>2. \A q \in i + 1..(n + 1) : ~NotTool(messages[q])
        BY <3>2 DEF AnswersTo
      <4>3. NotTool(s[k]) /\ \A o \in DOMAIN s : s[o].role = messages[from[o]].role
        BY <1>6, <1>8, <4>1 DEF ComesFrom, NotTool
      <4>4. \A o \in DOMAIN s : k < o => from[o] \in i + 1..n
        BY <1>5, <1>6, <2>1, <4>1 DEF ComesFrom
      <4>5. \A o \in DOMAIN s : k < o => ~NotTool(s[o])
        BY <4>2, <4>3, <4>4 DEF NotTool
      <4>6. LastSpoken(s, k)
        BY <1>5, <4>3, <4>5 DEF LastSpoken
      <4>7. s[k].calls = messages[i].calls /\ CallsFit(work, k)
        BY <4>1, <4>3, <4>6 DEF WorkComesFrom, WorkIsSound, s
      <4>8. id \in s[k].calls /\ s[k].calls = AnswersIn(s, k) \cup work.pending
        BY <1>2, <2>3, <3>2, <4>6, <4>7 DEF CallsFit, StillOpen, s, m
      <4>9. PICK o \in AnswersTo(s, k) : id \in s[o].answers
        BY <1>3, <4>8 DEF AnswersIn
      <4>10. o \in DOMAIN s /\ o > k /\ o \in k + 1..o /\ ~NotTool(s[o])
        BY <1>5, <4>9 DEF AnswersTo
      <4>11. s[o].answers = messages[j].answers
        <5>1. PICK other \in CallIds : s[o].answers = {other}
          BY <1>5, <4>10, MessagesAre
        <5> QED BY <1>2, <3>2, <4>9, <5>1 DEF m
      <4>12. from[o] \in AnswersTo(messages, i)
        <5>1. from[o] \in i + 1..n
          BY <4>4, <4>10
        <5>2. from[o] \in DOMAIN messages /\ from[o] > i
          BY <1>0, <2>1, <5>1
        <5>3. \A q \in i + 1..from[o] : q \in i + 1..(n + 1)
          BY <2>1, <5>1
        <5> QED BY <4>2, <5>2, <5>3 DEF AnswersTo
      <4> QED BY <4>10, <4>11, <4>12
    <3> QED BY <2>1, <2>3, <3>1, <3>2, AnswersOfNext
  <2> QED BY <2>2, <2>3 DEF KeepsAnswers
<1> QED BY <1>6, <1>7, <1>8 DEF WorkComesFrom, s

LEMMA SerializeKeeps ==
  ASSUME NEW messages \in Seq(SentMessages), NEW n \in 0..(Len(messages) - 1), NEW work,
         WorkIsSound(work), NEW from, WorkComesFrom(messages, n, work, from)
  PROVE  /\ WorkIsSound(Serialize(work, messages[n + 1]))
         /\ \E more : WorkComesFrom(messages, n + 1, Serialize(work, messages[n + 1]), more)
<1> DEFINE m == messages[n + 1]
           next == Serialize(work, m)
<1>0. Len(messages) \in Nat /\ n + 1 \in 1..Len(messages)
  BY LenProperties
<1>1. m \in SentMessages
  BY <1>0, ElementOfSeq
<1>2. work.sent \in Seq(SentMessages)
  BY DEF WorkIsSound, Workings
<1> HIDE DEF m, next
<1>3. CASE ~NotTool(m) /\ m.answers \subseteq work.pending
  <2>1. next = [sent |-> Append(work.sent, m), pending |-> work.pending \ m.answers]
    BY <1>3 DEF next, Serialize, NotTool
  <2>2. WorkIsSound(next)
    BY <1>1, <1>3, <2>1, AnswerIsSound
  <2>3. /\ Alike(work.sent, work.sent) /\ FewerCallsIn(work.sent, work.sent)
        /\ next.sent = Append(work.sent, m)
    BY <2>1 DEF Alike, FewerCallsIn
  <2> DEFINE N == Len(work.sent)
             more == MoreFrom(from, N, n)
  <2>4. /\ more \in [DOMAIN next.sent -> 1..(n + 1)] /\ ComesFrom(messages, next.sent, more)
        /\ \A i \in 1..(n + 1) : NotTool(messages[i]) =>
             /\ \E k \in DOMAIN next.sent : more[k] = i
             /\ KeepsAnswers(messages, next.sent, more, i, n + 1)
    <3>1. TracesSoFar(messages, n + 1, Append(work.sent, messages[n + 1]), more)
      BY <1>2, <2>3, TracesMore, Zenon
    <3> HIDE DEF more
    <3> QED BY <2>3, <3>1 DEF TracesSoFar, m
  <2>5. /\ N \in Nat /\ DOMAIN work.sent = 1..N /\ DOMAIN next.sent = 1..(N + 1)
        /\ next.sent[N + 1] = m /\ \A k \in 1..N : next.sent[k] = work.sent[k]
    BY <1>1, <1>2, <2>3, LenProperties, AppendProperties
  <2>6. ASSUME NEW k, LastSpoken(next.sent, k) PROVE next.sent[k].calls = messages[more[k]].calls
    <3>1. k \in 1..N
      BY <1>3, <2>5, <2>6 DEF LastSpoken
    <3>2. LastSpoken(work.sent, k)
      <4>1. \A o \in 1..N : o \in 1..(N + 1)
        BY <2>5
      <4> HIDE DEF N
      <4> QED BY <2>5, <2>6, <3>1, <4>1 DEF LastSpoken
    <3>3. more[k] = from[k]
      BY <2>5, <3>1 DEF MoreFrom
    <3> HIDE DEF more, N
    <3> QED BY <2>5, <3>1, <3>2, <3>3 DEF WorkComesFrom
  <2> HIDE DEF more
  <2> QED BY <2>2, <2>4, <2>6 DEF WorkComesFrom, next, m
<1>4. CASE ~NotTool(m) /\ ~(m.answers \subseteq work.pending)
  <2>1. next = work
    BY <1>4 DEF next, Serialize, NotTool
  <2>2. WorkComesFrom(messages, n + 1, work, from)
    BY <1>4, TracesOn DEF m
  <2> QED BY <2>1, <2>2 DEF next, m
<1>5. CASE NotTool(m)
  <2> DEFINE s == Discarded(work.sent, work.pending)
             N == Len(s)
             more == MoreFrom(from, N, n)
  <2>1. next = [sent |-> Append(s, m), pending |-> m.calls]
    BY <1>5 DEF next, Serialize, NotTool
  <2>2. WorkIsSound(next)
    BY <1>1, <1>5, <2>1, SpeechIsSound
  <2>3. /\ s \in Seq(SentMessages) /\ Alike(work.sent, s)
        /\ \A k \in DOMAIN s : s[k].calls \subseteq work.sent[k].calls
    BY SettledIs
  <2> HIDE DEF s
  <2>4. next.sent = Append(s, m)
    BY <2>1
  <2>5. /\ more \in [DOMAIN next.sent -> 1..(n + 1)] /\ ComesFrom(messages, next.sent, more)
        /\ \A i \in 1..(n + 1) : NotTool(messages[i]) =>
             /\ \E k \in DOMAIN next.sent : more[k] = i
             /\ KeepsAnswers(messages, next.sent, more, i, n + 1)
    <3>1. FewerCallsIn(s, work.sent)
      BY <2>3 DEF FewerCallsIn
    <3>2. TracesSoFar(messages, n + 1, Append(s, messages[n + 1]), more)
      BY <2>3, <3>1, TracesMore, Zenon
    <3> HIDE DEF more
    <3> QED BY <2>4, <3>2 DEF TracesSoFar, m
  <2>6. /\ N \in Nat /\ DOMAIN next.sent = 1..(N + 1) /\ next.sent[N + 1] = m
    BY <1>1, <2>3, <2>4, LenProperties, AppendProperties
  <2>7. ASSUME NEW k, LastSpoken(next.sent, k) PROVE next.sent[k].calls = messages[more[k]].calls
    <3>1. k = N + 1
      <4> HIDE DEF N
      <4>1. N + 1 \in 1..(N + 1)
        BY <2>6
      <4>2. k \in 1..(N + 1) /\ N + 1 <= k
        BY <1>5, <2>6, <2>7, <4>1 DEF LastSpoken
      <4> QED BY <2>6, <4>2
    <3>2. more[k] = n + 1
      BY <2>6, <3>1 DEF MoreFrom
    <3> HIDE DEF more, N
    <3> QED BY <2>6, <3>1, <3>2 DEF m
  <2> HIDE DEF more
  <2> QED BY <2>2, <2>5, <2>7 DEF WorkComesFrom, next, m
<1> QED BY <1>3, <1>4, <1>5 DEF next, m

\* What is sent of any history: each call with its answers, in the order of the history.
THEOREM RequestsArePaired ==
  ASSUME NEW messages \in Seq(SentMessages)
  PROVE  LET sent == SerializeMessages(messages) IN
         /\ AnswersArePaired(sent)
         /\ \E from \in [DOMAIN sent -> DOMAIN messages] : SentInOrder(messages, sent, from)
<1> DEFINE N == Len(messages)
           h == WorkOn(messages)
           T == {n \in 0..N : WorkIsSound(h[n]) /\ \E from : WorkComesFrom(messages, n, h[n], from)}
<1>0. N \in Nat /\ DOMAIN messages = 1..N
  BY LenProperties
<1>1. /\ Serialized(messages) = h[N] /\ h[0] = [sent |-> <<>>, pending |-> {}]
      /\ \A i \in 1..N : h[i] = Serialize(h[i - 1], messages[i])
  BY WorkIs
<1> HIDE DEF h
<1>2. 0 \in T
  <2>1. h[0].sent = <<>> /\ h[0].pending = {} /\ DOMAIN h[0].sent = {}
    BY <1>1
  <2>2. h[0] \in Workings
    BY <1>1 DEF Workings
  <2>3. WorkIsSound(h[0])
    BY <2>1, <2>2 DEF WorkIsSound
  <2> DEFINE from == [k \in {} |-> 0]
  <2>4. WorkComesFrom(messages, 0, h[0], from)
    BY <2>1 DEF WorkComesFrom, ComesFrom, LastSpoken
  <2> HIDE DEF from
  <2> QED BY <1>0, <2>3, <2>4
<1>3. ASSUME NEW n \in 0..(N - 1), n \in T PROVE n + 1 \in T
  <2>1. PICK from : WorkComesFrom(messages, n, h[n], from)
    BY <1>3
  <2>2. WorkIsSound(h[n])
    BY <1>3
  <2>3. n + 1 \in 1..N /\ n + 1 \in 0..N /\ (n + 1) - 1 = n
    BY <1>0
  <2>4. h[n + 1] = Serialize(h[n], messages[n + 1])
    BY <1>1, <2>3
  <2>5. /\ WorkIsSound(Serialize(h[n], messages[n + 1]))
        /\ \E more : WorkComesFrom(messages, n + 1, Serialize(h[n], messages[n + 1]), more)
    BY <2>1, <2>2, SerializeKeeps
  <2> QED BY <2>3, <2>4, <2>5
<1> HIDE DEF T
<1>4. \A n \in 0..N : n \in T
  <2> HIDE DEF N
  <2> QED BY <1>0, <1>2, <1>3, UpTo
<1>5. N \in T
  BY <1>0, <1>4
<1> DEFINE work == h[N]
           sent == SerializeMessages(messages)
<1>6. WorkIsSound(work) /\ \E from : WorkComesFrom(messages, N, work, from)
  BY <1>5 DEF T
<1>7. PICK from : WorkComesFrom(messages, N, work, from)
  BY <1>6
<1>8. sent = Discarded(work.sent, work.pending)
  BY <1>1 DEF SerializeMessages
<1> HIDE DEF work, sent, N
<1>9. /\ sent \in Seq(SentMessages) /\ Alike(work.sent, sent)
      /\ \A k \in DOMAIN sent : NotTool(sent[k]) => sent[k].calls = AnswersIn(sent, k)
      /\ \A k \in DOMAIN sent : sent[k].calls \subseteq work.sent[k].calls
  BY <1>6, <1>8, SettledIs
<1>10. AnswersArePaired(sent)
  <2>1. work.sent \in Seq(SentMessages)
    BY <1>6 DEF WorkIsSound, Workings
  <2>2. \A k \in DOMAIN sent : ~NotTool(sent[k]) => IsAnswer(sent, k)
    BY <1>6, <1>9, <2>1, AlikeAnswers DEF Alike, WorkIsSound
  <2> QED BY <1>9, <2>2 DEF AnswersArePaired, AnswersIn, IsAnswer
<1>11. DOMAIN sent = DOMAIN work.sent /\ from \in [DOMAIN sent -> DOMAIN messages]
  BY <1>0, <1>7, <1>9 DEF Alike, WorkComesFrom
<1>12. SentInOrder(messages, sent, from)
  <2>1. ComesFrom(messages, sent, from)
    BY <1>7, <1>9, <1>11 DEF WorkComesFrom, ComesFrom, Alike
  <2>2. ASSUME NEW i \in DOMAIN messages, NotTool(messages[i])
        PROVE  /\ \E k \in DOMAIN sent : from[k] = i
               /\ \A n \in AnswersTo(messages, i) :
                    messages[n].answers \subseteq messages[i].calls =>
                      \E o \in DOMAIN sent : from[o] \in AnswersTo(messages, i)
                                           /\ sent[o].answers = messages[n].answers
    <3>1. /\ \E k \in DOMAIN work.sent : from[k] = i
          /\ KeepsAnswers(messages, work.sent, from, i, N)
      BY <1>0, <1>7, <2>2 DEF WorkComesFrom
    <3>2. \A n \in AnswersTo(messages, i) : n <= N
      BY <1>0 DEF AnswersTo
    <3>3. \A o \in DOMAIN sent : sent[o].answers = work.sent[o].answers
      BY <1>9, <1>11 DEF Alike
    <3> QED BY <1>11, <3>1, <3>2, <3>3 DEF KeepsAnswers
  <2> QED BY <2>1, <2>2 DEF SentInOrder, ComesFrom
<1> QED BY <1>10, <1>11, <1>12 DEF sent

-----------------------------------------------------------------------------
(* The request and its attempts *)

\* Nothing has been shown of the attempts before this one, and all that is kept of it.
TransportInv ==
  /\ sentHistory \in Seq(SentMessages) /\ chunks \in Nat
  /\ transportAt \in {"check", "open", "sleep"} => displayed = <<>>
  /\ transportAt = "open" => parts = <<>> /\ chunks = 0
  /\ transportAt = "read" => parts = displayed /\ (chunks = 0 => displayed = <<>>)
  /\ transportAt = "answered" => parts = displayed

LEMMA TransportStep == TransportInv /\ [TransportNext]_transportVars => TransportInv'
<1> SUFFICES ASSUME TransportInv, [TransportNext]_transportVars PROVE TransportInv'
  OBVIOUS
<1>1. CASE BeginAttempt
  BY <1>1 DEF BeginAttempt, TransportInv
<1>2. CASE Connect
  BY <1>2 DEF Connect, TransportInv
<1>3. CASE ReadChunk
  <2>1. UNCHANGED <<sentHistory, attempt, stopAsked>> /\ transportAt = "read"
    BY <1>3 DEF ReadChunk
  <2>2. CASE stopAsked
    <3>1. transportAt' = "cancelled" /\ UNCHANGED <<chunks, parts, displayed>>
      BY <1>3, <2>2 DEF ReadChunk
    <3> QED BY <2>1, <3>1 DEF TransportInv
  <2>3. CASE ~stopAsked
    <3>1. chunks' = chunks + 1 /\ transportAt' = "read"
      BY <1>3, <2>1, <2>3 DEF ReadChunk
    <3>2. \/ parts' = Append(parts, attempt) /\ displayed' = Append(displayed, attempt)
          \/ UNCHANGED <<parts, displayed>>
      BY <1>3, <2>3, Zenon DEF ReadChunk
    <3>3. parts = displayed /\ chunks \in Nat
      BY <2>1 DEF TransportInv
    <3>4. parts' = displayed'
      BY <3>2, <3>3
    <3>5. chunks' \in Nat /\ chunks' # 0
      BY <3>1, <3>3
    <3> QED BY <2>1, <3>1, <3>4, <3>5 DEF TransportInv
  <2> QED BY <2>2, <2>3
<1>4. CASE EndStream
  BY <1>4 DEF EndStream, TransportInv
<1>5. CASE Fail
  BY <1>5 DEF Fail, MayRetry, TransportInv
<1>6. CASE Wake
  BY <1>6 DEF Wake, TransportInv
<1>7. CASE CancelRequest
  BY <1>7 DEF CancelRequest, TransportInv
<1>8. CASE UNCHANGED transportVars
  BY <1>8 DEF transportVars, TransportInv
<1> QED BY <1>1, <1>2, <1>3, <1>4, <1>5, <1>6, <1>7, <1>8 DEF TransportNext

\* A request breaks no rule of the provider and drops nothing that fits them, and the
\* answer is the text that was shown, for any history, retries and chunks.
THEOREM TheTransportIsFaithful == TransportSpec => []TransportIsFaithful
<1>1. TransportInit => TransportInv
  <2> SUFFICES ASSUME TransportInit PROVE TransportInv
    OBVIOUS
  <2>1. sentHistory \in Seq(SentMessages)
    BY DEF TransportInit, BoundedSeq, SeqOf
  <2> QED BY <2>1 DEF TransportInit, TransportInv
<1>2. TransportInv => TransportIsFaithful
  <2> SUFFICES ASSUME TransportInv PROVE TransportIsFaithful
    OBVIOUS
  <2>1. PairsAreWhole
    BY RequestsArePaired DEF TransportInv, PairsAreWhole
  <2> QED BY <2>1 DEF TransportInv, TransportIsFaithful
<1> QED BY <1>1, <1>2, TransportStep, PTL DEF TransportSpec

-----------------------------------------------------------------------------
(* The messages of a session (TurnContext) *)

MessageFits(m) == (m.role = "tool" <=> m.reply # 0) /\ (m.role = "tool" => m.calls = {})

\* Results only, from one place to another.
AllTools(t, i, j) == \A k \in i..j : t[k].role = "tool"
RepliesDiffer(t) ==
  \A i, j \in DOMAIN t : i < j /\ AllTools(t, i, j) => t[i].reply # t[j].reply
MessagesFit(t) ==
  t \in Seq(SaidMessages) /\ (\A i \in DOMAIN t : MessageFits(t[i])) /\ RepliesDiffer(t)

\* A call that waits has no result yet.
WaitFits(t, waits) == \A i \in DOMAIN t : AllTools(t, i, Len(t)) => t[i].reply \notin waits

\* The summary is of messages that are followed by one that is no result of theirs,
\* and the latest message of the user is none of them.
IsLatestUser(t, i) ==
  t[i].role = "user" /\ \A j \in i + 1..Len(t) : t[j].role # "user"
Splits(t, covered) ==
  \E m \in 1..covered : AllTools(t, m + 1, covered + 1) /\ t[m].calls # {}
CoverFits(t, cover) ==
  cover # NoCover =>
    /\ cover.head \in Nat /\ cover.covered \in Nat /\ cover.head < cover.covered
    /\ cover.covered < Len(t) /\ ~Splits(t, cover.covered)
    /\ \A i \in 1..Len(t) : IsLatestUser(t, i) => i <= cover.head \/ i > cover.covered

SessionFits(t, at, waits, cover) ==
  /\ MessagesFit(t) /\ CoverFits(t, cover)
  /\ waits \subseteq ContextCalls /\ WaitFits(t, waits)
  /\ at # "idle" => waits = {}
  /\ at = "tools" => t # <<>> /\ t[Len(t)].role # "tool" /\ t[Len(t)].calls # {}

ContextInv == SessionFits(transcript, turnAt, unanswered, covering) /\ RequestIsWhole
-----------------------------------------------------------------------------
(* Calls and stubs *)

\* The calls of a message have an order, in which each stands once.
LEMMA CallsInOrderIs ==
  ASSUME NEW calls, calls \subseteq Nat, IsFiniteSet(calls)
  PROVE  /\ Cardinality(calls) \in Nat
         /\ CallsInOrder(calls) \in [1..Cardinality(calls) -> calls]
         /\ \A i, j \in 1..Cardinality(calls) : CallsInOrder(calls)[i] = CallsInOrder(calls)[j] => i = j
         /\ \A call \in calls : \E i \in 1..Cardinality(calls) : CallsInOrder(calls)[i] = call
<1> DEFINE n == Cardinality(calls)
           Below(x) == {y \in calls : y <= x}
           rank == [x \in calls |-> Cardinality(Below(x))]
           Grows(s) == \A i, j \in 1..n : i < j => s[i] < s[j]
<1>1. n \in Nat
  BY FS_CardinalityType
<1>2. \A x \in calls : Below(x) \subseteq calls /\ IsFiniteSet(Below(x)) /\ x \in Below(x)
  <2>1. \A x \in calls : Below(x) \subseteq calls /\ x \in Below(x)
    OBVIOUS
  <2> HIDE DEF Below
  <2> QED BY <2>1, FS_Subset
<1>3. ASSUME NEW x \in calls PROVE rank[x] \in 1..n
  <2> HIDE DEF Below
  <2>1. Cardinality(Below(x)) \in Nat /\ Cardinality(Below(x)) <= n
    BY <1>2, FS_Subset, FS_CardinalityType
  <2>2. Cardinality(Below(x)) # 0
    BY <1>2, FS_EmptySet
  <2> QED BY <1>1, <2>1, <2>2
<1>4. ASSUME NEW x \in calls, NEW y \in calls, x < y PROVE rank[x] < rank[y]
  <2>1. Below(x) \subseteq Below(y) /\ y \in Below(y) /\ y \notin Below(x)
    <3>1. x \in Nat /\ y \in Nat /\ \A z \in calls : z \in Nat
      OBVIOUS
    <3>2. \A z \in Nat : z <= x => z <= y
      BY <1>4, <3>1
    <3>3. y <= y /\ ~(y <= x)
      BY <1>4, <3>1
    <3> QED BY <3>1, <3>2, <3>3
  <2> HIDE DEF Below
  <2>2. /\ Cardinality(Below(x)) <= Cardinality(Below(y))
        /\ Cardinality(Below(x)) = Cardinality(Below(y)) => Below(x) = Below(y)
    BY <1>2, <2>1, FS_Subset
  <2>3. Cardinality(Below(x)) \in Nat /\ Cardinality(Below(y)) \in Nat
    BY <1>2, FS_CardinalityType
  <2> QED BY <2>1, <2>2, <2>3
<1> HIDE DEF rank
<1>5. rank \in [calls -> 1..n]
  BY <1>3 DEF rank
<1>6. \A x, y \in calls : rank[x] = rank[y] => x = y
  <2> SUFFICES ASSUME NEW x \in calls, NEW y \in calls, rank[x] = rank[y], x # y PROVE FALSE
    OBVIOUS
  <2>1. x \in Nat /\ y \in Nat /\ rank[x] \in Nat /\ rank[y] \in Nat
    BY <1>5
  <2>2. x < y \/ y < x
    BY <2>1
  <2> QED BY <1>4, <2>1, <2>2
<1>7. IsFiniteSet(1..n) /\ Cardinality(1..n) = n
  <2>1. 1 \in Int /\ n \in Int
    BY <1>1
  <2> QED BY <1>1, <2>1, FS_Interval
<1>8. rank \in Surjection(calls, 1..n)
  <2>1. rank \in Injection(calls, 1..n)
    BY <1>5, <1>6 DEF Injection, IsInjective
  <2> QED BY <1>7, <2>1, FS_Injection
<1> DEFINE f == [i \in 1..n |-> CHOOSE x \in calls : rank[x] = i]
<1>9. \A i \in 1..n : f[i] \in calls /\ rank[f[i]] = i
  BY <1>8 DEF Surjection
<1>10. f \in [1..n -> calls] /\ Grows(f)
  <2>1. f \in [1..n -> calls]
    BY <1>9
  <2> HIDE DEF f
  <2>2. ASSUME NEW i \in 1..n, NEW j \in 1..n, i < j PROVE f[i] < f[j]
    <3>1. f[i] \in Nat /\ f[j] \in Nat /\ f[i] \in calls /\ f[j] \in calls
      BY <1>9
    <3>2. f[i] < f[j] \/ f[i] = f[j] \/ f[j] < f[i]
      BY <3>1
    <3>3. rank[f[i]] = i /\ rank[f[j]] = j
      BY <1>9
    <3>4. f[j] < f[i] => j < i
      BY <1>4, <3>1, <3>3
    <3> QED BY <2>2, <3>2, <3>3, <3>4
  <2> QED BY <2>1, <2>2
<1> DEFINE s == CallsInOrder(calls)
<1>11. s \in [1..n -> calls] /\ Grows(s)
  <2>1. s = CHOOSE g \in [1..n -> calls] : Grows(g)
    BY Zenon DEF CallsInOrder
  <2> HIDE DEF Grows, s, f
  <2> QED BY <1>10, <2>1
<1> HIDE DEF s
<1>12. \A i, j \in 1..n : s[i] = s[j] => i = j
  <2> SUFFICES ASSUME NEW i \in 1..n, NEW j \in 1..n, s[i] = s[j], i # j PROVE FALSE
    OBVIOUS
  <2>1. i < j \/ j < i
    BY <1>1
  <2>2. s[i] \in Nat /\ s[j] \in Nat
    BY <1>11
  <2> QED BY <1>11, <2>1, <2>2
<1>13. s \in Surjection(1..n, calls)
  <2>1. s \in Injection(1..n, calls)
    BY <1>11, <1>12 DEF Injection, IsInjective
  <2> QED BY <1>7, <2>1, FS_Injection
<1> QED BY <1>1, <1>11, <1>12, <1>13 DEF s, Surjection

\* What a request is made of: what is paired is of such items.
ContextItems ==
  [kind : {"said", "summary", "stub"}, of : SUBSET Nat, reply : ContextCalls \cup {0}]
SoundItems ==
  {m \in ContextItems : CallsOf(m) \in SUBSET ContextCalls /\ (IsTool(m) => CallsOf(m) = {})}
Pairings == [out : Seq(SoundItems), open : SUBSET ContextCalls]

LEMMA StubsAre ==
  ASSUME ContextAssumption, NEW calls \in SUBSET ContextCalls
  PROVE  /\ Stubs(calls) \in Seq(SoundItems) /\ Len(Stubs(calls)) = Cardinality(calls)
         /\ Cardinality(calls) \in Nat
         /\ calls = {} => Stubs(calls) = <<>>
         /\ \A i \in 1..Cardinality(calls) :
              IsTool(Stubs(calls)[i]) /\ Stubs(calls)[i].reply \in calls /\ Stubs(calls)[i].of = {}
         /\ \A i, j \in 1..Cardinality(calls) : Stubs(calls)[i].reply = Stubs(calls)[j].reply => i = j
         /\ \A call \in calls : \E i \in 1..Cardinality(calls) : Stubs(calls)[i].reply = call
<1> DEFINE n == Cardinality(calls)
           s == CallsInOrder(calls)
<1>1. calls \subseteq Nat /\ IsFiniteSet(calls) /\ 0 \notin calls
  BY FS_Subset DEF ContextAssumption
<1>2. /\ n \in Nat /\ s \in [1..n -> calls]
      /\ \A i, j \in 1..n : s[i] = s[j] => i = j
      /\ \A call \in calls : \E i \in 1..n : s[i] = call
  BY <1>1, CallsInOrderIs
<1> HIDE DEF s
<1>3. \A call \in calls : Stub(call) \in SoundItems /\ IsTool(Stub(call)) /\ Stub(call).of = {}
                          /\ Stub(call).reply = call
  BY <1>1 DEF Stub, SoundItems, ContextItems, IsTool, CallsOf
<1>4. Stubs(calls) = [i \in 1..n |-> Stub(s[i])]
  BY DEF Stubs, s
<1>5. calls = {} => n = 0
  BY FS_EmptySet
<1> HIDE DEF n
<1>6. \A i \in 1..n : Stubs(calls)[i] = Stub(s[i]) /\ s[i] \in calls
  BY <1>2, <1>4
<1>7. Stubs(calls) \in Seq(SoundItems) /\ Len(Stubs(calls)) = n
  <2> HIDE DEF SoundItems
  <2>1. \A i \in 1..n : Stub(s[i]) \in SoundItems
    BY <1>3, <1>6
  <2>2. Stubs(calls) \in [1..n -> SoundItems]
    BY <1>4, <2>1
  <2> QED BY <1>2, <2>2
<1>8. calls = {} => Stubs(calls) = <<>>
  BY <1>5, <1>7, EmptySeq
<1>9. \A i \in 1..n : IsTool(Stubs(calls)[i]) /\ Stubs(calls)[i].reply = s[i]
                       /\ s[i] \in calls /\ Stubs(calls)[i].of = {}
  <2> TAKE i \in 1..n
  <2>1. Stubs(calls)[i] = Stub(s[i]) /\ s[i] \in calls
    BY <1>6
  <2>2. IsTool(Stub(s[i])) /\ Stub(s[i]).of = {} /\ Stub(s[i]).reply = s[i]
    BY <1>3, <2>1
  <2> QED BY <2>1, <2>2, Zenon
<1>10. \A i, j \in 1..n : Stubs(calls)[i].reply = Stubs(calls)[j].reply => i = j
  BY <1>2, <1>9
<1>11. \A call \in calls : \E i \in 1..n : Stubs(calls)[i].reply = call
  BY <1>2, <1>9
<1> QED BY <1>2, <1>7, <1>8, <1>9, <1>10, <1>11, Zenon DEF n

LEMMA PairIs ==
  ASSUME ContextAssumption, NEW work \in Pairings, NEW m \in SoundItems
  PROVE  Pair(work, m) \in Pairings
<1>1. work.out \in Seq(SoundItems) /\ work.open \in SUBSET ContextCalls
  BY DEF Pairings
<1>2. Stubs(work.open) \in Seq(SoundItems)
  BY <1>1, StubsAre
<1>3. <<m>> \in Seq(SoundItems) /\ CallsOf(m) \in SUBSET ContextCalls
  BY DEF SoundItems
<1>4. work.out \o Stubs(work.open) \in Seq(SoundItems)
  BY <1>1, <1>2, ConcatProperties
<1>5. work.out \o Stubs(work.open) \o <<m>> \in Seq(SoundItems)
  BY <1>3, <1>4, ConcatProperties
<1>6. Append(work.out, m) \in Seq(SoundItems)
  BY <1>1, AppendProperties
<1>7. Pair(work, m) \in {[out |-> work.out \o Stubs(work.open) \o <<m>>, open |-> CallsOf(m)],
                         [out |-> Append(work.out, m), open |-> work.open \ {m.reply}], work}
  BY Zenon DEF Pair
<1>8. work.open \ {m.reply} \in SUBSET ContextCalls
  BY <1>1
<1> DEFINE said == work.out \o Stubs(work.open) \o <<m>>
           told == Append(work.out, m)
<1> HIDE DEF SoundItems, said, told
<1>9. said \in Seq(SoundItems) /\ told \in Seq(SoundItems)
  BY <1>5, <1>6 DEF said, told
<1>10. /\ [out |-> said, open |-> CallsOf(m)] \in Pairings
       /\ [out |-> told, open |-> work.open \ {m.reply}] \in Pairings
  BY <1>3, <1>8, <1>9 DEF Pairings
<1> QED BY <1>7, <1>10 DEF said, told

\* The pairing of so many of the items.
PairingOf(items) ==
  CHOOSE g : g = [n \in 0..Len(items) |->
    IF n = 0 THEN [out |-> <<>>, open |-> {}] ELSE Pair(g[n - 1], items[n])]

LEMMA PairingIs ==
  ASSUME ContextAssumption, NEW items \in Seq(SoundItems)
  PROVE  /\ PairedUp(items) = PairingOf(items)[Len(items)]
         /\ PairingOf(items)[0] = [out |-> <<>>, open |-> {}]
         /\ \A i \in 1..Len(items) : PairingOf(items)[i] = Pair(PairingOf(items)[i - 1], items[i])
<1> DEFINE N == Len(items)
           first == [out |-> <<>>, open |-> {}]
           step == [w \in Pairings |-> [m \in SoundItems |-> Pair(w, m)]]
           Goes(f) == [n \in 0..N |-> IF n = 0 THEN first ELSE Pair(f[n - 1], items[n])]
<1>1. N \in Nat /\ \A i \in 1..N : items[i] \in SoundItems
  BY LenProperties, ElementOfSeq
<1>2. first \in Pairings
  BY DEF Pairings
<1>3. step \in [Pairings -> [SoundItems -> Pairings]]
  BY PairIs
<1>4. \E f \in [0..N -> Pairings] : IsFold(f, first, step, items)
  <2> HIDE DEF step, first
  <2> QED BY <1>2, <1>3, FoldExists
<1>5. PICK f \in [0..N -> Pairings] : f[0] = first /\ \A i \in 1..N : f[i] = step[f[i - 1]][items[i]]
  BY <1>4 DEF IsFold
<1>6. \A i \in 1..N : i - 1 \in 0..N /\ f[i - 1] \in Pairings
  <2> HIDE DEF N, first, step
  <2> QED BY <1>1
<1>7. \A i \in 1..N : f[i] = Pair(f[i - 1], items[i])
  BY <1>1, <1>5, <1>6
<1> HIDE DEF step
<1>8. f = Goes(f)
  <2> HIDE DEF first, N
  <2>1. \A n \in 0..N : f[n] = IF n = 0 THEN first ELSE Pair(f[n - 1], items[n])
    BY <1>1, <1>5, <1>7
  <2> QED BY <2>1
<1>9. /\ PairingOf(items) = CHOOSE g : g = Goes(g)
      /\ PairedUp(items) = (CHOOSE g : g = Goes(g))[N]
  BY DEF PairingOf, PairedUp
<1> DEFINE h == PairingOf(items)
<1>10. h = Goes(h) /\ PairedUp(items) = h[N]
  <2> HIDE DEF Goes
  <2> QED BY <1>8, <1>9
<1> HIDE DEF h
<1>11. h[0] = first /\ \A i \in 1..N : h[i] = Pair(h[i - 1], items[i])
  <2> HIDE DEF N, first
  <2>1. 0 \in 0..N /\ \A i \in 1..N : i \in 0..N /\ i # 0
    BY <1>1
  <2>2. \A n \in 0..N : Goes(h)[n] = IF n = 0 THEN first ELSE Pair(h[n - 1], items[n])
    OBVIOUS
  <2> HIDE DEF Goes
  <2> QED BY <1>10, <2>1, <2>2
<1> QED BY <1>10, <1>11 DEF h

-----------------------------------------------------------------------------
(* Results and their calls *)

LastSaid(items, k) ==
  k \in DOMAIN items /\ ~IsTool(items[k]) /\ \A o \in DOMAIN items : ~IsTool(items[o]) => o <= k
OneResult(items, k, call) == \E m \in DOMAIN items : ToolResults(items, k, call) = {m}

\* What is paired so far is in order, but that calls of the last message may be open.
CallsAnswered(work, k) ==
  \A call \in CallsOf(work.out[k]) :
    IF LastSaid(work.out, k) /\ call \in work.open THEN ToolResults(work.out, k, call) = {}
    ELSE OneResult(work.out, k, call)
PairingIsSound(work) ==
  /\ work \in Pairings
  /\ work.open # {} => \E k : LastSaid(work.out, k)
  /\ \A k : LastSaid(work.out, k) => work.open \subseteq CallsOf(work.out[k])
  /\ \A k \in DOMAIN work.out : IsTool(work.out[k]) => k \in AnsweredTools(work.out)
  /\ \A k \in DOMAIN work.out : ~IsTool(work.out[k]) => CallsAnswered(work, k)

\* A longer sequence has no other results in its first part.
LEMMA LongerIs ==
  ASSUME NEW s \in Seq(SoundItems), NEW more \in Seq(SoundItems)
  PROVE  LET c == s \o more  N == Len(s) IN
         /\ c \in Seq(SoundItems) /\ N \in Nat /\ Len(more) \in Nat
         /\ DOMAIN c = 1..(N + Len(more)) /\ DOMAIN s = 1..N /\ DOMAIN more = 1..Len(more)
         /\ Len(c) = N + Len(more)
         /\ \A k \in 1..N : c[k] = s[k] /\ k \in 1..(N + Len(more))
         /\ \A j \in 1..Len(more) : c[N + j] = more[j] /\ N + j \in 1..(N + Len(more))
         /\ \A k \in 1..(N + Len(more)) : k \in 1..N \/ \E j \in 1..Len(more) : k = N + j
<1> DEFINE c == s \o more
           N == Len(s)
           M == Len(more)
<1>1. N \in Nat /\ M \in Nat /\ DOMAIN s = 1..N /\ DOMAIN more = 1..M
  BY LenProperties
<1>2. /\ c \in Seq(SoundItems) /\ Len(c) = N + M
      /\ \A i \in 1..(N + M) : c[i] = IF i <= N THEN s[i] ELSE more[i - N]
  BY ConcatProperties
<1>3. DOMAIN c = 1..(N + M)
  BY <1>2, LenProperties
<1> HIDE DEF c, N, M
<1>4. \A k \in 1..N : c[k] = s[k] /\ k \in 1..(N + M)
  BY <1>1, <1>2
<1>5. ASSUME NEW j \in 1..M PROVE c[N + j] = more[j] /\ N + j \in 1..(N + M)
  <2>1. N + j \in 1..(N + M) /\ ~(N + j <= N) /\ (N + j) - N = j
    BY <1>1
  <2> QED BY <1>2, <2>1
<1>6. ASSUME NEW k \in 1..(N + M), k \notin 1..N PROVE \E j \in 1..M : k = N + j
  <2>1. k - N \in 1..M /\ k = N + (k - N)
    BY <1>1, <1>6
  <2> QED BY <2>1
<1> QED BY <1>1, <1>2, <1>3, <1>4, <1>5, <1>6 DEF c, N, M

LEMMA LongerResults ==
  ASSUME NEW s \in Seq(SoundItems), NEW more \in Seq(SoundItems),
         NEW k \in DOMAIN s, NEW call
  PROVE  LET c == s \o more  N == Len(s) IN
         /\ \A m \in 1..N : m \in ToolResults(c, k, call) <=> m \in ToolResults(s, k, call)
         /\ \A j \in 1..Len(more) : N + j \in ToolResults(c, k, call) <=>
              /\ more[j].reply = call
              /\ \A o \in k + 1..N : IsTool(s[o])
              /\ \A o \in 1..j : IsTool(more[o])
         /\ ToolResults(c, k, call) \subseteq 1..(N + Len(more)) /\ ToolResults(s, k, call) \subseteq 1..N
<1> DEFINE c == s \o more
           N == Len(s)
           M == Len(more)
<1>1. /\ N \in Nat /\ M \in Nat /\ DOMAIN s = 1..N /\ Len(c) = N + M
      /\ \A i \in 1..N : c[i] = s[i]
      /\ \A j \in 1..M : c[N + j] = more[j] /\ N + j \in 1..(N + M)
  BY LongerIs
<1> HIDE DEF c, N, M
<1>2. ASSUME NEW m \in 1..N PROVE m \in ToolResults(c, k, call) <=> m \in ToolResults(s, k, call)
  <2>1. \A o \in k + 1..m : o \in 1..N
    BY <1>1
  <2>2. m \in k + 1..N <=> m \in k + 1..(N + M)
    BY <1>1
  <2> QED BY <1>1, <2>1, <2>2 DEF ToolResults, N
<1>3. ASSUME NEW j \in 1..M
      PROVE  N + j \in ToolResults(c, k, call) <=>
               /\ more[j].reply = call
               /\ \A o \in k + 1..N : IsTool(s[o])
               /\ \A o \in 1..j : IsTool(more[o])
  <2>0. k \in Nat /\ j \in Nat /\ 1 <= k /\ k <= N /\ 1 <= j /\ j <= M
    BY <1>1
  <2>1. N + j \in k + 1..(N + M)
    BY <1>1, <2>0
  <2>2. /\ \A o \in k + 1..N : o \in k + 1..(N + j) /\ o \in 1..N
        /\ \A o \in 1..j : N + o \in k + 1..(N + j) /\ o \in 1..M
    <3>1. \A o \in k + 1..N : o \in k + 1..(N + j) /\ o \in 1..N
      BY <1>1, <2>0
    <3>2. \A o \in 1..j : N + o \in k + 1..(N + j) /\ o \in 1..M
      BY <1>1, <2>0
    <3> QED BY <3>1, <3>2
  <2>3. ASSUME NEW o \in k + 1..(N + j)
        PROVE  o \in k + 1..N \/ \E p \in 1..j : o = N + p
    <3>1. CASE o <= N
      BY <1>1, <2>0, <3>1
    <3>2. CASE ~(o <= N)
      <4>1. o - N \in 1..j /\ o = N + (o - N)
        BY <1>1, <3>2
      <4> QED BY <4>1
    <3> QED BY <3>1, <3>2
  <2>4. (\A o \in k + 1..(N + j) : IsTool(c[o])) <=>
          (\A o \in k + 1..N : IsTool(s[o])) /\ (\A o \in 1..j : IsTool(more[o]))
    <3>1. \A o \in k + 1..N : c[o] = s[o]
      BY <1>1, <2>2
    <3>2. \A o \in 1..j : c[N + o] = more[o]
      BY <1>1, <2>2
    <3> QED BY <2>2, <2>3, <3>1, <3>2
  <2> QED BY <1>1, <2>1, <2>4 DEF ToolResults
<1>4. ToolResults(c, k, call) \subseteq 1..(N + M) /\ ToolResults(s, k, call) \subseteq 1..N
  BY <1>1 DEF ToolResults, N
<1> QED BY <1>2, <1>3, <1>4 DEF c, N, M

LEMMA LongerAnswers ==
  ASSUME NEW s \in Seq(SoundItems), NEW more \in Seq(SoundItems)
  PROVE  AnsweredTools(s) \subseteq AnsweredTools(s \o more)
<1> DEFINE c == s \o more
           N == Len(s)
<1>1. /\ N \in Nat /\ Len(more) \in Nat /\ DOMAIN s = 1..N /\ DOMAIN c = 1..(N + Len(more))
      /\ \A k \in 1..N : c[k] = s[k] /\ k \in 1..(N + Len(more))
  BY LongerIs
<1> HIDE DEF c, N
<1>2. SUFFICES ASSUME NEW n \in AnsweredTools(s) PROVE n \in AnsweredTools(c)
  BY DEF c
<1>3. PICK m \in 1..n - 1 : s[n].reply \in CallsOf(s[m]) /\ \A k \in m + 1..n : IsTool(s[k])
  BY <1>2 DEF AnsweredTools
<1>4. n \in 1..N /\ IsTool(s[n])
  BY <1>1, <1>2 DEF AnsweredTools
<1>5. m \in 1..N /\ \A k \in m + 1..n : k \in 1..N
  BY <1>1, <1>4
<1>6. c[n] = s[n] /\ c[m] = s[m] /\ \A k \in m + 1..n : c[k] = s[k]
  BY <1>1, <1>4, <1>5
<1> QED BY <1>1, <1>3, <1>4, <1>6 DEF AnsweredTools

\* A message after which there are results only is the last that is no result.
LEMMA LastSaidIs ==
  ASSUME NEW s \in Seq(SoundItems), NEW k \in DOMAIN s, ~IsTool(s[k])
  PROVE  LastSaid(s, k) <=> \A o \in k + 1..Len(s) : IsTool(s[o])
<1>1. Len(s) \in Nat /\ DOMAIN s = 1..Len(s)
  BY LenProperties
<1>2. \A o \in DOMAIN s : o <= k \/ o \in k + 1..Len(s)
  BY <1>1
<1>3. \A o \in k + 1..Len(s) : o \in DOMAIN s /\ ~(o <= k)
  BY <1>1
<1> QED BY <1>2, <1>3 DEF LastSaid

\* Results of calls that are open, one of each, ...
AreResultsFor(more, work) ==
  /\ more \in Seq(SoundItems)
  /\ \A j \in DOMAIN more : IsTool(more[j]) /\ more[j].reply \in work.open
  /\ \A i, j \in DOMAIN more : more[i].reply = more[j].reply => i = j
WithResults(next, work, more) ==
  /\ next \in Pairings /\ next.out = work.out \o more
  /\ next.open = work.open \ {more[j].reply : j \in DOMAIN more}

\* ... keep the pairing sound.
LEMMA ResultsAreSound ==
  ASSUME NEW work, PairingIsSound(work), NEW more, AreResultsFor(more, work),
         NEW next, WithResults(next, work, more)
  PROVE  PairingIsSound(next)
<1> DEFINE s == work.out
           c == next.out
           N == Len(s)
           M == Len(more)
<1>0. c = s \o more /\ more \in Seq(SoundItems)
  BY DEF AreResultsFor, WithResults
<1> HIDE DEF c
<1>1. s \in Seq(SoundItems) /\ work.open \in SUBSET ContextCalls
  BY DEF PairingIsSound, Pairings
<1> HIDE DEF s
<1>2. /\ N \in Nat /\ M \in Nat
      /\ DOMAIN c = 1..(N + M) /\ DOMAIN s = 1..N /\ DOMAIN more = 1..M
      /\ \A k \in 1..N : c[k] = s[k] /\ k \in 1..(N + M)
      /\ \A j \in 1..M : c[N + j] = more[j] /\ N + j \in 1..(N + M)
      /\ \A k \in 1..(N + M) : k \in 1..N \/ \E j \in 1..M : k = N + j
  BY <1>0, <1>1, LongerIs
<1>3. ASSUME NEW k \in 1..N, NEW call
      PROVE
        /\ \A m \in 1..N : m \in ToolResults(c, k, call) <=> m \in ToolResults(s, k, call)
        /\ \A j \in 1..M : N + j \in ToolResults(c, k, call) <=>
             /\ more[j].reply = call
             /\ \A o \in k + 1..N : IsTool(s[o])
             /\ \A o \in 1..j : IsTool(more[o])
        /\ ToolResults(c, k, call) \subseteq 1..(N + M) /\ ToolResults(s, k, call) \subseteq 1..N
  <2>1. k \in DOMAIN s
    BY <1>2
  <2>2. LET d == s \o more IN
        /\ \A m \in 1..N : m \in ToolResults(d, k, call) <=> m \in ToolResults(s, k, call)
        /\ \A j \in 1..M : N + j \in ToolResults(d, k, call) <=>
             /\ more[j].reply = call
             /\ \A o \in k + 1..N : IsTool(s[o])
             /\ \A o \in 1..j : IsTool(more[o])
        /\ ToolResults(d, k, call) \subseteq 1..(N + M) /\ ToolResults(s, k, call) \subseteq 1..N
    BY <1>0, <1>1, <2>1, LongerResults
  <2> QED BY <1>0, <2>2
<1>4. AnsweredTools(s) \subseteq AnsweredTools(c)
  BY <1>0, <1>1, LongerAnswers
<1>5. \A k \in 1..N : ~IsTool(s[k]) => (LastSaid(s, k) <=> \A o \in k + 1..N : IsTool(s[o]))
  BY <1>1, <1>2, LastSaidIs
<1> HIDE DEF N, M
<1>6. /\ \A j \in 1..M : IsTool(more[j]) /\ more[j].reply \in work.open
      /\ \A i, j \in 1..M : more[i].reply = more[j].reply => i = j
      /\ \A call : call \in next.open <=>
           call \in work.open /\ \A j \in 1..M : more[j].reply # call
      /\ next \in Pairings
  BY <1>2 DEF AreResultsFor, WithResults
<1>13. \A j \in 1..M : \A o \in 1..j : o \in 1..M
  BY <1>2
<1>7. ASSUME NEW k PROVE LastSaid(c, k) <=> LastSaid(s, k)
  <2>1. \A o \in 1..(N + M) : ~IsTool(c[o]) => o \in 1..N
    <3>1. SUFFICES ASSUME NEW o \in 1..(N + M), o \notin 1..N PROVE IsTool(c[o])
      OBVIOUS
    <3>2. PICK j \in 1..M : o = N + j
      BY <1>2, <3>1
    <3> QED BY <1>2, <1>6, <3>2
  <2>2. \A o \in 1..N : (IsTool(c[o]) <=> IsTool(s[o])) /\ o \in 1..(N + M)
    BY <1>2
  <2>3. DOMAIN c = 1..(N + M) /\ DOMAIN s = 1..N
    BY <1>2
  <2> QED BY <2>1, <2>2, <2>3, Zenon DEF LastSaid
<1>8. ASSUME NEW k \in 1..N, ~IsTool(s[k]), NEW call, NEW j \in 1..M
      PROVE  N + j \in ToolResults(c, k, call) <=> more[j].reply = call /\ LastSaid(s, k)
  <2>1. \A o \in 1..j : IsTool(more[o])
    BY <1>6, <1>13
  <2> QED BY <1>3, <1>5, <1>8, <2>1
<1>9. next.open # {} => \E k : LastSaid(c, k)
  BY <1>6, <1>7 DEF PairingIsSound, s
<1>10. ASSUME NEW k, LastSaid(c, k) PROVE next.open \subseteq CallsOf(c[k])
  <2>1. LastSaid(s, k) /\ c[k] = s[k]
    BY <1>2, <1>7, <1>10 DEF LastSaid
  <2>2. work.open \subseteq CallsOf(s[k])
    BY <2>1 DEF PairingIsSound, s
  <2> QED BY <1>6, <2>1, <2>2
<1>11. ASSUME NEW k \in 1..(N + M), IsTool(c[k]) PROVE k \in AnsweredTools(c)
  <2>1. CASE k \in 1..N
    BY <1>2, <1>4, <1>11, <2>1 DEF PairingIsSound, s
  <2>2. CASE k \notin 1..N
    <3>1. PICK j \in 1..M : k = N + j
      BY <1>2, <2>2
    <3>2. PICK last : LastSaid(s, last)
      BY <1>6 DEF PairingIsSound, s
    <3>3. last \in 1..N /\ ~IsTool(s[last])
      BY <1>2, <3>2 DEF LastSaid
    <3>4. more[j].reply \in CallsOf(s[last])
      BY <1>6, <3>2 DEF PairingIsSound, s
    <3>5. k \in ToolResults(c, last, more[j].reply)
      BY <1>8, <3>1, <3>2, <3>3
    <3>6. last \in 1..k - 1 /\ c[last] = s[last] /\ c[k] = more[j]
      <4>1. last \in 1..k - 1
        BY <1>2, <3>1, <3>3
      <4> QED BY <1>2, <3>1, <3>3, <4>1
    <3>7. \A o \in last + 1..k : IsTool(c[o])
      BY <3>5 DEF ToolResults
    <3> QED BY <1>2, <1>11, <3>4, <3>6, <3>7 DEF AnsweredTools
  <2> QED BY <2>1, <2>2
<1>12. ASSUME NEW k \in 1..(N + M), ~IsTool(c[k]) PROVE CallsAnswered(next, k)
  <2>1. k \in 1..N /\ c[k] = s[k] /\ ~IsTool(s[k])
    <3>1. k \in 1..N
      <4>1. ASSUME NEW j \in 1..M PROVE k # N + j
        <5>1. IsTool(c[N + j])
          BY <1>2, <1>6
        <5> QED BY <1>12, <5>1
      <4> QED BY <1>2, <4>1
    <3> QED BY <1>2, <1>12, <3>1
  <2>2. CallsAnswered(work, k)
    BY <1>2, <2>1 DEF PairingIsSound, s
  <2> SUFFICES ASSUME NEW call \in CallsOf(s[k])
               PROVE  IF LastSaid(c, k) /\ call \in next.open THEN ToolResults(c, k, call) = {}
                      ELSE OneResult(c, k, call)
    BY <2>1 DEF CallsAnswered, c
  <2>3. IF LastSaid(s, k) /\ call \in work.open THEN ToolResults(s, k, call) = {}
        ELSE OneResult(s, k, call)
    BY <2>2 DEF CallsAnswered, s
  <2> DEFINE R == ToolResults(c, k, call)
             Q == ToolResults(s, k, call)
  <2>4. /\ \A m \in 1..N : m \in R <=> m \in Q
        /\ \A j \in 1..M : N + j \in R <=> more[j].reply = call /\ LastSaid(s, k)
        /\ R \subseteq 1..(N + M) /\ Q \subseteq 1..N
    BY <1>3, <1>8, <2>1
  <2> HIDE DEF R, Q
  <2>5. CASE LastSaid(s, k) /\ call \in next.open
    <3>1. Q = {} /\ \A j \in 1..M : more[j].reply # call
      BY <1>6, <2>3, <2>5 DEF Q
    <3>2. \A m \in 1..(N + M) : m \notin R
      BY <1>2, <2>4, <3>1
    <3>3. R = {}
      BY <2>4, <3>2
    <3> QED BY <1>7, <2>5, <3>3 DEF R
  <2>6. CASE LastSaid(s, k) /\ call \in work.open /\ call \notin next.open
    <3>1. PICK j \in 1..M : more[j].reply = call
      BY <1>6, <2>6
    <3>2. Q = {}
      BY <2>3, <2>6 DEF Q
    <3>3. \A i \in 1..M : more[i].reply = call => i = j
      BY <1>6, <3>1
    <3>4. \A m \in 1..(N + M) : m \in R => m = N + j
      <4>1. \A m \in 1..N : m \notin R
        BY <2>4, <3>2
      <4>2. \A i \in 1..M : N + i \in R => N + i = N + j
        BY <2>4, <3>3
      <4> QED BY <1>2, <4>1, <4>2
    <3>5. N + j \in R /\ N + j \in 1..(N + M)
      BY <1>2, <2>4, <2>6, <3>1
    <3>6. R = {N + j}
      BY <2>4, <3>4, <3>5
    <3>7. OneResult(c, k, call)
      BY <1>2, <3>5, <3>6 DEF OneResult, R
    <3> QED BY <2>6, <3>7
  <2>7. CASE ~(LastSaid(s, k) /\ call \in work.open)
    <3>1. PICK q \in DOMAIN s : Q = {q}
      BY <2>3, <2>7 DEF OneResult, Q
    <3>2. \A j \in 1..M : N + j \notin R
      BY <1>6, <2>4, <2>7
    <3>3. q \in 1..N /\ q \in 1..(N + M) /\ q \in R
      BY <1>2, <2>4, <3>1
    <3>4. \A m \in 1..(N + M) : m \in R => m = q
      BY <1>2, <2>4, <3>1, <3>2
    <3>5. R = {q}
      BY <2>4, <3>3, <3>4
    <3>6. OneResult(c, k, call)
      BY <1>2, <3>3, <3>5 DEF OneResult, R
    <3>7. ~(LastSaid(c, k) /\ call \in next.open)
      BY <1>6, <1>7, <2>7
    <3> QED BY <3>6, <3>7
  <2> QED BY <2>5, <2>6, <2>7
<1> QED BY <1>2, <1>6, <1>9, <1>10, <1>11, <1>12 DEF PairingIsSound, c

\* So does a message that is no result, when no call is open.
LEMMA SaidIsSound ==
  ASSUME NEW work, PairingIsSound(work), work.open = {}, NEW m \in SoundItems, ~IsTool(m)
  PROVE  PairingIsSound([out |-> work.out \o <<m>>, open |-> CallsOf(m)])
<1> DEFINE s == work.out
           more == <<m>>
           next == [out |-> work.out \o <<m>>, open |-> CallsOf(m)]
           c == next.out
           N == Len(s)
<1>1. s \in Seq(SoundItems) /\ more \in Seq(SoundItems) /\ CallsOf(m) \in SUBSET ContextCalls
  BY DEF PairingIsSound, Pairings, SoundItems
<1>2. Len(more) = 1 /\ DOMAIN more = 1..1 /\ more[1] = m
  OBVIOUS
<1>3. c = s \o more /\ next.open = CallsOf(m)
  OBVIOUS
<1> HIDE DEF more, c, next
<1>4. /\ c \in Seq(SoundItems) /\ N \in Nat
      /\ DOMAIN c = 1..(N + 1) /\ DOMAIN s = 1..N
      /\ \A k \in 1..N : c[k] = s[k] /\ k \in 1..(N + 1)
      /\ c[N + 1] = m /\ N + 1 \in 1..(N + 1) /\ Len(c) = N + 1
  <2>1. LET d == s \o more IN
        /\ d \in Seq(SoundItems) /\ N \in Nat /\ Len(more) \in Nat
        /\ DOMAIN d = 1..(N + Len(more)) /\ DOMAIN s = 1..N
        /\ Len(d) = N + Len(more)
        /\ \A k \in 1..N : d[k] = s[k] /\ k \in 1..(N + Len(more))
        /\ \A j \in 1..Len(more) : d[N + j] = more[j] /\ N + j \in 1..(N + Len(more))
    BY <1>1, LongerIs
  <2>2. 1 \in 1..1
    OBVIOUS
  <2> QED BY <1>2, <1>3, <2>1, <2>2
<1>5. ASSUME NEW k \in 1..N, NEW call PROVE ToolResults(c, k, call) = ToolResults(s, k, call)
  <2>1. /\ \A n \in 1..N : n \in ToolResults(c, k, call) <=> n \in ToolResults(s, k, call)
        /\ \A j \in 1..1 : N + j \in ToolResults(c, k, call) => \A o \in 1..j : IsTool(more[o])
        /\ ToolResults(c, k, call) \subseteq 1..(N + 1) /\ ToolResults(s, k, call) \subseteq 1..N
    BY <1>1, <1>2, <1>3, <1>4, LongerResults
  <2>2. N + 1 \notin ToolResults(c, k, call)
    <3>1. 1 \in 1..1
      OBVIOUS
    <3> QED BY <1>2, <2>1, <3>1
  <2>3. \A n \in 1..(N + 1) : n \in 1..N \/ n = N + 1
    BY <1>4
  <2> QED BY <2>1, <2>2, <2>3
<1>6. AnsweredTools(s) \subseteq AnsweredTools(c)
  BY <1>1, <1>3, LongerAnswers
<1> HIDE DEF N
<1>7. \A k \in 1..(N + 1) : k \in 1..N \/ k = N + 1
  BY <1>4
<1>8. \A k : LastSaid(c, k) <=> k = N + 1
  <2>1. \A k \in 1..N : ~(N + 1 <= k)
    BY <1>4
  <2>2. \A k \in 1..(N + 1) : k <= N + 1
    BY <1>4
  <2> QED BY <1>4, <1>7, <2>1, <2>2 DEF LastSaid
<1>9. next \in Pairings
  BY <1>1, <1>3, <1>4 DEF Pairings, next, c
<1>10. ASSUME NEW k \in 1..(N + 1), IsTool(c[k]) PROVE k \in AnsweredTools(c)
  <2>1. k \in 1..N /\ c[k] = s[k]
    BY <1>4, <1>7, <1>10
  <2> QED BY <1>4, <1>6, <1>10, <2>1 DEF PairingIsSound
<1>11. ASSUME NEW k \in 1..(N + 1), ~IsTool(c[k]) PROVE CallsAnswered(next, k)
  <2>1. CASE k = N + 1
    <3>1. \A call : ToolResults(c, k, call) = {}
      BY <1>4, <2>1 DEF ToolResults
    <3> QED BY <1>3, <1>4, <1>8, <2>1, <3>1 DEF CallsAnswered, c
  <2>2. CASE k # N + 1
    <3>1. k \in 1..N /\ c[k] = s[k] /\ ~LastSaid(c, k)
      BY <1>4, <1>7, <1>8, <1>11, <2>2
    <3>2. \A call \in CallsOf(s[k]) : OneResult(s, k, call)
      BY <1>4, <1>11, <3>1 DEF PairingIsSound, CallsAnswered
    <3>3. ASSUME NEW call \in CallsOf(s[k]) PROVE OneResult(c, k, call)
      BY <1>4, <1>5, <3>1, <3>2 DEF OneResult
    <3> QED BY <3>1, <3>3 DEF CallsAnswered, c
  <2> QED BY <2>1, <2>2
<1>12. PairingIsSound(next)
  BY <1>3, <1>4, <1>8, <1>9, <1>10, <1>11 DEF PairingIsSound, c
<1> QED BY <1>12 DEF next

-----------------------------------------------------------------------------
(* Where what is paired comes from *)

ToBeSent(items, n) == ~IsTool(items[n]) \/ n \in AnsweredTools(items)
\* Each is an item of its own, in their order, or a stub; nothing is lost.
ComesFromItems(items, n, out, from) ==
  /\ from \in [DOMAIN out -> 0..n]
  /\ \A k, o \in DOMAIN out : k < o /\ from[k] # 0 /\ from[o] # 0 => from[k] < from[o]
  /\ \A k \in DOMAIN out : IF from[k] = 0 THEN out[k].of = {} ELSE out[k] = items[from[k]]
  /\ \A i \in 1..n : ToBeSent(items, i) => \E k \in DOMAIN out : from[k] = i

AreStubs(pad) == pad \in Seq(SoundItems) /\ \A j \in DOMAIN pad : pad[j].of = {}
WithZeros(from, N, M) == [k \in 1..(N + M) |-> IF k <= N THEN from[k] ELSE 0]

LEMMA StubsComeFromNone ==
  ASSUME NEW items, NEW n \in Nat, NEW out \in Seq(SoundItems), NEW from,
         ComesFromItems(items, n, out, from), NEW pad, AreStubs(pad)
  PROVE  ComesFromItems(items, n, out \o pad, WithZeros(from, Len(out), Len(pad)))
<1> DEFINE c == out \o pad
           N == Len(out)
           M == Len(pad)
           more == WithZeros(from, N, M)
<1>0. pad \in Seq(SoundItems)
  BY DEF AreStubs
<1>1. /\ N \in Nat /\ M \in Nat
      /\ DOMAIN c = 1..(N + M) /\ DOMAIN out = 1..N /\ DOMAIN pad = 1..M
      /\ \A k \in 1..N : c[k] = out[k] /\ k \in 1..(N + M)
      /\ \A j \in 1..M : c[N + j] = pad[j] /\ N + j \in 1..(N + M)
      /\ \A k \in 1..(N + M) : k \in 1..N \/ \E j \in 1..M : k = N + j
  BY <1>0, LongerIs
<1>2. more = [k \in 1..(N + M) |-> IF k <= N THEN from[k] ELSE 0]
  BY DEF WithZeros
<1> HIDE DEF c, N, M, more
<1>3. /\ from \in [1..N -> 0..n]
      /\ \A k, o \in 1..N : k < o /\ from[k] # 0 /\ from[o] # 0 => from[k] < from[o]
      /\ \A k \in 1..N : IF from[k] = 0 THEN out[k].of = {} ELSE out[k] = items[from[k]]
      /\ \A i \in 1..n : ToBeSent(items, i) => \E k \in 1..N : from[k] = i
  BY <1>1 DEF ComesFromItems
<1>4. \A k \in 1..N : more[k] = from[k]
  BY <1>1, <1>2
<1>5. \A j \in 1..M : more[N + j] = 0 /\ c[N + j].of = {}
  <2>1. ASSUME NEW j \in 1..M PROVE more[N + j] = 0
    <3>1. ~(N + j <= N)
      BY <1>1
    <3> QED BY <1>1, <1>2, <3>1
  <2> QED BY <1>1, <2>1 DEF AreStubs
<1>6. more \in [1..(N + M) -> 0..n]
  <2>1. \A k \in 1..(N + M) : more[k] \in 0..n
    <3>1. \A k \in 1..N : more[k] \in 0..n
      BY <1>3, <1>4
    <3>2. \A j \in 1..M : more[N + j] \in 0..n
      BY <1>5
    <3> QED BY <1>1, <3>1, <3>2
  <2> QED BY <1>2, <2>1
<1>7. \A k \in 1..(N + M) : more[k] # 0 => k \in 1..N
  BY <1>1, <1>5
<1>8. \A k, o \in 1..(N + M) : k < o /\ more[k] # 0 /\ more[o] # 0 => more[k] < more[o]
  BY <1>3, <1>4, <1>7
<1>9. ASSUME NEW k \in 1..(N + M)
      PROVE  IF more[k] = 0 THEN c[k].of = {} ELSE c[k] = items[more[k]]
  <2>1. CASE k \in 1..N
    BY <1>1, <1>3, <1>4, <2>1
  <2>2. CASE k \notin 1..N
    BY <1>1, <1>5, <2>2
  <2> QED BY <2>1, <2>2
<1>10. ASSUME NEW i \in 1..n, ToBeSent(items, i) PROVE \E k \in 1..(N + M) : more[k] = i
  <2>1. PICK k \in 1..N : from[k] = i
    BY <1>3, <1>10
  <2> QED BY <1>1, <1>4, <2>1
<1>11. ComesFromItems(items, n, c, more)
  BY <1>1, <1>6, <1>8, <1>9, <1>10 DEF ComesFromItems
<1> QED BY <1>11 DEF c, N, M, more

WithNext(from, N, n) == [k \in 1..(N + 1) |-> IF k <= N THEN from[k] ELSE n + 1]

LEMMA NextComesFromItems ==
  ASSUME NEW items \in Seq(SoundItems), NEW n \in 0..(Len(items) - 1),
         NEW out \in Seq(SoundItems), NEW from, ComesFromItems(items, n, out, from)
  PROVE  ComesFromItems(items, n + 1, Append(out, items[n + 1]), WithNext(from, Len(out), n))
<1> DEFINE c == Append(out, items[n + 1])
           N == Len(out)
           m == items[n + 1]
           more == WithNext(from, N, n)
<1>0. m \in SoundItems /\ n \in Nat
  <2>1. Len(items) \in Nat
    BY LenProperties
  <2>2. n + 1 \in 1..Len(items)
    BY <2>1
  <2> QED BY <2>1, <2>2, ElementOfSeq
<1>1. /\ N \in Nat /\ DOMAIN c = 1..(N + 1) /\ DOMAIN out = 1..N
      /\ \A k \in 1..N : c[k] = out[k]
      /\ c[N + 1] = m
  <2>1. c \in Seq(SoundItems) /\ Len(c) = N + 1
    BY <1>0, AppendProperties
  <2> QED BY <1>0, <2>1, AppendProperties, LenProperties
<1>2. more = [k \in 1..(N + 1) |-> IF k <= N THEN from[k] ELSE n + 1]
  BY DEF WithNext
<1> HIDE DEF c, N, m, more
<1>3. /\ from \in [1..N -> 0..n]
      /\ \A k, o \in 1..N : k < o /\ from[k] # 0 /\ from[o] # 0 => from[k] < from[o]
      /\ \A k \in 1..N : IF from[k] = 0 THEN out[k].of = {} ELSE out[k] = items[from[k]]
      /\ \A i \in 1..n : ToBeSent(items, i) => \E k \in 1..N : from[k] = i
  BY <1>1 DEF ComesFromItems
<1>4. /\ \A k \in 1..N : more[k] = from[k] /\ k \in 1..(N + 1)
      /\ more[N + 1] = n + 1 /\ N + 1 \in 1..(N + 1)
      /\ \A k \in 1..(N + 1) : k \in 1..N \/ k = N + 1
  <2>1. \A k \in 1..N : k <= N /\ k \in 1..(N + 1)
    BY <1>1
  <2>2. N + 1 \in 1..(N + 1) /\ ~(N + 1 <= N) /\ \A k \in 1..(N + 1) : k \in 1..N \/ k = N + 1
    BY <1>1
  <2> QED BY <1>2, <2>1, <2>2
<1>6. more \in [1..(N + 1) -> 0..(n + 1)]
  <2>1. \A k \in 0..n : k \in 0..(n + 1)
    BY <1>0
  <2>2. n + 1 \in 0..(n + 1)
    BY <1>0
  <2>3. \A k \in 1..N : more[k] \in 0..(n + 1)
    BY <1>3, <1>4, <2>1
  <2>4. \A k \in 1..(N + 1) : more[k] \in 0..(n + 1)
    BY <1>4, <2>2, <2>3
  <2> QED BY <1>2, <2>4
<1>8. ASSUME NEW k \in 1..(N + 1), NEW o \in 1..(N + 1), k < o, more[k] # 0, more[o] # 0
      PROVE  more[k] < more[o]
  <2>1. k \in 1..N
    BY <1>1, <1>8
  <2>2. CASE o \in 1..N
    BY <1>3, <1>4, <1>8, <2>1, <2>2
  <2>3. CASE o = N + 1
    <3>1. from[k] \in 0..n /\ more[k] = from[k] /\ more[o] = n + 1
      BY <1>3, <1>4, <2>1, <2>3
    <3> QED BY <1>0, <3>1
  <2> QED BY <1>4, <2>2, <2>3
<1>9. ASSUME NEW k \in 1..(N + 1)
      PROVE  IF more[k] = 0 THEN c[k].of = {} ELSE c[k] = items[more[k]]
  <2>1. CASE k \in 1..N
    BY <1>1, <1>3, <1>4, <2>1
  <2>2. CASE k = N + 1
    <3>1. n + 1 # 0
      BY <1>0
    <3> QED BY <1>1, <1>4, <2>2, <3>1 DEF m
  <2> QED BY <1>4, <2>1, <2>2
<1>10. ASSUME NEW i \in 1..(n + 1), ToBeSent(items, i) PROVE \E k \in 1..(N + 1) : more[k] = i
  <2>1. CASE i = n + 1
    BY <1>4, <2>1
  <2>2. CASE i # n + 1
    <3>1. i \in 1..n
      BY <1>0, <2>2
    <3>2. PICK k \in 1..N : from[k] = i
      BY <1>3, <1>10, <3>1
    <3> QED BY <1>4, <3>2
  <2> QED BY <2>1, <2>2
<1>11. ComesFromItems(items, n + 1, c, more)
  BY <1>1, <1>6, <1>8, <1>9, <1>10 DEF ComesFromItems
<1> QED BY <1>11 DEF c, N, m, more

\* The open calls are those of the last message that have no result yet.
OpenIs(items, n, open) ==
  \A m \in 1..n : ~IsTool(items[m]) /\ (\A o \in m + 1..n : IsTool(items[o])) =>
    open = CallsOf(items[m]) \ {items[j].reply : j \in m + 1..n}

\* One result of a call at most.
ItemsDiffer(items) ==
  \A i, j \in DOMAIN items :
    i < j /\ (\A k \in i..j : IsTool(items[k])) => items[i].reply # items[j].reply

LEMMA OpenNext ==
  ASSUME NEW items, NEW n \in Nat, NEW work, OpenIs(items, n, work.open)
  PROVE  OpenIs(items, n + 1, Pair(work, items[n + 1]).open)
<1> DEFINE x == items[n + 1]
           next == Pair(work, x)
<1>1. IsTool(x) => next.open = work.open \ {x.reply}
  <2>1. CASE x.reply \in work.open
    BY <2>1 DEF Pair
  <2>2. CASE x.reply \notin work.open
    BY <2>2 DEF Pair
  <2> QED BY <2>1, <2>2
<1>2. ~IsTool(x) => next.open = CallsOf(x)
  BY DEF Pair
<1> HIDE DEF next
<1>3. SUFFICES ASSUME NEW m \in 1..(n + 1), ~IsTool(items[m]),
                      \A o \in m + 1..(n + 1) : IsTool(items[o])
               PROVE  next.open = CallsOf(items[m]) \ {items[j].reply : j \in m + 1..(n + 1)}
  BY DEF OpenIs, next, x
<1>4. CASE m = n + 1
  <2>1. m + 1..(n + 1) = {}
    BY <1>4
  <2> QED BY <1>2, <1>3, <1>4, <2>1
<1>5. CASE m # n + 1
  <2>1. m \in 1..n /\ n + 1 \in m + 1..(n + 1) /\ \A o \in m + 1..n : o \in m + 1..(n + 1)
    BY <1>5
  <2>2. work.open = CallsOf(items[m]) \ {items[j].reply : j \in m + 1..n}
    BY <1>3, <2>1 DEF OpenIs
  <2>3. next.open = work.open \ {x.reply}
    BY <1>1, <1>3, <2>1
  <2>4. \A j \in m + 1..(n + 1) : j \in m + 1..n \/ j = n + 1
    BY <2>1
  <2>5. {items[j].reply : j \in m + 1..(n + 1)} = {items[j].reply : j \in m + 1..n} \cup {x.reply}
    <3> HIDE DEF x
    <3>1. items[n + 1] = x
      BY DEF x
    <3> QED BY <2>1, <2>4, <3>1
  <2> QED BY <2>2, <2>3, <2>5
<1> QED BY <1>4, <1>5

\* A result that was asked for is taken.
LEMMA AnsweredIsTaken ==
  ASSUME NEW items \in Seq(SoundItems), ItemsDiffer(items), NEW n \in 0..(Len(items) - 1),
         NEW open, OpenIs(items, n, open), n + 1 \in AnsweredTools(items)
  PROVE  items[n + 1].reply \in open
<1>0. Len(items) \in Nat /\ n \in Nat /\ DOMAIN items = 1..Len(items) /\ n + 1 \in 1..Len(items)
  BY LenProperties
<1>1. PICK m \in 1..n : /\ items[n + 1].reply \in CallsOf(items[m])
                        /\ \A k \in m + 1..(n + 1) : IsTool(items[k])
  <2>1. (n + 1) - 1 = n
    BY <1>0
  <2> QED BY <2>1 DEF AnsweredTools
<1>2. m \in 1..Len(items) /\ items[m] \in SoundItems
  <2>1. m \in 1..Len(items)
    BY <1>0
  <2> QED BY <2>1, ElementOfSeq
<1>3. ~IsTool(items[m])
  BY <1>1, <1>2 DEF SoundItems
<1>4. \A o \in m + 1..n : IsTool(items[o])
  <2>1. \A o \in m + 1..n : o \in m + 1..(n + 1)
    BY <1>0
  <2> QED BY <1>1, <2>1
<1>5. open = CallsOf(items[m]) \ {items[j].reply : j \in m + 1..n}
  BY <1>3, <1>4 DEF OpenIs
<1>6. ASSUME NEW j \in m + 1..n PROVE items[j].reply # items[n + 1].reply
  <2>1. j \in 1..Len(items) /\ j < n + 1 /\ \A k \in j..(n + 1) : k \in m + 1..(n + 1)
    BY <1>0
  <2> QED BY <1>0, <1>1, <2>1 DEF ItemsDiffer
<1> QED BY <1>1, <1>5, <1>6


-----------------------------------------------------------------------------
(* One item more, and all *)

\* What is paired of the first n items.
PairedSoFar(items, n, work) ==
  /\ PairingIsSound(work)
  /\ OpenIs(items, n, work.open)
  /\ \E from : ComesFromItems(items, n, work.out, from)

Closed(work) == [out |-> work.out \o Stubs(work.open), open |-> {}]

\* Every open call gets a stub.
LEMMA ClosedIsSound ==
  ASSUME ContextAssumption, NEW items, NEW n \in Nat, NEW work, PairingIsSound(work),
         NEW from, ComesFromItems(items, n, work.out, from)
  PROVE  /\ PairingIsSound(Closed(work)) /\ Closed(work).out \in Seq(SoundItems)
         /\ \E more : ComesFromItems(items, n, Closed(work).out, more)
<1> DEFINE pad == Stubs(work.open)
           next == Closed(work)
<1>1. work.out \in Seq(SoundItems) /\ work.open \in SUBSET ContextCalls
  BY DEF PairingIsSound, Pairings
<1>2. /\ pad \in Seq(SoundItems)
      /\ \A i \in 1..Len(pad) : IsTool(pad[i]) /\ pad[i].reply \in work.open /\ pad[i].of = {}
      /\ \A i, j \in 1..Len(pad) : pad[i].reply = pad[j].reply => i = j
      /\ \A call \in work.open : \E i \in 1..Len(pad) : pad[i].reply = call
  <2> DEFINE open == work.open
  <2>1. open \in SUBSET ContextCalls
    BY <1>1
  <2> HIDE DEF open
  <2>2. /\ Stubs(open) \in Seq(SoundItems) /\ Len(Stubs(open)) = Cardinality(open)
        /\ \A i \in 1..Cardinality(open) :
             IsTool(Stubs(open)[i]) /\ Stubs(open)[i].reply \in open /\ Stubs(open)[i].of = {}
        /\ \A i, j \in 1..Cardinality(open) : Stubs(open)[i].reply = Stubs(open)[j].reply => i = j
        /\ \A call \in open : \E i \in 1..Cardinality(open) : Stubs(open)[i].reply = call
    BY <2>1, StubsAre, Zenon
  <2> QED BY <2>2 DEF open
<1>3. next.out = work.out \o pad /\ next.open = {}
  BY DEF Closed
<1> HIDE DEF pad
<1>4. DOMAIN pad = 1..Len(pad)
  BY <1>2, LenProperties
<1>5. next.out \in Seq(SoundItems)
  BY <1>1, <1>2, <1>3, ConcatProperties
<1>6. next \in Pairings
  <2>1. next = [out |-> next.out, open |-> {}]
    BY DEF Closed
  <2> HIDE DEF next, SoundItems
  <2>2. {} \in SUBSET ContextCalls
    OBVIOUS
  <2> QED BY <1>5, <2>1, <2>2 DEF Pairings
<1> HIDE DEF next
<1>7. AreResultsFor(pad, work)
  BY <1>2, <1>4 DEF AreResultsFor
<1>8. work.open \ {pad[j].reply : j \in DOMAIN pad} = {}
  <2>1. ASSUME NEW call \in work.open PROVE call \in {pad[j].reply : j \in DOMAIN pad}
    <3>1. PICK i \in 1..Len(pad) : pad[i].reply = call
      BY <1>2
    <3>2. i \in DOMAIN pad
      BY <1>4
    <3> QED BY <3>1, <3>2, Zenon
  <2> QED BY <2>1, Zenon
<1>9. WithResults(next, work, pad)
  BY <1>3, <1>6, <1>8 DEF WithResults
<1>10. PairingIsSound(next)
  BY <1>7, <1>9, ResultsAreSound
<1>11. AreStubs(pad)
  BY <1>2, <1>4 DEF AreStubs
<1>12. ComesFromItems(items, n, work.out \o pad, WithZeros(from, Len(work.out), Len(pad)))
  BY <1>1, <1>11, StubsComeFromNone
<1> QED BY <1>3, <1>5, <1>10, <1>12 DEF next

LEMMA PairedNext ==
  ASSUME ContextAssumption, NEW items \in Seq(SoundItems), ItemsDiffer(items),
         NEW n \in 0..(Len(items) - 1), NEW work, PairedSoFar(items, n, work)
  PROVE  PairedSoFar(items, n + 1, Pair(work, items[n + 1]))
<1> DEFINE x == items[n + 1]
           next == Pair(work, x)
<1>0. n \in Nat /\ n + 1 \in 1..Len(items) /\ DOMAIN items = 1..Len(items)
  <2>1. Len(items) \in Nat
    BY LenProperties
  <2> QED BY <2>1, LenProperties
<1>1. x \in SoundItems
  BY <1>0, ElementOfSeq
<1>2. PairingIsSound(work) /\ OpenIs(items, n, work.open)
  BY DEF PairedSoFar
<1>3. PICK from : ComesFromItems(items, n, work.out, from)
  BY DEF PairedSoFar
<1>4. work.out \in Seq(SoundItems) /\ work.open \in SUBSET ContextCalls /\ work \in Pairings
  BY <1>2 DEF PairingIsSound, Pairings
<1>5. OpenIs(items, n + 1, next.open)
  BY <1>0, <1>2, OpenNext
<1>6. CASE ~IsTool(x)
  <2>1. /\ PairingIsSound(Closed(work)) /\ Closed(work).out \in Seq(SoundItems)
        /\ \E more : ComesFromItems(items, n, Closed(work).out, more)
    BY <1>0, <1>2, <1>3, ClosedIsSound
  <2>2. PICK more : ComesFromItems(items, n, Closed(work).out, more)
    BY <2>1
  <2> DEFINE done == Closed(work)
  <2>3. done.open = {} /\ done.out = work.out \o Stubs(work.open)
    BY DEF Closed
  <2>4. next = [out |-> done.out \o <<x>>, open |-> CallsOf(x)]
    <3>1. next = [out |-> work.out \o Stubs(work.open) \o <<x>>, open |-> CallsOf(x)]
      BY <1>6 DEF Pair
    <3> HIDE DEF done, next, x
    <3> QED BY <2>3, <3>1
  <2> HIDE DEF done, next, x
  <2>5. PairingIsSound(next)
    <3>1. PairingIsSound([out |-> done.out \o <<x>>, open |-> CallsOf(x)])
      BY <1>1, <1>6, <2>1, <2>3, SaidIsSound DEF done
    <3> QED BY <2>4, <3>1
  <2>6. next.out = Append(done.out, x)
    <3>1. Append(done.out, x) = done.out \o <<x>>
      BY <1>1, <2>1, AppendIsConcat DEF done
    <3> QED BY <2>4, <3>1
  <2>7. ComesFromItems(items, n + 1, Append(done.out, x), WithNext(more, Len(done.out), n))
    BY <2>1, <2>2, NextComesFromItems DEF done, x
  <2> QED BY <1>5, <2>5, <2>6, <2>7 DEF PairedSoFar, next, x
<1>7. CASE IsTool(x) /\ x.reply \in work.open
  <2> DEFINE more == <<x>>
  <2>1. next = [out |-> Append(work.out, x), open |-> work.open \ {x.reply}]
    BY <1>7 DEF Pair
  <2>2. more \in Seq(SoundItems) /\ DOMAIN more = {1} /\ more[1] = x
    BY <1>1
  <2>3. Append(work.out, x) = work.out \o more
    BY <1>1, <1>4, AppendIsConcat
  <2>4. next \in Pairings
    BY <1>1, <1>4, PairIs
  <2> HIDE DEF more, next, x
  <2>5. AreResultsFor(more, work)
    BY <1>7, <2>2 DEF AreResultsFor
  <2>6. {more[j].reply : j \in DOMAIN more} = {x.reply}
    BY <2>2
  <2>7. WithResults(next, work, more)
    BY <2>1, <2>3, <2>4, <2>6 DEF WithResults
  <2>8. PairingIsSound(next)
    BY <1>2, <2>5, <2>7, ResultsAreSound
  <2>9. ComesFromItems(items, n + 1, Append(work.out, x), WithNext(from, Len(work.out), n))
    BY <1>3, <1>4, NextComesFromItems DEF x
  <2>10. next.out = Append(work.out, x)
    BY <2>1
  <2> QED BY <1>5, <2>8, <2>9, <2>10 DEF PairedSoFar, next, x
<1>8. CASE IsTool(x) /\ x.reply \notin work.open
  <2>1. next = work
    BY <1>8 DEF Pair
  <2> HIDE DEF next
  <2>2. n + 1 \notin AnsweredTools(items)
    <3>1. n + 1 \in AnsweredTools(items) => items[n + 1].reply \in work.open
      BY <1>2, AnsweredIsTaken
    <3> QED BY <1>8, <3>1
  <2>3. ~ToBeSent(items, n + 1)
    BY <1>8, <2>2 DEF ToBeSent
  <2>4. ComesFromItems(items, n + 1, work.out, from)
    <3>1. \A i \in 1..(n + 1) : i \in 1..n \/ i = n + 1
      BY <1>0
    <3>2. from \in [DOMAIN work.out -> 0..(n + 1)]
      <4>1. \A k \in 0..n : k \in 0..(n + 1)
        BY <1>0
      <4>2. from \in [DOMAIN work.out -> 0..n]
        BY <1>3 DEF ComesFromItems
      <4> QED BY <4>1, <4>2
    <3> QED BY <1>3, <2>3, <3>1, <3>2 DEF ComesFromItems
  <2> QED BY <1>2, <1>5, <2>1, <2>4 DEF PairedSoFar, next, x
<1> QED BY <1>6, <1>7, <1>8

\* What is sent of items in which no call has two results.
LEMMA SanitizeIs ==
  ASSUME ContextAssumption, NEW items \in Seq(SoundItems), ItemsDiffer(items)
  PROVE  /\ Paired(SanitizeToolPairs(items))
         /\ \E from : ComesFromItems(items, Len(items), SanitizeToolPairs(items), from)
<1> DEFINE N == Len(items)
           h == PairingOf(items)
           T == {n \in 0..N : PairedSoFar(items, n, h[n])}
<1>1. /\ PairedUp(items) = h[N]
      /\ h[0] = [out |-> <<>>, open |-> {}]
      /\ \A i \in 1..N : h[i] = Pair(h[i - 1], items[i])
  BY PairingIs
<1>2. N \in Nat
  BY LenProperties
<1> HIDE DEF h, N
<1>3. PairedSoFar(items, 0, h[0])
  <2> DEFINE first == [out |-> <<>>, open |-> {}]
  <2>1. first \in Pairings
    BY DEF Pairings
  <2>2. first.out = <<>> /\ first.open = {} /\ DOMAIN first.out = {}
    OBVIOUS
  <2> HIDE DEF first
  <2>3. PairingIsSound(first)
    BY <2>1, <2>2 DEF PairingIsSound, LastSaid
  <2>4. OpenIs(items, 0, {})
    BY DEF OpenIs
  <2>5. ComesFromItems(items, 0, <<>>, <<>>)
    BY DEF ComesFromItems
  <2> QED BY <1>1, <2>2, <2>3, <2>4, <2>5 DEF PairedSoFar, first
<1>4. 0 \in T
  BY <1>2, <1>3
<1>5. ASSUME NEW n \in 0..(N - 1), n \in T PROVE n + 1 \in T
  <2>1. n + 1 \in 1..N /\ n + 1 \in 0..N /\ (n + 1) - 1 = n
    BY <1>2
  <2>2. h[n + 1] = Pair(h[n], items[n + 1])
    BY <1>1, <2>1
  <2>3. PairedSoFar(items, n, h[n])
    BY <1>5
  <2>4. PairedSoFar(items, n + 1, Pair(h[n], items[n + 1]))
    BY <2>3, PairedNext DEF N
  <2> QED BY <2>1, <2>2, <2>4
<1> HIDE DEF T
<1>6. N \in T
  <2>1. \A i \in 0..N : i \in T
    BY <1>2, <1>4, <1>5, UpTo
  <2> QED BY <1>2, <2>1
<1> DEFINE work == h[N]
<1>7. PairingIsSound(work) /\ \E from : ComesFromItems(items, N, work.out, from)
  BY <1>6 DEF T, PairedSoFar
<1>8. Closed(work).out = SanitizeToolPairs(items) /\ Closed(work).open = {}
  BY <1>1 DEF Closed, SanitizeToolPairs
<1> HIDE DEF work
<1> DEFINE out == SanitizeToolPairs(items)
<1> HIDE DEF out
<1>9. PairingIsSound(Closed(work)) /\ (\E more : ComesFromItems(items, N, Closed(work).out, more))
      /\ Closed(work).out \in Seq(SoundItems)
  BY <1>2, <1>7, ClosedIsSound
<1>10. Paired(out)
  <2>1. out \in Seq(SoundItems) /\ Closed(work).out = out
    BY <1>8, <1>9 DEF out
  <2>2. \A n \in DOMAIN out : IsTool(out[n]) => n \in AnsweredTools(out)
    BY <1>9, <2>1 DEF PairingIsSound
  <2>3. ASSUME NEW n \in DOMAIN out, NEW call \in CallsOf(out[n])
        PROVE  \E m \in DOMAIN out : ToolResults(out, n, call) = {m}
    <3>1. ~IsTool(out[n])
      <4>1. out[n] \in SoundItems
        BY <2>1, ElementOfSeq, LenProperties
      <4> QED BY <2>3, <4>1 DEF SoundItems
    <3>2. CallsAnswered(Closed(work), n)
      BY <1>9, <2>1, <3>1 DEF PairingIsSound
    <3> QED BY <1>8, <2>1, <3>2 DEF CallsAnswered, OneResult
  <2> QED BY <2>2, <2>3 DEF Paired
<1> QED BY <1>8, <1>9, <1>10 DEF out, N

-----------------------------------------------------------------------------
(* What is sent of a session *)

ItemsInOrder(items) ==
  \A m, n \in DOMAIN items : m < n => \A i \in items[m].of, j \in items[n].of : i < j
IsSentOf(items, i) == \E n \in DOMAIN items : i \in items[n].of /\ ToBeSent(items, n)
CanBeSent(items) ==
  /\ items \in Seq(SoundItems) /\ ItemsDiffer(items) /\ ItemsInOrder(items)
  /\ \A i \in 1..Len(transcript) :
       IsSentOf(items, i) \/ (transcript[i].role = "tool" /\ i \notin AnsweredTools(Whole))
  /\ \A i \in LatestUser(0) :
       \E n \in DOMAIN items : items[n] = Kept(i + 1) /\ ToBeSent(items, n)

LEMMA SentIsWhole ==
  ASSUME ContextAssumption, NEW items, CanBeSent(items)
  PROVE  IsWhole(SanitizeToolPairs(items))
<1> DEFINE sentNow == SanitizeToolPairs(items)
           N == Len(items)
<1>1. items \in Seq(SoundItems) /\ ItemsDiffer(items) /\ ItemsInOrder(items)
  BY DEF CanBeSent
<1>2. Paired(sentNow) /\ \E from : ComesFromItems(items, N, sentNow, from)
  BY <1>1, SanitizeIs
<1>3. PICK from : ComesFromItems(items, N, sentNow, from)
  BY <1>2
<1>4. N \in Nat /\ DOMAIN items = 1..N
  BY <1>1, LenProperties
<1> HIDE DEF sentNow, N
<1>5. /\ from \in [DOMAIN sentNow -> 0..N]
      /\ \A k, o \in DOMAIN sentNow : k < o /\ from[k] # 0 /\ from[o] # 0 => from[k] < from[o]
      /\ \A k \in DOMAIN sentNow :
           IF from[k] = 0 THEN sentNow[k].of = {} ELSE sentNow[k] = items[from[k]]
  BY <1>3 DEF ComesFromItems
<1>6. ASSUME NEW n \in DOMAIN items, ToBeSent(items, n)
      PROVE  \E k \in DOMAIN sentNow : sentNow[k] = items[n]
  <2>1. PICK k \in DOMAIN sentNow : from[k] = n
    BY <1>3, <1>4, <1>6 DEF ComesFromItems
  <2>2. n # 0
    BY <1>4
  <2> QED BY <1>5, <2>1, <2>2
<1>7. ASSUME NEW i \in 1..Len(transcript), IsSentOf(items, i) PROVE i \in Held(sentNow)
  <2>1. PICK n \in DOMAIN items : i \in items[n].of /\ ToBeSent(items, n)
    BY <1>7 DEF IsSentOf
  <2>2. PICK k \in DOMAIN sentNow : sentNow[k] = items[n]
    BY <1>6, <2>1
  <2> QED BY <2>1, <2>2 DEF Held
<1>8. ASSUME NEW m \in DOMAIN sentNow, NEW n \in DOMAIN sentNow, m < n,
             NEW i \in sentNow[m].of, NEW j \in sentNow[n].of
      PROVE  i < j
  <2>1. from[m] # 0 /\ from[n] # 0
    BY <1>5, <1>8
  <2>2. from[m] < from[n] /\ sentNow[m] = items[from[m]] /\ sentNow[n] = items[from[n]]
    BY <1>5, <1>8, <2>1
  <2>3. from[m] \in DOMAIN items /\ from[n] \in DOMAIN items
    <3>1. from[m] \in 0..N /\ from[n] \in 0..N
      BY <1>5
    <3> QED BY <1>4, <2>1, <3>1
  <2> QED BY <1>1, <1>8, <2>2, <2>3 DEF ItemsInOrder
<1>9. \A i \in LatestUser(0) : \E n \in DOMAIN sentNow : sentNow[n] = Kept(i + 1)
  <2>1. SUFFICES ASSUME NEW i \in LatestUser(0)
                 PROVE  \E n \in DOMAIN sentNow : sentNow[n] = Kept(i + 1)
    OBVIOUS
  <2>2. PICK n \in DOMAIN items : items[n] = Kept(i + 1) /\ ToBeSent(items, n)
    BY DEF CanBeSent
  <2> QED BY <1>6, <2>2
<1>10. \A i \in 1..Len(transcript) :
         i \in Held(sentNow) \/ (transcript[i].role = "tool" /\ i \notin AnsweredTools(Whole))
  BY <1>7 DEF CanBeSent
<1> QED BY <1>2, <1>8, <1>9, <1>10 DEF IsWhole, sentNow

LEMMA KeptMessageIs ==
  ASSUME MessagesFit(transcript), NEW i \in 1..Len(transcript)
  PROVE  /\ Kept(i) \in SoundItems /\ Kept(i).of = {i}
         /\ CallsOf(Kept(i)) = transcript[i].calls /\ Kept(i).reply = transcript[i].reply
         /\ IsTool(Kept(i)) <=> transcript[i].role = "tool"
<1>1. transcript \in Seq(SaidMessages) /\ \A j \in DOMAIN transcript : MessageFits(transcript[j])
  BY DEF MessagesFit
<1>2. transcript[i] \in SaidMessages /\ DOMAIN transcript = 1..Len(transcript) /\ i \in Nat
  BY <1>1, ElementOfSeq, LenProperties
<1> DEFINE m == transcript[i]
<1>3. m.calls \in SUBSET ContextCalls /\ m.reply \in ContextCalls \cup {0}
  BY <1>2 DEF SaidMessages
<1>4. MessageFits(m)
  BY <1>1, <1>2
<1> HIDE DEF m
<1>5. Kept(i) = [kind |-> "said", of |-> {i}, reply |-> m.reply]
  BY DEF Kept, m
<1>6. CallsOf(Kept(i)) = m.calls
  <2>1. (CHOOSE j \in {i} : TRUE) = i
    OBVIOUS
  <2>2. Kept(i).kind = "said" /\ Kept(i).of = {i}
    BY <1>5
  <2> QED BY <2>1, <2>2 DEF CallsOf, PlaceIn, m
<1>7. IsTool(Kept(i)) <=> m.role = "tool"
  BY <1>4, <1>5 DEF IsTool, MessageFits
<1>8. Kept(i) \in ContextItems
  BY <1>2, <1>3, <1>5 DEF ContextItems
<1>9. IsTool(Kept(i)) => CallsOf(Kept(i)) = {}
  BY <1>4, <1>6, <1>7 DEF MessageFits
<1>10. Kept(i) \in SoundItems
  BY <1>3, <1>6, <1>8, <1>9 DEF SoundItems
<1> QED BY <1>5, <1>6, <1>7, <1>10 DEF m

LEMMA WholeIs ==
  ASSUME MessagesFit(transcript)
  PROVE  /\ Len(transcript) \in Nat /\ DOMAIN transcript = 1..Len(transcript)
         /\ Whole \in Seq(SoundItems) /\ Len(Whole) = Len(transcript)
         /\ DOMAIN Whole = 1..Len(transcript)
         /\ \A i \in 1..Len(transcript) : Whole[i] = Kept(i)
<1>1. Len(transcript) \in Nat /\ DOMAIN transcript = 1..Len(transcript)
  BY LenProperties DEF MessagesFit
<1> DEFINE n == Len(transcript)
<1>2. Whole = [i \in 1..n |-> Kept(i)]
  BY DEF Whole
<1>3. \A i \in 1..n : Kept(i) \in SoundItems
  BY KeptMessageIs
<1> HIDE DEF n
<1>4. Whole \in [1..n -> SoundItems] /\ \A i \in 1..n : Whole[i] = Kept(i)
  <2> HIDE DEF SoundItems
  <2> QED BY <1>2, <1>3
<1> HIDE DEF SoundItems
<1>5. Whole \in Seq(SoundItems) /\ Len(Whole) = n /\ DOMAIN Whole = 1..n
  BY <1>1, <1>2, <1>4 DEF n
<1> QED BY <1>1, <1>4, <1>5 DEF n

LEMMA WholeCanBeSent ==
  ASSUME ContextAssumption, MessagesFit(transcript)
  PROVE  CanBeSent(Whole)
<1> DEFINE n == Len(transcript)
<1>1. /\ n \in Nat /\ DOMAIN transcript = 1..n /\ Whole \in Seq(SoundItems)
      /\ DOMAIN Whole = 1..n /\ \A i \in 1..n : Whole[i] = Kept(i)
  BY WholeIs
<1> HIDE DEF n
<1>2. \A i \in 1..n : /\ Whole[i].of = {i} /\ Whole[i].reply = transcript[i].reply
                      /\ IsTool(Whole[i]) <=> transcript[i].role = "tool"
  BY <1>1, KeptMessageIs DEF n
<1>3. ItemsDiffer(Whole)
  <2>1. SUFFICES ASSUME NEW i \in 1..n, NEW j \in 1..n, i < j, \A k \in i..j : IsTool(Whole[k])
                 PROVE  Whole[i].reply # Whole[j].reply
    BY <1>1 DEF ItemsDiffer
  <2>2. \A k \in i..j : k \in 1..n
    BY <1>1
  <2>3. AllTools(transcript, i, j)
    BY <1>2, <2>1, <2>2 DEF AllTools
  <2> QED BY <1>1, <1>2, <2>1, <2>3 DEF MessagesFit, RepliesDiffer
<1>4. ItemsInOrder(Whole)
  BY <1>1, <1>2 DEF ItemsInOrder
<1>5. ASSUME NEW i \in 1..n
      PROVE  IsSentOf(Whole, i) \/ (transcript[i].role = "tool" /\ i \notin AnsweredTools(Whole))
  <2>1. i \in Whole[i].of /\ i \in DOMAIN Whole
    BY <1>1, <1>2
  <2>2. ToBeSent(Whole, i) \/ (transcript[i].role = "tool" /\ i \notin AnsweredTools(Whole))
    BY <1>2 DEF ToBeSent
  <2> QED BY <2>1, <2>2 DEF IsSentOf
<1>6. ASSUME NEW i \in LatestUser(0)
      PROVE  \E k \in DOMAIN Whole : Whole[k] = Kept(i + 1) /\ ToBeSent(Whole, k)
  <2>1. i \in 0..(n - 1) /\ transcript[i + 1].role = "user"
    BY DEF LatestUser, n
  <2>2. i + 1 \in 1..n
    BY <1>1, <2>1
  <2>3. ToBeSent(Whole, i + 1)
    BY <1>2, <2>1, <2>2 DEF ToBeSent
  <2> QED BY <1>1, <2>2, <2>3
<1> QED BY <1>1, <1>3, <1>4, <1>5, <1>6 DEF CanBeSent, n

-----------------------------------------------------------------------------
(* What is sent with a summary *)

CoversWell(head, covered) ==
  /\ head \in Nat /\ covered \in Nat /\ head < covered /\ covered < Len(transcript)
  /\ ~Splits(transcript, covered)
  /\ \A i \in 1..Len(transcript) : IsLatestUser(transcript, i) => i <= head \/ i > covered

\* The place of an item in the session.
PlaceOf(k, head, covered) == IF k <= head THEN k ELSE k + (covered - head) - 1

LEMMA CompactedIs ==
  ASSUME MessagesFit(transcript), NEW head, NEW covered, CoversWell(head, covered)
  PROVE  LET c == Compacted(head, covered)
             n == Len(transcript)
             N == n - (covered - head) + 1 IN
         /\ n \in Nat /\ N \in Nat /\ head + 1 \in 1..N
         /\ c \in Seq(SoundItems) /\ DOMAIN c = 1..N
         /\ c[head + 1] = Summary(head + 1..covered)
         /\ \A k \in 1..N : k # head + 1 =>
              /\ PlaceOf(k, head, covered) \in 1..n
              /\ c[k] = Kept(PlaceOf(k, head, covered))
<1> DEFINE n == Len(transcript)
           N == n - (covered - head) + 1
           s1 == SubSeq(Whole, 1, head)
           s2 == <<Summary(head + 1..covered)>>
           s3 == SubSeq(Whole, covered + 1, n)
           c == Compacted(head, covered)
<1>1. /\ n \in Nat /\ DOMAIN transcript = 1..n
      /\ Whole \in Seq(SoundItems) /\ DOMAIN Whole = 1..n
      /\ \A i \in 1..n : Whole[i] = Kept(i)
  BY WholeIs
<1>2. head \in Nat /\ covered \in Nat /\ head < covered /\ covered < n
  BY DEF CoversWell
<1>3. \A i \in 1..n : Whole[i] \in SoundItems
  BY <1>1, ElementOfSeq
<1>4. Summary(head + 1..covered) \in SoundItems
  <2>1. head + 1..covered \in SUBSET Nat
    BY <1>2
  <2> HIDE DEF n
  <2> QED BY <2>1 DEF Summary, SoundItems, ContextItems, CallsOf, IsTool
<1> DEFINE x == Summary(head + 1..covered)
<1> HIDE DEF n, x
<1>5. /\ s1 \in Seq(SoundItems) /\ Len(s1) = head
      /\ \A i \in 1..head : s1[i] = Whole[i]
  <2>1. \A i \in 1..head : Whole[i] \in SoundItems
    BY <1>1, <1>2, <1>3
  <2>2. 1 \in Int /\ head \in Int
    BY <1>2
  <2> HIDE DEF SoundItems
  <2>3. /\ s1 \in Seq(SoundItems) /\ Len(s1) = IF 1 <= head THEN head - 1 + 1 ELSE 0
        /\ \A i \in 1..(head - 1 + 1) : s1[i] = Whole[1 + i - 1]
    BY <2>1, <2>2, SubSeqProperties
  <2>4. (IF 1 <= head THEN head - 1 + 1 ELSE 0) = head /\ head - 1 + 1 = head
        /\ \A i \in 1..head : 1 + i - 1 = i
    BY <1>2
  <2> QED BY <2>3, <2>4
<1>6. /\ s3 \in Seq(SoundItems) /\ Len(s3) = n - covered
      /\ \A i \in 1..(n - covered) : s3[i] = Whole[covered + i]
  <2>1. \A i \in covered + 1..n : Whole[i] \in SoundItems
    BY <1>1, <1>2, <1>3
  <2>2. covered + 1 \in Int /\ n \in Int
    BY <1>1, <1>2
  <2> HIDE DEF SoundItems
  <2>3. /\ s3 \in Seq(SoundItems)
        /\ Len(s3) = IF covered + 1 <= n THEN n - (covered + 1) + 1 ELSE 0
        /\ \A i \in 1..(n - (covered + 1) + 1) : s3[i] = Whole[(covered + 1) + i - 1]
    BY <2>1, <2>2, SubSeqProperties
  <2>4. covered + 1 <= n /\ n - (covered + 1) + 1 = n - covered
        /\ \A i \in 1..(n - covered) : (covered + 1) + i - 1 = covered + i
    BY <1>1, <1>2
  <2> QED BY <2>3, <2>4
<1>7. s2 \in Seq(SoundItems) /\ Len(s2) = 1 /\ s2[1] = x
  BY <1>4 DEF x
<1>8. c = (s1 \o s2) \o s3
  BY DEF Compacted, n
<1> HIDE DEF s1, s2, s3, c
<1>9. /\ s1 \o s2 \in Seq(SoundItems) /\ Len(s1 \o s2) = head + 1
      /\ \A i \in 1..head : (s1 \o s2)[i] = s1[i]
      /\ (s1 \o s2)[head + 1] = x
  <2>1. /\ s1 \o s2 \in Seq(SoundItems)
        /\ Len(s1 \o s2) = Len(s1) + Len(s2)
        /\ \A i \in 1..Len(s1) + Len(s2) :
             (s1 \o s2)[i] = IF i <= Len(s1) THEN s1[i] ELSE s2[i - Len(s1)]
    BY <1>5, <1>7, ConcatProperties
  <2>2. \A i \in 1..head : i \in 1..head + 1 /\ i <= head
    BY <1>2
  <2>3. head + 1 \in 1..head + 1 /\ ~(head + 1 <= head) /\ (head + 1) - head = 1
    BY <1>2
  <2> QED BY <1>5, <1>7, <2>1, <2>2, <2>3
<1>10. N \in Nat /\ N = (head + 1) + (n - covered) /\ head + 1 \in 1..N
  BY <1>1, <1>2
<1> HIDE DEF N
<1>11. /\ c \in Seq(SoundItems) /\ Len(c) = N
       /\ \A i \in 1..N : c[i] = IF i <= head + 1 THEN (s1 \o s2)[i] ELSE s3[i - (head + 1)]
  <2> DEFINE u == s1 \o s2
  <2>1. u \in Seq(SoundItems) /\ Len(u) = head + 1
    BY <1>9
  <2> HIDE DEF u, SoundItems
  <2>2. /\ u \o s3 \in Seq(SoundItems) /\ Len(u \o s3) = Len(u) + Len(s3)
        /\ \A i \in 1..Len(u) + Len(s3) :
             (u \o s3)[i] = IF i <= Len(u) THEN u[i] ELSE s3[i - Len(u)]
    BY <1>6, <2>1, ConcatProperties
  <2>3. Len(u) + Len(s3) = N
    BY <1>6, <1>10, <2>1
  <2> QED BY <1>8, <2>1, <2>2, <2>3 DEF u
<1>12. DOMAIN c = 1..N
  BY <1>11, LenProperties
<1>13. c[head + 1] = Summary(head + 1..covered)
  <2>1. head + 1 <= head + 1
    BY <1>2
  <2> QED BY <1>9, <1>10, <1>11, <2>1 DEF x
<1>14. ASSUME NEW k \in 1..N, k # head + 1
       PROVE  PlaceOf(k, head, covered) \in 1..n /\ c[k] = Kept(PlaceOf(k, head, covered))
  <2>1. CASE k <= head
    <3>1. k \in 1..head /\ k \in 1..n /\ k <= head + 1
      BY <1>1, <1>2, <2>1
    <3>2. PlaceOf(k, head, covered) = k
      BY <2>1 DEF PlaceOf
    <3> QED BY <1>1, <1>5, <1>9, <1>11, <3>1, <3>2
  <2>2. CASE ~(k <= head)
    <3>1. PlaceOf(k, head, covered) = k + (covered - head) - 1
      BY <2>2 DEF PlaceOf
    <3>2. /\ ~(k <= head + 1) /\ k - (head + 1) \in 1..(n - covered)
          /\ covered + (k - (head + 1)) = k + (covered - head) - 1
          /\ k + (covered - head) - 1 \in 1..n
      BY <1>1, <1>2, <1>10, <1>14, <2>2
    <3> QED BY <1>1, <1>6, <1>11, <3>1, <3>2
  <2> QED BY <2>1, <2>2
<1> QED BY <1>1, <1>10, <1>11, <1>12, <1>13, <1>14 DEF c, N, n

LEMMA CompactedCanBeSent ==
  ASSUME ContextAssumption, MessagesFit(transcript), NEW head, NEW covered,
         CoversWell(head, covered)
  PROVE  CanBeSent(Compacted(head, covered))
<1> DEFINE c == Compacted(head, covered)
           n == Len(transcript)
           N == n - (covered - head) + 1
           At(k) == PlaceOf(k, head, covered)
<1>1. /\ n \in Nat /\ N \in Nat /\ head + 1 \in 1..N
      /\ c \in Seq(SoundItems) /\ DOMAIN c = 1..N
      /\ c[head + 1] = Summary(head + 1..covered)
      /\ \A k \in 1..N : k # head + 1 => At(k) \in 1..n /\ c[k] = Kept(At(k))
  BY CompactedIs
<1>2. head \in Nat /\ covered \in Nat /\ head < covered /\ covered < n /\ ~Splits(transcript, covered)
      /\ \A i \in 1..n : IsLatestUser(transcript, i) => i <= head \/ i > covered
  BY DEF CoversWell
<1>3. /\ DOMAIN Whole = 1..n /\ \A i \in 1..n : Whole[i] = Kept(i)
      /\ DOMAIN transcript = 1..n
  BY WholeIs
<1> HIDE DEF c
<1>4. ASSUME NEW k \in 1..N
      PROVE  At(k) = IF k <= head THEN k ELSE k + (covered - head) - 1
  BY DEF PlaceOf
<1>16. ASSUME NEW i \in 1..n, i \notin head + 1..covered
       PROVE  \E k \in 1..N : k # head + 1 /\ At(k) = i
  <2>1. CASE i <= head
    <3>1. i \in 1..N /\ i # head + 1
      BY <1>1, <1>2, <2>1
    <3> QED BY <1>4, <2>1, <3>1
  <2>2. CASE ~(i <= head)
    <3> DEFINE k == i - (covered - head) + 1
    <3>1. k \in 1..N /\ k # head + 1 /\ ~(k <= head) /\ k + (covered - head) - 1 = i
      BY <1>1, <1>2, <1>16, <2>2
    <3> QED BY <1>4, <3>1
  <2> QED BY <2>1, <2>2
<1>17. ASSUME NEW k \in 1..N, NEW o \in 1..N, k < o
       PROVE  /\ At(k) < At(o) /\ (o < head + 1 => At(o) < head + 1 /\ At(o) = o /\ At(k) = k)
              /\ (k > head + 1 => At(k) > covered /\ At(o) - At(k) = o - k)
  BY <1>1, <1>2, <1>4, <1>17
<1>18. ASSUME NEW k \in 1..N
       PROVE  (k < head + 1 => At(k) = k /\ At(k) < head + 1) /\ (k > head + 1 => At(k) > covered)
  BY <1>1, <1>2, <1>4
<1> HIDE DEF At, n, N
<1>5. ASSUME NEW i \in 1..n
      PROVE  /\ Kept(i).of = {i} /\ Kept(i).reply = transcript[i].reply
             /\ CallsOf(Kept(i)) = transcript[i].calls
             /\ IsTool(Kept(i)) <=> transcript[i].role = "tool"
  BY KeptMessageIs DEF n
<1>6. c[head + 1].of = head + 1..covered /\ ~IsTool(c[head + 1])
  BY <1>1 DEF Summary, IsTool
<1>7. ASSUME NEW k \in 1..N, k # head + 1
      PROVE  /\ c[k] = Kept(At(k)) /\ At(k) \in 1..n
             /\ c[k].of = {At(k)} /\ c[k].reply = transcript[At(k)].reply
             /\ IsTool(c[k]) <=> transcript[At(k)].role = "tool"
  BY <1>1, <1>5, <1>7
<1>8. ItemsInOrder(c)
  <2>1. SUFFICES ASSUME NEW k \in 1..N, NEW o \in 1..N, k < o, NEW i \in c[k].of, NEW j \in c[o].of
                 PROVE  i < j
    BY <1>1 DEF ItemsInOrder
  <2>2. CASE k = head + 1
    <3>1. o # head + 1 /\ o > head + 1
      BY <1>1, <2>1, <2>2
    <3>2. j = At(o) /\ j > covered /\ i \in head + 1..covered /\ j \in 1..n
      <4>1. c[o].of = {At(o)} /\ At(o) \in 1..n
        BY <1>7, <3>1
      <4>2. At(o) > covered
        BY <1>18, <3>1
      <4> QED BY <1>6, <2>1, <2>2, <4>1, <4>2
    <3> QED BY <1>1, <1>2, <3>2
  <2>3. CASE o = head + 1
    <3>1. k # head + 1 /\ k < head + 1
      BY <1>1, <2>1, <2>3
    <3>2. i = At(k) /\ i < head + 1 /\ j \in head + 1..covered /\ i \in 1..n
      <4>1. c[k].of = {At(k)} /\ At(k) \in 1..n
        BY <1>7, <3>1
      <4>2. At(k) < head + 1
        BY <1>18, <3>1
      <4> QED BY <1>6, <2>1, <2>3, <4>1, <4>2
    <3> QED BY <1>1, <1>2, <3>2
  <2>4. CASE k # head + 1 /\ o # head + 1
    BY <1>7, <1>17, <2>1, <2>4
  <2> QED BY <2>2, <2>3, <2>4
<1>9. ItemsDiffer(c)
  <2>1. SUFFICES ASSUME NEW i \in 1..N, NEW j \in 1..N, i < j, \A k \in i..j : IsTool(c[k])
                 PROVE  c[i].reply # c[j].reply
    BY <1>1 DEF ItemsDiffer
  <2>2. i \in i..j /\ j \in i..j /\ \A k \in i..j : k \in 1..N
    BY <1>1, <2>1
  <2>3. head + 1 \notin i..j
    BY <1>6, <2>1
  <2>4. i # head + 1 /\ j # head + 1 /\ (j < head + 1 \/ i > head + 1)
    BY <1>1, <1>2, <2>1, <2>2, <2>3
  <2>5. ASSUME NEW p \in At(i)..At(j) PROVE transcript[p].role = "tool"
    <3> DEFINE k == i + (p - At(i))
    <3>1. At(i) \in 1..n /\ At(j) \in 1..n /\ p \in 1..n
      BY <1>1, <1>7, <2>4
    <3>2. At(j) - At(i) = j - i
      BY <1>17, <2>1, <2>4
    <3>3. k \in i..j
      BY <1>1, <2>1, <3>1, <3>2
    <3>4. k \in 1..N /\ k # head + 1
      BY <2>2, <2>3, <3>3
    <3>5. At(k) = p
      <4>1. CASE j < head + 1
        <5>1. k < head + 1 /\ i < head + 1
          BY <1>1, <1>2, <2>1, <3>3, <4>1
        <5>2. At(k) = k /\ At(i) = i
          BY <1>18, <3>4, <5>1
        <5> QED BY <3>1, <5>2
      <4>2. CASE i > head + 1
        <5>1. CASE k = i
          BY <1>1, <3>1, <5>1
        <5>2. CASE i < k
          <6>1. At(k) - At(i) = k - i
            BY <1>17, <3>4, <4>2, <5>2
          <6>2. At(k) \in 1..n
            BY <1>7, <3>4
          <6> QED BY <1>1, <3>1, <6>1, <6>2
        <5> QED BY <1>1, <2>1, <3>1, <3>3, <5>1, <5>2
      <4> QED BY <2>4, <4>1, <4>2
    <3> HIDE DEF k
    <3> QED BY <1>7, <2>1, <3>3, <3>4, <3>5
  <2>6. AllTools(transcript, At(i), At(j))
    BY <2>5 DEF AllTools
  <2>7. At(i) < At(j) /\ At(i) \in DOMAIN transcript /\ At(j) \in DOMAIN transcript
    BY <1>3, <1>7, <1>17, <2>1, <2>4
  <2> QED BY <1>7, <2>4, <2>6, <2>7 DEF MessagesFit, RepliesDiffer
<1>10. ASSUME NEW k \in 1..N, k # head + 1, At(k) \in AnsweredTools(Whole)
       PROVE  k \in AnsweredTools(c)
  <2> DEFINE q == At(k)
  <2>1. q \in 1..n /\ c[k] = Kept(q) /\ IsTool(c[k]) /\ Whole[q] = Kept(q)
    BY <1>3, <1>7, <1>10 DEF AnsweredTools
  <2>2. PICK m \in 1..q - 1 : /\ Whole[q].reply \in CallsOf(Whole[m])
                              /\ \A p \in m + 1..q : IsTool(Whole[p])
    BY <1>10 DEF AnsweredTools
  <2>3. m \in 1..n /\ \A p \in m + 1..q : p \in 1..n /\ transcript[p].role = "tool"
    <3>1. m \in 1..n /\ \A p \in m + 1..q : p \in 1..n
      BY <1>1, <2>1
    <3> QED BY <1>3, <1>5, <2>2, <3>1
  <2>4. transcript[m].calls # {} /\ Whole[m] = Kept(m)
    BY <1>3, <1>5, <2>2, <2>3
  <2>5. m <= head \/ m > covered
    <3>1. SUFFICES ASSUME m > head, m <= covered PROVE FALSE
      BY <1>2, <2>3
    <3>2. k > head + 1
      <4>1. q > head
        BY <1>1, <1>2, <2>1, <3>1
      <4>2. CASE k < head + 1
        BY <1>2, <1>18, <2>1, <4>1, <4>2
      <4> QED BY <1>1, <1>2, <1>10, <4>2
    <3>3. q > covered
      BY <1>18, <3>2
    <3>4. \A p \in m + 1..covered + 1 : p \in m + 1..q
      BY <1>2, <2>1, <2>3, <3>3
    <3>5. Splits(transcript, covered)
      <4>1. m \in 1..covered
        BY <1>2, <2>3, <3>1
      <4> QED BY <2>3, <2>4, <3>4, <4>1 DEF Splits, AllTools
    <3> QED BY <1>2, <3>5
  <2>6. (k < head + 1 /\ m <= head) \/ (k > head + 1 /\ m > covered)
    <3>1. CASE k < head + 1
      <4>1. q = k
        BY <1>18, <3>1
      <4> QED BY <1>1, <1>2, <2>3, <3>1, <4>1
    <3>2. CASE k > head + 1
      <4>1. q > covered
        BY <1>18, <3>2
      <4>2. ASSUME m <= head PROVE FALSE
        <5>1. covered \in 1..covered /\ \A p \in m + 1..covered + 1 : p \in m + 1..q
          BY <1>2, <2>1, <2>3, <4>1
        <5>2. m \in 1..covered
          BY <1>2, <2>3, <4>2
        <5>3. Splits(transcript, covered)
          BY <2>3, <2>4, <5>1, <5>2 DEF Splits, AllTools
        <5> QED BY <1>2, <5>3
      <4> QED BY <2>5, <3>2, <4>2
    <3> QED BY <1>1, <1>2, <1>10, <3>1, <3>2
  <2>7. PICK o \in 1..N : o # head + 1 /\ At(o) = m
    <3>1. m \notin head + 1..covered
      BY <1>2, <2>3, <2>5
    <3> QED BY <1>16, <2>3, <3>1
  <2>8. o < k
    <3>1. ~(k < o)
      <4>1. k < o => At(k) < At(o)
        BY <1>17
      <4> QED BY <2>1, <2>3, <2>7, <4>1
    <3>2. o # k
      BY <2>1, <2>3, <2>7
    <3> QED BY <1>1, <3>1, <3>2
  <2>9. ASSUME NEW p \in o + 1..k PROVE IsTool(c[p])
    <3>1. p \in 1..N /\ o < p /\ (p = k \/ p < k)
      BY <1>1, <2>8
    <3>2. p # head + 1
      <4>1. CASE k < head + 1
        BY <1>1, <1>2, <3>1, <4>1
      <4>2. CASE k > head + 1
        <5>1. m > covered
          BY <1>1, <1>2, <2>6, <4>2
        <5>2. ~(o < head + 1)
          <6>1. o < head + 1 => At(o) < head + 1
            BY <1>18
          <6> QED BY <1>2, <2>3, <2>7, <5>1, <6>1
        <5> QED BY <1>1, <1>2, <2>7, <3>1, <5>2
      <4> QED BY <1>1, <1>2, <1>10, <4>1, <4>2
    <3>3. At(p) \in 1..n /\ At(o) < At(p) /\ (At(p) = q \/ At(p) < q)
      <4>1. At(o) < At(p) /\ (p < k => At(p) < At(k))
        BY <1>17, <3>1
      <4> QED BY <1>7, <3>1, <3>2, <4>1
    <3>4. At(p) \in m + 1..q
      BY <1>1, <2>1, <2>3, <2>7, <3>3
    <3>5. transcript[At(p)].role = "tool"
      BY <2>3, <3>4
    <3> QED BY <1>7, <3>1, <3>2, <3>5
  <2>10. o \in 1..k - 1 /\ c[o] = Whole[m] /\ c[k] = Whole[q]
    <3>1. o \in 1..k - 1
      BY <1>1, <2>8
    <3>2. c[o] = Kept(m)
      BY <1>7, <2>7
    <3> QED BY <2>1, <2>4, <3>1, <3>2
  <2> HIDE DEF q
  <2> QED BY <1>1, <2>1, <2>2, <2>9, <2>10 DEF AnsweredTools
<1>11. ASSUME NEW i \in 1..n
       PROVE  IsSentOf(c, i) \/ (transcript[i].role = "tool" /\ i \notin AnsweredTools(Whole))
  <2>1. CASE i \in head + 1..covered
    BY <1>1, <1>6, <2>1 DEF IsSentOf, ToBeSent
  <2>2. CASE i \notin head + 1..covered
    <3>1. PICK k \in 1..N : k # head + 1 /\ At(k) = i
      BY <1>16, <2>2
    <3>2. i \in c[k].of /\ (IsTool(c[k]) <=> transcript[i].role = "tool")
      BY <1>7, <3>1
    <3>3. i \in AnsweredTools(Whole) => k \in AnsweredTools(c)
      BY <1>10, <3>1
    <3> QED BY <1>1, <3>1, <3>2, <3>3 DEF IsSentOf, ToBeSent
  <2> QED BY <2>1, <2>2
<1>12. ASSUME NEW i \in LatestUser(0)
       PROVE  \E k \in DOMAIN c : c[k] = Kept(i + 1) /\ ToBeSent(c, k)
  <2>1. /\ i \in 0..(n - 1) /\ transcript[i + 1].role = "user"
        /\ \A j \in i + 1..n - 1 : transcript[j + 1].role # "user"
    BY DEF LatestUser, n
  <2>2. i + 1 \in 1..n
    BY <1>1, <2>1
  <2>3. IsLatestUser(transcript, i + 1)
    <3>1. SUFFICES ASSUME NEW j \in (i + 1) + 1..n PROVE transcript[j].role # "user"
      BY <2>1 DEF IsLatestUser, n
    <3>2. j - 1 \in i + 1..n - 1 /\ (j - 1) + 1 = j
      BY <1>1, <2>1
    <3> QED BY <2>1, <3>2
  <2>4. i + 1 \notin head + 1..covered
    <3>1. i + 1 <= head \/ i + 1 > covered
      BY <1>2, <2>2, <2>3
    <3> QED BY <1>2, <2>1, <3>1
  <2>5. PICK k \in 1..N : k # head + 1 /\ At(k) = i + 1
    BY <1>16, <2>2, <2>4
  <2>6. c[k] = Kept(i + 1) /\ ~IsTool(c[k])
    BY <1>7, <2>1, <2>5
  <2> QED BY <1>1, <2>6 DEF ToBeSent
<1> QED BY <1>1, <1>8, <1>9, <1>11, <1>12 DEF CanBeSent, c, n

-----------------------------------------------------------------------------
(* What is summarized *)

LEMMA LeastOf ==
  ASSUME NEW S, S \subseteq Nat, S # {}
  PROVE  Min(S) \in S /\ \A y \in S : Min(S) <= y
<1>1. \E x \in S : \A y \in S : x <= y
  <2>1. PICK m \in S : TRUE
    OBVIOUS
  <2> QED BY <2>1, LeastExists
<1> QED BY <1>1, Zenon DEF Min

\* The summary begins at a message that is no result.
StartsWell(start) ==
  start \in 0..Len(transcript) /\ (start = Len(transcript) \/ ~IsToolAt(start))
BeforeEnd(i) == i \in Nat /\ i < Len(transcript)

LEMMA CompressStartIs ==
  ASSUME ContextAssumption, MessagesFit(transcript)
  PROVE  StartsWell(CompressStart)
<1> DEFINE n == Len(transcript)
           first == IF n < ProtectFirst THEN n ELSE ProtectFirst
           S == {i \in first..n : i = n \/ ~IsToolAt(i)}
<1>0. n \in Nat
  BY WholeIs
<1>2. CompressStart = Min(S)
  BY DEF CompressStart
<1> HIDE DEF n
<1>1. first \in 0..n
  BY <1>0 DEF ContextAssumption
<1> HIDE DEF first
<1>3. S \subseteq Nat /\ S # {}
  <2>1. n \in first..n
    BY <1>0, <1>1
  <2>2. n \in S
    BY <2>1
  <2>3. \A i \in first..n : i \in Nat
    BY <1>1
  <2> QED BY <2>2, <2>3
<1>4. Min(S) \in S
  <2> HIDE DEF S
  <2> QED BY <1>3, LeastOf
<1>5. \A i \in S : i \in 0..n /\ (i = n \/ ~IsToolAt(i))
  BY <1>1
<1> QED BY <1>2, <1>4, <1>5 DEF StartsWell, n

\* It ends at a message that is no result of what it is of, and the latest message
\* of the user is none of it.
LEMMA TailIsAligned ==
  ASSUME MessagesFit(transcript), NEW start, StartsWell(start), NEW i, BeforeEnd(i)
  PROVE  /\ AlignTailBackward(i, start) \in Nat
         /\ start < AlignTailBackward(i, start) =>
              /\ AlignTailBackward(i, start) \in start..i
              /\ ~Splits(transcript, AlignTailBackward(i, start))
<1> DEFINE n == Len(transcript)
           tail == AlignTailBackward(i, start)
           S == {start} \cup {j \in start..i : ~IsToolAt(j)}
           scan == Max(S)
<1>1. n \in Nat /\ DOMAIN transcript = 1..n
  BY LenProperties DEF MessagesFit
<1>0. start \in 0..n /\ (start = n \/ ~IsToolAt(start)) /\ i \in Nat /\ i < n
  BY DEF StartsWell, BeforeEnd
<1>13. i <= start \/ i >= n => tail = i
  BY DEF AlignTailBackward
<1>14. ~(i <= start \/ i >= n) => tail = IF transcript[scan + 1].calls # {} THEN scan ELSE i
  BY DEF AlignTailBackward
<1> HIDE DEF n, tail, scan
<1>15. CASE i <= start
  <2>1. tail = i
    BY <1>13, <1>15
  <2>2. ~(start < tail) /\ tail \in Nat
    BY <1>0, <1>1, <1>15, <2>1
  <2> QED BY <2>2 DEF tail
<1>2. SUFFICES ASSUME start < i PROVE tail \in Nat /\ (start < tail => tail \in start..i /\ ~Splits(transcript, tail))
  BY <1>0, <1>1, <1>15 DEF tail
<1>3. tail = IF transcript[scan + 1].calls # {} THEN scan ELSE i
  <2>1. ~(i <= start \/ i >= n)
    BY <1>0, <1>1, <1>2
  <2> QED BY <1>14, <2>1
<1>4. S \subseteq 0..i /\ S # {} /\ S \subseteq start..i
  BY <1>0, <1>1, <1>2
<1>5. scan \in S /\ \A y \in S : y <= scan
  <2> HIDE DEF S
  <2> QED BY <1>0, <1>4, GreatestExists DEF scan
<1>6. \A j \in start..i : ~IsToolAt(j) => j <= scan
  BY <1>5
<1>7. start < n /\ ~IsToolAt(start)
  BY <1>0, <1>1, <1>2
<1>8. ~IsToolAt(scan)
  BY <1>5, <1>7
<1>9. scan \in start..i
  BY <1>4, <1>5
<1> HIDE DEF S
<1>10. tail \in start..i /\ i \in start..i /\ tail \in Nat
  BY <1>0, <1>1, <1>2, <1>3, <1>9
<1>11. ~Splits(transcript, tail)
  <2>1. SUFFICES ASSUME NEW m \in 1..tail, AllTools(transcript, m + 1, tail + 1),
                        transcript[m].calls # {}
                 PROVE  FALSE
    BY DEF Splits
  <2>2. tail \in Nat /\ m \in 1..n /\ m <= tail /\ tail < n
    BY <1>0, <1>1, <1>10
  <2>3. ASSUME NEW j \in m..tail PROVE IsToolAt(j)
    <3>1. j + 1 \in m + 1..tail + 1
      BY <2>2
    <3> QED BY <2>1, <3>1 DEF AllTools, IsToolAt
  <2>4. ~IsToolAt(m - 1)
    <3>1. MessageFits(transcript[m])
      BY <1>1, <2>2 DEF MessagesFit
    <3>2. (m - 1) + 1 = m
      BY <2>2
    <3> QED BY <2>1, <3>1, <3>2 DEF MessageFits, IsToolAt
  <2>5. tail \in m..tail
    BY <2>2
  <2>6. tail = i
    BY <1>3, <1>8, <2>3, <2>5
  <2>7. transcript[scan + 1].calls = {}
    BY <1>3, <1>8, <2>3, <2>5, <2>6
  <2>8. CASE m - 1 < start
    <3>1. start \in m..tail
      BY <1>0, <1>1, <1>2, <2>2, <2>6, <2>8
    <3> QED BY <1>7, <2>3, <3>1
  <2>9. CASE ~(m - 1 < start)
    <3>1. m - 1 \in start..i
      BY <1>0, <1>1, <2>2, <2>6, <2>9
    <3>2. m - 1 <= scan
      BY <1>6, <2>4, <3>1
    <3>3. scan \notin m..tail
      BY <1>8, <2>3
    <3>4. scan = m - 1
      BY <1>9, <2>2, <2>6, <3>2, <3>3
    <3>5. scan + 1 = m
      BY <2>2, <3>4
    <3> QED BY <2>1, <2>7, <3>5
  <2> QED BY <2>8, <2>9
<1> QED BY <1>10, <1>11

LEMMA TailIs ==
  ASSUME MessagesFit(transcript), NEW start, StartsWell(start)
  PROVE  /\ start \in Nat /\ FindTailStart(start) \in Nat
         /\ start < FindTailStart(start) => CoversWell(start, FindTailStart(start))
<1> DEFINE n == Len(transcript)
           fits == {i \in start..n - 1 :
                      \/ i = n - 1
                      \/ SizeOf(SubSeq(Whole, i + 1, n)) <= TailBudget}
           most == Min(fits \cup {n})
           U == {most} \cup LatestUser(start)
           tail == FindTailStart(start)
<1>1. n \in Nat /\ DOMAIN transcript = 1..n
  BY LenProperties DEF MessagesFit
<1>0. start \in 0..n
  BY DEF StartsWell
<1>2. tail = AlignTailBackward(Min(U), start)
  BY DEF FindTailStart
<1>14. LatestUser(start) \subseteq start..n - 1
  BY DEF LatestUser
<1> HIDE DEF n, tail
<1>3. fits \subseteq start..n - 1 /\ (start < n => n - 1 \in fits)
  BY <1>0, <1>1
<1> HIDE DEF fits
<1>4. most \in fits \cup {n} /\ \A y \in fits : most <= y
  <2>1. fits \cup {n} \subseteq Nat /\ fits \cup {n} # {}
    BY <1>0, <1>1, <1>3
  <2>2. Min(fits \cup {n}) \in fits \cup {n} /\ \A y \in fits \cup {n} : Min(fits \cup {n}) <= y
    BY <2>1, LeastOf
  <2> QED BY <2>2
<1> HIDE DEF most
<1>6. Min(U) \in U /\ \A y \in U : Min(U) <= y
  <2>1. U \subseteq Nat /\ U # {}
    BY <1>0, <1>1, <1>3, <1>4, <1>14
  <2> HIDE DEF U
  <2> QED BY <2>1, LeastOf
<1> DEFINE u == Min(U)
<1>7. u \in start..n /\ u <= most /\ (\A y \in LatestUser(start) : u <= y)
  <2>1. U \subseteq start..n /\ most \in U /\ LatestUser(start) \subseteq U
    BY <1>0, <1>1, <1>3, <1>4, <1>14
  <2> HIDE DEF U
  <2> QED BY <1>6, <2>1
<1>15. start = n => tail = n
  <2>1. SUFFICES ASSUME start = n PROVE tail = n
    OBVIOUS
  <2>2. u = n
    BY <1>0, <1>1, <1>7, <2>1
  <2>3. u <= start
    BY <1>0, <1>1, <2>1, <2>2
  <2> QED BY <1>2, <2>2, <2>3 DEF AlignTailBackward
<1> HIDE DEF u
<1>16. tail = AlignTailBackward(u, start)
  BY <1>2 DEF u
<1>17. CASE start = n
  <2>1. ~(start < tail) /\ tail \in Nat /\ start \in Nat
    BY <1>1, <1>15, <1>17
  <2> QED BY <2>1 DEF tail
<1>8. SUFFICES ASSUME start < n
               PROVE  start \in Nat /\ tail \in Nat /\ (start < tail => CoversWell(start, tail))
  BY <1>0, <1>1, <1>17 DEF tail
<1>9. u < n
  <2>1. most <= n - 1
    BY <1>3, <1>4, <1>8
  <2>2. most \in Nat
    BY <1>0, <1>1, <1>3, <1>4
  <2> QED BY <1>0, <1>1, <1>7, <2>1, <2>2
<1>18. tail \in Nat /\ (start < tail => tail \in start..u /\ ~Splits(transcript, tail))
  <2>1. u \in Nat
    BY <1>0, <1>1, <1>7
  <2>2. BeforeEnd(u)
    BY <1>9, <2>1 DEF BeforeEnd, n
  <2> QED BY <1>16, <2>2, TailIsAligned
<1>19. SUFFICES ASSUME start < tail PROVE CoversWell(start, tail)
  BY <1>0, <1>1, <1>18
<1>10. tail \in start..u /\ ~Splits(transcript, tail) /\ start < tail
  BY <1>18, <1>19
<1>11. ASSUME NEW i \in 1..n, IsLatestUser(transcript, i), ~(i <= start)
       PROVE  i > tail
  <2>1. i - 1 \in LatestUser(start)
    <3>1. i - 1 \in start..n - 1 /\ (i - 1) + 1 = i
      BY <1>0, <1>1, <1>11
    <3>2. ASSUME NEW j \in (i - 1) + 1..n - 1 PROVE transcript[j + 1].role # "user"
      <4>1. j + 1 \in i + 1..n
        BY <1>1, <3>2
      <4> QED BY <1>11, <4>1 DEF IsLatestUser, n
    <3>3. transcript[i].role = "user"
      BY <1>11 DEF IsLatestUser
    <3> QED BY <3>1, <3>2, <3>3 DEF LatestUser, n
  <2>2. u <= i - 1
    BY <1>7, <2>1
  <2> QED BY <1>0, <1>1, <1>7, <1>10, <2>2
<1>12. /\ start \in Nat /\ tail \in Nat /\ start < tail /\ tail < n
  BY <1>0, <1>1, <1>7, <1>9, <1>10
<1> QED BY <1>10, <1>11, <1>12 DEF CoversWell, n

\* What is built of the session can be sent, and its cover holds.
LEMMA BuildIs ==
  ASSUME ContextAssumption, MessagesFit(transcript), CoverFits(transcript, covering)
  PROVE  IsWhole(Build.messages) /\ CoverFits(transcript, Build.cover)
<1> DEFINE start == CompressStart
           tail == FindTailStart(start)
           head == covering.head
           covered == covering.covered
<1>2. StartsWell(start)
  BY CompressStartIs
<1>1. start \in Nat /\ tail \in Nat /\ (start < tail => CoversWell(start, tail))
  BY <1>2, TailIs
<1>3. IsWhole(SanitizeToolPairs(Whole))
  BY WholeCanBeSent, SentIsWhole
<1>4. ASSUME covering # NoCover PROVE IsWhole(SanitizeToolPairs(Reused))
  <2>1. CoversWell(head, covered)
    BY <1>4 DEF CoverFits, CoversWell
  <2>2. CanBeSent(Compacted(head, covered))
    BY <2>1, CompactedCanBeSent
  <2> QED BY <2>2, SentIsWhole DEF Reused
<1> HIDE DEF start, tail
<1>5. ASSUME start < tail
      PROVE  /\ IsWhole(SanitizeToolPairs(Compacted(start, tail)))
             /\ CoverFits(transcript, [covered |-> tail, head |-> start])
  <2>1. CoversWell(start, tail)
    BY <1>1, <1>5
  <2>2. CanBeSent(Compacted(start, tail))
    BY <2>1, CompactedCanBeSent
  <2>3. CoverFits(transcript, [covered |-> tail, head |-> start])
    BY <2>1 DEF CoverFits, CoversWell
  <2> QED BY <2>2, <2>3, SentIsWhole
<1>6. \/ /\ covering # NoCover
         /\ Build.messages = SanitizeToolPairs(Reused) /\ Build.cover = covering
      \/ Build.messages = SanitizeToolPairs(Whole) /\ Build.cover = covering
      \/ /\ ~(start >= tail)
         /\ Build.messages = SanitizeToolPairs(Compacted(start, tail))
         /\ Build.cover = [covered |-> tail, head |-> start]
  BY Zenon DEF Build, start, tail
<1>7. ~(start >= tail) => start < tail
  BY <1>1
<1> QED BY <1>3, <1>4, <1>5, <1>6, <1>7

-----------------------------------------------------------------------------
(* The messages of a session *)

\* One message more, when it is no second result.
LEMMA OneMoreFits ==
  ASSUME NEW t, MessagesFit(t), NEW m, m \in SaidMessages, MessageFits(m),
         m.role = "tool" => WaitFits(t, {m.reply})
  PROVE  /\ MessagesFit(Append(t, m))
         /\ \A cover : CoverFits(t, cover) => CoverFits(Append(t, m), cover)
         /\ \A waits : WaitFits(t, waits) /\ m.reply \notin waits => WaitFits(Append(t, m), waits)
         /\ m.role # "tool" => \A waits : WaitFits(Append(t, m), waits)
         /\ Append(t, m) # <<>> /\ Append(t, m)[Len(Append(t, m))] = m
<1> DEFINE N == Len(t)
           u == Append(t, m)
<1>1. t \in Seq(SaidMessages) /\ (\A i \in DOMAIN t : MessageFits(t[i])) /\ RepliesDiffer(t)
  BY DEF MessagesFit
<1>2. /\ N \in Nat /\ DOMAIN t = 1..N /\ u \in Seq(SaidMessages) /\ Len(u) = N + 1
      /\ (\A i \in 1..N : u[i] = t[i]) /\ u[N + 1] = m /\ u # <<>>
  BY <1>1, LenProperties, AppendProperties
<1>3. DOMAIN u = 1..(N + 1)
  BY <1>2, LenProperties
<1> HIDE DEF N, u
<1>4. \A i \in 1..(N + 1) : i \in 1..N \/ i = N + 1
  BY <1>2
<1>5. ASSUME NEW i \in 1..(N + 1), NEW j \in 1..N, AllTools(u, i, j)
      PROVE  AllTools(t, i, j)
  <2>1. \A k \in i..j : k \in 1..N
    BY <1>2
  <2> QED BY <1>2, <1>5, <2>1 DEF AllTools
<1>6. ASSUME NEW i \in 1..(N + 1), AllTools(u, i, N + 1)
      PROVE  m.role = "tool" /\ (i # N + 1 => i \in 1..N /\ AllTools(t, i, N))
  <2>1. N + 1 \in i..(N + 1)
    BY <1>2
  <2>2. m.role = "tool"
    BY <1>2, <1>6, <2>1 DEF AllTools
  <2>3. ASSUME NEW k \in i..N PROVE t[k].role = "tool"
    <3>1. k \in i..(N + 1) /\ k \in 1..N
      BY <1>2
    <3> QED BY <1>2, <1>6, <3>1 DEF AllTools
  <2> QED BY <1>4, <2>2, <2>3 DEF AllTools
<1>7. RepliesDiffer(u)
  <2>1. SUFFICES ASSUME NEW i \in 1..(N + 1), NEW j \in 1..(N + 1), i < j, AllTools(u, i, j)
                 PROVE  u[i].reply # u[j].reply
    BY <1>3 DEF RepliesDiffer
  <2>2. i \in 1..N
    BY <1>2, <2>1
  <2>3. CASE j \in 1..N
    BY <1>1, <1>2, <1>5, <2>1, <2>2, <2>3 DEF RepliesDiffer
  <2>4. CASE j = N + 1
    <3>1. m.role = "tool" /\ AllTools(t, i, N)
      <4>1. i # N + 1
        BY <1>2, <2>2
      <4> QED BY <1>6, <2>1, <2>4, <4>1
    <3>2. WaitFits(t, {m.reply})
      BY <3>1
    <3>3. t[i].reply # m.reply
      BY <1>2, <2>2, <3>1, <3>2 DEF WaitFits, N
    <3> QED BY <1>2, <2>2, <2>4, <3>3
  <2> QED BY <1>4, <2>3, <2>4
<1>8. MessagesFit(u)
  <2>1. \A i \in 1..(N + 1) : MessageFits(u[i])
    BY <1>1, <1>2, <1>4
  <2> QED BY <1>2, <1>3, <1>7, <2>1 DEF MessagesFit
<1>9. ASSUME NEW cover, CoverFits(t, cover) PROVE CoverFits(u, cover)
  <2>1. CASE cover = NoCover
    BY <2>1 DEF CoverFits
  <2>2. CASE cover # NoCover
    <3> DEFINE h == cover.head
               c == cover.covered
    <3>1. /\ h \in Nat /\ c \in Nat /\ h < c /\ c < N /\ ~Splits(t, c)
          /\ \A i \in 1..N : IsLatestUser(t, i) => i <= h \/ i > c
      BY <1>9, <2>2 DEF CoverFits, N
    <3> HIDE DEF h, c
    <3>2. ~Splits(u, c)
      <4>1. SUFFICES ASSUME NEW o \in 1..c, AllTools(u, o + 1, c + 1), u[o].calls # {}
                     PROVE  FALSE
        BY DEF Splits
      <4>2. o + 1 \in 1..(N + 1) /\ c + 1 \in 1..N /\ o \in 1..N
        BY <1>2, <3>1
      <4>3. AllTools(t, o + 1, c + 1)
        BY <1>5, <4>1, <4>2
      <4> QED BY <1>2, <3>1, <4>1, <4>2, <4>3 DEF Splits
    <3>3. ASSUME NEW i \in 1..(N + 1), IsLatestUser(u, i) PROVE i <= h \/ i > c
      <4>1. CASE i = N + 1
        BY <1>2, <3>1, <4>1
      <4>2. CASE i \in 1..N
        <5>1. \A j \in i + 1..N : j \in i + 1..(N + 1) /\ j \in 1..N
          BY <1>2, <4>2
        <5>2. IsLatestUser(t, i)
          BY <1>2, <3>3, <4>2, <5>1 DEF IsLatestUser, N
        <5> QED BY <3>1, <4>2, <5>2
      <4> QED BY <1>4, <4>1, <4>2
    <3>4. c < N + 1
      BY <1>2, <3>1
    <3> QED BY <1>2, <3>1, <3>2, <3>3, <3>4 DEF CoverFits, h, c
  <2> QED BY <2>1, <2>2
<1>10. ASSUME NEW waits, WaitFits(t, waits), m.reply \notin waits PROVE WaitFits(u, waits)
  <2>1. SUFFICES ASSUME NEW i \in 1..(N + 1), AllTools(u, i, N + 1) PROVE u[i].reply \notin waits
    BY <1>2, <1>3 DEF WaitFits
  <2>2. CASE i = N + 1
    BY <1>2, <1>10, <2>2
  <2>3. CASE i \in 1..N
    <3>1. i # N + 1
      BY <1>2, <2>3
    <3>2. AllTools(t, i, N)
      BY <1>6, <2>1, <3>1
    <3> QED BY <1>2, <1>10, <2>3, <3>2 DEF WaitFits, N
  <2> QED BY <1>4, <2>2, <2>3
<1>11. ASSUME m.role # "tool", NEW waits PROVE WaitFits(u, waits)
  BY <1>2, <1>3, <1>6, <1>11 DEF WaitFits
<1>12. u # <<>> /\ u[Len(u)] = m
  BY <1>2
<1> QED BY <1>8, <1>9, <1>10, <1>11, <1>12 DEF u

\* The results of calls that have none.
LEMMA ResultsFit ==
  ASSUME ContextAssumption, NEW t, MessagesFit(t), NEW calls \in SUBSET ContextCalls,
         NEW waits, \A w : WaitFits(t, w), NEW size \in Sizes
  PROVE  LET results == Replies(calls \ waits, size) IN
         /\ MessagesFit(t \o results) /\ WaitFits(t \o results, waits)
         /\ \A cover : CoverFits(t, cover) => CoverFits(t \o results, cover)
<1> DEFINE told == calls \ waits
           done == CallsInOrder(told)
           n == Cardinality(told)
           ToldOf(k) == [i \in 1..k |-> Reply(done[i], size)]
           With(k) == t \o ToldOf(k)
           Wait(k) == waits \cup {done[i] : i \in k + 1..n}
           T == {k \in 0..n : /\ MessagesFit(With(k)) /\ WaitFits(With(k), Wait(k))
                              /\ \A cover : CoverFits(t, cover) => CoverFits(With(k), cover)}
<1>1. told \subseteq Nat /\ IsFiniteSet(told) /\ 0 \notin told /\ told \subseteq ContextCalls
  BY FS_Subset DEF ContextAssumption
<1>2. /\ n \in Nat /\ done \in [1..n -> told]
      /\ \A i, j \in 1..n : done[i] = done[j] => i = j
  BY <1>1, CallsInOrderIs
<1>3. told \cap waits = {}
  OBVIOUS
<1> HIDE DEF told, done, n
<1>4. Len(done) = n
  <2>1. done \in Seq(told)
    BY <1>2
  <2>2. DOMAIN done = 1..n
    BY <1>2
  <2> QED BY <1>2, <2>1, <2>2, LenProperties
<1>5. \A i \in 1..n : done[i] \in told /\ done[i] \in ContextCalls /\ done[i] # 0
  BY <1>1, <1>2
<1>6. ASSUME NEW i \in 1..n
      PROVE  /\ Reply(done[i], size) \in SaidMessages /\ MessageFits(Reply(done[i], size))
             /\ Reply(done[i], size).reply = done[i] /\ Reply(done[i], size).role = "tool"
  <2> DEFINE c == done[i]
  <2>1. c \in ContextCalls /\ c # 0
    BY <1>5
  <2> HIDE DEF c
  <2>2. Reply(c, size) = [role |-> "tool", calls |-> {}, reply |-> c, size |-> size]
    BY DEF Reply
  <2>3. Reply(c, size) \in SaidMessages
    BY <2>1, <2>2 DEF SaidMessages
  <2> QED BY <2>1, <2>2, <2>3 DEF MessageFits, c
<1>7. ASSUME NEW k \in 0..n
      PROVE  ToldOf(k) \in Seq(SaidMessages) /\ Len(ToldOf(k)) = k
  <2>1. \A i \in 1..k : i \in 1..n
    BY <1>2
  <2>2. ToldOf(k) \in [1..k -> SaidMessages]
    BY <1>6, <2>1
  <2>3. k \in Nat /\ DOMAIN ToldOf(k) = 1..k
    BY <1>2
  <2> HIDE DEF ToldOf
  <2>4. ToldOf(k) \in Seq(SaidMessages)
    BY <2>2, <2>3
  <2> QED BY <2>3, <2>4, LenProperties
<1>8. t \in Seq(SaidMessages)
  BY DEF MessagesFit
<1>9. With(0) = t
  <2>1. 0 \in 0..n
    BY <1>2
  <2> HIDE DEF ToldOf
  <2>2. ToldOf(0) = <<>>
    BY <1>7, <2>1, EmptySeq
  <2> QED BY <1>8, <2>2, ConcatEmptySeq
<1>10. 0 \in T
  BY <1>2, <1>9
<1>11. ASSUME NEW k \in 0..(n - 1), k \in T PROVE k + 1 \in T
  <2> DEFINE r == Reply(done[k + 1], size)
  <2>1. k \in 0..n /\ k + 1 \in 1..n /\ k + 1 \in 0..n /\ k \in Nat
    BY <1>2
  <2>2. r \in SaidMessages /\ MessageFits(r) /\ r.reply = done[k + 1] /\ r.role = "tool"
    BY <1>6, <2>1
  <2>3. With(k + 1) = Append(With(k), r)
    <3>1. ToldOf(k + 1) = Append(ToldOf(k), r)
      <4>1. /\ ToldOf(k) \in Seq(SaidMessages) /\ Len(ToldOf(k)) = k
            /\ ToldOf(k + 1) \in Seq(SaidMessages) /\ Len(ToldOf(k + 1)) = k + 1
        BY <1>7, <2>1
      <4>2. /\ \A i \in 1..k : ToldOf(k + 1)[i] = ToldOf(k)[i]
            /\ ToldOf(k + 1)[k + 1] = r
        BY <2>1
      <4> DEFINE a == ToldOf(k)
                 b == ToldOf(k + 1)
                 d == Append(a, r)
      <4>3. /\ d \in Seq(SaidMessages) /\ Len(d) = k + 1
            /\ \A i \in 1..k : d[i] = a[i]
            /\ d[k + 1] = r
        BY <2>2, <4>1, AppendProperties
      <4>4. \A i \in 1..(k + 1) : i \in 1..k \/ i = k + 1
        BY <2>1
      <4> HIDE DEF a, b, d, r, ToldOf
      <4>5. \A i \in 1..(k + 1) : b[i] = d[i]
        BY <4>2, <4>3, <4>4 DEF a, b
      <4>6. b \in Seq(SaidMessages) /\ Len(b) = k + 1
        BY <4>1 DEF b
      <4>7. b = d
        BY <4>3, <4>5, <4>6, SeqEqual
      <4> QED BY <4>7 DEF a, b, d
    <3>2. ToldOf(k) \in Seq(SaidMessages)
      BY <1>7, <2>1
    <3> HIDE DEF ToldOf, r
    <3>3. t \o Append(ToldOf(k), r) = Append(t \o ToldOf(k), r)
      <4> DEFINE a == ToldOf(k)
      <4>1. Append(a, r) = a \o <<r>> /\ a \in Seq(SaidMessages)
        BY <2>2, <3>2, AppendIsConcat
      <4>2. t \o a \in Seq(SaidMessages) /\ <<r>> \in Seq(SaidMessages)
        BY <1>8, <2>2, <3>2, ConcatProperties
      <4>3. Append(t \o a, r) = (t \o a) \o <<r>>
        BY <2>2, <4>2, AppendIsConcat
      <4>4. t \o (a \o <<r>>) = (t \o a) \o <<r>>
        BY <1>8, <4>1, <4>2, ConcatAssociative
      <4> QED BY <4>1, <4>3, <4>4
    <3> QED BY <3>1, <3>3
  <2>4. /\ MessagesFit(With(k)) /\ WaitFits(With(k), Wait(k))
        /\ \A cover : CoverFits(t, cover) => CoverFits(With(k), cover)
    BY <1>11
  <2>5. done[k + 1] \in Wait(k) /\ Wait(k + 1) \subseteq Wait(k) /\ done[k + 1] \notin Wait(k + 1)
    <3>1. k + 1 \in k + 1..n /\ \A i \in (k + 1) + 1..n : i \in k + 1..n /\ i \in 1..n /\ i # k + 1
      BY <1>2, <2>1
    <3>2. done[k + 1] \notin waits
      BY <1>3, <1>5, <2>1
    <3>3. \A i \in (k + 1) + 1..n : done[i] # done[k + 1]
      BY <1>2, <2>1, <3>1
    <3> QED BY <3>1, <3>2, <3>3
  <2> HIDE DEF With, Wait, r
  <2>6. WaitFits(With(k), {r.reply}) /\ WaitFits(With(k), Wait(k + 1)) /\ r.reply \notin Wait(k + 1)
    BY <2>2, <2>4, <2>5 DEF WaitFits
  <2>7. /\ MessagesFit(Append(With(k), r))
        /\ \A cover : CoverFits(With(k), cover) => CoverFits(Append(With(k), r), cover)
        /\ \A w : WaitFits(With(k), w) /\ r.reply \notin w => WaitFits(Append(With(k), r), w)
    BY <2>2, <2>4, <2>6, OneMoreFits
  <2> QED BY <2>1, <2>3, <2>4, <2>6, <2>7
<1> HIDE DEF T
<1>12. n \in T
  <2>1. \A i \in 0..n : i \in T
    BY <1>2, <1>10, <1>11, UpTo
  <2> QED BY <1>2, <2>1
<1>13. Wait(n) = waits
  <2>1. n + 1..n = {}
    BY <1>2
  <2> QED BY <2>1
<1>14. /\ MessagesFit(With(n)) /\ WaitFits(With(n), waits)
       /\ \A cover : CoverFits(t, cover) => CoverFits(With(n), cover)
  BY <1>12, <1>13 DEF T
<1>15. Replies(told, size) = ToldOf(n)
  BY <1>4 DEF Replies, done
<1> QED BY <1>14, <1>15 DEF told

-----------------------------------------------------------------------------
(* The steps *)

LEMMA SpokenIs ==
  ASSUME ContextAssumption, NEW role \in {"user", "runtime", "assistant"}, NEW size \in Sizes,
         NEW calls \in SUBSET ContextCalls
  PROVE  LET m == Spoken(role, size)
             c == [Spoken(role, size) EXCEPT !.calls = calls] IN
         /\ m \in SaidMessages /\ MessageFits(m) /\ m.role # "tool"
         /\ c \in SaidMessages /\ MessageFits(c) /\ c.role # "tool" /\ c.calls = calls
<1>1. Spoken(role, size) = [role |-> role, calls |-> {}, reply |-> 0, size |-> size]
  BY DEF Spoken
<1>2. [Spoken(role, size) EXCEPT !.calls = calls]
        = [role |-> role, calls |-> calls, reply |-> 0, size |-> size]
  BY <1>1
<1>3. \A c \in SUBSET ContextCalls :
        [role |-> role, calls |-> c, reply |-> 0, size |-> size] \in SaidMessages
  BY DEF SaidMessages
<1> QED BY <1>1, <1>2, <1>3 DEF MessageFits

LEMMA ReplyIs ==
  ASSUME ContextAssumption, NEW call \in ContextCalls, NEW size \in Sizes
  PROVE  /\ Reply(call, size) \in SaidMessages /\ MessageFits(Reply(call, size))
         /\ Reply(call, size).reply = call
<1>1. call # 0
  BY DEF ContextAssumption
<1> QED BY <1>1 DEF Reply, SaidMessages, MessageFits

LEMMA LeastSize == ASSUME ContextAssumption PROVE Min(Sizes) \in Sizes
<1>1. Sizes \subseteq Nat /\ Sizes # {}
  BY DEF ContextAssumption
<1> QED BY <1>1, LeastOf

\* A message that is no result can always be said, ...
LEMMA SaysMore ==
  ASSUME NEW t, MessagesFit(t), NEW m, m \in SaidMessages, MessageFits(m), m.role # "tool"
  PROVE  /\ MessagesFit(Append(t, m)) /\ \A waits : WaitFits(Append(t, m), waits)
         /\ \A cover : CoverFits(t, cover) => CoverFits(Append(t, m), cover)
         /\ Append(t, m) # <<>> /\ Append(t, m)[Len(Append(t, m))] = m
BY OneMoreFits

\* ... and a request of before is none of now.
LEMMA NoRequestNow ==
  ASSUME turnAt' \notin {"model", "last_model"} PROVE RequestIsWhole'
BY DEF RequestIsWhole

LEMMA RequestKept ==
  ASSUME NEW sentNow, IsWhole(sentNow), modelRequest' = sentNow, transcript' = transcript
  PROVE  IsWhole(modelRequest)'
<1>1. Paired(modelRequest)'
  BY DEF IsWhole, Paired, ToolResults, IsTool, AnsweredTools, CallsOf
<1>2. Whole' = Whole
  BY DEF Whole, Kept
<1>3. AnsweredTools(Whole)' = AnsweredTools(Whole)
  BY <1>2 DEF AnsweredTools, IsTool, CallsOf
<1>4. Held(modelRequest)' = Held(sentNow)
  BY DEF Held
<1>5. LatestUser(0)' = LatestUser(0)
  BY DEF LatestUser
<1>6. \A i : Kept(i)' = Kept(i)
  BY DEF Kept
<1>7. (\A i \in 1..Len(transcript) :
         i \in Held(modelRequest) \/ (transcript[i].role = "tool" /\ i \notin AnsweredTools(Whole)))'
  BY <1>3, <1>4 DEF IsWhole
<1>8. (\A m, n \in DOMAIN modelRequest : m < n =>
         \A i \in modelRequest[m].of, j \in modelRequest[n].of : i < j)'
  BY DEF IsWhole
<1>9. (\A i \in LatestUser(0) : \E n \in DOMAIN modelRequest : modelRequest[n] = Kept(i + 1))'
  BY <1>5, <1>6 DEF IsWhole, Kept
<1> QED BY <1>1, <1>7, <1>8, <1>9 DEF IsWhole

LEMMA UserMessageKeeps ==
  ASSUME ContextAssumption, ContextInv, UserMessage PROVE ContextInv'
<1>1. PICK size \in Sizes : transcript' = Append(transcript, Spoken("user", size))
  BY DEF UserMessage, Say
<1>2. turnAt' = "build" /\ unanswered' = {} /\ covering' = covering
  BY DEF UserMessage
<1> DEFINE m == Spoken("user", size)
<1>3. m \in SaidMessages /\ MessageFits(m) /\ m.role # "tool"
  BY SpokenIs
<1> HIDE DEF m
<1>4. MessagesFit(transcript) /\ CoverFits(transcript, covering)
  BY DEF ContextInv, SessionFits
<1> DEFINE u == Append(transcript, m)
<1>5. MessagesFit(u) /\ (\A waits : WaitFits(u, waits)) /\ CoverFits(u, covering)
  BY <1>3, <1>4, SaysMore
<1>6. transcript' = u
  BY <1>1 DEF m
<1> HIDE DEF u
<1>7. SessionFits(u, "build", {}, covering)
  BY <1>5 DEF SessionFits
<1>8. RequestIsWhole'
  BY <1>2, NoRequestNow
<1> QED BY <1>2, <1>6, <1>7, <1>8 DEF ContextInv

\* No call has a result after a message that is no result.
LEMMA LastIsNoResult ==
  ASSUME NEW t, MessagesFit(t), t # <<>>, t[Len(t)].role # "tool"
  PROVE  \A waits : WaitFits(t, waits)
<1> DEFINE n == Len(t)
<1>1. n \in Nat /\ DOMAIN t = 1..n
  BY LenProperties DEF MessagesFit
<1> HIDE DEF n
<1>2. \A i \in 1..n : n \in i..n
  BY <1>1
<1>3. t[n].role # "tool"
  BY DEF n
<1>4. \A i \in 1..n : ~AllTools(t, i, n)
  BY <1>2, <1>3 DEF AllTools
<1> QED BY <1>1, <1>4 DEF WaitFits, n

\* What holds in each step before the messages of it.
LEMMA InvSays ==
  ASSUME ContextInv
  PROVE  /\ MessagesFit(transcript) /\ CoverFits(transcript, covering)
         /\ unanswered \subseteq ContextCalls /\ WaitFits(transcript, unanswered)
         /\ turnAt # "idle" => unanswered = {}
         /\ turnAt = "tools" => /\ transcript # <<>> /\ transcript[Len(transcript)].role # "tool"
                                /\ transcript[Len(transcript)].calls # {}
BY DEF ContextInv, SessionFits

\* Steps that say one message and no more.
LEMMA SaidKeeps ==
  ASSUME ContextAssumption, ContextInv, NEW m, m \in SaidMessages, MessageFits(m),
         m.role # "tool", transcript' = Append(transcript, m), covering' = covering,
         unanswered' \subseteq ContextCalls, turnAt' # "idle" => unanswered' = {},
         turnAt' = "tools" => m.calls # {}, turnAt' \notin {"model", "last_model"}
  PROVE  ContextInv'
<1> DEFINE u == Append(transcript, m)
<1>1. /\ MessagesFit(u) /\ (\A waits : WaitFits(u, waits)) /\ CoverFits(u, covering)
      /\ u # <<>> /\ u[Len(u)] = m
  BY InvSays, SaysMore
<1> HIDE DEF u
<1>2. transcript' = u
  BY DEF u
<1>3. SessionFits(u, turnAt', unanswered', covering)
  BY <1>1 DEF SessionFits
<1>4. RequestIsWhole'
  BY NoRequestNow
<1> QED BY <1>2, <1>3, <1>4 DEF ContextInv

LEMMA NotifyKeeps == ASSUME ContextAssumption, ContextInv, Notify PROVE ContextInv'
<1>1. PICK size \in Sizes : transcript' = Append(transcript, Spoken("runtime", size))
  BY DEF Notify, Say
<1>2. /\ turnAt \in {"build", "last_build"} /\ turnAt' = turnAt /\ unanswered' = unanswered
      /\ covering' = covering
  BY DEF Notify
<1> DEFINE m == Spoken("runtime", size)
<1>3. m \in SaidMessages /\ MessageFits(m) /\ m.role # "tool"
  BY SpokenIs
<1> HIDE DEF m
<1>4. unanswered \subseteq ContextCalls /\ unanswered = {}
  BY <1>2, InvSays
<1>5. transcript' = Append(transcript, m)
  BY <1>1 DEF m
<1> QED BY <1>2, <1>3, <1>4, <1>5, SaidKeeps

LEMMA EndTurnKeeps == ASSUME ContextAssumption, ContextInv, EndTurn PROVE ContextInv'
<1> DEFINE m == Spoken("assistant", Min(Sizes))
<1>1. /\ transcript' = Append(transcript, m) /\ turnAt # "idle"
      /\ turnAt' = "idle" /\ unanswered' = unanswered /\ covering' = covering
  BY DEF EndTurn, Say
<1>2. m \in SaidMessages /\ MessageFits(m) /\ m.role # "tool"
  BY LeastSize, SpokenIs
<1> HIDE DEF m
<1>3. unanswered \subseteq ContextCalls
  BY InvSays
<1> QED BY <1>1, <1>2, <1>3, SaidKeeps

LEMMA ResumeTurnKeeps == ASSUME ContextAssumption, ContextInv, ResumeTurn PROVE ContextInv'
<1>1. PICK size \in Sizes, call \in unanswered : transcript' = Append(transcript, Reply(call, size))
  BY DEF ResumeTurn, Say
<1>2. turnAt' = "build" /\ unanswered' = {} /\ covering' = covering
  BY DEF ResumeTurn
<1>3. /\ MessagesFit(transcript) /\ CoverFits(transcript, covering)
      /\ call \in ContextCalls /\ WaitFits(transcript, unanswered)
  BY InvSays
<1> DEFINE m == Reply(call, size)
<1>4. m \in SaidMessages /\ MessageFits(m) /\ m.reply = call
  BY <1>3, ReplyIs
<1> HIDE DEF m
<1>5. WaitFits(transcript, {m.reply})
  BY <1>3, <1>4 DEF WaitFits
<1> DEFINE u == Append(transcript, m)
<1>6. MessagesFit(u) /\ CoverFits(u, covering)
  BY <1>3, <1>4, <1>5, OneMoreFits
<1>7. transcript' = u
  BY <1>1 DEF m
<1> HIDE DEF u
<1>8. SessionFits(u, "build", {}, covering)
  BY <1>6 DEF SessionFits, WaitFits
<1>9. RequestIsWhole'
  BY <1>2, NoRequestNow
<1> QED BY <1>2, <1>7, <1>8, <1>9 DEF ContextInv

LEMMA BreakOffKeeps == ASSUME ContextAssumption, ContextInv, BreakOff PROVE ContextInv'
<1>1. turnAt # "idle" /\ turnAt' = "idle" /\ unanswered' = unanswered /\ covering' = covering
  BY DEF BreakOff
<1>2. /\ MessagesFit(transcript) /\ CoverFits(transcript, covering) /\ unanswered = {}
      /\ turnAt = "tools" => /\ transcript # <<>> /\ transcript[Len(transcript)].role # "tool"
                             /\ transcript[Len(transcript)].calls # {}
  BY <1>1, InvSays
<1>3. RequestIsWhole'
  BY <1>1, NoRequestNow
<1>4. SUFFICES SessionFits(transcript', "idle", {}, covering)
  BY <1>1, <1>2, <1>3 DEF ContextInv
<1>5. CASE UNCHANGED transcript
  BY <1>2, <1>5 DEF SessionFits, WaitFits
<1>6. CASE ~UNCHANGED transcript
  <2> DEFINE last == transcript[Len(transcript)]
  <2>1. PICK size \in Sizes : transcript' = Append(transcript, Reply(Min(last.calls), size))
    BY <1>6 DEF BreakOff, Say
  <2>2. turnAt = "tools"
    BY <1>6 DEF BreakOff
  <2>3. last.calls \subseteq ContextCalls
    <3>1. transcript \in Seq(SaidMessages) /\ Len(transcript) \in Nat /\ transcript # <<>>
      BY <1>2, <2>2, WholeIs DEF MessagesFit
    <3>2. Len(transcript) \in 1..Len(transcript)
      BY <3>1, EmptySeq
    <3>3. last \in SaidMessages
      BY <3>1, <3>2, ElementOfSeq
    <3> QED BY <3>3 DEF SaidMessages
  <2>4. Min(last.calls) \in ContextCalls
    <3>1. ContextCalls \subseteq Nat
      BY DEF ContextAssumption
    <3>2. last.calls \subseteq Nat /\ last.calls # {}
      BY <1>2, <2>2, <2>3, <3>1
    <3> HIDE DEF last
    <3> QED BY <2>3, <3>2, LeastOf
  <2> DEFINE m == Reply(Min(last.calls), size)
  <2>5. m \in SaidMessages /\ MessageFits(m)
    BY <2>4, ReplyIs
  <2> HIDE DEF m
  <2>6. \A w : WaitFits(transcript, w)
    BY <1>2, <2>2, LastIsNoResult
  <2> DEFINE u == Append(transcript, m)
  <2>7. MessagesFit(u) /\ CoverFits(u, covering)
    BY <1>2, <2>5, <2>6, OneMoreFits
  <2>8. transcript' = u
    BY <2>1 DEF m
  <2> HIDE DEF u
  <2> QED BY <2>7, <2>8 DEF SessionFits, WaitFits
<1> QED BY <1>5, <1>6

LEMMA PrepareStepKeeps == ASSUME ContextAssumption, ContextInv, PrepareStep PROVE ContextInv'
<1>1. /\ MessagesFit(transcript) /\ CoverFits(transcript, covering)
      /\ turnAt \in {"build", "last_build"} /\ unanswered = {} /\ unanswered' = unanswered
      /\ WaitFits(transcript, unanswered)
  BY InvSays DEF PrepareStep
<1>2. IsWhole(Build.messages) /\ CoverFits(transcript, Build.cover)
  BY <1>1, BuildIs
<1>3. IsWhole(SanitizeToolPairs(Whole))
  BY <1>1, WholeCanBeSent, SentIsWhole
<1>4. CASE /\ modelRequest' = Build.messages /\ covering' = Build.cover
           /\ turnAt' = IF turnAt = "build" THEN "model" ELSE "last_model"
           /\ UNCHANGED transcript
  <2>1. IsWhole(modelRequest)'
    BY <1>2, <1>4, RequestKept
  <2>2. SessionFits(transcript, turnAt', {}, Build.cover)
    BY <1>1, <1>2, <1>4 DEF SessionFits
  <2> QED BY <1>1, <1>4, <2>1, <2>2 DEF ContextInv, RequestIsWhole
<1>5. CASE /\ Build.asks /\ UNCHANGED covering
           /\ modelRequest' = SanitizeToolPairs(Whole)
           /\ turnAt' = IF turnAt = "build" THEN "model" ELSE "last_model"
           /\ UNCHANGED transcript
  <2>1. IsWhole(modelRequest)'
    BY <1>3, <1>5, RequestKept
  <2>2. SessionFits(transcript, turnAt', {}, covering)
    BY <1>1, <1>5 DEF SessionFits
  <2> QED BY <1>1, <1>5, <2>1, <2>2 DEF ContextInv, RequestIsWhole
<1>6. CASE /\ UNCHANGED covering /\ turnAt' = "idle"
           /\ transcript' = Append(transcript, Spoken("assistant", Min(Sizes)))
  <2> DEFINE m == Spoken("assistant", Min(Sizes))
  <2>1. m \in SaidMessages /\ MessageFits(m) /\ m.role # "tool"
    BY LeastSize, SpokenIs
  <2> HIDE DEF m
  <2>2. transcript' = Append(transcript, m)
    BY <1>6 DEF m
  <2>3. /\ covering' = covering /\ turnAt' = "idle" /\ unanswered' = {}
        /\ unanswered' \subseteq ContextCalls
    BY <1>1, <1>6
  <2> QED BY <2>1, <2>2, <2>3, SaidKeeps
<1> QED BY <1>4, <1>5, <1>6, Zenon DEF PrepareStep, Say

LEMMA ModelSaysKeeps == ASSUME ContextAssumption, ContextInv, ModelSays PROVE ContextInv'
<1> DEFINE m == Spoken("assistant", Min(Sizes))
           q == Spoken("user", Min(Sizes))
           u == Append(transcript, m)
<1>1. PICK more \in BOOLEAN :
        /\ transcript' = u \o IF more THEN <<q>> ELSE <<>>
        /\ turnAt' = IF more THEN "build" ELSE "idle"
  BY DEF ModelSays
<1>2. unanswered = {} /\ unanswered' = unanswered /\ covering' = covering
  BY InvSays DEF ModelSays
<1>3. m \in SaidMessages /\ MessageFits(m) /\ m.role # "tool"
  BY LeastSize, SpokenIs
<1>4. q \in SaidMessages /\ MessageFits(q) /\ q.role # "tool"
  BY LeastSize, SpokenIs
<1> HIDE DEF m, q
<1>5. MessagesFit(transcript) /\ CoverFits(transcript, covering)
  BY InvSays
<1>6. MessagesFit(u) /\ (\A waits : WaitFits(u, waits)) /\ CoverFits(u, covering)
  BY <1>3, <1>5, SaysMore
<1> HIDE DEF u
<1> DEFINE v == Append(u, q)
<1>7. MessagesFit(v) /\ (\A waits : WaitFits(v, waits)) /\ CoverFits(v, covering)
  BY <1>4, <1>6, SaysMore
<1>8. transcript' = u \/ transcript' = v
  <2>1. u \in Seq(SaidMessages)
    BY <1>6 DEF MessagesFit
  <2>2. u \o <<>> = u /\ u \o <<q>> = v
    BY <1>4, <2>1, ConcatEmptySeq, AppendIsConcat
  <2> QED BY <1>1, <2>2
<1> HIDE DEF v
<1>9. SessionFits(transcript', turnAt', {}, covering)
  <2>1. turnAt' # "tools"
    BY <1>1
  <2>2. MessagesFit(transcript') /\ CoverFits(transcript', covering) /\ WaitFits(transcript', {})
    BY <1>6, <1>7, <1>8
  <2> QED BY <2>1, <2>2 DEF SessionFits
<1>10. RequestIsWhole'
  BY <1>1, NoRequestNow
<1> QED BY <1>2, <1>9, <1>10 DEF ContextInv

LEMMA ModelCallsKeeps == ASSUME ContextAssumption, ContextInv, ModelCalls PROVE ContextInv'
<1>1. PICK calls \in (SUBSET ContextCalls) \ {{}} :
        transcript' = Append(transcript, [Spoken("assistant", Min(Sizes)) EXCEPT !.calls = calls])
               \o IF turnAt = "model" THEN <<>> ELSE <<Spoken("assistant", Min(Sizes))>>
  BY DEF ModelCalls
<1> DEFINE m == [Spoken("assistant", Min(Sizes)) EXCEPT !.calls = calls]
           q == Spoken("assistant", Min(Sizes))
           u == Append(transcript, m)
<1>2. /\ unanswered = {} /\ unanswered' = unanswered /\ covering' = covering
      /\ turnAt \in {"model", "last_model"}
      /\ turnAt' = IF turnAt = "model" THEN "tools" ELSE "idle"
  BY InvSays DEF ModelCalls
<1>3. m \in SaidMessages /\ MessageFits(m) /\ m.role # "tool" /\ m.calls = calls
  BY LeastSize, SpokenIs
<1>4. q \in SaidMessages /\ MessageFits(q) /\ q.role # "tool"
  BY LeastSize, SpokenIs
<1>11. transcript' = u \o IF turnAt = "model" THEN <<>> ELSE <<q>>
  BY <1>1
<1> HIDE DEF m, q
<1>5. MessagesFit(transcript) /\ CoverFits(transcript, covering)
  BY InvSays
<1>6. /\ MessagesFit(u) /\ (\A waits : WaitFits(u, waits)) /\ CoverFits(u, covering)
      /\ u # <<>> /\ u[Len(u)] = m
  BY <1>3, <1>5, SaysMore
<1> HIDE DEF u
<1> DEFINE v == Append(u, q)
<1>7. MessagesFit(v) /\ (\A waits : WaitFits(v, waits)) /\ CoverFits(v, covering)
  BY <1>4, <1>6, SaysMore
<1>8. transcript' = IF turnAt = "model" THEN u ELSE v
  <2>1. u \in Seq(SaidMessages)
    BY <1>6 DEF MessagesFit
  <2>2. u \o <<>> = u /\ u \o <<q>> = v
    BY <1>4, <2>1, ConcatEmptySeq, AppendIsConcat
  <2> HIDE DEF v
  <2> QED BY <1>11, <2>2
<1> HIDE DEF v
<1>9. SessionFits(transcript', turnAt', {}, covering)
  <2>1. CASE turnAt = "model"
    <3>1. SessionFits(u, "tools", {}, covering)
      BY <1>3, <1>6 DEF SessionFits
    <3> QED BY <1>2, <1>8, <2>1, <3>1
  <2>2. CASE turnAt # "model"
    <3>1. SessionFits(v, "idle", {}, covering)
      BY <1>7 DEF SessionFits
    <3> QED BY <1>2, <1>8, <2>2, <3>1
  <2> QED BY <2>1, <2>2
<1>10. RequestIsWhole'
  BY <1>2, NoRequestNow
<1> QED BY <1>2, <1>9, <1>10 DEF ContextInv

LEMMA RecordResultsKeeps ==
  ASSUME ContextAssumption, ContextInv, RecordResults PROVE ContextInv'
<1> DEFINE calls == transcript[Len(transcript)].calls
<1>1. PICK size \in Sizes, waits \in {{}} \cup {{c} : c \in calls}, exhausted \in BOOLEAN :
        LET results == Replies(calls \ waits, size) IN
        /\ exhausted => waits = {} /\ Len(transcript) + Len(results) < MaxMessages
        /\ transcript' = transcript \o results
                           \o IF exhausted THEN <<Spoken("user", Min(Sizes))>> ELSE <<>>
        /\ unanswered' = waits
        /\ turnAt' = IF waits # {} THEN "idle" ELSE IF exhausted THEN "last_build" ELSE "build"
  BY DEF RecordResults
<1> DEFINE results == Replies(calls \ waits, size)
           u == transcript \o results
           q == Spoken("user", Min(Sizes))
<1>2. /\ exhausted => waits = {}
      /\ transcript' = u \o IF exhausted THEN <<q>> ELSE <<>>
      /\ unanswered' = waits
      /\ turnAt' = IF waits # {} THEN "idle" ELSE IF exhausted THEN "last_build" ELSE "build"
  BY <1>1
<1>3. turnAt = "tools" /\ covering' = covering
  BY DEF RecordResults
<1>4. /\ MessagesFit(transcript) /\ CoverFits(transcript, covering)
      /\ transcript # <<>> /\ transcript[Len(transcript)].role # "tool"
  BY <1>3, InvSays
<1>5. calls \in SUBSET ContextCalls
  <2>1. transcript \in Seq(SaidMessages) /\ Len(transcript) \in Nat
    BY <1>4, WholeIs DEF MessagesFit
  <2>2. Len(transcript) \in 1..Len(transcript)
    BY <1>4, <2>1, EmptySeq
  <2>3. transcript[Len(transcript)] \in SaidMessages
    BY <2>1, <2>2, ElementOfSeq
  <2> QED BY <2>3 DEF SaidMessages
<1>6. \A w : WaitFits(transcript, w)
  BY <1>4, LastIsNoResult
<1>7. waits \subseteq ContextCalls
  BY <1>5
<1>8. MessagesFit(u) /\ WaitFits(u, waits) /\ CoverFits(u, covering)
  <2>1. MessagesFit(transcript)
    BY <1>4
  <2> HIDE DEF calls
  <2>2. /\ MessagesFit(u) /\ WaitFits(u, waits)
        /\ \A cover : CoverFits(transcript, cover) => CoverFits(u, cover)
    BY <1>5, <1>6, <2>1, ResultsFit, Zenon
  <2> HIDE DEF u
  <2> QED BY <1>4, <2>2
<1> HIDE DEF u, calls
<1>9. q \in SaidMessages /\ MessageFits(q) /\ q.role # "tool"
  BY LeastSize, SpokenIs
<1> HIDE DEF q
<1> DEFINE v == Append(u, q)
<1>10. MessagesFit(v) /\ (\A w : WaitFits(v, w)) /\ CoverFits(v, covering)
  BY <1>8, <1>9, SaysMore
<1>11. transcript' = u \/ transcript' = v
  <2>1. u \in Seq(SaidMessages)
    BY <1>8 DEF MessagesFit
  <2>2. u \o <<>> = u /\ u \o <<q>> = v
    BY <1>9, <2>1, ConcatEmptySeq, AppendIsConcat
  <2> HIDE DEF v
  <2> QED BY <1>2, <2>2
<1> HIDE DEF v
<1>12. SessionFits(transcript', turnAt', waits, covering)
  <2>1. turnAt' # "tools" /\ (turnAt' # "idle" => waits = {})
    BY <1>2
  <2>2. MessagesFit(transcript') /\ CoverFits(transcript', covering) /\ WaitFits(transcript', waits)
    BY <1>8, <1>10, <1>11
  <2> QED BY <1>7, <2>1, <2>2 DEF SessionFits
<1>13. RequestIsWhole'
  BY <1>2, NoRequestNow
<1> QED BY <1>2, <1>3, <1>12, <1>13 DEF ContextInv

LEMMA ContextUnchanged ==
  ASSUME ContextInv, UNCHANGED contextVars PROVE ContextInv'
<1>1. /\ transcript' = transcript /\ turnAt' = turnAt /\ unanswered' = unanswered
      /\ covering' = covering /\ modelRequest' = modelRequest
  BY DEF contextVars
<1>2. SessionFits(transcript, turnAt, unanswered, covering)
  BY DEF ContextInv
<1>3. RequestIsWhole'
  <2>1. SUFFICES ASSUME turnAt \in {"model", "last_model"} PROVE IsWhole(modelRequest)'
    BY <1>1 DEF RequestIsWhole
  <2>2. IsWhole(modelRequest)
    BY <2>1 DEF ContextInv, RequestIsWhole
  <2> QED BY <1>1, <2>2, RequestKept
<1> QED BY <1>1, <1>2, <1>3 DEF ContextInv

LEMMA ContextInvIsInvariant == ContextSpec => []ContextInv
<1>1. ContextInit => ContextInv
  <2>1. SUFFICES ASSUME ContextInit PROVE ContextInv
    OBVIOUS
  <2>2. SessionFits(<<>>, "idle", {}, NoCover)
    <3>1. <<>> \in Seq(SaidMessages) /\ DOMAIN <<>> = {}
      OBVIOUS
    <3>2. MessagesFit(<<>>)
      BY <3>1 DEF MessagesFit, RepliesDiffer
    <3> QED BY <3>2 DEF SessionFits, CoverFits, WaitFits
  <2> QED BY <2>1, <2>2 DEF ContextInit, ContextInv, RequestIsWhole
<1>2. ContextInv /\ [ContextNext]_contextVars => ContextInv'
  BY ContextAssumption, UserMessageKeeps, ResumeTurnKeeps, NotifyKeeps, PrepareStepKeeps,
     ModelSaysKeeps, ModelCallsKeeps, RecordResultsKeeps, EndTurnKeeps, BreakOffKeeps,
     ContextUnchanged, Zenon DEF ContextNext
<1> QED BY <1>1, <1>2, PTL DEF ContextSpec

\* Every request to the model has each message of the session once and in order, or in
\* its summary, and each call with its one result, however the turns before it ended.
THEOREM TheRequestsAreWhole == ContextSpec => []RequestIsWhole
<1>1. ContextInv => RequestIsWhole
  BY DEF ContextInv
<1> QED BY <1>1, ContextInvIsInvariant, PTL

-----------------------------------------------------------------------------
(* The values of the messages (TurnContext) *)

\* A request holds messages of the first so many places only.
HoldsUpTo(asked, last) == \A n \in DOMAIN asked : asked[n].of \subseteq 1..last

\* A turn that goes on has left room for what ends it.
ContextTypes ==
  /\ turnAt \in {"idle", "build", "model", "tools", "last_build", "last_model"}
  /\ Len(transcript) <= MaxMessages + 2
  /\ turnAt # "idle" => Len(transcript) <= MaxMessages + 1
  /\ covering = [covered |-> covering.covered, head |-> covering.head]
  /\ HoldsUpTo(modelRequest, Len(transcript))

LEMMA SanitizedHolds ==
  ASSUME ContextAssumption, NEW items \in Seq(SoundItems), CanBeSent(items), NEW last,
         HoldsUpTo(items, last)
  PROVE  HoldsUpTo(SanitizeToolPairs(items), last)
<1> DEFINE sent == SanitizeToolPairs(items)
           n == Len(items)
<1>1. PICK from : ComesFromItems(items, n, sent, from)
  BY SanitizeIs DEF CanBeSent
<1>2. DOMAIN items = 1..n /\ n \in Nat
  BY LenProperties
<1> HIDE DEF sent, n
<1>3. /\ from \in [DOMAIN sent -> 0..n]
      /\ \A k \in DOMAIN sent : IF from[k] = 0 THEN sent[k].of = {} ELSE sent[k] = items[from[k]]
  BY <1>1 DEF ComesFromItems
<1>4. ASSUME NEW k \in DOMAIN sent PROVE sent[k].of \subseteq 1..last
  <2>1. CASE from[k] = 0
    BY <1>3, <2>1
  <2>2. CASE from[k] # 0
    <3>1. from[k] \in 1..n
      BY <1>2, <1>3, <2>2
    <3> QED BY <1>2, <1>3, <2>2, <3>1 DEF HoldsUpTo
  <2> QED BY <2>1, <2>2
<1> QED BY <1>4 DEF HoldsUpTo, sent

LEMMA WholeHolds ==
  ASSUME ContextAssumption, MessagesFit(transcript)
  PROVE  HoldsUpTo(SanitizeToolPairs(Whole), Len(transcript))
<1> DEFINE n == Len(transcript)
<1>1. /\ n \in Nat /\ Whole \in Seq(SoundItems) /\ DOMAIN Whole = 1..n
      /\ \A i \in 1..n : Whole[i] = Kept(i)
  BY WholeIs
<1>2. \A i \in 1..n : Kept(i).of = {i}
  BY KeptMessageIs
<1>3. CanBeSent(Whole)
  BY WholeCanBeSent
<1>4. HoldsUpTo(Whole, n)
  BY <1>1, <1>2 DEF HoldsUpTo
<1> QED BY <1>1, <1>3, <1>4, SanitizedHolds

LEMMA CompactedHolds ==
  ASSUME ContextAssumption, MessagesFit(transcript), NEW head, NEW covered,
         CoversWell(head, covered)
  PROVE  HoldsUpTo(SanitizeToolPairs(Compacted(head, covered)), Len(transcript))
<1> DEFINE n == Len(transcript)
           c == Compacted(head, covered)
           N == n - (covered - head) + 1
           At(k) == PlaceOf(k, head, covered)
<1>1. /\ n \in Nat /\ c \in Seq(SoundItems) /\ DOMAIN c = 1..N
      /\ c[head + 1] = Summary(head + 1..covered)
      /\ \A k \in 1..N : k # head + 1 => At(k) \in 1..n /\ c[k] = Kept(At(k))
  BY CompactedIs
<1>2. \A i \in 1..n : Kept(i).of = {i}
  BY KeptMessageIs
<1>3. head \in Nat /\ covered \in Nat /\ covered < n
  BY DEF CoversWell
<1>4. CanBeSent(c)
  BY CompactedCanBeSent
<1> HIDE DEF c, n, N, At
<1>5. c[head + 1].of \subseteq 1..n
  BY <1>1, <1>3 DEF Summary
<1>6. \A k \in 1..N : c[k].of \subseteq 1..n
  BY <1>1, <1>2, <1>5
<1>7. HoldsUpTo(c, n)
  BY <1>1, <1>6 DEF HoldsUpTo
<1>8. HoldsUpTo(SanitizeToolPairs(c), n)
  BY <1>1, <1>4, <1>7, SanitizedHolds
<1> QED BY <1>8 DEF c, n

LEMMA BuildHolds ==
  ASSUME ContextAssumption, MessagesFit(transcript), CoverFits(transcript, covering),
         covering = [covered |-> covering.covered, head |-> covering.head]
  PROVE  /\ HoldsUpTo(Build.messages, Len(transcript))
         /\ Build.cover = [covered |-> Build.cover.covered, head |-> Build.cover.head]
<1> DEFINE start == CompressStart
           tail == FindTailStart(start)
<1>1. StartsWell(start)
  BY CompressStartIs
<1>2. start \in Nat /\ tail \in Nat /\ (start < tail => CoversWell(start, tail))
  BY <1>1, TailIs
<1> HIDE DEF start, tail
<1>3. ASSUME covering # NoCover PROVE HoldsUpTo(SanitizeToolPairs(Reused), Len(transcript))
  <2>1. CoversWell(covering.head, covering.covered)
    BY <1>3 DEF CoverFits, CoversWell
  <2> QED BY <2>1, CompactedHolds DEF Reused
<1>4. start < tail => HoldsUpTo(SanitizeToolPairs(Compacted(start, tail)), Len(transcript))
  BY <1>2, CompactedHolds
<1>5. \/ /\ covering # NoCover
         /\ Build.messages = SanitizeToolPairs(Reused) /\ Build.cover = covering
      \/ Build.messages = SanitizeToolPairs(Whole) /\ Build.cover = covering
      \/ /\ ~(start >= tail)
         /\ Build.messages = SanitizeToolPairs(Compacted(start, tail))
         /\ Build.cover = [covered |-> tail, head |-> start]
  BY Zenon DEF Build, start, tail
<1>6. ~(start >= tail) => start < tail
  BY <1>2
<1> QED BY <1>3, <1>4, <1>5, <1>6, WholeHolds

\* More is said: what a request held of the messages it holds of the longer ones.
LEMMA HoldsOfLonger ==
  ASSUME NEW sent, NEW m \in Nat, NEW n \in Nat, m <= n, HoldsUpTo(sent, m)
  PROVE  HoldsUpTo(sent, n)
<1>1. \A i \in 1..m : i \in 1..n
  OBVIOUS
<1> QED BY <1>1 DEF HoldsUpTo

\* The steps that say something and leave the requests as they are.
LEMMA SayingKeepsTypes ==
  ASSUME ContextTypes, MessagesFit(transcript), MessagesFit(transcript'),
         Len(transcript) <= Len(transcript'), Len(transcript') <= MaxMessages + 2,
         turnAt' \in {"idle", "build", "model", "tools", "last_build", "last_model"},
         turnAt' # "idle" => Len(transcript') <= MaxMessages + 1,
         covering' = covering, modelRequest' = modelRequest
  PROVE  ContextTypes'
<1>1. Len(transcript) \in Nat /\ Len(transcript') \in Nat
  BY LenProperties DEF MessagesFit
<1> DEFINE more == Len(transcript')
           last == Len(transcript)
<1>2. HoldsUpTo(modelRequest, last) /\ last \in Nat /\ more \in Nat /\ last <= more
  BY <1>1 DEF ContextTypes
<1> HIDE DEF more, last
<1>3. HoldsUpTo(modelRequest, more)
  BY <1>2, HoldsOfLonger
<1>4. HoldsUpTo(modelRequest', more)
  BY <1>3
<1> QED BY <1>4 DEF ContextTypes, more

\* How many messages there are then.
LEMMA OneMoreSaid ==
  ASSUME NEW t, MessagesFit(t), NEW m
  PROVE  Len(t) \in Nat /\ Len(Append(t, m)) = Len(t) + 1 /\ t \o <<>> = t
<1>1. t \in Seq(SaidMessages)
  BY DEF MessagesFit
<1> QED BY <1>1, LenProperties, ConcatEmptySeq

LEMMA AtMostTwoMore ==
  ASSUME NEW t, MessagesFit(t), NEW m \in SaidMessages, NEW q \in SaidMessages, NEW both \in BOOLEAN
  PROVE  Len(Append(t, m) \o IF both THEN <<q>> ELSE <<>>)
           = IF both THEN Len(t) + 2 ELSE Len(t) + 1
<1> DEFINE u == Append(t, m)
<1>1. t \in Seq(SaidMessages) /\ Len(t) \in Nat
  BY LenProperties DEF MessagesFit
<1>2. u \in Seq(SaidMessages) /\ Len(u) = Len(t) + 1
  BY <1>1, AppendProperties
<1> HIDE DEF u
<1>3. u \o <<>> = u /\ u \o <<q>> = Append(u, q)
  BY <1>2, ConcatEmptySeq, AppendIsConcat
<1>4. Len(Append(u, q)) = Len(u) + 1
  BY <1>2, AppendProperties
<1>5. Len(Append(u, q)) = Len(t) + 2
  BY <1>1, <1>2, <1>4
<1>6. CASE both
  BY <1>3, <1>5, <1>6 DEF u
<1>7. CASE ~both
  BY <1>2, <1>3, <1>7 DEF u
<1> QED BY <1>6, <1>7

LEMMA ContextTypesStart == ContextAssumption /\ ContextInit => ContextTypes
<1> SUFFICES ASSUME ContextAssumption, ContextInit PROVE ContextTypes
  OBVIOUS
<1>1. transcript = <<>> /\ turnAt = "idle" /\ covering = NoCover /\ modelRequest = <<>>
  BY DEF ContextInit
<1>2. Len(transcript) = 0 /\ DOMAIN modelRequest = {}
  BY <1>1
<1>3. MaxMessages \in Nat
  BY DEF ContextAssumption
<1>4. HoldsUpTo(modelRequest, Len(transcript))
  BY <1>2 DEF HoldsUpTo
<1>5. covering = [covered |-> covering.covered, head |-> covering.head]
  BY <1>1 DEF NoCover
<1> QED BY <1>1, <1>2, <1>3, <1>4, <1>5 DEF ContextTypes

\* A step that says one message when there is room for it.
OneMoreIsSaid ==
  /\ Len(transcript) < MaxMessages /\ \E m : transcript' = Append(transcript, m)
  /\ covering' = covering /\ modelRequest' = modelRequest

LEMMA OneMoreKeepsTypes ==
  ASSUME ContextAssumption, ContextTypes, MessagesFit(transcript), MessagesFit(transcript'),
         OneMoreIsSaid,
         turnAt' \in {"idle", "build", "model", "tools", "last_build", "last_model"}
  PROVE  ContextTypes'
<1>1. PICK m : transcript' = Append(transcript, m)
  BY DEF OneMoreIsSaid
<1>2. Len(transcript) \in Nat /\ Len(transcript') = Len(transcript) + 1
  BY <1>1, OneMoreSaid
<1>3. MaxMessages \in Nat /\ Len(transcript) < MaxMessages
  BY DEF ContextAssumption, OneMoreIsSaid
<1>4. /\ Len(transcript) <= Len(transcript') /\ Len(transcript') <= MaxMessages + 2
      /\ Len(transcript') <= MaxMessages + 1
  BY <1>2, <1>3
<1> QED BY <1>4, SayingKeepsTypes DEF OneMoreIsSaid

LEMMA PrepareKeepsTypes ==
  ASSUME ContextAssumption, ContextTypes, ContextInv, ContextInv', PrepareStep
  PROVE  ContextTypes'
<1>1. /\ MessagesFit(transcript) /\ CoverFits(transcript, covering)
      /\ MessagesFit(transcript')
  BY DEF ContextInv, SessionFits
<1>2. /\ covering = [covered |-> covering.covered, head |-> covering.head]
      /\ Len(transcript) <= MaxMessages + 2
      /\ turnAt # "idle" => Len(transcript) <= MaxMessages + 1
  BY DEF ContextTypes
<1>3. /\ HoldsUpTo(Build.messages, Len(transcript))
      /\ Build.cover = [covered |-> Build.cover.covered, head |-> Build.cover.head]
  BY <1>1, <1>2, BuildHolds
<1>4. HoldsUpTo(SanitizeToolPairs(Whole), Len(transcript))
  BY <1>1, WholeHolds
<1>5. turnAt \in {"build", "last_build"}
  BY DEF PrepareStep
<1> DEFINE n == Len(transcript)
           sent == modelRequest'
           cover == covering'
<1>6. /\ HoldsUpTo(sent, n) /\ cover = [covered |-> cover.covered, head |-> cover.head]
      /\ \/ UNCHANGED transcript /\ turnAt' \in {"model", "last_model"}
         \/ turnAt' = "idle" /\ transcript' = Append(transcript, Spoken("assistant", Min(Sizes)))
  <2>1. CASE /\ modelRequest' = Build.messages /\ covering' = Build.cover
             /\ turnAt' = IF turnAt = "build" THEN "model" ELSE "last_model"
             /\ UNCHANGED transcript
    BY <1>3, <2>1
  <2>2. CASE /\ Build.asks /\ UNCHANGED covering
             /\ modelRequest' = SanitizeToolPairs(Whole)
             /\ turnAt' = IF turnAt = "build" THEN "model" ELSE "last_model"
             /\ UNCHANGED transcript
    BY <1>2, <1>4, <2>2
  <2>3. CASE /\ UNCHANGED covering /\ modelRequest' = SanitizeToolPairs(Whole)
             /\ turnAt' = "idle"
             /\ transcript' = Append(transcript, Spoken("assistant", Min(Sizes)))
    BY <1>2, <1>4, <2>3
  <2> QED BY <2>1, <2>2, <2>3, Zenon DEF PrepareStep, Say
<1>7. n \in Nat /\ MaxMessages \in Nat /\ n <= MaxMessages + 1
  BY <1>1, <1>2, <1>5, OneMoreSaid DEF ContextAssumption
<1> HIDE DEF n, sent, cover
<1>8. CASE UNCHANGED transcript /\ turnAt' \in {"model", "last_model"}
  <2> DEFINE more == Len(transcript')
  <2>1. more = n
    BY <1>8 DEF n
  <2>2. HoldsUpTo(sent, more)
    BY <1>6, <2>1
  <2>3. more <= MaxMessages + 2 /\ more <= MaxMessages + 1
    BY <1>7, <2>1
  <2> QED BY <1>6, <1>8, <2>2, <2>3 DEF ContextTypes, sent, cover
<1>9. CASE turnAt' = "idle" /\ transcript' = Append(transcript, Spoken("assistant", Min(Sizes)))
  <2> DEFINE more == Len(transcript')
  <2>1. more = n + 1
    BY <1>1, <1>9, OneMoreSaid DEF n
  <2> HIDE DEF more
  <2>2. more \in Nat /\ n <= more /\ more <= MaxMessages + 2
    BY <1>7, <2>1
  <2>3. HoldsUpTo(sent, more)
    BY <1>6, <1>7, <2>2, HoldsOfLonger
  <2> QED BY <1>6, <1>9, <2>2, <2>3 DEF ContextTypes, sent, cover, more
<1> QED BY <1>6, <1>8, <1>9

LEMMA SaysKeepsTypes ==
  ASSUME ContextAssumption, ContextTypes, ContextInv, ContextInv', ModelSays
  PROVE  ContextTypes'
<1> DEFINE m == Spoken("assistant", Min(Sizes))
           q == Spoken("user", Min(Sizes))
<1>1. PICK more \in IF turnAt = "model" /\ Len(transcript) < MaxMessages THEN BOOLEAN ELSE {FALSE} :
        /\ transcript' = Append(transcript, m) \o IF more THEN <<q>> ELSE <<>>
        /\ turnAt' = IF more THEN "build" ELSE "idle"
  BY DEF ModelSays
<1>2. m \in SaidMessages /\ q \in SaidMessages
  BY LeastSize, SpokenIs
<1> HIDE DEF m, q
<1>3. MessagesFit(transcript) /\ MessagesFit(transcript')
  BY DEF ContextInv, SessionFits
<1>4. more \in BOOLEAN /\ (more => Len(transcript) < MaxMessages)
  BY <1>1
<1>5. Len(transcript') = IF more THEN Len(transcript) + 2 ELSE Len(transcript) + 1
  BY <1>1, <1>2, <1>3, <1>4, AtMostTwoMore
<1>6. Len(transcript) \in Nat /\ MaxMessages \in Nat /\ Len(transcript) <= MaxMessages + 1
  BY <1>3, OneMoreSaid DEF ContextAssumption, ContextTypes, ModelSays
<1>7. /\ Len(transcript) <= Len(transcript') /\ Len(transcript') <= MaxMessages + 2
      /\ more => Len(transcript') <= MaxMessages + 1
  BY <1>4, <1>5, <1>6
<1>8. covering' = covering /\ modelRequest' = modelRequest
  BY DEF ModelSays
<1> QED BY <1>1, <1>3, <1>7, <1>8, SayingKeepsTypes

LEMMA CallsKeepTypes ==
  ASSUME ContextAssumption, ContextTypes, ContextInv, ContextInv', ModelCalls
  PROVE  ContextTypes'
<1> DEFINE q == Spoken("assistant", Min(Sizes))
<1>1. PICK calls \in (SUBSET ContextCalls) \ {{}} :
        transcript' = Append(transcript, [Spoken("assistant", Min(Sizes)) EXCEPT !.calls = calls])
               \o IF turnAt = "model" THEN <<>> ELSE <<Spoken("assistant", Min(Sizes))>>
  BY DEF ModelCalls
<1> DEFINE m == [Spoken("assistant", Min(Sizes)) EXCEPT !.calls = calls]
           last == turnAt # "model"
<1>2. m \in SaidMessages /\ q \in SaidMessages
  BY LeastSize, SpokenIs
<1>3. transcript' = Append(transcript, m) \o IF last THEN <<q>> ELSE <<>>
  BY <1>1
<1>4. /\ Len(transcript) < MaxMessages /\ covering' = covering /\ modelRequest' = modelRequest
      /\ turnAt' = IF last THEN "idle" ELSE "tools"
      /\ last \in BOOLEAN
  BY DEF ModelCalls
<1> HIDE DEF m, q, last
<1>5. MessagesFit(transcript) /\ MessagesFit(transcript')
  BY DEF ContextInv, SessionFits
<1>6. Len(transcript') = IF last THEN Len(transcript) + 2 ELSE Len(transcript) + 1
  BY <1>2, <1>3, <1>4, <1>5, AtMostTwoMore
<1>7. Len(transcript) \in Nat /\ MaxMessages \in Nat
  BY <1>5, OneMoreSaid DEF ContextAssumption
<1>8. /\ Len(transcript) <= Len(transcript') /\ Len(transcript') <= MaxMessages + 2
      /\ Len(transcript') <= MaxMessages + 1
  BY <1>4, <1>6, <1>7
<1>9. turnAt' \in {"idle", "build", "model", "tools", "last_build", "last_model"}
  BY <1>4
<1> QED BY <1>4, <1>5, <1>8, <1>9, SayingKeepsTypes

LEMMA RepliesAre ==
  ASSUME ContextAssumption, NEW told \in SUBSET ContextCalls, NEW size \in Sizes
  PROVE  Replies(told, size) \in Seq(SaidMessages)
<1> DEFINE done == CallsInOrder(told)
           n == Cardinality(told)
<1>1. told \subseteq Nat /\ IsFiniteSet(told) /\ told \subseteq ContextCalls
  BY FS_Subset DEF ContextAssumption
<1>2. n \in Nat /\ done \in [1..n -> told]
  BY <1>1, CallsInOrderIs
<1>3. Replies(told, size) = [k \in 1..Len(done) |-> Reply(done[k], size)]
  BY DEF Replies
<1> HIDE DEF done, n
<1>4. Len(done) = n
  <2>1. done \in Seq(told) /\ DOMAIN done = 1..n
    BY <1>2
  <2> QED BY <1>2, <2>1, LenProperties
<1>5. \A c \in ContextCalls : Reply(c, size) \in SaidMessages
  BY ReplyIs
<1>6. \A k \in 1..n : done[k] \in ContextCalls
  BY <1>1, <1>2
<1>7. Replies(told, size) \in [1..n -> SaidMessages]
  BY <1>3, <1>4, <1>5, <1>6
<1> QED BY <1>2, <1>7

LEMMA ResultsKeepTypes ==
  ASSUME ContextAssumption, ContextTypes, ContextInv, ContextInv', RecordResults
  PROVE  ContextTypes'
<1> DEFINE calls == transcript[Len(transcript)].calls
           q == Spoken("user", Min(Sizes))
<1>1. PICK size \in Sizes, waits \in {{}} \cup {{c} : c \in calls}, exhausted \in BOOLEAN :
        LET results == Replies(calls \ waits, size) IN
        /\ Len(transcript) + Len(results) <= MaxMessages
        /\ exhausted => waits = {} /\ Len(transcript) + Len(results) < MaxMessages
        /\ transcript' = transcript \o results \o IF exhausted THEN <<q>> ELSE <<>>
        /\ unanswered' = waits
        /\ turnAt' = IF waits # {} THEN "idle" ELSE IF exhausted THEN "last_build" ELSE "build"
  BY DEF RecordResults
<1> DEFINE results == Replies(calls \ waits, size)
           u == transcript \o results
<1>2. turnAt = "tools" /\ covering' = covering /\ modelRequest' = modelRequest
  BY DEF RecordResults
<1>3. /\ MessagesFit(transcript) /\ MessagesFit(transcript')
      /\ transcript # <<>> /\ transcript[Len(transcript)].role # "tool"
  BY <1>2 DEF ContextInv, SessionFits
<1>4. calls \in SUBSET ContextCalls
  <2>1. transcript \in Seq(SaidMessages) /\ Len(transcript) \in Nat
    BY <1>3, WholeIs DEF MessagesFit
  <2>2. Len(transcript) \in 1..Len(transcript)
    BY <1>3, <2>1, EmptySeq
  <2>3. transcript[Len(transcript)] \in SaidMessages
    BY <2>1, <2>2, ElementOfSeq
  <2> QED BY <2>3 DEF SaidMessages
<1>5. results \in Seq(SaidMessages)
  BY <1>4, RepliesAre
<1>6. q \in SaidMessages
  BY LeastSize, SpokenIs
<1>7. transcript \in Seq(SaidMessages) /\ Len(transcript) \in Nat /\ Len(results) \in Nat
  BY <1>3, <1>5, LenProperties DEF MessagesFit
<1>8. /\ Len(transcript) + Len(results) <= MaxMessages
      /\ exhausted => Len(transcript) + Len(results) < MaxMessages
      /\ transcript' = u \o IF exhausted THEN <<q>> ELSE <<>>
      /\ turnAt' \in {"idle", "build", "last_build"}
  BY <1>1
<1> HIDE DEF results, q, calls
<1>9. u \in Seq(SaidMessages) /\ Len(u) = Len(transcript) + Len(results)
  BY <1>5, <1>7, ConcatProperties
<1> HIDE DEF u
<1>10. Len(transcript') = IF exhausted THEN Len(u) + 1 ELSE Len(u)
  <2>1. u \o <<>> = u /\ u \o <<q>> = Append(u, q)
    BY <1>6, <1>9, ConcatEmptySeq, AppendIsConcat
  <2>2. Len(Append(u, q)) = Len(u) + 1
    BY <1>6, <1>9, AppendProperties
  <2> QED BY <1>8, <2>1, <2>2
<1>11. MaxMessages \in Nat
  BY DEF ContextAssumption
<1>12. /\ Len(transcript) <= Len(transcript') /\ Len(transcript') <= MaxMessages + 2
       /\ Len(transcript') <= MaxMessages + 1
  BY <1>7, <1>8, <1>9, <1>10, <1>11
<1>13. turnAt' \in {"idle", "build", "model", "tools", "last_build", "last_model"}
  BY <1>8
<1> QED BY <1>2, <1>3, <1>12, <1>13, SayingKeepsTypes

LEMMA ContextTypesKept ==
  ContextAssumption /\ ContextInv /\ ContextInv' /\ ContextTypes /\ [ContextNext]_contextVars
    => ContextTypes'
<1> SUFFICES ASSUME ContextAssumption, ContextInv, ContextInv', ContextTypes,
                    [ContextNext]_contextVars
             PROVE  ContextTypes'
  OBVIOUS
<1>1. MessagesFit(transcript) /\ MessagesFit(transcript')
  BY DEF ContextInv, SessionFits
<1>2. turnAt \in {"idle", "build", "model", "tools", "last_build", "last_model"}
  BY DEF ContextTypes
<1>3. CASE UserMessage
  <2>1. OneMoreIsSaid /\ turnAt' = "build"
    BY <1>3 DEF UserMessage, Say, OneMoreIsSaid
  <2> QED BY <1>1, <2>1, OneMoreKeepsTypes
<1>4. CASE ResumeTurn
  <2>1. OneMoreIsSaid /\ turnAt' = "build"
    BY <1>4 DEF ResumeTurn, Say, OneMoreIsSaid
  <2> QED BY <1>1, <2>1, OneMoreKeepsTypes
<1>5. CASE Notify
  <2>1. OneMoreIsSaid /\ turnAt' = turnAt
    BY <1>5 DEF Notify, Say, OneMoreIsSaid
  <2> QED BY <1>1, <1>2, <2>1, OneMoreKeepsTypes
<1>6. CASE EndTurn
  <2>1. OneMoreIsSaid /\ turnAt' = "idle"
    BY <1>6 DEF EndTurn, Say, OneMoreIsSaid
  <2> QED BY <1>1, <2>1, OneMoreKeepsTypes
<1>7. CASE BreakOff
  <2>1. CASE UNCHANGED transcript
    <3>1. /\ transcript' = transcript /\ turnAt' = "idle" /\ covering' = covering
          /\ modelRequest' = modelRequest
      BY <1>7, <2>1 DEF BreakOff
    <3> QED BY <3>1 DEF ContextTypes
  <2>2. CASE ~UNCHANGED transcript
    <3>1. OneMoreIsSaid /\ turnAt' = "idle"
      BY <1>7, <2>2 DEF BreakOff, Say, OneMoreIsSaid
    <3> QED BY <1>1, <3>1, OneMoreKeepsTypes
  <2> QED BY <2>1, <2>2
<1>8. CASE UNCHANGED contextVars
  <2>1. /\ transcript' = transcript /\ turnAt' = turnAt /\ covering' = covering
        /\ modelRequest' = modelRequest
    BY <1>8 DEF contextVars
  <2> QED BY <2>1 DEF ContextTypes
<1> QED BY <1>3, <1>4, <1>5, <1>6, <1>7, <1>8, PrepareKeepsTypes, SaysKeepsTypes,
           CallsKeepTypes, ResultsKeepTypes, Zenon DEF ContextNext

LEMMA MessagesKeepTypes == ContextSpec => []ContextTypeOK
<1>1. ContextInit => ContextTypes
  BY ContextAssumption, ContextTypesStart
<1>2. ContextInv /\ ContextInv' /\ ContextTypes /\ [ContextNext]_contextVars => ContextTypes'
  BY ContextAssumption, ContextTypesKept
<1>3. ContextInv /\ ContextTypes => ContextTypeOK
  <2> SUFFICES ASSUME ContextInv, ContextTypes PROVE ContextTypeOK
    OBVIOUS
  <2> DEFINE n == Len(transcript)
             head == covering.head
             covered == covering.covered
  <2>1. /\ MessagesFit(transcript) /\ CoverFits(transcript, covering)
        /\ unanswered \subseteq ContextCalls
    BY DEF ContextInv, SessionFits
  <2>2. transcript \in Seq(SaidMessages) /\ n \in Nat
    BY <2>1, LenProperties DEF MessagesFit
  <2>3. covering = [covered |-> covered, head |-> head]
    BY DEF ContextTypes
  <2>4. covered \in 0..n /\ head \in 0..n
    <3>1. CASE covering = NoCover
      BY <2>2, <3>1 DEF NoCover
    <3>2. CASE covering # NoCover
      <4>1. head \in Nat /\ covered \in Nat /\ head < covered /\ covered < n
        BY <2>1, <3>2 DEF CoverFits
      <4> HIDE DEF head, covered, n
      <4> QED BY <2>2, <4>1
    <3> QED BY <3>1, <3>2
  <2> HIDE DEF n, head, covered
  <2>5. covering \in [covered : 0..n, head : 0..n]
    BY <2>3, <2>4
  <2> QED BY <2>1, <2>2, <2>5 DEF ContextTypeOK, ContextTypes, HoldsUpTo, n
<1> QED BY <1>1, <1>2, <1>3, ContextInvIsInvariant, PTL DEF ContextSpec

-----------------------------------------------------------------------------
(* The values of the approvals (ToolApprovals) *)

LEMMA ApprovalTypes == ApprovalSpec => []ApprovalTypeOK
<1>1. ApprovalInv => ApprovalTypeOK
  <2> SUFFICES ASSUME ApprovalInv PROVE ApprovalTypeOK
    OBVIOUS
  <2>1. /\ interactions \in Seq(InteractionRecords) /\ Len(interactions) <= Len(spent)
        /\ spent \in Seq(SpentRecords) /\ Len(spent) <= MaxRequests
    BY DEF ApprovalInv, FileFits, PastFits
  <2>2. Len(interactions) <= MaxRequests
    <3>1. Len(interactions) \in Nat /\ Len(spent) \in Nat /\ MaxRequests \in Nat
      BY <2>1, LenProperties, ApprovalAssumption DEF ApprovalAssumption
    <3> QED BY <2>1, <3>1
  <2>3. talk \in [Talks -> TalkRecords]
    BY DEF ApprovalInv, TalksFit
  <2>4. /\ provider \in {"deferred", "deny", "yolo", "console"}
        /\ turnsRun \in [Talks -> Runs \cup {0}] /\ approvalCrashes \in 0..MaxApprovalCrashes
        /\ excused \subseteq Requests
    BY DEF ApprovalInv
  <2> QED BY <2>1, <2>2, <2>3, <2>4, Zenon DEF ApprovalTypeOK, SpentRecords, TalkRecords
<1> QED BY <1>1, ApprovalInvIsInvariant, PTL

-----------------------------------------------------------------------------
(* The values of the todo list (TodoList), the transport and a batch *)

\* An item of a list has a first and a last place in it.
LEMMA PlacesAreInList ==
  ASSUME NEW list \in Seq(TodoIds), NEW t \in Range(list)
  PROVE  FirstPlace(list, t) \in DOMAIN list /\ LastPlace(list, t) \in DOMAIN list
<1>1. DOMAIN list = 1..Len(list) /\ Len(list) \in Nat
  BY LenProperties
<1> DEFINE S == {i \in DOMAIN list : list[i] = t}
<1>2. S \subseteq 0..Len(list) /\ S \subseteq Nat /\ S # {}
  BY <1>1 DEF Range
<1>3. PICK last \in S : \A j \in S : j <= last
  BY <1>1, <1>2, GreatestExists
<1>4. PICK first \in S : \A j \in S : first <= j
  BY <1>2, LeastExists
<1>5. \E i \in DOMAIN list : list[i] = t /\ \A j \in DOMAIN list : list[j] = t => j <= i
  BY <1>3
<1>6. \E i \in DOMAIN list : list[i] = t /\ \A j \in DOMAIN list : list[j] = t => i <= j
  BY <1>4
<1>7. LastPlace(list, t) \in DOMAIN list
  BY <1>5, Zenon DEF LastPlace
<1>8. FirstPlace(list, t) \in DOMAIN list
  BY <1>6, Zenon DEF FirstPlace
<1> QED BY <1>7, <1>8

LEMMA NumbersAre ==
  ASSUME NEW list \in Seq(TodoIds) PROVE Numbered(list) \in [TodoIds -> Nat]
<1>1. DOMAIN list = 1..Len(list) /\ Len(list) \in Nat
  BY LenProperties
<1>2. \A t \in Range(list) : LastPlace(list, t) \in 1..Len(list)
  BY <1>1, PlacesAreInList
<1>3. \A t \in Range(list) : LastPlace(list, t) - 1 \in Nat
  BY <1>1, <1>2
<1> QED BY <1>3 DEF Numbered

LEMMA TodoTypesKept == TodoTypeOK /\ [TodoNext]_todoVars => TodoTypeOK'
<1> SUFFICES ASSUME TodoTypeOK, [TodoNext]_todoVars PROVE TodoTypeOK'
  OBVIOUS
<1>1. /\ todos \in Seq(TodoIds) /\ promised \subseteq TodoIds /\ doubled \in BOOLEAN
      /\ todoOrder \in [TodoIds -> Nat]
      /\ todoStatus \in [TodoIds -> TodoStatuses \cup {"none", "gone"}]
  BY DEF TodoTypeOK
<1>2. Range(todos) \subseteq TodoIds
  BY <1>1, RangeIsOf
<1>3. \A list : Forgotten(list) \in [TodoIds -> TodoStatuses \cup {"none", "gone"}]
  BY <1>1 DEF Forgotten
<1>4. ASSUME AddTodo PROVE TodoTypeOK'
  <2>1. PICK t \in Fresh, mark \in TodoStatuses :
          /\ todos' = Append(todos, t) /\ promised' = promised \cup {t}
          /\ todoOrder' = [todoOrder EXCEPT ![t] = Len(todos)]
          /\ todoStatus' = [todoStatus EXCEPT ![t] = mark]
          /\ UNCHANGED doubled
    BY <1>4, Zenon DEF AddTodo
  <2>2. t \in TodoIds
    BY DEF Fresh
  <2>3. todos' \in Seq(TodoIds) /\ Len(todos) \in Nat
    BY <1>1, <2>1, <2>2, AppendProperties, LenProperties
  <2>4. todoOrder' \in [TodoIds -> Nat]
    BY <1>1, <2>1, <2>3
  <2>5. todoStatus' \in [TodoIds -> TodoStatuses \cup {"none", "gone"}]
    BY <1>1, <2>1
  <2> QED BY <1>1, <2>1, <2>2, <2>3, <2>4, <2>5 DEF TodoTypeOK
<1>5. ASSUME UpdateTodo PROVE TodoTypeOK'
  <2>1. todoStatus' \in [TodoIds -> TodoStatuses \cup {"none", "gone"}]
    BY <1>1, <1>5 DEF UpdateTodo
  <2> QED BY <1>1, <1>5, <2>1 DEF UpdateTodo, TodoTypeOK
<1>6. ASSUME RemoveTodo PROVE TodoTypeOK'
  <2>1. PICK t \in Range(todos) :
          /\ todos' = RemoveAt(todos, FirstPlace(todos, t))
          /\ todoOrder' = Renumbered(RemoveAt(todos, FirstPlace(todos, t)))
          /\ promised' = promised \ {t}
          /\ todoStatus' = Forgotten(RemoveAt(todos, FirstPlace(todos, t)))
          /\ UNCHANGED doubled
    BY <1>6, Zenon DEF RemoveTodo
  <2> DEFINE k == FirstPlace(todos, t)
             n == Len(todos)
  <2>2. k \in 1..n /\ n \in Nat /\ \A i \in 1..n : todos[i] \in TodoIds
    BY <1>1, PlacesAreInList, LenProperties, ElementOfSeq
  <2>3. todos' = SubSeq(todos, 1, k - 1) \o SubSeq(todos, k + 1, n)
    BY <2>1 DEF RemoveAt
  <2> HIDE DEF k, n
  <2>4. SubSeq(todos, 1, k - 1) \in Seq(TodoIds)
    <3>1. 1 \in Int /\ k - 1 \in Int /\ \A i \in 1..(k - 1) : todos[i] \in TodoIds
      BY <2>2
    <3> QED BY <3>1, SubSeqProperties
  <2>5. SubSeq(todos, k + 1, n) \in Seq(TodoIds)
    <3>1. n \in Int /\ k + 1 \in Int /\ \A i \in (k + 1)..n : todos[i] \in TodoIds
      BY <2>2
    <3> QED BY <3>1, SubSeqProperties
  <2>6. todos' \in Seq(TodoIds)
    BY <2>3, <2>4, <2>5, ConcatProperties
  <2>7. Numbered(todos') \in [TodoIds -> Nat]
    BY <2>6, NumbersAre
  <2>8. todoOrder' = Numbered(todos')
    BY <2>1 DEF Renumbered
  <2> QED BY <1>1, <1>3, <2>1, <2>6, <2>7, <2>8 DEF TodoTypeOK
<1>7. ASSUME ReorderTodos PROVE TodoTypeOK'
  <2>1. PICK n \in 1..Len(todos) : \E ids \in [1..n -> Range(todos)] :
          /\ todos' = ids /\ todoOrder' = Numbered(ids) /\ todoStatus' = Forgotten(ids)
          /\ doubled' = (doubled \/ (n = Len(todos) /\ Range(ids) # Range(todos)))
          /\ UNCHANGED promised
    BY <1>7 DEF ReorderTodos
  <2>2. PICK ids \in [1..n -> Range(todos)] :
          /\ todos' = ids /\ todoOrder' = Numbered(ids) /\ todoStatus' = Forgotten(ids)
          /\ doubled' = (doubled \/ (n = Len(todos) /\ Range(ids) # Range(todos)))
          /\ UNCHANGED promised
    BY <2>1
  <2>3. n \in Nat
    BY <1>1, LenProperties
  <2>4. ids \in [1..n -> TodoIds]
    BY <1>2
  <2>5. ids \in Seq(TodoIds)
    BY <2>3, <2>4, SeqDef
  <2>6. Numbered(ids) \in [TodoIds -> Nat]
    BY <2>5, NumbersAre
  <2>7. doubled' \in BOOLEAN
    BY <2>2, Zenon
  <2> QED BY <1>1, <1>3, <2>2, <2>5, <2>6, <2>7 DEF TodoTypeOK
<1>8. ASSUME UNCHANGED todoVars PROVE TodoTypeOK'
  BY <1>8 DEF todoVars, TodoTypeOK
<1> QED BY <1>4, <1>5, <1>6, <1>7, <1>8 DEF TodoNext

LEMMA TodoTypes == TodoSpec => []TodoTypeOK
<1>1. ASSUME TodoInit PROVE TodoTypeOK
  <2>1. todos \in Seq(TodoIds) /\ promised \subseteq TodoIds /\ doubled \in BOOLEAN
    BY <1>1, EmptySeq DEF TodoInit
  <2>2. todoOrder \in [TodoIds -> Nat]
    BY <1>1 DEF TodoInit
  <2>3. todoStatus \in [TodoIds -> TodoStatuses \cup {"none", "gone"}]
    BY <1>1 DEF TodoInit
  <2> QED BY <2>1, <2>2, <2>3 DEF TodoTypeOK
<1> QED BY <1>1, TodoTypesKept, PTL DEF TodoSpec

-----------------------------------------------------------------------------
(* The transport *)

\* An attempt is one of those that the retries allow.
TransportTypes ==
  /\ TransportTypeOK
  /\ transportAt \in {"check", "sleep"} => attempt <= MaxRetries
  /\ transportAt \in {"open", "read"} => attempt \in 1..MaxRetries + 1

LEMMA TransportTypesHold == TransportInit => TransportTypes
<1> SUFFICES ASSUME TransportInit PROVE TransportTypes
  OBVIOUS
<1>1. PICK n \in 0..MaxHistory : sentHistory \in [1..n -> SentMessages]
  BY DEF TransportInit, BoundedSeq, SeqOf
<1>2. n \in Nat /\ MaxHistory \in Nat /\ MaxRetries \in Nat /\ MaxChunks \in Nat
  BY TransportAssumption
<1>3. sentHistory \in Seq(SentMessages) /\ Len(sentHistory) = n
  BY <1>1, <1>2, SeqDef, LenProperties
<1>4. parts \in Seq(1..MaxRetries + 1) /\ displayed \in Seq(1..MaxRetries + 1)
  BY EmptySeq DEF TransportInit
<1>5. Len(sentHistory) <= MaxHistory /\ 0 \in 0..MaxRetries + 1 /\ 0 \in 0..MaxChunks
  BY <1>2, <1>3
<1>6. TransportTypeOK
  BY <1>3, <1>4, <1>5 DEF TransportInit, TransportTypeOK
<1> QED BY <1>2, <1>6 DEF TransportInit, TransportTypes

LEMMA TransportTypesKept == TransportTypes /\ [TransportNext]_transportVars => TransportTypes'
<1> SUFFICES ASSUME TransportTypes, [TransportNext]_transportVars PROVE TransportTypes'
  OBVIOUS
<1> USE TransportAssumption
<1>1. CASE BeginAttempt
  <2>1. attempt' \in 1..MaxRetries + 1
    BY <1>1 DEF BeginAttempt, TransportTypes, TransportTypeOK
  <2>2. parts' \in Seq(1..MaxRetries + 1)
    BY <1>1, EmptySeq DEF BeginAttempt
  <2> QED
    BY <1>1, <2>1, <2>2 DEF BeginAttempt, TransportTypes, TransportTypeOK, StreamEnded
<1>2. CASE Connect
  BY <1>2 DEF Connect, TransportTypes, TransportTypeOK
<1>3. CASE ReadChunk
  <2>1. /\ UNCHANGED <<sentHistory, attempt, stopAsked>> /\ transportAt = "read"
        /\ chunks < MaxChunks /\ transportAt' \in {"read", "cancelled"}
        /\ chunks' = chunks \/ chunks' = chunks + 1
        /\ \/ parts' = Append(parts, attempt) /\ displayed' = Append(displayed, attempt)
           \/ UNCHANGED <<parts, displayed>>
    BY <1>3, Zenon DEF ReadChunk
  <2>2. attempt \in 1..MaxRetries + 1 /\ parts \in Seq(1..MaxRetries + 1)
        /\ displayed \in Seq(1..MaxRetries + 1)
    BY <2>1 DEF TransportTypes, TransportTypeOK
  <2>3. parts' \in Seq(1..MaxRetries + 1) /\ displayed' \in Seq(1..MaxRetries + 1)
    <3> DEFINE T == 1..MaxRetries + 1
    <3>1. attempt \in T /\ parts \in Seq(T) /\ displayed \in Seq(T)
      BY <2>2
    <3> HIDE DEF T
    <3>2. Append(parts, attempt) \in Seq(T) /\ Append(displayed, attempt) \in Seq(T)
      BY <3>1, AppendProperties
    <3>3. parts' \in Seq(T) /\ displayed' \in Seq(T)
      BY <2>1, <3>1, <3>2, Zenon
    <3> QED BY <3>3 DEF T
  <2>4. chunks' \in 0..MaxChunks
    BY <2>1 DEF TransportTypes, TransportTypeOK
  <2> QED BY <2>1, <2>2, <2>3, <2>4 DEF TransportTypes, TransportTypeOK, StreamEnded
<1>4. CASE EndStream
  BY <1>4 DEF EndStream, TransportTypes, TransportTypeOK, StreamEnded
<1>5. CASE Fail
  BY <1>5 DEF Fail, MayRetry, TransportTypes, TransportTypeOK, StreamEnded
<1>6. CASE Wake
  BY <1>6 DEF Wake, TransportTypes, TransportTypeOK
<1>7. CASE CancelRequest
  BY <1>7 DEF CancelRequest, TransportTypes, TransportTypeOK
<1>8. CASE UNCHANGED transportVars
  BY <1>8 DEF transportVars, TransportTypes, TransportTypeOK
<1> QED BY <1>1, <1>2, <1>3, <1>4, <1>5, <1>6, <1>7, <1>8 DEF TransportNext

LEMMA TransportKeepsTypes == TransportSpec => []TransportTypeOK
<1>1. TransportTypes => TransportTypeOK
  BY DEF TransportTypes
<1> QED BY <1>1, TransportTypesHold, TransportTypesKept, PTL DEF TransportSpec

-----------------------------------------------------------------------------
(* The batch *)

LEMMA SaysAre ==
  ASSUME NEW kind \in {"none", "written", "stale", "raised", "ran", "pending", "deferred"}
  PROVE  Says(kind) \in Outcomes
BY DEF Says, Outcomes

\* What a call says is one of the outcomes.
LEMMA EffectSays ==
  ASSUME NEW i \in Texts, NEW call \in ToolCalls, NEW tree \in Trees
  PROVE  Effect(i, call, tree).result \in Outcomes
<1>1. CASE call.tool = "code_executor"
  <2>1. call \in [tool : {"code_executor"}, path : {"/"}, fresh : {FALSE}, steps : Programs]
    BY <1>1 DEF ToolCalls, On
  <2>2. call.steps \in Seq(ProgramSteps)
    BY <2>1, BatchAssumption
  <2> DEFINE x == Execute(i, call, tree).result
  <2>3. x = Says("raised") \/ x \in [kind : {"success", "error"}, of : SUBSET Paths]
    BY <2>2, ExecuteIs
  <2>4. Effect(i, call, tree).result = x
    BY <1>1 DEF Effect
  <2>5. Says("raised") \in Outcomes
    BY SaysAre
  <2> HIDE DEF x
  <2> QED BY <2>3, <2>4, <2>5 DEF Outcomes
<1>2. CASE call.tool # "code_executor"
  <2>1. Effect(i, call, tree) = FileEffect(i, call, tree)
    BY <1>2 DEF Effect
  <2>0. CASE call.tool \in PathScoped /\ call.path \in Garbled
    <3>1. FileEffect(i, call, tree).result = Says("raised")
      BY <2>0, GarbledRaises
    <3>2. Says("raised") \in Outcomes
      BY SaysAre
    <3> QED BY <2>1, <3>1, <3>2
  <2>2. CASE call.tool = "read_file" /\ call.path \notin Garbled
    <3>1. call.path \in Paths
      BY <2>2 DEF ToolCalls, On
    <3>2. tree[call.path] \in Texts
      BY <3>1 DEF Trees
    <3>3. FileEffect(i, call, tree).result = [kind |-> "text", of |-> tree[call.path]]
      BY <2>2 DEF FileEffect, ReadFile
    <3> QED BY <2>1, <3>2, <3>3 DEF Outcomes
  <2>3. CASE call.tool = "grep"
    <3>1. FileEffect(i, call, tree).result = [kind |-> "found", of |-> tree]
      BY <2>3 DEF FileEffect, Grep, PathScoped
    <3> QED BY <2>1, <3>1 DEF Outcomes
  <2>4. CASE call.tool = "write_file" /\ call.path \notin Garbled
    <3>1. FileEffect(i, call, tree) = WriteFile(i, call, tree)
      BY <2>4 DEF FileEffect
    <3>2. WriteFile(i, call, tree).result \in {Says("stale"), Says("written")}
      BY DEF WriteFile
    <3>3. Says("stale") \in Outcomes /\ Says("written") \in Outcomes
      BY SaysAre
    <3> QED BY <2>1, <3>1, <3>2, <3>3
  <2>5. CASE call.tool = "patch" /\ call.path \notin Garbled
    <3>1. FileEffect(i, call, tree) = Patch(i, call, tree)
      BY <2>5 DEF FileEffect
    <3>2. Patch(i, call, tree).result \in {Says("stale"), Says("written")}
      BY DEF Patch
    <3>3. Says("stale") \in Outcomes /\ Says("written") \in Outcomes
      BY SaysAre
    <3> QED BY <2>1, <3>1, <3>2, <3>3
  <2>6. CASE call.tool \notin {"read_file", "grep", "write_file", "patch"}
    <3>1. FileEffect(i, call, tree).result = Says("ran")
      BY <2>6 DEF FileEffect, PathScoped
    <3>2. Says("ran") \in Outcomes
      BY SaysAre
    <3> QED BY <2>1, <3>1, <3>2
  <2> QED BY <2>0, <2>2, <2>3, <2>4, <2>5, <2>6 DEF PathScoped
<1> QED BY <1>1, <1>2

BatchTypes ==
  /\ asking \subseteq {"write_file", "bash", "code_executor"} /\ granted \in BOOLEAN
  /\ outcome \in [Calls -> Outcomes] /\ Len(batch) \in 1..MaxCalls /\ together \in BOOLEAN

LEMMA BatchTypesHold == BatchInit => BatchTypes
<1> SUFFICES ASSUME BatchInit PROVE BatchTypes
  OBVIOUS
<1>1. PICK n \in 1..MaxCalls : batch \in [1..n -> ToolCalls]
  BY DEF BatchInit
<1>2. MaxCalls \in Nat
  BY BatchAssumption
<1>3. n \in Nat /\ batch \in Seq(ToolCalls)
  BY <1>1, <1>2, SeqDef
<1>4. Len(batch) = n
  BY <1>1, <1>3, LenProperties
<1>5. Says("none") \in Outcomes
  BY SaysAre
<1>6. outcome \in [Calls -> Outcomes]
  BY <1>5 DEF BatchInit
<1>7. together \in BOOLEAN
  BY Zenon DEF BatchInit, ShouldRunConcurrently
<1> QED BY <1>4, <1>6, <1>7 DEF BatchInit, BatchTypes

LEMMA BatchTypesKept == BatchInv /\ BatchTypes /\ [BatchNext]_batchVars => BatchTypes'
<1> SUFFICES ASSUME BatchInv, BatchTypes, [BatchNext]_batchVars PROVE BatchTypes'
  OBVIOUS
<1>1. /\ \A i \in Calls : i \in Texts /\ batch[i] \in ToolCalls
      /\ seen \in [Calls -> Trees] /\ outcome \in [Calls -> Outcomes]
  BY BatchAssumption, CallsAre DEF BatchInv, BatchTypes
<1>2. ASSUME UNCHANGED request, outcome' \in [Calls -> Outcomes] PROVE BatchTypes'
  BY <1>2 DEF request, BatchTypes, Calls
<1>3. ASSUME NEW i \in Calls, Open(i) PROVE BatchTypes'
  BY <1>1, <1>2, <1>3 DEF Open
<1>4. ASSUME NEW i \in Calls, FinishCall(i) PROVE BatchTypes'
  <2> DEFINE told == Effect(i, batch[i], seen[i]).result
  <2>1. told \in Outcomes
    BY <1>1, EffectSays
  <2>2. UNCHANGED request /\ outcome' = [outcome EXCEPT ![i] = told]
    BY <1>4 DEF FinishCall
  <2> HIDE DEF told
  <2>3. outcome' \in [Calls -> Outcomes]
    BY <1>1, <2>1, <2>2
  <2> QED BY <1>2, <2>2, <2>3
<1>5. ASSUME NEW i \in Calls, Defer(i) PROVE BatchTypes'
  <2>1. Says("pending") \in Outcomes /\ Says("deferred") \in Outcomes
    BY SaysAre
  <2>2. /\ UNCHANGED request
        /\ outcome' = [j \in Calls |-> IF j = i THEN Says("pending")
                                       ELSE IF j > i THEN Says("deferred") ELSE outcome[j]]
    BY <1>5 DEF Defer
  <2>3. outcome' \in [Calls -> Outcomes]
    BY <1>1, <2>1, <2>2
  <2> QED BY <1>2, <2>2, <2>3
<1>6. ASSUME UNCHANGED batchVars PROVE BatchTypes'
  <2>1. UNCHANGED request /\ outcome' = outcome
    BY <1>6 DEF batchVars, request
  <2> QED BY <1>1, <1>2, <2>1
<1> QED BY <1>3, <1>4, <1>5, <1>6 DEF BatchNext

LEMMA BatchTypesAre == BatchInv /\ BatchTypes => BatchTypeOK
BY DEF BatchInv, BatchFits, BatchTypes, BatchTypeOK

LEMMA BatchKeepsTypes == BatchSpec => []BatchTypeOK
<1>1. BatchInit => BatchInv /\ BatchTypes
  BY BatchAssumption, BatchStarts, BatchTypesHold
<1>2. BatchInv /\ BatchTypes /\ [BatchNext]_batchVars => (BatchInv /\ BatchTypes)'
  BY BatchAssumption, BatchNextKeeps, BatchTypesKept
<1> QED BY <1>1, <1>2, BatchTypesAre, PTL DEF BatchSpec
=============================================================================
