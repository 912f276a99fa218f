------------------------- MODULE Components_proofs --------------------------
(***************************************************************************)
(* What the agent learns (memories, skills, candidates for its prompt and  *)
(* the reviews that propose it) and what it stores (the database of        *)
(* sessions), section by section as in the modules this one extends; and   *)
(* in the last section what MCParts checks of all the components side by   *)
(* side.                                                                   *)
(***************************************************************************)
EXTENDS MCParts, Agent_proofs

-----------------------------------------------------------------------------
(* Memories (MemoryFiles) *)

\* A page has the memories of its target, and no two memories have one id.
PagesApart ==
  /\ \A t \in MemoryTargets : \A m \in page[t] : m.target = t
  /\ \A m, n \in Stored : m.id = n.id => m = n
  /\ \A m \in Stored : m.id < nextId
  /\ \A i \in lapsed : i < nextId

\* Who is at work has the lock.
LatchHeld == \A c \in Callers : caller[c].at # "rest" => latch = c

\* What a plan still does to the files: it adds one memory that is no duplicate,
\* changes or removes one, or leaves out what has lapsed, perhaps nothing.
Adds(plan) ==
  \E m \in Memories :
    /\ plan = Stored \cup {m} /\ m.id \notin lapsed /\ m.id < nextId
    /\ \A n \in Stored : n.id # m.id
    /\ \A n \in Listed : ~(n.user = m.user /\ n.target = m.target /\ n.text = m.text)
    /\ Conflicts(m.text, m.target, m.user, Listed) # {} => m.kept
Updates(plan) ==
  \E m \in Stored, n \in Memories :
    /\ plan = (Stored \ {m}) \cup {n}
    /\ n = NewRecord(m.id, m.user, m.target, n.text, m.expires, n.kept)
    /\ Conflicts(n.text, m.target, m.user, Stored \ {m}) # {} => n.kept
Removes(plan) == \E m \in Stored : plan = Stored \ {m}
Expires(plan) ==
  \E gone \in SUBSET Stored : plan = Stored \ gone /\ \A m \in gone : m.id \in lapsed
Planned(plan) == Adds(plan) \/ Updates(plan) \/ Removes(plan) \/ Expires(plan)

PlansHold ==
  \A c \in Callers :
    /\ caller[c].at \in {"memory", "user"} => Planned(caller[c].plan)
    /\ caller[c].at = "user" => page["memory"] = {m \in caller[c].plan : m.target = "memory"}

FilesInv == FilesTypeOK /\ PagesApart /\ LatchHeld /\ PlansHold

-----------------------------------------------------------------------------

\* The fields of a record are what it is made of.
LEMMA NewRecordFields ==
  ASSUME NEW id, NEW user, NEW target, NEW text, NEW expires, NEW kept
  PROVE  LET m == NewRecord(id, user, target, text, expires, kept)
         IN  /\ m.id = id /\ m.user = user /\ m.target = target
             /\ m.text = text /\ m.expires = expires /\ m.kept = kept
  BY DEF NewRecord

LEMMA NewRecordType ==
  ASSUME NEW id \in MemoryIds, NEW user \in MemoryUsers, NEW target \in MemoryTargets,
         NEW text \in MemoryTexts, NEW expires \in BOOLEAN, NEW kept \in BOOLEAN
  PROVE  NewRecord(id, user, target, text, expires, kept) \in Memories
  BY DEF NewRecord, Memories

LEMMA InitFilesInv == FilesInit => FilesInv
  BY FilesAssumption DEF FilesAssumption, FilesInit, FilesInv, FilesTypeOK, PagesApart, LatchHeld,
     PlansHold, Stored, Listed, MemoryTargets, MemoryIds, Resting, Callers

\* The pages are the memories of the two targets.
LEMMA PagesOfTarget ==
  ASSUME FilesTypeOK, PagesApart
  PROVE  /\ Stored \subseteq Memories
         /\ \A t \in MemoryTargets : page[t] = {m \in Stored : m.target = t}
  BY DEF FilesTypeOK, PagesApart, Stored, MemoryTargets

\* What the files hold after one of them is written.
LEMMA StoredWritten ==
  ASSUME FilesTypeOK, PagesApart, NEW c \in Callers, NEW t \in MemoryTargets, NEW next,
         WriteTarget(c, t, next)
  PROVE  /\ Stored' = {m \in Stored : m.target # t} \cup {m \in caller[c].plan : m.target = t}
         /\ page' = [page EXCEPT ![t] = {m \in caller[c].plan : m.target = t}]
         /\ caller[c].plan \subseteq Memories
<1>1. caller[c].plan \subseteq Memories
  BY DEF FilesTypeOK
<1>2. page' = [page EXCEPT ![t] = {m \in caller[c].plan : m.target = t}]
  BY DEF WriteTarget
<1>3. page \in [MemoryTargets -> SUBSET Memories]
  BY DEF FilesTypeOK
<1>4. CASE t = "memory"
  <2>1. page'["memory"] = {m \in caller[c].plan : m.target = t} /\ page'["user"] = page["user"]
    BY <1>2, <1>3, <1>4 DEF MemoryTargets
  <2>2. page["user"] = {m \in Stored : m.target # t}
    BY <1>4, PagesOfTarget DEF MemoryTargets, Memories
  <2> QED
    BY <1>1, <1>2, <2>1, <2>2 DEF Stored
<1>5. CASE t = "user"
  <2>1. page'["user"] = {m \in caller[c].plan : m.target = t} /\ page'["memory"] = page["memory"]
    BY <1>2, <1>3, <1>5 DEF MemoryTargets
  <2>2. page["memory"] = {m \in Stored : m.target # t}
    BY <1>5, PagesOfTarget DEF MemoryTargets, Memories
  <2> QED
    BY <1>1, <1>2, <2>1, <2>2 DEF Stored
<1> QED
  BY <1>4, <1>5 DEF MemoryTargets

\* Writing the user's page completes the plan.
LEMMA WrittenUser ==
  ASSUME FilesInv, NEW c \in Callers, NEW next, WriteTarget(c, "user", next)
  PROVE  Stored' = caller[c].plan
<1>1. caller[c].at = "user"
  BY DEF WriteTarget
<1>2. page["memory"] = {m \in caller[c].plan : m.target = "memory"}
  BY <1>1 DEF FilesInv, PlansHold
<1>3. page["memory"] = {m \in Stored : m.target # "user"}
  BY PagesOfTarget DEF FilesInv, MemoryTargets, Memories
<1>4. /\ Stored' = {m \in Stored : m.target # "user"} \cup {m \in caller[c].plan : m.target = "user"}
      /\ caller[c].plan \subseteq Memories
  BY StoredWritten DEF FilesInv, MemoryTargets
<1> QED
  BY <1>2, <1>3, <1>4 DEF Memories, MemoryTargets

\* A page written leaves the files as they are or as the plan has them, or without
\* some of what has lapsed.
PlanEffect(plan) ==
  \/ Stored' = Stored
  \/ Stored' = plan
  \/ Expires(plan) /\ \E gone \in SUBSET Stored :
       /\ Stored' = Stored \ gone
       /\ \A m \in gone : m.id \in lapsed
       /\ \E rest \in SUBSET Stored' :
            plan = Stored' \ rest /\ \A m \in rest : m.id \in lapsed

LEMMA WrittenEffect ==
  ASSUME FilesInv, NEW c \in Callers, NEW t \in MemoryTargets, NEW next, WriteTarget(c, t, next)
  PROVE  PlanEffect(caller[c].plan)
<1> DEFINE P == caller[c].plan
<1>1. /\ Stored' = {m \in Stored : m.target # t} \cup {m \in P : m.target = t}
      /\ P \subseteq Memories /\ Stored \subseteq Memories
  BY StoredWritten, PagesOfTarget DEF FilesInv
<1>2. Planned(P)
  BY DEF FilesInv, PlansHold, WriteTarget, MemoryTargets
<1> HIDE DEF P
<1>3. CASE Adds(P)
  <2>1. PICK m \in Memories : P = Stored \cup {m}
    BY <1>3 DEF Adds
  <2>2. CASE m.target = t
    <3>1. Stored' = P
      BY <1>1, <2>1, <2>2
    <3> QED BY <3>1 DEF PlanEffect, P
  <2>3. CASE m.target # t
    <3>1. Stored' = Stored
      BY <1>1, <2>1, <2>3
    <3> QED BY <3>1 DEF PlanEffect
  <2> QED BY <2>2, <2>3
<1>4. CASE Updates(P)
  <2>1. PICK m \in Stored, n \in Memories :
          /\ P = (Stored \ {m}) \cup {n}
          /\ n = NewRecord(m.id, m.user, m.target, n.text, m.expires, n.kept)
    BY <1>4 DEF Updates
  <2>0. n.target = m.target
    BY <2>1, NewRecordFields
  <2>2. CASE m.target = t
    <3>1. Stored' = P
      BY <1>1, <2>0, <2>1, <2>2
    <3> QED BY <3>1 DEF PlanEffect, P
  <2>3. CASE m.target # t
    <3>1. Stored' = Stored
      BY <1>1, <2>0, <2>1, <2>3
    <3> QED BY <3>1 DEF PlanEffect
  <2> QED BY <2>2, <2>3
<1>5. CASE Removes(P)
  <2>1. PICK m \in Stored : P = Stored \ {m}
    BY <1>5 DEF Removes
  <2>2. CASE m.target = t
    <3>1. Stored' = P
      BY <1>1, <2>1, <2>2
    <3> QED BY <3>1 DEF PlanEffect, P
  <2>3. CASE m.target # t
    <3>1. Stored' = Stored
      BY <1>1, <2>1, <2>3
    <3> QED BY <3>1 DEF PlanEffect
  <2> QED BY <2>2, <2>3
<1>6. CASE Expires(P)
  <2>1. PICK gone \in SUBSET Stored : P = Stored \ gone /\ \A m \in gone : m.id \in lapsed
    BY <1>6 DEF Expires
  <2> DEFINE now == {m \in gone : m.target = t}
             rest == {m \in gone : m.target # t}
  <2>2. Stored' = Stored \ now
    BY <1>1, <2>1
  <2>3. rest \in SUBSET Stored' /\ P = Stored' \ rest
    BY <2>1, <2>2
  <2>4. now \in SUBSET Stored /\ (\A m \in now : m.id \in lapsed) /\ (\A m \in rest : m.id \in lapsed)
    BY <2>1
  <2> QED
    BY <1>6, <2>2, <2>3, <2>4 DEF PlanEffect, P
<1> QED
  BY <1>2, <1>3, <1>4, <1>5, <1>6 DEF Planned

-----------------------------------------------------------------------------

\* While one caller has the lock the others rest.
LEMMA OthersRest ==
  ASSUME LatchHeld, NEW c \in Callers, caller[c].at # "rest", NEW d \in Callers, d # c
  PROVE  caller[d].at = "rest"
  BY DEF LatchHeld

\* A plan stays a plan while the files stay as they are, also when a memory lapses.
LEMMA PlanStays ==
  ASSUME FilesTypeOK, NEW P, Planned(P), Stored' = Stored, nextId' \in Nat, nextId' >= nextId,
         \/ UNCHANGED lapsed
         \/ \E m \in Listed : lapsed' = lapsed \cup {m.id}
  PROVE  Planned(P)'
<1>1. Stored' = Stored /\ Listed' \subseteq Listed /\ lapsed \subseteq lapsed'
  BY DEF Listed
<1>2. \A i : i \in lapsed' => i \in lapsed \/ \E m \in Stored : i = m.id
  BY DEF Listed
<1>3. nextId \in Nat
  BY FilesAssumption DEF FilesTypeOK, FilesAssumption
<1>4. CASE Adds(P)
  <2>1. PICK m \in Memories :
          /\ P = Stored \cup {m} /\ m.id \notin lapsed /\ m.id < nextId
          /\ \A n \in Stored : n.id # m.id
          /\ \A n \in Listed : ~(n.user = m.user /\ n.target = m.target /\ n.text = m.text)
          /\ Conflicts(m.text, m.target, m.user, Listed) # {} => m.kept
    BY <1>4 DEF Adds
  <2>2. m.id \notin lapsed'
    BY <1>2, <2>1
  <2>3. m.id < nextId'
    BY <1>3, <2>1 DEF Memories, MemoryIds
  <2>4. Conflicts(m.text, m.target, m.user, Listed') # {} => m.kept
    BY <1>1, <2>1 DEF Conflicts
  <2>5. \A n \in Listed' : ~(n.user = m.user /\ n.target = m.target /\ n.text = m.text)
    BY <1>1, <2>1
  <2>6. /\ P = Stored' \cup {m}
        /\ \A n \in Stored' : n.id # m.id
    BY <1>1, <2>1
  <2>7. Adds(P)'
    BY <2>2, <2>3, <2>4, <2>5, <2>6 DEF Adds
  <2> QED BY <2>7 DEF Planned
<1>5. CASE Updates(P)
  BY <1>1, <1>5 DEF Updates, Planned
<1>6. CASE Removes(P)
  BY <1>1, <1>6 DEF Removes, Planned
<1>7. CASE Expires(P)
  BY <1>1, <1>7 DEF Expires, Planned
<1> QED
  BY <1>4, <1>5, <1>6, <1>7 DEF Planned

\* A caller that plans has its plan, and nothing else changes.
LEMMA PlanRecorded ==
  ASSUME FilesTypeOK, NEW c \in Callers, NEW P \in SUBSET Memories, NEW ids \in SUBSET MemoryIds,
         Plan(c, P, ids), nextId' \in 1..MaxMemories + 1
  PROVE  /\ caller'[c].plan = P /\ caller'[c].at = "memory"
         /\ \A d \in Callers \ {c} : caller'[d] = caller[d]
         /\ UNCHANGED <<page, lapsed, latch, audit, memCrashes>>
         /\ Stored' = Stored /\ Listed' = Listed
         /\ FilesTypeOK'
<1>1. /\ caller' = [caller EXCEPT ![c] = [at |-> "memory", plan |-> P, about |-> ids]]
      /\ UNCHANGED <<page, lapsed, latch, audit, memCrashes>>
  BY DEF Plan
<1>2. Stored' = Stored /\ Listed' = Listed
  BY <1>1 DEF Stored, Listed
<1>3. caller'[c] = [at |-> "memory", plan |-> P, about |-> ids]
  BY <1>1 DEF FilesTypeOK
<1>4. \A d \in Callers \ {c} : caller'[d] = caller[d]
  BY <1>1 DEF FilesTypeOK
<1>5. FilesTypeOK'
  BY <1>1 DEF FilesTypeOK
<1> QED
  BY <1>1, <1>2, <1>3, <1>4, <1>5

\* What each operation plans under the lock.
LEMMA AddPlans ==
  ASSUME FilesInv, NEW c \in Callers, Add(c)
  PROVE  /\ nextId \in MemoryIds /\ nextId' = nextId + 1
         /\ \E P \in SUBSET Memories, ids \in SUBSET MemoryIds : Plan(c, P, ids) /\ Planned(P)'
<1>1. PICK user \in MemoryUsers, target \in MemoryTargets, text \in MemoryTexts,
           expires \in BOOLEAN, retain \in BOOLEAN :
        LET others == Conflicts(text, target, user, Listed) IN
        /\ ~ \E m \in Listed : m.user = user /\ m.target = target /\ m.text = text
        /\ others # {} => retain
        /\ Plan(c, Stored \cup {NewRecord(nextId, user, target, text, expires, others # {})}, {nextId})
  BY DEF Add
<1>2. nextId \in MemoryIds /\ nextId \in Nat /\ nextId' = nextId + 1
  BY FilesAssumption DEF FilesTypeOK, FilesAssumption, FilesInv, Add, MemoryIds
<1>3. PICK kept \in BOOLEAN : kept = (Conflicts(text, target, user, Listed) # {})
  OBVIOUS
<1>4. PICK m \in Memories : m = NewRecord(nextId, user, target, text, expires, kept)
  BY <1>2, NewRecordType
<1>5. PICK P \in SUBSET Memories : P = Stored \cup {m}
  BY PagesOfTarget DEF FilesInv
<1>6. m.id = nextId /\ m.user = user /\ m.target = target /\ m.text = text /\ m.kept = kept
  BY <1>4, NewRecordFields
<1>7. Plan(c, P, {nextId})
  BY <1>1, <1>3, <1>4, <1>5
<1>8. Stored' = Stored /\ Listed' = Listed /\ lapsed' = lapsed
  BY <1>7 DEF Plan, Stored, Listed
<1>9. \A n \in Listed : ~(n.user = m.user /\ n.target = m.target /\ n.text = m.text)
  BY <1>1, <1>6
<1>10. Conflicts(m.text, m.target, m.user, Listed) # {} => m.kept
  BY <1>3, <1>6
<1>11. m.id \notin lapsed /\ \A n \in Stored : n.id # m.id
  BY <1>2, <1>6 DEF FilesInv, PagesApart, FilesTypeOK
<1>12. m.id < nextId'
  BY <1>2, <1>6
<1>13. Adds(P)'
  BY <1>5, <1>8, <1>9, <1>10, <1>11, <1>12 DEF Adds
<1> QED
  BY <1>2, <1>7, <1>13 DEF Planned

LEMMA UpdatePlans ==
  ASSUME FilesInv, NEW c \in Callers, Update(c)
  PROVE  /\ nextId' = nextId
         /\ \E P \in SUBSET Memories, ids \in SUBSET MemoryIds : Plan(c, P, ids) /\ Planned(P)'
<1>1. PICK m \in Stored, text \in MemoryTexts, retain \in BOOLEAN :
        LET others == Conflicts(text, m.target, m.user, Stored \ {m}) IN
        /\ others # {} => retain
        /\ Plan(c, (Stored \ {m}) \cup {NewRecord(m.id, m.user, m.target, text, m.expires, others # {})},
                {m.id})
  BY DEF Update
<1>2. m \in Memories /\ Stored \subseteq Memories
  BY PagesOfTarget DEF FilesInv
<1>3. m.id \in MemoryIds /\ m.user \in MemoryUsers /\ m.target \in MemoryTargets
      /\ m.text \in MemoryTexts /\ m.expires \in BOOLEAN
  BY <1>2 DEF Memories
<1>4. PICK kept \in BOOLEAN : kept = (Conflicts(text, m.target, m.user, Stored \ {m}) # {})
  OBVIOUS
<1>5. PICK n \in Memories : n = NewRecord(m.id, m.user, m.target, text, m.expires, kept)
  BY <1>3, NewRecordType
<1>6. n.text = text /\ n.kept = kept
  BY <1>5, NewRecordFields
<1>7. n = NewRecord(m.id, m.user, m.target, n.text, m.expires, n.kept)
  BY <1>5, <1>6
<1>8. PICK P \in SUBSET Memories : P = (Stored \ {m}) \cup {n}
  BY <1>2
<1>9. Plan(c, P, {m.id})
  BY <1>1, <1>4, <1>5, <1>8
<1>10. Stored' = Stored
  BY <1>9 DEF Plan, Stored
<1>11. Conflicts(n.text, m.target, m.user, Stored \ {m}) # {} => n.kept
  BY <1>4, <1>6
<1>12. Updates(P)'
  BY <1>7, <1>8, <1>10, <1>11 DEF Updates
<1>13. nextId' = nextId
  BY DEF Update
<1> QED
  BY <1>3, <1>9, <1>12, <1>13 DEF Planned

LEMMA RemovePlans ==
  ASSUME FilesInv, NEW c \in Callers, RemoveMemory(c)
  PROVE  /\ nextId' = nextId
         /\ \E P \in SUBSET Memories, ids \in SUBSET MemoryIds : Plan(c, P, ids) /\ Planned(P)'
<1>1. PICK m \in Stored : Plan(c, Stored \ {m}, {m.id})
  BY DEF RemoveMemory
<1>2. m \in Memories /\ Stored \subseteq Memories
  BY PagesOfTarget DEF FilesInv
<1>3. PICK P \in SUBSET Memories : P = Stored \ {m}
  BY <1>2
<1>4. Plan(c, P, {m.id})
  BY <1>1, <1>3
<1>5. Stored' = Stored
  BY <1>4 DEF Plan, Stored
<1>6. Removes(P)'
  BY <1>3, <1>5 DEF Removes
<1>7. m.id \in MemoryIds
  BY <1>2 DEF Memories
<1>8. nextId' = nextId
  BY DEF RemoveMemory
<1> QED
  BY <1>4, <1>6, <1>7, <1>8 DEF Planned

LEMMA ExpirePlans ==
  ASSUME FilesInv, NEW c \in Callers, Expire(c)
  PROVE  /\ nextId' = nextId
         /\ \E P \in SUBSET Memories, ids \in SUBSET MemoryIds : Plan(c, P, ids) /\ Planned(P)'
<1>1. PICK user \in MemoryUsers :
        LET gone == {m \in Stored : m.user = user /\ m.id \in lapsed}
        IN  gone # {} /\ Plan(c, Stored \ gone, {m.id : m \in gone})
  BY DEF Expire
<1>2. Stored \subseteq Memories
  BY PagesOfTarget DEF FilesInv
<1>3. PICK gone \in SUBSET Stored : gone = {m \in Stored : m.user = user /\ m.id \in lapsed}
  OBVIOUS
<1>4. PICK P \in SUBSET Memories : P = Stored \ gone
  BY <1>2
<1>5. PICK ids \in SUBSET MemoryIds : ids = {m.id : m \in gone}
  BY <1>2 DEF Memories
<1>6. Plan(c, P, ids)
  BY <1>1, <1>3, <1>4, <1>5
<1>7. Stored' = Stored /\ lapsed' = lapsed
  BY <1>6 DEF Plan, Stored
<1>8. Expires(P)'
  BY <1>3, <1>4, <1>7 DEF Expires
<1>9. nextId' = nextId
  BY DEF Expire
<1> QED
  BY <1>6, <1>8, <1>9 DEF Planned

-----------------------------------------------------------------------------
(* FilesInv is inductive, action by action *)

LEMMA IdsAreNat == FilesInv => nextId \in Nat /\ nextId \in 1..MaxMemories + 1
  BY FilesAssumption DEF FilesInv, FilesTypeOK, FilesAssumption

LEMMA PlanKeepsFilesInv ==
  ASSUME FilesInv, NEW c \in Callers, caller[c].at = "locked",
         NEW P \in SUBSET Memories, NEW ids \in SUBSET MemoryIds,
         Plan(c, P, ids), Planned(P)', nextId' \in 1..MaxMemories + 1, nextId' >= nextId
  PROVE  FilesInv'
<1>1. /\ caller'[c].plan = P /\ caller'[c].at = "memory"
      /\ \A d \in Callers \ {c} : caller'[d] = caller[d]
      /\ UNCHANGED <<page, lapsed, latch, audit, memCrashes>>
      /\ Stored' = Stored /\ FilesTypeOK'
  BY PlanRecorded DEF FilesInv
<1>2. PagesApart'
  <2>1. \A m \in Stored : m.id \in Nat /\ m.id < nextId
    BY PagesOfTarget DEF FilesInv, PagesApart, Memories, MemoryIds
  <2>2. nextId \in Nat /\ nextId' \in Nat
    BY IdsAreNat, FilesAssumption DEF FilesAssumption
  <2>3. \A i \in lapsed : i \in Nat /\ i < nextId
    BY DEF FilesInv, PagesApart, FilesTypeOK, MemoryIds
  <2> QED
    BY <1>1, <2>1, <2>2, <2>3 DEF FilesInv, PagesApart
<1>3. \A d \in Callers \ {c} : caller[d].at = "rest"
  BY OthersRest DEF FilesInv
<1>4. LatchHeld'
  BY <1>1, <1>3 DEF FilesInv, LatchHeld
<1>5. PlansHold'
  <2>1. \A d \in Callers : caller'[d].at \in {"memory", "user"} => d = c
    BY <1>1, <1>3
  <2>2. Planned(caller[c].plan)'
    BY <1>1
  <2> QED
    BY <1>1, <2>1, <2>2 DEF PlansHold
<1> QED
  BY <1>1, <1>2, <1>4, <1>5 DEF FilesInv

LEMMA InvokeKeepsFilesInv ==
  ASSUME FilesInv, NEW c \in Callers, Invoke(c) \/ Expire(c)
  PROVE  FilesInv'
<1>1. caller[c].at = "locked"
  BY DEF Invoke, Add, Update, RemoveMemory, Expire
<1>2. nextId \in Nat /\ nextId \in 1..MaxMemories + 1
  BY IdsAreNat
<1>3. CASE Add(c)
  <2>1. nextId \in MemoryIds /\ nextId' = nextId + 1
    BY <1>3, AddPlans
  <2>2. nextId' \in 1..MaxMemories + 1 /\ nextId' >= nextId
    BY <1>2, <2>1, FilesAssumption DEF FilesAssumption, MemoryIds
  <2>3. PICK P \in SUBSET Memories, ids \in SUBSET MemoryIds : Plan(c, P, ids) /\ Planned(P)'
    BY <1>3, AddPlans
  <2> QED
    BY <1>1, <2>2, <2>3, PlanKeepsFilesInv
<1>4. CASE Update(c)
  <2>1. PICK P \in SUBSET Memories, ids \in SUBSET MemoryIds : Plan(c, P, ids) /\ Planned(P)'
    BY <1>4, UpdatePlans
  <2>2. nextId' = nextId
    BY <1>4, UpdatePlans
  <2> QED
    BY <1>1, <1>2, <2>1, <2>2, PlanKeepsFilesInv
<1>5. CASE RemoveMemory(c)
  <2>1. PICK P \in SUBSET Memories, ids \in SUBSET MemoryIds : Plan(c, P, ids) /\ Planned(P)'
    BY <1>5, RemovePlans
  <2>2. nextId' = nextId
    BY <1>5, RemovePlans
  <2> QED
    BY <1>1, <1>2, <2>1, <2>2, PlanKeepsFilesInv
<1>6. CASE Expire(c)
  <2>1. PICK P \in SUBSET Memories, ids \in SUBSET MemoryIds : Plan(c, P, ids) /\ Planned(P)'
    BY <1>6, ExpirePlans
  <2>2. nextId' = nextId
    BY <1>6, ExpirePlans
  <2> QED
    BY <1>1, <1>2, <2>1, <2>2, PlanKeepsFilesInv
<1> QED
  BY <1>3, <1>4, <1>5, <1>6 DEF Invoke

LEMMA LockKeepsFilesInv ==
  ASSUME FilesInv, NEW c \in Callers, Lock(c)
  PROVE  FilesInv'
<1>1. \A d \in Callers : caller[d].at = "rest"
  BY FilesAssumption DEF FilesInv, LatchHeld, Lock, FilesAssumption, Callers
<1>2. FilesTypeOK'
  BY DEF FilesInv, FilesTypeOK, Lock
<1>3. PagesApart'
  BY DEF FilesInv, PagesApart, Lock, Stored
<1>4. /\ \A d \in Callers \ {c} : caller'[d] = caller[d]
      /\ caller'[c].at = "locked" /\ latch' = c
  BY DEF FilesInv, FilesTypeOK, Lock
<1>5. LatchHeld' /\ PlansHold'
  BY <1>1, <1>4 DEF LatchHeld, PlansHold
<1> QED
  BY <1>2, <1>3, <1>5 DEF FilesInv

\* Once the one who is at work rests, all do.
LEMMA RestKeepsFilesInv ==
  ASSUME FilesInv, NEW c \in Callers, caller[c].at # "rest",
         caller' = [caller EXCEPT ![c] = Resting], UNCHANGED <<page, lapsed, nextId>>, FilesTypeOK'
  PROVE  FilesInv'
<1>1. \A d \in Callers : caller'[d].at = "rest"
  <2>1. \A d \in Callers \ {c} : caller[d].at = "rest"
    BY OthersRest DEF FilesInv
  <2> QED
    BY <2>1 DEF FilesInv, FilesTypeOK, Resting
<1>2. PagesApart'
  BY DEF FilesInv, PagesApart, Stored
<1>3. LatchHeld' /\ PlansHold'
  BY <1>1 DEF LatchHeld, PlansHold
<1> QED
  BY <1>2, <1>3 DEF FilesInv

LEMMA LeaveKeepsFilesInv ==
  ASSUME FilesInv, NEW c \in Callers, Refuse(c) \/ Audit(c) \/ MemoryCrash(c)
  PROVE  FilesInv'
<1>1. /\ caller[c].at # "rest" /\ caller' = [caller EXCEPT ![c] = Resting]
      /\ UNCHANGED <<page, lapsed, nextId>>
  BY DEF Refuse, Audit, MemoryCrash
<1>2. FilesTypeOK'
  <2>1. caller' \in [Callers -> [at : {"rest", "locked", "memory", "user", "audit"},
                                 plan : SUBSET Memories, about : SUBSET MemoryIds]]
    BY <1>1 DEF FilesInv, FilesTypeOK, Resting
  <2>2. latch' \in Callers \cup {"nobody"} /\ memCrashes' \in 0..MaxMemoryCrashes
    BY FilesAssumption DEF FilesInv, FilesTypeOK, FilesAssumption, Refuse, Audit, MemoryCrash
  <2>3. audit' \subseteq MemoryIds
    BY DEF FilesInv, FilesTypeOK, Refuse, Audit, MemoryCrash
  <2> QED
    BY <1>1, <2>1, <2>2, <2>3 DEF FilesInv, FilesTypeOK
<1> QED
  BY <1>1, <1>2, RestKeepsFilesInv

LEMMA LapseKeepsFilesInv ==
  ASSUME FilesInv, Lapse
  PROVE  FilesInv'
<1>1. PICK m \in Listed : lapsed' = lapsed \cup {m.id}
  BY DEF Lapse
<1>2. /\ UNCHANGED <<page, latch, caller, nextId, audit, memCrashes>>
      /\ Stored' = Stored /\ m \in Stored /\ m \in Memories
  BY PagesOfTarget DEF FilesInv, Lapse, Stored, Listed
<1>3. FilesTypeOK'
  BY <1>1, <1>2 DEF FilesInv, FilesTypeOK, Memories
<1>4. PagesApart'
  BY <1>1, <1>2 DEF FilesInv, PagesApart
<1>5. LatchHeld'
  BY <1>2 DEF FilesInv, LatchHeld
<1>6. PlansHold'
  <2> SUFFICES ASSUME NEW c \in Callers, caller[c].at \in {"memory", "user"}
               PROVE  Planned(caller[c].plan)'
    BY <1>2 DEF FilesInv, PlansHold
  <2>1. PICK P \in SUBSET Memories : P = caller[c].plan
    BY DEF FilesInv, FilesTypeOK
  <2>2. Planned(P)
    BY <2>1 DEF FilesInv, PlansHold
  <2>3. Planned(P)'
    BY <1>1, <1>2, <2>2, IdsAreNat, PlanStays DEF FilesInv
  <2> QED
    BY <1>2, <2>1, <2>3
<1> QED
  BY <1>3, <1>4, <1>5, <1>6 DEF FilesInv

\* What is planned has the ids of what is stored, or a new one.
LEMMA PlanApart ==
  ASSUME FilesInv, NEW P, Planned(P)
  PROVE  /\ \A m, n \in P : m.id = n.id => m = n
         /\ \A m \in P : m.id < nextId
<1>1. CASE Adds(P)
  BY <1>1 DEF Adds, FilesInv, PagesApart
<1>2. CASE Updates(P)
  <2>1. PICK m \in Stored, n \in Memories :
          P = (Stored \ {m}) \cup {n} /\ n = NewRecord(m.id, m.user, m.target, n.text, m.expires, n.kept)
    BY <1>2 DEF Updates
  <2>2. n.id = m.id
    BY <2>1, NewRecordFields
  <2> QED
    BY <2>1, <2>2 DEF FilesInv, PagesApart
<1>3. CASE Removes(P)
  BY <1>3 DEF Removes, FilesInv, PagesApart
<1>4. CASE Expires(P)
  BY <1>4 DEF Expires, FilesInv, PagesApart
<1> QED
  BY <1>1, <1>2, <1>3, <1>4 DEF Planned

LEMMA WriteKeepsFilesInv ==
  ASSUME FilesInv, NEW c \in Callers, NEW t \in MemoryTargets, NEW next,
         WriteTarget(c, t, next), <<t, next>> \in {<<"memory", "user">>, <<"user", "audit">>}
  PROVE  FilesInv'
<1>1. PICK P \in SUBSET Memories : P = caller[c].plan
  BY DEF FilesInv, FilesTypeOK
<1>2. /\ caller[c].at = t /\ caller' = [caller EXCEPT ![c].at = next]
      /\ page' = [page EXCEPT ![t] = {m \in P : m.target = t}]
      /\ UNCHANGED <<lapsed, latch, nextId, audit, memCrashes>>
  BY <1>1 DEF WriteTarget
<1>3. Planned(P)
  BY <1>1, <1>2 DEF FilesInv, PlansHold, MemoryTargets
<1>4. /\ caller'[c].at = next /\ caller'[c].plan = P
      /\ \A d \in Callers \ {c} : caller'[d] = caller[d]
  BY <1>1, <1>2 DEF FilesInv, FilesTypeOK
<1>5. \A d \in Callers \ {c} : caller[d].at = "rest"
  BY <1>2, OthersRest DEF FilesInv, MemoryTargets
<1>6. FilesTypeOK'
  <2>1. page' \in [MemoryTargets -> SUBSET Memories]
    BY <1>2 DEF FilesInv, FilesTypeOK
  <2>2. caller' \in [Callers -> [at : {"rest", "locked", "memory", "user", "audit"},
                                 plan : SUBSET Memories, about : SUBSET MemoryIds]]
    BY <1>2 DEF FilesInv, FilesTypeOK
  <2> QED
    BY <1>2, <2>1, <2>2 DEF FilesInv, FilesTypeOK
<1>7. /\ PlanEffect(P)
      /\ Stored' = {m \in Stored : m.target # t} \cup {m \in P : m.target = t}
  BY <1>1, WrittenEffect, StoredWritten DEF FilesInv
<1>8. PagesApart'
  <2>1. Stored' \subseteq Stored \/ Stored' = P
    BY <1>7 DEF PlanEffect
  <2>2. /\ \A m, n \in Stored' : m.id = n.id => m = n
        /\ \A m \in Stored' : m.id < nextId'
    BY <1>2, <1>3, <2>1, PlanApart DEF FilesInv, PagesApart
  <2>3. \A s \in MemoryTargets : \A m \in page'[s] : m.target = s
    BY <1>2 DEF FilesInv, FilesTypeOK, PagesApart
  <2> QED
    BY <1>2, <2>2, <2>3 DEF FilesInv, PagesApart
<1>9. LatchHeld'
  BY <1>2, <1>4, <1>5 DEF FilesInv, LatchHeld, MemoryTargets
<1>10. Planned(P)'
  <2>1. CASE Stored' = Stored
    BY <1>2, <1>3, <2>1, IdsAreNat, PlanStays DEF FilesInv
  <2>2. CASE Stored' = P
    <3>1. P = Stored' \ {} /\ {} \in SUBSET Stored'
      BY <2>2
    <3> QED BY <3>1 DEF Expires, Planned
  <2>3. CASE \E rest \in SUBSET Stored' : P = Stored' \ rest /\ \A m \in rest : m.id \in lapsed
    BY <1>2, <2>3 DEF Expires, Planned
  <2> QED
    BY <1>7, <2>1, <2>2, <2>3 DEF PlanEffect
<1>11. PlansHold'
  <2> SUFFICES ASSUME NEW d \in Callers, caller'[d].at \in {"memory", "user"}
               PROVE  /\ Planned(caller[d].plan)'
                      /\ caller'[d].at = "user" =>
                           page'["memory"] = {m \in caller'[d].plan : m.target = "memory"}
    BY DEF PlansHold
  <2>1. d = c /\ caller'[d].plan = P
    BY <1>4, <1>5
  <2>2. next = "user" /\ t = "memory"
    BY <1>4, <2>1
  <2>3. page'["memory"] = {m \in P : m.target = "memory"}
    BY <1>2, <2>2 DEF FilesInv, FilesTypeOK
  <2> QED
    BY <1>10, <2>1, <2>3
<1> QED
  BY <1>6, <1>8, <1>9, <1>11 DEF FilesInv

LEMMA NextKeepsFilesInv ==
  ASSUME FilesInv, [FilesNext]_memVars
  PROVE  FilesInv'
<1>1. CASE UNCHANGED memVars
  <2>1. UNCHANGED <<page, lapsed, latch, caller, nextId, audit, memCrashes, Stored>>
    BY <1>1 DEF memVars, Stored
  <2>2. FilesTypeOK' /\ PagesApart' /\ LatchHeld'
    BY <2>1 DEF FilesInv, FilesTypeOK, PagesApart, LatchHeld
  <2>3. PlansHold'
    <3> SUFFICES ASSUME NEW c \in Callers, caller[c].at \in {"memory", "user"}
                 PROVE  Planned(caller[c].plan)'
      BY <2>1 DEF FilesInv, PlansHold
    <3>1. PICK P \in SUBSET Memories : P = caller[c].plan
      BY DEF FilesInv, FilesTypeOK
    <3>2. Planned(P)
      BY <3>1 DEF FilesInv, PlansHold
    <3>3. Planned(P)'
      BY <2>1, <3>2, IdsAreNat, PlanStays DEF FilesInv
    <3> QED
      BY <2>1, <3>1, <3>3
  <2> QED
    BY <2>2, <2>3 DEF FilesInv
<1>2. ASSUME NEW c \in Callers, Lock(c) PROVE FilesInv'
  BY <1>2, LockKeepsFilesInv
<1>3. ASSUME NEW c \in Callers, Invoke(c) \/ Expire(c) PROVE FilesInv'
  BY <1>3, InvokeKeepsFilesInv
<1>4. ASSUME NEW c \in Callers, Refuse(c) \/ Audit(c) \/ MemoryCrash(c) PROVE FilesInv'
  BY <1>4, LeaveKeepsFilesInv
<1>5. ASSUME NEW c \in Callers, WriteAll(c) PROVE FilesInv'
  BY <1>5, WriteKeepsFilesInv DEF WriteAll, MemoryTargets
<1>6. CASE Lapse
  BY <1>6, LapseKeepsFilesInv
<1> QED
  BY <1>1, <1>2, <1>3, <1>4, <1>5, <1>6 DEF FilesNext

-----------------------------------------------------------------------------
(* The files implement the memory *)

\* The operators of DurableMemory are those of this module.
LEMMA SameOperators ==
  /\ Durable!Memories = Memories /\ Durable!MemoryIds = MemoryIds
  /\ Durable!MemoryTargets = MemoryTargets
  /\ \A text, target, user, among :
       Durable!Conflicts(text, target, user, among) = Conflicts(text, target, user, among)
  /\ \A id, user, target, text, expires, kept :
       Durable!NewRecord(id, user, target, text, expires, kept)
         = NewRecord(id, user, target, text, expires, kept)
  BY DEF Durable!Memories, Memories, Durable!MemoryIds, MemoryIds, Durable!MemoryTargets,
         MemoryTargets, Durable!Conflicts, Conflicts, Durable!NewRecord, NewRecord

\* A record is what it is made of.
LEMMA RecordIsNew ==
  ASSUME NEW m \in Memories
  PROVE  /\ m = NewRecord(m.id, m.user, m.target, m.text, m.expires, m.kept)
         /\ m.id \in MemoryIds /\ m.user \in MemoryUsers /\ m.target \in MemoryTargets
         /\ m.text \in MemoryTexts /\ m.expires \in BOOLEAN /\ m.kept \in BOOLEAN
  BY DEF NewRecord, Memories

\* A plan carried out is one step of the memory, or none.
LEMMA PlanMaps ==
  ASSUME FilesInv, NEW P \in SUBSET Memories, Planned(P), Stored' = P, UNCHANGED lapsed
  PROVE  Listed' = Listed \/ Durable!MemoryNext
<1>1. Listed' = {m \in P : m.id \notin lapsed}
  BY DEF Listed
<1>2. Stored \subseteq Memories /\ Listed = {m \in Stored : m.id \notin lapsed}
  BY PagesOfTarget DEF FilesInv, Listed
<1>3. CASE Adds(P)
  <2>1. PICK m \in Memories :
          /\ P = Stored \cup {m} /\ m.id \notin lapsed
          /\ \A n \in Stored : n.id # m.id
          /\ \A n \in Listed : ~(n.user = m.user /\ n.target = m.target /\ n.text = m.text)
          /\ Conflicts(m.text, m.target, m.user, Listed) # {} => m.kept
    BY <1>3 DEF Adds
  <2>2. Listed' = Listed \cup {m}
    BY <1>1, <1>2, <2>1
  <2>3. ~ \E n \in Listed : Durable!Same(n, m.user, m.target, m.text) \/ n.id = m.id
    BY <1>2, <2>1 DEF Durable!Same
  <2>4. Durable!Conflicts(m.text, m.target, m.user, Listed) # {} => m.kept
    BY <2>1, SameOperators
  <2>5. Listed' = Listed \cup {Durable!NewRecord(m.id, m.user, m.target, m.text, m.expires, m.kept)}
    BY <2>2, RecordIsNew, SameOperators
  <2>6. /\ m.id \in Durable!MemoryIds /\ m.user \in MemoryUsers /\ m.target \in Durable!MemoryTargets
        /\ m.text \in MemoryTexts /\ m.expires \in BOOLEAN /\ m.kept \in BOOLEAN
    BY RecordIsNew, SameOperators
  <2>7. Durable!AddMemory
    BY <2>3, <2>4, <2>5, <2>6 DEF Durable!AddMemory
  <2> QED BY <2>7 DEF Durable!MemoryNext
<1>4. CASE Updates(P)
  <2>1. PICK m \in Stored, n \in Memories :
          /\ P = (Stored \ {m}) \cup {n}
          /\ n = NewRecord(m.id, m.user, m.target, n.text, m.expires, n.kept)
          /\ Conflicts(n.text, m.target, m.user, Stored \ {m}) # {} => n.kept
    BY <1>4 DEF Updates
  <2>2. n.id = m.id
    BY <2>1, NewRecordFields
  <2>3. CASE m.id \in lapsed
    BY <1>1, <1>2, <2>1, <2>2, <2>3
  <2>4. CASE m.id \notin lapsed
    <3>1. m \in Listed /\ Listed' = (Listed \ {m}) \cup {n}
      BY <1>1, <1>2, <2>1, <2>2, <2>4
    <3>2. Conflicts(n.text, m.target, m.user, Listed \ {m})
            \subseteq Conflicts(n.text, m.target, m.user, Stored \ {m})
      BY <1>2 DEF Conflicts
    <3>3. Durable!Conflicts(n.text, m.target, m.user, Listed \ {m}) # {} => n.kept
      BY <2>1, <3>2, SameOperators
    <3>4. n.text \in MemoryTexts /\ n.kept \in BOOLEAN
      BY RecordIsNew
    <3>5. Listed' = (Listed \ {m}) \cup
            {Durable!NewRecord(m.id, m.user, m.target, n.text, m.expires, n.kept)}
      BY <2>1, <3>1, SameOperators
    <3>6. Durable!UpdateMemory
      BY <3>1, <3>3, <3>4, <3>5 DEF Durable!UpdateMemory
    <3> QED BY <3>6 DEF Durable!MemoryNext
  <2> QED BY <2>3, <2>4
<1>5. CASE Removes(P)
  <2>1. PICK m \in Stored : P = Stored \ {m}
    BY <1>5 DEF Removes
  <2>2. CASE m.id \in lapsed
    BY <1>1, <1>2, <2>1, <2>2
  <2>3. CASE m.id \notin lapsed
    <3>1. m \in Listed /\ Listed' = Listed \ {m}
      BY <1>1, <1>2, <2>1, <2>3
    <3> QED BY <3>1 DEF Durable!RemoveMemory, Durable!MemoryNext
  <2> QED BY <2>2, <2>3
<1>6. CASE Expires(P)
  BY <1>1, <1>2, <1>6 DEF Expires
<1> QED
  BY <1>3, <1>4, <1>5, <1>6 DEF Planned

LEMMA WriteMaps ==
  ASSUME FilesInv, NEW c \in Callers, WriteAll(c)
  PROVE  Listed' = Listed \/ Durable!MemoryNext
<1>1. PICK t \in MemoryTargets, next \in {"user", "audit"} : WriteTarget(c, t, next)
  BY DEF WriteAll, MemoryTargets
<1>2. PICK P \in SUBSET Memories : P = caller[c].plan
  BY DEF FilesInv, FilesTypeOK
<1>3. Planned(P) /\ PlanEffect(P) /\ lapsed' = lapsed
  BY <1>1, <1>2, WrittenEffect DEF FilesInv, PlansHold, WriteTarget, MemoryTargets
<1>4. CASE Stored' = Stored
  BY <1>3, <1>4 DEF Listed
<1>5. CASE Stored' = P
  BY <1>3, <1>5, PlanMaps
<1>6. CASE \E gone \in SUBSET Stored : Stored' = Stored \ gone /\ \A m \in gone : m.id \in lapsed
  BY <1>3, <1>6 DEF Listed
<1> QED
  BY <1>3, <1>4, <1>5, <1>6 DEF PlanEffect

LEMMA LapseMaps ==
  ASSUME FilesInv, Lapse
  PROVE  Durable!MemoryNext
<1>1. PICK m \in Listed : m.expires /\ lapsed' = lapsed \cup {m.id}
  BY DEF Lapse
<1>2. Stored' = Stored
  BY DEF Lapse, Stored
<1>3. Listed' = Listed \ {m}
  BY <1>1, <1>2 DEF Listed, FilesInv, PagesApart
<1> QED
  BY <1>1, <1>3 DEF Durable!LapseMemory, Durable!MemoryNext

\* Every step of the files is a step of the memory, or leaves it alone.
LEMMA StepMaps ==
  ASSUME FilesInv, [FilesNext]_memVars
  PROVE  [Listed' # Listed /\ Durable!MemoryNext]_Listed
<1>1. CASE UNCHANGED <<page, lapsed>>
  BY <1>1 DEF Listed, Stored
<1>2. ASSUME NEW c \in Callers, Invoke(c) \/ Expire(c) PROVE UNCHANGED <<page, lapsed>>
  BY <1>2 DEF Invoke, Add, Update, RemoveMemory, Expire, Plan
<1>3. ASSUME NEW c \in Callers, Lock(c) \/ Refuse(c) \/ Audit(c) \/ MemoryCrash(c)
      PROVE  UNCHANGED <<page, lapsed>>
  BY <1>3 DEF Lock, Refuse, Audit, MemoryCrash
<1>4. ASSUME NEW c \in Callers, WriteAll(c) PROVE Listed' = Listed \/ Durable!MemoryNext
  BY <1>4, WriteMaps
<1>5. CASE Lapse
  BY <1>5, LapseMaps
<1>6. UNCHANGED memVars => UNCHANGED <<page, lapsed>>
  BY DEF memVars
<1> QED
  BY <1>1, <1>2, <1>3, <1>4, <1>5, <1>6 DEF FilesNext

\* No operation of the memory leaves a contradiction without a reason.
LEMMA ContradictionsStay ==
  ASSUME FilesInv, ContradictionsAreKept, [Listed' # Listed /\ Durable!MemoryNext]_Listed,
         Listed' \subseteq Memories
  PROVE  ContradictionsAreKept'
<1> DEFINE Pairs(among) ==
      \A m \in among : \A n \in among :
        m # n /\ n.user = m.user /\ n.target = m.target /\ <<m.text, n.text>> \in MemoryClash
          => m.kept \/ n.kept
<1>1. Pairs(Listed) <=> ContradictionsAreKept
  BY DEF ContradictionsAreKept, Conflicts
<1>2. Pairs(Listed') <=> ContradictionsAreKept'
  BY DEF ContradictionsAreKept, Conflicts
<1>3. \A a, b \in MemoryTexts : <<a, b>> \in MemoryClash => <<b, a>> \in MemoryClash
  BY FilesAssumption DEF FilesAssumption
<1>4. Listed \subseteq Memories
  BY PagesOfTarget DEF FilesInv, Listed
<1>5. CASE Listed' \subseteq Listed
  BY <1>1, <1>2, <1>5
<1>6. ASSUME NEW n \in Memories, NEW rest \in SUBSET Listed, Listed' = rest \cup {n},
             Conflicts(n.text, n.target, n.user, rest) # {} => n.kept
      PROVE  ContradictionsAreKept'
  <2>1. \A m \in rest : m.user = n.user /\ m.target = n.target /\ <<n.text, m.text>> \in MemoryClash
          => n.kept
    BY <1>6 DEF Conflicts
  <2>2. \A m \in rest : m.text \in MemoryTexts /\ n.text \in MemoryTexts
    BY <1>4 DEF Memories
  <2>3. Pairs(rest)
    BY <1>1
  <2> HIDE DEF Pairs
  <2>4. Pairs(rest \cup {n})
    BY <1>3, <2>1, <2>2, <2>3 DEF Pairs
  <2> QED
    BY <1>2, <1>6, <2>4
<1>7. CASE Durable!AddMemory
  <2>1. PICK user \in MemoryUsers, target \in MemoryTargets, text \in MemoryTexts,
             id \in MemoryIds, expires \in BOOLEAN, retain \in BOOLEAN :
          /\ Conflicts(text, target, user, Listed) # {} => retain
          /\ Listed' = Listed \cup {NewRecord(id, user, target, text, expires, retain)}
    BY <1>7, SameOperators DEF Durable!AddMemory
  <2>2. PICK n \in Memories : n = NewRecord(id, user, target, text, expires, retain)
    BY NewRecordType
  <2>3. n.user = user /\ n.target = target /\ n.text = text /\ n.kept = retain
    BY <2>2, NewRecordFields
  <2>4. Conflicts(n.text, n.target, n.user, Listed) # {} => n.kept
    BY <2>1, <2>3
  <2> QED
    BY <1>6, <2>1, <2>2, <2>4
<1>8. CASE Durable!UpdateMemory
  <2>1. PICK m \in Listed, text \in MemoryTexts, retain \in BOOLEAN :
          /\ Conflicts(text, m.target, m.user, Listed \ {m}) # {} => retain
          /\ Listed' = (Listed \ {m}) \cup
               {NewRecord(m.id, m.user, m.target, text, m.expires, retain)}
    BY <1>8, SameOperators DEF Durable!UpdateMemory
  <2>2. m \in Memories
    BY <1>4
  <2>3. PICK n \in Memories : n = NewRecord(m.id, m.user, m.target, text, m.expires, retain)
    BY <2>2, RecordIsNew, NewRecordType
  <2>4. n.user = m.user /\ n.target = m.target /\ n.text = text /\ n.kept = retain
    BY <2>3, NewRecordFields
  <2>5. Conflicts(n.text, n.target, n.user, Listed \ {m}) # {} => n.kept
    BY <2>1, <2>4
  <2>6. Listed \ {m} \in SUBSET Listed
    OBVIOUS
  <2> QED
    BY <1>6, <2>1, <2>3, <2>5, <2>6
<1>9. CASE Durable!RemoveMemory \/ Durable!LapseMemory
  BY <1>5, <1>9 DEF Durable!RemoveMemory, Durable!LapseMemory
<1> QED
  BY <1>5, <1>7, <1>8, <1>9 DEF Durable!MemoryNext

-----------------------------------------------------------------------------
(* Theorems *)

\* The lock is held by whoever is at work, ids are given once, and what a caller has
\* yet to write is one change of what the files hold (file_memory.py, _file_lock and
\* _write_all).
THEOREM FilesInvariant == FilesSpec => []FilesInv
<1>1. FilesInit => FilesInv
  BY InitFilesInv
<1>2. FilesInv /\ [FilesNext]_memVars => FilesInv'
  BY NextKeepsFilesInv
<1> QED
  BY <1>1, <1>2, PTL DEF FilesSpec

\* The two files, the lock, the calls under way and the audit keep their types
\* (file_memory.py, FileMemoryStore).
THEOREM FilesTypes == FilesSpec => []FilesTypeOK
<1>1. FilesInv => FilesTypeOK
  BY DEF FilesInv
<1> QED
  BY <1>1, FilesInvariant, PTL

\* Two files written one after the other, by calls that overlap and processes that die
\* between them, are the one list of memory.py: what is listed changes by whole
\* operations only.
THEOREM FilesImplementMemory == FilesSpec => ImplementsDurableMemory
<1>1. FilesInit => Durable!MemoryInit
  BY DEF FilesInit, Durable!MemoryInit, Listed, Stored, MemoryTargets
<1>2. FilesInv /\ [FilesNext]_memVars => [Listed' # Listed /\ Durable!MemoryNext]_Listed
  BY StepMaps
<1> QED
  BY <1>1, <1>2, FilesInvariant, PTL DEF FilesSpec, ImplementsDurableMemory, Durable!MemorySpec

\* Two memories of a user that contradict each other are both listed only if whoever
\* stored one of them gave a reason (conflicts.py, require_explicit_conflict_resolution):
\* true of the memory, hence of the files.
THEOREM FilesKeepContradictions == FilesSpec => []ContradictionsAreKept
<1>1. FilesInit => ContradictionsAreKept
  BY DEF FilesInit, ContradictionsAreKept, Conflicts, Listed, Stored, MemoryTargets
<1>2. FilesInv /\ FilesInv' /\ ContradictionsAreKept /\ [FilesNext]_memVars => ContradictionsAreKept'
  <2>1. FilesInv' => Listed' \subseteq Memories
    BY DEF FilesInv, FilesTypeOK, Listed, Stored, MemoryTargets
  <2> QED
    BY <2>1, StepMaps, ContradictionsStay
<1> QED
  BY <1>1, <1>2, FilesInvariant, PTL DEF FilesSpec

-----------------------------------------------------------------------------
(* Skills (SkillGovernance) *)

\* What is kept of a version, so that it can be made live again.
Known(c) == \E v \in Versions : version[v].content = c
KeptVersion(v) == v = NoVersion \/ version[v].content # Gone

\* A draft is not empty, its evaluations have seen what it holds, and a candidate
\* drops nothing that was live at its admission.
DraftIsSound(d) ==
  /\ draft[d].status # "absent" => draft[d].content # Gone
  /\ draft[d].status \in {"absent", "draft"} => evidence[d] = <<>>
  /\ \A i \in DOMAIN evidence[d] : evidence[d][i].content = draft[d].content
  /\ draft[d].status = "candidate" => admitted[d] \cap Lines \subseteq draft[d].content
  /\ KeptVersion(draft[d].previous)
  /\ draft[d].status = "absent" => version[d].content = Gone

\* Where an activation is, the version it has saved and the one it takes the place of.
ActivationIsSound ==
  task.op = "activate" =>
    /\ task.at \in {"copy", "record", "deprecate", "swap", "place", "clean", "save", "point"}
    /\ task.id \in Drafts /\ KeptVersion(task.previous)
    /\ draft[task.id].status \notin {"absent", "draft"}
    /\ admitted[task.id] \cap Lines \subseteq draft[task.id].content
    /\ task.at # "copy" => version[task.id].content = draft[task.id].content
    /\ task.at \in {"clean", "save", "point"} => live = version[task.id].content
    /\ task.at = "point" => draft[task.id].previous = task.previous

RollbackIsSound ==
  task.op = "rollback" =>
    /\ task.at \in {"swap", "place", "clean", "demote", "restore", "save", "point"}
    /\ task.id \in Versions /\ task.previous \in Versions /\ KeptVersion(task.previous)
    /\ task.at \notin {"swap", "place"} => live = version[task.previous].content

TaskIsSound ==
  /\ task.op = "none" => task = SkillIdle
  /\ task.at = "idle" => task = SkillIdle
  /\ ActivationIsSound /\ RollbackIsSound
  /\ task.op = "remove" => task.at \in {"demote", "save", "point"} /\ task.id \in Versions
  /\ task.op = "archive" => task.at \in {"demote", "point"} /\ task.id \in Versions
  /\ task.op \in {"rollback", "remove"} /\ task.id \in Drafts => draft[task.id].status # "absent"

\* Without a crash, what is live and what the state names agree until a task moves on.
StateIsSound ==
  /\ KeptVersion(state.active) /\ KeptVersion(state.previous)
  /\ state.previous # NoVersion => state.active # NoVersion
  /\ state.active \in Drafts => draft[state.active].status # "absent"
  /\ died = 0 /\ task.at \in {"idle", "copy"} /\ state.active # NoVersion =>
       live = version[state.active].content /\ state.previous = Before(state.active)

LiveIsSound ==
  /\ Gone \notin everLive
  /\ live = Gone \/ Known(live) \/ (state.active = NoVersion /\ task = SkillIdle)
  /\ \A c \in everLive \ {live} : Known(c)

SkillInv ==
  /\ SkillTypeOK /\ \A d \in Drafts : DraftIsSound(d)
  /\ TaskIsSound /\ StateIsSound /\ LiveIsSound

LEMMA SkillIds ==
  /\ Drafts \subseteq Versions /\ Baselines \subseteq Versions /\ Drafts \cap Baselines = {}
  /\ NoVersion \notin Versions /\ NoVersion \notin Drafts
BY SkillAssumption DEF Drafts, Baselines, Versions, NoVersion

\* Versions are only added: what one holds stays (no step writes over a version).
VersionsStay ==
  \A v \in Versions : version[v].content # Gone => version'[v].content = version[v].content

LEMMA KnownStays ==
  ASSUME VersionsStay, NEW c, c # Gone, Known(c)
  PROVE  \E v \in Versions : version'[v].content = c
BY DEF VersionsStay, Known

LEMMA KeptStays ==
  ASSUME VersionsStay, NEW v \in Versions \cup {NoVersion}, KeptVersion(v)
  PROVE  v = NoVersion \/ (version[v].content # Gone /\ version'[v].content = version[v].content)
BY SkillIds DEF VersionsStay, KeptVersion

\* A step about one draft, which leaves what is live, the versions and the task.
LEMMA DraftStep ==
  ASSUME SkillInv, SkillTypeOK', NEW d \in Drafts, DraftIsSound(d)',
         UNCHANGED <<live, version, state, task, everLive, died>>,
         \A e \in Drafts \ {d} : /\ draft'[e] = draft[e] /\ evidence'[e] = evidence[e]
                                 /\ admitted'[e] = admitted[e],
         draft[d].status # "absent" =>
           draft'[d].status # "absent" /\ draft'[d].previous = draft[d].previous,
         draft[d].status \notin {"absent", "draft"} =>
           /\ draft'[d].status \notin {"absent", "draft"}
           /\ draft'[d].content = draft[d].content /\ admitted'[d] = admitted[d]
  PROVE  SkillInv'
<1>1. ASSUME NEW e \in Drafts, e # d PROVE DraftIsSound(e)'
  <2>1. DraftIsSound(e)
    BY DEF SkillInv
  <2> QED BY <1>1, <2>1 DEF DraftIsSound, KeptVersion
<1>2. ActivationIsSound'
  <2> SUFFICES ASSUME task.op = "activate" PROVE ActivationIsSound'
    BY DEF ActivationIsSound
  <2>1. ActivationIsSound
    BY DEF SkillInv, TaskIsSound
  <2>2. task.id \in Drafts /\ draft[task.id].status \notin {"absent", "draft"}
    BY <2>1 DEF ActivationIsSound
  <2>3. /\ draft'[task.id].status \notin {"absent", "draft"}
        /\ draft'[task.id].content = draft[task.id].content
        /\ admitted'[task.id] = admitted[task.id]
        /\ draft'[task.id].previous = draft[task.id].previous
    BY <2>2
  <2> QED BY <2>1, <2>3 DEF ActivationIsSound, KeptVersion
<1>3. TaskIsSound'
  <2>1. TaskIsSound
    BY DEF SkillInv
  <2>2. task.id \in Drafts /\ draft[task.id].status # "absent" => draft'[task.id].status # "absent"
    OBVIOUS
  <2> QED BY <1>2, <2>1, <2>2 DEF TaskIsSound, RollbackIsSound, KeptVersion
<1>4. StateIsSound'
  <2>1. StateIsSound
    BY DEF SkillInv
  <2>2. state.active \in Drafts =>
          /\ draft'[state.active].status # "absent"
          /\ draft'[state.active].previous = draft[state.active].previous
    BY <2>1 DEF StateIsSound
  <2> QED BY <2>1, <2>2 DEF StateIsSound, KeptVersion, Before
<1>5. LiveIsSound'
  BY DEF SkillInv, LiveIsSound, Known
<1> QED BY <1>1, <1>3, <1>4, <1>5 DEF SkillInv

LEMMA NewDraftStep ==
  ASSUME SkillInv, NEW d \in Drafts, NEW operation \in {"create", "append"},
         NEW content \in Contents, content # Gone, NEW sound \in BOOLEAN,
         NewDraft(d, operation, content, sound)
  PROVE  SkillInv'
<1>1. SkillTypeOK'
  BY DEF SkillInv, SkillTypeOK, NewDraft, DraftRecords, skillHistory
<1>2. draft' = [draft EXCEPT ![d] = [status |-> "draft", operation |-> operation,
                  content |-> content, sound |-> sound, previous |-> NoVersion]]
      /\ draft[d].status = "absent" /\ evidence[d] = <<>> /\ UNCHANGED <<evidence, admitted>>
      /\ UNCHANGED <<live, version, state, task, everLive, died>>
  BY DEF SkillInv, DraftIsSound, NewDraft, skillHistory
<1>3. draft'[d] = [status |-> "draft", operation |-> operation,
                  content |-> content, sound |-> sound, previous |-> NoVersion]
  BY <1>2 DEF SkillInv, SkillTypeOK
<1>4. DraftIsSound(d)'
  BY <1>2, <1>3 DEF DraftIsSound, KeptVersion
<1>5. \A e \in Drafts \ {d} : draft'[e] = draft[e]
  BY <1>2 DEF SkillInv, SkillTypeOK
<1> QED BY <1>1, <1>2, <1>4, <1>5, DraftStep

LEMMA CreateDraftStep ==
  ASSUME SkillInv, NEW d \in Drafts, CreateDraft(d)
  PROVE  SkillInv'
<1>1. PICK content \in Supplied, sound \in BOOLEAN : NewDraft(d, "create", content, sound)
  BY DEF CreateDraft
<1>2. content \in Contents /\ content # Gone
  <2>1. Supplied \subseteq (SUBSET (Lines \cup Files)) \ {{}}
    BY SkillAssumption
  <2>2. content \in (SUBSET (Lines \cup Files)) \ {{}}
    BY <1>1, <2>1, Zenon
  <2> QED BY <2>2, Zenon DEF Contents, Gone
<1> QED BY <1>1, <1>2, NewDraftStep

LEMMA AppendDraftStep ==
  ASSUME SkillInv, NEW d \in Drafts, AppendDraft(d)
  PROVE  SkillInv'
<1>1. PICK line \in Lines \ live : NewDraft(d, "append", live \cup {line}, TRUE)
  BY DEF AppendDraft
<1>2. live \cup {line} \in Contents /\ live \cup {line} # Gone
  BY <1>1 DEF Contents, Gone, SkillInv, SkillTypeOK
<1> QED BY <1>1, <1>2, NewDraftStep

LEMMA WriteAttachmentStep ==
  ASSUME SkillInv, NEW d \in Drafts, WriteAttachment(d)
  PROVE  SkillInv'
<1>0. DraftIsSound(d) /\ SkillTypeOK /\ draft[d] \in DraftRecords
  BY DEF SkillInv, SkillTypeOK
<1>1. PICK f \in Files : draft' = [draft EXCEPT ![d].content = @ \cup {f}]
  BY DEF WriteAttachment
<1>2. draft[d].status = "draft" /\ UNCHANGED <<evidence, admitted>>
      /\ UNCHANGED <<live, version, state, task, everLive, died, backup, archive>>
  BY DEF WriteAttachment, skillHistory
<1>3. draft'[d] = [draft[d] EXCEPT !.content = @ \cup {f}]
  BY <1>0, <1>1 DEF SkillTypeOK
<1>4. draft[d].content \cup {f} \in Contents
  BY <1>0 DEF DraftRecords, Contents
<1>5. draft'[d] \in DraftRecords /\ draft'[d].status = "draft"
      /\ draft'[d].content # Gone /\ draft'[d].previous = draft[d].previous
  BY <1>0, <1>2, <1>3, <1>4 DEF DraftRecords, Gone
<1>6. SkillTypeOK'
  BY <1>0, <1>1, <1>2, <1>5 DEF SkillTypeOK
<1>7. DraftIsSound(d)'
  BY <1>0, <1>2, <1>5 DEF DraftIsSound, KeptVersion
<1>8. \A e \in Drafts \ {d} : draft'[e] = draft[e]
  BY <1>0, <1>1 DEF SkillTypeOK
<1> QED BY <1>2, <1>5, <1>6, <1>7, <1>8, DraftStep

\* admit(), reject() and discard() change the status alone.
LEMMA StatusStep ==
  ASSUME SkillInv, NEW d \in Drafts, Admit(d) \/ Discard(d)
  PROVE  SkillInv'
<1>0. DraftIsSound(d) /\ SkillTypeOK /\ draft[d] \in DraftRecords /\ evidence[d] = evidence[d]
  BY DEF SkillInv, SkillTypeOK
<1>1. PICK to \in {"candidate", "rejected"} : draft' = [draft EXCEPT ![d].status = to]
  BY DEF Admit, Discard
<1>2. draft[d].status \in {"draft", "candidate"} /\ UNCHANGED evidence
      /\ UNCHANGED <<live, version, state, task, everLive, died, backup, archive>>
  BY DEF Admit, Discard, skillHistory
<1>3. draft'[d] = [draft[d] EXCEPT !.status = to]
  BY <1>0, <1>1 DEF SkillTypeOK
<1>4. draft'[d] \in DraftRecords /\ draft'[d].status = to
      /\ draft'[d].content = draft[d].content /\ draft'[d].previous = draft[d].previous
  BY <1>0, <1>3 DEF DraftRecords
<1>5. /\ admitted' \in [Drafts -> Contents]
      /\ \A e \in Drafts \ {d} : admitted'[e] = admitted[e]
      /\ draft[d].status = "candidate" => admitted'[d] = admitted[d]
  BY <1>0 DEF Admit, Discard, SkillTypeOK, skillHistory
<1>6. SkillTypeOK'
  BY <1>0, <1>1, <1>2, <1>4, <1>5 DEF SkillTypeOK
<1>7. to = "candidate" => admitted'[d] \cap Lines \subseteq draft[d].content
  <2> SUFFICES ASSUME to = "candidate" PROVE admitted'[d] \cap Lines \subseteq draft[d].content
    OBVIOUS
  <2>1. Admit(d) /\ Preserves(draft[d].content)
    <3>1. ~Discard(d)
      <4> SUFFICES ASSUME Discard(d) PROVE FALSE
        OBVIOUS
      <4>1. draft' = [draft EXCEPT ![d].status = "rejected"]
        BY DEF Discard
      <4>2. draft'[d].status = "rejected"
        BY <4>1, <1>0 DEF SkillTypeOK, DraftRecords
      <4> QED BY <4>2, <1>4
    <3>2. Admit(d)
      BY <3>1
    <3>3. draft'[d].status = IF draft[d].sound /\ Preserves(draft[d].content)
                             THEN "candidate" ELSE "rejected"
      BY <3>2, <1>0, Zenon DEF Admit, SkillTypeOK, DraftRecords
    <3>4. CASE ~Preserves(draft[d].content)
      BY <1>4, <3>3, <3>4
    <3> QED BY <3>2, <3>4
  <2>2. admitted'[d] = live
    BY <2>1, <1>0 DEF Admit, SkillTypeOK
  <2> QED BY <2>1, <2>2 DEF Preserves
<1>8. DraftIsSound(d)'
  BY <1>0, <1>2, <1>4, <1>7 DEF DraftIsSound, KeptVersion
<1>9. \A e \in Drafts \ {d} : draft'[e] = draft[e]
  BY <1>0, <1>1 DEF SkillTypeOK
<1> QED BY <1>2, <1>4, <1>5, <1>6, <1>8, <1>9, DraftStep

LEMMA EvidenceStays ==
  ASSUME NEW s, NEW n \in Nat, s \in [1..n -> Evaluations], NEW e \in Evaluations
  PROVE  /\ Append(s, e) \in [1..n + 1 -> Evaluations]
         /\ Len(s) = n
         /\ \A i \in 1..n : Append(s, e)[i] = s[i]
         /\ Append(s, e)[n + 1] = e
<1>1. s \in Seq(Evaluations) /\ Len(s) = n
  OBVIOUS
<1>2. Append(s, e) \in Seq(Evaluations) /\ Len(Append(s, e)) = n + 1
  BY <1>1
<1>3. Append(s, e)[n + 1] = e
  BY <1>1
<1>4. ASSUME NEW i \in 1..n PROVE Append(s, e)[i] = s[i]
  BY <1>1
<1>5. Append(s, e) \in [1..n + 1 -> Evaluations]
  BY <1>2, LenProperties
<1> QED BY <1>1, <1>3, <1>4, <1>5

\* Both leave a content in each evaluation that the candidate has.
LEMMA EvidenceStep ==
  ASSUME SkillInv, NEW d \in Drafts, RecordEvaluation(d) \/ RecordFeedback(d)
  PROVE  SkillInv'
<1>0. /\ DraftIsSound(d) /\ SkillTypeOK /\ draft[d] \in DraftRecords
      /\ draft[d].status = "candidate"
      /\ UNCHANGED <<live, backup, archive, draft, version, state, task, skillHistory>>
  BY DEF SkillInv, SkillTypeOK, RecordEvaluation, RecordFeedback
<1>e. evidence[d] \in UNION {[1..k -> Evaluations] : k \in 0..MaxEvaluations}
  BY <1>0 DEF SkillTypeOK
<1>1. PICK n \in 0..MaxEvaluations : evidence[d] \in [1..n -> Evaluations]
  BY <1>e
<1>n. n \in Nat /\ MaxEvaluations \in Nat
  BY SkillAssumption
<1>2. /\ \E m \in 0..MaxEvaluations : evidence'[d] \in [1..m -> Evaluations]
      /\ evidence' = [evidence EXCEPT ![d] = evidence'[d]]
      /\ \A i \in DOMAIN evidence'[d] : evidence'[d][i].content = draft[d].content
  <2>1. CASE RecordEvaluation(d)
    <3>1. PICK passed \in BOOLEAN : evidence' = [evidence EXCEPT ![d] =
            Append(@, [content |-> draft[d].content, passed |-> passed, feedback |-> {}])]
      BY <2>1 DEF RecordEvaluation
    <3> DEFINE e == [content |-> draft[d].content, passed |-> passed, feedback |-> {}]
    <3>2. e \in Evaluations /\ e.content = draft[d].content
      BY <1>0 DEF Evaluations, DraftRecords
    <3> HIDE DEF e
    <3>3. evidence'[d] = Append(evidence[d], e)
      BY <1>0, <3>1 DEF SkillTypeOK, e
    <3>4. n < MaxEvaluations
      BY <1>1, <2>1, <1>n DEF RecordEvaluation
    <3>5. /\ evidence'[d] \in [1..n + 1 -> Evaluations]
          /\ \A i \in 1..n : evidence'[d][i] = evidence[d][i]
          /\ evidence'[d][n + 1] = e
      <4> DEFINE s == evidence[d]
      <4>1. s \in [1..n -> Evaluations] /\ n \in Nat /\ e \in Evaluations
        BY <1>1, <3>2, <1>n
      <4> HIDE DEF s
      <4>2. /\ Append(s, e) \in [1..n + 1 -> Evaluations]
            /\ \A i \in 1..n : Append(s, e)[i] = s[i]
            /\ Append(s, e)[n + 1] = e
        BY <4>1, EvidenceStays
      <4> QED BY <4>2, <3>3 DEF s
    <3>6. \A i \in 1..n : evidence[d][i].content = draft[d].content
      BY <1>0, <1>1 DEF DraftIsSound
    <3>7. \A i \in 1..n + 1 : evidence'[d][i].content = draft[d].content
      <4> SUFFICES ASSUME NEW i \in 1..n + 1 PROVE evidence'[d][i].content = draft[d].content
        OBVIOUS
      <4>1. CASE i = n + 1
        BY <3>2, <3>5, <4>1
      <4>2. CASE i \in 1..n
        BY <3>5, <3>6, <4>2
      <4> QED BY <1>n, <4>1, <4>2
    <3>8. n + 1 \in 0..MaxEvaluations
      BY <3>4, <1>n
    <3>9. evidence' = [evidence EXCEPT ![d] = evidence'[d]]
      BY <3>1, <3>3 DEF e
    <3> QED BY <3>5, <3>7, <3>8, <3>9
  <2>2. CASE RecordFeedback(d)
    <3>1. PICK i \in DOMAIN evidence[d] : \E f \in Reviews \ evidence[d][i].feedback :
            evidence' = [evidence EXCEPT ![d][i].feedback = @ \cup {f}]
      BY <2>2 DEF RecordFeedback
    <3>2. PICK f \in Reviews :
            evidence' = [evidence EXCEPT ![d] = [evidence[d] EXCEPT ![i] =
              [evidence[d][i] EXCEPT !.feedback = evidence[d][i].feedback \cup {f}]]]
      BY <3>1
    <3> DEFINE e == [evidence[d][i] EXCEPT !.feedback = evidence[d][i].feedback \cup {f}]
    <3>3. i \in 1..n /\ evidence[d][i] \in Evaluations
      BY <1>1, <3>1
    <3>4. e \in Evaluations /\ e.content = evidence[d][i].content
      BY <3>2, <3>3 DEF Evaluations
    <3> HIDE DEF e
    <3>5. evidence'[d] = [evidence[d] EXCEPT ![i] = e]
      BY <1>0, <3>2 DEF SkillTypeOK, e
    <3>6. evidence'[d] \in [1..n -> Evaluations]
          /\ \A j \in 1..n : evidence'[d][j].content = evidence[d][j].content
      BY <1>1, <3>3, <3>4, <3>5
    <3>7. \A j \in 1..n : evidence[d][j].content = draft[d].content
      BY <1>0, <1>1 DEF DraftIsSound
    <3>8. \A j \in DOMAIN evidence'[d] : evidence'[d][j].content = draft[d].content
      BY <3>6, <3>7
    <3>9. evidence' = [evidence EXCEPT ![d] = evidence'[d]]
      BY <3>2, <3>5 DEF e
    <3> QED BY <3>6, <3>8, <3>9
  <2> QED BY <2>1, <2>2
<1>3. evidence' \in [Drafts -> UNION {[1..m -> Evaluations] : m \in 0..MaxEvaluations}]
  BY <1>0, <1>2 DEF SkillTypeOK
<1>4. SkillTypeOK'
  BY <1>0, <1>3 DEF SkillTypeOK, skillHistory
<1>5. DraftIsSound(d)'
  BY <1>0, <1>2 DEF DraftIsSound, KeptVersion, skillHistory
<1>6. \A e \in Drafts \ {d} : evidence'[e] = evidence[e]
  BY <1>0, <1>2 DEF SkillTypeOK
<1> QED BY <1>0, <1>4, <1>5, <1>6, DraftStep DEF skillHistory

\* _ensure_active_version(): afterwards what is live is kept, as the version that is
\* named, and nothing that was kept is lost.
LEMMA EnsuredKeeps ==
  ASSUME SkillInv, NEW v \in Versions \cup {NoVersion}, Ensured(v), task = SkillIdle
  PROVE  /\ version' \in [Versions -> VersionRecords] /\ VersionsStay
         /\ v # NoVersion => version'[v].content # Gone
         /\ live = Gone \/ \E w \in Versions : version'[w].content = live
         /\ state.active # NoVersion => v = state.active /\ version' = version
         /\ \A d \in Drafts : version'[d] = version[d]
<1>0. SkillTypeOK /\ StateIsSound /\ LiveIsSound
  BY DEF SkillInv
<1>1. CASE state.active # NoVersion
  <2>1. v = state.active /\ version' = version
    BY <1>1 DEF Ensured
  <2> QED BY <1>0, <1>1, <2>1 DEF VersionsStay, SkillTypeOK, StateIsSound, LiveIsSound,
          KeptVersion, Known
<1>2. CASE state.active = NoVersion /\ live # Gone
  <2>1. /\ v \in Baselines /\ version[v].content = Gone
        /\ version' = [version EXCEPT ![v] = [content |-> live, status |-> "active"]]
    BY <1>2 DEF Ensured
  <2>2. v \in Versions
    BY <2>1, SkillIds
  <2>3. version'[v] = [content |-> live, status |-> "active"]
    BY <1>0, <2>1, <2>2 DEF SkillTypeOK
  <2>4. version' \in [Versions -> VersionRecords]
    BY <1>0, <2>1, <2>2 DEF SkillTypeOK, VersionRecords
  <2>5. VersionsStay
    BY <1>0, <2>1, <2>2 DEF SkillTypeOK, VersionsStay
  <2>6. \E w \in Versions : version'[w].content = live
    BY <2>2, <2>3
  <2>7. \A d \in Drafts : version'[d] = version[d]
    BY <1>0, <2>1, SkillIds DEF SkillTypeOK
  <2> QED BY <1>2, <2>3, <2>4, <2>5, <2>6, <2>7
<1>3. CASE state.active = NoVersion /\ live = Gone
  <2>1. v = NoVersion /\ version' = version
    BY <1>3 DEF Ensured
  <2> QED BY <1>0, <1>3, <2>1 DEF VersionsStay, SkillTypeOK
<1> QED BY <1>1, <1>2, <1>3

\* What a step that adds versions leaves of the drafts.
LEMMA DraftsStay ==
  ASSUME SkillInv, VersionsStay, UNCHANGED <<draft, evidence, admitted>>,
         \A d \in Drafts : \/ draft[d].status # "absent"
                           \/ version'[d].content = version[d].content
  PROVE  \A d \in Drafts : DraftIsSound(d)'
<1> SUFFICES ASSUME NEW d \in Drafts PROVE DraftIsSound(d)'
  OBVIOUS
<1>1. DraftIsSound(d) /\ draft[d].previous \in Versions \cup {NoVersion}
  BY DEF SkillInv, SkillTypeOK, DraftRecords
<1>2. KeptVersion(draft[d].previous)
  BY <1>1 DEF DraftIsSound
<1>3. draft[d].previous = NoVersion \/ version'[draft[d].previous].content # Gone
  BY <1>1, <1>2, KeptStays
<1> QED BY <1>1, <1>3 DEF DraftIsSound, KeptVersion

\* And of what was live.
LEMMA HistoryStays ==
  ASSUME SkillInv, VersionsStay, NEW c \in everLive, c # live
  PROVE  \E v \in Versions : version'[v].content = c
BY KnownStays DEF SkillInv, LiveIsSound

LEMMA ActivateStep ==
  ASSUME SkillInv, NEW d \in Drafts, Activate(d)
  PROVE  SkillInv'
<1>0. SkillTypeOK /\ TaskIsSound /\ StateIsSound /\ LiveIsSound /\ DraftIsSound(d)
  BY DEF SkillInv
<1>1. PICK v \in Versions \cup {NoVersion} :
        Ensured(v) /\ task' = [at |-> "copy", op |-> "activate", id |-> d, previous |-> v]
  BY DEF Activate
<1>2. /\ task = SkillIdle /\ draft[d].status = "candidate"
      /\ UNCHANGED <<live, backup, archive, draft, state, evidence, everLive, admitted, died>>
  BY DEF Activate, skillHistory
<1>3. /\ version' \in [Versions -> VersionRecords] /\ VersionsStay
      /\ v # NoVersion => version'[v].content # Gone
      /\ live = Gone \/ \E w \in Versions : version'[w].content = live
      /\ state.active # NoVersion => v = state.active /\ version' = version
      /\ \A e \in Drafts : version'[e] = version[e]
  BY <1>1, <1>2, EnsuredKeeps
<1>4. SkillTypeOK'
  BY <1>0, <1>1, <1>2, <1>3, SkillIds DEF SkillTypeOK
<1>5. \A e \in Drafts : DraftIsSound(e)'
  BY <1>2, <1>3, DraftsStay
<1>6. TaskIsSound'
  BY <1>0, <1>1, <1>2, <1>3 DEF TaskIsSound, ActivationIsSound, RollbackIsSound, DraftIsSound, KeptVersion,
     SkillIdle
<1>7. StateIsSound'
  <2>1. KeptVersion(state.active)' /\ KeptVersion(state.previous)'
    <3>1. state.active \in Versions \cup {NoVersion} /\ state.previous \in Versions \cup {NoVersion}
      BY <1>0 DEF SkillTypeOK
    <3> QED BY <1>0, <1>2, <1>3, <3>1, KeptStays DEF StateIsSound, KeptVersion
  <2> QED BY <1>0, <1>1, <1>2, <1>3, <2>1 DEF StateIsSound, Before, SkillIdle
<1>8. LiveIsSound'
  <2>1. \A c \in everLive \ {live} : \E w \in Versions : version'[w].content = c
    BY <1>3, HistoryStays
  <2> QED BY <1>0, <1>2, <1>3, <2>1 DEF LiveIsSound, Known
<1> QED BY <1>4, <1>5, <1>6, <1>7, <1>8 DEF SkillInv

\* copytree() makes the version, or raises.
LEMMA CopyVersionStep ==
  ASSUME SkillInv, CopyVersion
  PROVE  SkillInv'
<1>0. SkillTypeOK /\ TaskIsSound /\ StateIsSound /\ LiveIsSound
  BY DEF SkillInv
<1>1. task.at = "copy" /\ task.op = "activate" /\ task.id \in Drafts /\ task.id \in Versions
  BY <1>0, SkillIds DEF CopyVersion, TaskIsSound, ActivationIsSound, RollbackIsSound, SkillTypeOK,
     SkillIdle
<1>2. UNCHANGED <<live, backup, archive, draft, state, evidence, everLive, admitted, died>>
  BY DEF CopyVersion, skillHistory
<1>3. /\ version' \in [Versions -> VersionRecords] /\ VersionsStay
      /\ \/ task' = SkillIdle /\ version' = version
         \/ /\ task' = [task EXCEPT !.at = "record"]
            /\ version'[task.id].content = draft[task.id].content
  <2>1. CASE version[task.id].content # Gone
    BY <1>0, <2>1 DEF CopyVersion, VersionsStay, SkillTypeOK
  <2>2. CASE version[task.id].content = Gone
    <3>1. /\ task' = [task EXCEPT !.at = "record"]
          /\ version' = [version EXCEPT ![task.id].content = draft[task.id].content]
      BY <2>2 DEF CopyVersion, Go
    <3>2. draft[task.id].content \in Contents
      BY <1>0, <1>1 DEF SkillTypeOK, DraftRecords
    <3> QED BY <1>0, <1>1, <2>2, <3>1, <3>2 DEF VersionsStay, SkillTypeOK, VersionRecords
  <2> QED BY <2>1, <2>2
<1>4. SkillTypeOK'
  <2>1. task' \in [at : {"idle", "copy", "record", "deprecate", "swap", "place", "clean",
                     "demote", "restore", "save", "point"},
               op : {"none", "activate", "rollback", "remove", "archive"},
               id : Versions \cup {NoVersion}, previous : Versions \cup {NoVersion}]
    BY <1>0, <1>3 DEF SkillTypeOK, SkillIdle
  <2> QED BY <1>0, <1>2, <1>3, <2>1 DEF SkillTypeOK
<1>5. \A e \in Drafts : DraftIsSound(e)'
  <2>1. draft[task.id].status # "absent"
    BY <1>0, <1>1 DEF TaskIsSound, ActivationIsSound
  <2>2. \A e \in Drafts : e # task.id => version'[e].content = version[e].content
    BY <1>0, <1>1, SkillIds DEF CopyVersion, SkillTypeOK
  <2>3. \A e \in Drafts : draft[e].status # "absent" \/ version'[e].content = version[e].content
    BY <2>1, <2>2
  <2> QED BY <1>2, <1>3, <2>3, DraftsStay
<1>6. TaskIsSound'
  <2>1. CASE task' = SkillIdle
    BY <2>1 DEF TaskIsSound, ActivationIsSound, RollbackIsSound, SkillIdle
  <2>2. CASE task' = [task EXCEPT !.at = "record"]
            /\ version'[task.id].content = draft[task.id].content
    <3>1. task.previous \in Versions \cup {NoVersion} /\ KeptVersion(task.previous)
      BY <1>0, <1>1 DEF SkillTypeOK, TaskIsSound, ActivationIsSound
    <3>2. task.previous = NoVersion \/ version'[task.previous].content # Gone
      BY <1>3, <3>1, KeptStays
    <3>3. /\ task'.at = "record" /\ task'.op = "activate" /\ task'.id = task.id
          /\ task'.previous = task.previous
      BY <1>0, <1>1, <2>2 DEF SkillTypeOK
    <3> QED BY <1>0, <1>1, <1>2, <2>2, <3>2, <3>3 DEF TaskIsSound, ActivationIsSound,
            RollbackIsSound, KeptVersion
  <2> QED BY <1>3, <2>1, <2>2
<1>7. StateIsSound'
  <2>1. KeptVersion(state.active)' /\ KeptVersion(state.previous)'
    <3>1. state.active \in Versions \cup {NoVersion} /\ state.previous \in Versions \cup {NoVersion}
      BY <1>0 DEF SkillTypeOK
    <3> QED BY <1>0, <1>2, <1>3, <3>1, KeptStays DEF StateIsSound, KeptVersion
  <2>2. (task'.at = "idle" /\ version' = version) \/ task'.at = "record"
    BY <1>0, <1>3 DEF SkillTypeOK, SkillIdle
  <2> QED BY <1>0, <1>1, <1>2, <2>1, <2>2 DEF StateIsSound, Before
<1>8. LiveIsSound'
  <2>1. \A c \in everLive \ {live} : \E w \in Versions : version'[w].content = c
    BY <1>3, HistoryStays
  <2>2. live # Gone => Known(live)
    BY <1>0, <1>1 DEF LiveIsSound, SkillIdle
  <2>3. live = Gone \/ \E w \in Versions : version'[w].content = live
    BY <1>3, <2>2, KnownStays
  <2> QED BY <1>0, <1>2, <2>1, <2>3 DEF LiveIsSound, Known
<1> QED BY <1>4, <1>5, <1>6, <1>7, <1>8 DEF SkillInv

\* A task goes on, and what is live and kept stays as it is.
LEMMA TaskStep ==
  ASSUME SkillInv, SkillTypeOK', TaskIsSound',
         \A v \in Versions : version'[v].content = version[v].content,
         UNCHANGED <<live, draft, state, evidence, everLive, admitted, died>>,
         task.at # "idle", task'.at \notin {"idle", "copy"}
  PROVE  SkillInv'
<1>0. SkillTypeOK /\ StateIsSound /\ LiveIsSound
  BY DEF SkillInv
<1>1. VersionsStay
  BY DEF VersionsStay
<1>2. \A e \in Drafts : DraftIsSound(e)'
  BY <1>1, SkillIds, DraftsStay
<1>3. StateIsSound'
  <2>1. state.active \in Versions \cup {NoVersion} /\ state.previous \in Versions \cup {NoVersion}
    BY <1>0 DEF SkillTypeOK
  <2> QED BY <1>0, <2>1 DEF StateIsSound, KeptVersion
<1>4. LiveIsSound'
  <2>1. live = Gone \/ \E v \in Versions : version[v].content = live
    BY <1>0 DEF LiveIsSound, SkillIdle, Known
  <2>2. \A c \in everLive \ {live} : \E v \in Versions : version'[v].content = c
    BY <1>1, HistoryStays
  <2> QED BY <1>0, <2>1, <2>2 DEF LiveIsSound, Known
<1> QED BY <1>2, <1>3, <1>4 DEF SkillInv

\* A status of a version and the place of the task.
LEMMA StatusTypes ==
  ASSUME SkillTypeOK, NEW v \in Versions, NEW to \in {"active", "deprecated", "archived"},
         SetStatus(v, to)
  PROVE  /\ version' \in [Versions -> VersionRecords]
         /\ \A w \in Versions : version'[w].content = version[w].content
BY DEF SetStatus, SkillTypeOK, VersionRecords

Places == {"idle", "copy", "record", "deprecate", "swap", "place", "clean", "demote",
           "restore", "save", "point"}

LEMMA GoTypes ==
  ASSUME SkillTypeOK, NEW place \in Places, Go(place)
  PROVE  /\ task' \in [at : Places, op : {"none", "activate", "rollback", "remove", "archive"},
                       id : Versions \cup {NoVersion}, previous : Versions \cup {NoVersion}]
         /\ task'.at = place /\ task'.op = task.op /\ task'.id = task.id
         /\ task'.previous = task.previous
BY DEF SkillTypeOK, Go, Places

LEMMA RecordVersionStep ==
  ASSUME SkillInv, RecordVersion
  PROVE  SkillInv'
<1>0. SkillTypeOK /\ TaskIsSound
  BY DEF SkillInv
<1>1. task.at = "record" /\ task.op = "activate" /\ task.id \in Versions
  BY <1>0, SkillIds DEF RecordVersion, TaskIsSound, ActivationIsSound, RollbackIsSound, SkillTypeOK,
     SkillIdle
<1>2. /\ SetStatus(task.id, "active") /\ Go("deprecate")
      /\ UNCHANGED <<live, backup, archive, draft, state, evidence, everLive, admitted, died>>
  BY DEF RecordVersion, skillHistory
<1>3. /\ version' \in [Versions -> VersionRecords]
      /\ \A w \in Versions : version'[w].content = version[w].content
  BY <1>0, <1>1, <1>2, StatusTypes
<1>4. /\ task' \in [at : Places, op : {"none", "activate", "rollback", "remove", "archive"},
                    id : Versions \cup {NoVersion}, previous : Versions \cup {NoVersion}]
      /\ task'.at = "deprecate" /\ task'.op = task.op /\ task'.id = task.id
      /\ task'.previous = task.previous
  BY <1>0, <1>2, GoTypes DEF Places
<1>5. SkillTypeOK'
  BY <1>0, <1>2, <1>3, <1>4 DEF SkillTypeOK, Places
<1>6. TaskIsSound'
  <2>1. task.previous \in Versions \cup {NoVersion}
    BY <1>0 DEF SkillTypeOK
  <2> QED BY <1>0, <1>1, <1>2, <1>3, <1>4, <2>1 DEF TaskIsSound, ActivationIsSound,
          RollbackIsSound, KeptVersion
<1> QED BY <1>1, <1>2, <1>3, <1>4, <1>5, <1>6, TaskStep

LEMMA DeprecateStep ==
  ASSUME SkillInv, Deprecate
  PROVE  SkillInv'
<1>0. SkillTypeOK /\ TaskIsSound
  BY DEF SkillInv
<1>1. /\ task.at = "deprecate" /\ task.op = "activate" /\ task.id \in Versions
      /\ task.previous \in Versions \cup {NoVersion}
  BY <1>0, SkillIds DEF Deprecate, TaskIsSound, ActivationIsSound, RollbackIsSound, SkillTypeOK,
     SkillIdle
<1>2. /\ Go("swap")
      /\ UNCHANGED <<live, backup, archive, draft, state, evidence, everLive, admitted, died>>
  BY DEF Deprecate, skillHistory
<1>3. /\ version' \in [Versions -> VersionRecords]
      /\ \A w \in Versions : version'[w].content = version[w].content
  <2>1. CASE task.previous # NoVersion
    BY <1>0, <1>1, <2>1, StatusTypes DEF Deprecate
  <2>2. CASE task.previous = NoVersion
    BY <1>0, <2>2 DEF Deprecate, SkillTypeOK
  <2> QED BY <2>1, <2>2
<1>4. /\ task' \in [at : Places, op : {"none", "activate", "rollback", "remove", "archive"},
                    id : Versions \cup {NoVersion}, previous : Versions \cup {NoVersion}]
      /\ task'.at = "swap" /\ task'.op = task.op /\ task'.id = task.id
      /\ task'.previous = task.previous
  BY <1>0, <1>2, GoTypes DEF Places
<1>5. SkillTypeOK'
  BY <1>0, <1>2, <1>3, <1>4 DEF SkillTypeOK, Places
<1>6. TaskIsSound'
  BY <1>0, <1>1, <1>2, <1>3, <1>4 DEF TaskIsSound, ActivationIsSound, RollbackIsSound, KeptVersion
<1> QED BY <1>1, <1>2, <1>3, <1>4, <1>5, <1>6, TaskStep

LEMMA CleanStep ==
  ASSUME SkillInv, Clean
  PROVE  SkillInv'
<1>0. SkillTypeOK /\ TaskIsSound
  BY DEF SkillInv
<1>1. task.at = "clean" /\ task.op \in {"activate", "rollback"}
  BY <1>0 DEF Clean, TaskIsSound, SkillTypeOK, SkillIdle
<1>2. /\ Go(IF task.op = "activate" THEN "save" ELSE "demote") /\ backup' = Gone
      /\ UNCHANGED <<live, archive, draft, version, state, evidence, everLive, admitted, died>>
  BY DEF Clean, skillHistory
<1>3. /\ task' \in [at : Places, op : {"none", "activate", "rollback", "remove", "archive"},
                    id : Versions \cup {NoVersion}, previous : Versions \cup {NoVersion}]
      /\ task'.at = (IF task.op = "activate" THEN "save" ELSE "demote") /\ task'.op = task.op
      /\ task'.id = task.id /\ task'.previous = task.previous
  BY <1>0, <1>2, GoTypes DEF Places
<1>4. SkillTypeOK'
  BY <1>0, <1>2, <1>3 DEF SkillTypeOK, Places, Contents, Gone
<1>5. TaskIsSound'
  BY <1>0, <1>1, <1>2, <1>3 DEF TaskIsSound, ActivationIsSound, RollbackIsSound, KeptVersion
<1> QED BY <1>1, <1>2, <1>3, <1>4, <1>5, TaskStep

LEMMA DemoteStep ==
  ASSUME SkillInv, Demote
  PROVE  SkillInv'
<1>0. SkillTypeOK /\ TaskIsSound
  BY DEF SkillInv
<1>1. /\ task.at = "demote" /\ task.op \in {"rollback", "remove", "archive"}
      /\ task.id \in Versions
  BY <1>0 DEF Demote, TaskIsSound, ActivationIsSound, RollbackIsSound, SkillTypeOK, SkillIdle
<1>2. /\ SetStatus(task.id, IF task.op = "rollback" THEN "deprecated" ELSE "archived")
      /\ UNCHANGED <<live, backup, archive, draft, state, evidence, everLive, admitted, died>>
  BY DEF Demote, skillHistory
<1>3. /\ version' \in [Versions -> VersionRecords]
      /\ \A w \in Versions : version'[w].content = version[w].content
  BY <1>0, <1>1, <1>2, StatusTypes
<1>4. PICK place \in {"restore", "save", "point"} :
        /\ Go(place)
        /\ place = "restore" => task.op = "rollback"
        /\ place = "save" => task.op = "remove"
        /\ place = "point" => task.op = "archive"
  <2>1. CASE task.op = "rollback"
    <3>1. Go("restore")
      BY <2>1, Zenon DEF Demote
    <3> QED BY <2>1, <3>1
  <2>2. CASE task.op = "remove"
    <3>1. Go("save")
      BY <2>2, Zenon DEF Demote
    <3> QED BY <2>2, <3>1
  <2>3. CASE task.op = "archive"
    <3>1. Go("point")
      BY <2>3, Zenon DEF Demote
    <3> QED BY <2>3, <3>1
  <2> QED BY <1>1, <2>1, <2>2, <2>3
<1>5. /\ task' \in [at : Places, op : {"none", "activate", "rollback", "remove", "archive"},
                    id : Versions \cup {NoVersion}, previous : Versions \cup {NoVersion}]
      /\ task'.at = place /\ task'.op = task.op /\ task'.id = task.id
      /\ task'.previous = task.previous
  BY <1>0, <1>4, GoTypes DEF Places
<1>6. SkillTypeOK'
  BY <1>0, <1>2, <1>3, <1>5 DEF SkillTypeOK, Places
<1>7. TaskIsSound'
  BY <1>0, <1>1, <1>2, <1>3, <1>4, <1>5 DEF TaskIsSound, ActivationIsSound, RollbackIsSound, KeptVersion
<1> QED BY <1>1, <1>2, <1>3, <1>4, <1>5, <1>6, <1>7, TaskStep

LEMMA RestoreStep ==
  ASSUME SkillInv, Restore
  PROVE  SkillInv'
<1>0. SkillTypeOK /\ TaskIsSound
  BY DEF SkillInv
<1>1. task.at = "restore" /\ task.op = "rollback" /\ task.previous \in Versions
  BY <1>0 DEF Restore, TaskIsSound, ActivationIsSound, RollbackIsSound, SkillTypeOK, SkillIdle
<1>2. /\ SetStatus(task.previous, "active") /\ Go("save")
      /\ UNCHANGED <<live, backup, archive, draft, state, evidence, everLive, admitted, died>>
  BY DEF Restore, skillHistory
<1>3. /\ version' \in [Versions -> VersionRecords]
      /\ \A w \in Versions : version'[w].content = version[w].content
  BY <1>0, <1>1, <1>2, StatusTypes
<1>4. /\ task' \in [at : Places, op : {"none", "activate", "rollback", "remove", "archive"},
                    id : Versions \cup {NoVersion}, previous : Versions \cup {NoVersion}]
      /\ task'.at = "save" /\ task'.op = task.op /\ task'.id = task.id
      /\ task'.previous = task.previous
  BY <1>0, <1>2, GoTypes DEF Places
<1>5. SkillTypeOK'
  BY <1>0, <1>2, <1>3, <1>4 DEF SkillTypeOK, Places
<1>6. TaskIsSound'
  BY <1>0, <1>1, <1>2, <1>3, <1>4 DEF TaskIsSound, ActivationIsSound, RollbackIsSound, KeptVersion
<1> QED BY <1>1, <1>2, <1>3, <1>4, <1>5, <1>6, TaskStep

\* The versions, the drafts and what the state names stay as they are.
LEMMA FilesStay ==
  ASSUME SkillInv, UNCHANGED <<version, draft, state, evidence, admitted>>
  PROVE  /\ \A e \in Drafts : DraftIsSound(e)'
         /\ VersionsStay
         /\ KeptVersion(state.active)' /\ KeptVersion(state.previous)'
         /\ state'.previous # NoVersion => state'.active # NoVersion
         /\ state'.active \in Drafts => draft'[state'.active].status # "absent"
<1>1. VersionsStay
  BY DEF VersionsStay
<1> QED BY <1>1, DraftsStay DEF SkillInv, StateIsSound, KeptVersion

LEMMA RollbackStep ==
  ASSUME SkillInv, Rollback
  PROVE  SkillInv'
<1>0. SkillTypeOK /\ TaskIsSound /\ StateIsSound /\ LiveIsSound
  BY DEF SkillInv
<1>1. /\ task = SkillIdle /\ state.previous # NoVersion
      /\ task' = [at |-> "swap", op |-> "rollback", id |-> state.active,
                  previous |-> state.previous]
      /\ UNCHANGED <<live, backup, archive, draft, version, state, evidence, everLive, admitted,
                     died>>
  BY DEF Rollback, skillFiles, skillHistory
<1>2. state.active \in Versions /\ state.previous \in Versions /\ KeptVersion(state.previous)
  BY <1>0, <1>1 DEF SkillTypeOK, StateIsSound
<1>3. SkillTypeOK'
  BY <1>0, <1>1, <1>2 DEF SkillTypeOK
<1>4. TaskIsSound'
  BY <1>0, <1>1, <1>2 DEF TaskIsSound, ActivationIsSound, RollbackIsSound, KeptVersion, StateIsSound
<1>5. StateIsSound'
  BY <1>1, FilesStay DEF StateIsSound
<1>6. LiveIsSound'
  BY <1>0, <1>1, <1>2, SkillIds DEF LiveIsSound, StateIsSound, Known
<1> QED BY <1>1, <1>3, <1>4, <1>5, <1>6, FilesStay DEF SkillInv

LEMMA SwapStep ==
  ASSUME SkillInv, Swap
  PROVE  SkillInv'
<1>0. SkillTypeOK /\ TaskIsSound /\ StateIsSound /\ LiveIsSound
  BY DEF SkillInv
<1>1. /\ task.at = "swap" /\ Go("place")
      /\ UNCHANGED <<archive, draft, version, state, evidence, everLive, admitted, died>>
  BY DEF Swap, skillHistory
<1>2. /\ task' \in [at : Places, op : {"none", "activate", "rollback", "remove", "archive"},
                    id : Versions \cup {NoVersion}, previous : Versions \cup {NoVersion}]
      /\ task'.at = "place" /\ task'.op = task.op /\ task'.id = task.id
      /\ task'.previous = task.previous
  BY <1>0, <1>1, GoTypes DEF Places
<1>3. live' = Gone /\ backup' \in Contents
  BY <1>0 DEF Swap, SkillTypeOK
<1>4. SkillTypeOK'
  BY <1>0, <1>1, <1>2, <1>3 DEF SkillTypeOK, Places, Contents, Gone
<1>5. TaskIsSound'
  BY <1>0, <1>1, <1>2 DEF TaskIsSound, ActivationIsSound, RollbackIsSound, KeptVersion, SkillIdle
<1>6. StateIsSound'
  BY <1>1, <1>2, FilesStay DEF StateIsSound
<1>7. LiveIsSound'
  <2>1. live = Gone \/ Known(live)
    BY <1>0, <1>1 DEF LiveIsSound, SkillIdle
  <2> QED BY <1>0, <1>1, <1>3, <2>1 DEF LiveIsSound, Known
<1> QED BY <1>1, <1>4, <1>5, <1>6, <1>7, FilesStay DEF SkillInv

LEMMA PlaceStep ==
  ASSUME SkillInv, Place
  PROVE  SkillInv'
<1>0. SkillTypeOK /\ TaskIsSound /\ StateIsSound /\ LiveIsSound
  BY DEF SkillInv
<1>1. /\ task.at = "place" /\ Go("clean") /\ everLive' = everLive \cup {live'}
      /\ live' = IF task.op = "activate" THEN draft[task.id].content
                                         ELSE version[task.previous].content
      /\ UNCHANGED <<backup, archive, draft, version, state, evidence, admitted, died>>
  BY DEF Place
<1>2. /\ task' \in [at : Places, op : {"none", "activate", "rollback", "remove", "archive"},
                    id : Versions \cup {NoVersion}, previous : Versions \cup {NoVersion}]
      /\ task'.at = "clean" /\ task'.op = task.op /\ task'.id = task.id
      /\ task'.previous = task.previous
  BY <1>0, <1>1, GoTypes DEF Places
<1>3. /\ task.op \in {"activate", "rollback"}
      /\ task.op = "activate" => task.id \in Versions /\ live' = version[task.id].content
      /\ task.op = "rollback" => task.previous \in Versions /\ live' = version[task.previous].content
  BY <1>0, <1>1, SkillIds DEF TaskIsSound, ActivationIsSound, RollbackIsSound, SkillTypeOK, SkillIdle
<1>4. live' \in Contents /\ live' # Gone /\ \E v \in Versions : version[v].content = live'
  <2>1. CASE task.op = "activate"
    <3>1. task.id \in Drafts /\ draft[task.id].status # "absent"
      BY <1>0, <2>1 DEF TaskIsSound, ActivationIsSound
    <3>2. draft[task.id].content # Gone
      BY <3>1 DEF SkillInv, DraftIsSound
    <3>3. draft[task.id].content \in Contents
      BY <1>0, <3>1 DEF SkillTypeOK, DraftRecords
    <3> QED BY <1>1, <1>3, <2>1, <3>2, <3>3
  <2>2. CASE task.op = "rollback"
    <3>1. KeptVersion(task.previous) /\ task.previous \in Versions
      BY <1>0, <2>2 DEF TaskIsSound, RollbackIsSound
    <3>2. version[task.previous].content # Gone
      BY <3>1, SkillIds DEF KeptVersion
    <3>3. version[task.previous].content \in Contents
      BY <1>0, <3>1 DEF SkillTypeOK, VersionRecords
    <3> QED BY <1>3, <2>2, <3>2, <3>3
  <2> QED BY <1>3, <2>1, <2>2
<1>5. SkillTypeOK'
  BY <1>0, <1>1, <1>2, <1>4 DEF SkillTypeOK, Places
<1>6. TaskIsSound'
  BY <1>0, <1>1, <1>2, <1>3 DEF TaskIsSound, ActivationIsSound, RollbackIsSound, KeptVersion
<1>7. StateIsSound'
  BY <1>1, <1>2, FilesStay DEF StateIsSound
<1>8. LiveIsSound'
  <2>1. live = Gone \/ Known(live)
    BY <1>0, <1>1 DEF LiveIsSound, SkillIdle
  <2> QED BY <1>0, <1>1, <1>4, <2>1 DEF LiveIsSound, Known
<1> QED BY <1>1, <1>5, <1>6, <1>7, <1>8, FilesStay DEF SkillInv

LEMMA RemoveSkillStep ==
  ASSUME SkillInv, RemoveSkill
  PROVE  SkillInv'
<1>0. SkillTypeOK /\ TaskIsSound /\ StateIsSound /\ LiveIsSound
  BY DEF SkillInv
<1>1. /\ task = SkillIdle /\ state.active \in Drafts /\ live' = Gone
      /\ task' = [at |-> "demote", op |-> "remove", id |-> state.active, previous |-> NoVersion]
      /\ UNCHANGED <<backup, archive, draft, version, state, evidence, everLive, admitted, died>>
  BY DEF RemoveSkill, skillHistory
<1>2. state.active \in Versions /\ state.active # NoVersion
  BY <1>1, SkillIds
<1>3. SkillTypeOK'
  BY <1>0, <1>1, <1>2 DEF SkillTypeOK, Contents, Gone
<1>4. TaskIsSound'
  BY <1>0, <1>1, <1>2 DEF TaskIsSound, ActivationIsSound, RollbackIsSound, StateIsSound
<1>5. StateIsSound'
  BY <1>1, FilesStay DEF StateIsSound
<1>6. LiveIsSound'
  BY <1>0, <1>1, <1>2 DEF LiveIsSound, Known
<1> QED BY <1>1, <1>3, <1>4, <1>5, <1>6, FilesStay DEF SkillInv

LEMMA ArchiveSkillStep ==
  ASSUME SkillInv, ArchiveSkill
  PROVE  SkillInv'
<1>0. SkillTypeOK /\ TaskIsSound /\ StateIsSound /\ LiveIsSound
  BY DEF SkillInv
<1>1. PICK v \in Versions :
        /\ Ensured(v)
        /\ task' = [at |-> "demote", op |-> "archive", id |-> v, previous |-> NoVersion]
  BY DEF ArchiveSkill
<1>2. /\ task = SkillIdle /\ live # Gone /\ archive' = live /\ live' = Gone
      /\ UNCHANGED <<backup, draft, state, evidence, everLive, admitted, died>>
  BY DEF ArchiveSkill, skillHistory
<1>3. /\ version' \in [Versions -> VersionRecords] /\ VersionsStay
      /\ \E w \in Versions : version'[w].content = live
      /\ \A e \in Drafts : version'[e] = version[e]
  BY <1>1, <1>2, EnsuredKeeps
<1>4. SkillTypeOK'
  BY <1>0, <1>1, <1>2, <1>3 DEF SkillTypeOK, Contents, Gone
<1>5. \A e \in Drafts : DraftIsSound(e)'
  BY <1>2, <1>3, DraftsStay
<1>6. TaskIsSound'
  BY <1>1 DEF TaskIsSound, ActivationIsSound, RollbackIsSound
<1>7. StateIsSound'
  <2>1. state.active \in Versions \cup {NoVersion} /\ state.previous \in Versions \cup {NoVersion}
    BY <1>0 DEF SkillTypeOK
  <2>2. KeptVersion(state.active)' /\ KeptVersion(state.previous)'
    BY <1>0, <1>2, <1>3, <2>1, KeptStays DEF StateIsSound, KeptVersion
  <2> QED BY <1>0, <1>1, <1>2, <2>2 DEF StateIsSound
<1>8. LiveIsSound'
  <2>1. \A c \in everLive : \E w \in Versions : version'[w].content = c
    BY <1>3, HistoryStays
  <2> QED BY <1>0, <1>2, <2>1 DEF LiveIsSound, Known
<1> QED BY <1>4, <1>5, <1>6, <1>7, <1>8 DEF SkillInv

LEMMA SaveDraftStep ==
  ASSUME SkillInv, SaveDraft
  PROVE  SkillInv'
<1>0. SkillTypeOK /\ TaskIsSound /\ StateIsSound /\ LiveIsSound
  BY DEF SkillInv
<1>1. /\ task.at = "save" /\ Go("point")
      /\ UNCHANGED <<live, backup, archive, version, state, evidence, everLive, admitted, died>>
  BY DEF SaveDraft, skillHistory
<1>2. /\ task' \in [at : Places, op : {"none", "activate", "rollback", "remove", "archive"},
                    id : Versions \cup {NoVersion}, previous : Versions \cup {NoVersion}]
      /\ task'.at = "point" /\ task'.op = task.op /\ task'.id = task.id
      /\ task'.previous = task.previous
  BY <1>0, <1>1, GoTypes DEF Places
<1>3. task.op \in {"activate", "rollback", "remove"} /\ task.previous \in Versions \cup {NoVersion}
  BY <1>0, <1>1 DEF TaskIsSound, SkillTypeOK, SkillIdle
<1>4. CASE task.op = "activate"
  <2>1. /\ task.id \in Drafts /\ draft[task.id] \in DraftRecords /\ KeptVersion(task.previous)
        /\ task.id \in Versions /\ DraftIsSound(task.id)
        /\ draft' = [draft EXCEPT ![task.id].status = "promoted",
                                  ![task.id].previous = task.previous]
    BY <1>0, <1>4, SkillIds DEF TaskIsSound, ActivationIsSound, SkillTypeOK, SaveDraft, SkillInv
  <2>2. draft'[task.id] = [draft[task.id] EXCEPT !.status = "promoted", !.previous = task.previous]
    BY <1>0, <2>1 DEF SkillTypeOK
  <2>3. /\ draft'[task.id] \in DraftRecords /\ draft'[task.id].status = "promoted"
        /\ draft'[task.id].content = draft[task.id].content
        /\ draft'[task.id].previous = task.previous
    <3>1. draft[task.id] \in DraftRecords
      BY <2>1
    <3>2. draft'[task.id] \in DraftRecords
      BY <1>3, <2>2, <3>1 DEF DraftRecords
    <3>3. draft'[task.id].status = "promoted" /\ draft'[task.id].previous = task.previous
      BY <2>2, <3>1 DEF DraftRecords
    <3>4. draft'[task.id].content = draft[task.id].content
      BY <2>2, <3>1 DEF DraftRecords
    <3> QED BY <3>2, <3>3, <3>4
  <2>4. SkillTypeOK'
    BY <1>0, <1>1, <1>2, <2>1, <2>3 DEF SkillTypeOK, Places
  <2>5. ASSUME NEW d \in Drafts PROVE DraftIsSound(d)'
    <3>1. CASE d = task.id
      <4>1. draft[d].content # Gone
        BY <1>0, <1>4, <2>1, <3>1 DEF DraftIsSound, TaskIsSound, ActivationIsSound
      <4> QED BY <1>1, <2>1, <2>3, <3>1, <4>1 DEF DraftIsSound, KeptVersion
    <3>2. CASE d # task.id
      <4>1. draft'[d] = draft[d] /\ DraftIsSound(d)
        BY <1>0, <2>1, <3>2 DEF SkillTypeOK, SkillInv
      <4> QED BY <1>1, <4>1 DEF DraftIsSound, KeptVersion
    <3> QED BY <3>1, <3>2
  <2>6. TaskIsSound'
    BY <1>0, <1>1, <1>2, <1>4, <2>1, <2>3 DEF TaskIsSound, ActivationIsSound, RollbackIsSound, KeptVersion
  <2>7. StateIsSound'
    <3>1. state.active \in Drafts => draft'[state.active].status # "absent"
      <4>1. CASE state.active = task.id
        BY <2>3, <4>1
      <4>2. CASE state.active # task.id
        BY <1>0, <2>1, <4>2 DEF SkillTypeOK, StateIsSound
      <4> QED BY <4>1, <4>2
    <3> QED BY <1>0, <1>1, <1>2, <3>1 DEF StateIsSound, KeptVersion
  <2>8. LiveIsSound'
    BY <1>0, <1>1, <1>2 DEF LiveIsSound, Known, SkillIdle
  <2> QED BY <2>4, <2>5, <2>6, <2>7, <2>8 DEF SkillInv
<1>5. CASE task.op \in {"rollback", "remove"}
  <2>1. draft' = [draft EXCEPT ![task.id].status = "rolled_back"]
    BY <1>5 DEF SaveDraft
  <2>2. ASSUME NEW d \in Drafts
        PROVE  /\ draft'[d] \in DraftRecords /\ draft'[d].content = draft[d].content
               /\ draft'[d].previous = draft[d].previous
               /\ draft'[d].status = IF d = task.id THEN "rolled_back" ELSE draft[d].status
    <3>1. draft[d] \in DraftRecords
      BY <1>0 DEF SkillTypeOK
    <3>2. draft'[d] = IF d = task.id THEN [draft[d] EXCEPT !.status = "rolled_back"] ELSE draft[d]
      BY <1>0, <2>1 DEF SkillTypeOK
    <3> QED BY <3>1, <3>2 DEF DraftRecords
  <2>3. draft' \in [Drafts -> DraftRecords]
    BY <1>0, <2>1, <2>2 DEF SkillTypeOK
  <2>4. SkillTypeOK'
    BY <1>0, <1>1, <1>2, <2>3 DEF SkillTypeOK, Places
  <2>5. ASSUME NEW d \in Drafts PROVE DraftIsSound(d)'
    <3>1. DraftIsSound(d)
      BY DEF SkillInv
    <3>2. d = task.id => draft[d].content # Gone
      BY <1>0, <1>5, <3>1 DEF TaskIsSound, DraftIsSound
    <3> QED BY <1>1, <2>2, <3>1, <3>2 DEF DraftIsSound, KeptVersion
  <2>6. TaskIsSound'
    <3>1. task.id \in Drafts => draft'[task.id].status # "absent"
      BY <2>2
    <3> QED BY <1>0, <1>1, <1>2, <1>5, <3>1 DEF TaskIsSound, ActivationIsSound, RollbackIsSound, KeptVersion
  <2>7. StateIsSound'
    <3>1. state.active \in Drafts => draft'[state.active].status # "absent"
      BY <1>0, <2>2 DEF StateIsSound
    <3> QED BY <1>0, <1>1, <1>2, <3>1 DEF StateIsSound, KeptVersion
  <2>8. LiveIsSound'
    BY <1>0, <1>1, <1>2 DEF LiveIsSound, Known, SkillIdle
  <2> QED BY <2>4, <2>5, <2>6, <2>7, <2>8 DEF SkillInv
<1> QED BY <1>3, <1>4, <1>5

\* _save_state(): the state names what is live, and what can be live again.
LEMMA SaveStateStep ==
  ASSUME SkillInv, SaveState
  PROVE  SkillInv'
<1>0. SkillTypeOK /\ TaskIsSound /\ StateIsSound /\ LiveIsSound
  BY DEF SkillInv
<1>1. /\ task.at = "point" /\ task' = SkillIdle
      /\ UNCHANGED <<live, backup, archive, draft, version, evidence, everLive, admitted, died>>
  BY DEF SaveState, skillHistory
<1>2. task.op \in {"activate", "rollback", "remove", "archive"}
  BY <1>0, <1>1 DEF TaskIsSound, SkillTypeOK, SkillIdle
<1>3. live = Gone \/ Known(live)
  BY <1>0, <1>1 DEF LiveIsSound, SkillIdle
<1>4. \A e \in Drafts : DraftIsSound(e)'
  BY <1>1, DraftsStay DEF VersionsStay
<1>5. TaskIsSound'
  BY <1>1 DEF TaskIsSound, ActivationIsSound, RollbackIsSound, SkillIdle
<1>6. LiveIsSound'
  BY <1>0, <1>1, <1>3 DEF LiveIsSound, Known
<1>7. SUFFICES state' \in [active : Versions \cup {NoVersion}, previous : Versions \cup {NoVersion}]
               /\ StateIsSound'
  <2>1. SkillIdle \in [at : Places, op : {"none", "activate", "rollback", "remove", "archive"},
                       id : Versions \cup {NoVersion}, previous : Versions \cup {NoVersion}]
    BY DEF SkillIdle, Places
  <2>2. state' \in [active : Versions \cup {NoVersion}, previous : Versions \cup {NoVersion}]
        => SkillTypeOK'
    BY <1>0, <1>1, <2>1 DEF SkillTypeOK, Places
  <2> QED BY <1>4, <1>5, <1>6, <2>2 DEF SkillInv
<1>8. CASE task.op = "activate"
  <2>1. state' = [active |-> task.id, previous |-> task.previous]
    BY <1>8, Zenon DEF SaveState
  <2>2. /\ task.id \in Drafts /\ task.id \in Versions /\ KeptVersion(task.previous)
        /\ task.previous \in Versions \cup {NoVersion}
        /\ draft[task.id].status # "absent" /\ draft[task.id].previous = task.previous
        /\ version[task.id].content = draft[task.id].content /\ live = version[task.id].content
    BY <1>0, <1>1, <1>8, SkillIds DEF TaskIsSound, ActivationIsSound, SkillTypeOK
  <2>3. draft[task.id].content # Gone
    BY <2>2 DEF SkillInv, DraftIsSound
  <2> QED BY <1>1, <2>1, <2>2, <2>3, SkillIds DEF StateIsSound, KeptVersion, Before
<1>9. CASE task.op = "rollback"
  <2>1. state' = [active |-> task.previous, previous |-> Before(task.previous)]
    BY <1>9, Zenon DEF SaveState
  <2>2. /\ task.previous \in Versions /\ KeptVersion(task.previous) /\ task.previous # NoVersion
        /\ live = version[task.previous].content
    BY <1>0, <1>1, <1>9, SkillIds DEF TaskIsSound, RollbackIsSound
  <2>3. /\ Before(task.previous) \in Versions \cup {NoVersion}
        /\ Before(task.previous) = NoVersion \/ version[Before(task.previous)].content # Gone
        /\ task.previous \in Drafts => draft[task.previous].status # "absent"
    <3>1. CASE task.previous \in Drafts
      <4>1. DraftIsSound(task.previous) /\ draft[task.previous] \in DraftRecords
        BY <1>0, <3>1 DEF SkillInv, SkillTypeOK
      <4> QED BY <1>1, <2>2, <3>1, <4>1 DEF DraftIsSound, DraftRecords, Before, KeptVersion
    <3>2. CASE task.previous \notin Drafts
      BY <3>2 DEF Before
    <3> QED BY <3>1, <3>2
  <2> QED BY <1>1, <2>1, <2>2, <2>3 DEF StateIsSound, KeptVersion, Before
<1>10. CASE task.op \in {"remove", "archive"}
  <2>1. state' = [active |-> NoVersion, previous |-> NoVersion]
    BY <1>10, Zenon DEF SaveState
  <2> QED BY <2>1, SkillIds DEF StateIsSound, KeptVersion
<1> QED BY <1>2, <1>8, <1>9, <1>10

LEMMA SkillCrashStep ==
  ASSUME SkillInv, SkillCrash
  PROVE  SkillInv'
<1>0. SkillTypeOK /\ TaskIsSound /\ StateIsSound /\ LiveIsSound
  BY DEF SkillInv
<1>1. /\ task # SkillIdle /\ task' = SkillIdle /\ died < MaxSkillCrashes /\ died' = died + 1
      /\ UNCHANGED <<live, backup, archive, draft, version, state, evidence, everLive, admitted>>
  BY DEF SkillCrash, skillFiles
<1>2. died' \in 0..MaxSkillCrashes /\ died' # 0
  BY <1>0, <1>1, SkillAssumption DEF SkillTypeOK
<1>3. SkillTypeOK'
  BY <1>0, <1>1, <1>2 DEF SkillTypeOK, SkillIdle
<1>4. TaskIsSound'
  BY <1>1 DEF TaskIsSound, ActivationIsSound, RollbackIsSound, SkillIdle
<1>5. StateIsSound'
  BY <1>1, <1>2, FilesStay DEF StateIsSound
<1>6. LiveIsSound'
  BY <1>0, <1>1 DEF LiveIsSound, Known
<1> QED BY <1>1, <1>3, <1>4, <1>5, <1>6, FilesStay DEF SkillInv

LEMMA SkillInit_Inv == SkillInit => SkillInv
<1> SUFFICES ASSUME SkillInit PROVE SkillInv
  OBVIOUS
<1>1. live \in Contents
  <2>1. Supplied \subseteq Contents
    BY SkillAssumption DEF Contents
  <2> QED BY <2>1 DEF SkillInit, Gone, Contents
<1>2. SkillTypeOK
  <2>1. \A d \in Drafts : evidence[d] \in [1..0 -> Evaluations]
    BY DEF SkillInit
  <2>2. evidence \in [Drafts -> UNION {[1..n -> Evaluations] : n \in 0..MaxEvaluations}]
    <3>1. 0 \in 0..MaxEvaluations
      BY SkillAssumption
    <3>2. \A d \in Drafts : evidence[d] \in UNION {[1..n -> Evaluations] : n \in 0..MaxEvaluations}
      BY <2>1, <3>1
    <3>3. evidence = [d \in Drafts |-> evidence[d]]
      BY DEF SkillInit
    <3> QED BY <3>2, <3>3
  <2>3. /\ draft \in [Drafts -> DraftRecords]
        /\ version \in [Versions -> VersionRecords]
    BY DEF SkillInit, DraftRecords, VersionRecords, Contents, Gone
  <2>4. died \in 0..MaxSkillCrashes
    BY SkillAssumption DEF SkillInit
  <2> QED BY <1>1, <2>2, <2>3, <2>4 DEF SkillInit, SkillTypeOK, SkillIdle, Contents, Gone
<1>3. ASSUME NEW d \in Drafts PROVE DraftIsSound(d)
  BY SkillIds DEF SkillInit, DraftIsSound, KeptVersion, Gone
<1>4. TaskIsSound
  BY DEF SkillInit, TaskIsSound, ActivationIsSound, RollbackIsSound, SkillIdle
<1>5. StateIsSound
  BY SkillIds DEF SkillInit, StateIsSound, KeptVersion
<1>6. LiveIsSound
  BY DEF SkillInit, LiveIsSound, Known
<1> QED BY <1>2, <1>3, <1>4, <1>5, <1>6 DEF SkillInv

LEMMA SkillNext_Inv == SkillInv /\ [SkillNext]_skillVars => SkillInv'
<1> SUFFICES ASSUME SkillInv, [SkillNext]_skillVars PROVE SkillInv'
  OBVIOUS
<1>1. CASE UNCHANGED skillVars
  BY <1>1 DEF SkillInv, SkillTypeOK, DraftIsSound, TaskIsSound, ActivationIsSound, RollbackIsSound,
     StateIsSound, LiveIsSound, Known, KeptVersion, Before, skillVars, skillFiles, skillHistory
<1>2. CASE \E d \in Drafts : \/ ManageSkill(d) \/ AppendDraft(d) \/ Admit(d) \/ Discard(d)
                             \/ RecordEvaluation(d) \/ RecordFeedback(d) \/ Activate(d)
  BY <1>2, CreateDraftStep, AppendDraftStep, WriteAttachmentStep, StatusStep, EvidenceStep,
     ActivateStep DEF ManageSkill
<1>3. CASE CopyVersion \/ RecordVersion \/ Deprecate
  BY <1>3, CopyVersionStep, RecordVersionStep, DeprecateStep
<1>4. CASE Rollback \/ Swap \/ Place \/ Clean
  BY <1>4, RollbackStep, SwapStep, PlaceStep, CleanStep
<1>5. CASE RemoveSkill \/ ArchiveSkill \/ Demote \/ Restore
  BY <1>5, RemoveSkillStep, ArchiveSkillStep, DemoteStep, RestoreStep
<1>6. CASE SaveDraft \/ SaveState \/ SkillCrash
  BY <1>6, SaveDraftStep, SaveStateStep, SkillCrashStep
<1> QED BY <1>1, <1>2, <1>3, <1>4, <1>5, <1>6 DEF SkillNext

\* What was live can be brought back from the versions wherever a process died, and
\* by rolling back while none did, for any drafts, contents, reviews and crashes
\* (evolution/skills/governance.py).
THEOREM SkillsCanBeRecovered == SkillSpec => []SkillsAreRecoverable
<1>1. SkillInv => SkillsAreRecoverable
  <2> SUFFICES ASSUME SkillInv PROVE NothingLiveIsLost /\ RollbackUndoes
    BY DEF SkillsAreRecoverable
  <2>1. NothingLiveIsLost
    BY DEF SkillInv, LiveIsSound, Known, NothingLiveIsLost
  <2>2. RollbackUndoes
    BY DEF SkillInv, StateIsSound, KeptVersion, Before, RollbackUndoes, SkillIdle
  <2> QED BY <2>1, <2>2
<1> QED BY <1>1, SkillInit_Inv, SkillNext_Inv, PTL DEF SkillSpec

\* Only Place makes a draft live, and what it places is what was evaluated and admitted.
LEMMA PlacedAsReviewed ==
  ASSUME SkillInv, SkillNext, task.at = "place", task.op = "activate"
  PROVE  live' # live =>
           /\ \A i \in DOMAIN evidence[task.id] : evidence[task.id][i].content = live'
           /\ backup # Gone /\ admitted[task.id] = backup => backup \cap Lines \subseteq live'
<1>0. ActivationIsSound
  BY DEF SkillInv, TaskIsSound
<1>1. CASE Place
  <2>1. live' = draft[task.id].content /\ task.id \in Drafts
    BY <1>0, <1>1 DEF Place, ActivationIsSound
  <2>2. \A i \in DOMAIN evidence[task.id] : evidence[task.id][i].content = draft[task.id].content
    BY <2>1 DEF SkillInv, DraftIsSound
  <2>3. admitted[task.id] \cap Lines \subseteq draft[task.id].content
    BY <1>0 DEF ActivationIsSound
  <2> QED BY <2>1, <2>2, <2>3
<1>2. CASE ~Place
  <2>1. live' = live
    BY <1>2 DEF SkillNext, ManageSkill, CreateDraft, AppendDraft, NewDraft, WriteAttachment, Admit,
       Discard, RecordEvaluation, RecordFeedback, Activate, CopyVersion, RecordVersion, Deprecate,
       Rollback, Swap, Clean, RemoveSkill, ArchiveSkill, Demote, Restore, SaveDraft, SaveState,
       SkillCrash, SkillIdle, skillFiles
  <2> QED BY <2>1
<1> QED BY <1>1, <1>2

\* What a promotion makes live is what all its evaluations have seen, and it keeps the
\* lines that were live at its admission (activate_skill_draft(), admit()).
THEOREM PromotionsAreReviewed == SkillSpec => PromotedAsReviewed
<1>1. SkillInv /\ [SkillNext]_skillVars =>
        [task.at = "place" /\ task.op = "activate" /\ live' # live =>
           /\ \A i \in DOMAIN evidence[task.id] : evidence[task.id][i].content = live'
           /\ backup # Gone /\ admitted[task.id] = backup =>
                backup \cap Lines \subseteq live']_skillVars
  BY PlacedAsReviewed
<1> QED BY <1>1, SkillInit_Inv, SkillNext_Inv, PTL DEF SkillSpec, PromotedAsReviewed

-----------------------------------------------------------------------------
(* Prompt candidates (EvolutionCandidates) *)

\* Each block of an overlay is agreed to, and has the overlay before it as its
\* snapshot.
TracedBy(blocks, agreed, snapshots) ==
  \A k \in DOMAIN blocks : /\ blocks[k] \in agreed
                           /\ snapshots[blocks[k]] = <<SubSeq(blocks, 1, k - 1)>>

\* The gate's consent is in the record of a candidate, or lost with it.
Consented == {c \in Candidates : gate[c] = "verified" \/ status[c] = "lost"}

\* A snapshot is itself such an overlay, and what has none has not been run.
SnapshotIsTraced(c) ==
  \/ snapshot[c] = <<>>
  \/ \E before \in Seq(Candidates) :
       snapshot[c] = <<before>> /\ TracedBy(before, Consented, snapshot)
HasRun(c) == status[c] \notin {"absent", "pending", "accepted"}
NotYetRun(c) == ~HasRun(c) => snapshot[c] = <<>>

\* No snapshot has a block of the candidate.
Unplaced(c) ==
  \A e \in Candidates :
    snapshot[e] # <<>> => \A k \in DOMAIN snapshot[e][1] : snapshot[e][1][k] # c

\* What the process is at: a candidate is run once, so that nothing has its block yet;
\* and what it works on has a record.
JobIsSound ==
  /\ job.at = "idle" => job = NoJob
  /\ job.at = "retire" /\ job.id # 0 => status[job.id] = "absent" /\ job.id # job.runs
  /\ job.at = "retire" => \A c \in job.retire : status[c] \notin {"absent", "lost"}
  /\ job.at \in {"compare", "finalize", "snapshot"} \/ (job.at = "retire" /\ job.runs # 0) =>
       job.runs # 0 /\ snapshot[job.runs] = <<>>
  /\ job.at # "idle" /\ job.runs # 0 => HasRun(job.runs) /\ status[job.runs] # "lost"
  /\ job.at \in {"snapshot", "append"} => gate[job.runs] = "verified"
  /\ job.at \in {"append", "verify", "roll_back"} => job.runs # 0
  /\ job.at = "append" => snapshot[job.runs] = <<overlay>> /\ Unplaced(job.runs)
  /\ job.at \in {"verify", "roll_back"} /\ job.id = 0 => gate[job.runs] # "none"
  /\ disk = "snapshot" => job.at = "append"

CandidateInv ==
  /\ CandidateTypeOK /\ TracedBy(overlay, Consented, snapshot)
  /\ \A c \in Candidates : SnapshotIsTraced(c) /\ NotYetRun(c)
  /\ JobIsSound

\* A candidate has a record once it is added, until a crash loses it.
LEMMA InStoreHaveStatus ==
  \A c \in Candidates : c \in InStore <=> status[c] \notin {"absent", "lost"}
BY DEF InStore

LEMMA CandidateIds == 0 \notin Candidates
BY CandidateAssumption DEF Candidates

\* What says nothing of the candidates of an overlay leaves it traced.
LEMMA TracedStays ==
  ASSUME NEW o \in Seq(Candidates), NEW a, NEW s, NEW a2, NEW s2, TracedBy(o, a, s),
         \A k \in DOMAIN o : o[k] \in a /\ s[o[k]] # <<>> =>
                              o[k] \in a2 /\ s2[o[k]] = s[o[k]]
  PROVE  TracedBy(o, a2, s2)
<1> SUFFICES ASSUME NEW k \in DOMAIN o
             PROVE  o[k] \in a2 /\ s2[o[k]] = <<SubSeq(o, 1, k - 1)>>
  BY DEF TracedBy
<1>1. o[k] \in a /\ s[o[k]] = <<SubSeq(o, 1, k - 1)>>
  BY DEF TracedBy
<1>2. s[o[k]] # <<>>
  BY <1>1
<1> QED BY <1>1, <1>2

\* The beginnings of a sequence that agrees with another one up to there.
LEMMA SameBeginnings ==
  ASSUME NEW a \in Seq(Candidates), NEW o \in Seq(Candidates), NEW m \in Nat,
         m <= Len(a), m <= Len(o), \A i \in 1..m : a[i] = o[i]
  PROVE  \A n \in 0..m : SubSeq(a, 1, n) = SubSeq(o, 1, n)
<1> SUFFICES ASSUME NEW n \in 0..m PROVE SubSeq(a, 1, n) = SubSeq(o, 1, n)
  OBVIOUS
<1>1. \A i \in 1..n : o[i] \in Candidates /\ a[i] \in Candidates /\ a[i] = o[i]
  <2>1. Len(a) \in Nat /\ Len(o) \in Nat
    BY LenProperties
  <2> QED BY <2>1, ElementOfSeq
<1>2. /\ SubSeq(a, 1, n) \in Seq(Candidates)
      /\ Len(SubSeq(a, 1, n)) = IF 1 <= n THEN n - 1 + 1 ELSE 0
      /\ \A i \in 1..n - 1 + 1 : SubSeq(a, 1, n)[i] = a[1 + i - 1]
  BY <1>1, SubSeqProperties
<1>3. /\ SubSeq(o, 1, n) \in Seq(Candidates)
      /\ Len(SubSeq(o, 1, n)) = IF 1 <= n THEN n - 1 + 1 ELSE 0
      /\ \A i \in 1..n - 1 + 1 : SubSeq(o, 1, n)[i] = o[1 + i - 1]
  BY <1>1, SubSeqProperties
<1>4. Len(SubSeq(a, 1, n)) = n /\ Len(SubSeq(o, 1, n)) = n
  BY <1>2, <1>3
<1>5. \A i \in 1..n : SubSeq(a, 1, n)[i] = a[i] /\ SubSeq(o, 1, n)[i] = o[i]
  BY <1>2, <1>3
<1>6. \A i \in 1..n : SubSeq(a, 1, n)[i] = SubSeq(o, 1, n)[i]
  BY <1>1, <1>5
<1> QED BY <1>2, <1>3, <1>4, <1>6, SeqEqual

\* What a cut leaves of a traced overlay is traced.
LEMMA TracedByLess ==
  ASSUME NEW o \in Seq(Candidates), NEW a, NEW s, TracedBy(o, a, s), NEW n \in 0..Len(o)
  PROVE  SubSeq(o, 1, n) \in Seq(Candidates) /\ TracedBy(SubSeq(o, 1, n), a, s)
<1> DEFINE b == SubSeq(o, 1, n)
<1>1. Len(o) \in Nat /\ \A i \in 1..n : o[i] \in Candidates
  BY LenProperties, ElementOfSeq
<1>2. /\ b \in Seq(Candidates)
      /\ Len(b) = IF 1 <= n THEN n - 1 + 1 ELSE 0
      /\ \A i \in 1..n - 1 + 1 : b[i] = o[1 + i - 1]
  BY <1>1, SubSeqProperties
<1> HIDE DEF b
<1>3. Len(b) = n /\ n <= Len(o) /\ \A i \in 1..n : b[i] = o[i]
  BY <1>1, <1>2
<1>4. \A i \in 0..n : SubSeq(b, 1, i) = SubSeq(o, 1, i)
  BY <1>1, <1>2, <1>3, SameBeginnings
<1>5. ASSUME NEW k \in DOMAIN b
      PROVE  b[k] \in a /\ s[b[k]] = <<SubSeq(b, 1, k - 1)>>
  <2>1. k \in 1..n /\ k \in DOMAIN o /\ k - 1 \in 0..n
    BY <1>1, <1>2, <1>3, LenProperties
  <2>2. b[k] = o[k] /\ SubSeq(b, 1, k - 1) = SubSeq(o, 1, k - 1)
    BY <1>3, <1>4, <2>1
  <2>3. o[k] \in a /\ s[o[k]] = <<SubSeq(o, 1, k - 1)>>
    BY <2>1 DEF TracedBy
  <2> QED BY <2>2, <2>3
<1> QED BY <1>2, <1>5 DEF TracedBy, b

\* A block at the end, whose snapshot is the overlay before it.
LEMMA TracedByOneMore ==
  ASSUME NEW o \in Seq(Candidates), NEW g, NEW s, TracedBy(o, g, s),
         NEW c \in Candidates, c \in g, s[c] = <<o>>
  PROVE  TracedBy(Append(o, c), g, s)
<1> DEFINE a == Append(o, c)
<1>1. a \in Seq(Candidates) /\ Len(a) = Len(o) + 1 /\ Len(o) \in Nat
  BY LenProperties
<1>2. a[Len(o) + 1] = c
  OBVIOUS
<1>3. ASSUME NEW k \in 1..Len(o) PROVE a[k] = o[k]
  OBVIOUS
<1>4. \A n \in 0..Len(o) : SubSeq(a, 1, n) = SubSeq(o, 1, n)
  <2> HIDE DEF a
  <2> QED BY <1>1, <1>3, SameBeginnings
<1>5. SubSeq(o, 1, Len(o)) = o
  BY SubSeqFull
<1> HIDE DEF a
<1>6. ASSUME NEW k \in DOMAIN a
      PROVE  a[k] \in g /\ s[a[k]] = <<SubSeq(a, 1, k - 1)>>
  <2>1. k \in 1..Len(o) + 1 /\ k - 1 \in 0..Len(o)
    BY <1>1, LenProperties
  <2>2. SubSeq(a, 1, k - 1) = SubSeq(o, 1, k - 1)
    BY <2>1, <1>4
  <2>3. CASE k \in 1..Len(o)
    <3>1. a[k] = o[k] /\ k \in DOMAIN o
      BY <2>3, <1>3, LenProperties
    <3>2. o[k] \in g /\ s[o[k]] = <<SubSeq(o, 1, k - 1)>>
      BY <3>1 DEF TracedBy
    <3> QED BY <2>2, <3>1, <3>2
  <2>4. CASE k = Len(o) + 1
    <3>1. a[k] = c /\ SubSeq(a, 1, k - 1) = o
      BY <1>1, <1>2, <1>5, <2>2, <2>4
    <3> QED BY <3>1
  <2> QED BY <1>1, <2>1, <2>3, <2>4
<1> QED BY <1>6 DEF TracedBy, a

\* The overlay and the snapshots stay, and no consent goes but with its record.
LEMMA PromptStays ==
  ASSUME CandidateInv, CandidateTypeOK', UNCHANGED <<snapshot, overlay>>, JobIsSound',
         \A c \in Candidates :
           /\ snapshot[c] # <<>> /\ gate[c] = "verified" =>
                gate'[c] = "verified" \/ status'[c] = "lost"
           /\ status[c] = "lost" => status'[c] = "lost"
           /\ status'[c] \in {"absent", "pending", "accepted"} =>
                status[c] \in {"absent", "pending", "accepted"}
  PROVE  CandidateInv'
<1>1. \A c \in Candidates : c \in Consented /\ snapshot[c] # <<>> =>
                               c \in Consented' /\ snapshot'[c] = snapshot[c]
  BY DEF Consented
<1>2. ASSUME NEW o \in Seq(Candidates), TracedBy(o, Consented, snapshot)
      PROVE  TracedBy(o, Consented', snapshot')
  <2>1. \A k \in DOMAIN o : o[k] \in Candidates
    BY ElementOfSeq, LenProperties
  <2> QED BY <1>1, <1>2, <2>1, TracedStays
<1>3. TracedBy(overlay, Consented, snapshot)'
  BY <1>2 DEF CandidateInv, CandidateTypeOK
<1>4. ASSUME NEW c \in Candidates PROVE SnapshotIsTraced(c)' /\ NotYetRun(c)'
  <2>1. SnapshotIsTraced(c) /\ NotYetRun(c)
    BY DEF CandidateInv
  <2>2. SnapshotIsTraced(c)'
    BY <1>2, <2>1 DEF SnapshotIsTraced
  <2>3. NotYetRun(c)'
    BY <2>1 DEF NotYetRun, HasRun
  <2> QED BY <2>2, <2>3
<1> QED BY <1>3, <1>4 DEF CandidateInv

Jobs == [at : {"idle", "retire", "add", "compare", "finalize", "snapshot", "append", "verify",
               "roll_back"},
         id : Candidates \cup {0}, runs : Candidates \cup {0}, retire : SUBSET Candidates]

LEMMA AddCandidateStep ==
  ASSUME CandidateInv, disk = "whole", NEW c \in Candidates, AddCandidate(c)
  PROVE  CandidateInv'
<1>0. CandidateTypeOK /\ JobIsSound /\ job \in Jobs
  BY DEF CandidateInv, CandidateTypeOK, Jobs
<1>1. /\ job.at \in {"idle", "compare"} /\ status[c] = "absent"
      /\ job' = [job EXCEPT !.at = "retire", !.id = c, !.retire = Archivable(c) \cup Superseded(c)]
      /\ UNCHANGED <<scope, status, gate, overlay, snapshot, disk, evolutionCrashes>>
  BY DEF AddCandidate, store, prompt
<1>2. /\ Archivable(c) \cup Superseded(c) \subseteq Candidates
      /\ \A e \in Archivable(c) \cup Superseded(c) : status[e] \notin {"absent", "lost"}
  <2>1. Archivable(c) \cup Superseded(c) \subseteq Rivals(c)
    BY DEF Archivable, Superseded
  <2>2. Rivals(c) \subseteq InStore /\ InStore \subseteq Candidates
    BY DEF Rivals, InStore
  <2> QED BY <2>1, <2>2, InStoreHaveStatus
<1>3. /\ job' \in Jobs /\ job'.at = "retire" /\ job'.id = c /\ job'.runs = job.runs
      /\ job'.retire = Archivable(c) \cup Superseded(c)
  BY <1>0, <1>1, <1>2 DEF Jobs
<1>4. CandidateTypeOK'
  BY <1>0, <1>1, <1>3 DEF CandidateTypeOK, Jobs
<1>5. job.at = "idle" => job.runs = 0
  BY <1>0 DEF JobIsSound, HasRun, NoJob
<1>6. job.runs # 0 =>
        HasRun(job.runs) /\ status[job.runs] # "lost" /\ snapshot[job.runs] = <<>>
  BY <1>0, <1>1, <1>5 DEF JobIsSound, HasRun
<1>7. JobIsSound'
  BY <1>1, <1>2, <1>3, <1>6 DEF JobIsSound, HasRun
<1> QED BY <1>1, <1>4, <1>7, PromptStays

LEMMA RetireStep ==
  ASSUME CandidateInv, Retire
  PROVE  CandidateInv'
<1>0. CandidateTypeOK /\ JobIsSound /\ job \in Jobs
  BY DEF CandidateInv, CandidateTypeOK, Jobs
<1>1. PICK e \in job.retire :
        /\ Rewrite(e, IF status[e] \in Validated THEN "archived" ELSE "superseded")
        /\ job' = [job EXCEPT !.retire = @ \ {e}]
  BY DEF Retire
<1>2. /\ job.at = "retire" /\ disk' = "records"
      /\ UNCHANGED <<scope, gate, overlay, snapshot, evolutionCrashes>>
  BY <1>1 DEF Retire, Rewrite, prompt
<1>3. e \in Candidates /\ status[e] \notin {"absent", "lost"}
  BY <1>0, <1>1, <1>2 DEF Jobs, JobIsSound, HasRun
<1>4. PICK to \in Inactive : status' = [status EXCEPT ![e] = to]
  BY <1>1 DEF Rewrite, Inactive
<1>5. /\ job' \in Jobs /\ job'.at = "retire" /\ job'.id = job.id /\ job'.runs = job.runs
      /\ job'.retire \subseteq job.retire
  BY <1>0, <1>1, <1>2 DEF Jobs
<1>6. CandidateTypeOK'
  BY <1>0, <1>2, <1>3, <1>4, <1>5 DEF CandidateTypeOK, Jobs, Inactive
<1>7. \A c \in Candidates : status'[c] = IF c = e THEN to ELSE status[c]
  BY <1>0, <1>3, <1>4 DEF CandidateTypeOK
<1>8. /\ \A c \in Candidates : status[c] # "absent" => status'[c] # "absent"
      /\ \A c \in Candidates : status'[c] = "lost" <=> status[c] = "lost"
      /\ \A c \in Candidates : status'[c] \in {"absent", "pending", "accepted"} =>
                                 status[c] = status'[c]
  BY <1>3, <1>4, <1>7 DEF Inactive
<1>9. JobIsSound'
  <2>1. job.retire \subseteq Candidates /\ job.id \in Candidates \cup {0}
        /\ job.runs \in Candidates \cup {0}
    BY <1>0 DEF Jobs
  <2>2. job.id # 0 => status'[job.id] = "absent"
    BY <1>0, <1>2, <1>3, <1>7, <2>1 DEF JobIsSound, HasRun
  <2> QED BY <1>0, <1>2, <1>5, <1>8, <2>1, <2>2 DEF JobIsSound, HasRun
<1> QED BY <1>2, <1>6, <1>8, <1>9, PromptStays

LEMMA AppendCandidateStep ==
  ASSUME CandidateInv, disk = "whole", AppendCandidate
  PROVE  CandidateInv'
<1>0. CandidateTypeOK /\ JobIsSound /\ job \in Jobs
  BY DEF CandidateInv, CandidateTypeOK, Jobs
<1>1. /\ job.at = "retire" /\ job.id # 0 /\ status' = [status EXCEPT ![job.id] = "pending"]
      /\ job' = IF job.runs = 0 THEN NoJob ELSE [NoJob EXCEPT !.at = "finalize", !.runs = job.runs]
      /\ UNCHANGED <<scope, gate, overlay, snapshot, disk, evolutionCrashes>>
  BY DEF AppendCandidate, prompt
<1>2. job.id \in Candidates /\ status[job.id] = "absent" /\ job.runs \in Candidates \cup {0}
      /\ job.id # job.runs
  BY <1>0, <1>1 DEF Jobs, JobIsSound, HasRun
<1>3. \A c \in Candidates : status'[c] = IF c = job.id THEN "pending" ELSE status[c]
  BY <1>0, <1>1, <1>2 DEF CandidateTypeOK
<1>4. job' \in Jobs
  BY <1>1, <1>2 DEF Jobs, NoJob
<1>5. CandidateTypeOK'
  BY <1>0, <1>1, <1>2, <1>4 DEF CandidateTypeOK, Jobs, Pending
<1>6. JobIsSound'
  <2>1. CASE job.runs = 0
    BY <1>1, <2>1 DEF JobIsSound, HasRun, NoJob
  <2>2. CASE job.runs # 0
    <3>1. /\ HasRun(job.runs) /\ status[job.runs] # "lost"
          /\ status'[job.runs] = status[job.runs] /\ snapshot[job.runs] = <<>>
      BY <1>0, <1>1, <1>2, <1>3, <2>2 DEF JobIsSound, HasRun
    <3>2. job'.at = "finalize" /\ job'.runs = job.runs /\ job'.id = 0 /\ job'.retire = {}
      BY <1>1, <2>2 DEF NoJob
    <3> QED BY <1>1, <2>2, <3>1, <3>2 DEF JobIsSound, HasRun
  <2> QED BY <2>1, <2>2
<1> QED BY <1>1, <1>2, <1>3, <1>5, <1>6, PromptStays

\* update_candidate_status() and apply_candidate()
LEMMA ReviewStep ==
  ASSUME CandidateInv, NEW c \in Candidates, Review(c) \/ ApplyCandidate(c)
  PROVE  CandidateInv'
<1>0. CandidateTypeOK /\ JobIsSound /\ job \in Jobs /\ NotYetRun(c)
  BY DEF CandidateInv, CandidateTypeOK, Jobs
<1>1. PICK to \in {"accepted", "rejected", "staged"} : status' = [status EXCEPT ![c] = to]
  BY DEF Review, ApplyCandidate, Rewrite
<1>2. /\ status[c] \in {"pending", "accepted"} /\ disk' = "records"
      /\ UNCHANGED <<scope, gate, overlay, snapshot, evolutionCrashes>>
      /\ job' = NoJob \/ job' = [NoJob EXCEPT !.at = "compare", !.runs = c]
  BY DEF Review, ApplyCandidate, Rewrite, prompt
<1>3. \A e \in Candidates : status'[e] = IF e = c THEN to ELSE status[e]
  BY <1>0, <1>1 DEF CandidateTypeOK
<1>4. \/ job' = NoJob
      \/ /\ job' = [at |-> "compare", id |-> 0, runs |-> c, retire |-> {}]
         /\ status[c] = "accepted" /\ to = "staged"
  <2>1. CASE Review(c)
    BY <2>1 DEF Review
  <2>2. CASE ApplyCandidate(c)
    <3>1. status' = [status EXCEPT ![c] = "staged"]
      BY <2>2 DEF ApplyCandidate, Rewrite
    <3>2. status'[c] = "staged"
      BY <1>0, <3>1 DEF CandidateTypeOK
    <3>3. to = "staged"
      BY <1>3, <3>2
    <3>4. job' = [at |-> "compare", id |-> 0, runs |-> c, retire |-> {}] /\ status[c] = "accepted"
      BY <2>2 DEF ApplyCandidate, NoJob
    <3> QED BY <3>3, <3>4
  <2> QED BY <2>1, <2>2
<1>j. job' \in Jobs
  BY <1>4 DEF Jobs, NoJob
<1>5. CandidateTypeOK'
  BY <1>0, <1>1, <1>2, <1>j DEF CandidateTypeOK, Jobs, Pending
<1>6. JobIsSound'
  <2>1. CASE job' = NoJob
    BY <1>2, <2>1 DEF JobIsSound, HasRun, NoJob
  <2>2. CASE job' # NoJob
    <3>1. /\ job'.at = "compare" /\ job'.runs = c /\ job'.id = 0
          /\ status'[c] = "staged"
      BY <1>3, <1>4, <2>2
    <3>2. snapshot'[c] = <<>>
      BY <1>0, <1>2 DEF NotYetRun, HasRun
    <3> QED BY <1>2, <3>1, <3>2, CandidateIds DEF JobIsSound, HasRun
  <2> QED BY <2>1, <2>2
<1> QED BY <1>2, <1>3, <1>5, <1>6, PromptStays

\* What ends the retiring or compares changes no file.
LEMMA NoFileStep ==
  ASSUME CandidateInv, disk = "whole", EndRetire \/ Compare
  PROVE  CandidateInv'
<1>0. CandidateTypeOK /\ JobIsSound /\ job \in Jobs
  BY DEF CandidateInv, CandidateTypeOK, Jobs
<1>1. UNCHANGED <<scope, status, gate, overlay, snapshot, disk, evolutionCrashes>>
  BY DEF EndRetire, Compare, store, prompt
<1>2. \/ job' = NoJob
      \/ job.at = "compare" /\ job' = [job EXCEPT !.at = "finalize"]
  BY DEF EndRetire, Compare
<1>3. job' \in Jobs
  BY <1>0, <1>2 DEF Jobs, NoJob
<1>4. CandidateTypeOK'
  BY <1>0, <1>1, <1>3 DEF CandidateTypeOK, Jobs
<1>5. JobIsSound'
  <2>1. CASE job' = NoJob
    BY <1>1, <2>1 DEF JobIsSound, HasRun, NoJob
  <2>2. CASE job.at = "compare" /\ job' = [job EXCEPT !.at = "finalize"]
    <3>1. job'.at = "finalize" /\ job'.runs = job.runs
      BY <1>0, <2>2 DEF Jobs
    <3> QED BY <1>0, <1>1, <2>2, <3>1 DEF JobIsSound, HasRun
  <2> QED BY <1>2, <2>1, <2>2
<1> QED BY <1>1, <1>4, <1>5, PromptStays

LEMMA FillStep ==
  ASSUME CandidateInv, Fill
  PROVE  CandidateInv'
<1>1. disk' = "whole" /\ UNCHANGED <<scope, status, gate, overlay, snapshot, job, evolutionCrashes>>
  BY DEF Fill, store, prompt
<1>2. CandidateTypeOK'
  BY <1>1 DEF CandidateInv, CandidateTypeOK
<1>3. JobIsSound'
  BY <1>1 DEF CandidateInv, JobIsSound, HasRun, Unplaced
<1> QED BY <1>1, <1>2, <1>3, PromptStays

LEMMA RecordVerdictStep ==
  ASSUME CandidateInv, RecordVerdict
  PROVE  CandidateInv'
<1>0. CandidateTypeOK /\ JobIsSound /\ job \in Jobs
  BY DEF CandidateInv, CandidateTypeOK, Jobs
<1>1. /\ job.at \in {"verify", "roll_back"}
      /\ status' = [status EXCEPT ![job.runs] = IF job.id = 0 THEN gate[job.runs]
                                                ELSE "regressed_after_apply"]
      /\ job' = [NoJob EXCEPT !.at = "retire", !.retire = Archivable(job.runs)]
      /\ disk' = "records" /\ UNCHANGED <<scope, gate, overlay, snapshot, evolutionCrashes>>
  BY DEF RecordVerdict, Rewrite, prompt
<1>2. job.runs \in Candidates /\ HasRun(job.runs) /\ status[job.runs] # "lost"
  BY <1>0, <1>1 DEF Jobs, JobIsSound, HasRun
<1>3. PICK to \in Validated : status' = [status EXCEPT ![job.runs] = to]
  <2>1. CASE job.id = 0
    <3>1. gate[job.runs] \in Validated \cup {"none"} /\ gate[job.runs] # "none"
      BY <1>0, <1>1, <1>2, <2>1 DEF CandidateTypeOK, JobIsSound, HasRun
    <3> QED BY <1>1, <2>1, <3>1
  <2>2. CASE job.id # 0
    BY <1>1, <2>2 DEF Validated
  <2> QED BY <2>1, <2>2
<1>4. \A c \in Candidates : status'[c] = IF c = job.runs THEN to ELSE status[c]
  BY <1>0, <1>2, <1>3 DEF CandidateTypeOK
<1>5. /\ Archivable(job.runs) \subseteq Candidates
      /\ \A e \in Archivable(job.runs) : status[e] \notin {"absent", "lost"} /\ e # job.runs
  <2>1. Archivable(job.runs) \subseteq Rivals(job.runs)
    BY DEF Archivable
  <2>2. Rivals(job.runs) \subseteq InStore \ {job.runs} /\ InStore \subseteq Candidates
    BY DEF Rivals, InStore
  <2> QED BY <2>1, <2>2, InStoreHaveStatus
<1>6. job' \in Jobs
  BY <1>1, <1>5 DEF Jobs, NoJob
<1>7. CandidateTypeOK'
  BY <1>0, <1>1, <1>2, <1>3, <1>6 DEF CandidateTypeOK, Jobs
<1>8. JobIsSound'
  <2>1. /\ job'.at = "retire" /\ job'.id = 0 /\ job'.runs = 0
        /\ job'.retire = Archivable(job.runs)
    BY <1>1 DEF NoJob
  <2>2. \A e \in Archivable(job.runs) : status'[e] \notin {"absent", "lost"}
    BY <1>4, <1>5
  <2> QED BY <1>1, <2>1, <2>2 DEF JobIsSound, HasRun
<1>9. \A c \in Candidates :
        /\ status[c] = "lost" => status'[c] = "lost"
        /\ status'[c] \in {"absent", "pending", "accepted"} =>
             status[c] \in {"absent", "pending", "accepted"}
  BY <1>2, <1>4 DEF Validated
<1> QED BY <1>1, <1>7, <1>8, <1>9, PromptStays

\* The gate's result is of a candidate that no overlay has.
LEMMA FinalizeStep ==
  ASSUME CandidateInv, disk = "whole", Finalize
  PROVE  CandidateInv'
<1>0. CandidateTypeOK /\ JobIsSound /\ job \in Jobs
  BY DEF CandidateInv, CandidateTypeOK, Jobs
<1>1. /\ job.at = "finalize" /\ UNCHANGED <<overlay, snapshot, evolutionCrashes>>
  BY DEF Finalize, prompt
<1>2. job.runs \in Candidates /\ snapshot[job.runs] = <<>> /\ job.runs # 0
  BY <1>0, <1>1 DEF Jobs, JobIsSound, HasRun
<1>3. CASE status[job.runs] # "staged"
  <2>1. job' = NoJob /\ UNCHANGED <<scope, status, gate, disk>>
    BY <1>3 DEF Finalize, store
  <2>2. CandidateTypeOK'
    BY <1>0, <1>1, <2>1 DEF CandidateTypeOK, NoJob
  <2>3. JobIsSound'
    BY <2>1 DEF JobIsSound, HasRun, NoJob
  <2> QED BY <1>1, <2>1, <2>2, <2>3, PromptStays
<1>4. CASE status[job.runs] = "staged"
  <2>1. PICK correct \in BOOLEAN, delta \in -1..1 :
          /\ gate' = [gate EXCEPT ![job.runs] = Verdict(correct, delta)]
          /\ Rewrite(job.runs, "staged")
          /\ job' = [job EXCEPT !.at = IF Verdict(correct, delta) = "verified"
                                         THEN "snapshot" ELSE "roll_back"]
    BY <1>4 DEF Finalize
  <2>2. PICK verdict \in Validated :
          /\ gate' = [gate EXCEPT ![job.runs] = verdict]
          /\ job' = [job EXCEPT !.at = IF verdict = "verified" THEN "snapshot" ELSE "roll_back"]
    <3>1. Verdict(correct, delta) \in Validated
      BY DEF Verdict, Validated
    <3> QED BY <2>1, <3>1
  <2>3. status' = status /\ scope' = scope /\ disk' = "records"
    BY <1>0, <1>2, <1>4, <2>1 DEF Rewrite, CandidateTypeOK
  <2>4. /\ job' \in Jobs /\ job'.id = job.id /\ job'.runs = job.runs
        /\ job'.at = IF verdict = "verified" THEN "snapshot" ELSE "roll_back"
    BY <1>0, <2>2 DEF Jobs
  <2>5. CandidateTypeOK'
    BY <1>0, <1>1, <1>2, <2>2, <2>3, <2>4 DEF CandidateTypeOK, Jobs
  <2>6. /\ gate'[job.runs] = verdict /\ verdict # "none"
        /\ \A c \in Candidates : snapshot[c] # <<>> =>
                                   gate'[c] = gate[c] /\ snapshot'[c] = snapshot[c]
    BY <1>0, <1>1, <1>2, <2>2 DEF CandidateTypeOK, Validated
  <2>7. JobIsSound'
    BY <1>0, <1>1, <1>2, <1>4, <2>3, <2>4, <2>6 DEF JobIsSound, HasRun
  <2> QED BY <1>1, <2>3, <2>5, <2>6, <2>7, PromptStays
<1> QED BY <1>3, <1>4

LEMMA SnapshotStep ==
  ASSUME CandidateInv, Snapshot
  PROVE  CandidateInv'
<1>0. CandidateTypeOK /\ JobIsSound /\ job \in Jobs
  BY DEF CandidateInv, CandidateTypeOK, Jobs
<1>1. /\ job.at = "snapshot" /\ job' = [job EXCEPT !.at = "append"]
      /\ snapshot' = [snapshot EXCEPT ![job.runs] = <<overlay>>]
      /\ disk' = "snapshot" /\ UNCHANGED <<scope, status, gate, overlay, evolutionCrashes>>
  BY DEF Snapshot, store
<1>2. job.runs \in Candidates /\ snapshot[job.runs] = <<>> /\ job.runs # 0
      /\ gate[job.runs] = "verified" /\ HasRun(job.runs) /\ status[job.runs] # "lost"
  BY <1>0, <1>1 DEF Jobs, JobIsSound, HasRun
<1>3. job' \in Jobs /\ job'.at = "append" /\ job'.runs = job.runs
  BY <1>0, <1>1 DEF Jobs
<1>4. <<overlay>> \in Seq(Seq(Candidates))
  BY <1>0 DEF CandidateTypeOK
<1>5. CandidateTypeOK'
  BY <1>0, <1>1, <1>2, <1>3, <1>4 DEF CandidateTypeOK, Jobs
<1>6. /\ snapshot'[job.runs] = <<overlay>>
      /\ \A c \in Candidates \ {job.runs} : snapshot'[c] = snapshot[c]
  BY <1>0, <1>1, <1>2 DEF CandidateTypeOK
<1>7. ASSUME NEW o \in Seq(Candidates), TracedBy(o, Consented, snapshot)
      PROVE  TracedBy(o, Consented', snapshot') /\ \A k \in DOMAIN o : o[k] # job.runs
  <2>1. \A k \in DOMAIN o : o[k] \in Candidates /\ o[k] # job.runs
    <3> SUFFICES ASSUME NEW k \in DOMAIN o PROVE o[k] \in Candidates /\ o[k] # job.runs
      OBVIOUS
    <3>1. o[k] \in Candidates
      BY ElementOfSeq, LenProperties
    <3>2. snapshot[o[k]] = <<SubSeq(o, 1, k - 1)>>
      BY <1>7 DEF TracedBy
    <3>3. snapshot[o[k]] # <<>>
      BY <3>2
    <3> QED BY <1>2, <3>1, <3>3
  <2>2. Consented' = Consented
    BY <1>1 DEF Consented
  <2>3. TracedBy(o, Consented', snapshot')
    BY <1>6, <1>7, <2>1, <2>2, TracedStays
  <2> QED BY <2>1, <2>3
<1>8. TracedBy(overlay, Consented', snapshot') /\ \A k \in DOMAIN overlay : overlay[k] # job.runs
  BY <1>7 DEF CandidateInv, CandidateTypeOK
<1>9. ASSUME NEW c \in Candidates, c # job.runs, snapshot[c] # <<>>
      PROVE  /\ \A k \in DOMAIN snapshot[c][1] : snapshot[c][1][k] # job.runs
             /\ SnapshotIsTraced(c)'
  <2>1. PICK before \in Seq(Candidates) :
          snapshot[c] = <<before>> /\ TracedBy(before, Consented, snapshot)
    BY <1>9 DEF CandidateInv, SnapshotIsTraced
  <2>2. TracedBy(before, Consented', snapshot') /\ \A k \in DOMAIN before : before[k] # job.runs
    BY <1>7, <2>1
  <2>3. snapshot[c][1] = before /\ snapshot'[c] = <<before>>
    BY <1>6, <1>9, <2>1
  <2> QED BY <2>1, <2>2, <2>3 DEF SnapshotIsTraced
<1>10. Unplaced(job.runs)'
  <2> SUFFICES ASSUME NEW e \in Candidates, snapshot'[e] # <<>>, NEW k \in DOMAIN snapshot'[e][1]
               PROVE  snapshot'[e][1][k] # job.runs
    BY <1>3 DEF Unplaced
  <2>1. CASE e = job.runs
    <3>1. snapshot'[e][1] = overlay
      BY <1>6, <2>1
    <3> QED BY <1>8, <3>1
  <2>2. CASE e # job.runs
    BY <1>6, <1>9, <2>2
  <2> QED BY <2>1, <2>2
<1>11. JobIsSound'
  BY <1>1, <1>2, <1>3, <1>6, <1>10 DEF JobIsSound, HasRun
<1>12. ASSUME NEW c \in Candidates PROVE SnapshotIsTraced(c)' /\ NotYetRun(c)'
  <2>1. CASE c = job.runs
    <3>1. snapshot'[c] = <<overlay>> /\ overlay \in Seq(Candidates)
      BY <1>0, <1>6, <2>1 DEF CandidateTypeOK
    <3> QED BY <1>1, <1>2, <1>8, <2>1, <3>1 DEF SnapshotIsTraced, NotYetRun, HasRun
  <2>2. CASE c # job.runs
    <3>1. snapshot'[c] = snapshot[c] /\ NotYetRun(c)
      BY <1>6, <2>2 DEF CandidateInv
    <3>2. NotYetRun(c)'
      BY <1>1, <3>1 DEF NotYetRun, HasRun
    <3>3. SnapshotIsTraced(c)'
      BY <1>9, <2>2, <3>1 DEF SnapshotIsTraced
    <3> QED BY <3>2, <3>3
  <2> QED BY <2>1, <2>2
<1> QED BY <1>1, <1>5, <1>8, <1>11, <1>12 DEF CandidateInv

LEMMA AppendBlockStep ==
  ASSUME CandidateInv, AppendBlock
  PROVE  CandidateInv'
<1>0. CandidateTypeOK /\ JobIsSound /\ job \in Jobs
  BY DEF CandidateInv, CandidateTypeOK, Jobs
<1>1. /\ job.at = "append" /\ job' = [job EXCEPT !.at = "verify"]
      /\ overlay' = Append(overlay, job.runs)
      /\ disk' = "overlay" /\ UNCHANGED <<scope, status, gate, snapshot, evolutionCrashes>>
  BY DEF AppendBlock, store
<1>2. /\ job.runs \in Candidates /\ gate[job.runs] = "verified" /\ status[job.runs] # "lost"
      /\ snapshot[job.runs] = <<overlay>> /\ HasRun(job.runs) /\ job.runs # 0
  BY <1>0, <1>1 DEF Jobs, JobIsSound
<1>3. job' \in Jobs /\ job'.at = "verify" /\ job'.runs = job.runs /\ job'.id = job.id
  BY <1>0, <1>1 DEF Jobs
<1>4. overlay \in Seq(Candidates) /\ TracedBy(overlay, Consented, snapshot)
  BY <1>0 DEF CandidateInv, CandidateTypeOK
<1>5. overlay' \in Seq(Candidates)
  BY <1>1, <1>2, <1>4
<1>6. CandidateTypeOK'
  BY <1>0, <1>1, <1>3, <1>5 DEF CandidateTypeOK, Jobs
<1>7. JobIsSound'
  BY <1>1, <1>2, <1>3 DEF JobIsSound, HasRun
<1>8. TracedBy(Append(overlay, job.runs), Consented, snapshot)
  <2>1. job.runs \in Consented
    BY <1>2 DEF Consented
  <2> QED BY <1>2, <1>4, <2>1, TracedByOneMore
<1>c. Consented' = Consented
  BY <1>1 DEF Consented
<1>9. \A c \in Candidates : SnapshotIsTraced(c)' /\ NotYetRun(c)'
  BY <1>1, <1>c DEF CandidateInv, SnapshotIsTraced, NotYetRun, HasRun
<1>10. TracedBy(overlay, Consented, snapshot)'
  BY <1>1, <1>8, <1>c
<1> QED BY <1>6, <1>7, <1>9, <1>10 DEF CandidateInv

\* rollback_candidate() puts an overlay back that was traced when it was kept.
LEMMA RollbackCandidateStep ==
  ASSUME CandidateInv, disk = "whole", NEW c \in Candidates, RollbackCandidate(c)
  PROVE  CandidateInv'
<1>0. CandidateTypeOK /\ JobIsSound /\ SnapshotIsTraced(c) /\ NotYetRun(c)
  BY DEF CandidateInv
<1>1. /\ job' = [at |-> "roll_back", id |-> c, runs |-> c, retire |-> {}]
      /\ status[c] \notin {"absent", "lost"} /\ disk' \in {"whole", "overlay"}
      /\ \/ status[c] = "staged" /\ overlay' = overlay
         \/ status[c] # "staged" /\ snapshot[c] # <<>> /\ overlay' = snapshot[c][1]
      /\ UNCHANGED <<scope, status, gate, snapshot, evolutionCrashes>>
  <2>1. status[c] \notin {"absent", "lost"}
    BY InStoreHaveStatus DEF RollbackCandidate
  <2>2. /\ job' = [at |-> "roll_back", id |-> c, runs |-> c, retire |-> {}]
        /\ UNCHANGED <<scope, status, gate, snapshot, evolutionCrashes>>
    BY DEF RollbackCandidate, store, NoJob
  <2> QED BY <2>1, <2>2 DEF RollbackCandidate, Restored
<1>2. HasRun(c)
  BY <1>0, <1>1 DEF NotYetRun, HasRun
<1>3. overlay' \in Seq(Candidates) /\ TracedBy(overlay', Consented, snapshot)
  <2>1. CASE overlay' = overlay
    BY <1>0, <2>1 DEF CandidateInv, CandidateTypeOK
  <2>2. CASE snapshot[c] # <<>> /\ overlay' = snapshot[c][1]
    <3>1. PICK before \in Seq(Candidates) :
            snapshot[c] = <<before>> /\ TracedBy(before, Consented, snapshot)
      BY <1>0, <2>2 DEF SnapshotIsTraced
    <3>2. overlay' = before
      BY <2>2, <3>1
    <3> QED BY <3>1, <3>2
  <2> QED BY <1>1, <2>1, <2>2
<1>4. CandidateTypeOK'
  BY <1>0, <1>1, <1>3 DEF CandidateTypeOK
<1>5. JobIsSound'
  BY <1>1, <1>2, CandidateIds DEF JobIsSound, HasRun
<1>c. Consented' = Consented
  BY <1>1 DEF Consented
<1>6. \A e \in Candidates : SnapshotIsTraced(e)' /\ NotYetRun(e)'
  BY <1>1, <1>c DEF CandidateInv, SnapshotIsTraced, NotYetRun, HasRun
<1>7. TracedBy(overlay, Consented, snapshot)'
  BY <1>1, <1>3, <1>c
<1> QED BY <1>4, <1>5, <1>6, <1>7 DEF CandidateInv

\* A death in a rewriting of the records loses some of them, in that of a text its end.
LEMMA CrashStep ==
  ASSUME CandidateInv, EvolutionCrash
  PROVE  CandidateInv'
<1>0. CandidateTypeOK /\ JobIsSound
  BY DEF CandidateInv
<1>1. job' = NoJob /\ evolutionCrashes' \in 0..MaxEvolutionCrashes
  BY <1>0, CandidateAssumption DEF EvolutionCrash, CandidateTypeOK
<1>2. ASSUME disk' # "snapshot" PROVE JobIsSound'
  BY <1>1, <1>2 DEF JobIsSound, NoJob
<1>3. CASE disk = "whole" /\ UNCHANGED <<store, prompt, disk>>
  <2>1. UNCHANGED <<scope, status, gate, overlay, snapshot, disk>>
    BY <1>3 DEF store, prompt
  <2>2. CandidateTypeOK'
    BY <1>0, <1>1, <2>1 DEF CandidateTypeOK, NoJob
  <2> QED BY <1>2, <1>3, <2>1, <2>2, PromptStays
<1>4. CASE disk = "records" /\ LoseRecords
  <2>1. PICK gone \in SUBSET InStore :
          /\ status' = [c \in Candidates |-> IF c \in gone THEN "lost" ELSE status[c]]
          /\ gate' = [c \in Candidates |-> IF c \in gone THEN "none" ELSE gate[c]]
    BY <1>4 DEF LoseRecords
  <2>2. disk' \in {"whole", "cut"} /\ UNCHANGED <<scope, overlay, snapshot>>
    BY <1>4 DEF LoseRecords, prompt
  <2>3. CandidateTypeOK'
    BY <1>0, <1>1, <2>1, <2>2 DEF CandidateTypeOK, NoJob
  <2>4. \A c \in Candidates :
          /\ status'[c] = IF c \in gone THEN "lost" ELSE status[c]
          /\ gate'[c] = IF c \in gone THEN "none" ELSE gate[c]
    BY <2>1
  <2> QED BY <1>2, <2>2, <2>3, <2>4, PromptStays
<1>5. CASE LoseText /\ disk' = "whole" /\ UNCHANGED store
  <2>1. UNCHANGED <<scope, status, gate>> /\ Consented' = Consented
    BY <1>5 DEF store, Consented
  <2>2. overlay \in Seq(Candidates) /\ TracedBy(overlay, Consented, snapshot)
    BY DEF CandidateInv, CandidateTypeOK
  <2>3. CASE disk = "overlay" /\ UNCHANGED snapshot
    <3>1. PICK n \in 0..Len(overlay) : overlay' = SubSeq(overlay, 1, n)
      BY <1>5, <2>3 DEF LoseText
    <3>2. overlay' \in Seq(Candidates) /\ TracedBy(overlay', Consented, snapshot)
      BY <2>2, <3>1, TracedByLess
    <3>3. CandidateTypeOK'
      BY <1>0, <1>1, <1>5, <2>1, <2>3, <3>2 DEF CandidateTypeOK, NoJob
    <3>4. TracedBy(overlay, Consented, snapshot)'
      BY <2>1, <2>3, <3>2
    <3>5. \A c \in Candidates : SnapshotIsTraced(c)' /\ NotYetRun(c)'
      BY <2>1, <2>3 DEF CandidateInv, SnapshotIsTraced, NotYetRun, HasRun
    <3> QED BY <1>2, <1>5, <3>3, <3>4, <3>5 DEF CandidateInv
  <2>4. CASE disk = "snapshot" /\ UNCHANGED overlay
    <3>1. PICK n \in 0..Len(overlay) :
            snapshot' = [snapshot EXCEPT ![job.runs] = <<SubSeq(overlay, 1, n)>>]
      BY <1>5, <2>4 DEF LoseText
    <3>2. /\ job.runs \in Candidates /\ snapshot[job.runs] = <<overlay>> /\ Unplaced(job.runs)
          /\ HasRun(job.runs)
      BY <1>0, <2>4 DEF JobIsSound, CandidateTypeOK
    <3>3. /\ SubSeq(overlay, 1, n) \in Seq(Candidates)
          /\ TracedBy(SubSeq(overlay, 1, n), Consented, snapshot)
      BY <2>2, TracedByLess
    <3>4. <<SubSeq(overlay, 1, n)>> \in Seq(Seq(Candidates))
      BY <3>3
    <3>5. CandidateTypeOK'
      BY <1>0, <1>1, <1>5, <2>1, <2>4, <3>1, <3>2, <3>4 DEF CandidateTypeOK, NoJob
    <3>6. /\ snapshot'[job.runs] = <<SubSeq(overlay, 1, n)>>
          /\ \A c \in Candidates \ {job.runs} : snapshot'[c] = snapshot[c]
      BY <1>0, <3>1, <3>2 DEF CandidateTypeOK
    <3>7. ASSUME NEW o \in Seq(Candidates), TracedBy(o, Consented, snapshot),
                 \A k \in DOMAIN o : o[k] # job.runs
          PROVE  TracedBy(o, Consented', snapshot')
      <4>1. \A k \in DOMAIN o : o[k] \in Candidates
        BY ElementOfSeq, LenProperties
      <4> QED BY <2>1, <3>6, <3>7, <4>1, TracedStays
    <3>8. \A k \in DOMAIN overlay : overlay[k] # job.runs
      <4>1. snapshot[job.runs] # <<>> /\ snapshot[job.runs][1] = overlay
        BY <3>2
      <4> QED BY <3>2, <4>1 DEF Unplaced
    <3>9. TracedBy(overlay, Consented, snapshot)'
      BY <2>2, <2>4, <3>7, <3>8
    <3>10. TracedBy(SubSeq(overlay, 1, n), Consented', snapshot')
      <4>1. TracedBy(overlay, Consented', snapshot')
        BY <2>4, <3>9
      <4> QED BY <2>2, <4>1, TracedByLess
    <3>11. ASSUME NEW c \in Candidates PROVE SnapshotIsTraced(c)' /\ NotYetRun(c)'
      <4>1. CASE c = job.runs
        BY <2>1, <3>2, <3>3, <3>6, <3>10, <4>1 DEF SnapshotIsTraced, NotYetRun, HasRun
      <4>2. CASE c # job.runs
        <5>1. snapshot'[c] = snapshot[c] /\ NotYetRun(c) /\ SnapshotIsTraced(c)
          BY <3>6, <4>2 DEF CandidateInv
        <5>2. NotYetRun(c)'
          BY <2>1, <5>1 DEF NotYetRun, HasRun
        <5>3. CASE snapshot[c] = <<>>
          BY <5>1, <5>2, <5>3 DEF SnapshotIsTraced
        <5>4. CASE snapshot[c] # <<>>
          <6>1. PICK before \in Seq(Candidates) :
                  snapshot[c] = <<before>> /\ TracedBy(before, Consented, snapshot)
            BY <5>1, <5>4 DEF SnapshotIsTraced
          <6>2. snapshot[c][1] = before
            BY <6>1
          <6>3. \A k \in DOMAIN before : before[k] # job.runs
            BY <3>2, <5>4, <6>2 DEF Unplaced
          <6> QED BY <3>7, <5>1, <5>2, <6>1, <6>3 DEF SnapshotIsTraced
        <5> QED BY <5>3, <5>4
      <4> QED BY <4>1, <4>2
    <3> QED BY <1>2, <1>5, <3>5, <3>9, <3>11 DEF CandidateInv
  <2> QED BY <1>5, <2>3, <2>4 DEF LoseText
<1> QED BY <1>3, <1>4, <1>5 DEF EvolutionCrash

LEMMA CandidateInvIsInvariant == CandidateSpec => []CandidateInv
<1>1. CandidateInit => CandidateInv
  <2> SUFFICES ASSUME CandidateInit PROVE CandidateInv
    OBVIOUS
  <2>1. <<>> \in Seq(Candidates) /\ <<>> \in Seq(Seq(Candidates))
    OBVIOUS
  <2>2. CandidateTypeOK
    BY <2>1, CandidateAssumption DEF CandidateInit, CandidateTypeOK, NoJob
  <2>3. TracedBy(overlay, Consented, snapshot)
    BY DEF CandidateInit, TracedBy
  <2>4. \A c \in Candidates : SnapshotIsTraced(c) /\ NotYetRun(c)
    BY DEF CandidateInit, SnapshotIsTraced, NotYetRun
  <2>5. JobIsSound
    BY DEF CandidateInit, JobIsSound, NoJob
  <2> QED BY <2>2, <2>3, <2>4, <2>5 DEF CandidateInv
<1>2. CandidateInv /\ [CandidateNext]_candidateVars => CandidateInv'
  <2> SUFFICES ASSUME CandidateInv, [CandidateNext]_candidateVars PROVE CandidateInv'
    OBVIOUS
  <2>1. CASE UNCHANGED candidateVars
    <3>1. UNCHANGED <<scope, status, gate, overlay, snapshot, disk, job, evolutionCrashes>>
      BY <2>1 DEF candidateVars, store, prompt
    <3>2. CandidateTypeOK' /\ JobIsSound'
      BY <3>1 DEF CandidateInv, CandidateTypeOK, JobIsSound, HasRun, Unplaced
    <3> QED BY <3>1, <3>2, PromptStays
  <2>2. CASE CandidateNext
    BY <2>2, AddCandidateStep, ReviewStep, RollbackCandidateStep, RetireStep, AppendCandidateStep,
       NoFileStep, FinalizeStep, SnapshotStep, AppendBlockStep, RecordVerdictStep, FillStep,
       CrashStep DEF CandidateNext
  <2> QED BY <2>1, <2>2
<1> QED BY <1>1, <1>2, PTL DEF CandidateSpec

\* Each block of the prompt is of a candidate that the gate has verified, and rolling
\* it back gives the prompt before it, for any candidates and any crashes, also between
\* emptying a file and filling it (app/evolution_service.py); only a death in a rewriting
\* of candidates.jsonl may take a candidate's record away, and the verdict with it.
THEOREM PromptsAreTraceable == CandidateSpec => []PromptIsTraceable
<1>1. CandidateInv => PromptIsTraceable
  BY DEF CandidateInv, TracedBy, Consented, PromptIsTraceable
<1> QED BY <1>1, CandidateInvIsInvariant, PTL

-----------------------------------------------------------------------------
(* Reviews (BackgroundReviews) *)

\* What is counted and what is executed, from turn to turn.
LEMMA ObserveIs ==
  ASSUME NEW trace \in Traces, NEW c \in Nat
  PROVE  /\ Observe(c, trace) \in Nat /\ ExecutedBy(trace) \in Nat
         /\ Observe(c, trace) <= c + ExecutedBy(trace)
         /\ ExecutedBy(trace) <= MaxTools
         /\ Observe(c, trace) \in {c + ExecutedBy(trace), 0}
<1>1. /\ trace.kind \in {"plain", "skill_write", "failed"} /\ trace.tools \in 0..MaxTools
      /\ MaxTools \in Nat
  BY ReviewAssumption DEF Traces, MaxTools
<1> HIDE DEF MaxTools
<1>2. CASE trace.kind = "plain"
  BY <1>1, <1>2 DEF Observe, ExecutedBy
<1>3. CASE trace.kind = "skill_write"
  BY <1>1, <1>3 DEF Observe, ExecutedBy
<1>4. CASE trace.kind = "failed"
  BY <1>1, <1>4 DEF Observe, ExecutedBy
<1> QED BY <1>1, <1>2, <1>3, <1>4

LEMMA CountAfterIs ==
  ASSUME NEW past \in Seq(Traces)
  PROVE  /\ CountAfter(past) \in [0..Len(past) -> Nat] /\ CountAfter(past)[0] = 0
         /\ \A i \in 1..Len(past) :
              CountAfter(past)[i] = Observe(CountAfter(past)[i - 1], past[i])
<1> DEFINE step == [c \in Nat |-> [trace \in Traces |-> Observe(c, trace)]]
           Count(f) == [n \in 0..Len(past) |-> IF n = 0 THEN 0 ELSE Observe(f[n - 1], past[n])]
<1>1. Len(past) \in Nat /\ \A i \in 1..Len(past) : past[i] \in Traces
  BY LenProperties, ElementOfSeq
<1>2. step \in [Nat -> [Traces -> Nat]]
  <2>1. \A c \in Nat, trace \in Traces : Observe(c, trace) \in Nat /\ ExecutedBy(trace) \in Nat
    BY ObserveIs
  <2> QED BY <2>1
<1>3. \E f \in [0..Len(past) -> Nat] : IsFold(f, 0, step, past)
  <2> HIDE DEF step
  <2>1. 0 \in Nat
    OBVIOUS
  <2>2. past \in Seq(Traces)
    OBVIOUS
  <2> QED BY <1>2, <2>1, <2>2, FoldExists
<1>4. PICK f \in [0..Len(past) -> Nat] :
        f[0] = 0 /\ \A i \in 1..Len(past) : f[i] = step[f[i - 1]][past[i]]
  BY <1>3 DEF IsFold
<1>5. \A i \in 1..Len(past) : i - 1 \in 0..Len(past) /\ f[i - 1] \in Nat
  BY <1>1
<1>6. \A i \in 1..Len(past) : f[i] = Observe(f[i - 1], past[i])
  BY <1>1, <1>4, <1>5
<1> HIDE DEF step
<1>7. f = Count(f)
  <2>1. \A n \in 0..Len(past) : f[n] = IF n = 0 THEN 0 ELSE Observe(f[n - 1], past[n])
    BY <1>1, <1>4, <1>6
  <2> QED BY <2>1
<1>8. CountAfter(past) = CHOOSE g : g = Count(g)
  BY DEF CountAfter
<1>9. CountAfter(past) = Count(CountAfter(past))
  <2> HIDE DEF Count
  <2> QED BY <1>7, <1>8
<1> DEFINE h == CountAfter(past)
<1> HIDE DEF h
<1>10. h = Count(h)
  BY <1>9 DEF h
<1>11. h[0] = 0 /\ \A i \in 1..Len(past) : h[i] = Observe(h[i - 1], past[i])
  <2>1. 0 \in 0..Len(past) /\ \A i \in 1..Len(past) : i \in 0..Len(past) /\ i # 0
    BY <1>1
  <2>2. \A n \in 0..Len(past) : Count(h)[n] = IF n = 0 THEN 0 ELSE Observe(h[n - 1], past[n])
    OBVIOUS
  <2> HIDE DEF Count
  <2> QED BY <1>10, <2>1, <2>2
<1>12. \A i \in 0..Len(past) : h[i] = f[i]
  <2>1. GoOnAlike(h, f, Len(past))
    BY <1>4, <1>6, <1>11 DEF GoOnAlike
  <2>2. Len(past) \in Nat
    BY <1>1
  <2> QED BY <2>1, <2>2, FoldIsOne, Zenon
<1>13. h \in [0..Len(past) -> Nat]
  <2>1. \A i \in 0..Len(past) : h[i] \in Nat
    BY <1>12
  <2>2. DOMAIN h = 0..Len(past) /\ h = [n \in DOMAIN h |-> h[n]]
    BY <1>10
  <2> QED BY <2>1, <2>2
<1> QED BY <1>11, <1>13 DEF h

LEMMA ExecutedAfterIs ==
  ASSUME NEW past \in Seq(Traces)
  PROVE  /\ ExecutedAfter(past) \in [0..Len(past) -> Nat] /\ ExecutedAfter(past)[0] = 0
         /\ \A i \in 1..Len(past) :
              ExecutedAfter(past)[i] = ExecutedAfter(past)[i - 1] + ExecutedBy(past[i])
<1> DEFINE step == [c \in Nat |-> [trace \in Traces |-> (c + ExecutedBy(trace))]]
           Sum(f) == [n \in 0..Len(past) |-> IF n = 0 THEN 0 ELSE f[n - 1] + ExecutedBy(past[n])]
<1>1. Len(past) \in Nat /\ \A i \in 1..Len(past) : past[i] \in Traces
  BY LenProperties, ElementOfSeq
<1>2. step \in [Nat -> [Traces -> Nat]]
  <2>1. \A c \in Nat, trace \in Traces : Observe(c, trace) \in Nat /\ ExecutedBy(trace) \in Nat
    BY ObserveIs
  <2> QED BY <2>1
<1>3. \E f \in [0..Len(past) -> Nat] : IsFold(f, 0, step, past)
  <2> HIDE DEF step
  <2>1. 0 \in Nat
    OBVIOUS
  <2>2. past \in Seq(Traces)
    OBVIOUS
  <2> QED BY <1>2, <2>1, <2>2, FoldExists
<1>4. PICK f \in [0..Len(past) -> Nat] :
        f[0] = 0 /\ \A i \in 1..Len(past) : f[i] = step[f[i - 1]][past[i]]
  BY <1>3 DEF IsFold
<1>5. \A i \in 1..Len(past) : i - 1 \in 0..Len(past) /\ f[i - 1] \in Nat
  BY <1>1
<1>6. \A i \in 1..Len(past) : f[i] = f[i - 1] + ExecutedBy(past[i])
  BY <1>1, <1>4, <1>5
<1> HIDE DEF step
<1>7. f = Sum(f)
  <2>1. \A n \in 0..Len(past) : f[n] = IF n = 0 THEN 0 ELSE f[n - 1] + ExecutedBy(past[n])
    BY <1>1, <1>4, <1>6
  <2> QED BY <2>1
<1>8. ExecutedAfter(past) = CHOOSE g : g = Sum(g)
  BY DEF ExecutedAfter
<1>9. ExecutedAfter(past) = Sum(ExecutedAfter(past))
  <2> HIDE DEF Sum
  <2> QED BY <1>7, <1>8
<1> DEFINE h == ExecutedAfter(past)
<1> HIDE DEF h
<1>10. h = Sum(h)
  BY <1>9 DEF h
<1>11. h[0] = 0 /\ \A i \in 1..Len(past) : h[i] = h[i - 1] + ExecutedBy(past[i])
  <2>1. 0 \in 0..Len(past) /\ \A i \in 1..Len(past) : i \in 0..Len(past) /\ i # 0
    BY <1>1
  <2>2. \A n \in 0..Len(past) : Sum(h)[n] = IF n = 0 THEN 0 ELSE h[n - 1] + ExecutedBy(past[n])
    OBVIOUS
  <2> HIDE DEF Sum
  <2> QED BY <1>10, <2>1, <2>2
<1>12. \A i \in 0..Len(past) : h[i] = f[i]
  <2>1. GoOnAlike(h, f, Len(past))
    BY <1>4, <1>6, <1>11 DEF GoOnAlike
  <2>2. Len(past) \in Nat
    BY <1>1
  <2> QED BY <2>1, <2>2, FoldIsOne, Zenon
<1>13. h \in [0..Len(past) -> Nat]
  <2>1. \A i \in 0..Len(past) : h[i] \in Nat
    BY <1>12
  <2>2. DOMAIN h = 0..Len(past) /\ h = [n \in DOMAIN h |-> h[n]]
    BY <1>10
  <2> QED BY <2>1, <2>2
<1> QED BY <1>11, <1>13 DEF h

\* One turn more changes nothing of the turns before.
LEMMA OneMoreTurn ==
  ASSUME NEW past \in Seq(Traces), NEW trace \in Traces
  PROVE  /\ Append(past, trace) \in Seq(Traces) /\ Len(Append(past, trace)) = Len(past) + 1
         /\ Append(past, trace)[Len(past) + 1] = trace
         /\ CountAfter(Append(past, trace))[Len(past)] = CountAfter(past)[Len(past)]
         /\ ExecutedAfter(Append(past, trace))[Len(past)] = ExecutedAfter(past)[Len(past)]
<1> DEFINE more == Append(past, trace)
           n == Len(past)
<1>1. /\ more \in Seq(Traces) /\ Len(more) = n + 1 /\ more[n + 1] = trace /\ n \in Nat
      /\ \A i \in 1..n : more[i] = past[i]
  BY LenProperties
<1> HIDE DEF more
<1>2. \A i \in 1..n : i \in 1..Len(more)
  BY <1>1
<1>3. CountAfter(more)[n] = CountAfter(past)[n]
  <2>1. /\ CountAfter(past)[0] = 0
        /\ \A i \in 1..n : CountAfter(past)[i] = Observe(CountAfter(past)[i - 1], past[i])
    BY CountAfterIs
  <2>2. /\ CountAfter(more)[0] = 0
        /\ \A i \in 1..Len(more) : CountAfter(more)[i] = Observe(CountAfter(more)[i - 1], more[i])
    BY <1>1, CountAfterIs
  <2> DEFINE f == CountAfter(more)
             g == CountAfter(past)
  <2>3. GoOnAlike(f, g, n)
    BY <1>1, <1>2, <2>1, <2>2 DEF GoOnAlike
  <2>4. n \in Nat /\ n \in 0..n
    BY <1>1
  <2> HIDE DEF f, g, n
  <2>5. \A i \in 0..n : f[i] = g[i]
    BY <2>3, <2>4, FoldIsOne, Zenon
  <2> QED BY <2>4, <2>5 DEF f, g
<1>4. ExecutedAfter(more)[n] = ExecutedAfter(past)[n]
  <2>1. /\ ExecutedAfter(past)[0] = 0
        /\ \A i \in 1..n :
             ExecutedAfter(past)[i] = ExecutedAfter(past)[i - 1] + ExecutedBy(past[i])
    BY ExecutedAfterIs
  <2>2. /\ ExecutedAfter(more)[0] = 0
        /\ \A i \in 1..Len(more) :
             ExecutedAfter(more)[i] = ExecutedAfter(more)[i - 1] + ExecutedBy(more[i])
    BY <1>1, ExecutedAfterIs
  <2> DEFINE f == ExecutedAfter(more)
             g == ExecutedAfter(past)
  <2>3. GoOnAlike(f, g, n)
    BY <1>1, <1>2, <2>1, <2>2 DEF GoOnAlike
  <2>4. n \in Nat /\ n \in 0..n
    BY <1>1
  <2> HIDE DEF f, g, n
  <2>5. \A i \in 0..n : f[i] = g[i]
    BY <2>3, <2>4, FoldIsOne, Zenon
  <2> QED BY <2>4, <2>5 DEF f, g
<1> QED BY <1>1, <1>3, <1>4 DEF more

-----------------------------------------------------------------------------
\* Of f executions that count since a skill was written and e in all, a reviews are
\* paid for: b by those before, the others by f, of which c are left.
Credit(b, f, e, a, c, at) ==
  /\ SkillInterval * b + f <= e
  /\ SkillInterval * (a - b) <= f
  /\ SkillInterval * (a - b) + c <= f + (IF at = "acknowledge" THEN SkillInterval ELSE 0)
  /\ at = "submit" => SkillInterval * (a - b) + SkillInterval <= f
  /\ c <= f

\* How many of the traces the session has counted: the latest may be to come.
CountedSoFar ==
  IF sessionAt = "observe" /\ Len(traces) > 0 /\ Len(traces) \notin observed
  THEN Len(traces) - 1 ELSE Len(traces)
CreditHolds ==
  \E b \in 0..asked :
    Credit(b, CountAfter(traces)[CountedSoFar], ExecutedAfter(traces)[CountedSoFar],
           asked, executions, sessionAt)
LatestIsObserved ==
  /\ observed \subseteq 1..Len(traces)
  /\ sessionAt \in {"idle", "ready", "submit", "acknowledge"} /\ Len(traces) > 0 =>
       Len(traces) \in observed
  /\ sessionAt = "new" => executions = 0
ReviewInv ==
  /\ traces \in Seq(Traces) /\ asked \in Nat /\ executions \in Nat
  /\ sessionAt \in {"new", "idle", "ready", "observe", "submit", "acknowledge"}
  /\ CreditHolds /\ LatestIsObserved

\* Multiplication by the interval
LEMMA Intervals ==
  ASSUME NEW b \in Nat, NEW a \in Nat, b <= a
  PROVE  /\ SkillInterval * b \in Nat /\ SkillInterval * (a - b) \in Nat
         /\ SkillInterval * a = SkillInterval * b + SkillInterval * (a - b)
         /\ SkillInterval * ((a + 1) - b) = SkillInterval * (a - b) + SkillInterval
<1>1. SkillInterval \in Nat /\ a - b \in Nat
  BY ReviewAssumption
<1>2. \A i, j \in Nat : SkillInterval * i \in Nat /\ SkillInterval * (i + j) = SkillInterval * i + SkillInterval * j
  BY <1>1
<1>3. a = b + (a - b) /\ (a + 1) - b = (a - b) + 1 /\ SkillInterval * 1 = SkillInterval
  BY <1>1
<1> QED BY <1>1, <1>2, <1>3

\* Whole intervals that are left out leave the rest unspent.
LEMMA Remainder ==
  ASSUME NEW f \in Nat, NEW x \in Nat, SkillInterval * x <= f
  PROVE  /\ f % SkillInterval \in Nat /\ f % SkillInterval <= f
         /\ SkillInterval * x + (f % SkillInterval) <= f
<1> DEFINE q == f \div SkillInterval
           r == f % SkillInterval
<1>1. SkillInterval \in Nat /\ SkillInterval > 0
  BY ReviewAssumption
<1>2. q \in Nat /\ r \in Nat /\ f = SkillInterval * q + r /\ r < SkillInterval
  BY <1>1
<1> HIDE DEF q, r
<1>3. x <= q
  <2>1. SUFFICES ASSUME x > q PROVE FALSE
    BY <1>2
  <2> DEFINE y == x - (q + 1)
  <2>2. y \in Nat /\ x = (q + 1) + y
    BY <1>2, <2>1
  <2> HIDE DEF y
  <2>3. SkillInterval * x = SkillInterval * q + SkillInterval + SkillInterval * y
    BY <1>1, <1>2, <2>2
  <2>4. SkillInterval * y \in Nat /\ SkillInterval * q \in Nat
    BY <1>1, <1>2, <2>2
  <2> QED BY <1>1, <1>2, <2>3, <2>4
<1>4. SkillInterval * x <= SkillInterval * q
  <2> DEFINE y == q - x
  <2>1. y \in Nat /\ q = x + y
    BY <1>2, <1>3
  <2> HIDE DEF y
  <2>2. SkillInterval * q = SkillInterval * x + SkillInterval * y /\ SkillInterval * y \in Nat
    BY <1>1, <1>2, <2>1
  <2>3. SkillInterval * x \in Nat
    BY <1>1
  <2> QED BY <2>2, <2>3
<1>5. SkillInterval * x \in Nat /\ SkillInterval * q \in Nat
  BY <1>1, <1>2
<1>6. r <= f /\ SkillInterval * x + r <= f
  BY <1>2, <1>4, <1>5
<1> QED BY <1>2, <1>6 DEF r

\* With fewer executions left, and nothing asked for, the credit holds.
LEMMA LessIsLeft ==
  ASSUME NEW a \in Nat, NEW b \in 0..a, NEW f \in Nat, NEW e \in Nat, NEW c \in Nat, NEW at,
         Credit(b, f, e, a, c, at), NEW less \in Nat, less <= c, NEW to,
         to # "submit" \/ to = at, to = at \/ at # "acknowledge" \/ less = 0
  PROVE  Credit(b, f, e, a, less, to)
<1>1. b \in Nat /\ b <= a /\ SkillInterval \in Nat
  BY ReviewAssumption
<1>2. SkillInterval * b \in Nat /\ SkillInterval * (a - b) \in Nat
  BY <1>1, Intervals
<1> DEFINE x == SkillInterval * (a - b)
<1>3. /\ SkillInterval * b + f <= e /\ x <= f
      /\ x + c <= f + (IF at = "acknowledge" THEN SkillInterval ELSE 0)
      /\ at = "submit" => x + SkillInterval <= f
      /\ c <= f
  BY DEF Credit
<1> HIDE DEF x
<1>4. x \in Nat
  BY <1>2 DEF x
<1>5. x + less <= f + (IF to = "acknowledge" THEN SkillInterval ELSE 0)
  BY <1>1, <1>3, <1>4
<1>6. to = "submit" => x + SkillInterval <= f
  BY <1>3
<1>7. less <= f
  BY <1>3
<1> QED BY <1>3, <1>5, <1>6, <1>7 DEF Credit, x

\* A turn is counted: a skill write begins anew.
LEMMA LatestIsCounted ==
  ASSUME NEW a \in Nat, NEW b \in 0..a, NEW f \in Nat, NEW e \in Nat, NEW c \in Nat,
         Credit(b, f, e, a, c, "observe"), NEW trace \in Traces
  PROVE  /\ Observe(f, trace) \in Nat /\ e + ExecutedBy(trace) \in Nat
         /\ Observe(c, trace) \in Nat
         /\ \E d \in 0..a : Credit(d, Observe(f, trace), e + ExecutedBy(trace), a,
                                   Observe(c, trace), "observe")
<1>1. b \in Nat /\ b <= a /\ SkillInterval \in Nat
  BY ReviewAssumption
<1>2. /\ SkillInterval * b \in Nat /\ SkillInterval * (a - b) \in Nat
      /\ SkillInterval * a = SkillInterval * b + SkillInterval * (a - b)
  BY <1>1, Intervals
<1> DEFINE x == SkillInterval * (a - b)
           t == ExecutedBy(trace)
<1>3. /\ SkillInterval * b + f <= e /\ x <= f /\ x + c <= f /\ c <= f
  BY DEF Credit
<1>4. /\ t \in Nat /\ Observe(f, trace) \in Nat /\ Observe(c, trace) \in Nat
  BY ObserveIs
<1>5. x \in Nat
  BY <1>2
<1>6. CASE trace.kind = "skill_write"
  <2>1. Observe(f, trace) = 0 /\ Observe(c, trace) = 0 /\ t = 0
    BY <1>6 DEF Observe, ExecutedBy
  <2>2. SkillInterval * (a - a) = 0
    BY <1>1
  <2>3. SkillInterval * a + 0 <= e + 0
    BY <1>2, <1>3, <1>5
  <2>4. a \in 0..a
    OBVIOUS
  <2>5. Credit(a, 0, e + 0, a, 0, "observe")
    BY <2>2, <2>3 DEF Credit
  <2> QED BY <1>4, <2>1, <2>4, <2>5
<1>7. CASE trace.kind # "skill_write"
  <2>1. PICK u \in {0, t} : Observe(f, trace) = f + u /\ Observe(c, trace) = c + u
    <3>1. CASE trace.kind = "failed"
      BY <3>1 DEF Observe
    <3>2. CASE trace.kind = "plain"
      BY <3>2 DEF Observe, ExecutedBy
    <3> QED BY <1>7, <3>1, <3>2 DEF Traces
  <2> HIDE DEF x, t
  <2>2. /\ SkillInterval * b + (f + u) <= e + t /\ x <= f + u /\ x + (c + u) <= f + u
        /\ c + u <= f + u
    BY <1>2, <1>3, <1>4, <1>5, <2>1
  <2>3. Credit(b, f + u, e + t, a, c + u, "observe")
    BY <2>2 DEF Credit, x
  <2> QED BY <1>4, <2>1, <2>3 DEF t
<1> QED BY <1>6, <1>7

LEMMA ReviewFacts ==
  ASSUME ReviewInv
  PROVE  /\ Len(traces) \in Nat /\ CountedSoFar \in 0..Len(traces)
         /\ \A n \in 0..Len(traces) :
              CountAfter(traces)[n] \in Nat /\ ExecutedAfter(traces)[n] \in Nat
         /\ \A n \in 1..Len(traces) :
              /\ traces[n] \in Traces
              /\ CountAfter(traces)[n] = Observe(CountAfter(traces)[n - 1], traces[n])
              /\ ExecutedAfter(traces)[n] = ExecutedAfter(traces)[n - 1] + ExecutedBy(traces[n])
<1>1. traces \in Seq(Traces)
  BY DEF ReviewInv
<1>2. Len(traces) \in Nat
  BY <1>1, LenProperties
<1>3. CountedSoFar \in 0..Len(traces)
  BY <1>2 DEF CountedSoFar
<1>4. \A n \in 0..Len(traces) : CountAfter(traces)[n] \in Nat /\ ExecutedAfter(traces)[n] \in Nat
  BY <1>1, CountAfterIs, ExecutedAfterIs
<1>5. \A n \in 1..Len(traces) : traces[n] \in Traces
  BY <1>1, ElementOfSeq
<1>6. \A n \in 1..Len(traces) :
        CountAfter(traces)[n] = Observe(CountAfter(traces)[n - 1], traces[n])
  BY <1>1, CountAfterIs
<1>7. \A n \in 1..Len(traces) :
        ExecutedAfter(traces)[n] = ExecutedAfter(traces)[n - 1] + ExecutedBy(traces[n])
  BY <1>1, ExecutedAfterIs
<1> QED BY <1>2, <1>3, <1>4, <1>5, <1>6, <1>7

\* Where the turns that are counted stay the same.
LEMMA CreditStays ==
  ASSUME ReviewInv, UNCHANGED <<traces, asked>>, CountedSoFar' = CountedSoFar,
         executions' \in Nat, executions' <= executions,
         sessionAt' # "submit" \/ sessionAt' = sessionAt,
         sessionAt' = sessionAt \/ sessionAt # "acknowledge" \/ executions' = 0
  PROVE  CreditHolds'
<1> DEFINE f == CountAfter(traces)[CountedSoFar]
           e == ExecutedAfter(traces)[CountedSoFar]
<1>1. f \in Nat /\ e \in Nat /\ asked \in Nat /\ executions \in Nat
  BY ReviewFacts DEF ReviewInv
<1>2. PICK b \in 0..asked : Credit(b, f, e, asked, executions, sessionAt)
  BY DEF ReviewInv, CreditHolds
<1> HIDE DEF f, e
<1>3. Credit(b, f, e, asked, executions', sessionAt')
  BY <1>1, <1>2, LessIsLeft
<1> QED BY <1>2, <1>3 DEF CreditHolds, f, e

LEMMA ReviewInvHolds == ReviewInit => ReviewInv
<1> SUFFICES ASSUME ReviewInit PROVE ReviewInv
  OBVIOUS
<1>1. /\ traces = <<>> /\ executions = 0 /\ observed = {} /\ sessionAt = "new" /\ asked = 0
  BY DEF ReviewInit
<1>2. traces \in Seq(Traces) /\ Len(traces) = 0
  BY <1>1
<1>3. CountedSoFar = 0
  BY <1>1, <1>2 DEF CountedSoFar
<1>4. CountAfter(traces)[0] = 0 /\ ExecutedAfter(traces)[0] = 0
  BY <1>2, CountAfterIs, ExecutedAfterIs
<1>5. Credit(0, 0, 0, 0, 0, "new")
  <2>1. SkillInterval * 0 = 0 /\ 0 - 0 = 0
    BY ReviewAssumption
  <2> QED BY <2>1 DEF Credit
<1>6. CreditHolds
  BY <1>1, <1>3, <1>4, <1>5 DEF CreditHolds
<1> QED BY <1>1, <1>2, <1>6 DEF ReviewInv, LatestIsObserved

-----------------------------------------------------------------------------
LEMMA HydrateKeeps == ASSUME ReviewInv, Hydrate PROVE ReviewInv'
<1>1. /\ sessionAt \in {"new", "idle"} /\ sessionAt' = "ready"
      /\ UNCHANGED <<traces, asked>>
      /\ \/ sessionAt = "new" /\ executions' = Recounted(traces) /\ observed' = DOMAIN traces
         \/ sessionAt # "new" /\ UNCHANGED <<executions, observed>>
  BY DEF Hydrate, policy
<1>2. CountedSoFar = Len(traces) /\ CountedSoFar' = Len(traces)
  BY <1>1 DEF CountedSoFar
<1>3. /\ traces \in Seq(Traces) /\ asked \in Nat /\ executions \in Nat /\ LatestIsObserved
      /\ Len(traces) \in Nat
  BY ReviewFacts DEF ReviewInv
<1>4. CASE sessionAt = "new" /\ executions' = Recounted(traces) /\ observed' = DOMAIN traces
  <2> DEFINE f == CountAfter(traces)[Len(traces)]
             e == ExecutedAfter(traces)[Len(traces)]
  <2>1. f \in Nat /\ e \in Nat
    BY <1>3, ReviewFacts
  <2>2. PICK b \in 0..asked : Credit(b, f, e, asked, executions, sessionAt)
    BY <1>2 DEF ReviewInv, CreditHolds
  <2>3. executions' = f % SkillInterval
    BY <1>4 DEF Recounted
  <2> HIDE DEF f, e
  <2> DEFINE x == SkillInterval * (asked - b)
  <2>4. SkillInterval * b + f <= e /\ x <= f
    BY <2>2 DEF Credit
  <2>5. asked - b \in Nat /\ x \in Nat
    BY <1>3, ReviewAssumption
  <2>6. /\ f % SkillInterval \in Nat /\ f % SkillInterval <= f /\ x + (f % SkillInterval) <= f
    BY <2>1, <2>4, <2>5, Remainder
  <2> HIDE DEF x
  <2>7. executions' \in Nat /\ executions' <= f /\ x + executions' <= f + 0
    BY <2>1, <2>3, <2>5, <2>6
  <2>8. Credit(b, f, e, asked, executions', "ready")
    BY <2>4, <2>7 DEF Credit, x
  <2>9. CreditHolds'
    BY <1>1, <1>2, <2>2, <2>8 DEF CreditHolds, f, e
  <2>10. LatestIsObserved'
    <3>1. DOMAIN traces = 1..Len(traces)
      BY <1>3, LenProperties
    <3> QED BY <1>1, <1>3, <1>4, <3>1 DEF LatestIsObserved
  <2> QED BY <1>1, <1>3, <2>7, <2>9, <2>10 DEF ReviewInv
<1>5. CASE sessionAt # "new" /\ UNCHANGED <<executions, observed>>
  <2>1. CreditHolds'
    BY <1>1, <1>2, <1>3, <1>5, CreditStays
  <2>2. LatestIsObserved'
    BY <1>1, <1>3, <1>5 DEF LatestIsObserved
  <2> QED BY <1>1, <1>3, <1>5, <2>1, <2>2 DEF ReviewInv
<1> QED BY <1>1, <1>4, <1>5

LEMMA RunTurnKeeps == ASSUME ReviewInv, RunTurn PROVE ReviewInv'
<1>1. /\ sessionAt = "ready" /\ sessionAt' = "observe"
      /\ (\E trace \in Traces : traces' = Append(traces, trace)) \/ UNCHANGED traces
      /\ UNCHANGED <<executions, observed, asked>>
  BY DEF RunTurn, policy
<1>2. /\ traces \in Seq(Traces) /\ asked \in Nat /\ executions \in Nat /\ LatestIsObserved
      /\ Len(traces) \in Nat
  BY ReviewFacts DEF ReviewInv
<1>3. CountedSoFar = Len(traces)
  BY <1>1 DEF CountedSoFar
<1>4. CASE UNCHANGED traces
  <2>1. CountedSoFar' = CountedSoFar
    BY <1>1, <1>2, <1>3, <1>4 DEF CountedSoFar, LatestIsObserved
  <2>2. CreditHolds'
    BY <1>1, <1>2, <1>4, <2>1, CreditStays
  <2>3. LatestIsObserved'
    BY <1>1, <1>2, <1>4 DEF LatestIsObserved
  <2> QED BY <1>1, <1>2, <1>4, <2>2, <2>3 DEF ReviewInv
<1>5. CASE \E trace \in Traces : traces' = Append(traces, trace)
  <2>1. PICK trace \in Traces : traces' = Append(traces, trace)
    BY <1>5
  <2>2. /\ traces' \in Seq(Traces) /\ Len(traces') = Len(traces) + 1
        /\ CountAfter(traces')[Len(traces)] = CountAfter(traces)[Len(traces)]
        /\ ExecutedAfter(traces')[Len(traces)] = ExecutedAfter(traces)[Len(traces)]
    BY <1>2, <2>1, OneMoreTurn
  <2>3. observed' \subseteq 1..Len(traces) /\ Len(traces') \notin observed'
    BY <1>1, <1>2, <2>2 DEF LatestIsObserved
  <2>4. CountedSoFar' = Len(traces)
    BY <1>1, <1>2, <2>2, <2>3 DEF CountedSoFar
  <2>5. PICK b \in 0..asked :
          Credit(b, CountAfter(traces)[Len(traces)], ExecutedAfter(traces)[Len(traces)],
                 asked, executions, sessionAt)
    BY <1>3 DEF ReviewInv, CreditHolds
  <2>6. Credit(b, CountAfter(traces)[Len(traces)], ExecutedAfter(traces)[Len(traces)],
               asked, executions, "observe")
    BY <1>1, <2>5 DEF Credit
  <2>7. CreditHolds'
    BY <1>1, <2>2, <2>4, <2>5, <2>6 DEF CreditHolds
  <2>8. LatestIsObserved'
    BY <1>1, <1>2, <2>2, <2>3 DEF LatestIsObserved
  <2> QED BY <1>1, <1>2, <2>2, <2>7, <2>8 DEF ReviewInv
<1> QED BY <1>1, <1>4, <1>5

\* Of the latest turn, whether it was counted or is counted now
LEMMA LatestCredit ==
  ASSUME ReviewInv, sessionAt = "observe", Len(traces) > 0
  PROVE  /\ ObserveOnce(executions, Len(traces)) \in Nat
         /\ \E b \in 0..asked :
              Credit(b, CountAfter(traces)[Len(traces)], ExecutedAfter(traces)[Len(traces)],
                     asked, ObserveOnce(executions, Len(traces)), "observe")
<1> DEFINE n == Len(traces)
<1>1. n \in Nat /\ n \in 1..n /\ n - 1 \in 0..n /\ asked \in Nat /\ executions \in Nat
  BY ReviewFacts DEF ReviewInv
<1>2. CASE n \in observed
  <2>1. CountedSoFar = n /\ ObserveOnce(executions, n) = executions
    BY <1>2 DEF CountedSoFar, ObserveOnce
  <2> QED BY <1>1, <2>1 DEF ReviewInv, CreditHolds
<1>3. CASE n \notin observed
  <2>1. CountedSoFar = n - 1 /\ ObserveOnce(executions, n) = Observe(executions, traces[n])
    BY <1>3 DEF CountedSoFar, ObserveOnce
  <2> DEFINE f == CountAfter(traces)[n - 1]
             e == ExecutedAfter(traces)[n - 1]
  <2>2. /\ f \in Nat /\ e \in Nat /\ traces[n] \in Traces
        /\ CountAfter(traces)[n] = Observe(f, traces[n])
        /\ ExecutedAfter(traces)[n] = e + ExecutedBy(traces[n])
    BY <1>1, ReviewFacts
  <2>3. PICK b \in 0..asked : Credit(b, f, e, asked, executions, "observe")
    BY <2>1 DEF ReviewInv, CreditHolds
  <2> HIDE DEF f, e, n
  <2>4. /\ Observe(executions, traces[n]) \in Nat
        /\ \E d \in 0..asked : Credit(d, Observe(f, traces[n]), e + ExecutedBy(traces[n]), asked,
                                      Observe(executions, traces[n]), "observe")
    BY <1>1, <2>2, <2>3, LatestIsCounted
  <2> QED BY <2>1, <2>2, <2>4 DEF n
<1> QED BY <1>2, <1>3

LEMMA DecideKeeps == ASSUME ReviewInv, Decide PROVE ReviewInv'
<1>1. /\ sessionAt = "observe" /\ UNCHANGED <<traces, asked>>
      /\ \/ traces = <<>> /\ sessionAt' = "idle" /\ UNCHANGED <<executions, observed>>
         \/ /\ traces # <<>>
            /\ executions' = ObserveOnce(executions, Len(traces))
            /\ observed' = observed \cup {Len(traces)}
            /\ sessionAt' = IF executions' >= SkillInterval THEN "submit" ELSE "idle"
  BY DEF Decide, policy
<1>2. /\ traces \in Seq(Traces) /\ asked \in Nat /\ executions \in Nat /\ LatestIsObserved
      /\ Len(traces) \in Nat
  BY ReviewFacts DEF ReviewInv
<1>3. CASE traces = <<>> /\ sessionAt' = "idle" /\ UNCHANGED <<executions, observed>>
  <2>1. Len(traces) = 0
    BY <1>3
  <2>2. CountedSoFar' = CountedSoFar
    BY <1>1, <1>3, <2>1 DEF CountedSoFar
  <2>3. CreditHolds'
    BY <1>1, <1>2, <1>3, <2>2, CreditStays
  <2>4. LatestIsObserved'
    BY <1>1, <1>2, <1>3, <2>1 DEF LatestIsObserved
  <2> QED BY <1>1, <1>2, <1>3, <2>3, <2>4 DEF ReviewInv
<1>4. CASE /\ traces # <<>>
           /\ executions' = ObserveOnce(executions, Len(traces))
           /\ observed' = observed \cup {Len(traces)}
           /\ sessionAt' = IF executions' >= SkillInterval THEN "submit" ELSE "idle"
  <2>1. Len(traces) > 0 /\ Len(traces) \in 1..Len(traces)
    BY <1>2, <1>4, EmptySeq
  <2>2. CountedSoFar' = Len(traces)
    BY <1>1, <1>4 DEF CountedSoFar
  <2> DEFINE f == CountAfter(traces)[Len(traces)]
             e == ExecutedAfter(traces)[Len(traces)]
  <2>3. f \in Nat /\ e \in Nat
    BY <1>2, ReviewFacts
  <2>4. /\ executions' \in Nat
        /\ \E b \in 0..asked : Credit(b, f, e, asked, executions', "observe")
    BY <1>1, <1>4, <2>1, LatestCredit
  <2>5. PICK b \in 0..asked : Credit(b, f, e, asked, executions', "observe")
    BY <2>4
  <2> HIDE DEF f, e
  <2>6. Credit(b, f, e, asked, executions', sessionAt')
    <3> DEFINE x == SkillInterval * (asked - b)
    <3>1. SkillInterval * b + f <= e /\ x <= f /\ x + executions' <= f /\ executions' <= f
      BY <2>3, <2>5 DEF Credit
    <3>2. x \in Nat /\ SkillInterval \in Nat
      <4>1. asked - b \in Nat
        BY <1>2
      <4> QED BY <4>1, ReviewAssumption
    <3> HIDE DEF x
    <3>3. sessionAt' = "submit" => x + SkillInterval <= f
      BY <1>4, <2>3, <2>4, <3>1, <3>2
    <3>4. sessionAt' # "acknowledge" /\ x + executions' <= f + 0
      BY <1>4, <2>3, <2>4, <3>1, <3>2
    <3> QED BY <3>1, <3>3, <3>4 DEF Credit, x
  <2>7. CreditHolds'
    BY <1>1, <2>2, <2>5, <2>6 DEF CreditHolds, f, e
  <2>8. LatestIsObserved'
    BY <1>1, <1>2, <1>4, <2>1 DEF LatestIsObserved
  <2>9. sessionAt' \in {"submit", "idle"}
    BY <1>4
  <2> QED BY <1>1, <1>2, <2>4, <2>7, <2>8, <2>9 DEF ReviewInv
<1> QED BY <1>1, <1>3, <1>4

LEMMA SubmitReviewKeeps == ASSUME ReviewInv, SubmitReview PROVE ReviewInv'
<1>1. /\ sessionAt = "submit" /\ UNCHANGED <<traces, executions, observed>>
      /\ \/ asked' = asked + 1 /\ sessionAt' = "acknowledge"
         \/ sessionAt' = "idle" /\ UNCHANGED asked
  BY DEF SubmitReview, policy
<1>2. /\ traces \in Seq(Traces) /\ asked \in Nat /\ executions \in Nat /\ LatestIsObserved
      /\ Len(traces) \in Nat
  BY ReviewFacts DEF ReviewInv
<1>3. CountedSoFar' = CountedSoFar
  BY <1>1 DEF CountedSoFar
<1>4. LatestIsObserved'
  BY <1>1, <1>2 DEF LatestIsObserved
<1>5. CASE sessionAt' = "idle" /\ UNCHANGED asked
  <2>1. CreditHolds'
    BY <1>1, <1>2, <1>3, <1>5, CreditStays
  <2> QED BY <1>1, <1>2, <1>4, <1>5, <2>1 DEF ReviewInv
<1>6. CASE asked' = asked + 1 /\ sessionAt' = "acknowledge"
  <2> DEFINE f == CountAfter(traces)[CountedSoFar]
             e == ExecutedAfter(traces)[CountedSoFar]
  <2>1. f \in Nat /\ e \in Nat
    BY ReviewFacts
  <2>2. PICK b \in 0..asked : Credit(b, f, e, asked, executions, "submit")
    BY <1>1 DEF ReviewInv, CreditHolds
  <2> HIDE DEF f, e
  <2> DEFINE x == SkillInterval * (asked - b)
  <2>3. /\ SkillInterval * b + f <= e /\ x + executions <= f + 0 /\ x + SkillInterval <= f
        /\ executions <= f
    BY <2>2 DEF Credit
  <2>4. x \in Nat /\ SkillInterval \in Nat
    <3>1. asked - b \in Nat
      BY <1>2
    <3> QED BY <3>1, ReviewAssumption
  <2>5. SkillInterval * ((asked + 1) - b) = x + SkillInterval
    BY <1>2, Intervals
  <2> HIDE DEF x
  <2>6. Credit(b, f, e, asked + 1, executions, "acknowledge")
    BY <1>2, <2>1, <2>3, <2>4, <2>5 DEF Credit
  <2>7. b \in 0..(asked + 1)
    BY <1>2
  <2>8. CreditHolds'
    BY <1>1, <1>3, <1>6, <2>6, <2>7 DEF CreditHolds, f, e
  <2> QED BY <1>1, <1>2, <1>4, <1>6, <2>8 DEF ReviewInv
<1> QED BY <1>1, <1>5, <1>6

LEMMA AcknowledgeKeeps == ASSUME ReviewInv, Acknowledge PROVE ReviewInv'
<1>1. /\ sessionAt = "acknowledge" /\ sessionAt' = "idle"
      /\ executions' = IF executions < SkillInterval THEN 0 ELSE executions - SkillInterval
      /\ UNCHANGED <<traces, observed, asked>>
  BY DEF Acknowledge
<1>2. /\ traces \in Seq(Traces) /\ asked \in Nat /\ executions \in Nat /\ LatestIsObserved
      /\ Len(traces) \in Nat
  BY ReviewFacts DEF ReviewInv
<1>3. CountedSoFar' = CountedSoFar
  BY <1>1 DEF CountedSoFar
<1>4. LatestIsObserved'
  BY <1>1, <1>2 DEF LatestIsObserved
<1> DEFINE f == CountAfter(traces)[CountedSoFar]
           e == ExecutedAfter(traces)[CountedSoFar]
<1>5. f \in Nat /\ e \in Nat
  BY ReviewFacts
<1>6. PICK b \in 0..asked : Credit(b, f, e, asked, executions, "acknowledge")
  BY <1>1 DEF ReviewInv, CreditHolds
<1> HIDE DEF f, e
<1> DEFINE x == SkillInterval * (asked - b)
<1>7. /\ SkillInterval * b + f <= e /\ x <= f /\ x + executions <= f + SkillInterval
      /\ executions <= f
  BY <1>6 DEF Credit
<1>8. x \in Nat /\ SkillInterval \in Nat
  <2>1. asked - b \in Nat
    BY <1>2
  <2> QED BY <2>1, ReviewAssumption
<1> HIDE DEF x
<1>9. executions' \in Nat /\ x + executions' <= f + 0 /\ executions' <= f
  BY <1>1, <1>2, <1>5, <1>7, <1>8
<1>10. Credit(b, f, e, asked, executions', "idle")
  BY <1>7, <1>9 DEF Credit, x
<1>11. CreditHolds'
  BY <1>1, <1>3, <1>6, <1>10 DEF CreditHolds, f, e
<1> QED BY <1>1, <1>2, <1>4, <1>9, <1>11 DEF ReviewInv

\* The worker's thread, and the end of the application
LEMMA WorkerKeeps ==
  ASSUME ReviewInv, Drain \/ TakeReview \/ RunReview \/ ResetSkill \/ TaskDone
  PROVE  ReviewInv'
<1>1. /\ UNCHANGED <<traces, observed, sessionAt, asked>>
      /\ executions' = executions \/ executions' = 0
  BY DEF Drain, TakeReview, RunReview, ResetSkill, TaskDone, policy
<1>2. /\ traces \in Seq(Traces) /\ asked \in Nat /\ executions \in Nat /\ LatestIsObserved
  BY DEF ReviewInv
<1>3. CountedSoFar' = CountedSoFar
  BY <1>1 DEF CountedSoFar
<1>4. CreditHolds'
  <2>1. executions' \in Nat /\ executions' <= executions
    BY <1>1, <1>2
  <2> QED BY <1>1, <1>3, <2>1, CreditStays
<1>5. LatestIsObserved'
  BY <1>1, <1>2 DEF LatestIsObserved
<1> QED BY <1>1, <1>2, <1>4, <1>5 DEF ReviewInv

LEMMA ReviewCrashKeeps == ASSUME ReviewInv, ReviewCrash PROVE ReviewInv'
<1>1. /\ sessionAt # "new" /\ executions' = 0 /\ observed' = {} /\ sessionAt' = "new"
      /\ UNCHANGED <<traces, asked>>
  BY DEF ReviewCrash
<1>2. /\ traces \in Seq(Traces) /\ asked \in Nat /\ executions \in Nat /\ LatestIsObserved
      /\ Len(traces) \in Nat
  BY ReviewFacts DEF ReviewInv
<1>3. CountedSoFar' = Len(traces)
  BY <1>1 DEF CountedSoFar
<1>4. CreditHolds'
  <2>1. CASE CountedSoFar = Len(traces)
    BY <1>1, <1>2, <1>3, <2>1, CreditStays
  <2>2. CASE CountedSoFar # Len(traces)
    <3> DEFINE f == CountAfter(traces)[Len(traces)]
               e == ExecutedAfter(traces)[Len(traces)]
               c == ObserveOnce(executions, Len(traces))
    <3>1. sessionAt = "observe" /\ Len(traces) > 0
      BY <2>2 DEF CountedSoFar
    <3>2. f \in Nat /\ e \in Nat
      BY <1>2, ReviewFacts
    <3>3. c \in Nat /\ \E b \in 0..asked : Credit(b, f, e, asked, c, "observe")
      BY <3>1, LatestCredit
    <3>4. PICK b \in 0..asked : Credit(b, f, e, asked, c, "observe")
      BY <3>3
    <3> HIDE DEF f, e, c
    <3>5. 0 \in Nat /\ 0 <= c
      BY <3>3
    <3>6. Credit(b, f, e, asked, 0, "new")
      BY <1>2, <3>2, <3>3, <3>4, <3>5, LessIsLeft
    <3> QED BY <1>1, <1>3, <3>4, <3>6 DEF CreditHolds, f, e
  <2> QED BY <2>1, <2>2
<1>5. LatestIsObserved'
  BY <1>1, <1>2 DEF LatestIsObserved
<1> QED BY <1>1, <1>2, <1>4, <1>5 DEF ReviewInv

LEMMA ReviewInvKept == ASSUME ReviewInv, [ReviewNext]_reviewVars PROVE ReviewInv'
<1>1. CASE Hydrate
  BY <1>1, HydrateKeeps
<1>2. CASE RunTurn
  BY <1>2, RunTurnKeeps
<1>3. CASE Decide
  BY <1>3, DecideKeeps
<1>4. CASE SubmitReview
  BY <1>4, SubmitReviewKeeps
<1>5. CASE Acknowledge
  BY <1>5, AcknowledgeKeeps
<1>6. CASE Drain \/ TakeReview \/ RunReview \/ ResetSkill \/ TaskDone
  BY <1>6, WorkerKeeps
<1>7. CASE ReviewCrash
  BY <1>7, ReviewCrashKeeps
<1>8. CASE UNCHANGED reviewVars
  <2>1. UNCHANGED <<traces, executions, observed, sessionAt, asked>>
    BY <1>8 DEF reviewVars, policy
  <2> QED BY <2>1 DEF ReviewInv, CreditHolds, CountedSoFar, LatestIsObserved
<1> QED BY <1>1, <1>2, <1>3, <1>4, <1>5, <1>6, <1>7, <1>8 DEF ReviewNext

\* Each review has an interval of tool executions of its own: those before the last
\* skill write pay for the reviews before it, and what the session still counts,
\* or counts again after a restart, comes on top of those it has paid for.
THEOREM ReviewsArePaid == ReviewSpec => []ReviewsArePaidFor
<1>1. ASSUME ReviewInv PROVE ReviewsArePaidFor
  <2> DEFINE n == Len(traces)
             k == CountedSoFar
             f == CountAfter(traces)[k]
             e == ExecutedAfter(traces)[k]
  <2>1. PICK b \in 0..asked : Credit(b, f, e, asked, executions, sessionAt)
    BY <1>1 DEF ReviewInv, CreditHolds
  <2>2. asked \in Nat /\ f \in Nat /\ e \in Nat /\ n \in Nat /\ (k = n \/ (k = n - 1 /\ n > 0))
    BY <1>1, ReviewFacts DEF ReviewInv, CountedSoFar
  <2>3. /\ SkillInterval * b \in Nat /\ SkillInterval * (asked - b) \in Nat
        /\ SkillInterval * asked = SkillInterval * b + SkillInterval * (asked - b)
    <3>1. b \in Nat /\ b <= asked
      BY <2>2
    <3> QED BY <2>2, <3>1, Intervals
  <2>4. SkillInterval * b + f <= e /\ SkillInterval * (asked - b) <= f
    BY <2>1 DEF Credit
  <2>5. e <= ExecutedAfter(traces)[n] /\ ExecutedAfter(traces)[n] \in Nat
    <3>1. CASE k = n
      BY <2>2, <3>1
    <3>2. CASE k = n - 1 /\ n > 0
      <4>1. n \in 1..n /\ n \in 0..n
        BY <2>2, <3>2
      <4>2. /\ ExecutedAfter(traces)[n] = ExecutedAfter(traces)[n - 1] + ExecutedBy(traces[n])
            /\ traces[n] \in Traces /\ ExecutedAfter(traces)[n] \in Nat
        BY <1>1, <4>1, ReviewFacts
      <4>3. ExecutedBy(traces[n]) \in Nat
        BY <4>2, ObserveIs
      <4> QED BY <2>2, <3>2, <4>2, <4>3
    <3> QED BY <2>2, <3>1, <3>2
  <2> HIDE DEF e, f, k
  <2>6. SkillInterval * asked <= ExecutedAfter(traces)[n]
    BY <2>2, <2>3, <2>4, <2>5
  <2> QED BY <2>6 DEF ReviewsArePaidFor, Executed
<1> QED BY <1>1, ReviewInvHolds, ReviewInvKept, PTL DEF ReviewSpec

-----------------------------------------------------------------------------
(* The database of sessions (SessionDatabase) *)

\* The ids a table has for the session, those of them up to i, and the usage of runs
\* with each unit of it as an element.
Tables == Seq({"ours", "other"})
OursOf(rows) == {i \in DOMAIN rows : rows[i] = "ours"}
UpToId(ids, i) == {j \in ids : j <= i}
AnswersOf(f) == UNION {{<<p, n>> : n \in 1..f[p]} : p \in Writers}

Checks == [covered : Nat, head : Nat, until : Nat, of : SUBSET Nat]
Databases == [version : Nat, rows : Tables, messageCount : Nat,
              migrated : SUBSET Nat, tokens : Nat, runTokens : [Writers -> Nat],
              checkpoint : Checks]
Requested == [head : SUBSET Nat, summarized : SUBSET Nat, tail : SUBSET Nat]
Works == {"idle", "checkpoint", "summarize", "save", "ask"}
Errands == [at : Works \cup {"down", "refused", "begin", "statement"},
            op : {"none", "migrate", "append", "record", "save"}, line : Nat, tries : Nat,
            seen : SUBSET Nat, cover : Checks, request : Requested]

\* What a process reads of the session is what the session begins with.
BeginningOf(ids, all) == ids \subseteq all /\ \A i \in ids, j \in all : j < i => j \in ids
WholeRequest(r, had) ==
  /\ r.head \cup r.summarized \cup r.tail = had
  /\ r.head \cap r.summarized = {} /\ r.summarized \cap r.tail = {} /\ r.head \cap r.tail = {}

\* A database that lacks m in its count of messages and has t answers more than its
\* runs: the one that is committed, and the one that a transaction is at.
MessagesLack(d, m) == d.messageCount + m = Cardinality(OursOf(d.rows))
AnswersAhead(d, t) ==
  IsFiniteSet(AnswersOf(d.runTokens)) /\ d.tokens = Cardinality(AnswersOf(d.runTokens)) + t
CheckpointOf(d) ==
  /\ d.checkpoint.until <= Len(d.rows)
  /\ d.checkpoint # NoCheckpoint =>
       UpToId(OursOf(d.rows), d.checkpoint.until) = d.checkpoint.of
SchemaOf(d) == d.migrated = {v \in 1..CurrentVersion : v <= d.version}
Sound(d, m, t) == MessagesLack(d, m) /\ AnswersAhead(d, t) /\ CheckpointOf(d) /\ SchemaOf(d)

\* What a transaction has become of d, at the statement of the errand e.
Halfway(e, op) == IF e.op = op /\ e.line = 1 THEN 1 ELSE 0
Extends(t, d) ==
  /\ Len(d.rows) <= Len(t.rows) /\ \A i \in DOMAIN d.rows : t.rows[i] = d.rows[i]
Transaction(e, d, t) ==
  /\ Sound(t, Halfway(e, "append"), Halfway(e, "record"))
  /\ Extends(t, d)
  /\ e.op # "migrate" => t.version = d.version

\* What an errand e knows of the database d.
Progresses(e, d) ==
  /\ e.at \in Works \/ (e.at \in {"begin", "statement"} /\ e.op # "migrate") =>
       d.version = CurrentVersion
  /\ BeginningOf(e.seen, OursOf(d.rows))
  /\ e.cover # NoCheckpoint =>
       e.cover.of = First(e.seen, e.cover.covered) /\ e.cover.covered \in 1..Cardinality(e.seen)
  /\ e.at = "save" \/ (e.at \in {"begin", "statement"} /\ e.op = "save") => e.cover # NoCheckpoint
  /\ e.at = "ask" \/ e.cover # NoCheckpoint => WholeRequest(e.request, e.seen)
  /\ e.at \in {"idle", "checkpoint", "summarize"} => e.cover = NoCheckpoint
  /\ e.at \in {"idle", "checkpoint", "summarize", "begin"} => e.line = 0

DatabaseTypes ==
  /\ db \in Databases /\ pages \in Databases /\ errand \in [Writers -> Errands]
  /\ writing \subseteq Writers
LockIsOne ==
  /\ \A p \in Writers : errand[p].at = "statement" <=> p \in writing
  /\ \A p, q \in writing : p = q
  /\ writing = {} => pages = db
Transacts == \A p \in writing : Transaction(errand[p], db, pages)
ErrandsProgress == \A p \in Writers : Progresses(errand[p], db)
DatabaseInv ==
  /\ DatabaseTypes
  /\ LockIsOne
  /\ Sound(db, 0, 0)
  /\ Transacts
  /\ ErrandsProgress


LEMMA OursIsFinite ==
  ASSUME NEW rows \in Tables
  PROVE  /\ OursOf(rows) \subseteq 1..Len(rows) /\ OursOf(rows) \subseteq Nat
         /\ IsFiniteSet(OursOf(rows)) /\ Cardinality(OursOf(rows)) \in Nat /\ Len(rows) \in Nat
<1>1. Len(rows) \in Nat /\ DOMAIN rows = 1..Len(rows)
  BY LenProperties DEF Tables
<1>2. OursOf(rows) \subseteq 1..Len(rows)
  BY <1>1 DEF OursOf
<1>3. IsFiniteSet(1..Len(rows))
  <2>1. 1 \in Int /\ Len(rows) \in Int
    BY <1>1
  <2> QED BY <2>1, FS_Interval
<1>4. IsFiniteSet(OursOf(rows))
  BY <1>2, <1>3, FS_Subset
<1>5. Cardinality(OursOf(rows)) \in Nat
  BY <1>4, FS_CardinalityType
<1> QED BY <1>1, <1>2, <1>4, <1>5

LEMMA OneRowMore ==
  ASSUME NEW rows \in Tables, NEW whose \in {"ours", "other"}
  PROVE  /\ Append(rows, whose) \in Tables /\ Len(Append(rows, whose)) = Len(rows) + 1
         /\ \A i \in DOMAIN rows : Append(rows, whose)[i] = rows[i]
         /\ whose = "other" => OursOf(Append(rows, whose)) = OursOf(rows)
         /\ whose = "ours" =>
              /\ OursOf(Append(rows, whose)) = OursOf(rows) \cup {Len(rows) + 1}
              /\ Cardinality(OursOf(Append(rows, whose))) = Cardinality(OursOf(rows)) + 1
<1> DEFINE more == Append(rows, whose)
           last == Len(rows) + 1
<1>1. /\ more \in Tables /\ Len(more) = last /\ DOMAIN more = DOMAIN rows \cup {last}
      /\ more[last] = whose /\ \A i \in DOMAIN rows : more[i] = rows[i]
      /\ last \notin DOMAIN rows
  BY DEF Tables
<1> HIDE DEF more, last
<1>2. whose = "other" => OursOf(more) = OursOf(rows)
  BY <1>1 DEF OursOf
<1>3. whose = "ours" => OursOf(more) = OursOf(rows) \cup {last}
  BY <1>1 DEF OursOf
<1>4. last \notin OursOf(rows)
  BY <1>1 DEF OursOf
<1>5. Cardinality(OursOf(rows) \cup {last}) = Cardinality(OursOf(rows)) + 1
  BY <1>4, OursIsFinite, FS_AddElement
<1> QED BY <1>1, <1>2, <1>3, <1>5 DEF more, last

-----------------------------------------------------------------------------
(* The first messages of a session *)


LEMMA CountedUpTo ==
  ASSUME NEW ids, ids \subseteq Nat, IsFiniteSet(ids), NEW i \in Nat
  PROVE  IsFiniteSet(UpToId(ids, i)) /\ Cardinality(UpToId(ids, i)) \in Nat
<1>1. UpToId(ids, i) \subseteq ids
  BY DEF UpToId
<1>2. IsFiniteSet(UpToId(ids, i))
  BY <1>1, FS_Subset
<1> QED BY <1>2, FS_CardinalityType

LEMMA FirstAre ==
  ASSUME NEW ids, NEW n, NEW i
  PROVE  i \in First(ids, n) <=> i \in ids /\ Cardinality(UpToId(ids, i)) <= n
BY DEF First, UpToId

\* The first n are the same in what the session begins with, if that has n.
LEMMA FirstOfBeginning ==
  ASSUME NEW all, all \subseteq Nat, IsFiniteSet(all), NEW had, BeginningOf(had, all),
         NEW n \in Nat, n <= Cardinality(had)
  PROVE  First(all, n) = First(had, n)
<1>1. had \subseteq all /\ had \subseteq Nat /\ \A i \in had, j \in all : j < i => j \in had
  BY DEF BeginningOf
<1>2. IsFiniteSet(had) /\ Cardinality(had) \in Nat
  <2>1. IsFiniteSet(had)
    BY <1>1, FS_Subset
  <2> QED BY <2>1, FS_CardinalityType
<1>3. ASSUME NEW i \in had PROVE UpToId(all, i) = UpToId(had, i)
  <2>1. ASSUME NEW j \in all, j <= i PROVE j \in had
    <3>1. i \in Nat /\ j \in Nat
      BY <1>1
    <3>2. j < i \/ j = i
      BY <2>1, <3>1
    <3> QED BY <1>1, <3>2
  <2>2. \A j : j \in UpToId(all, i) <=> j \in UpToId(had, i)
    BY <1>1, <2>1, Zenon DEF UpToId
  <2> QED BY <2>2, Zenon DEF UpToId
<1>4. ASSUME NEW i \in all, i \notin had PROVE i \notin First(all, n)
  <2>1. \A j \in had : j \in all /\ j <= i
    BY <1>1, <1>4
  <2>2. had \cup {i} \subseteq UpToId(all, i)
    BY <2>1, <1>4 DEF UpToId
  <2>3. Cardinality(had \cup {i}) = Cardinality(had) + 1
    BY <1>2, <1>4, FS_AddElement
  <2>4. IsFiniteSet(UpToId(all, i)) /\ Cardinality(UpToId(all, i)) \in Nat
    BY CountedUpTo
  <2>5. Cardinality(had \cup {i}) <= Cardinality(UpToId(all, i))
    BY <2>2, <2>4, FS_Subset
  <2>6. ~(Cardinality(UpToId(all, i)) <= n)
    BY <1>2, <2>3, <2>4, <2>5
  <2> QED BY <2>6, FirstAre
<1>5. \A i : i \in First(all, n) <=> i \in First(had, n)
  <2> SUFFICES ASSUME NEW i PROVE i \in First(all, n) <=> i \in First(had, n)
    OBVIOUS
  <2>1. CASE i \in had
    BY <1>1, <1>3, <2>1, FirstAre
  <2>2. CASE i \notin had
    BY <1>4, <2>2, FirstAre
  <2> QED BY <2>1, <2>2
<1> QED BY <1>5

LEMMA FirstIsBeginning ==
  ASSUME NEW ids, ids \subseteq Nat, IsFiniteSet(ids), NEW n \in Nat
  PROVE  BeginningOf(First(ids, n), ids)
<1>1. ASSUME NEW i \in First(ids, n), NEW j \in ids, j < i PROVE j \in First(ids, n)
  <2>1. i \in ids /\ i \in Nat /\ j \in Nat /\ Cardinality(UpToId(ids, i)) <= n
    BY <1>1, FirstAre
  <2>2. UpToId(ids, j) \subseteq UpToId(ids, i)
    <3>1. \A k \in ids : k <= j => k <= i
      BY <1>1, <2>1
    <3> QED BY <3>1, Zenon DEF UpToId
  <2>3. /\ IsFiniteSet(UpToId(ids, i)) /\ Cardinality(UpToId(ids, i)) \in Nat
        /\ Cardinality(UpToId(ids, j)) \in Nat
    BY <2>1, CountedUpTo
  <2>4. Cardinality(UpToId(ids, j)) <= Cardinality(UpToId(ids, i))
    BY <2>2, <2>3, FS_Subset
  <2>5. Cardinality(UpToId(ids, j)) <= n
    BY <2>1, <2>3, <2>4
  <2> QED BY <1>1, <2>5, FirstAre
<1>2. First(ids, n) \subseteq ids
  BY FirstAre
<1> QED BY <1>1, <1>2 DEF BeginningOf

LEMMA FirstGrows ==
  ASSUME NEW ids, ids \subseteq Nat, IsFiniteSet(ids), NEW h \in Nat, NEW n \in Nat, h <= n
  PROVE  First(ids, h) \subseteq First(ids, n) /\ First(ids, n) \subseteq ids
<1>1. \A i \in ids : Cardinality(UpToId(ids, i)) \in Nat
  BY CountedUpTo
<1>2. \A i \in ids : Cardinality(UpToId(ids, i)) <= h => Cardinality(UpToId(ids, i)) <= n
  BY <1>1
<1> QED BY <1>2, FirstAre

LEMMA NoneAreFirst ==
  ASSUME NEW ids, ids \subseteq Nat, IsFiniteSet(ids)
  PROVE  First(ids, 0) = {}
<1>1. ASSUME NEW i \in ids PROVE ~(Cardinality(UpToId(ids, i)) <= 0)
  <2>1. IsFiniteSet(UpToId(ids, i)) /\ Cardinality(UpToId(ids, i)) \in Nat
    BY CountedUpTo
  <2>2. i \in UpToId(ids, i)
    BY DEF UpToId
  <2>3. Cardinality(UpToId(ids, i)) # 0
    BY <2>1, <2>2, FS_EmptySet
  <2> QED BY <2>1, <2>3
<1> QED BY <1>1, FirstAre

LEMMA FirstIsThere ==
  ASSUME NEW ids, ids \subseteq Nat, IsFiniteSet(ids), NEW n \in 1..Cardinality(ids)
  PROVE  First(ids, n) # {}
<1>1. Cardinality(ids) \in Nat
  BY FS_CardinalityType
<1>2. ids # {}
  <2>1. Cardinality(ids) # 0
    BY <1>1
  <2> QED BY <2>1, FS_EmptySet
<1>3. PICK m \in ids : TRUE
  BY <1>2
<1>4. PICK i \in ids : \A j \in ids : i <= j
  BY <1>3, LeastExists
<1>5. UpToId(ids, i) = {i}
  <2>1. \A j \in ids : j <= i <=> j = i
    BY <1>4
  <2> QED BY <2>1 DEF UpToId
<1>6. Cardinality(UpToId(ids, i)) <= n
  <2>1. Cardinality(UpToId(ids, i)) = 1
    BY <1>5, FS_Singleton
  <2>2. n >= 1
    BY <1>1
  <2> QED BY <1>1, <2>1, <2>2
<1> QED BY <1>6, FirstAre

\* The message that a boundary points at is the last of the first ones.
LEMMA BoundaryIsLast ==
  ASSUME NEW rows \in Tables, NEW had, BeginningOf(had, OursOf(rows)),
         NEW n \in 1..Cardinality(had)
  PROVE  /\ Max(First(OursOf(rows), n)) \in 1..Len(rows)
         /\ UpToId(OursOf(rows), Max(First(OursOf(rows), n))) = First(had, n)
<1> DEFINE all == OursOf(rows)
           F == First(all, n)
<1>1. all \subseteq 1..Len(rows) /\ all \subseteq Nat /\ IsFiniteSet(all) /\ Len(rows) \in Nat
  BY OursIsFinite
<1>2. had \subseteq all /\ had \subseteq Nat
  BY <1>1 DEF BeginningOf
<1>3. IsFiniteSet(had)
  BY <1>1, <1>2, FS_Subset
<1>4. n \in Nat /\ n <= Cardinality(had)
  <2>1. Cardinality(had) \in Nat
    BY <1>3, FS_CardinalityType
  <2> QED BY <2>1
<1> HIDE DEF all
<1>5. F = First(had, n)
  <2>1. BeginningOf(had, all)
    BY DEF all
  <2> QED BY <1>1, <1>4, <2>1, FirstOfBeginning
<1>6. F # {}
  BY <1>2, <1>3, <1>5, FirstIsThere
<1>7. F \subseteq all /\ \A i \in F, j \in all : j < i => j \in F
  BY <1>1, <1>4, FirstIsBeginning DEF BeginningOf
<1> HIDE DEF F
<1>8. F \subseteq 0..Len(rows)
  BY <1>1, <1>7
<1>9. Max(F) \in F /\ \A i \in F : i <= Max(F)
  BY <1>1, <1>6, <1>8, GreatestExists
<1>10. ASSUME NEW i PROVE i \in UpToId(all, Max(F)) <=> i \in F
  <2>1. CASE i \in F
    BY <1>7, <1>9, <2>1 DEF UpToId
  <2>2. CASE i \in all /\ i \notin F
    <3>1. i \in Nat /\ Max(F) \in Nat
      BY <1>1, <1>7, <1>9, <2>2
    <3>2. ~(i < Max(F)) /\ i # Max(F)
      BY <1>7, <1>9, <2>2
    <3>3. ~(i <= Max(F))
      BY <3>1, <3>2
    <3> QED BY <2>2, <3>3 DEF UpToId
  <2>3. CASE i \notin all
    BY <1>7, <2>3 DEF UpToId
  <2> QED BY <2>1, <2>2, <2>3
<1>11. UpToId(all, Max(F)) = F
  BY <1>10
<1>12. Max(F) \in 1..Len(rows)
  BY <1>1, <1>7, <1>9
<1> QED BY <1>5, <1>11, <1>12 DEF F, all

\* A request made of the first n of what was read, of which h are its head.
LEMMA RequestCovers ==
  ASSUME NEW read, read \subseteq Nat, IsFiniteSet(read), NEW h \in Nat, NEW n \in Nat, h <= n
  PROVE  /\ Request(read, h, First(read, n) \ First(read, h), n) \in Requested
         /\ WholeRequest(Request(read, h, First(read, n) \ First(read, h), n), read)
<1>1. First(read, h) \subseteq First(read, n) /\ First(read, n) \subseteq read
  BY FirstGrows
<1> QED BY <1>1 DEF Request, Requested, WholeRequest

LEMMA RequestOfAll ==
  ASSUME NEW read, read \subseteq Nat, IsFiniteSet(read)
  PROVE  Request(read, 0, {}, 0) \in Requested /\ WholeRequest(Request(read, 0, {}, 0), read)
<1>1. First(read, 0) \subseteq read
  BY FirstAre
<1> QED BY <1>1, NoneAreFirst DEF Request, Requested, WholeRequest

-----------------------------------------------------------------------------
(* The usage of runs, counted *)


LEMMA AnswerOf ==
  ASSUME NEW f, NEW x
  PROVE  x \in AnswersOf(f) <=> \E p \in Writers : \E n \in 1..f[p] : x = <<p, n>>
<1> DEFINE of(p) == {<<p, n>> : n \in 1..f[p]}
<1>1. \A p : x \in of(p) <=> \E n \in 1..f[p] : x = <<p, n>>
  OBVIOUS
<1>2. AnswersOf(f) = UNION {of(p) : p \in Writers}
  BY DEF AnswersOf
<1> HIDE DEF of
<1>3. x \in AnswersOf(f) <=> \E p \in Writers : x \in of(p)
  BY <1>2
<1> QED BY <1>1, <1>3

LEMMA NoAnswers == AnswersOf([p \in Writers |-> 0]) = {}
<1> DEFINE f == [p \in Writers |-> 0]
<1>1. \A p \in Writers : 1..f[p] = {}
  OBVIOUS
<1> HIDE DEF f
<1>2. \A x : x \notin AnswersOf(f)
  BY <1>1, AnswerOf, Zenon
<1> QED BY <1>2 DEF f

LEMMA OneAnswerMore ==
  ASSUME NEW f \in [Writers -> Nat], NEW p \in Writers, IsFiniteSet(AnswersOf(f))
  PROVE  /\ IsFiniteSet(AnswersOf([f EXCEPT ![p] = @ + 1]))
         /\ Cardinality(AnswersOf([f EXCEPT ![p] = @ + 1])) = Cardinality(AnswersOf(f)) + 1
<1> DEFINE g == [f EXCEPT ![p] = @ + 1]
           m == f[p] + 1
<1>1. /\ \A q \in Writers : q # p => g[q] = f[q]
      /\ g[p] = m /\ f[p] \in Nat
  OBVIOUS
<1>2. \A n : n \in 1..g[p] <=> n \in 1..f[p] \/ n = m
  BY <1>1
<1>3. m \notin 1..f[p]
  BY <1>1
<1> HIDE DEF g, m
<1>4. ASSUME NEW x PROVE x \in AnswersOf(g) <=> x \in AnswersOf(f) \/ x = <<p, m>>
  <2>1. ASSUME x \in AnswersOf(g) PROVE x \in AnswersOf(f) \/ x = <<p, m>>
    <3>1. PICK q \in Writers : \E n \in 1..g[q] : x = <<q, n>>
      BY <2>1, AnswerOf
    <3>2. PICK n \in 1..g[q] : x = <<q, n>>
      BY <3>1
    <3>3. CASE q = p
      <4>1. n \in 1..f[p] \/ n = m
        BY <1>2, <3>3, Zenon
      <4> QED BY <3>2, <3>3, <4>1, AnswerOf, Zenon
    <3>4. CASE q # p
      <4>1. n \in 1..f[q]
        BY <1>1, <3>4
      <4> QED BY <3>2, <4>1, AnswerOf, Zenon
    <3> QED BY <3>3, <3>4
  <2>2. ASSUME x \in AnswersOf(f) PROVE x \in AnswersOf(g)
    <3>1. PICK q \in Writers : \E n \in 1..f[q] : x = <<q, n>>
      BY <2>2, AnswerOf
    <3>2. PICK n \in 1..f[q] : x = <<q, n>>
      BY <3>1
    <3>3. n \in 1..g[q]
      BY <1>1, <1>2, Zenon
    <3> QED BY <3>2, <3>3, AnswerOf, Zenon
  <2>3. ASSUME x = <<p, m>> PROVE x \in AnswersOf(g)
    <3>1. m \in 1..g[p]
      BY <1>2, Zenon
    <3> QED BY <2>3, <3>1, AnswerOf, Zenon
  <2> QED BY <2>1, <2>2, <2>3
<1>5. <<p, m>> \notin AnswersOf(f)
  <2> SUFFICES ASSUME <<p, m>> \in AnswersOf(f) PROVE FALSE
    OBVIOUS
  <2>1. PICK q \in Writers : \E n \in 1..f[q] : <<p, m>> = <<q, n>>
    BY AnswerOf, Zenon
  <2>2. PICK n \in 1..f[q] : <<p, m>> = <<q, n>>
    BY <2>1
  <2>3. p = q /\ m = n
    BY <2>2
  <2> QED BY <1>3, <2>2, <2>3
<1>6. AnswersOf(g) = AnswersOf(f) \cup {<<p, m>>}
  BY <1>4, Zenon
<1>7. /\ IsFiniteSet(AnswersOf(f) \cup {<<p, m>>})
      /\ Cardinality(AnswersOf(f) \cup {<<p, m>>}) = Cardinality(AnswersOf(f)) + 1
  BY <1>5, FS_AddElement
<1> QED BY <1>6, <1>7 DEF g

-----------------------------------------------------------------------------
(* What steps have in common *)

LEMMA DatabaseInvHolds == DatabaseInit => DatabaseInv
<1> SUFFICES ASSUME DatabaseInit PROVE DatabaseInv
  OBVIOUS
<1>1. PICK schema \in 0..CurrentVersion + 1 :
        db = [version |-> schema, rows |-> <<>>, messageCount |-> 0,
              migrated |-> {v \in 1..CurrentVersion : v <= schema},
              tokens |-> 0, runTokens |-> [p \in Writers |-> 0], checkpoint |-> NoCheckpoint]
  BY DEF DatabaseInit
<1>2. writing = {} /\ pages = db /\ errand = [p \in Writers |-> Doing("down")]
  BY DEF DatabaseInit
<1>3. schema \in Nat
  BY DatabaseAssumption
<1>4. NoCheckpoint \in Checks
  BY DEF NoCheckpoint, Checks
<1>5. Doing("down") \in Errands
  BY <1>4 DEF Doing, Errands, NoRequest, Requested
<1>6. DatabaseTypes
  BY <1>1, <1>2, <1>3, <1>4, <1>5, DatabaseAssumption DEF DatabaseTypes, Databases, Tables
<1>7. LockIsOne /\ Transacts
  BY <1>2 DEF LockIsOne, Transacts, Doing
<1>8. Sound(db, 0, 0)
  <2>1. OursOf(db.rows) = {} /\ Len(db.rows) = 0
    BY <1>1 DEF OursOf
  <2>2. MessagesLack(db, 0)
    BY <1>1, <2>1, FS_EmptySet DEF MessagesLack
  <2>3. AnswersOf(db.runTokens) = {}
    BY <1>1, NoAnswers
  <2>4. AnswersAhead(db, 0)
    <3>1. IsFiniteSet(AnswersOf(db.runTokens)) /\ Cardinality(AnswersOf(db.runTokens)) = 0
      BY <2>3, FS_EmptySet
    <3>2. db.tokens = 0
      BY <1>1
    <3> QED BY <3>1, <3>2 DEF AnswersAhead
  <2>5. CheckpointOf(db)
    BY <1>1, <2>1 DEF CheckpointOf, NoCheckpoint
  <2> QED BY <1>1, <2>2, <2>4, <2>5 DEF Sound, SchemaOf
<1>9. ErrandsProgress
  <2>1. Progresses(Doing("down"), db)
    BY DEF Progresses, Doing, BeginningOf, Works
  <2> QED BY <1>2, <2>1 DEF ErrandsProgress
<1> QED BY <1>6, <1>7, <1>8, <1>9 DEF DatabaseInv

\* What a process has read of a database is the beginning of one that extends it.
LEMMA ProgressStays ==
  ASSUME NEW d \in Databases, NEW t \in Databases, Extends(t, d),
         d.version = CurrentVersion => t.version = CurrentVersion,
         NEW e \in Errands, Progresses(e, d)
  PROVE  Progresses(e, t)
<1>1. BeginningOf(e.seen, OursOf(t.rows))
  <2>1. /\ d.rows \in Tables /\ t.rows \in Tables /\ Len(d.rows) <= Len(t.rows)
        /\ \A i \in DOMAIN d.rows : t.rows[i] = d.rows[i]
    BY DEF Databases, Extends
  <2>2. /\ DOMAIN d.rows = 1..Len(d.rows) /\ DOMAIN t.rows = 1..Len(t.rows)
        /\ Len(d.rows) \in Nat /\ Len(t.rows) \in Nat
    BY <2>1, LenProperties DEF Tables
  <2>3. /\ e.seen \subseteq OursOf(d.rows)
        /\ \A i \in e.seen, j \in OursOf(d.rows) : j < i => j \in e.seen
    BY DEF Progresses, BeginningOf
  <2>4. OursOf(d.rows) \subseteq OursOf(t.rows)
    BY <2>1, <2>2 DEF OursOf
  <2>5. ASSUME NEW i \in e.seen, NEW j \in OursOf(t.rows), j < i PROVE j \in e.seen
    <3>1. i \in DOMAIN d.rows /\ j \in DOMAIN t.rows /\ t.rows[j] = "ours"
      BY <2>3, <2>5 DEF OursOf
    <3>2. j \in DOMAIN d.rows
      BY <2>2, <2>5, <3>1
    <3>3. j \in OursOf(d.rows)
      BY <2>1, <3>1, <3>2 DEF OursOf
    <3> QED BY <2>3, <2>5, <3>3
  <2> QED BY <2>3, <2>4, <2>5 DEF BeginningOf
<1> QED BY <1>1 DEF Progresses

LEMMA DatabaseIsTyped ==
  ASSUME DatabaseInv, NEW p \in Writers
  PROVE  /\ errand[p] \in Errands /\ Progresses(errand[p], db)
         /\ db \in Databases /\ pages \in Databases
BY DEF DatabaseInv, DatabaseTypes, ErrandsProgress

\* A process goes on without the database.
LEMMA ErrandMoves ==
  ASSUME DatabaseInv, NEW p \in Writers, NEW e \in Errands, Becomes(p, e),
         errand[p].at # "statement", e.at # "statement", Progresses(e, db),
         UNCHANGED <<db, writing, pages>>
  PROVE  DatabaseInv'
<1>1. DatabaseTypes /\ LockIsOne /\ Sound(db, 0, 0) /\ Transacts /\ ErrandsProgress
  BY DEF DatabaseInv
<1>2. /\ errand' = [errand EXCEPT ![p] = e] /\ db' = db /\ pages' = pages
      /\ writing' = writing /\ errand \in [Writers -> Errands]
  BY <1>1 DEF Becomes, DatabaseTypes
<1>3. errand'[p] = e /\ \A q \in Writers : q # p => errand'[q] = errand[q]
  BY <1>2
<1>4. p \notin writing
  BY <1>1 DEF LockIsOne
<1>5. DatabaseTypes'
  BY <1>1, <1>2 DEF DatabaseTypes
<1>6. LockIsOne'
  BY <1>1, <1>2, <1>3, <1>4 DEF LockIsOne
<1>7. Transacts'
  <2>1. \A q \in writing : errand'[q] = errand[q]
    BY <1>1, <1>3, <1>4 DEF DatabaseTypes
  <2> QED BY <1>1, <1>2, <2>1, Zenon DEF Transacts
<1>8. ErrandsProgress'
  BY <1>1, <1>2, <1>3, Zenon DEF ErrandsProgress
<1>9. Sound(db, 0, 0)'
  BY <1>1, <1>2, Zenon
<1> QED BY <1>5, <1>6, <1>7, <1>8, <1>9, Zenon DEF DatabaseInv

\* A process gives the lock back, and the database is d.
LEMMA LockReleased ==
  ASSUME DatabaseInv, NEW p \in Writers, writing = {p}, writing' = {},
         NEW d \in Databases, db' = d, pages' = d, Extends(d, db), Sound(d, 0, 0),
         db.version = CurrentVersion => d.version = CurrentVersion,
         NEW e \in Errands, Becomes(p, e), e.at # "statement", Progresses(e, d)
  PROVE  DatabaseInv'
<1>1. DatabaseTypes /\ LockIsOne /\ ErrandsProgress
  BY DEF DatabaseInv
<1>2. errand' = [errand EXCEPT ![p] = e] /\ errand \in [Writers -> Errands] /\ db \in Databases
  BY <1>1 DEF Becomes, DatabaseTypes
<1>3. errand'[p] = e /\ \A q \in Writers : q # p => errand'[q] = errand[q]
  BY <1>2
<1>4. DatabaseTypes'
  BY <1>1, <1>2 DEF DatabaseTypes
<1>5. LockIsOne'
  BY <1>1, <1>3 DEF LockIsOne
<1>6. Transacts'
  BY DEF Transacts
<1>7. ErrandsProgress'
  <2>1. \A q \in Writers : q # p => Progresses(errand[q], d)
    <3> SUFFICES ASSUME NEW q \in Writers PROVE Progresses(errand[q], d)
      OBVIOUS
    <3>1. errand[q] \in Errands /\ Progresses(errand[q], db)
      BY <1>1, <1>2 DEF ErrandsProgress
    <3> QED BY <1>2, <3>1, ProgressStays, Zenon
  <2>2. \A q \in Writers : Progresses(errand'[q], d)
    BY <1>3, <2>1, Zenon
  <2> QED BY <2>2, Zenon DEF ErrandsProgress
<1>8. Sound(db, 0, 0)'
  BY Zenon
<1> QED BY <1>4, <1>5, <1>6, <1>7, <1>8, Zenon DEF DatabaseInv

\* A statement of a transaction
LEMMA StatementKeeps ==
  ASSUME DatabaseInv, NEW p \in Writers, NEW after \in Databases, Executes(p, after),
         Transaction([errand[p] EXCEPT !.line = @ + 1], db, after)
  PROVE  DatabaseInv'
<1>1. DatabaseTypes /\ LockIsOne /\ Sound(db, 0, 0) /\ ErrandsProgress
  BY DEF DatabaseInv
<1> DEFINE e == [errand[p] EXCEPT !.line = @ + 1]
<1>2. /\ errand' = [errand EXCEPT ![p] = e] /\ errand \in [Writers -> Errands]
      /\ errand[p].at = "statement" /\ writing = {p}
      /\ pages' = after /\ db' = db /\ writing' = writing
  BY <1>1 DEF Executes, Becomes, Is, DatabaseTypes
<1>3. e \in Errands /\ e.at = "statement"
  BY <1>2 DEF Errands
<1>4. Progresses(e, db)
  <2>1. Progresses(errand[p], db)
    BY <1>1 DEF ErrandsProgress
  <2>2. errand[p] \in Errands
    BY <1>2
  <2>3. /\ e.op = errand[p].op /\ e.seen = errand[p].seen /\ e.cover = errand[p].cover
        /\ e.request = errand[p].request /\ e.at = errand[p].at
    BY <2>2 DEF Errands
  <2> HIDE DEF e
  <2> QED BY <1>2, <2>1, <2>3 DEF Progresses, Works
<1>5. Transaction(e, db, after)
  OBVIOUS
<1> HIDE DEF e
<1>6. errand'[p] = e /\ \A q \in Writers : q # p => errand'[q] = errand[q]
  BY <1>2
<1>7. DatabaseTypes'
  BY <1>1, <1>2, <1>3 DEF DatabaseTypes
<1>8. LockIsOne'
  BY <1>1, <1>2, <1>3, <1>6 DEF LockIsOne
<1>9. Transacts'
  BY <1>2, <1>5, <1>6, Zenon DEF Transacts
<1>10. ErrandsProgress'
  BY <1>1, <1>2, <1>4, <1>6, Zenon DEF ErrandsProgress
<1>11. Sound(db, 0, 0)'
  BY <1>1, <1>2, Zenon
<1> QED BY <1>7, <1>8, <1>9, <1>10, <1>11, Zenon DEF DatabaseInv

-----------------------------------------------------------------------------
(* The steps *)

LEMMA NothingIsCovered == NoCheckpoint \in Checks /\ NoRequest \in Requested
BY DEF NoCheckpoint, Checks, NoRequest, Requested

LEMMA DoingNothing ==
  ASSUME NEW d, NEW at \in {"down", "refused", "idle"},
         at = "idle" => d.version = CurrentVersion
  PROVE  Doing(at) \in Errands /\ Progresses(Doing(at), d)
<1>1. Doing(at) \in Errands
  BY NothingIsCovered DEF Doing, Errands, Works
<1>2. Progresses(Doing(at), d)
  BY DEF Doing, Progresses, BeginningOf, Works
<1> QED BY <1>1, <1>2

LEMMA SeenIsFinite ==
  ASSUME DatabaseInv, NEW p \in Writers
  PROVE  errand[p].seen \subseteq Nat /\ IsFiniteSet(errand[p].seen)
         /\ Cardinality(errand[p].seen) \in Nat
<1>1. errand[p].seen \subseteq OursOf(db.rows) /\ db.rows \in Tables
  BY DatabaseIsTyped DEF Progresses, BeginningOf, Databases
<1>2. IsFiniteSet(OursOf(db.rows)) /\ OursOf(db.rows) \subseteq Nat
  BY <1>1, OursIsFinite
<1>3. IsFiniteSet(errand[p].seen)
  BY <1>1, <1>2, FS_Subset
<1> QED BY <1>1, <1>2, <1>3, FS_CardinalityType

\* A process takes a transaction up: of a migration, or with what it needs for it.
LEMMA WriteKeeps ==
  ASSUME DatabaseInv, NEW p \in Writers, NEW op \in {"migrate", "append", "save"}, Write(p, op),
         errand[p].at # "statement", UNCHANGED <<db, writing, pages>>,
         op # "migrate" => db.version = CurrentVersion,
         op = "save" => errand[p].cover # NoCheckpoint
  PROVE  DatabaseInv'
<1> DEFINE e == [errand[p] EXCEPT !.at = "begin", !.op = op, !.line = 0, !.tries = 0]
<1>1. errand[p] \in Errands /\ Progresses(errand[p], db)
  BY DatabaseIsTyped
<1>2. /\ e \in Errands /\ e.at = "begin" /\ e.op = op /\ e.line = 0
      /\ e.seen = errand[p].seen /\ e.cover = errand[p].cover /\ e.request = errand[p].request
  BY <1>1 DEF Errands
<1>3. Becomes(p, e)
  BY DEF Write
<1> HIDE DEF e
<1>4. Progresses(e, db)
  BY <1>1, <1>2 DEF Progresses, Works
<1> QED BY <1>2, <1>3, <1>4, ErrandMoves

LEMMA OpenDatabaseKeeps ==
  ASSUME DatabaseInv, NEW p \in Writers, OpenDatabase(p)
  PROVE  DatabaseInv'
BY WriteKeeps DEF OpenDatabase, Is

LEMMA AppendRowKeeps ==
  ASSUME DatabaseInv, NEW p \in Writers, AppendRow(p)
  PROVE  DatabaseInv'
<1>1. db.version = CurrentVersion
  BY DatabaseIsTyped DEF AppendRow, Is, Progresses, Works
<1> QED BY <1>1, WriteKeeps DEF AppendRow, Is

LEMMA SaveCheckpointKeeps ==
  ASSUME DatabaseInv, NEW p \in Writers, SaveCheckpoint(p)
  PROVE  DatabaseInv'
<1>1. db.version = CurrentVersion /\ errand[p].cover # NoCheckpoint
  BY DatabaseIsTyped DEF SaveCheckpoint, Is, Progresses, Works
<1> QED BY <1>1, WriteKeeps DEF SaveCheckpoint, Is

LEMMA BeginWriteKeeps ==
  ASSUME DatabaseInv, NEW p \in Writers, BeginWrite(p)
  PROVE  DatabaseInv'
<1> DEFINE e == [errand[p] EXCEPT !.at = "statement"]
<1>1. DatabaseTypes /\ LockIsOne /\ Sound(db, 0, 0) /\ ErrandsProgress
  BY DEF DatabaseInv
<1>2. errand[p] \in Errands /\ Progresses(errand[p], db)
  BY DatabaseIsTyped
<1>3. /\ errand[p].at = "begin" /\ writing = {} /\ writing' = {p} /\ pages' = db /\ db' = db
      /\ errand' = [errand EXCEPT ![p] = e] /\ errand \in [Writers -> Errands]
  BY <1>1 DEF BeginWrite, Becomes, Is, DatabaseTypes
<1>4. /\ e \in Errands /\ e.at = "statement" /\ e.op = errand[p].op /\ e.line = errand[p].line
      /\ e.seen = errand[p].seen /\ e.cover = errand[p].cover /\ e.request = errand[p].request
  BY <1>2 DEF Errands
<1> HIDE DEF e
<1>5. errand'[p] = e /\ \A q \in Writers : q # p => errand'[q] = errand[q]
  BY <1>3
<1>6. Progresses(e, db)
  BY <1>2, <1>3, <1>4 DEF Progresses, Works
<1>7. Transaction(e, db, db)
  <2>1. e.line = 0
    BY <1>2, <1>3, <1>4 DEF Progresses
  <2>2. Halfway(e, "append") = 0 /\ Halfway(e, "record") = 0
    BY <2>1 DEF Halfway
  <2>3. Extends(db, db)
    <3>1. Len(db.rows) \in Nat
      BY <1>1, LenProperties DEF DatabaseTypes, Databases, Tables
    <3> QED BY <3>1 DEF Extends
  <2> QED BY <1>1, <2>2, <2>3 DEF Transaction
<1>8. DatabaseTypes'
  BY <1>1, <1>3, <1>4 DEF DatabaseTypes
<1>9. LockIsOne'
  BY <1>1, <1>3, <1>4, <1>5 DEF LockIsOne
<1>10. Transacts'
  BY <1>3, <1>5, <1>7 DEF Transacts
<1>11. ErrandsProgress'
  BY <1>1, <1>3, <1>5, <1>6, Zenon DEF ErrandsProgress
<1>12. Sound(db, 0, 0)'
  BY <1>1, <1>3, Zenon
<1> QED BY <1>8, <1>9, <1>10, <1>11, <1>12, Zenon DEF DatabaseInv

LEMMA BusyKeeps ==
  ASSUME DatabaseInv, NEW p \in Writers, Busy(p)
  PROVE  DatabaseInv'
<1>1. errand[p] \in Errands /\ Progresses(errand[p], db)
  BY DatabaseIsTyped
<1>2. errand[p].at = "begin" /\ UNCHANGED <<db, writing, pages>>
  BY DEF Busy, Is
<1>3. CASE errand[p].tries + 1 < WriteMaxRetries
  <2> DEFINE e == [errand[p] EXCEPT !.tries = @ + 1]
  <2>1. Becomes(p, e)
    BY <1>3 DEF Busy
  <2>2. /\ e \in Errands /\ e.at = "begin" /\ e.op = errand[p].op /\ e.line = errand[p].line
        /\ e.seen = errand[p].seen /\ e.cover = errand[p].cover
        /\ e.request = errand[p].request
    BY <1>1, <1>2 DEF Errands
  <2> HIDE DEF e
  <2>3. Progresses(e, db)
    BY <1>1, <1>2, <2>2 DEF Progresses, Works
  <2> QED BY <1>2, <2>1, <2>2, <2>3, ErrandMoves
<1>4. CASE ~(errand[p].tries + 1 < WriteMaxRetries)
  <2> DEFINE at == IF errand[p].op = "migrate" THEN "down" ELSE "idle"
  <2>1. Becomes(p, Doing(at))
    BY <1>4 DEF Busy
  <2>2. at \in {"down", "refused", "idle"} /\ (at = "idle" => db.version = CurrentVersion)
    BY <1>1, <1>2 DEF Progresses
  <2> HIDE DEF at
  <2>3. Doing(at) \in Errands /\ Progresses(Doing(at), db)
    BY <2>2, DoingNothing
  <2>4. Doing(at).at # "statement"
    BY <2>2 DEF Doing
  <2> QED BY <1>2, <2>1, <2>3, <2>4, ErrandMoves
<1> QED BY <1>3, <1>4

LEMMA InTransaction ==
  ASSUME DatabaseInv, NEW p \in Writers, errand[p].at = "statement"
  PROVE  /\ writing = {p} /\ Transaction(errand[p], db, pages)
         /\ errand[p] \in Errands /\ Progresses(errand[p], db)
         /\ db \in Databases /\ pages \in Databases
         /\ errand[p].op # "migrate" =>
              db.version = CurrentVersion /\ pages.version = CurrentVersion
<1>1. DatabaseTypes /\ LockIsOne /\ Transacts
  BY DEF DatabaseInv
<1>2. writing = {p}
  BY <1>1 DEF LockIsOne, DatabaseTypes
<1>3. Transaction(errand[p], db, pages)
  BY <1>1, <1>2, Zenon DEF Transacts
<1>4. /\ errand[p] \in Errands /\ Progresses(errand[p], db)
      /\ db \in Databases /\ pages \in Databases
  BY DatabaseIsTyped
<1>5. errand[p].op # "migrate" =>
        db.version = CurrentVersion /\ pages.version = CurrentVersion
  BY <1>3, <1>4 DEF Progresses, Transaction
<1> QED BY <1>2, <1>3, <1>4, <1>5

LEMMA CommitKeeps ==
  ASSUME DatabaseInv, NEW p \in Writers, NEW lines, Commit(p, lines), UNCHANGED pages,
         Halfway(errand[p], "append") = 0, Halfway(errand[p], "record") = 0,
         pages.version = CurrentVersion
  PROVE  DatabaseInv'
<1>1. /\ errand[p].at = "statement" /\ db' = pages /\ pages' = pages /\ writing' = {}
      /\ Becomes(p, Then(p))
  BY DEF Commit, Is
<1>2. /\ writing = {p} /\ Transaction(errand[p], db, pages) /\ pages \in Databases
      /\ errand[p] \in Errands /\ Progresses(errand[p], db) /\ db \in Databases
  BY <1>1, InTransaction
<1>3. Sound(pages, 0, 0) /\ Extends(pages, db)
  BY <1>2 DEF Transaction
<1>4. Progresses(errand[p], pages)
  BY <1>2, <1>3, ProgressStays
<1>5. Then(p) \in Errands /\ Then(p).at # "statement" /\ Progresses(Then(p), pages)
  <2>1. CASE errand[p].cover = NoCheckpoint
    <3>1. Then(p) = Doing("idle")
      BY <2>1 DEF Then
    <3>2. Doing("idle") \in Errands /\ Progresses(Doing("idle"), pages)
      BY DoingNothing
    <3>3. Doing("idle").at = "idle"
      BY DEF Doing
    <3> QED BY <3>1, <3>2, <3>3
  <2>2. CASE errand[p].cover # NoCheckpoint /\ errand[p].op = "record"
    <3> DEFINE e == [errand[p] EXCEPT !.at = "save"]
    <3>1. Then(p) = e
      BY <2>2, Zenon DEF Then
    <3>2. /\ e \in Errands /\ e.at = "save" /\ e.op = errand[p].op
          /\ e.seen = errand[p].seen /\ e.cover = errand[p].cover
          /\ e.request = errand[p].request
      BY <1>2 DEF Errands, Works
    <3> HIDE DEF e
    <3>3. Progresses(e, pages)
      BY <1>4, <2>2, <3>2 DEF Progresses, Works
    <3> QED BY <3>1, <3>2, <3>3
  <2>3. CASE errand[p].cover # NoCheckpoint /\ errand[p].op # "record"
    <3> DEFINE e == [errand[p] EXCEPT !.at = "ask", !.cover = NoCheckpoint]
    <3>1. Then(p) = e
      BY <2>3, Zenon DEF Then
    <3>2. /\ e \in Errands /\ e.at = "ask" /\ e.seen = errand[p].seen
          /\ e.cover = NoCheckpoint /\ e.request = errand[p].request
      BY <1>2, NothingIsCovered DEF Errands, Works
    <3> HIDE DEF e
    <3>3. Progresses(e, pages)
      BY <1>4, <2>3, <3>2 DEF Progresses, Works
    <3> QED BY <3>1, <3>2, <3>3
  <2> QED BY <2>1, <2>2, <2>3
<1> QED BY <1>1, <1>2, <1>3, <1>5, LockReleased

LEMMA RefuseNewerKeeps ==
  ASSUME DatabaseInv, NEW p \in Writers, RefuseNewer(p)
  PROVE  DatabaseInv'
<1>1. /\ errand[p].at = "statement" /\ db' = db /\ pages' = db /\ writing' = {}
      /\ Becomes(p, Doing("refused"))
  BY DEF RefuseNewer, Is
<1>2. writing = {p} /\ db \in Databases /\ Sound(db, 0, 0)
  BY <1>1, InTransaction DEF DatabaseInv
<1>3. Extends(db, db)
  <2>1. Len(db.rows) \in Nat
    BY <1>2, LenProperties DEF Databases, Tables
  <2> QED BY <2>1 DEF Extends
<1>4. Doing("refused") \in Errands /\ Progresses(Doing("refused"), db)
  BY DoingNothing
<1>5. Doing("refused").at # "statement"
  BY DEF Doing
<1> QED BY <1>1, <1>2, <1>3, <1>4, <1>5, LockReleased

LEMMA MigrateKeeps ==
  ASSUME DatabaseInv, NEW p \in Writers, Migrate(p)
  PROVE  DatabaseInv'
<1>1. errand[p].op = "migrate" /\ db.version <= CurrentVersion
  BY DEF Migrate
<1>2. CASE pages.version < CurrentVersion /\ Executes(p, Migrated(pages, pages.version + 1))
  <2> DEFINE v == pages.version + 1
             t == Migrated(pages, v)
             e == [errand[p] EXCEPT !.line = @ + 1]
  <2>1. errand[p].at = "statement"
    BY <1>2 DEF Executes, Is
  <2>2. pages \in Databases /\ errand[p] \in Errands /\ Transaction(errand[p], db, pages)
    BY <2>1, InTransaction
  <2>a. pages.version \in Nat /\ v \in Nat /\ pages.migrated \cup {v} \in SUBSET Nat
    BY <2>2 DEF Databases
  <2>b. t = [pages EXCEPT !.version = v, !.migrated = pages.migrated \cup {v}]
    BY Zenon DEF Migrated
  <2> HIDE DEF t, v
  <2>3. /\ t \in Databases /\ t.rows = pages.rows /\ t.messageCount = pages.messageCount
        /\ t.tokens = pages.tokens /\ t.runTokens = pages.runTokens
        /\ t.checkpoint = pages.checkpoint /\ t.version = v
        /\ t.migrated = pages.migrated \cup {v}
    BY <2>2, <2>a, <2>b DEF Databases
  <2>4. e.op = "migrate"
    BY <1>1, <2>2 DEF Errands
  <2>5. pages.version \in Nat /\ pages.version < CurrentVersion
    BY <1>2, <2>2 DEF Databases
  <2> HIDE DEF e
  <2>6. Halfway(e, "append") = 0 /\ Halfway(e, "record") = 0
    BY <2>4 DEF Halfway
  <2>7. Halfway(errand[p], "append") = 0 /\ Halfway(errand[p], "record") = 0
    BY <1>1 DEF Halfway
  <2>8. Sound(pages, 0, 0) /\ Extends(pages, db)
    BY <2>2, <2>7 DEF Transaction
  <2>9. SchemaOf(t)
    BY <2>3, <2>5, <2>8, DatabaseAssumption DEF Sound, SchemaOf, v
  <2>10. Sound(t, 0, 0)
    BY <2>3, <2>8, <2>9 DEF Sound, MessagesLack, AnswersAhead, CheckpointOf
  <2>11. Extends(t, db)
    BY <2>3, <2>8 DEF Extends
  <2>12. Transaction(e, db, t)
    BY <2>4, <2>6, <2>10, <2>11 DEF Transaction
  <2> QED BY <1>2, <2>3, <2>12, StatementKeeps, Zenon DEF e, t, v
<1>3. CASE pages.version = CurrentVersion /\ Commit(p, errand[p].line) /\ UNCHANGED pages
  <2>1. Halfway(errand[p], "append") = 0 /\ Halfway(errand[p], "record") = 0
    BY <1>1 DEF Halfway
  <2> QED BY <1>3, <2>1, CommitKeeps
<1> QED BY <1>2, <1>3 DEF Migrate

\* The ends of the transactions that are not a migration
LEMMA CommitOfTwoKeeps ==
  ASSUME DatabaseInv, NEW p \in Writers, errand[p].op \in {"append", "record"}, Commit(p, 2),
         UNCHANGED pages
  PROVE  DatabaseInv'
<1>1. errand[p].at = "statement" /\ errand[p].line = 2
  BY DEF Commit, Is
<1>2. pages.version = CurrentVersion
  BY <1>1, InTransaction
<1>3. Halfway(errand[p], "append") = 0 /\ Halfway(errand[p], "record") = 0
  BY <1>1 DEF Halfway
<1> QED BY <1>2, <1>3, CommitKeeps

\* A statement of a transaction that is not a migration
LEMMA PagesBecome ==
  ASSUME DatabaseInv, NEW p \in Writers, NEW t \in Databases, Executes(p, t),
         errand[p].op # "migrate", Extends(t, pages), t.version = pages.version,
         Sound(t, IF errand[p].op = "append" /\ errand[p].line = 0 THEN 1 ELSE 0,
                  IF errand[p].op = "record" /\ errand[p].line = 0 THEN 1 ELSE 0)
  PROVE  DatabaseInv'
<1> DEFINE e == [errand[p] EXCEPT !.line = @ + 1]
<1>1. errand[p].at = "statement"
  BY DEF Executes, Is
<1>2. /\ pages \in Databases /\ errand[p] \in Errands /\ Transaction(errand[p], db, pages)
      /\ db \in Databases
  BY <1>1, InTransaction
<1>3. e.op = errand[p].op /\ e.line = errand[p].line + 1 /\ errand[p].line \in Nat
  BY <1>2 DEF Errands
<1> HIDE DEF e
<1>4. /\ Halfway(e, "append") = IF errand[p].op = "append" /\ errand[p].line = 0 THEN 1 ELSE 0
      /\ Halfway(e, "record") = IF errand[p].op = "record" /\ errand[p].line = 0 THEN 1 ELSE 0
  BY <1>3 DEF Halfway
<1>5. Extends(t, db)
  <2>1. /\ db.rows \in Tables /\ pages.rows \in Tables /\ t.rows \in Tables
        /\ Extends(pages, db) /\ Extends(t, pages)
    BY <1>2 DEF Databases, Transaction
  <2>2. /\ DOMAIN db.rows = 1..Len(db.rows) /\ DOMAIN pages.rows = 1..Len(pages.rows)
        /\ Len(db.rows) \in Nat /\ Len(pages.rows) \in Nat /\ Len(t.rows) \in Nat
    BY <2>1, LenProperties DEF Tables
  <2> QED BY <2>1, <2>2 DEF Extends
<1>6. Transaction(e, db, t)
  BY <1>2, <1>3, <1>4, <1>5 DEF Transaction
<1> QED BY <1>6, StatementKeeps, Zenon DEF e

\* A row more leaves what a checkpoint covers as it is.
LEMMA RowAfterCheckpoint ==
  ASSUME NEW d \in Databases, CheckpointOf(d), NEW whose \in {"ours", "other"}, NEW t \in Databases,
         t.rows = Append(d.rows, whose), t.checkpoint = d.checkpoint
  PROVE  CheckpointOf(t) /\ Extends(t, d)
<1> DEFINE until == d.checkpoint.until
<1>1. d.rows \in Tables /\ until \in Nat /\ until <= Len(d.rows)
  BY DEF Databases, Checks, CheckpointOf
<1>2. /\ Len(t.rows) = Len(d.rows) + 1 /\ Len(d.rows) \in Nat
      /\ \A i \in DOMAIN d.rows : t.rows[i] = d.rows[i]
      /\ whose = "other" => OursOf(t.rows) = OursOf(d.rows)
      /\ whose = "ours" => OursOf(t.rows) = OursOf(d.rows) \cup {Len(d.rows) + 1}
  <2> DEFINE more == Append(d.rows, whose)
  <2>1. /\ Len(more) = Len(d.rows) + 1
        /\ \A i \in DOMAIN d.rows : more[i] = d.rows[i]
        /\ whose = "other" => OursOf(more) = OursOf(d.rows)
        /\ whose = "ours" => OursOf(more) = OursOf(d.rows) \cup {Len(d.rows) + 1}
    BY <1>1, OneRowMore, Zenon
  <2>2. Len(d.rows) \in Nat
    BY <1>1, LenProperties DEF Tables
  <2>3. t.rows = more
    OBVIOUS
  <2> HIDE DEF more
  <2> QED BY <2>1, <2>2, <2>3, Zenon
<1>3. UpToId(OursOf(t.rows), until) = UpToId(OursOf(d.rows), until)
  BY <1>1, <1>2 DEF UpToId
<1>4. CheckpointOf(t)
  BY <1>1, <1>2, <1>3 DEF CheckpointOf
<1> QED BY <1>1, <1>2, <1>4 DEF Extends

LEMMA PagesInTransaction ==
  ASSUME DatabaseInv, NEW p \in Writers, NEW after, Executes(p, after)
  PROVE  /\ pages \in Databases /\ Extends(pages, pages)
         /\ Sound(pages, Halfway(errand[p], "append"), Halfway(errand[p], "record"))
<1>1. errand[p].at = "statement"
  BY DEF Executes, Is
<1>2. pages \in Databases /\ Transaction(errand[p], db, pages)
  BY <1>1, InTransaction
<1>3. Len(pages.rows) \in Nat
  BY <1>2, LenProperties DEF Databases, Tables
<1> QED BY <1>2, <1>3 DEF Transaction, Extends

LEMMA AppendStatementsKeeps ==
  ASSUME DatabaseInv, NEW p \in Writers, AppendStatements(p)
  PROVE  DatabaseInv'
<1>1. errand[p].op = "append"
  BY DEF AppendStatements
<1>2. ASSUME errand[p].line = 0, Executes(p, [pages EXCEPT !.rows = Append(@, "ours")])
      PROVE  DatabaseInv'
  <2> DEFINE t == [pages EXCEPT !.rows = Append(@, "ours")]
  <2>1. pages \in Databases /\ Sound(pages, Halfway(errand[p], "append"), Halfway(errand[p], "record"))
    BY <1>2, PagesInTransaction
  <2>2. Sound(pages, 0, 0)
    BY <1>1, <1>2, <2>1 DEF Halfway
  <2>3. pages.rows \in Tables
    BY <2>1 DEF Databases
  <2>4. /\ Append(pages.rows, "ours") \in Tables
        /\ Cardinality(OursOf(Append(pages.rows, "ours"))) = Cardinality(OursOf(pages.rows)) + 1
    BY <2>3, OneRowMore
  <2>5. /\ t \in Databases /\ t.rows = Append(pages.rows, "ours")
        /\ t.messageCount = pages.messageCount /\ t.migrated = pages.migrated
        /\ t.tokens = pages.tokens /\ t.runTokens = pages.runTokens
        /\ t.checkpoint = pages.checkpoint /\ t.version = pages.version
    BY <2>1, <2>4 DEF Databases
  <2> HIDE DEF t
  <2>6. CheckpointOf(t) /\ Extends(t, pages)
    BY <2>1, <2>2, <2>5, RowAfterCheckpoint DEF Sound
  <2>7. MessagesLack(t, 1)
    <3>1. /\ pages.messageCount \in Nat /\ Cardinality(OursOf(pages.rows)) \in Nat
          /\ pages.messageCount + 0 = Cardinality(OursOf(pages.rows))
      BY <2>1, <2>2, <2>3, OursIsFinite DEF Sound, MessagesLack, Databases
    <3> QED BY <2>4, <2>5, <3>1 DEF MessagesLack
  <2>8. Sound(t, 1, 0)
    BY <2>2, <2>5, <2>6, <2>7 DEF Sound, AnswersAhead, SchemaOf
  <2> QED BY <1>1, <1>2, <2>5, <2>6, <2>8, PagesBecome, Zenon DEF t
<1>3. ASSUME errand[p].line = 1, Executes(p, Counted(p, pages)) PROVE DatabaseInv'
  <2> DEFINE t == Counted(p, pages)
  <2>1. /\ pages \in Databases /\ Extends(pages, pages)
        /\ Sound(pages, Halfway(errand[p], "append"), Halfway(errand[p], "record"))
    BY <1>3, PagesInTransaction
  <2>2. Sound(pages, 1, 0)
    BY <1>1, <1>3, <2>1 DEF Halfway
  <2>3. /\ t \in Databases /\ t.rows = pages.rows
        /\ t.messageCount = pages.messageCount + 1 /\ t.migrated = pages.migrated
        /\ t.tokens = pages.tokens /\ t.runTokens = pages.runTokens
        /\ t.checkpoint = pages.checkpoint /\ t.version = pages.version
    BY <2>1 DEF Databases, Counted
  <2> HIDE DEF t
  <2>4. MessagesLack(t, 0)
    <3>1. pages.messageCount \in Nat /\ pages.messageCount + 1 = Cardinality(OursOf(pages.rows))
      BY <2>1, <2>2 DEF Sound, MessagesLack, Databases
    <3> QED BY <2>3, <3>1 DEF MessagesLack
  <2>5. Sound(t, 0, 0)
    BY <2>2, <2>3, <2>4 DEF Sound, AnswersAhead, CheckpointOf, SchemaOf
  <2>6. Extends(t, pages)
    BY <2>1, <2>3 DEF Extends
  <2>7. ~(errand[p].op = "append" /\ errand[p].line = 0)
        /\ ~(errand[p].op = "record" /\ errand[p].line = 0)
    BY <1>1, <1>3
  <2> QED BY <1>1, <1>3, <2>3, <2>5, <2>6, <2>7, PagesBecome DEF t
<1>4. ASSUME Commit(p, 2), UNCHANGED pages PROVE DatabaseInv'
  BY <1>1, <1>4, CommitOfTwoKeeps
<1> QED BY <1>2, <1>3, <1>4 DEF AppendStatements

LEMMA RecordStatementsKeeps ==
  ASSUME DatabaseInv, NEW p \in Writers, RecordStatements(p)
  PROVE  DatabaseInv'
<1>1. errand[p].op = "record"
  BY DEF RecordStatements
<1>2. ASSUME errand[p].line = 0, Executes(p, [pages EXCEPT !.tokens = @ + 1])
      PROVE  DatabaseInv'
  <2> DEFINE t == [pages EXCEPT !.tokens = @ + 1]
  <2>1. /\ pages \in Databases /\ Extends(pages, pages)
        /\ Sound(pages, Halfway(errand[p], "append"), Halfway(errand[p], "record"))
    BY <1>2, PagesInTransaction
  <2>2. Sound(pages, 0, 0)
    BY <1>1, <1>2, <2>1 DEF Halfway
  <2>3. /\ t \in Databases /\ t.rows = pages.rows
        /\ t.messageCount = pages.messageCount /\ t.migrated = pages.migrated
        /\ t.tokens = pages.tokens + 1 /\ t.runTokens = pages.runTokens
        /\ t.checkpoint = pages.checkpoint /\ t.version = pages.version
    BY <2>1 DEF Databases
  <2> HIDE DEF t
  <2>4. AnswersAhead(t, 1)
    <3>1. /\ IsFiniteSet(AnswersOf(pages.runTokens)) /\ pages.tokens \in Nat
          /\ pages.tokens = Cardinality(AnswersOf(pages.runTokens)) + 0
          /\ Cardinality(AnswersOf(pages.runTokens)) \in Nat
      BY <2>1, <2>2, FS_CardinalityType DEF Sound, AnswersAhead, Databases
    <3> QED BY <2>3, <3>1 DEF AnswersAhead
  <2>5. Sound(t, 0, 1)
    BY <2>2, <2>3, <2>4 DEF Sound, MessagesLack, CheckpointOf, SchemaOf
  <2>6. Extends(t, pages)
    BY <2>1, <2>3 DEF Extends
  <2> QED BY <1>1, <1>2, <2>3, <2>5, <2>6, PagesBecome, Zenon DEF t
<1>3. ASSUME errand[p].line = 1, Executes(p, [pages EXCEPT !.runTokens[p] = @ + 1])
      PROVE  DatabaseInv'
  <2> DEFINE f == pages.runTokens
             g == [f EXCEPT ![p] = @ + 1]
             t == [pages EXCEPT !.runTokens[p] = @ + 1]
  <2>1. /\ pages \in Databases /\ Extends(pages, pages)
        /\ Sound(pages, Halfway(errand[p], "append"), Halfway(errand[p], "record"))
    BY <1>3, PagesInTransaction
  <2>2. Sound(pages, 0, 1)
    BY <1>1, <1>3, <2>1 DEF Halfway
  <2>3. f \in [Writers -> Nat] /\ g \in [Writers -> Nat]
    BY <2>1 DEF Databases
  <2>4. /\ t \in Databases /\ t.rows = pages.rows
        /\ t.messageCount = pages.messageCount /\ t.migrated = pages.migrated
        /\ t.tokens = pages.tokens /\ t.runTokens = g
        /\ t.checkpoint = pages.checkpoint /\ t.version = pages.version
    BY <2>1, <2>3 DEF Databases
  <2>5. /\ IsFiniteSet(AnswersOf(f)) /\ pages.tokens = Cardinality(AnswersOf(f)) + 1
        /\ Cardinality(AnswersOf(f)) \in Nat
    BY <2>2, FS_CardinalityType DEF Sound, AnswersAhead
  <2>6. IsFiniteSet(AnswersOf(g)) /\ Cardinality(AnswersOf(g)) = Cardinality(AnswersOf(f)) + 1
    BY <2>3, <2>5, OneAnswerMore
  <2> HIDE DEF t, g
  <2>7. AnswersAhead(t, 0)
    BY <2>4, <2>5, <2>6 DEF AnswersAhead
  <2>8. Sound(t, 0, 0)
    BY <2>2, <2>4, <2>7 DEF Sound, MessagesLack, CheckpointOf, SchemaOf
  <2>9. Extends(t, pages)
    BY <2>1, <2>4 DEF Extends
  <2>10. ~(errand[p].op = "append" /\ errand[p].line = 0)
         /\ ~(errand[p].op = "record" /\ errand[p].line = 0)
    BY <1>1, <1>3
  <2> QED BY <1>1, <1>3, <2>4, <2>8, <2>9, <2>10, PagesBecome, Zenon DEF t
<1>4. ASSUME Commit(p, 2), UNCHANGED pages PROVE DatabaseInv'
  BY <1>1, <1>4, CommitOfTwoKeeps
<1> QED BY <1>2, <1>3, <1>4 DEF RecordStatements

LEMMA SaveStatementsKeeps ==
  ASSUME DatabaseInv, NEW p \in Writers, SaveStatements(p)
  PROVE  DatabaseInv'
<1> DEFINE cover == errand[p].cover
           until == Boundary(pages, cover.covered)
           c == [cover EXCEPT !.until = until]
           t == [pages EXCEPT !.checkpoint = c]
<1>1. errand[p].op = "save"
  BY DEF SaveStatements
<1>2. Halfway(errand[p], "append") = 0 /\ Halfway(errand[p], "record") = 0
  BY <1>1 DEF Halfway
<1>3. ASSUME Executes(p, t) PROVE DatabaseInv'
  <2>1. /\ pages \in Databases /\ Extends(pages, pages) /\ Sound(pages, 0, 0)
    BY <1>2, <1>3, PagesInTransaction
  <2>2. /\ errand[p].at = "statement"
    BY <1>3 DEF Executes, Is
  <2>3. /\ errand[p] \in Errands /\ Progresses(errand[p], db) /\ Extends(pages, db)
        /\ db \in Databases /\ pages.version = CurrentVersion
    BY <1>1, <2>2, InTransaction DEF Transaction
  <2>4. Progresses(errand[p], pages)
    BY <2>1, <2>3, ProgressStays
  <2>5. /\ cover # NoCheckpoint /\ cover.of = First(errand[p].seen, cover.covered)
        /\ cover.covered \in 1..Cardinality(errand[p].seen)
        /\ BeginningOf(errand[p].seen, OursOf(pages.rows)) /\ cover \in Checks
        /\ pages.rows \in Tables
    BY <1>1, <2>1, <2>2, <2>3, <2>4 DEF Progresses, Errands, Databases
  <2>6. until = Max(First(OursOf(pages.rows), cover.covered))
    BY DEF Boundary, Ours, OursOf
  <2>7. /\ until \in 1..Len(pages.rows)
        /\ UpToId(OursOf(pages.rows), until) = First(errand[p].seen, cover.covered)
    BY <2>5, <2>6, BoundaryIsLast
  <2>8. Len(pages.rows) \in Nat
    BY <2>5, OursIsFinite
  <2> HIDE DEF until
  <2>9. c \in Checks /\ c.until = until /\ c.of = cover.of
    BY <2>5, <2>7, <2>8 DEF Checks
  <2> HIDE DEF c
  <2>10. /\ t \in Databases /\ t.rows = pages.rows
         /\ t.messageCount = pages.messageCount /\ t.migrated = pages.migrated
         /\ t.tokens = pages.tokens /\ t.runTokens = pages.runTokens
         /\ t.checkpoint = c /\ t.version = pages.version
    BY <2>1, <2>9 DEF Databases
  <2> HIDE DEF t
  <2>11. CheckpointOf(t)
    BY <2>5, <2>7, <2>8, <2>9, <2>10 DEF CheckpointOf
  <2>12. Sound(t, 0, 0)
    BY <2>1, <2>10, <2>11 DEF Sound, MessagesLack, AnswersAhead, SchemaOf
  <2>13. Extends(t, pages)
    BY <2>1, <2>10 DEF Extends
  <2>14. ~(errand[p].op = "append" /\ errand[p].line = 0)
         /\ ~(errand[p].op = "record" /\ errand[p].line = 0)
    BY <1>1
  <2> QED BY <1>1, <1>3, <2>10, <2>12, <2>13, <2>14, PagesBecome
<1>4. ASSUME Commit(p, 1), UNCHANGED pages PROVE DatabaseInv'
  <2>1. pages.version = CurrentVersion
    BY <1>1, <1>4, InTransaction DEF Commit, Is
  <2> QED BY <1>2, <1>4, <2>1, CommitKeeps
<1> QED BY <1>3, <1>4 DEF SaveStatements

LEMMA OtherMessageKeeps ==
  ASSUME DatabaseInv, OtherMessage
  PROVE  DatabaseInv'
<1> DEFINE t == [db EXCEPT !.rows = Append(@, "other")]
<1>1. DatabaseTypes /\ LockIsOne /\ Sound(db, 0, 0) /\ ErrandsProgress
  BY DEF DatabaseInv
<1>2. /\ writing = {} /\ db' = t /\ pages' = t /\ writing' = writing /\ errand' = errand
      /\ db \in Databases /\ errand \in [Writers -> Errands]
  BY <1>1 DEF OtherMessage, DatabaseTypes
<1>3. db.rows \in Tables
  BY <1>2 DEF Databases
<1>4. /\ Append(db.rows, "other") \in Tables
      /\ OursOf(Append(db.rows, "other")) = OursOf(db.rows)
  BY <1>3, OneRowMore
<1>5. /\ t \in Databases /\ t.rows = Append(db.rows, "other")
      /\ t.messageCount = db.messageCount /\ t.migrated = db.migrated
      /\ t.tokens = db.tokens /\ t.runTokens = db.runTokens
      /\ t.checkpoint = db.checkpoint /\ t.version = db.version
  BY <1>2, <1>4 DEF Databases
<1> HIDE DEF t
<1>6. CheckpointOf(t) /\ Extends(t, db)
  BY <1>1, <1>2, <1>5, RowAfterCheckpoint DEF Sound
<1>7. Sound(t, 0, 0)
  BY <1>1, <1>4, <1>5, <1>6 DEF Sound, MessagesLack, AnswersAhead, SchemaOf
<1>8. \A p \in Writers : Progresses(errand[p], t)
  <2> SUFFICES ASSUME NEW p \in Writers PROVE Progresses(errand[p], t)
    OBVIOUS
  <2>1. errand[p] \in Errands /\ Progresses(errand[p], db)
    BY DatabaseIsTyped
  <2> QED BY <1>2, <1>5, <1>6, <2>1, ProgressStays
<1>9. DatabaseTypes' /\ LockIsOne'
  BY <1>1, <1>2, <1>5 DEF DatabaseTypes, LockIsOne
<1>10. Transacts' /\ ErrandsProgress'
  BY <1>2, <1>8, Zenon DEF Transacts, ErrandsProgress
<1>11. Sound(db, 0, 0)'
  BY <1>2, <1>7, Zenon
<1> QED BY <1>9, <1>10, <1>11, Zenon DEF DatabaseInv

LEMMA RecordModelResponseKeeps ==
  ASSUME DatabaseInv, NEW p \in Writers, RecordModelResponse(p)
  PROVE  DatabaseInv'
<1> DEFINE e == [Doing("begin") EXCEPT !.op = "record"]
<1>1. db.version = CurrentVersion /\ errand[p].at = "ask"
  BY DatabaseIsTyped DEF RecordModelResponse, Is, Progresses, Works
<1>2. /\ e.at = "begin" /\ e.op = "record" /\ e.seen = {} /\ e.cover = NoCheckpoint
      /\ e.line = 0 /\ e \in Errands
  BY NothingIsCovered DEF Doing, Errands
<1> HIDE DEF e
<1>3. Progresses(e, db)
  BY <1>1, <1>2 DEF Progresses, BeginningOf, Works
<1>4. Becomes(p, e) /\ UNCHANGED <<db, writing, pages>>
  BY DEF RecordModelResponse, e
<1> QED BY <1>1, <1>2, <1>3, <1>4, ErrandMoves

LEMMA ModelFailsKeeps ==
  ASSUME DatabaseInv, NEW p \in Writers, ModelFails(p)
  PROVE  DatabaseInv'
<1>1. db.version = CurrentVersion /\ errand[p].at = "ask"
  BY DatabaseIsTyped DEF ModelFails, Is, Progresses, Works
<1>2. Doing("idle") \in Errands /\ Progresses(Doing("idle"), db)
  BY <1>1, DoingNothing
<1>3. Doing("idle").at # "statement"
  BY DEF Doing
<1>4. Becomes(p, Doing("idle")) /\ UNCHANGED <<db, writing, pages>>
  BY DEF ModelFails
<1> QED BY <1>1, <1>2, <1>3, <1>4, ErrandMoves

LEMMA TakeSnapshotKeeps ==
  ASSUME DatabaseInv, NEW p \in Writers, TakeSnapshot(p)
  PROVE  DatabaseInv'
<1> DEFINE e == [errand[p] EXCEPT !.at = "checkpoint", !.seen = Ours(db)]
<1>1. errand[p] \in Errands /\ Progresses(errand[p], db) /\ db \in Databases
  BY DatabaseIsTyped
<1>2. errand[p].at = "idle" /\ Becomes(p, e) /\ UNCHANGED <<db, writing, pages>>
  BY DEF TakeSnapshot, Is
<1>3. OursOf(db.rows) \subseteq Nat /\ Ours(db) = OursOf(db.rows)
  <2>1. db.rows \in Tables
    BY <1>1 DEF Databases
  <2> QED BY <2>1, OursIsFinite DEF Ours, OursOf
<1>4. /\ e \in Errands /\ e.at = "checkpoint" /\ e.seen = OursOf(db.rows)
      /\ e.cover = errand[p].cover /\ e.line = errand[p].line
  BY <1>1, <1>3 DEF Errands, Works
<1> HIDE DEF e
<1>5. BeginningOf(e.seen, OursOf(db.rows))
  BY <1>4 DEF BeginningOf
<1>6. Progresses(e, db)
  BY <1>1, <1>2, <1>4, <1>5 DEF Progresses, Works
<1> QED BY <1>2, <1>4, <1>6, ErrandMoves

\* A request goes out.
LEMMA AskKeeps ==
  ASSUME DatabaseInv, NEW p \in Writers, NEW r \in Requested, Asks(p, r),
         errand[p].at \in {"checkpoint", "summarize"}, WholeRequest(r, errand[p].seen),
         UNCHANGED <<db, writing, pages>>
  PROVE  DatabaseInv'
<1> DEFINE e == [errand[p] EXCEPT !.at = "ask", !.request = r]
<1>1. errand[p] \in Errands /\ Progresses(errand[p], db)
  BY DatabaseIsTyped
<1>2. /\ e \in Errands /\ e.at = "ask" /\ e.seen = errand[p].seen
      /\ e.cover = errand[p].cover /\ e.request = r
  BY <1>1 DEF Errands, Works
<1>3. Becomes(p, e)
  BY DEF Asks
<1> HIDE DEF e
<1>4. Progresses(e, db)
  BY <1>1, <1>2 DEF Progresses, Works
<1> QED BY <1>2, <1>3, <1>4, ErrandMoves

LEMMA LoadCheckpointKeeps ==
  ASSUME DatabaseInv, NEW p \in Writers, LoadCheckpoint(p)
  PROVE  DatabaseInv'
<1> DEFINE c == db.checkpoint
           read == errand[p].seen
<1>1. /\ errand[p].at = "checkpoint" /\ UNCHANGED <<db, writing, pages>>
      /\ errand[p] \in Errands /\ Progresses(errand[p], db) /\ db \in Databases
  BY DatabaseIsTyped DEF LoadCheckpoint, Is
<1>2. read \subseteq Nat /\ IsFiniteSet(read)
  BY SeenIsFinite
<1>3. ASSUME Materializes(c, read),
             Asks(p, Request(read, c.head, c.of \ First(read, c.head), c.covered))
      PROVE  DatabaseInv'
  <2>1. c.head \in Nat /\ c.covered \in Nat /\ c.head <= c.covered /\ c.of = First(read, c.covered)
    BY <1>1, <1>3 DEF Materializes, Databases, Checks
  <2> DEFINE r == Request(read, c.head, c.of \ First(read, c.head), c.covered)
  <2>2. r \in Requested /\ WholeRequest(r, read)
    BY <1>2, <2>1, RequestCovers
  <2> HIDE DEF r
  <2>3. Asks(p, r)
    BY <1>3 DEF r
  <2> QED BY <1>1, <2>2, <2>3, AskKeeps
<1>4. ASSUME Asks(p, Request(read, 0, {}, 0)) PROVE DatabaseInv'
  <2>1. Request(read, 0, {}, 0) \in Requested /\ WholeRequest(Request(read, 0, {}, 0), read)
    BY <1>2, RequestOfAll
  <2> QED BY <1>1, <1>4, <2>1, AskKeeps
<1>5. ASSUME Becomes(p, [errand[p] EXCEPT !.at = "summarize"]) PROVE DatabaseInv'
  <2> DEFINE e == [errand[p] EXCEPT !.at = "summarize"]
  <2>1. /\ e \in Errands /\ e.at = "summarize" /\ e.seen = errand[p].seen
        /\ e.cover = errand[p].cover /\ e.line = errand[p].line
    BY <1>1 DEF Errands, Works
  <2>2. Becomes(p, e)
    BY <1>5
  <2> HIDE DEF e
  <2>3. Progresses(e, db)
    BY <1>1, <2>1 DEF Progresses, Works
  <2> QED BY <1>1, <2>1, <2>2, <2>3, ErrandMoves
<1>6. \/ Materializes(c, read) /\
           Asks(p, Request(read, c.head, c.of \ First(read, c.head), c.covered))
      \/ Asks(p, Request(read, 0, {}, 0))
      \/ Becomes(p, [errand[p] EXCEPT !.at = "summarize"])
  BY DEF LoadCheckpoint
<1> QED BY <1>3, <1>4, <1>5, <1>6

LEMMA SummaryFailsKeeps ==
  ASSUME DatabaseInv, NEW p \in Writers, SummaryFails(p)
  PROVE  DatabaseInv'
<1>1. /\ errand[p].at = "summarize" /\ UNCHANGED <<db, writing, pages>>
      /\ Asks(p, Request(errand[p].seen, 0, {}, 0))
  BY DEF SummaryFails, Is
<1>2. errand[p].seen \subseteq Nat /\ IsFiniteSet(errand[p].seen)
  BY SeenIsFinite
<1>3. /\ Request(errand[p].seen, 0, {}, 0) \in Requested
      /\ WholeRequest(Request(errand[p].seen, 0, {}, 0), errand[p].seen)
  BY <1>2, RequestOfAll
<1> QED BY <1>1, <1>3, AskKeeps

LEMMA SummarizedKeeps ==
  ASSUME DatabaseInv, NEW p \in Writers, Summarized(p)
  PROVE  DatabaseInv'
<1> DEFINE read == errand[p].seen
<1>1. errand[p].at = "summarize" /\ UNCHANGED <<db, writing, pages>>
  BY DEF Summarized, Is
<1>2. errand[p] \in Errands /\ Progresses(errand[p], db)
  BY DatabaseIsTyped
<1>3. read \subseteq Nat /\ IsFiniteSet(read) /\ Cardinality(read) \in Nat
  BY SeenIsFinite
<1>4. PICK covered \in 1..Cardinality(read) : \E head \in 0..covered - 1 :
        Becomes(p, [errand[p] EXCEPT !.at = "begin", !.op = "record",
          !.request = Request(read, head, First(read, covered) \ First(read, head), covered),
          !.cover = [covered |-> covered, head |-> head, until |-> 0,
                     of |-> First(read, covered)]])
  BY Zenon DEF Summarized
<1>5. PICK head \in 0..covered - 1 :
        Becomes(p, [errand[p] EXCEPT !.at = "begin", !.op = "record",
          !.request = Request(read, head, First(read, covered) \ First(read, head), covered),
          !.cover = [covered |-> covered, head |-> head, until |-> 0,
                     of |-> First(read, covered)]])
  BY <1>4, Zenon
<1>6. covered \in Nat /\ head \in Nat /\ head <= covered /\ covered > 0
  BY <1>3
<1> DEFINE r == Request(read, head, First(read, covered) \ First(read, head), covered)
           c == [covered |-> covered, head |-> head, until |-> 0, of |-> First(read, covered)]
           e == [errand[p] EXCEPT !.at = "begin", !.op = "record", !.request = r, !.cover = c]
<1>7. r \in Requested /\ WholeRequest(r, read)
  BY <1>3, <1>6, RequestCovers
<1>8. First(read, covered) \subseteq Nat
  BY <1>3, FirstAre
<1>9. c \in Checks /\ c.covered = covered /\ c.of = First(read, covered)
  BY <1>6, <1>8 DEF Checks
<1>10. Becomes(p, e)
  BY <1>5
<1> HIDE DEF r, c
<1>11. /\ e \in Errands /\ e.at = "begin" /\ e.op = "record" /\ e.seen = read
       /\ e.cover = c /\ e.line = errand[p].line /\ e.request = r
  BY <1>2, <1>7, <1>9 DEF Errands
<1> HIDE DEF e
<1>12. Progresses(e, db)
  BY <1>1, <1>2, <1>7, <1>9, <1>11 DEF Progresses, Works
<1> QED BY <1>1, <1>10, <1>11, <1>12, ErrandMoves

LEMMA DieKeeps ==
  ASSUME DatabaseInv, NEW p \in Writers, Die(p)
  PROVE  DatabaseInv'
<1>1. /\ Becomes(p, Doing("down")) /\ db' = db /\ writing' = writing \ {p}
      /\ pages' = IF writing = {p} THEN db ELSE pages
  BY DEF Die
<1>2. Doing("down") \in Errands /\ Progresses(Doing("down"), db) /\ Doing("down").at # "statement"
  BY DoingNothing DEF Doing
<1>3. CASE errand[p].at = "statement"
  <2>1. writing = {p} /\ db \in Databases /\ Sound(db, 0, 0)
    BY <1>3, InTransaction DEF DatabaseInv
  <2>2. Extends(db, db)
    <3>1. Len(db.rows) \in Nat
      BY <2>1, LenProperties DEF Databases, Tables
    <3> QED BY <3>1 DEF Extends
  <2>3. writing' = {} /\ pages' = db
    BY <1>1, <2>1
  <2> QED BY <1>1, <1>2, <2>1, <2>2, <2>3, LockReleased
<1>4. CASE errand[p].at # "statement"
  <2>1. p \notin writing
    BY <1>4 DEF DatabaseInv, LockIsOne
  <2>2. UNCHANGED <<db, writing, pages>>
    BY <1>1, <2>1
  <2> QED BY <1>1, <1>2, <1>4, <2>2, ErrandMoves
<1> QED BY <1>3, <1>4

LEMMA DatabaseInvIsInvariant == DatabaseSpec => []DatabaseInv
<1>1. DatabaseInit => DatabaseInv
  BY DatabaseInvHolds
<1>2. DatabaseInv /\ [DatabaseNext]_databaseVars => DatabaseInv'
  <2> SUFFICES ASSUME DatabaseInv, [DatabaseNext]_databaseVars PROVE DatabaseInv'
    OBVIOUS
  <2>1. CASE OtherMessage
    BY <2>1, OtherMessageKeeps
  <2>2. ASSUME NEW p \in Writers,
               OpenDatabase(p) \/ RefuseNewer(p) \/ Migrate(p) \/ BeginWrite(p) \/ Busy(p)
        PROVE  DatabaseInv'
    BY <2>2, OpenDatabaseKeeps, RefuseNewerKeeps, MigrateKeeps, BeginWriteKeeps, BusyKeeps
  <2>3. ASSUME NEW p \in Writers,
               AppendRow(p) \/ AppendStatements(p) \/ RecordModelResponse(p) \/ ModelFails(p)
                 \/ RecordStatements(p)
        PROVE  DatabaseInv'
    BY <2>3, AppendRowKeeps, AppendStatementsKeeps, RecordModelResponseKeeps, ModelFailsKeeps,
       RecordStatementsKeeps
  <2>4. ASSUME NEW p \in Writers,
               TakeSnapshot(p) \/ LoadCheckpoint(p) \/ Summarized(p) \/ SummaryFails(p)
        PROVE  DatabaseInv'
    BY <2>4, TakeSnapshotKeeps, LoadCheckpointKeeps, SummarizedKeeps, SummaryFailsKeeps
  <2>5. ASSUME NEW p \in Writers, SaveCheckpoint(p) \/ SaveStatements(p) \/ Die(p)
        PROVE  DatabaseInv'
    BY <2>5, SaveCheckpointKeeps, SaveStatementsKeeps, DieKeeps
  <2>6. CASE UNCHANGED databaseVars
    <3>1. db' = db /\ writing' = writing /\ pages' = pages /\ errand' = errand
      BY <2>6 DEF databaseVars
    <3> QED BY <3>1, Zenon DEF DatabaseInv, DatabaseTypes, LockIsOne, Transacts, ErrandsProgress
  <2> QED BY <2>1, <2>2, <2>3, <2>4, <2>5, <2>6, Zenon DEF DatabaseNext
<1> QED BY <1>1, <1>2, PTL DEF DatabaseSpec

\* For any number of processes that write, migrate, summarize and die on one database:
\* its counts and its usage are those of its rows and runs, a checkpoint stands for the
\* messages it was made of, a request has once what was read, and nobody works on half
\* a migration.
THEOREM TheDatabaseIsSound == DatabaseSpec => []DatabaseIsSound
<1>1. DatabaseInv => DatabaseIsSound
  <2> SUFFICES ASSUME DatabaseInv PROVE DatabaseIsSound
    OBVIOUS
  <2>1. /\ Sound(db, 0, 0) /\ db \in Databases
        /\ \A p \in Writers : errand[p] \in Errands /\ Progresses(errand[p], db)
    BY DatabaseIsTyped DEF DatabaseInv, DatabaseTypes
  <2>2. Ours(db) = OursOf(db.rows) /\ AnswersOfRuns(db) = AnswersOf(db.runTokens)
    BY Zenon DEF Ours, OursOf, AnswersOfRuns, AnswersOf
  <2>3. CountsAgree
    <3>1. /\ db.messageCount + 0 = Cardinality(OursOf(db.rows)) /\ db.messageCount \in Nat
          /\ db.tokens = Cardinality(AnswersOf(db.runTokens)) + 0
          /\ IsFiniteSet(AnswersOf(db.runTokens))
      BY <2>1 DEF Sound, MessagesLack, AnswersAhead, Databases
    <3>2. Cardinality(AnswersOf(db.runTokens)) \in Nat
      BY <3>1, FS_CardinalityType
    <3> QED BY <2>2, <3>1, <3>2 DEF CountsAgree
  <2>4. CheckpointIsTrue
    BY <2>1, <2>2 DEF Sound, CheckpointOf, UpToId, CheckpointIsTrue
  <2>5. RequestsAreWhole
    BY <2>1 DEF RequestsAreWhole, Is, Progresses, WholeRequest
  <2>6. SchemaIsCurrent
    BY <2>1 DEF SchemaIsCurrent, Sound, SchemaOf, Progresses, Works
  <2> QED BY <2>3, <2>4, <2>5, <2>6 DEF DatabaseIsSound
<1> QED BY <1>1, DatabaseInvIsInvariant, PTL

-----------------------------------------------------------------------------
(* The values of the reviews (BackgroundReviews) *)

\* Multiplication by the bound on the tool executions of a turn
LEMMA ToolsOf ==
  ASSUME NEW n \in Nat
  PROVE  /\ MaxTools \in Nat /\ MaxTools * n \in Nat
         /\ MaxTools * (n + 1) = MaxTools * n + MaxTools
         /\ \A m \in Nat : n <= m => MaxTools * n <= MaxTools * m
<1>1. MaxTools \in Nat
  BY ReviewAssumption DEF MaxTools
<1> HIDE DEF MaxTools
<1>2. \A i, j \in Nat : MaxTools * i \in Nat /\ MaxTools * (i + j) = MaxTools * i + MaxTools * j
  BY <1>1
<1>3. ASSUME NEW m \in Nat, n <= m PROVE MaxTools * n <= MaxTools * m
  <2> DEFINE d == m - n
  <2>1. d \in Nat /\ m = n + d
    BY <1>3
  <2> HIDE DEF d
  <2>2. MaxTools * m = MaxTools * n + MaxTools * d /\ MaxTools * d \in Nat
    BY <1>2, <2>1
  <2> QED BY <1>2, <2>2
<1>4. MaxTools * 1 = MaxTools
  BY <1>1
<1> QED BY <1>1, <1>2, <1>3, <1>4

LEMMA CountIsBounded ==
  ASSUME NEW past \in Seq(Traces), NEW k \in 0..Len(past)
  PROVE  CountAfter(past)[k] <= MaxTools * k
<1> DEFINE f == CountAfter(past)
           N == Len(past)
           T == {i \in 0..N : f[i] <= MaxTools * i}
<1>1. N \in Nat /\ f[0] = 0 /\ f \in [0..N -> Nat]
      /\ \A i \in 1..N : past[i] \in Traces /\ f[i] = Observe(f[i - 1], past[i])
  BY CountAfterIs, LenProperties, ElementOfSeq
<1> HIDE DEF f, N
<1>2. 0 \in T
  <2>1. MaxTools * 0 \in Nat
    BY ToolsOf
  <2> QED BY <1>1, <2>1
<1>3. ASSUME NEW i \in 0..(N - 1), i \in T PROVE i + 1 \in T
  <2>1. i + 1 \in 1..N /\ (i + 1) - 1 = i /\ i \in Nat /\ i \in 0..N
    BY <1>1
  <2>2. f[i + 1] = Observe(f[i], past[i + 1]) /\ past[i + 1] \in Traces /\ f[i] \in Nat
    BY <1>1, <2>1
  <2>3. f[i + 1] <= f[i] + MaxTools
    <3>1. /\ Observe(f[i], past[i + 1]) <= f[i] + ExecutedBy(past[i + 1])
          /\ ExecutedBy(past[i + 1]) <= MaxTools /\ ExecutedBy(past[i + 1]) \in Nat
          /\ Observe(f[i], past[i + 1]) \in Nat
      BY <2>2, ObserveIs
    <3>2. MaxTools \in Nat
      BY <2>1, ToolsOf
    <3> QED BY <2>2, <3>1, <3>2
  <2>4. /\ MaxTools \in Nat /\ MaxTools * i \in Nat /\ MaxTools * (i + 1) = MaxTools * i + MaxTools
    BY <2>1, ToolsOf
  <2>5. f[i] <= MaxTools * i /\ f[i + 1] \in Nat
    BY <1>1, <1>3, <2>1
  <2>6. f[i + 1] <= MaxTools * (i + 1)
    BY <2>2, <2>3, <2>4, <2>5
  <2> QED BY <2>1, <2>6
<1> HIDE DEF T
<1>4. \A i \in 0..N : i \in T
  BY <1>1, <1>2, <1>3, UpTo, Zenon
<1> QED BY <1>4 DEF T, N, f

\* A review is asked for after a turn, and the one under review is in the queue.
ReviewTypes ==
  /\ Len(traces) <= MaxTraces
  /\ sessionAt = "submit" => traces # <<>>
  /\ reviewQueue \in Seq(1..MaxTraces) /\ reviewing \in {"get", "review", "reset", "done"}
  /\ reviewing # "get" => reviewQueue # <<>>
  /\ draining \in BOOLEAN /\ reviewCrashes \in 0..MaxReviewCrashes

LEMMA ReviewTypesHold == ReviewInit => ReviewTypes
<1> SUFFICES ASSUME ReviewInit PROVE ReviewTypes
  OBVIOUS
<1>1. reviewQueue \in Seq(1..MaxTraces) /\ Len(traces) = 0
  BY EmptySeq DEF ReviewInit
<1>2. Len(traces) <= MaxTraces /\ 0 \in 0..MaxReviewCrashes
  BY <1>1, ReviewAssumption
<1> QED BY <1>1, <1>2 DEF ReviewInit, ReviewTypes

LEMMA ReviewTypesKept ==
  ReviewInv /\ ReviewTypes /\ [ReviewNext]_reviewVars => ReviewTypes'
<1> SUFFICES ASSUME ReviewInv, ReviewTypes, [ReviewNext]_reviewVars PROVE ReviewTypes'
  OBVIOUS
<1>0. traces \in Seq(Traces) /\ Len(traces) \in Nat
  BY ReviewFacts DEF ReviewInv
<1>1. CASE UNCHANGED <<traces, reviewQueue, reviewing, reviewCrashes>> /\ sessionAt' # "submit"
           /\ draining' \in BOOLEAN
  BY <1>1 DEF ReviewTypes
<1>2. CASE Hydrate \/ Acknowledge \/ Drain
  BY <1>1, <1>2 DEF Hydrate, Acknowledge, Drain, reviews, ReviewTypes
<1>3. CASE RunTurn
  <2>1. sessionAt' = "observe" /\ UNCHANGED <<reviewQueue, reviewing, draining, reviewCrashes>>
    BY <1>3 DEF RunTurn, reviews
  <2>2. Len(traces') <= MaxTraces
    <3>1. CASE UNCHANGED traces
      BY <3>1 DEF ReviewTypes
    <3>2. CASE Len(traces) < MaxTraces /\ \E trace \in Traces : traces' = Append(traces, trace)
      <4>1. PICK trace \in Traces : traces' = Append(traces, trace)
        BY <3>2
      <4>2. Len(traces') = Len(traces) + 1
        BY <1>0, <4>1, AppendProperties
      <4> QED BY <1>0, <3>2, <4>2, ReviewAssumption
    <3> QED BY <1>3, <3>1, <3>2 DEF RunTurn
  <2> QED BY <2>1, <2>2 DEF ReviewTypes
<1>4. CASE Decide
  <2>1. UNCHANGED <<traces, reviewQueue, reviewing, draining, reviewCrashes>>
        /\ (sessionAt' = "submit" => traces # <<>>)
    BY <1>4 DEF Decide, reviews
  <2> QED BY <2>1 DEF ReviewTypes
<1>5. CASE SubmitReview
  <2>1. /\ UNCHANGED <<traces, reviewing, draining, reviewCrashes>> /\ sessionAt = "submit"
        /\ sessionAt' # "submit"
        /\ reviewQueue' = Append(reviewQueue, Len(traces)) \/ UNCHANGED reviewQueue
    BY <1>5 DEF SubmitReview
  <2>2. Len(traces) \in 1..MaxTraces
    BY <1>0, <2>1, ReviewAssumption, EmptySeq DEF ReviewTypes
  <2> DEFINE T == 1..MaxTraces
  <2>3. Len(traces) \in T /\ reviewQueue \in Seq(T)
    BY <2>2 DEF ReviewTypes
  <2> HIDE DEF T
  <2>4. /\ Append(reviewQueue, Len(traces)) \in Seq(T)
        /\ Append(reviewQueue, Len(traces)) # <<>>
    BY <2>3, AppendProperties
  <2>5. reviewQueue' \in Seq(T) /\ (reviewQueue # <<>> => reviewQueue' # <<>>)
    BY <2>1, <2>3, <2>4
  <2>6. reviewQueue' \in Seq(1..MaxTraces)
    BY <2>5 DEF T
  <2> QED BY <2>1, <2>5, <2>6 DEF ReviewTypes
<1>6. CASE TakeReview
  BY <1>6 DEF TakeReview, policy, ReviewTypes
<1>7. CASE RunReview
  BY <1>7 DEF RunReview, policy, ReviewTypes
<1>8. CASE ResetSkill
  BY <1>8 DEF ResetSkill, ReviewTypes
<1>9. CASE TaskDone
  <2>1. /\ reviewing' = "get" /\ reviewQueue' = Tail(reviewQueue) /\ reviewQueue # <<>>
        /\ UNCHANGED <<traces, sessionAt, draining, reviewCrashes>>
    BY <1>9 DEF TaskDone, ReviewTypes
  <2> DEFINE T == 1..MaxTraces
  <2>2. reviewQueue \in Seq(T)
    BY DEF ReviewTypes
  <2> HIDE DEF T
  <2>3. reviewQueue' \in Seq(T)
    BY <2>1, <2>2, HeadTailProperties
  <2>4. reviewQueue' \in Seq(1..MaxTraces)
    BY <2>3 DEF T
  <2> QED BY <2>1, <2>4 DEF ReviewTypes
<1>10. CASE ReviewCrash
  <2>1. /\ reviewQueue' = <<>> /\ reviewing' = "get" /\ sessionAt' = "new" /\ draining' = FALSE
        /\ UNCHANGED traces /\ reviewCrashes < MaxReviewCrashes
        /\ reviewCrashes' = reviewCrashes + 1
    BY <1>10 DEF ReviewCrash
  <2>2. reviewCrashes' \in 0..MaxReviewCrashes /\ reviewQueue' \in Seq(1..MaxTraces)
    BY <2>1, ReviewAssumption, EmptySeq DEF ReviewTypes
  <2> QED BY <2>1, <2>2 DEF ReviewTypes
<1>11. CASE UNCHANGED reviewVars
  BY <1>11 DEF reviewVars, reviews, ReviewTypes
<1> QED BY <1>2, <1>3, <1>4, <1>5, <1>6, <1>7, <1>8, <1>9, <1>10, <1>11 DEF ReviewNext

LEMMA ReviewTypesAre == ReviewInv /\ ReviewTypes => ReviewTypeOK
<1> SUFFICES ASSUME ReviewInv, ReviewTypes PROVE ReviewTypeOK
  OBVIOUS
<1> DEFINE n == Len(traces)
           k == CountedSoFar
<1>1. n \in Nat /\ n <= MaxTraces /\ MaxTraces \in Nat /\ k \in 0..n /\ executions \in Nat
  BY ReviewFacts, ReviewAssumption DEF ReviewInv, ReviewTypes
<1>2. CountAfter(traces)[k] \in Nat /\ CountAfter(traces)[k] <= MaxTools * k
  BY <1>1, ReviewFacts, CountIsBounded DEF ReviewInv
<1>3. executions <= CountAfter(traces)[k]
  BY DEF ReviewInv, CreditHolds, Credit
<1> HIDE DEF n, k
<1>4. MaxTools * k <= MaxTools * MaxTraces /\ MaxTools * k \in Nat
      /\ MaxTools * MaxTraces \in Nat
  BY <1>1, ToolsOf
<1>5. executions \in 0..MaxTools * MaxTraces
  BY <1>1, <1>2, <1>3, <1>4
<1>6. observed \subseteq 1..MaxTraces
  BY <1>1 DEF ReviewInv, LatestIsObserved, n
<1> QED BY <1>5, <1>6 DEF ReviewInv, ReviewTypes, ReviewTypeOK

LEMMA ReviewsKeepTypes == ReviewSpec => []ReviewTypeOK
<1>1. ReviewInit => ReviewInv /\ ReviewTypes
  BY ReviewInvHolds, ReviewTypesHold
<1>2. ReviewInv /\ ReviewTypes /\ [ReviewNext]_reviewVars => (ReviewInv /\ ReviewTypes)'
  BY ReviewInvKept, ReviewTypesKept
<1> QED BY <1>1, <1>2, ReviewTypesAre, PTL DEF ReviewSpec

-----------------------------------------------------------------------------
(* The values of the database (SessionDatabase) *)

\* What an errand has of the ids of the table, and what a database has of the bounds;
\* the rest of their types is what DatabaseInv says.
RequestsOfRows == [head : SUBSET RowIds, summarized : SUBSET RowIds, tail : SUBSET RowIds]
ErrandsOfRows ==
  [at : {"down", "refused", "idle", "begin", "statement", "checkpoint", "summarize", "save",
         "ask"},
   op : {"none", "migrate", "append", "record", "save"}, line : 0..CurrentVersion + 1,
   tries : 0..WriteMaxRetries, seen : SUBSET RowIds, cover : Checkpoints,
   request : RequestsOfRows]
WithinBounds(d) ==
  /\ d.version <= CurrentVersion + 1 /\ Len(d.rows) <= MaxRows /\ d.tokens <= MaxAnswers
  /\ d.checkpoint.covered <= MaxRows /\ d.checkpoint.head <= MaxRows
DatabaseBounds ==
  /\ errand \in [Writers -> ErrandsOfRows]
  /\ WithinBounds(db) /\ WithinBounds(pages)
  /\ deaths \in 0..MaxDeaths

LEMMA NothingIsOfRows ==
  /\ NoCheckpoint \in Checkpoints /\ NoRequest \in RequestsOfRows
  /\ \A at \in {"down", "refused", "idle", "begin"} : Doing(at) \in ErrandsOfRows
<1>1. NoCheckpoint \in Checkpoints
  BY DatabaseAssumption DEF NoCheckpoint, Checkpoints
<1>2. NoRequest \in RequestsOfRows
  BY DEF NoRequest, RequestsOfRows
<1>3. 0 \in 0..CurrentVersion + 1 /\ 0 \in 0..WriteMaxRetries
  BY DatabaseAssumption
<1>4. ASSUME NEW at \in {"down", "refused", "idle", "begin"} PROVE Doing(at) \in ErrandsOfRows
  BY <1>1, <1>2, <1>3 DEF Doing, ErrandsOfRows
<1> QED BY <1>1, <1>2, <1>4

LEMMA DatabaseBoundsHold == DatabaseInit => DatabaseBounds
<1> SUFFICES ASSUME DatabaseInit PROVE DatabaseBounds
  OBVIOUS
<1>1. PICK schema \in 0..CurrentVersion + 1 :
        db = [version |-> schema, rows |-> <<>>, messageCount |-> 0,
              migrated |-> {v \in 1..CurrentVersion : v <= schema},
              tokens |-> 0, runTokens |-> [p \in Writers |-> 0], checkpoint |-> NoCheckpoint]
  BY DEF DatabaseInit
<1>2. pages = db /\ errand = [p \in Writers |-> Doing("down")] /\ deaths = 0
  BY DEF DatabaseInit
<1>3. WithinBounds(db)
  BY <1>1, DatabaseAssumption DEF WithinBounds, NoCheckpoint
<1>4. Doing("down") \in ErrandsOfRows
  BY NothingIsOfRows
<1>5. errand \in [Writers -> ErrandsOfRows]
  BY <1>2, <1>4
<1>6. deaths \in 0..MaxDeaths
  BY <1>2, DatabaseAssumption
<1> QED BY <1>2, <1>3, <1>5, <1>6 DEF DatabaseBounds

\* An errand goes on, and the databases are what they were or within the bounds.
LEMMA ErrandStaysBounded ==
  ASSUME DatabaseBounds, NEW p \in Writers, NEW e \in ErrandsOfRows, Becomes(p, e),
         WithinBounds(db'), WithinBounds(pages'), deaths' \in 0..MaxDeaths
  PROVE  DatabaseBounds'
<1>1. errand' \in [Writers -> ErrandsOfRows]
  BY DEF DatabaseBounds, Becomes
<1> QED BY <1>1, Zenon DEF DatabaseBounds

LEMMA ErrandMovesBounded ==
  ASSUME DatabaseBounds, NEW p \in Writers, NEW e \in ErrandsOfRows, Becomes(p, e),
         UNCHANGED <<db, pages, deaths>>
  PROVE  DatabaseBounds'
<1>1. WithinBounds(db) /\ WithinBounds(pages) /\ deaths \in 0..MaxDeaths
  BY DEF DatabaseBounds
<1>2. db' = db /\ pages' = pages /\ deaths' = deaths
  OBVIOUS
<1>3. WithinBounds(db') /\ WithinBounds(pages') /\ deaths' \in 0..MaxDeaths
  BY <1>1, <1>2, Zenon
<1> QED BY <1>3, ErrandStaysBounded

LEMMA ErrandsAreBounded ==
  ASSUME DatabaseBounds, NEW p \in Writers
  PROVE  /\ errand[p] \in ErrandsOfRows /\ errand[p].seen \subseteq RowIds
         /\ errand[p].cover \in Checkpoints /\ errand[p].line \in 0..CurrentVersion + 1
<1>1. errand[p] \in ErrandsOfRows
  BY DEF DatabaseBounds
<1> QED BY <1>1 DEF ErrandsOfRows

\* A statement of a transaction leaves the committed database alone.
LEMMA StatementStaysBounded ==
  ASSUME DatabaseBounds, NEW p \in Writers, NEW t, Executes(p, t), WithinBounds(t),
         errand[p].line <= CurrentVersion
  PROVE  DatabaseBounds'
<1> DEFINE e == [errand[p] EXCEPT !.line = @ + 1]
<1>1. /\ pages' = t /\ db' = db /\ deaths' = deaths /\ Becomes(p, e)
  BY DEF Executes
<1>2. errand[p].line + 1 \in 0..CurrentVersion + 1
  BY ErrandsAreBounded, DatabaseAssumption
<1>3. e \in ErrandsOfRows
  BY <1>2, ErrandsAreBounded DEF ErrandsOfRows
<1> HIDE DEF e
<1>4. WithinBounds(db) /\ deaths \in 0..MaxDeaths
  BY DEF DatabaseBounds
<1>5. WithinBounds(db') /\ WithinBounds(pages') /\ deaths' \in 0..MaxDeaths
  BY <1>1, <1>4, Zenon
<1> QED BY <1>1, <1>3, <1>5, ErrandStaysBounded

LEMMA CommitStaysBounded ==
  ASSUME DatabaseBounds, NEW p \in Writers, NEW lines, Commit(p, lines),
         UNCHANGED <<pages, deaths>>
  PROVE  DatabaseBounds'
<1>1. /\ db' = pages /\ pages' = pages /\ deaths' = deaths /\ Becomes(p, Then(p))
  BY DEF Commit
<1>2. errand[p] \in ErrandsOfRows
  BY ErrandsAreBounded
<1>3. Then(p) \in ErrandsOfRows
  <2>1. CASE errand[p].cover = NoCheckpoint
    <3>1. Then(p) = Doing("idle")
      BY <2>1 DEF Then
    <3> QED BY <3>1, NothingIsOfRows
  <2>2. CASE errand[p].cover # NoCheckpoint /\ errand[p].op = "record"
    <3> DEFINE e == [errand[p] EXCEPT !.at = "save"]
    <3>1. Then(p) = e
      BY <2>2, Zenon DEF Then
    <3>2. e \in ErrandsOfRows
      BY <1>2 DEF ErrandsOfRows
    <3> QED BY <3>1, <3>2
  <2>3. CASE errand[p].cover # NoCheckpoint /\ errand[p].op # "record"
    <3> DEFINE e == [errand[p] EXCEPT !.at = "ask", !.cover = NoCheckpoint]
    <3>1. Then(p) = e
      BY <2>3, Zenon DEF Then
    <3>2. e \in ErrandsOfRows
      BY <1>2, NothingIsOfRows DEF ErrandsOfRows
    <3> QED BY <3>1, <3>2
  <2> QED BY <2>1, <2>2, <2>3
<1>4. WithinBounds(pages) /\ deaths \in 0..MaxDeaths
  BY DEF DatabaseBounds
<1>5. WithinBounds(db') /\ WithinBounds(pages') /\ deaths' \in 0..MaxDeaths
  BY <1>1, <1>4, Zenon
<1> QED BY <1>1, <1>3, <1>5, ErrandStaysBounded

LEMMA WriteStaysBounded ==
  ASSUME DatabaseBounds, NEW p \in Writers,
         NEW op \in {"none", "migrate", "append", "record", "save"}, Write(p, op),
         UNCHANGED <<db, pages, deaths>>
  PROVE  DatabaseBounds'
<1> DEFINE e == [errand[p] EXCEPT !.at = "begin", !.op = op, !.line = 0, !.tries = 0]
<1>1. Becomes(p, e)
  BY DEF Write
<1>2. 0 \in 0..CurrentVersion + 1 /\ 0 \in 0..WriteMaxRetries
  BY DatabaseAssumption
<1>3. e \in ErrandsOfRows
  BY <1>2, ErrandsAreBounded DEF ErrandsOfRows
<1> HIDE DEF e
<1> QED BY <1>1, <1>3, ErrandMovesBounded

LEMMA LockStaysBounded ==
  ASSUME DatabaseBounds, NEW p \in Writers, BeginWrite(p) \/ Busy(p)
  PROVE  DatabaseBounds'
<1>1. ASSUME BeginWrite(p) PROVE DatabaseBounds'
  <2> DEFINE e == [errand[p] EXCEPT !.at = "statement"]
  <2>1. pages' = db /\ db' = db /\ deaths' = deaths /\ Becomes(p, e)
    BY <1>1 DEF BeginWrite
  <2>2. e \in ErrandsOfRows
    BY ErrandsAreBounded DEF ErrandsOfRows
  <2> HIDE DEF e
  <2>3. WithinBounds(db) /\ deaths \in 0..MaxDeaths
    BY DEF DatabaseBounds
  <2>4. WithinBounds(db') /\ WithinBounds(pages') /\ deaths' \in 0..MaxDeaths
    BY <2>1, <2>3, Zenon
  <2> QED BY <2>1, <2>2, <2>4, ErrandStaysBounded
<1>2. ASSUME Busy(p) PROVE DatabaseBounds'
  <2>1. UNCHANGED <<db, pages, deaths>>
    BY <1>2 DEF Busy
  <2>2. CASE errand[p].tries + 1 < WriteMaxRetries
    <3> DEFINE e == [errand[p] EXCEPT !.tries = @ + 1]
    <3>1. Becomes(p, e)
      BY <1>2, <2>2 DEF Busy
    <3>2. errand[p].tries \in 0..WriteMaxRetries
      BY ErrandsAreBounded DEF ErrandsOfRows
    <3>3. errand[p].tries + 1 \in 0..WriteMaxRetries
      BY <2>2, <3>2, DatabaseAssumption
    <3>4. e \in ErrandsOfRows
      BY <3>3, ErrandsAreBounded DEF ErrandsOfRows
    <3> HIDE DEF e
    <3> QED BY <2>1, <3>1, <3>4, ErrandMovesBounded
  <2>3. CASE ~(errand[p].tries + 1 < WriteMaxRetries)
    <3> DEFINE e == Doing(IF errand[p].op = "migrate" THEN "down" ELSE "idle")
    <3>1. Becomes(p, e)
      BY <1>2, <2>3 DEF Busy
    <3>2. e \in ErrandsOfRows
      BY NothingIsOfRows
    <3> HIDE DEF e
    <3> QED BY <2>1, <3>1, <3>2, ErrandMovesBounded
  <2> QED BY <2>2, <2>3
<1> QED BY <1>1, <1>2

LEMMA MigrationStaysBounded ==
  ASSUME DatabaseInv, DatabaseBounds, NEW p \in Writers, RefuseNewer(p) \/ Migrate(p)
  PROVE  DatabaseBounds'
<1>1. ASSUME RefuseNewer(p) PROVE DatabaseBounds'
  <2>1. pages' = db /\ db' = db /\ deaths' = deaths /\ Becomes(p, Doing("refused"))
    BY <1>1 DEF RefuseNewer
  <2>2. Doing("refused") \in ErrandsOfRows
    BY NothingIsOfRows
  <2>3. WithinBounds(db) /\ deaths \in 0..MaxDeaths
    BY DEF DatabaseBounds
  <2>4. WithinBounds(db') /\ WithinBounds(pages') /\ deaths' \in 0..MaxDeaths
    BY <2>1, <2>3, Zenon
  <2> QED BY <2>1, <2>2, <2>4, ErrandStaysBounded
<1>2. ASSUME pages.version < CurrentVersion, errand[p].line < CurrentVersion,
             Executes(p, Migrated(pages, pages.version + 1))
      PROVE  DatabaseBounds'
  <2> DEFINE t == Migrated(pages, pages.version + 1)
  <2>1. pages \in Databases /\ pages.version \in Nat
    BY DatabaseIsTyped DEF Databases
  <2>2. /\ t.version = pages.version + 1 /\ t.rows = pages.rows /\ t.tokens = pages.tokens
        /\ t.checkpoint = pages.checkpoint
    BY <2>1 DEF Migrated, Databases
  <2> HIDE DEF t
  <2>3. WithinBounds(pages)
    BY DEF DatabaseBounds
  <2>4. WithinBounds(t)
    BY <1>2, <2>1, <2>2, <2>3, DatabaseAssumption DEF WithinBounds
  <2>5. errand[p].line <= CurrentVersion
    BY <1>2, ErrandsAreBounded, DatabaseAssumption
  <2> QED BY <1>2, <2>4, <2>5, StatementStaysBounded DEF t
<1>3. ASSUME Commit(p, errand[p].line), UNCHANGED <<pages, deaths>> PROVE DatabaseBounds'
  BY <1>3, CommitStaysBounded
<1> QED BY <1>1, <1>2, <1>3 DEF Migrate

LEMMA AppendStaysBounded ==
  ASSUME DatabaseInv, DatabaseBounds, NEW p \in Writers, AppendStatements(p)
  PROVE  DatabaseBounds'
<1>1. pages \in Databases /\ pages.rows \in Tables /\ WithinBounds(pages)
  BY DatabaseIsTyped DEF Databases, DatabaseBounds
<1>2. ASSUME errand[p].line = 0, Len(pages.rows) < MaxRows,
             Executes(p, [pages EXCEPT !.rows = Append(@, "ours")])
      PROVE  DatabaseBounds'
  <2> DEFINE t == [pages EXCEPT !.rows = Append(@, "ours")]
  <2>1. Len(Append(pages.rows, "ours")) = Len(pages.rows) + 1 /\ Len(pages.rows) \in Nat
    BY <1>1, OneRowMore, OursIsFinite
  <2>2. /\ t.version = pages.version /\ t.rows = Append(pages.rows, "ours")
        /\ t.tokens = pages.tokens /\ t.checkpoint = pages.checkpoint
    BY <1>1 DEF Databases
  <2> HIDE DEF t
  <2>3. Len(t.rows) <= MaxRows
    BY <1>2, <2>1, <2>2, DatabaseAssumption
  <2>4. WithinBounds(t)
    BY <1>1, <2>2, <2>3 DEF WithinBounds
  <2>5. errand[p].line <= CurrentVersion
    BY <1>2, DatabaseAssumption
  <2> QED BY <1>2, <2>4, <2>5, StatementStaysBounded, Zenon DEF t
<1>3. ASSUME errand[p].line = 1, Executes(p, Counted(p, pages)) PROVE DatabaseBounds'
  <2> DEFINE t == Counted(p, pages)
  <2>1. /\ t.version = pages.version /\ t.rows = pages.rows
        /\ t.tokens = pages.tokens /\ t.checkpoint = pages.checkpoint
    BY <1>1 DEF Databases, Counted
  <2> HIDE DEF t
  <2>2. WithinBounds(t)
    BY <1>1, <2>1 DEF WithinBounds
  <2>3. errand[p].line <= CurrentVersion
    BY <1>3, DatabaseAssumption
  <2> QED BY <1>3, <2>2, <2>3, StatementStaysBounded, Zenon DEF t
<1>4. ASSUME Commit(p, 2), UNCHANGED <<pages, deaths>> PROVE DatabaseBounds'
  BY <1>4, CommitStaysBounded
<1> QED BY <1>2, <1>3, <1>4 DEF AppendStatements

LEMMA RecordStaysBounded ==
  ASSUME DatabaseInv, DatabaseBounds, NEW p \in Writers, RecordStatements(p)
  PROVE  DatabaseBounds'
<1>1. pages \in Databases /\ pages.tokens \in Nat /\ WithinBounds(pages)
  BY DatabaseIsTyped DEF Databases, DatabaseBounds
<1>2. ASSUME errand[p].line = 0, pages.tokens < MaxAnswers,
             Executes(p, [pages EXCEPT !.tokens = @ + 1])
      PROVE  DatabaseBounds'
  <2> DEFINE t == [pages EXCEPT !.tokens = @ + 1]
  <2>1. /\ t.version = pages.version /\ t.rows = pages.rows
        /\ t.tokens = pages.tokens + 1 /\ t.checkpoint = pages.checkpoint
    BY <1>1 DEF Databases
  <2> HIDE DEF t
  <2>2. t.tokens <= MaxAnswers
    BY <1>1, <1>2, <2>1, DatabaseAssumption
  <2>3. WithinBounds(t)
    BY <1>1, <2>1, <2>2 DEF WithinBounds
  <2>4. errand[p].line <= CurrentVersion
    BY <1>2, DatabaseAssumption
  <2> QED BY <1>2, <2>3, <2>4, StatementStaysBounded, Zenon DEF t
<1>3. ASSUME errand[p].line = 1, Executes(p, [pages EXCEPT !.runTokens[p] = @ + 1])
      PROVE  DatabaseBounds'
  <2> DEFINE t == [pages EXCEPT !.runTokens[p] = @ + 1]
  <2>1. /\ t.version = pages.version /\ t.rows = pages.rows
        /\ t.tokens = pages.tokens /\ t.checkpoint = pages.checkpoint
    BY <1>1 DEF Databases
  <2> HIDE DEF t
  <2>2. WithinBounds(t)
    BY <1>1, <2>1 DEF WithinBounds
  <2>3. errand[p].line <= CurrentVersion
    BY <1>3, DatabaseAssumption
  <2> QED BY <1>3, <2>2, <2>3, StatementStaysBounded, Zenon DEF t
<1>4. ASSUME Commit(p, 2), UNCHANGED <<pages, deaths>> PROVE DatabaseBounds'
  BY <1>4, CommitStaysBounded
<1> QED BY <1>2, <1>3, <1>4 DEF RecordStatements

LEMMA SaveStaysBounded ==
  ASSUME DatabaseInv, DatabaseBounds, NEW p \in Writers, SaveStatements(p)
  PROVE  DatabaseBounds'
<1> DEFINE until == Boundary(pages, errand[p].cover.covered)
           c == [errand[p].cover EXCEPT !.until = until]
           t == [pages EXCEPT !.checkpoint = c]
<1>1. pages \in Databases /\ WithinBounds(pages)
  BY DatabaseIsTyped DEF DatabaseBounds
<1>2. ASSUME errand[p].line = 0, Executes(p, t) PROVE DatabaseBounds'
  <2>1. errand[p].cover \in Checkpoints
    BY ErrandsAreBounded
  <2> HIDE DEF until
  <2>2. c.covered = errand[p].cover.covered /\ c.head = errand[p].cover.head
    BY <2>1 DEF Checkpoints
  <2>3. c.covered <= MaxRows /\ c.head <= MaxRows
    BY <2>1, <2>2 DEF Checkpoints
  <2> HIDE DEF c
  <2>4. /\ t.version = pages.version /\ t.rows = pages.rows
        /\ t.tokens = pages.tokens /\ t.checkpoint = c
    BY <1>1 DEF Databases
  <2> HIDE DEF t
  <2>5. WithinBounds(t)
    BY <1>1, <2>3, <2>4 DEF WithinBounds
  <2>6. errand[p].line <= CurrentVersion
    BY <1>2, DatabaseAssumption
  <2> QED BY <1>2, <2>5, <2>6, StatementStaysBounded
<1>3. ASSUME Commit(p, 1), UNCHANGED <<pages, deaths>> PROVE DatabaseBounds'
  BY <1>3, CommitStaysBounded
<1> QED BY <1>2, <1>3 DEF SaveStatements

LEMMA OtherMessageStaysBounded ==
  ASSUME DatabaseInv, DatabaseBounds, OtherMessage
  PROVE  DatabaseBounds'
<1> DEFINE t == [db EXCEPT !.rows = Append(@, "other")]
<1>1. db' = t /\ pages' = t /\ deaths' = deaths /\ errand' = errand /\ Len(db.rows) < MaxRows
  BY DEF OtherMessage
<1>2. db \in Databases /\ db.rows \in Tables /\ WithinBounds(db)
  BY DEF DatabaseInv, DatabaseTypes, Databases, DatabaseBounds
<1>3. Len(Append(db.rows, "other")) = Len(db.rows) + 1 /\ Len(db.rows) \in Nat
  BY <1>2, OneRowMore, OursIsFinite
<1>4. /\ t.version = db.version /\ t.rows = Append(db.rows, "other")
      /\ t.tokens = db.tokens /\ t.checkpoint = db.checkpoint
  BY <1>2 DEF Databases
<1> HIDE DEF t
<1>5. Len(t.rows) <= MaxRows
  BY <1>1, <1>3, <1>4, DatabaseAssumption
<1>6. WithinBounds(t)
  BY <1>2, <1>4, <1>5 DEF WithinBounds
<1>7. WithinBounds(db') /\ WithinBounds(pages')
  BY <1>1, <1>6, Zenon
<1>8. errand' \in [Writers -> ErrandsOfRows] /\ deaths' \in 0..MaxDeaths
  BY <1>1 DEF DatabaseBounds
<1> QED BY <1>7, <1>8, Zenon DEF DatabaseBounds

LEMMA AskStaysBounded ==
  ASSUME DatabaseBounds, NEW p \in Writers, NEW r \in RequestsOfRows, Asks(p, r),
         UNCHANGED <<db, pages, deaths>>
  PROVE  DatabaseBounds'
<1> DEFINE e == [errand[p] EXCEPT !.at = "ask", !.request = r]
<1>1. Becomes(p, e)
  BY DEF Asks
<1>2. e \in ErrandsOfRows
  BY ErrandsAreBounded DEF ErrandsOfRows
<1> HIDE DEF e
<1> QED BY <1>1, <1>2, ErrandMovesBounded

LEMMA FirstAreOfRows ==
  ASSUME NEW ids \in SUBSET RowIds, NEW n, NEW m, NEW s \in SUBSET RowIds
  PROVE  First(ids, n) \subseteq RowIds /\ Request(ids, n, s, m) \in RequestsOfRows
<1>1. \A k : First(ids, k) \subseteq RowIds
  BY DEF First
<1>2. ids \ First(ids, m) \subseteq RowIds
  OBVIOUS
<1> QED BY <1>1, <1>2 DEF Request, RequestsOfRows

\* A snapshot has rows of the table, and a checkpoint that materializes has of the snapshot.
LEMMA RequestsStayBounded ==
  ASSUME DatabaseInv, DatabaseBounds, NEW p \in Writers,
         TakeSnapshot(p) \/ LoadCheckpoint(p) \/ SummaryFails(p)
  PROVE  DatabaseBounds'
<1>1. errand[p] \in ErrandsOfRows /\ errand[p].seen \subseteq RowIds
  BY ErrandsAreBounded
<1>2. ASSUME TakeSnapshot(p) PROVE DatabaseBounds'
  <2> DEFINE e == [errand[p] EXCEPT !.at = "checkpoint", !.seen = Ours(db)]
  <2>1. Becomes(p, e) /\ UNCHANGED <<db, pages, deaths>>
    BY <1>2 DEF TakeSnapshot
  <2>2. db.rows \in Tables /\ Len(db.rows) <= MaxRows
    BY DatabaseIsTyped DEF Databases, DatabaseBounds, WithinBounds
  <2>3. Ours(db) \subseteq 1..Len(db.rows) /\ Len(db.rows) \in Nat
    BY <2>2, OursIsFinite DEF Ours, OursOf
  <2>4. Ours(db) \subseteq RowIds
    BY <2>2, <2>3, DatabaseAssumption DEF RowIds
  <2>5. e \in ErrandsOfRows
    BY <1>1, <2>4 DEF ErrandsOfRows
  <2> HIDE DEF e
  <2> QED BY <2>1, <2>5, ErrandMovesBounded
<1>3. ASSUME UNCHANGED <<db, pages, deaths>>, Asks(p, Request(errand[p].seen, 0, {}, 0))
      PROVE  DatabaseBounds'
  <2>1. Request(errand[p].seen, 0, {}, 0) \in RequestsOfRows
    <3>1. {} \in SUBSET RowIds
      OBVIOUS
    <3> QED BY <1>1, <3>1, FirstAreOfRows
  <2> QED BY <1>3, <2>1, AskStaysBounded
<1>4. ASSUME LoadCheckpoint(p) PROVE DatabaseBounds'
  <2> DEFINE c == db.checkpoint
             read == errand[p].seen
  <2>1. UNCHANGED <<db, pages, deaths>>
    BY <1>4 DEF LoadCheckpoint
  <2>2. ASSUME Materializes(c, read),
               Asks(p, Request(read, c.head, c.of \ First(read, c.head), c.covered))
        PROVE  DatabaseBounds'
    <3> DEFINE r == Request(read, c.head, c.of \ First(read, c.head), c.covered)
    <3>1. c.of = First(read, c.covered)
      BY <2>2 DEF Materializes
    <3>2. c.of \subseteq RowIds
      <4>1. {} \in SUBSET RowIds
        OBVIOUS
      <4> QED BY <1>1, <3>1, <4>1, FirstAreOfRows
    <3>3. c.of \ First(read, c.head) \in SUBSET RowIds
      BY <3>2
    <3>4. r \in RequestsOfRows
      BY <1>1, <3>3, FirstAreOfRows
    <3>5. Asks(p, r)
      BY <2>2
    <3> HIDE DEF r
    <3> QED BY <2>1, <3>4, <3>5, AskStaysBounded
  <2>3. ASSUME Becomes(p, [errand[p] EXCEPT !.at = "summarize"]) PROVE DatabaseBounds'
    <3>1. [errand[p] EXCEPT !.at = "summarize"] \in ErrandsOfRows
      BY <1>1 DEF ErrandsOfRows
    <3> QED BY <2>1, <2>3, <3>1, ErrandMovesBounded
  <2>4. \/ Materializes(c, read) /\
             Asks(p, Request(read, c.head, c.of \ First(read, c.head), c.covered))
        \/ Asks(p, Request(read, 0, {}, 0))
        \/ Becomes(p, [errand[p] EXCEPT !.at = "summarize"])
    BY <1>4 DEF LoadCheckpoint
  <2> QED BY <1>3, <2>1, <2>2, <2>3, <2>4
<1>5. ASSUME SummaryFails(p) PROVE DatabaseBounds'
  BY <1>3, <1>5 DEF SummaryFails
<1> QED BY <1>2, <1>4, <1>5

\* What a summary covers is of the messages that were read, which are rows of the table.
LEMMA SummarizedStaysBounded ==
  ASSUME DatabaseInv, DatabaseBounds, NEW p \in Writers, Summarized(p)
  PROVE  DatabaseBounds'
<1> DEFINE read == errand[p].seen
<1>1. UNCHANGED <<db, pages, deaths>>
  BY DEF Summarized
<1>2. errand[p] \in ErrandsOfRows /\ read \in SUBSET RowIds
  BY ErrandsAreBounded
<1>3. Cardinality(read) \in Nat /\ Cardinality(read) <= MaxRows
  <2>1. IsFiniteSet(RowIds) /\ Cardinality(RowIds) = MaxRows
    <3>1. 1 \in Int /\ MaxRows \in Int /\ MaxRows \in Nat
      BY DatabaseAssumption
    <3>2. IsFiniteSet(1..MaxRows)
          /\ Cardinality(1..MaxRows) = IF 1 > MaxRows THEN 0 ELSE MaxRows - 1 + 1
      BY <3>1, FS_Interval
    <3>3. Cardinality(1..MaxRows) = MaxRows
      BY <3>1, <3>2
    <3> QED BY <3>2, <3>3 DEF RowIds
  <2>2. IsFiniteSet(read) /\ Cardinality(read) <= Cardinality(RowIds)
    BY <1>2, <2>1, FS_Subset
  <2>3. Cardinality(read) \in Nat
    BY <2>2, FS_CardinalityType
  <2> QED BY <2>1, <2>2, <2>3
<1>4. PICK covered \in 1..Cardinality(read) : \E head \in 0..covered - 1 :
        Becomes(p, [errand[p] EXCEPT !.at = "begin", !.op = "record",
          !.request = Request(read, head, First(read, covered) \ First(read, head), covered),
          !.cover = [covered |-> covered, head |-> head, until |-> 0,
                     of |-> First(read, covered)]])
  BY Zenon DEF Summarized
<1>5. PICK head \in 0..covered - 1 :
        Becomes(p, [errand[p] EXCEPT !.at = "begin", !.op = "record",
          !.request = Request(read, head, First(read, covered) \ First(read, head), covered),
          !.cover = [covered |-> covered, head |-> head, until |-> 0,
                     of |-> First(read, covered)]])
  BY <1>4, Zenon
<1>6. covered \in 0..MaxRows /\ head \in 0..MaxRows /\ 0 \in 0..MaxRows
  BY <1>3, DatabaseAssumption
<1> DEFINE r == Request(read, head, First(read, covered) \ First(read, head), covered)
           c == [covered |-> covered, head |-> head, until |-> 0, of |-> First(read, covered)]
           e == [errand[p] EXCEPT !.at = "begin", !.op = "record", !.request = r, !.cover = c]
<1>7. First(read, covered) \subseteq RowIds /\ r \in RequestsOfRows
  <2>1. First(read, covered) \subseteq RowIds
    BY <1>2, FirstAreOfRows
  <2>2. First(read, covered) \ First(read, head) \in SUBSET RowIds
    BY <2>1
  <2> QED BY <1>2, <2>1, <2>2, FirstAreOfRows
<1>8. c \in Checkpoints
  BY <1>6, <1>7 DEF Checkpoints
<1>9. Becomes(p, e)
  BY <1>5
<1> HIDE DEF r, c
<1>10. e \in ErrandsOfRows
  BY <1>2, <1>7, <1>8 DEF ErrandsOfRows
<1> HIDE DEF e
<1> QED BY <1>1, <1>9, <1>10, ErrandMovesBounded

LEMMA ProcessesStayBounded ==
  ASSUME DatabaseBounds, NEW p \in Writers,
         OpenDatabase(p) \/ AppendRow(p) \/ SaveCheckpoint(p) \/ RecordModelResponse(p)
           \/ ModelFails(p) \/ Die(p)
  PROVE  DatabaseBounds'
<1>1. ASSUME OpenDatabase(p) \/ AppendRow(p) \/ SaveCheckpoint(p) PROVE DatabaseBounds'
  BY <1>1, WriteStaysBounded DEF OpenDatabase, AppendRow, SaveCheckpoint
<1>2. ASSUME RecordModelResponse(p) PROVE DatabaseBounds'
  <2> DEFINE e == [Doing("begin") EXCEPT !.op = "record"]
  <2>1. Becomes(p, e) /\ UNCHANGED <<db, pages, deaths>>
    BY <1>2 DEF RecordModelResponse
  <2>2. Doing("begin") \in ErrandsOfRows
    BY NothingIsOfRows
  <2>3. e \in ErrandsOfRows
    BY <2>2 DEF ErrandsOfRows
  <2> HIDE DEF e
  <2> QED BY <2>1, <2>3, ErrandMovesBounded
<1>3. ASSUME ModelFails(p) PROVE DatabaseBounds'
  <2>1. Becomes(p, Doing("idle")) /\ UNCHANGED <<db, pages, deaths>>
    BY <1>3 DEF ModelFails
  <2>2. Doing("idle") \in ErrandsOfRows
    BY NothingIsOfRows
  <2> QED BY <2>1, <2>2, ErrandMovesBounded
<1>4. ASSUME Die(p) PROVE DatabaseBounds'
  <2>1. /\ Becomes(p, Doing("down")) /\ db' = db /\ pages' \in {db, pages}
        /\ deaths' = deaths + 1 /\ deaths < MaxDeaths
    BY <1>4 DEF Die
  <2>2. WithinBounds(db) /\ WithinBounds(pages) /\ deaths \in 0..MaxDeaths
    BY DEF DatabaseBounds
  <2>3. deaths' \in 0..MaxDeaths
    BY <2>1, <2>2, DatabaseAssumption
  <2>4. pages' = db \/ pages' = pages
    BY <2>1
  <2>5. WithinBounds(db') /\ WithinBounds(pages')
    BY <2>1, <2>2, <2>4, Zenon
  <2>6. Doing("down") \in ErrandsOfRows
    BY NothingIsOfRows
  <2> QED BY <2>1, <2>3, <2>5, <2>6, ErrandStaysBounded
<1> QED BY <1>1, <1>2, <1>3, <1>4

LEMMA DatabaseBoundsStay == DatabaseInv /\ DatabaseBounds /\ [DatabaseNext]_databaseVars => DatabaseBounds'
<1> SUFFICES ASSUME DatabaseInv, DatabaseBounds, [DatabaseNext]_databaseVars PROVE DatabaseBounds'
  OBVIOUS
<1>1. CASE OtherMessage
  BY <1>1, OtherMessageStaysBounded
<1>2. ASSUME NEW p \in Writers,
             BeginWrite(p) \/ Busy(p) \/ RefuseNewer(p) \/ Migrate(p)
      PROVE  DatabaseBounds'
  BY <1>2, LockStaysBounded, MigrationStaysBounded
<1>3. ASSUME NEW p \in Writers,
             OpenDatabase(p) \/ AppendRow(p) \/ SaveCheckpoint(p) \/ RecordModelResponse(p)
               \/ ModelFails(p) \/ Die(p)
      PROVE  DatabaseBounds'
  BY <1>3, ProcessesStayBounded
<1>4. ASSUME NEW p \in Writers, AppendStatements(p) \/ RecordStatements(p) \/ SaveStatements(p)
      PROVE  DatabaseBounds'
  BY <1>4, AppendStaysBounded, RecordStaysBounded, SaveStaysBounded
<1>5. ASSUME NEW p \in Writers,
             TakeSnapshot(p) \/ LoadCheckpoint(p) \/ Summarized(p) \/ SummaryFails(p)
      PROVE  DatabaseBounds'
  BY <1>5, RequestsStayBounded, SummarizedStaysBounded
<1>6. CASE UNCHANGED databaseVars
  <2>1. db' = db /\ pages' = pages /\ errand' = errand /\ deaths' = deaths
    BY <1>6 DEF databaseVars
  <2> QED BY <2>1, Zenon DEF DatabaseBounds
<1> QED BY <1>1, <1>2, <1>3, <1>4, <1>5, <1>6, Zenon DEF DatabaseNext

\* A run has at most the answers there are.
LEMMA RunsHaveFewAnswers ==
  ASSUME NEW f \in [Writers -> Nat], IsFiniteSet(AnswersOf(f)), NEW p \in Writers
  PROVE  f[p] <= Cardinality(AnswersOf(f))
<1> DEFINE n == f[p]
           S == {<<p, i>> : i \in 1..n}
           g == [i \in 1..n |-> <<p, i>>]
<1>1. n \in Nat
  OBVIOUS
<1>2. S \subseteq AnswersOf(f)
  BY AnswerOf
<1> HIDE DEF n
<1>3. g \in Bijection(1..n, S)
  <2>1. g \in [1..n -> S] /\ (\A i, j \in 1..n : g[i] = g[j] => i = j)
        /\ \A s \in S : \E i \in 1..n : g[i] = s
    OBVIOUS
  <2> QED BY <2>1 DEF Bijection, Injection, Surjection, IsInjective
<1>4. IsFiniteSet(1..n) /\ Cardinality(1..n) = n
  <2>1. 1 \in Int /\ n \in Int
    BY <1>1
  <2>2. IsFiniteSet(1..n) /\ Cardinality(1..n) = IF 1 > n THEN 0 ELSE n - 1 + 1
    BY <2>1, FS_Interval
  <2> QED BY <1>1, <2>2
<1> HIDE DEF S, g
<1>5. Cardinality(S) = n
  <2>1. ExistsBijection(1..n, S)
    BY <1>3 DEF ExistsBijection
  <2> QED BY <1>4, <2>1, FS_Bijection
<1>6. Cardinality(S) <= Cardinality(AnswersOf(f))
  BY <1>2, FS_Subset
<1> QED BY <1>5, <1>6 DEF n

\* What is committed has the values it may have.
LEMMA CommittedIsTyped ==
  ASSUME DatabaseInv, DatabaseBounds
  PROVE  /\ db.version \in 0..CurrentVersion + 1 /\ db.migrated \subseteq 1..CurrentVersion
         /\ Len(db.rows) <= MaxRows /\ db.messageCount \in 0..MaxRows
         /\ db.tokens \in 0..MaxAnswers /\ db.runTokens \in [Writers -> 0..MaxAnswers]
         /\ db.checkpoint \in Checkpoints
<1>1. db \in Databases /\ Sound(db, 0, 0) /\ WithinBounds(db)
  BY DEF DatabaseInv, DatabaseTypes, DatabaseBounds
<1>2. /\ db.version \in Nat /\ db.rows \in Tables /\ db.messageCount \in Nat
      /\ db.tokens \in Nat /\ db.runTokens \in [Writers -> Nat] /\ db.checkpoint \in Checks
  BY <1>1 DEF Databases
<1>3. db.version \in 0..CurrentVersion + 1 /\ db.tokens \in 0..MaxAnswers /\ Len(db.rows) <= MaxRows
  BY <1>1, <1>2, DatabaseAssumption DEF WithinBounds
<1>4. db.migrated \subseteq 1..CurrentVersion
  BY <1>1 DEF Sound, SchemaOf
<1>5. OursOf(db.rows) \subseteq 1..Len(db.rows) /\ Len(db.rows) \in Nat
  BY <1>2, OursIsFinite
<1>6. OursOf(db.rows) \subseteq RowIds
  BY <1>3, <1>5, DatabaseAssumption DEF RowIds
<1>7. db.messageCount \in 0..MaxRows
  <2>1. 1 \in Int /\ Len(db.rows) \in Int
    BY <1>5
  <2>2. IsFiniteSet(1..Len(db.rows))
        /\ Cardinality(1..Len(db.rows)) = IF 1 > Len(db.rows) THEN 0 ELSE Len(db.rows) - 1 + 1
    BY <2>1, FS_Interval
  <2>3. Cardinality(1..Len(db.rows)) = Len(db.rows)
    BY <1>5, <2>2
  <2>4. Cardinality(OursOf(db.rows)) <= Len(db.rows)
    BY <1>5, <2>2, <2>3, FS_Subset
  <2>5. db.messageCount + 0 = Cardinality(OursOf(db.rows))
    BY <1>1 DEF Sound, MessagesLack
  <2> QED BY <1>2, <1>3, <1>5, <2>4, <2>5, DatabaseAssumption
<1>8. db.runTokens \in [Writers -> 0..MaxAnswers]
  <2>1. /\ IsFiniteSet(AnswersOf(db.runTokens))
        /\ db.tokens = Cardinality(AnswersOf(db.runTokens)) + 0
    BY <1>1 DEF Sound, AnswersAhead
  <2>2. Cardinality(AnswersOf(db.runTokens)) <= MaxAnswers
    BY <1>3, <2>1, FS_CardinalityType, DatabaseAssumption
  <2>3. ASSUME NEW p \in Writers PROVE db.runTokens[p] \in 0..MaxAnswers
    <3>1. db.runTokens[p] <= Cardinality(AnswersOf(db.runTokens))
      BY <1>2, <2>1, RunsHaveFewAnswers
    <3>2. Cardinality(AnswersOf(db.runTokens)) \in Nat /\ db.runTokens[p] \in Nat
      BY <1>2, <2>1, FS_CardinalityType
    <3> QED BY <2>2, <3>1, <3>2, DatabaseAssumption
  <2> QED BY <1>2, <2>3
<1>9. db.checkpoint \in Checkpoints
  <2> DEFINE c == db.checkpoint
  <2>1. c.covered \in 0..MaxRows /\ c.head \in 0..MaxRows /\ c.until \in 0..MaxRows
    <3>1. c.covered \in Nat /\ c.head \in Nat /\ c.until \in Nat /\ c.until <= Len(db.rows)
      BY <1>1, <1>2 DEF Checks, Sound, CheckpointOf
    <3>2. c.covered <= MaxRows /\ c.head <= MaxRows
      BY <1>1 DEF WithinBounds
    <3> HIDE DEF c
    <3> QED BY <1>3, <1>5, <3>1, <3>2, DatabaseAssumption
  <2>2. CASE c = NoCheckpoint
    BY <2>2, NothingIsOfRows
  <2>3. CASE c # NoCheckpoint
    <3>1. c.of = UpToId(OursOf(db.rows), c.until)
      BY <1>1, <2>3 DEF Sound, CheckpointOf
    <3>2. c.of \subseteq RowIds
      BY <1>6, <3>1 DEF UpToId
    <3>3. c \in Checks
      BY <1>2
    <3> HIDE DEF c
    <3>4. c = [covered |-> c.covered, head |-> c.head, until |-> c.until, of |-> c.of]
      BY <3>3 DEF Checks
    <3>5. c \in Checkpoints
      BY <2>1, <3>2, <3>4 DEF Checkpoints
    <3> QED BY <3>5 DEF c
  <2> QED BY <2>2, <2>3
<1> QED BY <1>3, <1>4, <1>7, <1>8, <1>9

LEMMA DatabaseTypesAreThese == DatabaseInv /\ DatabaseBounds => DatabaseTypeOK
<1> SUFFICES ASSUME DatabaseInv, DatabaseBounds PROVE DatabaseTypeOK
  OBVIOUS
<1>1. /\ writing \subseteq Writers /\ (\A p, q \in writing : p = q)
      /\ (writing = {} => pages = db)
  BY DEF DatabaseInv, DatabaseTypes, LockIsOne
<1>2. Cardinality(writing) <= 1
  <2>1. CASE writing = {}
    <3>1. Cardinality(writing) = 0
      BY <2>1, FS_EmptySet
    <3> QED BY <3>1
  <2>2. CASE writing # {}
    <3>1. PICK p \in writing : TRUE
      BY <2>2
    <3>2. writing = {p}
      BY <1>1, <3>1
    <3>3. Cardinality(writing) = 1
      BY <3>2, FS_Singleton
    <3> QED BY <3>3
  <2> QED BY <2>1, <2>2
<1>3. errand \in [Writers -> ErrandsOfRows] /\ deaths \in 0..MaxDeaths
  BY DEF DatabaseBounds
<1>4. /\ db.version \in 0..CurrentVersion + 1 /\ db.migrated \subseteq 1..CurrentVersion
      /\ Len(db.rows) <= MaxRows /\ db.messageCount \in 0..MaxRows
      /\ db.tokens \in 0..MaxAnswers /\ db.runTokens \in [Writers -> 0..MaxAnswers]
      /\ db.checkpoint \in Checkpoints
  BY CommittedIsTyped
<1> QED BY <1>1, <1>2, <1>3, <1>4, Zenon DEF DatabaseTypeOK, ErrandsOfRows, RequestsOfRows

\* Whatever the processes do to the database and die of, it and they have the values
\* they may have, and one of them at most has the lock.
LEMMA TheDatabaseKeepsTypes == DatabaseSpec => []DatabaseTypeOK
<1>1. DatabaseInit => DatabaseBounds
  BY DatabaseBoundsHold
<1>2. DatabaseInv /\ DatabaseBounds /\ [DatabaseNext]_databaseVars => DatabaseBounds'
  BY DatabaseBoundsStay
<1>3. DatabaseInv /\ DatabaseBounds => DatabaseTypeOK
  BY DatabaseTypesAreThese
<1>4. DatabaseSpec => []DatabaseInv
  BY DatabaseInvIsInvariant
<1> QED BY <1>1, <1>2, <1>3, <1>4, PTL DEF DatabaseSpec

-----------------------------------------------------------------------------
(* The parts together (MCParts) *)

\* A step of the parts together is, for each part, a step of its own or leaves it
\* alone: what is proved of a part holds where the parts are checked.
PartsStep ==
  /\ UNCHANGED part
  /\ \/ TurnNext /\ UNCHANGED <<learningVars, gatewayVars>>
     \/ LearningNext /\ UNCHANGED <<turnVars, gatewayVars>>
     \/ GatewayNext /\ UNCHANGED <<turnVars, learningVars>>

LEMMA GatewayPartsStep ==
  [PartsStep]_allVars => [PairingNext]_pairingVars /\ [ProgressNext]_progressVars
<1>1. ASSUME UNCHANGED gatewayVars PROVE UNCHANGED pairingVars /\ UNCHANGED progressVars
  BY <1>1 DEF gatewayVars
<1>2. ASSUME UNCHANGED allVars PROVE UNCHANGED gatewayVars
  BY <1>2 DEF allVars
<1>3. ASSUME GatewayNext PROVE [PairingNext]_pairingVars /\ [ProgressNext]_progressVars
  BY <1>3 DEF GatewayNext
<1> QED BY <1>1, <1>2, <1>3 DEF PartsStep

LEMMA LearningPartsStep ==
  [PartsStep]_allVars =>
    /\ [SkillNext]_skillVars /\ [FilesNext]_memVars
    /\ [CandidateNext]_candidateVars /\ [ReviewNext]_reviewVars
<1>1. ASSUME UNCHANGED learningVars
      PROVE  /\ UNCHANGED skillVars /\ UNCHANGED memVars
             /\ UNCHANGED candidateVars /\ UNCHANGED reviewVars
  BY <1>1 DEF learningVars
<1>2. ASSUME UNCHANGED allVars PROVE UNCHANGED learningVars
  BY <1>2 DEF allVars
<1>3. ASSUME LearningNext
      PROVE  /\ [SkillNext]_skillVars /\ [FilesNext]_memVars
             /\ [CandidateNext]_candidateVars /\ [ReviewNext]_reviewVars
  BY <1>3 DEF LearningNext
<1> QED BY <1>1, <1>2, <1>3 DEF PartsStep

LEMMA TurnPartsStep ==
  [PartsStep]_allVars =>
    /\ [ReplayNext]_replayVars /\ [RecallNext]_recallVars /\ [DatabaseNext]_databaseVars
    /\ [EventNext]_eventVars /\ [ApprovalNext]_approvalVars /\ [BatchNext]_batchVars
    /\ [TodoNext]_todoVars /\ [ContextNext]_contextVars /\ [TransportNext]_transportVars
<1>1. ASSUME UNCHANGED turnVars
      PROVE  /\ UNCHANGED replayVars /\ UNCHANGED recallVars /\ UNCHANGED databaseVars
             /\ UNCHANGED eventVars /\ UNCHANGED approvalVars /\ UNCHANGED batchVars
             /\ UNCHANGED todoVars /\ UNCHANGED contextVars /\ UNCHANGED transportVars
  BY <1>1 DEF turnVars
<1>2. ASSUME UNCHANGED allVars PROVE UNCHANGED turnVars
  BY <1>2 DEF allVars
<1>3. ASSUME TurnNext
      PROVE  /\ [ReplayNext]_replayVars /\ [RecallNext]_recallVars
             /\ [DatabaseNext]_databaseVars /\ [EventNext]_eventVars
             /\ [ApprovalNext]_approvalVars /\ [BatchNext]_batchVars /\ [TodoNext]_todoVars
             /\ [ContextNext]_contextVars /\ [TransportNext]_transportVars
  BY <1>3 DEF TurnNext
<1> QED BY <1>1, <1>2, <1>3 DEF PartsStep

LEMMA ReplayIsAPart == PartsSpec => ReplaySpec
<1>1. PartsInit => ReplayInit
  BY DEF PartsInit
<1> QED BY <1>1, TurnPartsStep, PTL DEF PartsSpec, PartsStep, ReplaySpec

LEMMA RecallIsAPart == PartsSpec => RecallSpec
<1>1. PartsInit => RecallInit
  BY DEF PartsInit
<1> QED BY <1>1, TurnPartsStep, PTL DEF PartsSpec, PartsStep, RecallSpec

LEMMA DatabaseIsAPart == PartsSpec => DatabaseSpec
<1>1. PartsInit => DatabaseInit
  BY DEF PartsInit
<1> QED BY <1>1, TurnPartsStep, PTL DEF PartsSpec, PartsStep, DatabaseSpec

LEMMA ApprovalsAreAPart == PartsSpec => ApprovalSpec
<1>1. PartsInit => ApprovalInit
  BY DEF PartsInit
<1> QED BY <1>1, TurnPartsStep, PTL DEF PartsSpec, PartsStep, ApprovalSpec

LEMMA BatchIsAPart == PartsSpec => BatchSpec
<1>1. PartsInit => BatchInit
  BY DEF PartsInit
<1> QED BY <1>1, TurnPartsStep, PTL DEF PartsSpec, PartsStep, BatchSpec

LEMMA TodosAreAPart == PartsSpec => TodoSpec
<1>1. PartsInit => TodoInit
  BY DEF PartsInit
<1> QED BY <1>1, TurnPartsStep, PTL DEF PartsSpec, PartsStep, TodoSpec

LEMMA ContextIsAPart == PartsSpec => ContextSpec
<1>1. PartsInit => ContextInit
  BY DEF PartsInit
<1> QED BY <1>1, TurnPartsStep, PTL DEF PartsSpec, PartsStep, ContextSpec

LEMMA TransportIsAPart == PartsSpec => TransportSpec
<1>1. PartsInit => TransportInit
  BY DEF PartsInit
<1> QED BY <1>1, TurnPartsStep, PTL DEF PartsSpec, PartsStep, TransportSpec

LEMMA PairingIsAPart == PartsSpec => PairingSpec
<1>1. PartsInit => PairingInit
  BY DEF PartsInit
<1> QED BY <1>1, GatewayPartsStep, PTL DEF PartsSpec, PartsStep, PairingSpec

LEMMA ProgressIsAPart == PartsSpec => ProgressSpec
<1>1. PartsInit => ProgressInit
  BY DEF PartsInit
<1> QED BY <1>1, GatewayPartsStep, PTL DEF PartsSpec, PartsStep, ProgressSpec

LEMMA CandidatesAreAPart == PartsSpec => CandidateSpec
<1>1. PartsInit => CandidateInit
  BY DEF PartsInit
<1> QED BY <1>1, LearningPartsStep, PTL DEF PartsSpec, PartsStep, CandidateSpec

LEMMA SkillsAreAPart == PartsSpec => SkillSpec
<1>1. PartsInit => SkillInit
  BY DEF PartsInit
<1> QED BY <1>1, LearningPartsStep, PTL DEF PartsSpec, PartsStep, SkillSpec

LEMMA FilesAreAPart == PartsSpec => FilesSpec
<1>1. PartsInit => FilesInit
  BY DEF PartsInit
<1> QED BY <1>1, LearningPartsStep, PTL DEF PartsSpec, PartsStep, FilesSpec

LEMMA EventsAreAPart == PartsSpec => EventSpec
<1>1. PartsInit => EventInit
  BY DEF PartsInit
<1> QED BY <1>1, TurnPartsStep, PTL DEF PartsSpec, PartsStep, EventSpec

LEMMA ReviewsAreAPart == PartsSpec => ReviewSpec
<1>1. PartsInit => ReviewInit
  BY DEF PartsInit
<1> QED BY <1>1, LearningPartsStep, PTL DEF PartsSpec, PartsStep, ReviewSpec

\* What the gateway tells a user is so and comes in order.
THEOREM TheGatewayIsHonest == PartsSpec => []GatewayIsHonest
<1>1. PairingIsKept /\ ProgressPrecedesReply => GatewayIsHonest
  BY DEF GatewayIsHonest
<1> QED BY <1>1, PairingIsAPart, ProgressIsAPart, PairingsAreKept, NoticesComeInOrder, PTL

\* What becomes of an experience can be followed: no block of a prompt without its
\* candidate, no review without the executions that pay for it.
THEOREM ExperienceCanBeFollowed == PartsSpec => []EvolutionIsTraceable
<1>1. PromptIsTraceable /\ ReviewsArePaidFor => EvolutionIsTraceable
  BY DEF EvolutionIsTraceable
<1> QED BY <1>1, CandidatesAreAPart, ReviewsAreAPart, PromptsAreTraceable, ReviewsArePaid, PTL

\* What is read of earlier runs is what happened in them: a search is of whole sessions
\* of other lineages, a replay tells what the model and the tools did, and the database
\* holds the messages of both processes.
THEOREM TheHistoryIsFaithful == PartsSpec => []HistoryIsFaithful
<1>1. RecallIsWhole /\ ReplayIsFaithful /\ DatabaseIsSound => HistoryIsFaithful
  BY DEF HistoryIsFaithful
<1> QED
  BY <1>1, RecallIsAPart, ReplayIsAPart, DatabaseIsAPart, SearchesAreWhole, ReplaysAreFaithful,
     TheDatabaseIsSound, PTL

\* The calls of a turn run as the user agreed and in their order, and tell what they did:
\* by consent, in the batch, and on the todo list.
THEOREM TheCallsAreHandled == PartsSpec => []CallsAreHandled
<1>1. CallsAreConsented /\ BatchRunsInOrder /\ WritesAreReported /\ TodosAreKept
        => CallsAreHandled
  BY DEF CallsAreHandled
<1> QED
  BY <1>1, ApprovalsAreAPart, BatchIsAPart, TodosAreAPart, CallsNeedConsent,
     BatchesRunInOrder, TodosStayOnTheList, PTL

\* What the model is sent is whole: every call in it with its result, and what the
\* transport makes of it loses none of them, also when it asks again.
THEOREM TheModelExchangeIsFaithful == PartsSpec => []ModelExchangeIsFaithful
<1>1. RequestIsWhole /\ TransportIsFaithful => ModelExchangeIsFaithful
  BY DEF ModelExchangeIsFaithful
<1> QED
  BY <1>1, ContextIsAPart, TransportIsAPart, TheRequestsAreWhole, TheTransportIsFaithful, PTL

\* The parts there are.
PartNames ==
  {"approvals", "batch", "context", "transport", "events", "replay", "recall", "database",
   "todos", "skills", "memory", "candidates", "reviews", "pairing", "progress"}

LEMMA PartIsChosen == PartsSpec => [](part \in PartNames)
<1>1. PartsInit => part \in PartNames
  BY DEF PartsInit, PartNames
<1>2. part \in PartNames /\ [PartsStep]_allVars => (part \in PartNames)'
  <2> SUFFICES ASSUME part \in PartNames, [PartsStep]_allVars PROVE part' \in PartNames
    OBVIOUS
  <2>1. part' = part
    BY DEF PartsStep, allVars
  <2> QED BY <2>1
<1> QED BY <1>1, <1>2, PTL DEF PartsSpec, PartsStep

LEMMA SkillsKeepTypes == SkillSpec => []SkillTypeOK
<1>1. SkillInv => SkillTypeOK
  BY DEF SkillInv
<1> QED BY <1>1, SkillInit_Inv, SkillNext_Inv, PTL DEF SkillSpec

LEMMA EventsKeepTypes == EventSpec => []EventTypeOK
<1>1. EventInv => EventTypeOK
  BY DEF EventInv
<1> QED BY <1>1, EventInvHolds, EventInvStays, PTL DEF EventSpec

LEMMA CandidatesKeepTypes == CandidateSpec => []CandidateTypeOK
<1>1. CandidateInv => CandidateTypeOK
  BY DEF CandidateInv
<1> QED BY <1>1, CandidateInvIsInvariant, PTL

LEMMA PairingsKeepTypes == PairingSpec => []PairingTypeOK
<1>1. PairingInv => PairingTypeOK
  BY DEF PairingInv
<1> QED BY <1>1, PairingInvHolds, PairingStep, PTL DEF PairingSpec

LEMMA ProgressKeepsTypes == ProgressSpec => []ProgressTypeOK
<1>1. ProgressInv => ProgressTypeOK
  BY DEF ProgressInv
<1>2. ProgressInv /\ [ProgressNext]_progressVars => ProgressInv'
  BY ProgressInvKept
<1> QED BY <1>1, <1>2, ProgressInvHolds, PTL DEF ProgressSpec

\* Each component has the values its variables may have, and so has the part that is run.
TurnTypes ==
  /\ ApprovalTypeOK /\ BatchTypeOK /\ ContextTypeOK /\ TransportTypeOK /\ EventTypeOK
  /\ ReplayTypeOK /\ RecallTypeOK /\ DatabaseTypeOK /\ TodoTypeOK
LearningTypes == SkillTypeOK /\ FilesTypeOK /\ CandidateTypeOK /\ ReviewTypeOK
GatewayTypes == PairingTypeOK /\ ProgressTypeOK

LEMMA TypesOfTheParts ==
  part \in PartNames /\ TurnTypes /\ LearningTypes /\ GatewayTypes => PartsTypeOK
<1> SUFFICES ASSUME part \in PartNames, TurnTypes, LearningTypes, GatewayTypes PROVE PartsTypeOK
  OBVIOUS
<1>1. /\ ApprovalTypeOK /\ BatchTypeOK /\ ContextTypeOK /\ TransportTypeOK /\ EventTypeOK
      /\ ReplayTypeOK /\ RecallTypeOK /\ DatabaseTypeOK /\ TodoTypeOK
  BY DEF TurnTypes
<1>2. /\ SkillTypeOK /\ FilesTypeOK /\ CandidateTypeOK /\ ReviewTypeOK
      /\ PairingTypeOK /\ ProgressTypeOK
  BY DEF LearningTypes, GatewayTypes
<1> QED BY <1>1, <1>2, Zenon DEF PartNames, PartsTypeOK

\* For any numbers of messages, retries, processes, candidates and users, whichever part is
\* run, its variables have the values the code can give them: no status, place, count or
\* lock beyond what the types of the part name.
THEOREM PartsAreTyped == PartsSpec => []PartsTypeOK
<1>1. PartsSpec => []TurnTypes
  <2>1. PartsSpec => []ApprovalTypeOK /\ []BatchTypeOK /\ []TodoTypeOK
    BY ApprovalsAreAPart, ApprovalTypes, BatchIsAPart, BatchKeepsTypes, TodosAreAPart,
       TodoTypes, PTL
  <2>2. PartsSpec => []ContextTypeOK /\ []TransportTypeOK /\ []EventTypeOK
    BY ContextIsAPart, MessagesKeepTypes, TransportIsAPart, TransportKeepsTypes,
       EventsAreAPart, EventsKeepTypes, PTL
  <2>3. PartsSpec => []ReplayTypeOK /\ []RecallTypeOK /\ []DatabaseTypeOK
    BY ReplayIsAPart, ReplaysKeepTypes, RecallIsAPart, SearchesKeepTypes, DatabaseIsAPart,
       TheDatabaseKeepsTypes, PTL
  <2> QED BY <2>1, <2>2, <2>3, PTL DEF TurnTypes
<1>2. PartsSpec => []LearningTypes
  <2>1. PartsSpec => []SkillTypeOK /\ []FilesTypeOK
    BY SkillsAreAPart, SkillsKeepTypes, FilesAreAPart, FilesTypes, PTL
  <2>2. PartsSpec => []CandidateTypeOK /\ []ReviewTypeOK
    BY CandidatesAreAPart, CandidatesKeepTypes, ReviewsAreAPart, ReviewsKeepTypes, PTL
  <2> QED BY <2>1, <2>2, PTL DEF LearningTypes
<1>3. PartsSpec => []GatewayTypes
  BY PairingIsAPart, PairingsKeepTypes, ProgressIsAPart, ProgressKeepsTypes, PTL
     DEF GatewayTypes
<1> QED BY <1>1, <1>2, <1>3, PartIsChosen, TypesOfTheParts, PTL
=============================================================================
