---------------------------- MODULE MemoryFiles ----------------------------
(***************************************************************************)
(* memory/file_memory.py under the tool of tools/memory_tool.py: two files *)
(* that an operation reads and replaces, one after the other, under a file *)
(* lock, then a line of the audit.  Assistants change memories, reviewers  *)
(* add them and only propose changes.  Processes may die at any write.     *)
(***************************************************************************)
EXTENDS Naturals, FiniteSets

CONSTANTS
  MemoryUsers, MemoryTexts, MemoryClash, MaxMemories,
  Assistants,        \* calls of the tool in turns, each in a process
  Reviewers,         \* calls of the tool in background reviews
  MaxMemoryCrashes   \* bound on the crashes

ASSUME FilesAssumption ==
  /\ MaxMemories \in Nat /\ MaxMemoryCrashes \in Nat
  /\ MemoryClash \subseteq MemoryTexts \X MemoryTexts
  /\ \A p \in MemoryClash : <<p[2], p[1]>> \in MemoryClash
  /\ Assistants \cap Reviewers = {} /\ "nobody" \notin Assistants \cup Reviewers

VARIABLES
  page,      \* MEMORY.md and USER.md
  lapsed,    \* ids whose expiry has passed
  latch,     \* who holds .memory.lock, or "nobody"
  caller,    \* where a caller is, and what it is about to write
  nextId,    \* the next random id
  audit,     \* .memory-audit.jsonl: the ids an entry is about
  memCrashes

memVars == <<page, lapsed, latch, caller, nextId, audit, memCrashes>>

Callers == Assistants \cup Reviewers
MemoryIds == 1..MaxMemories
MemoryTargets == {"memory", "user"}
Memories == [id : MemoryIds, user : MemoryUsers, target : MemoryTargets, text : MemoryTexts,
             expires : BOOLEAN, kept : BOOLEAN]

\* A MemoryRecord, kept apart from the constructor of records for the proofs' sake.
NewRecord(id, user, target, text, expires, kept) ==
  [id |-> id, user |-> user, target |-> target, text |-> text, expires |-> expires, kept |-> kept]

Resting == [at |-> "rest", plan |-> {}, about |-> {}]

FilesTypeOK ==
  /\ page \in [MemoryTargets -> SUBSET Memories] /\ lapsed \subseteq MemoryIds
  /\ latch \in Callers \cup {"nobody"}
  /\ caller \in [Callers -> [at : {"rest", "locked", "memory", "user", "audit"},
                             plan : SUBSET Memories, about : SUBSET MemoryIds]]
  /\ nextId \in 1..MaxMemories + 1 /\ audit \subseteq MemoryIds
  /\ memCrashes \in 0..MaxMemoryCrashes

FilesInit ==
  /\ page = [t \in MemoryTargets |-> {}] /\ lapsed = {} /\ latch = "nobody"
  /\ caller = [c \in Callers |-> Resting] /\ nextId = 1 /\ audit = {} /\ memCrashes = 0

\* _read_all(), and what of it is not expired.
Stored == page["memory"] \cup page["user"]
Listed == {m \in Stored : m.id \notin lapsed}

Conflicts(text, target, user, among) ==
  {m \in among : m.user = user /\ m.target = target /\ <<text, m.text>> \in MemoryClash}

\* Mutant of Lock, which violates ImplementsDurableMemory.
LockAnyway(c) ==
  /\ caller[c].at = "rest"
  /\ latch' = c /\ caller' = [caller EXCEPT ![c].at = "locked"]
  /\ UNCHANGED <<page, lapsed, nextId, audit, memCrashes>>

\* _file_lock() and the read under it.
Lock(c) ==
  /\ caller[c].at = "rest" /\ latch = "nobody"
  /\ latch' = c /\ caller' = [caller EXCEPT ![c].at = "locked"]
  /\ UNCHANGED <<page, lapsed, nextId, audit, memCrashes>>

\* The operation has read the files and knows what it writes.
Plan(c, records, about) ==
  /\ caller' = [caller EXCEPT ![c] = [at |-> "memory", plan |-> records, about |-> about]]
  /\ UNCHANGED <<page, lapsed, latch, audit, memCrashes>>

\* add_for_user(); a conflict that is not resolved, and a memory that is listed
\* already, end the call.
Add(c) ==
  /\ caller[c].at = "locked" /\ nextId <= MaxMemories
  /\ \E user \in MemoryUsers, target \in MemoryTargets, text \in MemoryTexts,
        expires \in BOOLEAN, retain \in BOOLEAN :
       LET others == Conflicts(text, target, user, Listed) IN
       /\ ~ \E m \in Listed : m.user = user /\ m.target = target /\ m.text = text
       /\ others # {} => retain
       /\ Plan(c, Stored \cup {NewRecord(nextId, user, target, text, expires, others # {})}, {nextId})
  /\ nextId' = nextId + 1

\* update_for_user(): an expired memory is found too, and counts as a conflict.
Update(c) ==
  /\ caller[c].at = "locked"
  /\ \E m \in Stored, text \in MemoryTexts, retain \in BOOLEAN :
       LET others == Conflicts(text, m.target, m.user, Stored \ {m}) IN
       /\ others # {} => retain
       /\ Plan(c, (Stored \ {m}) \cup {NewRecord(m.id, m.user, m.target, text, m.expires, others # {})},
               {m.id})
  /\ UNCHANGED nextId

\* remove_for_user()
RemoveMemory(c) ==
  /\ caller[c].at = "locked"
  /\ \E m \in Stored : Plan(c, Stored \ {m}, {m.id})
  /\ UNCHANGED nextId

\* expire_for_user()
Expire(c) ==
  /\ caller[c].at = "locked"
  /\ \E user \in MemoryUsers :
       LET gone == {m \in Stored : m.user = user /\ m.id \in lapsed} IN
       gone # {} /\ Plan(c, Stored \ gone, {m.id : m \in gone})
  /\ UNCHANGED nextId

\* A call that found nothing to do, or was refused, lets go of the lock.
Refuse(c) ==
  /\ caller[c].at = "locked"
  /\ latch' = "nobody" /\ caller' = [caller EXCEPT ![c] = Resting]
  /\ UNCHANGED <<page, lapsed, nextId, audit, memCrashes>>

\* MemoryTool.invoke(): what a review wants changed is only proposed.
Invoke(c) == Add(c) \/ (c \in Assistants /\ (Update(c) \/ RemoveMemory(c)))

\* _write_all(): each file is replaced at once, but one after the other.
WriteTarget(c, target, next) ==
  /\ caller[c].at = target
  /\ page' = [page EXCEPT ![target] = {m \in caller[c].plan : m.target = target}]
  /\ caller' = [caller EXCEPT ![c].at = next]
  /\ UNCHANGED <<lapsed, latch, nextId, audit, memCrashes>>
WriteAll(c) == WriteTarget(c, "memory", "user") \/ WriteTarget(c, "user", "audit")

\* _append_audit(), and the lock is released.
Audit(c) ==
  /\ caller[c].at = "audit"
  /\ audit' = audit \cup caller[c].about
  /\ latch' = "nobody" /\ caller' = [caller EXCEPT ![c] = Resting]
  /\ UNCHANGED <<page, lapsed, nextId, memCrashes>>

\* is_memory_expired(): the time of a memory has come.
Lapse ==
  /\ \E m \in Listed : m.expires /\ lapsed' = lapsed \cup {m.id}
  /\ UNCHANGED <<page, latch, caller, nextId, audit, memCrashes>>

\* The lock of a process that dies is free.
MemoryCrash(c) ==
  /\ caller[c].at # "rest" /\ memCrashes < MaxMemoryCrashes
  /\ memCrashes' = memCrashes + 1
  /\ latch' = (IF latch = c THEN "nobody" ELSE latch)
  /\ caller' = [caller EXCEPT ![c] = Resting]
  /\ UNCHANGED <<page, lapsed, nextId, audit>>

FilesNext ==
  \/ \E c \in Callers : \/ Lock(c) \/ Invoke(c) \/ Expire(c) \/ Refuse(c)
                        \/ WriteAll(c) \/ Audit(c) \/ MemoryCrash(c)
  \/ Lapse

FilesSpec == FilesInit /\ [][FilesNext]_memVars

-----------------------------------------------------------------------------
(* Properties *)

\* The files are the memory that memory.py keeps in one list, whatever calls
\* overlap and wherever one dies: each call is one step of it, or none.
Durable == INSTANCE DurableMemory WITH memory <- Listed
ImplementsDurableMemory == Durable!MemorySpec

\* Two memories of a user that contradict each other are both listed only if
\* whoever stored one of them gave a reason.
ContradictionsAreKept ==
  \A m \in Listed : \A n \in Conflicts(m.text, m.target, m.user, Listed \ {m}) :
    m.kept \/ n.kept
=============================================================================
