--------------------------- MODULE DurableMemory ---------------------------
(***************************************************************************)
(* What the memory of a user promises, as memory/memory.py keeps it in one *)
(* list: each operation is one step, and a memory that contradicts another *)
(* is stored only when whoever stores it says why both are to be kept.     *)
(* The state is what is listed: a memory that has expired is not there.    *)
(***************************************************************************)
EXTENDS Naturals, FiniteSets

CONSTANTS
  MemoryUsers,
  MemoryTexts,   \* kinds and contents of memories
  MemoryClash,   \* pairs of texts that find_memory_conflicts() takes for conflicting
  MaxMemories    \* bound on the memories ever stored

VARIABLE memory   \* the memories that are listed

MemoryIds == 1..MaxMemories
MemoryTargets == {"memory", "user"}
Memories == [id : MemoryIds, user : MemoryUsers, target : MemoryTargets, text : MemoryTexts,
             expires : BOOLEAN,
             kept : BOOLEAN]   \* history: what it contradicts is to be kept, on evidence

\* A MemoryRecord.
NewRecord(id, user, target, text, expires, kept) ==
  [id |-> id, user |-> user, target |-> target, text |-> text, expires |-> expires, kept |-> kept]

MemoryTypeOK == memory \subseteq Memories

MemoryInit == memory = {}

\* find_memory_conflicts()
Conflicts(text, target, user, among) ==
  {m \in among : m.user = user /\ m.target = target /\ <<text, m.text>> \in MemoryClash}

Same(m, user, target, text) == m.user = user /\ m.target = target /\ m.text = text

\* add_for_user(): what is already there is not stored again.
AddMemory ==
  \E user \in MemoryUsers, target \in MemoryTargets, text \in MemoryTexts,
     id \in MemoryIds, expires \in BOOLEAN, retain \in BOOLEAN :
    /\ ~ \E m \in memory : Same(m, user, target, text) \/ m.id = id
    /\ Conflicts(text, target, user, memory) # {} => retain
    /\ memory' = memory \cup {NewRecord(id, user, target, text, expires, retain)}

\* update_for_user()
UpdateMemory ==
  \E m \in memory, text \in MemoryTexts, retain \in BOOLEAN :
    LET others == Conflicts(text, m.target, m.user, memory \ {m}) IN
    /\ others # {} => retain
    /\ memory' = (memory \ {m}) \cup {NewRecord(m.id, m.user, m.target, text, m.expires, retain)}

\* remove_for_user()
RemoveMemory == \E m \in memory : memory' = memory \ {m}

\* is_memory_expired(): time passes; expire_for_user() changes nothing one sees.
LapseMemory == \E m \in memory : m.expires /\ memory' = memory \ {m}

MemoryNext == AddMemory \/ UpdateMemory \/ RemoveMemory \/ LapseMemory

\* A step that leaves the list alone is none, and need not be looked for.
MemorySpec == MemoryInit /\ [][memory' # memory /\ MemoryNext]_memory
=============================================================================
