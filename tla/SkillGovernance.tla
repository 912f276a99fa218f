-------------------------- MODULE SkillGovernance --------------------------
(***************************************************************************)
(* The life of one skill: evolution/skills/governance.py over the files of *)
(* evolution/skills/store.py, with what cli/skill.py, the review agent and *)
(* evals/skill_aggregate.py do to it.  Drafts are admitted, evaluated and  *)
(* reviewed; an accepted one replaces the live directory, and its version  *)
(* is kept for rollback.  Nothing of it is locked, and each write to the   *)
(* disk is a step of its own, so the process may die between any two.      *)
(* A content is the set of lines and files of a skill directory; that of a *)
(* directory that is not there is empty.                                   *)
(***************************************************************************)
EXTENDS Naturals, Sequences, FiniteSets

CONSTANTS
  MaxDrafts,       \* bound on the drafts
  MaxBaselines,    \* bound on the versions made of what nobody promoted
  Lines,           \* lines of SKILL.md
  Files,           \* attachments
  Supplied,        \* contents create_draft() and import_draft() are given
  AgentCreated,    \* .provenance.json says that an agent made the skill
  Reviews,         \* feedback the reviewers may give
  MinimumRuns,     \* SkillEvaluationAggregateService
  MaxEvaluations,  \* bound on the evaluations of a draft
  MaxSkillCrashes  \* bound on the crashes of the process that works

ASSUME SkillAssumption ==
  /\ MaxDrafts \in Nat /\ MaxBaselines \in Nat /\ Lines \cap Files = {}
  /\ Supplied \subseteq (SUBSET (Lines \cup Files)) \ {{}}
  /\ AgentCreated \in BOOLEAN
  /\ MinimumRuns \in Nat \ {0} /\ MaxEvaluations \in Nat /\ MaxSkillCrashes \in Nat
  /\ Reviews \subseteq [preference : {"baseline", "tie", "variant"}, factuality : BOOLEAN]

VARIABLES
  live,       \* the content of <root>/<name>
  backup,     \* the content of <root>/.<name>.backup-*
  archive,    \* the content of <root>/.archive/<name>
  draft,      \* drafts/<id>.json with drafts/<id>/
  version,    \* versions/<name>/<id>/: its directory and its record's status
  state,      \* state/<name>.json
  evidence,   \* evaluations/<id>/: the evaluations with their feedback
  task,       \* where the working process is, with its locals
  everLive,   \* history: the contents that have been live
  admitted,   \* history: what was live when a draft was admitted
  died        \* history: crashes

skillFiles == <<live, backup, archive, draft, version, state, evidence>>
skillHistory == <<everLive, admitted, died>>
skillVars == <<skillFiles, task, skillHistory>>

Contents == SUBSET (Lines \cup Files)
Gone == {}
NoVersion == 0
Drafts == 1..MaxDrafts
Baselines == MaxDrafts + 1..MaxDrafts + MaxBaselines
Versions == Drafts \cup Baselines
DraftRecords == [status : {"absent", "draft", "candidate", "rejected", "promoted",
                           "rolled_back"},
                 operation : {"create", "append"}, content : Contents,
                 sound : BOOLEAN, previous : Versions \cup {NoVersion}]
VersionRecords == [content : Contents,
                   status : {"absent", "active", "deprecated", "archived"}]
Evaluations == [content : Contents, passed : BOOLEAN, feedback : SUBSET Reviews]
SkillIdle == [at |-> "idle", op |-> "none", id |-> NoVersion, previous |-> NoVersion]

SkillTypeOK ==
  /\ live \in Contents /\ backup \in Contents /\ archive \in Contents
  /\ draft \in [Drafts -> DraftRecords] /\ version \in [Versions -> VersionRecords]
  /\ state \in [active : Versions \cup {NoVersion}, previous : Versions \cup {NoVersion}]
  /\ evidence \in [Drafts -> UNION {[1..n -> Evaluations] : n \in 0..MaxEvaluations}]
  /\ task \in [at : {"idle", "copy", "record", "deprecate", "swap", "place", "clean",
                     "demote", "restore", "save", "point"},
               op : {"none", "activate", "rollback", "remove", "archive"},
               id : Versions \cup {NoVersion}, previous : Versions \cup {NoVersion}]
  /\ everLive \subseteq Contents /\ admitted \in [Drafts -> Contents]
  /\ died \in 0..MaxSkillCrashes

\* An id stands for a random one, handed out in turn.  A user's own skill may be
\* there before anything governs it.
SkillInit ==
  /\ live \in Supplied \cup {Gone} /\ backup = Gone /\ archive = Gone
  /\ draft = [d \in Drafts |-> [status |-> "absent", operation |-> "create", content |-> {},
                                sound |-> FALSE, previous |-> NoVersion]]
  /\ version = [v \in Versions |-> [content |-> Gone, status |-> "absent"]]
  /\ state = [active |-> NoVersion, previous |-> NoVersion]
  /\ evidence = [d \in Drafts |-> <<>>]
  /\ task = SkillIdle
  /\ everLive = {live} \ {Gone} /\ admitted = [d \in Drafts |-> Gone] /\ died = 0

-----------------------------------------------------------------------------
(* Drafts *)

NewDraft(d, operation, content, sound) ==
  /\ draft[d].status = "absent" /\ \A e \in 1..d - 1 : draft[e].status # "absent"
  /\ draft' = [draft EXCEPT ![d] = [status |-> "draft", operation |-> operation,
                 content |-> content, sound |-> sound, previous |-> NoVersion]]
  /\ UNCHANGED <<live, backup, archive, version, state, evidence, task, skillHistory>>

\* create_draft() and import_draft() of a directory.  A sound draft has the
\* structure and the provenance that the admission asks for.
CreateDraft(d) ==
  /\ live = Gone
  /\ \E content \in Supplied, sound \in BOOLEAN : NewDraft(d, "create", content, sound)

\* append_draft(): a copy of the live directory with more in a section.
AppendDraft(d) ==
  /\ live # Gone
  /\ \E line \in Lines \ live : NewDraft(d, "append", live \cup {line}, TRUE)

\* Mutant of WriteAttachment, which violates PromotedAsReviewed.
WriteWhatever(d) ==
  /\ draft[d].status \in {"draft", "candidate"}
  /\ \E f \in Files : draft' = [draft EXCEPT ![d].content = @ \cup {f}]
  /\ UNCHANGED <<live, backup, archive, version, state, evidence, task, skillHistory>>

\* write_draft_attachment(): only before the draft is decided on.
WriteAttachment(d) ==
  /\ draft[d].status = "draft"
  /\ \E f \in Files : draft' = [draft EXCEPT ![d].content = @ \cup {f}]
  /\ UNCHANGED <<live, backup, archive, version, state, evidence, task, skillHistory>>

\* The skill_manage tool of the review agent: the skills of a user are protected.
ManageSkill(d) == CreateDraft(d) \/ (AgentCreated /\ AppendDraft(d)) \/ WriteAttachment(d)

\* Mutant of Preserves, which violates PromotedAsReviewed.
PreservesNothing(content) == TRUE

\* DefaultSkillAdmissionValidator: the lines of the live skill are all kept.
Preserves(content) == live \cap Lines \subseteq content

\* admit()
Admit(d) ==
  /\ draft[d].status = "draft"
  /\ draft' = [draft EXCEPT ![d].status = IF draft[d].sound /\ Preserves(draft[d].content)
                                            THEN "candidate" ELSE "rejected"]
  /\ admitted' = [admitted EXCEPT ![d] = live]
  /\ UNCHANGED <<live, backup, archive, version, state, evidence, task, everLive, died>>

\* reject() and discard(), of a draft that is not promoted.
Discard(d) ==
  /\ draft[d].status \in {"draft", "candidate"}
  /\ draft' = [draft EXCEPT ![d].status = "rejected"]
  /\ UNCHANGED <<live, backup, archive, version, state, evidence, task, skillHistory>>

-----------------------------------------------------------------------------
(* Evaluations, and what they amount to *)

\* record_evaluation()
RecordEvaluation(d) ==
  /\ draft[d].status = "candidate" /\ Len(evidence[d]) < MaxEvaluations
  /\ \E passed \in BOOLEAN :
       evidence' = [evidence EXCEPT ![d] =
         Append(@, [content |-> draft[d].content, passed |-> passed, feedback |-> {}])]
  /\ UNCHANGED <<live, backup, archive, draft, version, state, task, skillHistory>>

\* record_human_feedback() of import_feedback(): the same file counts once.
RecordFeedback(d) ==
  /\ draft[d].status = "candidate"
  /\ \E i \in DOMAIN evidence[d] : \E f \in Reviews \ evidence[d][i].feedback :
       evidence' = [evidence EXCEPT ![d][i].feedback = @ \cup {f}]
  /\ UNCHANGED <<live, backup, archive, draft, version, state, task, skillHistory>>

Votes(d, preference) ==
  {i \in DOMAIN evidence[d] : \E f \in evidence[d][i].feedback : f.preference = preference}

\* aggregate(): comparable runs, each passed and with one review, of which
\* Variant won a majority.  A review is of one task here.
Accepted(d) ==
  LET runs == DOMAIN evidence[d] IN
  /\ Cardinality(runs) >= MinimumRuns
  /\ Cardinality({evidence[d][i].content : i \in runs}) = 1
  /\ \A i \in runs : Cardinality(evidence[d][i].feedback) = 1 /\ evidence[d][i].passed
  /\ \A i \in runs : [preference |-> "baseline", factuality |-> TRUE] \notin evidence[d][i].feedback
  /\ Cardinality(Votes(d, "variant")) >= Cardinality(runs) \div 2 + 1
  /\ Cardinality(Votes(d, "variant")) > Cardinality(Votes(d, "baseline"))

-----------------------------------------------------------------------------
(* Activation, rollback and archive *)

Go(place) == task' = [task EXCEPT !.at = place]
SetStatus(v, to) == version' = [version EXCEPT ![v].status = to]

\* Mutant of Ensured, which violates SkillsAreRecoverable.
EnsuredIfKnown(v) == v = state.active /\ UNCHANGED version

\* _ensure_active_version(): the recorded version, or a baseline of what is live.
Ensured(v) ==
  \/ /\ state.active # NoVersion /\ v = state.active
     /\ UNCHANGED version
  \/ /\ state.active = NoVersion /\ live # Gone
     /\ v \in Baselines /\ version[v].content = Gone
     /\ version' = [version EXCEPT ![v] = [content |-> live, status |-> "active"]]
  \/ /\ state.active = NoVersion /\ live = Gone /\ v = NoVersion
     /\ UNCHANGED version

\* activate_skill_draft() and activate(): an accepted aggregate has more votes
\* for the draft than against it, which is all the promotion gate asks.
Activate(d) ==
  /\ task = SkillIdle /\ draft[d].status = "candidate" /\ Accepted(d)
  /\ \E v \in Versions \cup {NoVersion} :
       /\ Ensured(v)
       /\ task' = [at |-> "copy", op |-> "activate", id |-> d, previous |-> v]
  /\ UNCHANGED <<live, backup, archive, draft, state, evidence, skillHistory>>

\* _save_version_from_draft(): copytree() raises if an activation before has
\* left the directory, and this one ends here.
CopyVersion ==
  /\ task.at = "copy"
  /\ \/ /\ version[task.id].content # Gone
        /\ task' = SkillIdle /\ UNCHANGED version
     \/ /\ version[task.id].content = Gone
        /\ version' = [version EXCEPT ![task.id].content = draft[task.id].content]
        /\ Go("record")
  /\ UNCHANGED <<live, backup, archive, draft, state, evidence, skillHistory>>

RecordVersion ==
  /\ task.at = "record"
  /\ SetStatus(task.id, "active") /\ Go("deprecate")
  /\ UNCHANGED <<live, backup, archive, draft, state, evidence, skillHistory>>

Deprecate ==
  /\ task.at = "deprecate"
  /\ IF task.previous # NoVersion THEN SetStatus(task.previous, "deprecated")
                                ELSE UNCHANGED version
  /\ Go("swap")
  /\ UNCHANGED <<live, backup, archive, draft, state, evidence, skillHistory>>

\* rollback() of a skill that has a version before.
Rollback ==
  /\ task = SkillIdle /\ state.previous # NoVersion
  /\ version[state.previous].content # Gone
  /\ task' = [at |-> "swap", op |-> "rollback", id |-> state.active,
              previous |-> state.previous]
  /\ UNCHANGED <<skillFiles, skillHistory>>

\* _replace_skill_dir(): two renames, then the backup is deleted.
Swap ==
  /\ task.at = "swap"
  /\ IF live # Gone THEN backup' = live /\ live' = Gone
                       ELSE UNCHANGED <<backup, live>>
  /\ Go("place")
  /\ UNCHANGED <<archive, draft, version, state, evidence, skillHistory>>

Place ==
  /\ task.at = "place"
  /\ live' = IF task.op = "activate" THEN draft[task.id].content
                                     ELSE version[task.previous].content
  /\ everLive' = everLive \cup {live'}
  /\ Go("clean")
  /\ UNCHANGED <<backup, archive, draft, version, state, evidence, admitted, died>>

Clean ==
  /\ task.at = "clean"
  /\ backup' = Gone
  /\ Go(IF task.op = "activate" THEN "save" ELSE "demote")
  /\ UNCHANGED <<live, archive, draft, version, state, evidence, skillHistory>>

\* rollback() of the first version: the skill is removed.
RemoveSkill ==
  /\ task = SkillIdle /\ state.previous = NoVersion /\ state.active \in Drafts
  /\ draft[state.active].operation = "create"
  /\ live' = Gone
  /\ task' = [at |-> "demote", op |-> "remove", id |-> state.active, previous |-> NoVersion]
  /\ UNCHANGED <<backup, archive, draft, version, state, evidence, skillHistory>>

\* archive(), which the curator does with what an agent made and nobody uses:
\* the archive of before is deleted.
ArchiveSkill ==
  /\ task = SkillIdle /\ AgentCreated /\ live # Gone
  /\ \E v \in Versions :
       /\ Ensured(v)
       /\ task' = [at |-> "demote", op |-> "archive", id |-> v, previous |-> NoVersion]
  /\ archive' = live /\ live' = Gone
  /\ UNCHANGED <<backup, draft, state, evidence, skillHistory>>

Demote ==
  /\ task.at = "demote"
  /\ SetStatus(task.id, IF task.op = "rollback" THEN "deprecated" ELSE "archived")
  /\ Go(CASE task.op = "rollback" -> "restore"
          [] task.op = "remove" -> "save"
          [] task.op = "archive" -> "point")
  /\ UNCHANGED <<live, backup, archive, draft, state, evidence, skillHistory>>

Restore ==
  /\ task.at = "restore"
  /\ SetStatus(task.previous, "active") /\ Go("save")
  /\ UNCHANGED <<live, backup, archive, draft, state, evidence, skillHistory>>

SaveDraft ==
  /\ task.at = "save"
  /\ draft' = IF task.op = "activate"
                THEN [draft EXCEPT ![task.id].status = "promoted",
                                   ![task.id].previous = task.previous]
                ELSE [draft EXCEPT ![task.id].status = "rolled_back"]
  /\ Go("point")
  /\ UNCHANGED <<live, backup, archive, version, state, evidence, skillHistory>>

\* Mutant of Before, which violates SkillsAreRecoverable.
BeforeForgotten(v) == NoVersion

\* What was active before a version: its draft says it, a baseline has none.
Before(v) == IF v \in Drafts THEN draft[v].previous ELSE NoVersion

\* _save_state()
SaveState ==
  /\ task.at = "point"
  /\ state' = CASE task.op = "activate" -> [active |-> task.id, previous |-> task.previous]
                [] task.op = "rollback" -> [active |-> task.previous,
                                            previous |-> Before(task.previous)]
                [] OTHER -> [active |-> NoVersion, previous |-> NoVersion]
  /\ task' = SkillIdle
  /\ UNCHANGED <<live, backup, archive, draft, version, evidence, skillHistory>>

SkillCrash ==
  /\ task # SkillIdle /\ died < MaxSkillCrashes
  /\ task' = SkillIdle /\ died' = died + 1
  /\ UNCHANGED <<skillFiles, everLive, admitted>>

SkillNext ==
  \/ \E d \in Drafts : \/ ManageSkill(d) \/ AppendDraft(d) \/ Admit(d) \/ Discard(d)
                       \/ RecordEvaluation(d) \/ RecordFeedback(d) \/ Activate(d)
  \/ CopyVersion \/ RecordVersion \/ Deprecate
  \/ Rollback \/ Swap \/ Place \/ Clean
  \/ RemoveSkill \/ ArchiveSkill \/ Demote \/ Restore
  \/ SaveDraft \/ SaveState \/ SkillCrash

SkillSpec == SkillInit /\ [][SkillNext]_skillVars

-----------------------------------------------------------------------------
(* Properties *)

\* What was once live and is not any more is the content of a version, so that
\* it can be brought back, at whichever write a process died.
NothingLiveIsLost ==
  \A c \in everLive \ {live} : \E v \in Versions : version[v].content = c

\* Without a crash, the live directory is the version the state names, and the
\* state names as previous what its draft replaced: rollback() undoes promotions
\* one by one.
RollbackUndoes ==
  (task = SkillIdle /\ died = 0 /\ state.active # NoVersion) =>
    /\ live = version[state.active].content
    /\ state.previous = IF state.active \in Drafts THEN draft[state.active].previous
                                                   ELSE NoVersion
    /\ state.previous # NoVersion => version[state.previous].content # Gone

\* Whatever was live can be brought back: after a crash from the versions, and
\* without one by rolling back.
SkillsAreRecoverable == NothingLiveIsLost /\ RollbackUndoes

\* What a promotion makes live is what all its evaluations have seen, and it
\* drops a line only if the live skill has changed since its admission.
PromotedAsReviewed ==
  [][task.at = "place" /\ task.op = "activate" /\ live' # live =>
       /\ \A i \in DOMAIN evidence[task.id] : evidence[task.id][i].content = live'
       /\ backup # Gone /\ admitted[task.id] = backup =>
            backup \cap Lines \subseteq live']_skillVars
=============================================================================
