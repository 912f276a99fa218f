------------------------- MODULE EvolutionCandidates -------------------------
(***************************************************************************)
(* The candidates for a change of the system prompt: app/evolution_service *)
(* .py over evolution/core/jsonl_store.py and evolution/prompts/overlay.py,*)
(* with the workflow of cli/main.py that stages one, runs the health check *)
(* with it, and lets the gate decide.  One process works on the files.  A  *)
(* file is written anew by emptying and then filling it, and the process   *)
(* may die between any two of these steps.  A candidate of a scope takes   *)
(* the place of those before it: what is open is superseded, what has its  *)
(* verdict is archived.                                                    *)
(***************************************************************************)
EXTENDS Integers, Sequences

CONSTANTS
  MaxCandidates,
  Scopes,              \* a workflow and a step of it
  MaxEvolutionCrashes  \* bound on the crashes

ASSUME CandidateAssumption ==
  MaxCandidates \in Nat /\ MaxEvolutionCrashes \in Nat /\ Scopes # {}

VARIABLES
  scope,      \* the scope of each candidate, fixed
  status,     \* candidates.jsonl: the status of each candidate; "lost" with its record
  gate,       \* and what the gate has said of it
  overlay,    \* the blocks of the prompt's overlay
  snapshot,   \* the overlay before a candidate's block, in a sequence; or none
  disk,       \* the file that is empty and about to get what it has above; or "cut": a
              \* record was written by half, and nobody can read the records
  job,        \* what the process is at
  evolutionCrashes

store == <<scope, status, gate>>
prompt == <<overlay, snapshot>>
candidateVars == <<store, prompt, disk, job, evolutionCrashes>>

Candidates == 1..MaxCandidates
Inactive == {"superseded", "archived"}
Validated == {"verified", "no_improvement", "regressed_after_apply"}
Pending == {"pending", "accepted", "staged"}
NoJob == [at |-> "idle", id |-> 0, runs |-> 0, retire |-> {}]

CandidateTypeOK ==
  /\ scope \in [Candidates -> Scopes]
  /\ status \in [Candidates -> {"absent", "lost", "rejected"} \cup Pending \cup Validated \cup Inactive]
  /\ gate \in [Candidates -> Validated \cup {"none"}]
  /\ overlay \in Seq(Candidates)
  /\ snapshot \in [Candidates -> Seq(Seq(Candidates))]
  /\ disk \in {"whole", "records", "snapshot", "overlay", "cut"}
  /\ job \in [at : {"idle", "retire", "add", "compare", "finalize", "snapshot", "append",
                    "verify", "roll_back"},
              id : Candidates \cup {0}, runs : Candidates \cup {0}, retire : SUBSET Candidates]
  /\ evolutionCrashes \in 0..MaxEvolutionCrashes

CandidateInit ==
  /\ scope \in [Candidates -> Scopes]
  /\ status = [c \in Candidates |-> "absent"] /\ gate = [c \in Candidates |-> "none"]
  /\ overlay = <<>> /\ snapshot = [c \in Candidates |-> <<>>]
  /\ disk = "whole" /\ job = NoJob /\ evolutionCrashes = 0

-----------------------------------------------------------------------------
(* JsonlCandidateStore *)

\* _write_records(): the file is emptied; Fill writes its records.
Rewrite(c, to) == status' = [status EXCEPT ![c] = to] /\ disk' = "records" /\ UNCHANGED scope

InStore == {c \in Candidates : status[c] \notin {"absent", "lost"}}

\* Others in the scope of c.
Rivals(c) == {e \in InStore \ {c} : scope[e] = scope[c]}

\* _find_superseded_candidates() and _find_archivable_candidates()
Superseded(c) == {e \in Rivals(c) : status[e] \notin Inactive \cup Validated}
Archivable(c) == {e \in Rivals(c) : status[e] \in Validated}

-----------------------------------------------------------------------------
(* EvolutionService, a write to the disk at a time.  Each of these begins when   *)
(* the file before is written.                                                   *)

\* add_candidate(): in the workflow it may add a rival of the candidate it runs.
AddCandidate(c) ==
  /\ job.at \in {"idle", "compare"}
  /\ status[c] = "absent" /\ \A e \in 1..c - 1 : status[e] # "absent"
  /\ job' = [job EXCEPT !.at = "retire", !.id = c, !.retire = Archivable(c) \cup Superseded(c)]
  /\ UNCHANGED <<store, prompt, disk, evolutionCrashes>>

\* Then those that were found are updated one by one, verdicts first.
Retire ==
  /\ job.at = "retire" /\ job.retire # {}
  /\ \E e \in job.retire :
       /\ status[e] \notin Validated => \A o \in job.retire : status[o] \notin Validated
       /\ Rewrite(e, IF status[e] \in Validated THEN "archived" ELSE "superseded")
       /\ job' = [job EXCEPT !.retire = @ \ {e}]
  /\ UNCHANGED <<gate, prompt, evolutionCrashes>>

AppendCandidate ==
  /\ job.at = "retire" /\ job.retire = {} /\ job.id # 0
  /\ status' = [status EXCEPT ![job.id] = "pending"]
  /\ job' = IF job.runs = 0 THEN NoJob ELSE [NoJob EXCEPT !.at = "finalize", !.runs = job.runs]
  /\ UNCHANGED <<scope, gate, prompt, disk, evolutionCrashes>>
EndRetire ==
  /\ job.at = "retire" /\ job.retire = {} /\ job.id = 0 /\ job' = NoJob
  /\ UNCHANGED <<store, prompt, disk, evolutionCrashes>>

\* update_candidate_status(), which the reviews call for what is pending.
Review(c) ==
  /\ job = NoJob /\ status[c] = "pending"
  /\ \E to \in {"accepted", "rejected"} : Rewrite(c, to)
  /\ UNCHANGED <<gate, prompt, job, evolutionCrashes>>

\* apply_candidate() of a prompt, in _run_candidate_apply_workflow().
ApplyCandidate(c) ==
  /\ job = NoJob /\ status[c] = "accepted" /\ Rewrite(c, "staged")
  /\ job' = [NoJob EXCEPT !.at = "compare", !.runs = c]
  /\ UNCHANGED <<gate, prompt, evolutionCrashes>>

\* The comparison has no candidate to add.
Compare ==
  /\ job.at = "compare" /\ job' = [job EXCEPT !.at = "finalize"]
  /\ UNCHANGED <<store, prompt, disk, evolutionCrashes>>

\* EvolutionGate.evaluate(): a difference within the minimum counts as 0.
Verdict(correct, delta) ==
  IF ~correct \/ delta < 0 THEN "regressed_after_apply"
  ELSE IF delta > 0 THEN "verified" ELSE "no_improvement"

\* finalize_candidate_evaluation() of what is still staged: the gate's result
\* is saved before anything else.
Finalize ==
  /\ job.at = "finalize"
  /\ IF status[job.runs] # "staged" THEN job' = NoJob /\ UNCHANGED <<store, disk>>
     ELSE \E correct \in BOOLEAN, delta \in -1..1 :
       /\ gate' = [gate EXCEPT ![job.runs] = Verdict(correct, delta)]
       /\ Rewrite(job.runs, "staged")
       /\ job' = [job EXCEPT !.at = IF Verdict(correct, delta) = "verified"
                                      THEN "snapshot" ELSE "roll_back"]
  /\ UNCHANGED <<prompt, evolutionCrashes>>

\* Mutant of Snapshot, which violates EvolutionIsTraceable.
SnapshotLate ==
  /\ job.at = "snapshot" /\ job' = [job EXCEPT !.at = "append"]
  /\ snapshot' = [snapshot EXCEPT ![job.runs] = <<Append(overlay, job.runs)>>]
  /\ disk' = "snapshot"
  /\ UNCHANGED <<store, overlay, evolutionCrashes>>

\* append_candidate() of the overlay
Snapshot ==
  /\ job.at = "snapshot" /\ job' = [job EXCEPT !.at = "append"]
  /\ snapshot' = [snapshot EXCEPT ![job.runs] = <<overlay>>] /\ disk' = "snapshot"
  /\ UNCHANGED <<store, overlay, evolutionCrashes>>

AppendBlock ==
  /\ job.at = "append" /\ job' = [job EXCEPT !.at = "verify"]
  /\ overlay' = Append(overlay, job.runs) /\ disk' = "overlay"
  /\ UNCHANGED <<store, snapshot, evolutionCrashes>>

\* The status, and what it archives: update_candidate_status() after the append,
\* _record_candidate_rollback() otherwise.
RecordVerdict ==
  /\ job.at \in {"verify", "roll_back"}
  /\ Rewrite(job.runs, IF job.id = 0 THEN gate[job.runs] ELSE "regressed_after_apply")
  /\ job' = [NoJob EXCEPT !.at = "retire", !.retire = Archivable(job.runs)]
  /\ UNCHANGED <<gate, prompt, evolutionCrashes>>

\* rollback_candidate() of the overlay
Restored(c) == snapshot[c][1]

\* rollback_candidate(): what is only staged has no block; otherwise the overlay
\* is the one before the candidate again.
RollbackCandidate(c) ==
  /\ job = NoJob /\ c \in InStore
  /\ \/ status[c] = "staged" /\ UNCHANGED <<overlay, disk>>
     \/ status[c] # "staged" /\ snapshot[c] # <<>> /\ overlay' = Restored(c) /\ disk' = "overlay"
  /\ job' = [NoJob EXCEPT !.at = "roll_back", !.runs = c, !.id = c]
  /\ UNCHANGED <<store, snapshot, evolutionCrashes>>

Filling == disk \in {"records", "snapshot", "overlay"}

Fill ==
  /\ Filling /\ disk' = "whole"
  /\ UNCHANGED <<store, prompt, job, evolutionCrashes>>

\* What a death leaves of a file that was emptied: some of the records, in the order
\* of the file, and perhaps half of another one; the first blocks of a text.
LoseRecords ==
  \E gone \in SUBSET InStore :
    /\ status' = [c \in Candidates |-> IF c \in gone THEN "lost" ELSE status[c]]
    /\ gate' = [c \in Candidates |-> IF c \in gone THEN "none" ELSE gate[c]]
    /\ disk' \in {"whole", "cut"} /\ (disk' = "cut" => gone # {})
    /\ UNCHANGED <<scope, prompt>>
LoseText ==
  \/ /\ disk = "snapshot"
     /\ \E n \in 0..Len(overlay) :
          snapshot' = [snapshot EXCEPT ![job.runs] = <<SubSeq(overlay, 1, n)>>]
     /\ UNCHANGED overlay
  \/ /\ disk = "overlay" /\ UNCHANGED snapshot
     /\ \E n \in 0..Len(overlay) : overlay' = SubSeq(overlay, 1, n)

EvolutionCrash ==
  /\ job # NoJob \/ Filling
  /\ evolutionCrashes < MaxEvolutionCrashes
  /\ job' = NoJob /\ evolutionCrashes' = evolutionCrashes + 1
  /\ \/ disk = "whole" /\ UNCHANGED <<store, prompt, disk>>
     \/ disk = "records" /\ LoseRecords
     \/ LoseText /\ disk' = "whole" /\ UNCHANGED store

CandidateNext ==
  \/ /\ disk = "whole"
     /\ \/ \E c \in Candidates :
             AddCandidate(c) \/ Review(c) \/ ApplyCandidate(c) \/ RollbackCandidate(c)
        \/ Retire \/ AppendCandidate \/ EndRetire \/ Compare \/ Finalize \/ Snapshot
        \/ AppendBlock \/ RecordVerdict
  \/ Fill \/ EvolutionCrash

CandidateSpec == CandidateInit /\ [][CandidateNext]_candidateVars

-----------------------------------------------------------------------------
(* Properties *)

\* Wherever the process died, also between emptying a file and filling it, and
\* whatever was rolled back: each block of the prompt is of a candidate whose record
\* has the gate's consent, unless a death in a rewriting of candidates.jsonl has lost
\* the record, and rolling it back gives the prompt before it.
PromptIsTraceable ==
  \A k \in DOMAIN overlay :
    /\ gate[overlay[k]] = "verified" \/ status[overlay[k]] = "lost"
    /\ snapshot[overlay[k]] = <<SubSeq(overlay, 1, k - 1)>>
=============================================================================
