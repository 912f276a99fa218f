----------------------------- MODULE ToolBatch -----------------------------
(***************************************************************************)
(* The tool calls of one model response: ToolRegistry.dispatch() decides   *)
(* between running them in order and at once (runtime/tools/concurrency.py)*)
(* and runtime/tools/executor.py runs each under the policy.  The tools on *)
(* files read a file and then replace it, in two steps; code_executor does *)
(* a list of them in one call.                                             *)
(***************************************************************************)
EXTENDS Naturals, Sequences

CONSTANTS
  Paths,
  Garbled,  \* the files among them whose text is not UTF-8
  Programs, \* the lists of steps that code_executor is called with
  MaxCalls  \* bound on the calls of a response

\* A step of code_executor; one that reads or writes a file names it.
ProgramSteps ==
  {step \in [tool : STRING, path : Paths \cup {"/"}, fresh : BOOLEAN] :
     step.tool \in {"read_file", "write_file", "patch"} => step.path \in Paths}

ASSUME BatchAssumption ==
  /\ Paths # {} /\ Garbled \subseteq Paths /\ MaxCalls \in Nat \ {0}
  /\ Programs \subseteq Seq(ProgramSteps)

VARIABLES
  batch,     \* the calls, as the model listed them
  asking,    \* tools that the policy asks approval for
  granted,   \* the request for approval is granted
  together,  \* the batch runs on the threads of a pool
  files,     \* the text of each file: 0, or the call that wrote it
  callAt,    \* how far each call is
  seen,      \* what a call has read
  outcome    \* the result of each call that has one

batchVars == <<batch, asking, granted, together, files, callAt, seen, outcome>>
request == <<batch, asking, granted, together>>

On(tool, fresh) == [tool : {tool}, path : Paths, fresh : fresh]
ToolCalls ==   \* fresh: expected_sha256 is that of the first text
  On("read_file", {FALSE}) \cup On("write_file", BOOLEAN) \cup On("patch", {TRUE})
    \cup [tool : {"grep", "bash", "ask_user"}, path : {"/"}, fresh : {FALSE}]
    \cup [tool : {"code_executor"}, path : {"/"}, fresh : {FALSE}, steps : Programs]
Texts == 0..MaxCalls
Trees == [Paths -> Texts]
Outcomes == [kind : {"text"}, of : Texts] \cup [kind : {"found"}, of : Trees]
  \cup [kind : {"success", "error"}, of : SUBSET Paths]
  \cup [kind : {"none", "written", "stale", "raised", "ran", "pending", "deferred"}, of : {0}]
Says(kind) == [kind |-> kind, of |-> 0]

Calls == DOMAIN batch

BatchTypeOK ==
  /\ batch \in Seq(ToolCalls) /\ Len(batch) \in 1..MaxCalls
  /\ asking \subseteq {"write_file", "bash", "code_executor"} /\ granted \in BOOLEAN
  /\ together \in BOOLEAN
  /\ files \in Trees
  /\ callAt \in [Calls -> {"todo", "open", "done"}]
  /\ seen \in [Calls -> Trees] /\ outcome \in [Calls -> Outcomes]

-----------------------------------------------------------------------------
(* The tools *)

PathScoped == {"read_file", "write_file", "patch"}

\* What a call does to the files it has read: their next state and its result.
WriteFile(i, call, tree) ==
  IF call.fresh /\ tree[call.path] # 0
  THEN [tree |-> tree, result |-> Says("stale")]
  ELSE [tree |-> [tree EXCEPT ![call.path] = i], result |-> Says("written")]
Patch(i, call, tree) ==   \* the text to replace is in the first text only
  IF tree[call.path] # 0
  THEN [tree |-> tree, result |-> Says("stale")]
  ELSE [tree |-> [tree EXCEPT ![call.path] = i], result |-> Says("written")]
ReadFile(call, tree) == [tree |-> tree, result |-> [kind |-> "text", of |-> tree[call.path]]]
Grep(tree) == [tree |-> tree, result |-> [kind |-> "found", of |-> tree]]
\* Each tool on a file begins with its text, and raises if it is not UTF-8.
FileEffect(i, call, tree) ==
  CASE call.tool \in PathScoped /\ call.path \in Garbled ->
         [tree |-> tree, result |-> Says("raised")]
    [] call.tool = "read_file" /\ call.path \notin Garbled -> ReadFile(call, tree)
    [] call.tool = "grep" -> Grep(tree)
    [] call.tool = "write_file" /\ call.path \notin Garbled -> WriteFile(i, call, tree)
    [] call.tool = "patch" /\ call.path \notin Garbled -> Patch(i, call, tree)
    [] OTHER -> [tree |-> tree, result |-> Says("ran")]

\* Mutant of Changed, which violates CallsAreHandled.
ChangedBySuccess(run, step, effect) ==
  IF effect.result.kind = "stale" THEN {} ELSE run.changed \cup {step.path}

\* changed_files after one more step
Changed(run, step, effect) ==
  IF step.tool \in {"write_file", "patch"} /\ effect.result.kind = "written"
  THEN run.changed \cup {step.path} ELSE run.changed

\* code_executor: one step after the other, up to the first that fails.  What is
\* done by then stays, and the result tells the files it is in; but nothing in it
\* handles a step that raises, which takes the place of that result.
Execute(i, call, tree) ==
  LET run[n \in 0..Len(call.steps)] ==
        IF n = 0 THEN [tree |-> tree, changed |-> {}, kind |-> "success"]
        ELSE IF run[n - 1].kind # "success" THEN run[n - 1]
        ELSE LET effect == FileEffect(i, call.steps[n], run[n - 1].tree) IN
             [tree |-> effect.tree, changed |-> Changed(run[n - 1], call.steps[n], effect),
              kind |-> CASE effect.result.kind = "stale" -> "error"
                         [] effect.result.kind = "raised" -> "raised"
                         [] OTHER -> "success"]
      end == run[Len(call.steps)]
  IN [tree |-> end.tree, result |-> IF end.kind = "raised" THEN Says("raised")
                                    ELSE [kind |-> end.kind, of |-> end.changed]]

Effect(i, call, tree) ==
  IF call.tool = "code_executor" THEN Execute(i, call, tree) ELSE FileEffect(i, call, tree)

\* ask_user always waits; a tool of the policy waits unless it is granted.
Waits(call) == call.tool = "ask_user" \/ (call.tool \in asking /\ ~granted)

-----------------------------------------------------------------------------
(* ToolRegistry.dispatch() *)

ParallelSafe == {"read_file", "grep"}

\* Mutant of ShouldRunConcurrently, which violates CallsAreHandled.
ShouldRunSafeTools(calls) ==
  Len(calls) > 1 /\ \A i \in DOMAIN calls : calls[i].tool \in PathScoped \cup ParallelSafe

ShouldRunConcurrently(calls) ==
  /\ Len(calls) > 1
  /\ \A i \in DOMAIN calls :
       /\ calls[i].tool \in PathScoped \cup ParallelSafe
       /\ calls[i].tool \in PathScoped =>
            \A j \in DOMAIN calls : j # i => calls[j].path # calls[i].path

CanExecuteConcurrently(calls, asks) == \A i \in DOMAIN calls : calls[i].tool \notin asks

BatchInit ==
  /\ batch \in UNION {[1..n -> ToolCalls] : n \in 1..MaxCalls}
  /\ asking \in {{"bash", "code_executor"}, {"bash", "code_executor", "write_file"}}
  /\ granted \in BOOLEAN
  /\ together = (ShouldRunConcurrently(batch) /\ CanExecuteConcurrently(batch, asking))
  /\ files = [p \in Paths |-> 0]
  /\ callAt = [i \in Calls |-> "todo"]
  /\ seen = [i \in Calls |-> [p \in Paths |-> 0]]
  /\ outcome = [i \in Calls |-> Says("none")]

MayBegin(i) == callAt[i] = "todo" /\ (together \/ \A j \in 1..(i - 1) : callAt[j] = "done")

\* execute() of a call that runs: it reads the files it works on.
Open(i) ==
  /\ MayBegin(i) /\ ~Waits(batch[i])
  /\ callAt' = [callAt EXCEPT ![i] = "open"] /\ seen' = [seen EXCEPT ![i] = files]
  /\ UNCHANGED <<request, files, outcome>>

\* The call writes what it has worked out, to the files it is about, and has its
\* result.
Touches(call) == IF call.tool = "code_executor" THEN Paths ELSE {call.path}

FinishCall(i) ==
  /\ callAt[i] = "open"
  /\ LET effect == Effect(i, batch[i], seen[i]) IN
     /\ files' = [p \in Paths |-> IF p \in Touches(batch[i]) THEN effect.tree[p] ELSE files[p]]
     /\ outcome' = [outcome EXCEPT ![i] = effect.result]
  /\ callAt' = [callAt EXCEPT ![i] = "done"]
  /\ UNCHANGED <<request, seen>>

\* execute() of a call that waits; the calls after it are deferred.
Defer(i) ==
  /\ MayBegin(i) /\ Waits(batch[i])
  /\ callAt' = [j \in Calls |-> IF j >= i THEN "done" ELSE callAt[j]]
  /\ outcome' = [j \in Calls |-> IF j = i THEN Says("pending")
                                 ELSE IF j > i THEN Says("deferred") ELSE outcome[j]]
  /\ UNCHANGED <<request, files, seen>>

BatchNext == \E i \in Calls : Open(i) \/ FinishCall(i) \/ Defer(i)

BatchSpec == BatchInit /\ [][BatchNext]_batchVars

-----------------------------------------------------------------------------
(* Properties *)

\* The files and the result of each call when they run one after the other, up to
\* the first that waits.
InOrder[n \in 0..Len(batch)] ==
  IF n = 0 THEN [tree |-> [p \in Paths |-> 0], result |-> Says("none"), waits |-> FALSE]
  ELSE IF InOrder[n - 1].waits THEN [InOrder[n - 1] EXCEPT !.result = Says("deferred")]
  ELSE IF Waits(batch[n])
  THEN [tree |-> InOrder[n - 1].tree, result |-> Says("pending"), waits |-> TRUE]
  ELSE LET effect == Effect(n, batch[n], InOrder[n - 1].tree) IN
       [tree |-> effect.tree, result |-> effect.result, waits |-> FALSE]

Settled == \A i \in Calls : callAt[i] = "done"
SearchesAndWrites ==
  /\ \E i \in Calls : batch[i].tool = "grep"
  /\ \E i \in Calls : batch[i].tool \in {"write_file", "patch"}

\* Calls that run at once leave the files and the results that they would have
\* left one after the other, whatever paths they name, whichever raises and whichever
\* waits.  A batch with both a search and a write is not promised that: grep has no
\* path in the eyes of the code, so it may run beside the write of a file it searches,
\* although docs/tools.md:37-39 keeps calls that depend on shared state in order.
BatchRunsInOrder ==
  Settled /\ ~SearchesAndWrites =>
    outcome = [i \in Calls |-> InOrder[i].result] /\ files = InOrder[Len(batch)].tree

\* Whatever a call has left in a file its result tells, though a later step of the
\* call failed or another call runs at the same time.  The exception is a step of
\* code_executor that raises: the error that takes the place of the result tells
\* nothing of what the steps before it have written.
WritesAreReported ==
  \A p \in Paths : files[p] # 0 =>
    LET i == files[p] IN
    \/ outcome[i].kind = "written" /\ p = batch[i].path
    \/ outcome[i].kind \in {"success", "error"} /\ p \in outcome[i].of
    \/ outcome[i].kind = "raised" /\ batch[i].tool = "code_executor"
=============================================================================
