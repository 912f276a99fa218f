# navi-agent: a verification development

TLA+ models of the parts of `navi-agent` that keep state, share it between
threads or processes, or must survive a crash; TLC runs that check them on small
instances; and proofs, checked by TLAPS, of the properties that matter most for
every instance. Paths are relative to `src/src/navi_agent/` unless they begin
with `src/`. `PROJECT.json` lists, for each definition of a model, the lines of
the code it stands for, and for each hazard of the code its line and the
properties that would catch it.

Contents: 1 the system, 2 the modules, 3 the runs, 4 bounds, 5 fairness,
6 proofs, 7 what the code does against what it says, 8 what is left out,
9 the plan.

## 1. The system

`navi-agent` is a personal agent. A message arrives on the command line, from
the Weixin gateway or from the cron worker; `AgentApplication.handle` runs a
*turn* in a *session*: a loop that asks a model, executes the tool calls of its
response, and ends with an answer, an interruption, or a request to the user.
What is durable is in SQLite (`state.db`, `weixin.db`, the event store), in JSON
files, or in the Markdown files of memories and skills.

Components with a model:

| component | state it keeps | operations | hard because | what makes it correct | module |
|---|---|---|---|---|---|
| session scheduler `runtime/tasks/scheduler.py` | queues and claims of sessions, futures | `submit`, `_dispatch_next`, `_execute`, `wait_for_idle`, `close` | a claim is taken under the lock and used after it; `close` races everything | one task per session at a time, in order; no claim lost; a drain means all is resolved | SessionScheduler, SerialExecutor |
| turn and its records `runtime/agent/{engine,loop}.py`, `runtime/operations.py`, `runtime/sessions/sqlite.py` | runs, operations; batch, results, token | `start_run`, plan, mark, dispatch, complete, `finalize`, resume | a crash between any two; another process on the same database | an effect at most once per call; records written ahead; verdicts final | OperationJournal, SessionStore |
| messages of a session `runtime/sessions/sqlite.py` | messages, counts, checkpoint, schema version | append, record a response, checkpoint, migrate, each retried while busy | two processes; reads of several statements; a death in a migration | counts, checkpoint and requests agree with the messages | SessionDatabase |
| context `runtime/agent/context.py` | the request, summary | build, compact, limit | a cut between calls and results; a turn that broke off | each message once or summarized; calls and results paired | TurnContext |
| model transport `runtime/transports/openai_compatible.py`, `runtime/agent/model_invoker.py` | attempts, chunks, parts | serialize, stream, retry, cancel | a stream that breaks half way | what is shown is what is kept, once | ModelTransport |
| tool calls `runtime/tools/{registry,executor,concurrency}.py`, `tools/code_executor_tool.py` | files, results | a batch in order or at once | concurrent calls on one file, one of several failing or raising | as if one after the other; every write is told (exceptions: section 7) | ToolBatch |
| approvals `runtime/tools/{policy,approval,interactions}.py` | pending interactions, grants | allow, ask, answer, claim, consume, expire | equal requests, several turns, crashes | an answer counts for what it was given for | ToolApprovals |
| bash `tools/bash_tool.py` | processes and their watchers | start, yield, time out, cancel, exit | a command handed from the call to a task | every process is watched; its end is told once | BashTool |
| todo list `tools/todo_tool.py` | items, order | add, update, remove, reorder | items shared by reference | each item once, in one order | TodoList |
| subagents `runtime/tasks/subagents.py` | children, tokens | delegate, wait, stop, answer | a deadline against an answer that is just ready | every child ends or stops; results are theirs | Subagents |
| session search `tools/session_search_tool.py` | nothing of its own | match, walk lineages, window, read | each read is a statement of its own, others append | no gap, no other user, no own lineage | SessionRecall |
| events `events.py`, `runtime/events/`, `telemetry/{sqlite,trace_builder}.py`, `ui_events.py` | stored events, traces, run states, screen | publish, number, record, finalize | late output, a resume in a new process | what was published is what is stored and shown | RunEvents |
| replay `runtime/replay.py`, `telemetry/replay.py` | a plan | record, plan, replay, compare | a lost event, a summary, a hook | a faithful replay shows no difference | OfflineReplay |
| background tasks `runtime/tasks/background.py` | table, memory, listeners | submit, run, tell, drain, recover | callbacks outside the lock; a restart | every end is told, once | BackgroundTasks |
| cron `runtime/tasks/cron.py`, `tools/cron_tool.py` | `jobs.json`, `cron_runs`, a lock | tick, run, advance, deliver, edit | read, minutes of turns, write back; edits without the lock | once per time, once delivered, edits stay | CronScheduler |
| Weixin outbox `gateway/weixin/delivery.py` | a row per text | enqueue, claim, send, mark, recover, retry | send and mark are not atomic; several threads | one holder; delivered is final; all is settled | WeixinOutbox |
| Weixin gateway `gateway/weixin/local.py` | inbox, cursor, active turns | poll, accept, steer, stop, reply, close, recover | four stores that change at different moments | nothing lost, nothing unanswered, order kept | WeixinGateway |
| Weixin pairing `gateway/weixin/pairing.py` | one JSON file | request, tell, approve | two processes, no lock, two-step writes | a code told is a code kept | WeixinPairing |
| Weixin progress `gateway/weixin/local.py` | pending lines, a thread | start, show, end, close | a thread beside the reply | the reply is last, lines once and in order | WeixinProgress |
| MCP client `mcp/` | a thread per server, its session | start, publish, call, close | an end while opening; a start that timed out | a stop is heard | McpClient |
| command line `cli/{main,input}.py` | flags of the session under a lock | type, steer, approve, /new, /stop, exit | two threads that read, unlock and act | one turn at a time; exit ends | InteractiveCli |
| memory `memory/` | two Markdown files, an audit | add, update, remove, expire | two files, readers without the lock, a death between | each call one step or none; contradictions are explained | MemoryFiles, DurableMemory |
| skill governance `evolution/skills/` | drafts, versions, live directory, state | draft, admit, evaluate, activate, roll back, archive | each write is a step, nothing is locked | what was live is recoverable; what goes live was reviewed | SkillGovernance |
| prompt candidates `app/evolution_service.py`, `evolution/prompts/`, `evolution/core/` | overlay, snapshots, records | stage, judge, promote, roll back, retire | several files per step, each emptied and then filled, a death between | each block has its way back, and its consent as long as its record is not lost | EvolutionCandidates |
| background reviews `evolution/reviews/` | counters, traces, a queue | count, hydrate, submit, run | the counter is re-read from traces at a start | an execution pays for one review | BackgroundReviews |

Components without one, with the reason: tools that are one call on a file or the
web; prompt assembly; application wiring and queries; configuration, paths,
logging and diagnostics (all: sequential, no behaviour over time); telemetry viewers and
exporters (they read what RunEvents models as stored); evaluations (offline
functions of their inputs); the skill curator (it archives only what
`mark_agent_created()` has marked, `evolution/skills/provenance.py:28`, and nothing
in the source calls that) and usage counts.

How they interact:

- The gateway's polling thread records a message in the inbox, then *submits* it
  to the session scheduler; a scheduler thread runs the turn and writes its reply
  into the outbox; any thread of the gateway may *drain* the outbox. So a message
  crosses three stores and two kinds of threads, and a crash may hit anywhere.
- The command line has no scheduler: its prompt's thread starts the thread of a
  turn, and that one starts the next.
- A turn builds its request from the messages and the checkpoint of the
  database (TurnContext, SessionDatabase), sends it (ModelTransport), and writes the
  journal ahead of every side effect (OperationJournal). Its calls go through the
  policy (ToolApprovals) in a batch (ToolBatch); a call that needs the user leaves
  an interaction, which a later turn *claims* to resume the run.
- A tool call may start subagents, which are turns of sessions of their own, or a
  background task. The task's end reaches the user through a listener of the
  gateway, which waits for the reply of the turn at work, or through the next turn
  of its session.
- Every step of a turn is published; the store, the traces, the run state and the
  screen follow the events (RunEvents), replays and reviews are made from them.
- The cron worker is a process of its own. It shares `jobs.json` with the cron
  tool in the agent's processes, and reaches the user through the gateway's outbox.
- What is learnt goes through drafts and candidates with a gate; reviews run on one
  thread beside the turns.

## 2. The modules

Each has the component's state as variables, one action per handler, transaction
or side effect, and its properties at the end. Definitions that begin with "Mutant of"
in their comment are slips of the code used to test the properties (section 3).
What follows says what a step is and what stands for what, where the names alone
do not.

**SerialExecutor** (abstract) says what callers of `SessionTaskScheduler` may rely
on: tasks are accepted, a free session takes the oldest waiting one, a waiting one
may be withdrawn, and unless the executor is abandoned all get resolved.
**SessionScheduler** is the code: a step is a critical section of `_condition`, with
steps in between for what runs outside of it. `keyed` is whether the session has an
entry in `_queues` (`_execute` indexes without a default); `dispatchers` are
`submit()` calls between their critical section and `_dispatch_next()`;
`workQueue`, `dropped`, `shut` are the `ThreadPoolExecutor` (external); `closer` is
how far `close()` is, with `wait_for_idle()` asleep or looking.

**SessionStore** (abstract) is the protocol of `runtime/sessions/store.py` as the
in-memory store keeps it: runs start, resume and are finalized, operations are
planned, marked and completed, in the order their statuses allow.
**OperationJournal** is one session: turns of one or more processes over the durable
records. A step is a SQLite transaction or a side effect; a crash, or an exception
that escapes the turn, may come between any two and loses the turn's memory.
`Start`/`Claim` are the two ways `handle` begins a turn; `ResumeRun`, `StrayResume`,
`MarkResumed`, `Redo` the resume; `AskForTools`, `Plan`, `Reuse`, `Mark`, `Dispatch`,
`Record`, `AfterTools` one iteration; `Discard`, `Answer`, `Exhausted`, `FollowUp`,
`Finish` the ways out and `finalize`; `Attach`, `Complete` what the handler does to
the interaction afterwards; `Resolve`, `Expire`, `Cancel`, `Crash` the user, time,
`/stop` and the process. A call is executed, refused, or put before the user.

**SessionDatabase** has the rows of one session's messages, among those of others
(ids are shared). Each writer is a process with one errand at a time: open and
migrate (a version per transaction), append, record a response of the model with its
usage, or build a request, which reads the snapshot, then the checkpoint, lets the
model summarize and saves. A write meets a busy database up to its number of
attempts; a writer may die anywhere.

**TurnContext** has one turn after the other on a session's transcript. `Context` of
the code is a function of the messages and the checkpoint: split by the protected
head, the summary and a tail within its budget that does not begin with results,
results without their call left out and calls without results given one. Sizes are
numbers; a turn may break off anywhere.

**ModelTransport** is one request: the messages made to fit the provider's rules
(`SerializeMessages`), attempts, chunks, the failure before and after the first
chunk, the wait between attempts and the cancellation.

**ToolApprovals**: the policy's decision for each call (a bash call is the list of
what its commands may do, and how its redirections are written), the providers `deferred`, `console` and `yolo`, and the file of
interactions, of which each operation is one critical section. Turns of two sessions
create, reuse, claim, attach, consume, complete; the user resolves; what is a day old
expires (`GetOld`); a crash ends a turn.

**ToolBatch** runs the calls of a response. `Open` is a call's look at a file,
`FinishCall` its effect and result, so concurrent calls interleave between the two.
`code_executor` runs its steps in one call, up to the first that fails or raises, and
reports the files they changed unless one has raised. A tool on a file raises where the
text of the file is not UTF-8 (`Garbled`).

**BashTool**, **Subagents**, **McpClient**, **InteractiveCli** are threads. A process of
BashTool has a watcher (the call, a task, a thread of the manager) and a report; Subagents has
the parent's wait, with the set of the last `wait()`, and each child's token;
McpClient has for each server the loop's thread, what it has published, and the steps
of `close()`, which looks for the loop and signals it afterwards; InteractiveCli has the
thread of the prompt (reads flags under the lock, acts after it), that of the turn, and
the panel of the screen.

**TodoList** has the items as objects that the list refers to, so a reorder that
names one twice gives it two places.

**SessionRecall** walks the rows of a search one SELECT at a time while turns append
and delegated sessions are given their parents.

**RunEvents** has the numbering of a turn, the event store that refuses a number it
has, the trace builder of each process, the tracker of run states with the thread that
expires requests, and the console's streamed answer with output of tools, also late, in
between.

**OfflineReplay** records a turn as events, one of which may be lost, plans from what
is stored, and runs the loop again on the recorded answers.

**BackgroundTasks**: `Recover` and `Load` are the two transactions of the manager's
constructor; `Tell`/`Mark` the two halves of telling the listener (a callback outside
the lock) and marking; `Replay`/`ReplayMark` the same in `add_completion_listener()`;
`Drain`/`Append` the two halves of a turn putting ends into its session. The gateway's
listener waits for the reply of the turn at work and holds the task's slot meanwhile.

**CronScheduler**: workers that tick (`Acquire`, `Recover`, `Load`, `Start`, `Finish`,
`Truncate`, `Put`), deliver (`ListPending`, `Deliver`, `MarkEnqueued`) and sleep; editors
that read, truncate and put the same file. A crash between the two halves of
`write_text` leaves an empty file, which reads as an empty list. A crash frees the file
lock but leaves the row `running`, which the next `Recover` ends.

**WeixinOutbox**: `Claim` is `claim_due_outbound()`, `Send` the call of `send_text()`,
`Mark` the transaction that records its outcome, `MarkRaises` that transaction raising,
which ends the drain and leaves what it had claimed in `sending`. `Recover` is what the
next process does first.

**WeixinGateway** composes with the scheduler through the *abstract* executor:
`Serial == INSTANCE SerialExecutor`, whose `Accept`, `Start`, `Finish` and `Withdraw` are
conjuncts of the gateway's own steps. That is sound because `SessionScheduler` implements
`SerialExecutor` (theorem `Refinement`, run `scheduler` with fairness). A task is a
message and a 1 or 2, as a process submits one by a poll and by a recovery at most. What
becomes of a reply after it is enqueued is WeixinOutbox.

**WeixinPairing**: the gateway and the operator's command each read the file, empty it
and fill it (`EmptyFile`, `FillFile`), and tell the user afterwards. **WeixinProgress**:
the sink of one turn with its interval, its pending lines and the thread that sends.

**DurableMemory** (abstract) is `memory/memory.py`: one list, each operation one step.
**MemoryFiles** is `memory/file_memory.py`: under the lock a call reads both files,
plans (`Plan`), replaces one file after the other (`WriteAll`), audits and unlocks; its
`Refuse` and `Expire` are the calls that change nothing and what expiry does; a process
may die at any of these. What is listed is what has not expired.

**SkillGovernance** has one skill: drafts with admission and evidence, versions, the
live directory, the state file. `Activate`, `CopyVersion`, `RecordVersion`, `Deprecate`,
`Swap`, `Place`, `Clean`, `SaveDraft`, `SaveState` are the writes of a promotion in their
order; `Rollback`, `RemoveSkill`, `ArchiveSkill`, `Demote`, `Restore` those of the other
operations. A content is a set of lines and files.

**EvolutionCandidates**: `Compare`, `Finalize`, `Snapshot`, `AppendBlock`, `RecordVerdict`
are the writes of a promotion; `Retire`, `AppendCandidate` those of staging. Each that
rewrites a file empties it (`disk` is then the name of the file) and `Fill` writes it; a crash in between
leaves any of the records (`LoseRecords`: the others are "lost", and if half of one was
written nobody can read the file, which is "cut") or the first blocks of the text
(`LoseText`).
**BackgroundReviews**: `Hydrate` reads the counter back from the traces; `RunTurn`,
`Decide`, `SubmitReview`, `Acknowledge` are what a turn does, `TakeReview`, `RunReview`,
`ResetSkill`, `TaskDone` what the worker does.

Two modules compose independent parts for TLC: **MCThreads** (InteractiveCli, BashTool,
Subagents, McpClient and a turn of OperationJournal with two iterations) and **MCParts**
(fifteen modules whose properties are of safety). Nothing of the parts' states is
shared, so their product would show nothing but its size; a behaviour chooses one part
at the start (`part`) and the others stand still. A run of a composite is one run of each
part. The composition of parts that do interact is in the modules themselves:
WeixinGateway over SerialExecutor, OperationJournal over SessionStore (refinement),
BackgroundTasks with the turn that drains and the gateway's listener, SessionDatabase with
the build of the request, CronScheduler with the outbox and the tool.

## 3. The runs

Passing runs:

| run | checks | shows |
|---|---|---|
| `scheduler` | `DispatchIsSound` | a session with work has exactly one party that will move it on, through `replace_pending`, cancellations and the unlocked windows of `submit` and `_execute`; `_queues` has what `_execute` indexes; nothing is left to hand over after the shutdown |
| | `DrainedMeansResolved`, `DrainEnds` | a drained `close` resolved every future it ever handed out, and ends (no lost wake-up) |
| | `ImplementsSerialExecutor` | what callers rely on, with its fairness: one task of a session at a time, oldest first, none lost |
| `journal_one` | `AtMostOnceEffect`, `JournalIsAhead` | one effect per call, and never one that the records do not admit; a call that can be resumed waits for the user |
| | `EndedRunsAreSettled` | an ended run leaves nothing half way; an awaiting one has a call that a resume finds |
| `journal_two` | `VerdictIsFinal` | two processes on one database, `start_run` of one interrupting the other in its middle: an answer or a failure is not taken back |
| | `ImplementsSessionStore` | no turn, resume or crash calls the store out of its protocol |
| `outbox` | `OneHolder`, `DeliveredIsFinal`, `EveryTextIsSettled` | exclusive claims; no second send of what was delivered; each text is delivered or a dead letter, unless a failed transaction left it behind |
| `gateway_safety` | `NothingIsDropped`, `RunsOncePerLife` | cursor against inbox, reply against completion; one turn per message and process life |
| `gateway_order` | `ConversationOrder`, `SilencedByNewer` | turns of a conversation in its order; only a newer message of it leaves one unanswered |
| | `EveryMessageSettles` | every message is settled |
| `background` | `EndsAreToldOnce`, `EndIsFinal`, `EveryEndIsTold` | places are given back, marked ends were told, once per start; ends do not change; every end is told, unless a turn failed with it |
| `cron` | `RunsOncePerSlot`, `DeliveredExactly`, `EveryJobIsTold` | the lock and the rows keep a time of a job from running or being delivered twice; scheduled jobs run, and an end by success, failure or crash reaches the outbox (one that is left unfinished does not: section 7) |
| `cron_edits` | `EditsAreKept` | what the tool confirmed stays when nothing overlaps it |
| `threads` | `TurnsStayApart`, `ExitEnds` | the command line never has two turns of a session, nor prints one turn's answer as another's, and `exit` ends |
| | `EveryProcessIsWatched` | each bash process has somebody who waits for it until its end was told once, to whom it is due, through yield, timeout, cancellation and a full task table |
| | `ChildrenStop`, `StopIsHeard`, `EveryTurnEnds` | subagents end or are told to stop; an MCP thread that is closed ends, also when its start timed out; the loop ends |
| `parts` | see below | |

`parts` checks one type invariant, `PartsTypeOK`, and:

| property | consists of |
|---|---|
| `CallsAreHandled` | `CallsAreConsented`: an answer is spent by the session it was given to, at most once unless it was given for the session, and without one only what the mode admits runs, or a bash call whose commands are all known to read (a redirection whose sign is joined with another asks for nothing). `BatchRunsInOrder`: a concurrent batch leaves what one call after the other would, if it has no search beside a write. `WritesAreReported`: what a call left in a file its result tells, also when a later step of it failed; not when one raised. `TodosAreKept`: the order has each item once, but for what a reorder that names an id twice has dropped. Section 7 has the four exceptions |
| `ModelExchangeIsFaithful` | `RequestIsWhole`: each message of the session is in the request once, as it is or summarized, and calls and results are paired. `TransportIsFaithful`: nothing goes out that the provider's rules refuse, and what was shown while it came is what is kept |
| `HistoryIsFaithful` | `RecallIsWhole`: what a search shows has no gap and is the user's own. `ReplayIsFaithful`: a turn that the model and its tools decided replays without a difference, and one with a lost event is refused. `DatabaseIsSound`: counts and checkpoint agree with the rows, a request has what was read once, nobody works on half a migration |
| `EventsAreFaithful` | numbers stay unique, a trajectory is complete when it says so, a trace has every result its process has published of the run, the state of a session names no other run's interaction, the response stands on the screen in one piece |
| `SkillsAreRecoverable` | what was live and no longer is, is among the versions, at whichever write a process died; without a crash the state names what is live and what it replaced, so that rollbacks undo promotions one by one |
| `EvolutionIsTraceable` | `PromptIsTraceable`: wherever the process died, each block of the prompt has a snapshot of the prompt before it, and the gate's consent in its record, unless a death in the rewriting of `candidates.jsonl` lost the record. `ReviewsArePaidFor`: an execution of tools is counted for one review |
| `GatewayIsHonest` | `PairingIsKept`: who was confirmed stays approved, and a code a user was told is his, unless two rewritings overlapped or one was cut in two. `ProgressPrecedesReply`: no progress follows the reply, lines come in order and once |
| `PromotedAsReviewed` | (action) what goes live is what all its evaluations have seen; it drops a line of the live skill only if that has changed since the admission |
| `ImplementsDurableMemory` | (refinement) the memory files change what is listed by whole operations of `memory.py` only |

`cron_cancelled` is expected to end in a violation (section 7).

Of these, section 6 proves for every instance all but the liveness properties; it says which hypotheses on the environment some theorems need. These too are proved, and
no run repeats them by name: `OneAtATime` and `SubmissionOrder` of the scheduler (which `ImplementsSerialExecutor`
subsumes), `AttemptsAreSends`, `GivenUpLate` and `AttemptsAreBounded` of the outbox,
`EffectIsJournaled`, `CheckpointWaits` and `SettledIsFinal` of the journal,
`MarkedIsTold` of background tasks, `TurnIsRunning` of cron, `ContradictionsAreKept` of
the memory files.

For every property of a passing run `PROJECT.json` names at least one mutant: a
plausible slip in one definition of the model (a dropped guard, a missing reset, a
check of the wrong status, a swapped order) with which that run finds the property
violated; a property that is a conjunction of parts has one for each component it
speaks of. The mutated definitions stand in the modules before the definition they
mutate and are marked as such.

## 4. Bounds

| module | bounds | why they are enough |
|---|---|---|
| SessionScheduler | 2 tasks of one session and 1 of another on 2 threads | of one session, one is running or handed over while the other waits, is replaced or is cancelled; the second session competes for threads; the safety theorems hold for any number |
| OperationJournal | 1 process, 2 runs, 2 calls, `MaxIterations` 1; 2 processes with 1 call; 1 process, 2 runs, 1 call, `MaxIterations` 2 for liveness | two calls give a batch whose second part is deferred, two runs a takeover and a resume after another run; a second iteration adds only more calls |
| WeixinOutbox | 2 texts, 2 draining threads, `MaxAttempts` 2, `ClaimLimit` 2, 2 restarts, 1 manual retry, a store that may raise | both threads compete for both texts; an attempt fails before and at the limit, and again after the retry and each restart |
| WeixinGateway | 3 messages of one conversation with a `/stop` in the middle, or one of another conversation and then two of this one; 1 restart | a batch with an older, a steering and a newer message, and one after the restart; steering beside a turn of another conversation |
| BackgroundTasks | 3 tasks, `MaxConcurrent` 1, `MaxPending` 2, 2 starts | one runs, one waits, one is refused; an end told before, in and after a restart |
| CronScheduler | 2 workers, a recurring job, times 1 to 2, 4 runs, 1 crash; for edits 1 worker, 1 editor, a one-time, a recurring and a rare job, 2 runs, 1 crash | the job is due twice; both workers compete for the lock, and one crashes in a turn, a write or a delivery; an edit meets every state of a tick (overlapping edits are excused by `EditsAreKept`, so one editor is enough) |
| InteractiveCli | 2 chats, `MaxTyped` 3 | a message steers a turn, one waits, one comes after `/new` |
| BashTool | 3 commands, `MaxRunningTasks` 1, `MaxTasks` 2 | one runs as a task, one waits, one is refused and goes on unwatched by the table |
| Subagents | 3 children (the code's own maximum) | — |
| McpClient | 2 servers | one may hang or fail while the other is stopped |
| ToolApprovals | 2 sessions, a pipe that changes something, a look that is redirected by a joined sign, and a clarification, `MaxRequests` 2, `MaxTurns` 3 and 1, `MaxTurnsInAll` 3, 1 crash | an equal request of a later turn, with an answer given before, between and after; another session; expiry at each point |
| ToolBatch | 2 files and a third that is not UTF-8, `MaxCalls` 3, 4 programs of 2 steps for `code_executor` | two writers and a reader, on one file and on two; the second step finds what the first has left, fails, succeeds or raises |
| TurnContext | 6 messages of sizes 1 and 3, 2 calls at once, `Threshold` 5, `InputLimit` 8, `TailBudget` 2, `ProtectFirst` 1 | compaction with the cut before, in and after a call's results; a second compaction over the first; a head that is all there is |
| ModelTransport | history of 3 with 2 call ids, `MaxRetries` 2, `MaxChunks` 2 | a failure before and after the first chunk, in the first, second and last attempt |
| RunEvents | 2 runs, 3 turns, 9 numbers, 1 mishap | a run resumed in a new process while another run has the state |
| OfflineReplay | 3 steps, 2 follow-ups, 1 lost event | a lost event of each kind, at each place |
| SessionRecall | 3 sessions of 2 users, one delegated; `MatchLimit` 3, `ReadLimit` 2, `Window` 1, 3 stored messages | a window in the middle of a session and at its ends, a lineage, a message or a delegation while the search walks. The two users are alike except that the delegated session's is fixed |
| SessionDatabase | 2 writers, `CurrentVersion` 2, `WriteMaxRetries` 2, 3 rows, 2 answers, 1 death | both migrate, one dies between the two versions; an append between the snapshot and the save |
| SkillGovernance | 2 drafts, 1 baseline, contents of 2 lines and 1 file, `MaxEvaluations` 1, 1 crash | a promotion over a promotion, and its rollback, with a crash at each write |
| MemoryFiles | 1 user, 2 texts that contradict each other, `MaxMemories` 2, 1 assistant and 1 reviewer, 1 crash | a call meets another one's files before, between and after its two writes; proved for any number |
| EvolutionCandidates | 3 candidates, 2 scopes, 1 crash | one replaces one and one is of another scope; the crash is between any two writes, or in one, with each loss of records it may leave |
| BackgroundReviews | `SkillInterval` 2, 3 traces, 1 crash | a count under, at and over the interval, with the crash before and after the queue |
| TodoList | 4 ids | a reorder that repeats one and forgets another |
| WeixinPairing, WeixinProgress | 2 users, 2 codes, 1 crash; 1 streamed item, 3 details, 2 of them kept | an overlap of the two processes; an overflow of the kept details |

The bounds that cap unbounded behaviour are constants with names: `MaxRestarts`,
`MaxRequeues`, `MaxStarts`, `MaxRuns`, `MaxNow`, `MaxTyped`,
`MaxRequests`, `MaxTurns`, `MaxTurnsInAll`, `MaxCalls`, `MaxMessages`, `MaxHistory`,
`MaxChunks`, `MaxRunTurns`, `MaxNumber`, `MaxMishaps`, `MaxSteps`, `MaxFollowUps`,
`MaxStored`, `MaxRows`, `MaxAnswers`, `MaxDeaths`, `MaxDrafts`, `MaxBaselines`,
`MaxEvaluations`, `MaxMemories`, `MaxCandidates`, `MaxTraces`, `MaxDetails` and those that
end in `Crashes`. `MaxAttempts`, `MaxIterations`, `MaxConcurrent`, `MaxPending`,
`MaxRunningTasks`, `MaxTasks`, `Threshold`, `InputLimit`, `TailBudget`, `ProtectFirst`,
`ModelTransport`'s `MaxRetries`, `WriteMaxRetries`, `MatchLimit`, `ReadLimit`, `Window`,
`SkillInterval` and `KeptDetails` are the code's own limits, made small. Runs that switch
deadlock checking off say why in their `.cfg`: the system has nothing left to do, or is
down. `cron` checks deadlock, since a worker ticks for ever.

Symmetry is used for model values nothing distinguishes, in runs that check no
liveness.

## 5. Fairness

- *Threads run.* A thread that can go on does (`WF` of `Worker`, `Step`, `Work`,
  `Poll`, `Drain`, `Tick`, the prompt's `PromptStep`, the watchers and loops of MCP
  servers): operating system threads that share only short critical sections.
- *Callbacks, models, tools and turns return or raise.* All are under timeouts in
  the code, or are the user's own command; `EveryTurnEnds`, `ExitEnds` and the
  fairness in `ImplementsSerialExecutor` depend on it.
- *A deadline passes* (`PassDeadline` of Subagents; a back-off of the outbox). A child
  looks at its token between two steps of its loop, so one that is told obeys
  (`ObeyToken`); one that is not told may work for ever.
- *An MCP server may hang at its opening*: no fairness there. `StopIsHeard` is about
  clients that are told to stop after they opened, or while.
- *Callers owe nothing.* No fairness on submitting, cancelling, closing, on a
  drain's deadline, on what is typed, on the user's answer, on an edit or a crash.
- *A service manager restarts what crashed* (gateway, cron worker), up to the
  bound.
- *A user of a cron job once speaks to the gateway*, which learns the route
  (`RouteLearned`); *the user goes on with the conversation*: an end that no listener
  took reaches the user with a next turn of the session (`EveryEndIsTold`).
- `SerialExecutor`: a free session takes its oldest waiting task, and a running
  task finishes; `ImplementsSerialExecutor` derives both from the threads'.

## 6. Proofs

The proofs are in `<Module>_proofs` for the larger components, in `Agent_proofs`
for what the agent does in a turn (request, transport, calls, approvals, todo list), in
`Interfaces_proofs` for what is seen of it from outside (events, replay, the search of
other sessions, the interactive session, the outbox, pairing and notices of the Weixin gateway) and for the bash tool,
and in `Components_proofs` for what it learns and stores (memories, skills, prompt
candidates, reviews, the database) and for the components side by side, as
`parts` checks them. The threads that a turn waits for (Subagents, McpClient) have a
section in `SessionScheduler_proofs`. All hold for all values of the constants under the named assumption of the module (`SchedulerAssumption`,
`JournalAssumption`, ..., `PairingAssumption`, `ReplayAssumption`): types of
constants, limits that are positive where the code refuses others, and a "none" that
is not a member. Each follows the same argument: a strengthening holds initially, each
action preserves it (one step or lemma per action), it implies the property. An
inductive invariant is checked by TLC on a small instance before it is proved.

Some theorems have a hypothesis about the environment, because without it the property
does not hold of the code (sections 7 and 8):

| hypothesis | says | of |
|---|---|---|
| `Alone` | one process has the table, or the session, to itself | `EachEndIsToldOnce`, `NoEndIsChanged`, `EndedRunsSettle` |
| `~StoreMayFail` | no transaction on the inbox raises | `TurnsFollowTheConversation`, `TheLastWordIsAnswered` |
| `~TurnMayRaise`, `~DrainMayTimeOut` | no turn raises, a close waits for its turns | `TheLastWordIsAnswered` |
| `Rare = {}` | no recurring job has a year between two of its times: such a job ends the tick unwritten, and what the tick has run runs again | `EachSlotRunsOnce`, `EachSlotRunsOnceUnedited` |
| `Editors = {}` | nobody edits the jobs while workers run | `EachSlotRunsOnceUnedited` |

- **SessionScheduler.** `TypeCorrect`. Then `ClaimInv`: `ClaimsAreActive` (a
  party that will move a session on keeps it active), `ClaimsAreAlone` and
  `ClaimsAreApart` (there is one such party at most: `OneAtATime` alone is not
  inductive, as a dispatcher or a work item could be a second one),
  `QueuedUnderOwnSession`, `CloseInOrder`. This gives `SerialPerSession` and, with
  the state of futures, `DrainIsComplete`. `ActiveIsCarried` is the other half: an
  active session has a carrier at least; together they make `OneCarrier` and
  `NoFailureInDispatch`, which is `DispatchIsSound`. On top of it `OrderInv`:
  `FuturesMatchPlaces`, `UnresolvedIsPlaced`, `TicketsCount`, `OlderFirst` (the
  queues are in ticket order), for `FirstComeFirstServed`. With all, `Refinement`
  shows `Spec => Serial!Spec`, action by action: `Submit` is `Accept`, `Begin` is
  `Start` (its guard is `SubmissionOrder`), `Return` is `Finish`, cancellations are
  `Withdraw`, everything else stutters.
- **OperationJournal.** `AtMostOnceEffect` needs to know why a call about to
  be executed has no effect yet: it is in the hands of one turn (`OneHolder`) whose
  record is freshly `running` (`InHandFresh`, `Unstarted`), and what can be
  claimed again is a call that waits and was never executed (`ClaimableUnheld`,
  `ResumeParked`, `WaitParked`, `NothingForgotten`). The rest ties the places of a
  turn to its batch and results (`Phases`, `Batches`, `ResultsOpen`,
  `AttachedBegun`). From it: `AtMostOnce`, `JournalAhead` (with its parts
  `WriteAhead` and `CheckpointsWait`) and the action property `OutcomesAreFinal`,
  for any number of processes that crash anywhere. `VerdictsAreFinal` has a second
  invariant on top, `VerdictInv`: whatever may still be answered (`AskingUnended`),
  and whatever a request took that cannot resume it (`StrayTook`), belongs to a run
  without a verdict, one call of a run asks at a time (`AsksOnce`), and the turn
  that put it before the user knows it (`AskingIsKnown`), so that no turn ends a run
  while another may reopen it. `EndedRunsSettle` is for one process: `SettleInv` says
  that a run that is running is the one in its hands (`RunsWhileHeld`), that a planned
  call is the next it takes up (`PlannedIsNext`), that a turn at its end has none left
  open (`NoneAtFinish`), and that a run that waits does so at one call
  (`AwaitingIsParked`). `StoreIsImplemented` maps each step to one call of the store or
  to none.
- **WeixinOutbox** (`Interfaces_proofs`). `ClaimedIsUnsent`, `SentIsCounted`, `PendingHasAttempt`,
  `RefusalIsKnown`, `DeadIsExhausted`, `DownHoldsNothing` strengthen the safety
  properties of the run, which are proved (`ExclusiveClaims`, `DeliveredOnceForAll`)
  with `AttemptsCountSends`, `GivenUpLateEnough` and `AttemptsBound`.
- **WeixinGateway.** `DropsNothing`: its halves are `NothingIsLost`, from where a
  message may be when the cursor moves (`PassedIsKnown`, `SeenIsKnown`,
  `RecoveredIsKnown`, `HandledIsKnown`, `SavedIsHandled`, `DownIsReset`), and
  `RepliesAreDurable`, from `ReplyComesFirst`. `NoMessageRunsTwice` (no hypothesis)
  needs `DispatchInv`, which ties a message's row to its future (`RowTellsFuture`), its
  count of turns to both (`TurnsCounted`), and the order of tickets to that of the
  service, across recovery, redelivery and the batch in hand (`BatchInOrder`,
  `OlderIsKnown`, `HandIsNewest`, `TicketsInOrder`). `TurnsFollowTheConversation` adds
  `OrderInv`: an older message of the conversation that is open has a future
  or is still in hand (`NothingIsForgotten`, `OlderIsSubmitted`, `StartsInOrder`).
  `TheLastWordIsAnswered` adds `SilenceInv`: what a cancellation silenced has a newer
  text that is known or about to be submitted.
- **BackgroundTasks.** `NoEndIsForgotten` from `ThreadHasOwner`,
  `NotedIsAccounted`, `MarkerHasTold`. `NoListenerHearsTwice`, for any number of
  processes: a thread lives in the process that made it (`LivesInItsProcess`), and
  what that process may still tell is counted with what it has told
  (`HeardPerStart`), by the thread, by the replay to a new listener and by what a turn
  holds. For one process, `Synced` ties its memory to the table; with `ReadOnce` (a
  turn takes an end once) and `Final` this gives `EachEndIsToldOnce` and the action
  property `NoEndIsChanged`.
- **CronScheduler.** `NoLiveTurnIsInterrupted` from `TickHoldsLock`,
  `CurrentIsKnown`, `TurnHasJob`; `DeliveryIsExact` from `MarkerHasEnqueued` and
  the two parts of `DeliveredExactly` together. `EachSlotRunsOnce`: who holds what it
  has read of the file is alone with it (`OneReader`, while nothing has clashed), and
  every table that exists, in the file or in the hands of a worker, only enables a
  slot that may run once more (`FreshTables`: taken at most as often as there
  were crashes). `NoEditIsLost` has the same shape with what every table keeps
  (`KeptTables`).
- **MemoryFiles** (`Components_proofs`). A call writes two files one after the other, and readers do not
  take the lock; why is what they list never half a change? `FilesInvariant`: the
  caller past the lock is the one that holds it (`LatchHeld`), ids are apart
  (`PagesApart`), and what it has yet to write differs from what the files hold by
  one addition, one replacement of one record, or the removal of expired ones
  (`PlansHold`), all of which are in one file or change nothing that is listed.
  `FilesImplementMemory` then maps the write that changes what is listed to the
  operation of DurableMemory and every other step to a stutter, and
  `FilesKeepContradictions` carries the abstract memory's invariant over to the files.

The other components have a section each, in `Agent_proofs`, `Interfaces_proofs` and
`Components_proofs`:

- **SkillGovernance**, `SkillInv`: a promotion that has copied its version holds what it
  will place (`ActivationIsSound`), a rollback what it will restore
  (`RollbackIsSound`), and what ever was live and is not now is the content of a
  version (`LiveIsSound`), which no step writes over (`VersionsStay`). It gives
  `SkillsCanBeRecovered` and, with what the evidence has seen (`DraftIsSound`), the
  action property `PromotionsAreReviewed`.
- **EvolutionCandidates**, `CandidateInv`: the overlay is traced block by block to
  snapshots and to candidates that the gate agreed to or whose record is lost
  (`TracedBy`, `Consented`), each snapshot is itself traced, so that a rollback
  lands on a traced overlay, and so are the first blocks of either (`TracedByLess`),
  which are what a death leaves; the job in between knows which of its steps are done.
- **BackgroundReviews**, `ReviewInv`: `CreditHolds` splits all tool executions into
  those before the last skill write and those since, of which each review asked for has
  taken an interval and the counter is a part; what a restart counts again fits in it.
- **ToolApprovals**, `ApprovalInv`: an interaction in the file agrees with the user's
  answer and with what was run on it (`ItemFits`): one that may still be claimed was not
  resumed, one for a single call was not used again. A turn that resumes holds an
  interaction of its own session that no turn can claim any more (`ResumeFits`,
  `IsTaken`). The file is rewritten as a whole by each operation: `FollowKeeps` says when
  what is left of it still agrees, and `OnlyIs` what a list comprehension keeps.
- **ToolBatch**, `BatchInv`: in order, the files and results are those of the
  first *m* calls (`InOrderSoFar`); at once, the calls touch different files, so each
  finds its file as it was (`FindsFresh`, `HoldsEach`), and the order of the threads
  makes no difference (`AtOnce`, `EffectIsLocal`). `Reported` follows
  each written text to the result that tells it, or to the call that raised.
- **TodoList**, `TodoInv`: the list holds what was promised, without repetition, and
  the order of each item is its place (`InPlace`). Then sorting by order is the identity:
  the one permutation of `1..n` that grows everywhere (`GrowingIsIdentity`).
- **ModelTransport**. `SerializeMessages` is a fold over the history; `WorkIsSound`
  (the calls of a message are those answered right after it, and of the last one also
  those that wait) and `WorkComesFrom` (what is sent comes from the history, in order) are
  kept by each message, whence `RequestsArePaired` for every history. `TransportInv` adds the
  attempts: no attempt begins with text shown.
- **TurnContext**, `ContextInv`: `SessionFits` says what a transcript can be: results
  that stand together answer different calls (`RepliesDiffer`), the calls that wait have none
  (`WaitFits`), and a checkpoint neither ends between a call and its results nor stands
  for the user's latest message (`CoverFits`, `Splits`). From it, whatever `Build`
  puts together (the whole, a checkpoint used again, a new one whose tail `TailIs`
  aligned) can be sent (`CanBeSent`), and `SanitizeIs` says what pairing makes of it, message by
  message, as in the transport but with results made for the calls without one.
- **BashTool**, `BashInv`: by the state of each command, who waits for its process.
- **InteractiveCli**, `CliInv`: at most one turn is under way and the flag says so
  (`OneIsActive`), tokens and the words on the screen belong to it.
- **RunEvents**, `EventInv`: the running turn is above the stored numbers of its run
  (`NumbersAreAbove`), an open trace has counted the results its process has published
  (`TracesCount`), a state in the making is of one run, before and after
  (`StatesAreOfTheirRuns`), and a line of the screen is what was streamed
  (`ScreenIsSound`).
- **WeixinPairing**, `PairingInv`: unless disturbed, who has read the file will write
  what takes over everything that was told. **WeixinProgress**, `ProgressInv`: what is
  sent, submitted and pending are in this order (`SentInOrder`, `UnsentIsNewer`).
- **SessionDatabase**, `DatabaseInv`: a transaction under way is at most one row or one
  count away from sound (`Transaction`), and a process that works with what it
  read knows a beginning of the session (`Progresses`), in which what a checkpoint
  covers stays the same whatever is appended (`FirstOfBeginning`).
- **SessionRecall**, `RecallInv`: a window around a match grows without a gap
  (`WindowFits`), rows and views are of lineages that may be shown (`RowsFit`,
  `ViewsFit`), and what has been counted so far accounts for what was there.
- **OfflineReplay**, `ReplayInv`: what the planner will take out of the events is known
  at each step of the recording (`TurnFits`), and a replay is as far in its steps as in
  the plan (`ReplayFits`). The plan is a recursive function over the events; it is
  followed event by event with `FoldExists` and `FoldIsOne`, which rest on `UpTo`, an
  induction over an interval that is proved from the cardinality of finite sets.
- **Subagents** (`SessionScheduler_proofs`), `ChildInv`: who is no longer waited for is at
  its end, and when the call answers who still is was told (`TheUnfinishedAreTold`).
  **McpClient**, `McpInv`: a close that has looked at its client either saw the event of its
  session or set the flag before the session looks at it, and `discover()` is done with
  a server only when its client is kept or told (`NoStopIsLost`). They are what
  `ChildrenStop` and `StopIsHeard` need of every state; that the threads go on is
  the fairness that TLC checks them under.
- The types. `PartsAreTyped` states `PartsTypeOK`. For most components the type
  invariant is a conjunct of the inductive invariant; where it bounds a count or a place,
  the invariant above it is what makes the bound hold: a turn under way leaves room for
  what ends it (`ContextTypes`), a count of tool executions is below the interval of a
  review (`ReviewTypes`), a result tells only changes of paths there are (`BatchTypes`, for
  programs of the steps that `_normalize_step` admits: `BatchAssumption`), the
  recorded events bound the plan that is made of them (`ReplayTypes`), and what a checkpoint
  covers are rows (`DatabaseBounds`).
- The specification of `parts` is an interleaving of its components, so
  each step of it is a step of one component and a stutter of the others
  (`GatewayPartsStep`, `LearningPartsStep`, `TurnPartsStep`): `TheGatewayIsHonest`,
  `ExperienceCanBeFollowed`, `TheHistoryIsFaithful`, `TheCallsAreHandled` and
  `TheModelExchangeIsFaithful` carry the theorems of the components over to the
  formulas the run checks.

Model-checked only. For good: every liveness property and the fairness part of
`ImplementsSerialExecutor` (`ENABLED` and fairness are beyond the prover; the safety part is
`Refinement`): `DrainEnds`, `EveryTextIsSettled`, `EveryMessageSettles`, `EveryEndIsTold`,
`EveryJobIsTold`, `ExitEnds`, `ChildrenStop`, `StopIsHeard` and `EveryTurnEnds`. Every
invariant and every action property of a passing run is stated by a theorem.

## 7. Where the code and its words part

One run is expected to end in a violation: `cron_cancelled`. `tools/cron_tool.py:35`
says "cancel disables a job."; a worker writes back the list it read before its
turns (`runtime/tasks/cron.py:424`), so a cancellation confirmed in between is
undone. The counterexample has one worker, one cancellation and one due job.

The models also contain the following, which no run asserts; the properties are stated
so that they hold beside it, and name what they leave out. Where a document says
otherwise its line is given.

- *Scheduler.* After a drain that gave up, a task handed to the executor and not
  yet picked keeps a pending future for ever (`scheduler.py:89`; `abandoned` in
  `SerialExecutor`).
- *Journal.* A run cancelled after one of its calls went before the user is marked
  running again by the resume, which then finds no checkpoint and raises: it stays
  `running` until the next start (`engine.py:526`, `StrayResume`). A second process's
  start interrupts the run of the first, which goes on and gives it its own verdict.
- *Approvals.* A later run that makes the same request takes the pending
  interaction of the earlier one over (`interactions.py:59`). The lock of the store is per
  process while the command line and the gateway share its file (`interactions.py:33`);
  a save of the active ones drops the expired of other sessions (`interactions.py:78`).
  A redirection makes the policy ask only if its sign stands alone
  (`bash_command.py:91`); one that is joined with another sign (`>>`, `&>`, `>|`), as well
  as the pipe `|&`, is one more argument of the command before it, with what follows it.
  So a command that is known to read runs without being asked for with its output
  appended to a file, while `src/docs/permissions.md:11-12` says that "Commands with side
  effects, background execution, or uncertain shell structure request approval."
  `OnlyConsentedRun` is about what the commands are, with such a sign as an argument
  (`syntax` is "joined").
- *Outbox.* An exception while an outcome is recorded leaves the rows of that claim
  in `sending` until the next start (`local.py:487`, `MarkRaises`).
- *Gateway.* A close whose drain times out marks waiting messages superseded
  although nothing newer came, and the next process does not run them
  (`local.py:232`, `DrainMayTimeOut`). A failing route store after `record_inbound` makes the
  retried poll skip the message until the next process recovers it (`local.py:300`).
- *Pairing.* The file is neither locked nor replaced as a whole (`pairing.py:75`): two
  overlapping processes, or a death between emptying and writing, lose codes that were
  told. `PairingIsKept` excuses both (`disturbed`).
- *Background tasks.* A second process on the same `state.db` declares the first
  one's tasks interrupted while they work (`background.py:93`). A notification holds its
  task's slot until the reply of the turn at work is out (`local.py:405`).
- *Cron.* A run that ends unfinished (it waits for the user, was cancelled, or has used up its
  iterations) is never listed for delivery (`cron.py:141`): the user is not told, and
  `EveryJobIsTold` leaves such ends out (`EveryEndIsEnqueued`). `next_cron_run()` raises for a job without a next run within 366 days: the
  tick ends unwritten and its one-time jobs run again (`cron.py:423`, `Rare`).
- *Command line.* `exit` cancels approvals of the session the program started with, not
  of the one `/new` went on to (`main.py:2320`).
- *Tools.* A reorder of the todo list that names an id twice and leaves one out drops an
  item (`todo_tool.py:84`, whose message says that ids must match all existing items).
  A search beside a write in one concurrent batch may or may not see it
  (`concurrency.py:28`: it has no path of its own), while `src/docs/tools.md:37-39` says
  that "Calls that require approval or depend on shared state remain sequential"; `BatchRunsInOrder` leaves such a batch out
  (`SearchesAndWrites`). A step of `code_executor` that raises, as on a file that is
  not UTF-8 (`read_file_tool.py:71`, `write_file_tool.py:46`, `patch_tool.py:52`), is caught by
  the executor only (`executor.py:222`, not `code_executor_tool.py:110`): the error it makes
  has no `changed_files`, though steps before it have written. `WritesAreReported`
  leaves that result out. Steps `run` of `code_executor` do not pass the policy, and the
  files they change are not reported. A database error in `submit` leaves a bash
  process that no one watches (`bash_tool.py:332`).
- *Context.* A head, summary and tail of large messages may exceed the input limit after
  compaction.
- *Events.* A resumed turn overwrites `trajectory_complete` of its run
  (`engine.py:1036`); the trace of a run resumed in a new process lacks its first half
  (`trace_builder.py:38`); a late expiry overwrites the state of a newer run
  (`state.py:49`).
- *Database.* `load()` of a session another user's process just created keeps that
  user's id (`INSERT OR IGNORE`); the journal mode is set outside the retries
  (`sqlite.py:1508`).
- *Replay.* A plan's schema hash differs from a live one's, and a failed summary or a run
  with two completions replays differently; `ReplayIsFaithful` is for turns without these.
- *Search.* The own lineage is excluded after the `LIMIT`, so a search may return less than
  there is.
- *Skills.* A crash between the copy of a version and the save of its draft leaves a
  version without a record; a later rollback skips it.
- *Candidates.* `candidates.jsonl` is emptied and then filled with every change of a status
  (`jsonl_store.py:80`): a death in between loses records, and with them the gate's verdict
  of blocks that are in the prompt; a record that was written by half makes every
  later read raise (`jsonl_store.py:92`). `PromptIsTraceable` leaves out the blocks
  whose record was lost. The overlay and its snapshots are emptied and filled as well
  (`overlay.py:50`, `58`, `84`): what a death leaves of the overlay is its first blocks, which are
  still traceable, but the others have left the prompt without a rollback.
- *Memory.* An entry id that contains a space is read back as text (`file_memory.py:24`);
  no writer makes such ids.
- *MCP.* A call that timed out may still take effect on the server, and a client whose
  thread ended is not opened again.

## 8. Assumptions, and what is left out

Assumed:

- Tool call ids are the provider's and never shared by two runs; in
  one response a repeated id counts once, as in the code.
- Weixin messages carry ids and come from admitted users; the order of
  `created_at` is the order of the service; the service delivers again whatever
  follows the cursor.
- `EveryMessageSettles`, `ConversationOrder` and `SilencedByNewer` are for a store that
  does not raise (`StoreMayFail = FALSE`): section 7 says what happens otherwise. The
  gateway's safety run and the outbox let every transaction raise.
- The `background_tasks` table does not raise; the session store under a turn that
  has drained may.
- Cron: time passes only to a next slot; due jobs are taken in any order; of
  overlapping writes of `jobs.json` the last one wins. `EditsAreKept` speaks of
  edits that overlap nothing (`clash`) and of files no crash has torn (`torn`):
  `cron_cancelled` is what happens otherwise.
- One process at a time on the skill directories and on the overlay of prompts
  (nothing locks them); `os.replace`, a rename and one SQLite transaction are whole.
- An append of one candidate is one write (`jsonl_store.py:72`). A rewriting that a death
  interrupts keeps any of the records of `candidates.jsonl`; a block of the overlay
  that is cut in two counts as the block or as none.
- Which files are not UTF-8 does not change during a batch: the tools write UTF-8. A tool that
  raises does so before it writes.
- The copy of a skill's directory, and the text of a draft's file or attachment, is one step.
  (A copy that a death has cut is never placed: an activation refuses a version whose
  directory is there, `governance.py:716`. A draft is judged and evaluated as it was left.)
- The operating system, the SDKs of the providers, the MCP library, Weixin's service and
  its client are external: they do what the code in `src/` relies on, or fail.

Left out of the modelled parts: text, prompts, tokens; `/approve` and `/deny`, typing in
the gateway; `cancel()` of a background task, which sets a flag for display; the parsing
of cron expressions; other sessions of the journal's database; the convergence policy
of the loop, which only `evals/inspect/swe_bench.py` passes, and with it the completion
of goals.

Not modelled at all (`PROJECT.json` has each with its files): tools that are one
call on a file or the web, prompt assembly, application wiring and queries,
configuration, logging and diagnostics, offline evaluations, viewers of
telemetry: sequential processing without state of their own. The skill curator and
usage counts: nothing in the source marks the skills it would archive.

## 9. The plan

Order: what loses or repeats a user's work first.

1. Scheduler, journal, outbox, gateway, background tasks, cron: modelled, the main
   safety of each proved, the scheduler and the journal shown to implement abstract
   specifications.
2. The threads of a process (command line, bash, subagents, MCP) and the parts with
   safety only: modelled and checked; the memory files shown to implement the abstract
   memory.
3. Theorems: the safety of the gateway's inbox, of background tasks, cron and the journal
   under the hypotheses of section 6; every component of `parts` and `threads` that has a
   safety property, with an inductive invariant of its own. Done.
4. The types of all parts, and the safety that two of the liveness properties rest on. Done.
5. Next: the same for the other liveness properties (what a step that must come is enabled
   by), and shorter invariants where one component's section is long.
