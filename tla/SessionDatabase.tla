--------------------------- MODULE SessionDatabase ---------------------------
(***************************************************************************)
(* The messages of one session in the state database that processes share: *)
(* runtime/sessions/sqlite.py with the build of a request in               *)
(* runtime/agent/engine.py and context.py.  A write is a transaction under *)
(* the lock of the database, tried again while another process has it; a   *)
(* read is a statement of its own, and time passes between two of them,    *)
(* and while the model summarizes.  A message stands for its id, which     *)
(* sessions share: the rows of the table are "ours" or another session's.  *)
(***************************************************************************)
EXTENDS Naturals, Sequences, FiniteSets, SequencesExt, FiniteSetsExt

CONSTANTS
  Writers,          \* processes
  CurrentVersion,   \* of the schema
  WriteMaxRetries,  \* attempts of a write
  MaxRows,          \* bound on the messages
  MaxAnswers,       \* bound on the answers of the model
  MaxDeaths         \* bound on the processes that die

ASSUME DatabaseAssumption ==
  /\ CurrentVersion \in Nat \ {0} /\ WriteMaxRetries \in Nat \ {0}
  /\ MaxRows \in Nat /\ MaxAnswers \in Nat /\ MaxDeaths \in Nat

VARIABLES
  db,       \* what is committed
  writing,  \* the process that has the lock, as a set
  pages,    \* its transaction: what it will commit; else what is committed
  errand,      \* where each process is, with its locals
  deaths    \* history

databaseVars == <<db, writing, pages, errand, deaths>>

RowIds == 1..MaxRows
NoCheckpoint == [covered |-> 0, head |-> 0, until |-> 0, of |-> {}]
Checkpoints == [covered : 0..MaxRows, head : 0..MaxRows, until : 0..MaxRows, of : SUBSET RowIds]
NoRequest == [head |-> {}, summarized |-> {}, tail |-> {}]
Doing(at) == [at |-> at, op |-> "none", line |-> 0, tries |-> 0, seen |-> {},
             cover |-> NoCheckpoint, request |-> NoRequest]

DatabaseTypeOK ==
  /\ db.version \in 0..CurrentVersion + 1 /\ db.migrated \subseteq 1..CurrentVersion
  /\ Len(db.rows) <= MaxRows /\ db.messageCount \in 0..MaxRows
  /\ db.tokens \in 0..MaxAnswers /\ db.runTokens \in [Writers -> 0..MaxAnswers]
  /\ db.checkpoint \in Checkpoints
  /\ writing \subseteq Writers /\ Cardinality(writing) <= 1
  /\ errand \in [Writers ->
       [at : {"down", "refused", "idle", "begin", "statement", "checkpoint", "summarize", "save",
              "ask"},
        op : {"none", "migrate", "append", "record", "save"}, line : 0..CurrentVersion + 1,
        tries : 0..WriteMaxRetries, seen : SUBSET RowIds, cover : Checkpoints,
        request : [head : SUBSET RowIds, summarized : SUBSET RowIds, tail : SUBSET RowIds]]]
  /\ (writing = {} => pages = db)
  /\ deaths \in 0..MaxDeaths

\* A database of any version, and one of a later program.
DatabaseInit ==
  /\ \E schema \in 0..CurrentVersion + 1 :
       db = [version |-> schema, rows |-> <<>>, messageCount |-> 0,
             migrated |-> {v \in 1..CurrentVersion : v <= schema},
             tokens |-> 0, runTokens |-> [p \in Writers |-> 0], checkpoint |-> NoCheckpoint]
  /\ writing = {} /\ pages = db
  /\ errand = [p \in Writers |-> Doing("down")]
  /\ deaths = 0

Is(p, at) == errand[p].at = at
Becomes(p, j) == errand' = [errand EXCEPT ![p] = j]

-----------------------------------------------------------------------------
(* _execute_write() *)

Write(p, op) ==
  Becomes(p, [errand[p] EXCEPT !.at = "begin", !.op = op, !.line = 0, !.tries = 0])

\* BEGIN IMMEDIATE
BeginWrite(p) ==
  /\ Is(p, "begin") /\ writing = {}
  /\ writing' = {p} /\ pages' = db
  /\ Becomes(p, [errand[p] EXCEPT !.at = "statement"])
  /\ UNCHANGED <<db, deaths>>

\* Another process has the lock for longer than the timeout.  After the last
\* attempt the write raises: the turn is over, or the process does not start.
Busy(p) ==
  /\ Is(p, "begin") /\ writing # {}
  /\ IF errand[p].tries + 1 < WriteMaxRetries
       THEN Becomes(p, [errand[p] EXCEPT !.tries = @ + 1])
       ELSE Becomes(p, Doing(IF errand[p].op = "migrate" THEN "down" ELSE "idle"))
  /\ UNCHANGED <<db, writing, pages, deaths>>

Executes(p, after) ==
  /\ Is(p, "statement") /\ writing = {p}
  /\ pages' = after
  /\ Becomes(p, [errand[p] EXCEPT !.line = @ + 1])
  /\ UNCHANGED <<db, writing, deaths>>

\* The process goes on with what the write was for.
Then(p) ==
  CASE errand[p].cover = NoCheckpoint -> Doing("idle")
    [] errand[p].cover # NoCheckpoint /\ errand[p].op = "record" -> [errand[p] EXCEPT !.at = "save"]
    [] OTHER -> [errand[p] EXCEPT !.at = "ask", !.cover = NoCheckpoint]

Commit(p, lines) ==
  /\ Is(p, "statement") /\ errand[p].line = lines
  /\ db' = pages /\ writing' = {}
  /\ Becomes(p, Then(p))

-----------------------------------------------------------------------------
(* Opening the database: _initialize() *)

OpenDatabase(p) ==
  /\ Is(p, "down")
  /\ Write(p, "migrate")
  /\ UNCHANGED <<db, writing, pages, deaths>>

\* A database of a later program is not for this one.
RefuseNewer(p) ==
  /\ Is(p, "statement") /\ errand[p].op = "migrate" /\ db.version > CurrentVersion
  /\ writing' = {} /\ pages' = db
  /\ Becomes(p, Doing("refused"))
  /\ UNCHANGED <<db, deaths>>

\* Mutant of Migrated, which violates HistoryIsFaithful.
MigratedTo(d, v) == [d EXCEPT !.version = v]

\* A migration, with the version it leads to.
Migrated(d, v) == [d EXCEPT !.version = v, !.migrated = @ \cup {v}]

Migrate(p) ==
  /\ errand[p].op = "migrate" /\ db.version <= CurrentVersion
  /\ \/ /\ pages.version < CurrentVersion /\ errand[p].line < CurrentVersion
        /\ Executes(p, Migrated(pages, pages.version + 1))
     \/ /\ pages.version = CurrentVersion
        /\ Commit(p, errand[p].line)
        /\ UNCHANGED <<pages, deaths>>

-----------------------------------------------------------------------------
(* Messages and usage *)

\* Mutant of Counted, which violates HistoryIsFaithful.
CountedOfSeen(p, d) == [d EXCEPT !.messageCount = Cardinality(errand[p].seen) + 1]
Counted(p, d) == [d EXCEPT !.messageCount = @ + 1]

Ours(d) == {i \in DOMAIN d.rows : d.rows[i] = "ours"}

\* append()
AppendRow(p) ==
  /\ Is(p, "idle") /\ Len(db.rows) < MaxRows
  /\ Write(p, "append")
  /\ UNCHANGED <<db, writing, pages, deaths>>

AppendStatements(p) ==
  /\ errand[p].op = "append"
  /\ \/ /\ errand[p].line = 0 /\ Len(pages.rows) < MaxRows
        /\ Executes(p, [pages EXCEPT !.rows = Append(@, "ours")])
     \/ /\ errand[p].line = 1
        /\ Executes(p, Counted(p, pages))
     \/ /\ Commit(p, 2)
        /\ UNCHANGED <<pages, deaths>>

\* Another session gets a message, with the count of its own.
OtherMessage ==
  /\ writing = {} /\ db.version = CurrentVersion /\ Len(db.rows) < MaxRows
  /\ db' = [db EXCEPT !.rows = Append(@, "other")] /\ pages' = db'
  /\ UNCHANGED <<writing, errand, deaths>>

\* The model answers the request, or it does not: record_model_response()
RecordModelResponse(p) ==
  /\ Is(p, "ask") /\ db.tokens < MaxAnswers
  /\ Becomes(p, [Doing("begin") EXCEPT !.op = "record"])
  /\ UNCHANGED <<db, writing, pages, deaths>>

ModelFails(p) ==
  /\ Is(p, "ask")
  /\ Becomes(p, Doing("idle"))
  /\ UNCHANGED <<db, writing, pages, deaths>>

RecordStatements(p) ==
  /\ errand[p].op = "record"
  /\ \/ /\ errand[p].line = 0 /\ pages.tokens < MaxAnswers
        /\ Executes(p, [pages EXCEPT !.tokens = @ + 1])
     \/ /\ errand[p].line = 1
        /\ Executes(p, [pages EXCEPT !.runTokens[p] = @ + 1])
     \/ /\ Commit(p, 2)
        /\ UNCHANGED <<pages, deaths>>

-----------------------------------------------------------------------------
(* A request, and the checkpoint of its compaction *)

\* The first n of a set of ids.
First(ids, n) == {i \in ids : Cardinality({j \in ids : j <= i}) <= n}

\* snapshot()
TakeSnapshot(p) ==
  /\ Is(p, "idle")
  /\ Becomes(p, [errand[p] EXCEPT !.at = "checkpoint", !.seen = Ours(db)])
  /\ UNCHANGED <<db, writing, pages, deaths>>

\* Mutant of Materializes, which violates HistoryIsFaithful.
MaterializesAny(c, read) == c # NoCheckpoint

\* _materialize_checkpoint(): it covers what the snapshot begins with.
Materializes(c, read) ==
  /\ c # NoCheckpoint /\ c.covered <= Cardinality(read) /\ c.head <= c.covered
  /\ First(read, c.covered) = c.of

Request(read, head, summarized, covered) ==
  [head |-> First(read, head), summarized |-> summarized, tail |-> read \ First(read, covered)]

Asks(p, asks) == Becomes(p, [errand[p] EXCEPT !.at = "ask", !.request = asks])

\* load_compaction_checkpoint() and build(): all the messages, or the summary of
\* before for those it covers, or a new summary for more of them.
LoadCheckpoint(p) ==
  /\ Is(p, "checkpoint")
  /\ LET c == db.checkpoint  read == errand[p].seen IN
       \/ /\ Materializes(c, read)
          /\ Asks(p, Request(read, c.head, c.of \ First(read, c.head), c.covered))
       \/ /\ Asks(p, Request(read, 0, {}, 0))
       \/ /\ Cardinality(read) > 1
          /\ Becomes(p, [errand[p] EXCEPT !.at = "summarize"])
  /\ UNCHANGED <<db, writing, pages, deaths>>

\* The model has summarized the messages between a head and a tail, and what
\* that took is recorded first.
Summarized(p) ==
  /\ Is(p, "summarize") /\ db.tokens < MaxAnswers
  /\ \E covered \in 1..Cardinality(errand[p].seen) : \E head \in 0..covered - 1 :
       LET of == First(errand[p].seen, covered) IN
       Becomes(p, [errand[p] EXCEPT !.at = "begin", !.op = "record",
         !.request = Request(errand[p].seen, head, of \ First(errand[p].seen, head), covered),
         !.cover = [covered |-> covered, head |-> head, until |-> 0, of |-> of]])
  /\ UNCHANGED <<db, writing, pages, deaths>>

\* The summary fails: the request has everything.
SummaryFails(p) ==
  /\ Is(p, "summarize")
  /\ Asks(p, Request(errand[p].seen, 0, {}, 0))
  /\ UNCHANGED <<db, writing, pages, deaths>>

SaveCheckpoint(p) ==
  /\ Is(p, "save")
  /\ Write(p, "save")
  /\ UNCHANGED <<db, writing, pages, deaths>>

\* Mutant of Boundary, which violates HistoryIsFaithful.
BoundaryOfAll(d, covered) == covered

\* The id of the last message that is covered.
Boundary(d, covered) == Max(First(Ours(d), covered))

\* save_compaction_checkpoint(): whatever checkpoint was there gives way.
SaveStatements(p) ==
  /\ errand[p].op = "save"
  /\ \/ /\ errand[p].line = 0
        /\ Executes(p, [pages EXCEPT !.checkpoint =
             [errand[p].cover EXCEPT !.until = Boundary(pages, errand[p].cover.covered)]])
     \/ /\ Commit(p, 1)
        /\ UNCHANGED <<pages, deaths>>

\* A process dies, and the transaction it is in has never been.
Die(p) ==
  /\ errand[p].at \notin {"down", "refused"} /\ deaths < MaxDeaths
  /\ Becomes(p, Doing("down"))
  /\ writing' = writing \ {p} /\ pages' = IF writing = {p} THEN db ELSE pages
  /\ deaths' = deaths + 1
  /\ UNCHANGED db

DatabaseNext ==
  \/ OtherMessage
  \/ \E p \in Writers :
       \/ OpenDatabase(p) \/ RefuseNewer(p) \/ Migrate(p)
       \/ BeginWrite(p) \/ Busy(p)
       \/ AppendRow(p) \/ AppendStatements(p)
       \/ RecordModelResponse(p) \/ ModelFails(p) \/ RecordStatements(p)
       \/ TakeSnapshot(p) \/ LoadCheckpoint(p) \/ Summarized(p) \/ SummaryFails(p)
       \/ SaveCheckpoint(p) \/ SaveStatements(p)
       \/ Die(p)

DatabaseSpec == DatabaseInit /\ [][DatabaseNext]_databaseVars

-----------------------------------------------------------------------------
(* Properties *)

\* Whoever died or gave up in the middle of a write, a session counts the messages
\* it has, and its usage is that of its runs.
AnswersOfRuns(d) == UNION {{<<p, n>> : n \in 1..d.runTokens[p]} : p \in Writers}
CountsAgree ==
  /\ db.messageCount = Cardinality(Ours(db))
  /\ db.tokens = Cardinality(AnswersOfRuns(db))

\* A checkpoint stands for the messages its summary was made of and for no other,
\* by their number and by the id of the last, though others append meanwhile.
CheckpointIsTrue ==
  db.checkpoint # NoCheckpoint =>
    {i \in Ours(db) : i <= db.checkpoint.until} = db.checkpoint.of

\* Each message that a process has read is in its request, once, as it is or in a
\* summary, though the checkpoint may be of another process and of a later time.
RequestsAreWhole ==
  \A p \in Writers : Is(p, "ask") =>
    LET r == errand[p].request IN
    /\ r.head \cup r.summarized \cup r.tail = errand[p].seen
    /\ r.head \cap r.summarized = {} /\ r.summarized \cap r.tail = {} /\ r.head \cap r.tail = {}

\* Nobody works with a database of another version, or with half a migration.
SchemaIsCurrent ==
  /\ db.migrated = {v \in 1..CurrentVersion : v <= db.version}
  /\ \A p \in Writers : errand[p].at \in {"idle", "checkpoint", "summarize", "save", "ask"} =>
                          db.version = CurrentVersion

DatabaseIsSound == CountsAgree /\ CheckpointIsTrue /\ RequestsAreWhole /\ SchemaIsCurrent
=============================================================================
