---------------------------- MODULE SessionRecall ----------------------------
(***************************************************************************)
(* What a turn may remember of other sessions (tools/session_search_tool.py *)
(* over runtime/sessions/sqlite.py): it matches messages, walks their       *)
(* lineages, and reads a window around each.  Every SELECT is a transaction *)
(* of its own, and turns of other threads and processes append in between.  *)
(***************************************************************************)
EXTENDS Naturals, Sequences, FiniteSets, SequencesExt, FiniteSetsExt

CONSTANTS
  Sessions,    \* the sessions of the database
  Delegated,   \* those that a subagent was started with
  Users,       \* who they belong to
  NoSession,   \* no parent, nothing excluded
  MatchLimit,  \* how many matching messages are read, best first
  ReadLimit,   \* how many messages read_session() gives
  Window,      \* how many messages around the one that matched
  MaxStored    \* bound on the messages

ASSUME RecallAssumption ==
  /\ Delegated \subseteq Sessions /\ Delegated # Sessions /\ NoSession \notin Sessions
  /\ MatchLimit \in Nat \ {0} /\ ReadLimit \in Nat \ {0} /\ Window \in Nat /\ MaxStored \in Nat

VARIABLES
  sessions,  \* the rows of the table sessions
  stored,    \* the rows of the table messages, by id, and if the query matches them
  recall     \* the search under way

recallVars == <<sessions, stored, recall>>

MessageIds == 1..Len(stored)
OfSession(session) == {id \in MessageIds : stored[id].session = session}

View(session, shown, before, after) ==
  [session |-> session, shown |-> shown, before |-> before, after |-> after]
NoRecall ==
  [phase |-> "idle", asker |-> NoSession, prior |-> TRUE, asked |-> 0, excluded |-> NoSession,
   rows |-> <<>>, view |-> {}, views |-> <<>>]

RecallTypeOK ==
  /\ sessions \in [Sessions -> [user : Users, parent : Sessions \cup {NoSession}]]
  /\ stored \in Seq([session : Sessions, matches : BOOLEAN]) /\ Len(stored) <= MaxStored
  /\ recall.phase \in {"idle", "matched", "walk", "taken", "before", "after", "found", "total",
                       "done"}
  /\ recall.rows \in Seq(MessageIds) /\ recall.view \subseteq MessageIds
  /\ \A k \in DOMAIN recall.views :
       recall.views[k] \in [session : Sessions, shown : SUBSET MessageIds,
                             before : Nat, after : Nat]

\* load(): a session is stored with its owner and, a subagent's, with its parent.
RecallInit ==
  /\ sessions \in [Sessions -> [user : Users, parent : (Sessions \ Delegated) \cup {NoSession}]]
  /\ \A session \in Sessions :
       LET parent == sessions[session].parent IN
       /\ (parent # NoSession) = (session \in Delegated)
       /\ parent # NoSession => sessions[parent].user = sessions[session].user
  /\ stored = <<>> /\ recall = NoRecall

IsSubagent(session) == sessions[session].parent # NoSession

-----------------------------------------------------------------------------
(* The turns *)

AppendMessage ==
  /\ Len(stored) < MaxStored
  /\ \E session \in Sessions, matches \in BOOLEAN :
       stored' = Append(stored, [session |-> session, matches |-> matches])
  /\ UNCHANGED <<sessions, recall>>

\* start_run() writes who runs the session now: the command line, when its user
\* resumes a subagent's.
ResumeDelegated ==
  /\ \E session \in Delegated : sessions' = [sessions EXCEPT ![session].parent = NoSession]
  /\ sessions' # sessions /\ UNCHANGED <<stored, recall>>

-----------------------------------------------------------------------------
(* The reads *)

LineageRoot(session) ==
  IF IsSubagent(session) THEN sessions[session].parent ELSE session

FirstOf(ids, n) == {id \in ids : Cardinality({other \in ids : other < id}) < n}
LastOf(ids, n) == {id \in ids : Cardinality({other \in ids : other > id}) < n}

\* The user's own messages, the newest and best first, of one session or of all.
Matched(asker, prior) ==
  {id \in MessageIds :
     LET session == stored[id].session IN
     /\ stored[id].matches /\ ~IsSubagent(session)
     /\ sessions[session].user = sessions[asker].user
     /\ prior \/ session = asker}

\* session_search with a query: every ranking of the matches may be the database's.
SearchSessions ==
  /\ recall = NoRecall
  /\ \E asker \in Sessions, prior \in BOOLEAN :
       \E ranked \in SetToSeqs(Matched(asker, prior)) :
         recall' = [recall EXCEPT !.phase = "matched", !.asker = asker, !.prior = prior,
                      !.asked = Len(stored),
                      !.rows = SubSeq(ranked, 1, Min({MatchLimit, Len(ranked)}))]
  /\ UNCHANGED <<sessions, stored>>

ExcludeOwn ==
  /\ recall.phase = "matched"
  /\ recall' = [recall EXCEPT !.phase = "walk",
                  !.excluded = IF recall.prior THEN LineageRoot(recall.asker) ELSE NoSession]
  /\ UNCHANGED <<sessions, stored>>

Row == Head(recall.rows)

\* The lineage that a result was taken for: its session's own, as no row is of a subagent.
Seen == {recall.views[k].session : k \in DOMAIN recall.views}

\* Mutant of Taken, which violates RecallIsWhole.
TakenTwice == LineageRoot(stored[Row].session) # recall.excluded

Taken == LineageRoot(stored[Row].session) \notin Seen \cup {recall.excluded}

WalkRow ==
  /\ recall.phase = "walk"
  /\ recall' = IF recall.rows = <<>> THEN [recall EXCEPT !.phase = "done"]
               ELSE IF Taken THEN [recall EXCEPT !.phase = "taken"]
               ELSE [recall EXCEPT !.rows = Tail(@)]
  /\ UNCHANGED <<sessions, stored>>

\* _recallable_session() of a session that the model names.
Recallable(asker, prior, session) ==
  /\ sessions[session].user = sessions[asker].user /\ ~IsSubagent(session)
  /\ prior => LineageRoot(session) # LineageRoot(asker)

\* session_search around a message, or from the beginning of a session.
RecallAround ==
  /\ recall = NoRecall
  /\ \E asker \in Sessions, prior \in BOOLEAN, id \in MessageIds :
       /\ Recallable(asker, prior, stored[id].session)
       /\ prior \/ stored[id].session = asker
       /\ recall' = [recall EXCEPT !.phase = "taken", !.asker = asker, !.prior = prior,
                       !.asked = Len(stored), !.rows = <<id>>]
  /\ UNCHANGED <<sessions, stored>>

ReadSession ==
  /\ recall = NoRecall
  /\ \E asker \in Sessions, prior \in BOOLEAN, session \in Sessions :
       /\ Recallable(asker, prior, session) /\ (prior \/ session = asker)
       /\ recall' = [recall EXCEPT !.phase = "found", !.asker = asker, !.prior = prior,
                       !.asked = Len(stored), !.views = <<View(session, {}, 0, 0)>>]
  /\ UNCHANGED <<sessions, stored>>

\* read_session() counts the messages, then reads the first of them.
CountSession ==
  /\ recall.phase = "found"
  /\ recall' = [recall EXCEPT !.phase = "total",
                  !.views[1].after = Cardinality(OfSession(recall.views[1].session))]
  /\ UNCHANGED <<sessions, stored>>
ReadRows ==
  /\ recall.phase = "total"
  /\ LET shown == FirstOf(OfSession(recall.views[1].session), ReadLimit) IN
     recall' = [recall EXCEPT !.phase = "done", !.views[1].shown = shown,
                  !.views[1].after = Max({0, @ - Cardinality(shown)})]
  /\ UNCHANGED <<sessions, stored>>

\* The window of a result: what is before its message, what is after, what is left.
Neighbours == OfSession(stored[Row].session)
ReadBefore ==
  /\ recall.phase = "taken"
  /\ recall' = [recall EXCEPT !.phase = "before",
                  !.view = LastOf({id \in Neighbours : id <= Row}, Window + 1)]
  /\ UNCHANGED <<sessions, stored>>
ReadAfter ==
  /\ recall.phase = "before"
  /\ recall' = [recall EXCEPT !.phase = "after",
                  !.view = @ \cup FirstOf({id \in Neighbours : id > Row}, Window)]
  /\ UNCHANGED <<sessions, stored>>

\* _message_counts() of what the window left out, by its first and last message.
Counts(ids, shown) ==
  View(stored[Row].session, shown, Cardinality({id \in ids : id < Min(shown)}),
       Cardinality({id \in ids : id > Max(shown)}))
CountRest ==
  /\ recall.phase = "after"
  /\ recall' = [recall EXCEPT !.phase = "walk", !.rows = Tail(@), !.view = {},
                  !.views = Append(@, Counts(Neighbours, recall.view))]
  /\ UNCHANGED <<sessions, stored>>

RecallNext ==
  \/ AppendMessage \/ ResumeDelegated \/ SearchSessions \/ ExcludeOwn \/ WalkRow \/ RecallAround
  \/ ReadSession \/ CountSession \/ ReadRows \/ ReadBefore \/ ReadAfter \/ CountRest

RecallSpec == RecallInit /\ [][RecallNext]_recallVars

-----------------------------------------------------------------------------
(* Properties *)

\* What a session is shown of others is its user's, of other lineages than its
\* own, each lineage once; a window has no gap; and what is neither shown nor
\* said to be left out was not there when it was asked for.
RecallIsWhole ==
  /\ \A k \in DOMAIN recall.views :
       LET view == recall.views[k]
           own == OfSession(view.session)
       IN
       /\ recall.prior => LineageRoot(view.session) # LineageRoot(recall.asker)
       /\ \A other \in 1..(k - 1) : recall.views[other].session # view.session
       /\ \A id \in own :
            view.shown # {} /\ id > Min(view.shown) /\ id < Max(view.shown) => id \in view.shown
       /\ recall.phase \notin {"found", "total"} =>
            Cardinality({id \in own : id <= recall.asked})
              <= view.before + Cardinality(view.shown) + view.after
=============================================================================
