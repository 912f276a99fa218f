--------------------------- MODULE ToolApprovals ---------------------------
(***************************************************************************)
(* Who lets a tool call run: the policy (runtime/tools/policy.py with      *)
(* bash_command.py), the providers of approval (approval.py) and, for the  *)
(* sessions, the pending interactions of runtime/tools/interactions.py: a  *)
(* request waits in a file, the user answers it from another thread, and   *)
(* a later turn of the session claims the answer and resumes the call.     *)
(* Each operation on the file is one critical section of its process.      *)
(***************************************************************************)
EXTENDS Naturals, Sequences, SequencesExt, FiniteSetsExt

CONSTANTS
  Talks,        \* session ids
  Requests,     \* tool calls: a tool, and the commands of a bash call
  Clarify,      \* the request of the ask_user tool
  HostTools,    \* HostYoloApprovalProvider._HOST_TOOLS
  MaxRequests,  \* bound on the interactions
  MaxTurns,     \* bound on the turns of each session
  MaxTurnsInAll,
  MaxApprovalCrashes

ASSUME ApprovalAssumption ==
  /\ Requests \subseteq [tool : STRING, background : BOOLEAN,
                         syntax : {"plain", "joined", "dynamic"},
                         words : Seq({"reads", "changes", "forbidden"})]
  /\ Clarify \notin Requests
  /\ MaxRequests \in Nat /\ MaxTurns \in [Talks -> Nat]
  /\ MaxTurnsInAll \in Nat /\ MaxApprovalCrashes \in Nat

VARIABLES
  provider,      \* the approval provider of the process
  interactions,  \* the interactions of the file, in its order
  talk,          \* the turn of each session: where it is, with its locals
  turnsRun,      \* how many turns a session had; one is its run, unless it resumes
  spent,         \* history: of each interaction, its session, its answer, its calls
  excused,       \* history: the requests that ran without an interaction
  approvalCrashes

approvalVars == <<provider, interactions, talk, turnsRun, spent, excused, approvalCrashes>>

Ids == 1..MaxRequests
Runs == UNION {1..MaxTurns[s] : s \in Talks}
NoCall == 0
InteractionRecords == [id : Ids, session : Talks, asks : Requests \cup {Clarify},
                 status : {"pending", "approved", "denied", "granted"},
                 lasting : BOOLEAN,      \* approval_scope is "session"
                 claimed : BOOLEAN,      \* resume_claimed
                 run : Runs, call : Runs \cup {NoCall},  \* of its request; of its tool call
                 old : BOOLEAN]          \* past the ttl
Nothing == [id |-> 0, lasting |-> FALSE]
Quiet == [at |-> "idle", run |-> 0, resumes |-> Nothing, asked |-> 0, wants |-> Clarify]

ApprovalTypeOK ==
  /\ provider \in {"deferred", "deny", "yolo", "console"}
  /\ interactions \in Seq(InteractionRecords) /\ Len(interactions) <= MaxRequests
  /\ talk \in [Talks ->
       [at : {"idle", "reply", "claim", "resume", "run", "create", "attach", "complete"},
        run : Runs \cup {0}, resumes : InteractionRecords \cup {Nothing}, asked : Ids \cup {0},
        wants : Requests \cup {Clarify}]]
  /\ turnsRun \in [Talks -> Runs \cup {0}]
  /\ spent \in Seq([home : Talks, answer : {"none", "once", "session", "denied"},
                    resumed : 0..2, reused : 0..2, by : SUBSET Talks])
  /\ excused \subseteq Requests /\ approvalCrashes \in 0..MaxApprovalCrashes

ApprovalInit ==
  /\ provider \in {"deferred", "deny", "yolo", "console"}
  /\ interactions = <<>> /\ talk = [s \in Talks |-> Quiet] /\ turnsRun = [s \in Talks |-> 0]
  /\ spent = <<>> /\ excused = {} /\ approvalCrashes = 0

-----------------------------------------------------------------------------
(* The policy *)

\* The members of a sequence that are wanted, in their order.
Only(wanted, items) ==
  LET kept[n \in 0..Len(items)] ==
        IF n = 0 THEN <<>>
        ELSE IF items[n] \in wanted THEN Append(kept[n - 1], items[n]) ELSE kept[n - 1]
  IN kept[Len(items)]

\* Mutant of Assess, which violates CallsAreHandled.
AssessFirst(r) ==
  IF r.background \/ r.syntax = "dynamic" THEN "ask"
  ELSE IF r.words[1] = "reads" THEN "allow" ELSE "ask"

\* assess_bash_command(): the first command that is not known to read decides.
\* The syntax is "dynamic" with a substitution, or where a redirection or the
\* background has a sign of its own, or if it does not parse.  It is "joined" if
\* each sign of a redirection is joined with another sign: such a token is none of
\* those the code looks for, so it is one more argument of its command.
Assess(r) ==
  LET suspect == Only({"changes", "forbidden"}, r.words) IN
  IF r.words = <<>> THEN "deny"
  ELSE IF r.background \/ r.syntax = "dynamic" THEN "ask"
  ELSE IF suspect = <<>> THEN "allow"
  ELSE IF Head(suspect) = "forbidden" THEN "deny" ELSE "ask"

\* BashCommandPolicy, with the sensitive tools as its fallback.
DecideApproval(r) == IF r.tool = "bash" THEN Assess(r) ELSE "ask"

-----------------------------------------------------------------------------
(* JsonPendingInteractionStore *)

Active(items) == Only({item \in Range(items) : ~item.old}, items)
\* Those of a session that are in one of some statuses; those that wait for the user.
Of(s, statuses, items) ==
  Only({item \in Range(items) : item.session = s /\ item.status \in statuses}, items)
PendingFor(s) == Of(s, {"pending"}, Active(interactions))

\* An interaction that is changed goes to the end; what is past the ttl goes.
Without(i) == Only({item \in Range(interactions) : ~item.old /\ item.id # i}, interactions)
Replaced(item) == Append(Without(item.id), item)

\* create(): an equal request that is pending is used again, whatever its run.
\* A clarification has its tool name and arguments once it is attached only.
Same(s, r) ==
  Only({item \in Range(interactions) : item.asks = r /\ (r = Clarify => item.call = NoCall)},
       PendingFor(s))
Create(s, r) ==
  LET same == Same(s, r)
      id == IF same # <<>> THEN Head(same).id ELSE Len(spent) + 1 IN
  /\ id <= MaxRequests
  /\ talk' = [talk EXCEPT ![s].at = "attach", ![s].wants = Clarify, ![s].asked = id]
  /\ IF same # <<>> THEN UNCHANGED <<interactions, spent>>
     ELSE /\ interactions' = Append(Active(interactions),
               [id |-> id, session |-> s, asks |-> r, status |-> "pending",
                lasting |-> FALSE, claimed |-> FALSE, run |-> talk[s].run,
                call |-> NoCall, old |-> FALSE])
          /\ spent' = Append(spent, [home |-> s, answer |-> "none", resumed |-> 0,
                                     reused |-> 0, by |-> {}])

Twice(n) == IF n = 2 THEN 2 ELSE n + 1  \* counts up to 2

\* Mutant of Consume, which violates CallsAreHandled.
ConsumeForever(s, item) == UNCHANGED interactions

\* consume_approval(): one that lasts is kept, the others are removed.
Consume(s, item) ==
  interactions' = IF item.lasting THEN Replaced([item EXCEPT !.status = "granted"])
                             ELSE Without(item.id)

Consumable(s, r) ==
  Only({item \in Range(interactions) : item.asks = r},
       Of(s, {"approved", "granted"}, Active(interactions)))

-----------------------------------------------------------------------------
(* The user and the clock *)

\* resolve_interaction(): the first that is pending in the session, of whatever
\* kind, is answered.
Resolve(s, answer) ==
  LET fresh == {item \in Range(interactions) : ~(item.old /\ item.session = s)} IN
  /\ provider = "deferred"
  /\ IF PendingFor(s) = <<>> THEN interactions' = Only(fresh, interactions) /\ UNCHANGED spent
     ELSE /\ interactions' = Replaced([Head(PendingFor(s)) EXCEPT
                 !.status = IF answer = "denied" THEN "denied" ELSE "approved",
                 !.lasting = (answer = "session")])
          /\ spent' = [spent EXCEPT ![Head(PendingFor(s)).id].answer = answer]
  /\ UNCHANGED <<provider, talk, turnsRun, excused, approvalCrashes>>

GetOld(k) ==
  /\ interactions' = [interactions EXCEPT ![k].old = TRUE] /\ interactions' # interactions
  /\ UNCHANGED <<provider, talk, turnsRun, spent, excused, approvalCrashes>>

-----------------------------------------------------------------------------
(* A turn: ConversationService.handle() *)

Step(s, to) == talk' = [talk EXCEPT ![s].at = to]

\* What is past the ttl expires, then get_pending() looks for a clarification,
\* which the message answers.
TurnsInAll == MapThenSumSet(LAMBDA other : turnsRun[other], Talks)
BeginTurn(s) ==
  LET answers == PendingFor(s) # <<>> /\ Head(PendingFor(s)).asks = Clarify IN
  /\ talk[s].at = "idle" /\ turnsRun[s] < MaxTurns[s] /\ TurnsInAll < MaxTurnsInAll
  /\ turnsRun' = [turnsRun EXCEPT ![s] = @ + 1]
  /\ talk' = [talk EXCEPT ![s].at = IF answers THEN "reply" ELSE "claim",
                          ![s].run = turnsRun[s] + 1]
  /\ interactions' = Active(interactions)
  /\ UNCHANGED <<provider, spent, excused, approvalCrashes>>
ResolveClarification(s) ==
  LET waits == Only({item \in Range(interactions) : item.asks = Clarify}, PendingFor(s)) IN
  /\ talk[s].at = "reply" /\ Step(s, "claim")
  /\ interactions' = IF waits = <<>> THEN interactions
                ELSE Replaced([Head(waits) EXCEPT !.status = "approved"])
  /\ spent' = IF waits = <<>> THEN spent
              ELSE [spent EXCEPT ![Head(waits).id].answer = "once"]
  /\ UNCHANGED <<provider, turnsRun, excused, approvalCrashes>>

\* Mutant of Claimable, which violates CallsAreHandled.
ClaimableAgain(s) == Of(s, {"approved", "denied"}, Active(interactions))

Claimable(s) ==
  Only({item \in Range(interactions) : ~item.claimed},
       Of(s, {"approved", "denied"}, Active(interactions)))

\* claim_resolved(): the turn is that of the run that asked, or of a new one.
ClaimResolved(s) ==
  LET claims == Claimable(s) IN
  /\ talk[s].at = "claim"
  /\ IF claims = <<>>
     THEN Step(s, "run") /\ UNCHANGED interactions
     ELSE /\ talk' = [talk EXCEPT ![s].at = "resume", ![s].run = Head(claims).run,
                                  ![s].resumes = Head(claims)]
          /\ interactions' = Replaced([Head(claims) EXCEPT !.claimed = TRUE])
  /\ UNCHANGED <<provider, turnsRun, spent, excused, approvalCrashes>>

\* _resume_turn_interaction() of the turn's own copy: without the call of its
\* run it raises.  dispatch_approved() asks for no approval.
DispatchApproved(s, item) ==
  spent' = IF item.asks = Clarify \/ item.status = "denied" THEN spent
           ELSE [spent EXCEPT ![item.id].resumed = Twice(@), ![item.id].by = @ \cup {s}]
ResumeInteraction(s) ==
  /\ talk[s].at = "resume"
  /\ IF talk[s].resumes.call # talk[s].resumes.run
     THEN talk' = [talk EXCEPT ![s] = Quiet] /\ UNCHANGED spent
     ELSE Step(s, "run") /\ DispatchApproved(s, talk[s].resumes)
  /\ UNCHANGED <<provider, interactions, turnsRun, excused, approvalCrashes>>

\* execute() of a call that the policy allows, and of one that it asks about.
Excuse(s, r) ==
  /\ excused' = excused \cup {r}
  /\ UNCHANGED <<provider, interactions, talk, turnsRun, spent, approvalCrashes>>
RunAllowed(s, r) == talk[s].at = "run" /\ DecideApproval(r) = "allow" /\ Excuse(s, r)

\* HostYoloApprovalProvider, and CliApprovalProvider, whose user is asked now.
ApproveAtOnce(s, r) ==
  /\ talk[s].at = "run" /\ DecideApproval(r) = "ask"
  /\ \/ provider = "yolo" /\ r.tool \in HostTools
     \/ provider = "console"
  /\ Excuse(s, r)

\* DeferredApprovalProvider.request_approval(), in two critical sections.
RequestApproval(s, r) ==
  /\ talk[s].at = "run" /\ DecideApproval(r) = "ask" /\ provider = "deferred"
  /\ IF Consumable(s, r) = <<>>
     THEN /\ talk' = [talk EXCEPT ![s].at = "create", ![s].wants = r]
          /\ UNCHANGED <<interactions, spent>>
     ELSE LET item == Head(Consumable(s, r)) IN
          /\ Consume(s, item)
          /\ spent' = [spent EXCEPT ![item.id].reused = Twice(@), ![item.id].by = @ \cup {s}]
          /\ UNCHANGED talk
  /\ UNCHANGED <<provider, turnsRun, excused, approvalCrashes>>
CreateRequest(s) ==
  /\ talk[s].at = "create" /\ Create(s, talk[s].wants)
  /\ UNCHANGED <<provider, turnsRun, excused, approvalCrashes>>
AskUser(s) ==
  /\ talk[s].at = "run" /\ provider = "deferred" /\ Create(s, Clarify)
  /\ UNCHANGED <<provider, turnsRun, excused, approvalCrashes>>

\* attach_tool_call() of the call that waits, when the turn has ended.
AttachCall(s) ==
  LET called == Only({item \in Range(interactions) : item.id = talk[s].asked},
                     Active(interactions)) IN
  /\ talk[s].at = "attach" /\ talk' = [talk EXCEPT ![s].at = "complete", ![s].asked = 0]
  /\ interactions' = IF called = <<>> THEN interactions
                ELSE Replaced([Head(called) EXCEPT !.call = talk[s].run])
  /\ UNCHANGED <<provider, turnsRun, spent, excused, approvalCrashes>>

\* The turn is over, waiting or not: complete() of what was resumed; an approval
\* for the session stays.
CompleteTurn(s) ==
  LET item == talk[s].resumes
      remains == \E other \in Range(Active(interactions)) : other.id = item.id IN
  /\ talk[s].at \in {"run", "complete"} /\ talk' = [talk EXCEPT ![s] = Quiet]
  /\ interactions' = IF remains /\ ~item.lasting THEN Without(item.id) ELSE interactions
  /\ UNCHANGED <<provider, turnsRun, spent, excused, approvalCrashes>>

ApprovalCrash ==
  /\ approvalCrashes < MaxApprovalCrashes /\ approvalCrashes' = approvalCrashes + 1
  /\ talk' = [s \in Talks |-> Quiet] /\ talk' # talk
  /\ UNCHANGED <<provider, interactions, turnsRun, spent, excused>>

ApprovalNext ==
  \/ \E s \in Talks :
       \/ BeginTurn(s) \/ ResolveClarification(s) \/ ClaimResolved(s)
       \/ ResumeInteraction(s) \/ CreateRequest(s) \/ AskUser(s) \/ AttachCall(s)
       \/ CompleteTurn(s)
       \/ \E r \in Requests : RunAllowed(s, r) \/ ApproveAtOnce(s, r) \/ RequestApproval(s, r)
       \/ \E answer \in {"once", "session", "denied"} : Resolve(s, answer)
  \/ \E k \in DOMAIN interactions : GetOld(k)
  \/ ApprovalCrash

ApprovalSpec == ApprovalInit /\ [][ApprovalNext]_approvalVars

-----------------------------------------------------------------------------
(* Properties *)

\* An answer of the user lets calls of its own session run: none if it was a
\* denial or is missing, and for one that does not last the call that waited
\* and, while that one's turn goes on, at most one equal call more.  No second
\* turn, expiry, crash or repeated request makes it count again.
ApprovalsAreSpent ==
  \A i \in DOMAIN spent :
    /\ spent[i].by \subseteq {spent[i].home}
    /\ spent[i].resumed <= 1
    /\ spent[i].answer # "session" => spent[i].reused <= 1
    /\ spent[i].answer \in {"none", "denied"} => spent[i].resumed + spent[i].reused = 0

\* Without a request to the user a call runs if each of its commands is one that
\* only reads, or where the user has given the tools of the host away or sits at the
\* console.  What such a command prints may still go to a file: a redirection
\* with a sign of its own makes the policy ask, one whose sign is joined with another
\* does not, although docs/permissions.md:11-12 says that side effects and uncertain
\* structure do.
OnlyConsentedRun ==
  \A r \in excused :
    \/ r.tool = "bash" /\ r.syntax # "dynamic" /\ ~r.background /\ Range(r.words) = {"reads"}
    \/ provider = "yolo" /\ r.tool \in HostTools
    \/ provider = "console"

\* Calls run as the user has allowed them to: the two properties above.
CallsAreConsented == ApprovalsAreSpent /\ OnlyConsentedRun
=============================================================================
