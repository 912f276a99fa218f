--------------------------- MODULE InteractiveCli ---------------------------
(***************************************************************************)
(* The interactive session: cli/main.py _run_persistent_interactive() with *)
(* the prompt of cli/input.py, over app/conversation_service.py and the    *)
(* registry of active runs.  The thread of the prompt reads the flags of   *)
(* the session under a lock and acts on them after it, while the thread of *)
(* a turn runs it, shows its answer and passes to what waits.              *)
(***************************************************************************)
EXTENDS Naturals, FiniteSets

CONSTANTS
  Chats,      \* session ids
  FirstChat,  \* session_id, the one the program is started with
  MaxTyped    \* bound on what the user types and approves

ASSUME CliAssumption == FirstChat \in Chats /\ MaxTyped \in Nat \ {0}

VARIABLES
  turnActive,  \* active
  waiting,     \* pending_message, or 0
  leaving,     \* exit_when_idle
  chat,        \* current_session_id
  typed,       \* how many messages were typed, approvals included
  prompter,    \* what the thread of the prompt is about to do, for which message
  turn,        \* the turn of a message: its thread, its session, its token
  tokens,      \* ActiveRunRegistry: the turn of each session, or 0
  question,    \* the interaction of a session: its status
  panel,       \* _approval_pending
  onScreen,    \* _response_text: the turns whose words it holds, 0 for those steered away
  mixed,       \* history: complete_response() printed words of another turn
  closed,      \* the application has exited
  refused      \* history: ActiveRunRegistry.start() raised

cliVars == <<turnActive, waiting, leaving, chat, typed, prompter, turn, tokens, question,
             panel, onScreen, mixed, closed,
                 refused>>
flags == <<turnActive, waiting, leaving>>
screen == <<panel, onScreen, mixed, closed>>

Typing == 1..MaxTyped
MaybeTyped == 0..MaxTyped
NoTurn == [at |-> "none", chat |-> FirstChat, reason |-> "none", status |-> "none", next |-> 0,
           exits |-> FALSE]
Over == [NoTurn EXCEPT !.at = "over"]
Free == [to |-> "read", msg |-> 0]

CliTypeOK ==
  /\ turnActive \in BOOLEAN /\ waiting \in MaybeTyped /\ leaving \in BOOLEAN
  /\ chat \in Chats /\ typed \in MaybeTyped
  /\ prompter \in [to : {"read", "steer", "start", "exit", "cancel", "switch", "resolve"},
                   msg : MaybeTyped]
  /\ turn \in [Typing ->
       [at : {"none", "born", "runs", "asks", "returned", "printed", "passed", "over"},
        chat : Chats, reason : {"none", "user_steer", "user_stop", "user_exit"},
        status : {"none", "success", "awaiting_input", "superseded", "cancelled"},
        next : MaybeTyped, exits : BOOLEAN]]
  /\ tokens \in [Chats -> MaybeTyped] /\ question \in [Chats -> {"none", "pending", "resolved"}]
  /\ panel \in BOOLEAN /\ onScreen \subseteq MaybeTyped /\ mixed \in BOOLEAN
  /\ closed \in BOOLEAN /\ refused \in BOOLEAN

CliInit ==
  /\ turnActive = FALSE /\ waiting = 0 /\ leaving = FALSE /\ chat = FirstChat
  /\ typed = 0 /\ prompter = Free /\ turn = [n \in Typing |-> NoTurn]
  /\ tokens = [s \in Chats |-> 0] /\ question = [s \in Chats |-> "none"]
  /\ panel = FALSE /\ onScreen = {} /\ mixed = FALSE
  /\ closed = FALSE /\ refused = FALSE

Turns(phase) == {n \in Typing : turn[n].at = phase}
Reading == prompter.to = "read" /\ ~closed
InTurn(n) == turn[n].at \in {"runs", "asks"}

\* Mutant of StartRun, which violates TurnsStayApart.
StartRunUnchecked(n) ==
  /\ turnActive' = TRUE
  /\ turn' = [turn EXCEPT ![n].at = "born"]

\* start_run(): what comes while a turn is active is not started.
StartRun(n) ==
  /\ turnActive' = TRUE
  /\ turn' = IF turnActive THEN turn ELSE [turn EXCEPT ![n].at = "born"]

\* cancel_session(): a token is cancelled once.
CancelSession(s, reason) ==
  turn' = [n \in Typing |-> IF n = tokens[s] /\ turn[n].reason = "none"
                            THEN [turn[n] EXCEPT !.reason = reason] ELSE turn[n]]

-----------------------------------------------------------------------------
(* The thread of the prompt *)

\* submit() of a message, or /steer; the box is hidden while the panel is up.
SubmitText ==
  /\ Reading /\ ~panel /\ typed < MaxTyped
  /\ typed' = typed + 1
  /\ waiting' = (IF turnActive THEN typed + 1 ELSE waiting)
  /\ prompter' = [to |-> IF turnActive THEN "steer" ELSE "start", msg |-> typed + 1]
  /\ UNCHANGED <<turnActive, leaving, chat, turn, tokens, question, screen, refused>>

Steer ==
  /\ prompter.to = "steer" /\ CancelSession(chat, "user_steer") /\ prompter' = Free
  /\ UNCHANGED <<flags, chat, typed, tokens, question, screen, refused>>

Start ==
  /\ prompter.to = "start" /\ StartRun(prompter.msg) /\ prompter' = Free
  /\ UNCHANGED <<waiting, leaving, chat, typed, tokens, question, screen, refused>>

\* submit() of exit or /exit: it cancels the session of the start.
SubmitExit ==
  /\ Reading
  /\ leaving' = turnActive
  /\ prompter' = [to |-> IF turnActive THEN "cancel" ELSE "exit", msg |-> 0]
  /\ UNCHANGED <<turnActive, waiting, chat, typed, turn, tokens, question, screen, refused>>
CancelFirst ==
  /\ prompter.to = "cancel" /\ CancelSession(FirstChat, "user_exit") /\ prompter' = Free
  /\ UNCHANGED <<flags, chat, typed, tokens, question, screen, refused>>
Close ==
  /\ prompter.to = "exit" /\ closed' = TRUE /\ prompter' = Free
  /\ UNCHANGED <<flags, chat, typed, turn, tokens, question, panel, onScreen, mixed, refused>>

\* submit() of /new and of /resume, with what it has read of active.
SubmitSwitch ==
  /\ Reading /\ ~panel /\ ~turnActive /\ prompter' = [to |-> "switch", msg |-> 0]
  /\ UNCHANGED <<flags, chat, typed, turn, tokens, question, screen, refused>>
Switch ==
  /\ prompter.to = "switch" /\ chat' \in Chats /\ prompter' = Free
  /\ UNCHANGED <<flags, typed, turn, tokens, question, screen, refused>>

\* submit() of /stop; without a turn it denies what is asked.
Stop ==
  /\ Reading
  /\ CancelSession(chat, "user_stop")
  /\ LET idle == tokens[chat] = 0 \/ turn[tokens[chat]].reason # "none"
         answered == idle /\ question[chat] = "pending" IN
     /\ question' = [question EXCEPT ![chat] = IF answered THEN "resolved" ELSE @]
     /\ panel' = (panel /\ ~answered)
  /\ UNCHANGED <<flags, chat, typed, prompter, tokens, onScreen, mixed, closed,
                 refused>>

\* consume_approval_choice() of the panel, or /approve and /deny.
Choose ==
  /\ Reading /\ typed < MaxTyped
  /\ panel' = FALSE /\ prompter' = [to |-> "resolve", msg |-> 0]
  /\ UNCHANGED <<flags, chat, typed, turn, tokens, question, onScreen, mixed, closed,
                 refused>>

\* resolve_approval() up to start_run() of the instruction.
ResolveApproval ==
  /\ prompter.to = "resolve"
  /\ IF question[chat] = "pending"
     THEN /\ question' = [question EXCEPT ![chat] = "resolved"]
          /\ typed' = typed + 1 /\ prompter' = [to |-> "start", msg |-> typed + 1]
     ELSE prompter' = Free /\ UNCHANGED <<question, typed>>
  /\ UNCHANGED <<flags, chat, turn, tokens, screen, refused>>

-----------------------------------------------------------------------------
(* execute(), the thread of a turn *)

\* handle() up to the turn: the session is read now, a resolved interaction is
\* claimed, and a second turn of a session is refused.
Enter(n) ==
  /\ turn[n].at = "born"
  /\ question' = [question EXCEPT ![chat] = IF @ = "resolved" THEN "none" ELSE @]
  /\ IF tokens[chat] = 0
     THEN /\ turn' = [turn EXCEPT ![n].at = "runs", ![n].chat = chat]
          /\ tokens' = [tokens EXCEPT ![chat] = n] /\ UNCHANGED refused
     ELSE /\ turn' = [turn EXCEPT ![n].at = "returned"]
          /\ refused' = TRUE /\ UNCHANGED tokens
  /\ UNCHANGED <<flags, chat, typed, prompter, screen>>

\* model.delta, and the model.response of a step with tool calls.
Delta(n) ==
  /\ turn[n].at = "runs" /\ onScreen' = onScreen \cup {n}
  /\ UNCHANGED <<flags, chat, typed, prompter, turn, tokens, question, panel, mixed, closed,
                 refused>>
Transient(n) ==
  /\ turn[n].at = "runs" /\ turn[n].reason = "none" /\ onScreen' = {}
  /\ UNCHANGED <<flags, chat, typed, prompter, turn, tokens, question, panel, mixed, closed,
                 refused>>

\* A tool needs approval, after a response that is transient: the store has the
\* request before the panel shows it.
Ask(n) ==
  /\ turn[n].at = "runs" /\ question[turn[n].chat] # "resolved"
  /\ question' = [question EXCEPT ![turn[n].chat] = "pending"]
  /\ turn' = [turn EXCEPT ![n].at = "asks"] /\ onScreen' = {}
  /\ UNCHANGED <<flags, chat, typed, prompter, tokens, panel, mixed, closed,
                 refused>>
ShowPanel(n) ==
  /\ turn[n].at = "asks" /\ ~panel /\ panel' = TRUE
  /\ UNCHANGED <<flags, chat, typed, prompter, turn, tokens, question, onScreen, mixed, closed,
                 refused>>

\* The turn looks at its token and ends; the registry forgets it.
Return(n) ==
  /\ InTurn(n)
  /\ \E status \in {IF turn[n].at = "asks" THEN "awaiting_input" ELSE "success"}
                   \cup IF turn[n].reason = "none" THEN {}
                        ELSE {IF turn[n].reason = "user_steer" THEN "superseded"
                              ELSE "cancelled"} :
       turn' = [turn EXCEPT ![n].at = "returned", ![n].status = status]
  /\ tokens' = [tokens EXCEPT ![turn[n].chat] = IF @ = n THEN 0 ELSE @]
  /\ UNCHANGED <<flags, chat, typed, prompter, question, screen, refused>>

\* complete_response(), unless the turn was superseded: then its words stay on
\* the screen, before those of the turn that steered it away.
CompleteResponse(n) ==
  /\ turn[n].at = "returned"
  /\ turn' = [turn EXCEPT ![n] = [NoTurn EXCEPT !.at = "printed"]]
  /\ IF turn[n].status = "superseded"
     THEN /\ onScreen' = IF n \in onScreen THEN (onScreen \ {n}) \cup {0} ELSE onScreen
          /\ UNCHANGED mixed
     ELSE /\ mixed' = (mixed \/ (~panel /\ ~(onScreen \subseteq {n, 0})))
          /\ onScreen' = {}
  /\ UNCHANGED <<flags, chat, typed, prompter, tokens, question, panel, closed, refused>>

\* Mutant of Pass, which violates ExitEnds.
PassForgetful(n) ==
  /\ turn[n].at = "printed"
  /\ turn' = [turn EXCEPT ![n].at = "passed", ![n].next = waiting,
                          ![n].exits = leaving /\ waiting = 0]
  /\ turnActive' = FALSE /\ waiting' = 0 /\ leaving' = FALSE
  /\ UNCHANGED <<chat, typed, prompter, tokens, question, screen, refused>>

\* The last critical section of execute(), and what it decided there.
Pass(n) ==
  /\ turn[n].at = "printed"
  /\ turn' = [turn EXCEPT ![n].at = "passed", ![n].next = waiting,
                          ![n].exits = leaving /\ waiting = 0]
  /\ turnActive' = FALSE /\ waiting' = 0
  /\ UNCHANGED <<leaving, chat, typed, prompter, tokens, question, screen, refused>>

Follow(n) ==
  /\ turn[n].at = "passed" /\ turn[n].next # 0
  /\ turnActive' = TRUE
  /\ LET left == [turn EXCEPT ![n] = Over] IN
     turn' = IF turnActive THEN left ELSE [left EXCEPT ![turn[n].next].at = "born"]
  /\ UNCHANGED <<waiting, leaving, chat, typed, prompter, tokens, question, screen, refused>>
Leave(n) ==
  /\ turn[n].at = "passed" /\ turn[n].next = 0
  /\ turn' = [turn EXCEPT ![n] = Over] /\ closed' = (closed \/ turn[n].exits)
  /\ UNCHANGED <<flags, chat, typed, prompter, tokens, question, panel, onScreen, mixed, refused>>

-----------------------------------------------------------------------------
PromptStep == Steer \/ Start \/ CancelFirst \/ Close \/ Switch \/ ResolveApproval
TurnEnds(n) == Enter(n) \/ Return(n) \/ CompleteResponse(n) \/ Pass(n) \/ Follow(n) \/ Leave(n)
UserStep == SubmitText \/ SubmitExit \/ SubmitSwitch \/ Stop \/ Choose

\* The program ends when the application has exited.
CliNext ==
  ~closed /\ (UserStep \/ PromptStep \/ \E n \in Typing :
    TurnEnds(n) \/ Delta(n) \/ Transient(n) \/ Ask(n) \/ ShowPanel(n))

CliSpec == CliInit /\ [][CliNext]_cliVars

\* The prompt's thread and a turn's go on: a request to the model ends, by an
\* answer, an error or a timeout.  The user need do nothing.
CliFairness ==
  /\ WF_cliVars(~closed /\ PromptStep)
  /\ \A n \in Typing : WF_cliVars(~closed /\ TurnEnds(n))

-----------------------------------------------------------------------------
(* Properties *)

\* The threads that follow each other never run two turns at once: the check of
\* the registry, which ends a message with "session already has an active run",
\* is never met.
OneTurnAtATime ==
  ~refused /\ Cardinality(Turns("born") \cup Turns("runs") \cup Turns("asks")
                          \cup Turns("returned") \cup Turns("printed")) <= 1

\* The answer that is printed after a turn is its own, with what the user has
\* read of the turns that were steered away for it.
AnswerIsItsOwn == ~mixed

\* Turns that are typed, steered, approved and left in any order stay apart, at
\* the registry and on the screen.
TurnsStayApart == OneTurnAtATime /\ AnswerIsItsOwn

\* The program ends after exit was typed during a turn, whatever else is typed.
ExitEnds == leaving ~> closed
=============================================================================
