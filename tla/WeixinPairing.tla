---------------------------- MODULE WeixinPairing ----------------------------
(***************************************************************************)
(* The pairing of Weixin users (gateway/weixin/pairing.py): one JSON file  *)
(* that the polling thread of the gateway and a command of the operator    *)
(* read and write as a whole, without a lock between them.  write_text()   *)
(* empties the file before it writes, and who reads it then takes it for a *)
(* file in which nobody is paired.                                         *)
(***************************************************************************)
EXTENDS Naturals, FiniteSets, Functions

CONSTANTS
  Strangers,              \* the users who write to the gateway
  PairingCodes,         \* the codes that _new_code() gives
  MaxPairingCrashes     \* bound on the ends of a process

ASSUME PairingAssumption == MaxPairingCrashes \in Nat

VARIABLES
  pairing,     \* pairing.json
  rewriting,   \* what the gateway and the operator are at, with what they have read
  toldCodes,   \* history: the codes that users were told
  confirmed,   \* history: the users that the operator was told are approved
  disturbed,   \* history: a file was read that another was about to write, or was
               \* left empty
  pairingCrashes

pairingVars == <<pairing, rewriting, toldCodes, confirmed, disturbed, pairingCrashes>>

Rewriters == {"gateway", "operator"}
NoPairing == [pending |-> [c \in {} |-> "nobody"], approved |-> {}, torn |-> FALSE]
AtRest == [at |-> "none", data |-> NoPairing, user |-> "nobody", code |-> "none"]
NoOne == "nobody"

PairingFile == [pending : UNION {[some -> Strangers] : some \in SUBSET PairingCodes},
                approved : SUBSET Strangers, torn : BOOLEAN]
PairingTypeOK ==
  /\ pairing \in PairingFile
  /\ rewriting \in [Rewriters -> [at : {"none", "stranger", "writes", "emptied", "tells"},
       data : PairingFile, user : Strangers \cup {NoOne}, code : PairingCodes \cup {"none"}]]
  /\ toldCodes \subseteq Strangers \X PairingCodes /\ confirmed \subseteq Strangers
  /\ disturbed \in BOOLEAN /\ pairingCrashes \in 0..MaxPairingCrashes

PairingInit ==
  /\ pairing = NoPairing /\ rewriting = [w \in Rewriters |-> AtRest]
  /\ toldCodes = {} /\ confirmed = {} /\ disturbed = FALSE /\ pairingCrashes = 0

-----------------------------------------------------------------------------
\* _load()
Loaded == IF pairing.torn THEN NoPairing ELSE pairing

CodesOf(u, data) == {c \in DOMAIN data.pending : data.pending[c] = u}

\* Whoever reads in order to write meets nobody who has read and not yet written.
Disturbs(w) == pairing.torn \/ \E v \in Rewriters \ {w} : rewriting[v].at \in {"writes", "emptied"}

\* _is_allowed(): an approved user's message goes on.
MeetStranger ==
  /\ rewriting["gateway"].at = "none"
  /\ \E u \in Strangers \ Loaded.approved :
       rewriting' = [rewriting EXCEPT !["gateway"] = [AtRest EXCEPT !.at = "stranger", !.user = u]]
  /\ UNCHANGED <<pairing, toldCodes, confirmed, disturbed, pairingCrashes>>

\* Mutant of KnownCodes, which violates GatewayIsHonest.
NoKnownCodes(u, data) == {}

KnownCodes(u, data) == CodesOf(u, data)

\* request_code(): the code that is pending for the user, or a new one.
RequestCode ==
  LET g == rewriting["gateway"]
      to(at, code, data) == [g EXCEPT !.at = at, !.code = code, !.data = data]
      known == KnownCodes(g.user, Loaded) IN
  /\ g.at = "stranger"
  /\ IF known # {}
     THEN /\ rewriting' = [rewriting EXCEPT !["gateway"] =
                             to("tells", CHOOSE c \in known : TRUE, NoPairing)]
          /\ UNCHANGED disturbed
     ELSE /\ \E c \in PairingCodes \ DOMAIN Loaded.pending :
               rewriting' = [rewriting EXCEPT !["gateway"] = to("writes", c,
                 [Loaded EXCEPT !.pending =
                    [d \in DOMAIN @ \cup {c} |-> IF d = c THEN g.user ELSE @[d]]])]
          /\ disturbed' = (disturbed \/ Disturbs("gateway"))
  /\ UNCHANGED <<pairing, toldCodes, confirmed, pairingCrashes>>

\* Mutant of Approved, which violates GatewayIsHonest.
ApprovedAlone(data, u) == {u}

Approved(data, u) == data.approved \cup {u}

\* approve(), of a code that is pending in what it reads.
Approve ==
  /\ rewriting["operator"].at = "none"
  /\ \E c \in DOMAIN Loaded.pending :
       LET u == Loaded.pending[c] IN
       rewriting' = [rewriting EXCEPT !["operator"] =
         [at |-> "writes", user |-> u, code |-> c,
          data |-> [Loaded EXCEPT !.pending = Restrict(@, DOMAIN @ \ {c}),
                                  !.approved = Approved(Loaded, u)]]]
  /\ disturbed' = (disturbed \/ Disturbs("operator"))
  /\ UNCHANGED <<pairing, toldCodes, confirmed, pairingCrashes>>

\* _save(), in the two steps of write_text().
EmptyFile(w) ==
  /\ rewriting[w].at = "writes" /\ pairing' = [pairing EXCEPT !.torn = TRUE]
  /\ rewriting' = [rewriting EXCEPT ![w].at = "emptied"]
  /\ UNCHANGED <<toldCodes, confirmed, disturbed, pairingCrashes>>
FillFile(w) ==
  /\ rewriting[w].at = "emptied" /\ pairing' = [rewriting[w].data EXCEPT !.torn = FALSE]
  /\ rewriting' = [rewriting EXCEPT ![w].at = "tells"]
  /\ UNCHANGED <<toldCodes, confirmed, disturbed, pairingCrashes>>

\* The user is sent the code.
TellCode ==
  LET g == rewriting["gateway"] IN
  /\ g.at = "tells" /\ rewriting' = [rewriting EXCEPT !["gateway"] = AtRest]
  /\ toldCodes' = toldCodes \cup {<<g.user, g.code>>}
  /\ UNCHANGED <<pairing, confirmed, disturbed, pairingCrashes>>

\* The operator reads whom he has approved.
TellApproved ==
  LET o == rewriting["operator"] IN
  /\ o.at = "tells" /\ rewriting' = [rewriting EXCEPT !["operator"] = AtRest]
  /\ confirmed' = confirmed \cup {o.user}
  /\ UNCHANGED <<pairing, toldCodes, disturbed, pairingCrashes>>

\* The end of a process, which leaves the file empty if it was writing.
PairingCrash(w) ==
  /\ rewriting[w].at # "none" /\ pairingCrashes < MaxPairingCrashes
  /\ rewriting' = [rewriting EXCEPT ![w] = AtRest]
  /\ disturbed' = (disturbed \/ rewriting[w].at = "emptied")
  /\ pairingCrashes' = pairingCrashes + 1
  /\ UNCHANGED <<pairing, toldCodes, confirmed>>

PairingNext ==
  \/ MeetStranger \/ RequestCode \/ TellCode \/ Approve \/ TellApproved
  \/ \E w \in Rewriters : EmptyFile(w) \/ FillFile(w) \/ PairingCrash(w)

PairingSpec == PairingInit /\ [][PairingNext]_pairingVars

-----------------------------------------------------------------------------
\* What the file will be when the write of the moment is done.
SettledPairing ==
  IF \E w \in Rewriters : rewriting[w].at = "emptied"
  THEN rewriting[CHOOSE w \in Rewriters : rewriting[w].at = "emptied"].data ELSE pairing

\* As long as no rewriting met another, and none was cut in two: who was confirmed
\* stays approved, the code that a user was told is his until he is approved, and
\* he has only one, through crashes between the file and the telling of it.
PairingIsKept ==
  disturbed \/ /\ confirmed \subseteq SettledPairing.approved
               /\ \A u \in Strangers, c \in PairingCodes : <<u, c>> \in toldCodes =>
                    u \in SettledPairing.approved \/ c \in CodesOf(u, SettledPairing)
               /\ \A u \in Strangers : Cardinality(CodesOf(u, SettledPairing)) <= 1
=============================================================================
