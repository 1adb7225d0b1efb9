----------------------------- MODULE MCMailFlow -----------------------------
(* Submission, inbound mail, the rooms it is filed in, a list's subscribers *)
(* and its held messages share no state in these modules, so one of them    *)
(* runs in each behaviour: focus names it and the others rest in one of     *)
(* their first states.                                                      *)
EXTENDS Submission, InboundMail, Rooms, Listserv, ListModeration, TLC

CONSTANTS s1, bob, carol, dora, alice, eve, team, news, m1, m2, w1, d1, d2, h1, h2, k1, k2, p1, p2

VARIABLE focus

MCResolve == [a \in Addrs |->
    [users |-> IF a = team THEN {alice, eve} ELSE {}, forward |-> a = news, room |-> a = news]]
MCSize == [m \in Letters |-> IF m = m1 THEN 1 ELSE 2]
MCLimit == [u \in Users |-> IF u = alice THEN 2 ELSE 0]
MCModeOf == [c \in Conns |-> IF c = "c1" THEN "mx" ELSE "lmtp"]
MCFilters == [u \in Users |-> IF u = alice THEN {"vacation"} ELSE {"none", "reject"}]
MCSendersOf == [c \in Conns |-> IF c = "c1" THEN Senders ELSE {"s1"}]
MCMaxInMails == [c \in Conns |-> IF c = "c1" THEN 2 ELSE 1]
(* Connections and messages of Rooms are interchangeable. *)
MCSymmetry == Permutations(Carriers) \cup Permutations(Parcels)
MCKindOf == [a \in Addresses |-> IF a = "x" THEN "post" ELSE "digest"]

mailFlowVars == <<svars, invars, rvars, lvars, mvars, focus>>

MCInit ==
    /\ SubmissionInit /\ InboundInit /\ RoomsInit /\ ListInit /\ ModerationInit
    /\ focus \in {"submission", "inbound", "rooms", "list", "moderation"}
    /\ focus # "submission" => \A s \in Sessions : session[s].tls
    /\ focus # "inbound" => filter = [u \in Users |-> CHOOSE f \in Filters[u] : TRUE]
    /\ Active \in IF focus = "list" THEN {{}, Addresses} ELSE {{}}

(* Bound: posts, tokens and changes by the administrator together. *)
MaxListWork == 4
WithinListWork == admin' + token' + highest' <= MaxListWork

MCNext ==
    /\ UNCHANGED focus
    /\ \/ focus = "submission" /\ SubmissionNext /\ UNCHANGED <<invars, rvars, lvars, mvars>>
       \/ focus = "inbound" /\ InboundNext /\ UNCHANGED <<svars, rvars, lvars, mvars>>
       \/ focus = "rooms" /\ RoomsNext /\ UNCHANGED <<svars, invars, lvars, mvars>>
       \/ focus = "list" /\ ListNext /\ WithinListWork /\ UNCHANGED <<svars, invars, rvars, mvars>>
       \/ focus = "moderation" /\ ModerationNext /\ UNCHANGED <<svars, invars, rvars, lvars>>

MCSpec == MCInit /\ [][MCNext]_mailFlowVars

(* The component that runs is well typed; the others are where they began. *)
MailTypeOK ==
    /\ focus = "submission" => SubmissionTypeOK
    /\ focus = "inbound" => InboundTypeOK
    /\ focus = "rooms" => RoomsTypeOK
    /\ focus = "list" => ListTypeOK
    /\ focus = "moderation" => ModerationTypeOK
=============================================================================
