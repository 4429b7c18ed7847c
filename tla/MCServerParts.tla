----------------------------- MODULE MCServerParts -----------------------------
(***************************************************************************)
(* What the server keeps for probes, pages, teams and accounts, side by     *)
(* side: in a behaviour one part moves, and the others stay as they began. *)
(* Requests, sign-ins and loads are numbers here.                          *)
(***************************************************************************)
EXTENDS ProbeHub, TunnelRelay, LiveView, FlowTable, TeamAccess, SingleSignOn

CONSTANT Turns     \* the number of actions of a part that are fair on their own

VARIABLE subject   \* the part that moves

vars == <<hubVars, relayVars, viewVars, flowVars, accessVars, ssoVars, subject>>

HubMoves == subject = "hub"
OnlyHub == UNCHANGED <<relayVars, viewVars, flowVars, accessVars, ssoVars, subject>>
RelayMoves == subject = "relay"
OnlyRelay == UNCHANGED <<hubVars, viewVars, flowVars, accessVars, ssoVars, subject>>
ViewMoves == subject = "view"
OnlyView == UNCHANGED <<hubVars, relayVars, flowVars, accessVars, ssoVars, subject>>
FlowMoves == subject = "flows"
OnlyFlow == UNCHANGED <<hubVars, relayVars, viewVars, accessVars, ssoVars, subject>>
AccessMoves == subject = "access"
OnlyAccess == UNCHANGED <<hubVars, relayVars, viewVars, flowVars, ssoVars, subject>>
SsoMoves == subject = "sso"
OnlySso == UNCHANGED <<hubVars, relayVars, viewVars, flowVars, accessVars, subject>>

\* Nobody has seen a device without a row, so for it one probe will do; and of rows that
\* stay as they are, no rows.
ViewStart ==
    \A d \in Devices :
        \/ rows[d] = [status |-> "none", by |-> CHOOSE p \in Probes : TRUE]
        \/ ViewMoves /\ rows[d].status # "none"

\* A chain of groups, the top one granted to the one team that the user may be in.
IsChain(f) ==
    /\ \A g \in Groups, h \in Groups : f[g] = f[h] => g = h
    /\ \E g \in Groups : f[g] = Root
    /\ \A g \in Groups : f[g] # Root => f[g] # g /\ f[f[g]] # g
AccessStart ==
    LET first == CHOOSE t \in Teams : TRUE
    IN /\ parentOf = CHOOSE f \in [Groups -> Groups \cup {Root}] : IsChain(f)
       /\ memberOf \subseteq {first}
       /\ granted = {<<first, g>> : g \in {h \in Groups : parentOf[h] = Root}}
       /\ AccessMoves \/ memberOf = {}

Init ==
    /\ subject \in {"hub", "relay", "view", "flows", "access", "sso"}
    /\ HubInit /\ RelayInit
    /\ ViewInit /\ ViewStart
    /\ FlowInit
    /\ AccessInit /\ AccessStart
    /\ SsoInit /\ (SsoMoves \/ gate[1] = 0)

Next ==
    \/ HubMoves /\ HubNext /\ OnlyHub
    \/ RelayMoves /\ RelayNext /\ OnlyRelay
    \/ ViewMoves /\ ViewNext /\ OnlyView
    \/ FlowMoves /\ FlowNext /\ OnlyFlow
    \/ AccessMoves /\ AccessNext /\ OnlyAccess
    \/ SsoMoves /\ SsoNext /\ OnlySso

ASSUME TurnsAssumption ==
    /\ Turns \in Nat /\ Turns >= 7 /\ Turns >= 1 + 2 * NumSockets
    /\ Requests \subseteq 1 .. Turns - 7
    /\ SignIns \subseteq 1 .. Turns - 3 /\ Loads \subseteq 1 .. Turns - 2

\* The fairness of the parts' own specifications: n numbers the actions to which
\* each of them is weakly fair.  Only one part moves, so fairness to a turn is
\* fairness to that part's action.
Turn(n) ==
    \/ /\ HubMoves
       /\ \/ n = 1 /\ Dial
          \/ \E s \in Sockets : n = 1 + s /\ Near(s)
          \/ \E s \in Sockets : n = 1 + NumSockets + s /\ Far(s)
       /\ OnlyHub
    \/ /\ RelayMoves
       /\ \/ n = 1 /\ Opener
          \/ n = 2 /\ CloseDone
          \/ n = 3 /\ RelayEnds
          \/ n = 4 /\ PumpUp
          \/ n = 5 /\ PumpDown
          \/ n = 6 /\ Message
          \/ n = 7 /\ DataWsCloses /\ nearEnd = "closed"
          \/ \E r \in Requests : n = 7 + r /\ Request(r)
       /\ OnlyRelay
    \/ /\ ViewMoves
       /\ \/ n = 1 /\ Receive
          \/ n = 2 /\ TimerFires
          \/ \E l \in Loads : n = 2 + l /\ Load(l)
       /\ OnlyView
    \/ /\ SsoMoves
       /\ \/ n = 1 /\ \E s \in SignIns : Exchange(s)
          \/ n = 2 /\ SyncUser
          \/ n = 3 /\ Provision
          \/ \E s \in SignIns : n = 3 + s /\ Callback(s)
       /\ OnlySso

Fairness == \A n \in 1 .. Turns : WF_vars(Turn(n))

Spec == Init /\ [][Next]_vars /\ Fairness

-----------------------------------------------------------------------------

\* The type invariants of the six parts.
ServerPartsTypeOK ==
    HubTypeOK /\ RelayTypeOK /\ ViewTypeOK /\ FlowTypeOK /\ AccessTypeOK /\ SsoTypeOK

\* HubSettles, where the hub is what moves: a probe that dials comes to stay
\* connected.
DialingProbeSettles == HubMoves => HubSettles

\* GetsIn, where sign-ins are what moves: whoever keeps signing in at Obligate
\* comes to stay in, unless the name is left taken.
PersonGetsIn == SsoMoves => GetsIn
=============================================================================
