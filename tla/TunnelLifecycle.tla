--------------------------- MODULE TunnelLifecycle ---------------------------
(***************************************************************************)
(* What the tunnel service promises of the status of a tunnel: it starts   *)
(* opening, and its opening is decided once, for active or for error,      *)
(* unless the server restarts first; it may be closed at any time.  A      *)
(* decision may come after a close and then has the last word.             *)
(***************************************************************************)
CONSTANT Tunnels

VARIABLES
    status,    \* the column status; "none": there is no row
    undecided  \* the tunnels whose opening goes on

vars == <<status, undecided>>

Statuses == {"none", "opening", "active", "error", "closed"}

Init ==
    /\ status = [t \in Tunnels |-> "none"]
    /\ undecided = {}

Open(t) ==
    /\ status[t] = "none"
    /\ status' = [status EXCEPT ![t] = "opening"]
    /\ undecided' = undecided \cup {t}

Decide(t) ==
    /\ t \in undecided
    /\ \E s \in {"active", "error"} : status' = [status EXCEPT ![t] = s]
    /\ undecided' = undecided \ {t}

Abandon == undecided' = {} /\ UNCHANGED status

Close(S) ==
    /\ \A t \in S : status[t] # "none"
    /\ status' = [t \in Tunnels |-> IF t \in S THEN "closed" ELSE status[t]]
    /\ UNCHANGED undecided

Next ==
    \/ \E t \in Tunnels : Open(t) \/ Decide(t)
    \/ Abandon
    \/ \E S \in SUBSET Tunnels : Close(S)

Spec == Init /\ [][Next]_vars
=============================================================================
