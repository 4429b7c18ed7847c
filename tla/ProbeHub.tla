------------------------------- MODULE ProbeHub -------------------------------
(***************************************************************************)
(* The control WebSockets of one probe and the hub's entry for it          *)
(* (byProbeId).  The probe dials one socket after the other; an upgrade on *)
(* the server awaits the database twice before it registers the socket,    *)
(* and once more before it listens to it.  So the upgrade of a socket that *)
(* the probe gave up can come after that of the next one, a socket can     *)
(* close before anybody listens, and either end may learn late, or never,  *)
(* that the other is gone.                                                 *)
(*                                                                         *)
(* What is said on the sockets is in ProbeCommands and Tunnels, which keep *)
(* one link per probe.  Keys and rows of the probe are in order.           *)
(***************************************************************************)
EXTENDS Integers

CONSTANTS
    NumSockets,     \* bound: the sockets the probe dials
    MaxBreaks       \* bound: what goes wrong: see Breaks

ASSUME SocketsAssumption == NumSockets \in Nat /\ MaxBreaks \in Nat

VARIABLES
    dialed,     \* the sockets so far
    near,       \* the probe's end of each
    far,        \* the server's end
    listens,    \* the sockets whose listeners are attached
    cut,        \* sockets on which nothing passes any more
    entry,      \* the socket in byProbeId, 0 if there is none
    broken      \* what went wrong so far

hubVars == <<dialed, near, far, listens, cut, entry, broken>>

Sockets == 1 .. NumSockets

HubTypeOK ==
    /\ dialed \in 0 .. NumSockets
    /\ near \in [Sockets -> {"unused", "dialing", "open", "gone"}]
    /\ far \in [Sockets -> {"none", "asked", "open", "closing", "closed"}]
    /\ listens \subseteq Sockets /\ cut \subseteq Sockets
    /\ entry \in 0 .. NumSockets
    /\ broken \in 0 .. MaxBreaks

HubInit ==
    /\ dialed = 0
    /\ near = [s \in Sockets |-> "unused"]
    /\ far = [s \in Sockets |-> "none"]
    /\ listens = {} /\ cut = {}
    /\ entry = 0
    /\ broken = 0

-----------------------------------------------------------------------------
(* The probe.                                                              *)

\* wsRun has returned, and its backoff is over.
Dial ==
    /\ dialed < NumSockets
    /\ \A s \in Sockets : near[s] \in {"unused", "gone"}
    /\ dialed' = dialed + 1
    /\ near' = [near EXCEPT ![dialed'] = "dialing"]
    /\ far' = [far EXCEPT ![dialed'] = "asked"]
    /\ UNCHANGED <<listens, cut, entry, broken>>

Connected(s) ==
    /\ near[s] = "dialing" /\ s \notin cut
    /\ far[s] = "open"
    /\ near' = [near EXCEPT ![s] = "open"]
    /\ UNCHANGED <<dialed, far, listens, cut, entry, broken>>

\* The other end is closed; or 45 seconds without a message: the answers to the
\* heartbeats of any socket go to the one of the entry.
NearGoes(s) ==
    /\ \/ near[s] \in {"dialing", "open"} /\ (s \in cut \/ far[s] \in {"closing", "closed"})
       \/ near[s] = "open" /\ entry # s
    /\ near' = [near EXCEPT ![s] = "gone"]
    /\ UNCHANGED <<dialed, far, listens, cut, entry, broken>>

-----------------------------------------------------------------------------
(* The server.                                                             *)

\* Mutant: the entry of a socket that is open is kept.
UpgradeKeeps(s) ==
    /\ far[s] = "asked"
    /\ far' = [far EXCEPT ![s] = "open"]
    /\ entry' = IF entry # 0 /\ far[entry] = "open" THEN entry ELSE s
    /\ UNCHANGED <<dialed, near, listens, cut, broken>>

\* handleUpgrade and the first part of registerProbeWs: what was there is
\* closed, and replaced.
Upgrade(s) ==
    /\ far[s] = "asked"
    /\ far' = [t \in Sockets |-> IF t = s THEN "open"
                                 ELSE IF t = entry /\ far[t] = "open" THEN "closing" ELSE far[t]]
    /\ entry' = s
    /\ UNCHANGED <<dialed, near, listens, cut, broken>>

\* The request's socket is seen closed before the upgrade.
Refuse(s) ==
    /\ far[s] = "asked" /\ near[s] = "gone" /\ s \notin cut
    /\ far' = [far EXCEPT ![s] = "closed"]
    /\ UNCHANGED <<dialed, near, listens, cut, entry, broken>>

\* The update of last_seen_at is over.
Listen(s) ==
    /\ far[s] \in {"open", "closing", "closed"} /\ s \notin listens
    /\ listens' = listens \cup {s}
    /\ UNCHANGED <<dialed, near, far, cut, entry, broken>>

\* Mutant: the listener deletes whatever entry there is.
EntryDeleted(s) == IF s \in listens THEN 0 ELSE entry

\* A close that comes before the listener leaves the entry; the listener
\* deletes its own socket's only.
EntryAfterClose(s) == IF s \in listens /\ entry = s THEN 0 ELSE entry

\* The answer to a close of the server, or its timer of 30 seconds.
FarCloses(s) ==
    /\ far[s] = "closing"
    /\ far' = [far EXCEPT ![s] = "closed"]
    /\ entry' = EntryAfterClose(s)
    /\ UNCHANGED <<dialed, near, listens, cut, broken>>

FarNotices(s) ==
    /\ far[s] = "open" /\ near[s] = "gone" /\ s \notin cut
    /\ far' = [far EXCEPT ![s] = "closed"]
    /\ entry' = EntryAfterClose(s)
    /\ UNCHANGED <<dialed, near, listens, cut, broken>>

-----------------------------------------------------------------------------
(* What goes wrong.                                                        *)

Breaks == broken < MaxBreaks /\ broken' = broken + 1

\* A handshake of fifteen seconds, an error, a restart of the probe.
NearFails(s) ==
    /\ Breaks
    /\ near[s] \in {"dialing", "open"}
    /\ near' = [near EXCEPT ![s] = "gone"]
    /\ UNCHANGED <<dialed, far, listens, cut, entry>>

Cut(s) ==
    /\ Breaks
    /\ near[s] \in {"dialing", "open"}
    /\ cut' = cut \cup {s}
    /\ UNCHANGED <<dialed, near, far, listens, entry>>

RestartServer ==
    /\ Breaks
    /\ far' = [s \in Sockets |-> IF far[s] = "none" THEN "none" ELSE "closed"]
    /\ listens' = {s \in Sockets : far[s] # "none"}
    /\ entry' = 0
    /\ UNCHANGED <<dialed, near, cut>>

-----------------------------------------------------------------------------

Near(s) == Connected(s) \/ NearGoes(s)
Far(s) == Upgrade(s) \/ Listen(s) \/ FarCloses(s)
HubNext ==
    \/ Dial
    \/ \E s \in Sockets : \/ Near(s) \/ Far(s) \/ Refuse(s) \/ FarNotices(s)
                          \/ NearFails(s) \/ Cut(s)
    \/ RestartServer

HubSpec == HubInit /\ [][HubNext]_hubVars

\* The probe dials again and again and reads; the server's handlers end.  The
\* server need not notice that a probe is gone.
HubFairness ==
    /\ WF_hubVars(Dial)
    /\ \A s \in Sockets : WF_hubVars(Near(s)) /\ WF_hubVars(Far(s))

HubFairSpec == HubSpec /\ HubFairness

-----------------------------------------------------------------------------
(* Properties.                                                             *)

\* However late the other sockets of the probe close, a registered socket keeps
\* its entry until it closes itself or is replaced and closed.
ConnectedStaysRegistered ==
    [][\A s \in Sockets : entry = s /\ far[s] = "open" /\ broken' = broken =>
          entry' = s \/ far'[s] # "open"]_hubVars

\* When nothing breaks any more the probe comes to stay on one socket that the
\* hub knows and listens to, whichever upgrades were still under way.
HubSettles ==
    <>[](\E s \in Sockets : near[s] = "open" /\ far[s] = "open" /\ entry = s /\ s \in listens)
=============================================================================
