------------------------------- MODULE Tunnels -------------------------------
(***************************************************************************)
(* Tunnels through a probe to a device.  openTunnel counts the tunnels     *)
(* that are open, inserts a row, asks the probe over its WebSocket and     *)
(* waits for the answer or a timeout; closeTunnel and a periodic job close *)
(* the row.  Every `await` is a step, so openings, closings and the job    *)
(* interleave.                                                             *)
(*                                                                         *)
(* One tenant, whose probes and administrators are not deleted, and one    *)
(* run of the job at a time.  Of the probe there is the answer a call      *)
(* waits for, ready or error, on whatever connection it has by then; an    *)
(* answer nobody waits for changes nothing.  The probe's relay, the        *)
(* tunnel_close message, which no state of the server depends on, and the  *)
(* HTTP requests that go through a tunnel are left out.                    *)
(***************************************************************************)
EXTENDS Naturals, FiniteSets

CONSTANTS
    Tunnels,       \* the ids openTunnel may draw
    Users,         \* the administrators of the tenant
    Probes,        \* the probes of the tenant
    Calls,         \* slots for openTunnel calls that run at the same time
    None,          \* no tunnel, no user, no probe
    MaxPerUser,    \* MAX_TUNNELS_PER_USER
    MaxPerTenant,  \* MAX_TUNNELS_PER_TENANT
    MaxClosing,    \* bound: closeTunnel calls that run at the same time
    MaxRestarts    \* bound: restarts of the server

ASSUME NoneAssumption == None \notin Tunnels \cup Users \cup Probes
ASSUME LimitsAssumption == MaxPerUser \in Nat \ {0} /\ MaxPerTenant \in Nat \ {0}
ASSUME BoundsAssumption == MaxClosing \in Nat /\ MaxRestarts \in Nat
ASSUME FiniteAssumption == IsFiniteSet(Tunnels) /\ IsFiniteSet(Calls)

VARIABLES
    rows,      \* the table tunnels
    calls,     \* the openTunnel calls under way
    closing,   \* the tunnels whose closeTunnel has yet to write the row
    job,       \* the cleanupStaleTunnels under way
    links,     \* the server's end of the probes' WebSockets (byProbeId)
    restarts   \* how often the server has restarted

vars == <<rows, calls, closing, job, links, restarts>>

-----------------------------------------------------------------------------

OpenStatuses == {"opening", "active"}
Rows == [status : {"none", "opening", "active", "error", "closed"},
         user : Users \cup {None}, probe : Probes \cup {None},
         age : {"young", "old"}]        \* old: more than thirty minutes
CallStates == [pc : {"idle", "tenant", "select", "insert", "send", "wait",
                     "unheard", "ready", "failed"},
               user : Users \cup {None}, probe : Probes \cup {None},
               tunnel : Tunnels \cup {None}]
JobStates == [pc : {"idle", "loop", "close"}, todo : SUBSET Tunnels,
              tunnel : Tunnels \cup {None}]

TypeOK ==
    /\ rows \in [Tunnels -> Rows]
    /\ calls \in [Calls -> CallStates]
    /\ closing \subseteq Tunnels
    /\ job \in JobStates
    /\ links \in [Probes -> {"none", "open", "half"}]
    /\ restarts \in 0 .. MaxRestarts

NoRow == [status |-> "none", user |-> None, probe |-> None, age |-> "young"]
IdleCall == [pc |-> "idle", user |-> None, probe |-> None, tunnel |-> None]
IdleJob == [pc |-> "idle", todo |-> {}, tunnel |-> None]

Init ==
    /\ rows = [t \in Tunnels |-> NoRow]
    /\ calls = [c \in Calls |-> IdleCall]
    /\ closing = {}
    /\ job = IdleJob
    /\ links = [p \in Probes |-> "none"]
    /\ restarts = 0

-----------------------------------------------------------------------------
(* What the handlers share.                                                *)

Open(t) == rows[t].status \in OpenStatuses
OpenOf(U) == {t \in Tunnels : Open(t) /\ rows[t].user \in U}

\* A link the probe's side has lost stays open for the server until it
\* notices ("half"); what is sent there is lost.
IsProbeConnected(p) == links[p] # "none"

\* UPDATE tunnels SET status = s for the tunnels S.
SetStatus(S, s) ==
    rows' = [t \in Tunnels |-> IF t \in S THEN [rows[t] EXCEPT !.status = s] ELSE rows[t]]

-----------------------------------------------------------------------------
(* openTunnel.                                                             *)

At(c, pc) == calls[c].pc = pc
Goto(c, pc) == calls' = [calls EXCEPT ![c].pc = pc]
Free(c) == calls' = [calls EXCEPT ![c] = IdleCall]

\* Mutant: one tunnel too many.
CountUserAtMost(c, u) ==
    /\ At(c, "idle")
    /\ Cardinality(OpenOf({u})) <= MaxPerUser
    /\ calls' = [calls EXCEPT ![c] = [IdleCall EXCEPT !.pc = "tenant", !.user = u]]
    /\ UNCHANGED <<rows, closing, job, links, restarts>>

\* The first count of a new call; a call that is refused leaves nothing.
CountUser(c, u) ==
    /\ At(c, "idle")
    /\ Cardinality(OpenOf({u})) < MaxPerUser
    /\ calls' = [calls EXCEPT ![c] = [IdleCall EXCEPT !.pc = "tenant", !.user = u]]
    /\ UNCHANGED <<rows, closing, job, links, restarts>>

\* Mutant: one tunnel too many.
CountTenantAtMost(c) ==
    /\ At(c, "tenant")
    /\ IF Cardinality(OpenOf(Users)) <= MaxPerTenant THEN Goto(c, "select") ELSE Free(c)
    /\ UNCHANGED <<rows, closing, job, links, restarts>>

CountTenant(c) ==
    /\ At(c, "tenant")
    /\ IF Cardinality(OpenOf(Users)) < MaxPerTenant THEN Goto(c, "select") ELSE Free(c)
    /\ UNCHANGED <<rows, closing, job, links, restarts>>

\* The probe the request names, or the one selectProbe finds; it must have a
\* WebSocket when the call looks.
SelectProbe(c, p) ==
    /\ At(c, "select")
    /\ IF p # None /\ IsProbeConnected(p)
       THEN calls' = [calls EXCEPT ![c].pc = "insert", ![c].probe = p]
       ELSE Free(c)
    /\ UNCHANGED <<rows, closing, job, links, restarts>>

Insert(c, t) ==
    /\ At(c, "insert")
    /\ rows[t].status = "none"
    /\ rows' = [rows EXCEPT ![t] = [NoRow EXCEPT !.status = "opening",
                                                 !.user = calls[c].user,
                                                 !.probe = calls[c].probe]]
    /\ calls' = [calls EXCEPT ![c].pc = "send", ![c].tunnel = t]
    /\ UNCHANGED <<closing, job, links, restarts>>

\* sendToProbe's result is not looked at: when the connection is gone, or open
\* to nobody, the call waits for an answer that cannot come.
Send(c) ==
    /\ At(c, "send")
    /\ Goto(c, IF links[calls[c].probe] = "open" THEN "wait" ELSE "unheard")
    /\ UNCHANGED <<rows, closing, job, links, restarts>>

TimesOut(c) ==
    /\ At(c, "wait") \/ At(c, "unheard")
    /\ Goto(c, "failed")
    /\ UNCHANGED <<rows, closing, job, links, restarts>>

\* handleProbeMessage: tunnel_ready or tunnel_error.
Answered(c, m) ==
    /\ At(c, "wait")
    /\ links[calls[c].probe] = "open"
    /\ Goto(c, IF m = "tunnel_ready" THEN "ready" ELSE "failed")
    /\ UNCHANGED <<rows, closing, job, links, restarts>>

\* Mutant: the error is written, and the call waits on.
MarkErrorWaits(c) ==
    /\ At(c, "failed")
    /\ SetStatus({calls[c].tunnel}, "error")
    /\ Goto(c, "wait")
    /\ UNCHANGED <<closing, job, links, restarts>>

\* Neither write looks at the status that is there.
MarkError(c) ==
    /\ At(c, "failed")
    /\ SetStatus({calls[c].tunnel}, "error")
    /\ Free(c)
    /\ UNCHANGED <<closing, job, links, restarts>>

MarkActive(c) ==
    /\ At(c, "ready")
    /\ SetStatus({calls[c].tunnel}, "active")
    /\ Free(c)
    /\ UNCHANGED <<closing, job, links, restarts>>

-----------------------------------------------------------------------------
(* closeTunnel.                                                            *)

\* Any row may be closed, whatever its status.
CloseRead(t) ==
    /\ t \notin closing
    /\ rows[t].status # "none"
    /\ Cardinality(closing) < MaxClosing
    /\ closing' = closing \cup {t}
    /\ UNCHANGED <<rows, calls, job, links, restarts>>

CloseUpdate(t) ==
    /\ t \in closing
    /\ SetStatus({t}, "closed")
    /\ closing' = closing \ {t}
    /\ UNCHANGED <<calls, job, links, restarts>>

-----------------------------------------------------------------------------
(* cleanupStaleTunnels, from the five-minute job.                          *)

CleanupSelect ==
    /\ job.pc = "idle"
    /\ job' = [IdleJob EXCEPT !.pc = "loop", !.todo = {t \in Tunnels : Open(t)}]
    /\ UNCHANGED <<rows, calls, closing, links, restarts>>

CleanupCheck(t) ==
    /\ job.pc = "loop"
    /\ t \in job.todo
    /\ job' = IF IsProbeConnected(rows[t].probe)
              THEN [job EXCEPT !.todo = @ \ {t}]
              ELSE [pc |-> "close", todo |-> job.todo \ {t}, tunnel |-> t]
    /\ UNCHANGED <<rows, calls, closing, links, restarts>>

\* Mutant: a status the column's type does not know.
CleanupCloseStale ==
    /\ job.pc = "close"
    /\ SetStatus({job.tunnel}, "stale")
    /\ job' = [job EXCEPT !.pc = "loop", !.tunnel = None]
    /\ UNCHANGED <<calls, closing, links, restarts>>

CleanupClose ==
    /\ job.pc = "close"
    /\ SetStatus({job.tunnel}, "closed")
    /\ job' = [job EXCEPT !.pc = "loop", !.tunnel = None]
    /\ UNCHANGED <<calls, closing, links, restarts>>

\* Mutant: only tunnels that became active.
CleanupExpireActive ==
    /\ job.pc = "loop"
    /\ job.todo = {}
    /\ SetStatus({t \in Tunnels : rows[t].status = "active" /\ rows[t].age = "old"}, "closed")
    /\ job' = IdleJob
    /\ UNCHANGED <<calls, closing, links, restarts>>

\* "inactive for > 30 min" is counted from created_at.
CleanupExpire ==
    /\ job.pc = "loop"
    /\ job.todo = {}
    /\ SetStatus({t \in Tunnels : Open(t) /\ rows[t].age = "old"}, "closed")
    /\ job' = IdleJob
    /\ UNCHANGED <<calls, closing, links, restarts>>

-----------------------------------------------------------------------------
(* Connections and restarts.                                               *)

Connect(p) ==
    /\ links[p] # "open"
    /\ links' = [links EXCEPT ![p] = "open"]
    /\ UNCHANGED <<rows, calls, closing, job, restarts>>

Breaks(p) ==
    /\ links[p] = "open"
    /\ \E l \in {"none", "half"} : links' = [links EXCEPT ![p] = l]
    /\ UNCHANGED <<rows, calls, closing, job, restarts>>

ServerNoticesBreak(p) ==
    /\ links[p] = "half"
    /\ links' = [links EXCEPT ![p] = "none"]
    /\ UNCHANGED <<rows, calls, closing, job, restarts>>

\* Only the table is left.
ServerRestart ==
    /\ restarts < MaxRestarts
    /\ restarts' = restarts + 1
    /\ calls' = [c \in Calls |-> IdleCall]
    /\ closing' = {}
    /\ job' = IdleJob
    /\ links' = [p \in Probes |-> "none"]
    /\ UNCHANGED rows

ThirtyMinutesPass(t) ==
    /\ rows[t].status # "none"
    /\ rows[t].age = "young"
    /\ rows' = [rows EXCEPT ![t].age = "old"]
    /\ UNCHANGED <<calls, closing, job, links, restarts>>

-----------------------------------------------------------------------------

Continue(c) ==
    \/ CountTenant(c)
    \/ \E p \in Probes \cup {None} : SelectProbe(c, p)
    \/ \E t \in Tunnels : Insert(c, t)
    \/ Send(c) \/ TimesOut(c) \/ MarkError(c) \/ MarkActive(c)

Cleanup ==
    \/ CleanupSelect
    \/ \E t \in Tunnels : CleanupCheck(t)
    \/ CleanupClose \/ CleanupExpire

Next ==
    \/ \E c \in Calls : \/ \E u \in Users : CountUser(c, u)
                        \/ Continue(c)
                        \/ \E m \in {"tunnel_ready", "tunnel_error"} : Answered(c, m)
    \/ \E t \in Tunnels : \/ CloseRead(t) \/ CloseUpdate(t) \/ ThirtyMinutesPass(t)
    \/ Cleanup
    \/ \E p \in Probes : Connect(p) \/ Breaks(p) \/ ServerNoticesBreak(p)
    \/ ServerRestart

Spec == Init /\ [][Next]_vars

\* The server finishes what it has started, the timeout fires, the job runs
\* again and again, and time passes.
Fairness ==
    /\ \A c \in Calls : WF_vars(Continue(c))
    /\ \A t \in Tunnels : WF_vars(CloseUpdate(t)) /\ WF_vars(ThirtyMinutesPass(t))
    /\ WF_vars(Cleanup)

FairSpec == Spec /\ Fairness

-----------------------------------------------------------------------------
(* Properties.                                                             *)

\* "Maximum 5 concurrent tunnels per user": the calls that overlap with the one
\* that counted may go beyond the limit, one each; calls one at a time keep it.
\* A tunnel that was closed while it opened, and comes back, is not one more.
UserLimit ==
    \A u \in Users : Cardinality(OpenOf({u})) <= MaxPerUser + Cardinality(Calls) - 1

\* ... and so for the tenant.
TenantLimit == Cardinality(OpenOf(Users)) <= MaxPerTenant + Cardinality(Calls) - 1

\* The life cycle of the rows; a tunnel's opening goes on while its call does.
Lifecycle == INSTANCE TunnelLifecycle WITH
    status <- [t \in Tunnels |-> rows[t].status],
    undecided <- {calls[c].tunnel : c \in Calls} \ {None}
ImplementsLifecycle == Lifecycle!Spec

\* Every tunnel stops to count against the limits, for good: also one whose
\* probe is gone, that came back after its close, or that a restart left opening.
SlotsAreFreed == \A t \in Tunnels : <>[](~Open(t))
=============================================================================
