---------------------------- MODULE ProbeCommands ----------------------------
(***************************************************************************)
(* How an administrator's command (rescan, update, uninstall) reaches one  *)
(* probe.  The command waits in the probe's row (pending_command) and      *)
(* leaves it on one of two roads: a push handler reads the row, clears the *)
(* column and puts the command in its reply, or the request that stored it *)
(* finds a WebSocket, sends it there and clears the column.  Every `await` *)
(* of the server's handlers is a step of its own, so handlers interleave.  *)
(* An uninstall also stamps the row, and a periodic job deletes stamped    *)
(* rows.                                                                   *)
(*                                                                         *)
(* The columns that no command touches (site, role, status, versions, the  *)
(* updating_since badge) and the devices a push carries are left out.      *)
(***************************************************************************)
EXTENDS Naturals, Sequences

CONSTANTS
    Requests,   \* the administrators' command requests; each is made once
    Pushes,     \* slots for push handlers that run at the same time
    Kinds,      \* the commands the requests of this instance may carry
    None,       \* no command, no handler
    MaxReg,     \* bound: registrations of the probe (ids its row may take)
    MaxQueue    \* bound: messages under way on the probe's WebSocket

ASSUME RequestsAssumption == None \notin Requests \cup Pushes
ASSUME KindsAssumption == Kinds \subseteq {"rescan", "update", "uninstall"}
ASSUME BoundsAssumption == MaxReg \in Nat /\ MaxQueue \in Nat

VARIABLES
    row,      \* the row of the probe in table probes; id 0: there is none
    lastReg,  \* the id the last registration took
    reqs,     \* the sendCommand / bulkCommand calls
    pushes,   \* the handlePush calls
    probe,    \* the probe's process: its main loop and its HTTP request
    link,     \* the server's end of the probe's WebSocket (byProbeId)
    down,     \* messages under way from the server to the probe
    ran       \* history: how often the probe ran a request's command

vars == <<row, lastReg, reqs, pushes, probe, link, down, ran>>

-----------------------------------------------------------------------------

RegIds == 0 .. MaxReg
Stamps == {"unset", "fresh", "old"}   \* old: more than ten minutes ago
Commands == Requests \cup {None}      \* a request stands for its command

Rows == [id : RegIds, pending : Commands, uninstalled : Stamps]
RequestStates == [pc : {"idle", "stored", "sent", "done"},
                  kind : Kinds, id : RegIds]
PushStates == [pc : {"free", "lookup", "insert", "refresh", "reread",
                     "clear", "reply", "replied"},
               via : {"http", "ws"}, id : RegIds, conn : RegIds,
               command : Commands]
Probes == [mode : {"boot", "http", "ws", "gone"},
           waiting : Pushes \cup {None}]
Links == [state : {"none", "open", "half"}, id : RegIds]
Messages == [type : {"command", "config"}, command : Commands]
Runs == [ws : Nat, http : Nat]

TypeOK ==
    /\ row \in Rows
    /\ lastReg \in RegIds
    /\ reqs \in [Requests -> RequestStates]
    /\ pushes \in [Pushes -> PushStates]
    /\ probe \in Probes
    /\ link \in Links
    /\ down \in Seq(Messages)
    /\ ran \in [Requests -> Runs]

NoRow == [id |-> 0, pending |-> None, uninstalled |-> "unset"]
\* Mutant: a new row asks for a scan, by a name that is no request.
FreshRowAsksScan(id) == [NoRow EXCEPT !.id = id, !.pending = "rescan"]
FreshRow(id) == [NoRow EXCEPT !.id = id]
FreeSlot == [pc |-> "free", via |-> "http", id |-> 0, conn |-> 0,
             command |-> None]
NoLink == [state |-> "none", id |-> 0]

Init ==
    /\ row = NoRow
    /\ lastReg = 0
    /\ \E kind \in [Requests -> Kinds] :
          reqs = [r \in Requests |-> [pc |-> "idle", kind |-> kind[r], id |-> 0]]
    /\ pushes = [h \in Pushes |-> FreeSlot]
    /\ probe = [mode |-> "boot", waiting |-> None]
    /\ link = NoLink
    /\ down = <<>>
    /\ ran = [r \in Requests |-> [ws |-> 0, http |-> 0]]

-----------------------------------------------------------------------------
(* What the handlers share.                                                *)

Kind(c) == reqs[c].kind

\* Mutants: the statement forgets the command's column, or the stamp.
ConsumedButPending(id, c) ==
    IF row.id # id
    THEN row
    ELSE [row EXCEPT !.uninstalled = IF Kind(c) = "uninstall" THEN "fresh" ELSE @]
ConsumedUnstamped(id, c) == IF row.id # id THEN row ELSE [row EXCEPT !.pending = None]

\* The UPDATE that takes command c out of the row with id `id`: a statement
\* on an id that is gone changes no row.
Consumed(id, c) ==
    IF row.id # id
    THEN row
    ELSE [row EXCEPT !.pending = None,
                     !.uninstalled = IF Kind(c) = "uninstall" THEN "fresh" ELSE @]

\* isProbeConnected: an entry of byProbeId whose readyState is OPEN.  A link
\* the probe's side has lost stays OPEN until the server notices ("half").
IsProbeConnected(id) == link.state \in {"open", "half"} /\ link.id = id

\* sendToProbe on an open connection; what goes into a half-open one is lost.
SendToProbe(m) ==
    /\ Len(down) < MaxQueue
    /\ down' = IF link.state = "open" THEN Append(down, m) ELSE down

-----------------------------------------------------------------------------
(* sendCommand and bulkCommand.  A bulk request stores all its rows in one *)
(* statement and then goes through them: for one probe that is the same    *)
(* three steps, with the other probes' awaits between them.                *)

SendStore(r) ==
    /\ reqs[r].pc = "idle"
    /\ row.id # 0
    /\ row' = [row EXCEPT !.pending = r]
    /\ reqs' = [reqs EXCEPT ![r].pc = "stored", ![r].id = row.id]
    /\ UNCHANGED <<lastReg, pushes, probe, link, down, ran>>

SendOverWs(r) ==
    /\ reqs[r].pc = "stored"
    /\ IsProbeConnected(reqs[r].id)
    /\ SendToProbe([type |-> "command", command |-> r])
    /\ reqs' = [reqs EXCEPT ![r].pc = "sent"]
    /\ UNCHANGED <<row, lastReg, pushes, probe, link, ran>>

SendLeaveQueued(r) ==
    /\ reqs[r].pc = "stored"
    /\ ~IsProbeConnected(reqs[r].id)
    /\ reqs' = [reqs EXCEPT ![r].pc = "done"]
    /\ UNCHANGED <<row, lastReg, pushes, probe, link, down, ran>>

\* Mutant: the WebSocket road forgets the stamp.
SendClearUnstamped(r) ==
    /\ reqs[r].pc = "sent"
    /\ row' = ConsumedUnstamped(reqs[r].id, r)
    /\ reqs' = [reqs EXCEPT ![r].pc = "done"]
    /\ UNCHANGED <<lastReg, pushes, probe, link, down, ran>>

SendClear(r) ==
    /\ reqs[r].pc = "sent"
    /\ row' = Consumed(reqs[r].id, r)
    /\ reqs' = [reqs EXCEPT ![r].pc = "done"]
    /\ UNCHANGED <<lastReg, pushes, probe, link, down, ran>>

-----------------------------------------------------------------------------
(* handlePush, from the lookup of the row to the reply.                    *)

At(h, pc) == pushes[h].pc = pc
Goto(h, pc) == pushes' = [pushes EXCEPT ![h].pc = pc]
Free(h) == pushes' = [pushes EXCEPT ![h] = FreeSlot]

\* A handler that throws: HTTP answers 500, which carries no command; the
\* WebSocket's message handler logs it and sends nothing.
Throw(h) ==
    IF pushes[h].via = "http"
    THEN pushes' = [pushes EXCEPT ![h].pc = "reply", ![h].command = None]
    ELSE Free(h)

PushLookup(h) ==
    /\ At(h, "lookup")
    /\ pushes' = [pushes EXCEPT ![h].pc = IF row.id = 0 THEN "insert" ELSE "refresh",
                                ![h].id = row.id]
    /\ UNCHANGED <<row, lastReg, reqs, probe, link, down, ran>>

\* First contact: the probe's row, with a new id.
PushRegister(h) ==
    /\ At(h, "insert")
    /\ row.id = 0
    /\ lastReg < MaxReg
    /\ lastReg' = lastReg + 1
    /\ row' = FreshRow(lastReg + 1)
    /\ pushes' = [pushes EXCEPT ![h].pc = "reply", ![h].id = lastReg + 1]
    /\ UNCHANGED <<reqs, probe, link, down, ran>>

\* Another push registered the same uuid since the lookup: uuid is unique.
PushRegisterConflict(h) ==
    /\ At(h, "insert")
    /\ row.id # 0
    /\ Throw(h)
    /\ UNCHANGED <<row, lastReg, reqs, probe, link, down, ran>>

\* The UPDATE of hostname, version and last_seen_at: no column of the model.
PushRefresh(h) ==
    /\ At(h, "refresh")
    /\ Goto(h, "reread")
    /\ UNCHANGED <<row, lastReg, reqs, probe, link, down, ran>>

\* The handler works from here on with the row as it is now.  Electing the
\* primary and storing the devices and flows take their time after it.
PushReread(h) ==
    /\ At(h, "reread")
    /\ row.id = pushes[h].id
    /\ pushes' = [pushes EXCEPT ![h].pc = IF row.pending = None THEN "reply" ELSE "clear",
                                ![h].command = row.pending]
    /\ UNCHANGED <<row, lastReg, reqs, probe, link, down, ran>>

\* The row was deleted after the lookup: probe.id of undefined.
PushRereadGone(h) ==
    /\ At(h, "reread")
    /\ row.id # pushes[h].id
    /\ Throw(h)
    /\ UNCHANGED <<row, lastReg, reqs, probe, link, down, ran>>

PushClear(h) ==
    /\ At(h, "clear")
    /\ row' = Consumed(pushes[h].id, pushes[h].command)
    /\ Goto(h, "reply")
    /\ UNCHANGED <<lastReg, reqs, probe, link, down, ran>>

\* The HTTP response leaves for a client that still waits for it.
PushReplyHttp(h) ==
    /\ At(h, "reply")
    /\ pushes[h].via = "http"
    /\ probe.waiting = h
    /\ Goto(h, "replied")
    /\ UNCHANGED <<row, lastReg, reqs, probe, link, down, ran>>

PushReplyNobody(h) ==
    /\ At(h, "reply")
    /\ \/ pushes[h].via = "http" /\ probe.waiting # h
       \/ pushes[h].via = "ws" /\ ~IsProbeConnected(pushes[h].conn)
    /\ Free(h)
    /\ UNCHANGED <<row, lastReg, reqs, probe, link, down, ran>>

\* On the WebSocket the reply is a config_update to whatever connection the
\* probe has now, the command one of its fields.
PushReplyWs(h) ==
    /\ At(h, "reply")
    /\ pushes[h].via = "ws"
    /\ IsProbeConnected(pushes[h].conn)
    /\ SendToProbe([type |-> "config", command |-> pushes[h].command])
    /\ Free(h)
    /\ UNCHANGED <<row, lastReg, reqs, probe, link, ran>>

-----------------------------------------------------------------------------
(* Deleting the row.                                                       *)

\* deleteProbe, bulkDelete.
AdminDelete ==
    /\ row.id # 0
    /\ row' = NoRow
    /\ UNCHANGED <<lastReg, reqs, pushes, probe, link, down, ran>>

TenMinutesPass ==
    /\ row.uninstalled = "fresh"
    /\ row' = [row EXCEPT !.uninstalled = "old"]
    /\ UNCHANGED <<lastReg, reqs, pushes, probe, link, down, ran>>

\* The five-minute job.
CleanupUninstalledProbes ==
    /\ row.uninstalled = "old"
    /\ row' = NoRow
    /\ UNCHANGED <<lastReg, reqs, pushes, probe, link, down, ran>>

-----------------------------------------------------------------------------
(* The probe.                                                              *)

Alive == probe.mode # "gone"

\* The two ends of a broken connection: the server learns of it at once, or
\* keeps an open socket to nobody for a while.
Broken == IF link.state = "open"
          THEN {NoLink, [link EXCEPT !.state = "half"]}
          ELSE {link}

StartPush(h, via, conn) ==
    /\ At(h, "free")
    /\ pushes' = [pushes EXCEPT ![h] = [FreeSlot EXCEPT !.pc = "lookup", !.via = via,
                                                        !.conn = conn]]

\* doPush: one request at a time, first from main, then from the polling loop.
HttpPush(h) ==
    /\ probe.mode \in {"boot", "http"}
    /\ probe.waiting = None
    /\ StartPush(h, "http", 0)
    /\ probe' = [probe EXCEPT !.waiting = h]
    /\ UNCHANGED <<row, lastReg, reqs, link, down, ran>>

\* After the first push main tries the WebSocket, once; a probe that starts
\* polling polls until it restarts.
NextModes == IF probe.mode = "boot" THEN {"ws", "http"} ELSE {probe.mode}

\* The client's timeout, or any failure of the request.  The handler goes on.
HttpGiveUp ==
    /\ probe.waiting # None
    /\ \E m \in NextModes : probe' = [mode |-> m, waiting |-> None]
    /\ IF At(probe.waiting, "replied") THEN Free(probe.waiting) ELSE UNCHANGED pushes
    /\ UNCHANGED <<row, lastReg, reqs, link, down, ran>>

\* The modes handleCommand can leave the process in: uninstall exits for good,
\* an update re-executes the new binary, or fails and carries on.
ModesAfter(c, modes) ==
    IF c = None THEN modes
    ELSE CASE Kind(c) = "uninstall" -> {"gone"}
           [] Kind(c) = "update" -> modes \cup {"boot"}
           [] Kind(c) = "rescan" -> modes

HttpReceive(h) ==
    /\ At(h, "replied")
    /\ LET c == pushes[h].command
       IN /\ \E m \in ModesAfter(c, NextModes) : probe' = [mode |-> m, waiting |-> None]
          /\ ran' = IF c = None THEN ran ELSE [ran EXCEPT ![c].http = @ + 1]
    /\ Free(h)
    /\ UNCHANGED <<row, lastReg, reqs, link, down>>

\* wsRun (or wsAvailable's trial): the upgrade needs the row; the new
\* connection takes the place of the one the server still holds.
WsConnect ==
    /\ probe.mode = "ws"
    /\ link.state # "open"
    /\ row.id # 0
    /\ link' = [state |-> "open", id |-> row.id]
    /\ down' = <<>>
    /\ UNCHANGED <<row, lastReg, reqs, pushes, probe, ran>>

WsPush(h) ==
    /\ link.state = "open"
    /\ StartPush(h, "ws", link.id)
    /\ UNCHANGED <<row, lastReg, reqs, probe, link, down, ran>>

\* handleWsMsg: a "command" is run; of a "config_update" only config and
\* latestVersion are decoded.
Heeded(m) == IF m.type = "command" THEN m.command ELSE None

WsReceive ==
    /\ link.state = "open"
    /\ down # <<>>
    /\ LET c == Heeded(Head(down))
       IN /\ \E m \in ModesAfter(c, {"ws"}) :
                /\ probe' = [probe EXCEPT !.mode = m]
                /\ IF m = "ws"
                   THEN down' = Tail(down) /\ UNCHANGED link
                   ELSE down' = <<>> /\ link' \in Broken
          /\ ran' = IF c = None THEN ran ELSE [ran EXCEPT ![c].ws = @ + 1]
    /\ UNCHANGED <<row, lastReg, reqs, pushes>>

WsBreaks ==
    /\ link.state = "open"
    /\ link' \in Broken
    /\ down' = <<>>
    /\ UNCHANGED <<row, lastReg, reqs, pushes, probe, ran>>

ServerNoticesBreak ==
    /\ link.state = "half"
    /\ link' = NoLink
    /\ UNCHANGED <<row, lastReg, reqs, pushes, probe, down, ran>>

\* The host or the service restarts the process.
Restart ==
    /\ Alive
    /\ probe' = [mode |-> "boot", waiting |-> None]
    /\ link' \in Broken
    /\ down' = <<>>
    /\ IF probe.waiting # None /\ At(probe.waiting, "replied")
       THEN Free(probe.waiting)
       ELSE UNCHANGED pushes
    /\ UNCHANGED <<row, lastReg, reqs, ran>>

-----------------------------------------------------------------------------

Send(r) == SendStore(r) \/ SendOverWs(r) \/ SendLeaveQueued(r) \/ SendClear(r)

HandlePush(h) ==
    \/ PushLookup(h) \/ PushRegister(h) \/ PushRegisterConflict(h)
    \/ PushRefresh(h) \/ PushReread(h) \/ PushRereadGone(h) \/ PushClear(h)
    \/ PushReplyHttp(h) \/ PushReplyNobody(h) \/ PushReplyWs(h)

\* What the two programs do, and what goes wrong around them.
Work ==
    \/ \E r \in Requests : Send(r)
    \/ \E h \in Pushes : HandlePush(h) \/ HttpPush(h) \/ HttpReceive(h) \/ WsPush(h)
    \/ AdminDelete \/ TenMinutesPass \/ CleanupUninstalledProbes
    \/ WsConnect \/ WsReceive
Failure == HttpGiveUp \/ WsBreaks \/ ServerNoticesBreak \/ Restart

Next == Work \/ Failure

Spec == Init /\ [][Next]_vars

\* No request times out, no connection breaks, no process restarts.
SmoothSpec == Init /\ [][Work]_vars

\* The server finishes the handlers it has started and runs its job; time
\* passes; a WebSocket's peers notice its end and reconnect.  A probe that
\* lives keeps pushing, however often its pushes or connections fail: strong
\* fairness, as both can make the push impossible for a while.
Fairness ==
    /\ \A r \in Requests :
          WF_vars(SendOverWs(r)) /\ WF_vars(SendLeaveQueued(r)) /\ WF_vars(SendClear(r))
    /\ \A h \in Pushes : WF_vars(HandlePush(h)) /\ WF_vars(HttpReceive(h))
    /\ WF_vars(TenMinutesPass) /\ WF_vars(CleanupUninstalledProbes)
    /\ WF_vars(WsConnect) /\ WF_vars(WsReceive) /\ WF_vars(HttpGiveUp)
    /\ SF_vars(\E h \in Pushes : HttpPush(h) \/ WsPush(h))

FairSpec == Spec /\ Fairness

-----------------------------------------------------------------------------
(* Properties.                                                             *)

\* Neither road runs a command twice: not two pushes whose handlers read the
\* same pending command before either cleared it, not a client that gave up
\* and pushed again, not a reconnected WebSocket ("one-shot" in handlePush).
OncePerRoad == \A r \in Requests : ran[r].ws <= 1 /\ ran[r].http <= 1

HasRun(r) == ran[r].ws + ran[r].http > 0

\* A probe that has removed itself does not stay listed: when its uninstall
\* ran, the row it was sent through is gone, or stamped for the cleanup job,
\* or about to be stamped by the request that sent it.
UninstalledIsStamped ==
    \A r \in Requests :
        Kind(r) = "uninstall" /\ HasRun(r) /\ row.id = reqs[r].id
        => row.uninstalled # "unset" \/ reqs[r].pc = "sent"

\* ... and the job does delete it ("Auto-delete 10 minutes after uninstall
\* command", README).
UninstalledIsReaped ==
    \A r \in Requests :
        (Kind(r) = "uninstall" /\ HasRun(r)) ~> row.id # reqs[r].id

\* A command does not wait for ever on a row whose probe is alive.
QueuedIsTaken ==
    \A r \in Requests : row.pending = r ~> row.pending # r \/ ~Alive

\* index.ts says of the job: "auto-delete probes whose uninstall command was
\* delivered more than 10 minutes ago".  So the row it will delete next is that
\* of a probe that ran, or is yet being brought, an uninstall.
StillCarried(r) ==
    \/ \E i \in DOMAIN down : Heeded(down[i]) = r
    \/ \E h \in Pushes : pushes[h].command = r
ReapedOnlyIfDelivered ==
    row.uninstalled = "old" =>
        \E r \in Requests : /\ Kind(r) = "uninstall" /\ reqs[r].id = row.id
                            /\ HasRun(r) \/ StillCarried(r)
=============================================================================
