----------------------------- MODULE ProbeConfig -----------------------------
(***************************************************************************)
(* How a probe comes to run with the settings that hold for it.  A setting *)
(* is overridden globally, in a group above the probe's site, in the site  *)
(* or for the probe; the nearest override holds, or the probe has a        *)
(* configuration of its own.  A push, or an edit of the probe, reads the   *)
(* levels one statement after the other while administrators change them,  *)
(* and the answer travels to the probe by HTTP or its WebSocket.  The      *)
(* probe is approved and belongs to a site.                                *)
(*                                                                         *)
(* Two settings stand for the two ways a value comes out of the table: the *)
(* column is text, an array in it is parsed again, a number is not.        *)
(***************************************************************************)
EXTENDS Integers, Sequences

CONSTANTS
    NumGroups,   \* the groups from the root of the tree to the site's own
    Values,      \* values of a setting
    Default,     \* ... and the one of the program
    Builds,      \* slots of handlers that put a configuration together
    Nobody,      \* no handler
    Preset,      \* levels whose subnets may be set from the start
    MaxEdits,    \* bound: requests of administrators
    MaxLosses,   \* bound: pushes given up, handlers that fail, broken connections, restarts
    MaxWire      \* bound: messages under way on the WebSocket

ASSUME DefaultAssumption == Default \notin Values /\ Nobody \notin Builds
ASSUME LevelsAssumption == NumGroups \in Nat /\ Values # {}
ASSUME SpentAssumption == {MaxEdits, MaxLosses, MaxWire} \subseteq Nat

VARIABLES
    settings,   \* the table: the values of each level and key
    device,     \* the probe's row: its own configuration, a waiting command
    builds,     \* the handlers
    since,      \* history: what was set while a handler read
    running,    \* the probe
    wire,       \* messages on its WebSocket
    used        \* the edits and the losses so far

configVars == <<settings, device, builds, since, running, wire, used>>

-----------------------------------------------------------------------------

Global == 1
Levels == 1 .. NumGroups + 3        \* global, the groups, site, probe: nearer is greater
Own == NumGroups + 4                \* scan_config of the probe itself
Keys == {"interval", "subnets"}
Configs == [Keys -> Values \cup {Default}]
Choices == [level : Levels \cup {0, Own}, value : Values \cup {Default}]
BuildStates == [pc : {"free", "probe", "levels", "send"},
                road : {"http", "ws", "edit"},   \* a push by either road, or updateProbe
                at : 1 .. Own,              \* the level to read next
                found : [Keys -> Choices],  \* resolved
                command : BOOLEAN]          \* the answer carries a command

ConfigTypeOK ==
    /\ settings \in [Levels -> [Keys -> SUBSET Values]]
    /\ device \in [override : BOOLEAN, own : Configs, command : BOOLEAN]
    /\ builds \in [Builds -> BuildStates]
    /\ since \in [Builds -> [ever : SUBSET (Levels \X Keys), always : SUBSET (Levels \X Keys)]]
    /\ running \in [mode : {"start", "http", "ws"}, link : BOOLEAN,
                    waits : Builds \cup {Nobody}, cfg : Configs]
    /\ wire \in Seq([Keys -> Choices])
    /\ used \in [edits : 0 .. MaxEdits, losses : 0 .. MaxLosses]

Defaults == [k \in Keys |-> [level |-> 0, value |-> Default]]
IdleBuild == [pc |-> "free", road |-> "http", at |-> 1, found |-> Defaults, command |-> FALSE]
NothingSet == [ever |-> {}, always |-> {}]

ConfigInit ==
    /\ \E S \in {{}, Preset}, v \in Values :
          settings = [l \in Levels |-> [k \in Keys |->
                        IF l \in S /\ k = "subnets" THEN {v} ELSE {}]]
    /\ device \in [override : BOOLEAN, own : {[k \in Keys |-> Default]}, command : {FALSE}]
    /\ builds = [b \in Builds |-> IdleBuild]
    /\ since = [b \in Builds |-> NothingSet]
    /\ running = [mode |-> "start", link |-> FALSE, waits |-> Nobody,
                  cfg |-> [k \in Keys |-> Default]]
    /\ wire = <<>>
    /\ used = [edits |-> 0, losses |-> 0]

IsSet == {lk \in Levels \X Keys : settings[lk[1]][lk[2]] # {}}

-----------------------------------------------------------------------------
(* A handler: it reads the probe's row, then level after level.            *)

StartBuild(b, road) ==
    /\ builds[b].pc = "free"
    /\ builds' = [builds EXCEPT ![b] = [IdleBuild EXCEPT !.pc = "probe", !.road = road]]

\* The probe's own configuration needs no other level.  A push takes the waiting
\* command out of the row; an edit leaves it.
ReadProbe(b) ==
    /\ builds[b].pc = "probe"
    /\ LET own == [k \in Keys |-> [level |-> Own, value |-> device.own[k]]]
       IN builds' = [builds EXCEPT
                        ![b].pc = IF device.override THEN "send" ELSE "levels",
                        ![b].found = IF device.override THEN own ELSE Defaults,
                        ![b].command = device.command /\ builds[b].road # "edit"]
    /\ device' = [device EXCEPT !.command = @ /\ builds[b].road = "edit"]
    /\ since' = [since EXCEPT ![b] = [ever |-> IsSet, always |-> IsSet]]
    /\ UNCHANGED <<settings, running, wire, used>>

\* Mutant: the first override found holds.
OverridesFirst(found, l) ==
    {f \in [Keys -> Choices] :
        \A k \in Keys : IF settings[l][k] = {} \/ found[k].level # 0 THEN f[k] = found[k]
                        ELSE f[k].level = l /\ f[k].value \in settings[l][k]}

\* What a level overrides; rows of the same key come in any order.
Overrides(found, l) ==
    {f \in [Keys -> Choices] :
        \A k \in Keys : IF settings[l][k] = {} THEN f[k] = found[k]
                        ELSE f[k].level = l /\ f[k].value \in settings[l][k]}

ReadLevel(b) ==
    /\ builds[b].pc = "levels"
    /\ \E f \in Overrides(builds[b].found, builds[b].at) :
          builds' = [builds EXCEPT ![b].found = f, ![b].at = @ + 1,
                                   ![b].pc = IF builds[b].at + 1 \in Levels THEN "levels"
                                             ELSE "send"]
    /\ UNCHANGED <<settings, device, since, running, wire, used>>

-----------------------------------------------------------------------------
(* The answer and the probe.                                               *)

\* A number that went through the table is a string in the answer, and the
\* probe's decoder refuses the whole answer.
Decodes(c) == c["interval"].level \in {0, Own}
\* Mutant: the probe keeps its interval.
AppliedSubnets(c) == IF Decodes(c) THEN [running.cfg EXCEPT !["subnets"] = c["subnets"].value]
                     ELSE running.cfg
Applied(c) == IF Decodes(c) THEN [k \in Keys |-> c[k].value] ELSE running.cfg

\* The first push is followed by the WebSocket where there is one.
ModesAfterPush == IF running.mode = "start" THEN {"http", "ws"} ELSE {running.mode}

\* With a command in it, the answer is not read any further.
SendHttp(b) ==
    /\ builds[b].pc = "send" /\ builds[b].road = "http"
    /\ builds' = [builds EXCEPT ![b] = IdleBuild]
    /\ since' = [since EXCEPT ![b] = NothingSet]
    /\ IF running.waits = b
       THEN \E m \in ModesAfterPush :
              running' = [running EXCEPT !.waits = Nobody, !.mode = m,
                             !.cfg = IF builds[b].command THEN @ ELSE Applied(builds[b].found)]
       ELSE running' = running
    /\ UNCHANGED <<settings, device, wire, used>>

SendWs(b) ==
    /\ builds[b].pc = "send" /\ builds[b].road # "http"
    /\ running.link => Len(wire) < MaxWire
    /\ builds' = [builds EXCEPT ![b] = IdleBuild]
    /\ since' = [since EXCEPT ![b] = NothingSet]
    /\ wire' = IF running.link THEN Append(wire, builds[b].found) ELSE wire
    /\ UNCHANGED <<settings, device, running, used>>

ReceiveWs ==
    /\ wire # <<>>
    /\ wire' = Tail(wire)
    /\ running' = [running EXCEPT !.cfg = Applied(Head(wire))]
    /\ UNCHANGED <<settings, device, builds, since, used>>

HttpPushes(b) ==
    /\ running.mode # "ws" /\ running.waits = Nobody
    /\ StartBuild(b, "http")
    /\ running' = [running EXCEPT !.waits = b]
    /\ UNCHANGED <<settings, device, since, wire, used>>

WsPushes(b) ==
    /\ running.mode = "ws" /\ running.link
    /\ StartBuild(b, "ws")
    /\ UNCHANGED <<settings, device, since, running, wire, used>>

Connects ==
    /\ running.mode = "ws" /\ ~running.link
    /\ running' = [running EXCEPT !.link = TRUE]
    /\ UNCHANGED <<settings, device, builds, since, wire, used>>

Lose == used.losses < MaxLosses /\ used' = [used EXCEPT !.losses = @ + 1]

\* A statement fails.  Over HTTP the error is an answer as well: the probe decodes it
\* as one without a configuration, keeps its interval, which would be 0, and forgets
\* the subnets.  Over the WebSocket nothing is sent.
BuildFails(b) ==
    /\ Lose
    /\ builds[b].pc # "free"
    /\ builds' = [builds EXCEPT ![b] = IdleBuild]
    /\ since' = [since EXCEPT ![b] = NothingSet]
    /\ IF running.waits = b
       THEN \E m \in ModesAfterPush :
              running' = [running EXCEPT !.waits = Nobody, !.mode = m, !.cfg["subnets"] = Default]
       ELSE running' = running
    /\ UNCHANGED <<settings, device, wire>>

\* Thirty seconds without an answer; the handler goes on.
GivesUp ==
    /\ Lose
    /\ running.waits # Nobody
    /\ \E m \in ModesAfterPush : running' = [running EXCEPT !.waits = Nobody, !.mode = m]
    /\ UNCHANGED <<settings, device, builds, since, wire>>

Disconnects ==
    /\ Lose
    /\ running.link
    /\ running' = [running EXCEPT !.link = FALSE]
    /\ wire' = <<>>
    /\ UNCHANGED <<settings, device, builds, since>>

\* The interval is kept on the disk, the subnets are not.
Restarts ==
    /\ Lose
    /\ running' = [mode |-> "start", link |-> FALSE, waits |-> Nobody,
                   cfg |-> [running.cfg EXCEPT !["subnets"] = Default]]
    /\ wire' = <<>>
    /\ UNCHANGED <<settings, device, builds, since>>

-----------------------------------------------------------------------------
(* Administrators.                                                         *)

Edit == used.edits < MaxEdits /\ used' = [used EXCEPT !.edits = @ + 1]

\* What changes in the table while handlers read.
Write(l, k, vs) ==
    /\ settings' = [settings EXCEPT ![l][k] = vs]
    /\ since' = [b \in Builds |->
          [ever |-> since[b].ever \cup
                    (IF vs # {} /\ builds[b].pc \in {"levels", "send"} THEN {<<l, k>>} ELSE {}),
           always |-> since[b].always \ (IF vs = {} THEN {<<l, k>>} ELSE {})]]

\* The unique index does not hold for rows whose scope_id is NULL: setting a
\* global value again adds a row.
Set(l, k, v) ==
    /\ Edit
    /\ Write(l, k, IF l = Global THEN settings[l][k] \cup {v} ELSE {v})
    /\ UNCHANGED <<device, builds, running, wire>>

Remove(l, k) ==
    /\ Edit
    /\ settings[l][k] # {}
    /\ Write(l, k, {})
    /\ UNCHANGED <<device, builds, running, wire>>

\* The probe learns of an edit of its own row at once if it is connected.
UpdateConfig(b, override, k, v) ==
    /\ Edit
    /\ device' = [device EXCEPT !.override = override, !.own[k] = v]
    /\ IF running.link THEN StartBuild(b, "edit") ELSE builds' = builds
    /\ UNCHANGED <<settings, since, running, wire>>

QueueCommand ==
    /\ Edit
    /\ device' = [device EXCEPT !.command = TRUE]
    /\ UNCHANGED <<settings, builds, since, running, wire>>

-----------------------------------------------------------------------------

Build(b) == ReadProbe(b) \/ ReadLevel(b) \/ SendHttp(b) \/ SendWs(b)
ProbePushes == \E b \in Builds : HttpPushes(b) \/ WsPushes(b)
ConfigNext ==
    \/ \E b \in Builds : Build(b) \/ BuildFails(b)
    \/ ProbePushes \/ ReceiveWs \/ Connects
    \/ GivesUp \/ Disconnects \/ Restarts
    \/ \E l \in Levels, k \in Keys : Remove(l, k) \/ \E v \in Values : Set(l, k, v)
    \/ \E b \in Builds, o \in BOOLEAN, k \in Keys, v \in Values : UpdateConfig(b, o, k, v)
    \/ QueueCommand

ConfigSpec == ConfigInit /\ [][ConfigNext]_configVars

\* Handlers end, the probe pushes again and again, reads what arrives and
\* reconnects.
ConfigFairness ==
    /\ \A b \in Builds : WF_configVars(Build(b))
    /\ WF_configVars(ProbePushes)
    /\ WF_configVars(ReceiveWs)
    /\ WF_configVars(Connects)

ConfigFairSpec == ConfigSpec /\ ConfigFairness

-----------------------------------------------------------------------------
(* Properties.                                                             *)

\* Although the levels are read one by one while they change, a resolved value
\* is one that its level had at some time during the read, and no nearer level
\* was set all the time.
NearestWins ==
    \A b \in Builds : builds[b].pc = "send" =>
        \A k \in Keys : LET l == builds[b].found[k].level
                        IN l # Own => /\ l = 0 \/ <<l, k>> \in since[b].ever
                                      /\ \A n \in Levels : n > l => <<n, k>> \notin since[b].always

\* What holds for the probe, and whether an answer can bring it: a number from
\* the table cannot be.
InForce(k) ==
    LET set == {l \in Levels : settings[l][k] # {}}
    IN IF device.override THEN {device.own[k]}
       ELSE IF set = {} THEN {Default}
       ELSE UNION {settings[l][k] : l \in {n \in set : \A m \in set : m <= n}}
Deliverable == device.override \/ \A l \in Levels : settings[l]["interval"] = {}

\* Whatever was lost, overtaken or restarted, a probe that pushes comes to run
\* with the settings in force, if they can be delivered.
ConfigCatchesUp ==
    <>[](Deliverable => \A k \in Keys : running.cfg[k] \in InForce(k))

\* "Build the effective config for a probe (used by both HTTP push and WS
\* config push)": the same, whatever is in force.
ConfigReachesProbe == <>[](\A k \in Keys : running.cfg[k] \in InForce(k))
=============================================================================
