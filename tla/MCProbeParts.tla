----------------------------- MODULE MCProbeParts -----------------------------
(***************************************************************************)
(* The parts of the probe that talk with the server by themselves, side by *)
(* side: in a behaviour one of them moves, and the others stay as they     *)
(* began.  Their builds and updaters are numbers here.                     *)
(***************************************************************************)
EXTENDS ProbeConfig, ProbeConnection, ProbeUpdate

CONSTANT Turns     \* the number of actions of a part that are fair on their own

VARIABLE subject   \* the part that moves

vars == <<configVars, connVars, updateVars, subject>>

ConfigMoves == subject = "config"
OnlyConfig == UNCHANGED <<connVars, updateVars, subject>>
ConnMoves == subject = "connection"
OnlyConn == UNCHANGED <<configVars, updateVars, subject>>
UpdateMoves == subject = "update"
OnlyUpdate == UNCHANGED <<configVars, connVars, subject>>

\* Of settings that stay as they are, the empty ones will do.
ConfigStart == ConfigMoves \/ (~device.override /\ \A l \in Levels, k \in Keys : settings[l][k] = {})

Init ==
    /\ subject \in {"config", "connection", "update"}
    /\ ConfigInit /\ ConfigStart
    /\ ConnInit /\ UpdateInit

Next ==
    \/ ConfigMoves /\ ConfigNext /\ OnlyConfig
    \/ ConnMoves /\ ConnNext /\ OnlyConn
    \/ UpdateMoves /\ UpdateNext /\ OnlyUpdate

ASSUME TurnsAssumption ==
    /\ Turns \in Nat /\ Turns >= 6
    /\ Builds \subseteq 1 .. Turns - 3 /\ Updaters \subseteq 1 .. Turns - 6

\* The fairness of the parts' own specifications: n numbers the actions to which
\* each of them is weakly fair.  Only one part moves, so fairness to a turn is
\* fairness to that part's action.
Turn(n) ==
    \/ /\ ConfigMoves
       /\ \/ n = 1 /\ ProbePushes
          \/ n = 2 /\ ReceiveWs
          \/ n = 3 /\ Connects
          \/ \E b \in Builds : n = 3 + b /\ Build(b)
       /\ OnlyConfig
    \/ /\ ConnMoves
       /\ \/ n = 1 /\ TickerFirst
          \/ n = 2 /\ TickerTicks
          \/ n = 3 /\ TickerDone
          \/ n = 4 /\ Worker
          \/ n = 5 /\ Beat
          \/ n = 6 /\ (ReaderFails \/ ReaderReports)
       /\ OnlyConn
    \/ /\ UpdateMoves
       /\ \/ n = 1 /\ TenMinutesPass
          \/ n = 2 /\ CleanupStuckUpdating
          \/ n = 3 /\ LateNotice
          \/ n = 4 /\ StartupCheck
          \/ n = 5 /\ PushRead
          \/ n = 6 /\ PushWrite
          \/ \E u \in Updaters : n = 6 + u /\ Updater(u)
       /\ OnlyUpdate

Fairness ==
    /\ \A n \in 1 .. Turns : WF_vars(Turn(n))
    /\ SF_vars(ConnMoves /\ ReaderCloses /\ OnlyConn)

Spec == Init /\ [][Next]_vars /\ Fairness

-----------------------------------------------------------------------------

\* The type invariants of the three parts.
ProbePartsTypeOK == ConfigTypeOK /\ ConnTypeOK /\ UpdateTypeOK

\* UpdateArrives, where updates are what moves: a probe that runs comes to run
\* the newest version.
RunningProbeIsUpdated == UpdateMoves => UpdateArrives
=============================================================================
