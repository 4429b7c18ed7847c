--------------------------- MODULE ProbeConnection ---------------------------
(***************************************************************************)
(* The four goroutines of one WebSocket connection of the probe: a ticker  *)
(* that asks for scans, the worker that scans and sends, a heartbeat, and  *)
(* the reader, which is wsRun itself.  They share the channels scanTrigger *)
(* and done, of one place each, and the lock wsMu that a write holds for   *)
(* as long as it lasts.  When the socket dies the reader has to return, or *)
(* the probe never connects again, and the others have to end.             *)
(***************************************************************************)
EXTENDS Integers

CONSTANT MaxRescans   \* bound: rescan commands that arrive

ASSUME RescansAssumption == MaxRescans \in Nat

VARIABLES
    socket,       \* "up", "dead" and not noticed by all, "closed" by the reader
    ticker, worker, beat, reader,
    scanTrigger,  \* values in the channel
    done,
    wsMu,         \* who holds the lock
    rescans       \* the commands so far

connVars == <<socket, ticker, worker, beat, reader, scanTrigger, done, wsMu, rescans>>

ConnTypeOK ==
    /\ socket \in {"up", "dead", "closed"}
    /\ ticker \in {"first", "loop", "stopped"}
    /\ worker \in {"wait", "scan", "lock", "write", "report", "stopped"}
    /\ beat \in {"loop", "lock", "write", "stopped"}
    /\ reader \in {"read", "report", "close", "returned"}
    /\ scanTrigger \in 0 .. 1 /\ done \in 0 .. 1
    /\ wsMu \in {"nobody", "worker", "beat"}
    /\ rescans \in 0 .. MaxRescans

ConnInit ==
    /\ socket = "up"
    /\ ticker = "first" /\ worker = "wait" /\ beat = "loop" /\ reader = "read"
    /\ scanTrigger = 0 /\ done = 0
    /\ wsMu = "nobody"
    /\ rescans = 0

-----------------------------------------------------------------------------
(* The ticker.                                                             *)

\* The first scan is asked for outside any select.
TickerFirst ==
    /\ ticker = "first" /\ scanTrigger = 0
    /\ ticker' = "loop" /\ scanTrigger' = 1
    /\ UNCHANGED <<socket, worker, beat, reader, done, wsMu, rescans>>

TickerTicks ==
    /\ ticker = "loop"
    /\ scanTrigger' = 1
    /\ UNCHANGED <<socket, ticker, worker, beat, reader, done, wsMu, rescans>>

\* Mutant: the ticker does not look at done.
TickerDeaf == FALSE /\ UNCHANGED connVars

TickerDone ==
    /\ ticker = "loop" /\ done = 1
    /\ ticker' = "stopped" /\ done' = 0
    /\ UNCHANGED <<socket, worker, beat, reader, scanTrigger, wsMu, rescans>>

-----------------------------------------------------------------------------
(* The worker.                                                             *)

WorkerTakes ==
    /\ worker = "wait" /\ scanTrigger = 1
    /\ worker' = "scan" /\ scanTrigger' = 0
    /\ UNCHANGED <<socket, ticker, beat, reader, done, wsMu, rescans>>

WorkerScans ==
    /\ worker = "scan"
    /\ worker' = "lock"
    /\ UNCHANGED <<socket, ticker, beat, reader, scanTrigger, done, wsMu, rescans>>

WorkerLocks ==
    /\ worker = "lock" /\ wsMu = "nobody"
    /\ worker' = "write" /\ wsMu' = "worker"
    /\ UNCHANGED <<socket, ticker, beat, reader, scanTrigger, done, rescans>>

\* On a dead socket a write goes to a buffer, or fails sooner or later.
Written == IF socket = "up" THEN {TRUE} ELSE IF socket = "closed" THEN {FALSE} ELSE BOOLEAN

WorkerWrites ==
    /\ worker = "write"
    /\ \E ok \in Written : worker' = IF ok THEN "wait" ELSE "report"
    /\ wsMu' = "nobody"
    /\ UNCHANGED <<socket, ticker, beat, reader, scanTrigger, done, rescans>>

WorkerReports ==
    /\ worker = "report" /\ done = 0
    /\ worker' = "stopped" /\ done' = 1
    /\ UNCHANGED <<socket, ticker, beat, reader, scanTrigger, wsMu, rescans>>

-----------------------------------------------------------------------------
(* The heartbeat.                                                          *)

BeatTicks ==
    /\ beat = "loop"
    /\ beat' = "lock"
    /\ UNCHANGED <<socket, ticker, worker, reader, scanTrigger, done, wsMu, rescans>>

BeatLocks ==
    /\ beat = "lock" /\ wsMu = "nobody"
    /\ beat' = "write" /\ wsMu' = "beat"
    /\ UNCHANGED <<socket, ticker, worker, reader, scanTrigger, done, rescans>>

BeatWrites ==
    /\ beat = "write"
    /\ \E ok \in Written : beat' = IF ok THEN "loop" ELSE "stopped"
    /\ wsMu' = "nobody"
    /\ UNCHANGED <<socket, ticker, worker, reader, scanTrigger, done, rescans>>

BeatDone ==
    /\ beat = "loop" /\ done = 1
    /\ beat' = "stopped" /\ done' = 0
    /\ UNCHANGED <<socket, ticker, worker, reader, scanTrigger, wsMu, rescans>>

-----------------------------------------------------------------------------
(* The reader.                                                             *)

\* A rescan that finds the channel full is dropped.
ReaderRescan ==
    /\ reader = "read" /\ socket = "up" /\ rescans < MaxRescans
    /\ scanTrigger' = 1 /\ rescans' = rescans + 1
    /\ UNCHANGED <<socket, ticker, worker, beat, reader, done, wsMu>>

\* An error, or 45 seconds without a word from the server.
ReaderFails ==
    /\ reader = "read" /\ socket = "dead"
    /\ reader' = "report"
    /\ UNCHANGED <<socket, ticker, worker, beat, scanTrigger, done, wsMu, rescans>>

ReaderReports ==
    /\ reader = "report" /\ done = 0
    /\ reader' = "close" /\ done' = 1
    /\ UNCHANGED <<socket, ticker, worker, beat, scanTrigger, wsMu, rescans>>

\* The deferred function takes the lock before it closes the socket.
ReaderCloses ==
    /\ reader = "close" /\ wsMu = "nobody"
    /\ reader' = "returned" /\ socket' = "closed"
    /\ UNCHANGED <<ticker, worker, beat, scanTrigger, done, wsMu, rescans>>

SocketDies ==
    /\ socket = "up"
    /\ socket' = "dead"
    /\ UNCHANGED <<ticker, worker, beat, reader, scanTrigger, done, wsMu, rescans>>

-----------------------------------------------------------------------------

Ticker == TickerFirst \/ TickerTicks \/ TickerDone
Worker == WorkerTakes \/ WorkerScans \/ WorkerLocks \/ WorkerWrites \/ WorkerReports
Beat == BeatTicks \/ BeatLocks \/ BeatWrites \/ BeatDone
Reader == ReaderFails \/ ReaderReports \/ ReaderCloses
ConnNext == Ticker \/ Worker \/ Beat \/ Reader \/ ReaderRescan \/ SocketDies

ConnSpec == ConnInit /\ [][ConnNext]_connVars

\* The scheduler runs every goroutine that can go on; a lock that others keep
\* taking is got in the end.
ConnFairness ==
    /\ WF_connVars(TickerFirst) /\ WF_connVars(TickerTicks)
    /\ WF_connVars(TickerDone)
    /\ WF_connVars(Worker) /\ WF_connVars(Beat)
    /\ WF_connVars(ReaderFails \/ ReaderReports)
    /\ SF_connVars(ReaderCloses)

ConnFairSpec == ConnSpec /\ ConnFairness

-----------------------------------------------------------------------------
(* Properties.                                                             *)

\* A ticker that two rescans have overtaken before its first step, when the worker is
\* gone: it waits for ever on a channel that nobody empties.
TickerOvertaken == ticker = "first" /\ scanTrigger = 1 /\ worker \in {"report", "stopped"}

\* The probe reconnects, and leaves at most a waiting worker behind: done has one
\* place, two goroutines put a value there and two take one, but the reader
\* never waits for ever to put its own, nor for the lock; and of the ticker and
\* the heartbeat, the one that gets no value ends by its next write or by that
\* of the next scan.  The exception is an overtaken ticker, and then the reader may
\* wait for ever, too: if the heartbeat has ended by its own write, nobody takes the
\* worker's error out of done, and the probe never connects again.
ConnectionEnds ==
    socket = "dead"
        ~> \/ reader = "returned" /\ ticker = "stopped" /\ beat = "stopped"
           \/ TickerOvertaken
=============================================================================
