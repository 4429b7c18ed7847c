----------------------------- MODULE ProbeUpdate -----------------------------
(***************************************************************************)
(* The self-update of a probe.  An answer that offers a newer version, the *)
(* check at the start, or a command starts applyUpdate: it notifies the    *)
(* server, downloads into the file exe.new, renames it over the executable *)
(* and runs that.  Answers start goroutines of their own, so a second      *)
(* download can begin while the first one is under way.  The server shows  *)
(* a probe as updating from the notice until a push brings another         *)
(* version, or for ten minutes.                                            *)
(***************************************************************************)
EXTENDS Integers

CONSTANTS
    Updaters,      \* goroutines that run applyUpdate
    NumChunks,     \* the parts of a download
    MaxFiles,      \* bound: files ever created as exe.new
    MaxTroubles    \* bound: update commands, crashes, lost answers, downloads that fail

ASSUME UpdateAssumption == NumChunks \in Nat \ {0} /\ {MaxFiles, MaxTroubles} \subseteq Nat

VARIABLES
    badge,       \* the probe's row: probe_version and updating_since
    push,        \* the handler of a push: what it read
    version,     \* of the process: 1, the newest is 2, 0 if it cannot run
    started,     \* the check at the start is over
    updaters,
    files,       \* what was written to each file; 0 is the first executable
    names,       \* the files called exe and exe.new
    late,        \* a notice is still under way
    troubles,
    overlapped   \* history: two downloads were under way

updateVars == <<badge, push, version, started, updaters, files, names, late, troubles,
                overlapped>>

-----------------------------------------------------------------------------

Chunks == 1 .. NumChunks
FileIds == 0 .. MaxFiles
UpdaterStates == [pc : {"idle", "notify", "open", "copy", "rename", "exec"},
                  fd : FileIds, at : 1 .. NumChunks + 1, sync : BOOLEAN]

UpdateTypeOK ==
    /\ badge \in [version : 1 .. 2, since : {"none", "now", "long ago"}]
    /\ push \in [pc : {"idle", "read"}, version : 1 .. 2, clears : BOOLEAN]
    /\ version \in 0 .. 2 /\ started \in BOOLEAN
    /\ updaters \in [Updaters -> UpdaterStates]
    /\ files \in [FileIds -> SUBSET Chunks]
    /\ names \in [exe : FileIds, new : FileIds \cup {-1}]
    /\ late \in BOOLEAN /\ overlapped \in BOOLEAN
    /\ troubles \in 0 .. MaxTroubles

IdleUpdater == [pc |-> "idle", fd |-> 0, at |-> 1, sync |-> FALSE]

UpdateInit ==
    /\ badge = [version |-> 1, since |-> "none"]
    /\ push = [pc |-> "idle", version |-> 1, clears |-> FALSE]
    /\ version = 1 /\ started = FALSE
    /\ updaters = [u \in Updaters |-> IdleUpdater]
    /\ files = [f \in FileIds |-> IF f = 0 THEN Chunks ELSE {}]
    /\ names = [exe |-> 0, new |-> -1]
    /\ late = FALSE /\ overlapped = FALSE
    /\ troubles = 0

-----------------------------------------------------------------------------
(* The server.                                                             *)

\* A goroutine that runs an update itself takes no answer and no command; where
\* it is the reader of a WebSocket, others push on.
Blocked == \E u \in Updaters : updaters[u].pc # "idle" /\ updaters[u].sync

\* The row is read ...
PushRead ==
    /\ version # 0 /\ started
    /\ push.pc = "idle"
    /\ push' = [pc |-> "read", version |-> version,
                clears |-> badge.since # "none" /\ badge.version # version]
    /\ UNCHANGED <<badge, version, started, updaters, files, names, late, troubles, overlapped>>

Trouble == troubles < MaxTroubles /\ troubles' = troubles + 1

StartUpdate(u, sync) ==
    /\ updaters[u].pc = "idle"
    /\ updaters' = [updaters EXCEPT ![u].pc = "notify", ![u].sync = sync]

\* Mutant: the version a probe has is offered to it.
OffersOlder(v) == v >= 2
Offers(v) == v < 2

\* ... and written, and the answer offers the newest version, if it arrives.
PushWrite ==
    /\ push.pc = "read"
    /\ badge' = [version |-> push.version,
                 since |-> IF push.clears THEN "none" ELSE badge.since]
    /\ push' = [push EXCEPT !.pc = "idle"]
    /\ \/ /\ version = push.version /\ Offers(version) /\ ~Blocked
          /\ \E u \in Updaters : StartUpdate(u, FALSE)
          /\ UNCHANGED troubles
       \/ Trouble /\ UNCHANGED updaters
       \/ /\ \/ version # push.version \/ ~Offers(version) \/ Blocked
             \/ \A u \in Updaters : updaters[u].pc # "idle"
          /\ UNCHANGED <<updaters, troubles>>
    /\ UNCHANGED <<version, started, files, names, late, overlapped>>

\* sendCommand, or a push that takes the command: the stamp, and the update.
UpdateCommand(u) ==
    /\ Trouble
    /\ version # 0 /\ started
    /\ badge' = [badge EXCEPT !.since = "now"]
    /\ (~Blocked /\ StartUpdate(u, TRUE)) \/ UNCHANGED updaters
    /\ UNCHANGED <<push, version, started, files, names, late, overlapped>>

TenMinutesPass ==
    /\ badge.since = "now"
    /\ badge' = [badge EXCEPT !.since = "long ago"]
    /\ UNCHANGED <<push, version, started, updaters, files, names, late, troubles, overlapped>>

\* Mutant: the job does not run.
CleanupNever == FALSE /\ UNCHANGED updateVars

CleanupStuckUpdating ==
    /\ badge.since = "long ago"
    /\ badge' = [badge EXCEPT !.since = "none"]
    /\ UNCHANGED <<push, version, started, updaters, files, names, late, troubles, overlapped>>

LateNotice ==
    /\ late
    /\ late' = FALSE
    /\ badge' = [badge EXCEPT !.since = "now"]
    /\ UNCHANGED <<push, version, started, updaters, files, names, troubles, overlapped>>

-----------------------------------------------------------------------------
(* applyUpdate.                                                            *)

Goto(u, pc) == updaters' = [updaters EXCEPT ![u].pc = pc]
GiveUp(u) == updaters' = [updaters EXCEPT ![u] = IdleUpdater]

\* The server takes the notice at once, or after the five seconds that the
\* probe waits, or never.
Notify(u) ==
    /\ updaters[u].pc = "notify"
    /\ Goto(u, "open")
    /\ \/ badge' = [badge EXCEPT !.since = "now"] /\ UNCHANGED late
       \/ late' = TRUE /\ UNCHANGED badge
       \/ UNCHANGED <<badge, late>>
    /\ UNCHANGED <<push, version, started, files, names, troubles, overlapped>>

Writes(u) == updaters[u].pc \in {"copy", "rename", "exec"}

\* O_CREATE and O_TRUNC: a file of that name is emptied, not replaced.
Open(u) ==
    /\ updaters[u].pc = "open"
    /\ \/ /\ names.new # -1
          /\ files' = [files EXCEPT ![names.new] = {}]
          /\ updaters' = [updaters EXCEPT ![u].pc = "copy", ![u].fd = names.new, ![u].at = 1]
          /\ UNCHANGED names
       \/ /\ names.new = -1
          /\ \E f \in FileIds \ {0} :
               /\ f # names.exe /\ \A w \in Updaters : Writes(w) => updaters[w].fd # f
               /\ names' = [names EXCEPT !.new = f]
               /\ files' = [files EXCEPT ![f] = {}]
               /\ updaters' = [updaters EXCEPT ![u].pc = "copy", ![u].fd = f, ![u].at = 1]
    /\ overlapped' = (overlapped \/ \E w \in Updaters : Writes(w))
    /\ UNCHANGED <<badge, push, version, started, late, troubles>>

\* The download does not start, or the disk refuses the file.
DownloadFails(u) ==
    /\ Trouble
    /\ updaters[u].pc = "open"
    /\ GiveUp(u)
    /\ UNCHANGED <<badge, push, version, started, files, names, late, overlapped>>

\* Mutant: one part too many.
CopyPastEnd(u) ==
    /\ updaters[u].pc = "copy"
    /\ files' = [files EXCEPT ![updaters[u].fd] = @ \cup {updaters[u].at}]
    /\ updaters' = [updaters EXCEPT ![u].at = @ + 1,
                       ![u].pc = IF updaters[u].at > NumChunks THEN "rename" ELSE "copy"]
    /\ UNCHANGED <<badge, push, version, started, names, late, troubles, overlapped>>

Copy(u) ==
    /\ updaters[u].pc = "copy"
    /\ files' = [files EXCEPT ![updaters[u].fd] = @ \cup {updaters[u].at}]
    /\ updaters' = [updaters EXCEPT ![u].at = @ + 1,
                       ![u].pc = IF updaters[u].at = NumChunks THEN "rename" ELSE "copy"]
    /\ UNCHANGED <<badge, push, version, started, names, late, troubles, overlapped>>

\* Mutant: an error of the copy is ignored.
CopyErrorIgnored(u) ==
    /\ Trouble
    /\ updaters[u].pc = "copy"
    /\ Goto(u, "rename")
    /\ UNCHANGED <<badge, push, version, started, files, names, late, overlapped>>

\* The name goes, whoever's file it is by now.
CopyFails(u) ==
    /\ Trouble
    /\ updaters[u].pc = "copy"
    /\ GiveUp(u)
    /\ names' = [names EXCEPT !.new = -1]
    /\ UNCHANGED <<badge, push, version, started, files, late, overlapped>>

Rename(u) ==
    /\ updaters[u].pc = "rename"
    /\ IF names.new = -1
       THEN GiveUp(u) /\ UNCHANGED names
       ELSE Goto(u, "exec") /\ names' = [exe |-> names.new, new |-> -1]
    /\ UNCHANGED <<badge, push, version, started, files, late, troubles, overlapped>>

\* A new process: every goroutine of the old one is gone.
Run ==
    /\ version' = IF files[names.exe] # Chunks THEN 0 ELSE IF names.exe = 0 THEN 1 ELSE 2
    /\ started' = FALSE
    /\ updaters' = [u \in Updaters |-> IdleUpdater]

Exec(u) ==
    /\ updaters[u].pc = "exec"
    /\ Run
    /\ UNCHANGED <<badge, push, files, names, late, troubles, overlapped>>

Crash ==
    /\ Trouble
    /\ version # 0
    /\ Run
    /\ UNCHANGED <<badge, push, files, names, late, overlapped>>

\* The check at the start: the loop begins when there is nothing newer, when
\* the question fails, or after an update that failed.
StartupCheck ==
    /\ version # 0 /\ ~started
    /\ started' = TRUE
    /\ \/ Offers(version) /\ (\E u \in Updaters : StartUpdate(u, TRUE)) /\ UNCHANGED troubles
       \/ Trouble /\ UNCHANGED updaters
       \/ ~Offers(version) /\ UNCHANGED <<updaters, troubles>>
    /\ UNCHANGED <<badge, push, version, files, names, late, overlapped>>

-----------------------------------------------------------------------------

Updater(u) ==
    \/ Notify(u) \/ Open(u) \/ DownloadFails(u)
    \/ Copy(u) \/ CopyFails(u) \/ Rename(u) \/ Exec(u)
UpdateNext ==
    \/ PushRead \/ PushWrite \/ TenMinutesPass \/ CleanupStuckUpdating \/ LateNotice
    \/ \E u \in Updaters : Updater(u) \/ UpdateCommand(u)
    \/ Crash \/ StartupCheck

UpdateSpec == UpdateInit /\ [][UpdateNext]_updateVars

\* Time passes and the job runs; the probe starts, pushes and gets its answers,
\* and a download ends one way or the other.
UpdateFairness ==
    /\ WF_updateVars(TenMinutesPass) /\ WF_updateVars(CleanupStuckUpdating)
    /\ WF_updateVars(LateNotice) /\ WF_updateVars(StartupCheck)
    /\ WF_updateVars(PushRead) /\ WF_updateVars(PushWrite)
    /\ \A u \in Updaters : WF_updateVars(Updater(u))

UpdateFairSpec == UpdateSpec /\ UpdateFairness

-----------------------------------------------------------------------------
(* Properties.                                                             *)

\* Whatever fails half-way, crashes or is tried again, the file the probe runs
\* is whole, unless a second download began before the first was over: it
\* empties the file that the first one goes on to install.
ExeIsWhole == overlapped \/ files[names.exe] = Chunks

\* The newest version arrives, whatever fails, is lost or crashes before, unless
\* two downloads met.
UpdateArrives == version = 1 ~> version = 2 \/ overlapped

\* A probe that runs the newest version is not shown as updating for ever, even
\* if its notice comes after the push of the new version, or between the read
\* and the write of that push, or it is told to update again.
UpdatedBadgeEnds == <>[](version = 2 => badge.since = "none")
=============================================================================
