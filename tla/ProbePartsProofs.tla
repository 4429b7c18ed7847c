--------------------------- MODULE ProbePartsProofs ---------------------------
(***************************************************************************)
(* Proofs about the parts of the probe that talk with the server by        *)
(* themselves, for any number of goroutines, levels, handlers and faults:  *)
(* ProbeUpdate, ProbeConfig and ProbeConnection keep their types, the file *)
(* that the probe runs is whole unless downloads met, and a configuration  *)
(* that was put together level by level has the nearest overrides in it.   *)
(***************************************************************************)
EXTENDS MCProbeParts, TLAPS

-----------------------------------------------------------------------------
(* ProbeUpdate: type correctness.                                          *)

\* A download that copies has a part left to copy.
PartLeft == \A u \in Updaters : updaters[u].pc = "copy" => updaters[u].at \in Chunks

UpdateTypeInv == UpdateTypeOK /\ PartLeft

LEMMA UpdateBounds == NumChunks \in Nat \ {0} /\ MaxFiles \in Nat /\ MaxTroubles \in Nat
  BY UpdateAssumption

LEMMA TroubleCounted ==
    ASSUME UpdateTypeOK, Trouble \/ UNCHANGED troubles PROVE troubles' \in 0 .. MaxTroubles
  <1>1. troubles \in 0 .. MaxTroubles
    BY Zenon DEF UpdateTypeOK
  <1>. QED  BY <1>1, UpdateBounds DEF Trouble

LEMMA UpdateTypeInit == UpdateInit => UpdateTypeInv
  <1>. SUFFICES ASSUME UpdateInit PROVE UpdateTypeInv
    OBVIOUS
  <1>1. updaters \in [Updaters -> UpdaterStates] /\ PartLeft
    BY UpdateBounds DEF UpdateInit, IdleUpdater, UpdaterStates, FileIds, PartLeft
  <1>2. files \in [FileIds -> SUBSET Chunks] /\ names \in [exe : FileIds, new : FileIds \cup {-1}]
    BY UpdateBounds DEF UpdateInit, FileIds
  <1>3. troubles \in 0 .. MaxTroubles
    BY UpdateBounds DEF UpdateInit
  <1>4. /\ badge \in [version : 1 .. 2, since : {"none", "now", "long ago"}]
        /\ push \in [pc : {"idle", "read"}, version : 1 .. 2, clears : BOOLEAN]
        /\ version \in 0 .. 2
    BY DEF UpdateInit
  <1>5. started \in BOOLEAN /\ late \in BOOLEAN /\ overlapped \in BOOLEAN
    BY Zenon DEF UpdateInit
  <1>. QED  BY <1>1, <1>2, <1>3, <1>4, <1>5, Zenon DEF UpdateTypeInv, UpdateTypeOK

LEMMA IdleTyped == IdleUpdater \in UpdaterStates
  BY UpdateBounds DEF IdleUpdater, UpdaterStates, FileIds

\* An updater moved to a place where it copies no part is still an updater.
LEMMA MovedUpdater ==
    ASSUME NEW r \in UpdaterStates, NEW p \in {"idle", "notify", "open", "rename", "exec"}
    PROVE  /\ [r EXCEPT !.pc = p] \in UpdaterStates
           /\ [r EXCEPT !.pc = p].pc = p
  <1>1. /\ r.fd \in FileIds /\ r.at \in 1 .. NumChunks + 1 /\ r.sync \in BOOLEAN
        /\ [r EXCEPT !.pc = p] = [pc |-> p, fd |-> r.fd, at |-> r.at, sync |-> r.sync]
    BY DEF UpdaterStates
  <1>. QED  BY <1>1 DEF UpdaterStates

\* ... and so is one that is started.
LEMMA StartedUpdater ==
    ASSUME NEW r \in UpdaterStates, NEW sync \in BOOLEAN
    PROVE  /\ [r EXCEPT !.pc = "notify", !.sync = sync] \in UpdaterStates
           /\ [r EXCEPT !.pc = "notify", !.sync = sync].pc = "notify"
  <1>1. [r EXCEPT !.pc = "notify", !.sync = sync] \in UpdaterStates
    BY Zenon DEF UpdaterStates
  <1>2. [r EXCEPT !.pc = "notify", !.sync = sync].pc = "notify"
    BY DEF UpdaterStates
  <1>. QED  BY <1>1, <1>2

\* One updater changed, to a state in which any part it copies is a part.
LEMMA OneUpdater ==
    ASSUME UpdateTypeInv, NEW u \in Updaters, NEW r \in UpdaterStates,
           r.pc = "copy" => r.at \in Chunks,
           updaters' = [updaters EXCEPT ![u] = r]
    PROVE  updaters' \in [Updaters -> UpdaterStates] /\ PartLeft'
  <1>1. updaters \in [Updaters -> UpdaterStates]
    BY Zenon DEF UpdateTypeInv, UpdateTypeOK
  <1>2. updaters' \in [Updaters -> UpdaterStates]
    BY <1>1
  <1>3. updaters'[u] = r /\ \A w \in Updaters \ {u} : updaters'[w] = updaters[w]
    BY <1>1
  <1>4. ASSUME NEW w \in Updaters PROVE updaters'[w].pc = "copy" => updaters'[w].at \in Chunks
    <2>1. CASE w = u
      BY <1>3, <2>1
    <2>2. CASE w # u
      <3>1. updaters'[w] = updaters[w]
        BY <1>3, <2>2
      <3>. QED  BY <3>1 DEF UpdateTypeInv, PartLeft
    <2>. QED  BY <2>1, <2>2
  <1>. QED  BY <1>2, <1>4 DEF PartLeft

LEMMA StartUpdateTyped ==
    ASSUME UpdateTypeInv, NEW u \in Updaters, NEW sync \in BOOLEAN, StartUpdate(u, sync)
    PROVE  updaters' \in [Updaters -> UpdaterStates] /\ PartLeft'
  <1>0. updaters[u] \in UpdaterStates
    BY DEF UpdateTypeInv, UpdateTypeOK
  <1>. DEFINE r == [updaters[u] EXCEPT !.pc = "notify", !.sync = sync]
  <1>1. updaters' = [updaters EXCEPT ![u] = r]
    BY <1>0 DEF StartUpdate
  <1>2. r \in UpdaterStates /\ r.pc = "notify"
    BY <1>0, StartedUpdater
  <1>. HIDE DEF r
  <1>3. r.pc = "copy" => r.at \in Chunks
    BY <1>2
  <1>. QED  BY <1>1, <1>2, <1>3, OneUpdater

LEMMA RunTyped ==
    ASSUME Run
    PROVE  /\ version' \in 0 .. 2 /\ started' \in BOOLEAN
           /\ updaters' \in [Updaters -> UpdaterStates] /\ PartLeft'
  <1>1. version' = 0 \/ version' = 1 \/ version' = 2
    BY DEF Run
  <1>3. started' \in BOOLEAN
    BY Zenon DEF Run
  <1>2. updaters' \in [Updaters -> UpdaterStates] /\ \A u \in Updaters : updaters'[u].pc = "idle"
    BY IdleTyped DEF Run, IdleUpdater
  <1>4. version' \in 0 .. 2
    BY <1>1
  <1>. QED  BY <1>2, <1>3, <1>4, Zenon DEF PartLeft

LEMMA UpdateTypeStep == UpdateTypeInv /\ [UpdateNext]_updateVars => UpdateTypeInv'
  <1>. SUFFICES ASSUME UpdateTypeInv, [UpdateNext]_updateVars PROVE UpdateTypeInv'
    OBVIOUS
  <1>0. /\ UpdateTypeOK /\ PartLeft
        /\ badge.version \in 1 .. 2 /\ badge.since \in {"none", "now", "long ago"}
        /\ push.version \in 1 .. 2
        /\ \A when \in {"none", "now", "long ago"} :
             [badge EXCEPT !.since = when] \in [version : 1 .. 2, since : {"none", "now", "long ago"}]
    BY DEF UpdateTypeInv, UpdateTypeOK
  <1>1. CASE PushRead
    <2>. DEFINE clears == badge.since # "none" /\ badge.version # version
    <2>1. push' = [pc |-> "read", version |-> version, clears |-> clears]
      BY <1>1 DEF PushRead
    <2>4. version \in 0 .. 2 /\ version # 0
      BY <1>0, <1>1, Zenon DEF PushRead, UpdateTypeOK
    <2>2. version \in 1 .. 2 /\ clears \in BOOLEAN
      BY <2>4
    <2>. HIDE DEF clears
    <2>3. push' \in [pc : {"idle", "read"}, version : 1 .. 2, clears : BOOLEAN]
      BY <2>1, <2>2
    <2>. QED  BY <1>0, <1>1, <2>3 DEF PushRead, UpdateTypeInv, UpdateTypeOK, PartLeft
  <1>2. CASE PushWrite
    <2>1. badge' \in [version : 1 .. 2, since : {"none", "now", "long ago"}]
      BY <1>0, <1>2 DEF PushWrite
    <2>2. push' \in [pc : {"idle", "read"}, version : 1 .. 2, clears : BOOLEAN]
      BY <1>0, <1>2 DEF PushWrite, UpdateTypeOK
    <2>3. updaters' \in [Updaters -> UpdaterStates] /\ PartLeft'
      <3>1. (\E u \in Updaters : StartUpdate(u, FALSE)) \/ UNCHANGED updaters
        BY <1>2 DEF PushWrite
      <3>. QED  BY <1>0, <3>1, StartUpdateTyped DEF UpdateTypeOK, PartLeft
    <2>4. troubles' \in 0 .. MaxTroubles
      BY <1>0, <1>2, TroubleCounted DEF PushWrite
    <2>. QED  BY <1>0, <1>2, <2>1, <2>2, <2>3, <2>4 DEF PushWrite, UpdateTypeInv, UpdateTypeOK
  <1>3. ASSUME NEW u \in Updaters, UpdateCommand(u) PROVE UpdateTypeInv'
    <2>1. updaters' \in [Updaters -> UpdaterStates] /\ PartLeft'
      BY <1>0, <1>3, StartUpdateTyped DEF UpdateCommand, UpdateTypeOK, PartLeft
    <2>2. troubles' \in 0 .. MaxTroubles
      BY <1>0, <1>3, TroubleCounted DEF UpdateCommand
    <2>. QED  BY <1>0, <1>3, <2>1, <2>2 DEF UpdateCommand, UpdateTypeInv, UpdateTypeOK
  <1>4. CASE TenMinutesPass \/ CleanupStuckUpdating \/ LateNotice
    BY <1>0, <1>4 DEF TenMinutesPass, CleanupStuckUpdating, LateNotice, UpdateTypeInv,
                      UpdateTypeOK, PartLeft
  <1>5. ASSUME NEW u \in Updaters, Updater(u) PROVE UpdateTypeInv'
    <2>0. /\ updaters[u] \in UpdaterStates
          /\ updaters[u].pc \in {"idle", "notify", "open", "copy", "rename", "exec"}
          /\ updaters[u].fd \in FileIds /\ updaters[u].at \in 1 .. NumChunks + 1
      BY <1>0 DEF UpdateTypeOK, UpdaterStates
    <2>1. CASE Notify(u)
      <3>2. updaters' = [updaters EXCEPT ![u] = [updaters[u] EXCEPT !.pc = "open"]]
        BY <2>1 DEF Notify, Goto
      <3>3. /\ [updaters[u] EXCEPT !.pc = "open"] \in UpdaterStates
            /\ [updaters[u] EXCEPT !.pc = "open"].pc = "open"
        BY <2>0, MovedUpdater
      <3>4. [updaters[u] EXCEPT !.pc = "open"].pc = "copy"
              => [updaters[u] EXCEPT !.pc = "open"].at \in Chunks
        BY <3>3
      <3>1. updaters' \in [Updaters -> UpdaterStates] /\ PartLeft'
        BY <3>2, <3>3, <3>4, OneUpdater
      <3>. QED  BY <1>0, <2>1, <3>1 DEF Notify, UpdateTypeInv, UpdateTypeOK
    <2>2. CASE Open(u)
      <3>1. PICK f \in FileIds :
              /\ files' = [files EXCEPT ![f] = {}]
              /\ updaters' = [updaters EXCEPT ![u].pc = "copy", ![u].fd = f, ![u].at = 1]
              /\ names' = names \/ names' = [names EXCEPT !.new = f]
        BY <1>0, <2>2 DEF Open, UpdateTypeOK
      <3>2. files' \in [FileIds -> SUBSET Chunks]
        BY <1>0, <3>1 DEF UpdateTypeOK
      <3>3. names' \in [exe : FileIds, new : FileIds \cup {-1}]
        BY <1>0, <3>1 DEF UpdateTypeOK
      <3>. DEFINE step == [updaters[u] EXCEPT !.pc = "copy", !.fd = f, !.at = 1]
      <3>4. updaters' = [updaters EXCEPT ![u] = step]
        BY <1>0, <3>1 DEF UpdateTypeOK
      <3>6. 1 \in 1 .. NumChunks /\ 1 \in 1 .. NumChunks + 1
        BY UpdateBounds
      <3>7. step \in UpdaterStates /\ step.at = 1
        BY <2>0, <3>6 DEF UpdaterStates
      <3>. HIDE DEF step
      <3>5. updaters' \in [Updaters -> UpdaterStates] /\ PartLeft'
        BY <1>0, <3>4, <3>6, <3>7 DEF UpdateTypeOK, PartLeft, Chunks
      <3>. QED  BY <1>0, <2>2, <3>2, <3>3, <3>5 DEF Open, UpdateTypeInv, UpdateTypeOK
    <2>3. CASE DownloadFails(u) \/ CopyFails(u)
      <3>1. updaters' = [updaters EXCEPT ![u] = IdleUpdater]
        BY <2>3 DEF DownloadFails, CopyFails, GiveUp
      <3>2. updaters' \in [Updaters -> UpdaterStates] /\ PartLeft'
        BY <1>0, <3>1, IdleTyped DEF UpdateTypeOK, PartLeft, IdleUpdater
      <3>3. troubles' \in 0 .. MaxTroubles
        BY <1>0, <2>3, TroubleCounted DEF DownloadFails, CopyFails
      <3>4. names' \in [exe : FileIds, new : FileIds \cup {-1}]
        BY <1>0, <2>3 DEF DownloadFails, CopyFails, UpdateTypeOK
      <3>. QED  BY <1>0, <2>3, <3>2, <3>3, <3>4
                DEF DownloadFails, CopyFails, UpdateTypeInv, UpdateTypeOK
    <2>4. CASE Copy(u)
      <3>1. updaters[u].at \in 1 .. NumChunks
        BY <1>0, <2>4 DEF Copy, PartLeft, Chunks
      <3>2. files' \in [FileIds -> SUBSET Chunks]
        BY <1>0, <2>0, <2>4, <3>1 DEF Copy, UpdateTypeOK, Chunks
      <3>. DEFINE pc == IF updaters[u].at = NumChunks THEN "rename" ELSE "copy"
                  step == [updaters[u] EXCEPT !.at = @ + 1, !.pc = pc]
      <3>3. updaters' = [updaters EXCEPT ![u] = step]
        BY <1>0, <2>4 DEF Copy, UpdateTypeOK, UpdaterStates
      <3>4. step \in UpdaterStates
        <4>1. pc \in {"rename", "copy"} /\ updaters[u].at + 1 \in 1 .. NumChunks + 1
          BY <3>1, UpdateBounds
        <4>. HIDE DEF pc
        <4>. QED  BY <2>0, <4>1 DEF UpdaterStates
      <3>5. step.pc = "copy" => step.at \in Chunks
        BY <2>0, <3>1, UpdateBounds DEF UpdaterStates, Chunks
      <3>. HIDE DEF step
      <3>6. updaters' \in [Updaters -> UpdaterStates] /\ PartLeft'
        BY <1>0, <3>3, <3>4, <3>5 DEF UpdateTypeOK, PartLeft
      <3>. QED  BY <1>0, <2>4, <3>2, <3>6 DEF Copy, UpdateTypeInv, UpdateTypeOK
    <2>5. CASE Rename(u)
      <3>1. CASE names.new = -1
        <4>1. updaters' = [updaters EXCEPT ![u] = IdleUpdater] /\ names' = names
          BY <2>5, <3>1 DEF Rename, GiveUp
        <4>2. updaters' \in [Updaters -> UpdaterStates] /\ PartLeft'
          BY <1>0, <4>1, IdleTyped DEF UpdateTypeOK, PartLeft, IdleUpdater
        <4>. QED  BY <1>0, <2>5, <4>1, <4>2 DEF Rename, UpdateTypeInv, UpdateTypeOK
      <3>2. CASE names.new # -1
        <4>1. updaters' = [updaters EXCEPT ![u].pc = "exec"] /\ names' = [exe |-> names.new, new |-> -1]
          BY <2>5, <3>2 DEF Rename, Goto
        <4>. DEFINE step == [updaters[u] EXCEPT !.pc = "exec"]
        <4>4. updaters' = [updaters EXCEPT ![u] = step] /\ step \in UpdaterStates /\ step.pc = "exec"
          BY <2>0, <4>1 DEF UpdaterStates
        <4>. HIDE DEF step
        <4>2. updaters' \in [Updaters -> UpdaterStates] /\ PartLeft'
          BY <1>0, <4>4 DEF UpdateTypeOK, PartLeft
        <4>3. names' \in [exe : FileIds, new : FileIds \cup {-1}]
          BY <1>0, <3>2, <4>1 DEF UpdateTypeOK
        <4>. QED  BY <1>0, <2>5, <4>2, <4>3 DEF Rename, UpdateTypeInv, UpdateTypeOK
      <3>. QED  BY <3>1, <3>2
    <2>6. CASE Exec(u)
      BY <1>0, <2>6, RunTyped DEF Exec, UpdateTypeInv, UpdateTypeOK
    <2>. QED  BY <1>5, <2>1, <2>2, <2>3, <2>4, <2>5, <2>6 DEF Updater
  <1>6. CASE Crash
    <2>1. troubles' \in 0 .. MaxTroubles
      BY <1>0, <1>6, TroubleCounted DEF Crash
    <2>. QED  BY <1>0, <1>6, <2>1, RunTyped DEF Crash, UpdateTypeInv, UpdateTypeOK
  <1>7. CASE StartupCheck
    <2>1. updaters' \in [Updaters -> UpdaterStates] /\ PartLeft'
      <3>1. (\E u \in Updaters : StartUpdate(u, TRUE)) \/ UNCHANGED updaters
        BY <1>7 DEF StartupCheck
      <3>. QED  BY <1>0, <3>1, StartUpdateTyped DEF UpdateTypeOK, PartLeft
    <2>2. troubles' \in 0 .. MaxTroubles
      BY <1>0, <1>7, TroubleCounted DEF StartupCheck
    <2>. QED  BY <1>0, <1>7, <2>1, <2>2 DEF StartupCheck, UpdateTypeInv, UpdateTypeOK
  <1>8. CASE UNCHANGED updateVars
    BY <1>0, <1>8 DEF updateVars, UpdateTypeInv, UpdateTypeOK, PartLeft
  <1>. QED  BY <1>1, <1>2, <1>3, <1>4, <1>5, <1>6, <1>7, <1>8 DEF UpdateNext

LEMMA UpdateTypes == UpdateSpec => []UpdateTypeInv
  BY UpdateTypeInit, UpdateTypeStep, PTL DEF UpdateSpec

-----------------------------------------------------------------------------
(* ProbeUpdate: the file that the probe runs.                              *)

\* As long as no two downloads met, there is one at most, and it has the file
\* called exe.new: what it has written so far, or all of it.
OneDownload == \A u \in Updaters, w \in Updaters : Writes(u) /\ Writes(w) => u = w
InNewFile ==
    \A u \in Updaters :
        updaters[u].pc \in {"copy", "rename"} =>
            /\ names.new # -1 /\ updaters[u].fd = names.new
            /\ files[names.new] = IF updaters[u].pc = "copy" THEN 1 .. updaters[u].at - 1 ELSE Chunks

WholeInv ==
    \/ overlapped
    \/ /\ files[names.exe] = Chunks /\ names.new # names.exe
       /\ OneDownload /\ InNewFile

LEMMA WholeInit == UpdateInit => WholeInv
  <1>. SUFFICES ASSUME UpdateInit PROVE WholeInv
    OBVIOUS
  <1>1. files[names.exe] = Chunks /\ names.new # names.exe
    BY UpdateBounds DEF UpdateInit, FileIds
  <1>2. \A u \in Updaters : updaters[u].pc = "idle"
    BY DEF UpdateInit, IdleUpdater
  <1>. QED  BY <1>1, <1>2 DEF WholeInv, OneDownload, InNewFile, Writes

\* A step that opens no file and neither writes nor renames one keeps the invariant
\* if nobody begins to write.
LEMMA WholeKept ==
    ASSUME UpdateTypeOK, WholeInv, UNCHANGED <<files, names, overlapped>>,
           \A u \in Updaters : updaters'[u].pc \in {"copy", "rename", "exec"} => updaters'[u] = updaters[u]
    PROVE  WholeInv'
  BY DEF WholeInv, OneDownload, InNewFile, Writes

LEMMA WholeStep == UpdateTypeInv /\ WholeInv /\ [UpdateNext]_updateVars => WholeInv'
  <1>. SUFFICES ASSUME UpdateTypeOK, PartLeft, WholeInv, [UpdateNext]_updateVars PROVE WholeInv'
    BY DEF UpdateTypeInv
  <1>. DEFINE StaysOut == \A u \in Updaters : \/ updaters'[u].pc \notin {"copy", "rename", "exec"}
                                              \/ updaters'[u] = updaters[u]
  <1>0. updaters \in [Updaters -> UpdaterStates]
    BY Zenon DEF UpdateTypeOK
  <1>1. ASSUME NEW u \in Updaters, NEW sync \in BOOLEAN, StartUpdate(u, sync) PROVE StaysOut
    BY <1>0, <1>1 DEF StartUpdate, UpdaterStates
  <1>2. CASE PushRead \/ TenMinutesPass \/ CleanupStuckUpdating \/ LateNotice \/ UNCHANGED updateVars
    BY <1>2, WholeKept DEF PushRead, TenMinutesPass, CleanupStuckUpdating, LateNotice, updateVars
  <1>3. CASE PushWrite
    <2>1. StaysOut
      BY <1>1, <1>3 DEF PushWrite
    <2>. QED  BY <1>3, <2>1, WholeKept DEF PushWrite
  <1>4. ASSUME NEW u \in Updaters, UpdateCommand(u) PROVE WholeInv'
    <2>1. StaysOut
      BY <1>1, <1>4 DEF UpdateCommand
    <2>. QED  BY <1>4, <2>1, WholeKept DEF UpdateCommand
  <1>5. CASE StartupCheck
    <2>1. StaysOut
      BY <1>1, <1>5 DEF StartupCheck
    <2>. QED  BY <1>5, <2>1, WholeKept DEF StartupCheck
  <1>6. CASE Crash
    <2>1. StaysOut
      BY <1>6 DEF Crash, Run, IdleUpdater
    <2>. QED  BY <1>6, <2>1, WholeKept DEF Crash
  <1>7. ASSUME NEW u \in Updaters, Updater(u) PROVE WholeInv'
    <2>0. /\ updaters[u] \in UpdaterStates
          /\ \A w \in Updaters : Writes(w) <=> updaters[w].pc \in {"copy", "rename", "exec"}
      BY <1>0 DEF Writes
    <2>1. CASE Notify(u) \/ DownloadFails(u) \/ Exec(u)
      <3>1. StaysOut
        BY <1>0, <2>0, <2>1 DEF Notify, DownloadFails, Exec, Goto, GiveUp, Run, IdleUpdater, UpdaterStates
      <3>. QED  BY <2>1, <3>1, WholeKept DEF Notify, DownloadFails, Exec
    <2>2. CASE Open(u)
      <3>1. CASE overlapped'
        BY <3>1 DEF WholeInv
      <3>2. CASE ~overlapped'
        <4>1. ~overlapped /\ \A w \in Updaters : ~Writes(w)
          BY <2>2, <3>2 DEF Open
        <4>2. files[names.exe] = Chunks /\ names.new # names.exe
          BY <4>1 DEF WholeInv
        <4>3. PICK f \in FileIds :
                /\ f # names.exe /\ f # -1
                /\ names' = [names EXCEPT !.new = f] /\ files' = [files EXCEPT ![f] = {}]
                /\ updaters' = [updaters EXCEPT ![u].pc = "copy", ![u].fd = f, ![u].at = 1]
          <5>1. CASE names.new # -1
            <6>1. names.new \in FileIds
              BY <5>1 DEF UpdateTypeOK
            <6>2. /\ names' = [names EXCEPT !.new = names.new] /\ files' = [files EXCEPT ![names.new] = {}]
                  /\ updaters' = [updaters EXCEPT ![u].pc = "copy", ![u].fd = names.new, ![u].at = 1]
              BY <2>2, <5>1 DEF Open, UpdateTypeOK
            <6>. QED  BY <4>2, <5>1, <6>1, <6>2
          <5>2. CASE names.new = -1
            <6>1. \A f \in FileIds : f # -1
              BY UpdateBounds DEF FileIds
            <6>. QED  BY <2>2, <5>2, <6>1 DEF Open
          <5>. QED  BY <5>1, <5>2
        <4>4. names'.exe = names.exe /\ names'.new = f /\ files'[f] = {} /\ files'[names.exe] = Chunks
          BY <4>2, <4>3 DEF UpdateTypeOK
        <4>5. updaters'[u].pc = "copy" /\ updaters'[u].fd = f /\ updaters'[u].at = 1
          BY <1>0, <2>0, <4>3 DEF UpdaterStates
        <4>6. \A w \in Updaters \ {u} : updaters'[w] = updaters[w] /\ ~Writes(w)'
          BY <1>0, <4>1, <4>3 DEF Writes
        <4>7. OneDownload'
          BY <4>6 DEF OneDownload
        <4>8. InNewFile'
          <5>1. 1 .. 1 - 1 = {}
            OBVIOUS
          <5>. QED  BY <4>3, <4>4, <4>5, <4>6, <5>1 DEF InNewFile, Writes
        <4>. QED  BY <4>3, <4>4, <4>7, <4>8 DEF WholeInv
      <3>. QED  BY <3>1, <3>2
    <2>3. CASE Copy(u)
      <3>1. CASE overlapped
        BY <2>3, <3>1 DEF Copy, WholeInv
      <3>2. CASE ~overlapped
        <4>1. /\ files[names.exe] = Chunks /\ names.new # names.exe /\ names.new # -1
              /\ updaters[u].fd = names.new /\ files[names.new] = 1 .. updaters[u].at - 1
              /\ OneDownload
          BY <2>3, <3>2 DEF Copy, WholeInv, InNewFile
        <4>2. updaters[u].at \in 1 .. NumChunks /\ names.new \in FileIds
          BY <2>3, <4>1 DEF Copy, PartLeft, Chunks, UpdateTypeOK
        <4>3. files'[names.new] = 1 .. updaters[u].at /\ files'[names.exe] = Chunks
          <5>1. (1 .. updaters[u].at - 1) \cup {updaters[u].at} = 1 .. updaters[u].at
            BY <4>2, UpdateBounds
          <5>. QED  BY <2>3, <4>1, <4>2, <5>1 DEF Copy, UpdateTypeOK
        <4>4. /\ updaters'[u].fd = names.new /\ updaters'[u].at = updaters[u].at + 1
              /\ updaters'[u].pc = IF updaters[u].at = NumChunks THEN "rename" ELSE "copy"
          BY <1>0, <2>0, <2>3, <4>1 DEF Copy, UpdaterStates
        <4>5. \A w \in Updaters \ {u} : updaters'[w] = updaters[w] /\ ~Writes(w)
          BY <1>0, <2>0, <2>3, <4>1 DEF Copy, OneDownload
        <4>6. OneDownload'
          BY <2>0, <2>3, <4>5 DEF OneDownload, Writes
        <4>7. names' = names /\ overlapped' = overlapped
          BY <2>3 DEF Copy
        <4>8. InNewFile'
          <5>1. updaters'[u].at - 1 = updaters[u].at
            BY <4>2, <4>4
          <5>2. \A w \in Updaters \ {u} : updaters'[w].pc \notin {"copy", "rename"}
            BY <4>5 DEF Writes
          <5>. QED  BY <4>1, <4>3, <4>4, <4>7, <5>1, <5>2 DEF InNewFile, Chunks
        <4>. QED  BY <4>1, <4>3, <4>6, <4>7, <4>8 DEF WholeInv
      <3>. QED  BY <3>1, <3>2
    <2>4. CASE CopyFails(u) \/ Rename(u)
      <3>1. CASE overlapped
        BY <2>4, <3>1 DEF CopyFails, Rename, WholeInv
      <3>2. CASE ~overlapped
        <4>1. /\ files[names.exe] = Chunks /\ names.new # names.exe /\ names.new # -1
              /\ updaters[u].pc = "rename" => files[names.new] = Chunks
              /\ OneDownload
          BY <2>4, <3>2 DEF CopyFails, Rename, WholeInv, InNewFile
        <4>2. files' = files /\ overlapped' = overlapped
          BY <2>4 DEF CopyFails, Rename
        <4>3. \A w \in Updaters \ {u} : updaters'[w] = updaters[w] /\ ~Writes(w)
          BY <1>0, <2>0, <2>4, <4>1 DEF CopyFails, Rename, GiveUp, Goto, OneDownload
        <4>4. updaters'[u].pc \in {"idle", "exec"}
          BY <1>0, <2>0, <2>4 DEF CopyFails, Rename, GiveUp, Goto, IdleUpdater, UpdaterStates
        <4>5. \A w \in Updaters : updaters'[w].pc \notin {"copy", "rename"}
          BY <4>3, <4>4 DEF Writes
        <4>6. files[names'.exe] = Chunks /\ names'.new = -1 /\ names'.exe \in FileIds
          <5>1. names' = [names EXCEPT !.new = -1] \/ names' = [exe |-> names.new, new |-> -1]
            BY <2>4, <4>1 DEF CopyFails, Rename
          <5>2. updaters[u].pc = "copy" => names' = [names EXCEPT !.new = -1]
            BY <2>4 DEF CopyFails, Rename
          <5>3. names \in [exe : FileIds, new : FileIds \cup {-1}]
            BY DEF UpdateTypeOK
          <5>4. updaters[u].pc \in {"copy", "rename"}
            BY <2>4 DEF CopyFails, Rename
          <5>. QED  BY <4>1, <5>1, <5>2, <5>3, <5>4
        <4>7. names'.new # names'.exe
          BY <4>6, UpdateBounds DEF FileIds
        <4>8. OneDownload' /\ InNewFile'
          BY <4>3, <4>5 DEF OneDownload, InNewFile, Writes
        <4>. QED  BY <4>2, <4>6, <4>7, <4>8 DEF WholeInv
      <3>. QED  BY <3>1, <3>2
    <2>. QED  BY <1>7, <2>1, <2>2, <2>3, <2>4 DEF Updater
  <1>. QED  BY <1>2, <1>3, <1>4, <1>5, <1>6, <1>7 DEF UpdateNext

\* ExeIsWhole: whatever download fails, crashes or is tried again, and for any
\* number of goroutines that run applyUpdate, the file called exe is complete
\* unless two downloads met.
THEOREM ExeStaysWhole == UpdateSpec => []ExeIsWhole
  <1>1. WholeInv => ExeIsWhole
    BY DEF WholeInv, ExeIsWhole
  <1>. QED  BY <1>1, UpdateTypes, WholeInit, WholeStep, PTL DEF UpdateSpec

\* The halves of UpdateArrives that are about safety.
ProbeStarts == overlapped \/ version # 0
VersionInv ==
    /\ names.exe \in FileIds /\ names.new # 0
    /\ version = 2 => names.exe # 0

\* Whenever the probe is replaced or crashes there is a program that runs, unless two
\* downloads met.
THEOREM ProbeStartsAgain == UpdateSpec => []ProbeStarts
  <1>1. UpdateInit => ProbeStarts
    BY DEF UpdateInit, ProbeStarts
  <1>2. WholeInv /\ ProbeStarts /\ [UpdateNext]_updateVars => ProbeStarts'
    <2>. SUFFICES ASSUME WholeInv, ProbeStarts, [UpdateNext]_updateVars PROVE ProbeStarts'
      OBVIOUS
    <2>1. CASE Crash \/ \E u \in Updaters : Exec(u)
      BY <2>1 DEF Crash, Exec, Run, WholeInv, ProbeStarts
    <2>2. CASE \/ PushRead \/ PushWrite \/ TenMinutesPass \/ CleanupStuckUpdating \/ LateNotice
               \/ StartupCheck \/ UNCHANGED updateVars
      BY <2>2, Zenon DEF PushRead, PushWrite, TenMinutesPass, CleanupStuckUpdating, LateNotice,
                  StartupCheck, updateVars, ProbeStarts
    <2>3. ASSUME NEW u \in Updaters, UpdateCommand(u) \/ Updater(u), ~Exec(u) PROVE ProbeStarts'
      <3>1. version' = version
        BY <2>3, Zenon DEF UpdateCommand, Updater, Notify, Open, DownloadFails, Copy, CopyFails, Rename
      <3>2. CASE Open(u)
        <4>1. overlapped => overlapped'
          BY <3>2, Zenon DEF Open
        <4>. QED  BY <3>1, <4>1 DEF ProbeStarts
      <3>3. CASE ~Open(u)
        <4>1. overlapped' = overlapped
          BY <2>3, <3>3, Zenon DEF UpdateCommand, Updater, Notify, DownloadFails, Copy, CopyFails, Rename
        <4>. QED  BY <3>1, <4>1 DEF ProbeStarts
      <3>. QED  BY <3>2, <3>3
    <2>. QED  BY <2>1, <2>2, <2>3 DEF UpdateNext, Updater
  <1>. QED  BY <1>1, <1>2, UpdateTypes, WholeInit, WholeStep, PTL DEF UpdateSpec

LEMMA VersionStep == UpdateTypeOK /\ VersionInv /\ [UpdateNext]_updateVars =>
                         VersionInv' /\ (version = 2 => version' # 1)
  <1>. SUFFICES ASSUME UpdateTypeOK, VersionInv, [UpdateNext]_updateVars
                PROVE  VersionInv' /\ (version = 2 => version' # 1)
    OBVIOUS
  <1>0. names \in [exe : FileIds, new : FileIds \cup {-1}] /\ 0 \in FileIds
    <2>1. names \in [exe : FileIds, new : FileIds \cup {-1}]
      BY Zenon DEF UpdateTypeOK
    <2>. QED  BY <2>1, UpdateBounds DEF FileIds
  <1>1. CASE Crash \/ \E u \in Updaters : Exec(u)
    BY <1>1 DEF Crash, Exec, Run, VersionInv
  <1>2. CASE \/ PushRead \/ PushWrite \/ TenMinutesPass \/ CleanupStuckUpdating \/ LateNotice
             \/ StartupCheck \/ UNCHANGED updateVars
    <2>1. UNCHANGED <<version, names>>
      BY <1>2, Zenon DEF PushRead, PushWrite, TenMinutesPass, CleanupStuckUpdating, LateNotice,
                         StartupCheck, updateVars
    <2>. QED  BY <2>1 DEF VersionInv
  <1>3. ASSUME NEW u \in Updaters, UpdateCommand(u) \/ Notify(u) \/ DownloadFails(u) \/ Copy(u)
        PROVE  VersionInv' /\ (version = 2 => version' # 1)
    <2>1. UNCHANGED <<version, names>>
      BY <1>3, Zenon DEF UpdateCommand, Notify, DownloadFails, Copy
    <2>. QED  BY <2>1 DEF VersionInv
  <1>4. ASSUME NEW u \in Updaters, Open(u) \/ CopyFails(u) \/ Rename(u)
        PROVE  VersionInv' /\ (version = 2 => version' # 1)
    <2>1. version' = version
      BY <1>4, Zenon DEF Open, CopyFails, Rename
    <2>2. \/ UNCHANGED names
          \/ \E f \in (FileIds \cup {-1}) \ {0} : names' = [names EXCEPT !.new = f]
          \/ names.new # -1 /\ names' = [exe |-> names.new, new |-> -1]
      <3>1. CASE Open(u)
        <4>1. CASE names.new # -1
          BY <3>1, <4>1, Zenon DEF Open
        <4>2. CASE names.new = -1
          <5>1. PICK f \in FileIds \ {0} : names' = [names EXCEPT !.new = f]
            BY <3>1, <4>2, Zenon DEF Open
          <5>. QED  BY <5>1
        <4>. QED  BY <4>1, <4>2
      <3>2. CASE CopyFails(u)
        BY <3>2 DEF CopyFails
      <3>3. CASE Rename(u)
        BY <3>3 DEF Rename
      <3>. QED  BY <1>4, <3>1, <3>2, <3>3
    <2>3. names'.exe \in FileIds /\ names'.new # 0 /\ (names'.exe = names.exe \/ names'.exe # 0)
      BY <1>0, <2>2 DEF VersionInv
    <2>. QED  BY <2>1, <2>3 DEF VersionInv
  <1>. QED  BY <1>1, <1>2, <1>3, <1>4 DEF UpdateNext, Updater

\* A probe that runs the newest version does not come back as the old one, even if two
\* downloads met.
THEOREM NoDowngrade == UpdateSpec => [][version = 2 => version' # 1]_updateVars
  <1>1. UpdateInit => VersionInv
    BY UpdateBounds DEF UpdateInit, VersionInv, FileIds
  <1>2. UpdateTypeInv => UpdateTypeOK
    BY DEF UpdateTypeInv
  <1>. QED  BY <1>1, <1>2, UpdateTypes, VersionStep, PTL DEF UpdateSpec

-----------------------------------------------------------------------------
(* ProbeConfig: type correctness.                                          *)

\* A handler has a level left to read until it sends.
LevelLeft == \A b \in Builds : builds[b].pc # "send" => builds[b].at \in Levels

ConfigTypeInv == ConfigTypeOK /\ LevelLeft

LEMMA LevelNumbers ==
    /\ NumGroups \in Nat /\ Own \in Nat /\ Levels = 1 .. Own - 1 /\ 1 \in Levels /\ Levels \subseteq 1 .. Own
    /\ \A l \in Levels : l \in Nat /\ l # 0 /\ l < Own /\ l + 1 \in 1 .. Own /\ (l + 1 \notin Levels => l + 1 = Own)
  BY LevelsAssumption DEF Own, Levels

LEMMA SpentBounds == MaxEdits \in Nat /\ MaxLosses \in Nat
  BY SpentAssumption

LEMMA DefaultsTyped == Defaults \in [Keys -> Choices]
  BY DEF Defaults, Choices

LEMMA IdleBuildTyped == IdleBuild \in BuildStates /\ IdleBuild.pc = "free" /\ IdleBuild.at \in Levels
  BY DefaultsTyped, LevelNumbers DEF IdleBuild, BuildStates

LEMMA ConfigTypeInit == ConfigInit => ConfigTypeInv
  <1>. SUFFICES ASSUME ConfigInit PROVE ConfigTypeInv
    OBVIOUS
  <1>1. settings \in [Levels -> [Keys -> SUBSET Values]]
    BY DEF ConfigInit
  <1>2. device \in [override : BOOLEAN, own : Configs, command : BOOLEAN]
    <2>1. [k \in Keys |-> Default] \in Configs
      BY DEF Configs
    <2>. QED  BY <2>1 DEF ConfigInit
  <1>3. builds \in [Builds -> BuildStates] /\ LevelLeft
    BY IdleBuildTyped DEF ConfigInit, LevelLeft
  <1>4. since \in [Builds -> [ever : SUBSET (Levels \X Keys), always : SUBSET (Levels \X Keys)]]
    BY DEF ConfigInit, NothingSet
  <1>5. running \in [mode : {"start", "http", "ws"}, link : BOOLEAN,
                     waits : Builds \cup {Nobody}, cfg : Configs]
    BY DEF ConfigInit, Configs
  <1>6. wire \in Seq([Keys -> Choices]) /\ used \in [edits : 0 .. MaxEdits, losses : 0 .. MaxLosses]
    BY SpentBounds DEF ConfigInit
  <1>. QED  BY <1>1, <1>2, <1>3, <1>4, <1>5, <1>6 DEF ConfigTypeInv, ConfigTypeOK

LEMMA StartBuildTyped ==
    ASSUME ConfigTypeInv, NEW b \in Builds, NEW road \in {"http", "ws", "edit"}, StartBuild(b, road)
    PROVE  /\ builds' \in [Builds -> BuildStates] /\ LevelLeft'
           /\ builds'[b].pc = "probe" /\ \A c \in Builds \ {b} : builds'[c] = builds[c]
  <1>. DEFINE begun == [IdleBuild EXCEPT !.pc = "probe", !.road = road]
  <1>1. builds' = [builds EXCEPT ![b] = begun]
    BY DEF StartBuild
  <1>2. begun \in BuildStates /\ begun.pc = "probe" /\ begun.at \in Levels
    BY IdleBuildTyped DEF BuildStates
  <1>. HIDE DEF begun
  <1>. QED  BY <1>1, <1>2 DEF ConfigTypeInv, ConfigTypeOK, LevelLeft

LEMMA AppliedTyped ==
    ASSUME ConfigTypeOK, NEW c \in [Keys -> Choices] PROVE Applied(c) \in Configs
  <1>1. running.cfg \in Configs /\ \A k \in Keys : c[k].value \in Values \cup {Default}
    BY DEF ConfigTypeOK, Choices
  <1>. QED  BY <1>1 DEF Applied, Configs

LEMMA UsedCounted ==
    ASSUME ConfigTypeOK, Edit \/ Lose \/ UNCHANGED used
    PROVE  used' \in [edits : 0 .. MaxEdits, losses : 0 .. MaxLosses]
  <1>1. used \in [edits : 0 .. MaxEdits, losses : 0 .. MaxLosses]
    BY DEF ConfigTypeOK
  <1>. QED  BY <1>1, SpentBounds DEF Edit, Lose

LEMMA WriteTyped ==
    ASSUME ConfigTypeOK, NEW l \in Levels, NEW k \in Keys, NEW vs \in SUBSET Values, Write(l, k, vs)
    PROVE  /\ settings' \in [Levels -> [Keys -> SUBSET Values]]
           /\ settings'[l][k] = vs
           /\ \A m \in Levels, j \in Keys : <<m, j>> # <<l, k>> => settings'[m][j] = settings[m][j]
           /\ since' \in [Builds -> [ever : SUBSET (Levels \X Keys), always : SUBSET (Levels \X Keys)]]
  <1>1. settings' = [settings EXCEPT ![l] = [settings[l] EXCEPT ![k] = vs]]
    BY DEF Write
  <1>2. settings \in [Levels -> [Keys -> SUBSET Values]]
    BY DEF ConfigTypeOK
  <1>3. ASSUME NEW b \in Builds
        PROVE  since'[b] \in [ever : SUBSET (Levels \X Keys), always : SUBSET (Levels \X Keys)]
    <2>1. since[b].ever \subseteq Levels \X Keys /\ since[b].always \subseteq Levels \X Keys
      BY DEF ConfigTypeOK
    <2>. QED  BY <2>1 DEF Write
  <1>4. since' \in [Builds -> [ever : SUBSET (Levels \X Keys), always : SUBSET (Levels \X Keys)]]
    BY <1>3 DEF Write
  <1>. QED  BY <1>1, <1>2, <1>4

LEMMA BuildStarted ==
    ASSUME NEW r \in BuildStates, NEW p \in {"levels", "send"}, NEW f \in [Keys -> Choices],
           NEW c \in BOOLEAN
    PROVE  [r EXCEPT !.pc = p, !.found = f, !.command = c] \in BuildStates
  BY Zenon DEF BuildStates

LEMMA ConfigTypeStep == ConfigTypeInv /\ [ConfigNext]_configVars => ConfigTypeInv'
  <1>. SUFFICES ASSUME ConfigTypeInv, [ConfigNext]_configVars PROVE ConfigTypeInv'
    OBVIOUS
  <1>0. /\ ConfigTypeOK /\ LevelLeft /\ settings \in [Levels -> [Keys -> SUBSET Values]]
        /\ builds \in [Builds -> BuildStates]
        /\ running.mode \in {"start", "http", "ws"} /\ running.waits \in Builds \cup {Nobody}
        /\ running.cfg \in Configs /\ wire \in Seq([Keys -> Choices])
        /\ device.own \in Configs
    BY DEF ConfigTypeInv, ConfigTypeOK
  <1>m. \A m \in ModesAfterPush : m \in {"start", "http", "ws"}
    BY <1>0 DEF ModesAfterPush
  <1>1. ASSUME NEW b \in Builds, ReadProbe(b) PROVE ConfigTypeInv'
    <2>. DEFINE own == [k \in Keys |-> [level |-> Own, value |-> device.own[k]]]
                pc == IF device.override THEN "send" ELSE "levels"
                found == IF device.override THEN own ELSE Defaults
                command == device.command /\ builds[b].road # "edit"
    <2>1. command \in BOOLEAN /\ device \in [override : BOOLEAN, own : Configs, command : BOOLEAN]
      BY <1>0 DEF ConfigTypeOK
    <2>2. own \in [Keys -> Choices]
      BY <1>0 DEF Choices, Configs
    <2>3. pc \in {"send", "levels"} /\ found \in [Keys -> Choices]
      BY <2>2, DefaultsTyped
    <2>4. builds' = [builds EXCEPT ![b] = [builds[b] EXCEPT !.pc = pc, !.found = found, !.command = command]]
      <3>1. builds' = [builds EXCEPT ![b].pc = pc, ![b].found = found, ![b].command = command]
        BY <1>1, Zenon DEF ReadProbe
      <3>. HIDE DEF pc, found, command
      <3>. QED  BY <1>0, <3>1
    <2>. HIDE DEF pc, found, command
    <2>9. [builds[b] EXCEPT !.pc = pc, !.found = found, !.command = command] \in BuildStates
      <3>1. builds[b] \in BuildStates
        BY <1>0
      <3>. QED  BY <2>1, <2>3, <3>1, BuildStarted
    <2>5. builds' \in [Builds -> BuildStates]
      BY <1>0, <2>4, <2>9
    <2>6. LevelLeft'
      <3>1. builds[b].at \in Levels
        BY <1>0, <1>1 DEF LevelLeft, ReadProbe
      <3>3. builds'[b].at = builds[b].at
        BY <1>0, <2>4 DEF BuildStates
      <3>2. \A c \in Builds \ {b} : builds'[c] = builds[c]
        BY <1>0, <2>4
      <3>. QED  BY <1>0, <3>1, <3>2, <3>3 DEF LevelLeft
    <2>7. device' \in [override : BOOLEAN, own : Configs, command : BOOLEAN]
      <3>1. PICK c \in BOOLEAN : device' = [device EXCEPT !.command = c]
        <4>1. (device.command /\ builds[b].road = "edit") \in BOOLEAN
          OBVIOUS
        <4>. QED  BY <1>1, <4>1, Zenon DEF ReadProbe
      <3>. QED  BY <2>1, <3>1
    <2>8. since' \in [Builds -> [ever : SUBSET (Levels \X Keys), always : SUBSET (Levels \X Keys)]]
      BY <1>0, <1>1 DEF ReadProbe, IsSet, ConfigTypeOK
    <2>. QED  BY <1>0, <1>1, <2>5, <2>6, <2>7, <2>8 DEF ReadProbe, ConfigTypeInv, ConfigTypeOK
  <1>2. ASSUME NEW b \in Builds, ReadLevel(b) PROVE ConfigTypeInv'
    <2>. DEFINE pc == IF builds[b].at + 1 \in Levels THEN "levels" ELSE "send"
    <2>1. PICK f \in [Keys -> Choices] :
            builds' = [builds EXCEPT ![b].found = f, ![b].at = @ + 1, ![b].pc = pc]
      BY <1>2 DEF ReadLevel, Overrides
    <2>2. builds[b] \in BuildStates /\ builds[b].at \in Levels
      BY <1>0, <1>2 DEF ReadLevel, LevelLeft
    <2>3. /\ builds[b].at + 1 \in 1 .. Own /\ pc \in {"levels", "send"}
          /\ pc = "levels" => builds[b].at + 1 \in Levels
      BY <2>2, LevelNumbers
    <2>. HIDE DEF pc
    <2>. DEFINE step == [builds[b] EXCEPT !.found = f, !.at = builds[b].at + 1, !.pc = pc]
    <2>4. builds' = [builds EXCEPT ![b] = step]
      BY <1>0, <2>1 DEF BuildStates
    <2>5. step \in BuildStates /\ (step.pc # "send" => step.at \in Levels)
      BY <2>2, <2>3 DEF BuildStates
    <2>. HIDE DEF step
    <2>6. builds' \in [Builds -> BuildStates] /\ LevelLeft'
      BY <1>0, <2>4, <2>5 DEF LevelLeft
    <2>. QED  BY <1>0, <1>2, <2>6 DEF ReadLevel, ConfigTypeInv, ConfigTypeOK
  <1>3. ASSUME NEW b \in Builds, SendHttp(b) PROVE ConfigTypeInv'
    <2>1. builds' \in [Builds -> BuildStates] /\ LevelLeft'
      BY <1>0, <1>3, IdleBuildTyped DEF SendHttp, LevelLeft
    <2>2. since' \in [Builds -> [ever : SUBSET (Levels \X Keys), always : SUBSET (Levels \X Keys)]]
      BY <1>0, <1>3 DEF SendHttp, NothingSet, ConfigTypeOK
    <2>3. Applied(builds[b].found) \in Configs
      BY <1>0, AppliedTyped DEF BuildStates
    <2>4. running' \in [mode : {"start", "http", "ws"}, link : BOOLEAN,
                        waits : Builds \cup {Nobody}, cfg : Configs]
      <3>1. CASE running.waits = b
        <4>1. PICK m \in ModesAfterPush, c \in Configs :
                running' = [running EXCEPT !.waits = Nobody, !.mode = m, !.cfg = c]
          BY <1>0, <1>3, <2>3, <3>1 DEF SendHttp
        <4>. QED  BY <1>0, <1>m, <4>1 DEF ConfigTypeOK
      <3>2. CASE running.waits # b
        BY <1>0, <1>3, <3>2 DEF SendHttp, ConfigTypeOK
      <3>. QED  BY <3>1, <3>2
    <2>. QED  BY <1>0, <1>3, <2>1, <2>2, <2>4 DEF SendHttp, ConfigTypeInv, ConfigTypeOK
  <1>4. ASSUME NEW b \in Builds, SendWs(b) PROVE ConfigTypeInv'
    <2>1. builds' \in [Builds -> BuildStates] /\ LevelLeft'
      BY <1>0, <1>4, IdleBuildTyped DEF SendWs, LevelLeft
    <2>2. since' \in [Builds -> [ever : SUBSET (Levels \X Keys), always : SUBSET (Levels \X Keys)]]
      BY <1>0, <1>4 DEF SendWs, NothingSet, ConfigTypeOK
    <2>3. wire' \in Seq([Keys -> Choices])
      BY <1>0, <1>4 DEF SendWs, BuildStates
    <2>. QED  BY <1>0, <1>4, <2>1, <2>2, <2>3 DEF SendWs, ConfigTypeInv, ConfigTypeOK
  <1>5. ASSUME NEW b \in Builds, HttpPushes(b) \/ WsPushes(b) PROVE ConfigTypeInv'
    <2>1. builds' \in [Builds -> BuildStates] /\ LevelLeft'
      BY <1>5, StartBuildTyped DEF HttpPushes, WsPushes
    <2>2. running' \in [mode : {"start", "http", "ws"}, link : BOOLEAN,
                        waits : Builds \cup {Nobody}, cfg : Configs]
      BY <1>0, <1>5 DEF HttpPushes, WsPushes, ConfigTypeOK
    <2>. QED  BY <1>0, <1>5, <2>1, <2>2 DEF HttpPushes, WsPushes, ConfigTypeInv, ConfigTypeOK
  <1>6. CASE ReceiveWs
    <2>1. wire # <<>> /\ wire' = Tail(wire) /\ running' = [running EXCEPT !.cfg = Applied(Head(wire))]
      BY <1>6 DEF ReceiveWs
    <2>2. Head(wire) \in [Keys -> Choices] /\ wire' \in Seq([Keys -> Choices])
      BY <1>0, <2>1
    <2>3. Applied(Head(wire)) \in Configs
      BY <1>0, <2>2, AppliedTyped
    <2>4. running' \in [mode : {"start", "http", "ws"}, link : BOOLEAN,
                        waits : Builds \cup {Nobody}, cfg : Configs]
      BY <1>0, <2>1, <2>3 DEF ConfigTypeOK
    <2>. QED  BY <1>0, <1>6, <2>2, <2>4 DEF ReceiveWs, ConfigTypeInv, ConfigTypeOK, LevelLeft
  <1>7. CASE Connects \/ GivesUp \/ Disconnects \/ Restarts
    <2>1. running' \in [mode : {"start", "http", "ws"}, link : BOOLEAN,
                        waits : Builds \cup {Nobody}, cfg : Configs]
      <3>1. CASE Connects \/ Disconnects
        BY <1>0, <3>1 DEF Connects, Disconnects, ConfigTypeOK
      <3>2. CASE GivesUp
        BY <1>0, <1>m, <3>2 DEF GivesUp, ConfigTypeOK
      <3>3. CASE Restarts
        <4>1. [running.cfg EXCEPT !["subnets"] = Default] \in Configs
          BY <1>0 DEF Configs, Keys
        <4>. QED  BY <3>3, <4>1 DEF Restarts
      <3>. QED  BY <1>7, <3>1, <3>2, <3>3
    <2>2. used' \in [edits : 0 .. MaxEdits, losses : 0 .. MaxLosses]
      BY <1>0, <1>7, UsedCounted DEF Connects, GivesUp, Disconnects, Restarts
    <2>3. wire' \in Seq([Keys -> Choices])
      <3>1. wire' = wire \/ wire' = <<>>
        BY <1>7 DEF Connects, GivesUp, Disconnects, Restarts
      <3>2. <<>> \in Seq([Keys -> Choices])
        OBVIOUS
      <3>. QED  BY <1>0, <3>1, <3>2, Zenon
    <2>. QED  BY <1>0, <1>7, <2>1, <2>2, <2>3
              DEF Connects, GivesUp, Disconnects, Restarts, ConfigTypeInv, ConfigTypeOK, LevelLeft
  <1>14. ASSUME NEW b \in Builds, BuildFails(b) PROVE ConfigTypeInv'
    <2>1. builds' \in [Builds -> BuildStates] /\ LevelLeft'
      BY <1>0, <1>14, IdleBuildTyped DEF BuildFails, LevelLeft
    <2>2. since' \in [Builds -> [ever : SUBSET (Levels \X Keys), always : SUBSET (Levels \X Keys)]]
      BY <1>0, <1>14 DEF BuildFails, NothingSet, ConfigTypeOK
    <2>3. used' \in [edits : 0 .. MaxEdits, losses : 0 .. MaxLosses]
      BY <1>0, <1>14, UsedCounted DEF BuildFails
    <2>4. running' \in [mode : {"start", "http", "ws"}, link : BOOLEAN,
                        waits : Builds \cup {Nobody}, cfg : Configs]
      <3>1. CASE running.waits = b
        <4>1. PICK c \in Configs : c = [running.cfg EXCEPT !["subnets"] = Default]
          BY <1>0 DEF Configs, Keys
        <4>2. PICK m \in ModesAfterPush :
                running' = [running EXCEPT !.waits = Nobody, !.mode = m, !.cfg["subnets"] = Default]
          BY <1>14, <3>1 DEF BuildFails
        <4>3. running' = [running EXCEPT !.waits = Nobody, !.mode = m, !.cfg = c]
          BY <4>1, <4>2
        <4>. QED  BY <1>0, <1>m, <4>3 DEF ConfigTypeOK
      <3>2. CASE running.waits # b
        BY <1>0, <1>14, <3>2 DEF BuildFails, ConfigTypeOK
      <3>. QED  BY <3>1, <3>2
    <2>. QED  BY <1>0, <1>14, <2>1, <2>2, <2>3, <2>4 DEF BuildFails, ConfigTypeInv, ConfigTypeOK
  <1>8. ASSUME NEW l \in Levels, NEW k \in Keys, NEW vs \in SUBSET Values, Edit, Write(l, k, vs),
               UNCHANGED <<device, builds, running, wire>>
        PROVE  ConfigTypeInv'
    BY <1>0, <1>8, WriteTyped, UsedCounted DEF ConfigTypeInv, ConfigTypeOK, LevelLeft
  <1>9. ASSUME NEW l \in Levels, NEW k \in Keys, NEW v \in Values, Remove(l, k) \/ Set(l, k, v)
        PROVE  ConfigTypeInv'
    BY <1>0, <1>8, <1>9 DEF Remove, Set
  <1>10. ASSUME NEW b \in Builds, NEW o \in BOOLEAN, NEW k \in Keys, NEW v \in Values,
                UpdateConfig(b, o, k, v)
         PROVE  ConfigTypeInv'
    <2>1. builds' \in [Builds -> BuildStates] /\ LevelLeft'
      BY <1>0, <1>10, StartBuildTyped DEF UpdateConfig, LevelLeft
    <2>2. device' \in [override : BOOLEAN, own : Configs, command : BOOLEAN]
      <3>1. [device.own EXCEPT ![k] = v] \in Configs
        BY <1>0 DEF Configs
      <3>2. device' = [device EXCEPT !.override = o, !.own = [device.own EXCEPT ![k] = v]]
        BY <1>10 DEF UpdateConfig
      <3>. QED  BY <1>0, <3>1, <3>2 DEF ConfigTypeOK
    <2>3. used' \in [edits : 0 .. MaxEdits, losses : 0 .. MaxLosses]
      BY <1>0, <1>10, UsedCounted DEF UpdateConfig
    <2>. QED  BY <1>0, <1>10, <2>1, <2>2, <2>3 DEF UpdateConfig, ConfigTypeInv, ConfigTypeOK
  <1>11. CASE QueueCommand
    <2>1. device' \in [override : BOOLEAN, own : Configs, command : BOOLEAN]
      BY <1>0, <1>11 DEF QueueCommand, ConfigTypeOK
    <2>2. used' \in [edits : 0 .. MaxEdits, losses : 0 .. MaxLosses]
      BY <1>0, <1>11, UsedCounted DEF QueueCommand
    <2>. QED  BY <1>0, <1>11, <2>1, <2>2 DEF QueueCommand, ConfigTypeInv, ConfigTypeOK, LevelLeft
  <1>12. CASE UNCHANGED configVars
    BY <1>0, <1>12 DEF configVars, ConfigTypeInv, ConfigTypeOK, LevelLeft
  <1>13. Values # {}
    BY LevelsAssumption
  <1>. QED  BY <1>1, <1>2, <1>3, <1>4, <1>5, <1>6, <1>7, <1>9, <1>10, <1>11, <1>12, <1>13, <1>14
            DEF ConfigNext, Build, ProbePushes

LEMMA ConfigTypes == ConfigSpec => []ConfigTypeInv
  BY ConfigTypeInit, ConfigTypeStep, PTL DEF ConfigSpec

-----------------------------------------------------------------------------
(* ProbeConfig: the nearest override.                                      *)

\* What the history knows while a handler reads: what was set all the time is set
\* now, and what is set now was set at some time.
Remembers(b) ==
    /\ \A l \in Levels, k \in Keys : <<l, k>> \in since[b].always => settings[l][k] # {}
    /\ \A l \in Levels, k \in Keys : settings[l][k] # {} => <<l, k>> \in since[b].ever

\* Of the levels below n, found has for k one that was set, and no nearer one was
\* set all the time.
NearestBelow(n, b, k) ==
    LET l == builds[b].found[k].level
    IN /\ l = 0 \/ (l \in Levels /\ <<l, k>> \in since[b].ever)
       /\ \A m \in Levels : m > l /\ m < n => <<m, k>> \notin since[b].always

NearestOf(b) ==
    /\ builds[b].pc = "probe" => builds[b].at = 1
    /\ builds[b].pc \in {"levels", "send"} => Remembers(b)
    /\ builds[b].pc = "levels" => \A k \in Keys : NearestBelow(builds[b].at, b, k)
    /\ builds[b].pc = "send" =>
          \A k \in Keys : builds[b].found[k].level = Own \/ NearestBelow(Own, b, k)
NearestInv == \A b \in Builds : NearestOf(b)

LEMMA NearestInit == ConfigInit => NearestInv
  BY DEF ConfigInit, NearestInv, NearestOf, IdleBuild

\* A step leaves a handler alone if it leaves alone the table, too, and its part of
\* the history; a handler that does not read yet has no history.
LEMMA NearestKept ==
    ASSUME NEW b \in Builds, UNCHANGED settings,
           \/ NearestOf(b) /\ builds'[b] = builds[b] /\ since'[b] = since[b]
           \/ builds'[b].pc = "free" \/ (builds'[b].pc = "probe" /\ builds'[b].at = 1)
    PROVE  NearestOf(b)'
  BY DEF NearestOf, Remembers, NearestBelow

LEMMA NearestStart ==
    ASSUME ConfigTypeInv, NEW b \in Builds, NEW road \in {"http", "ws", "edit"}, StartBuild(b, road)
    PROVE  builds'[b].pc = "probe" /\ builds'[b].at = 1
  <1>1. builds'[b] = [IdleBuild EXCEPT !.pc = "probe", !.road = road]
    BY DEF StartBuild, ConfigTypeInv, ConfigTypeOK
  <1>. QED  BY <1>1 DEF IdleBuild

LEMMA NearestStep == ConfigTypeInv /\ NearestInv /\ [ConfigNext]_configVars => NearestInv'
  <1>. SUFFICES ASSUME ConfigTypeInv, NearestInv, [ConfigNext]_configVars PROVE NearestInv'
    OBVIOUS
  <1>0. /\ ConfigTypeOK /\ LevelLeft /\ settings \in [Levels -> [Keys -> SUBSET Values]]
        /\ builds \in [Builds -> BuildStates]
        /\ since \in [Builds -> [ever : SUBSET (Levels \X Keys), always : SUBSET (Levels \X Keys)]]
        /\ \A b \in Builds : NearestOf(b)
    BY DEF ConfigTypeInv, ConfigTypeOK, NearestInv, NearestOf
  <1>i. ASSUME \A b \in Builds : NearestOf(b)' PROVE NearestInv'
    BY <1>i DEF NearestInv, NearestOf
  <1>k. ASSUME UNCHANGED settings,
               \A b \in Builds : \/ builds'[b] = builds[b] /\ since'[b] = since[b]
                                 \/ builds'[b].pc = "free" \/ (builds'[b].pc = "probe" /\ builds'[b].at = 1)
        PROVE  NearestInv'
    BY <1>0, <1>i, <1>k, NearestKept
  <1>1. ASSUME NEW b \in Builds, ReadProbe(b) PROVE NearestInv'
    <2>1. /\ since'[b].ever = IsSet /\ since'[b].always = IsSet
          /\ \A c \in Builds \ {b} : builds'[c] = builds[c] /\ since'[c] = since[c]
          /\ settings' = settings
      BY <1>0, <1>1 DEF ReadProbe
    <2>2. Remembers(b)'
      BY <2>1 DEF Remembers, IsSet
    <2>3. builds[b].pc = "probe" /\ builds[b].at = 1
      BY <1>0, <1>1 DEF ReadProbe, NearestOf
    <2>4. CASE device.override
      <3>1. builds'[b].pc = "send"
        BY <1>0, <1>1, <2>4 DEF ReadProbe, BuildStates
      <3>2. \A k \in Keys : builds'[b].found[k].level = Own
        BY <1>0, <1>1, <2>4 DEF ReadProbe, BuildStates
      <3>. QED  BY <1>0, <1>i, <2>1, <2>2, <3>1, <3>2, NearestKept DEF NearestOf
    <2>5. CASE ~device.override
      <3>1. builds'[b].pc = "levels"
        BY <1>0, <1>1, <2>5 DEF ReadProbe, BuildStates
      <3>2. builds'[b].at = 1
        BY <1>0, <1>1, <2>3 DEF ReadProbe, BuildStates
      <3>3. \A k \in Keys : builds'[b].found[k].level = 0
        BY <1>0, <1>1, <2>5 DEF ReadProbe, BuildStates, Defaults
      <3>4. \A k \in Keys : NearestBelow(builds[b].at, b, k)'
        BY <3>2, <3>3, LevelNumbers DEF NearestBelow
      <3>5. NearestOf(b)'
        BY <2>2, <3>1, <3>4 DEF NearestOf
      <3>. QED  BY <1>0, <1>i, <2>1, <3>5, NearestKept
    <2>. QED  BY <2>4, <2>5
  <1>2. ASSUME NEW b \in Builds, ReadLevel(b) PROVE NearestInv'
    <2>0. PICK n \in Levels : builds[b].at = n
      BY <1>0, <1>2 DEF ReadLevel, LevelLeft
    <2>1. PICK f \in Overrides(builds[b].found, n) :
            builds' = [builds EXCEPT ![b].found = f, ![b].at = @ + 1,
                                     ![b].pc = IF n + 1 \in Levels THEN "levels" ELSE "send"]
      BY <1>2, <2>0 DEF ReadLevel
    <2>2. builds[b].pc = "levels" /\ n \in Levels /\ settings' = settings /\ since' = since
      BY <1>0, <1>2 DEF ReadLevel, LevelLeft
    <2>3. /\ builds'[b].found = f /\ builds'[b].at = n + 1
          /\ builds'[b].pc = IF n + 1 \in Levels THEN "levels" ELSE "send"
      BY <1>0, <2>0, <2>1 DEF BuildStates
    <2>4. \A c \in Builds \ {b} : builds'[c] = builds[c]
      BY <1>0, <2>1
    <2>5. Remembers(b) /\ \A k \in Keys : NearestBelow(n, b, k)
      BY <1>0, <2>0, <2>2 DEF NearestOf
    <2>6. ASSUME NEW k \in Keys PROVE NearestBelow(n + 1, b, k)'
      <3>1. CASE settings[n][k] = {}
        <4>1. f[k] = builds[b].found[k]
          BY <2>1, <3>1 DEF Overrides
        <4>2. <<n, k>> \notin since[b].always
          BY <2>2, <2>5, <3>1 DEF Remembers
        <4>3. \A m \in Levels : m < n + 1 => m < n \/ m = n
          BY <2>2, LevelNumbers
        <4>. QED  BY <2>2, <2>3, <2>5, <4>1, <4>2, <4>3 DEF NearestBelow
      <3>2. CASE settings[n][k] # {}
        <4>1. f[k].level = n
          BY <2>1, <3>2 DEF Overrides
        <4>2. <<n, k>> \in since[b].ever
          BY <2>2, <2>5, <3>2 DEF Remembers
        <4>3. \A m \in Levels : ~(m > n /\ m < n + 1)
          BY <2>2, LevelNumbers
        <4>. QED  BY <2>2, <2>3, <4>1, <4>2, <4>3 DEF NearestBelow
      <3>. QED  BY <3>1, <3>2
    <2>7. NearestOf(b)'
      <3>1. Remembers(b)'
        BY <2>2, <2>5 DEF Remembers
      <3>2. CASE n + 1 \in Levels
        BY <2>3, <2>6, <3>1, <3>2 DEF NearestOf
      <3>3. CASE n + 1 \notin Levels
        <4>1. n + 1 = Own
          BY <2>2, <3>3, LevelNumbers
        <4>. QED  BY <2>3, <2>6, <3>1, <3>3, <4>1 DEF NearestOf
      <3>. QED  BY <3>2, <3>3
    <2>. QED  BY <1>0, <1>i, <2>2, <2>4, <2>7, NearestKept
  <1>3. ASSUME NEW b \in Builds, SendHttp(b) \/ SendWs(b) \/ BuildFails(b) PROVE NearestInv'
    BY <1>0, <1>k, <1>3, IdleBuildTyped DEF SendHttp, SendWs, BuildFails
  <1>4. ASSUME NEW b \in Builds, NEW road \in {"http", "ws", "edit"},
               StartBuild(b, road) \/ UNCHANGED builds, UNCHANGED <<settings, since>>
        PROVE  NearestInv'
    BY <1>k, <1>4, StartBuildTyped, NearestStart
  <1>5. ASSUME NEW l \in Levels, NEW k \in Keys, NEW vs \in SUBSET Values, Write(l, k, vs),
               UNCHANGED builds
        PROVE  NearestInv'
    <2>1. /\ settings'[l][k] = vs
          /\ \A m \in Levels, j \in Keys : <<m, j>> # <<l, k>> => settings'[m][j] = settings[m][j]
      BY <1>0, <1>5, WriteTyped
    <2>2. ASSUME NEW b \in Builds PROVE NearestOf(b)'
      <3>1. /\ since'[b].ever = since[b].ever \cup
                    (IF vs # {} /\ builds[b].pc \in {"levels", "send"} THEN {<<l, k>>} ELSE {})
            /\ since'[b].always = since[b].always \ (IF vs = {} THEN {<<l, k>>} ELSE {})
        BY <1>5 DEF Write
      <3>2. ASSUME builds[b].pc \in {"levels", "send"} PROVE Remembers(b)'
        <4>1. Remembers(b)
          BY <1>0, <3>2 DEF NearestOf
        <4>2. ASSUME NEW m \in Levels, NEW j \in Keys, <<m, j>> \in since'[b].always
              PROVE  settings'[m][j] # {}
          <5>1. CASE <<m, j>> = <<l, k>>
            BY <2>1, <3>1, <4>2, <5>1
          <5>2. CASE <<m, j>> # <<l, k>>
            BY <2>1, <3>1, <4>1, <4>2, <5>2 DEF Remembers
          <5>. QED  BY <5>1, <5>2
        <4>3. ASSUME NEW m \in Levels, NEW j \in Keys, settings'[m][j] # {}
              PROVE  <<m, j>> \in since'[b].ever
          <5>1. CASE <<m, j>> = <<l, k>>
            BY <2>1, <3>1, <3>2, <4>3, <5>1
          <5>2. CASE <<m, j>> # <<l, k>>
            BY <2>1, <3>1, <4>1, <4>3, <5>2 DEF Remembers
          <5>. QED  BY <5>1, <5>2
        <4>. QED  BY <4>2, <4>3 DEF Remembers
      <3>3. ASSUME NEW n, NEW j \in Keys, NearestBelow(n, b, j)
            PROVE  /\ \/ builds[b].found[j].level = 0
                      \/ /\ builds[b].found[j].level \in Levels
                         /\ <<builds[b].found[j].level, j>> \in since'[b].ever
                   /\ \A m \in Levels : m > builds[b].found[j].level /\ m < n => <<m, j>> \notin since'[b].always
        BY <3>1, <3>3 DEF NearestBelow
      <3>4. builds' = builds
        BY <1>5
      <3>. QED  BY <1>0, <3>2, <3>3, <3>4 DEF NearestOf, NearestBelow
    <2>. QED  BY <1>i, <2>2
  <1>6. ASSUME NEW l \in Levels, NEW k \in Keys, NEW v \in Values, Remove(l, k) \/ Set(l, k, v)
        PROVE  NearestInv'
    BY <1>0, <1>5, <1>6 DEF Remove, Set
  <1>7. Values # {}
    BY LevelsAssumption
  <1>8. CASE ReceiveWs \/ Connects \/ GivesUp \/ Disconnects \/ Restarts \/ QueueCommand \/ UNCHANGED configVars
    BY <1>k, <1>8 DEF ReceiveWs, Connects, GivesUp, Disconnects, Restarts, QueueCommand, configVars
  <1>9. ASSUME NEW b \in Builds, HttpPushes(b) \/ WsPushes(b) PROVE NearestInv'
    BY <1>4, <1>9 DEF HttpPushes, WsPushes
  <1>10. ASSUME NEW b \in Builds, NEW o \in BOOLEAN, NEW k \in Keys, NEW v \in Values,
                UpdateConfig(b, o, k, v)
         PROVE  NearestInv'
    <2>1. StartBuild(b, "edit") \/ UNCHANGED builds
      BY <1>10 DEF UpdateConfig
    <2>2. UNCHANGED <<settings, since>>
      BY <1>10 DEF UpdateConfig
    <2>. QED  BY <1>4, <2>1, <2>2
  <1>. QED  BY <1>1, <1>2, <1>3, <1>6, <1>7, <1>8, <1>9, <1>10 DEF ConfigNext, Build, ProbePushes

\* NearestWins: for any number of groups and of handlers that read, a configuration
\* that is sent has for each setting a value that its level had during the read, and
\* no nearer level was set all the time.
THEOREM NearestOverrideWins == ConfigSpec => []NearestWins
  <1>1. ConfigTypeInv /\ NearestInv => NearestWins
    BY LevelNumbers DEF NearestInv, NearestOf, NearestBelow, NearestWins
  <1>. QED  BY <1>1, ConfigTypes, NearestInit, NearestStep, PTL DEF ConfigSpec

-----------------------------------------------------------------------------
(* ProbeConnection, and the three parts side by side.                      *)

LEMMA ConnTypeInit == ConnInit => ConnTypeOK
  BY RescansAssumption DEF ConnInit, ConnTypeOK

LEMMA ConnTypeStep == ConnTypeOK /\ [ConnNext]_connVars => ConnTypeOK'
  <1>. SUFFICES ASSUME ConnTypeOK, [ConnNext]_connVars PROVE ConnTypeOK'
    OBVIOUS
  <1>1. CASE TickerFirst \/ TickerTicks \/ TickerDone
    BY <1>1 DEF TickerFirst, TickerTicks, TickerDone, ConnTypeOK
  <1>2. CASE WorkerTakes \/ WorkerScans \/ WorkerLocks \/ WorkerWrites \/ WorkerReports
    BY <1>2 DEF WorkerTakes, WorkerScans, WorkerLocks, WorkerWrites, WorkerReports, ConnTypeOK
  <1>3. CASE BeatTicks \/ BeatLocks \/ BeatWrites \/ BeatDone
    BY <1>3 DEF BeatTicks, BeatLocks, BeatWrites, BeatDone, ConnTypeOK
  <1>4. CASE ReaderRescan
    BY <1>4, RescansAssumption DEF ReaderRescan, ConnTypeOK
  <1>5. CASE ReaderFails \/ ReaderReports \/ ReaderCloses
    BY <1>5 DEF ReaderFails, ReaderReports, ReaderCloses, ConnTypeOK
  <1>6. CASE SocketDies \/ UNCHANGED connVars
    BY <1>6 DEF SocketDies, connVars, ConnTypeOK
  <1>. QED  BY <1>1, <1>2, <1>3, <1>4, <1>5, <1>6 DEF ConnNext, Ticker, Worker, Beat, Reader

\* The lock is held by whoever writes, and a value in the channel done that the
\* reader has not put there is the worker's, for the ticker to take.
LockWrites ==
    /\ wsMu = "worker" <=> worker = "write"
    /\ wsMu = "beat" <=> beat = "write"
DoneTaken ==
    reader \in {"read", "report"} =>
        /\ done = 1 \/ ticker = "stopped" => worker = "stopped"
        /\ done = 1 => ticker # "stopped"

\* Before the ticker's first step, every value in scanTrigger or taken from it was a rescan's.
RescansFirst ==
    ticker = "first" => scanTrigger + (IF worker = "wait" THEN 0 ELSE 1) <= rescans

ReaderInv == ConnTypeOK /\ LockWrites /\ DoneTaken /\ RescansFirst

LEMMA ReaderInit == ConnInit => ReaderInv
  BY ConnTypeInit DEF ConnInit, ReaderInv, LockWrites, DoneTaken, RescansFirst

LEMMA RescansStep == ConnTypeOK /\ RescansFirst /\ [ConnNext]_connVars => RescansFirst'
  <1>. SUFFICES ASSUME ConnTypeOK, RescansFirst, [ConnNext]_connVars, ticker' = "first"
                PROVE  scanTrigger' + (IF worker' = "wait" THEN 0 ELSE 1) <= rescans'
    BY DEF RescansFirst
  <1>0. scanTrigger \in 0 .. 1 /\ rescans \in Nat /\ MaxRescans \in Nat
    BY RescansAssumption DEF ConnTypeOK
  <1>1. CASE TickerFirst \/ TickerTicks \/ TickerDone
    BY <1>0, <1>1 DEF TickerFirst, TickerTicks, TickerDone, RescansFirst
  <1>2. CASE WorkerTakes \/ WorkerScans \/ WorkerLocks \/ WorkerWrites \/ WorkerReports
    BY <1>0, <1>2 DEF WorkerTakes, WorkerScans, WorkerLocks, WorkerWrites, WorkerReports, RescansFirst
  <1>3. CASE BeatTicks \/ BeatLocks \/ BeatWrites \/ BeatDone \/ ReaderFails \/ ReaderReports \/ ReaderCloses
             \/ SocketDies \/ UNCHANGED connVars
    BY <1>0, <1>3 DEF BeatTicks, BeatLocks, BeatWrites, BeatDone, ReaderFails, ReaderReports, ReaderCloses,
                      SocketDies, connVars, RescansFirst
  <1>4. CASE ReaderRescan
    BY <1>0, <1>4 DEF ReaderRescan, RescansFirst
  <1>. QED  BY <1>1, <1>2, <1>3, <1>4 DEF ConnNext, Ticker, Worker, Beat, Reader

LEMMA ReaderStep == ReaderInv /\ [ConnNext]_connVars => ReaderInv'
  <1>. SUFFICES ASSUME ConnTypeOK, LockWrites, DoneTaken, [ConnNext]_connVars
                PROVE  LockWrites' /\ DoneTaken'
    BY ConnTypeStep, RescansStep DEF ReaderInv
  <1>1. CASE TickerFirst \/ TickerTicks \/ TickerDone
    BY <1>1 DEF TickerFirst, TickerTicks, TickerDone, LockWrites, DoneTaken
  <1>2. CASE WorkerTakes \/ WorkerScans \/ WorkerReports
    BY <1>2 DEF WorkerTakes, WorkerScans, WorkerReports, LockWrites, DoneTaken
  <1>3. CASE WorkerLocks \/ WorkerWrites
    BY <1>3 DEF WorkerLocks, WorkerWrites, LockWrites, DoneTaken
  <1>4. CASE BeatTicks \/ BeatLocks \/ BeatWrites \/ BeatDone
    BY <1>4 DEF BeatTicks, BeatLocks, BeatWrites, BeatDone, LockWrites, DoneTaken
  <1>5. CASE ReaderRescan \/ ReaderFails \/ ReaderReports \/ ReaderCloses
    BY <1>5 DEF ReaderRescan, ReaderFails, ReaderReports, ReaderCloses, LockWrites, DoneTaken
  <1>6. CASE SocketDies \/ UNCHANGED connVars
    BY <1>6 DEF SocketDies, connVars, LockWrites, DoneTaken
  <1>. QED  BY <1>1, <1>2, <1>3, <1>4, <1>5, <1>6 DEF ConnNext, Ticker, Worker, Beat, Reader

\* What ConnectionEnds rests on: a reader that finds the channel done full has a ticker that
\* can take the value out, at once or after its first step, or the ticker was overtaken; this
\* takes two rescans before the ticker's first step.  And a reader that waits for the lock of
\* the socket waits for a goroutine that is writing.
ReaderWaitsForOthers ==
    /\ reader = "report" /\ done = 1 =>
          \/ ticker = "loop"
          \/ ticker = "first" /\ scanTrigger = 0
          \/ TickerOvertaken
    /\ TickerOvertaken => rescans >= 2
    /\ reader = "close" /\ wsMu # "nobody" => worker = "write" \/ beat = "write"

THEOREM ReaderBlockedOnlyIfOvertaken == ConnSpec => []ReaderWaitsForOthers
  <1>1. ReaderInv => ReaderWaitsForOthers
    <2>. SUFFICES ASSUME ConnTypeOK, LockWrites, DoneTaken, RescansFirst PROVE ReaderWaitsForOthers
      BY DEF ReaderInv
    <2>1. ticker \in {"first", "loop", "stopped"} /\ scanTrigger \in 0 .. 1 /\ rescans \in Nat
      BY RescansAssumption DEF ConnTypeOK
    <2>2. TickerOvertaken => rescans >= 2
      BY <2>1 DEF TickerOvertaken, RescansFirst
    <2>3. reader = "report" /\ done = 1 =>
              ticker = "loop" \/ (ticker = "first" /\ scanTrigger = 0) \/ TickerOvertaken
      BY <2>1 DEF DoneTaken, TickerOvertaken
    <2>4. reader = "close" /\ wsMu # "nobody" => worker = "write" \/ beat = "write"
      BY DEF ConnTypeOK, LockWrites
    <2>. QED  BY <2>2, <2>3, <2>4 DEF ReaderWaitsForOthers
  <1>. QED  BY <1>1, ReaderInit, ReaderStep, PTL DEF ConnSpec

\* Each part moves by its own steps, whatever the others are doing.
LEMMA PartsOfProbe == Spec => ConfigSpec /\ ConnSpec /\ UpdateSpec
  <1>1. Init => ConfigInit /\ ConnInit /\ UpdateInit
    BY DEF Init
  <1>2. [Next]_vars => [ConfigNext]_configVars /\ [ConnNext]_connVars /\ [UpdateNext]_updateVars
    BY DEF Next, vars, OnlyConfig, OnlyConn, OnlyUpdate
  <1>. QED  BY <1>1, <1>2, PTL DEF Spec, ConfigSpec, ConnSpec, UpdateSpec

\* ProbePartsTypeOK: side by side, the three parts keep their types.
THEOREM ProbePartsTyped == Spec => []ProbePartsTypeOK
  <1>1. ConfigSpec => []ConfigTypeInv
    BY ConfigTypes
  <1>2. ConnSpec => []ConnTypeOK
    BY ConnTypeInit, ConnTypeStep, PTL DEF ConnSpec
  <1>3. UpdateSpec => []UpdateTypeInv
    BY UpdateTypes
  <1>4. ConfigTypeInv /\ ConnTypeOK /\ UpdateTypeInv => ProbePartsTypeOK
    BY DEF ConfigTypeInv, UpdateTypeInv, ProbePartsTypeOK
  <1>. QED  BY <1>1, <1>2, <1>3, <1>4, PartsOfProbe, PTL

\* What holds of each part alone holds of the parts side by side.
COROLLARY ProbePartsHold ==
    Spec => [](NearestWins /\ ExeIsWhole /\ ProbeStarts) /\ [][version = 2 => version' # 1]_updateVars
  BY PartsOfProbe, NearestOverrideWins, ExeStaysWhole, ProbeStartsAgain, NoDowngrade, PTL
=============================================================================
