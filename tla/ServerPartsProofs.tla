--------------------------- MODULE ServerPartsProofs ---------------------------
(***************************************************************************)
(* Proofs about what the server keeps for probes, pages, teams and         *)
(* accounts, for any numbers of sockets, requests, groups and sign-ins:    *)
(* the six parts keep their types, a connected probe keeps its entry, the  *)
(* channel done of a tunnel is closed once and a request gets one status   *)
(* line, a page at rest shows what it was told of, every report of a flow  *)
(* is counted, the list of a user's groups is of its time, and nobody      *)
(* signs in to the account of another.                                     *)
(***************************************************************************)
EXTENDS MCServerParts, NatRecursion, TLAPS

-----------------------------------------------------------------------------
(* ProbeHub.                                                               *)

LEMMA QueueTyped ==
    ASSUME NEW S, NEW q \in Seq(S), NEW t \in Seq(S), NEW x \in S
    PROVE  /\ Append(q, x) \in Seq(S) /\ q \o t \in Seq(S)
           /\ q # <<>> => Head(q) \in S /\ Tail(q) \in Seq(S)
  <1>1. Append(q, x) \in Seq(S)
    OBVIOUS
  <1>2. q \o t \in Seq(S)
    OBVIOUS
  <1>3. q # <<>> => Head(q) \in S /\ Tail(q) \in Seq(S)
    OBVIOUS
  <1>. QED  BY <1>1, <1>2, <1>3

LEMMA HubTypeInit == HubInit => HubTypeOK
  BY SocketsAssumption DEF HubInit, HubTypeOK, Sockets

LEMMA HubTypeStep == HubTypeOK /\ [HubNext]_hubVars => HubTypeOK'
  <1>. SUFFICES ASSUME HubTypeOK, [HubNext]_hubVars PROVE HubTypeOK'
    OBVIOUS
  <1>. USE SocketsAssumption DEF HubTypeOK
  <1>1. CASE Dial
    BY <1>1 DEF Dial, Sockets
  <1>2. ASSUME NEW s \in Sockets, Near(s) PROVE HubTypeOK'
    BY <1>2 DEF Near, Connected, NearGoes
  <1>3. ASSUME NEW s \in Sockets, Upgrade(s) PROVE HubTypeOK'
    BY <1>3 DEF Upgrade, Sockets
  <1>4. ASSUME NEW s \in Sockets, Listen(s) PROVE HubTypeOK'
    BY <1>4 DEF Listen
  <1>5. ASSUME NEW s \in Sockets, Refuse(s) \/ FarCloses(s) \/ FarNotices(s) PROVE HubTypeOK'
    <2>1. far' = [far EXCEPT ![s] = "closed"] /\ UNCHANGED <<dialed, near, listens, cut, broken>>
      BY <1>5 DEF Refuse, FarCloses, FarNotices
    <2>2. entry' = entry \/ entry' = 0
      BY <1>5 DEF Refuse, FarCloses, FarNotices, EntryAfterClose
    <2>. QED  BY <2>1, <2>2
  <1>6. ASSUME NEW s \in Sockets, NearFails(s) \/ Cut(s) PROVE HubTypeOK'
    BY <1>6 DEF NearFails, Cut, Breaks
  <1>7. CASE RestartServer
    BY <1>7 DEF RestartServer, Breaks
  <1>8. CASE UNCHANGED hubVars
    BY <1>8 DEF hubVars
  <1>. QED  BY <1>1, <1>2, <1>3, <1>4, <1>5, <1>6, <1>7, <1>8 DEF HubNext, Far

LEMMA HubTypes == HubSpec => []HubTypeOK
  BY HubTypeInit, HubTypeStep, PTL DEF HubSpec

LEMMA KeepsEntry ==
    ASSUME HubTypeOK, [HubNext]_hubVars, NEW s \in Sockets,
           entry = s, far[s] = "open", broken' = broken
    PROVE  entry' = s \/ far'[s] # "open"
  <1>1. CASE Dial
    BY <1>1 DEF Dial
  <1>2. ASSUME NEW t \in Sockets, Near(t) \/ Listen(t) \/ Refuse(t) PROVE entry' = s
    BY <1>2 DEF Near, Connected, NearGoes, Listen, Refuse
  <1>3. ASSUME NEW t \in Sockets, Upgrade(t) PROVE far'[s] # "open"
    BY <1>3 DEF Upgrade
  <1>4. ASSUME NEW t \in Sockets, FarCloses(t) PROVE entry' = s
    BY <1>4 DEF FarCloses, EntryAfterClose
  <1>5. ASSUME NEW t \in Sockets, FarNotices(t) PROVE entry' = s \/ far'[s] # "open"
    BY <1>5 DEF FarNotices, EntryAfterClose, HubTypeOK
  <1>6. ASSUME NEW t \in Sockets, NearFails(t) \/ Cut(t) PROVE entry' = s
    BY <1>6 DEF NearFails, Cut
  <1>7. ~RestartServer
    BY SocketsAssumption DEF RestartServer, Breaks, HubTypeOK
  <1>8. CASE UNCHANGED hubVars
    BY <1>8 DEF hubVars
  <1>. QED  BY <1>1, <1>2, <1>3, <1>4, <1>5, <1>6, <1>7, <1>8 DEF HubNext, Far

\* ConnectedStaysRegistered: whatever the other sockets do and in whatever order they
\* close, and however many there are, a registered socket is replaced only by an
\* upgrade that closes it.
THEOREM EntryIsKept == HubSpec => ConnectedStaysRegistered
  <1>1. HubTypeOK /\ [HubNext]_hubVars =>
          [\A s \in Sockets : entry = s /\ far[s] = "open" /\ broken' = broken =>
              entry' = s \/ far'[s] # "open"]_hubVars
    BY KeepsEntry
  <1>. QED  BY <1>1, HubTypes, PTL DEF HubSpec, ConnectedStaysRegistered

\* The half of HubSettles that is about safety: the server never has two sockets of
\* the probe open, nor the probe two in use, and one that the probe takes for
\* connected is the one the hub has, or one whose close the probe is about to see.
InUse(s) == near[s] \in {"dialing", "open"}
SocketInUseIsKnown ==
    /\ \A s, t \in Sockets : (far[s] = "open" /\ far[t] = "open") \/ (InUse(s) /\ InUse(t)) => s = t
    /\ \A s \in Sockets : near[s] = "open" =>
          (far[s] = "open" /\ entry = s) \/ far[s] \in {"closing", "closed"}

OpenIsEntry == \A s \in Sockets : far[s] = "open" => entry = s
OneInUse == \A s, t \in Sockets : InUse(s) /\ InUse(t) => s = t
UpgradedFirst == \A s \in Sockets : near[s] = "open" => far[s] \in {"open", "closing", "closed"}
KnownInv == OpenIsEntry /\ OneInUse /\ UpgradedFirst

LEMMA KnownStep == HubTypeOK /\ KnownInv /\ [HubNext]_hubVars => KnownInv'
  <1>. SUFFICES ASSUME HubTypeOK, KnownInv, [HubNext]_hubVars PROVE KnownInv'
    OBVIOUS
  <1>0. /\ near \in [Sockets -> {"unused", "dialing", "open", "gone"}]
        /\ far \in [Sockets -> {"none", "asked", "open", "closing", "closed"}]
        /\ OpenIsEntry /\ OneInUse /\ UpgradedFirst
    BY DEF HubTypeOK, KnownInv
  <1>1. CASE Dial
    <2>1. PICK d \in Sockets : near' = [near EXCEPT ![d] = "dialing"] /\ far' = [far EXCEPT ![d] = "asked"]
      <3>1. dialed' \in Sockets
        BY <1>1, SocketsAssumption DEF Dial, HubTypeOK, Sockets
      <3>. QED  BY <1>1, <3>1 DEF Dial
    <2>2. \A s \in Sockets : ~InUse(s)
      BY <1>1 DEF Dial, InUse
    <2>. QED  BY <1>0, <1>1, <2>1, <2>2 DEF Dial, KnownInv, OpenIsEntry, OneInUse, UpgradedFirst, InUse
  <1>2. ASSUME NEW s \in Sockets, Connected(s) \/ NearGoes(s) \/ NearFails(s) PROVE KnownInv'
    BY <1>0, <1>2 DEF Connected, NearGoes, NearFails, KnownInv, OpenIsEntry, OneInUse, UpgradedFirst, InUse
  <1>3. ASSUME NEW s \in Sockets, Upgrade(s) PROVE KnownInv'
    BY <1>0, <1>3 DEF Upgrade, KnownInv, OpenIsEntry, OneInUse, UpgradedFirst, InUse
  <1>4. ASSUME NEW s \in Sockets, Refuse(s) \/ FarCloses(s) \/ FarNotices(s) PROVE KnownInv'
    BY <1>0, <1>4 DEF Refuse, FarCloses, FarNotices, EntryAfterClose, KnownInv, OpenIsEntry,
                      OneInUse, UpgradedFirst, InUse
  <1>5. ASSUME NEW s \in Sockets, Listen(s) \/ Cut(s) PROVE KnownInv'
    BY <1>0, <1>5 DEF Listen, Cut, KnownInv, OpenIsEntry, OneInUse, UpgradedFirst, InUse
  <1>6. CASE RestartServer
    BY <1>0, <1>6 DEF RestartServer, KnownInv, OpenIsEntry, OneInUse, UpgradedFirst, InUse
  <1>7. CASE UNCHANGED hubVars
    BY <1>0, <1>7 DEF hubVars, KnownInv, OpenIsEntry, OneInUse, UpgradedFirst, InUse
  <1>. QED  BY <1>1, <1>2, <1>3, <1>4, <1>5, <1>6, <1>7 DEF HubNext, Near, Far

\* However dials, upgrades and closes overtake each other, and whatever breaks, the
\* probe and the hub agree on the socket in use, or one of them is about to learn.
THEOREM SocketsAgree == HubSpec => []SocketInUseIsKnown
  <1>1. HubInit => KnownInv
    BY DEF HubInit, KnownInv, OpenIsEntry, OneInUse, UpgradedFirst, InUse
  <1>2. KnownInv => SocketInUseIsKnown
    BY DEF KnownInv, OpenIsEntry, OneInUse, UpgradedFirst, SocketInUseIsKnown
  <1>. QED  BY <1>1, <1>2, KnownStep, HubTypes, PTL DEF HubSpec

-----------------------------------------------------------------------------
(* TunnelRelay: the goroutines of the probe.                               *)

\* Goroutines put one value each into the channel, when they end.
Ended(g) == IF pumps[g] = "stopped" THEN 1 ELSE 0
ErrorsCounted ==
    /\ errCh <= Ended("up") + Ended("down")
    /\ opener # "over" => pumps["up"] = "none" /\ pumps["down"] = "none"

\* A tunnel is registered once, and what takes it out of the map for good is the
\* end of its relay or the one close that finds it.
DoneOnce ==
    /\ opener # "over" => doneCloses = 0 /\ ~registered /\ closer = "idle"
    /\ registered => doneCloses = 0 /\ closer = "idle"
    /\ closer = "found" => doneCloses = 0
    /\ doneCloses <= 1

RelayInv == RelayTypeOK /\ ErrorsCounted /\ DoneOnce

LEMMA RelayInitInv == RelayInit => RelayInv
  <1>. SUFFICES ASSUME RelayInit PROVE RelayInv
    OBVIOUS
  <1>1. registered \in BOOLEAN
    BY Zenon DEF RelayInit
  <1>2. requests \in [Requests -> RequestStates]
    BY DEF RelayInit, IdleRequest, RequestStates
  <1>3. /\ opener = "dial" /\ tcp = "none" /\ nearEnd = "none" /\ farEnd = "none"
        /\ closer = "idle" /\ closes \in 0 .. MaxCloses /\ doneCloses = 0
        /\ relay = "none" /\ pumps = [g \in {"up", "down"} |-> "none"] /\ errCh = 0
        /\ toDevice \in 0 .. MaxPieces /\ toServer = <<>> /\ fromDevice = <<>>
    BY RelayAssumption DEF RelayInit
  <1>4. <<>> \in Seq(Pieces)
    OBVIOUS
  <1>5. RelayTypeOK
    BY <1>1, <1>2, <1>3, <1>4 DEF RelayTypeOK
  <1>6. ErrorsCounted
    BY <1>3 DEF ErrorsCounted, Ended
  <1>7. DoneOnce
    BY <1>3 DEF RelayInit, DoneOnce
  <1>. QED  BY <1>5, <1>6, <1>7 DEF RelayInv

\* What the handlers of a request write in it, all at once or in part.
LEMMA RequestFields ==
    ASSUME NEW q \in RequestStates
    PROVE  /\ q.heads \in Nat /\ q.pc \in {"idle", "wait", "ready", "listen", "over", "lost"}
           /\ q.responded \in BOOLEAN
  BY DEF RequestStates

LEMMA RequestMoved ==
    ASSUME NEW q \in RequestStates, NEW p \in {"idle", "wait", "ready", "listen", "over", "lost"}
    PROVE  [q EXCEPT !.pc = p] \in RequestStates
  BY DEF RequestStates

LEMMA RequestDeaf ==
    ASSUME NEW q \in RequestStates PROVE [q EXCEPT !.hears = FALSE] \in RequestStates
  BY DEF RequestStates

LEMMA RequestListens ==
    ASSUME NEW q \in RequestStates PROVE [q EXCEPT !.pc = "listen", !.hears = TRUE] \in RequestStates
  BY Zenon DEF RequestStates

LEMMA RequestRefused ==
    ASSUME NEW q \in RequestStates, NEW n \in Nat
    PROVE  [q EXCEPT !.pc = "over", !.heads = n] \in RequestStates
  BY Zenon DEF RequestStates

LEMMA RequestLost ==
    ASSUME NEW q \in RequestStates
    PROVE  [q EXCEPT !.pc = "lost", !.hears = FALSE] \in RequestStates
  BY Zenon DEF RequestStates

LEMMA RequestAnswered ==
    ASSUME NEW q \in RequestStates, NEW n \in Nat
    PROVE  [q EXCEPT !.heads = n, !.headersParsed = TRUE] \in RequestStates
  BY Zenon DEF RequestStates

LEMMA RequestEnded ==
    ASSUME NEW q \in RequestStates, NEW n \in Nat
    PROVE  [q EXCEPT !.pc = "over", !.hears = FALSE, !.responded = TRUE, !.heads = n] \in RequestStates
  BY Zenon DEF RequestStates

LEMMA RequestTimedOut ==
    ASSUME NEW q \in RequestStates, NEW n \in Nat,
           NEW p \in {"idle", "wait", "ready", "listen", "over", "lost"}, NEW b \in BOOLEAN
    PROVE  [q EXCEPT !.hears = FALSE, !.responded = b, !.pc = p, !.heads = n] \in RequestStates
  BY Zenon DEF RequestStates

LEMMA RelayStep == RelayInv /\ [RelayNext]_relayVars => RelayInv'
  <1>. SUFFICES ASSUME RelayTypeOK, ErrorsCounted, DoneOnce, [RelayNext]_relayVars PROVE RelayInv'
    BY DEF RelayInv
  <1>0. /\ opener \in {"dial", "dialWS", "register", "over"} /\ closer \in {"idle", "found"}
        /\ closes \in 0 .. MaxCloses /\ doneCloses \in Nat
        /\ pumps \in [{"up", "down"} -> {"none", "run", "stopped"}] /\ errCh \in 0 .. 2
        /\ toDevice \in 0 .. MaxPieces
        /\ toServer \in Seq(Pieces) /\ fromDevice \in Seq(Pieces)
        /\ requests \in [Requests -> RequestStates]
    BY Zenon DEF RelayTypeOK
  <1>00. registered \in BOOLEAN
    BY Zenon DEF RelayTypeOK
  <1>1. CASE DialDevice \/ DialServer
    <2>1. RelayTypeOK'
      BY <1>1, Zenon DEF DialDevice, DialServer, RelayTypeOK
    <2>2. ErrorsCounted'
      BY <1>1 DEF DialDevice, DialServer, ErrorsCounted, Ended
    <2>3. DoneOnce'
      BY <1>1 DEF DialDevice, DialServer, DoneOnce
    <2>. QED  BY <2>1, <2>2, <2>3 DEF RelayInv
  <1>2. CASE Register
    <2>1. RelayTypeOK'
      <3>1. pumps' \in [{"up", "down"} -> {"none", "run", "stopped"}]
        BY <1>2 DEF Register
      <3>. QED  BY <1>2, <3>1, Zenon DEF Register, RelayTypeOK
    <2>2. ErrorsCounted'
      BY <1>0, <1>2 DEF Register, ErrorsCounted, Ended
    <2>3. DoneOnce'
      BY <1>2 DEF Register, DoneOnce
    <2>. QED  BY <2>1, <2>2, <2>3 DEF RelayInv
  <1>3. CASE CloseFound
    <2>1. closes' \in 0 .. MaxCloses /\ closer' \in {"idle", "found"}
      BY <1>0, <1>3, RelayAssumption DEF CloseFound
    <2>2. RelayTypeOK'
      BY <1>3, <2>1, Zenon DEF CloseFound, RelayTypeOK
    <2>3. ErrorsCounted'
      BY <1>3 DEF CloseFound, ErrorsCounted, Ended
    <2>4. DoneOnce'
      BY <1>0, <1>3 DEF CloseFound, DoneOnce
    <2>. QED  BY <2>2, <2>3, <2>4 DEF RelayInv
  <1>4. CASE CloseDone
    <2>1. doneCloses' = 1 /\ closer' = "idle" /\ opener = "over" /\ ~registered
      BY <1>0, <1>4 DEF CloseDone, DoneOnce
    <2>2. RelayTypeOK'
      <3>1. doneCloses' \in Nat
        BY <2>1
      <3>. QED  BY <1>4, <2>1, <3>1, Zenon DEF CloseDone, RelayTypeOK
    <2>3. ErrorsCounted'
      BY <1>4 DEF CloseDone, ErrorsCounted, Ended
    <2>4. DoneOnce'
      BY <1>4, <2>1 DEF CloseDone, DoneOnce
    <2>. QED  BY <2>2, <2>3, <2>4 DEF RelayInv
  <1>5. ASSUME NEW g \in {"up", "down"}, pumps[g] = "run", Stop(g), opener' = opener
        PROVE  /\ pumps' \in [{"up", "down"} -> {"none", "run", "stopped"}]
               /\ errCh' \in 0 .. 2 /\ ErrorsCounted'
    <2>1. opener = "over"
      BY <1>0, <1>5 DEF ErrorsCounted
    <2>2. pumps'[g] = "stopped" /\ \A h \in {"up", "down"} : h # g => pumps'[h] = pumps[h]
      BY <1>0, <1>5 DEF Stop
    <2>3. errCh <= 1 /\ errCh' = errCh + 1
      BY <1>0, <1>5 DEF Stop, ErrorsCounted, Ended
    <2>4. pumps' \in [{"up", "down"} -> {"none", "run", "stopped"}]
      BY <1>0, <1>5 DEF Stop
    <2>5. errCh' <= Ended("up")' + Ended("down")'
      BY <1>0, <1>5, <2>2, <2>3 DEF ErrorsCounted, Ended
    <2>6. errCh' \in 0 .. 2
      BY <1>0, <2>3
    <2>. QED  BY <1>5, <2>1, <2>4, <2>5, <2>6 DEF ErrorsCounted
  <1>6. ASSUME RelayTypeOK', ErrorsCounted', UNCHANGED <<opener, registered, closer, doneCloses>>
        PROVE  RelayInv'
    BY <1>6 DEF RelayInv, DoneOnce
  <1>7. CASE PumpUp
    <2>1. /\ pumps' \in [{"up", "down"} -> {"none", "run", "stopped"}]
          /\ errCh' \in 0 .. 2 /\ ErrorsCounted'
      <3>1. pumps["up"] = "run" /\ opener' = opener /\ (Stop("up") \/ UNCHANGED <<pumps, errCh>>)
        BY <1>7 DEF PumpUp
      <3>2. CASE Stop("up")
        BY <1>5, <3>1, <3>2
      <3>3. CASE UNCHANGED <<pumps, errCh>>
        BY <1>0, <3>1, <3>3 DEF ErrorsCounted, Ended
      <3>. QED  BY <3>1, <3>2, <3>3
    <2>2. toServer' \in Seq(Pieces) /\ fromDevice' \in Seq(Pieces)
      <3>1. CASE UNCHANGED <<toServer, fromDevice>>
        BY <1>0, <3>1
      <3>2. CASE ~UNCHANGED <<toServer, fromDevice>>
        <4>1. fromDevice # <<>> /\ toServer' = Append(toServer, Head(fromDevice)) /\ fromDevice' = Tail(fromDevice)
          BY <1>7, <3>2 DEF PumpUp
        <4>2. Head(fromDevice) \in Pieces
          BY <1>0, <4>1, QueueTyped
        <4>. QED  BY <1>0, <4>1, <4>2, QueueTyped
      <3>. QED  BY <3>1, <3>2
    <2>3. RelayTypeOK'
      BY <1>7, <2>1, <2>2, ZenonT(40) DEF PumpUp, RelayTypeOK
    <2>. QED  BY <1>6, <1>7, <2>1, <2>3 DEF PumpUp
  <1>8. CASE PumpDown
    <2>1. /\ pumps' \in [{"up", "down"} -> {"none", "run", "stopped"}]
          /\ errCh' \in 0 .. 2 /\ ErrorsCounted'
      <3>1. pumps["down"] = "run" /\ opener' = opener /\ (Stop("down") \/ UNCHANGED <<pumps, errCh>>)
        BY <1>8 DEF PumpDown
      <3>2. CASE Stop("down")
        BY <1>5, <3>1, <3>2
      <3>3. CASE UNCHANGED <<pumps, errCh>>
        BY <1>0, <3>1, <3>3 DEF ErrorsCounted, Ended
      <3>. QED  BY <3>1, <3>2, <3>3
    <2>2. fromDevice' \in Seq(Pieces)
      <3>1. fromDevice' = fromDevice \/ fromDevice' = fromDevice \o <<"headers", "rest">>
        BY <1>8 DEF PumpDown
      <3>2. <<"headers", "rest">> \in Seq(Pieces)
        <4>1. "headers" \in Pieces /\ "rest" \in Pieces
          BY DEF Pieces
        <4>. QED  BY <4>1
      <3>3. fromDevice \o <<"headers", "rest">> \in Seq(Pieces)
        BY <1>0, <3>2, QueueTyped
      <3>. QED  BY <1>0, <3>1, <3>3, Zenon
    <2>3. toDevice' \in 0 .. MaxPieces
      BY <1>0, <1>8, RelayAssumption DEF PumpDown
    <2>4. RelayTypeOK'
      BY <1>8, <2>1, <2>2, <2>3, ZenonT(40) DEF PumpDown, RelayTypeOK
    <2>. QED  BY <1>6, <1>8, <2>1, <2>4 DEF PumpDown
  <1>9. CASE RelayEnds
    <2>1. errCh' \in 0 .. 2 /\ errCh' <= errCh
      BY <1>0, <1>9 DEF RelayEnds
    <2>2. RelayTypeOK'
      BY <1>9, <2>1, Zenon DEF RelayEnds, RelayTypeOK
    <2>3. ErrorsCounted'
      BY <1>0, <1>9, <2>1 DEF RelayEnds, ErrorsCounted, Ended
    <2>4. DoneOnce'
      BY <1>9 DEF RelayEnds, DoneOnce
    <2>. QED  BY <2>2, <2>3, <2>4 DEF RelayInv
  <1>10. ASSUME UNCHANGED probeVars, RelayTypeOK' PROVE RelayInv'
    BY <1>6, <1>10 DEF probeVars, ErrorsCounted, Ended
  <1>11. CASE DeviceCloses \/ DataWsBreaks
    <2>1. toServer' \in Seq(Pieces)
      <3>1. toServer' = toServer \/ toServer' = <<>>
        BY <1>11 DEF DeviceCloses, DataWsBreaks
      <3>2. <<>> \in Seq(Pieces)
        OBVIOUS
      <3>. QED  BY <1>0, <3>1, <3>2, Zenon
    <2>2. RelayTypeOK'
      BY <1>11, <2>1, Zenon DEF DeviceCloses, DataWsBreaks, RelayTypeOK, probeVars
    <2>. QED  BY <1>10, <1>11, <2>2 DEF DeviceCloses, DataWsBreaks
  <1>12. ASSUME NEW r \in Requests, RequestWaits(r) \/ RequestFinds(r) \/ RequestSends(r) \/ Timeout(r)
         PROVE  RelayInv'
    <2>1. requests' \in [Requests -> RequestStates]
      <3>1. CASE RequestWaits(r) \/ RequestFinds(r) \/ RequestSends(r)
        <4>0. requests[r] \in RequestStates /\ 1 \in Nat
          BY <1>0
        <4>2. PICK q \in RequestStates : requests' = [requests EXCEPT ![r] = q]
          <5>1. CASE RequestWaits(r)
            BY <4>0, <5>1, RequestMoved DEF RequestWaits
          <5>2. CASE RequestFinds(r)
            <6>1. CASE requests' = [requests EXCEPT ![r].pc = "ready"]
              BY <4>0, <6>1, RequestMoved
            <6>2. CASE requests' = [requests EXCEPT ![r].pc = "over", ![r].heads = 1]
              <7>1. requests' = [requests EXCEPT ![r] = [requests[r] EXCEPT !.pc = "over", !.heads = 1]]
                BY <1>0, <6>2
              <7>. QED  BY <4>0, <7>1, RequestRefused
            <6>. QED  BY <5>2, <6>1, <6>2 DEF RequestFinds
          <5>3. CASE RequestSends(r)
            <6>1. requests' = [requests EXCEPT ![r] = [requests[r] EXCEPT !.pc = "listen", !.hears = TRUE]]
              BY <1>0, <5>3 DEF RequestSends
            <6>. QED  BY <4>0, <6>1, RequestListens
          <5>. QED  BY <3>1, <5>1, <5>2, <5>3
        <4>. QED  BY <1>0, <4>2
      <3>2. CASE Timeout(r)
        <4>1. \A q \in Requests : requests'[q] \in RequestStates
          <5>1. ASSUME NEW q \in Requests PROVE requests'[q] \in RequestStates
            <6>1. requests[q] \in RequestStates
              BY <1>0
            <6>. DEFINE b == IF q = r THEN TRUE ELSE requests[q].responded
                        p == IF q = r /\ requests[r].heads = 0 THEN "over" ELSE requests[q].pc
                        n == IF q = r /\ requests[q].heads = 0 THEN 1 ELSE requests[q].heads
            <6>2. n \in Nat /\ p \in {"idle", "wait", "ready", "listen", "over", "lost"}
              BY <6>1, RequestFields
            <6>3. b \in BOOLEAN
              BY <6>1, RequestFields
            <6>4. requests'[q] = [requests[q] EXCEPT !.hears = FALSE, !.responded = b,
                                                    !.pc = p, !.heads = n]
              BY <3>2 DEF Timeout
            <6>. HIDE DEF b, p, n
            <6>5. [requests[q] EXCEPT !.hears = FALSE, !.responded = b, !.pc = p, !.heads = n]
                    \in RequestStates
              BY <6>1, <6>2, <6>3, RequestTimedOut, Zenon
            <6>. QED  BY <6>4, <6>5, Zenon
          <5>. QED  BY <5>1
        <4>2. requests' = [q \in Requests |-> requests'[q]]
          BY <3>2 DEF Timeout
        <4>. QED  BY <4>1, <4>2
      <3>. QED  BY <1>12, <3>1, <3>2
    <2>2. toDevice' \in 0 .. MaxPieces
      <3>1. toDevice' = toDevice \/ (toDevice < MaxPieces /\ toDevice' = toDevice + 1)
        BY <1>12 DEF RequestWaits, RequestFinds, RequestSends, Timeout
      <3>. QED  BY <1>0, <3>1, RelayAssumption
    <2>3. UNCHANGED <<probeVars, tcp, nearEnd, farEnd, toServer, fromDevice>>
      BY <1>12 DEF RequestWaits, RequestFinds, RequestSends, Timeout
    <2>4. RelayTypeOK'
      BY <2>1, <2>2, <2>3, ZenonT(40) DEF RelayTypeOK, probeVars
    <2>. QED  BY <1>10, <2>3, <2>4
  <1>13. CASE Message \/ DataWsCloses
    <2>1. requests' \in [Requests -> RequestStates]
      <3>1. CASE Message
        <4>1. \A r \in Requests : requests'[r] \in RequestStates
          <5>1. ASSUME NEW r \in Requests PROVE requests'[r] \in RequestStates
            <6>1. requests[r] \in RequestStates
              BY <1>0
            <6>2. \/ requests'[r] = requests[r]
                  \/ requests'[r] = [requests[r] EXCEPT !.heads = @ + 1, !.headersParsed = TRUE]
              BY <3>1 DEF Message
            <6>3. requests[r].heads + 1 \in Nat
              BY <6>1, RequestFields
            <6>4. [requests[r] EXCEPT !.heads = @ + 1, !.headersParsed = TRUE] \in RequestStates
              BY <6>1, <6>3, RequestAnswered
            <6>. QED  BY <6>1, <6>2, <6>4
          <5>. QED  BY <5>1
        <4>2. requests' = [r \in Requests |-> requests'[r]]
          BY <3>1 DEF Message
        <4>. QED  BY <4>1, <4>2
      <3>2. CASE DataWsCloses
        <4>1. \A r \in Requests : requests'[r] \in RequestStates
          <5>1. ASSUME NEW r \in Requests PROVE requests'[r] \in RequestStates
            <6>1. requests[r] \in RequestStates
              BY <1>0
            <6>2. PICK n \in Nat :
                    \/ requests'[r] = [requests[r] EXCEPT !.hears = FALSE]
                    \/ requests'[r] = [requests[r] EXCEPT !.pc = "over", !.hears = FALSE,
                                                          !.responded = TRUE, !.heads = n]
              <7>1. requests[r].heads \in Nat /\ 1 \in Nat
                BY <6>1, RequestFields
              <7>. QED  BY <3>2, <7>1 DEF DataWsCloses
            <6>3. [requests[r] EXCEPT !.hears = FALSE] \in RequestStates
              BY <6>1, RequestDeaf
            <6>4. [requests[r] EXCEPT !.pc = "over", !.hears = FALSE, !.responded = TRUE,
                                      !.heads = n] \in RequestStates
              BY <6>1, <6>2, RequestEnded
            <6>. QED  BY <6>2, <6>3, <6>4
          <5>. QED  BY <5>1
        <4>2. requests' = [r \in Requests |-> requests'[r]]
          BY <3>2 DEF DataWsCloses
        <4>. QED  BY <4>1, <4>2
      <3>. QED  BY <1>13, <3>1, <3>2
    <2>2. toServer' \in Seq(Pieces)
      <3>1. toServer' = toServer \/ (toServer # <<>> /\ toServer' = Tail(toServer))
        BY <1>13 DEF Message, DataWsCloses
      <3>. QED  BY <1>0, <3>1
    <2>3. farEnd' \in {"none", "open", "closed"}
      BY <1>13 DEF Message, DataWsCloses, RelayTypeOK
    <2>4. UNCHANGED <<probeVars, tcp, nearEnd, toDevice, fromDevice>>
      BY <1>13 DEF Message, DataWsCloses
    <2>5. RelayTypeOK'
      BY <2>1, <2>2, <2>3, <2>4, Zenon DEF RelayTypeOK, probeVars
    <2>. QED  BY <1>10, <2>4, <2>5
  <1>15. ASSUME NEW r \in Requests, ServerEnds(r) PROVE RelayInv'
    <2>1. requests' \in [Requests -> RequestStates]
      <3>1. ASSUME NEW q \in Requests PROVE requests'[q] \in RequestStates
        <4>1. requests[q] \in RequestStates
          BY <1>0
        <4>2. requests'[q] = IF requests[q].pc \in {"idle", "over"} THEN requests[q]
                             ELSE [requests[q] EXCEPT !.pc = "lost", !.hears = FALSE]
          BY <1>15, Zenon DEF ServerEnds
        <4>3. CASE requests[q].pc \in {"idle", "over"}
          BY <4>1, <4>2, <4>3, Zenon
        <4>4. CASE requests[q].pc \notin {"idle", "over"}
          BY <4>1, <4>2, <4>4, RequestLost, Zenon
        <4>. QED  BY <4>3, <4>4
      <3>2. requests' = [q \in Requests |-> requests'[q]]
        BY <1>15, Zenon DEF ServerEnds
      <3>. QED  BY <3>1, <3>2
    <2>2. toServer' \in Seq(Pieces)
      <3>1. toServer' = <<>>
        BY <1>15, Zenon DEF ServerEnds
      <3>2. <<>> \in Seq(Pieces)
        OBVIOUS
      <3>. QED  BY <3>1, <3>2, Zenon
    <2>3. farEnd' \in {"none", "open", "closed"} /\ nearEnd' \in {"none", "open", "broken", "closed"}
      BY <1>15 DEF ServerEnds, RelayTypeOK
    <2>4. UNCHANGED <<probeVars, tcp, toDevice, fromDevice>>
      BY <1>15 DEF ServerEnds
    <2>5. RelayTypeOK'
      BY <2>1, <2>2, <2>3, <2>4, Zenon DEF RelayTypeOK, probeVars
    <2>. QED  BY <1>10, <2>4, <2>5
  <1>14. CASE UNCHANGED relayVars
    <2>1. RelayTypeOK' /\ UNCHANGED probeVars
      <3>1. UNCHANGED <<probeVars, tcp, nearEnd, farEnd, toDevice, toServer, fromDevice, requests>>
        BY <1>14 DEF relayVars, probeVars
      <3>2. /\ opener' \in {"dial", "dialWS", "register", "over"} /\ closer' \in {"idle", "found"}
            /\ closes' \in 0 .. MaxCloses /\ doneCloses' \in Nat
            /\ pumps' \in [{"up", "down"} -> {"none", "run", "stopped"}] /\ errCh' \in 0 .. 2
            /\ requests' \in [Requests -> RequestStates] /\ toDevice' \in 0 .. MaxPieces
            /\ toServer' \in Seq(Pieces) /\ fromDevice' \in Seq(Pieces)
        BY <1>0, <3>1 DEF probeVars
      <3>3. /\ relay' \in {"none", "run", "over"} /\ tcp' \in {"none", "open", "eof", "closed"}
            /\ nearEnd' \in {"none", "open", "broken", "closed"}
            /\ farEnd' \in {"none", "open", "closed"}
        BY <3>1 DEF probeVars, RelayTypeOK
      <3>5. registered' \in BOOLEAN
        BY <1>00, <3>1, Zenon DEF probeVars
      <3>4. RelayTypeOK'
        BY <3>2, <3>3, <3>5, Zenon DEF RelayTypeOK
      <3>. QED  BY <3>1, <3>4
    <2>. QED  BY <1>10, <2>1
  <1>. QED  BY <1>1, <1>2, <1>3, <1>4, <1>7, <1>8, <1>9, <1>11, <1>12, <1>13, <1>14, <1>15
            DEF RelayNext, Opener, Request

LEMMA RelayTypes == RelaySpec => []RelayInv
  BY RelayInitInv, RelayStep, PTL DEF RelaySpec

\* DoneClosedOnce: however many tunnel_close messages come, and however they meet the
\* end of the relay, the channel done is closed once at most.
THEOREM DoneIsClosedOnce == RelaySpec => []DoneClosedOnce
  <1>1. RelayInv => DoneClosedOnce
    BY DEF RelayInv, DoneOnce, DoneClosedOnce
  <1>. QED  BY <1>1, RelayTypes, PTL


\* What is written to the browser while its request goes on: nothing before it
\* listens, and then one status line, by whoever comes first.
AnswerOf(q) ==
    /\ q.heads <= 1
    /\ q.hears => q.pc = "listen"
    /\ q.pc \in {"idle", "wait", "ready"} => q.heads = 0
    /\ q.pc = "over" => q.heads = 1
    /\ ~q.headersParsed /\ ~q.responded /\ q.pc = "listen" => q.heads = 0
AnswersInv == \A r \in Requests : AnswerOf(requests[r])
OneStatusLine == \A r \in Requests : requests[r].heads <= 1

LEMMA AnswersStep == RelayTypeOK /\ AnswersInv /\ [RelayNext]_relayVars => AnswersInv'
  <1>. SUFFICES ASSUME RelayTypeOK, AnswersInv, [RelayNext]_relayVars, NEW r \in Requests
                PROVE  AnswerOf(requests'[r])
    BY DEF AnswersInv
  <1>0. requests \in [Requests -> RequestStates]
    BY Zenon DEF RelayTypeOK
  <1>1. PICK q \in RequestStates : q = requests[r] /\ AnswerOf(q)
    BY <1>0 DEF AnswersInv
  <1>2. CASE UNCHANGED requests
    BY <1>1, <1>2
  <1>3. ASSUME NEW s \in Requests, RequestWaits(s) \/ RequestFinds(s) \/ RequestSends(s) PROVE AnswerOf(requests'[r])
    <2>1. CASE r # s
      <3>1. requests'[r] = requests[r]
        BY <1>0, <1>3, <2>1 DEF RequestWaits, RequestFinds, RequestSends
      <3>. QED  BY <1>1, <3>1
    <2>2. CASE r = s
      <3>1. CASE RequestWaits(s)
        <4>1. q.pc = "idle" /\ requests'[r] = [q EXCEPT !.pc = "wait"]
          BY <1>0, <1>1, <2>2, <3>1 DEF RequestWaits
        <4>. QED  BY <1>1, <4>1 DEF AnswerOf, RequestStates
      <3>2. CASE RequestFinds(s)
        <4>1. /\ q.pc = "wait"
              /\ \/ requests'[r] = [q EXCEPT !.pc = "ready"]
                 \/ requests'[r] = [q EXCEPT !.pc = "over", !.heads = 1]
          BY <1>0, <1>1, <2>2, <3>2 DEF RequestFinds
        <4>2. q.heads = 0 /\ ~q.hears
          BY <1>1, <4>1 DEF AnswerOf
        <4>3. /\ ~requests'[r].hears
              /\ \/ requests'[r].pc = "ready" /\ requests'[r].heads = 0
                 \/ requests'[r].pc = "over" /\ requests'[r].heads = 1
          BY <4>1, <4>2 DEF RequestStates
        <4>. QED  BY <4>3 DEF AnswerOf
      <3>3. CASE RequestSends(s)
        <4>1. q.pc = "ready" /\ requests'[r] = [q EXCEPT !.pc = "listen", !.hears = TRUE]
          BY <1>0, <1>1, <2>2, <3>3 DEF RequestSends
        <4>2. requests'[r].pc = "listen" /\ requests'[r].heads = q.heads
          BY <4>1 DEF RequestStates
        <4>3. q.heads = 0
          BY <1>1, <4>1 DEF AnswerOf
        <4>. QED  BY <4>2, <4>3 DEF AnswerOf
      <3>. QED  BY <1>3, <3>1, <3>2, <3>3
    <2>. QED  BY <2>1, <2>2
  <1>4. CASE Message
    <2>1. \/ requests'[r] = q
          \/ /\ q.hears /\ ~q.responded /\ ~q.headersParsed
             /\ requests'[r] = [q EXCEPT !.heads = @ + 1, !.headersParsed = TRUE]
      BY <1>1, <1>4 DEF Message
    <2>2. CASE requests'[r] = q
      BY <1>1, <2>2
    <2>3. CASE requests'[r] # q
      <3>1. q.pc = "listen" /\ q.heads = 0
        BY <1>1, <2>1, <2>3 DEF AnswerOf
      <3>2. requests'[r].pc = q.pc /\ requests'[r].heads = q.heads + 1 /\ requests'[r].headersParsed
        BY <2>1, <2>3 DEF RequestStates
      <3>. QED  BY <3>1, <3>2 DEF AnswerOf
    <2>. QED  BY <2>2, <2>3
  <1>5. ASSUME NEW s \in Requests, Timeout(s) PROVE AnswerOf(requests'[r])
    <2>1. CASE r # s
      <3>1. requests'[r] = [q EXCEPT !.hears = FALSE]
        BY <1>0, <1>1, <1>5, <2>1 DEF Timeout, RequestStates
      <3>2. /\ requests'[r].pc = q.pc /\ requests'[r].heads = q.heads /\ ~requests'[r].hears
            /\ requests'[r].responded = q.responded /\ requests'[r].headersParsed = q.headersParsed
        BY <3>1 DEF RequestStates
      <3>. QED  BY <1>1, <3>2 DEF AnswerOf
    <2>2. CASE r = s
      <3>1. /\ q.pc = "listen" /\ ~q.responded
            /\ requests'[r] = [q EXCEPT !.hears = FALSE, !.responded = TRUE,
                                        !.pc = IF q.heads = 0 THEN "over" ELSE @,
                                        !.heads = IF @ = 0 THEN 1 ELSE @]
        BY <1>0, <1>1, <1>5, <2>2 DEF Timeout, RequestStates
      <3>. QED  BY <1>1, <3>1 DEF AnswerOf, RequestStates
    <2>. QED  BY <2>1, <2>2
  <1>6. CASE DataWsCloses
    <2>1. \/ /\ q.pc = "listen"
             /\ requests'[r] = [q EXCEPT !.pc = "over", !.hears = FALSE, !.responded = TRUE,
                                         !.heads = IF @ = 0 THEN 1 ELSE @]
          \/ requests'[r] = [q EXCEPT !.hears = FALSE]
      BY <1>1, <1>6 DEF DataWsCloses
    <2>2. ~requests'[r].hears
      BY <2>1 DEF RequestStates
    <2>3. CASE requests'[r] = [q EXCEPT !.hears = FALSE]
      <3>1. /\ requests'[r].pc = q.pc /\ requests'[r].heads = q.heads
            /\ requests'[r].responded = q.responded /\ requests'[r].headersParsed = q.headersParsed
        BY <2>3 DEF RequestStates
      <3>. QED  BY <1>1, <2>2, <3>1 DEF AnswerOf
    <2>4. CASE requests'[r] # [q EXCEPT !.hears = FALSE]
      <3>1. requests'[r].pc = "over" /\ requests'[r].heads = IF q.heads = 0 THEN 1 ELSE q.heads
        BY <2>1, <2>4 DEF RequestStates
      <3>2. requests'[r].heads = 1
        BY <1>1, <3>1 DEF AnswerOf, RequestStates
      <3>. QED  BY <2>2, <3>1, <3>2 DEF AnswerOf
    <2>. QED  BY <2>3, <2>4
  <1>7. CASE Opener \/ CloseFound \/ CloseDone \/ PumpUp \/ PumpDown \/ RelayEnds \/ DeviceCloses \/ DataWsBreaks
    BY <1>2, <1>7 DEF Opener, DialDevice, DialServer, Register, CloseFound, CloseDone, PumpUp, PumpDown,
                      RelayEnds, DeviceCloses, DataWsBreaks
  <1>8. CASE UNCHANGED relayVars
    BY <1>2, <1>8 DEF relayVars
  <1>9. ASSUME NEW s \in Requests, ServerEnds(s) PROVE AnswerOf(requests'[r])
    <2>1. requests'[r] = q \/ requests'[r] = [q EXCEPT !.pc = "lost", !.hears = FALSE]
      BY <1>1, <1>9 DEF ServerEnds
    <2>2. CASE requests'[r] # q
      <3>1. requests'[r].pc = "lost" /\ requests'[r].heads = q.heads
        BY <2>1, <2>2 DEF RequestStates
      <3>2. ~requests'[r].hears
        BY <2>1, <2>2, Zenon DEF RequestStates
      <3>. QED  BY <1>1, <3>1, <3>2 DEF AnswerOf
    <2>. QED  BY <1>1, <2>1, <2>2
  <1>. QED  BY <1>3, <1>4, <1>5, <1>6, <1>7, <1>8, <1>9 DEF RelayNext, Request

\* OneStatusLine, the half of RequestsAreAnswered that is about safety: however the
\* device's answer, the timer and the close come, and whoever else's answer it is,
\* no browser gets two status lines.
THEOREM OneStatusLineEach == RelaySpec => []OneStatusLine
  <1>1. RelayInit => AnswersInv
    BY DEF RelayInit, IdleRequest, AnswersInv, AnswerOf
  <1>2. RelayInv => RelayTypeOK
    BY DEF RelayInv
  <1>3. AnswersInv => OneStatusLine
    BY DEF AnswersInv, AnswerOf, OneStatusLine
  <1>. QED  BY <1>1, <1>2, <1>3, AnswersStep, RelayTypes, PTL DEF RelaySpec


\* The half of NothingIsLeft that is about safety.  What goroutines report waits until
\* the relay has ended, and finds room, so that neither waits for the other; what the
\* relay leaves is closed, and so is what an opening that failed had opened.
RelayLeavesNothing ==
    /\ registered => relay = "run"
    /\ relay = "over" => tcp = "closed" /\ nearEnd = "closed"
    /\ relay = "run" => errCh = Ended("up") + Ended("down")
    /\ \A g \in {"up", "down"} : pumps[g] = "run" => errCh < 2
    /\ relay = "none" /\ opener = "over" => tcp \in {"none", "closed"} /\ nearEnd = "none"

\* What is open while the tunnel opens, and that a close finds tunnels with a relay only.
OpeningInv ==
    /\ opener # "over" => relay = "none"
    /\ opener = "dial" => tcp = "none"
    /\ opener \in {"dial", "dialWS"} => nearEnd = "none"
    /\ relay = "none" => /\ ~registered /\ closer = "idle" /\ errCh = 0
                         /\ pumps["up"] = "none" /\ pumps["down"] = "none"
EndingInv ==
    /\ registered => relay = "run"
    /\ relay = "over" => tcp = "closed" /\ nearEnd = "closed"
    /\ relay = "none" /\ opener = "over" => tcp \in {"none", "closed"} /\ nearEnd = "none"
ReportsWait == relay = "run" => errCh = Ended("up") + Ended("down")
LeftInv == OpeningInv /\ EndingInv /\ ReportsWait

LEMMA LeftStep == RelayInv /\ LeftInv /\ [RelayNext]_relayVars => LeftInv'
  <1>. SUFFICES ASSUME RelayInv, LeftInv, [RelayNext]_relayVars PROVE LeftInv'
    OBVIOUS
  <1>0. /\ OpeningInv /\ EndingInv /\ ReportsWait
        /\ pumps \in [{"up", "down"} -> {"none", "run", "stopped"}] /\ errCh \in 0 .. 2
        /\ closer \in {"idle", "found"} /\ relay \in {"none", "run", "over"}
        /\ opener \in {"dial", "dialWS", "register", "over"}
    BY Zenon DEF RelayInv, RelayTypeOK, ErrorsCounted, LeftInv
  <1>1. CASE DialDevice \/ DialServer
    BY <1>0, <1>1 DEF DialDevice, DialServer, LeftInv, OpeningInv, EndingInv, ReportsWait, Ended
  <1>2. CASE Register
    BY <1>0, <1>2 DEF Register, LeftInv, OpeningInv, EndingInv, ReportsWait, Ended
  <1>3. CASE CloseFound
    BY <1>0, <1>3 DEF CloseFound, LeftInv, OpeningInv, EndingInv, ReportsWait, Ended
  <1>4. CASE CloseDone
    BY <1>0, <1>4 DEF CloseDone, LeftInv, OpeningInv, EndingInv, ReportsWait, Ended
  <1>5. ASSUME NEW g \in {"up", "down"}, pumps[g] = "run", Stop(g) PROVE relay' = relay => ReportsWait'
    BY <1>0, <1>5 DEF Stop, ReportsWait, Ended
  <1>6. CASE PumpUp
    <2>1. ReportsWait'
      <3>1. pumps["up"] = "run" /\ relay' = relay /\ (Stop("up") \/ UNCHANGED <<pumps, errCh>>)
        BY <1>6 DEF PumpUp
      <3>. QED  BY <1>0, <1>5, <3>1 DEF ReportsWait, Ended
    <2>2. relay # "none"
      BY <1>0, <1>6 DEF PumpUp, OpeningInv
    <2>. QED  BY <1>0, <1>6, <2>1, <2>2 DEF PumpUp, LeftInv, OpeningInv, EndingInv
  <1>7. CASE PumpDown
    <2>1. ReportsWait'
      <3>1. pumps["down"] = "run" /\ relay' = relay /\ (Stop("down") \/ UNCHANGED <<pumps, errCh>>)
        BY <1>7 DEF PumpDown
      <3>. QED  BY <1>0, <1>5, <3>1 DEF ReportsWait, Ended
    <2>2. relay # "none"
      BY <1>0, <1>7 DEF PumpDown, OpeningInv
    <2>. QED  BY <1>0, <1>7, <2>1, <2>2 DEF PumpDown, LeftInv, OpeningInv, EndingInv
  <1>8. CASE RelayEnds
    BY <1>0, <1>8 DEF RelayEnds, LeftInv, OpeningInv, EndingInv, ReportsWait
  <1>9. CASE DeviceCloses \/ DataWsBreaks
    BY <1>0, <1>9 DEF DeviceCloses, DataWsBreaks, probeVars, LeftInv, OpeningInv, EndingInv, ReportsWait, Ended
  <1>10. CASE Message \/ DataWsCloses \/ (\E r \in Requests : RequestWaits(r) \/ Request(r))
    <2>1. UNCHANGED <<probeVars, tcp, nearEnd>>
      BY <1>10, Zenon DEF Message, DataWsCloses, RequestWaits, Request, RequestFinds, RequestSends, Timeout
    <2>. QED  BY <1>0, <2>1 DEF probeVars, LeftInv, OpeningInv, EndingInv, ReportsWait, Ended
  <1>12. ASSUME NEW r \in Requests, ServerEnds(r) PROVE LeftInv'
    <2>1. UNCHANGED <<probeVars, tcp>> /\ nearEnd' = IF nearEnd = "open" THEN "broken" ELSE nearEnd
      BY <1>12 DEF ServerEnds
    <2>. QED  BY <1>0, <2>1 DEF probeVars, LeftInv, OpeningInv, EndingInv, ReportsWait, Ended
  <1>11. CASE UNCHANGED relayVars
    BY <1>0, <1>11 DEF relayVars, LeftInv, OpeningInv, EndingInv, ReportsWait, Ended
  <1>. QED  BY <1>1, <1>2, <1>3, <1>4, <1>6, <1>7, <1>8, <1>9, <1>10, <1>11, <1>12 DEF RelayNext, Opener

\* A tunnel that did not open, or that is over, has neither connection; nobody waits
\* in a channel that is full.
THEOREM RelayEndsClean == RelaySpec => []RelayLeavesNothing
  <1>1. RelayInit => LeftInv
    BY DEF RelayInit, LeftInv, OpeningInv, EndingInv, ReportsWait
  <1>2. RelayInv /\ LeftInv => RelayLeavesNothing
    BY DEF RelayInv, RelayTypeOK, ErrorsCounted, LeftInv, EndingInv, ReportsWait, RelayLeavesNothing, Ended
  <1>. QED  BY <1>1, <1>2, LeftStep, RelayTypes, PTL DEF RelaySpec

-----------------------------------------------------------------------------
(* SingleSignOn.                                                           *)

\* Account i was made for person p, or linked with the first one from the beginning,
\* and the sequence has passed it: its id is nobody else's, even after it is gone.
Own(p, i) ==
    /\ i \in 1 .. lastUser
    /\ users[i] \in {p, Nobody} \/ (p = 1 /\ users[i] = Local)

LinksAreOwn == \A p \in Persons : links[p] # 0 => Own(p, links[p])
GateIsOwn == \A p \in Persons : gate[p] # 0 => Own(p, gate[p])
ProvisionsAreOwn == \A r \in provisions : r[2] # 0 => Own(r[1], r[2])
SignInsAreOwn ==
    \A s \in SignIns : signIns[s].pc \in {"linked", "own", "link", "finish"} =>
        Own(signIns[s].who, signIns[s].user)
SsoInv == SsoTypeOK /\ LinksAreOwn /\ GateIsOwn /\ ProvisionsAreOwn /\ SignInsAreOwn

LEMMA SsoFacts ==
    SsoTypeOK => /\ person \in Persons /\ lastUser \in UserIds
                 /\ users \in [UserIds -> Accounts]
                 /\ links \in [Persons -> {0} \cup UserIds] /\ gate \in [Persons -> {0} \cup UserIds]
                 /\ provisions \subseteq Persons \X ({0} \cup UserIds)
                 /\ deletions \in [called : SUBSET UserIds, half : SUBSET UserIds]
                 /\ signIns \in [SignIns -> SignInStates]
  BY Zenon DEF SsoTypeOK

LEMMA PersonFacts ==
    /\ NumPersons \in Nat \ {0} /\ 1 \in Persons /\ 1 \in UserIds /\ 0 \notin UserIds
    /\ Local \in Accounts /\ Nobody \in Accounts /\ Persons \subseteq Accounts
    /\ Local \notin Persons /\ Nobody \notin Persons
    /\ \A i \in UserIds : i \in Nat /\ i >= 1 /\ 1 .. i \subseteq UserIds
    /\ IdleSignIn \in SignInStates
  BY PersonsAssumption DEF Persons, UserIds, Local, Accounts, Nobody, IdleSignIn, SignInStates

\* What is somebody's own stays it, while ids are given out in order and
\* accounts only go.
LEMMA OwnIsKept ==
    ASSUME SsoTypeOK, lastUser' \in Nat, lastUser <= lastUser',
           \A i \in 1 .. lastUser : users'[i] \in {users[i], Nobody},
           NEW p, NEW i, Own(p, i)
    PROVE  Own(p, i)'
  BY SsoFacts, PersonFacts DEF Own

LEMMA SsoInitInv == SsoInit => SsoInv
  <1>. SUFFICES ASSUME SsoInit PROVE SsoInv
    OBVIOUS
  <1>1. /\ person \in Persons /\ users \in [UserIds -> Accounts] /\ lastUser \in UserIds
        /\ links \in [Persons -> {0} \cup UserIds] /\ gate \in [Persons -> {0} \cup UserIds]
        /\ provisions \subseteq Persons \X ({0} \cup UserIds)
        /\ deletions \in [called : SUBSET UserIds, half : SUBSET UserIds]
        /\ mishaps \in 0 .. MaxMishaps
    BY PersonFacts, PersonsAssumption DEF SsoInit
  <1>2. isIn \in BOOLEAN /\ stuck \in BOOLEAN
    BY Zenon DEF SsoInit
  <1>3. signIns \in [SignIns -> SignInStates]
    BY PersonFacts DEF SsoInit
  <1>4. SsoTypeOK
    BY <1>1, <1>2, <1>3, Zenon DEF SsoTypeOK
  <1>5. LinksAreOwn /\ ProvisionsAreOwn
    BY DEF SsoInit, LinksAreOwn, ProvisionsAreOwn
  <1>6. GateIsOwn
    BY PersonFacts DEF SsoInit, GateIsOwn, Own
  <1>7. SignInsAreOwn
    BY DEF SsoInit, SignInsAreOwn, IdleSignIn
  <1>. QED  BY <1>4, <1>5, <1>6, <1>7 DEF SsoInv

\* A sign-in that goes on with an account of its own person's, or with none.
LEMMA GoKeeps ==
    ASSUME SsoInv, NEW s \in SignIns, lastUser' \in Nat, lastUser <= lastUser',
           \A i \in 1 .. lastUser : users'[i] \in {users[i], Nobody},
           NEW pc \in {"find", "own", "unlink", "insert", "link", "finish"}, NEW i \in {0} \cup UserIds,
           Go(s, pc, i),
           NEW w, w = signIns[s].who,
           pc \in {"own", "link", "finish"} => Own(w, i)'
    PROVE  signIns' \in [SignIns -> SignInStates] /\ SignInsAreOwn'
  <1>0. SsoTypeOK /\ signIns \in [SignIns -> SignInStates] /\ SignInsAreOwn
    BY SsoFacts DEF SsoInv
  <1>1. PICK q \in SignInStates : q = signIns[s]
    BY <1>0
  <1>. DEFINE step == [q EXCEPT !.pc = pc, !.user = i]
  <1>2. step \in SignInStates /\ step.pc = pc /\ step.who = q.who /\ step.user = i
    BY DEF SignInStates
  <1>3. signIns' = [signIns EXCEPT ![s] = step]
    BY <1>0, <1>1 DEF Go
  <1>. HIDE DEF step
  <1>4. signIns' \in [SignIns -> SignInStates]
    BY <1>0, <1>2, <1>3
  <1>5. ASSUME NEW o \in SignIns, signIns'[o].pc \in {"linked", "own", "link", "finish"}
        PROVE  /\ signIns'[o].user \in 1 .. lastUser'
               /\ \/ users'[signIns'[o].user] \in {signIns'[o].who, Nobody}
                  \/ signIns'[o].who = 1 /\ users'[signIns'[o].user] = Local
    <2>1. CASE o = s
      <3>1. signIns'[o].pc = pc /\ signIns'[o].user = i /\ signIns'[o].who = w
        BY <1>0, <1>1, <1>2, <1>3, <2>1
      <3>2. Own(w, i)'
        BY <1>5, <3>1
      <3>. QED  BY <3>1, <3>2 DEF Own
    <2>2. CASE o # s
      <3>1. PICK n \in SignInStates : n = signIns[o]
        BY <1>0
      <3>2. signIns'[o] = n
        BY <1>0, <1>3, <2>2, <3>1
      <3>3. Own(n.who, n.user)
        BY <1>0, <1>5, <3>1, <3>2 DEF SignInsAreOwn
      <3>4. Own(n.who, n.user)'
        BY <1>0, <3>3, OwnIsKept
      <3>. QED  BY <3>2, <3>4 DEF Own
    <2>. QED  BY <2>1, <2>2
  <1>6. SignInsAreOwn'
    BY <1>5 DEF SignInsAreOwn, Own
  <1>. QED  BY <1>4, <1>6


LEMMA OthersKeep ==
    ASSUME SsoInv, lastUser' \in Nat, lastUser <= lastUser',
           \A i \in 1 .. lastUser : users'[i] \in {users[i], Nobody}
    PROVE  /\ (\A p \in Persons : links'[p] \in {links[p], 0}) => LinksAreOwn'
           /\ gate' = gate => GateIsOwn'
           /\ (\A r \in provisions' : r \in provisions \/ r[2] = 0) => ProvisionsAreOwn'
           /\ (\A s \in SignIns : signIns'[s] \in {signIns[s], IdleSignIn}) => SignInsAreOwn'
  <1>0. SsoTypeOK
    BY DEF SsoInv
  <1>1. ASSUME \A p \in Persons : links'[p] \in {links[p], 0} PROVE LinksAreOwn'
    <2>1. ASSUME NEW p \in Persons, links'[p] # 0
          PROVE  links'[p] \in 1 .. lastUser' /\ (users'[links'[p]] \in {p, Nobody} \/ (p = 1 /\ users'[links'[p]] = Local))
      <3>1. PICK i : i = links[p]
        OBVIOUS
      <3>2. links'[p] = i
        BY <1>1, <2>1, <3>1
      <3>3. Own(p, i)
        BY <2>1, <3>1, <3>2 DEF SsoInv, LinksAreOwn
      <3>4. Own(p, i)'
        BY <1>0, <3>3, OwnIsKept
      <3>. QED  BY <3>2, <3>4 DEF Own
    <2>. QED  BY <2>1 DEF LinksAreOwn, Own
  <1>2. ASSUME gate' = gate PROVE GateIsOwn'
    <2>1. ASSUME NEW p \in Persons, gate[p] # 0
          PROVE  gate[p] \in 1 .. lastUser' /\ (users'[gate[p]] \in {p, Nobody} \/ (p = 1 /\ users'[gate[p]] = Local))
      <3>1. PICK i : i = gate[p]
        OBVIOUS
      <3>2. Own(p, i)
        BY <2>1, <3>1 DEF SsoInv, GateIsOwn
      <3>3. Own(p, i)'
        BY <1>0, <3>2, OwnIsKept
      <3>. QED  BY <3>1, <3>3 DEF Own
    <2>. QED  BY <1>2, <2>1 DEF GateIsOwn, Own
  <1>3. ASSUME \A r \in provisions' : r \in provisions \/ r[2] = 0 PROVE ProvisionsAreOwn'
    <2>1. ASSUME NEW r \in provisions', r[2] # 0
          PROVE  r[2] \in 1 .. lastUser' /\ (users'[r[2]] \in {r[1], Nobody} \/ (r[1] = 1 /\ users'[r[2]] = Local))
      <3>1. PICK p, i : p = r[1] /\ i = r[2]
        OBVIOUS
      <3>2. Own(p, i)
        BY <1>3, <2>1, <3>1 DEF SsoInv, ProvisionsAreOwn
      <3>3. Own(p, i)'
        BY <1>0, <3>2, OwnIsKept
      <3>. QED  BY <3>1, <3>3 DEF Own
    <2>. QED  BY <2>1 DEF ProvisionsAreOwn, Own
  <1>4. ASSUME \A s \in SignIns : signIns'[s] \in {signIns[s], IdleSignIn} PROVE SignInsAreOwn'
    <2>1. ASSUME NEW s \in SignIns, signIns'[s].pc \in {"linked", "own", "link", "finish"}
          PROVE  /\ signIns'[s].user \in 1 .. lastUser'
                 /\ \/ users'[signIns'[s].user] \in {signIns'[s].who, Nobody}
                    \/ signIns'[s].who = 1 /\ users'[signIns'[s].user] = Local
      <3>1. PICK n : n = signIns[s]
        OBVIOUS
      <3>2. signIns'[s] = n
        BY <1>4, <2>1, <3>1 DEF IdleSignIn
      <3>3. Own(n.who, n.user)
        BY <2>1, <3>1, <3>2 DEF SsoInv, SignInsAreOwn
      <3>4. Own(n.who, n.user)'
        BY <1>0, <3>3, OwnIsKept
      <3>. QED  BY <3>2, <3>4 DEF Own
    <2>. QED  BY <2>1 DEF SignInsAreOwn, Own
  <1>. QED  BY <1>1, <1>2, <1>3, <1>4

\* The statements of a sign-in.
LEMMA CallbackStep ==
    ASSUME SsoInv, NEW s \in SignIns, Callback(s)
    PROVE  SsoInv'
  <1>0. SsoTypeOK /\ lastUser \in Nat
    BY SsoFacts, PersonFacts DEF SsoInv
  <1>1. signIns[s] \in SignInStates /\ signIns[s].who \in Persons /\ signIns[s].user \in {0} \cup UserIds
    BY <1>0, SsoFacts DEF SignInStates
  <1>2. PICK w \in Persons : w = signIns[s].who
    BY <1>1
  <1>3. CASE FindLinked(s)
    <2>1. PICK i \in {0} \cup UserIds : i = signIns[s].user
      BY <1>1
    <2>2. UNCHANGED <<person, users, lastUser, links, gate, deletions, isIn, mishaps, stuck>>
      BY <1>3 DEF FindLinked
    <2>3. signIns' \in [SignIns -> SignInStates] /\ SignInsAreOwn'
      <3>1. CASE Exists(i)
        <4>1. Go(s, "finish", i)
          BY <1>3, <2>1, <3>1 DEF FindLinked
        <4>2. Own(w, i)
          BY <1>2, <1>3, <2>1 DEF FindLinked, SsoInv, SignInsAreOwn
        <4>3. Own(w, i)'
          BY <1>0, <2>2, <4>2, OwnIsKept
        <4>. QED  BY <1>0, <1>2, <2>2, <4>1, <4>3, GoKeeps
      <3>2. CASE ~Exists(i)
        <4>1. Go(s, "insert", 0)
          BY <1>3, <2>1, <3>2 DEF FindLinked
        <4>. QED  BY <1>0, <1>2, <2>2, <4>1, GoKeeps
      <3>. QED  BY <3>1, <3>2
    <2>4. provisions' \in SUBSET (provisions \cup {<<w, 0>>})
      BY <1>2, <1>3 DEF FindLinked
    <2>5. SsoTypeOK'
      <3>1. provisions' \subseteq Persons \X ({0} \cup UserIds)
        BY <1>0, <2>4, SsoFacts
      <3>. QED  BY <1>0, <2>2, <2>3, <3>1, Zenon DEF SsoTypeOK
    <2>. QED  BY <1>0, <2>2, <2>3, <2>4, <2>5, OthersKeep DEF SsoInv
  <1>4. CASE FindLink(s) \/ FindOwn(s)
    <2>1. UNCHANGED <<person, users, lastUser, links, gate, provisions, deletions, isIn, mishaps, stuck>>
      BY <1>4 DEF FindLink, FindOwn
    <2>2. signIns' \in [SignIns -> SignInStates] /\ SignInsAreOwn'
      <3>1. CASE FindLink(s)
        <4>1. PICK i \in {0} \cup UserIds : i = links[w]
          BY <1>0, SsoFacts
        <4>2. CASE i = 0
          BY <1>0, <1>2, <2>1, <3>1, <4>1, <4>2, GoKeeps DEF FindLink
        <4>3. CASE i # 0
          <5>1. Own(w, i)
            BY <4>1, <4>3 DEF SsoInv, LinksAreOwn
          <5>2. Own(w, i)'
            BY <1>0, <2>1, <5>1, OwnIsKept
          <5>3. Go(s, "own", i)
            BY <1>2, <3>1, <4>1, <4>3 DEF FindLink
          <5>. QED  BY <1>0, <1>2, <2>1, <5>2, <5>3, GoKeeps
        <4>. QED  BY <4>2, <4>3
      <3>2. CASE FindOwn(s)
        <4>1. PICK i \in {0} \cup UserIds : i = signIns[s].user
          BY <1>1
        <4>2. Own(w, i)
          BY <1>2, <3>2, <4>1 DEF FindOwn, SsoInv, SignInsAreOwn
        <4>3. Own(w, i)'
          BY <1>0, <2>1, <4>2, OwnIsKept
        <4>4. Go(s, "finish", i) \/ Go(s, "unlink", i)
          BY <3>2, <4>1 DEF FindOwn
        <4>. QED  BY <1>0, <1>2, <2>1, <4>3, <4>4, GoKeeps
      <3>. QED  BY <1>4, <3>1, <3>2
    <2>3. SsoTypeOK'
      BY <1>0, <2>1, <2>2, Zenon DEF SsoTypeOK
    <2>. QED  BY <1>0, <2>1, <2>2, <2>3, OthersKeep DEF SsoInv
  <1>5. CASE Unlink(s)
    <2>1. /\ UNCHANGED <<person, users, lastUser, gate, provisions, deletions, isIn, mishaps, stuck>>
          /\ links' = [links EXCEPT ![w] = 0] /\ Go(s, "insert", 0)
      BY <1>2, <1>5 DEF Unlink
    <2>2. signIns' \in [SignIns -> SignInStates] /\ SignInsAreOwn'
      BY <1>0, <1>2, <2>1, GoKeeps
    <2>3. links' \in [Persons -> {0} \cup UserIds] /\ \A p \in Persons : links'[p] \in {links[p], 0}
      BY <1>0, <2>1, SsoFacts
    <2>4. SsoTypeOK'
      BY <1>0, <2>1, <2>2, <2>3, Zenon DEF SsoTypeOK
    <2>. QED  BY <1>0, <2>1, <2>2, <2>3, <2>4, OthersKeep DEF SsoInv
  <1>6. CASE Insert(s)
    <2>1. UNCHANGED <<person, links, gate, provisions, deletions, mishaps, stuck>>
      BY <1>6 DEF Insert
    <2>2. CASE Taken
      <3>1. UNCHANGED <<users, lastUser>> /\ signIns' = [signIns EXCEPT ![s] = IdleSignIn]
        BY <1>6, <2>2 DEF Insert, End
      <3>2. isIn' \in BOOLEAN
        BY <1>0, <1>6, <2>2, Zenon DEF Insert, End, SsoTypeOK
      <3>3. signIns' \in [SignIns -> SignInStates] /\ \A o \in SignIns : signIns'[o] \in {signIns[o], IdleSignIn}
        BY <1>0, <3>1, SsoFacts, PersonFacts
      <3>4. SsoTypeOK'
        BY <1>0, <2>1, <3>1, <3>2, <3>3, Zenon DEF SsoTypeOK
      <3>. QED  BY <1>0, <2>1, <3>1, <3>3, <3>4, OthersKeep DEF SsoInv
    <2>3. CASE ~Taken
      <3>1. PICK n \in UserIds : n = lastUser + 1
        BY <1>6, <2>3 DEF Insert
      <3>2. lastUser' = n /\ users' = [users EXCEPT ![n] = w] /\ Go(s, "link", n) /\ isIn' = isIn
        BY <1>2, <1>6, <2>3, <3>1 DEF Insert
      <3>3. users' \in [UserIds -> Accounts]
        BY <1>0, <3>2, SsoFacts, PersonFacts
      <3>4. \A i \in 1 .. lastUser : users'[i] \in {users[i], Nobody}
        BY <1>0, <3>1, <3>2, SsoFacts, PersonFacts
      <3>5. Own(w, n)'
        BY <1>0, <3>1, <3>2, SsoFacts, PersonFacts DEF Own
      <3>6. lastUser' \in Nat /\ lastUser <= lastUser'
        BY <1>0, <3>1, <3>2
      <3>7. signIns' \in [SignIns -> SignInStates] /\ SignInsAreOwn'
        BY <1>2, <3>2, <3>4, <3>5, <3>6, GoKeeps
      <3>8. SsoTypeOK'
        BY <1>0, <2>1, <3>2, <3>3, <3>7, Zenon DEF SsoTypeOK
      <3>. QED  BY <2>1, <3>4, <3>6, <3>7, <3>8, OthersKeep, SsoFacts DEF SsoInv
    <2>. QED  BY <2>2, <2>3
  <1>7. CASE Link(s)
    <2>1. PICK i \in {0} \cup UserIds : i = signIns[s].user
      BY <1>1
    <2>2. /\ UNCHANGED <<person, users, lastUser, gate, deletions, isIn, mishaps, stuck>>
          /\ links' = [links EXCEPT ![w] = i] /\ provisions' = provisions \cup {<<w, i>>}
          /\ Go(s, "finish", i)
      BY <1>2, <1>7, <2>1 DEF Link
    <2>3. Own(w, i)
      BY <1>2, <1>7, <2>1 DEF Link, SsoInv, SignInsAreOwn
    <2>4. Own(w, i)'
      BY <1>0, <2>2, <2>3, OwnIsKept
    <2>5. signIns' \in [SignIns -> SignInStates] /\ SignInsAreOwn'
      BY <1>0, <1>2, <2>2, <2>4, GoKeeps
    <2>6. links' \in [Persons -> {0} \cup UserIds] /\ provisions' \subseteq Persons \X ({0} \cup UserIds)
      BY <1>0, <2>2, SsoFacts
    <2>7. LinksAreOwn'
      BY <1>0, <2>2, <2>3, SsoFacts DEF SsoInv, LinksAreOwn, Own
    <2>8. ProvisionsAreOwn'
      BY <2>2, <2>3 DEF SsoInv, ProvisionsAreOwn, Own
    <2>9. GateIsOwn'
      BY <1>0, <2>2, OthersKeep
    <2>10. SsoTypeOK'
      BY <1>0, <2>2, <2>5, <2>6, Zenon DEF SsoTypeOK
    <2>. QED  BY <2>5, <2>7, <2>8, <2>9, <2>10 DEF SsoInv
  <1>8. CASE Finish(s)
    <2>1. /\ UNCHANGED <<person, users, lastUser, links, gate, provisions, deletions, mishaps, stuck>>
          /\ signIns' = [signIns EXCEPT ![s] = IdleSignIn]
      BY <1>8 DEF Finish, End
    <2>2. isIn' \in BOOLEAN
      BY <1>0, <1>8, Zenon DEF Finish, End, Exists, SsoTypeOK
    <2>3. signIns' \in [SignIns -> SignInStates] /\ \A o \in SignIns : signIns'[o] \in {signIns[o], IdleSignIn}
      BY <1>0, <2>1, SsoFacts, PersonFacts
    <2>4. SsoTypeOK'
      BY <1>0, <2>1, <2>2, <2>3, Zenon DEF SsoTypeOK
    <2>. QED  BY <1>0, <2>1, <2>3, <2>4, OthersKeep DEF SsoInv
  <1>. QED  BY <1>3, <1>4, <1>5, <1>6, <1>7, <1>8 DEF Callback

LEMMA SsoStep == SsoInv /\ [SsoNext]_ssoVars => SsoInv'
  <1>. SUFFICES ASSUME SsoInv, [SsoNext]_ssoVars PROVE SsoInv'
    OBVIOUS
  <1>0. SsoTypeOK /\ lastUser \in Nat
    BY SsoFacts, PersonFacts DEF SsoInv
  <1>1. ASSUME NEW s \in SignIns, Exchange(s) PROVE SsoInv'
    <2>1. UNCHANGED <<person, users, lastUser, links, gate, provisions, deletions, isIn, mishaps, stuck>>
      BY <1>1 DEF Exchange
    <2>2. PICK n \in SignInStates : /\ n = [pc |-> IF gate[person] = 0 THEN "find" ELSE "linked",
                                            who |-> person, user |-> gate[person]]
                                    /\ signIns' = [signIns EXCEPT ![s] = n]
      BY <1>0, <1>1, SsoFacts DEF Exchange, SignInStates
    <2>3. signIns' \in [SignIns -> SignInStates]
      BY <1>0, <2>2, SsoFacts
    <2>4. n.pc \in {"linked", "own", "link", "finish"} => Own(n.who, n.user)
      BY <1>0, <2>2, SsoFacts DEF SsoInv, GateIsOwn
    <2>5. SignInsAreOwn'
      BY <1>0, <2>1, <2>2, <2>4, SsoFacts DEF SsoInv, SignInsAreOwn, Own
    <2>6. SsoTypeOK'
      BY <1>0, <2>1, <2>3, Zenon DEF SsoTypeOK
    <2>. QED  BY <1>0, <2>1, <2>5, <2>6, OthersKeep DEF SsoInv
  <1>2. ASSUME NEW s \in SignIns, SignInFails(s) PROVE SsoInv'
    <2>1. /\ UNCHANGED <<person, users, lastUser, links, gate, provisions, deletions>>
          /\ signIns' = [signIns EXCEPT ![s] = IdleSignIn] /\ Mishap
      BY <1>2 DEF SignInFails, End
    <2>2. isIn' \in BOOLEAN /\ stuck' \in BOOLEAN
      BY <1>0, <1>2, Zenon DEF SignInFails, End, SsoTypeOK
    <2>3. signIns' \in [SignIns -> SignInStates] /\ \A o \in SignIns : signIns'[o] \in {signIns[o], IdleSignIn}
      BY <1>0, <2>1, SsoFacts, PersonFacts
    <2>4. mishaps' \in 0 .. MaxMishaps
      BY <1>0, <2>1, PersonsAssumption DEF Mishap, SsoTypeOK
    <2>5. SsoTypeOK'
      BY <1>0, <2>1, <2>2, <2>3, <2>4, Zenon DEF SsoTypeOK
    <2>. QED  BY <1>0, <2>1, <2>3, <2>5, OthersKeep DEF SsoInv
  <1>3. ASSUME NEW i \in UserIds, DropUser(i)
        PROVE  /\ users' \in [UserIds -> Accounts] /\ links' \in [Persons -> {0} \cup UserIds]
               /\ \A j \in 1 .. lastUser : users'[j] \in {users[j], Nobody}
               /\ \A p \in Persons : links'[p] \in {links[p], 0}
    BY <1>0, <1>3, SsoFacts, PersonFacts DEF DropUser
  <1>4. ASSUME NEW i \in UserIds, DeleteUser(i) PROVE SsoInv'
    <2>1. DropUser(i) /\ UNCHANGED <<person, lastUser, gate, provisions, deletions, signIns, isIn, mishaps, stuck>>
      BY <1>4 DEF DeleteUser
    <2>2. SsoTypeOK'
      BY <1>0, <1>3, <2>1, Zenon DEF SsoTypeOK
    <2>. QED  BY <1>0, <1>3, <2>1, <2>2, OthersKeep DEF SsoInv
  <1>5. ASSUME NEW i \in UserIds, SyncDeleteUser(i) PROVE SsoInv'
    <2>1. /\ DropUser(i) /\ UNCHANGED <<person, lastUser, gate, provisions, signIns, isIn, mishaps, stuck>>
          /\ deletions' = [deletions EXCEPT !.half = @ \ {i}]
      BY <1>5 DEF SyncDeleteUser
    <2>2. deletions' \in [called : SUBSET UserIds, half : SUBSET UserIds]
      BY <1>0, <2>1, SsoFacts
    <2>3. SsoTypeOK'
      BY <1>0, <1>3, <2>1, <2>2, Zenon DEF SsoTypeOK
    <2>. QED  BY <1>0, <1>3, <2>1, <2>3, OthersKeep DEF SsoInv
  <1>6. ASSUME NEW i \in UserIds, SyncDeleteLinks(i) PROVE SsoInv'
    <2>1. /\ UNCHANGED <<person, users, lastUser, gate, provisions, signIns, isIn, mishaps, stuck>>
          /\ links' = [p \in Persons |-> IF links[p] = i THEN 0 ELSE links[p]]
      BY <1>6 DEF SyncDeleteLinks
    <2>2. deletions' \in [called : SUBSET UserIds, half : SUBSET UserIds]
      BY <1>0, <1>6, SsoFacts DEF SyncDeleteLinks
    <2>3. links' \in [Persons -> {0} \cup UserIds] /\ \A p \in Persons : links'[p] \in {links[p], 0}
      BY <1>0, <2>1, SsoFacts
    <2>4. SsoTypeOK'
      BY <1>0, <2>1, <2>2, <2>3, Zenon DEF SsoTypeOK
    <2>. QED  BY <1>0, <2>1, <2>3, <2>4, OthersKeep DEF SsoInv
  <1>7. ASSUME NEW r \in provisions, Deliver(r) PROVE SsoInv'
    <2>1. PICK p \in Persons, i \in {0} \cup UserIds : p = r[1] /\ i = r[2]
      BY <1>0, SsoFacts
    <2>2. /\ UNCHANGED <<person, users, lastUser, links, deletions, signIns, isIn, mishaps, stuck>>
          /\ provisions' = provisions \ {r} /\ gate' = [gate EXCEPT ![p] = i]
      BY <1>7, <2>1 DEF Deliver
    <2>3. i # 0 => Own(p, i)
      BY <2>1 DEF SsoInv, ProvisionsAreOwn
    <2>4. GateIsOwn'
      BY <1>0, <2>2, <2>3, SsoFacts DEF SsoInv, GateIsOwn, Own
    <2>5. gate' \in [Persons -> {0} \cup UserIds] /\ provisions' \subseteq Persons \X ({0} \cup UserIds)
      BY <1>0, <2>2, SsoFacts
    <2>6. SsoTypeOK'
      BY <1>0, <2>2, <2>5, Zenon DEF SsoTypeOK
    <2>. QED  BY <1>0, <2>2, <2>4, <2>6, OthersKeep DEF SsoInv
  <1>8. ASSUME NEW r \in provisions, LoseProvision(r) PROVE SsoInv'
    <2>1. /\ UNCHANGED <<person, users, lastUser, links, gate, deletions, signIns, isIn, stuck>>
          /\ provisions' = provisions \ {r} /\ Mishap
      BY <1>8 DEF LoseProvision
    <2>2. mishaps' \in 0 .. MaxMishaps
      BY <1>0, <2>1, PersonsAssumption DEF Mishap, SsoTypeOK
    <2>3. provisions' \subseteq Persons \X ({0} \cup UserIds)
      BY <1>0, <2>1, SsoFacts
    <2>4. SsoTypeOK'
      BY <1>0, <2>1, <2>2, <2>3, Zenon DEF SsoTypeOK
    <2>. QED  BY <1>0, <2>1, <2>4, OthersKeep DEF SsoInv
  <1>9. ASSUME NEW i \in UserIds, LoseDeletion(i) PROVE SsoInv'
    <2>1. /\ UNCHANGED <<person, users, lastUser, links, gate, provisions, signIns, isIn>>
          /\ deletions' = [called |-> deletions.called \ {i}, half |-> deletions.half \ {i}] /\ Mishap
          /\ stuck' = TRUE
      BY <1>9 DEF LoseDeletion
    <2>2. mishaps' \in 0 .. MaxMishaps
      BY <1>0, <2>1, PersonsAssumption DEF Mishap, SsoTypeOK
    <2>3. deletions' \in [called : SUBSET UserIds, half : SUBSET UserIds]
      BY <1>0, <2>1, SsoFacts
    <2>4. SsoTypeOK'
      BY <1>0, <2>1, <2>2, <2>3, Zenon DEF SsoTypeOK
    <2>. QED  BY <1>0, <2>1, <2>4, OthersKeep DEF SsoInv
  <1>10. CASE Leave
    <2>1. /\ UNCHANGED <<users, lastUser, links, gate, provisions, signIns, mishaps>>
          /\ person' \in Persons
      BY <1>0, <1>10, SsoFacts, PersonFacts DEF Leave, Persons
    <2>2. deletions' \in [called : SUBSET UserIds, half : SUBSET UserIds]
      BY <1>0, <1>10, SsoFacts DEF Leave
    <2>3. isIn' \in BOOLEAN /\ stuck' \in BOOLEAN
      BY <1>0, <1>10, Zenon DEF Leave, SsoTypeOK
    <2>4. SsoTypeOK'
      BY <1>0, <2>1, <2>2, <2>3, Zenon DEF SsoTypeOK
    <2>. QED  BY <1>0, <2>1, <2>4, OthersKeep DEF SsoInv
  <1>11. CASE UNCHANGED ssoVars
    <2>1. SsoTypeOK'
      BY <1>0, <1>11, Zenon DEF ssoVars, SsoTypeOK
    <2>. QED  BY <1>0, <1>11, <2>1, OthersKeep DEF ssoVars, SsoInv
  <1>. QED  BY <1>1, <1>2, <1>4, <1>5, <1>6, <1>7, <1>8, <1>9, <1>10, <1>11, CallbackStep
            DEF SsoNext, SyncUser, Provision

LEMMA SsoTypes == SsoSpec => []SsoInv
  BY SsoInitInv, SsoStep, PTL DEF SsoSpec

\* OwnAccount: over however many persons of one name, sign-ins at once and reports
\* in any order, nobody finishes signing in to an account that is another's.
THEOREM AccountIsOwn == SsoSpec => []OwnAccount
  <1>1. SsoInv => OwnAccount
    BY DEF SsoInv, SignInsAreOwn, Own, OwnAccount
  <1>. QED  BY <1>1, SsoTypes, PTL


\* The half of GetsIn that is about safety.  Unless the name is stuck, an account that has
\* it is the person's, who finds it by a link, now or when the sign-in that made it is done,
\* or Obligate has asked for its end.
NameIsFreed ==
    \A i \in UserIds : users[i] \in Persons =>
        \/ /\ users[i] = person
           /\ \/ links[person] = i
              \/ \E s \in SignIns : signIns[s].pc = "link" /\ signIns[s].user = i
        \/ i \in deletions.called \cup deletions.half

\* Who is on the way in, and with which account; what is left of predecessors.
IsHere(s) ==
    /\ signIns[s].pc \notin {"idle", "finish"} => signIns[s].who = person
    /\ signIns[s].pc # "unlink"
    /\ signIns[s].pc \in {"own", "link"} => users[signIns[s].user] = person
UsersHavePassed ==
    /\ \A i \in UserIds : users[i] \in Persons => users[i] <= person
    /\ \A i, j \in UserIds : users[i] \in Persons /\ users[j] \in Persons => i = j
LinksHavePassed ==
    /\ \A p \in Persons : p > person => links[p] = 0
    /\ links[person] # 0 => users[links[person]] = person
DeletedHavePassed ==
    \A i \in deletions.called \cup deletions.half : i \in 1 .. lastUser /\ users[i] # person
Freed ==
    /\ NameIsFreed /\ UsersHavePassed /\ LinksHavePassed /\ DeletedHavePassed
    /\ \A s \in SignIns : IsHere(s)

\* A sign-in that goes on and has no new account to link.
LEMMA SignInMoves ==
    ASSUME Freed, UNCHANGED <<person, users, lastUser, links, deletions>>,
           NEW s \in SignIns, signIns[s].pc # "link", IsHere(s)',
           \A o \in SignIns \ {s} : signIns'[o] = signIns[o]
    PROVE  Freed'
  <1>1. NameIsFreed'
    BY DEF Freed, NameIsFreed
  <1>2. UsersHavePassed' /\ LinksHavePassed' /\ DeletedHavePassed'
    BY DEF Freed, UsersHavePassed, LinksHavePassed, DeletedHavePassed
  <1>3. ASSUME NEW o \in SignIns, o # s PROVE IsHere(o)'
    BY <1>3 DEF Freed, IsHere
  <1>. QED  BY <1>1, <1>2, <1>3 DEF Freed

\* What Go and End do to the sign-in and to the others.
LEMMA Went ==
    ASSUME SsoTypeOK, NEW s \in SignIns
    PROVE  /\ \A pc, i : Go(s, pc, i) =>
                 /\ signIns'[s].pc = pc /\ signIns'[s].user = i /\ signIns'[s].who = signIns[s].who
                 /\ \A o \in SignIns \ {s} : signIns'[o] = signIns[o]
           /\ signIns' = [signIns EXCEPT ![s] = IdleSignIn] =>
                 /\ signIns'[s].pc = "idle"
                 /\ \A o \in SignIns \ {s} : signIns'[o] = signIns[o]
  <1>0. PICK q \in SignInStates : q = signIns[s]
    BY SsoFacts
  <1>1. ASSUME NEW pc, NEW i, Go(s, pc, i)
        PROVE  /\ signIns'[s].pc = pc /\ signIns'[s].user = i /\ signIns'[s].who = signIns[s].who
               /\ \A o \in SignIns \ {s} : signIns'[o] = signIns[o]
    <2>1. signIns' = [signIns EXCEPT ![s] = [q EXCEPT !.pc = pc, !.user = i]]
      BY <1>0, <1>1, SsoFacts DEF Go
    <2>2. /\ [q EXCEPT !.pc = pc, !.user = i].pc = pc /\ [q EXCEPT !.pc = pc, !.user = i].user = i
          /\ [q EXCEPT !.pc = pc, !.user = i].who = q.who
      BY DEF SignInStates
    <2>. QED  BY <1>0, <2>1, <2>2, SsoFacts
  <1>2. signIns' = [signIns EXCEPT ![s] = IdleSignIn] =>
            /\ signIns'[s].pc = "idle"
            /\ \A o \in SignIns \ {s} : signIns'[o] = signIns[o]
    BY SsoFacts DEF IdleSignIn
  <1>. QED  BY <1>1, <1>2

LEMMA FreedByCallback ==
    ASSUME SsoInv, Freed, NEW s \in SignIns, Exchange(s) \/ Callback(s) PROVE Freed'
  <1>0. SsoTypeOK /\ person \in Persons /\ lastUser \in Nat /\ IsHere(s)
        /\ users \in [UserIds -> Accounts] /\ links \in [Persons -> {0} \cup UserIds]
    BY SsoFacts, PersonFacts DEF SsoInv, Freed
  <1>1. CASE Exchange(s)
    <2>1. signIns' = [signIns EXCEPT ![s] = [pc |-> IF gate[person] = 0 THEN "find" ELSE "linked",
                                             who |-> person, user |-> gate[person]]]
      BY <1>1 DEF Exchange
    <2>2. /\ signIns'[s].pc \in {"find", "linked"} /\ signIns'[s].who = person
          /\ \A o \in SignIns \ {s} : signIns'[o] = signIns[o]
      BY <1>0, <2>1, SsoFacts
    <2>3. UNCHANGED <<person, users, lastUser, links, deletions>> /\ signIns[s].pc # "link"
      BY <1>1 DEF Exchange
    <2>4. IsHere(s)'
      BY <2>2, <2>3 DEF IsHere
    <2>. QED  BY <2>2, <2>3, <2>4, SignInMoves
  <1>2. ASSUME UNCHANGED <<person, users, lastUser, links, deletions>>, NEW pc, NEW i, Go(s, pc, i),
               signIns[s].pc # "link", signIns[s].pc # "idle",
               \/ pc = "finish"
               \/ pc = "insert" /\ signIns[s].pc # "finish"
               \/ pc = "own" /\ signIns[s].pc # "finish" /\ users[i] = person
        PROVE  Freed'
    <2>1. IsHere(s)'
      BY <1>0, <1>2, Went DEF IsHere
    <2>. QED  BY <1>0, <1>2, <2>1, Went, SignInMoves
  <1>3. CASE FindLinked(s)
    <2>1. PICK i : i = signIns[s].user
      OBVIOUS
    <2>2. Go(s, "finish", i) \/ Go(s, "insert", 0)
      BY <1>3, <2>1 DEF FindLinked
    <2>3. UNCHANGED <<person, users, lastUser, links, deletions>> /\ signIns[s].pc = "linked"
      BY <1>3 DEF FindLinked
    <2>. QED  BY <1>2, <2>2, <2>3
  <1>4. CASE FindLink(s)
    <2>1. UNCHANGED <<person, users, lastUser, links, deletions>> /\ signIns[s].pc = "find"
      BY <1>4 DEF FindLink
    <2>2. signIns[s].who = person
      BY <1>0, <2>1 DEF IsHere
    <2>3. PICK i : i = links[person]
      OBVIOUS
    <2>4. IF i = 0 THEN Go(s, "insert", i) ELSE Go(s, "own", i)
      BY <1>4, <2>2, <2>3 DEF FindLink
    <2>5. i # 0 => users[i] = person
      BY <2>3 DEF Freed, LinksHavePassed
    <2>. QED  BY <1>2, <2>1, <2>4, <2>5
  <1>5. CASE FindOwn(s)
    <2>1. UNCHANGED <<person, users, lastUser, links, deletions>> /\ signIns[s].pc = "own"
      BY <1>5 DEF FindOwn
    <2>2. Exists(signIns[s].user)
      BY <1>0, <2>1, PersonFacts DEF IsHere, Exists
    <2>3. Go(s, "finish", signIns[s].user)
      BY <1>5, <2>2 DEF FindOwn
    <2>. QED  BY <1>2, <2>1, <2>3
  <1>6. CASE Unlink(s)
    BY <1>0, <1>6 DEF Unlink, IsHere
  <1>7. ASSUME UNCHANGED <<person, users, lastUser, links, deletions>>, signIns[s].pc # "link",
               signIns' = [signIns EXCEPT ![s] = IdleSignIn]
        PROVE  Freed'
    <2>1. IsHere(s)'
      BY <1>0, <1>7, Went DEF IsHere
    <2>. QED  BY <1>0, <1>7, <2>1, Went, SignInMoves
  <1>8. CASE Finish(s)
    <2>1. UNCHANGED <<person, users, lastUser, links, deletions>> /\ signIns[s].pc # "link"
          /\ signIns' = [signIns EXCEPT ![s] = IdleSignIn]
      BY <1>8 DEF Finish, End
    <2>. QED  BY <1>7, <2>1
  <1>9. CASE Insert(s) /\ Taken
    <2>1. UNCHANGED <<person, users, lastUser, links, deletions>> /\ signIns[s].pc # "link"
          /\ signIns' = [signIns EXCEPT ![s] = IdleSignIn]
      BY <1>9 DEF Insert, End
    <2>. QED  BY <1>7, <2>1
  <1>10. CASE Insert(s) /\ ~Taken
    <2>1. /\ signIns[s].pc = "insert" /\ UNCHANGED <<person, links, deletions>>
          /\ \A i \in UserIds : users[i] \notin Persons
      BY <1>10 DEF Insert, Taken
    <2>2. signIns[s].who = person
      BY <1>0, <2>1 DEF IsHere
    <2>3. PICK n \in UserIds : n = lastUser + 1
      BY <1>10 DEF Insert
    <2>4. lastUser' = n /\ users' = [users EXCEPT ![n] = person] /\ Go(s, "link", n)
      BY <1>10, <2>2, <2>3 DEF Insert
    <2>5. \A i \in UserIds : users'[i] = IF i = n THEN person ELSE users[i]
      BY <1>0, <2>4
    <2>6. signIns'[s].pc = "link" /\ signIns'[s].user = n /\ signIns'[s].who = person
          /\ \A o \in SignIns \ {s} : signIns'[o] = signIns[o]
      BY <1>0, <2>2, <2>4, Went
    <2>7. NameIsFreed'
      BY <2>1, <2>5, <2>6 DEF NameIsFreed
    <2>8. UsersHavePassed'
      BY <1>0, <2>1, <2>5 DEF UsersHavePassed, Persons
    <2>9. LinksHavePassed'
      BY <1>0, <2>1, <2>5 DEF Freed, LinksHavePassed
    <2>10. DeletedHavePassed'
      <3>1. ASSUME NEW i \in deletions.called \cup deletions.half
            PROVE  i \in 1 .. lastUser' /\ users'[i] # person
        <4>1. i \in 1 .. lastUser /\ users[i] # person
          BY DEF Freed, DeletedHavePassed
        <4>2. i \in UserIds /\ i # n
          BY <1>0, <2>3, <4>1, SsoFacts, PersonFacts
        <4>. QED  BY <1>0, <2>3, <2>4, <2>5, <4>1, <4>2
      <3>. QED  BY <2>1, <3>1 DEF DeletedHavePassed
    <2>11. ASSUME NEW o \in SignIns PROVE IsHere(o)'
      <3>1. CASE o = s
        BY <2>1, <2>5, <2>6, <3>1 DEF IsHere
      <3>2. CASE o # s
        <4>1. signIns'[o] = signIns[o] /\ IsHere(o)
          BY <2>6, <3>2 DEF Freed
        <4>2. signIns[o].user \in UserIds \/ signIns[o].user = 0
          BY <1>0, SsoFacts DEF SignInStates
        <4>3. signIns[o].pc \in {"own", "link"} => Own(signIns[o].who, signIns[o].user)
          BY DEF SsoInv, SignInsAreOwn
        <4>4. signIns[o].pc \notin {"own", "link"}
          BY <1>0, <2>1, <4>1, <4>3, SsoFacts, PersonFacts DEF IsHere, Own
        <4>. QED  BY <2>1, <4>1, <4>4 DEF IsHere
      <3>. QED  BY <3>1, <3>2
    <2>. QED  BY <2>7, <2>8, <2>9, <2>10, <2>11 DEF Freed
  <1>11. CASE Link(s)
    <2>1. signIns[s].pc = "link" /\ UNCHANGED <<person, users, lastUser, deletions>>
      BY <1>11 DEF Link
    <2>2. signIns[s].who = person /\ users[signIns[s].user] = person
      BY <1>0, <2>1 DEF IsHere
    <2>3. PICK n \in UserIds : n = signIns[s].user
      <3>1. Own(signIns[s].who, signIns[s].user)
        BY <2>1 DEF SsoInv, SignInsAreOwn
      <3>. QED  BY <1>0, <3>1, SsoFacts, PersonFacts DEF Own
    <2>4. links' = [links EXCEPT ![person] = n] /\ Go(s, "finish", n)
      BY <1>11, <2>2, <2>3 DEF Link
    <2>5. links'[person] = n /\ \A p \in Persons \ {person} : links'[p] = links[p]
      BY <1>0, <2>4
    <2>6. signIns'[s].pc = "finish" /\ \A o \in SignIns \ {s} : signIns'[o] = signIns[o]
      BY <1>0, <2>4, Went
    <2>7. NameIsFreed'
      <3>1. ASSUME NEW i \in UserIds, users[i] \in Persons PROVE users[i] = person /\ links'[person] = i
        BY <1>0, <2>2, <2>3, <2>5, <3>1 DEF Freed, UsersHavePassed
      <3>. QED  BY <2>1, <3>1 DEF NameIsFreed
    <2>8. UsersHavePassed' /\ DeletedHavePassed'
      BY <2>1 DEF Freed, UsersHavePassed, DeletedHavePassed
    <2>9. LinksHavePassed'
      BY <1>0, <2>1, <2>2, <2>3, <2>5 DEF Freed, LinksHavePassed, Persons
    <2>10. ASSUME NEW o \in SignIns PROVE IsHere(o)'
      BY <2>1, <2>6 DEF Freed, IsHere
    <2>. QED  BY <2>7, <2>8, <2>9, <2>10 DEF Freed
  <1>. QED  BY <1>1, <1>3, <1>4, <1>5, <1>6, <1>8, <1>9, <1>10, <1>11 DEF Callback, Insert

\* A link that goes with its account, or the account with it.
LEMMA FreedByDrop ==
    ASSUME SsoInv, Freed, NEW i \in UserIds, DropUser(i), users[i] # person,
           UNCHANGED <<person, lastUser, signIns>>,
           deletions'.called \cup deletions'.half \subseteq deletions.called \cup deletions.half,
           deletions.called \cup deletions.half \subseteq {i} \cup deletions'.called \cup deletions'.half
    PROVE  Freed'
  <1>0. person \in Persons /\ users \in [UserIds -> Accounts] /\ links \in [Persons -> {0} \cup UserIds]
    BY SsoFacts DEF SsoInv
  <1>1. \A j \in UserIds : users'[j] = IF j = i THEN Nobody ELSE users[j]
    BY <1>0 DEF DropUser
  <1>2. \A p \in Persons : links'[p] = IF links[p] = i THEN 0 ELSE links[p]
    BY DEF DropUser
  <1>3. NameIsFreed'
    BY <1>0, <1>1, <1>2, PersonFacts DEF Freed, NameIsFreed
  <1>4. UsersHavePassed'
    BY <1>1, PersonFacts DEF Freed, UsersHavePassed
  <1>5. LinksHavePassed'
    BY <1>0, <1>1, <1>2 DEF Freed, LinksHavePassed
  <1>6. DeletedHavePassed'
    <2>1. ASSUME NEW j \in deletions'.called \cup deletions'.half
          PROVE  j \in 1 .. lastUser /\ users'[j] # person
      <3>1. j \in 1 .. lastUser /\ users[j] # person
        BY DEF Freed, DeletedHavePassed
      <3>2. j \in UserIds
        BY <3>1, SsoFacts, PersonFacts DEF SsoInv
      <3>. QED  BY <1>0, <1>1, <3>1, <3>2, PersonFacts
    <2>. QED  BY <2>1 DEF DeletedHavePassed
  <1>7. ASSUME NEW o \in SignIns PROVE IsHere(o)'
    <2>1. IsHere(o) /\ signIns[o].user \in {0} \cup UserIds
      BY SsoFacts DEF Freed, SsoInv, SignInStates
    <2>2. signIns[o].pc \in {"own", "link"} => signIns[o].user \in UserIds \ {i}
      <3>1. signIns[o].pc \in {"own", "link"} => Own(signIns[o].who, signIns[o].user)
        BY DEF SsoInv, SignInsAreOwn
      <3>2. signIns[o].pc \in {"own", "link"} => signIns[o].user # 0
        BY <3>1 DEF Own
      <3>. QED  BY <2>1, <3>2 DEF IsHere
    <2>. QED  BY <1>1, <2>1, <2>2 DEF IsHere
  <1>. QED  BY <1>3, <1>4, <1>5, <1>6, <1>7 DEF Freed

LEMMA FreedByLeave == ASSUME SsoInv, Freed, Leave, ~Unknown PROVE Freed'
  <1>0. /\ person \in Persons /\ person' = person + 1 /\ person' \in Persons /\ NumPersons \in Nat
        /\ users \in [UserIds -> Accounts] /\ gate \in [Persons -> {0} \cup UserIds]
        /\ UNCHANGED <<users, lastUser, links, gate, signIns>>
    BY SsoFacts, PersonFacts DEF SsoInv, Leave, Persons
  <1>1. PICK g \in {0} \cup UserIds : g = gate[person]
    BY <1>0
  <1>2. deletions'.called = deletions.called \cup ({g} \ {0}) /\ deletions'.half = deletions.half
    BY <1>1, SsoFacts DEF SsoInv, Leave
  <1>3. \A i \in UserIds : users[i] = person => i = g
    BY <1>1 DEF Unknown
  <1>4. NameIsFreed'
    <2>1. ASSUME NEW i \in UserIds, users[i] \in Persons
          PROVE  i \in deletions'.called \cup deletions'.half
      BY <1>2, <1>3, <2>1, PersonFacts DEF Freed, NameIsFreed
    <2>. QED  BY <1>0, <2>1 DEF NameIsFreed
  <1>5. UsersHavePassed'
    BY <1>0 DEF Freed, UsersHavePassed, Persons
  <1>6. LinksHavePassed'
    BY <1>0 DEF Freed, LinksHavePassed, Persons
  <1>7. DeletedHavePassed'
    <2>1. ASSUME NEW i \in deletions'.called \cup deletions'.half
          PROVE  i \in 1 .. lastUser /\ users[i] # person + 1
      <3>1. CASE i \in deletions.called \cup deletions.half
        <4>1. i \in 1 .. lastUser /\ i \in UserIds
          BY <3>1, SsoFacts, PersonFacts DEF Freed, DeletedHavePassed, SsoInv
        <4>. QED  BY <1>0, <4>1 DEF Freed, UsersHavePassed, Persons
      <3>2. CASE i = g /\ g # 0
        <4>1. Own(person, g)
          BY <1>0, <1>1, <3>2 DEF SsoInv, GateIsOwn
        <4>2. g \in 1 .. lastUser /\ (users[g] = person \/ users[g] \notin Persons)
          BY <4>1, PersonFacts DEF Own
        <4>. QED  BY <1>0, <3>2, <4>2 DEF Persons
      <3>. QED  BY <1>2, <3>1, <3>2
    <2>. QED  BY <1>0, <2>1 DEF DeletedHavePassed
  <1>8. ASSUME NEW o \in SignIns PROVE IsHere(o)'
    <2>1. IsHere(o) /\ ~(signIns[o].who = person /\ signIns[o].pc \notin {"idle", "finish"})
      BY DEF Freed, Unknown
    <2>. QED  BY <1>0, <2>1 DEF IsHere
  <1>. QED  BY <1>4, <1>5, <1>6, <1>7, <1>8 DEF Freed

LEMMA FreedStep ==
    ASSUME SsoInv, Freed, [SsoNext]_ssoVars PROVE stuck' \/ Freed'
  <1>. SUFFICES ASSUME ~stuck' PROVE Freed'
    OBVIOUS
  <1>0. deletions \in [called : SUBSET UserIds, half : SUBSET UserIds] /\ SsoTypeOK
    BY SsoFacts DEF SsoInv
  <1>1. ASSUME NEW s \in SignIns, Exchange(s) \/ Callback(s) PROVE Freed'
    BY <1>1, FreedByCallback
  <1>2. ASSUME NEW s \in SignIns, SignInFails(s) PROVE Freed'
    <2>1. UNCHANGED <<person, users, lastUser, links, deletions>> /\ signIns[s].pc # "link"
          /\ signIns' = [signIns EXCEPT ![s] = IdleSignIn]
      BY <1>2, Zenon DEF SignInFails, End
    <2>2. IsHere(s)'
      BY <1>0, <2>1, Went DEF IsHere
    <2>. QED  BY <1>0, <2>1, <2>2, Went, SignInMoves
  <1>3. ASSUME NEW i \in UserIds, DeleteUser(i) PROVE Freed'
    BY <1>3, FreedByDrop, SsoFacts, PersonFacts DEF DeleteUser, SsoInv
  <1>4. ASSUME NEW i \in UserIds, SyncDeleteUser(i) PROVE Freed'
    <2>1. /\ i \in deletions.half /\ DropUser(i) /\ UNCHANGED <<person, lastUser, signIns>>
          /\ deletions' = [deletions EXCEPT !.half = @ \ {i}]
      BY <1>4 DEF SyncDeleteUser
    <2>2. deletions'.called = deletions.called /\ deletions'.half = deletions.half \ {i}
      BY <1>0, <2>1
    <2>3. users[i] # person
      BY <2>1 DEF Freed, DeletedHavePassed
    <2>. QED  BY <2>1, <2>2, <2>3, FreedByDrop
  <1>5. ASSUME NEW i \in UserIds, SyncDeleteLinks(i) PROVE Freed'
    <2>1. /\ i \in deletions.called /\ UNCHANGED <<person, users, lastUser, signIns>>
          /\ deletions' = [called |-> deletions.called \ {i},
                           half |-> IF Exists(i) THEN deletions.half \cup {i} ELSE deletions.half]
          /\ \A p \in Persons : links'[p] = IF links[p] = i THEN 0 ELSE links[p]
      BY <1>5 DEF SyncDeleteLinks
    <2>2. /\ deletions'.called = deletions.called \ {i}
          /\ deletions'.half = IF Exists(i) THEN deletions.half \cup {i} ELSE deletions.half
      BY <2>1
    <2>3. users[i] # person
      BY <2>1 DEF Freed, DeletedHavePassed
    <2>4. NameIsFreed'
      BY <1>0, <2>1, <2>2, <2>3, SsoFacts, PersonFacts DEF Freed, NameIsFreed, Exists
    <2>5. UsersHavePassed' /\ DeletedHavePassed'
      BY <2>1, <2>2 DEF Freed, UsersHavePassed, DeletedHavePassed
    <2>6. LinksHavePassed'
      BY <1>0, <2>1, SsoFacts DEF Freed, LinksHavePassed
    <2>7. \A o \in SignIns : IsHere(o)'
      BY <2>1 DEF Freed, IsHere
    <2>. QED  BY <2>4, <2>5, <2>6, <2>7 DEF Freed
  <1>6. CASE Leave
    <2>1. ~Unknown
      BY <1>6, Zenon DEF Leave
    <2>. QED  BY <1>6, <2>1, FreedByLeave
  <1>7. CASE \E i \in UserIds : LoseDeletion(i)
    BY <1>7, Zenon DEF LoseDeletion
  <1>8. CASE Provision \/ (\E r \in provisions : LoseProvision(r)) \/ UNCHANGED ssoVars
    <2>1. UNCHANGED <<person, users, lastUser, links, deletions, signIns>>
      BY <1>8, Zenon DEF Provision, Deliver, LoseProvision, ssoVars
    <2>. QED  BY <2>1 DEF Freed, NameIsFreed, UsersHavePassed, LinksHavePassed, DeletedHavePassed, IsHere
  <1>. QED  BY <1>1, <1>2, <1>3, <1>4, <1>5, <1>6, <1>7, <1>8 DEF SsoNext, SyncUser

\* A person who tries again is not kept out by an account of that name for good, over
\* however many persons and whatever overlaps.
THEOREM NameComesFree == SsoSpec => [](stuck \/ NameIsFreed)
  <1>1. SsoInit => Freed
    BY PersonFacts DEF SsoInit, Freed, NameIsFreed, UsersHavePassed, LinksHavePassed,
                       DeletedHavePassed, IsHere, IdleSignIn
  <1>2. stuck /\ [SsoNext]_ssoVars => stuck'
    BY Zenon DEF SsoNext, Exchange, Callback, FindLinked, FindLink, FindOwn, Unlink, Insert, Link,
                 Finish, DeleteUser, Deliver, Leave, SyncDeleteLinks, SyncDeleteUser, SyncUser,
                 Provision, SignInFails, LoseProvision, LoseDeletion, ssoVars
  <1>3. SsoInv /\ (stuck \/ Freed) /\ [SsoNext]_ssoVars => (stuck \/ Freed)'
    BY <1>2, FreedStep
  <1>4. stuck \/ Freed => stuck \/ NameIsFreed
    BY DEF Freed
  <1>. QED  BY <1>1, <1>3, <1>4, SsoTypes, PTL DEF SsoSpec

-----------------------------------------------------------------------------
(* TeamAccess.                                                             *)

\* What the list knows is between what was the case all the time and what was
\* the case some time, query after query.
ListInv ==
    /\ lister.pc # "idle" =>
          /\ always.teams \subseteq memberOf /\ memberOf \subseteq ever.teams
          /\ always.granted \subseteq granted /\ granted \subseteq ever.granted
          /\ always.closure \subseteq Closure /\ Closure \subseteq ever.closure
          /\ always.general \subseteq general /\ general \subseteq ever.general
    /\ lister.pc \notin {"idle", "teams"} =>
          always.teams \subseteq lister.teams /\ lister.teams \subseteq ever.teams
    /\ lister.pc \in {"below", "above", "general", "answer"} =>
          /\ \A t \in always.teams, g \in Groups : <<t, g>> \in always.granted => g \in lister.granted
          /\ \A g \in lister.granted : \E t \in ever.teams : <<t, g>> \in ever.granted
    /\ lister.pc \in {"above", "general", "answer"} =>
          \A a \in lister.granted, d \in Groups : <<a, d>> \in always.closure => d \in lister.listed
    /\ lister.pc \in {"general", "answer"} =>
          \A d \in lister.granted, a \in Groups : <<a, d>> \in always.closure => a \in lister.listed
    /\ lister.pc = "answer" => always.general \subseteq lister.listed
    /\ lister.listed \subseteq Readable(ever) \cup Passed(ever)
    /\ lister.pc \in {"idle", "teams", "granted", "below"} => lister.listed = {}
    /\ lister.pc \in {"idle", "teams", "granted"} => lister.granted = {}

\* A grant that a transaction is deleting stands until its commit, and is deleted by no other.
Holding(s) == savers[s].pc \in {"insert", "commit"}
RowsHeld ==
    \A s \in Savers : Holding(s) =>
        /\ savers[s].rows \subseteq granted
        /\ \A o \in Savers \ {s} : Holding(o) => savers[s].rows \cap savers[o].rows = {}
AccessInv == AccessTypeOK /\ ListInv /\ RowsHeld

LEMMA AccessFacts ==
    AccessTypeOK => /\ parentOf \in [Groups -> Groups \cup {Root}]
                    /\ memberOf \subseteq Teams /\ granted \subseteq Teams \X Groups
                    /\ general \subseteq Groups
                    /\ ever \in Facts /\ always \in Facts
                    /\ savers \in [Savers -> SaverStates] /\ lister \in ListerStates
  BY DEF AccessTypeOK, Now, Facts

LEMMA ClosureIsAboutGroups == Closure \subseteq Groups \X Groups
  BY DEF Closure

LEMMA ClosureIsOfTheTree == parentOf' = parentOf => Closure' = Closure
  BY DEF Closure, Lift

LEMMA NowTyped ==
    ASSUME memberOf \subseteq Teams, granted \subseteq Teams \X Groups, general \subseteq Groups
    PROVE  Now \in Facts
  BY ClosureIsAboutGroups DEF Now, Facts

\* So what is being replaced by itself is there all the time.
LEMMA Remembers ==
    ASSUME AccessTypeOK, Remember, RowsHeld', lister.pc # "idle",
           memberOf' \subseteq Teams, granted' \subseteq Teams \X Groups, general' \subseteq Groups
    PROVE  /\ ever' = [teams |-> ever.teams \cup memberOf', granted |-> ever.granted \cup granted',
                       closure |-> ever.closure \cup Closure', general |-> ever.general \cup general']
           /\ always' = [teams |-> always.teams \cap memberOf', granted |-> always.granted \cap granted',
                         closure |-> always.closure \cap Closure', general |-> always.general \cap general']
  <1>1. DOMAIN ever = {"teams", "granted", "closure", "general"} /\ DOMAIN always = DOMAIN ever
    BY AccessFacts DEF Facts
  <1>2. Now' = [teams |-> memberOf', granted |-> granted', closure |-> Closure', general |-> general']
    BY DEF Now
  <1>3. Replaced' \subseteq granted'
    BY DEF RowsHeld, Holding, Replaced
  <1>4. \A k \in DOMAIN always :
            (IF k = "granted" THEN granted' \cup Replaced' ELSE Now'[k]) = Now'[k]
    BY <1>1, <1>2, <1>3
  <1>. QED  BY <1>1, <1>2, <1>4 DEF Remember


\* What was the case some time only grows, and with it what a list may hold.
LEMMA EverGrows ==
    ASSUME ever \in Facts, ever' \in Facts,
           ever.teams \subseteq ever'.teams, ever.granted \subseteq ever'.granted,
           ever.closure \subseteq ever'.closure, ever.general \subseteq ever'.general
    PROVE  Readable(ever) \subseteq Readable(ever)' /\ Passed(ever) \subseteq Passed(ever)'
  BY DEF Readable, Passed, Facts

\* Administrators change what is the case, and what is remembered with it.
LEMMA Administers ==
    ASSUME AccessInv, Remember, RowsHeld', lister' = lister,
           parentOf' \in [Groups -> Groups \cup {Root}], memberOf' \subseteq Teams,
           granted' \subseteq Teams \X Groups, general' \subseteq Groups,
           savers' \in [Savers -> SaverStates], made' \in 0 .. MaxChangesMade
    PROVE  AccessInv'
  <1>1. CASE lister.pc = "idle"
    <2>1. ever' = ever /\ always' = always
      BY <1>1 DEF Remember
    <2>2. Now' \in Facts
      BY NowTyped, ClosureIsAboutGroups DEF Now, Facts, Closure
    <2>3. AccessTypeOK'
      BY <2>1, <2>2 DEF AccessInv, AccessTypeOK
    <2>4. ListInv'
      BY <1>1 DEF AccessInv, ListInv
    <2>. QED  BY <2>3, <2>4, Zenon DEF AccessInv
  <1>2. CASE lister.pc # "idle"
    <2>0. AccessTypeOK /\ ListInv /\ lister \in ListerStates /\ ever \in Facts /\ always \in Facts
      BY AccessFacts DEF AccessInv
    <2>1. /\ ever' = [teams |-> ever.teams \cup memberOf', granted |-> ever.granted \cup granted',
                      closure |-> ever.closure \cup Closure', general |-> ever.general \cup general']
          /\ always' = [teams |-> always.teams \cap memberOf', granted |-> always.granted \cap granted',
                        closure |-> always.closure \cap Closure', general |-> always.general \cap general']
      BY <1>2, <2>0, Remembers
    <2>2. Closure' \subseteq Groups \X Groups
      BY DEF Closure
    <2>3. Now' \in Facts /\ ever' \in Facts /\ always' \in Facts
      BY <2>0, <2>1, <2>2 DEF Now, Facts
    <2>4. AccessTypeOK'
      BY <2>0, <2>3 DEF AccessTypeOK
    <2>5. /\ ever.teams \subseteq ever'.teams /\ ever.granted \subseteq ever'.granted
          /\ ever.closure \subseteq ever'.closure /\ ever.general \subseteq ever'.general
          /\ memberOf' \subseteq ever'.teams /\ granted' \subseteq ever'.granted
          /\ Closure' \subseteq ever'.closure /\ general' \subseteq ever'.general
      BY <2>1
    <2>6. /\ always'.teams \subseteq always.teams /\ always'.granted \subseteq always.granted
          /\ always'.closure \subseteq always.closure /\ always'.general \subseteq always.general
          /\ always'.teams \subseteq memberOf' /\ always'.granted \subseteq granted'
          /\ always'.closure \subseteq Closure' /\ always'.general \subseteq general'
      BY <2>1
    <2>7. lister'.listed \subseteq Readable(ever)' \cup Passed(ever)'
      BY <2>0, <2>3, <2>5, EverGrows DEF ListInv
    <2>8. ListInv'
      <3>1. (lister.pc \notin {"idle", "teams"} =>
                always.teams \subseteq lister.teams /\ lister.teams \subseteq ever.teams)'
        BY <2>0, <2>5, <2>6 DEF ListInv
      <3>2. (lister.pc \in {"below", "above", "general", "answer"} =>
                /\ \A t \in always.teams, g \in Groups : <<t, g>> \in always.granted => g \in lister.granted
                /\ \A g \in lister.granted : \E t \in ever.teams : <<t, g>> \in ever.granted)'
        BY <2>0, <2>5, <2>6 DEF ListInv
      <3>3. (lister.pc \in {"above", "general", "answer"} =>
                \A a \in lister.granted, d \in Groups : <<a, d>> \in always.closure => d \in lister.listed)'
        BY <2>0, <2>6 DEF ListInv
      <3>4. (lister.pc \in {"general", "answer"} =>
                \A d \in lister.granted, a \in Groups : <<a, d>> \in always.closure => a \in lister.listed)'
        BY <2>0, <2>6 DEF ListInv
      <3>5. (lister.pc = "answer" => always.general \subseteq lister.listed)'
        BY <2>0, <2>6 DEF ListInv
      <3>6. (/\ lister.pc \in {"idle", "teams", "granted", "below"} => lister.listed = {}
             /\ lister.pc \in {"idle", "teams", "granted"} => lister.granted = {})'
        BY <2>0 DEF ListInv
      <3>. QED  BY <2>5, <2>6, <2>7, <3>1, <3>2, <3>3, <3>4, <3>5, <3>6 DEF ListInv
    <2>. QED  BY <2>4, <2>8, Zenon DEF AccessInv
  <1>. QED  BY <1>1, <1>2

\* The statements of a transaction before its commit change nothing for others.
LEMMA SaverStep ==
    ASSUME AccessInv, UNCHANGED <<parentOf, general, memberOf, granted, lister, ever, always>>,
           RowsHeld', savers' \in [Savers -> SaverStates], made' \in 0 .. MaxChangesMade
    PROVE  AccessInv'
  <1>1. Closure' = Closure
    BY ClosureIsOfTheTree
  <1>2. AccessTypeOK'
    BY <1>1 DEF AccessInv, AccessTypeOK, Now
  <1>3. ListInv'
    BY <1>1 DEF AccessInv, ListInv, Readable, Passed
  <1>. QED  BY <1>2, <1>3, Zenon DEF AccessInv


\* One transaction goes on, and what it holds is granted and nobody else's.
LEMMA RowsOfSaver ==
    ASSUME AccessInv, NEW s \in Savers, NEW n \in SaverStates,
           savers' = [savers EXCEPT ![s] = n], granted' = granted,
           n.pc \in {"insert", "commit"} =>
               /\ n.rows \subseteq granted
               /\ \A o \in Savers \ {s} : Holding(o) => n.rows \cap savers[o].rows = {}
    PROVE  RowsHeld' /\ savers' \in [Savers -> SaverStates]
  <1>1. savers \in [Savers -> SaverStates] /\ RowsHeld
    BY AccessFacts DEF AccessInv
  <1>2. savers'[s] = n /\ \A o \in Savers \ {s} : savers'[o] = savers[o]
    BY <1>1
  <1>3. ASSUME NEW o \in Savers, Holding(o)'
        PROVE  /\ savers'[o].rows \subseteq granted'
               /\ \A q \in Savers \ {o} : Holding(q)' => savers'[o].rows \cap savers'[q].rows = {}
    <2>1. CASE o = s
      BY <1>2, <1>3, <2>1 DEF Holding
    <2>2. CASE o # s
      <3>1. Holding(o) /\ savers[o].rows \subseteq granted
        BY <1>1, <1>2, <1>3, <2>2 DEF Holding, RowsHeld
      <3>2. ASSUME NEW q \in Savers \ {o}, Holding(q)' PROVE savers'[o].rows \cap savers'[q].rows = {}
        BY <1>1, <1>2, <2>2, <3>1, <3>2 DEF Holding, RowsHeld
      <3>. QED  BY <1>2, <2>2, <3>1, <3>2
    <2>. QED  BY <2>1, <2>2
  <1>4. RowsHeld'
    BY <1>3 DEF RowsHeld
  <1>. QED  BY <1>1, <1>4

\* The transactions stand still, and no grant that they hold goes.
LEMMA RowsStay ==
    ASSUME RowsHeld, savers' = savers,
           \A s \in Savers : Holding(s) => savers[s].rows \cap (granted \ granted') = {}
    PROVE  RowsHeld'
  BY DEF RowsHeld, Holding

LEMMA ListStep == ASSUME AccessInv, List PROVE AccessInv'
  <1>0. /\ AccessTypeOK /\ ListInv /\ lister \in ListerStates /\ ever \in Facts /\ always \in Facts
        /\ memberOf \subseteq Teams /\ granted \subseteq Teams \X Groups /\ general \subseteq Groups
    BY AccessFacts DEF AccessInv
  <1>1. UNCHANGED <<parentOf, general, memberOf, granted, savers, made>> /\ Closure' = Closure
    BY ClosureIsOfTheTree DEF List, StartList, ReadTeams, ReadGranted, ReadBelow, ReadAbove, ReadGeneral, Answer, Lists
  <1>2. Now' = Now /\ Now \in Facts
    BY <1>0, <1>1, NowTyped DEF Now
  <1>13. RowsHeld'
    BY <1>1, RowsStay DEF AccessInv
  <1>3. ASSUME ever' \in Facts, always' \in Facts, lister' \in ListerStates PROVE AccessTypeOK'
    BY <1>0, <1>1, <1>2, <1>3 DEF AccessTypeOK
  <1>4. ASSUME UNCHANGED <<ever, always>> PROVE Readable(ever)' = Readable(ever) /\ Passed(ever)' = Passed(ever)
    BY <1>4 DEF Readable, Passed
  <1>5. PICK l \in ListerStates : l = lister
    BY <1>0
  <1>6. CASE StartList
    <2>1. /\ lister' = [pc |-> "teams", teams |-> {}, granted |-> {}, listed |-> {}]
          /\ ever' = Now /\ always' = Now
      BY <1>6 DEF StartList, IdleLister
    <2>2. AccessTypeOK'
      BY <1>2, <1>3, <2>1 DEF ListerStates
    <2>3. ListInv'
      BY <1>1, <2>1 DEF ListInv, Now
    <2>. QED  BY <2>2, <2>3, <1>13, Zenon DEF AccessInv
  <1>7. CASE ReadTeams
    <2>1. /\ l.pc = "teams" /\ UNCHANGED <<ever, always>>
          /\ lister' = [l EXCEPT !.pc = IF memberOf = {} THEN "general" ELSE "granted", !.teams = memberOf]
      BY <1>5, <1>7 DEF ReadTeams, Lists
    <2>2. /\ lister' \in ListerStates /\ lister'.pc \in {"general", "granted"}
          /\ lister'.pc = "general" => memberOf = {}
          /\ lister'.teams = memberOf /\ lister'.granted = l.granted /\ lister'.listed = l.listed
      BY <1>0, <1>5, <2>1 DEF ListerStates
    <2>3. AccessTypeOK'
      BY <1>0, <1>3, <2>1, <2>2
    <2>4. ListInv'
      BY <1>0, <1>1, <1>4, <1>5, <2>1, <2>2 DEF ListInv
    <2>. QED  BY <2>3, <2>4, <1>13, Zenon DEF AccessInv
  <1>8. CASE ReadGranted
    <2>. DEFINE found == {g \in Groups : \E t \in lister.teams : <<t, g>> \in granted}
    <2>1. /\ l.pc = "granted" /\ UNCHANGED <<ever, always>>
          /\ lister' = [l EXCEPT !.pc = IF found = {} THEN "general" ELSE "below", !.granted = found]
      BY <1>5, <1>8 DEF ReadGranted, Lists
    <2>2. /\ lister' \in ListerStates /\ lister'.pc \in {"general", "below"}
          /\ lister'.pc = "general" => found = {}
          /\ lister'.teams = l.teams /\ lister'.granted = found /\ lister'.listed = l.listed
      BY <1>0, <1>5, <2>1 DEF ListerStates
    <2>3. AccessTypeOK'
      BY <1>0, <1>3, <2>1, <2>2
    <2>4. /\ \A t \in always.teams, g \in Groups : <<t, g>> \in always.granted => g \in found
          /\ \A g \in found : \E t \in ever.teams : <<t, g>> \in ever.granted
      BY <1>0, <1>5, <2>1 DEF ListInv
    <2>. HIDE DEF found
    <2>5. ListInv'
      BY <1>0, <1>1, <1>4, <1>5, <2>1, <2>2, <2>4 DEF ListInv
    <2>. QED  BY <2>3, <2>5, <1>13, Zenon DEF AccessInv
  <1>9. CASE ReadBelow
    <2>1. /\ l.pc = "below" /\ UNCHANGED <<ever, always>>
          /\ lister' = [l EXCEPT !.pc = "above", !.listed = Below(l.granted)]
      BY <1>5, <1>9 DEF ReadBelow, Lists
    <2>2. /\ lister' \in ListerStates /\ lister'.pc = "above"
          /\ lister'.teams = l.teams /\ lister'.granted = l.granted /\ lister'.listed = Below(l.granted)
      BY <1>0, <1>5, <2>1 DEF ListerStates, Below
    <2>3. AccessTypeOK'
      BY <1>0, <1>3, <2>1, <2>2
    <2>4. Below(l.granted) \subseteq Readable(ever)
      BY <1>0, <1>5, <2>1 DEF ListInv, ListerStates, Below, Readable
    <2>5. \A a \in l.granted, d \in Groups : <<a, d>> \in always.closure => d \in Below(l.granted)
      BY <1>0, <1>5, <2>1 DEF ListInv, Below
    <2>6. ListInv'
      BY <1>0, <1>1, <1>4, <1>5, <2>1, <2>2, <2>4, <2>5 DEF ListInv
    <2>. QED  BY <2>3, <2>6, <1>13, Zenon DEF AccessInv
  <1>10. CASE ReadAbove
    <2>1. /\ l.pc = "above" /\ UNCHANGED <<ever, always>>
          /\ lister' = [l EXCEPT !.pc = "general", !.listed = @ \cup Above(l.granted)]
      BY <1>5, <1>10 DEF ReadAbove, Lists
    <2>2. /\ lister' \in ListerStates /\ lister'.pc = "general"
          /\ lister'.teams = l.teams /\ lister'.granted = l.granted
          /\ lister'.listed = l.listed \cup Above(l.granted)
      BY <1>0, <1>5, <2>1 DEF ListerStates, Above
    <2>3. AccessTypeOK'
      BY <1>0, <1>3, <2>1, <2>2
    <2>4. Above(l.granted) \subseteq Passed(ever)
      BY <1>0, <1>5, <2>1 DEF ListInv, ListerStates, Above, Passed
    <2>5. \A d \in l.granted, a \in Groups : <<a, d>> \in always.closure => a \in Above(l.granted)
      BY <1>0, <1>5, <2>1 DEF ListInv, Above
    <2>6. ListInv'
      BY <1>0, <1>1, <1>4, <1>5, <2>1, <2>2, <2>4, <2>5 DEF ListInv
    <2>. QED  BY <2>3, <2>6, <1>13, Zenon DEF AccessInv
  <1>11. CASE ReadGeneral
    <2>1. /\ l.pc = "general" /\ UNCHANGED <<ever, always>>
          /\ lister' = [l EXCEPT !.pc = "answer", !.listed = @ \cup general]
      BY <1>5, <1>11 DEF ReadGeneral, Lists
    <2>2. /\ lister' \in ListerStates /\ lister'.pc = "answer"
          /\ lister'.teams = l.teams /\ lister'.granted = l.granted
          /\ lister'.listed = l.listed \cup general
      BY <1>0, <1>5, <2>1 DEF ListerStates
    <2>3. AccessTypeOK'
      BY <1>0, <1>3, <2>1, <2>2
    <2>4. general \subseteq Readable(ever) /\ always.general \subseteq general
      BY <1>0, <1>5, <2>1 DEF ListInv, Readable
    <2>5. ListInv'
      BY <1>0, <1>1, <1>4, <1>5, <2>1, <2>2, <2>4 DEF ListInv
    <2>. QED  BY <2>3, <2>5, <1>13, Zenon DEF AccessInv
  <1>12. CASE Answer
    <2>1. lister' = IdleLister /\ ever' = NoFacts /\ always' = NoFacts
      BY <1>12 DEF Answer
    <2>2. AccessTypeOK'
      BY <1>3, <2>1 DEF IdleLister, ListerStates, NoFacts, Facts
    <2>3. ListInv'
      BY <2>1 DEF ListInv, IdleLister
    <2>. QED  BY <2>2, <2>3, <1>13, Zenon DEF AccessInv
  <1>. QED  BY <1>6, <1>7, <1>8, <1>9, <1>10, <1>11, <1>12 DEF List

LEMMA AccessInitInv == AccessInit => AccessInv
  <1>. SUFFICES ASSUME AccessInit PROVE AccessInv
    OBVIOUS
  <1>1. IdleSaver \in SaverStates
    <2>1. (CHOOSE t \in Teams : TRUE) \in Teams
      BY GroupsAssumption
    <2>. QED  BY <2>1 DEF IdleSaver, SaverStates
  <1>2. memberOf \subseteq Teams /\ granted \subseteq Teams \X Groups /\ general \subseteq Groups
    BY DEF AccessInit
  <1>3. AccessTypeOK
    BY <1>1, <1>2, NowTyped, GroupsAssumption DEF AccessInit, AccessTypeOK, NoFacts, Facts, IdleLister, ListerStates
  <1>4. ListInv
    BY DEF AccessInit, ListInv, IdleLister
  <1>5. RowsHeld
    BY DEF AccessInit, RowsHeld, Holding, IdleSaver
  <1>. QED  BY <1>3, <1>4, <1>5 DEF AccessInv

LEMMA AccessStep == AccessInv /\ [AccessNext]_accessVars => AccessInv'
  <1>. SUFFICES ASSUME AccessInv, [AccessNext]_accessVars PROVE AccessInv'
    OBVIOUS
  <1>0. /\ AccessTypeOK /\ parentOf \in [Groups -> Groups \cup {Root}] /\ RowsHeld
        /\ memberOf \subseteq Teams /\ granted \subseteq Teams \X Groups /\ general \subseteq Groups
        /\ savers \in [Savers -> SaverStates] /\ made \in 0 .. MaxChangesMade
    BY AccessFacts DEF AccessInv, AccessTypeOK
  <1>1. Make => made' \in 0 .. MaxChangesMade
    BY <1>0, GroupsAssumption DEF Make
  <1>2. IdleSaver \in SaverStates /\ IdleSaver.pc = "idle"
    <2>1. (CHOOSE t \in Teams : TRUE) \in Teams
      BY GroupsAssumption
    <2>. QED  BY <2>1 DEF IdleSaver, SaverStates
  <1>3. ASSUME NEW s \in Savers, NEW t \in Teams, SetPermissions(s, t) PROVE AccessInv'
    <2>1. PICK W \in SUBSET Groups :
              savers' = [savers EXCEPT ![s] = [pc |-> "delete", team |-> t, wanted |-> W,
                                               rows |-> {tg \in granted : tg[1] = t}]]
      BY <1>3 DEF SetPermissions
    <2>2. PICK n \in SaverStates : n = [pc |-> "delete", team |-> t, wanted |-> W,
                                        rows |-> {tg \in granted : tg[1] = t}]
      BY <1>0 DEF SaverStates
    <2>3. RowsHeld' /\ savers' \in [Savers -> SaverStates]
      BY <1>3, <2>1, <2>2, RowsOfSaver DEF SetPermissions
    <2>. QED  BY <1>1, <1>3, <2>3, SaverStep DEF SetPermissions
  <1>4. ASSUME NEW s \in Savers, DeleteRows(s) PROVE AccessInv'
    <2>1. PICK R \in SUBSET (Teams \X Groups) : R = savers[s].rows \cap granted
      BY <1>0
    <2>2. PICK n : n = [savers[s] EXCEPT !.pc = "insert", !.rows = R]
      OBVIOUS
    <2>3. n \in SaverStates /\ n.rows = R
      <3>1. [savers[s] EXCEPT !.pc = "insert", !.rows = R] \in SaverStates
        BY ZenonT(40), <1>0 DEF SaverStates
      <3>2. n.rows = R
        BY <1>0, <2>2 DEF SaverStates
      <3>. QED  BY <2>2, <3>1, <3>2
    <2>4. savers' = [savers EXCEPT ![s] = n]
      BY <1>0, <1>4, <2>1, <2>2 DEF DeleteRows, SaverStates
    <2>5. ASSUME NEW o \in Savers \ {s}, Holding(o) PROVE R \cap savers[o].rows = {}
      BY <1>4, <2>1, <2>5 DEF DeleteRows, Locked, Holding
    <2>6. /\ UNCHANGED <<parentOf, general, memberOf, granted, lister, ever, always, made>>
          /\ R \subseteq granted
      BY <1>4, <2>1 DEF DeleteRows
    <2>7. RowsHeld' /\ savers' \in [Savers -> SaverStates]
      BY <2>3, <2>4, <2>5, <2>6, RowsOfSaver
    <2>. QED  BY <1>0, <2>6, <2>7, SaverStep
  <1>5. ASSUME NEW s \in Savers, InsertRows(s) PROVE AccessInv'
    <2>1. PICK n : n = [savers[s] EXCEPT !.pc = "commit"]
      OBVIOUS
    <2>2. n \in SaverStates /\ n.rows = savers[s].rows /\ Holding(s)
      BY <1>0, <1>5, <2>1 DEF SaverStates, InsertRows, Holding
    <2>3. savers' = [savers EXCEPT ![s] = n] \/ savers' = [savers EXCEPT ![s] = IdleSaver]
      BY <1>5, <2>1 DEF InsertRows
    <2>4. UNCHANGED <<parentOf, general, memberOf, granted, lister, ever, always, made>>
      BY <1>5 DEF InsertRows
    <2>5. /\ savers[s].rows \subseteq granted
          /\ \A o \in Savers \ {s} : Holding(o) => savers[s].rows \cap savers[o].rows = {}
      BY <1>0, <2>2 DEF RowsHeld
    <2>6. RowsHeld' /\ savers' \in [Savers -> SaverStates]
      <3>1. CASE savers' = [savers EXCEPT ![s] = n]
        BY <2>2, <2>4, <2>5, <3>1, RowsOfSaver
      <3>2. CASE savers' = [savers EXCEPT ![s] = IdleSaver]
        BY <1>2, <2>4, <3>2, RowsOfSaver
      <3>. QED  BY <2>3, <3>1, <3>2
    <2>. QED  BY <1>0, <2>4, <2>6, SaverStep
  <1>6. ASSUME NEW s \in Savers, Commit(s) PROVE AccessInv'
    <2>1. savers' \in [Savers -> SaverStates]
      BY <1>0, <1>2, <1>6 DEF Commit
    <2>2. Wanted(s) \subseteq Teams \X Groups
      BY <1>0 DEF Wanted, SaverStates
    <2>3. granted' \subseteq Teams \X Groups /\ granted \ savers[s].rows \subseteq granted'
      BY <1>0, <1>6, <2>2 DEF Commit
    <2>4. /\ savers'[s].pc = "idle" /\ Holding(s)
          /\ \A o \in Savers \ {s} : savers'[o] = savers[o]
      BY <1>0, <1>2, <1>6 DEF Commit, Holding
    <2>5. ASSUME NEW o \in Savers, Holding(o)'
          PROVE  /\ savers'[o].rows \subseteq granted'
                 /\ \A q \in Savers \ {o} : Holding(q)' => savers'[o].rows \cap savers'[q].rows = {}
      <3>1. o # s /\ savers'[o] = savers[o] /\ Holding(o)
        BY <2>4, <2>5 DEF Holding
      <3>2. savers[o].rows \subseteq granted /\ savers[o].rows \cap savers[s].rows = {}
        BY <1>0, <2>4, <3>1 DEF RowsHeld
      <3>3. ASSUME NEW q \in Savers \ {o}, Holding(q)' PROVE savers'[o].rows \cap savers'[q].rows = {}
        <4>1. q # s /\ savers'[q] = savers[q] /\ Holding(q)
          BY <2>4, <3>3 DEF Holding
        <4>. QED  BY <1>0, <3>1, <4>1 DEF RowsHeld
      <3>. QED  BY <2>3, <3>1, <3>2, <3>3
    <2>6. RowsHeld'
      BY <2>5 DEF RowsHeld
    <2>. QED  BY <1>0, <1>6, <2>1, <2>3, <2>6, Administers DEF Commit
  <1>7. ASSUME NEW t \in Teams, NEW g \in Groups, RemovePermission(t, g) PROVE AccessInv'
    <2>1. RowsHeld'
      BY <1>0, <1>7, RowsStay DEF RemovePermission, Holding
    <2>. QED  BY <1>0, <1>1, <1>7, <2>1, Administers DEF RemovePermission
  <1>8. ASSUME NEW t \in Teams, NEW g \in Groups, AddPermission(t, g) PROVE AccessInv'
    <2>1. granted' = granted \cup {<<t, g>>} /\ savers' = savers
      BY <1>8 DEF AddPermission
    <2>2. RowsHeld' /\ granted' \subseteq Teams \X Groups
      BY <1>0, <2>1, RowsStay
    <2>. QED  BY <1>0, <1>1, <1>8, <2>2, Administers DEF AddPermission
  <1>9. ASSUME savers' = savers, granted' = granted PROVE RowsHeld'
    BY <1>0, <1>9, RowsStay
  <1>10. ASSUME NEW t \in Teams, SetMembers(t) PROVE AccessInv'
    BY <1>0, <1>1, <1>9, <1>10, Administers DEF SetMembers
  <1>11. ASSUME NEW g \in Groups, SetGeneral(g) PROVE AccessInv'
    BY <1>0, <1>1, <1>9, <1>11, Administers DEF SetGeneral
  <1>12. ASSUME NEW g \in Groups, NEW p \in Groups \cup {Root}, Move(g, p) PROVE AccessInv'
    BY <1>0, <1>1, <1>9, <1>12, Administers DEF Move
  <1>13. CASE UNCHANGED accessVars
    BY <1>0, <1>9, <1>13, SaverStep DEF accessVars
  <1>. QED  BY <1>3, <1>4, <1>5, <1>6, <1>7, <1>8, <1>10, <1>11, <1>12, <1>13, ListStep DEF AccessNext

LEMMA AccessTypes == AccessSpec => []AccessInv
  BY AccessInitInv, AccessStep, PTL DEF AccessSpec

\* ListIsOfItsTime: however many groups, teams and transactions there are, and
\* whatever is changed between the five queries.
THEOREM ListOfItsTime == AccessSpec => []ListIsOfItsTime
  <1>1. AccessInv => ListIsOfItsTime
    <2>. SUFFICES ASSUME AccessInv, lister.pc = "answer"
                  PROVE  /\ Readable(always) \cup Passed(always) \subseteq lister.listed
                         /\ lister.listed \subseteq Readable(ever) \cup Passed(ever)
      BY DEF ListIsOfItsTime
    <2>. QED  BY DEF AccessInv, ListInv, Readable, Passed
  <1>. QED  BY <1>1, AccessTypes, PTL


-----------------------------------------------------------------------------
(* LiveView.                                                               *)

\* What will bring the last change to the page, if it was told to it: the event, the
\* timer, a load that has not read yet or has read it; or it was on the page already.
Brings(l) ==
    loads[l].pc = "asked" \/ (loads[l].pc = "read" /\ loads[l].revision = revision)
OnItsWay == event \/ timer \/ (\E l \in Loads : Brings(l)) \/ newest = revision
NothingNewer ==
    newest <= revision /\ \A l \in Loads : loads[l].revision <= revision
ViewInv == ViewTypeOK /\ NothingNewer /\ (announced => OnItsWay)

\* The half of PageCatchesUp that is about safety.
QuietPageIsCurrent ==
    announced /\ ~event /\ ~timer /\ (\A l \in Loads : loads[l].pc = "free") =>
        shown = revision \/ shown < newest

LEMMA ViewFacts ==
    ViewTypeOK => /\ rows \in [Devices -> [status : Statuses, by : Probes]]
                  /\ revision \in 0 .. MaxChanges
                  /\ pushing \in [Probes -> PushStates]
                  /\ dedupCache \in [CacheKeys \X ChangeTypes -> {"none", "primary", "other"}]
                  /\ loads \in [Loads -> LoadStates]
                  /\ shown \in 0 .. MaxChanges /\ newest \in shown .. MaxChanges
                  /\ drops \in 0 .. MaxDrops
  BY Zenon DEF ViewTypeOK

LEMMA ViewBooleans ==
    ViewTypeOK => /\ connected \in BOOLEAN /\ event \in BOOLEAN /\ timer \in BOOLEAN
                  /\ announced \in BOOLEAN
  BY Zenon DEF ViewTypeOK

LEMMA ViewTyped ==
    ASSUME rows \in [Devices -> [status : Statuses, by : Probes]],
           revision \in 0 .. MaxChanges,
           pushing \in [Probes -> PushStates],
           dedupCache \in [CacheKeys \X ChangeTypes -> {"none", "primary", "other"}],
           connected \in BOOLEAN, event \in BOOLEAN, timer \in BOOLEAN,
           announced \in BOOLEAN,
           loads \in [Loads -> LoadStates],
           shown \in 0 .. MaxChanges, newest \in shown .. MaxChanges,
           drops \in 0 .. MaxDrops
    PROVE  ViewTypeOK
  BY Zenon DEF ViewTypeOK

LEMMA IdleViewFacts ==
    /\ IdlePush \in PushStates /\ FreeLoad \in LoadStates
    /\ MaxChanges \in Nat /\ MaxDrops \in Nat
    /\ \A d \in Devices : CacheKey(d) \in CacheKeys
  <1>1. (CHOOSE d \in Devices : TRUE) \in Devices
    BY NoMacAssumption
  <1>2. IdlePush \in PushStates
    BY <1>1 DEF IdlePush, PushStates, Statuses
  <1>3. FreeLoad \in LoadStates
    BY DropsAssumption DEF FreeLoad, LoadStates
  <1>. QED  BY <1>2, <1>3, DropsAssumption DEF CacheKey, CacheKeys

LEMMA ViewInitInv == ViewInit => ViewInv
  <1>. SUFFICES ASSUME ViewInit PROVE ViewInv
    OBVIOUS
  <1>1. /\ revision = 0 /\ shown = 0 /\ newest = 0 /\ drops = 0
        /\ loads = [l \in Loads |-> FreeLoad] /\ pushing = [p \in Probes |-> IdlePush]
        /\ rows \in [Devices -> [status : {"none", "online"}, by : Probes]]
        /\ dedupCache = [k \in CacheKeys \X ChangeTypes |-> "none"]
    BY Zenon DEF ViewInit
  <1>2. /\ connected \in BOOLEAN /\ event \in BOOLEAN /\ timer \in BOOLEAN
        /\ announced \in BOOLEAN
    BY Zenon DEF ViewInit
  <1>3. /\ revision \in 0 .. MaxChanges /\ shown \in 0 .. MaxChanges
        /\ newest \in shown .. MaxChanges /\ drops \in 0 .. MaxDrops
        /\ loads \in [Loads -> LoadStates] /\ pushing \in [Probes -> PushStates]
    BY <1>1, IdleViewFacts
  <1>4. rows \in [Devices -> [status : Statuses, by : Probes]]
    BY <1>1 DEF Statuses
  <1>5. dedupCache \in [CacheKeys \X ChangeTypes -> {"none", "primary", "other"}]
    BY <1>1
  <1>6. ViewTypeOK
    BY <1>2, <1>3, <1>4, <1>5, ViewTyped
  <1>7. NothingNewer /\ OnItsWay
    BY <1>1 DEF NothingNewer, OnItsWay, FreeLoad
  <1>. QED  BY <1>6, <1>7 DEF ViewInv


\* A step that leaves the page alone: what is told starts on its way, and a change
\* that is not told is not announced.
LEMMA PageLeftAlone ==
    ASSUME ViewInv, ViewTypeOK', UNCHANGED <<loads, newest, timer>>, revision <= revision',
           announced' => event' \/ (announced /\ revision' = revision /\ event' = event)
    PROVE  ViewInv'
  <1>1. /\ revision \in Nat /\ revision' \in Nat /\ newest \in Nat /\ newest <= revision
        /\ \A l \in Loads : loads[l] \in LoadStates /\ loads[l].revision \in Nat /\ loads[l].revision <= revision
    <2>1. ViewTypeOK /\ ViewTypeOK' /\ NothingNewer
      BY DEF ViewInv
    <2>2. /\ MaxChanges \in Nat /\ revision \in 0 .. MaxChanges
          /\ shown \in 0 .. MaxChanges /\ newest \in shown .. MaxChanges
          /\ loads \in [Loads -> LoadStates]
      BY <2>1, ViewFacts, IdleViewFacts
    <2>3. revision' \in 0 .. MaxChanges
      BY <2>1, Zenon DEF ViewTypeOK
    <2>. QED  BY <2>1, <2>2, <2>3 DEF NothingNewer, LoadStates
  <1>2. NothingNewer'
    BY <1>1, ViewFacts DEF NothingNewer, ViewInv
  <1>3. OnItsWay /\ revision' = revision /\ event' = event => OnItsWay'
    BY DEF OnItsWay, Brings
  <1>4. event' => OnItsWay'
    BY DEF OnItsWay
  <1>5. announced' => OnItsWay'
    BY <1>3, <1>4, Zenon DEF ViewInv
  <1>. QED  BY <1>2, <1>5, Zenon DEF ViewInv

\* A step of the page that leaves the rows alone.
LEMMA ServerLeftAlone ==
    ASSUME ViewTypeOK, UNCHANGED serverVars,
           connected' \in BOOLEAN, event' \in BOOLEAN, timer' \in BOOLEAN, announced' \in BOOLEAN,
           loads' \in [Loads -> LoadStates],
           shown' \in 0 .. MaxChanges, newest' \in shown' .. MaxChanges, drops' \in 0 .. MaxDrops
    PROVE  ViewTypeOK'
  BY Zenon DEF ViewTypeOK, serverVars

\* A step of a push that leaves the rows and what is told as they are.
LEMMA PushOnly ==
    ASSUME ViewInv, pushing' \in [Probes -> PushStates],
           UNCHANGED <<pageVars, rows, revision, dedupCache, event, announced>>
    PROVE  ViewInv'
  <1>1. ViewTypeOK /\ revision \in 0 .. MaxChanges /\ MaxChanges \in Nat
    BY ViewFacts, IdleViewFacts DEF ViewInv
  <1>2. ViewTypeOK'
    BY <1>1, Zenon DEF ViewTypeOK, pageVars
  <1>3. revision <= revision' /\ UNCHANGED <<loads, newest, timer>>
    BY <1>1 DEF pageVars
  <1>4. announced' => event' \/ (announced /\ revision' = revision /\ event' = event)
    BY Zenon
  <1>. QED  BY <1>2, <1>3, <1>4, PageLeftAlone

LEMMA WriteStep ==
    ASSUME ViewInv, NEW p \in Probes, PushWrites(p)
    PROVE  ViewInv'
  <1>0. /\ ViewTypeOK /\ MaxChanges \in Nat /\ revision \in 0 .. MaxChanges
        /\ rows \in [Devices -> [status : Statuses, by : Probes]]
        /\ pushing \in [Probes -> PushStates]
    BY ViewFacts, IdleViewFacts DEF ViewInv
  <1>. DEFINE d == pushing[p].device
              status == IF pushing[p].listed THEN "online" ELSE "offline"
              applies == pushing[p].listed \/ (rows[d].status = "online" /\ rows[d].by = p)
              changes == applies /\ rows[d].status # status
              row == [status |-> status, by |-> IF pushing[p].listed THEN p ELSE rows[d].by]
              next == IF pushing[p].old = status THEN IdlePush ELSE [pushing[p] EXCEPT !.pc = "emit"]
  <1>1. d \in Devices /\ status \in Statuses /\ rows[d].by \in Probes /\ pushing[p] \in PushStates
    BY <1>0 DEF PushStates, Statuses
  <1>2. row \in [status : Statuses, by : Probes]
    BY <1>1
  <1>3. next \in PushStates
    BY <1>1, IdleViewFacts DEF PushStates
  <1>4. /\ pushing' = [pushing EXCEPT ![p] = next]
        /\ rows' = IF applies THEN [rows EXCEPT ![d] = row] ELSE rows
        /\ changes => revision < MaxChanges
        /\ revision' = IF changes THEN revision + 1 ELSE revision
        /\ announced' = (announced /\ ~changes)
        /\ UNCHANGED <<pageVars, dedupCache, event>>
    <2>1. /\ changes => revision < MaxChanges
          /\ revision' = IF changes THEN revision + 1 ELSE revision
          /\ announced' = (announced /\ ~changes)
          /\ UNCHANGED <<pageVars, dedupCache, event>>
      BY DEF PushWrites
    <2>2. pushing' = [pushing EXCEPT ![p] = next]
      BY <1>0 DEF PushWrites
    <2>3. rows' = IF applies THEN [rows EXCEPT ![d] = row] ELSE rows
      BY <1>0, <1>1 DEF PushWrites
    <2>. QED  BY <2>1, <2>2, <2>3
  <1>5. changes \in BOOLEAN /\ applies \in BOOLEAN
    OBVIOUS
  <1>. HIDE DEF d, status, applies, changes, row, next
  <1>6. pushing' \in [Probes -> PushStates] /\ rows' \in [Devices -> [status : Statuses, by : Probes]]
    BY <1>0, <1>1, <1>2, <1>3, <1>4
  <1>7. revision' \in 0 .. MaxChanges /\ revision <= revision' /\ (~changes => revision' = revision)
    BY <1>0, <1>4, <1>5
  <1>8. announced \in BOOLEAN /\ event \in BOOLEAN /\ announced' \in BOOLEAN
    BY <1>0, <1>4, <1>5, ViewBooleans, Zenon
  <1>9. announced' => event' \/ (announced /\ revision' = revision /\ event' = event)
    BY <1>4, <1>5, <1>7, <1>8, Zenon
  <1>10. UNCHANGED <<connected, timer, loads, shown, newest, drops>>
    BY <1>4 DEF pageVars
  <1>11. ViewTypeOK'
    BY <1>0, <1>4, <1>6, <1>7, <1>8, <1>10, Zenon DEF ViewTypeOK
  <1>. QED  BY <1>7, <1>9, <1>10, <1>11, PageLeftAlone

LEMMA EmitStep ==
    ASSUME ViewInv, NEW p \in Probes, PushEmits(p)
    PROVE  ViewInv'
  <1>0. /\ ViewTypeOK /\ MaxChanges \in Nat /\ revision \in 0 .. MaxChanges
        /\ pushing \in [Probes -> PushStates]
        /\ dedupCache \in [CacheKeys \X ChangeTypes -> {"none", "primary", "other"}]
    BY ViewFacts, IdleViewFacts DEF ViewInv
  <1>. DEFINE key == <<CacheKey(pushing[p].device), IF pushing[p].old = "none" THEN "new" ELSE "online">>
              teller == IF p \in Primary THEN "primary" ELSE "other"
  <1>1. key \in CacheKeys \X ChangeTypes
    <2>1. pushing[p].device \in Devices
      BY <1>0 DEF PushStates
    <2>. QED  BY <2>1, IdleViewFacts DEF ChangeTypes
  <1>2. teller \in {"none", "primary", "other"}
    OBVIOUS
  <1>3. /\ pushing' = [pushing EXCEPT ![p] = IdlePush]
        /\ Emit \/ UNCHANGED <<event, announced>>
        /\ dedupCache' = dedupCache \/ dedupCache' = [dedupCache EXCEPT ![key] = teller]
        /\ UNCHANGED <<pageVars, rows, revision>>
    BY Zenon DEF PushEmits
  <1>. HIDE DEF key, teller
  <1>4. pushing' \in [Probes -> PushStates]
    BY <1>0, <1>3, IdleViewFacts
  <1>5. dedupCache' \in [CacheKeys \X ChangeTypes -> {"none", "primary", "other"}]
    BY <1>0, <1>1, <1>2, <1>3
  <1>6. connected \in BOOLEAN /\ event \in BOOLEAN /\ announced \in BOOLEAN
    BY <1>0, ViewBooleans
  <1>7. /\ event' \in BOOLEAN /\ announced' \in BOOLEAN
        /\ announced' => event' \/ (announced /\ event' = event)
    <2>1. CASE Emit
      BY <1>6, <2>1, Zenon DEF Emit
    <2>2. CASE UNCHANGED <<event, announced>>
      BY <1>6, <2>2, Zenon
    <2>. QED  BY <1>3, <2>1, <2>2
  <1>8. revision <= revision' /\ revision' = revision
    BY <1>0, <1>3
  <1>9. UNCHANGED <<connected, timer, loads, shown, newest, drops>>
    BY <1>3 DEF pageVars
  <1>10. ViewTypeOK'
    BY <1>0, <1>3, <1>4, <1>5, <1>7, <1>9, Zenon DEF ViewTypeOK
  <1>11. announced' => event' \/ (announced /\ revision' = revision /\ event' = event)
    BY <1>7, <1>8, Zenon
  <1>. QED  BY <1>8, <1>9, <1>10, <1>11, PageLeftAlone

LEMMA ViewStep == ViewInv /\ [ViewNext]_viewVars => ViewInv'
  <1>. SUFFICES ASSUME ViewInv, [ViewNext]_viewVars PROVE ViewInv'
    OBVIOUS
  <1>0. /\ ViewTypeOK /\ NothingNewer /\ MaxChanges \in Nat /\ revision \in 0 .. MaxChanges
        /\ rows \in [Devices -> [status : Statuses, by : Probes]]
        /\ pushing \in [Probes -> PushStates]
        /\ dedupCache \in [CacheKeys \X ChangeTypes -> {"none", "primary", "other"}]
        /\ loads \in [Loads -> LoadStates] /\ FreeLoad \in LoadStates
        /\ shown \in 0 .. MaxChanges /\ newest \in shown .. MaxChanges
        /\ drops \in 0 .. MaxDrops
    BY ViewFacts, IdleViewFacts DEF ViewInv
  <1>00. connected \in BOOLEAN /\ event \in BOOLEAN /\ timer \in BOOLEAN /\ announced \in BOOLEAN
    BY <1>0, ViewBooleans
  <1>1. ASSUME NEW p \in Probes, NEW d \in Devices, PushReads(p, d) PROVE ViewInv'
    <2>1. pushing' \in [Probes -> PushStates]
      <3>1. rows[d].status \in Statuses
        BY <1>0
      <3>2. PICK listed \in BOOLEAN :
               pushing' = [pushing EXCEPT ![p] = [pc |-> "write", device |-> d,
                                                  old |-> rows[d].status, listed |-> listed]]
        BY <1>1 DEF PushReads
      <3>3. [pc |-> "write", device |-> d, old |-> rows[d].status, listed |-> listed] \in PushStates
        BY <3>1, <3>2 DEF PushStates
      <3>. QED  BY <1>0, <3>2, <3>3
    <2>2. UNCHANGED <<pageVars, rows, revision, dedupCache, event, announced>>
      BY <1>1 DEF PushReads
    <2>. QED  BY <2>1, <2>2, PushOnly
  <1>2. ASSUME NEW key \in CacheKeys \X ChangeTypes, Expires(key) PROVE ViewInv'
    <2>1. dedupCache' \in [CacheKeys \X ChangeTypes -> {"none", "primary", "other"}]
      BY <1>0, <1>2 DEF Expires
    <2>2. UNCHANGED <<pageVars, rows, revision, pushing, event, announced>>
      BY <1>2 DEF Expires
    <2>3. ViewTypeOK'
      BY <1>0, <2>1, <2>2, Zenon DEF ViewTypeOK, pageVars
    <2>4. revision <= revision' /\ UNCHANGED <<loads, newest, timer>>
      BY <1>0, <2>2 DEF pageVars
    <2>5. announced' => event' \/ (announced /\ revision' = revision /\ event' = event)
      BY <2>2, Zenon
    <2>. QED  BY <2>3, <2>4, <2>5, PageLeftAlone
  <1>3. CASE LosesConnection
    <2>1. UNCHANGED <<serverVars, timer, loads, shown, newest>> /\ connected' = FALSE /\ event' = FALSE
          /\ announced' = (announced /\ ~event) /\ Drop
      BY <1>3, Zenon DEF LosesConnection
    <2>2. drops' \in 0 .. MaxDrops
      BY <1>0, <2>1, DropsAssumption DEF Drop
    <2>3. connected' \in BOOLEAN /\ event' \in BOOLEAN /\ timer' \in BOOLEAN /\ announced' \in BOOLEAN
      BY <1>00, <2>1, Zenon
    <2>4. ViewTypeOK'
      BY <1>0, <2>1, <2>2, <2>3, ServerLeftAlone
    <2>5. revision' = revision /\ revision <= revision'
      BY <1>0, <2>1 DEF serverVars
    <2>6. announced' => announced /\ revision' = revision /\ event' = event
      BY <1>00, <2>1, <2>5, Zenon
    <2>. QED  BY <2>1, <2>4, <2>5, <2>6, PageLeftAlone
  <1>4. CASE Reconnects
    <2>1. UNCHANGED <<serverVars, event, timer, loads, shown, newest, announced, drops>> /\ connected' = TRUE
      BY <1>4 DEF Reconnects
    <2>2. connected' \in BOOLEAN
      BY <2>1, Zenon
    <2>3. ViewTypeOK'
      BY <1>0, <1>00, <2>1, <2>2, ServerLeftAlone
    <2>4. revision' = revision /\ revision <= revision'
      BY <1>0, <2>1 DEF serverVars
    <2>5. announced' => announced /\ revision' = revision /\ event' = event
      BY <2>1, <2>4, Zenon
    <2>. QED  BY <2>1, <2>3, <2>4, <2>5, PageLeftAlone
  <1>5. CASE Receive
    <2>1. /\ UNCHANGED <<serverVars, connected, loads, shown, newest, announced, drops>>
          /\ event' = FALSE /\ timer' = TRUE
      BY <1>5 DEF Receive
    <2>2. event' \in BOOLEAN /\ timer' \in BOOLEAN
      BY <2>1, Zenon
    <2>3. ViewTypeOK'
      BY <1>0, <1>00, <2>1, <2>2, ServerLeftAlone
    <2>4. OnItsWay'
      BY <2>1 DEF OnItsWay
    <2>5. NothingNewer'
      BY <1>0, <2>1 DEF NothingNewer, serverVars
    <2>. QED  BY <2>3, <2>4, <2>5, Zenon DEF ViewInv
  <1>6. ASSUME NEW l \in Loads, NEW n \in LoadStates, loads' = [loads EXCEPT ![l] = n],
               n.revision <= revision, UNCHANGED serverVars, newest' \in Nat, newest' <= revision
        PROVE  loads' \in [Loads -> LoadStates] /\ NothingNewer'
    <2>1. loads' \in [Loads -> LoadStates]
      BY <1>0, <1>6
    <2>2. revision' = revision
      BY <1>6 DEF serverVars
    <2>3. ASSUME NEW o \in Loads PROVE loads'[o].revision <= revision
      BY <1>0, <1>6 DEF NothingNewer
    <2>. QED  BY <1>6, <2>1, <2>2, <2>3 DEF NothingNewer
  <1>7. CASE TimerFires
    <2>1. PICK l \in Loads : loads' = [loads EXCEPT ![l].pc = "asked"]
      <3>1. \E l \in Loads : loads[l].pc = "free"
        BY <1>7 DEF TimerFires
      <3>2. (CHOOSE l \in Loads : loads[l].pc = "free") \in Loads
        BY <3>1
      <3>. QED  BY <1>7, <3>2 DEF TimerFires
    <2>2. /\ UNCHANGED <<serverVars, connected, event, shown, newest, announced, drops>>
          /\ timer' = FALSE
      BY <1>7 DEF TimerFires
    <2>3. PICK n \in LoadStates : n = [loads[l] EXCEPT !.pc = "asked"]
      BY <1>0 DEF LoadStates
    <2>4. n.pc = "asked" /\ n.revision <= revision /\ loads' = [loads EXCEPT ![l] = n]
      BY <1>0, <2>1, <2>3 DEF LoadStates, NothingNewer
    <2>5. newest' \in Nat /\ newest' <= revision
      BY <1>0, <2>2 DEF NothingNewer
    <2>6. loads' \in [Loads -> LoadStates] /\ NothingNewer'
      BY <1>6, <2>2, <2>4, <2>5
    <2>7. timer' \in BOOLEAN
      BY <2>2, Zenon
    <2>8. ViewTypeOK'
      BY <1>0, <1>00, <2>2, <2>6, <2>7, ServerLeftAlone
    <2>9. loads'[l].pc = "asked"
      BY <1>0, <2>4
    <2>10. OnItsWay'
      BY <2>9 DEF OnItsWay, Brings
    <2>. QED  BY <2>6, <2>8, <2>10, Zenon DEF ViewInv
  <1>8. ASSUME NEW l \in Loads, LoadReads(l) PROVE ViewInv'
    <2>1. /\ UNCHANGED <<serverVars, connected, event, timer, shown, newest, announced, drops>>
          /\ loads' = [loads EXCEPT ![l] = [pc |-> "read", revision |-> revision]]
      BY <1>8 DEF LoadReads
    <2>2. PICK n \in LoadStates : n = [pc |-> "read", revision |-> revision]
      BY <1>0 DEF LoadStates
    <2>3. newest' \in Nat /\ newest' <= revision /\ n.revision <= revision
      BY <1>0, <2>1, <2>2 DEF NothingNewer
    <2>4. loads' \in [Loads -> LoadStates] /\ NothingNewer'
      BY <1>6, <2>1, <2>2, <2>3
    <2>5. ViewTypeOK'
      BY <1>0, <1>00, <2>1, <2>4, ServerLeftAlone
    <2>6. loads'[l].pc = "read" /\ loads'[l].revision = revision'
      BY <1>0, <2>1, <2>2 DEF serverVars
    <2>7. OnItsWay'
      BY <2>6 DEF OnItsWay, Brings
    <2>. QED  BY <2>4, <2>5, <2>7, Zenon DEF ViewInv
  <1>9. ASSUME NEW l \in Loads, LoadArrives(l) PROVE ViewInv'
    <2>1. /\ UNCHANGED <<serverVars, connected, event, timer, announced, drops>>
          /\ loads' = [loads EXCEPT ![l] = FreeLoad] /\ loads[l].pc = "read"
          /\ shown' = loads[l].revision /\ newest' = IF shown' > newest THEN shown' ELSE newest
      BY <1>9 DEF LoadArrives
    <2>2. PICK r \in 0 .. MaxChanges : r = loads[l].revision /\ r <= revision
      BY <1>0 DEF LoadStates, NothingNewer
    <2>3. /\ shown' \in 0 .. MaxChanges /\ newest' \in shown' .. MaxChanges
          /\ newest' \in Nat /\ newest' <= revision /\ newest <= newest' /\ r <= newest'
      BY <1>0, <2>1, <2>2 DEF NothingNewer
    <2>4. FreeLoad.revision <= revision /\ FreeLoad \in LoadStates
      BY <1>0 DEF FreeLoad
    <2>5. loads' \in [Loads -> LoadStates] /\ NothingNewer'
      BY <1>6, <2>1, <2>3, <2>4
    <2>6. ViewTypeOK'
      BY <1>0, <1>00, <2>1, <2>3, <2>5, ServerLeftAlone
    <2>7. revision' = revision
      BY <2>1 DEF serverVars
    <2>8. newest = revision \/ Brings(l) => newest' = revision'
      BY <1>0, <2>1, <2>2, <2>3, <2>7 DEF Brings
    <2>9. \A o \in Loads : o # l /\ Brings(o) => Brings(o)'
      BY <1>0, <2>1, <2>7 DEF Brings
    <2>10. OnItsWay => OnItsWay'
      BY <2>1, <2>8, <2>9, Zenon DEF OnItsWay
    <2>. QED  BY <2>1, <2>5, <2>6, <2>10, Zenon DEF ViewInv
  <1>10. ASSUME NEW l \in Loads, LoadFails(l) PROVE ViewInv'
    <2>1. /\ UNCHANGED <<serverVars, connected, event, timer, shown, newest>>
          /\ loads' = [loads EXCEPT ![l] = FreeLoad] /\ announced' = FALSE /\ Drop
      BY <1>10 DEF LoadFails
    <2>2. drops' \in 0 .. MaxDrops
      BY <1>0, <2>1, DropsAssumption DEF Drop
    <2>3. announced' \in BOOLEAN
      BY <2>1, Zenon
    <2>4. newest' \in Nat /\ newest' <= revision /\ FreeLoad.revision <= revision
      BY <1>0, <2>1 DEF NothingNewer, FreeLoad
    <2>5. loads' \in [Loads -> LoadStates] /\ NothingNewer'
      BY <1>0, <1>6, <2>1, <2>4
    <2>6. ViewTypeOK'
      BY <1>0, <1>00, <2>1, <2>2, <2>3, <2>5, ServerLeftAlone
    <2>. QED  BY <2>1, <2>5, <2>6, Zenon DEF ViewInv
  <1>11. ASSUME NEW p \in Probes, PushFails(p) PROVE ViewInv'
    <2>1. /\ pushing' = [pushing EXCEPT ![p] = IdlePush]
          /\ UNCHANGED <<pageVars, rows, revision, dedupCache, event, announced>>
      BY <1>11 DEF PushFails
    <2>2. pushing' \in [Probes -> PushStates]
      BY <1>0, <2>1, IdleViewFacts
    <2>. QED  BY <2>1, <2>2, PushOnly
  <1>12. CASE UNCHANGED viewVars
    <2>1. ViewTypeOK'
      BY <1>0, <1>12, Zenon DEF ViewTypeOK, viewVars
    <2>2. revision' = revision /\ revision <= revision' /\ UNCHANGED <<loads, newest, timer>>
      BY <1>0, <1>12 DEF viewVars
    <2>3. announced' => announced /\ revision' = revision /\ event' = event
      BY <1>12, Zenon DEF viewVars
    <2>. QED  BY <2>1, <2>2, <2>3, PageLeftAlone
  <1>. QED  BY <1>1, <1>2, <1>3, <1>4, <1>5, <1>7, <1>8, <1>9, <1>10, <1>11, <1>12, WriteStep, EmitStep
           DEF ViewNext, Page, Load

LEMMA ViewTypes == ViewSpec => []ViewInv
  BY ViewInitInv, ViewStep, PTL DEF ViewSpec

\* QuietPageIsCurrent: when nothing is under way any more, the page shows the last
\* change it was told of, or an older answer came after the newer one.
THEOREM QuietPage == ViewSpec => []QuietPageIsCurrent
  <1>1. ViewInv => QuietPageIsCurrent
    <2>. SUFFICES ASSUME ViewInv, announced, ~event, ~timer, \A l \in Loads : loads[l].pc = "free"
                  PROVE  shown = revision \/ shown < newest
      BY DEF QuietPageIsCurrent
    <2>1. newest = revision
      BY Zenon DEF ViewInv, OnItsWay, Brings
    <2>2. revision \in 0 .. MaxChanges /\ shown \in 0 .. MaxChanges /\ newest \in shown .. MaxChanges
      BY ViewFacts DEF ViewInv
    <2>. QED  BY <2>1, <2>2, DropsAssumption
  <1>. QED  BY <1>1, ViewTypes, PTL


-----------------------------------------------------------------------------
(* FlowTable.                                                              *)

\* What SumOver computes: the last of the partial sums.
PartialSums(u, c) ==
    u \in [0 .. MaxRows -> Nat] /\ u[0] = 0 /\ \A n \in Ids : u[n] = u[n - 1] + c[n]

LEMMA SumIsPartial ==
    ASSUME NEW c \in [Ids -> Nat]
    PROVE  \E u : PartialSums(u, c) /\ SumOver(c) = u[MaxRows]
  <1>. DEFINE Unfold(f) == [n \in 0 .. MaxRows |-> IF n = 0 THEN 0 ELSE f[n - 1] + c[n]]
              next == [n \in Nat |-> [x \in Nat |-> IF n + 1 \in Ids THEN x + c[n + 1] ELSE x]]
  <1>0. MaxRows \in Nat
    BY RowsAssumption
  <1>1. next \in [Nat -> [Nat -> Nat]]
    OBVIOUS
  <1>. HIDE DEF next
  <1>2. PICK h \in [Nat -> Nat] : h[0] = 0 /\ \A n \in Nat : h[n + 1] = next[n][h[n]]
    <2>1. 0 \in Nat
      OBVIOUS
    <2>2. PICK h : Recurses(h, Nat, 0, next)
      BY <1>1, <2>1, Recursion, Zenon
    <2>. QED  BY <2>2 DEF Recurses
  <1>3. \A n \in Ids : h[n] = h[n - 1] + c[n]
    <2>1. ASSUME NEW n \in Ids PROVE h[n] = h[n - 1] + c[n]
      <3>1. PICK m \in Nat : n = m + 1 /\ m = n - 1
        BY <1>0 DEF Ids
      <3>2. h[m + 1] = h[m] + c[m + 1]
        BY <1>2, <3>1 DEF next
      <3>. QED  BY <3>1, <3>2
    <2>. QED  BY <2>1
  <1>. DEFINE g == [n \in 0 .. MaxRows |-> h[n]]
  <1>4. g = Unfold(g)
    <2>1. ASSUME NEW n \in 0 .. MaxRows, n # 0 PROVE h[n] = g[n - 1] + c[n]
      BY <1>0, <1>3, <2>1 DEF Ids
    <2>2. h[0] = 0
      BY <1>2
    <2>. QED  BY <2>1, <2>2
  <1>. HIDE DEF g
  <1>5. \E u : u = Unfold(u) /\ SumOver(c) = u[MaxRows]
    BY <1>4, Zenon DEF SumOver
  <1>6. PICK u : u = Unfold(u) /\ SumOver(c) = u[MaxRows]
    BY <1>5
  <1>7. u[0] = 0 /\ \A n \in Ids : u[n] = u[n - 1] + c[n]
    <2>1. ASSUME NEW n \in 0 .. MaxRows PROVE u[n] = IF n = 0 THEN 0 ELSE u[n - 1] + c[n]
      <3>. DEFINE v == Unfold(u)
      <3>1. v[n] = IF n = 0 THEN 0 ELSE u[n - 1] + c[n]
        OBVIOUS
      <3>2. u = v
        BY <1>6
      <3>. HIDE DEF v
      <3>. QED  BY <3>1, <3>2
    <2>2. 0 \in 0 .. MaxRows /\ \A n \in Ids : n \in 0 .. MaxRows /\ n # 0
      BY <1>0 DEF Ids
    <2>. QED  BY <2>1, <2>2, Zenon
  <1>8. \A n \in Nat : n \in 0 .. MaxRows => u[n] \in Nat
    <2>. DEFINE S == {n \in Nat : n \in 0 .. MaxRows => u[n] \in Nat}
    <2>1. 0 \in S
      BY <1>7
    <2>2. ASSUME NEW n \in Nat, n \in S PROVE n + 1 \in S
      <3>. SUFFICES ASSUME n + 1 \in 0 .. MaxRows PROVE u[n + 1] \in Nat
        OBVIOUS
      <3>1. n + 1 \in Ids /\ n \in 0 .. MaxRows /\ (n + 1) - 1 = n
        BY <1>0 DEF Ids
      <3>2. u[n + 1] = u[n] + c[n + 1]
        BY <1>7, <3>1
      <3>3. u[n] \in Nat /\ c[n + 1] \in Nat
        BY <2>2, <3>1
      <3>. QED  BY <3>2, <3>3
    <2>. HIDE DEF S
    <2>3. \A n \in Nat : n \in S
      BY <2>1, <2>2, BySteps
    <2>. QED  BY <2>3 DEF S
  <1>9. u \in [0 .. MaxRows -> Nat]
    <2>1. u = [n \in 0 .. MaxRows |-> u[n]]
      BY <1>6
    <2>. QED  BY <1>0, <1>8, <2>1
  <1>. QED  BY <1>6, <1>7, <1>9 DEF PartialSums

\* One count changes, and the sum by as much.
LEMMA SumFollows ==
    ASSUME NEW c \in [Ids -> Nat], NEW d \in [Ids -> Nat], NEW i \in Ids,
           \A j \in Ids \ {i} : d[j] = c[j]
    PROVE  SumOver(d) = SumOver(c) + (d[i] - c[i])
  <1>0. MaxRows \in Nat
    BY RowsAssumption
  <1>1. PICK u : PartialSums(u, c) /\ SumOver(c) = u[MaxRows]
    BY SumIsPartial
  <1>2. PICK v : PartialSums(v, d) /\ SumOver(d) = v[MaxRows]
    BY SumIsPartial
  <1>. DEFINE S == {n \in Nat : n \in 0 .. MaxRows => v[n] = u[n] + (IF n < i THEN 0 ELSE d[i] - c[i])}
  <1>3. 0 \in S
    BY <1>0, <1>1, <1>2 DEF PartialSums, Ids
  <1>4. ASSUME NEW n \in Nat, n \in S PROVE n + 1 \in S
    <2>. SUFFICES ASSUME n + 1 \in 0 .. MaxRows
                  PROVE  v[n + 1] = u[n + 1] + (IF n + 1 < i THEN 0 ELSE d[i] - c[i])
      OBVIOUS
    <2>1. n + 1 \in Ids /\ n \in 0 .. MaxRows /\ (n + 1) - 1 = n
      BY <1>0 DEF Ids
    <2>2. u[n + 1] = u[n] + c[n + 1] /\ v[n + 1] = v[n] + d[n + 1]
      BY <1>1, <1>2, <2>1 DEF PartialSums
    <2>3. v[n] = u[n] + (IF n < i THEN 0 ELSE d[i] - c[i])
      BY <1>4, <2>1
    <2>4. /\ u[n] \in Nat /\ v[n] \in Nat /\ c[n + 1] \in Nat /\ d[n + 1] \in Nat
          /\ i \in Nat /\ c[i] \in Nat /\ d[i] \in Nat
      BY <1>0, <1>1, <1>2, <2>1 DEF PartialSums, Ids
    <2>5. CASE n + 1 = i
      BY <2>2, <2>3, <2>4, <2>5
    <2>6. CASE n + 1 # i
      <3>1. d[n + 1] = c[n + 1]
        BY <2>1, <2>6
      <3>. QED  BY <2>2, <2>3, <2>4, <2>6, <3>1
    <2>. QED  BY <2>5, <2>6
  <1>. HIDE DEF S
  <1>5. MaxRows \in S
    BY <1>0, <1>3, <1>4, BySteps
  <1>6. v[MaxRows] = u[MaxRows] + (d[i] - c[i])
    <2>1. MaxRows \in 0 .. MaxRows /\ ~(MaxRows < i)
      BY <1>0 DEF Ids
    <2>. QED  BY <1>5, <2>1 DEF S
  <1>. QED  BY <1>1, <1>2, <1>6

LEMMA SumOfNone ==
    ASSUME NEW c \in [Ids -> Nat], \A i \in Ids : c[i] = 0
    PROVE  SumOver(c) = 0
  <1>0. MaxRows \in Nat
    BY RowsAssumption
  <1>1. PICK u : PartialSums(u, c) /\ SumOver(c) = u[MaxRows]
    BY SumIsPartial
  <1>. DEFINE S == {n \in Nat : n \in 0 .. MaxRows => u[n] = 0}
  <1>2. 0 \in S
    BY <1>1 DEF PartialSums
  <1>3. ASSUME NEW n \in Nat, n \in S PROVE n + 1 \in S
    BY <1>0, <1>1, <1>3 DEF PartialSums, Ids
  <1>. HIDE DEF S
  <1>4. MaxRows \in S
    BY <1>0, <1>2, <1>3, BySteps
  <1>. QED  BY <1>0, <1>1, <1>4 DEF S


\* Ids are given in order; a handler that is about to write knows of which flow.
FlowInv ==
    /\ FlowTypeOK
    /\ \A i \in Ids : i > lastId => flowRows[i] = NoRow
    /\ \A h \in Handlers : handlers[h].pc = "write" => handlers[h].flow \in Flows
    /\ FlowsAddUp

LEMMA FlowFacts ==
    FlowTypeOK => /\ flowRows \in [Ids -> TableRows] /\ lastId \in 0 .. MaxRows
                  /\ handlers \in [Handlers -> HandlerStates]
                  /\ reports \in 0 .. MaxReports /\ clears \in 0 .. MaxClears
                  /\ counted \in [Flows -> Nat] /\ forgotten \in [Flows -> Nat]
  BY DEF FlowTypeOK

LEMMA RowFacts ==
    ASSUME flowRows \in [Ids -> TableRows], NEW i \in Ids
    PROVE  /\ flowRows[i].count \in Nat /\ flowRows[i].flow \in Flows \cup {"none"}
           /\ flowRows[i].flow = "none" => flowRows[i].count = 0
  BY FlowsAssumption DEF TableRows, NoRow

LEMMA CountTyped ==
    ASSUME flowRows \in [Ids -> TableRows], NEW f PROVE CountOf(f) \in [Ids -> Nat]
  BY RowFacts DEF CountOf

LEMMA TotalTyped ==
    ASSUME flowRows \in [Ids -> TableRows], NEW f PROVE Total(f) \in Nat
  <1>1. PICK c \in [Ids -> Nat] : c = CountOf(f)
    BY CountTyped
  <1>2. PICK u : PartialSums(u, c) /\ SumOver(c) = u[MaxRows]
    BY SumIsPartial
  <1>. QED  BY <1>1, <1>2, RowsAssumption DEF Total, PartialSums

\* One row is written, and the total of its flow follows.
LEMMA RowChanges ==
    ASSUME flowRows \in [Ids -> TableRows], NEW i \in Ids, NEW f \in Flows, NEW n \in Nat,
           flowRows[i].flow \in {f, "none"},
           flowRows' = [flowRows EXCEPT ![i] = [flow |-> f, count |-> n]]
    PROVE  /\ flowRows' \in [Ids -> TableRows]
           /\ Total(f)' = Total(f) + (n - flowRows[i].count)
           /\ \A g \in Flows \ {f} : Total(g)' = Total(g)
  <1>1. flowRows' \in [Ids -> TableRows]
    BY DEF TableRows
  <1>2. ASSUME NEW g \in Flows
        PROVE  Total(g)' = Total(g) + (IF g = f THEN n - flowRows[i].count ELSE 0)
    <2>1. PICK c \in [Ids -> Nat] : c = CountOf(g)
      BY CountTyped
    <2>2. CountOf(g)' \in [Ids -> Nat]
      BY <1>1, RowFacts DEF CountOf, TableRows, NoRow
    <2>3. PICK d \in [Ids -> Nat] : d = CountOf(g)'
      BY <2>2
    <2>4. ASSUME NEW j \in Ids \ {i} PROVE d[j] = c[j]
      BY <2>1, <2>3 DEF CountOf
    <2>5. SumOver(d) = SumOver(c) + (d[i] - c[i])
      BY <2>4, SumFollows
    <2>6. Total(g) = SumOver(c) /\ Total(g)' = SumOver(d)
      BY <2>1, <2>3 DEF Total
    <2>7. d[i] = IF g = f THEN n ELSE 0
      BY <2>3 DEF CountOf
    <2>8. c[i] = IF g = f THEN flowRows[i].count ELSE 0
      BY <2>1, FlowsAssumption, RowFacts DEF CountOf
    <2>9. SumOver(c) \in Nat
      BY <2>6, TotalTyped
    <2>10. flowRows[i].count \in Nat
      BY RowFacts
    <2>. QED  BY <2>5, <2>6, <2>7, <2>8, <2>9, <2>10
  <1>3. ASSUME NEW g \in Flows \ {f} PROVE Total(g)' = Total(g)
    BY <1>2, TotalTyped
  <1>. QED  BY <1>1, <1>2, <1>3

LEMMA TableSame == flowRows' = flowRows => \A f \in Flows : Total(f)' = Total(f)
  BY DEF Total, CountOf

LEMMA TableEmpty ==
    ASSUME flowRows = [i \in Ids |-> NoRow], NEW f PROVE Total(f) = 0
  <1>1. PICK c \in [Ids -> Nat] : c = CountOf(f)
    BY DEF CountOf, NoRow
  <1>2. \A i \in Ids : c[i] = 0
    BY <1>1 DEF CountOf, NoRow
  <1>. QED  BY <1>1, <1>2, SumOfNone DEF Total

LEMMA FlowInitInv == FlowInit => FlowInv
  <1>. SUFFICES ASSUME FlowInit PROVE FlowInv
    OBVIOUS
  <1>1. FlowTypeOK
    BY RowsAssumption DEF FlowInit, FlowTypeOK, TableRows, IdleHandler, HandlerStates
  <1>2. FlowsAddUp
    BY TableEmpty DEF FlowInit, FlowsAddUp
  <1>. QED  BY <1>1, <1>2 DEF FlowInit, FlowInv, IdleHandler

LEMMA FlowStep == FlowInv /\ [FlowNext]_flowVars => FlowInv'
  <1>. SUFFICES ASSUME FlowInv, [FlowNext]_flowVars PROVE FlowInv'
    OBVIOUS
  <1>0. /\ flowRows \in [Ids -> TableRows] /\ lastId \in 0 .. MaxRows
        /\ handlers \in [Handlers -> HandlerStates]
        /\ reports \in 0 .. MaxReports /\ clears \in 0 .. MaxClears
        /\ counted \in [Flows -> Nat] /\ forgotten \in [Flows -> Nat]
        /\ MaxReports \in Nat /\ MaxRows \in Nat /\ MaxClears \in Nat
        /\ \A i \in Ids : i > lastId => flowRows[i] = NoRow
        /\ \A h \in Handlers : handlers[h].pc = "write" => handlers[h].flow \in Flows
        /\ FlowsAddUp
        /\ IdleHandler \in HandlerStates
    BY FlowFacts, RowsAssumption DEF FlowInv, IdleHandler, HandlerStates
  \* A handler goes on, and writes nothing.
  <1>1. ASSUME NEW h \in Handlers, NEW n \in HandlerStates, handlers' = [handlers EXCEPT ![h] = n],
               n.pc = "write" => n.flow \in Flows, reports' \in 0 .. MaxReports,
               UNCHANGED <<flowRows, lastId, clears, counted, forgotten>>
        PROVE  FlowInv'
    <2>1. FlowTypeOK'
      BY <1>0, <1>1 DEF FlowTypeOK
    <2>2. \A o \in Handlers : handlers'[o].pc = "write" => handlers'[o].flow \in Flows
      BY <1>0, <1>1
    <2>3. FlowsAddUp'
      BY <1>0, <1>1, TableSame DEF FlowsAddUp
    <2>. QED  BY <1>0, <1>1, <2>1, <2>2, <2>3 DEF FlowInv
  <1>2. ASSUME NEW h \in Handlers, StartReport(h) PROVE FlowInv'
    <2>1. PICK S \in SUBSET Flows : handlers' = [handlers EXCEPT ![h] = [IdleHandler EXCEPT !.pc = "look", !.todo = S]]
      BY <1>2 DEF StartReport
    <2>2. PICK n : n = [IdleHandler EXCEPT !.pc = "look", !.todo = S]
      OBVIOUS
    <2>3. n \in HandlerStates /\ n.pc = "look"
      BY <2>2 DEF IdleHandler, HandlerStates
    <2>4. reports' \in 0 .. MaxReports
      BY <1>0, <1>2 DEF StartReport
    <2>. QED  BY <1>1, <1>2, <2>1, <2>2, <2>3, <2>4 DEF StartReport
  <1>3. ASSUME NEW h \in Handlers, Look(h) PROVE FlowInv'
    <2>1. PICK f \in Flows : /\ f \in handlers[h].todo
                             /\ \/ handlers' = [handlers EXCEPT ![h].pc = "write", ![h].flow = f]
                                \/ \E i \in RowsOf(f) :
                                      handlers' = [handlers EXCEPT ![h].pc = "write", ![h].flow = f, ![h].id = i,
                                                                   ![h].count = flowRows[i].count]
      BY <1>0, <1>3 DEF Look, HandlerStates
    <2>2. PICK q \in HandlerStates : q = handlers[h]
      BY <1>0
    <2>3. PICK n \in HandlerStates : handlers' = [handlers EXCEPT ![h] = n] /\ n.flow = f
      <3>1. CASE handlers' = [handlers EXCEPT ![h].pc = "write", ![h].flow = f]
        <4>1. [q EXCEPT !.pc = "write", !.flow = f] \in HandlerStates
          BY DEF HandlerStates
        <4>2. handlers' = [handlers EXCEPT ![h] = [q EXCEPT !.pc = "write", !.flow = f]]
          BY <1>0, <2>2, <3>1
        <4>. QED  BY <4>1, <4>2 DEF HandlerStates
      <3>2. CASE \E i \in RowsOf(f) :
                    handlers' = [handlers EXCEPT ![h].pc = "write", ![h].flow = f, ![h].id = i,
                                                 ![h].count = flowRows[i].count]
        <4>1. PICK i \in RowsOf(f) :
                    handlers' = [handlers EXCEPT ![h].pc = "write", ![h].flow = f, ![h].id = i,
                                                 ![h].count = flowRows[i].count]
          BY <3>2
        <4>2. i \in Ids /\ flowRows[i].count \in Nat
          BY <1>0, <4>1, RowFacts DEF RowsOf
        <4>3. PICK n : n = [q EXCEPT !.pc = "write", !.flow = f, !.id = i, !.count = flowRows[i].count]
          OBVIOUS
        <4>4. n \in HandlerStates /\ n.flow = f
          BY <4>2, <4>3 DEF HandlerStates
        <4>5. handlers' = [handlers EXCEPT ![h] = n]
          BY <1>0, <2>2, <4>1, <4>3
        <4>. QED  BY <4>4, <4>5
      <3>. QED  BY <2>1, <3>1, <3>2
    <2>. QED  BY <1>0, <1>1, <1>3, <2>3 DEF Look
  <1>4. ASSUME NEW h \in Handlers, ReportFails(h) PROVE FlowInv'
    <2>1. IdleHandler.pc # "write"
      BY DEF IdleHandler
    <2>. QED  BY <1>0, <1>1, <1>4, <2>1 DEF ReportFails
  <1>5. ASSUME NEW h \in Handlers, WriteFlow(h) PROVE FlowInv'
    <2>. DEFINE rest == handlers[h].todo \ {handlers[h].flow}
                n == IF rest = {} THEN IdleHandler ELSE [IdleHandler EXCEPT !.pc = "look", !.todo = rest]
    <2>1. PICK f \in Flows, i \in {0} \cup Ids : f = handlers[h].flow /\ i = handlers[h].id
      BY <1>0, <1>5 DEF WriteFlow, HandlerStates
    <2>2. n \in HandlerStates /\ n.pc # "write"
      <3>1. rest \in SUBSET Flows
        BY <1>0 DEF HandlerStates
      <3>. HIDE DEF rest
      <3>. QED  BY <1>0, <3>1 DEF IdleHandler, HandlerStates
    <2>3. /\ counted' = [counted EXCEPT ![f] = @ + 1] /\ handlers' = [handlers EXCEPT ![h] = n]
          /\ UNCHANGED <<reports, clears>>
      BY <1>5, <2>1 DEF WriteFlow
    <2>. HIDE DEF n
    <2>4. /\ handlers' \in [Handlers -> HandlerStates] /\ counted' \in [Flows -> Nat]
          /\ \A o \in Handlers : handlers'[o].pc = "write" => handlers'[o].flow \in Flows
      BY <1>0, <2>2, <2>3
    <2>5. /\ counted'[f] = counted[f] + 1 /\ \A g \in Flows \ {f} : counted'[g] = counted[g]
          /\ \A g \in Flows : Total(g) \in Nat /\ counted[g] \in Nat /\ forgotten[g] \in Nat
      BY <1>0, <2>3, TotalTyped
    \* A row is written that counts one more than before.
    <2>6. ASSUME NEW k \in Ids, NEW m \in Nat, flowRows[k].flow \in {f, "none"},
                 flowRows' = [flowRows EXCEPT ![k] = [flow |-> f, count |-> m]],
                 m = flowRows[k].count + 1,
                 k <= lastId', lastId' \in lastId .. MaxRows, forgotten' = forgotten
          PROVE  FlowInv'
      <3>1. /\ flowRows' \in [Ids -> TableRows] /\ Total(f)' = Total(f) + (m - flowRows[k].count)
            /\ \A g \in Flows \ {f} : Total(g)' = Total(g)
        BY <1>0, <2>6, RowChanges
      <3>2. flowRows[k].count \in Nat
        BY <1>0, RowFacts
      <3>3. Total(f)' = Total(f) + 1
        BY <2>5, <2>6, <3>1, <3>2
      <3>4. FlowTypeOK'
        BY <1>0, <2>3, <2>4, <2>6, <3>1 DEF FlowTypeOK
      <3>5. \A j \in Ids : j > lastId' => flowRows'[j] = NoRow
        BY <1>0, <2>6 DEF Ids
      <3>6. ASSUME NEW g \in Flows PROVE Total(g)' + forgotten'[g] = counted'[g]
        <4>1. Total(g) + forgotten[g] = counted[g]
          BY <1>0 DEF FlowsAddUp
        <4>2. CASE g = f
          BY <2>5, <2>6, <3>3, <4>1, <4>2
        <4>3. CASE g # f
          BY <2>5, <2>6, <3>1, <4>1, <4>3
        <4>. QED  BY <4>2, <4>3
      <3>7. FlowsAddUp'
        BY <3>6 DEF FlowsAddUp
      <3>. QED  BY <2>4, <3>4, <3>5, <3>7 DEF FlowInv
    <2>7. CASE i # 0 /\ flowRows[i].flow = f /\ UNCHANGED <<lastId, forgotten>>
               /\ flowRows' = [flowRows EXCEPT ![i].count = AddOne(i, handlers[h].count)]
      <3>1. i \in Ids /\ flowRows[i] \in TableRows /\ flowRows[i].count \in Nat
        BY <1>0, <2>7, RowFacts
      <3>2. flowRows[i] \in [flow : Flows, count : Nat]
        BY <2>7, <3>1, FlowsAssumption DEF TableRows, NoRow
      <3>3. PICK m \in Nat : m = flowRows[i].count + 1
        BY <3>1
      <3>4. flowRows' = [flowRows EXCEPT ![i] = [flow |-> f, count |-> m]]
        <4>1. [flowRows[i] EXCEPT !.count = m] = [flow |-> f, count |-> m]
          BY <2>7, <3>2
        <4>2. flowRows' = [flowRows EXCEPT ![i] = [flowRows[i] EXCEPT !.count = m]]
          BY <1>0, <2>7, <3>1, <3>3 DEF AddOne
        <4>. QED  BY <4>1, <4>2
      <3>5. i <= lastId
        BY <1>0, <2>7, <3>1, FlowsAssumption DEF NoRow, Ids
      <3>6. lastId' \in lastId .. MaxRows /\ i <= lastId'
        BY <1>0, <2>7, <3>5
      <3>. QED  BY <2>6, <2>7, <3>1, <3>3, <3>4, <3>6
    <2>8. CASE i # 0 /\ UNCHANGED <<flowRows, lastId>> /\ forgotten' = [forgotten EXCEPT ![f] = @ + 1]
      <3>1. FlowTypeOK'
        BY <1>0, <2>3, <2>4, <2>8 DEF FlowTypeOK
      <3>2. \A g \in Flows : Total(g)' = Total(g)
        BY <2>8, TableSame
      <3>3. ASSUME NEW g \in Flows PROVE Total(g)' + forgotten'[g] = counted'[g]
        <4>1. Total(g) + forgotten[g] = counted[g]
          BY <1>0 DEF FlowsAddUp
        <4>2. CASE g = f
          BY <1>0, <2>5, <2>8, <3>2, <4>1, <4>2
        <4>3. CASE g # f
          BY <1>0, <2>5, <2>8, <3>2, <4>1, <4>3
        <4>. QED  BY <4>2, <4>3
      <3>4. FlowsAddUp'
        BY <3>3 DEF FlowsAddUp
      <3>. QED  BY <1>0, <2>4, <2>8, <3>1, <3>4 DEF FlowInv
    <2>9. CASE lastId < MaxRows /\ lastId' = lastId + 1 /\ UNCHANGED forgotten
               /\ flowRows' = [flowRows EXCEPT ![lastId'] = [flow |-> f, count |-> 1]]
      <3>1. PICK k \in Ids : k = lastId + 1
        BY <1>0, <2>9 DEF Ids
      <3>2. flowRows[k] = NoRow
        BY <1>0, <3>1
      <3>3. flowRows[k].flow \in {f, "none"} /\ 1 = flowRows[k].count + 1 /\ 1 \in Nat
        BY <3>2 DEF NoRow
      <3>4. flowRows' = [flowRows EXCEPT ![k] = [flow |-> f, count |-> 1]]
        BY <2>9, <3>1
      <3>5. k <= lastId' /\ lastId' \in lastId .. MaxRows
        BY <1>0, <2>9, <3>1
      <3>. QED  BY <2>6, <2>9, <3>3, <3>4, <3>5
    <2>. QED  BY <1>5, <2>1, <2>7, <2>8, <2>9 DEF WriteFlow
  <1>6. ASSUME NEW S \in SUBSET Flows, Clear(S) PROVE FlowInv'
    <2>1. /\ flowRows' = [i \in Ids |-> IF flowRows[i].flow \in S THEN NoRow ELSE flowRows[i]]
          /\ forgotten' = [f \in Flows |-> IF f \in S THEN counted[f] ELSE forgotten[f]]
          /\ clears' \in 0 .. MaxClears /\ UNCHANGED <<lastId, handlers, reports, counted>>
      BY <1>0, <1>6 DEF Clear
    <2>2. flowRows' \in [Ids -> TableRows]
      BY <1>0, <2>1 DEF TableRows
    <2>3. forgotten' \in [Flows -> Nat]
      BY <1>0, <2>1
    <2>4. FlowTypeOK'
      BY <1>0, <2>1, <2>2, <2>3 DEF FlowTypeOK
    <2>5. ASSUME NEW f \in S PROVE Total(f)' = 0
      <3>0. \A i \in Ids : flowRows'[i].count \in Nat
        BY <2>2 DEF TableRows, NoRow
      <3>1. PICK c \in [Ids -> Nat] : c = CountOf(f)'
        BY <3>0 DEF CountOf
      <3>2. \A i \in Ids : c[i] = 0
        BY <2>1, <2>5, <3>1, FlowsAssumption DEF CountOf, NoRow
      <3>. QED  BY <3>1, <3>2, SumOfNone DEF Total
    <2>6. ASSUME NEW f \in Flows \ S PROVE Total(f)' = Total(f)
      <3>1. CountOf(f)' = CountOf(f)
        <4>1. ASSUME NEW i \in Ids
              PROVE  (IF flowRows'[i].flow = f THEN flowRows'[i].count ELSE 0)
                     = (IF flowRows[i].flow = f THEN flowRows[i].count ELSE 0)
          BY <2>1, <2>6, FlowsAssumption DEF NoRow
        <4>. QED  BY <4>1 DEF CountOf
      <3>. QED  BY <3>1, Zenon DEF Total, SumOver
    <2>7. ASSUME NEW f \in Flows PROVE Total(f)' + forgotten'[f] = counted'[f]
      <3>1. Total(f) + forgotten[f] = counted[f] /\ counted[f] \in Nat /\ counted'[f] = counted[f]
        BY <1>0, <2>1 DEF FlowsAddUp
      <3>2. CASE f \in S
        BY <2>1, <2>5, <3>1, <3>2
      <3>3. CASE f \notin S
        BY <2>1, <2>6, <3>1, <3>3
      <3>. QED  BY <3>2, <3>3
    <2>8. FlowsAddUp'
      BY <2>7 DEF FlowsAddUp
    <2>9. \A i \in Ids : i > lastId' => flowRows'[i] = NoRow
      BY <1>0, <2>1
    <2>. QED  BY <1>0, <2>1, <2>4, <2>8, <2>9 DEF FlowInv
  <1>7. CASE UNCHANGED flowVars
    <2>1. FlowTypeOK'
      BY <1>0, <1>7 DEF flowVars, FlowTypeOK
    <2>2. FlowsAddUp'
      BY <1>0, <1>7, TableSame DEF flowVars, FlowsAddUp
    <2>. QED  BY <1>0, <1>7, <2>1, <2>2 DEF flowVars, FlowInv
  <1>8. ClearFlows \/ ClearFlowsForSubnet => \E S \in SUBSET Flows : Clear(S)
    BY DEF ClearFlows, ClearFlowsForSubnet
  <1>. QED  BY <1>2, <1>3, <1>4, <1>5, <1>6, <1>7, <1>8 DEF FlowNext

LEMMA FlowTypes == FlowSpec => []FlowInv
  BY FlowInitInv, FlowStep, PTL DEF FlowSpec

\* FlowsAddUp: whatever handlers and clearings overlap, over any number of rows.
THEOREM FlowsAreCounted == FlowSpec => []FlowsAddUp
  <1>1. FlowInv => FlowsAddUp
    BY DEF FlowInv
  <1>. QED  BY <1>1, FlowTypes, PTL


-----------------------------------------------------------------------------
(* Side by side.                                                           *)

\* Each part moves by its own steps, whatever the others are doing.
LEMMA PartsOfServer ==
    Spec => HubSpec /\ RelaySpec /\ ViewSpec /\ FlowSpec /\ AccessSpec /\ SsoSpec
  <1>1. Init => HubInit /\ RelayInit /\ ViewInit /\ FlowInit /\ AccessInit /\ SsoInit
    BY DEF Init
  <1>2. [Next]_vars => /\ [HubNext]_hubVars /\ [RelayNext]_relayVars /\ [ViewNext]_viewVars
                       /\ [FlowNext]_flowVars /\ [AccessNext]_accessVars /\ [SsoNext]_ssoVars
    BY DEF Next, vars, OnlyHub, OnlyRelay, OnlyView, OnlyFlow, OnlyAccess, OnlySso
  <1>. QED  BY <1>1, <1>2, PTL DEF Spec, HubSpec, RelaySpec, ViewSpec, FlowSpec, AccessSpec, SsoSpec

\* ServerPartsTypeOK: side by side, the six parts keep their types.
THEOREM ServerPartsTyped == Spec => []ServerPartsTypeOK
  <1>1. HubSpec => []HubTypeOK
    BY HubTypeInit, HubTypeStep, PTL DEF HubSpec
  <1>2. HubTypeOK /\ RelayInv /\ ViewInv /\ FlowInv /\ AccessInv /\ SsoInv => ServerPartsTypeOK
    BY DEF RelayInv, ViewInv, FlowInv, AccessInv, SsoInv, ServerPartsTypeOK
  <1>. QED
    BY <1>1, <1>2, PartsOfServer, RelayTypes, ViewTypes, FlowTypes, AccessTypes, SsoTypes, PTL

\* What holds of each part alone holds of the parts side by side.
COROLLARY ServerPartsHold ==
    Spec => /\ [](DoneClosedOnce /\ FlowsAddUp /\ ListIsOfItsTime /\ OwnAccount)
            /\ [](SocketInUseIsKnown /\ RelayLeavesNothing /\ OneStatusLine /\ (stuck \/ NameIsFreed))
            /\ ConnectedStaysRegistered
  BY PartsOfServer, DoneIsClosedOnce, FlowsAreCounted, ListOfItsTime, AccountIsOwn, EntryIsKept,
     SocketsAgree, RelayEndsClean, OneStatusLineEach, NameComesFree, PTL
=============================================================================
