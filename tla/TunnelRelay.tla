----------------------------- MODULE TunnelRelay -----------------------------
(***************************************************************************)
(* The data path of one tunnel after the probe was told to open it: the    *)
(* probe dials the device and then a WebSocket of its own to the server,   *)
(* registers the tunnel and relays with two goroutines until one of them   *)
(* fails or handleTunnelClose ends it; on the server requests of browsers  *)
(* are written to that WebSocket and what comes back is their answer.      *)
(* Which row the tunnel has, and who may open it, is in Tunnels.           *)
(*                                                                         *)
(* The device answers a request with its headers and then the rest, each   *)
(* one piece; what a header says is left out.                              *)
(***************************************************************************)
EXTENDS Integers, Sequences

CONSTANTS
    Requests,     \* proxied requests
    MaxCloses,    \* bound: tunnel_close messages that arrive
    MaxPieces     \* bound: pieces under way in each direction

ASSUME RelayAssumption == MaxCloses \in Nat /\ MaxPieces \in Nat \ {0}

VARIABLES
    opener,       \* handleTunnelOpen
    tcp,          \* the probe's connection to the device
    nearEnd, farEnd,    \* the two ends of the data WebSocket; farEnd is in tunnelDataWs
    registered,   \* the tunnel is in the map tunnels
    closer,       \* handleTunnelClose, between the map and close(done)
    closes,       \* tunnel_close messages so far
    doneCloses,   \* how often the channel done was closed
    relay,        \* tunnelRelay
    pumps,        \* its goroutines: from the device, and to it
    errCh,        \* values in the channel
    toDevice, toServer, fromDevice,   \* what is under way
    requests

relayVars == <<opener, tcp, nearEnd, farEnd, registered, closer, closes, doneCloses, relay, pumps,
               errCh, toDevice, toServer, fromDevice, requests>>

probeVars == <<opener, registered, closer, closes, doneCloses, relay, pumps, errCh>>

-----------------------------------------------------------------------------

Pieces == {"headers", "rest"}
RequestStates == [pc : {"idle", "wait", "ready", "listen", "over", "lost"},
                  hears : BOOLEAN,        \* its listener for messages is attached
                  responded : BOOLEAN,
                  headersParsed : BOOLEAN,
                  heads : Nat]            \* status lines written to the browser

RelayTypeOK ==
    /\ opener \in {"dial", "dialWS", "register", "over"}
    /\ tcp \in {"none", "open", "eof", "closed"}
    /\ nearEnd \in {"none", "open", "broken", "closed"} /\ farEnd \in {"none", "open", "closed"}
    /\ registered \in BOOLEAN
    /\ closer \in {"idle", "found"} /\ closes \in 0 .. MaxCloses /\ doneCloses \in Nat
    /\ relay \in {"none", "run", "over"}
    /\ pumps \in [{"up", "down"} -> {"none", "run", "stopped"}]
    /\ errCh \in 0 .. 2
    /\ toDevice \in 0 .. MaxPieces
    /\ toServer \in Seq(Pieces) /\ fromDevice \in Seq(Pieces)
    /\ requests \in [Requests -> RequestStates]

IdleRequest ==
    [pc |-> "idle", hears |-> FALSE, responded |-> FALSE, headersParsed |-> FALSE, heads |-> 0]

RelayInit ==
    /\ opener = "dial" /\ tcp = "none" /\ nearEnd = "none" /\ farEnd = "none"
    /\ registered = FALSE
    /\ closer = "idle" /\ closes = 0 /\ doneCloses = 0
    /\ relay = "none" /\ pumps = [g \in {"up", "down"} |-> "none"] /\ errCh = 0
    /\ toDevice = 0 /\ toServer = <<>> /\ fromDevice = <<>>
    /\ requests = [r \in Requests |-> IdleRequest]

-----------------------------------------------------------------------------
(* handleTunnelOpen.                                                       *)

DialDevice ==
    /\ opener = "dial"
    /\ \/ opener' = "dialWS" /\ tcp' = "open"
       \/ opener' = "over" /\ UNCHANGED tcp
    /\ UNCHANGED <<nearEnd, farEnd, registered, closer, closes, doneCloses, relay, pumps, errCh,
                   toDevice, toServer, fromDevice, requests>>

\* The server has its end as soon as the probe has, or before.
DialServer ==
    /\ opener = "dialWS"
    /\ \/ opener' = "register" /\ nearEnd' = "open" /\ farEnd' = "open" /\ UNCHANGED tcp
       \/ opener' = "over" /\ tcp' = "closed" /\ UNCHANGED <<nearEnd, farEnd>>
    /\ UNCHANGED <<registered, closer, closes, doneCloses, relay, pumps, errCh, toDevice,
                   toServer, fromDevice, requests>>

Register ==
    /\ opener = "register"
    /\ opener' = "over"
    /\ registered' = TRUE
    /\ relay' = "run" /\ pumps' = [g \in {"up", "down"} |-> "run"]
    /\ UNCHANGED <<tcp, nearEnd, farEnd, closer, closes, doneCloses, errCh, toDevice, toServer,
                   fromDevice, requests>>

-----------------------------------------------------------------------------
(* handleTunnelClose.                                                      *)

\* Mutant: the entry stays in the map.
CloseFoundKeeps ==
    /\ closer = "idle" /\ closes < MaxCloses
    /\ closes' = closes + 1
    /\ closer' = IF registered THEN "found" ELSE "idle"
    /\ UNCHANGED <<opener, tcp, nearEnd, farEnd, registered, doneCloses, relay, pumps, errCh, toDevice,
                   toServer, fromDevice, requests>>

\* A tunnel that is not registered, or not yet, is not looked for again.
CloseFound ==
    /\ closer = "idle" /\ closes < MaxCloses
    /\ closes' = closes + 1
    /\ closer' = IF registered THEN "found" ELSE "idle"
    /\ registered' = FALSE
    /\ UNCHANGED <<opener, tcp, nearEnd, farEnd, doneCloses, relay, pumps, errCh, toDevice, toServer,
                   fromDevice, requests>>

CloseDone ==
    /\ closer = "found"
    /\ closer' = "idle"
    /\ doneCloses' = doneCloses + 1
    /\ tcp' = "closed" /\ nearEnd' = "closed"
    /\ UNCHANGED <<opener, farEnd, registered, closes, relay, pumps, errCh, toDevice, toServer,
                   fromDevice, requests>>

-----------------------------------------------------------------------------
(* tunnelRelay.                                                            *)

\* Mutant: a goroutine reports its error and goes on.
ReportsOnly(g) == UNCHANGED pumps /\ errCh' = errCh + 1

Stop(g) == pumps' = [pumps EXCEPT ![g] = "stopped"] /\ errCh' = errCh + 1

\* What the device sent goes on before its end is noticed.
PumpUp ==
    /\ pumps["up"] = "run"
    /\ \/ /\ tcp \in {"open", "eof"} /\ fromDevice # <<>> /\ nearEnd = "open"
          /\ Len(toServer) < MaxPieces
          /\ toServer' = Append(toServer, Head(fromDevice))
          /\ fromDevice' = Tail(fromDevice)
          /\ UNCHANGED <<pumps, errCh>>
       \/ /\ tcp = "closed" \/ IF fromDevice = <<>> THEN tcp = "eof" ELSE nearEnd # "open"
          /\ Stop("up")
          /\ UNCHANGED <<toServer, fromDevice>>
    /\ UNCHANGED <<opener, tcp, nearEnd, farEnd, registered, closer, closes, doneCloses, relay,
                   toDevice, requests>>

\* A device that has finished answers no more; a request that is under way
\* when the WebSocket closes is lost.
PumpDown ==
    /\ pumps["down"] = "run"
    /\ \/ /\ nearEnd = "open" /\ toDevice > 0
          /\ toDevice' = toDevice - 1
          /\ \/ /\ tcp = "open" /\ Len(fromDevice) + 2 <= MaxPieces
                /\ fromDevice' = fromDevice \o <<"headers", "rest">>
                /\ UNCHANGED <<pumps, errCh>>
             \/ tcp = "eof" /\ UNCHANGED <<pumps, errCh, fromDevice>>
             \/ tcp \in {"eof", "closed"} /\ Stop("down") /\ UNCHANGED fromDevice
       \/ /\ nearEnd # "open"
          /\ Stop("down")
          /\ UNCHANGED <<toDevice, fromDevice>>
    /\ UNCHANGED <<opener, tcp, nearEnd, farEnd, registered, closer, closes, doneCloses, relay,
                   toServer, requests>>

\* Mutant: the WebSocket is left to the goroutine that reads it.
RelayEndsHalf ==
    /\ relay = "run"
    /\ \/ errCh > 0 /\ errCh' = errCh - 1
       \/ doneCloses > 0 /\ UNCHANGED errCh
    /\ relay' = "over"
    /\ registered' = FALSE
    /\ tcp' = "closed"
    /\ UNCHANGED <<opener, nearEnd, farEnd, closer, closes, doneCloses, pumps, toDevice, toServer,
                   fromDevice, requests>>

\* The deferred function.
RelayEnds ==
    /\ relay = "run"
    /\ \/ errCh > 0 /\ errCh' = errCh - 1
       \/ doneCloses > 0 /\ UNCHANGED errCh
    /\ relay' = "over"
    /\ registered' = FALSE
    /\ tcp' = "closed" /\ nearEnd' = "closed"
    /\ UNCHANGED <<opener, farEnd, closer, closes, doneCloses, pumps, toDevice, toServer,
                   fromDevice, requests>>

-----------------------------------------------------------------------------
(* The device and the network.                                             *)

DeviceCloses ==
    /\ tcp = "open"
    /\ tcp' = "eof"
    /\ UNCHANGED <<probeVars, nearEnd, farEnd, toDevice, toServer, fromDevice, requests>>

\* The WebSocket breaks: the probe's keepalive notices, the server may not.
DataWsBreaks ==
    /\ nearEnd = "open"
    /\ nearEnd' = "broken"
    /\ toServer' = <<>>
    /\ UNCHANGED <<probeVars, tcp, farEnd, toDevice, fromDevice, requests>>

-----------------------------------------------------------------------------
(* proxyHandler.                                                           *)

\* Mutant: a browser's answer is not marked as given.
TimeoutForgets(r) ==
    /\ requests[r].pc = "listen" /\ ~requests[r].responded
    /\ requests' = [q \in Requests |->
          [requests[q] EXCEPT !.hears = IF q = r THEN @ ELSE FALSE,
                              !.pc = IF q = r /\ requests[r].heads = 0 THEN "over" ELSE @,
                              !.heads = IF q = r /\ @ = 0 THEN 1 ELSE @]]
    /\ UNCHANGED <<probeVars, tcp, nearEnd, farEnd, toDevice, toServer, fromDevice>>

\* A request finds the WebSocket, waiting up to eight seconds for it; until it
\* is sent the tunnel and the body are read.
RequestWaits(r) ==
    /\ requests[r].pc = "idle"
    /\ requests' = [requests EXCEPT ![r].pc = "wait"]
    /\ UNCHANGED <<probeVars, tcp, nearEnd, farEnd, toDevice, toServer, fromDevice>>

RequestFinds(r) ==
    /\ requests[r].pc = "wait"
    /\ \/ farEnd = "open" /\ requests' = [requests EXCEPT ![r].pc = "ready"]
       \/ farEnd # "open" /\ requests' = [requests EXCEPT ![r].pc = "over", ![r].heads = 1]
    /\ UNCHANGED <<probeVars, tcp, nearEnd, farEnd, toDevice, toServer, fromDevice>>

\* Nothing is said of what is sent on a closed WebSocket, and its close has
\* been and gone.
RequestSends(r) ==
    /\ requests[r].pc = "ready"
    /\ toDevice < MaxPieces
    /\ toDevice' = IF farEnd = "open" /\ nearEnd = "open" THEN toDevice + 1 ELSE toDevice
    /\ requests' = [requests EXCEPT ![r].pc = "listen", ![r].hears = TRUE]
    /\ UNCHANGED <<probeVars, tcp, nearEnd, farEnd, toServer, fromDevice>>

\* Nothing catches what the handler's awaits throw, the lookup of the tunnel or a
\* body that breaks off: the rejection ends the server's process, and with it every
\* request under way and the server's end of the WebSocket.
ServerEnds(r) ==
    /\ requests[r].pc = "ready"
    /\ requests' = [q \in Requests |->
          IF requests[q].pc \in {"idle", "over"} THEN requests[q]
          ELSE [requests[q] EXCEPT !.pc = "lost", !.hears = FALSE]]
    /\ farEnd' = "closed"
    /\ nearEnd' = IF nearEnd = "open" THEN "broken" ELSE nearEnd
    /\ toServer' = <<>>
    /\ UNCHANGED <<probeVars, tcp, toDevice, fromDevice>>

\* Everybody who listens takes what arrives for his answer.
Message ==
    /\ toServer # <<>> /\ farEnd = "open"
    /\ toServer' = Tail(toServer)
    /\ requests' = [r \in Requests |->
          IF requests[r].hears /\ ~requests[r].responded
                /\ ~requests[r].headersParsed /\ Head(toServer) = "headers"
          THEN [requests[r] EXCEPT !.heads = @ + 1, !.headersParsed = TRUE] ELSE requests[r]]
    /\ UNCHANGED <<probeVars, tcp, nearEnd, farEnd, toDevice, fromDevice>>

\* Thirty seconds, whether there were headers or not: with them, the answer is
\* left as it is.  The listeners of all requests go.
Timeout(r) ==
    /\ requests[r].pc = "listen" /\ ~requests[r].responded
    /\ requests' = [q \in Requests |->
          [requests[q] EXCEPT !.hears = FALSE,
                              !.responded = IF q = r THEN TRUE ELSE @,
                              !.pc = IF q = r /\ requests[r].heads = 0 THEN "over" ELSE @,
                              !.heads = IF q = r /\ @ = 0 THEN 1 ELSE @]]
    /\ UNCHANGED <<probeVars, tcp, nearEnd, farEnd, toDevice, toServer, fromDevice>>

\* The close of the server's end, after what was under way; every request that
\* listens ends.  A request whose time was up has nothing to end it.
DataWsCloses ==
    /\ farEnd = "open" /\ nearEnd # "open" /\ toServer = <<>>
    /\ farEnd' = "closed"
    /\ requests' = [r \in Requests |->
          IF requests[r].pc = "listen" /\ ~requests[r].responded
          THEN [requests[r] EXCEPT !.pc = "over", !.hears = FALSE, !.responded = TRUE,
                                   !.heads = IF @ = 0 THEN 1 ELSE @]
          ELSE [requests[r] EXCEPT !.hears = FALSE]]
    /\ UNCHANGED <<probeVars, tcp, nearEnd, toDevice, toServer, fromDevice>>

-----------------------------------------------------------------------------

Opener == DialDevice \/ DialServer \/ Register
Request(r) == RequestFinds(r) \/ RequestSends(r) \/ Timeout(r)
RelayNext ==
    \/ Opener \/ CloseFound \/ CloseDone
    \/ PumpUp \/ PumpDown \/ RelayEnds
    \/ DeviceCloses \/ DataWsBreaks \/ Message \/ DataWsCloses
    \/ \E r \in Requests : RequestWaits(r) \/ Request(r) \/ ServerEnds(r)

RelaySpec == RelayInit /\ [][RelayNext]_relayVars

\* The probe's goroutines run and the server's timers; an orderly close of the
\* WebSocket arrives.
RelayFairness ==
    /\ WF_relayVars(Opener) /\ WF_relayVars(CloseDone) /\ WF_relayVars(RelayEnds)
    /\ WF_relayVars(PumpUp) /\ WF_relayVars(PumpDown) /\ WF_relayVars(Message)
    /\ WF_relayVars(DataWsCloses /\ nearEnd = "closed")
    /\ \A r \in Requests : WF_relayVars(Request(r))

RelayFairSpec == RelaySpec /\ RelayFairness

-----------------------------------------------------------------------------
(* Properties.                                                             *)

\* A channel that is closed twice ends the probe.
DoneClosedOnce == doneCloses <= 1

\* Whoever ends a tunnel first, the device, the WebSocket or a close that found
\* it, the probe ends up with neither connection nor goroutine of it.
NothingIsLeft ==
    (registered /\ (tcp # "open" \/ nearEnd # "open")) \/ closer = "found"
        ~> /\ tcp = "closed" /\ nearEnd = "closed" /\ ~registered
           /\ relay = "over" /\ pumps = [g \in {"up", "down"} |-> "stopped"]

\* Every browser gets one status line, from the device, the timer or the close, in
\* whatever order they come and even if the WebSocket closed before the request
\* listened to it: in the end no request is without, and none got two.  Excepted are
\* those under way when the server's process ended, which takes one handler that
\* throws, of whichever request.
RequestsAreAnswered ==
    <>[](\A r \in Requests :
            /\ requests[r].heads <= 1
            /\ requests[r].pc \in {"idle", "lost"} \/ requests[r].heads = 1)

\* "After receiving headers, wait for the response to finish with a secondary
\* timeout": an answer that has begun is finished.
AnswersEnd ==
    \A r \in Requests : requests[r].pc = "listen" ~> requests[r].pc \in {"over", "lost"}
=============================================================================
