------------------------- MODULE ProbeCommandsProofs -------------------------
(***************************************************************************)
(* Proofs about ProbeCommands, for any number of requests and of push      *)
(* handlers at a time: its type invariant, that neither road runs a        *)
(* command twice, and that a probe which uninstalled itself has its row    *)
(* stamped for the cleanup job.                                            *)
(***************************************************************************)
EXTENDS ProbeCommands, TLAPS

\* Ids are given once, and only to a row: what an action remembers of a row
\* that is gone never matches a later one.
IdsInv ==
    /\ row.id <= lastReg
    /\ \A r \in Requests : reqs[r].id <= lastReg
    /\ \A h \in Pushes : pushes[h].id <= lastReg
    /\ row.id = 0 => row.pending = None /\ row.uninstalled = "unset"

\* A request that is not made yet has left no trace.
IdleInv ==
    \A r \in Requests :
        IF reqs[r].pc = "idle"
        THEN /\ row.pending # r
             /\ \A h \in Pushes : pushes[h].command # r
             /\ ran[r].ws = 0 /\ ran[r].http = 0
        ELSE reqs[r].id # 0

\* A command in the row is one that no reply has brought to the probe.
PendingInv ==
    \A r \in Requests :
        row.pending = r => reqs[r].id = row.id /\ ran[r].http = 0

\* A command in a handler was read from the row the handler works on, and is
\* out of it before the handler replies.
HandlerInv ==
    \A h \in Pushes :
        /\ pushes[h].pc = "clear" => pushes[h].command # None
        /\ pushes[h].pc \in {"free", "lookup", "insert", "refresh", "reread"}
              => pushes[h].command = None
        /\ pushes[h].command # None =>
              /\ pushes[h].id = reqs[pushes[h].command].id
              /\ pushes[h].pc \in {"reply", "replied"}
                    => row.pending # pushes[h].command

\* The probe waits for one response at a time.
WaitingInv ==
    /\ \A h \in Pushes : pushes[h].pc = "replied" => probe.waiting = h
    /\ probe.waiting # None =>
          LET p == pushes[probe.waiting]
          IN /\ p.via = "http" /\ p.pc # "free"
             /\ p.command # None => ran[p.command].http = 0

\* A request goes to the WebSocket once.
DownInv ==
    \A r \in Requests :
        /\ \A i \in DOMAIN down :
              Heeded(down[i]) = r => reqs[r].pc \in {"sent", "done"} /\ ran[r].ws = 0
        /\ \A i, j \in DOMAIN down :
              Heeded(down[i]) = r /\ Heeded(down[j]) = r => i = j
        /\ reqs[r].pc \in {"idle", "stored"} => ran[r].ws = 0

\* Where an uninstall has left the server, its row is stamped, or will be by
\* the request that is in the middle of sending it.
StampInv ==
    /\ \A h \in Pushes :
          /\ pushes[h].pc \in {"reply", "replied"} /\ pushes[h].command # None
          /\ Kind(pushes[h].command) = "uninstall" /\ row.id = pushes[h].id
          => row.uninstalled # "unset"
    /\ \A r \in Requests :
          /\ Kind(r) = "uninstall" /\ row.id = reqs[r].id
          /\ HasRun(r) \/ \E i \in DOMAIN down : Heeded(down[i]) = r
          => row.uninstalled # "unset" \/ reqs[r].pc = "sent"

IInv ==
    /\ TypeOK /\ IdsInv /\ IdleInv /\ PendingInv /\ HandlerInv
    /\ WaitingInv /\ DownInv /\ StampInv /\ OncePerRoad

-----------------------------------------------------------------------------
(* The type invariant is inductive by itself.                              *)

LEMMA ConsumedType ==
    ASSUME TypeOK, NEW id \in RegIds, NEW c \in Commands
    PROVE  Consumed(id, c) \in Rows
  BY DEF TypeOK, Consumed, Rows, Stamps, Commands

LEMMA FreeSlotType == FreeSlot \in PushStates
  BY BoundsAssumption DEF FreeSlot, PushStates, RegIds, Commands

LEMMA NoLinkType == NoLink \in Links
  BY BoundsAssumption DEF NoLink, Links, RegIds

LEMMA NoRowType == NoRow \in Rows
  BY BoundsAssumption DEF NoRow, Rows, RegIds, Commands, Stamps

LEMMA ThrowType ==
    ASSUME TypeOK, NEW h \in Pushes, Throw(h)
    PROVE  pushes' \in [Pushes -> PushStates]
  <1>1. CASE pushes[h].via = "http"
    BY <1>1 DEF TypeOK, Throw, PushStates, Commands
  <1>2. CASE pushes[h].via # "http"
    BY <1>2, FreeSlotType DEF TypeOK, Throw, Free
  <1>. QED  BY <1>1, <1>2

LEMMA StartPushType ==
    ASSUME TypeOK, NEW h \in Pushes, NEW via \in {"http", "ws"},
           NEW conn \in RegIds, StartPush(h, via, conn)
    PROVE  pushes' \in [Pushes -> PushStates]
  <1>1. [FreeSlot EXCEPT !.pc = "lookup", !.via = via, !.conn = conn] \in PushStates
    BY FreeSlotType DEF PushStates
  <1>. QED  BY <1>1 DEF TypeOK, StartPush

LEMMA HeededType ==
    ASSUME TypeOK, down # <<>>
    PROVE  /\ Head(down) \in Messages
           /\ Tail(down) \in Seq(Messages)
           /\ Heeded(Head(down)) \in Commands
  <1>1. Head(down) \in Messages /\ Tail(down) \in Seq(Messages)
    BY DEF TypeOK
  <1>. QED  BY <1>1 DEF Heeded, Messages, Commands

LEMMA ModesType ==
    ASSUME TypeOK, NEW c \in Commands, NEW S \in SUBSET {"boot", "http", "ws", "gone"}
    PROVE  /\ ModesAfter(c, S) \subseteq {"boot", "http", "ws", "gone"}
           /\ NextModes \subseteq {"boot", "http", "ws", "gone"}
           /\ Broken \subseteq Links
  <1>1. ModesAfter(c, S) \subseteq {"boot", "http", "ws", "gone"}
    <2>1. CASE c = None  BY <2>1 DEF ModesAfter
    <2>2. CASE c # None
      <3>1. Kind(c) \in {"rescan", "update", "uninstall"}
        BY <2>2, KindsAssumption DEF TypeOK, Kind, Commands, RequestStates
      <3>. QED  BY <2>2, <3>1 DEF ModesAfter
    <2>. QED  BY <2>1, <2>2
  <1>2. NextModes \subseteq {"boot", "http", "ws", "gone"}
    BY DEF TypeOK, NextModes, Probes
  <1>3. Broken \subseteq Links
    BY NoLinkType DEF TypeOK, Broken, Links
  <1>. QED  BY <1>1, <1>2, <1>3

LEMMA CountedType ==
    ASSUME TypeOK, NEW r \in Requests
    PROVE  /\ [ran EXCEPT ![r].ws = @ + 1] \in [Requests -> Runs]
           /\ [ran EXCEPT ![r].http = @ + 1] \in [Requests -> Runs]
  <1>1. ran[r].ws + 1 \in Nat /\ ran[r].http + 1 \in Nat
    BY DEF TypeOK, Runs
  <1>. QED  BY <1>1 DEF TypeOK, Runs

LEMMA TypeInit == Init => TypeOK
  <1>. SUFFICES ASSUME Init PROVE TypeOK
    OBVIOUS
  <1>. USE BoundsAssumption DEF Init, RegIds
  <1>1. row \in Rows /\ link \in Links /\ lastReg \in RegIds
    BY NoRowType, NoLinkType
  <1>2. reqs \in [Requests -> RequestStates]
    BY DEF RequestStates
  <1>3. pushes \in [Pushes -> PushStates]
    BY FreeSlotType
  <1>4. probe \in Probes
    BY DEF Probes
  <1>5. down \in Seq(Messages) /\ ran \in [Requests -> Runs]
    BY DEF Runs
  <1>. QED  BY <1>1, <1>2, <1>3, <1>4, <1>5 DEF TypeOK

LEMMA TypeNext == TypeOK /\ [Next]_vars => TypeOK'
  <1>. SUFFICES ASSUME TypeOK, [Next]_vars PROVE TypeOK'
    OBVIOUS
  <1>1. ASSUME NEW r \in Requests, Send(r) PROVE TypeOK'
    <2>1. CASE SendStore(r)
      BY <2>1 DEF TypeOK, SendStore, RequestStates, Rows, Commands
    <2>2. CASE SendOverWs(r)
      <3>1. [type |-> "command", command |-> r] \in Messages
        BY DEF Messages, Commands
      <3>. QED
        BY <2>2, <3>1 DEF TypeOK, SendOverWs, SendToProbe, RequestStates
    <2>3. CASE SendLeaveQueued(r)
      BY <2>3 DEF TypeOK, SendLeaveQueued, RequestStates
    <2>4. CASE SendClear(r)
      <3>1. reqs[r].id \in RegIds  BY DEF TypeOK, RequestStates
      <3>2. Consumed(reqs[r].id, r) \in Rows  BY <3>1, ConsumedType DEF Commands
      <3>. QED  BY <2>4, <3>2 DEF TypeOK, SendClear, RequestStates
    <2>. QED  BY <1>1, <2>1, <2>2, <2>3, <2>4 DEF Send
  <1>2. ASSUME NEW h \in Pushes, HandlePush(h) PROVE TypeOK'
    <2>1. CASE PushLookup(h)
      <3>. DEFINE pc == IF row.id = 0 THEN "insert" ELSE "refresh"
      <3>1. pc \in {"insert", "refresh"} /\ row.id \in RegIds
        BY DEF TypeOK, Rows
      <3>2. pushes' = [pushes EXCEPT ![h].pc = pc, ![h].id = row.id]
        BY <2>1 DEF PushLookup
      <3>. HIDE DEF pc
      <3>3. [pushes[h] EXCEPT !.pc = pc, !.id = row.id] \in PushStates
        BY <3>1 DEF TypeOK, PushStates
      <3>4. pushes' = [pushes EXCEPT ![h] = [pushes[h] EXCEPT !.pc = pc, !.id = row.id]]
        BY <3>2
      <3>5. pushes' \in [Pushes -> PushStates]
        BY <3>3, <3>4 DEF TypeOK
      <3>. QED  BY <2>1, <3>5 DEF TypeOK, PushLookup
    <2>2. CASE PushRegister(h)
      <3>1. lastReg + 1 \in RegIds
        BY <2>2, BoundsAssumption DEF TypeOK, PushRegister, RegIds
      <3>2. FreshRow(lastReg + 1) \in Rows
        BY <3>1, NoRowType DEF FreshRow, Rows
      <3>3. [pushes[h] EXCEPT !.pc = "reply", !.id = lastReg + 1] \in PushStates
        BY <3>1 DEF TypeOK, PushStates
      <3>4. pushes' = [pushes EXCEPT ![h] =
                          [pushes[h] EXCEPT !.pc = "reply", !.id = lastReg + 1]]
        BY <2>2 DEF PushRegister
      <3>5. pushes' \in [Pushes -> PushStates]
        BY <3>3, <3>4 DEF TypeOK
      <3>. QED  BY <2>2, <3>1, <3>2, <3>5 DEF TypeOK, PushRegister
    <2>3. CASE PushRegisterConflict(h)
      BY <2>3, ThrowType DEF TypeOK, PushRegisterConflict
    <2>4. CASE PushRefresh(h)
      BY <2>4 DEF TypeOK, PushRefresh, Goto, PushStates
    <2>5. CASE PushReread(h)
      <3>. DEFINE pc == IF row.pending = None THEN "reply" ELSE "clear"
      <3>1. pc \in {"reply", "clear"} /\ row.pending \in Commands
        BY DEF TypeOK, Rows
      <3>2. pushes' = [pushes EXCEPT ![h].pc = pc, ![h].command = row.pending]
        BY <2>5 DEF PushReread
      <3>. HIDE DEF pc
      <3>3. [pushes[h] EXCEPT !.pc = pc, !.command = row.pending] \in PushStates
        BY <3>1 DEF TypeOK, PushStates
      <3>4. pushes' = [pushes EXCEPT ![h] =
                          [pushes[h] EXCEPT !.pc = pc, !.command = row.pending]]
        BY <3>2
      <3>5. pushes' \in [Pushes -> PushStates]
        BY <3>3, <3>4 DEF TypeOK
      <3>. QED  BY <2>5, <3>5 DEF TypeOK, PushReread
    <2>6. CASE PushRereadGone(h)  BY <2>6, ThrowType DEF TypeOK, PushRereadGone
    <2>7. CASE PushClear(h)
      <3>1. pushes[h].id \in RegIds /\ pushes[h].command \in Commands
        BY DEF TypeOK, PushStates
      <3>2. Consumed(pushes[h].id, pushes[h].command) \in Rows
        BY <3>1, ConsumedType
      <3>. QED  BY <2>7, <3>2 DEF TypeOK, PushClear, Goto, PushStates
    <2>8. CASE PushReplyHttp(h)
      BY <2>8 DEF TypeOK, PushReplyHttp, Goto, PushStates
    <2>9. CASE PushReplyNobody(h)
      BY <2>9, FreeSlotType DEF TypeOK, PushReplyNobody, Free
    <2>10. CASE PushReplyWs(h)
      <3>1. [type |-> "config", command |-> pushes[h].command] \in Messages
        BY DEF TypeOK, Messages, PushStates
      <3>. QED
        BY <2>10, <3>1, FreeSlotType DEF TypeOK, PushReplyWs, SendToProbe, Free
    <2>. QED
      BY <1>2, <2>1, <2>2, <2>3, <2>4, <2>5, <2>6, <2>7, <2>8, <2>9, <2>10
         DEF HandlePush
  <1>3. ASSUME NEW h \in Pushes, HttpPush(h) PROVE TypeOK'
    <2>1. 0 \in RegIds  BY BoundsAssumption DEF RegIds
    <2>. QED  BY <1>3, <2>1, StartPushType DEF TypeOK, HttpPush, Probes
  <1>4. ASSUME NEW h \in Pushes, HttpReceive(h) PROVE TypeOK'
    <2>1. pushes[h].command \in Commands  BY DEF TypeOK, PushStates
    <2>2. NextModes \subseteq {"boot", "http", "ws", "gone"}  BY <2>1, ModesType
    <2>3. ModesAfter(pushes[h].command, NextModes)
              \subseteq {"boot", "http", "ws", "gone"}
      BY <2>1, <2>2, ModesType
    <2>4. probe' \in Probes  BY <1>4, <2>3 DEF HttpReceive, Probes
    <2>5. pushes' \in [Pushes -> PushStates]
      BY <1>4, FreeSlotType DEF TypeOK, HttpReceive, Free
    <2>6. ran' \in [Requests -> Runs]
      BY <1>4, <2>1, CountedType DEF TypeOK, HttpReceive, Commands
    <2>. QED  BY <1>4, <2>4, <2>5, <2>6 DEF TypeOK, HttpReceive
  <1>5. ASSUME NEW h \in Pushes, WsPush(h) PROVE TypeOK'
    <2>1. link.id \in RegIds  BY DEF TypeOK, Links
    <2>. QED  BY <1>5, <2>1, StartPushType DEF TypeOK, WsPush
  <1>6. CASE AdminDelete  BY <1>6, NoRowType DEF TypeOK, AdminDelete
  <1>7. CASE TenMinutesPass
    BY <1>7 DEF TypeOK, TenMinutesPass, Rows, Stamps
  <1>8. CASE CleanupUninstalledProbes
    BY <1>8, NoRowType DEF TypeOK, CleanupUninstalledProbes
  <1>9. CASE WsConnect
    BY <1>9 DEF TypeOK, WsConnect, Links, Rows
  <1>10. CASE WsReceive
    <2>. DEFINE c == Heeded(Head(down))
    <2>1. c \in Commands /\ Tail(down) \in Seq(Messages)
      BY <1>10, HeededType DEF WsReceive
    <2>2. Broken \subseteq Links  BY <2>1, ModesType
    <2>3. ModesAfter(c, {"ws"}) \subseteq {"boot", "http", "ws", "gone"}
      BY <2>1, ModesType
    <2>4. probe' \in Probes
      <3>1. PICK m \in ModesAfter(c, {"ws"}) : probe' = [probe EXCEPT !.mode = m]
        BY <1>10 DEF WsReceive
      <3>. HIDE DEF c
      <3>. QED  BY <2>3, <3>1 DEF TypeOK, Probes
    <2>5. down' \in Seq(Messages) /\ link' \in Links
      <3>1. PICK m \in ModesAfter(c, {"ws"}) :
                IF m = "ws"
                THEN down' = Tail(down) /\ UNCHANGED link
                ELSE down' = <<>> /\ link' \in Broken
        BY <1>10 DEF WsReceive
      <3>. HIDE DEF c
      <3>2. CASE m = "ws"  BY <2>1, <3>1, <3>2 DEF TypeOK
      <3>3. CASE m # "ws"
        <4>1. <<>> \in Seq(Messages)  OBVIOUS
        <4>. QED  BY <2>2, <3>1, <3>3, <4>1
      <3>. QED  BY <3>2, <3>3
    <2>6. ran' \in [Requests -> Runs]
      <3>1. ran' = IF c = None THEN ran ELSE [ran EXCEPT ![c].ws = @ + 1]
        BY <1>10 DEF WsReceive
      <3>. HIDE DEF c
      <3>. QED  BY <2>1, <3>1, CountedType DEF TypeOK, Commands
    <2>. QED  BY <1>10, <2>4, <2>5, <2>6 DEF TypeOK, WsReceive
  <1>11. CASE HttpGiveUp
    <2>1. NextModes \subseteq {"boot", "http", "ws", "gone"}
      BY ModesType DEF Commands
    <2>2. probe' \in Probes  BY <1>11, <2>1 DEF HttpGiveUp, Probes
    <2>3. pushes' \in [Pushes -> PushStates]
      BY <1>11, FreeSlotType DEF TypeOK, HttpGiveUp, Free
    <2>. QED  BY <1>11, <2>2, <2>3 DEF TypeOK, HttpGiveUp
  <1>12. CASE WsBreaks
    <2>1. Broken \subseteq Links  BY ModesType DEF Commands
    <2>. QED  BY <1>12, <2>1 DEF TypeOK, WsBreaks
  <1>13. CASE ServerNoticesBreak
    BY <1>13, NoLinkType DEF TypeOK, ServerNoticesBreak
  <1>14. CASE Restart
    <2>1. Broken \subseteq Links  BY ModesType DEF Commands
    <2>2. probe' \in Probes  BY <1>14 DEF Restart, Probes
    <2>3. pushes' \in [Pushes -> PushStates]
      BY <1>14, FreeSlotType DEF TypeOK, Restart, Free
    <2>. QED  BY <1>14, <2>1, <2>2, <2>3 DEF TypeOK, Restart
  <1>15. CASE UNCHANGED vars  BY <1>15 DEF TypeOK, vars
  <1>. QED
    BY <1>1, <1>2, <1>3, <1>4, <1>5, <1>6, <1>7, <1>8, <1>9, <1>10, <1>11,
       <1>12, <1>13, <1>14, <1>15 DEF Next, Work, Failure

\* Every variable keeps its type: each request, handler, message and the row
\* stay within the states the code gives them.
THEOREM TypeCorrect == Spec => []TypeOK
  <1>. QED  BY TypeInit, TypeNext, PTL DEF Spec

-----------------------------------------------------------------------------
(* What the helpers of the specification do to the fields.                 *)

\* The statement that consumes a command touches the row it names, if any.
LEMMA ConsumedEffect ==
    ASSUME TypeOK, NEW id \in RegIds, NEW c \in Commands, row' = Consumed(id, c)
    PROVE  /\ row'.id = row.id
           /\ row'.pending = IF row.id = id THEN None ELSE row.pending
           /\ row'.uninstalled = IF row.id = id /\ Kind(c) = "uninstall"
                                THEN "fresh" ELSE row.uninstalled
  BY DEF TypeOK, Consumed, Rows

LEMMA FreeSlotFields ==
    /\ FreeSlot.pc = "free" /\ FreeSlot.via = "http" /\ FreeSlot.id = 0
    /\ FreeSlot.command = None
  BY DEF FreeSlot

\* A handler that throws replies without a command, or ends.
LEMMA ThrowEffect ==
    ASSUME TypeOK, NEW h \in Pushes, Throw(h)
    PROVE  /\ \A k \in Pushes \ {h} : pushes'[k] = pushes[k]
           /\ pushes'[h].command = None
           /\ pushes'[h].id \in {pushes[h].id, 0}
           /\ \/ pushes'[h].pc = "reply" /\ pushes'[h].via = "http" /\ pushes[h].via = "http"
              \/ pushes'[h].pc = "free" /\ pushes[h].via # "http"
  <1>1. CASE pushes[h].via = "http"
    BY <1>1 DEF TypeOK, Throw, PushStates
  <1>2. CASE pushes[h].via # "http"
    BY <1>2, FreeSlotFields DEF TypeOK, Throw, Free
  <1>. QED  BY <1>1, <1>2

\* A client that gives up at most frees the slot of the response it ignores.
LEMMA GiveUpEffect ==
    ASSUME TypeOK, HttpGiveUp \/ Restart
    PROVE  \A h \in Pushes : pushes'[h] \in {pushes[h], FreeSlot}
  <1>1. CASE HttpGiveUp  BY <1>1 DEF TypeOK, HttpGiveUp, Free, Probes
  <1>2. CASE Restart  BY <1>2 DEF TypeOK, Restart, Free, Probes
  <1>. QED  BY <1>1, <1>2

\* The probe takes the first message, runs its command, and may end the link.
LEMMA ReceiveEffect ==
    ASSUME TypeOK, WsReceive
    PROVE  /\ 1 \in DOMAIN down
           /\ \A r \in Requests :
                /\ ran'[r].http = ran[r].http
                /\ ran'[r].ws = IF Heeded(down[1]) = r THEN ran[r].ws + 1 ELSE ran[r].ws
           /\ \A i \in DOMAIN down' : i + 1 \in DOMAIN down /\ down'[i] = down[i + 1]
           /\ UNCHANGED <<row, reqs, pushes>>
  <1>. DEFINE c == Heeded(Head(down))
  <1>1. 1 \in DOMAIN down /\ Head(down) = down[1]  BY DEF TypeOK, WsReceive
  <1>2. c \in Commands  BY HeededType DEF WsReceive
  <1>3. ran' = IF c = None THEN ran ELSE [ran EXCEPT ![c].ws = @ + 1]
    BY DEF WsReceive
  <1>4. \A r \in Requests :
            /\ ran'[r].http = ran[r].http
            /\ ran'[r].ws = IF c = r THEN ran[r].ws + 1 ELSE ran[r].ws
    <2>. HIDE DEF c
    <2>. QED  BY <1>2, <1>3, RequestsAssumption DEF TypeOK, Runs, Commands
  <1>5. PICK m \in ModesAfter(c, {"ws"}) :
            IF m = "ws" THEN down' = Tail(down) ELSE down' = <<>>
    BY DEF WsReceive
  <1>6. \A i \in DOMAIN down' : i + 1 \in DOMAIN down /\ down'[i] = down[i + 1]
    <2>. HIDE DEF c
    <2>1. CASE m = "ws"  BY <1>1, <1>5, <2>1 DEF TypeOK
    <2>2. CASE m # "ws"  BY <1>5, <2>2
    <2>. QED  BY <2>1, <2>2
  <1>7. UNCHANGED <<row, reqs, pushes>>  BY DEF WsReceive
  <1>. QED  BY <1>1, <1>4, <1>6, <1>7

\* The ids that commands on their way refer to have been given to a row.
LEMMA NonIdle ==
    ASSUME TypeOK, IdsInv, IdleInv, HandlerInv, DownInv
    PROVE  /\ \A r \in Requests :
                HasRun(r) \/ (\E i \in DOMAIN down : Heeded(down[i]) = r)
                => reqs[r].id \in 1 .. lastReg
           /\ \A h \in Pushes :
                pushes[h].command # None => pushes[h].id \in 1 .. lastReg
  <1>1. /\ lastReg \in Nat
        /\ \A r \in Requests :
              reqs[r].id \in Nat /\ ran[r].ws \in Nat /\ ran[r].http \in Nat
    BY DEF TypeOK, RegIds, RequestStates, Runs
  <1>2. \A h \in Pushes :
            pushes[h].command # None => pushes[h].command \in Requests
    BY DEF TypeOK, PushStates, Commands
  <1>. QED
    BY <1>1, <1>2 DEF IdsInv, IdleInv, HandlerInv, DownInv, HasRun

-----------------------------------------------------------------------------
(* Each part of the invariant, over every action.                          *)

LEMMA IdsNext == IInv /\ TypeOK' /\ [Next]_vars => IdsInv'
  <1>. SUFFICES ASSUME IInv, TypeOK', [Next]_vars PROVE IdsInv'
    OBVIOUS
  <1>. USE DEF IInv
  <1>1. ASSUME NEW r \in Requests, Send(r) PROVE IdsInv'
    <2>1. CASE SendStore(r)
      BY <2>1 DEF IdsInv, SendStore, TypeOK, RequestStates, PushStates,
         Rows
    <2>2. CASE SendOverWs(r)
      BY <2>2 DEF IdsInv, SendOverWs, SendToProbe
    <2>3. CASE SendLeaveQueued(r)
      BY <2>3 DEF IdsInv, SendLeaveQueued
    <2>4. CASE SendClear(r)
      <3>1. reqs[r].id \in RegIds /\ reqs[r].id # 0
        BY <2>4 DEF TypeOK, RequestStates, SendClear, IdleInv
      <3>2. row' = Consumed(reqs[r].id, r)  BY <2>4 DEF SendClear
      <3>3. \A q \in Requests : reqs'[q].id = reqs[q].id
        BY <2>4 DEF TypeOK, SendClear, RequestStates
      <3>5. UNCHANGED <<lastReg, pushes>>  BY <2>4 DEF SendClear
      <3>. QED  BY <3>1, <3>2, <3>3, <3>5, ConsumedEffect DEF IdsInv, Commands
    <2>. QED  BY <1>1, <2>1, <2>2, <2>3, <2>4 DEF Send
  <1>2. ASSUME NEW h \in Pushes, HandlePush(h) PROVE IdsInv'
    <2>1. CASE PushLookup(h)
      BY <2>1 DEF IdsInv, PushLookup, At, TypeOK, RequestStates,
         PushStates, Rows
    <2>2. CASE PushRegister(h)
      BY <2>2 DEF IdsInv, PushRegister, At, FreshRow, NoRow, TypeOK,
         RequestStates, PushStates, Rows, RegIds
    <2>3. CASE PushRegisterConflict(h)
      <3>1. UNCHANGED <<row, lastReg, reqs>> /\ Throw(h)
        BY <2>3 DEF PushRegisterConflict
      <3>2. lastReg \in Nat  BY DEF TypeOK, RegIds
      <3>. QED BY <3>1, <3>2, ThrowEffect DEF IdsInv
    <2>4. CASE PushRefresh(h)
      BY <2>4 DEF IdsInv, PushRefresh, At, Goto
    <2>5. CASE PushReread(h)
      BY <2>5 DEF IdsInv, PushReread, At, TypeOK, RequestStates,
         PushStates, Rows
    <2>6. CASE PushRereadGone(h)
      <3>1. UNCHANGED <<row, lastReg, reqs>> /\ Throw(h)
        BY <2>6 DEF PushRereadGone
      <3>2. lastReg \in Nat  BY DEF TypeOK, RegIds
      <3>. QED BY <3>1, <3>2, ThrowEffect DEF IdsInv
    <2>7. CASE PushClear(h)
      <3>. DEFINE c == pushes[h].command
      <3>1. pushes[h].id \in RegIds /\ c \in Requests /\ pushes[h].id = reqs[c].id
        BY <2>7 DEF TypeOK, PushStates, PushClear, HandlerInv, At, Commands
      <3>2. pushes[h].id # 0  BY <3>1 DEF IdleInv
      <3>3. row' = Consumed(pushes[h].id, c)  BY <2>7 DEF PushClear
      <3>4. \A k \in Pushes : pushes'[k].id = pushes[k].id
        BY <2>7 DEF TypeOK, PushClear, Goto, PushStates
      <3>5. UNCHANGED <<lastReg, reqs>>  BY <2>7 DEF PushClear
      <3>. QED
        BY <3>1, <3>2, <3>3, <3>4, <3>5, ConsumedEffect DEF IdsInv, Commands
    <2>8. CASE PushReplyHttp(h)
      BY <2>8 DEF IdsInv, PushReplyHttp, At, Goto
    <2>9. CASE PushReplyNobody(h)
      BY <2>9 DEF IdsInv, PushReplyNobody, At, Free, FreeSlot, TypeOK,
         RequestStates, PushStates, Rows, RegIds
    <2>10. CASE PushReplyWs(h)
      BY <2>10 DEF IdsInv, PushReplyWs, At, Free, FreeSlot, SendToProbe,
         TypeOK, RequestStates, PushStates, Rows, RegIds
    <2>. QED
      BY <1>2, <2>1, <2>2, <2>3, <2>4, <2>5, <2>6, <2>7, <2>8, <2>9, <2>10
         DEF HandlePush
  <1>3. ASSUME NEW h \in Pushes, HttpPush(h) \/ HttpReceive(h) \/ WsPush(h)
        PROVE  IdsInv'
    <2>1. CASE HttpPush(h)
      BY <2>1 DEF IdsInv, HttpPush, StartPush, At, FreeSlot, TypeOK,
         RequestStates, PushStates, Rows, RegIds
    <2>2. CASE HttpReceive(h)
      BY <2>2 DEF IdsInv, HttpReceive, At, Free, FreeSlot, TypeOK,
         RequestStates, PushStates, Rows, RegIds
    <2>3. CASE WsPush(h)
      BY <2>3 DEF IdsInv, WsPush, StartPush, At, FreeSlot, TypeOK,
         RequestStates, PushStates, Rows, RegIds
    <2>. QED  BY <1>3, <2>1, <2>2, <2>3
  <1>4. CASE AdminDelete
    BY <1>4 DEF IdsInv, AdminDelete, NoRow, TypeOK, RequestStates,
       PushStates, Rows, RegIds
  <1>5. CASE TenMinutesPass
    BY <1>5 DEF IdsInv, TenMinutesPass
  <1>6. CASE CleanupUninstalledProbes
    BY <1>6 DEF IdsInv, CleanupUninstalledProbes, NoRow, TypeOK,
       RequestStates, PushStates, Rows, RegIds
  <1>7. CASE WsConnect
    BY <1>7 DEF IdsInv, WsConnect
  <1>8. CASE WsReceive
    BY <1>8 DEF IdsInv, WsReceive
  <1>9. CASE HttpGiveUp
    <2>1. UNCHANGED <<row, lastReg, reqs>>  BY <1>9 DEF HttpGiveUp
    <2>2. lastReg \in Nat  BY DEF TypeOK, RegIds
    <2>. QED BY <1>9, <2>1, <2>2, GiveUpEffect, FreeSlotFields DEF IdsInv
  <1>10. CASE WsBreaks
    BY <1>10 DEF IdsInv, WsBreaks
  <1>11. CASE ServerNoticesBreak
    BY <1>11 DEF IdsInv, ServerNoticesBreak
  <1>12. CASE Restart
    <2>1. UNCHANGED <<row, lastReg, reqs>>  BY <1>12 DEF Restart
    <2>2. lastReg \in Nat  BY DEF TypeOK, RegIds
    <2>. QED BY <1>12, <2>1, <2>2, GiveUpEffect, FreeSlotFields DEF IdsInv
  <1>13. CASE UNCHANGED vars
    BY <1>13 DEF vars, IdsInv
  <1>. QED
    BY <1>1, <1>2, <1>3, <1>4, <1>5, <1>6, <1>7, <1>8, <1>9, <1>10, <1>11,
       <1>12, <1>13 DEF Next, Work, Failure

LEMMA IdleNext == IInv /\ TypeOK' /\ [Next]_vars => IdleInv'
  <1>. SUFFICES ASSUME IInv, TypeOK', [Next]_vars PROVE IdleInv'
    OBVIOUS
  <1>. USE DEF IInv
  <1>1. ASSUME NEW r \in Requests, Send(r) PROVE IdleInv'
    <2>1. CASE SendStore(r)
      BY <2>1 DEF IdleInv, SendStore, TypeOK, RequestStates, PushStates,
         Rows
    <2>2. CASE SendOverWs(r)
      BY <2>2 DEF IdleInv, SendOverWs, SendToProbe
    <2>3. CASE SendLeaveQueued(r)
      BY <2>3 DEF IdleInv, SendLeaveQueued
    <2>4. CASE SendClear(r)
      BY <2>4, RequestsAssumption DEF IdleInv, SendClear, Consumed,
         TypeOK, RequestStates, PushStates, Rows, Commands, Runs
    <2>. QED  BY <1>1, <2>1, <2>2, <2>3, <2>4 DEF Send
  <1>2. ASSUME NEW h \in Pushes, HandlePush(h) PROVE IdleInv'
    <2>1. CASE PushLookup(h)
      BY <2>1 DEF IdleInv, PushLookup, At, TypeOK, RequestStates,
         PushStates, Rows
    <2>2. CASE PushRegister(h)
      BY <2>2, RequestsAssumption DEF IdleInv, PushRegister, At,
         FreshRow, NoRow, TypeOK, RequestStates, PushStates, Rows,
         Commands, Runs
    <2>3. CASE PushRegisterConflict(h)
      BY <2>3, RequestsAssumption DEF IdleInv, PushRegisterConflict, At,
         Throw, Free, FreeSlot, TypeOK, RequestStates, PushStates, Rows,
         Commands, Runs
    <2>4. CASE PushRefresh(h)
      BY <2>4 DEF IdleInv, PushRefresh, At, Goto
    <2>5. CASE PushReread(h)
      BY <2>5 DEF IdleInv, PushReread, At, TypeOK, RequestStates,
         PushStates, Rows
    <2>6. CASE PushRereadGone(h)
      <3>1. UNCHANGED <<row, reqs, ran>> /\ Throw(h)  BY <2>6 DEF PushRereadGone
      <3>. QED BY <3>1, RequestsAssumption, ThrowEffect DEF IdleInv
    <2>7. CASE PushClear(h)
      BY <2>7, RequestsAssumption DEF IdleInv, PushClear, At, Goto,
         Consumed, TypeOK, RequestStates, PushStates, Rows, Commands,
         Runs
    <2>8. CASE PushReplyHttp(h)
      BY <2>8 DEF IdleInv, PushReplyHttp, At, Goto
    <2>9. CASE PushReplyNobody(h)
      BY <2>9, RequestsAssumption DEF IdleInv, PushReplyNobody, At,
         Free, FreeSlot, TypeOK, RequestStates, PushStates, Rows,
         Commands, Runs
    <2>10. CASE PushReplyWs(h)
      BY <2>10, RequestsAssumption DEF IdleInv, PushReplyWs, At, Free,
         FreeSlot, SendToProbe, TypeOK, RequestStates, PushStates, Rows,
         Commands, Runs
    <2>. QED
      BY <1>2, <2>1, <2>2, <2>3, <2>4, <2>5, <2>6, <2>7, <2>8, <2>9, <2>10
         DEF HandlePush
  <1>3. ASSUME NEW h \in Pushes, HttpPush(h) \/ HttpReceive(h) \/ WsPush(h)
        PROVE  IdleInv'
    <2>1. CASE HttpPush(h)
      BY <2>1, RequestsAssumption DEF IdleInv, HttpPush, StartPush, At,
         FreeSlot, TypeOK, RequestStates, PushStates, Rows, Commands,
         Runs
    <2>2. CASE HttpReceive(h)
      BY <2>2, RequestsAssumption DEF IdleInv, HttpReceive, At, Free,
         FreeSlot, TypeOK, RequestStates, PushStates, Rows, Commands,
         Runs
    <2>3. CASE WsPush(h)
      BY <2>3, RequestsAssumption DEF IdleInv, WsPush, StartPush, At,
         FreeSlot, TypeOK, RequestStates, PushStates, Rows, Commands,
         Runs
    <2>. QED  BY <1>3, <2>1, <2>2, <2>3
  <1>4. CASE AdminDelete
    BY <1>4, RequestsAssumption DEF IdleInv, AdminDelete, NoRow, TypeOK,
       RequestStates, PushStates, Rows, Commands, Runs
  <1>5. CASE TenMinutesPass
    BY <1>5 DEF IdleInv, TenMinutesPass
  <1>6. CASE CleanupUninstalledProbes
    BY <1>6, RequestsAssumption DEF IdleInv, CleanupUninstalledProbes,
       NoRow, TypeOK, RequestStates, PushStates, Rows, Commands, Runs
  <1>7. CASE WsConnect
    BY <1>7 DEF IdleInv, WsConnect
  <1>8. CASE WsReceive
    <2>1. \A r \in Requests : reqs[r].pc = "idle" => Heeded(down[1]) # r
      BY <1>8, ReceiveEffect DEF DownInv
    <2>. QED  BY <1>8, <2>1, ReceiveEffect DEF IdleInv
  <1>9. CASE HttpGiveUp
    <2>1. UNCHANGED <<row, reqs, ran>>  BY <1>9 DEF HttpGiveUp
    <2>. QED
      BY <1>9, <2>1, RequestsAssumption, GiveUpEffect, FreeSlotFields DEF IdleInv
  <1>10. CASE WsBreaks
    BY <1>10 DEF IdleInv, WsBreaks
  <1>11. CASE ServerNoticesBreak
    BY <1>11 DEF IdleInv, ServerNoticesBreak
  <1>12. CASE Restart
    <2>1. UNCHANGED <<row, reqs, ran>>  BY <1>12 DEF Restart
    <2>. QED
      BY <1>12, <2>1, RequestsAssumption, GiveUpEffect, FreeSlotFields DEF IdleInv
  <1>13. CASE UNCHANGED vars
    BY <1>13 DEF vars, IdleInv
  <1>. QED
    BY <1>1, <1>2, <1>3, <1>4, <1>5, <1>6, <1>7, <1>8, <1>9, <1>10, <1>11,
       <1>12, <1>13 DEF Next, Work, Failure

LEMMA PendingNext == IInv /\ TypeOK' /\ [Next]_vars => PendingInv'
  <1>. SUFFICES ASSUME IInv, TypeOK', [Next]_vars PROVE PendingInv'
    OBVIOUS
  <1>. USE DEF IInv
  <1>1. ASSUME NEW r \in Requests, Send(r) PROVE PendingInv'
    <2>1. CASE SendStore(r)
      BY <2>1, RequestsAssumption DEF PendingInv, IdleInv, SendStore,
         TypeOK, Rows, RequestStates, PushStates, Commands, Runs
    <2>2. CASE SendOverWs(r)
      BY <2>2 DEF PendingInv, SendOverWs, SendToProbe
    <2>3. CASE SendLeaveQueued(r)
      BY <2>3 DEF PendingInv, SendLeaveQueued
    <2>4. CASE SendClear(r)
      BY <2>4, RequestsAssumption DEF PendingInv, SendClear, Consumed,
         TypeOK, Rows, RequestStates, PushStates, Commands, Runs
    <2>. QED  BY <1>1, <2>1, <2>2, <2>3, <2>4 DEF Send
  <1>2. ASSUME NEW h \in Pushes, HandlePush(h) PROVE PendingInv'
    <2>1. CASE PushLookup(h)
      BY <2>1 DEF PendingInv, PushLookup, At
    <2>2. CASE PushRegister(h)
      BY <2>2, RequestsAssumption DEF PendingInv, PushRegister, At,
         FreshRow, NoRow, TypeOK, Rows, RequestStates, PushStates,
         Commands, Runs
    <2>3. CASE PushRegisterConflict(h)
      BY <2>3 DEF PendingInv, PushRegisterConflict, At, Throw, Free,
         FreeSlot
    <2>4. CASE PushRefresh(h)
      BY <2>4 DEF PendingInv, PushRefresh, At, Goto
    <2>5. CASE PushReread(h)
      BY <2>5 DEF PendingInv, PushReread, At
    <2>6. CASE PushRereadGone(h)
      BY <2>6 DEF PendingInv, PushRereadGone, At, Throw, Free, FreeSlot
    <2>7. CASE PushClear(h)
      BY <2>7, RequestsAssumption DEF PendingInv, PushClear, At, Goto,
         Consumed, TypeOK, Rows, RequestStates, PushStates, Commands,
         Runs
    <2>8. CASE PushReplyHttp(h)
      BY <2>8 DEF PendingInv, PushReplyHttp, At, Goto
    <2>9. CASE PushReplyNobody(h)
      BY <2>9 DEF PendingInv, PushReplyNobody, At, Free, FreeSlot
    <2>10. CASE PushReplyWs(h)
      BY <2>10 DEF PendingInv, PushReplyWs, At, Free, FreeSlot,
         SendToProbe
    <2>. QED
      BY <1>2, <2>1, <2>2, <2>3, <2>4, <2>5, <2>6, <2>7, <2>8, <2>9, <2>10
         DEF HandlePush
  <1>3. ASSUME NEW h \in Pushes, HttpPush(h) \/ HttpReceive(h) \/ WsPush(h)
        PROVE  PendingInv'
    <2>1. CASE HttpPush(h)
      BY <2>1 DEF PendingInv, HttpPush, StartPush, At, FreeSlot
    <2>2. CASE HttpReceive(h)
      BY <2>2, RequestsAssumption DEF PendingInv, IdleInv, IdsInv,
         HandlerInv, HttpReceive, At, Free, FreeSlot, TypeOK, Rows,
         RequestStates, PushStates, Commands, Runs
    <2>3. CASE WsPush(h)
      BY <2>3 DEF PendingInv, WsPush, StartPush, At, FreeSlot
    <2>. QED  BY <1>3, <2>1, <2>2, <2>3
  <1>4. CASE AdminDelete
    BY <1>4, RequestsAssumption DEF PendingInv, AdminDelete, NoRow,
       TypeOK, Rows, RequestStates, PushStates, Commands, Runs
  <1>5. CASE TenMinutesPass
    BY <1>5 DEF PendingInv, TenMinutesPass
  <1>6. CASE CleanupUninstalledProbes
    BY <1>6, RequestsAssumption DEF PendingInv, CleanupUninstalledProbes,
       NoRow, TypeOK, Rows, RequestStates, PushStates, Commands, Runs
  <1>7. CASE WsConnect
    BY <1>7 DEF PendingInv, WsConnect
  <1>8. CASE WsReceive
    BY <1>8 DEF PendingInv, WsReceive
  <1>9. CASE HttpGiveUp
    BY <1>9 DEF PendingInv, HttpGiveUp, At, Free, FreeSlot
  <1>10. CASE WsBreaks
    BY <1>10 DEF PendingInv, WsBreaks
  <1>11. CASE ServerNoticesBreak
    BY <1>11 DEF PendingInv, ServerNoticesBreak
  <1>12. CASE Restart
    BY <1>12 DEF PendingInv, Restart, At, Free, FreeSlot
  <1>13. CASE UNCHANGED vars
    BY <1>13 DEF vars, PendingInv
  <1>. QED
    BY <1>1, <1>2, <1>3, <1>4, <1>5, <1>6, <1>7, <1>8, <1>9, <1>10, <1>11,
       <1>12, <1>13 DEF Next, Work, Failure

LEMMA HandlerNext == IInv /\ TypeOK' /\ [Next]_vars => HandlerInv'
  <1>. SUFFICES ASSUME IInv, TypeOK', [Next]_vars PROVE HandlerInv'
    OBVIOUS
  <1>. USE DEF IInv
  <1>1. ASSUME NEW r \in Requests, Send(r) PROVE HandlerInv'
    <2>1. CASE SendStore(r)
      BY <2>1, RequestsAssumption DEF HandlerInv, PendingInv, IdleInv,
         IdsInv, SendStore, TypeOK, Rows, RequestStates, PushStates,
         Commands
    <2>2. CASE SendOverWs(r)
      BY <2>2 DEF HandlerInv, SendOverWs, SendToProbe
    <2>3. CASE SendLeaveQueued(r)
      BY <2>3 DEF HandlerInv, SendLeaveQueued
    <2>4. CASE SendClear(r)
      BY <2>4 DEF HandlerInv, SendClear, Consumed
    <2>. QED  BY <1>1, <2>1, <2>2, <2>3, <2>4 DEF Send
  <1>2. ASSUME NEW h \in Pushes, HandlePush(h) PROVE HandlerInv'
    <2>1. CASE PushLookup(h)
      BY <2>1 DEF HandlerInv, PushLookup, At, TypeOK, Rows,
         RequestStates, PushStates
    <2>2. CASE PushRegister(h)
      BY <2>2 DEF HandlerInv, PushRegister, At, FreshRow, NoRow, TypeOK,
         Rows, RequestStates, PushStates
    <2>3. CASE PushRegisterConflict(h)
      BY <2>3, RequestsAssumption DEF HandlerInv, PushRegisterConflict,
         At, Throw, Free, FreeSlot, TypeOK, Rows, RequestStates,
         PushStates, Commands
    <2>4. CASE PushRefresh(h)
      BY <2>4 DEF HandlerInv, PushRefresh, At, Goto
    <2>5. CASE PushReread(h)
      BY <2>5 DEF HandlerInv, PushReread, At, TypeOK, Rows,
         RequestStates, PushStates
    <2>6. CASE PushRereadGone(h)
      BY <2>6 DEF HandlerInv, PushRereadGone, At, Throw, Free, FreeSlot,
         TypeOK, Rows, RequestStates, PushStates
    <2>7. CASE PushClear(h)
      BY <2>7, RequestsAssumption DEF HandlerInv, PendingInv, PushClear,
         At, Goto, Consumed, TypeOK, Rows, RequestStates, PushStates,
         Commands
    <2>8. CASE PushReplyHttp(h)
      BY <2>8 DEF HandlerInv, PushReplyHttp, At, Goto
    <2>9. CASE PushReplyNobody(h)
      BY <2>9 DEF HandlerInv, PushReplyNobody, At, Free, FreeSlot
    <2>10. CASE PushReplyWs(h)
      BY <2>10 DEF HandlerInv, PushReplyWs, At, Free, FreeSlot,
         SendToProbe
    <2>. QED
      BY <1>2, <2>1, <2>2, <2>3, <2>4, <2>5, <2>6, <2>7, <2>8, <2>9, <2>10
         DEF HandlePush
  <1>3. ASSUME NEW h \in Pushes, HttpPush(h) \/ HttpReceive(h) \/ WsPush(h)
        PROVE  HandlerInv'
    <2>1. CASE HttpPush(h)
      BY <2>1 DEF HandlerInv, HttpPush, StartPush, At, FreeSlot
    <2>2. CASE HttpReceive(h)
      BY <2>2 DEF HandlerInv, HttpReceive, At, Free, FreeSlot
    <2>3. CASE WsPush(h)
      BY <2>3 DEF HandlerInv, WsPush, StartPush, At, FreeSlot
    <2>. QED  BY <1>3, <2>1, <2>2, <2>3
  <1>4. CASE AdminDelete
    BY <1>4 DEF HandlerInv, AdminDelete, NoRow
  <1>5. CASE TenMinutesPass
    BY <1>5 DEF HandlerInv, TenMinutesPass
  <1>6. CASE CleanupUninstalledProbes
    BY <1>6 DEF HandlerInv, CleanupUninstalledProbes, NoRow
  <1>7. CASE WsConnect
    BY <1>7 DEF HandlerInv, WsConnect
  <1>8. CASE WsReceive
    BY <1>8 DEF HandlerInv, WsReceive
  <1>9. CASE HttpGiveUp
    BY <1>9 DEF HandlerInv, HttpGiveUp, At, Free, FreeSlot, TypeOK, Rows,
       RequestStates, PushStates
  <1>10. CASE WsBreaks
    BY <1>10 DEF HandlerInv, WsBreaks
  <1>11. CASE ServerNoticesBreak
    BY <1>11 DEF HandlerInv, ServerNoticesBreak
  <1>12. CASE Restart
    BY <1>12 DEF HandlerInv, Restart, At, Free, FreeSlot, TypeOK, Rows,
       RequestStates, PushStates
  <1>13. CASE UNCHANGED vars
    BY <1>13 DEF vars, HandlerInv
  <1>. QED
    BY <1>1, <1>2, <1>3, <1>4, <1>5, <1>6, <1>7, <1>8, <1>9, <1>10, <1>11,
       <1>12, <1>13 DEF Next, Work, Failure

LEMMA WaitingNext == IInv /\ TypeOK' /\ [Next]_vars => WaitingInv'
  <1>. SUFFICES ASSUME IInv, TypeOK', [Next]_vars PROVE WaitingInv'
    OBVIOUS
  <1>. USE DEF IInv
  <1>1. ASSUME NEW r \in Requests, Send(r) PROVE WaitingInv'
    <2>1. CASE SendStore(r)
      BY <2>1 DEF WaitingInv, SendStore
    <2>2. CASE SendOverWs(r)
      BY <2>2 DEF WaitingInv, SendOverWs, SendToProbe
    <2>3. CASE SendLeaveQueued(r)
      BY <2>3 DEF WaitingInv, SendLeaveQueued
    <2>4. CASE SendClear(r)
      BY <2>4 DEF WaitingInv, SendClear, Consumed
    <2>. QED  BY <1>1, <2>1, <2>2, <2>3, <2>4 DEF Send
  <1>2. ASSUME NEW h \in Pushes, HandlePush(h) PROVE WaitingInv'
    <2>1. CASE PushLookup(h)
      BY <2>1 DEF WaitingInv, PushLookup, At, TypeOK, Rows, PushStates,
         Probes
    <2>2. CASE PushRegister(h)
      BY <2>2 DEF WaitingInv, PushRegister, At, FreshRow, NoRow, TypeOK,
         Rows, PushStates, Probes
    <2>3. CASE PushRegisterConflict(h)
      BY <2>3 DEF WaitingInv, PushRegisterConflict, At, Throw, Free,
         FreeSlot, TypeOK, Rows, PushStates, Probes
    <2>4. CASE PushRefresh(h)
      BY <2>4 DEF WaitingInv, PushRefresh, At, Goto
    <2>5. CASE PushReread(h)
      BY <2>5 DEF WaitingInv, PushReread, At, TypeOK, Rows, PushStates,
         Probes
    <2>6. CASE PushRereadGone(h)
      <3>1. UNCHANGED <<probe, ran>> /\ Throw(h)  BY <2>6 DEF PushRereadGone
      <3>2. probe.waiting \in Pushes \cup {None}  BY DEF TypeOK, Probes
      <3>. QED BY <3>1, <3>2, RequestsAssumption, ThrowEffect DEF WaitingInv
    <2>7. CASE PushClear(h)
      BY <2>7 DEF WaitingInv, PushClear, At, Goto, Consumed
    <2>8. CASE PushReplyHttp(h)
      BY <2>8 DEF WaitingInv, PushReplyHttp, At, Goto
    <2>9. CASE PushReplyNobody(h)
      BY <2>9 DEF WaitingInv, PushReplyNobody, At, Free, FreeSlot
    <2>10. CASE PushReplyWs(h)
      BY <2>10 DEF WaitingInv, PushReplyWs, At, Free, FreeSlot,
         SendToProbe
    <2>. QED
      BY <1>2, <2>1, <2>2, <2>3, <2>4, <2>5, <2>6, <2>7, <2>8, <2>9, <2>10
         DEF HandlePush
  <1>3. ASSUME NEW h \in Pushes, HttpPush(h) \/ HttpReceive(h) \/ WsPush(h)
        PROVE  WaitingInv'
    <2>1. CASE HttpPush(h)
      BY <2>1, RequestsAssumption DEF WaitingInv, HttpPush, StartPush,
         At, FreeSlot, TypeOK, Rows, PushStates, Probes, Commands, Runs
    <2>2. CASE HttpReceive(h)
      BY <2>2 DEF WaitingInv, HttpReceive, At, Free, FreeSlot, TypeOK,
         Rows, PushStates, Probes
    <2>3. CASE WsPush(h)
      BY <2>3 DEF WaitingInv, WsPush, StartPush, At, FreeSlot
    <2>. QED  BY <1>3, <2>1, <2>2, <2>3
  <1>4. CASE AdminDelete
    BY <1>4 DEF WaitingInv, AdminDelete, NoRow
  <1>5. CASE TenMinutesPass
    BY <1>5 DEF WaitingInv, TenMinutesPass
  <1>6. CASE CleanupUninstalledProbes
    BY <1>6 DEF WaitingInv, CleanupUninstalledProbes, NoRow
  <1>7. CASE WsConnect
    BY <1>7 DEF WaitingInv, WsConnect
  <1>8. CASE WsReceive
    BY <1>8 DEF WaitingInv, WsReceive
  <1>9. CASE HttpGiveUp
    BY <1>9 DEF WaitingInv, HttpGiveUp, At, Free, FreeSlot, TypeOK, Rows,
       PushStates, Probes
  <1>10. CASE WsBreaks
    BY <1>10 DEF WaitingInv, WsBreaks
  <1>11. CASE ServerNoticesBreak
    BY <1>11 DEF WaitingInv, ServerNoticesBreak
  <1>12. CASE Restart
    BY <1>12 DEF WaitingInv, Restart, At, Free, FreeSlot, TypeOK, Rows,
       PushStates, Probes
  <1>13. CASE UNCHANGED vars
    BY <1>13 DEF vars, WaitingInv
  <1>. QED
    BY <1>1, <1>2, <1>3, <1>4, <1>5, <1>6, <1>7, <1>8, <1>9, <1>10, <1>11,
       <1>12, <1>13 DEF Next, Work, Failure

LEMMA DownNext == IInv /\ TypeOK' /\ [Next]_vars => DownInv'
  <1>. SUFFICES ASSUME IInv, TypeOK', [Next]_vars PROVE DownInv'
    OBVIOUS
  <1>. USE DEF IInv
  <1>1. ASSUME NEW r \in Requests, Send(r) PROVE DownInv'
    <2>1. CASE SendStore(r)
      BY <2>1 DEF DownInv, SendStore, TypeOK, Heeded, RequestStates,
         Messages
    <2>2. CASE SendOverWs(r)
      BY <2>2 DEF DownInv, SendOverWs, SendToProbe, TypeOK, Heeded,
         RequestStates, Messages
    <2>3. CASE SendLeaveQueued(r)
      BY <2>3 DEF DownInv, SendLeaveQueued, Heeded
    <2>4. CASE SendClear(r)
      BY <2>4 DEF DownInv, SendClear, Consumed, Heeded
    <2>. QED  BY <1>1, <2>1, <2>2, <2>3, <2>4 DEF Send
  <1>2. ASSUME NEW h \in Pushes, HandlePush(h) PROVE DownInv'
    <2>1. CASE PushLookup(h)
      BY <2>1 DEF DownInv, PushLookup, At, Heeded
    <2>2. CASE PushRegister(h)
      BY <2>2 DEF DownInv, PushRegister, At, FreshRow, NoRow, Heeded
    <2>3. CASE PushRegisterConflict(h)
      BY <2>3 DEF DownInv, PushRegisterConflict, At, Throw, Free,
         FreeSlot, Heeded
    <2>4. CASE PushRefresh(h)
      BY <2>4 DEF DownInv, PushRefresh, At, Goto, Heeded
    <2>5. CASE PushReread(h)
      BY <2>5 DEF DownInv, PushReread, At, Heeded
    <2>6. CASE PushRereadGone(h)
      BY <2>6 DEF DownInv, PushRereadGone, At, Throw, Free, FreeSlot,
         Heeded
    <2>7. CASE PushClear(h)
      BY <2>7 DEF DownInv, PushClear, At, Goto, Consumed, Heeded
    <2>8. CASE PushReplyHttp(h)
      BY <2>8 DEF DownInv, PushReplyHttp, At, Goto, Heeded
    <2>9. CASE PushReplyNobody(h)
      BY <2>9 DEF DownInv, PushReplyNobody, At, Free, FreeSlot, Heeded
    <2>10. CASE PushReplyWs(h)
      BY <2>10, RequestsAssumption DEF DownInv, PushReplyWs, At, Free,
         FreeSlot, SendToProbe, TypeOK, Heeded, RequestStates, Messages,
         Commands, Runs
    <2>. QED
      BY <1>2, <2>1, <2>2, <2>3, <2>4, <2>5, <2>6, <2>7, <2>8, <2>9, <2>10
         DEF HandlePush
  <1>3. ASSUME NEW h \in Pushes, HttpPush(h) \/ HttpReceive(h) \/ WsPush(h)
        PROVE  DownInv'
    <2>1. CASE HttpPush(h)
      BY <2>1 DEF DownInv, HttpPush, StartPush, At, FreeSlot, Heeded
    <2>2. CASE HttpReceive(h)
      BY <2>2 DEF DownInv, HttpReceive, At, Free, FreeSlot, Heeded
    <2>3. CASE WsPush(h)
      BY <2>3 DEF DownInv, WsPush, StartPush, At, FreeSlot, Heeded
    <2>. QED  BY <1>3, <2>1, <2>2, <2>3
  <1>4. CASE AdminDelete
    BY <1>4 DEF DownInv, AdminDelete, NoRow, Heeded
  <1>5. CASE TenMinutesPass
    BY <1>5 DEF DownInv, TenMinutesPass, Heeded
  <1>6. CASE CleanupUninstalledProbes
    BY <1>6 DEF DownInv, CleanupUninstalledProbes, NoRow, Heeded
  <1>7. CASE WsConnect
    BY <1>7 DEF DownInv, WsConnect, Heeded
  <1>8. CASE WsReceive
    <2>. SUFFICES ASSUME NEW r \in Requests
                  PROVE  /\ \A i \in DOMAIN down' :
                               Heeded(down'[i]) = r
                               => reqs'[r].pc \in {"sent", "done"} /\ ran'[r].ws = 0
                         /\ \A i, j \in DOMAIN down' :
                               Heeded(down'[i]) = r /\ Heeded(down'[j]) = r => i = j
                         /\ reqs'[r].pc \in {"idle", "stored"} => ran'[r].ws = 0
      BY DEF DownInv, Heeded
    <2>0. DOMAIN down \subseteq Nat /\ DOMAIN down' \subseteq Nat \ {0}
      BY DEF TypeOK
    <2>1. \A i \in DOMAIN down' : Heeded(down'[i]) = Heeded(down[i + 1]) /\ i + 1 # 1 /\ i \in Nat
      BY <1>8, <2>0, ReceiveEffect
    <2>2. \A i \in DOMAIN down' : Heeded(down'[i]) = r => Heeded(down[1]) # r
      BY <1>8, <2>1, ReceiveEffect DEF DownInv
    <2>3. \A i \in DOMAIN down' :
                Heeded(down'[i]) = r => reqs'[r].pc \in {"sent", "done"} /\ ran'[r].ws = 0
      BY <1>8, <2>1, <2>2, ReceiveEffect DEF DownInv
    <2>4. \A i, j \in DOMAIN down' :
                Heeded(down'[i]) = r /\ Heeded(down'[j]) = r => i = j
      <3>. TAKE i, j \in DOMAIN down'
      <3>. HAVE Heeded(down'[i]) = r /\ Heeded(down'[j]) = r
      <3>1. i + 1 = j + 1  BY <1>8, <2>1, ReceiveEffect DEF DownInv
      <3>. QED  BY <2>0, <3>1
    <2>5. reqs'[r].pc \in {"idle", "stored"} => ran'[r].ws = 0
      BY <1>8, ReceiveEffect DEF DownInv
    <2>. QED  BY <2>3, <2>4, <2>5
  <1>9. CASE HttpGiveUp
    BY <1>9 DEF DownInv, HttpGiveUp, At, Free, FreeSlot, Heeded
  <1>10. CASE WsBreaks
    BY <1>10 DEF DownInv, WsBreaks, Heeded
  <1>11. CASE ServerNoticesBreak
    BY <1>11 DEF DownInv, ServerNoticesBreak, Heeded
  <1>12. CASE Restart
    BY <1>12 DEF DownInv, Restart, At, Free, FreeSlot, Heeded
  <1>13. CASE UNCHANGED vars
    BY <1>13 DEF vars, DownInv, Heeded
  <1>. QED
    BY <1>1, <1>2, <1>3, <1>4, <1>5, <1>6, <1>7, <1>8, <1>9, <1>10, <1>11,
       <1>12, <1>13 DEF Next, Work, Failure

LEMMA StampNext == IInv /\ TypeOK' /\ [Next]_vars => StampInv'
  <1>. SUFFICES ASSUME IInv, TypeOK', [Next]_vars PROVE StampInv'
    OBVIOUS
  <1>. USE DEF IInv
  <1>1. ASSUME NEW r \in Requests, Send(r) PROVE StampInv'
    <2>1. CASE SendStore(r)
      <3>1. /\ UNCHANGED <<pushes, ran, down>>
            /\ row'.id = row.id /\ row'.uninstalled = row.uninstalled
        BY <2>1 DEF TypeOK, SendStore, Rows
      <3>2. \A q \in Requests : /\ HasRun(q)' <=> HasRun(q)
                                /\ Kind(q)' = Kind(q)
                                /\ q # r => reqs'[q] = reqs[q]
        BY <2>1, <3>1 DEF HasRun, TypeOK, RequestStates, SendStore, Kind
      <3>3. ~HasRun(r) /\ ~\E i \in DOMAIN down : Heeded(down[i]) = r
        <4>1. reqs[r].pc = "idle"  BY <2>1 DEF SendStore
        <4>2. ~HasRun(r)  BY <4>1 DEF HasRun, IdleInv
        <4>. QED  BY <4>1, <4>2 DEF DownInv
      <3>4. \A h \in Pushes : pushes[h].command # None
                 => Kind(pushes[h].command)' = Kind(pushes[h].command)
         BY <3>1, <3>2 DEF TypeOK, PushStates, Commands, Kind
      <3>. QED  BY <3>1, <3>2, <3>3, <3>4 DEF StampInv, Heeded
    <2>2. CASE SendOverWs(r)
      BY <2>2 DEF StampInv, SendOverWs, SendToProbe, TypeOK, Kind,
         HasRun, Heeded
    <2>3. CASE SendLeaveQueued(r)
      BY <2>3 DEF StampInv, SendLeaveQueued, Kind, HasRun, Heeded
    <2>4. CASE SendClear(r)
      BY <2>4 DEF StampInv, SendClear, Consumed, Kind, HasRun, Heeded
    <2>. QED  BY <1>1, <2>1, <2>2, <2>3, <2>4 DEF Send
  <1>2. ASSUME NEW h \in Pushes, HandlePush(h) PROVE StampInv'
    <2>1. CASE PushLookup(h)
      BY <2>1 DEF StampInv, PushLookup, At, TypeOK, Kind, HasRun, Heeded
    <2>2. CASE PushRegister(h)
      <3>1. UNCHANGED <<reqs, ran, down>> /\ row'.id = lastReg + 1
        BY <2>2 DEF PushRegister, FreshRow, NoRow
      <3>2. \A r \in Requests : HasRun(r)' <=> HasRun(r)  BY <3>1 DEF HasRun
      <3>3. \A k \in Pushes :
                /\ pushes'[k].command = pushes[k].command
                /\ pushes[k].command # None => pushes'[k].id = pushes[k].id
        BY <2>2 DEF TypeOK, PushRegister, PushStates, HandlerInv, At
      <3>4. lastReg \in Nat  BY DEF TypeOK, RegIds
      <3>. QED  BY <3>1, <3>2, <3>3, <3>4, NonIdle DEF StampInv, Kind, Heeded
    <2>3. CASE PushRegisterConflict(h)
      <3>1. UNCHANGED <<row, reqs, ran, down>> /\ Throw(h)
        BY <2>3 DEF PushRegisterConflict
      <3>. QED  BY <3>1, ThrowEffect DEF StampInv, Kind, HasRun, Heeded
    <2>4. CASE PushRefresh(h)
      BY <2>4 DEF StampInv, PushRefresh, At, Goto, Kind, HasRun, Heeded
    <2>5. CASE PushReread(h)
      BY <2>5 DEF StampInv, PushReread, At, TypeOK, Kind, HasRun, Heeded
    <2>6. CASE PushRereadGone(h)
      <3>1. UNCHANGED <<row, reqs, ran, down>> /\ Throw(h)
        BY <2>6 DEF PushRereadGone
      <3>. QED  BY <3>1, ThrowEffect DEF StampInv, Kind, HasRun, Heeded
    <2>7. CASE PushClear(h)
      BY <2>7 DEF StampInv, PushClear, At, Goto, Consumed, Kind, HasRun,
         Heeded
    <2>8. CASE PushReplyHttp(h)
      BY <2>8 DEF StampInv, PushReplyHttp, At, Goto, Kind, HasRun,
         Heeded
    <2>9. CASE PushReplyNobody(h)
      BY <2>9 DEF StampInv, PushReplyNobody, At, Free, FreeSlot, Kind,
         HasRun, Heeded
    <2>10. CASE PushReplyWs(h)
      BY <2>10, RequestsAssumption DEF StampInv, PushReplyWs, At, Free,
         FreeSlot, SendToProbe, TypeOK, Kind, HasRun, Heeded, Rows,
         RequestStates, PushStates, Stamps, Commands, Runs, Messages
    <2>. QED
      BY <1>2, <2>1, <2>2, <2>3, <2>4, <2>5, <2>6, <2>7, <2>8, <2>9, <2>10
         DEF HandlePush
  <1>3. ASSUME NEW h \in Pushes, HttpPush(h) \/ HttpReceive(h) \/ WsPush(h)
        PROVE  StampInv'
    <2>1. CASE HttpPush(h)
      BY <2>1 DEF StampInv, HttpPush, StartPush, At, FreeSlot, Kind,
         HasRun, Heeded
    <2>2. CASE HttpReceive(h)
      BY <2>2, RequestsAssumption DEF StampInv, HandlerInv, HttpReceive,
         At, Free, FreeSlot, TypeOK, Kind, HasRun, Heeded, Rows,
         RequestStates, PushStates, Stamps, Commands, Runs, Messages
    <2>3. CASE WsPush(h)
      BY <2>3 DEF StampInv, WsPush, StartPush, At, FreeSlot, Kind,
         HasRun, Heeded
    <2>. QED  BY <1>3, <2>1, <2>2, <2>3
  <1>4. CASE AdminDelete
    <2>1. UNCHANGED <<reqs, pushes, ran, down>> /\ row'.id = 0
      BY <1>4 DEF AdminDelete, NoRow
    <2>2. \A r \in Requests : HasRun(r)' <=> HasRun(r)  BY <2>1 DEF HasRun
    <2>. QED  BY <2>1, <2>2, NonIdle DEF StampInv, Kind, Heeded
  <1>5. CASE TenMinutesPass
    BY <1>5 DEF StampInv, TenMinutesPass, Kind, HasRun, Heeded
  <1>6. CASE CleanupUninstalledProbes
    <2>1. UNCHANGED <<reqs, pushes, ran, down>> /\ row'.id = 0
      BY <1>6 DEF CleanupUninstalledProbes, NoRow
    <2>2. \A r \in Requests : HasRun(r)' <=> HasRun(r)  BY <2>1 DEF HasRun
    <2>. QED  BY <2>1, <2>2, NonIdle DEF StampInv, Kind, Heeded
  <1>7. CASE WsConnect
    BY <1>7 DEF StampInv, WsConnect, Kind, HasRun, Heeded
  <1>8. CASE WsReceive
    <2>1. \A r \in Requests : HasRun(r)' => HasRun(r) \/ Heeded(down[1]) = r
      BY <1>8, ReceiveEffect DEF HasRun
    <2>2. \A r \in Requests, i \in DOMAIN down' : Heeded(down'[i]) = r => Heeded(down[i + 1]) = r
      BY <1>8, ReceiveEffect
    <2>3. \A r \in Requests :
            HasRun(r)' \/ (\E i \in DOMAIN down' : Heeded(down'[i]) = r)
              => HasRun(r) \/ (\E i \in DOMAIN down : Heeded(down[i]) = r)
      BY <1>8, <2>1, <2>2, ReceiveEffect
    <2>. QED  BY <1>8, <2>3, ReceiveEffect DEF StampInv, Kind, Heeded
  <1>9. CASE HttpGiveUp
    BY <1>9 DEF StampInv, HttpGiveUp, At, Free, FreeSlot, TypeOK, Kind,
       HasRun, Heeded
  <1>10. CASE WsBreaks
    BY <1>10 DEF StampInv, WsBreaks, Kind, HasRun, Heeded
  <1>11. CASE ServerNoticesBreak
    BY <1>11 DEF StampInv, ServerNoticesBreak, Kind, HasRun, Heeded
  <1>12. CASE Restart
    BY <1>12 DEF StampInv, Restart, At, Free, FreeSlot, TypeOK, Kind,
       HasRun, Heeded
  <1>13. CASE UNCHANGED vars
    BY <1>13 DEF vars, StampInv, Kind, HasRun, Heeded
  <1>. QED
    BY <1>1, <1>2, <1>3, <1>4, <1>5, <1>6, <1>7, <1>8, <1>9, <1>10, <1>11,
       <1>12, <1>13 DEF Next, Work, Failure

LEMMA OncePerRoadNext == IInv /\ TypeOK' /\ [Next]_vars => OncePerRoad'
  <1>. SUFFICES ASSUME IInv, TypeOK', [Next]_vars PROVE OncePerRoad'
    OBVIOUS
  <1>. USE DEF IInv
  <1>1. ASSUME NEW r \in Requests, Send(r) PROVE OncePerRoad'
    <2>1. CASE SendStore(r)
      BY <2>1 DEF OncePerRoad, SendStore
    <2>2. CASE SendOverWs(r)
      BY <2>2 DEF OncePerRoad, SendOverWs, SendToProbe
    <2>3. CASE SendLeaveQueued(r)
      BY <2>3 DEF OncePerRoad, SendLeaveQueued
    <2>4. CASE SendClear(r)
      BY <2>4 DEF OncePerRoad, SendClear, Consumed
    <2>. QED  BY <1>1, <2>1, <2>2, <2>3, <2>4 DEF Send
  <1>2. ASSUME NEW h \in Pushes, HandlePush(h) PROVE OncePerRoad'
    <2>1. CASE PushLookup(h)
      BY <2>1 DEF OncePerRoad, PushLookup, At
    <2>2. CASE PushRegister(h)
      BY <2>2 DEF OncePerRoad, PushRegister, At, FreshRow, NoRow
    <2>3. CASE PushRegisterConflict(h)
      BY <2>3 DEF OncePerRoad, PushRegisterConflict, At, Throw, Free,
         FreeSlot
    <2>4. CASE PushRefresh(h)
      BY <2>4 DEF OncePerRoad, PushRefresh, At, Goto
    <2>5. CASE PushReread(h)
      BY <2>5 DEF OncePerRoad, PushReread, At
    <2>6. CASE PushRereadGone(h)
      BY <2>6 DEF OncePerRoad, PushRereadGone, At, Throw, Free, FreeSlot
    <2>7. CASE PushClear(h)
      BY <2>7 DEF OncePerRoad, PushClear, At, Goto, Consumed
    <2>8. CASE PushReplyHttp(h)
      BY <2>8 DEF OncePerRoad, PushReplyHttp, At, Goto
    <2>9. CASE PushReplyNobody(h)
      BY <2>9 DEF OncePerRoad, PushReplyNobody, At, Free, FreeSlot
    <2>10. CASE PushReplyWs(h)
      BY <2>10 DEF OncePerRoad, PushReplyWs, At, Free, FreeSlot,
         SendToProbe
    <2>. QED
      BY <1>2, <2>1, <2>2, <2>3, <2>4, <2>5, <2>6, <2>7, <2>8, <2>9, <2>10
         DEF HandlePush
  <1>3. ASSUME NEW h \in Pushes, HttpPush(h) \/ HttpReceive(h) \/ WsPush(h)
        PROVE  OncePerRoad'
    <2>1. CASE HttpPush(h)
      BY <2>1 DEF OncePerRoad, HttpPush, StartPush, At, FreeSlot
    <2>2. CASE HttpReceive(h)
      BY <2>2, RequestsAssumption DEF OncePerRoad, WaitingInv,
         HttpReceive, At, Free, FreeSlot, TypeOK, PushStates, Probes,
         Commands, Runs, Messages, Heeded
    <2>3. CASE WsPush(h)
      BY <2>3 DEF OncePerRoad, WsPush, StartPush, At, FreeSlot
    <2>. QED  BY <1>3, <2>1, <2>2, <2>3
  <1>4. CASE AdminDelete
    BY <1>4 DEF OncePerRoad, AdminDelete, NoRow
  <1>5. CASE TenMinutesPass
    BY <1>5 DEF OncePerRoad, TenMinutesPass
  <1>6. CASE CleanupUninstalledProbes
    BY <1>6 DEF OncePerRoad, CleanupUninstalledProbes, NoRow
  <1>7. CASE WsConnect
    BY <1>7 DEF OncePerRoad, WsConnect
  <1>8. CASE WsReceive
    <2>. DEFINE c == Heeded(Head(down))
    <2>1. ran \in [Requests -> Runs] /\ down \in Seq(Messages) /\ down # <<>>
          /\ ran' = IF c = None THEN ran ELSE [ran EXCEPT ![c].ws = @ + 1]
      BY <1>8 DEF TypeOK, WsReceive
    <2>2. Head(down) \in Messages /\ 1 \in DOMAIN down /\ Head(down) = down[1]
      BY <2>1
    <2>3. c = Heeded(down[1]) /\ c \in Requests \cup {None}
      BY <2>2 DEF Heeded, Messages, Commands
    <2>4. c \in Requests => ran[c].ws = 0
      BY <2>2, <2>3 DEF DownInv
    <2>. HIDE DEF c
    <2>. QED  BY <2>1, <2>3, <2>4 DEF OncePerRoad, Runs
  <1>9. CASE HttpGiveUp
    BY <1>9 DEF OncePerRoad, HttpGiveUp, At, Free, FreeSlot
  <1>10. CASE WsBreaks
    BY <1>10 DEF OncePerRoad, WsBreaks
  <1>11. CASE ServerNoticesBreak
    BY <1>11 DEF OncePerRoad, ServerNoticesBreak
  <1>12. CASE Restart
    BY <1>12 DEF OncePerRoad, Restart, At, Free, FreeSlot
  <1>13. CASE UNCHANGED vars
    BY <1>13 DEF vars, OncePerRoad
  <1>. QED
    BY <1>1, <1>2, <1>3, <1>4, <1>5, <1>6, <1>7, <1>8, <1>9, <1>10, <1>11,
       <1>12, <1>13 DEF Next, Work, Failure

-----------------------------------------------------------------------------
(* The invariant and what it implies.                                      *)

LEMMA IInvInit == Init => IInv
  <1>. SUFFICES ASSUME Init PROVE IInv
    OBVIOUS
  <1>1. TypeOK  BY TypeInit
  <1>2. down = <<>> /\ row = NoRow /\ lastReg = 0  BY DEF Init
  <1>3. \A r \in Requests : /\ reqs[r].pc = "idle" /\ reqs[r].id = 0
                            /\ ran[r].ws = 0 /\ ran[r].http = 0
    <2>1. PICK kind \in [Requests -> Kinds] :
            reqs = [r \in Requests |-> [pc |-> "idle", kind |-> kind[r], id |-> 0]]
      BY DEF Init
    <2>. QED  BY <2>1 DEF Init
  <1>4. \A h \in Pushes : pushes[h] = FreeSlot  BY DEF Init
  <1>5. probe.waiting = None  BY DEF Init
  <1>6. IdsInv /\ IdleInv /\ PendingInv
    BY <1>2, <1>3, <1>4, FreeSlotFields, RequestsAssumption
       DEF IdsInv, IdleInv, PendingInv, NoRow
  <1>7. HandlerInv  BY <1>4, FreeSlotFields DEF HandlerInv
  <1>8. WaitingInv  BY <1>4, <1>5, FreeSlotFields DEF WaitingInv
  <1>9. DownInv /\ OncePerRoad  BY <1>2, <1>3 DEF DownInv, OncePerRoad
  <1>10. StampInv
    BY <1>2, <1>3, <1>4, FreeSlotFields DEF StampInv, HasRun
  <1>. QED  BY <1>1, <1>6, <1>7, <1>8, <1>9, <1>10 DEF IInv

LEMMA IInvNext == IInv /\ [Next]_vars => IInv'
  <1>. SUFFICES ASSUME IInv, [Next]_vars PROVE IInv'
    OBVIOUS
  <1>1. TypeOK'  BY TypeNext DEF IInv
  <1>. QED
    BY <1>1, IdsNext, IdleNext, PendingNext, HandlerNext, WaitingNext,
       DownNext, StampNext, OncePerRoadNext DEF IInv

LEMMA Inductive == Spec => []IInv
  <1>. QED  BY IInvInit, IInvNext, PTL DEF Spec

\* Neither the HTTP replies nor the WebSocket runs a command twice, however
\* many pushes and requests overlap and whatever is retried after a failure.
THEOREM CommandsRunOncePerRoad == Spec => []OncePerRoad
  <1>1. IInv => OncePerRoad  BY DEF IInv
  <1>. QED  BY <1>1, Inductive, PTL

\* The row through which a probe was told to uninstall is gone or stamped, or
\* the request that told it is about to stamp it.
THEOREM UninstallsAreStamped == Spec => []UninstalledIsStamped
  <1>1. IInv => UninstalledIsStamped
    BY DEF IInv, StampInv, UninstalledIsStamped
  <1>. QED  BY <1>1, Inductive, PTL

=============================================================================
