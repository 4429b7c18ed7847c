------------------------- MODULE SiteInventoryProofs -------------------------
(***************************************************************************)
(* Proofs about SiteInventory: types under any overlap of pushes; and for  *)
(* pushes that do not overlap, that a MAC has one discovered row and that  *)
(* a push changes the rows of its own devices only.                        *)
(***************************************************************************)
EXTENDS SiteInventory, TLAPS

USE DEF Ids

-----------------------------------------------------------------------------
(* Types.                                                                  *)

\* An address exists, so the defaults have one.
LEMMA DefaultsTyped == Absent \in Rows /\ Nothing \in Reports /\ FreeSlot \in PushStates
<1> DEFINE a0 == CHOOSE a \in Ips : TRUE
<1>1. a0 \in Ips
  BY IpsAssumption
<1> HIDE DEF a0
<1>2. Absent = [mac |-> None, raw |-> FALSE, ip |-> a0, manual |-> FALSE, by |-> None,
                status |-> "absent"]
  BY DEF Absent, a0
<1>3. Nothing = [ip |-> a0, mac |-> None]
  BY DEF Nothing, a0
<1>4. Absent \in Rows
  BY <1>1, <1>2 DEF Rows
<1>5. Nothing \in Reports
  BY <1>1, <1>3 DEF Reports
<1>6. FreeSlot \in PushStates
  BY <1>5 DEF FreeSlot, PushStates
<1> QED
  BY <1>4, <1>5, <1>6

LEMMA InitTyped == Init => TypeOK
<1> SUFFICES ASSUME Init PROVE TypeOK
  OBVIOUS
<1>1. items \in [Ids -> Rows]
  BY DefaultsTyped DEF Init
<1>2. pushes \in [Pushes -> PushStates]
  BY DefaultsTyped DEF Init
<1>3. spent \in [requests : 0 .. MaxRequests, changes : 0 .. MaxChanges]
  BY BoundsAssumption DEF Init
<1> QED
  BY <1>1, <1>2, <1>3, BoundsAssumption DEF Init, TypeOK

\* What Find and Done make of a handler.
LEMMA FindTyped ==
  ASSUME TypeOK, NEW h \in Pushes, NEW d \in Reports, NEW i \in Ids \cup {0},
         NEW pc \in {"byip", "write"}, Find(h, d, pc, i)
  PROVE  /\ pushes' \in [Pushes -> PushStates]
         /\ pushes'[h].pc = pc /\ pushes'[h].dev = d /\ pushes'[h].found = i
         /\ i # 0 => pushes'[h].had = [ip |-> items[i].ip, mac |-> items[i].mac]
         /\ \A k \in Pushes : k # h => pushes'[k] = pushes[k]
<1> DEFINE had == IF i = 0 THEN Nothing ELSE [ip |-> items[i].ip, mac |-> items[i].mac]
<1>1. had \in Reports
  <2>1. CASE i = 0
    BY <2>1, DefaultsTyped
  <2>2. CASE i # 0
    <3>1. items[i] \in Rows
      BY <2>2 DEF TypeOK
    <3> QED
      BY <2>2, <3>1 DEF Rows, Reports
  <2> QED
    BY <2>1, <2>2
<1>2. i # 0 => had = [ip |-> items[i].ip, mac |-> items[i].mac]
  OBVIOUS
<1>3. pushes' = [pushes EXCEPT ![h].pc = pc, ![h].dev = d, ![h].found = i, ![h].had = had]
  BY DEF Find
<1> HIDE DEF had
<1>4. pushes \in [Pushes -> PushStates] /\ pushes[h] \in PushStates
  BY DEF TypeOK
<1> DEFINE new == [pushes[h] EXCEPT !.pc = pc, !.dev = d, !.found = i, !.had = had]
<1>5. new \in PushStates
  BY <1>1, <1>4 DEF PushStates
<1>6. new.pc = pc /\ new.dev = d /\ new.found = i /\ new.had = had
  BY <1>4 DEF PushStates
<1>7. pushes' = [pushes EXCEPT ![h] = new]
  BY <1>3, <1>4
<1> HIDE DEF new
<1>8. pushes'[h] = new /\ \A k \in Pushes : k # h => pushes'[k] = pushes[k]
  BY <1>4, <1>7
<1>9. pushes' \in [Pushes -> PushStates]
  BY <1>4, <1>5, <1>7
<1> QED
  BY <1>2, <1>6, <1>8, <1>9

LEMMA DoneTyped ==
  ASSUME TypeOK, NEW h \in Pushes, NEW S \in SUBSET Ids, Done(h, S)
  PROVE  /\ pushes' \in [Pushes -> PushStates]
         /\ pushes'[h].pc = "next"
         /\ \A k \in Pushes : k # h => pushes'[k] = pushes[k]
<1>1. pushes \in [Pushes -> PushStates] /\ pushes[h] \in PushStates
  BY DEF TypeOK
<1> DEFINE left == pushes[h].left \ {pushes[h].dev}
           seen == pushes[h].seen \cup S
           new == [pushes[h] EXCEPT !.pc = "next", !.left = left, !.seen = seen,
                                    !.dev = Nothing, !.found = 0, !.had = Nothing]
<1>2. pushes' = [pushes EXCEPT ![h] = new]
  BY <1>1 DEF Done
<1>3. left \in SUBSET Reports /\ seen \in SUBSET Ids
  BY <1>1 DEF PushStates
<1> HIDE DEF left, seen
<1>4. new \in PushStates /\ new.pc = "next"
  BY <1>1, <1>3, DefaultsTyped DEF PushStates
<1> HIDE DEF new
<1> QED
  BY <1>1, <1>2, <1>4

\* The row that an insert makes.
LEMMA InsertTyped ==
  ASSUME TypeOK, NEW r \in Rows, Insert(r)
  PROVE  /\ items' \in [Ids -> Rows] /\ lastId' \in 0 .. MaxRows
         /\ lastId + 1 \in Ids /\ lastId' = lastId + 1
         /\ items'[lastId + 1] = r
         /\ \A i \in Ids : i # lastId + 1 => items'[i] = items[i]
<1>1. lastId + 1 \in Ids /\ lastId' = lastId + 1 /\ lastId' \in 0 .. MaxRows
  BY BoundsAssumption DEF Insert, TypeOK
<1>2. items \in [Ids -> Rows] /\ items' = [items EXCEPT ![lastId + 1] = r]
  BY DEF Insert, TypeOK
<1> QED
  BY <1>1, <1>2

LEMMA RequestTyped ==
  ASSUME TypeOK, NEW kind, Request(kind)
  PROVE  spent' \in [requests : 0 .. MaxRequests, changes : 0 .. MaxChanges]
<1>1. /\ spent \in [requests : 0 .. MaxRequests, changes : 0 .. MaxChanges]
      /\ spent' = [spent EXCEPT !.requests = spent.requests + 1]
      /\ spent.requests < MaxRequests
  BY DEF TypeOK, Request
<1>2. spent.requests + 1 \in 0 .. MaxRequests
  BY <1>1, BoundsAssumption
<1> QED
  BY <1>1, <1>2

\* What the update of a row makes of it.
UpdatedMac(h) == pushes[h].dev.mac # None /\ pushes[h].had.mac = None
LEMMA UpdateTyped ==
  ASSUME TypeOK, NEW h \in Pushes, UpdateRow(h)
  PROVE  /\ items' \in [Ids -> Rows]
         /\ pushes[h].found \in Ids /\ Done(h, {pushes[h].found})
         /\ \A i \in Ids : i # pushes[h].found => items'[i] = items[i]
         /\ \A i \in Ids \ Present : items'[i] = items[i]
         /\ \A i \in Present :
               /\ items'[i].status # "absent" /\ items'[i].manual = items[i].manual
               /\ items'[i].raw => items[i].raw
               /\ \/ items'[i].mac = items[i].mac
                  \/ UpdatedMac(h) /\ items'[i].mac = pushes[h].dev.mac
<1> DEFINE i == pushes[h].found
           d == pushes[h].dev
           had == pushes[h].had
           fill == d.mac # None /\ had.mac = None
           mac == IF fill THEN d.mac ELSE items[i].mac
           raw == IF fill THEN FALSE ELSE items[i].raw
           ip == IF d.mac # None /\ had.ip # d.ip THEN d.ip ELSE items[i].ip
           new == [items[i] EXCEPT !.status = "online", !.by = pushes[h].probe,
                                   !.mac = mac, !.raw = raw, !.ip = ip]
<1>1. /\ pushes[h] \in PushStates /\ items \in [Ids -> Rows] /\ listed \subseteq Probes
      /\ pushes[h].probe \in listed /\ i # 0
  BY DEF TypeOK, UpdateRow
<1>2. /\ i \in Ids /\ d \in Reports /\ pushes[h].probe \in Probes
      /\ items[i] \in Rows
  BY <1>1 DEF PushStates
<1>3. mac \in Macs \cup {None} /\ raw \in BOOLEAN /\ ip \in Ips
  BY <1>2 DEF Rows, Reports
<1>4. /\ mac = items[i].mac \/ (fill /\ mac = d.mac)
      /\ raw => items[i].raw
  BY <1>2 DEF Rows
<1>5. items' = IF i \in Present THEN [items EXCEPT ![i] = new] ELSE items
  BY <1>1, <1>2 DEF UpdateRow
<1>6. Done(h, {i})
  BY DEF UpdateRow
<1> HIDE DEF mac, raw, ip
<1>7. new \in Rows
  BY <1>1, <1>2, <1>3 DEF Rows, ItemStatus
<1>8. /\ new.status = "online" /\ new.manual = items[i].manual /\ new.mac = mac
      /\ new.raw = raw
  BY <1>2 DEF Rows
<1> HIDE DEF new
<1>9. /\ items' \in [Ids -> Rows]
      /\ \A j \in Ids : j # i => items'[j] = items[j]
      /\ i \in Present => items'[i] = new
      /\ i \notin Present => items' = items
  BY <1>1, <1>2, <1>5, <1>7
<1> HIDE DEF i
<1>10. \A j \in Ids \ Present : items'[j] = items[j]
  BY <1>9
<1>11. Present \subseteq Ids /\ \A j \in Present : items[j].status # "absent"
  BY DEF Present
<1>12. ASSUME NEW j \in Present
       PROVE  /\ items'[j].status # "absent" /\ items'[j].manual = items[j].manual
              /\ items'[j].raw => items[j].raw
              /\ items'[j].mac = items[j].mac \/ (fill /\ items'[j].mac = d.mac)
  <2>1. CASE j = i
    BY <2>1, <1>4, <1>8, <1>9
  <2>2. CASE j # i
    BY <2>2, <1>9, <1>11
  <2> QED
    BY <2>1, <2>2
<1> QED
  BY <1>2, <1>6, <1>9, <1>10, <1>12 DEF i, UpdatedMac

\* Rows that change their status or their probe only.
LEMMA StatusTyped ==
  ASSUME items \in [Ids -> Rows], NEW S, NEW st \in ItemStatus
  PROVE  LET new == [i \in Ids |-> IF i \in S THEN [items[i] EXCEPT !.status = st]
                                  ELSE items[i]]
         IN /\ new \in [Ids -> Rows]
            /\ \A i \in Ids : /\ new[i].mac = items[i].mac /\ new[i].raw = items[i].raw
                              /\ new[i].manual = items[i].manual
                              /\ i \notin S => new[i] = items[i]
<1> SUFFICES ASSUME NEW i \in Ids
             PROVE  LET r == IF i \in S THEN [items[i] EXCEPT !.status = st] ELSE items[i]
                    IN /\ r \in Rows /\ r.mac = items[i].mac /\ r.raw = items[i].raw
                       /\ r.manual = items[i].manual /\ (i \notin S => r = items[i])
  OBVIOUS
<1>1. items[i] \in Rows
  OBVIOUS
<1> QED
  BY <1>1 DEF Rows

LEMMA StartTyped ==
  ASSUME TypeOK, NEW h \in Pushes, NEW p \in Probes, StartPush(h, p)
  PROVE  /\ pushes' \in [Pushes -> PushStates] /\ pushes'[h].pc = "next"
         /\ \A k \in Pushes : k # h => pushes'[k] = pushes[k]
<1> DEFINE scan == {[ip |-> a, mac |-> IF p \in ArpProbes THEN net[a] ELSE None] :
                       a \in {b \in Ips : net[b] # None}}
           new == [FreeSlot EXCEPT !.pc = "next", !.probe = p, !.left = scan]
<1>1. ASSUME NEW a \in Ips
      PROVE  [ip |-> a, mac |-> IF p \in ArpProbes THEN net[a] ELSE None] \in Reports
  <2>1. (IF p \in ArpProbes THEN net[a] ELSE None) \in Macs \cup {None}
    BY DEF TypeOK
  <2> QED
    BY <2>1 DEF Reports
<1>2. scan \in SUBSET Reports
  BY <1>1
<1>3. pushes' = [pushes EXCEPT ![h] = new]
  BY DEF StartPush
<1> HIDE DEF scan
<1>4. new \in PushStates /\ new.pc = "next"
  BY <1>2, DefaultsTyped DEF PushStates
<1> HIDE DEF new
<1> QED
  BY <1>3, <1>4 DEF TypeOK

LEMMA SelectTyped ==
  ASSUME TypeOK, NEW h \in Pushes, SelectOffline(h)
  PROVE  /\ pushes' \in [Pushes -> PushStates] /\ pushes'[h].pc \in {"free", "mark"}
         /\ \A k \in Pushes : k # h => pushes'[k] = pushes[k]
<1>1. pushes \in [Pushes -> PushStates] /\ pushes[h] \in PushStates
  BY DEF TypeOK
<1> DEFINE marked == [pushes[h] EXCEPT !.pc = "mark"]
           new == IF Unlisted(h) = {} THEN FreeSlot ELSE marked
<1>2. marked \in PushStates /\ marked.pc = "mark"
  BY <1>1 DEF PushStates
<1>3. FreeSlot.pc = "free"
  BY DEF FreeSlot
<1> HIDE DEF marked
<1>4. new \in PushStates /\ new.pc \in {"free", "mark"}
  BY <1>2, <1>3, DefaultsTyped
<1>5. pushes' = [pushes EXCEPT ![h] = new]
  BY DEF SelectOffline, marked
<1> HIDE DEF new
<1> QED
  BY <1>1, <1>4, <1>5

-----------------------------------------------------------------------------
(* The inductive invariant.  Inv holds under any overlap; AloneInv says    *)
(* what a push may rely on while it is alone: what it read of its row is   *)
(* still so, and no other discovered row has the MAC it looked up in vain. *)

Used == \A i \in Ids : i > lastId => items[i].status = "absent"
RawIsManual == \A i \in Present : items[i].raw => items[i].manual
Found(h) == At(h, "write") /\ pushes[h].found # 0
OfDevice ==
    \A h \in Pushes : /\ Found(h) /\ pushes[h].dev.mac # None
                      /\ pushes[h].had.mac # None
                      => pushes[h].had.mac = pushes[h].dev.mac
Inv == TypeOK /\ Used /\ RawIsManual /\ OfDevice

Seeks(h) == \/ At(h, "byip")
            \/ At(h, "write") /\ (pushes[h].found = 0 \/ pushes[h].had.mac = None)
LookedUp ==
    \A h \in Pushes : Seeks(h) /\ pushes[h].dev.mac # None =>
        \A i \in Present : items[i].mac = pushes[h].dev.mac => items[i].manual
HadIsRow ==
    \A h \in Pushes : Found(h) =>
        /\ pushes[h].found <= lastId
        /\ pushes[h].found \in Present => pushes[h].had.mac = items[pushes[h].found].mac
OneRow ==
    \A i, j \in Present : /\ items[i].mac = items[j].mac /\ items[i].mac # None
                          /\ ~items[i].manual /\ ~items[j].manual
                          => i = j
AloneInv == OneAtATime => LookedUp /\ HadIsRow /\ OneRow

\* Initially nothing is present and no handler runs.
LEMMA InitInv == Init => Inv /\ AloneInv
<1> SUFFICES ASSUME Init PROVE Inv /\ AloneInv
  OBVIOUS
<1>1. TypeOK
  BY InitTyped
<1>2. \A i \in Ids : items[i].status = "absent"
  BY DEF Init, Absent
<1>3. \A h \in Pushes : pushes[h].pc = "free"
  BY DEF Init, FreeSlot
<1>4. Present = {}
  BY <1>2 DEF Present
<1> QED
  BY <1>1, <1>2, <1>3, <1>4 DEF Inv, AloneInv, Used, RawIsManual, OfDevice, LookedUp,
     HadIsRow, OneRow, Found, Seeks, At

\* Rows go, change their status, or are added by hand, and handlers go on to
\* another device or end: nothing a push relies on changes.
Harmless ==
    /\ lastId <= lastId'
    /\ \A i \in Ids : items'[i].status # "absent" =>
          \/ /\ i \in Present /\ items'[i].mac = items[i].mac
             /\ items'[i].raw = items[i].raw /\ items'[i].manual = items[i].manual
          \/ /\ items'[i].manual /\ i > lastId /\ i <= lastId'
    /\ \A h \in Pushes : \/ pushes'[h] = pushes[h]
                          \/ pushes'[h].pc \in {"free", "next", "mark"}

LEMMA HarmlessKeeps ==
  ASSUME Inv, AloneInv, TypeOK', Harmless
  PROVE  Inv' /\ AloneInv'
<1>1. /\ lastId \in Int /\ lastId' \in Int /\ lastId <= lastId'
      /\ Ids \subseteq Int
  BY BoundsAssumption DEF Inv, TypeOK, Harmless
<1>2. ASSUME NEW i \in Present'
      PROVE  /\ i \in Ids
             /\ \/ /\ i \in Present /\ items'[i].mac = items[i].mac
                   /\ items'[i].raw = items[i].raw /\ items'[i].manual = items[i].manual
                \/ /\ items'[i].manual /\ i > lastId /\ i <= lastId'
  BY DEF Present, Harmless
<1>3. Used'
  <2> SUFFICES ASSUME NEW i \in Ids, i > lastId', items'[i].status # "absent"
               PROVE  FALSE
    BY DEF Used
  <2>1. i \in Present /\ i > lastId
    BY <1>1 DEF Harmless
  <2> QED
    BY <2>1 DEF Inv, Used, Present
<1>4. RawIsManual'
  BY <1>2 DEF Inv, RawIsManual
<1>5. \A h \in Pushes : Found(h)' \/ Seeks(h)' => pushes'[h] = pushes[h]
  BY DEF Harmless, Found, Seeks, At
<1>6. OfDevice'
  <2> SUFFICES ASSUME NEW h \in Pushes, Found(h)', pushes'[h].dev.mac # None,
                      pushes'[h].had.mac # None
               PROVE  pushes'[h].had.mac = pushes'[h].dev.mac
    BY DEF OfDevice
  <2>1. pushes'[h] = pushes[h]
    BY <1>5
  <2> QED
    BY <2>1 DEF Inv, OfDevice, Found, At
<1>7. ASSUME OneAtATime PROVE LookedUp' /\ HadIsRow' /\ OneRow'
  <2>1. LookedUp /\ HadIsRow /\ OneRow
    BY <1>7 DEF AloneInv
  <2>2. LookedUp'
    <3> SUFFICES ASSUME NEW h \in Pushes, Seeks(h)', pushes'[h].dev.mac # None,
                        NEW i \in Present', items'[i].mac = pushes'[h].dev.mac
                 PROVE  items'[i].manual
      BY DEF LookedUp
    <3>1. pushes'[h] = pushes[h]
      BY <1>5
    <3>2. Seeks(h) /\ pushes[h].dev.mac # None
      BY <3>1 DEF Seeks, At
    <3> QED
      BY <1>2, <2>1, <3>1, <3>2 DEF LookedUp
  <2>3. HadIsRow'
    <3> SUFFICES ASSUME NEW h \in Pushes, Found(h)'
                 PROVE  /\ pushes'[h].found <= lastId'
                        /\ pushes'[h].found \in Present' =>
                             pushes'[h].had.mac = items'[pushes'[h].found].mac
      BY DEF HadIsRow
    <3>1. pushes'[h] = pushes[h]
      BY <1>5
    <3>2. Found(h)
      BY <3>1 DEF Found, At
    <3>3. pushes[h].found <= lastId /\ pushes[h].found \in Int
      <4>1. pushes[h].found \in Ids \cup {0}
        BY DEF Inv, TypeOK, PushStates
      <4> QED
        BY <2>1, <3>2, <4>1, <1>1 DEF HadIsRow
    <3>4. ASSUME pushes[h].found \in Present'
          PROVE  pushes[h].had.mac = items'[pushes[h].found].mac
      BY <1>1, <1>2, <2>1, <3>2, <3>3, <3>4 DEF HadIsRow
    <3> QED
      BY <1>1, <3>1, <3>3, <3>4
  <2>4. OneRow'
    BY <1>2, <2>1 DEF OneRow
  <2> QED
    BY <2>2, <2>3, <2>4
<1> QED
  BY <1>3, <1>4, <1>6, <1>7 DEF Inv, AloneInv, OneAtATime

-----------------------------------------------------------------------------
(* Types and the harmless actions.                                         *)

\* An action that leaves the rows and the sequence alone.
LEMMA RowsKept ==
  ASSUME TypeOK, UNCHANGED <<items, lastId>>,
         \A h \in Pushes : \/ pushes'[h] = pushes[h]
                           \/ pushes'[h].pc \in {"free", "next", "mark"}
  PROVE  Harmless
<1>1. lastId <= lastId'
  BY BoundsAssumption DEF TypeOK
<1> QED
  BY <1>1 DEF Harmless, Present

LEMMA StartPushOk ==
  ASSUME TypeOK, NEW h \in Pushes, NEW p \in Probes, StartPush(h, p)
  PROVE  TypeOK' /\ Harmless
<1>1. /\ pushes' \in [Pushes -> PushStates] /\ pushes'[h].pc = "next"
      /\ \A k \in Pushes : k # h => pushes'[k] = pushes[k]
  BY StartTyped
<1>2. UNCHANGED <<items, lastId, net, listed, spent>>
  BY DEF StartPush
<1> QED
  BY <1>1, <1>2, RowsKept DEF TypeOK

LEMMA SelectOfflineOk ==
  ASSUME TypeOK, NEW h \in Pushes, SelectOffline(h)
  PROVE  TypeOK' /\ Harmless
<1>1. /\ pushes' \in [Pushes -> PushStates] /\ pushes'[h].pc \in {"free", "mark"}
      /\ \A k \in Pushes : k # h => pushes'[k] = pushes[k]
  BY SelectTyped
<1>2. UNCHANGED <<items, lastId, net, listed, spent>>
  BY DEF SelectOffline
<1> QED
  BY <1>1, <1>2, RowsKept DEF TypeOK

\* A device that is dealt with without its row.
LEMMA SkippedOk ==
  ASSUME TypeOK, NEW h \in Pushes, Done(h, {}),
         UNCHANGED <<items, lastId, net, listed, spent>>
  PROVE  TypeOK' /\ Harmless
<1>1. /\ pushes' \in [Pushes -> PushStates] /\ pushes'[h].pc = "next"
      /\ \A k \in Pushes : k # h => pushes'[k] = pushes[k]
  BY DoneTyped
<1> QED
  BY <1>1, RowsKept DEF TypeOK

\* Rows whose status changes, or that go: the handlers wait.
LEMMA MarkOfflineOk ==
  ASSUME TypeOK, NEW h \in Pushes, MarkOffline(h)
  PROVE  TypeOK' /\ Harmless
<1> DEFINE new == [i \in Ids |-> IF i \in Unlisted(h)
                                THEN [items[i] EXCEPT !.status = "offline"] ELSE items[i]]
<1>1. /\ new \in [Ids -> Rows]
      /\ \A i \in Ids : /\ new[i].mac = items[i].mac /\ new[i].raw = items[i].raw
                        /\ new[i].manual = items[i].manual
                        /\ i \notin Unlisted(h) => new[i] = items[i]
  <2>1. items \in [Ids -> Rows] /\ "offline" \in ItemStatus
    BY DEF TypeOK, ItemStatus
  <2> QED
    BY <2>1, StatusTyped
<1>2. items' = new
  BY DEF MarkOffline
<1> HIDE DEF new
<1>3. Unlisted(h) \subseteq Present
  BY DEF Unlisted
<1>4. /\ pushes' = [pushes EXCEPT ![h] = FreeSlot] /\ FreeSlot.pc = "free"
      /\ UNCHANGED <<lastId, net, listed, spent>>
  BY DEF MarkOffline, FreeSlot
<1>5. TypeOK'
  BY <1>1, <1>2, <1>4, DefaultsTyped DEF TypeOK
<1>6. \A k \in Pushes : pushes'[k] = pushes[k] \/ pushes'[k].pc = "free"
  BY <1>4 DEF TypeOK
<1>7. lastId <= lastId'
  BY <1>4, BoundsAssumption DEF TypeOK
<1>8. \A i \in Ids : items'[i].status # "absent" =>
        /\ i \in Present /\ items'[i].mac = items[i].mac
        /\ items'[i].raw = items[i].raw /\ items'[i].manual = items[i].manual
  BY <1>1, <1>2, <1>3 DEF Present
<1> QED
  BY <1>5, <1>6, <1>7, <1>8 DEF Harmless

LEMMA UpdateItemOk ==
  ASSUME TypeOK, NEW i \in Ids, NEW status \in ItemStatus, UpdateItem(i, status)
  PROVE  TypeOK' /\ Harmless
<1> DEFINE new == [items[i] EXCEPT !.status = status]
<1>1. /\ items \in [Ids -> Rows] /\ items[i] \in Rows /\ i \in Present
      /\ UNCHANGED <<lastId, net, listed, pushes>>
  BY DEF TypeOK, UpdateItem
<1>2. /\ new \in Rows /\ new.mac = items[i].mac /\ new.raw = items[i].raw
      /\ new.manual = items[i].manual
  BY <1>1 DEF Rows
<1>3. items' = [items EXCEPT ![i] = new]
  BY <1>1 DEF UpdateItem
<1> HIDE DEF new
<1>4. /\ items' \in [Ids -> Rows] /\ items'[i] = new
      /\ \A j \in Ids : j # i => items'[j] = items[j]
  BY <1>1, <1>2, <1>3
<1>5. spent' \in [requests : 0 .. MaxRequests, changes : 0 .. MaxChanges]
  BY RequestTyped DEF UpdateItem
<1>6. \A j \in Ids : items'[j].status # "absent" =>
        /\ j \in Present /\ items'[j].mac = items[j].mac
        /\ items'[j].raw = items[j].raw /\ items'[j].manual = items[j].manual
  BY <1>1, <1>2, <1>4 DEF Present
<1>7. lastId <= lastId'
  BY <1>1, BoundsAssumption DEF TypeOK
<1> QED
  BY <1>1, <1>4, <1>5, <1>6, <1>7 DEF TypeOK, Harmless

LEMMA DeleteItemsOk ==
  ASSUME TypeOK, NEW S \in SUBSET Ids, DeleteItems(S)
  PROVE  TypeOK' /\ Harmless
<1>1. /\ items' = [i \in Ids |-> IF i \in S THEN Absent ELSE items[i]]
      /\ UNCHANGED <<lastId, net, listed, pushes>>
  BY DEF DeleteItems
<1>2. items' \in [Ids -> Rows]
  BY <1>1, DefaultsTyped DEF TypeOK
<1>3. spent' \in [requests : 0 .. MaxRequests, changes : 0 .. MaxChanges]
  BY RequestTyped DEF DeleteItems
<1>4. \A i \in Ids : items'[i].status # "absent" => items'[i] = items[i]
  BY <1>1 DEF Absent
<1>5. lastId <= lastId'
  BY <1>1, BoundsAssumption DEF TypeOK
<1> QED
  BY <1>1, <1>2, <1>3, <1>4, <1>5 DEF TypeOK, Harmless, Present

LEMMA DeleteProbeOk ==
  ASSUME TypeOK, NEW p \in Probes, DeleteProbe(p)
  PROVE  TypeOK' /\ Harmless
<1>1. /\ items \in [Ids -> Rows]
      /\ items' = [i \in Ids |-> IF items[i].by = p THEN [items[i] EXCEPT !.by = None]
                                 ELSE items[i]]
      /\ listed' = listed \ {p} /\ UNCHANGED <<lastId, net, pushes>>
  BY DEF TypeOK, DeleteProbe
<1>2. ASSUME NEW i \in Ids
      PROVE  /\ items'[i] \in Rows /\ items'[i].mac = items[i].mac
             /\ items'[i].raw = items[i].raw /\ items'[i].manual = items[i].manual
             /\ items'[i].status = items[i].status
  BY <1>1 DEF Rows
<1>3. items' \in [Ids -> Rows]
  BY <1>1, <1>2
<1>4. spent' \in [requests : 0 .. MaxRequests, changes : 0 .. MaxChanges]
  BY RequestTyped DEF DeleteProbe
<1>5. lastId <= lastId'
  BY <1>1, BoundsAssumption DEF TypeOK
<1> QED
  BY <1>1, <1>2, <1>3, <1>4, <1>5 DEF TypeOK, Harmless, Present

LEMMA CreateManualItemOk ==
  ASSUME TypeOK, NEW a \in Ips, NEW m \in Macs \cup {None}, NEW raw \in BOOLEAN,
         CreateManualItem(a, m, raw)
  PROVE  TypeOK' /\ Harmless
<1> DEFINE r == [Absent EXCEPT !.mac = m, !.raw = raw /\ m # None, !.ip = a,
                               !.manual = TRUE, !.status = "unknown"]
<1>1. r \in Rows /\ r.manual
  BY DefaultsTyped DEF Rows, ItemStatus
<1>2. Insert(r) /\ UNCHANGED <<net, listed, pushes>>
  BY DEF CreateManualItem
<1> HIDE DEF r
<1>3. /\ items' \in [Ids -> Rows] /\ lastId' \in 0 .. MaxRows
      /\ lastId' = lastId + 1 /\ items'[lastId + 1] = r
      /\ \A i \in Ids : i # lastId + 1 => items'[i] = items[i]
  BY <1>1, <1>2, InsertTyped
<1>4. spent' \in [requests : 0 .. MaxRequests, changes : 0 .. MaxChanges]
  BY RequestTyped DEF CreateManualItem
<1>5. lastId \in Int
  BY BoundsAssumption DEF TypeOK
<1>6. TypeOK'
  BY <1>2, <1>3, <1>4 DEF TypeOK
<1>7. \A i \in Ids : items'[i].status # "absent" =>
          \/ i \in Present /\ items'[i] = items[i]
          \/ items'[i].manual /\ i > lastId /\ i <= lastId'
  BY <1>1, <1>3, <1>5 DEF Present
<1> QED
  BY <1>2, <1>3, <1>5, <1>6, <1>7 DEF Harmless

LEMMA NetworkChangesOk ==
  ASSUME TypeOK, NEW a \in Ips, NEW m \in Macs \cup {None}, NetworkChanges(a, m)
  PROVE  TypeOK' /\ Harmless
<1>1. UNCHANGED <<items, lastId, listed, pushes>> /\ net' = [net EXCEPT ![a] = m]
  BY DEF NetworkChanges
<1>2. /\ spent \in [requests : 0 .. MaxRequests, changes : 0 .. MaxChanges]
      /\ spent' = [spent EXCEPT !.changes = spent.changes + 1]
      /\ spent.changes < MaxChanges
  BY DEF TypeOK, NetworkChanges
<1>3. spent.changes + 1 \in 0 .. MaxChanges
  BY <1>2, BoundsAssumption
<1>4. spent' \in [requests : 0 .. MaxRequests, changes : 0 .. MaxChanges]
  BY <1>2, <1>3
<1> QED
  BY <1>1, <1>4, RowsKept DEF TypeOK

-----------------------------------------------------------------------------
(* The lookups and the writes of a device.                                 *)

\* A lookup that chose row i, or none: what makes the choice a good one.
LEMMA FindKeeps ==
  ASSUME Inv, AloneInv, NEW h \in Pushes, NEW d \in Reports, NEW i \in Present \cup {0},
         NEW pc \in {"byip", "write"}, Find(h, d, pc, i),
         UNCHANGED <<items, lastId, net, listed, spent>>,
         i # 0 /\ d.mac # None /\ items[i].mac # None => items[i].mac = d.mac,
         /\ d.mac # None
         /\ pc = "byip" \/ i = 0 \/ items[i].mac = None
         => \A j \in Present : OneAtATime /\ items[j].mac = d.mac => items[j].manual
  PROVE  TypeOK' /\ Inv' /\ AloneInv'
<1>1. Present \subseteq Ids /\ i \in Ids \cup {0} /\ 0 \notin Ids
  BY DEF Present
<1>2. /\ pushes' \in [Pushes -> PushStates]
      /\ pushes'[h].pc = pc /\ pushes'[h].dev = d /\ pushes'[h].found = i
      /\ i # 0 => pushes'[h].had = [ip |-> items[i].ip, mac |-> items[i].mac]
      /\ \A k \in Pushes : k # h => pushes'[k] = pushes[k]
  BY <1>1, FindTyped DEF Inv
<1>3. TypeOK'
  BY <1>2 DEF Inv, TypeOK
<1>4. Present' = Present
  BY DEF Present
<1>5. i # 0 => pushes'[h].had.mac = items[i].mac
  BY <1>2
<1>6. OfDevice'
  BY <1>2, <1>5 DEF Inv, OfDevice, Found, At
<1>7. i # 0 => i \in Ids /\ i <= lastId
  BY <1>1, BoundsAssumption DEF Inv, Used, TypeOK, Present
<1>8. ASSUME OneAtATime PROVE LookedUp' /\ HadIsRow' /\ OneRow'
  <2>1. \A k \in Pushes : k = h
    BY <1>8 DEF OneAtATime
  <2>2. LookedUp'
    <3> SUFFICES ASSUME NEW k \in Pushes, Seeks(k)', pushes'[k].dev.mac # None,
                        NEW j \in Present', items'[j].mac = pushes'[k].dev.mac
                 PROVE  items'[j].manual
      BY DEF LookedUp
    <3>1. k = h /\ j \in Present /\ items'[j] = items[j]
      BY <1>4, <2>1
    <3>2. d.mac # None /\ items[j].mac = d.mac
      BY <1>2, <3>1
    <3>3. CASE pc = "write"
      <4>1. i = 0 \/ pushes'[h].had.mac = None
        BY <1>2, <3>1, <3>3 DEF Seeks, At
      <4> QED
        BY <1>5, <1>8, <3>1, <3>2, <4>1
    <3>4. CASE pc = "byip"
      BY <1>8, <3>1, <3>2, <3>4
    <3> QED
      BY <3>3, <3>4
  <2>3. HadIsRow'
    BY <1>2, <1>4, <1>5, <1>7, <2>1 DEF HadIsRow, Found, At
  <2>4. OneRow'
    BY <1>4, <1>8 DEF AloneInv, OneRow
  <2> QED
    BY <2>2, <2>3, <2>4
<1> QED
  BY <1>3, <1>4, <1>6, <1>8 DEF Inv, Used, RawIsManual, AloneInv, OneAtATime

LEMMA FindByMacKeeps ==
  ASSUME Inv, AloneInv, NEW h \in Pushes, NEW d \in Reports, FindByMac(h, d)
  PROVE  Inv' /\ AloneInv'
<1> DEFINE rows == IF d.mac = None THEN {} ELSE OfMac(d.mac)
<1>1. UNCHANGED <<items, lastId, net, listed, spent>>
  BY DEF FindByMac
<1>2. CASE rows = {}
  <2>1. Find(h, d, "byip", 0)
    BY <1>2 DEF FindByMac
  <2>2. d.mac # None => \A j \in Present : items[j].mac = d.mac => items[j].manual
    BY <1>2 DEF OfMac, Inv, RawIsManual
  <2> QED
    BY <1>1, <2>1, <2>2, FindKeeps
<1>3. CASE rows # {}
  <2>1. PICK i \in rows : Find(h, d, "write", i)
    BY <1>3 DEF FindByMac
  <2>2. i \in Present /\ d.mac # None /\ items[i].mac = d.mac
    BY <2>1 DEF OfMac
  <2>3. 0 \notin Present
    BY DEF Present
  <2> QED
    BY <1>1, <2>1, <2>2, <2>3, FindKeeps
<1> QED
  BY <1>2, <1>3

LEMMA FindByIpKeeps ==
  ASSUME Inv, AloneInv, NEW h \in Pushes, FindByIp(h)
  PROVE  Inv' /\ AloneInv'
<1> DEFINE d == pushes[h].dev
<1>1. /\ UNCHANGED <<items, lastId, net, listed, spent>>
      /\ At(h, "byip") /\ TypeOK
  BY DEF FindByIp, Inv
<1>2. d \in Reports
  BY DEF Inv, TypeOK, PushStates
<1>3. OneAtATime /\ d.mac # None =>
        \A j \in Present : items[j].mac = d.mac => items[j].manual
  BY <1>1 DEF AloneInv, LookedUp, Seeks
<1>4. CASE AtIp(d.ip) = {} /\ Find(h, d, "write", 0)
  <2>1. 0 \in Present \cup {0}
    OBVIOUS
  <2> HIDE DEF d
  <2> QED
    BY <1>1, <1>2, <1>3, <1>4, <2>1, FindKeeps
<1>5. ASSUME NEW i \in AtIp(d.ip), OtherDevice(i, d), Done(h, {})
      PROVE  Inv' /\ AloneInv'
  BY <1>1, <1>5, SkippedOk, HarmlessKeeps
<1>6. ASSUME NEW i \in AtIp(d.ip), ~OtherDevice(i, d), Find(h, d, "write", i)
      PROVE  Inv' /\ AloneInv'
  <2>1. i \in Present /\ 0 \notin Present
    BY DEF AtIp, Present
  <2>2. d.mac # None /\ items[i].mac # None => items[i].mac = d.mac
    BY <1>6 DEF OtherDevice
  <2> HIDE DEF d
  <2> QED
    BY <1>1, <1>2, <1>3, <1>6, <2>1, <2>2, FindKeeps
<1> QED
  BY <1>4, <1>5, <1>6 DEF FindByIp

LEMMA UpdateRowKeeps ==
  ASSUME Inv, AloneInv, NEW h \in Pushes, UpdateRow(h)
  PROVE  Inv' /\ AloneInv'
<1> DEFINE f == pushes[h].found
           m == pushes[h].dev.mac
<1>1. /\ items' \in [Ids -> Rows] /\ f \in Ids /\ Done(h, {f})
      /\ \A i \in Ids : i # f => items'[i] = items[i]
      /\ \A i \in Ids \ Present : items'[i] = items[i]
      /\ \A i \in Present :
            /\ items'[i].status # "absent" /\ items'[i].manual = items[i].manual
            /\ items'[i].raw => items[i].raw
            /\ \/ items'[i].mac = items[i].mac
               \/ UpdatedMac(h) /\ items'[i].mac = m
  BY UpdateTyped DEF Inv
<1>2. /\ Found(h) /\ UNCHANGED <<lastId, net, listed, spent>>
  BY DEF UpdateRow, Found
<1>3. /\ pushes' \in [Pushes -> PushStates] /\ pushes'[h].pc = "next"
      /\ \A k \in Pushes : k # h => pushes'[k] = pushes[k]
  BY <1>1, DoneTyped DEF Inv
<1> HIDE DEF f, m
<1>4. TypeOK'
  BY <1>1, <1>2, <1>3 DEF Inv, TypeOK
<1>5. Present' = Present /\ Present \subseteq Ids
  BY <1>1 DEF Present
<1>6. Used'
  <2> SUFFICES ASSUME NEW i \in Ids, i > lastId' PROVE items'[i].status = "absent"
    BY DEF Used
  <2>1. items[i].status = "absent" /\ i \notin Present
    BY <1>2 DEF Inv, Used, Present
  <2> QED
    BY <1>1, <2>1
<1>7. RawIsManual'
  BY <1>1, <1>5 DEF Inv, RawIsManual
<1>8. OfDevice'
  BY <1>3 DEF Inv, OfDevice, Found, At
<1>9. ASSUME OneAtATime PROVE LookedUp' /\ HadIsRow' /\ OneRow'
  <2>1. LookedUp /\ HadIsRow /\ OneRow /\ \A k \in Pushes : k = h
    BY <1>9 DEF AloneInv, OneAtATime
  <2>2. LookedUp' /\ HadIsRow'
    BY <1>3, <2>1 DEF LookedUp, HadIsRow, Seeks, Found, At
  <2>3. CASE UpdatedMac(h)
    <3>1. m # None /\ \A j \in Present : items[j].mac = m => items[j].manual
      BY <1>2, <2>1, <2>3 DEF LookedUp, Seeks, Found, UpdatedMac, m
    <3>2. \A i \in Present : i # f => items'[i] = items[i]
      BY <1>1, <1>5
    <3>3. \A i \in Present : \/ items'[i].mac = items[i].mac
                             \/ i = f /\ items'[i].mac = m
      BY <1>1, <3>2
    <3>4. \A i \in Present : items'[i].manual = items[i].manual
      BY <1>1
    <3>5. ASSUME NEW i \in Present, NEW j \in Present, items'[i].mac = items'[j].mac,
                 items'[i].mac # None, ~items'[i].manual, ~items'[j].manual
          PROVE  i = j
      BY <2>1, <3>1, <3>3, <3>4, <3>5 DEF OneRow
    <3>6. OneRow'
      BY <1>5, <3>5 DEF OneRow
    <3> QED
      BY <2>2, <3>6
  <2>4. CASE ~UpdatedMac(h)
    BY <1>1, <1>5, <2>1, <2>2, <2>4 DEF OneRow
  <2> QED
    BY <2>3, <2>4
<1> QED
  BY <1>4, <1>6, <1>7, <1>8, <1>9 DEF Inv, AloneInv, OneAtATime

LEMMA InsertRowKeeps ==
  ASSUME Inv, AloneInv, NEW h \in Pushes, InsertRow(h)
  PROVE  Inv' /\ AloneInv'
<1> DEFINE d == pushes[h].dev
           r == [Absent EXCEPT !.mac = d.mac, !.ip = d.ip, !.by = pushes[h].probe,
                               !.status = "online"]
           n == lastId + 1
<1>1. /\ pushes[h] \in PushStates /\ d \in Reports /\ lastId \in Int
      /\ pushes[h].probe \in Probes
  BY BoundsAssumption DEF Inv, TypeOK, PushStates, InsertRow
<1>2. r \in Rows /\ r.mac = d.mac /\ ~r.raw /\ ~r.manual /\ r.status = "online"
  <2>1. d.mac \in Macs \cup {None} /\ d.ip \in Ips
    BY <1>1 DEF Reports
  <2>2. Absent \in Rows /\ ~Absent.raw /\ ~Absent.manual
    BY DefaultsTyped DEF Absent
  <2> QED
    BY <1>1, <2>1, <2>2 DEF Rows, ItemStatus
<1>3. /\ Insert(r) /\ Done(h, {n}) /\ At(h, "write") /\ pushes[h].found = 0
      /\ UNCHANGED <<net, listed, spent>>
  BY DEF InsertRow
<1> HIDE DEF r
<1>4. /\ items' \in [Ids -> Rows] /\ lastId' \in 0 .. MaxRows
      /\ n \in Ids /\ lastId' = n /\ items'[n] = r
      /\ \A i \in Ids : i # n => items'[i] = items[i]
  BY <1>2, <1>3, InsertTyped DEF Inv
<1>5. /\ pushes' \in [Pushes -> PushStates] /\ pushes'[h].pc = "next"
      /\ \A k \in Pushes : k # h => pushes'[k] = pushes[k]
  BY <1>3, <1>4, DoneTyped DEF Inv
<1>6. TypeOK'
  BY <1>3, <1>4, <1>5 DEF Inv, TypeOK
<1>7. Present' = Present \cup {n} /\ Present \subseteq Ids
  BY <1>2, <1>4 DEF Present
<1>8. \A i \in Present : i # n /\ items'[i] = items[i]
  BY <1>1, <1>4 DEF Inv, Used, Present
<1>9. Used'
  BY <1>1, <1>4 DEF Inv, Used
<1>10. RawIsManual'
  BY <1>2, <1>4, <1>7, <1>8 DEF Inv, RawIsManual
<1>11. OfDevice'
  BY <1>5 DEF Inv, OfDevice, Found, At
<1>12. ASSUME OneAtATime PROVE LookedUp' /\ HadIsRow' /\ OneRow'
  <2>1. LookedUp /\ OneRow /\ \A k \in Pushes : k = h
    BY <1>12 DEF AloneInv, OneAtATime
  <2>2. LookedUp' /\ HadIsRow'
    BY <1>5, <2>1 DEF LookedUp, HadIsRow, Seeks, Found, At
  <2>3. d.mac # None => \A j \in Present : items[j].mac = d.mac => items[j].manual
    BY <1>3, <2>1 DEF LookedUp, Seeks
  <2> HIDE DEF d, n
  <2>4. OneRow'
    BY <1>2, <1>4, <1>7, <1>8, <2>1, <2>3 DEF OneRow
  <2> QED
    BY <2>2, <2>4
<1> QED
  BY <1>6, <1>9, <1>10, <1>11, <1>12 DEF Inv, AloneInv, OneAtATime

-----------------------------------------------------------------------------
(* The theorems.                                                           *)

LEMMA StepInv == Inv /\ AloneInv /\ [Next]_vars => Inv' /\ AloneInv'
<1> SUFFICES ASSUME Inv, AloneInv, [Next]_vars PROVE Inv' /\ AloneInv'
  OBVIOUS
<1>0. TypeOK
  BY DEF Inv
<1>1. ASSUME TypeOK' /\ Harmless PROVE Inv' /\ AloneInv'
  BY <1>1, HarmlessKeeps
<1>2. CASE UNCHANGED vars
  <2>1. TypeOK' /\ Harmless
    BY <1>0, <1>2, RowsKept DEF vars, TypeOK
  <2> QED
    BY <1>1, <2>1
<1>3. ASSUME NEW h \in Pushes, ProcessDevices(h) PROVE Inv' /\ AloneInv'
  <2>1. CASE \E d \in Reports : FindByMac(h, d)
    BY <2>1, FindByMacKeeps
  <2>2. CASE FindByIp(h)
    BY <2>2, FindByIpKeeps
  <2>3. CASE UpdateRow(h)
    BY <2>3, UpdateRowKeeps
  <2>4. CASE InsertRow(h)
    BY <2>4, InsertRowKeeps
  <2>5. CASE WriteRefused(h)
    BY <2>5, <1>0, <1>1, SkippedOk DEF WriteRefused
  <2>6. CASE SelectOffline(h)
    BY <2>6, <1>0, <1>1, SelectOfflineOk
  <2>7. CASE MarkOffline(h)
    BY <2>7, <1>0, <1>1, MarkOfflineOk
  <2> QED
    BY <1>3, <2>1, <2>2, <2>3, <2>4, <2>5, <2>6, <2>7 DEF ProcessDevices
<1>4. ASSUME NEW h \in Pushes, NEW p \in Probes, StartPush(h, p) PROVE Inv' /\ AloneInv'
  BY <1>0, <1>1, <1>4, StartPushOk
<1>5. CASE Administer
  <2>1. ASSUME NEW a \in Ips, NEW m \in Macs \cup {None}, NEW raw \in BOOLEAN,
               CreateManualItem(a, m, raw)
        PROVE  TypeOK' /\ Harmless
    BY <1>0, <2>1, CreateManualItemOk
  <2>2. ASSUME NEW i \in Ids, NEW status \in ItemStatus, UpdateItem(i, status)
        PROVE  TypeOK' /\ Harmless
    BY <1>0, <2>2, UpdateItemOk
  <2>3. ASSUME NEW S \in SUBSET Ids, DeleteItems(S) PROVE TypeOK' /\ Harmless
    BY <1>0, <2>3, DeleteItemsOk
  <2>4. ASSUME NEW p \in Probes, DeleteProbe(p) PROVE TypeOK' /\ Harmless
    BY <1>0, <2>4, DeleteProbeOk
  <2> QED
    BY <1>1, <1>5, <2>1, <2>2, <2>3, <2>4 DEF Administer
<1>6. ASSUME NEW a \in Ips, NEW m \in Macs \cup {None}, NetworkChanges(a, m)
      PROVE  Inv' /\ AloneInv'
  BY <1>0, <1>1, <1>6, NetworkChangesOk
<1> QED
  BY <1>2, <1>3, <1>4, <1>5, <1>6 DEF Next

LEMMA InvHolds == Spec => [](Inv /\ AloneInv)
BY InitInv, StepInv, PTL DEF Spec

\* Every variable keeps its type, whatever overlaps.
THEOREM TypeCorrect == Spec => []TypeOK
<1>1. Inv => TypeOK
  BY DEF Inv
<1> QED
  BY <1>1, InvHolds, PTL

\* While pushes do not overlap, the lookups keep a MAC to one discovered row:
\* OneRowPerMac for every number of devices, addresses, probes and requests.
THEOREM MacsHaveOneRow == Spec => []OneRowPerMac
<1>1. AloneInv => OneRowPerMac
  BY DEF AloneInv, OneRow, OneRowPerMac
<1> QED
  BY <1>1, InvHolds, PTL

\* Under the same condition a push changes no row of another device:
\* PushesTouchOwnRows.
THEOREM PushesChangeTheirOwnRows == Spec => PushesTouchOwnRows
<1>1. ASSUME Inv, AloneInv, [Next]_vars PROVE [OwnRowOnly]_vars
  <2> SUFFICES ASSUME Next, NEW h \in Pushes, NEW i \in Present, OneAtATime, Changes(h, i),
                      pushes[h].dev.mac # None, items[i].mac # None
               PROVE  items[i].mac = pushes[h].dev.mac
    BY <1>1 DEF OwnRowOnly
  <2>1. /\ pushes[h].pc = "write" /\ pushes' # pushes /\ items' # items
        /\ items'[i] # items[i] /\ i \in Ids /\ \A k \in Pushes : k = h
    BY DEF Changes, Present, OneAtATime
  <2>2. UpdateRow(h) \/ InsertRow(h)
    BY <2>1 DEF Next, ProcessDevices, Administer, StartPush, FindByMac, FindByIp,
       WriteRefused, SelectOffline, MarkOffline, CreateManualItem, UpdateItem, DeleteItems,
       DeleteProbe, NetworkChanges, At
  <2>3. CASE UpdateRow(h)
    <3>1. i = pushes[h].found /\ Found(h)
      BY <1>1, <2>1, <2>3, UpdateTyped DEF Inv, UpdateRow, Found
    <3>2. pushes[h].had.mac = items[i].mac
      BY <1>1, <3>1 DEF AloneInv, HadIsRow
    <3> QED
      BY <1>1, <3>1, <3>2 DEF Inv, OfDevice
  <2>4. CASE InsertRow(h)
    <3>1. items' = [items EXCEPT ![lastId + 1] = items'[lastId + 1]] /\ items \in [Ids -> Rows]
      BY <1>1, <2>4 DEF InsertRow, Insert, Inv, TypeOK
    <3>2. i = lastId + 1
      BY <2>1, <3>1
    <3>3. lastId \in Int
      BY <1>1, BoundsAssumption DEF Inv, TypeOK
    <3> QED
      BY <1>1, <2>1, <3>2, <3>3 DEF Inv, Used, Present
  <2> QED
    BY <2>2, <2>3, <2>4
<1> QED
  BY <1>1, InvHolds, PTL DEF Spec, PushesTouchOwnRows
=============================================================================
