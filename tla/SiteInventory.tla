---------------------------- MODULE SiteInventory ----------------------------
(***************************************************************************)
(* The devices of one site.  A probe scans its networks and pushes what it *)
(* found; processDevices looks each device up by its MAC, then by its      *)
(* address, updates the row or inserts one, and at the end marks offline   *)
(* the probe's rows that the push did not list.  Every query is a step:    *)
(* pushes overlap, of two probes or of one whose push is still under way,  *)
(* administrators edit the rows meanwhile, and what a push carries is the  *)
(* network as it was at the scan.                                          *)
(*                                                                         *)
(* Host names, vendors, ports, names and notes are left out, and so are    *)
(* the events and notifications that go out.                               *)
(***************************************************************************)
EXTENDS Integers

CONSTANTS
    Probes,       \* the approved probes of the site
    ArpProbes,    \* ... that see MACs; the others reach the hosts by TCP alone
    Macs, Ips,
    Pushes,       \* slots for push handlers that run at the same time
    None,         \* no MAC, nobody at an address, no probe
    MaxRows,      \* bound: rows ever inserted
    Kinds,        \* what administrators ask for: create, edit, delete, drop
    MaxRequests,  \* bound: requests of the administrators
    MaxChanges    \* bound: changes of the network

ASSUME NoneAssumption == None \notin Macs \cup Probes
ASSUME IpsAssumption == Ips # {}
ASSUME BoundsAssumption == {MaxRows, MaxRequests, MaxChanges} \subseteq Nat

VARIABLES
    items,    \* the table site_items
    lastId,   \* its sequence
    net,      \* who is at each address now
    listed,   \* the probes in the table
    pushes,   \* the handlers
    spent     \* the requests made and the changes that happened

vars == <<items, lastId, net, listed, pushes, spent>>

-----------------------------------------------------------------------------

Ids == 1 .. MaxRows
ItemStatus == {"online", "offline", "unknown", "reserved"}
\* raw: a MAC typed by an administrator in another notation than the server's.
Rows == [mac : Macs \cup {None}, raw : BOOLEAN, ip : Ips, manual : BOOLEAN,
         by : Probes \cup {None},
         status : ItemStatus \cup {"absent"}]
Reports == [ip : Ips, mac : Macs \cup {None}]
PushStates == [pc : {"free", "next", "byip", "write", "mark"},
               probe : Probes \cup {None},
               left : SUBSET Reports,    \* the devices still to process
               seen : SUBSET Ids,        \* updatedItemIds
               dev : Reports,            \* the device
               found : Ids \cup {0},     \* existingItem; 0: none
               had : Reports]            \* ... its MAC and address as read

TypeOK ==
    /\ items \in [Ids -> Rows]
    /\ lastId \in 0 .. MaxRows
    /\ net \in [Ips -> Macs \cup {None}]
    /\ listed \subseteq Probes
    /\ pushes \in [Pushes -> PushStates]
    /\ spent \in [requests : 0 .. MaxRequests, changes : 0 .. MaxChanges]

Absent == [mac |-> None, raw |-> FALSE, ip |-> CHOOSE a \in Ips : TRUE,
           manual |-> FALSE, by |-> None, status |-> "absent"]
Nothing == [ip |-> CHOOSE a \in Ips : TRUE, mac |-> None]
FreeSlot == [pc |-> "free", probe |-> None, left |-> {}, seen |-> {},
             dev |-> Nothing, found |-> 0, had |-> Nothing]

Init ==
    /\ items = [i \in Ids |-> Absent]
    /\ lastId = 0
    /\ net \in [Ips -> Macs \cup {None}]
    /\ listed = Probes
    /\ pushes = [h \in Pushes |-> FreeSlot]
    /\ spent = [requests |-> 0, changes |-> 0]

Present == {i \in Ids : items[i].status # "absent"}
\* Mutant: a device that went offline counts as unknown.
OnlineOfMac(m) == {i \in Present : /\ items[i].mac = m /\ ~items[i].raw
                                   /\ items[i].status = "online"}
\* WHERE mac = m: the server writes MACs in one notation.
OfMac(m) == {i \in Present : items[i].mac = m /\ ~items[i].raw}
AtIp(a) == {i \in Present : items[i].ip = a}

Insert(row) ==
    /\ lastId < MaxRows
    /\ lastId' = lastId + 1
    /\ items' = [items EXCEPT ![lastId + 1] = row]

-----------------------------------------------------------------------------
(* processDevices.                                                         *)

At(h, pc) == pushes[h].pc = pc

\* A scan of the network as it is: one device at an address, with its MAC or
\* without, and the push that carries it.
StartPush(h, p) ==
    /\ At(h, "free")
    /\ p \in listed
    /\ LET scan == {[ip |-> a, mac |-> IF p \in ArpProbes THEN net[a] ELSE None] :
                       a \in {b \in Ips : net[b] # None}}
       IN pushes' = [pushes EXCEPT ![h] =
                        [FreeSlot EXCEPT !.pc = "next", !.probe = p, !.left = scan]]
    /\ UNCHANGED <<items, lastId, net, listed, spent>>

\* Which row the push goes on with; all queries are .first() of no order.
Find(h, d, pc, i) ==
    pushes' = [pushes EXCEPT ![h].pc = pc, ![h].dev = d, ![h].found = i,
                             ![h].had = IF i = 0 THEN Nothing
                                        ELSE [ip |-> items[i].ip, mac |-> items[i].mac]]

FindByMac(h, d) ==
    /\ At(h, "next")
    /\ d \in pushes[h].left
    /\ LET rows == IF d.mac = None THEN {} ELSE OfMac(d.mac)
       IN IF rows = {} THEN Find(h, d, "byip", 0) ELSE \E i \in rows : Find(h, d, "write", i)
    /\ UNCHANGED <<items, lastId, net, listed, spent>>

\* The device is dealt with: its row, or none if a statement failed.
Done(h, S) ==
    pushes' = [pushes EXCEPT ![h].pc = "next", ![h].left = @ \ {pushes[h].dev},
                             ![h].seen = @ \cup S, ![h].dev = Nothing,
                             ![h].found = 0, ![h].had = Nothing]

\* Mutant: the device that takes an address over takes the row over as well.
FindByIpOnly(h) ==
    /\ At(h, "byip")
    /\ LET d == pushes[h].dev
       IN \/ AtIp(d.ip) = {} /\ Find(h, d, "write", 0)
          \/ \E i \in AtIp(d.ip) : Find(h, d, "write", i)
    /\ UNCHANGED <<items, lastId, net, listed, spent>>

\* The row at the address, unless it is known to be another device's: the alert
\* raised then always fails, since live_alerts has no column read_at, and the
\* push goes on with the next device.
OtherDevice(i, d) ==
    /\ d.mac # None /\ items[i].mac # None
    /\ items[i].mac # d.mac \/ items[i].raw

FindByIp(h) ==
    /\ At(h, "byip")
    /\ LET d == pushes[h].dev
       IN \/ AtIp(d.ip) = {} /\ Find(h, d, "write", 0)
          \/ \E i \in AtIp(d.ip) :
                IF OtherDevice(i, d) THEN Done(h, {}) ELSE Find(h, d, "write", i)
    /\ UNCHANGED <<items, lastId, net, listed, spent>>

\* Mutant: the update forgets the status.
UpdateRowStays(h) ==
    /\ At(h, "write")
    /\ pushes[h].found # 0
    /\ pushes[h].probe \in listed
    /\ Done(h, {pushes[h].found})
    /\ UNCHANGED <<items, lastId, net, listed, spent>>

\* UPDATE ... WHERE id = i with what the row had when it was read.
UpdateRow(h) ==
    /\ At(h, "write")
    /\ pushes[h].found # 0
    /\ pushes[h].probe \in listed
    /\ LET i == pushes[h].found
           d == pushes[h].dev
           had == pushes[h].had
           new == [items[i] EXCEPT
                      !.status = "online", !.by = pushes[h].probe,
                      !.mac = IF d.mac # None /\ had.mac = None THEN d.mac ELSE @,
                      !.raw = IF d.mac # None /\ had.mac = None THEN FALSE ELSE @,
                      !.ip = IF d.mac # None /\ had.ip # d.ip THEN d.ip ELSE @]
       IN /\ items' = IF i \in Present THEN [items EXCEPT ![i] = new] ELSE items
          /\ Done(h, {i})
    /\ UNCHANGED <<lastId, net, listed, spent>>

InsertRow(h) ==
    /\ At(h, "write")
    /\ pushes[h].found = 0
    /\ pushes[h].probe \in listed
    /\ Insert([Absent EXCEPT !.mac = pushes[h].dev.mac, !.ip = pushes[h].dev.ip,
                             !.by = pushes[h].probe, !.status = "online"])
    /\ Done(h, {lastId + 1})
    /\ UNCHANGED <<net, listed, spent>>

\* The probe was deleted, and the foreign key refuses the row (or the bound on
\* rows does): the push goes on with the next device.
WriteRefused(h) ==
    /\ At(h, "write")
    /\ pushes[h].probe \in listed => pushes[h].found = 0 /\ lastId = MaxRows
    /\ Done(h, {})
    /\ UNCHANGED <<items, lastId, net, listed, spent>>

\* The probe's rows that the push did not list.
Unlisted(h) ==
    {i \in Present : /\ items[i].by = pushes[h].probe /\ ~items[i].manual
                     /\ items[i].status = "online" /\ i \notin pushes[h].seen}

\* Mutant: an empty scan marks nothing.
SelectOfSeen(h) ==
    /\ At(h, "next")
    /\ pushes[h].left = {}
    /\ pushes' = [pushes EXCEPT ![h] = IF Unlisted(h) = {} \/ pushes[h].seen = {}
                                       THEN FreeSlot ELSE [@ EXCEPT !.pc = "mark"]]
    /\ UNCHANGED <<items, lastId, net, listed, spent>>

SelectOffline(h) ==
    /\ At(h, "next")
    /\ pushes[h].left = {}
    /\ pushes' = [pushes EXCEPT ![h] = IF Unlisted(h) = {} THEN FreeSlot
                                       ELSE [@ EXCEPT !.pc = "mark"]]
    /\ UNCHANGED <<items, lastId, net, listed, spent>>

\* ... selected again by the update itself.
MarkOffline(h) ==
    /\ At(h, "mark")
    /\ items' = [i \in Ids |-> IF i \in Unlisted(h)
                               THEN [items[i] EXCEPT !.status = "offline"] ELSE items[i]]
    /\ pushes' = [pushes EXCEPT ![h] = FreeSlot]
    /\ UNCHANGED <<lastId, net, listed, spent>>

-----------------------------------------------------------------------------
(* The administrators, and the network.                                    *)

Request(kind) ==
    /\ kind \in Kinds
    /\ spent.requests < MaxRequests
    /\ spent' = [spent EXCEPT !.requests = @ + 1]

\* The MAC is stored as typed; two rows of a MAC are not refused.
CreateManualItem(a, m, raw) ==
    /\ Request("create")
    /\ Insert([Absent EXCEPT !.mac = m, !.raw = raw /\ m # None, !.ip = a,
                             !.manual = TRUE, !.status = "unknown"])
    /\ UNCHANGED <<net, listed, pushes>>

\* Mutant: an edit stores whatever the request says.
UpdateItemAnything(i, status) ==
    /\ Request("edit")
    /\ i \in Present
    /\ items' = [items EXCEPT ![i].status = "retired"]
    /\ UNCHANGED <<lastId, net, listed, pushes>>

UpdateItem(i, status) ==
    /\ Request("edit")
    /\ i \in Present
    /\ items' = [items EXCEPT ![i].status = status]
    /\ UNCHANGED <<lastId, net, listed, pushes>>

\* deleteItem: one row; deleteItemsBySubnet: those of a part of the addresses.
DeleteItems(S) ==
    /\ Request("delete")
    /\ S \subseteq Present /\ S # {}
    /\ items' = [i \in Ids |-> IF i \in S THEN Absent ELSE items[i]]
    /\ UNCHANGED <<lastId, net, listed, pushes>>

\* deleteProbe: discovered_by_probe_id goes to null.
DeleteProbe(p) ==
    /\ Request("drop")
    /\ p \in listed
    /\ listed' = listed \ {p}
    /\ items' = [i \in Ids |-> IF items[i].by = p THEN [items[i] EXCEPT !.by = None]
                               ELSE items[i]]
    /\ UNCHANGED <<lastId, net, pushes>>

\* A device comes to an address, or leaves it.
NetworkChanges(a, m) ==
    /\ spent.changes < MaxChanges
    /\ spent' = [spent EXCEPT !.changes = @ + 1]
    /\ m # net[a]
    /\ net' = [net EXCEPT ![a] = m]
    /\ UNCHANGED <<items, lastId, listed, pushes>>

-----------------------------------------------------------------------------

ProcessDevices(h) ==
    \/ \E d \in Reports : FindByMac(h, d)
    \/ FindByIp(h)
    \/ UpdateRow(h) \/ InsertRow(h) \/ WriteRefused(h)
    \/ SelectOffline(h) \/ MarkOffline(h)
Administer ==
    \/ \E a \in Ips, m \in Macs \cup {None}, raw \in BOOLEAN : CreateManualItem(a, m, raw)
    \/ \E i \in Ids : \E status \in ItemStatus : UpdateItem(i, status)
    \/ \E S \in SUBSET Ids : DeleteItems(S)
    \/ \E p \in Probes : DeleteProbe(p)

Next ==
    \/ \E h \in Pushes : ProcessDevices(h) \/ \E p \in Probes : StartPush(h, p)
    \/ Administer
    \/ \E a \in Ips, m \in Macs \cup {None} : NetworkChanges(a, m)

Spec == Init /\ [][Next]_vars

\* The server finishes the pushes it has started; every probe pushes again
\* and again.
Fairness ==
    /\ \A h \in Pushes : WF_vars(ProcessDevices(h))
    /\ \A p \in Probes : SF_vars(\E h \in Pushes : StartPush(h, p))

FairSpec == Spec /\ Fairness

-----------------------------------------------------------------------------
(* Properties.                                                             *)

OneAtATime == \A h, k \in Pushes : h = k

\* No index makes a MAC unique in a site: while pushes do not overlap, the
\* lookups of processDevices alone keep a MAC to one discovered row, whatever
\* administrators delete or type in between its queries.
OneRowPerMac ==
    OneAtATime => \A i, j \in Present :
                    /\ items[i].mac = items[j].mac /\ items[i].mac # None
                    /\ ~items[i].manual /\ ~items[j].manual
                    => i = j

\* A device that takes an address over leaves the row of the device before it
\* alone: what a push says of one MAC never changes the row of another one, nor
\* gives a row another MAC, while pushes do not overlap.
Changes(h, i) == pushes[h].pc = "write" /\ pushes'[h].pc = "next" /\ items'[i] # items[i]
OwnRowOnly ==
    \A h \in Pushes, i \in Present :
        OneAtATime /\ Changes(h, i) /\ pushes[h].dev.mac # None /\ items[i].mac # None
            => items[i].mac = pushes[h].dev.mac
PushesTouchOwnRows == [][OwnRowOnly]_vars

\* A device that left goes offline, however late and overlapping pushes wrote
\* its row: when nobody has its address or its MAC any more, and the probe that
\* listed it last goes on pushing.
Left(i) == /\ i \in Present /\ ~items[i].manual
           /\ items[i].by \in listed
           /\ net[items[i].ip] = None
           /\ \A a \in Ips : net[a] # None => net[a] # items[i].mac
LeaverGoesOffline ==
    \A i \in Ids : Left(i) /\ items[i].status = "online"
                       ~> ~Left(i) \/ items[i].status # "online"

\* A device that stays is listed: its address gets an online row while some
\* probe pushes, even if rows are doubled, lost to a delete, or marked offline
\* by a push that scanned before it came; unless another device's row holds the
\* address and it has none of its own.
Blocked(a) == /\ OfMac(net[a]) = {}
              /\ \E i \in AtIp(a) : OtherDevice(i, [ip |-> a, mac |-> net[a]])
Stays(a) == /\ net[a] # None /\ \A b \in Ips \ {a} : net[b] # net[a]
            /\ listed # {} /\ ~Blocked(a)
            /\ lastId < MaxRows \/ OfMac(net[a]) \cap AtIp(a) # {}
Shown(a) == \E i \in AtIp(a) : items[i].status = "online"
StayerIsShown == \A a \in Ips : Stays(a) ~> ~Stays(a) \/ Shown(a)

\* processDevices on an address that a new device took over: "Create the new
\* device instead."  When a push is done with a device that has a MAC, there is
\* a row of that MAC, as long as no statement was refused.
NewDeviceIsCreated ==
    [][\A h \in Pushes :
          LET m == pushes[h].dev.mac
          IN /\ pushes[h].pc \in {"byip", "write"} /\ pushes'[h].pc = "next"
             /\ m # None /\ pushes[h].found = 0
             /\ pushes[h].probe \in listed /\ lastId < MaxRows
             => \E i \in Ids : items'[i].mac = m]_vars
=============================================================================
