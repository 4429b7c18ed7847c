------------------------------- MODULE LiveView -------------------------------
(***************************************************************************)
(* How the page of a site follows its devices.  A push writes the row of a *)
(* device and emits an event, unless the cache of recent events suppresses *)
(* it; the event restarts a timer in the page, and the timer loads the     *)
(* devices again.  Loads are HTTP requests: they overlap, fail, and their  *)
(* answers come in any order.                                              *)
(*                                                                         *)
(* The page is an administrator's: only they are in the room of the        *)
(* events.  A revision counts the changes of the rows and stands for what  *)
(* a load brings.  How pushes find their rows is in SiteInventory.         *)
(***************************************************************************)
EXTENDS Integers

CONSTANTS
    Devices,      \* devices of the site
    NoMac,        \* those without a known MAC address
    Probes,       \* probes of the site; each has one push at a time
    Primary,      \* the primary ones
    Loads,        \* slots of loads under way
    MaxChanges,   \* bound: changes of rows
    MaxDrops      \* bound: connections lost, loads that fail

ASSUME NoMacAssumption == Devices # {} /\ NoMac \subseteq Devices /\ Primary \subseteq Probes
ASSUME DropsAssumption == MaxChanges \in Nat /\ MaxDrops \in Nat

VARIABLES
    rows,        \* status of each device, and the probe that saw it last
    revision,    \* changes so far
    pushing,     \* the handlers of the pushes
    dedupCache,
    connected,   \* the page's socket
    event,       \* an event is under way to it
    timer,       \* of the page
    loads,
    shown,       \* the revision on the page
    newest,      \* history: the newest revision that was ever on it
    announced,   \* history: the last change was told to a connected page
    drops        \* connections lost and loads failed so far

viewVars == <<rows, revision, pushing, dedupCache, connected, event, timer, loads, shown,
              newest, announced, drops>>
pageVars == <<connected, timer, loads, shown, newest, drops>>

-----------------------------------------------------------------------------

Statuses == {"none", "offline", "online"}
ChangeTypes == {"new", "online", "offline"}
CacheKeys == (Devices \ NoMac) \cup {"null"}
CacheKey(d) == IF d \in NoMac THEN "null" ELSE d

\* What a push found in the row, and whether it lists the device.
PushStates == [pc : {"idle", "write", "emit"}, device : Devices, old : Statuses, listed : BOOLEAN]
LoadStates == [pc : {"free", "asked", "read"}, revision : 0 .. MaxChanges]

ViewTypeOK ==
    /\ rows \in [Devices -> [status : Statuses, by : Probes]]
    /\ revision \in 0 .. MaxChanges
    /\ pushing \in [Probes -> PushStates]
    /\ dedupCache \in [CacheKeys \X ChangeTypes -> {"none", "primary", "other"}]
    /\ {connected, event, timer, announced} \subseteq BOOLEAN
    /\ loads \in [Loads -> LoadStates]
    /\ shown \in 0 .. MaxChanges /\ newest \in shown .. MaxChanges
    /\ drops \in 0 .. MaxDrops

IdlePush == [pc |-> "idle", device |-> CHOOSE d \in Devices : TRUE, old |-> "none",
             listed |-> FALSE]
FreeLoad == [pc |-> "free", revision |-> 0]

\* The page has loaded the devices there are.
ViewInit ==
    /\ rows \in [Devices -> [status : {"none", "online"}, by : Probes]]
    /\ revision = 0
    /\ pushing = [p \in Probes |-> IdlePush]
    /\ dedupCache = [k \in CacheKeys \X ChangeTypes |-> "none"]
    /\ connected = TRUE /\ event = FALSE /\ timer = FALSE
    /\ loads = [l \in Loads |-> FreeLoad]
    /\ shown = 0 /\ newest = 0
    /\ announced = TRUE
    /\ drops = 0

-----------------------------------------------------------------------------
(* The server.                                                             *)

\* The row of a device that the push lists, or one that it does not list while
\* the row says online and was the probe's.
PushReads(p, d) ==
    /\ pushing[p].pc = "idle" /\ revision < MaxChanges
    /\ \E listed \in BOOLEAN :
          /\ listed \/ (rows[d].status = "online" /\ rows[d].by = p)
          /\ pushing' = [pushing EXCEPT ![p] = [pc |-> "write", device |-> d,
                                                old |-> rows[d].status, listed |-> listed]]
    /\ UNCHANGED <<pageVars, rows, revision, dedupCache, event, announced>>

\* The primary's word goes through where another's was told.
ShouldDedup(p, key) ==
    /\ dedupCache[key] # "none"
    /\ ~(p \in Primary /\ dedupCache[key] = "other")

\* An event to nobody is lost.
Emit ==
    /\ event' = (event \/ connected)
    /\ announced' = connected

\* A device that goes offline has to be online still, and this probe's; a listed
\* one is written whatever its row says by now.  Nothing is told of one that the push
\* found as it writes it.
PushWrites(p) ==
    LET d == pushing[p].device
        status == IF pushing[p].listed THEN "online" ELSE "offline"
        applies == pushing[p].listed \/ (rows[d].status = "online" /\ rows[d].by = p)
        changes == applies /\ rows[d].status # status
    IN /\ pushing[p].pc = "write"
       /\ changes => revision < MaxChanges
       /\ pushing' = [pushing EXCEPT ![p] = IF @.old = status THEN IdlePush
                                           ELSE [@ EXCEPT !.pc = "emit"]]
       /\ rows' = IF applies THEN [rows EXCEPT ![d] = [status |-> status,
                                                      by |-> IF pushing[p].listed THEN p ELSE @.by]]
                  ELSE rows
       /\ revision' = IF changes THEN revision + 1 ELSE revision
       /\ announced' = (announced /\ ~changes)
       /\ UNCHANGED <<pageVars, dedupCache, event>>

\* What it has found in the row decides what is told, not what it has written.
PushEmits(p) ==
    LET key == <<CacheKey(pushing[p].device), IF pushing[p].old = "none" THEN "new" ELSE "online">>
    IN /\ pushing[p].pc = "emit"
       /\ pushing' = [pushing EXCEPT ![p] = IdlePush]
       /\ \/ /\ ~pushing[p].listed
             /\ Emit
             /\ UNCHANGED dedupCache
          \/ /\ pushing[p].listed /\ ~ShouldDedup(p, key)
             /\ Emit
             /\ dedupCache' = [dedupCache EXCEPT
                                  ![key] = IF p \in Primary THEN "primary" ELSE "other"]
          \/ /\ pushing[p].listed /\ ShouldDedup(p, key)
             /\ UNCHANGED <<event, announced, dedupCache>>
       /\ UNCHANGED <<pageVars, rows, revision>>

\* The statement fails or, for a device that is new, the one for the history of its
\* addresses that comes between the insert and the event.
PushFails(p) ==
    /\ \/ pushing[p].pc = "write"
       \/ pushing[p].pc = "emit" /\ pushing[p].listed /\ pushing[p].old = "none"
    /\ pushing' = [pushing EXCEPT ![p] = IdlePush]
    /\ UNCHANGED <<pageVars, rows, revision, dedupCache, event, announced>>

\* Sixty seconds.
Expires(key) ==
    /\ dedupCache[key] # "none"
    /\ dedupCache' = [dedupCache EXCEPT ![key] = "none"]
    /\ UNCHANGED <<pageVars, rows, revision, pushing, event, announced>>

-----------------------------------------------------------------------------
(* The page.                                                               *)

serverVars == <<rows, revision, pushing, dedupCache>>

\* The timer starts again.
Receive ==
    /\ event
    /\ event' = FALSE /\ timer' = TRUE
    /\ UNCHANGED <<serverVars, connected, loads, shown, newest, announced, drops>>

\* Mutant: nothing is loaded while a load is under way.
TimerFiresAlone ==
    /\ timer
    /\ timer' = FALSE
    /\ loads' = IF \A l \in Loads : loads[l].pc = "free"
                THEN [loads EXCEPT ![CHOOSE l \in Loads : TRUE].pc = "asked"] ELSE loads
    /\ UNCHANGED <<serverVars, connected, event, shown, newest, announced, drops>>

TimerFires ==
    /\ timer
    /\ timer' = FALSE
    /\ \E l \in Loads : loads[l].pc = "free"
    /\ loads' = [loads EXCEPT ![CHOOSE l \in Loads : loads[l].pc = "free"].pc = "asked"]
    /\ UNCHANGED <<serverVars, connected, event, shown, newest, announced, drops>>

LoadReads(l) ==
    /\ loads[l].pc = "asked"
    /\ loads' = [loads EXCEPT ![l] = [pc |-> "read", revision |-> revision]]
    /\ UNCHANGED <<serverVars, connected, event, timer, shown, newest, announced, drops>>

\* Whatever the page shows, the answer replaces it.
LoadArrives(l) ==
    /\ loads[l].pc = "read"
    /\ loads' = [loads EXCEPT ![l] = FreeLoad]
    /\ shown' = loads[l].revision
    /\ newest' = IF shown' > newest THEN shown' ELSE newest
    /\ UNCHANGED <<serverVars, connected, event, timer, announced, drops>>

Drop == drops < MaxDrops /\ drops' = drops + 1

\* A message is shown; the page keeps what it has.
LoadFails(l) ==
    /\ Drop
    /\ loads[l].pc # "free"
    /\ loads' = [loads EXCEPT ![l] = FreeLoad]
    /\ announced' = FALSE
    /\ UNCHANGED <<serverVars, connected, event, timer, shown, newest>>

\* What is under way is lost, and the page does not load again when it is back.
LosesConnection ==
    /\ Drop
    /\ connected
    /\ connected' = FALSE /\ event' = FALSE
    /\ announced' = (announced /\ ~event)
    /\ UNCHANGED <<serverVars, timer, loads, shown, newest>>

Reconnects ==
    /\ ~connected
    /\ connected' = TRUE
    /\ UNCHANGED <<serverVars, event, timer, loads, shown, newest, announced, drops>>

-----------------------------------------------------------------------------

Load(l) == LoadReads(l) \/ LoadArrives(l)
Page == Receive \/ TimerFires \/ \E l \in Loads : Load(l)
ViewNext ==
    \/ \E p \in Probes : \/ \E d \in Devices : PushReads(p, d)
                         \/ PushWrites(p) \/ PushEmits(p) \/ PushFails(p)
    \/ \E key \in CacheKeys \X ChangeTypes : Expires(key)
    \/ Page \/ LosesConnection \/ Reconnects
    \/ \E l \in Loads : LoadFails(l)

ViewSpec == ViewInit /\ [][ViewNext]_viewVars

\* The page takes what arrives, events pause for long enough that its timer fires,
\* and each of its requests is answered.
ViewFairness ==
    /\ WF_viewVars(Receive) /\ WF_viewVars(TimerFires)
    /\ \A l \in Loads : WF_viewVars(Load(l))

ViewFairSpec == ViewSpec /\ ViewFairness

-----------------------------------------------------------------------------
(* Properties.                                                             *)

\* If the last change was told to the page, and no load failed since, the page
\* comes to show it, or an older answer has overtaken the newer one.
PageCatchesUp == <>[](announced => shown = revision \/ shown < newest)
=============================================================================
