# Oblimap in TLA+

A verification project for [Oblimap](../src/README.md), a network inventory (IPAM) made of a
TypeScript server with a PostgreSQL database, Go probes that scan the networks of sites and push what
they find, and a web client. The modules here model the server's and the probe's logic; TLC checks
them on small instances, TLAPS proves the safety properties, and a refinement, for every value of the constants.

Paths below are relative to `src/`. `PROJECT.json` maps every definition to the lines it models.

| module | models | checked by | proved in |
| --- | --- | --- | --- |
| `ProbeCommands` | an administrator's command on its way to a probe, and the end of uninstalled probes | `ProbeCommands*.cfg` | `ProbeCommandsProofs` |
| `GroupTree` | the tree of groups and its closure table | `GroupTree*.cfg` | `GroupTreeProofs` |
| `PrimaryElection` | the primary probe of a site | `PrimaryElection*.cfg` | `PrimaryElectionProofs` |
| `Tunnels`, implementing `TunnelLifecycle` | opening, closing and cleaning up tunnels; what may become of a tunnel's status | `Tunnels*.cfg` | `TunnelsProofs` |
| `SiteInventory` | the devices of a site under overlapping pushes | `SiteInventory*.cfg` | `SiteInventoryProofs` |
| `ProbeConfig` | settings on their way to a probe | `ProbeParts.cfg` | `ProbePartsProofs` |
| `ProbeConnection` | the goroutines of a probe's WebSocket connection | `ProbeParts.cfg` | `ProbePartsProofs` |
| `ProbeUpdate` | the self-update of a probe and its badge | `ProbeParts.cfg` | `ProbePartsProofs` |
| `ProbeHub` | the sockets of a probe and the hub's entry for it | `ServerParts.cfg` | `ServerPartsProofs` |
| `TunnelRelay` | the data path of a tunnel | `ServerParts.cfg` | `ServerPartsProofs` |
| `LiveView` | how a site's page follows its devices | `ServerParts.cfg` | `ServerPartsProofs` |
| `FlowTable` | counting the reported connections | `ServerParts.cfg` | `ServerPartsProofs` |
| `TeamAccess` | the list of groups a user is shown | `ServerParts.cfg` | `ServerPartsProofs` |
| `SingleSignOn` | accounts of people who sign in by Obligate | `ServerParts.cfg` | `ServerPartsProofs` |

`NatRecursion` holds lemmas on induction and recursion over the naturals for the proofs. `MC<module>` instantiates a module for TLC; `MCProbeParts` and `MCServerParts` hold several parts, one of
which moves in each behaviour.

To check a module: `tlc -config ProbeCommands.cfg MCProbeCommands.tla`; to check proofs:
`tlapm ProbeCommandsProofs.tla`; for the parts: `tlc -config ServerParts.cfg MCServerParts.tla`.

## 1. The system

### Components, their state and what makes them correct

**Probe service** (`server/src/services/probe.service.ts`, routes in
`controllers/probe.controller.ts`). State: table `probes` (identity, site, status, `is_primary`,
`pending_command`, `uninstall_commanded_at`, `updating_since`, `last_seen_at`), and a cache against
repeated device events in memory. Operations: `handlePush` (register or refresh the probe, elect the
primary of its site, store devices and flows, take the pending command, answer with configuration and
latest version), `updateProbe`, approve / refuse / delete and their bulk forms, `sendCommand` /
`bulkCommand`, and two periodic jobs (`cleanupUninstalledProbes`, `cleanupStuckUpdating`). It has no
transaction and no lock: every `await` is a point where other handlers run. Correct means: a command is
not run twice and not lost for ever; a probe that removed itself disappears from the list, one that did
not stays; a site has one primary, and one that works.

**Probe hub** (`services/probeHub.service.ts`, upgrade in `index.ts`). State: `byProbeId`, the one
command WebSocket of each probe; `tunnelDataWs` and `tunnelCallbacks`. Operations: register and replace a
connection, dispatch its messages (a push over the WebSocket goes to `handlePush`), send to a probe,
await a tunnel's answer. It awaits the database between entering the connection in the map and
attaching its listeners. Correct means: the map names live connections, answers go to the right waiter.

**Site inventory** (`processDevices` and its neighbours in `probe.service.ts`,
`services/site.service.ts`). State: tables `sites`, `site_items` (devices by address and MAC, online
status, discovering probe) and `site_item_ip_history`. Operations: merge a push's devices into the
table (by MAC, then by address), mark the missing ones offline, detect unstable addresses, manual
edits. `site_items` has no unique index. Correct means: a device is one row, a manual entry survives
pushes, and a device is offline only when no probe of its site has seen it.

**Groups** (`services/group.service.ts`). State: `monitor_groups.parent_id` and the closure table
`group_closure`. Operations: create, move, delete, and the readings along the closure that settings,
notifications and permissions use. No transaction. Correct means: the two tables tell of one tree.

**Tunnels** (`services/tunnel.service.ts`, `routes/tunnel.routes.ts`, `probe/tunnel.go`). State: table
`tunnels` with a status (opening, active, closed, error) and, in the hub, the data WebSocket. Operations:
open (limits per user and tenant, choice of a probe, `tunnel_open` and its answer or timeout), proxying,
close, cleanup; on the probe: relay between the data WebSocket and the target. Correct means: limits
hold, an opening is decided once, every tunnel frees its place in the end, no relay survives its tunnel.

**Probe process** (`probe/main.go`, `push.go`, `ws.go`, `service_stub.go`). State: a configuration file
and, in memory, the backoff, the connection and the last scan. It tries a WebSocket once after its first
push, and falls back to polling over HTTP for good; a WebSocket is re-established for ever. Each
connection has goroutines for reading, scanning and pushing. It runs `uninstall`, `update` and scan
commands and replaces its own binary. Correct means: it keeps pushing, runs a command it is given,
and leaks no goroutine.

**Settings, notifications, permissions** (`settings.service.ts`, `notification.service.ts`,
`permission.service.ts`, `team.service.ts`). Mostly pure functions over tables: values, channel bindings
(merge, replace, exclude) and rights inherited from the global scope down the chain of groups. Correct
means: the nearest definition wins, what the interface shows is what a send uses.

**Accounts** (`auth.service.ts`, `routes/obligateCallback.routes.ts`, `services/obligate.service.ts`). State:
`users`, `sso_foreign_users`, sessions, and what Obligate, the identity provider, remembers of an account.
Operations: login, second factor, reset, and sign-in by way of Obligate, which finds, makes and links an
account and reports it back. Correct means: everyone gets into their own account, and into no other.

**Flows** (`services/flow.service.ts`) count the connections that probes report, check-then-insert.

**Live alerts, tenants, import and export** keep rows of their own, written by one request at a time.

**Web client** (`client/src`). Pages load what they show and load it again after an event of the server's
socket. Notification plugins, the legacy agent and installers hold no logic that these models need.

### How they interact

- A probe pushes over HTTP (`/probe/push`) or over its WebSocket; both end in `handlePush`, whose
  result returns as the HTTP response, or as a `config_update` message on whatever WebSocket the probe
  has by then.
- An administrator's command is stored in the row, and sent over the WebSocket if there is one. So a
  command has two roads, and the row is where they meet.
- The jobs in `index.ts` delete or reset rows that the handlers stamped.
- Groups are read by settings, notifications and permissions through `group_closure`; the web client
  draws the tree from `parent_id`.
- Deleting a site sets `site_id` of its probes to null; deleting a group sets the `parent_id` of its
  children to null and removes its closure rows (foreign keys of the schema).

### What is hard

Handlers that interleave at every `await` without transactions; state read before an `await` and
written after it (`pending_command`, the site's primary, the closure rows of a subtree); requests
that time out on one side and go on at the other; half-open connections; rows and ids that go away
while a handler holds them; statements that fail half-way through a change of two tables.
`PROJECT.json` lists each such hazard at its line, with the properties that would catch it, or why
none does yet.

## 2. The modules

### ProbeCommands

One probe, seen from both ends. The server's side is the row (`row`: id, pending command, stamp), the
requests under way (`reqs`), the push handlers under way (`pushes`) and the hub's entry (`link`).
Each handler is a small program counter; each `await` that reads or writes the row is one action, in the
order of the code:

| action | code |
| --- | --- |
| `SendStore`, `SendOverWs` / `SendLeaveQueued`, `SendClear` | `sendCommand`, and the loop of `bulkCommand` for one probe |
| `PushLookup`, `PushRegister` / `PushRefresh`, `PushReread`, `PushClear`, `PushReply*` | `handlePush` |
| `PushRegisterConflict`, `PushRereadGone` | a handler that throws: the unique uuid, a row deleted since its lookup |
| `AdminDelete`, `TenMinutesPass`, `CleanupUninstalledProbes` | `deleteProbe` / `bulkDelete`, the job of `index.ts` |

The probe's side is its process (`probe`: booting, polling over HTTP, on its WebSocket, gone; and the
HTTP request it waits for) and the messages to it (`down`). `HttpGiveUp` is the client's timeout while the
handler goes on; `WsBreaks` may leave the server with a half-open connection into which messages vanish;
`Restart` boots the process again. A probe that is polling stays so until it restarts, as in `mainLoop`.
A message of type `config` carries a command that `handleWsMsg` does not decode (`Heeded`).

A command is stood for by its request, so that the history `ran` counts per request and per road how
often the probe ran it. Whether an update re-executes the process or fails is open.

### GroupTree

`parent` and `closure` are the two tables, `closure[a][d]` the depth of row (a, d). Each statement of
`create` and `move` is a step of a slot in `calls`; `Delete` is one statement with what the foreign keys
do. A statement that the database refuses (the primary key of the closure table, the foreign key of
`parent_id`) ends the call and leaves what it did. A move's target may be any id that was ever given: a
client may name a group that another has deleted.

Three next-state relations tell apart what is claimed of what: `Next` lets calls interleave and deletes
any group; `SerialNext` has one call at a time and moves only to groups that exist; `CarefulNext`
deletes only groups without children as well.

### PrimaryElection

The table `probes` with the columns of the election, the table `sites`, push handlers and administrators'
requests statement by statement: `handlePush` from lookup to promotion or takeover, `updateProbe` (only an
update that promotes reads first), `approveProbe` / `refuseProbe`, `deleteProbe`, `deleteSite`. A probe
has been seen lately or long ago (more than five minutes, the threshold of a takeover);
`FiveMinutesPass` ages it, `SwitchOff` ends its pushes. `PushFinds` picks any primary of the site, as
`.first()` of a query without an order does. `Next` interleaves, `SerialNext` has one call at a time, and
in `CarefulNext` no update brings a primary to a site, nor makes a probe primary as it brings it there.

### Tunnels and TunnelLifecycle

`rows` is the table of one tenant. A slot of `calls` is an `openTunnel` under way: it counts the user's
tunnels (`CountUser`), the tenant's (`CountTenant`), picks a probe (`SelectProbe`: whichever of the
connected ones, as the choice by discovery, role and load is a matter of taste to the properties), inserts
(`Insert`), sends and waits (`Send`, then `Answered` or `TimesOut`), and writes the outcome (`MarkError`,
`MarkActive`). A call that cannot be heard (no connection, or a half-open one) is `unheard` and can only
time out. `CloseRead` and `CloseUpdate` are the two statements of `closeTunnel`, `Cleanup*` those of
`cleanupStaleTunnels`, which works down a list it read before. `links` is the hub's map with half-open
connections; `ServerRestart` keeps only the table. Age is young or old (thirty minutes), counted from
`created_at` as the query does, although its comment says "inactive".

`TunnelLifecycle` is the promise: a tunnel opens, its opening is decided once (active or error) unless a
restart abandons it, any set of tunnels may be closed at any time. What it leaves out is as telling: nothing
makes `closed` final, because `MarkActive` writes whatever it finds; but only an opening that is under way can
bring a tunnel back. `Tunnels` maps to it by `status` and by the tunnels its calls hold (`undecided`).

### SiteInventory

`items` is the table, a row per id that was given; `net` says which device has each address, and changes
under the probes. A push (`pushes`) carries the network as it was when the probe scanned it, with MACs or, from a
probe that has no ARP table, without. `processDevices` is taken query by query: `StartPush`, then per
device the lookup by MAC, the lookup by address, the write; then the marking of the probe's rows that were
not listed. A statement that the database refuses (the probe was deleted, the alert of a takeover) is
caught as in the code and the loop goes on. Administrators create, edit and delete rows and delete probes
between any two queries.

### ProbeConfig, ProbeConnection, ProbeUpdate

`ProbeConfig`: `settings` holds the overrides of each level (global, groups, site, probe); a slot of `builds` is a push or an
edit under way that reads the levels one by one (`Build`) and answers by HTTP or the WebSocket;
`since` remembers what was set sometime, or all the time, during the read. The probe is approved and belongs to a site.
An edit of its own row (`updateProbe`) sends the configuration too, and leaves a waiting command in the row, which a push takes out.
A build may fail at any statement (`BuildFails`): over HTTP the probe decodes the error reply as an answer without a configuration and
forgets its subnets until the next push. Two settings stand for the two ways out of the table: the column is text,
and an array in it is parsed again, a number is not — the probe refuses a number that comes as a string.

`ProbeConnection`: the ticker, the worker, the heartbeat and the reader of `wsRun`, the channels `scanTrigger`
and `done` of one place each, and `wsMu`. `SocketDies` lets a write hang or fail. The first send of the ticker is outside any select: if two
`rescan` commands come before it and the worker has ended, it waits for ever, and when the heartbeat has ended as well so does the reader,
and the probe never reconnects (`TickerOvertaken`).

`ProbeUpdate`: goroutines of `applyUpdate` with the file they write (`files`, `names`, as the file system sees them:
a name opened with truncation while another goroutine writes is the same file, a renamed one is the
executable), crashes at any point, the notice to the server and the badge (`updating_since`) with the push that
reads and writes it. Unix only.

### ProbeHub, TunnelRelay, LiveView, FlowTable, TeamAccess, SingleSignOn

`ProbeHub`: each socket a probe dials, from both ends (`near`, `far`), the two awaits before the server registers
it and the one before it listens, and `entry`, the probe's place in `byProbeId`.

`TunnelRelay`: `handleTunnelOpen`, `tunnelRelay` and its two goroutines, `handleTunnelClose` between the map and
`close(done)`, the data WebSocket with its two ends, the server's proxied requests with their listeners and
timers. What `proxyHandler` awaits outside its `try` (the lookup of the tunnel, the body) may reject; the server runs on Node 24 without a handler
of such rejections, so the process ends, and every request under way is lost (`ServerEnds`).

`LiveView`: pushes write a row (a device that goes offline only if it is still online and theirs) and then emit what they had found at the
read, unless the cache suppresses it or a statement in between fails; the page restarts its timer on an event;
a load reads the rows at one time and is answered at another. `revision` counts the changes.

`FlowTable`: per reported flow the lookup, then the increment or the insert; failing statements and clearings of the table, or of the rows of
a subnet, between.
`MaxRows` bounds the inserts; in the run it is as many as three reports of two flows can make, and cuts nothing off.

`TeamAccess`: the five queries of `getVisibleGroupIds` against transactions of `setPermissions` at read
committed (a delete takes the rows that were there when it began, and waits for those that another transaction
is deleting), single grants added and removed, changes of members (of `setMembers`, what it does to this user), groups and the tree. Grants
that a transaction replaces by themselves (`Replaced`) count as kept. The query of grants of scope `monitor` is left out, as it throws.

`SingleSignOn`: the callback query by query (`Exchange`, `FindLinked` or `FindLink` and `FindOwn`, `Unlink`,
`Insert`, `Link`, `Finish`), the reports to Obligate and its deletions as calls under way that arrive in any
order or not at all. `gate` is what Obligate remembers. All persons have one user name, one after the other.

## 3. What is checked

| run | specification and bounds | properties |
| --- | --- | --- |
| `commands` | `Spec`; 2 requests (update or uninstall), 2 push slots, 2 registrations, 1 message under way | `TypeOK`, `OncePerRoad`, `UninstalledIsStamped` |
| `commands_live` | `FairSpec`; 1 request, 2 push slots | `UninstalledIsReaped`, `QueuedIsTaken` |
| `groups` | `CarefulSpec`; 5 groups, 1 call | `ClosureMirrorsParents`, `DepthIsDistance`, `MoveLinksFit` |
| `groups_calls` | `Spec`; 3 groups, 2 calls | `NothingDangles` |
| `election` | `CarefulSpec`; 3 probes, 2 sites, 1 push, 2 requests | `OnePrimary`, `PushLeavesPrimary` |
| `election_live` | `LiveSpec`; 2 probes, 1 site, 2 pushes, 1 request | `PrimaryReturns` |
| `tunnels` | `Spec`; 4 tunnels, 2 users, 1 probe, 2 openings, limits 1 and 2, no `closeTunnel`, no restart | `TypeOK`, `UserLimit`, `TenantLimit` |
| `tunnels_live` | `FairSpec`; 2 tunnels, 1 user, 1 probe, 2 openings, limits 1, 1 close at a time, 1 restart | `ImplementsLifecycle`, `SlotsAreFreed` |
| `inventory` | `Spec`; 2 probes of which 1 sees MACs, 2 devices, 2 addresses, 1 push, 4 rows, 1 request, 1 change of the network | `TypeOK`, `OneRowPerMac`, `PushesTouchOwnRows` |
| `inventory_live` | `FairSpec`; 2 probes, 2 devices, 1 address, 2 pushes, 2 rows, 1 deletion, 1 change | `LeaverGoesOffline`, `StayerIsShown` |
| `probe_parts` | `Spec` of `MCProbeParts`; see below | `ProbePartsTypeOK`, `NearestWins`, `ExeIsWhole`, `ConfigCatchesUp`, `ConnectionEnds`, `RunningProbeIsUpdated`, `UpdatedBadgeEnds` |
| `server_parts` | `Spec` of `MCServerParts`; see below | `ServerPartsTypeOK`, `DoneClosedOnce`, `FlowsAddUp`, `ListIsOfItsTime`, `OwnAccount`, `ConnectedStaysRegistered`, `DialingProbeSettles`, `NothingIsLeft`, `RequestsAreAnswered`, `PageCatchesUp`, `PersonGetsIn` |

**Commands.** `OncePerRoad`: neither two overlapping pushes, nor a push repeated after a timeout, nor a
reconnected WebSocket makes the probe run a command twice by the same road. (By *both* roads it can: a
command sent over the WebSocket is still in the row until the request clears it.)
`UninstalledIsStamped`: when the uninstall has run, the row it was sent through is gone, stamped, or about
to be stamped. Its liveness twin `UninstalledIsReaped` says that the row does go, and
`QueuedIsTaken` that a queued command leaves the row of a probe that lives. Two requests
are what it takes for one command to overwrite or wipe another, two push slots for handlers to
race, two registrations for a handler to hold an id that is gone, and an update to restart
the process in the middle; a third of each adds only repetitions of these. The commands `rescan` and `update` differ
in that an update may restart the process; the runs take the one that can do more.

**Groups.** `ClosureMirrorsParents` is the meaning of a closure table said one step up at a time;
`DepthIsDistance` compares it with the definition by walking up. Five groups give every forest in which a
subtree with inner structure moves between subtrees. `NothingDangles` is what survives
interleaved calls; with three groups and two calls a create or move meets a delete, a move or another
create at each of its statements. `MaxDepth` is the number of groups: rows left over from interleaved
moves could get deeper with every move, and the bound cuts those off.

**Election.** `OnePrimary` and `PushLeavesPrimary` (an approved probe's push leaves its site with a
primary) hold for calls one at a time and fail without that, see below. Three probes on two sites let
a third take over from the first two, two requests let a promotion follow a deletion, an approval or
a move. `PrimaryReturns` is checked with pushes that overlap with each other and with one request: the
double promotions this allows do not keep a site from getting a primary that pushes. Its run starts with
probes that are new or approved, as the others only add states in which nobody stands for election.

**Tunnels.** Counting and inserting are apart, so overlapping openings pass the limit together.
`UserLimit` and `TenantLimit` say by how much: as many more as openings overlap with the one that counted. That
also covers a tunnel closed during its opening (its place is free, others take it, and then it comes back), which
might be thought to add up without end. `SlotsAreFreed`: every tunnel stops to count, for good — by its
end, by the cleanup of disconnected probes, or by age; what a restart or a late `MarkActive` left
is taken by a later run of the job. In the run of the limits each user may have one tunnel and the tenant two, so that neither limit implies
the other; with two openings at a time the tenant's can be overtaken by the third tunnel, and a fourth
would be too many. There the cleanup is what closes tunnels, also while they open; `closeTunnel` and restarts
beside the limits are left to the proof, which covers both.

**Inventory.** No index keeps a MAC to one row. `OneRowPerMac` and `PushesTouchOwnRows` claim that the lookups do,
while pushes do not overlap, whatever administrators do between the queries; two overlapping pushes insert a
device twice, which is why the properties are guarded by `OneAtATime`. `LeaverGoesOffline` and `StayerIsShown` are about
all interleavings, doubled rows and late pushes included. Their exceptions are cases in which the code never does it:
a row whose probe was deleted, as only the pushes of that probe mark it offline; a device at an address
whose row is another device's (see the disagreements). Two devices on two addresses let them swap, one change lets one of
them leave, come or move; two probes are what it takes for one to take a row of the other over, and for one without ARP to
meet rows with MACs. With one address and two pushes the live run has every overlap on one row.

**The parts of the probe.** `NumGroups = 0` leaves three levels (global, site, probe), enough for a nearer override to come or go on either
side of the one being read; two handlers at a time; one edit and one loss. `NearestWins`: although the levels are read
one after the other, the value is one that its level had during the read, and no nearer level was set throughout.
`ConfigCatchesUp`: whatever is lost or overtaken, the probe comes to run what is in force, if it can be delivered.
`ConnectionEnds` with two rescans, which is what fills `scanTrigger` beside the ticker: when the socket dies all goroutines but a waiting
worker end. The exception is a ticker that two rescans overtake before its first send: it waits on a channel
that nobody empties, and the reader may then wait for ever, too. `ExeIsWhole`: with two downloads of two chunks, crashes and failures, the executable is
whole unless downloads overlapped (then it need not be, and the code has no guard). `RunningProbeIsUpdated` and
`UpdatedBadgeEnds`: the new version comes, and its badge goes, even when the notice arrives after the push of the new
version; only the job `cleanupStuckUpdating` does that.

**The parts of the server.** Five sockets, of which two may break, so that three of them can settle and one more be under way at each end:
`ConnectedStaysRegistered` (a registered socket loses its entry only by closing or being replaced and closed, though older
sockets close at any time), `DialingProbeSettles`. One tunnel, two requests, two closes, two pieces under way: `DoneClosedOnce` (a
second close of the channel ends the process), `NothingIsLeft`, `RequestsAreAnswered` (one status line each in the end, unless the
request is lost with the server's process). One
device, two probes one of which is primary, two loads, two changes, one loss: `PageCatchesUp` (a change that the cache suppresses counts as not announced); its second disjunct
is an older answer that overtakes a newer one, which nothing in the page prevents. That devices without a MAC share a
key of the cache needs two of them: the run with `Devices = {d1, d2}` and `NoMac = {d1, d2}` passes as well, but is too
long to repeat each time. Two flows, two handlers, three reports (so six rows), one clearing: `FlowsAddUp` (however rows double, no
report is lost or counted twice). A chain of three groups, two teams, two transactions, two changes: `ListIsOfItsTime`
(what the user could see all along is listed, grants replaced by themselves included; what is listed rests on a
membership, a grant and a place in the tree that were each there during the read. The three need not have been there together: with a grant on g1 read
and then removed, and g2 moved below g1 before the next query, g2 is listed, though it never was the user's). Two persons, two sign-ins, one mishap:
`OwnAccount` (nobody gets the account of a predecessor of the same name) and `PersonGetsIn` (whoever tries again gets in). The
latter excepts a name that stays taken: by a sign-in that ended between its two inserts, for which the code has no remedy,
or by an account of a predecessor that Obligate was not told of or whose deletion was lost. It passes with two mishaps, too.

### Fairness

Weak fairness of the handlers' steps: Node finishes what it has started, a statement at a time. Weak
fairness of the jobs and of the passing of time. Weak fairness of reconnecting: `wsMainLoop` tries for
ever. Strong fairness of pushing: `mainLoop` pushes again and again whatever happened to the last push,
but a push can start only when there is a free slot, a connection or no request under way, so that it may be disabled
in between infinitely often. Failures are not fair: a connection need not break. In `commands_live`
`HttpGiveUp` is weakly fair, as the client's timeout is bound to fire when no answer comes.
In `tunnels_live` an opening goes on (the timeout fires, so that it never waits for ever), `closeTunnel`
writes what it set out to write, the job runs again and again and tunnels age; no answer, connection, request to open or to close
is fair.

In `inventory_live` started pushes go on (weak) and every listed probe pushes again (strong: a slot is not always free).
In the parts each goroutine or handler that can go on does; the reader gets `wsMu` in the end (strong, for a lock that others keep
taking); the server need never notice that a probe is gone, as there is no read deadline on its side; an orderly close
of a data WebSocket arrives, a broken one need not; the page takes events, events pause for longer than the 1.5 s
of its timer, so that this fires, and loads are answered or fail; a person signs
in again and again, Obligate's calls arrive unless lost.

In `MCProbeParts` and `MCServerParts` one part moves in a behaviour, and `Turn(n)` numbers the actions, `Turns` of them at most, to which each part's own
specification is fair. Since the others are never enabled, fairness to `Turn(n)` is fairness to that part's action;
`DialingProbeSettles`, `RunningProbeIsUpdated` and `PersonGetsIn` are a part's property under the condition that it moves. The other temporal
properties hold of a part at rest as well.

`CHECK_DEADLOCK` is off where a bound (requests, ids, changes) ends a behaviour legitimately: all requests made, probes
gone, ids used up.

### Disagreements found

Five kept configurations end with a counterexample that shows the code against its own words. They are not among the
runs that have to pass.

1. `ProbeCommandsReaped.cfg` (`ReapedOnlyIfDelivered`): an uninstall queued before the probe is on its WebSocket is taken by a push that
   comes over the WebSocket. The answer is a `config_update` that carries the command
   (`probeHub.service.ts:137-153`), of which the probe decodes the configuration and the version only
   (`probe/ws.go:241-272`). The row is stamped as if the command was delivered, and deleted ten minutes
   later, while `index.ts:120` says "whose uninstall command was delivered". The same loss befalls every
   other queued command.
2. `GroupTreeDelete.cfg` (`ClosureMirrorsParents`): `group.service.ts:201` says the database cascades to child groups; `parent_id` is
   `ON DELETE SET NULL`. The children become roots and keep the closure rows of the groups above.
3. `GroupTreeCycle.cfg` (`NoCircularReference`): a move to a deleted group cuts the links and then fails; the next check for cycles reads
   the cut table and lets a group move under its own child.
4. `PrimaryElectionMove.cfg` (`PromotionDemotesOthers`): one update that promotes a probe and moves it demotes the primary of the site it leaves,
   not of the one it joins, where the comment (`probe.service.ts:895`) has "on the same site".
5. `SiteInventoryTakeover.cfg` (`NewDeviceIsCreated`): a device at an address whose row has another MAC is to be created beside it. The
   code first raises an alert, whose service reads a column `read_at` that no migration creates; the statement
   fails, the device's turn is over, and it is not created, push after push.

Three statements stand in the modules and are not true, each with its reason:

- `ConfigReachesProbe` (`ProbeConfig`): an interval that comes from the table is a string, and the probe's decoder refuses the
  configuration that holds it.
- `AnswersEnd` (`TunnelRelay`): once the headers are out, the timer of a request that fires only takes its listeners away; nothing is left that ends
  an answer which is not finished by then.
- `UpdateArrives` without `overlapped`: two downloads share `exe.new`.

Seen while reading, and part of the models: two overlapping `setPermissions` may leave the union of both lists, or one is rolled
back; `heartbeat_ack` is sent to the socket in the entry, not to the one that asked; a `tunnel_close` that comes before the tunnel is
registered finds nothing, and the relay starts afterwards; the job's close of a stale tunnel never tells the probe; two
requests at a time on one tunnel get each other's data; a device that came, went and came again within a minute is told of once, as what the cache
suppresses need not be a repetition; nothing catches what `proxyHandler` awaits, so that an upload broken off ends the server; an error reply to
a push wipes the subnets the probe has cached; a reader behind an overtaken ticker never lets the probe reconnect.

## 4. What is proved

Every safety property that a run checks is a theorem: for every set of requests, slots, groups, probes, sites, tunnels,
users, devices, addresses, sockets, sign-ins and so on, and every bound (of the sets, only `Tunnels` and `Calls` need be
finite):

| theorem | statement |
| --- | --- |
| `ProbeCommandsProofs!TypeCorrect`, `GroupTreeProofs!TypeCorrect`, `PrimaryElectionProofs!TypeCorrect`, `TunnelsProofs!TypeCorrect`, `SiteInventoryProofs!TypeCorrect` | `Spec => []TypeOK` |
| `CommandsRunOncePerRoad` | `Spec => []OncePerRoad` |
| `UninstallsAreStamped` | `Spec => []UninstalledIsStamped` |
| `TablesAgree` | `CarefulSpec => []ClosureMirrorsParents` |
| `MovesDoNotStopHalfWay` | `CarefulSpec => []MoveLinksFit` |
| `DepthsAreDistances` | `CarefulSpec => []DepthIsDistance` |
| `NoCircleBetweenCalls` | `CarefulSpec => [](Settled => NoCircularReference)` |
| `RowsNameGroups` | `Spec => []NothingDangles` |
| `SitesHaveOnePrimary` | `CarefulSpec => []OnePrimary` |
| `PushesLeaveAPrimary` | `CarefulSpec => PushLeavesPrimary` |
| `UserLimited`, `TenantLimited` | `Spec => []UserLimit`, `Spec => []TenantLimit` |
| `LifecycleImplemented` | `Spec => ImplementsLifecycle` |
| `OverForGood` | `Spec => [][\A t \in Tunnels : Settled(t) => Settled(t)']_vars`, the safe half of `SlotsAreFreed` |
| `MacsHaveOneRow` | `Spec => []OneRowPerMac` |
| `PushesChangeTheirOwnRows` | `Spec => PushesTouchOwnRows` |
| `NearestOverrideWins` | `ConfigSpec => []NearestWins` |
| `ExeStaysWhole` | `UpdateSpec => []ExeIsWhole` |
| `ProbeStartsAgain`, `NoDowngrade` | `UpdateSpec => []ProbeStarts`, `UpdateSpec => [][version = 2 => version' # 1]_updateVars`, safe halves of `UpdateArrives` |
| `ReaderBlockedOnlyIfOvertaken` | `ConnSpec => []ReaderWaitsForOthers`, what `ConnectionEnds` rests on |
| `ProbePartsTyped`, `ProbePartsHold` | `Spec => []ProbePartsTypeOK`, and the properties above of `MCProbeParts` |
| `EntryIsKept` | `HubSpec => ConnectedStaysRegistered` |
| `SocketsAgree` | `HubSpec => []SocketInUseIsKnown`, the safe half of `HubSettles` and `DialingProbeSettles` |
| `DoneIsClosedOnce` | `RelaySpec => []DoneClosedOnce` |
| `OneStatusLineEach` | `RelaySpec => []OneStatusLine`, the safe half of `RequestsAreAnswered` |
| `RelayEndsClean` | `RelaySpec => []RelayLeavesNothing`, the safe half of `NothingIsLeft` |
| `QuietPage` | `ViewSpec => []QuietPageIsCurrent`, the safe half of `PageCatchesUp` |
| `FlowsAreCounted` | `FlowSpec => []FlowsAddUp` |
| `ListOfItsTime` | `AccessSpec => []ListIsOfItsTime` |
| `AccountIsOwn` | `SsoSpec => []OwnAccount` |
| `NameComesFree` | `SsoSpec => [](stuck \/ NameIsFreed)`, the safe half of `GetsIn` |
| `ServerPartsTyped`, `ServerPartsHold` | `Spec => []ServerPartsTypeOK`, and the properties above of `MCServerParts` |

Assumptions: `None` is no request, slot, group, probe, site or MAC; the kinds are those of the code; bounds are naturals, and the limits of tunnels are not zero; there is a
device, an address, a team, a person, a value for settings, a chunk of a download and a piece of an answer. `Turns` is as many as the
runs number actions (see Fairness); no proof depends on it.

**Commands** (`IInv`). That a command runs once per road is not inductive: one must know where else it
could be. Ids only grow, and a row that is gone is empty (`IdsInv`); a request not yet made left
no trace (`IdleInv`); a command still in the row has not been run by HTTP and belongs to this row's id
(`PendingInv`); a handler has cleared the command before it replies (`HandlerInv`); only the handler the
probe waits for can answer it, and what that one holds has not run by HTTP (`WaitingInv`) — which is why
two handlers with the same command do no harm: the process waits for one of them at most, and one answered
it before the other began. On the WebSocket a request sends once, so at most one message under way holds its command,
and then it has not run (`DownInv`). `StampInv` carries the stamp from the clearing of the row to the reply.

**Groups** (`Forest`, `Stage`). Mirrors alone says how a row follows from the parent's row; the proofs that a
cut subtree is a tree of its own, and that linking it gives the closure of the new tree, need that depths add
up along a chain (`Composes`), that a group above another is above it through a child (`ThroughChild`) and that
two groups above a third are comparable (`Chains`). Each would follow from the others by induction over
the depth; it is simpler to state them as conjuncts of the invariant, which `CutForest`,
`LinkForest`, `RootForest` and `LeafForest` show to be kept. `Stage(c)` says what the tables look like between two
statements of a call: for instance, after the cut, a forest in which the moved group is a root, although
`parent` still has its old parent.

That depths are distances is induction over the distance, in tables that mirror each other (`DepthCountsSteps`). The
library's induction theorems take an operator as a parameter, which the provers cannot instantiate; `NatRecursion`
derives what is needed from well-founded minima instead, for sets (`BySteps`), and from that the existence of the
functions that the models define by recursion (`Recursion`), so that `Climb` and `SumOver` can be unfolded.

When calls interleave and anything may be deleted (`DanglesInv`), what is left is that rows name groups. Two facts make it
inductive: an id is created by one call (`CreatesOnce`), and until the create has inserted a group's own row, nothing is
above or below that group (`NewIsAlone`). So the links of another call's move, which go from what is above one
group to what is below another, cannot give the new group a row to itself of some other depth: either its own row is there, and the
primary key refuses all of them, or it is alone.

**Election** (`CarefulInv`). Rows that are not listed hold no role (`RowInv`), at most one call is under way
(`Alone`), `PushStage` says that a handler about to promote has a site without a primary, and one about
to demote the only primary it has; `EditStage` that the others were demoted before the patch.

**Tunnels** (`OwnInv`, `Fits`). `OwnInv`: a call has a row from its insert on, of its own user, and no
two calls have the same; what a close or the job is about to write exists. The refinement follows from it action by
action. The limits need more, as the number of open tunnels alone is not inductive: a tunnel that was closed while it opened
frees a place and may come back. `Fits` bounds instead the open tunnels that no call holds together with
the calls that have counted. The sum grows only when a call counts, and then fewer than the limit are open,
all of them counted; a call that ends hands its place to its tunnel. The open tunnels are at most that sum
(`OpenBound`), which is also what a restart leaves. One lemma (`FitsStep`) serves both limits. That a tunnel which is over stays
over (`OverForGood`) is read off the life cycle, which the refinement carries to the rows.

**Inventory** (`Inv`, `AloneInv`). `Inv` holds under every interleaving: ids above `lastId` are not used (`Used`), a MAC that somebody
typed and nobody normalized is in a manual row (`RawIsManual`), and a handler about to write over a row that it read with a MAC
looks for that MAC (`OfDevice`). `AloneInv` says what a push knows while it is alone: after the lookup by MAC found
nothing, only manual rows have that MAC (`LookedUp`), and the row it found still has the MAC that it read, unless it was
deleted (`HadIsRow`). That is exactly what a second push would break, and what `OneRowPerMac` needs at the write.

**Probe configuration** (`NearestInv`). While a handler reads, the history holds what is set now between what was set
all the time and what was set at some time (`Remembers`); of the levels read so far the handler keeps one that was set, and no
nearer one was set all the time (`NearestBelow`). A level that is edited after it was read leaves one of the two sets, which is why the
claim is about both.

**Self-update** (`WholeInv`). As long as no two downloads met, at most one goroutine writes, the file it has open is the one
called `exe.new`, with the parts written so far, and that is not the executable (`OneDownload`, `InNewFile`). After
two have met nothing is claimed but that the first executable does not come back: a rename puts another file in its place
(`VersionInv`).

**Connection of the probe** (`ReaderInv`). Whoever has `wsMu` is writing, and a value in `done` that the reader did not put there
is the worker's, for a ticker that has not stopped (`DoneTaken`). Before the ticker's first send only rescans fill `scanTrigger`: one for the
worker to take, one more for the place to be full when the worker is gone (`RescansFirst`). So a reader that waits to report has a ticker that will take
the value, or two rescans overtook that ticker.

**Tunnel relay** (`RelayInv`, `AnswersInv`). A tunnel is registered once; either the end of the relay takes it out of the map,
or the close that finds it there (`DoneOnce`). What an opening has opened it closes when it fails, and the relay when it ends
(`OpeningInv`, `EndingInv`); until then every goroutine that stopped has left its value in the channel (`ReportsWait`), which
has room for both. `AnswerOf` ties the number of status lines of a request to the place where its handler is.

**Hub.** `ConnectedStaysRegistered` is an action property and follows from the types alone: the sockets compare themselves
with the entry when they close. That probe and hub agree (`KnownInv`) needs that the hub's open socket is its entry, that the
probe uses one socket at a time, and that the hub upgrades a socket before the probe takes it for connected.

**Page** (`ViewInv`). A change that was announced is on its way: in an event, in the timer, in a load that has not
read yet or has read it, or it came to the page before (`OnItsWay`).

**Flows** (`FlowInv`). Rows above `lastId` are empty, and a handler about to write knows its flow; the sum over the table
changes by what one row changes, whatever the length of the table (induction over the rows).

**Teams** (`ListInv`). After each of the five queries, the sets the handler has gathered lie between what follows from what was
the case all the time, and what follows from the facts that each were the case at some time. The grants that a transaction is about to commit again
count among the first, which needs that the rows it holds are in the table and that no other writer touches them (`RowsHeld`, `Holding`).

**Accounts** (`SsoInv`). Every place an id can be read from (links, sign-ins, reports under way, Obligate's memory) holds an id
that was given to that person (`Own`); as ids are given once, it is nobody else's after the account is gone. `Freed` says of the
user name, while nothing has happened that leaves it taken, that one account has it at most, that everybody on the way in is the
present person, and that what is being deleted is a predecessor's; so a link is never to an account that is gone, and the branch that
removes such a link is not taken.

That the parts do not disturb each other is `PartsOfProbe` and `PartsOfServer`: the specification of the runs implies each part's own.

**Only model-checked:** the liveness properties (`UninstalledIsReaped`, `QueuedIsTaken`, `PrimaryReturns`, `SlotsAreFreed`,
`LeaverGoesOffline`, `StayerIsShown`, and those of the parts): the prover has no rules for fairness and ENABLED. What
is called a safe half above is an invariant, or an action property, of the same behaviour: that what should eventually happen is
not ruled out by the state, or is not undone. `TypeOK` of `GroupTree` and
`PrimaryElection` is proved and no longer checked by a run.

## 5. Plan

Done: the modules of the table above, and a theorem for every safety property of the runs. Worth proving next:

1. the safe halves of the liveness properties of settings and of the inventory: that an answer on its way holds the settings in
   force unless they changed since it was read, that a row which is not offline has a scan or a push to come;
2. an abstract specification of the commands beside that of the tunnels, with its refinement. The order in which a row is taken,
   answered and stamped differs by road, so it would have to be stated for each.

Left to model: the reset of passwords and sessions (single use of tokens: `passwordReset.service.ts:92` looks at the token, then
hashes, then marks it used, so that two requests may both use it; the check for the last administrator in `users.controller.ts`
is of the same kind, and two overlapping removals leave none); network discovery.

## 6. What is not modelled

The models stand for about a tenth of the lines of the implementation. Over half of those lines are pages, forms and translations of
the web client, whose logic is rendering; of the rest, a good part is the legacy agent, queries that only read, validation
of requests and the platform code of scans. What has state and interleaving is modelled, with these exceptions:

- **Notifications.** Bindings cannot be stored (their insert leaves out `tenant_id`, which the table requires), so the resolution has
  no input that the program can produce; grouped alarms are stored by functions nobody calls.
- **Live alerts.** `read_at` is read and written, and no migration creates it: adding an alert with a key always fails.
- **Import and export** use `uuid` columns that no migration creates.
- **Permissions on monitors**: their table does not exist; the scope `monitor` makes `getVisibleGroupIds` throw. The
  client's own check of permissions does not follow inheritance; it hides buttons only.
- **Accounts**: login, second factor, sessions, and the roles, tenants and teams that a sign-in copies.
- **Tenants, mail servers, configuration**: rows read and written one at a time.
- **The Windows update** by MSI, installers and removal of files.
- **Reservations, history of addresses, vendor rules** of the inventory: they label rows; the detection of unstable addresses reads
  the history only.
- **Reading of packets, scans, system registers, files** and the contents of messages: input and output that enter the models as small sets.
- **Notification plugins, mail, cryptography, the legacy agent, build scripts.**

Every statement modelled is confined to one tenant's rows by a condition on `tenant_id` or by an id, so one tenant is modelled.
