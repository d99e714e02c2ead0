# NetPilot Desktop in TLA+

NetPilot Desktop decides per destination, and per application, which network
interface traffic uses.  A Flutter application keeps the user's rules and turns
them into routes; a privileged helper (macOS) or service (Windows) installs
them; a transparent proxy (macOS) or WFP filters and a relay (Windows) route
the traffic of chosen applications.

This directory models the parts whose behaviour depends on order, failure and
concurrency, checks them with TLC and proves what matters most with TLAPS.

## Inventory

| Component | State | Operations | Interacts with | Hard behaviour | Module |
|---|---|---|---|---|---|
| `NetPilotController` (`lib/features/routing_rules/domain`) | rules, routing mode, interfaces, save tokens, chain of applies | save, toggle, delete, refresh, import, mode change, apply | planner, helper or service, DNS, scanner, rule file | awaits inside every operation; applies one after another beside edits | `RulesController` |
| `RouteReconciler` (`lib/core/utils`) | none | plan routes, diff | called by every apply | conflicts, merged claims | `RoutePlan`, `RouteEdits` |
| macOS `HelperDelegate`, `RouteManager` | inventory, `managed_routes.json`, kernel table | reconcile | `/sbin/route` | command failures, death, reboot, other writers, overlapping requests | `HelperRoutes` |
| Windows `RouteManager`, `BrowserReconnect` | inventory, `managed_routes.json`, forwarding table | reconcile, clean up, refresh browsers | IP helper, WMI | several rows for a destination, failing calls, crash, reboot, other writers | `WinRoutes` |
| Windows `ServiceRuntime`, `ServiceMain`, `WfpPolicy`, driver | rules and status, filters, `stopping_` | dispatch, interface change, stop | pipe, relay, routes, WFP, SCM | three threads, of which one ignores the mutex | `ServiceRuntime` |
| Windows `RelayEngine` | listeners, workers, sockets, counts | configure, restart flows, stop | driver, service | a thread per flow, handles reused, shutdown | `RelayEngine` |
| Windows pipe protocol | none | encode, decode | client and service | limits that only decoders have | `PipeProtocol` |
| Windows `ServiceClient`, plugin, maintenance tool | one call | call, wait for the pipe | service | service crashes, several clients, clients that end | `PipeCalls`, `RemoteCall` |
| `AppRoutingController` | app rules, master switch, pause state, status | edit, apply and restart, pause, resume | platform channel, status events | pause during an apply | not modelled |
| `main.dart`, `AppDelegate` | chain of mode changes, startup, quit | mode change, quit | both controllers | order of pause and cleanup, quit timeout | not modelled |
| Rule and mode files | two JSON files | load, save | controller | unordered writes | not modelled |
| `HelperXPCClient` | one call | reconcile, hosts, install | helper over XPC | 8 s timeout while the helper goes on | not modelled |
| `ManagedHosts` | managed block of `/etc/hosts` | reconcile | DNS cache | concurrent edits | not modelled |
| `AppRoutingManager`, `TransparentProxyProvider` | proxy session, flows | activate, restart, handle a flow | system extension | callbacks, stop before start | not modelled |
| Dependency scanner, destination parser, rule backups, inventories, user interface, installers | none of interest | | | | not modelled |

What makes them correct:

- *controller*: the last edit, toggle and deletion win over every save, scan or
  apply that was under way; when all is at rest the table is what the rules ask
  for; Applied means in force; every operation ends;
- *planner*: no enabled claim is dropped silently; an edit touches only the
  destinations its rule claims;
- *helper and Windows routes*: an answer without errors is true; no entry that
  was installed is lost track of; on Windows, connections of browsers do not
  stay on a path that a request has changed;
- *service*: filters, relay and status agree whatever the order of requests,
  failures and interface changes; a rule that blocks never leaks; what Stop has
  removed stays removed, and Stop ends unless its relay waits for a peer;
- *relay*: no path leaks a socket or a count; a restart reaches every flow of
  the previous rules; nothing runs once Stop has returned, and Stop waits for
  nothing but flows its restart has missed;
- *calls*: a request is run once at most and never after its caller was told it
  had failed; the error a caller gets is true; every call returns.

`PROJECT.json` lists each hazard at its line and the properties that cover it,
and the reason for each one that no property covers.

## Modules

```
RoutePlan ──► RouteEdits ──► MCRouteEdits             planning
    │             └────────► RouteEdits_proofs
    └───────► RulesController ──► MCRulesController    the controller
                      └─────────► RulesController_proofs
HelperRoutes ───► MCHelperRoutes, HelperRoutes_proofs  the macOS helper
WinRoutes ──────► MCWinRoutes, WinRoutes_proofs        routes on Windows
ServiceRuntime ─► MCServiceRuntime, ServiceRuntime_proofs
RelayEngine ────► MCRelayEngine, RelayEngine_proofs    the service and its relay
PipeProtocol ─► PipeCalls ──► MCPipeCalls              calls to the service
    │               └ INSTANCE ► RemoteCall            what they promise
    └► PipeProtocol_proofs ──► PipeCalls_proofs
```

Arrows are EXTENDS.  Where one component uses another, its module has the
contract that the other's module is shown to keep: `RulesController` has a
helper whose answers without errors are true, `ServiceRuntime` has a relay with
a table and routes that are members of a set, `PipeCalls` has a service that
returns one of the results a request may have.

Definitions whose name starts with `Bug` are not part of a model.  Each is the
definition after it with a plausible mistake; `PROJECT.json` pairs it with the
property that must then fail.

### RoutePlan, RouteEdits: `RouteReconciler`

`RoutePlan` has `planFromRules` and `diff` as operators: the claims of the
enabled entries (`Candidates`), those that disagree on interface or gateway
(`Conflicting`), the merged routes (`Routes`) and the conflicts reported to
rules and sub-rules.  `RouteEdits` is a machine over lists of rules whose steps
are the edits of one rule (`_replaceRule`, `deleteRule`).

### RulesController: `NetPilotController`

A Dart isolate runs one piece of code at a time and switches at awaits, so a
step is what an operation does between two awaits.

| TLA+ | code |
|---|---|
| `rules`, `mode`, `gateways` | `_rules`, `_routingMode`, gateways of `_interfaces` |
| `token` | `_ruleSaveOperations` |
| `tasks[t]` | an operation under way; its `pc` is the await it is in |
| `queue`, `apply` | `_applyChain`; the apply at its head |
| `table` | the routes the helper holds |
| `late`, `beside` | the requests that timed out and the helper is still at work on; whether there were some when the last request was made (history) |
| `asked` | history: what the user last asked of each rule |
| `Save`, `SaveResolved`, `SaveWritten`, `SaveMarked`, `ScanEnds`, `ScanWritten` | `upsertRule` from await to await |
| `SetRuleEnabled`, `SetSubRuleEnabled`, `DeleteRule`, `EditWritten` | the edits without DNS |
| `Refresh`, `RefreshResolved` | `refreshResolutions` |
| `Import`, `ImportResolved`, `ImportWritten` | `importRules`, for one rule |
| `SetMode`, `ModeWritten`, `Reapply` | `setRoutingMode`; the interface listener and `installHelper` |
| `ApplyBegins` … `ApplySaved` | `_applyAllInternal` |
| `NotAnswered`, `LateEdits`, `LateEnds` | `HelperXPCClient.reconcile` giving up, and the helper that does not know |

A reply without errors means the table holds the routes asked for, a verified
check means that route is in force; other replies leave any part of the old and
the new routes.  A request that is not answered in 8 s is an error without
checks, and the helper is left to go on with it: `LateEdits` removes what its
list does not name and adds what it names, at any later time, beside the
requests that follow, until `LateEnds`.  Names
resolve to a set of addresses, at worst the empty one.  Rules have no LAN pin:
the request for host mappings that pinned rules make beside the chain of
applies (netpilot_controller.dart:243) is not modelled, and that of an apply
can only succeed or throw.  The list of rules starts empty, as on a first
start.

### HelperRoutes: macOS `HelperDelegate.reconcileDesired`, `RouteManager.reconcile`

| TLA+ | code |
|---|---|
| `managed`, `store` | `RouteManager.managed`, `managed_routes.json` |
| `kernel`, `defaultVia` | the routing table, as `/sbin/route` sees and edits it |
| `session[c]` | the request of connection `c`: `desired`, `currentSet`, what is left of `toRemove`, `toAdd` and the verification loop |
| `Start` | payload check, the two differences |
| `Delete`, `DeleteFails`, `Forget` | the removal loop; the command and the change of the inventory are two steps |
| `Add`, `AddFails`, `Record` | the addition loop |
| `Inspect`, `Repair`, `RepairFails`, `Recheck` | the verification loop |
| `Persist` | `persist()` and the reply |
| `Die`, `Reboot`, `EntryLost`, `ForeignEntry`, `DefaultChanges` | the environment |

`fresh` is a history variable: the connection that asked last, provided that
nothing but the helper has touched the table since.  The properties of answers
speak of such answers only.  Destinations do not nest, so a lookup finds the
entry of the destination or the default route.

### WinRoutes: Windows `RouteManager`, `BrowserReconnect`

| TLA+ | code |
|---|---|
| `table` | the IPv4 forwarding table; `created` (history) are the rows the service has put there |
| `managed`, `file` | `managed_`, `managed_routes.json` |
| `work` | the call that runs: what is left of the loop it is in, and the lists of the result |
| `answer` | the reconcile result, and whether the refresh of browsers was complete |
| `stale`, `overdue` | history: connections opened before this, or an earlier, request changed their route |
| `stop` | `ServiceRuntime::Stop` as far as it cleans up routes: its place in `Cleanup`, and whether the service thread has changed or saved the inventory beneath it (`torn`) |
| `lossy` | history: one of the four causes of a lost row has occurred |
| `Start`, `Clean` … `CleanClears`, `CleanEnds` | the constructor (`Load`), and `Cleanup` on the service thread: its loop, `managed_.clear()`, `Save` |
| `StopBegins` … `StopClears`, `StopSaves` | the same `Cleanup` on the control thread, without the mutex: between any two steps of the service thread |
| `CleanSkips`, `RemoveSkips`, `StopSkips` | a loop that runs on over an inventory the other thread has replaced or cleared |
| `RefuseRequest`, `Reconcile` | validation; the two differences of `Reconcile` |
| `RemoveRoute`, `KeepRoute`, `AddRoute` and their failures | the removal and addition loops, a call of the IP helper each |
| `InspectVerifies` … `RepairRouteFails` | `Inspect`, and the repair of a route that is missing |
| `TakeOver`, `Reconciled` | `managed_ = next`; `Save` and the reset list |
| `Refresh`, `RefreshFails` | `BrowserReconnect` |
| `Crash`, `Ends`, `Reboot`, `RowAppears`, `RowVanishes` | the environment; `Ends` is the process leaving after `Run`, in whatever place Stop is |

Windows keeps several rows for a destination.  Removing a row that is not there
and adding one that is (`ERROR_OBJECT_ALREADY_EXISTS`) are successes, as in the
code; so a row of another program is taken for the service's own when it is
the one asked for.

Two threads that change a vector at once are undefined behaviour.  The model
has these outcomes of it: a loop may leave out any entry that has been freed
beneath it, and two threads in `Save` at once may leave any part of either
list in the file.  An entry is not taken for another one, and the process does
not end but by `Crash`, which may come at any step.

### ServiceRuntime: the Windows service

Three threads: the service thread (`service`: `Initialize`, `Run`,
`ServeClient`, `Dispatch`, the destructor), the notification of interface
changes (`notify`) and the control handler of the SCM (`control`: `Stop`).
`mutex` is `mutex_`; `Stop` takes it nowhere.

| TLA+ | code |
|---|---|
| `up`, `changes`, `pending` | the adapters, and a change that is yet to be notified |
| `filters`, `apply` | the filters of the provider; `WfpPolicy::Apply` as an open transaction that deletes all filters, adds one per rule and commits or aborts |
| `driver` | whether the callout is there and has been told the process of the relay |
| `relay`, `routes`, `recorded` | the relay's table and whether it runs; routes in the table and in the inventory |
| `current`, `proxy` | `app_rules_`, `master_enabled_`, `applied_hash_`; `proxy_running_` |
| `Receive`, `Lock`, `Configure`, `Applied`, `NotApplied` | `ApplyAppRouting` |
| `Reconcile`, `Record` | the reconcile request, around which `Stop` may run |
| `ClearFilters`, `Cleanup` | the cleanup request |
| `Notified`, `NotifyLocks`, `NotifyEnds` | `OnInterfaceChange` |
| `Exchange`, `Cancel`, `StopClears`, `StopRelay`, `StopCleans`, `Wake`, `SetEvent` | `Stop`, call by call |
| `Destroy`, `ProcessEnds` | the end of `ServiceMain`; the dynamic WFP session dies with the process |
| `Classify`, `Fates` | the driver's callout: what becomes of a connection that a filter matches |

`history` remembers what the properties need of the past: the configuration
committed last, whether an Apply of a client or after an interface change has
failed since, whether filters were cleared, whether a request was served when
Stop began.

### RelayEngine: the Windows relay

A worker thread per flow, known by its place in `RelayTcp` or
`RelayUdpSession`.

| TLA+ | code |
|---|---|
| `rules`, `apply`, `restarted` | `rules_`; where the service is between `Configure` and `RestartFlows` |
| `worker[w]` | the worker's place, rule, adapter, its two sockets and the pumps that run |
| `sock[h]` | the socket with handle `h`: free, open or shut |
| `tracked`, `active`, `flows` | `active_sockets_`, `active_workers_`, `active_flows` |
| `Accept`, `ReceivePacket`, `Spawn`, `LoopEnds` | `TcpLoop`, `UdpLoop` |
| `TrackClient` … `CountFlow` | the way into a flow, with each failure and its early return |
| `PumpEnds`, `PumpMustEnd`, `SessionEnds`, `SessionMustEnd` | `Pump`, the loop of a UDP session |
| `CloseOutbound` … `Notify` | the way out; a handle is free once closed, and untracked later |
| `StopBegins`, `StopRestarts`, `StopReturns` | `Stop` |

### PipeProtocol, PipeCalls, RemoteCall: calls to the service

`PipeProtocol` has every encoder and decoder over frames that are sequences of
fields, with the limits that the decoders check and the encoders do not.
`PipeCalls` has the client (`WaitNamedPipe`, `CreateFile`, two writes, the
read), the one instance of the pipe, and `Run` with `ServeClient`; the service
may crash and be restarted, and clients may end, at any step.  `RemoteCall` is
what a caller may rely on, without pipe, frames and crashes: a call is run at
most once, as it was made, an answer is the result of that run, and a call that
has returned will not be run later.  `PipeCalls!ImplementsRemoteCall` is the
refinement; a reply to a request that the service cannot decode maps to
`Refuse`.

## Runs

| Run | Instance | Shows |
|---|---|---|
| `route_edits` | 3 rules, 2 addresses, 3 interfaces; 8,140 lists and all edits of each | `ServedOrReported`, `EditsAreLocal`, `WithdrawalHandsOver` |
| `helper_serial` | 2 destinations, 4 routes, every failure but death within a request and lost writes; 384 k states | answers are true (`OkMeansInForce`) and complete (`OkLeavesNothingElse`), `NothingOrphaned`, the inductive `SerialInv` |
| `helper_death` | the same with deaths anywhere and lost writes; 468 k states | `OrphansOnlyByReload` |
| `rules_edits` | 1 rule of two URLs, scans, toggles of the rule and its sub-rules, 2 operations at once, mode changes, a gateway that comes and goes; 2.1 M states | `DeletedStaysDeleted`, `LastToggleWins`, `LastEditWins`, `SubRulesBelong`, `SubTogglesKept`, `TableFollowsRules` |
| `rules_faults` | 2 rules that conflict, 1 operation at a time (saves, toggles, mode changes), partial replies, throws, 1 request that times out and goes on; 1.1 M states | `AppliedIsTrue` |
| `rules_operations_end` | 1 rule, operations that wait, refresh and import among them, failing writes and host requests, fairness; 147 k states | `OperationsEnd` |
| `relay` | a TCP and a UDP worker, 2 handles, one change of the rules, a stop, fairness; 343 k states | `CountsBalance`, `SocketsOwned`, `TcpFlowsFollowRules`, `StoppedIsQuiet`, `FlowsEnd`, `StopWaitsForMissed` |
| `service` | 1 rule on 1 adapter that comes and goes, a blocking, a falling-back and an empty configuration, 1 route, 2 interface changes, every call may fail; 1.6 M states | `FiltersFollowInterfaces`, `RedirectsFindTheirRule`, `BlockNeverLeaks`, `StatusIsTrue`, `StopRemoves` |
| `service_stops` | the same without routes, 1 interface change, failing calls into WFP only, fairness; 167 k states | `StopEnds`, `WokenEnds` |
| `win_routes` | routes to one destination over 2 adapters, one under two tags, and an invalid one, one asked for at a time; 1 connection, a Stop beside any call, every fault; 1.5 M states | `OrphansOnlyWhenLossy`, `OkMeansInForce`, `ResetReachesFlows` |
| `pipe_calls` | 2 clients, known to the service or not, requests within and beyond every limit, 1 crash, fairness; 149 k states | `ImplementsRemoteCall`, `ErrorsAreTrue`, `CallsReturn` |
| `win_flows` | `win_routes` with 2 connections, requests for two routes and no fault | the divergence below: `NoFlowLeftBehind` is violated |

### Bounds

- `MaxQueue`, two: the user acts only while fewer applies wait.  That is enough
  for an apply in flight, one that will see the edit and an edit after it; an
  apply further back plans with the same rules as the last one.
- `TaskIds`, two: a property of the controller relates an edit to one operation
  it races with.  The proofs cover any number.
- `MaxLate`, one: a request that timed out changes the table beside whatever
  the controller does next, as often as it likes.  The proof covers any number.
- One rule where the property is about one rule, two where the status of a rule
  depends on another; one interface whose gateway comes and goes where plans
  may be outdated, two where rules conflict.
- Helper and Windows routes: one destination that several routes compete for
  and one that stands for the rest; two ways out.  `win_routes` asks for one
  route at a time, all of them but the invalid one to the first destination, so
  that it can have Stop at every place of a request; `win_flows` asks for both.
  One connection to refresh, since a reset concerns one destination.  The
  proofs cover any routes, requests and connections.
- Service: one rule with a configuration of each policy and none, so that
  every change of configuration changes table and filters; one adapter, whose
  coming and going changes whether the rule's filter redirects, blocks or is
  left out; two interface changes, so that one may come while the filters for
  the other are applied.  `SameApp` is empty, and so an apply is never refused for an
  application that two rules share; the proof covers such configurations.
- Relay: two handles for two workers, so that one worker gets a handle that the
  other has closed and not yet untracked; one change of the rules, before,
  during or after each step of a flow.  The proof covers any number.
- Calls: lists of two items where the code allows 4096 or 1024, with requests
  that reach and exceed each; one crash, since a call meets one at most before
  it has failed.
- Deadlock is not checked in the runs of the controller, of the relay, of the
  service and of the calls: with the operations or changes of the bound used
  up, with the process ended or with clients gone, they may rest.

### Fairness

- `RulesController!FairSpec`: every await ends (DNS, scans and helper calls
  have deadlines in the code, file writes return or throw) and the event loop
  serves it, so each task and the apply at the head of the chain are weakly
  fair.
- `RelayEngine!FairSpec`: workers, the end of a listener's loop and Stop once
  it has begun are weakly fair, as `connect`, `select` (30 s) and reads of a
  shut socket return.  Peers, applications and the service owe nothing: a pump
  or session need not end by itself.
- `ServiceRuntime!FairSpec`: its threads run and their calls return, but for
  `relay_.Stop()`, which `RelayEngine!StopWaitsForMissed` says may wait for
  peers: `StopRelay` is not fair.  A client need neither connect nor send the
  request that `ReadAll` waits for.
- `PipeCalls!FairSpec`: the thread of each call and that of the service run.

## Proofs

TLC checks small instances; the theorems hold for every value of the constants
that satisfies the assumptions of the module and the hypotheses named here.
Every invariant and action property that a run checks is proved, and the
refinement of `RemoteCall`; what is left to TLC alone is liveness.

### HelperRoutes_proofs

For all sets of routes, interfaces, connections and failures:

| Theorem | Property | Under |
|---|---|---|
| `TypeCorrect` | `TypeOK` | |
| `SerialCorrect` | `SerialInv` | one connection at a time |
| `OkCorrect`, `VerifiedCorrect` | `OkMeansInForce`, `VerifiedMeansInForce` | one connection at a time |
| `OrphansCorrect` | `OrphansOnlyByReload` | one connection at a time |
| `NothingOrphanedCorrect`, `OkLeavesCorrect` | `NothingOrphaned`, `OkLeavesNothingElse` | also: no death within a request, no lost write |

The conditions are necessary: overlapping requests lose a row (see below), and
a helper that dies after `/sbin/route add` and before the write at the end of
its request leaves an entry that no later request removes.  `TypeOK` includes
which request has a command in hand (`HandOK`).  Neither the truth of an answer
nor completeness is inductive: they hold at the end of a request because of
what the handler has done so far.  `SerialInv` says that: the three lists of
work shrink in the handler's order (`PhasesOK`), the command in hand belongs to
its phase and a row is dropped only after its entry (`HandMatches`), wanted
rows are never dropped and without an error every row and every wanted route is
accounted for (`ProgressOK`), and what was verified stays in force until
somebody else touches the table (`VerifiedOK`).  `FileInv` adds, for the last
two theorems, that between requests the file is the inventory.

### RouteEdits_proofs

For any rules with any addresses, interfaces, gateways and sub-rules:
`ServedOrReported` (`ServedOrReportedCorrect`), `EditsAreLocal`
(`EditsAreLocalCorrect`) and `WithdrawalHandsOver` (`WithdrawalCorrect`).  It
assumes that identifiers are naturals and that a rule stands under its own
identifier (`IdsAssumption`, `ChoicesAssumption`).  The invariant is that every
place of the list holds such a rule (`ListOK`, `ListCorrect`); from it come
owners that are pairs of naturals, so that the claim `FirstClaim` chooses
exists, although a rule may claim any number of addresses.  The routes and
reports of a destination are a function of the claims on it (`RoutesOfClaims`,
`ReportsOfClaims`), and an edit changes the claims of one rule
(`ClaimsElsewhere`).  A withdrawal only removes claims (`ClaimsShrink`): it
makes no conflict, a first claim of another rule is still first
(`OthersStayFirst`), and where the first claim was the rule's own, the first
of those left agrees with it on interface and gateway, since the claims on a
routed destination agree.

### RulesController_proofs

For any rules, destinations, answers of the resolver, operations under way,
applies waiting and failures, writes included: `TypeOK` (`RulesTypes`),
`DeletedStaysDeleted` (`DeletionsFinal`), `LastToggleWins` (`TogglesWin`),
`LastEditWins` (`EditsWin`) and `SubRulesBelong` (`SubRulesOwn`).  All theorems
here assume `NoListWrites`, that neither refresh nor import is among the
operations: both replace the list of rules by one made before an await, and
lose what was done in between (see below).  Three more have further hypotheses,
each of which the code needs:

| Theorem | Property | Also under |
|---|---|---|
| `TableCorrect` | `TableFollowsRules` | no fault: after a failure table and rules are apart until the next apply |
| `AppliedCorrect` | `AppliedIsTrue` | `NoFailedWrites`: an edit whose write fails is in the list, and nobody applies it |
| `SubTogglesStay` | `SubTogglesKept` | `NoFailedWrites`; `FoundOnce`, that a scan finds a destination once and under its own identity |

What a save writes after an await is right because of its token, so the
invariant `RulesInv` says what the token stands for.  While it is the save's
(`SavesOwn`): the rule has been asked for by this save; until the parent rule
is written it is either absent and new, or present; from then on it shows what
was asked for.  `EditKept` adds that a rule is as asked or a save that has the
token will make it so, which gives `LastEditWins` once no task is left.
`Waits` says that the tasks awaiting an apply are those on the chain, each
once, so that the end of an apply moves no other task.  A scan's result needs
the token as well (`SubRulesBelong`), and the toggle of another operation is
kept by `SavedRule` since `initial` holds what the save found.

The chain of applies is right because of what is still to come.  No conjunct
says that the table follows the rules while operations run; the invariant says
that in every state either an apply that has not read the rules yet is on the
chain, or a task is on its way to append one (`Pending`), or the apply under
way, or over, is made of the rules, the gateways and the mode as they are
(`ApplyIsCurrent`) and what it leaves behind is right (`TableSettled`,
`AppliedSettled`).  A save that has lost its rule or its token appends nothing;
whoever took it from the save does, which is what `EditKept` and the tokens are
for.  Statuses change under an apply without making it outdated: lists that
agree on all but statuses have the same plan (`ListAlike`).  At rest nothing is
pending, and the properties remain.  `AppliedOn` adds that a rule which is
switched off never shows Applied.  A request that timed out still changes the
table, but what follows it is marked (`beside`); one that is not was alone
when it was made (`Alone`), and the only way for it not to be any more is to
time out itself, which shows no rule as Applied (`NoReplyNoForce`).

A sub-rule's switch lives in the rule, or, between the write that empties the
rule and the one that fills it again, in what the newest save has taken
(`OffKept`, `Replaces`), which then comes to its scan (`WillScan`).  Saves
without the token write nothing, so that any number may overlap.  `OnePerPlace`
says that a destination has one switch, so that a scan which looks switches up
by destination finds the right one.

### WinRoutes_proofs

For any routes, requests, connections and faults: `TypeOK` (`TypeCorrect`),
`OrphansOnlyWhenLossy` (`OrphansCorrect`), `OkMeansInForce` (`OkCorrect`) and
`ResetReachesFlows` (`ResetCorrect`).  None is inductive; each follows from
what the running request has done so far: `Accounted`, which rows each loop has
still to deal with, `Fulfils`, what has been done for the routes already gone
past, and `Reaches`, why each outdated connection will be reset.  `HandOK` (one
route at a time) and `AnswersLast` (an answer belongs to a request that is
over) hold them together.  Stop's cleanup has its own share: `StopAccounted`
says which rows it has still to remove, or that the request beside it has added
them since and will take them over; `StopOK`, that at most one request runs
beside it and that nothing is torn before it begins.  The second and third
theorem speak of the time until Stop begins.

### RelayEngine_proofs

For any finite set of workers and any handles, rules and configurations:
`TypeOK`, `CountsBalance`, `SocketsOwned`, `TcpFlowsFollowRules` and
`StoppedIsQuiet`.  They lean on each other, so that one invariant `RelayInv`
holds them: `Shapes` (which sockets a worker has at each place), `Owned` (each
socket has one holder, so that no worker closes or reuses another's), `Listed`
(what `active_sockets_` lists will still be taken off it), `Unthreatened` and
`ClientsListed` (a client whose handle nobody else will untrack is on the list,
where `RestartFlows` finds it), `Configured` and `LoopsHand` (a loop that has
ended has no connection in its hands, so that Stop waits for all).

### ServiceRuntime_proofs

For any rules, adapters, configurations, routes, faults and number of interface
changes: `TypeOK`, `FiltersFollowInterfaces`, `RedirectsFindTheirRule`,
`BlockNeverLeaks`, `StatusIsTrue` and `StopRemoves`.  What one thread may rely
on while others run is `Guarded`: who holds the mutex has the open transaction
and knows its configuration.  On it rest `Agrees` (rules, relay and rules in
force are the same unless an Apply has failed), `Blocks` (no blocking rule is
without a filter, also in a half-filled transaction), `Follows` (filters are
for the adapters that are up, or another Apply is to come) and `Quiesces` (what
Stop may count on after each of its steps), with `Asked` and `Known` for the
requests and the inventory.

### PipeProtocol_proofs, PipeCalls_proofs

What is encoded is decoded as it was, or refused when a limit is exceeded:
`RoutesRoundTrip`, `StatusRoundTrip`, `ReconcileResultRoundTrip` and
`AppRulesRoundTrip`, for lists of any length.  Places in a frame are recursive
functions on the naturals; what they compute is shown by induction, as the
least number without the property does not exist (`LeastNatural`, from the
library's well-foundedness of the naturals).

`RequestsRoundTrip` and `AnswersRoundTrip` carry this over to the requests and
answers of a call.  Then, for any number of clients and crashes, the inductive
`IInv` (`CallsFitTogether`) says how client, pipe and service fit together:
the pipe has what its client has written and no more (`Sent`), a service that
has dispatched has the answer to that very request (`Done`), and a client that
has lost its pipe has an excuse (`ErrorOK`).  From it come `ErrorsAreTrue`
(`ErrorsCorrect`) and `ImplementsRemoteCall` (`CallsImplementRemoteCall`): each
action is a step of `RemoteCall` or a stutter under the mapping.  The
assumptions are that requests and answers are records of the shapes of
netpilot_protocol.h, and that neither `Malformed` nor `NoFrame`, the values
for "nothing", is one of them.

## Only model-checked

Liveness: `OperationsEnd`, `FlowsEnd`, `StopWaitsForMissed`, `StopEnds`,
`WokenEnds` and `CallsReturn`, which is beyond the prover.  `FlowsEnd` is about
those who have been told to end: a flow with both its sockets shut by a restart,
and a UDP session once the relay stops.  `StopWaitsForMissed` is about the
others: they are all that may hold Stop.  `StopEnds` takes that over as its
exception.

Refresh and import are in the runs about endings (`rules_operations_end`) and
in no theorem.

## Where code and statements part

`win_flows` shows one such case, as a finding in `PROJECT.json`.  A route that
is added and does not verify at once is answered with an error and without a
reset; the next request finds it recorded, verifies it and resets nothing
(route_manager.cpp:176), so that a browser connection stays on the old path,
against WFP_GATE.md:28-29.

The following are not runs of this project.  Each is why a property carries the
condition it has; the models have the behaviour, and show it when the condition
is taken away.

- A request that timed out at the client after 8 s (HelperXPCClient.swift:187)
  still runs beside the next, and the two lose a row of the inventory: System
  Default then leaves a route of the helper in the table, against
  HANDOFF.md:926.  `HelperRoutes` with two sessions; hence "one connection at a
  time".
- The reply to an apply without routes holds no checks, and counts as verified
  for a rule saved meanwhile, which shows Applied before it is
  (netpilot_controller.dart:735, HANDOFF.md:689-690).  The next apply corrects
  it, unless the write between them fails; hence `AppliedIsTrue` at rest.
- A deletion during a refresh is undone when the refresh ends
  (netpilot_controller.dart:546, README.md:19).
- A save during the write of an import is lost
  (netpilot_controller.dart:501, README.md:103).
- A save that overtakes another before its scan has ended finds no sub-rules to
  keep, and a sub-rule that was off is on after its scan, against
  HANDOFF.md:751-752.  `asked` forgets what was off at such a save; saves that
  overtake each other elsewhere are covered by `SubTogglesKept`.
- What is shown as Applied after a request that was made while an earlier one,
  given up after 8 s, was still at work need not stay true: the helper takes no
  lock, and the earlier request may delete what the later one has verified
  (HelperXPCClient.swift:187).  `AppliedIsTrue` exempts the rules shown since
  such a request, until the next that is made alone.
- A route of several rules carries the tag of the first, and the tag is part of
  its identity (routing_rule.dart:237-244, RouteManager.swift:352-364).  When
  that rule is withdrawn the helper deletes the route and adds it again for the
  next owner: traffic of the other rules is without it for a moment, and stays
  so when the addition fails, until an apply repairs it.  `WithdrawalHandsOver`
  says what the plan asks for; that another rule keeps its route untouched does
  not hold.

On Windows, without a statement that says otherwise:

- A request being dispatched as Stop begins puts filters and routes back after
  Stop has removed them (service_runtime.cpp:188); `StopRemoves` excludes it.
  Filters go with the process; routes go at the next start's cleanup.
- Stop's cleanup of routes runs beside a request, which is in `Reconcile` or
  `Cleanup` under a mutex that Stop does not take (service_runtime.cpp:190).
  If the request takes over its inventory while Stop is in its loop, Stop
  clears what was added in between without having removed it
  (route_manager.cpp:172-173, 273-280), and no later start knows of those rows;
  two writes of the file at once may leave any part of either.
  `OrphansOnlyWhenLossy` counts both among the causes of a lost row.
- Stop may wait for ever.  `relay_.Stop()` returns when no worker is left
  (relay_engine.cpp:142-148), but its restart does not reach a TCP connection
  that has been accepted and whose client is not listed yet (365), nor the
  outbound socket of one that is being connected (387): such a flow lasts as
  long as its peers, and routes are not cleaned up meanwhile.
  `StopWaitsForMissed` and `StopEnds` have this as their exception.
- A stop between the check of `stopping_` and `CreateNamedPipe`
  (service_runtime.cpp:164-165) finds no pipe to wake, and the service thread
  waits for a client; a client that connects and sends nothing holds the thread
  in `ReadAll` (228).  `WokenEnds` speaks of a thread that Stop has reached.
- `Cleanup` clears the filters and leaves `master_enabled_` and
  `proxy_running_` set (service_runtime.cpp:323): the next interface change
  installs the filters again, and the status says running meanwhile.  The
  properties of filters and status are stated up to a clear.
- A driver restarted beneath the service has lost the process of the relay and
  blocks what it should redirect, while the status goes on to say running.
- `RestartFlows` misses a UDP session that is between its lookup and the
  listing of its sockets, as it lists them after it has connected
  (relay_engine.cpp:462; TCP lists the client first), and a TCP flow whose
  entry another worker erased when it untracked a handle it had closed before
  (418).  `TcpFlowsFollowRules` speaks of the others; WFP_GATE.md:20-22 asks
  for all.
- The relay forgets no metric.  With more than 1024 rule ids since the start a
  status no longer decodes (netpilot_protocol.cpp:184), and status and apply
  fail at the client though the service has done what was asked.
- Between two instances of the pipe there is none: a call right after another
  may find the service unavailable.

## Not modelled

- `AppRoutingController`, `main.dart`: on macOS their state follows callbacks
  of the system extension and of the window, of which the repository holds the
  near end only; on Windows an apply of theirs is an apply request of
  `ServiceRuntime`.  That an apply may end after a change to System Default is
  a hazard without a property.
- Rule and mode files: `RulesController` keeps the await of a write and its
  failure; what a file holds after two writes that overlap is up to the file
  system.
- `ManagedHosts`, pinned rules: one function that reads, compares and renames;
  its races are with editors it cannot see and end in an error.
- `HelperXPCClient`: what follows from its timeout is in `HelperRoutes`
  (overlapping requests) and `RulesController` (an unanswered request).
- `TransparentProxyProvider`, `AppRoutingManager`: start, stop and flow
  delivery are callbacks of NetworkExtension whose order the repository does
  not show.
- Parts of modelled components: `RelayEngine::Start`, which leaves the one
  listener open when the other fails (relay_engine.cpp:108), byte counts and
  the last error of a rule; the creation of provider, sublayer and callout, and
  the driver's own start; installation and removal of service and driver by the
  maintenance tool; `Load`, which reads back the JSON that `Save` wrote and is
  taken to return it: it does not undo the escapes of `Save`, so that a route
  whose tag holds a quote or a backslash would come back changed, which the
  model leaves out.
- Scanner, parser, backups, inventories, user interface, installers, CI: page
  fetching, text, queries and layout, without state that outlives a call.
