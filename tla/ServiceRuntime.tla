--------------------------- MODULE ServiceRuntime ---------------------------
(***************************************************************************)
(* The Windows service: ServiceMain and its control handler, the pipe loop *)
(* and Dispatch of ServiceRuntime, the WFP filters of WfpPolicy and what   *)
(* the driver makes of them.                                               *)
(*                                                                         *)
(* Three threads share the runtime.  The service thread starts it, serves  *)
(* one pipe client at a time (Run) and destroys it.  A notification thread *)
(* applies the current rules again when an interface changes.  The control *)
(* thread of the SCM stops the runtime.  The first two take the mutex,     *)
(* Stop does not.                                                          *)
(*                                                                         *)
(* The relay is RelayEngine, the routes are WinRoutes: here the relay is   *)
(* its table and whether it runs, a reconcile is two steps around which    *)
(* Stop may run, and the routes are members of a set.                      *)
(*                                                                         *)
(* Abstractions: the executables of a rule are one; a configuration is its *)
(* own hash; a request that does not decode, validate or is unsupported is *)
(* answered like a status; log lines and byte counts are left out.         *)
(***************************************************************************)
EXTENDS Naturals, FiniteSets

CONSTANTS
  Rules,      \* app rule ids
  Adapters,   \* interface LUIDs
  Configs,    \* configurations: [master, rules]
  Nothing,    \* the configuration of a service that was given none
  Routes,     \* destination routes
  SameApp,    \* pairs of rules that have an executable in common
  Off,        \* a rule that is absent or disabled
  Faults,     \* which calls may fail
  MaxChanges  \* bound: interface changes during a run

Policies == {"block", "fallback"}
RuleSpec == [adapter : Adapters, policy : Policies]

ASSUME SameAppAssumption == SameApp \subseteq Rules \X Rules
ASSUME OffAssumption == Off \notin RuleSpec
ASSUME ConfigsAssumption ==
  /\ Configs \subseteq [master : BOOLEAN, rules : [Rules -> RuleSpec \cup {Off}]]
  /\ Nothing \in Configs
  /\ Nothing = [master |-> FALSE, rules |-> [r \in Rules |-> Off]]
ASSUME MaxChangesAssumption == MaxChanges \in Nat

\* What a client may ask for.
Request ==
  [op : {"status", "cleanup"}]
    \cup [op : {"apply"}, config : Configs]
    \cup [op : {"reconcile"}, routes : SUBSET Routes]
NoRequest == [op |-> "none"]

VARIABLES
  up,        \* adapters that are up
  changes,   \* how often that has changed
  pending,   \* an interface change is yet to be notified
  driver,    \* the driver: absent, ready, or told the process of the relay
  filters,   \* the filters of the provider, by rule
  apply,     \* WfpPolicy.Apply: the transaction that is open
  relay,     \* the relay's table, and whether it runs
  routes,    \* routes in the table that the service has put there
  recorded,  \* the inventory of RouteManager and its file
  current,   \* app_rules_, master_enabled_ and applied_hash_
  proxy,     \* proxy_running_
  stopping,  \* stopping_
  event,     \* stop_event is set
  mutex,     \* who holds mutex_
  service,   \* the service thread
  request,   \* the request it serves
  reply,     \* the status it answers
  notify,    \* the notification thread
  control,   \* the control thread
  history    \* of the run, for the properties only

network == <<up, changes, pending, driver>>
wfp == <<filters, apply>>
table == <<routes, recorded>>
state == <<current, proxy>>
flags == <<stopping, event>>
exchange == <<request, reply>>
others == <<notify, control>>
vars == <<network, wfp, relay, table, state, flags, mutex, service, exchange, others, history>>

Unfiltered == [r \in Rules |-> "none"]
NoApply == [pc |-> "idle", config |-> Nothing, staged |-> Unfiltered, todo |-> {}]

ServicePlaces ==
  {"start", "check", "create", "listen", "connected", "serve", "lock", "configure", "applying",
   "reconcile", "record", "clear", "cleanup", "reply", "close", "leave", "gone", "ended"}
ControlPlaces == {"idle", "exchange", "cancel", "clear", "relay", "cleanup", "wake", "logged", "done"}

\* Serving a request that was accepted before Stop began.
Dispatching == {"serve", "lock", "configure", "applying", "reconcile",
                "record", "clear", "cleanup"}

\* The filter of a rule, and what a transaction has of them.
Kinds == {"none", "redirect", "block"}
Transaction ==
  [pc : {"idle", "begin", "fill", "done", "failed"}, config : Configs,
   staged : [Rules -> Kinds], todo : SUBSET Rules]

\* What the properties need to know of the past.
Past ==
  [inForce : Configs,   \* the configuration committed last
   failed : BOOLEAN,    \* an Apply of a client has failed since
   missed : BOOLEAN,    \* an Apply after an interface change has
   cleared : BOOLEAN,   \* the filters were cleared since
   busy : BOOLEAN,      \* Stop began while a request was served
   spoilt : BOOLEAN,    \* a filter or route could not be removed
   woken : BOOLEAN]     \* Stop has reached the pipe

\* The types of the variables.
TypeOK ==
  /\ up \in SUBSET Adapters /\ changes \in 0..MaxChanges /\ pending \in BOOLEAN
  /\ driver \in {"absent", "ready", "told"}
  /\ filters \in [Rules -> Kinds]
  /\ apply \in Transaction
  /\ relay \in [rules : [Rules -> RuleSpec \cup {Off}], running : BOOLEAN]
  /\ routes \in SUBSET Routes /\ recorded \in SUBSET Routes
  /\ current \in Configs /\ proxy \in BOOLEAN
  /\ stopping \in BOOLEAN /\ event \in BOOLEAN
  /\ mutex \in {"free", "service", "notify"}
  /\ service \in ServicePlaces
  /\ request \in Request \cup {NoRequest}
  /\ reply \in [config : Configs, running : BOOLEAN]
  /\ notify \in {"idle", "called", "applying"}
  /\ control \in ControlPlaces
  /\ history \in Past

NoReply == [config |-> Nothing, running |-> FALSE]

\* The process has just started, on a machine with some adapters up.
Init ==
  /\ up \in SUBSET Adapters /\ changes = 0 /\ pending = FALSE
  /\ driver \in {"absent", "ready"}
  /\ filters = Unfiltered /\ apply = NoApply
  /\ relay = [rules |-> Nothing.rules, running |-> FALSE]
  /\ routes = {} /\ recorded = {}
  /\ current = Nothing /\ proxy = FALSE
  /\ stopping = FALSE /\ event = FALSE /\ mutex = "free"
  /\ service = "start" /\ request = NoRequest /\ reply = NoReply
  /\ notify = "idle" /\ control = "idle"
  /\ history = [inForce |-> Nothing, failed |-> FALSE, missed |-> FALSE, cleared |-> FALSE,
                busy |-> FALSE, spoilt |-> FALSE, woken |-> FALSE]

-----------------------------------------------------------------------------
\* Filters.

\* The filter Apply adds for a rule of configuration c: none, a block, or a
\* redirection to the callout of the driver.
Filter(c, r) ==
  IF ~c.master \/ c.rules[r] = Off THEN "none"
  ELSE IF c.rules[r].adapter \in up THEN "redirect"
  ELSE IF c.rules[r].policy = "block" THEN "block" ELSE "none"

Wanted(c) == [r \in Rules |-> Filter(c, r)]

\* The callout of the driver: it redirects a TCP or UDP connection to the relay of
\* the process it was told of, and blocks it when there is none or a call fails.
\* While the driver is absent, a filter that names its callout blocks.
Classify == IF driver = "told" THEN {"redirect", "block"} ELSE {"block"}

\* What may become of a new connection of a rule's application.
Fates(r) ==
  CASE filters[r] = "none" -> {"permit"}
    [] filters[r] = "block" -> {"block"}
    [] filters[r] = "redirect" -> Classify

\* Apply begins a transaction and deletes all filters of the provider in it.
BugApplyBegins ==
  /\ apply.pc = "begin"
  /\ apply' = [apply EXCEPT !.pc = "fill", !.staged = Unfiltered, !.todo = Rules]
  /\ filters' = Unfiltered
  /\ UNCHANGED history

ApplyBegins ==
  /\ apply.pc = "begin"
  /\ apply' = [apply EXCEPT !.pc = "fill", !.staged = Unfiltered, !.todo = Rules]
  /\ UNCHANGED <<filters, history>>

\* It adds the filter of each rule, for the state its adapter is in now.
ApplyFills ==
  /\ apply.pc = "fill"
  /\ \E r \in apply.todo :
       apply' = [apply EXCEPT !.todo = @ \ {r}, !.staged[r] = Filter(apply.config, r)]
  /\ UNCHANGED <<filters, history>>

ApplyCommits ==
  /\ apply.pc = "fill" /\ apply.todo = {}
  /\ filters' = apply.staged
  /\ apply' = [NoApply EXCEPT !.pc = "done"]
  /\ history' = [history EXCEPT !.inForce = apply.config, !.missed = FALSE, !.cleared = FALSE]

\* Any of the calls fails: the transaction is aborted.
ApplyFails ==
  /\ apply.pc \in {"begin", "fill"} /\ "wfp" \in Faults
  /\ apply' = [NoApply EXCEPT !.pc = "failed"]
  /\ UNCHANGED <<filters, history>>

ApplyStep == ApplyBegins \/ ApplyFills \/ ApplyCommits \/ ApplyFails

\* Clear deletes the filters without a transaction of its own: within one that
\* another thread has open, it is part of that.  It may stop half way.
Clear ==
  \E left \in SUBSET Rules :
    /\ left # {} => "wfp" \in Faults
    /\ IF apply.pc = "fill"
         THEN /\ apply' = [apply EXCEPT !.staged = [r \in Rules |-> IF r \in left THEN @[r] ELSE "none"]]
              /\ UNCHANGED filters
         ELSE /\ filters' = [r \in Rules |-> IF r \in left THEN filters[r] ELSE "none"]
              /\ UNCHANGED apply
    /\ history' = [history EXCEPT !.cleared = TRUE, !.spoilt = @ \/ left # {}]

-----------------------------------------------------------------------------
\* The service thread: starting, and the pipe.

Goes(from, to) == service = from /\ service' = to

Moves(from, to) ==
  /\ Goes(from, to)
  /\ UNCHANGED <<network, wfp, table, state, flags, exchange, others, relay, mutex, history>>

\* Initialize: the driver is told the process, the engine opened, the relay started
\* and interface changes are subscribed to.
Initialize ==
  /\ Goes("start", "check")
  /\ driver # "absent" /\ driver' = "told"
  /\ relay' = [relay EXCEPT !.running = TRUE]
  /\ UNCHANGED <<up, changes, pending, wfp, table, state, flags, exchange, others, mutex, history>>

\* One of these fails, or Run cannot create a pipe: the runtime is destroyed.
CannotInitialize ==
  /\ driver = "absent" \/ "system" \in Faults
  /\ Moves("start", "leave")

CannotCreatePipe ==
  /\ "system" \in Faults
  /\ Moves("create", "leave")

BugCheckStopping == Moves("check", "create")

CheckStopping == Moves("check", IF stopping THEN "leave" ELSE "create")

CreatePipe == Moves("create", "listen")

ClientConnects == Moves("listen", "connected")

\* A client that connects while the service is stopping is not served.
Accept == Moves("connected", IF stopping THEN "close" ELSE "serve")

\* The client is not authorized, its frame malformed or cut short.  A client that
\* sends nothing keeps the thread where it is.
Reject == Moves("serve", "close")

\* Status: reads what Apply has left, without the mutex; this thread wrote it.
StatusOf(c, p) == [config |-> c, running |-> p /\ relay.running /\ driver # "absent"]

\* ValidateRules: two enabled rules of one application use one adapter.
Validates(c) ==
  \A r, s \in Rules :
    /\ <<r, s>> \in SameApp
    /\ c.rules[r] # Off /\ c.rules[s] # Off
    => c.rules[r].adapter = c.rules[s].adapter

\* A request for the status, or one that is refused, is answered with it.
ReceiveStatus(q) ==
  /\ q.op = "status" \/ (q.op = "apply" /\ ~Validates(q.config))
  /\ Goes("serve", "reply")
  /\ reply' = StatusOf(current, proxy)
  /\ UNCHANGED <<network, wfp, table, state, flags, others, relay, mutex, request, history>>

Receive(q) ==
  /\ q.op = "apply" => Validates(q.config)
  /\ q.op # "status"
  /\ Goes("serve", "lock")
  /\ request' = q
  /\ UNCHANGED <<network, wfp, table, state, flags, others, relay, mutex, reply, history>>

Lock ==
  /\ mutex = "free" /\ mutex' = "service"
  /\ Goes("lock", CASE request.op = "apply" -> "configure"
                    [] request.op = "reconcile" -> "reconcile"
                    [] request.op = "cleanup" -> "clear")
  /\ UNCHANGED <<network, wfp, table, state, flags, exchange, others, relay, history>>

\* Dispatch leaves its block: the mutex is given back before anything is written.
BugUnlock(status) ==
  /\ mutex' = "free"
  /\ request' = NoRequest
  /\ reply' = request

Unlock(status) ==
  /\ mutex' = "free"
  /\ request' = NoRequest
  /\ reply' = status

-----------------------------------------------------------------------------
\* Dispatch, under the mutex.

\* The relay is given the rules first ...
BugConfigure ==
  /\ Goes("configure", "applying")
  /\ relay' = IF request.config = current THEN relay ELSE [relay EXCEPT !.rules = request.config.rules]
  /\ apply' = [NoApply EXCEPT !.pc = "begin", !.config = request.config]
  /\ UNCHANGED <<network, table, state, flags, exchange, others, filters, mutex, history>>

Configure ==
  /\ Goes("configure", "applying")
  /\ relay' = [relay EXCEPT !.rules = request.config.rules]
  /\ apply' = [NoApply EXCEPT !.pc = "begin", !.config = request.config]
  /\ UNCHANGED <<network, table, state, flags, exchange, others, filters, mutex, history>>

\* ... then the filters; if they are in place the flows are restarted and the
\* configuration is the current one,
Applied ==
  /\ Goes("applying", "reply") /\ apply.pc = "done"
  /\ apply' = NoApply
  /\ current' = request.config
  /\ proxy' = request.config.master
  /\ Unlock(StatusOf(request.config, request.config.master))
  /\ history' = [history EXCEPT !.failed = FALSE]
  /\ UNCHANGED <<network, table, flags, others, filters, relay>>

\* and if not, the relay keeps the new rules and the filters the old ones.
BugNotApplied ==
  /\ Goes("applying", "reply") /\ apply.pc = "failed"
  /\ apply' = NoApply
  /\ Unlock(StatusOf(current, proxy))
  /\ history' = [history EXCEPT !.failed = TRUE]
  /\ UNCHANGED <<network, table, flags, others, filters, relay, state>>

NotApplied ==
  /\ Goes("applying", "reply") /\ apply.pc = "failed"
  /\ apply' = NoApply
  /\ proxy' = FALSE
  /\ Unlock(StatusOf(current, FALSE))
  /\ history' = [history EXCEPT !.failed = TRUE]
  /\ UNCHANGED <<network, table, flags, others, filters, relay, current>>

\* Reconcile changes the table ...
Reconcile ==
  /\ Goes("reconcile", "record")
  /\ routes' = request.routes
  /\ UNCHANGED <<network, wfp, state, flags, exchange, others,
                 relay, recorded, mutex, history>>

\* ... and the inventory.
Record ==
  /\ Goes("record", "reply")
  /\ recorded' = request.routes
  /\ Unlock(reply)
  /\ UNCHANGED <<network, wfp, state, flags, others, relay, routes, history>>

\* RouteManager::Cleanup: a route that cannot be removed is forgotten.
CleanRoutes(left) ==
  /\ left # {} => "route" \in Faults
  /\ routes' = (routes \ recorded) \cup left
  /\ recorded' = {}

\* Operation cleanup: the filters and routes go, the current configuration stays.
ClearFilters ==
  /\ Goes("clear", "cleanup")
  /\ Clear
  /\ UNCHANGED <<network, table, state, flags, exchange, others, relay, mutex>>

Cleanup ==
  /\ Goes("cleanup", "reply")
  /\ \E left \in SUBSET (routes \cap recorded) :
       /\ CleanRoutes(left)
       /\ history' = [history EXCEPT !.spoilt = @ \/ left # {}]
  /\ Unlock(StatusOf(current, proxy))
  /\ UNCHANGED <<network, wfp, state, flags, others, relay>>

\* The answer is written, or the client has gone.
Reply ==
  /\ Goes("reply", "close")
  /\ reply' = NoReply
  /\ request' = NoRequest
  /\ UNCHANGED <<network, wfp, table, state, flags, others, relay, mutex, history>>

ClosePipe == Moves("close", IF event THEN "leave" ELSE "check")

\* ServiceMain reports that the service has stopped and destroys the runtime, which
\* stops it unless that has begun.  The filters go with the engine session.
Destroy ==
  /\ Goes("leave", "gone")
  /\ ~stopping => notify = "idle"
  /\ stopping' = TRUE
  /\ filters' = Unfiltered
  /\ relay' = [relay EXCEPT !.running = FALSE]
  /\ IF stopping THEN UNCHANGED table
     ELSE \E left \in SUBSET (routes \cap recorded) : CleanRoutes(left)
  /\ UNCHANGED <<network, state, exchange, others, apply, event, mutex, history>>

\* The process ends.  Until it does, the threads of Stop and of a notification may
\* still use what was destroyed, with any outcome.
ProcessEnds ==
  /\ Goes("gone", "ended")
  /\ filters' = Unfiltered /\ apply' = NoApply
  /\ UNCHANGED <<network, table, state, flags, exchange, others, relay, mutex, history>>

-----------------------------------------------------------------------------
\* Interface changes: the notification thread.

Alive == service # "ended"

\* An adapter comes up or goes down.
InterfaceChanges ==
  /\ service # "ended"
  /\ changes < MaxChanges
  /\ \E a \in Adapters : up' = (up \ {a}) \cup ({a} \ up)
  /\ changes' = changes + 1
  /\ pending' = TRUE
  /\ UNCHANGED <<driver, wfp, table, state, flags, service, exchange, others, relay, mutex, history>>

\* The driver is stopped or started beneath the service.
DriverChanges ==
  /\ service # "ended"
  /\ "driver" \in Faults /\ changes < MaxChanges
  /\ driver' = IF driver = "absent" THEN "ready" ELSE "absent"
  /\ changes' = changes + 1
  /\ UNCHANGED <<up, pending, wfp, table, state, flags, service, exchange, others, relay, mutex, history>>

\* OnInterfaceChanged, called as long as it is registered.
Notified ==
  /\ Alive /\ service # "start" /\ pending /\ notify = "idle"
  /\ control \in {"idle", "exchange", "cancel"}
  /\ pending' = FALSE
  /\ notify' = IF stopping THEN "idle" ELSE "called"
  /\ UNCHANGED <<up, changes, driver, wfp, table, state, flags, service, exchange, control,
                 relay, mutex, history>>

\* ReapplyForNetworkChange: it waits for the mutex.
BugNotifyLocks ==
  /\ Alive /\ notify = "called"
  /\ IF current.master /\ mutex = "free"
       THEN /\ mutex' = "notify" /\ notify' = "applying"
            /\ apply' = [NoApply EXCEPT !.pc = "begin", !.config = current]
       ELSE notify' = "idle" /\ UNCHANGED <<mutex, apply>>
  /\ UNCHANGED <<network, filters, table, state, flags, service, exchange, control, relay, history>>

NotifyLocks ==
  /\ Alive /\ notify = "called" /\ mutex = "free"
  /\ IF current.master
       THEN /\ mutex' = "notify" /\ notify' = "applying"
            /\ apply' = [NoApply EXCEPT !.pc = "begin", !.config = current]
       ELSE notify' = "idle" /\ UNCHANGED <<mutex, apply>>
  /\ UNCHANGED <<network, filters, table, state, flags, service, exchange, control, relay, history>>

\* A failure is logged, and nothing tries again.
NotifyEnds ==
  /\ Alive /\ notify = "applying" /\ apply.pc \in {"done", "failed"}
  /\ notify' = "idle" /\ mutex' = "free" /\ apply' = NoApply
  /\ history' = [history EXCEPT !.missed = @ \/ apply.pc = "failed"]
  /\ UNCHANGED <<network, filters, table, state, flags, service, exchange, control, relay>>

\* The steps of Apply, for the thread that holds the mutex.
Applies ==
  /\ Alive
  /\ ApplyBegins \/ ApplyFills \/ ApplyCommits \/ ApplyFails
  /\ UNCHANGED <<network, table, state, flags, service, exchange, others, relay, mutex>>

-----------------------------------------------------------------------------
\* Stop, on the control thread.  It does not take the mutex.

Stops(from, to) == Alive /\ control = from /\ control' = to

\* The SCM asks a running service to stop.
StopRequested ==
  /\ Stops("idle", "exchange")
  /\ service \notin {"start", "leave", "gone"}
  /\ UNCHANGED <<network, wfp, table, state, flags, service, exchange, notify, relay, mutex, history>>

Exchange ==
  /\ Stops("exchange", IF stopping THEN "done" ELSE "cancel")
  /\ stopping' = TRUE
  /\ history' = [history EXCEPT !.busy = ~stopping /\ service \in Dispatching]
  /\ UNCHANGED <<network, wfp, table, state, event, service, exchange, notify, relay, mutex>>

\* CancelMibChangeNotify2 returns when no callback is running.
BugCancelJoins ==
  /\ Stops("cancel", "clear") /\ notify = "idle"
  /\ service \in {"leave", "gone"}
  /\ pending' = FALSE
  /\ UNCHANGED <<up, changes, driver, wfp, table, state, flags, service, exchange, notify,
                 relay, mutex, history>>

BugCancel ==
  /\ Stops("cancel", "clear")
  /\ pending' = FALSE
  /\ UNCHANGED <<up, changes, driver, wfp, table, state, flags, service, exchange, notify,
                 relay, mutex, history>>

Cancel ==
  /\ Stops("cancel", "clear") /\ notify = "idle"
  /\ pending' = FALSE
  /\ UNCHANGED <<up, changes, driver, wfp, table, state, flags, service, exchange, notify,
                 relay, mutex, history>>

StopClears ==
  /\ Stops("clear", "relay")
  /\ Clear
  /\ UNCHANGED <<network, table, state, flags, service, exchange, notify, relay, mutex>>

\* RelayEngine::Stop returns when no worker is left.  It waits as long as its peers
\* like for a TCP flow that its RestartFlows has missed (RelayEngine, StopWaitsForMissed).
StopRelay ==
  /\ Stops("relay", "cleanup")
  /\ relay' = [relay EXCEPT !.running = FALSE]
  /\ UNCHANGED <<network, wfp, table, state, flags, service, exchange, notify, mutex, history>>

StopCleans ==
  /\ Stops("cleanup", "wake")
  /\ \E left \in SUBSET (routes \cap recorded) :
       /\ CleanRoutes(left)
       /\ history' = [history EXCEPT !.spoilt = @ \/ left # {}]
  /\ UNCHANGED <<network, wfp, state, flags, service, exchange, notify, relay, mutex>>

\* A connection to its own pipe frees the service thread, if it waits there.
Wake ==
  /\ Stops("wake", "logged")
  /\ service' = IF service = "listen" THEN "connected" ELSE service
  /\ history' = [history EXCEPT !.woken = service \notin {"create", "serve"}]
  /\ UNCHANGED <<network, wfp, table, state, flags, exchange, notify, relay, mutex>>

\* Stop has returned: the control handler sets the event.
SetEvent ==
  /\ Stops("logged", "done")
  /\ event' = TRUE
  /\ UNCHANGED <<network, wfp, table, state, stopping, service, exchange, notify, relay, mutex, history>>

-----------------------------------------------------------------------------
Serves ==
  \/ Initialize \/ CannotInitialize \/ CheckStopping \/ CreatePipe \/ CannotCreatePipe
  \/ Accept \/ Reject
  \/ \E q \in Request : ReceiveStatus(q) \/ Receive(q)
  \/ Lock \/ Configure \/ Applied \/ NotApplied \/ Reconcile \/ Record
  \/ ClearFilters \/ Cleanup \/ Reply \/ ClosePipe \/ Destroy \/ ProcessEnds

Notifies == Notified \/ NotifyLocks \/ NotifyEnds

StopSteps == Exchange \/ Cancel \/ StopClears \/ StopCleans \/ Wake \/ SetEvent

Next ==
  \/ Serves \/ Applies \/ Notifies \/ StopSteps \/ StopRelay
  \/ ClientConnects \/ InterfaceChanges \/ DriverChanges \/ StopRequested

Spec == Init /\ [][Next]_vars

\* The threads run; a client need not come, nor send anything, and the peers of
\* the relay need not let StopRelay happen.
FairSpec ==
  /\ Spec
  /\ WF_vars(Serves /\ service # "serve")
  /\ WF_vars(Applies) /\ WF_vars(Notifies) /\ WF_vars(StopSteps)

-----------------------------------------------------------------------------
\* Properties.

\* Nothing runs that will apply filters, nor is a change yet to be notified.
Settled ==
  /\ mutex = "free" /\ ~pending /\ notify = "idle"
  /\ ~stopping /\ service \notin {"start", "leave", "gone", "ended"}

\* An interface may change while a request is applied, while the transaction is
\* being filled, or while a notification waits for the mutex.  Once all of that is
\* over, the filters are those of the current rules for the adapters that are up
\* now, unless an Apply after a change has failed or the filters were cleared.
FiltersFollowInterfaces ==
  Settled /\ ~history.missed /\ ~history.cleared => filters = Wanted(current)

\* The relay is given the rules before the filters, and keeps them when these fail.
\* Whatever the order of requests, failures and notifications, a connection that is
\* redirected finds in the relay the rule that its filter was made from, unless the
\* last Apply of a client has failed.
RedirectsFindTheirRule ==
  Settled /\ ~history.failed =>
    \A r \in Rules : filters[r] = "redirect" => relay.rules[r] = history.inForce.rules[r]

\* WFP_GATE: a rule with policy block never lets its application onto another
\* network: not while filters are replaced, not when that fails half way, not when
\* the adapter or the driver goes, until the filters are cleared or the service stops.
BlockNeverLeaks ==
  ~history.cleared /\ ~stopping =>
    \A r \in Rules :
      /\ history.inForce.master
      /\ history.inForce.rules[r] # Off
      /\ history.inForce.rules[r].policy = "block"
      => "permit" \notin Fates(r)

\* A status that says the proxy is running names the configuration whose filters
\* are in place and whose rules the relay has, though it is put together from what
\* three calls left behind, some of which may have failed.
StatusIsTrue ==
  service = "reply" /\ reply.running /\ ~history.cleared /\ ~stopping =>
    /\ history.inForce = reply.config
    /\ relay.rules = reply.config.rules

\* "Windows Service stopped; filters and routes removed": when Stop began with no
\* request being served, what it has removed stays removed, although it takes no
\* mutex: no notification and no later request puts any of it back.
StopRemoves ==
  ~history.busy /\ ~history.spoilt /\ service \notin {"gone", "ended"} =>
    /\ control \in {"relay", "cleanup", "wake", "logged", "done"} /\ stopping => filters = Unfiltered
    /\ control \in {"cleanup", "wake", "logged"} => ~relay.running
    /\ control \in {"wake", "logged"} => routes = {}

\* Stop waits for a callback, which may be waiting for the mutex, which Dispatch may
\* hold: it returns all the same, unless the relay waits for its peers for ever.
StopEnds == control = "exchange" ~> control = "done" \/ ~Alive \/ [](control = "relay")

\* A service thread that Stop has reached ends, wherever it was: before the check of
\* stopping_, waiting for a client, or serving one.
WokenEnds == history.woken ~> ~Alive
=============================================================================
