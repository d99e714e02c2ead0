---------------------------- MODULE RelayEngine ----------------------------
(***************************************************************************)
(* The Windows relay: RelayEngine of the service.                          *)
(*                                                                         *)
(* The driver redirects connections of selected applications to a TCP and  *)
(* a UDP listener.  Each loop hands a connection to a detached worker      *)
(* thread, which looks its rule up, opens a socket bound to the adapter of *)
(* the rule and relays between the two.  active_sockets_ lets RestartFlows *)
(* shut the sockets of all flows, active_workers_ lets Stop wait for the   *)
(* workers.  The mutex is held for a lookup, a count, a change of          *)
(* active_sockets_ and all of RestartFlows, each of them one step here;    *)
(* between two steps any other thread may run.                             *)
(*                                                                         *)
(* A socket is known by its handle, and a handle is free again as soon as  *)
(* its socket is closed, also while active_sockets_ still lists it.        *)
(*                                                                         *)
(* Abstractions: a redirect context is the rule it is the hash of; byte    *)
(* counts and the last error of a rule are left out, nothing but Metrics   *)
(* reads them; WSAStartup is left out and both listeners exist.            *)
(***************************************************************************)
EXTENDS Naturals, FiniteSets

CONSTANTS
  TcpWorkers, UdpWorkers,  \* worker threads: a bound on the flows at once
  Handles,    \* values of SOCKET
  Rules,      \* rule ids
  Adapters,   \* interface LUIDs
  Tables,     \* configurations the service may be given
  MaxApplies, \* bound: configurations given during a run
  NoRule,     \* rules_ has no entry
  NoHandle    \* INVALID_SOCKET

ASSUME WorkersAssumption == TcpWorkers \cap UdpWorkers = {}
ASSUME TablesAssumption == Tables \subseteq [Rules -> Adapters \cup {NoRule}]
ASSUME MaxAppliesAssumption == MaxApplies \in Nat
ASSUME NoRuleAssumption == NoRule \notin Adapters
ASSUME NoHandleAssumption == NoHandle \notin Handles

Workers == TcpWorkers \cup UdpWorkers

\* The service has a thread for each of its flows.
ASSUME FiniteAssumption == IsFiniteSet(Workers)

Kinds == {"tcp", "udp"}
WorkersOf(k) == IF k = "tcp" THEN TcpWorkers ELSE UdpWorkers

VARIABLES
  rules,     \* rules_: rule -> adapter or NoRule
  apply,     \* the service's ApplyAppRouting: between Configure and RestartFlows?
  applies,   \* the configurations given so far
  restarted, \* history: flows were restarted since the last Configure
  stop,      \* Stop, and with it running_
  loop,      \* the two listener threads
  worker,    \* the workers; "got" is still in the hands of its loop
  sock,      \* sockets by handle
  tracked,   \* active_sockets_
  active,    \* active_workers_
  flows      \* active_flows of each rule

vars == <<rules, apply, applies, restarted, stop, loop, worker, sock, tracked, active, flows>>

running == stop = "running"

Places == {"none", "got", "trackIn", "bind", "lookup", "open", "connect",
           "trackOut", "count", "flow", "closeOut", "closeIn",
           "untrackOut", "untrackIn", "uncount", "leave", "notify"}

Worker ==
  [pc : Places,
   rule : Rules \cup {NoRule},          \* from the redirect context
   adapter : Adapters \cup {NoRule},    \* of the socket it opens or has
   client : Handles \cup {NoHandle},    \* the socket to the application
   outbound : Handles \cup {NoHandle},  \* the socket to the remote end
   pumps : SUBSET {"up", "down"},       \* TCP directions still relayed
   reused : BOOLEAN]                    \* history: its client got a handle being unlisted

NoWorker ==
  [pc |-> "none", rule |-> NoRule, adapter |-> NoRule,
   client |-> NoHandle, outbound |-> NoHandle, pumps |-> {}, reused |-> FALSE]

\* Workers that active_workers_ counts, and those active_flows counts.
Counted == {w \in Workers : worker[w].pc \notin {"none", "got", "notify"}}

InFlow == {"flow", "closeOut", "closeIn", "untrackOut", "untrackIn", "uncount"}
FlowsOf(r) == {w \in Workers : /\ worker[w].pc \in InFlow
                               /\ worker[w].outbound # NoHandle
                               /\ worker[w].rule = r}

\* A worker holds a socket from its creation until closesocket.
HoldsClient(w) ==
  worker[w].client # NoHandle
    /\ worker[w].pc \notin {"untrackOut", "untrackIn", "uncount", "leave", "notify"}
HoldsOutbound(w) ==
  worker[w].outbound # NoHandle
    /\ worker[w].pc \in {"connect", "trackIn", "trackOut", "count", "flow", "closeOut"}

\* A worker that has closed h and will still take it off the list.
Unlisting(h) ==
  \E w \in Workers :
    \/ worker[w].outbound = h /\ worker[w].pc \in {"closeIn", "untrackOut"}
    \/ worker[w].client = h /\ worker[w].pc \in {"untrackOut", "untrackIn"}

\* The types of the variables.
TypeOK ==
  /\ rules \in [Rules -> Adapters \cup {NoRule}]
  /\ apply \in {"idle", "configured"}
  /\ applies \in 0..MaxApplies
  /\ restarted \in BOOLEAN
  /\ stop \in {"running", "closed", "joining", "stopped"}
  /\ loop \in [Kinds -> {"receiving", "ended"}]
  /\ worker \in [Workers -> Worker]
  /\ sock \in [Handles -> {"free", "open", "shut"}]
  /\ tracked \in SUBSET Handles
  /\ active \in Nat
  /\ flows \in [Rules -> Nat]

\* A service at rest under some table.  The UDP loop ends at once when WSARecvMsg cannot be loaded.
Init ==
  /\ rules \in Tables
  /\ apply = "idle"
  /\ applies = 0
  /\ restarted = TRUE
  /\ stop = "running"
  /\ loop \in [Kinds -> {"receiving", "ended"}]
  /\ loop["tcp"] = "receiving"
  /\ worker = [w \in Workers |-> NoWorker]
  /\ sock = [h \in Handles |-> "free"]
  /\ tracked = {}
  /\ active = 0
  /\ flows = [r \in Rules |-> 0]

-----------------------------------------------------------------------------
\* The service.

Configure(t) ==
  /\ apply = "idle" /\ applies < MaxApplies
  /\ rules' = t
  /\ applies' = applies + 1
  /\ apply' = "configured"
  /\ restarted' = FALSE
  /\ UNCHANGED <<stop, loop, worker, sock, tracked, active, flows>>

\* The filters were refused: ApplyAppRouting returns without a restart.
ApplyFails ==
  /\ apply = "configured"
  /\ apply' = "idle"
  /\ UNCHANGED <<rules, applies, restarted, stop, loop, worker, sock, tracked, active, flows>>

\* shutdown of every listed handle, whosever socket it is by now.
ShutTracked ==
  sock' = [h \in Handles |-> IF h \in tracked /\ sock[h] # "free" THEN "shut" ELSE sock[h]]

RestartFlows ==
  /\ apply = "configured"
  /\ ShutTracked
  /\ apply' = "idle"
  /\ restarted' = TRUE
  /\ UNCHANGED <<rules, applies, stop, loop, worker, tracked, active, flows>>

StopTo(from, to) == stop = from /\ stop' = to

\* running_ is cleared and the listeners are closed.
StopBegins ==
  /\ StopTo("running", "closed")
  /\ UNCHANGED <<rules, apply, applies, restarted, loop, worker, sock, tracked, active, flows>>

StopRestarts ==
  /\ StopTo("closed", "joining")
  /\ ShutTracked
  /\ UNCHANGED <<rules, apply, applies, restarted, loop, worker, tracked, active, flows>>

\* The workers are waited for before the loops, one of which may hold another.
BugStopReturns ==
  /\ StopTo("joining", "stopped")
  /\ active = 0
  /\ UNCHANGED <<rules, apply, applies, restarted, loop, worker, sock, tracked, active, flows>>

\* Both loops are joined and the workers have left.
StopReturns ==
  /\ StopTo("joining", "stopped")
  /\ \A k \in Kinds : loop[k] = "ended"
  /\ active = 0
  /\ UNCHANGED <<rules, apply, applies, restarted, loop, worker, sock, tracked, active, flows>>

-----------------------------------------------------------------------------
\* The listeners.

\* A loop hands out one connection at a time.  The redirect context of each names
\* a rule, which may be gone from the table.
Accept(w, r) ==
  /\ running /\ w \in TcpWorkers /\ worker[w].pc = "none"
  /\ \A v \in TcpWorkers : worker[v].pc # "got"
  /\ \E h \in Handles :
       /\ sock[h] = "free"
       /\ sock' = [sock EXCEPT ![h] = "open"]
       /\ worker' = [worker EXCEPT ![w] =
            [NoWorker EXCEPT !.pc = "got", !.rule = r, !.client = h, !.reused = Unlisting(h)]]
  /\ UNCHANGED <<rules, apply, applies, restarted, stop, loop, tracked, active, flows>>

\* WSARecvMsg of a packet with metadata: one without is dropped.  The loop has
\* ended if WSARecvMsg could not be loaded.
ReceivePacket(w, r) ==
  /\ running /\ w \in UdpWorkers /\ worker[w].pc = "none"
  /\ loop["udp"] = "receiving"
  /\ \A v \in UdpWorkers : worker[v].pc # "got"
  /\ worker' = [worker EXCEPT ![w] = [NoWorker EXCEPT !.pc = "got", !.rule = r]]
  /\ UNCHANGED <<rules, apply, applies, restarted, stop, loop, sock, tracked, active, flows>>

\* The worker is counted and its thread started; the loop looks at running_.
Spawn(w) ==
  /\ worker[w].pc = "got"
  /\ active' = active + 1
  /\ worker' = [worker EXCEPT ![w].pc = IF w \in TcpWorkers THEN "trackIn" ELSE "bind"]
  /\ loop' = [k \in Kinds |-> IF w \in WorkersOf(k) /\ ~running THEN "ended" ELSE loop[k]]
  /\ UNCHANGED <<rules, apply, applies, restarted, stop, sock, tracked, flows>>

LoopEnds(k) ==
  /\ ~running
  /\ loop[k] = "receiving"
  /\ \A w \in WorkersOf(k) : worker[w].pc # "got"
  /\ loop' = [loop EXCEPT ![k] = "ended"]
  /\ UNCHANGED <<rules, apply, applies, restarted, stop, worker, sock, tracked, active, flows>>

-----------------------------------------------------------------------------
\* A worker.

At(w, place) == worker[w].pc = place
Goes(w, place) == worker' = [worker EXCEPT ![w].pc = place]

\* RelayTcp or RelayUdpSession returns, and its locals are gone.
Returns(w) == worker' = [worker EXCEPT ![w] = [NoWorker EXCEPT !.pc = "leave"]]

\* ConnectOutbound returns INVALID_SOCKET.
Refused(w) == worker' = [worker EXCEPT ![w] = [@ EXCEPT !.pc = "closeIn", !.adapter = NoRule, !.outbound = NoHandle]]

\* Track and Untrack of one handle.  Untrack removes every entry equal to it.
Track(h) == tracked' = tracked \cup {h}
Untrack(h) == tracked' = tracked \ {h}

\* closesocket: the handle is free for the next socket, listed or not.
Close(h) == sock' = [sock EXCEPT ![h] = "free"]

\* A client is listed once there is a flow to shut.
BugTrackClient(w) ==
  /\ At(w, "trackIn")
  /\ tracked' = IF w \in TcpWorkers THEN tracked ELSE tracked \cup {worker[w].client}
  /\ Goes(w, IF w \in TcpWorkers THEN "lookup" ELSE "trackOut")
  /\ UNCHANGED <<rules, apply, applies, restarted, stop, loop, sock, active, flows>>

TrackClient(w) ==
  /\ At(w, "trackIn")
  /\ Track(worker[w].client)
  /\ Goes(w, IF w \in TcpWorkers THEN "lookup" ELSE "trackOut")
  /\ UNCHANGED <<rules, apply, applies, restarted, stop, loop, sock, active, flows>>

\* The redirect context or the records of an accepted connection are not to be had.
QueryFails(w) ==
  /\ At(w, "lookup") /\ w \in TcpWorkers
  /\ Goes(w, "closeIn")
  /\ UNCHANGED <<rules, apply, applies, restarted, stop, loop, sock, tracked, active, flows>>

\* The socket of a UDP session, bound to the port of the listener.
BindClient(w) ==
  /\ At(w, "bind")
  /\ \E h \in Handles :
       /\ sock[h] = "free"
       /\ sock' = [sock EXCEPT ![h] = "open"]
       /\ worker' = [worker EXCEPT ![w].pc = "lookup",
            ![w].client = h, ![w].reused = Unlisting(h)]
  /\ UNCHANGED <<rules, apply, applies, restarted, stop, loop, tracked, active, flows>>

\* The thread returns past the count.
BugBindFails(w) ==
  /\ At(w, "bind")
  /\ Goes(w, "none")
  /\ UNCHANGED <<rules, apply, applies, restarted, stop, loop, sock, tracked, active, flows>>

\* The thread is taken off the count where it fails and where it ends.
BugBindCounts(w) ==
  /\ At(w, "bind")
  /\ Returns(w)
  /\ active' = active - 1
  /\ UNCHANGED <<rules, apply, applies, restarted, stop, loop, sock, tracked, flows>>

BindFails(w) ==
  /\ At(w, "bind")
  /\ Returns(w)
  /\ UNCHANGED <<rules, apply, applies, restarted, stop, loop, sock, tracked, active, flows>>

\* ConnectOutbound takes the adapter of the rule under the mutex and gives it up.
Lookup(w) ==
  /\ At(w, "lookup")
  /\ worker' = [worker EXCEPT ![w].adapter = rules[worker[w].rule],
       ![w].pc = IF rules[worker[w].rule] = NoRule THEN "closeIn" ELSE "open"]
  /\ UNCHANGED <<rules, apply, applies, restarted, stop, loop, sock, tracked, active, flows>>

\* The adapter is gone, or there is no socket to be had.
OpenFails(w) ==
  /\ At(w, "open")
  /\ Refused(w)
  /\ UNCHANGED <<rules, apply, applies, restarted, stop, loop, sock, tracked, active, flows>>

OpenOutbound(w) ==
  /\ At(w, "open")
  /\ \E h \in Handles :
       /\ sock[h] = "free"
       /\ sock' = [sock EXCEPT ![h] = "open"]
       /\ worker' = [worker EXCEPT ![w].pc = "connect", ![w].outbound = h]
  /\ UNCHANGED <<rules, apply, applies, restarted, stop, loop, tracked, active, flows>>

Connect(w) ==
  /\ At(w, "connect")
  /\ Goes(w, IF w \in TcpWorkers THEN "trackOut" ELSE "trackIn")
  /\ UNCHANGED <<rules, apply, applies, restarted, stop, loop, sock, tracked, active, flows>>

\* One of the error paths forgets the socket.
BugConnectFails(w) ==
  /\ At(w, "connect")
  /\ Refused(w)
  /\ UNCHANGED <<rules, apply, applies, restarted, stop, loop, sock, tracked, active, flows>>

\* bind, IP_UNICAST_IF, the redirect records or connect fail.
ConnectFails(w) ==
  /\ At(w, "connect")
  /\ Close(worker[w].outbound)
  /\ Refused(w)
  /\ UNCHANGED <<rules, apply, applies, restarted, stop, loop, tracked, active, flows>>

TrackOutbound(w) ==
  /\ At(w, "trackOut")
  /\ Track(worker[w].outbound)
  /\ Goes(w, "count")
  /\ UNCHANGED <<rules, apply, applies, restarted, stop, loop, sock, active, flows>>

CountFlow(w) ==
  /\ At(w, "count")
  /\ flows' = [flows EXCEPT ![worker[w].rule] = @ + 1]
  /\ worker' = [worker EXCEPT
       ![w].pc = "flow",
       ![w].pumps = IF w \in TcpWorkers THEN {"up", "down"} ELSE {}]
  /\ UNCHANGED <<rules, apply, applies, restarted, stop, loop, sock, tracked, active>>

\* One direction of a TCP flow ends when its peer closes or resets the connection
\* it reads, or when what it has read cannot be sent.  The second to end leaves
\* the flow: upstream is joined.
PumpEnds(w, p) ==
  /\ At(w, "flow")
  /\ p \in worker[w].pumps
  /\ worker' = [worker EXCEPT ![w].pumps = @ \ {p},
       ![w].pc = IF worker[w].pumps = {p} THEN "closeOut" ELSE "flow"]
  /\ UNCHANGED <<rules, apply, applies, restarted, stop, loop, sock, tracked, active, flows>>

\* One of the directions waits for its peer.
BugPumpMustEnd(w, p) ==
  /\ PumpEnds(w, p)
  /\ p = "up" /\ sock[worker[w].client] = "shut"

\* It has to end when the socket it reads is shut.
PumpMustEnd(w, p) ==
  /\ PumpEnds(w, p)
  /\ sock[IF p = "up" THEN worker[w].client ELSE worker[w].outbound] = "shut"

\* A UDP session ends when the first datagram cannot be sent, when it has been
\* idle for 30 s or when a call fails ...
SessionEnds(w) ==
  /\ At(w, "flow")
  /\ w \in UdpWorkers
  /\ Goes(w, "closeOut")
  /\ UNCHANGED <<rules, apply, applies, restarted, stop, loop, sock, tracked, active, flows>>

\* The loop goes on until the flow is idle.
BugSessionMustEnd(w) ==
  /\ SessionEnds(w)
  /\ sock[worker[w].client] = "shut" /\ sock[worker[w].outbound] = "shut"

\* ... and has to when running_ is false or both of its sockets are shut.
SessionMustEnd(w) ==
  /\ SessionEnds(w)
  /\ ~running \/ (sock[worker[w].client] = "shut" /\ sock[worker[w].outbound] = "shut")

CloseOutbound(w) ==
  /\ At(w, "closeOut")
  /\ Close(worker[w].outbound)
  /\ worker' = [worker EXCEPT ![w].pc = "closeIn", ![w].adapter = NoRule]
  /\ UNCHANGED <<rules, apply, applies, restarted, stop, loop, tracked, active, flows>>

\* A UDP client that was refused a flow was never listed.
CloseClient(w) ==
  /\ At(w, "closeIn")
  /\ Close(worker[w].client)
  /\ IF worker[w].outbound # NoHandle THEN Goes(w, "untrackOut")
     ELSE IF w \in TcpWorkers THEN Goes(w, "untrackIn") ELSE Returns(w)
  /\ UNCHANGED <<rules, apply, applies, restarted, stop, loop, tracked, active, flows>>

UntrackOutbound(w) ==
  /\ At(w, "untrackOut")
  /\ Untrack(worker[w].outbound)
  /\ Goes(w, "untrackIn")
  /\ UNCHANGED <<rules, apply, applies, restarted, stop, loop, sock, active, flows>>

UntrackClient(w) ==
  /\ At(w, "untrackIn")
  /\ Untrack(worker[w].client)
  /\ IF worker[w].outbound # NoHandle THEN Goes(w, "uncount") ELSE Returns(w)
  /\ UNCHANGED <<rules, apply, applies, restarted, stop, loop, sock, active, flows>>

\* Only TCP flows are counted down.
BugUncountFlow(w) ==
  /\ At(w, "uncount")
  /\ flows' = IF w \in TcpWorkers
                THEN [flows EXCEPT ![worker[w].rule] = IF @ > 0 THEN @ - 1 ELSE @] ELSE flows
  /\ Returns(w)
  /\ UNCHANGED <<rules, apply, applies, restarted, stop, loop, sock, tracked, active>>

UncountFlow(w) ==
  /\ At(w, "uncount")
  /\ flows' = [flows EXCEPT ![worker[w].rule] = IF @ > 0 THEN @ - 1 ELSE @]
  /\ Returns(w)
  /\ UNCHANGED <<rules, apply, applies, restarted, stop, loop, sock, tracked, active>>

\* The thread gives up its count under the mutex and then wakes Stop.
Leave(w) ==
  /\ At(w, "leave")
  /\ active' = active - 1
  /\ Goes(w, "notify")
  /\ UNCHANGED <<rules, apply, applies, restarted, stop, loop, sock, tracked, flows>>

Notify(w) ==
  /\ At(w, "notify")
  /\ worker' = [worker EXCEPT ![w] = NoWorker]
  /\ UNCHANGED <<rules, apply, applies, restarted, stop, loop, sock, tracked, active, flows>>

-----------------------------------------------------------------------------
\* What a worker does on its own.
WorkerStep(w) ==
  \/ Spawn(w) \/ TrackClient(w) \/ QueryFails(w) \/ BindClient(w) \/ BindFails(w)
  \/ Lookup(w) \/ OpenFails(w) \/ OpenOutbound(w) \/ Connect(w) \/ ConnectFails(w)
  \/ TrackOutbound(w) \/ CountFlow(w)
  \/ \E p \in {"up", "down"} : PumpMustEnd(w, p)
  \/ SessionMustEnd(w) \/ CloseOutbound(w) \/ CloseClient(w)
  \/ UntrackOutbound(w) \/ UntrackClient(w) \/ UncountFlow(w) \/ Leave(w) \/ Notify(w)

StopStep == StopBegins \/ StopRestarts \/ StopReturns

Next ==
  \/ \E t \in Tables : Configure(t)
  \/ ApplyFails \/ RestartFlows \/ StopStep
  \/ \E w \in Workers, r \in Rules : Accept(w, r) \/ ReceivePacket(w, r)
  \/ \E k \in Kinds : LoopEnds(k)
  \/ \E w \in Workers : WorkerStep(w) \/ SessionEnds(w)
  \/ \E w \in Workers, p \in {"up", "down"} : PumpEnds(w, p)

Spec == Init /\ [][Next]_vars

\* Threads are scheduled and the calls they make return: connect has the
\* timeout of the system, select one of 30 s.  Traffic, the service and the
\* peers owe nothing.
FairSpec ==
  /\ Spec
  /\ \A w \in Workers : WF_vars(WorkerStep(w))
  /\ \A k \in Kinds : WF_vars(LoopEnds(k))
  /\ WF_vars(StopStep /\ ~running)

-----------------------------------------------------------------------------
\* active_workers_ is the number of threads between Spawn and Leave, whatever
\* path they take: Stop waits for all of them and for no others.
WorkersCounted == active = Cardinality(Counted)

\* active_flows of a rule, which the status shows, is the number of its flows,
\* whatever path they end on and whether the rule still exists.
FlowsBalanced == \A r \in Rules : flows[r] = Cardinality(FlowsOf(r))

\* Both counters, kept by increments and decrements on many paths, are right.
CountsBalance == WorkersCounted /\ FlowsBalanced

\* No path leaks a socket, closes one twice or closes one that is not its own:
\* each open handle is held by exactly one worker, as one of its two sockets.
SocketsOwned ==
  \A h \in Handles : sock[h] # "free" =>
    Cardinality({<<w, "in">> : w \in {v \in Workers : HoldsClient(v) /\ worker[v].client = h}}
      \cup {<<w, "out">> : w \in {v \in Workers : HoldsOutbound(v) /\ worker[v].outbound = h}}) = 1

\* A flow of w bound, or about to be bound, to an adapter its rule no longer names.
Stale(w) ==
  /\ worker[w].pc \in {"open", "connect", "trackIn", "trackOut", "count", "flow"}
  /\ worker[w].adapter # NoRule
  /\ worker[w].adapter # rules[worker[w].rule]

\* After a restart every TCP flow still under the previous rules has its client
\* shut, also one that was being connected when the restart came: RelayTcp lists
\* the client before it looks the rule up.  A client that got a handle another
\* worker had closed and not yet unlisted is exempt: that worker erases its entry.
TcpFlowsFollowRules ==
  apply = "idle" /\ restarted =>
    \A w \in TcpWorkers : Stale(w) /\ ~worker[w].reused => sock[worker[w].client] = "shut"

\* When Stop has returned no thread of the engine uses a socket, a metric or
\* the list any more, and all of them are given back.  The one thing a worker
\* may have left to do is to wake a Stop that is gone.
StoppedIsQuiet ==
  stop = "stopped" =>
    /\ \A w \in Workers : worker[w].pc \in {"none", "notify"}
    /\ \A k \in Kinds : loop[k] = "ended"
    /\ \A h \in Handles : sock[h] = "free"
    /\ tracked = {}
    /\ \A r \in Rules : flows[r] = 0

\* A restart has shut both sockets of the flow; or the flow is a UDP session, listed
\* or not, and the relay stops.
ToldToEnd(w) ==
  \/ /\ worker[w].pc = "flow"
     /\ sock[worker[w].client] = "shut" /\ sock[worker[w].outbound] = "shut"
  \/ w \in UdpWorkers /\ ~running

\* What is told to end ends: no pump or session waits for a peer for ever, and Stop
\* need not wait for the application that uses a session.  The one place where a
\* worker may stay is a flow that it has not been told to end.
FlowsEnd ==
  \A w \in Workers :
    <>[](worker[w].pc # "none") => <>[](worker[w].pc = "flow" /\ ~ToldToEnd(w))

\* A TCP flow that peers may keep: it reads a socket that no restart has shut.
KeptByPeers(w) ==
  /\ w \in TcpWorkers /\ worker[w].pc = "flow"
  /\ {sock[worker[w].client], sock[worker[w].outbound]} # {"shut"}

\* Stop returns, whatever loops and workers were doing when it began, unless its
\* restart has missed a TCP flow: one whose client or outbound was not listed yet,
\* or no longer, which then lasts as long as its peers.
StopWaitsForMissed ==
  <>[](stop \in {"closed", "joining"}) => <>[](\E w \in Workers : KeptByPeers(w))
=============================================================================
