------------------------- MODULE RelayEngine_proofs -------------------------
(***************************************************************************)
(* Proofs about RelayEngine, for any number of workers, handles, rules and *)
(* configurations.                                                         *)
(*                                                                         *)
(* The five invariants lean on each other, so that one inductive invariant *)
(* holds them: RelayInv.  To the five it adds                              *)
(*   - Shapes: which sockets a worker has at each of its places;           *)
(*   - Owned: each socket has one holder, so that no worker closes or      *)
(*     reuses the socket of another;                                       *)
(*   - Listed: whatever active_sockets_ lists will still be taken off it;  *)
(*   - Unthreatened and ClientsListed: a client whose handle is its own is *)
(*     on the list, where RestartFlows finds it;                           *)
(*   - LoopsHand: a loop that has ended has no connection in its hands.    *)
(***************************************************************************)
EXTENDS RelayEngine, TLAPS, FiniteSetTheorems

\* What the places of a worker say of its rule and sockets: RelayTcp is given a
\* client, RelayUdpSession makes one, and both keep the handles of what they have
\* closed until they have unlisted them.
Shape(w) ==
  LET pc == worker[w].pc
      client == worker[w].client
      outbound == worker[w].outbound
  IN /\ pc \in {"none", "leave", "notify"} => client = NoHandle /\ outbound = NoHandle
     /\ pc \notin {"none", "leave", "notify"} =>
          /\ worker[w].rule \in Rules
          /\ (client = NoHandle) <=> (w \in UdpWorkers /\ pc \in {"got", "bind"})
     /\ pc \in {"connect", "trackOut", "count", "flow", "closeOut", "untrackOut", "uncount"} =>
          outbound # NoHandle
     /\ pc \in {"got", "bind", "lookup", "open"} => outbound = NoHandle
     /\ pc = "trackIn" => ((outbound = NoHandle) <=> (w \in TcpWorkers))
     /\ pc = "bind" => w \in UdpWorkers
     /\ pc \in {"got", "bind", "trackIn"} /\ w \in TcpWorkers => worker[w].adapter = NoRule
     /\ outbound # NoHandle => outbound # client

Shapes == \A w \in Workers : Shape(w)

\* The socket a worker holds on a side, or NoHandle.
Sides == {"in", "out"}
Held(w, s) ==
  IF s = "in" THEN (IF HoldsClient(w) THEN worker[w].client ELSE NoHandle)
  ELSE (IF HoldsOutbound(w) THEN worker[w].outbound ELSE NoHandle)

\* What is held is a socket, no two hold the same, and every socket is held.
HeldAreSockets ==
  \A w \in Workers, s \in Sides : Held(w, s) # NoHandle => sock[Held(w, s)] # "free"
HeldOnce ==
  \A w, v \in Workers, s, t \in Sides :
    Held(w, s) # NoHandle /\ Held(w, s) = Held(v, t) => w = v /\ s = t
SocketsHeld ==
  \A h \in Handles : sock[h] # "free" => \E w \in Workers, s \in Sides : Held(w, s) = h
Owned == HeldAreSockets /\ HeldOnce /\ SocketsHeld

\* A worker that will take h off the list.
WillUnlist(w, h) ==
  \/ /\ worker[w].outbound = h
     /\ worker[w].pc \in {"count", "flow", "closeOut", "closeIn", "untrackOut"}
  \/ /\ worker[w].client = h
     /\ \/ worker[w].pc \in {"trackOut", "count", "flow", "closeOut", "untrackOut", "untrackIn"}
        \/ w \in TcpWorkers /\ worker[w].pc \in {"lookup", "open", "connect", "closeIn"}
        \/ worker[w].outbound # NoHandle /\ worker[w].pc = "closeIn"

Listed == \A h \in tracked : \E w \in Workers : WillUnlist(w, h)

\* The part of Unlisting(h) that is w's: it has closed h and will take it off.
Unlists(w, h) ==
  \/ worker[w].outbound = h /\ worker[w].pc \in {"closeIn", "untrackOut"}
  \/ worker[w].client = h /\ worker[w].pc \in {"untrackOut", "untrackIn"}

\* v has closed a socket whose handle is that of w's client, and will unlist it.
Threatens(v, w) == Unlists(v, worker[w].client)

\* A client that did not get a handle being unlisted is not going to be unlisted by
\* anyone but its own worker, after it has closed it.
Unthreatened ==
  \A w \in Workers : HoldsClient(w) /\ ~worker[w].reused =>
    \A v \in Workers : ~Threatens(v, w)

\* From its listing until it is closed such a TCP client is on the list.
ClientsListed ==
  \A w \in TcpWorkers :
    HoldsClient(w) /\ worker[w].pc \notin {"got", "trackIn"} /\ ~worker[w].reused =>
      worker[w].client \in tracked

\* A loop has at most one connection in its hands, and none once it has ended; the
\* TCP loop ends only for Stop, which returns when no thread is left.
LoopsHand ==
  /\ \A k \in Kinds : \A w, v \in WorkersOf(k) :
       worker[w].pc = "got" /\ worker[v].pc = "got" => w = v
  /\ \A k \in Kinds : loop[k] = "ended" => \A w \in WorkersOf(k) : worker[w].pc # "got"
  /\ loop["tcp"] = "ended" => ~running
  /\ stop = "stopped" => active = 0 /\ \A k \in Kinds : loop[k] = "ended"

\* Between Configure and RestartFlows the flows are not known to be restarted.
Configured == apply = "configured" => ~restarted

RelayInv ==
  /\ TypeOK /\ Shapes /\ CountsBalance /\ Owned /\ Listed /\ Configured
  /\ Unthreatened /\ ClientsListed /\ LoopsHand /\ TcpFlowsFollowRules

-----------------------------------------------------------------------------
\* What a step of one worker leaves alone, and what follows for each part.

\* Only w moves.
Others(w) == \A v \in Workers : v # w => worker'[v] = worker[v]

\* One worker more or less, or none: the counts follow.
LEMMA CountsKept ==
  ASSUME CountsBalance, active' = active, flows' = flows, Counted' = Counted,
         \A r \in Rules : FlowsOf(r)' = FlowsOf(r)
  PROVE  CountsBalance'
  BY DEF CountsBalance, WorkersCounted, FlowsBalanced

\* The workers, and those of a rule in a flow, are finitely many.
LEMMA Finite ==
  /\ IsFiniteSet(Counted) /\ Cardinality(Counted) \in Nat
  /\ \A r : IsFiniteSet(FlowsOf(r)) /\ Cardinality(FlowsOf(r)) \in Nat
<1>1. Counted \in SUBSET Workers /\ \A r : FlowsOf(r) \in SUBSET Workers
  BY DEF Counted, FlowsOf
<1>. QED
  BY <1>1, FiniteAssumption, FS_Subset, FS_CardinalityType

\* What w holds in the next state is what it holds now, and no socket is opened or
\* freed by the step.
LEMMA OwnedKept ==
  ASSUME Owned, NEW w \in Workers, Others(w),
         \A s \in Sides : Held(w, s)' = Held(w, s),
         \A h \in Handles : (sock'[h] = "free") <=> (sock[h] = "free"),
         \A v \in Workers, s \in Sides : Held(v, s) \in Handles \cup {NoHandle}
  PROVE  Owned'
<1>1. \A v \in Workers, s \in Sides : Held(v, s)' = Held(v, s)
  BY DEF Others, Held, HoldsClient, HoldsOutbound
<1>2. HeldAreSockets'
  BY <1>1 DEF Owned, HeldAreSockets
<1>3. HeldOnce'
  BY <1>1 DEF Owned, HeldOnce
<1>4. SocketsHeld'
  BY <1>1 DEF Owned, SocketsHeld
<1>. QED
  BY <1>2, <1>3, <1>4 DEF Owned

\* w opens a socket on one of its sides.
LEMMA OwnedGain ==
  ASSUME Owned, NEW w \in Workers, NEW side \in Sides, NEW h \in Handles, Others(w),
         sock \in [Handles -> {"free", "open", "shut"}],
         sock[h] = "free", sock' = [sock EXCEPT ![h] = "open"],
         Held(w, side) = NoHandle, Held(w, side)' = h,
         \A s \in Sides : s # side => Held(w, s)' = Held(w, s),
         \A v \in Workers, s \in Sides : Held(v, s) \in Handles \cup {NoHandle}
  PROVE  Owned'
<1>1. \A v \in Workers, s \in Sides : ~(v = w /\ s = side) => Held(v, s)' = Held(v, s)
  BY DEF Others, Held, HoldsClient, HoldsOutbound
<1>2. \A v \in Workers, s \in Sides : Held(v, s) # h
  BY NoHandleAssumption DEF Owned, HeldAreSockets
<1>3. HeldAreSockets'
  BY <1>1, <1>2 DEF Owned, HeldAreSockets
<1>4. HeldOnce'
  BY <1>1, <1>2 DEF Owned, HeldOnce
<1>5. SocketsHeld'
  <2> SUFFICES ASSUME NEW g \in Handles, sock'[g] # "free"
               PROVE  \E v \in Workers, s \in Sides : Held(v, s)' = g
    BY DEF SocketsHeld
  <2>1. CASE g = h
    BY <2>1
  <2>2. CASE g # h
    <3>1. PICK v \in Workers, s \in Sides : Held(v, s) = g
      BY <2>2 DEF Owned, SocketsHeld
    <3>. QED
      BY <1>1, <2>2, <3>1, NoHandleAssumption
  <2>. QED
    BY <2>1, <2>2
<1>. QED
  BY <1>3, <1>4, <1>5 DEF Owned

\* w closes the socket of one of its sides.
LEMMA OwnedLose ==
  ASSUME Owned, NEW w \in Workers, NEW side \in Sides, NEW h \in Handles, Others(w),
         sock \in [Handles -> {"free", "open", "shut"}],
         sock' = [sock EXCEPT ![h] = "free"],
         Held(w, side) = h, Held(w, side)' = NoHandle,
         \A s \in Sides : s # side => Held(w, s)' = Held(w, s),
         \A v \in Workers, s \in Sides : Held(v, s) \in Handles \cup {NoHandle}
  PROVE  Owned'
<1>1. \A v \in Workers, s \in Sides : ~(v = w /\ s = side) => Held(v, s)' = Held(v, s)
  BY DEF Others, Held, HoldsClient, HoldsOutbound
<1>2. \A v \in Workers, s \in Sides : Held(v, s) = h => v = w /\ s = side
  BY NoHandleAssumption DEF Owned, HeldOnce
<1>3. HeldAreSockets'
  BY <1>1, <1>2 DEF Owned, HeldAreSockets
<1>4. HeldOnce'
  BY <1>1, <1>2 DEF Owned, HeldOnce
<1>5. SocketsHeld'
  BY <1>1, <1>2 DEF Owned, SocketsHeld
<1>. QED
  BY <1>3, <1>4, <1>5 DEF Owned

\* What a worker holds is a handle.
LEMMA HeldTyped ==
  ASSUME TypeOK
  PROVE  \A v \in Workers, s \in Sides : Held(v, s) \in Handles \cup {NoHandle}
  BY DEF TypeOK, Worker, Held

\* No worker but w closes, opens or unlists what others hold, and w's own part holds:
\* then so does the invariant.
LEMMA WorkerMoves ==
  ASSUME RelayInv, NEW w \in Workers, Others(w),
         rules' = rules, apply' = apply, restarted' = restarted,
         TypeOK', Shape(w)', CountsBalance', Owned', LoopsHand',
         \A h \in tracked' : h \in tracked \/ WillUnlist(w, h)',
         \A h \in tracked' : WillUnlist(w, h) => WillUnlist(w, h)',
         \A h \in tracked : h \in tracked' \/ Unlists(w, h),
         \A h \in Handles : Unlists(w, h)' => Unlists(w, h) \/ \E s \in Sides : Held(w, s) = h,
         HoldsClient(w)' /\ ~worker'[w].reused =>
           /\ \A v \in Workers : ~Threatens(v, w)'
           /\ w \in TcpWorkers /\ worker'[w].pc \notin {"got", "trackIn"} =>
                worker'[w].client \in tracked',
         \A v \in Workers : v # w /\ HoldsClient(v) =>
           sock'[worker[v].client] = sock[worker[v].client],
         apply = "idle" /\ restarted /\ w \in TcpWorkers /\ Stale(w)' /\ ~worker'[w].reused =>
           sock'[worker'[w].client] = "shut"
  PROVE  RelayInv'
<1>0. /\ TypeOK /\ Shapes /\ Owned /\ Listed
      /\ Unthreatened /\ ClientsListed /\ TcpFlowsFollowRules
  BY DEF RelayInv
<1>1. Shapes'
  <2> SUFFICES ASSUME NEW v \in Workers, v # w PROVE Shape(v)'
    BY DEF Shapes
  <2>. QED
    BY <1>0 DEF Shapes, Shape, Others
<1>2. Listed'
  <2> SUFFICES ASSUME NEW h \in tracked' PROVE \E v \in Workers : WillUnlist(v, h)'
    BY DEF Listed
  <2>1. CASE h \in tracked
    <3>1. PICK v \in Workers : WillUnlist(v, h)
      BY <1>0, <2>1 DEF Listed
    <3>2. CASE v = w
      BY <3>1, <3>2
    <3>3. CASE v # w
      BY <3>1, <3>3 DEF WillUnlist, Others
    <3>. QED
      BY <3>2, <3>3
  <2>. QED
    BY <2>1
<1>3. \A v \in Workers : v # w => (HoldsClient(v)' <=> HoldsClient(v))
  BY DEF HoldsClient, Others
<1>4. \A h : \A v \in Workers : v # w => (Unlists(v, h)' <=> Unlists(v, h))
  BY DEF Unlists, Others
<1>5. \A v \in Workers : HoldsClient(v) => worker[v].client \in Handles /\ Held(v, "in") = worker[v].client
  BY <1>0 DEF HoldsClient, Held, TypeOK, Worker
<1>6. Unthreatened'
  <2> SUFFICES ASSUME NEW v \in Workers, v # w, HoldsClient(v)', ~worker'[v].reused,
                      NEW x \in Workers, Threatens(x, v)'
               PROVE  FALSE
    BY DEF Unthreatened
  <2>1. HoldsClient(v) /\ worker'[v] = worker[v]
    BY <1>3 DEF Others
  <2>2. \A y \in Workers : ~Unlists(y, worker[v].client)
    BY <1>0, <2>1 DEF Unthreatened, Threatens
  <2>3. Unlists(x, worker[v].client)'
    BY <2>1 DEF Threatens, Unlists
  <2>4. x = w
    BY <1>4, <2>2, <2>3 DEF Unlists, Others
  <2>5. \E s \in Sides : Held(w, s) = worker[v].client
    BY <1>5, <2>1, <2>2, <2>3, <2>4
  <2>. QED
    BY <1>0, <1>5, <2>1, <2>5, NoHandleAssumption DEF Owned, HeldOnce, Sides
<1>7. ClientsListed'
  <2> SUFFICES ASSUME NEW v \in TcpWorkers, v # w, HoldsClient(v)', ~worker'[v].reused,
                      worker'[v].pc \notin {"got", "trackIn"}
               PROVE  worker'[v].client \in tracked'
    BY DEF ClientsListed
  <2>1. v \in Workers
    BY DEF Workers
  <2>2. HoldsClient(v) /\ worker'[v] = worker[v]
    BY <1>3, <2>1 DEF Others
  <2>3. worker[v].client \in tracked
    BY <1>0, <2>2 DEF ClientsListed
  <2>4. ~Unlists(w, worker[v].client)
    BY <1>0, <2>1, <2>2 DEF Unthreatened, Threatens
  <2>. QED
    BY <2>2, <2>3, <2>4
<1>8. TcpFlowsFollowRules'
  <2> SUFFICES ASSUME apply = "idle", restarted, NEW v \in TcpWorkers, v # w,
                      Stale(v)', ~worker'[v].reused
               PROVE  sock'[worker'[v].client] = "shut"
    BY DEF TcpFlowsFollowRules
  <2>1. v \in Workers
    BY DEF Workers
  <2>2. worker'[v] = worker[v] /\ Stale(v)
    BY <2>1 DEF Others, Stale
  <2>3. HoldsClient(v)
    <3>1. worker[v].client # NoHandle
      BY <1>0, <2>1, <2>2, WorkersAssumption DEF Shapes, Shape, Stale
    <3>. QED
      BY <2>2, <3>1 DEF HoldsClient, Stale
  <2>. QED
    BY <1>0, <2>1, <2>2, <2>3 DEF TcpFlowsFollowRules
<1>. QED
  BY <1>1, <1>2, <1>6, <1>7, <1>8 DEF RelayInv, Configured

\* The counts stay right when neither changes and w is counted as before.
LEMMA CountsMove ==
  ASSUME CountsBalance, NEW w \in Workers, Others(w), active' = active, flows' = flows,
         (w \in Counted') <=> (w \in Counted),
         \A r \in Rules : (w \in FlowsOf(r)') <=> (w \in FlowsOf(r))
  PROVE  CountsBalance'
<1>1. Counted' = Counted
  BY DEF Counted, Others
<1>2. \A r \in Rules : FlowsOf(r)' = FlowsOf(r)
  BY DEF FlowsOf, Others
<1>. QED
  BY <1>1, <1>2, CountsKept

\* The loops have nothing more in hand.
LEMMA LoopsMove ==
  ASSUME LoopsHand, NEW w \in Workers, Others(w), loop' = loop, stop' = stop,
         stop = "stopped" => active' = 0, worker'[w].pc # "got"
  PROVE  LoopsHand'
<1>1. \A k \in Kinds : WorkersOf(k) \subseteq Workers
  BY DEF Kinds, WorkersOf, Workers
<1>2. \A k \in Kinds : \A v \in WorkersOf(k) : worker'[v].pc = "got" => worker[v].pc = "got"
  BY <1>1 DEF Others
<1>. QED
  BY <1>2 DEF LoopsHand, running

\* A step of w that opens and closes nothing and keeps its client.
LEMMA QuietMove ==
  ASSUME RelayInv, NEW w \in Workers, Others(w),
         rules' = rules, apply' = apply, restarted' = restarted, sock' = sock,
         loop' = loop, stop' = stop, stop = "stopped" => active' = 0,
         TypeOK', Shape(w)', CountsBalance', worker'[w].pc # "got",
         \A s \in Sides : Held(w, s)' = Held(w, s),
         \A h \in tracked' : h \in tracked \/ WillUnlist(w, h)',
         \A h \in tracked' : WillUnlist(w, h) => WillUnlist(w, h)',
         \A h \in tracked : h \in tracked' \/ Unlists(w, h),
         \A h \in Handles : Unlists(w, h)' => Unlists(w, h),
         HoldsClient(w)' \/ Stale(w)' => /\ worker'[w].client = worker[w].client
                                        /\ worker'[w].reused = worker[w].reused,
         HoldsClient(w)' => HoldsClient(w),
         w \in TcpWorkers /\ HoldsClient(w)' /\ worker[w].pc \in {"got", "trackIn"}
           /\ worker'[w].pc \notin {"got", "trackIn"} => worker[w].client \in tracked',
         w \in TcpWorkers /\ Stale(w)' => Stale(w)
  PROVE  RelayInv'
<1>0. /\ TypeOK /\ Owned /\ Unthreatened /\ ClientsListed /\ LoopsHand /\ TcpFlowsFollowRules
  BY DEF RelayInv
<1>1. Owned'
  BY <1>0, HeldTyped, OwnedKept
<1>2. LoopsHand'
  BY <1>0, LoopsMove
<1>3. ASSUME HoldsClient(w)', ~worker'[w].reused, NEW v \in Workers, Threatens(v, w)'
      PROVE  FALSE
  <2>0. worker'[w].client = worker[w].client /\ worker'[w].reused = worker[w].reused
    BY <1>3
  <2>1. Unlists(v, worker[w].client)'
    BY <1>3, <2>0 DEF Threatens, Unlists
  <2>2. worker[w].client \in Handles
    BY <1>0, <1>3 DEF HoldsClient, TypeOK, Worker
  <2>3. Unlists(v, worker[w].client)
    <3>1. CASE v = w
      BY <2>0, <2>1, <2>2, <3>1 DEF Unlists
    <3>2. CASE v # w
      BY <2>0, <2>1, <3>2 DEF Unlists, Others
    <3>. QED
      BY <3>1, <3>2
  <2>. QED
    BY <1>0, <1>3, <2>0, <2>3 DEF Unthreatened, Threatens
<1>4. ASSUME HoldsClient(w)', ~worker'[w].reused, w \in TcpWorkers,
             worker'[w].pc \notin {"got", "trackIn"}
      PROVE  worker'[w].client \in tracked'
  <2>0. worker'[w].client = worker[w].client /\ worker'[w].reused = worker[w].reused
    BY <1>4
  <2>1. CASE worker[w].pc \in {"got", "trackIn"}
    BY <1>4, <2>0, <2>1
  <2>2. CASE worker[w].pc \notin {"got", "trackIn"}
    <3>1. worker[w].client \in tracked
      BY <1>0, <1>4, <2>0, <2>2 DEF ClientsListed
    <3>2. ~Unlists(w, worker[w].client)
      BY <1>0, <1>4, <2>0 DEF Unthreatened, Threatens
    <3>. QED
      BY <2>0, <3>1, <3>2
  <2>. QED
    BY <2>1, <2>2
<1>5. apply = "idle" /\ restarted /\ w \in TcpWorkers /\ Stale(w)' /\ ~worker'[w].reused =>
        sock'[worker'[w].client] = "shut"
  BY <1>0 DEF TcpFlowsFollowRules
<1>. QED
  BY <1>1, <1>2, <1>3, <1>4, <1>5, WorkerMoves

\* The fields of w after a step of w.
Becomes(w, pc, client, outbound, adapter) ==
  /\ Others(w)
  /\ worker' \in [Workers -> Worker]
  /\ worker'[w].pc = pc
  /\ worker'[w].client = client
  /\ worker'[w].outbound = outbound
  /\ worker'[w].adapter = adapter

\* The rule, and the history of the client, of w stay.
Stays(w) == worker'[w].rule = worker[w].rule /\ worker'[w].reused = worker[w].reused

\* A worker that returns has no socket.
LEMMA ReturnsFields ==
  ASSUME TypeOK, NEW w \in Workers, Returns(w)
  PROVE  Becomes(w, "leave", NoHandle, NoHandle, NoRule) /\ ~worker'[w].reused
  BY DEF TypeOK, Returns, NoWorker, Worker, Places, Becomes, Others

\* A rule that is not there leaves no flow to be opened.
LEMMA LookupStep == ASSUME RelayInv, NEW w \in Workers, Lookup(w) PROVE RelayInv'
<1>0. TypeOK /\ Shapes /\ CountsBalance /\ LoopsHand
  BY DEF RelayInv
<1>1. /\ worker[w] \in Worker /\ worker[w].pc = "lookup" /\ Shape(w)
      /\ worker[w].rule \in Rules
  BY <1>0 DEF TypeOK, Shapes, Shape, Lookup, At
<1>2. /\ worker'[w].pc \in {"closeIn", "open"} /\ Stays(w)
      /\ Becomes(w, worker'[w].pc, worker[w].client, worker[w].outbound, rules[worker[w].rule])
      /\ TypeOK'
  BY <1>0, <1>1 DEF Lookup, TypeOK, Worker, Places, Becomes, Stays, Others
<1>3. Shape(w)'
  BY <1>1, <1>2 DEF Shape, Becomes, Stays
<1>4. CountsBalance'
  BY <1>0, <1>1, <1>2, CountsMove DEF Lookup, Becomes, Counted, FlowsOf, InFlow, Shape
<1>5. \A s \in Sides : Held(w, s)' = Held(w, s)
  BY <1>1, <1>2 DEF Sides, Held, HoldsClient, HoldsOutbound, Becomes, Shape
<1>6. /\ \A h \in tracked : WillUnlist(w, h) => WillUnlist(w, h)'
      /\ \A h \in Handles : Unlists(w, h)' => Unlists(w, h)
  BY <1>1, <1>2, NoHandleAssumption DEF WillUnlist, Unlists, Becomes, Shape
<1>7. HoldsClient(w)' => HoldsClient(w)
  BY <1>1, <1>2 DEF HoldsClient, Becomes
<1>8. ~Stale(w)'
  BY <1>1, <1>2 DEF Lookup, Stale, Becomes, Stays
<1>. QED
  BY <1>0, <1>1, <1>2, <1>3, <1>4, <1>5, <1>6, <1>7, <1>8, QuietMove DEF Lookup, Becomes, Stays, LoopsHand

\* TrackClient: the client of a TCP connection is on the list before its rule is looked up.
LEMMA TrackClientStep == ASSUME RelayInv, NEW w \in Workers, TrackClient(w) PROVE RelayInv'
<1>0. TypeOK /\ Shapes /\ CountsBalance /\ LoopsHand
  BY DEF RelayInv
<1>1. /\ worker[w] \in Worker /\ worker[w].pc = "trackIn" /\ Shape(w)
      /\ worker[w].client \in Handles
  BY <1>0 DEF TypeOK, Worker, Shapes, Shape, TrackClient, At
<1>2. /\ worker'[w].pc = IF w \in TcpWorkers THEN "lookup" ELSE "trackOut"
      /\ Becomes(w, worker'[w].pc, worker[w].client, worker[w].outbound, worker[w].adapter)
      /\ Stays(w) /\ tracked' = tracked \cup {worker[w].client}
      /\ TypeOK'
  BY <1>0, <1>1 DEF TrackClient, Track, Goes, TypeOK, Worker, Places, Becomes, Stays, Others
<1>3. Shape(w)'
  BY <1>1, <1>2, WorkersAssumption DEF Shape, Becomes, Stays, Workers
<1>4. CountsBalance'
  BY <1>0, <1>1, <1>2, CountsMove DEF TrackClient, Becomes, Stays, Counted, FlowsOf, InFlow, Shape
<1>5. \A s \in Sides : Held(w, s)' = Held(w, s)
  BY <1>1, <1>2, WorkersAssumption DEF Sides, Held, HoldsClient, HoldsOutbound, Becomes, Shape
<1>6. /\ \A h \in Handles : WillUnlist(w, h) => WillUnlist(w, h)'
      /\ \A h \in Handles : Unlists(w, h)' => Unlists(w, h)
      /\ WillUnlist(w, worker[w].client)'
  BY <1>1, <1>2 DEF WillUnlist, Unlists, Becomes
<1>7. HoldsClient(w)' => HoldsClient(w)
  BY <1>1, <1>2 DEF HoldsClient, Becomes
<1>8. w \in TcpWorkers => ~Stale(w)'
  BY <1>1, <1>2 DEF Stale, Becomes, Shape
<1>9. tracked' \subseteq Handles
  BY <1>2 DEF TypeOK
<1>. QED
  BY <1>0, <1>1, <1>2, <1>3, <1>4, <1>5, <1>6, <1>7, <1>8, <1>9, QuietMove
  DEF TrackClient, Becomes, Stays, LoopsHand

\* QueryFails: a connection without a redirect context is given up.
LEMMA QueryFailsStep == ASSUME RelayInv, NEW w \in Workers, QueryFails(w) PROVE RelayInv'
<1>0. TypeOK /\ Shapes /\ CountsBalance /\ LoopsHand
  BY DEF RelayInv
<1>1. worker[w] \in Worker /\ worker[w].pc = "lookup" /\ Shape(w) /\ w \in TcpWorkers
  BY <1>0 DEF TypeOK, Shapes, QueryFails, At
<1>2. /\ Becomes(w, "closeIn", worker[w].client, worker[w].outbound, worker[w].adapter)
      /\ Stays(w) /\ TypeOK'
  BY <1>0, <1>1, SMTT(30) DEF QueryFails, Goes, TypeOK, Worker, Places, Becomes, Stays, Others
<1>3. Shape(w)'
  BY <1>1, <1>2 DEF Shape, Becomes, Stays
<1>4. CountsBalance'
  BY <1>0, <1>1, <1>2, CountsMove DEF QueryFails, Becomes, Counted, FlowsOf, InFlow, Shape
<1>5. \A s \in Sides : Held(w, s)' = Held(w, s)
  BY <1>1, <1>2 DEF Sides, Held, HoldsClient, HoldsOutbound, Becomes, Shape
<1>6. /\ \A h \in tracked : WillUnlist(w, h) => WillUnlist(w, h)'
      /\ \A h \in Handles : Unlists(w, h)' => Unlists(w, h)
  BY <1>1, <1>2, NoHandleAssumption DEF WillUnlist, Unlists, Becomes, Shape
<1>7. (HoldsClient(w)' => HoldsClient(w)) /\ ~Stale(w)'
  BY <1>1, <1>2 DEF HoldsClient, Stale, Becomes
<1>. QED
  BY <1>0, <1>1, <1>2, <1>3, <1>4, <1>5, <1>6, <1>7, QuietMove
  DEF QueryFails, Becomes, Stays, LoopsHand

\* OpenFails: the adapter of the rule is gone.
LEMMA OpenFailsStep == ASSUME RelayInv, NEW w \in Workers, OpenFails(w) PROVE RelayInv'
<1>0. TypeOK /\ Shapes /\ CountsBalance /\ LoopsHand
  BY DEF RelayInv
<1>1. worker[w] \in Worker /\ worker[w].pc = "open" /\ Shape(w) /\ worker[w].outbound = NoHandle
  BY <1>0 DEF TypeOK, Shapes, Shape, OpenFails, At
<1>2. /\ Becomes(w, "closeIn", worker[w].client, worker[w].outbound, NoRule)
      /\ Stays(w) /\ TypeOK'
  BY <1>0, <1>1, ZenonT(40) DEF OpenFails, Refused, TypeOK, Worker, Places, Becomes, Stays, Others
<1>3. Shape(w)'
  BY <1>1, <1>2 DEF Shape, Becomes, Stays
<1>4. CountsBalance'
  BY <1>0, <1>1, <1>2, CountsMove DEF OpenFails, Becomes, Counted, FlowsOf, InFlow, Shape
<1>5. \A s \in Sides : Held(w, s)' = Held(w, s)
  BY <1>1, <1>2 DEF Sides, Held, HoldsClient, HoldsOutbound, Becomes, Shape
<1>6. /\ \A h \in tracked : WillUnlist(w, h) => WillUnlist(w, h)'
      /\ \A h \in Handles : Unlists(w, h)' => Unlists(w, h)
  BY <1>1, <1>2, NoHandleAssumption DEF WillUnlist, Unlists, Becomes, Shape
<1>7. (HoldsClient(w)' => HoldsClient(w)) /\ ~Stale(w)'
  BY <1>1, <1>2 DEF HoldsClient, Stale, Becomes
<1>. QED
  BY <1>0, <1>1, <1>2, <1>3, <1>4, <1>5, <1>6, <1>7, QuietMove
  DEF OpenFails, Becomes, Stays, LoopsHand

\* Connect: the socket to the remote end is connected.
LEMMA ConnectStep == ASSUME RelayInv, NEW w \in Workers, Connect(w) PROVE RelayInv'
<1>0. TypeOK /\ Shapes /\ CountsBalance /\ LoopsHand
  BY DEF RelayInv
<1>1. worker[w] \in Worker /\ worker[w].pc = "connect" /\ Shape(w)
  BY <1>0 DEF TypeOK, Shapes, Connect, At
<1>2. /\ worker'[w].pc = IF w \in TcpWorkers THEN "trackOut" ELSE "trackIn"
      /\ Becomes(w, worker'[w].pc, worker[w].client, worker[w].outbound, worker[w].adapter)
      /\ Stays(w) /\ rules' = rules /\ TypeOK'
  BY <1>0, <1>1 DEF Connect, Goes, TypeOK, Worker, Places, Becomes, Stays, Others
<1>3. Shape(w)'
  BY <1>1, <1>2 DEF Shape, Becomes, Stays
<1>4. CountsBalance'
  BY <1>0, <1>1, <1>2, CountsMove DEF Connect, Becomes, Counted, FlowsOf, InFlow, Shape
<1>5. \A s \in Sides : Held(w, s)' = Held(w, s)
  BY <1>1, <1>2 DEF Sides, Held, HoldsClient, HoldsOutbound, Becomes, Shape
<1>6. /\ \A h \in Handles : WillUnlist(w, h) => WillUnlist(w, h)'
      /\ \A h \in Handles : Unlists(w, h)' => Unlists(w, h)
  BY <1>1, <1>2, WorkersAssumption DEF WillUnlist, Unlists, Becomes, Shape, Workers
<1>7. (HoldsClient(w)' => HoldsClient(w)) /\ (Stale(w)' => Stale(w))
  BY <1>1, <1>2 DEF HoldsClient, Stale, Becomes, Stays
<1>8. tracked' = tracked /\ tracked \subseteq Handles
  BY <1>0 DEF Connect, TypeOK
<1>. QED
  BY <1>0, <1>1, <1>2, <1>3, <1>4, <1>5, <1>6, <1>7, <1>8, QuietMove
  DEF Connect, Becomes, Stays, LoopsHand

\* TrackOutbound: the socket to the remote end is listed.
LEMMA TrackOutboundStep == ASSUME RelayInv, NEW w \in Workers, TrackOutbound(w) PROVE RelayInv'
<1>0. TypeOK /\ Shapes /\ CountsBalance /\ LoopsHand
  BY DEF RelayInv
<1>1. /\ worker[w] \in Worker /\ worker[w].pc = "trackOut" /\ Shape(w)
      /\ worker[w].outbound \in Handles
  BY <1>0 DEF TypeOK, Worker, Shapes, Shape, TrackOutbound, At
<1>2. /\ Becomes(w, "count", worker[w].client, worker[w].outbound, worker[w].adapter)
      /\ Stays(w) /\ rules' = rules /\ tracked' = tracked \cup {worker[w].outbound}
      /\ TypeOK'
  BY <1>0, <1>1 DEF TrackOutbound, Track, Goes, TypeOK, Worker, Places, Becomes, Stays, Others
<1>3. Shape(w)'
  BY <1>1, <1>2 DEF Shape, Becomes, Stays
<1>4. CountsBalance'
  BY <1>0, <1>1, <1>2, CountsMove DEF TrackOutbound, Becomes, Counted, FlowsOf, InFlow, Shape
<1>5. \A s \in Sides : Held(w, s)' = Held(w, s)
  BY <1>1, <1>2 DEF Sides, Held, HoldsClient, HoldsOutbound, Becomes, Shape
<1>6. /\ \A h \in Handles : WillUnlist(w, h) => WillUnlist(w, h)'
      /\ \A h \in Handles : Unlists(w, h)' => Unlists(w, h)
      /\ WillUnlist(w, worker[w].outbound)'
  BY <1>1, <1>2 DEF WillUnlist, Unlists, Becomes
<1>7. (HoldsClient(w)' => HoldsClient(w)) /\ (Stale(w)' => Stale(w))
  BY <1>1, <1>2 DEF HoldsClient, Stale, Becomes, Stays
<1>8. tracked' \subseteq Handles
  BY <1>2 DEF TypeOK
<1>. QED
  BY <1>0, <1>1, <1>2, <1>3, <1>4, <1>5, <1>6, <1>7, <1>8, QuietMove
  DEF TrackOutbound, Becomes, Stays, LoopsHand

\* PumpEnds and SessionEnds: the flow goes on with one direction, or is left.
LEMMA FlowStep ==
  ASSUME RelayInv, NEW w \in Workers, SessionEnds(w) \/ \E p \in {"up", "down"} : PumpEnds(w, p)
  PROVE  RelayInv'
<1>0. TypeOK /\ Shapes /\ CountsBalance /\ LoopsHand
  BY DEF RelayInv
<1>1. worker[w] \in Worker /\ worker[w].pc = "flow" /\ Shape(w)
  BY <1>0 DEF TypeOK, Shapes, SessionEnds, PumpEnds, At
<1>2. UNCHANGED <<rules, apply, applies, restarted, stop, loop, sock, tracked, active, flows>>
  BY DEF SessionEnds, PumpEnds
<1>3. /\ worker'[w].pc \in {"flow", "closeOut"} /\ Stays(w)
      /\ Becomes(w, worker'[w].pc, worker[w].client, worker[w].outbound, worker[w].adapter)
  <2>1. CASE SessionEnds(w)
    BY <1>0, <1>1, <2>1 DEF SessionEnds, Goes, TypeOK, Worker, Places, Becomes, Stays, Others
  <2>2. ASSUME NEW p \in {"up", "down"}, PumpEnds(w, p)
        PROVE /\ worker'[w].pc \in {"flow", "closeOut"} /\ Stays(w)
              /\ Becomes(w, worker'[w].pc, worker[w].client, worker[w].outbound, worker[w].adapter)
    BY <1>0, <1>1, <2>2, ZenonT(40) DEF PumpEnds, TypeOK, Worker, Places, Becomes, Stays, Others
  <2>. QED
    BY <2>1, <2>2
<1>4. TypeOK'
  BY <1>0, <1>2, <1>3 DEF TypeOK, Becomes
<1>5. Shape(w)'
  BY <1>1, <1>3 DEF Shape, Becomes, Stays
<1>6. CountsBalance'
  BY <1>0, <1>1, <1>2, <1>3, CountsMove DEF Becomes, Stays, Counted, FlowsOf, InFlow, Shape
<1>7. \A s \in Sides : Held(w, s)' = Held(w, s)
  BY <1>1, <1>3 DEF Sides, Held, HoldsClient, HoldsOutbound, Becomes, Shape
<1>8. \A h : (WillUnlist(w, h) => WillUnlist(w, h)') /\ (Unlists(w, h)' => Unlists(w, h))
  BY <1>1, <1>3 DEF WillUnlist, Unlists, Becomes
<1>9. (HoldsClient(w)' => HoldsClient(w)) /\ (Stale(w)' => Stale(w))
  BY <1>1, <1>2, <1>3 DEF HoldsClient, Stale, Becomes, Stays
<1>. QED
  BY <1>0, <1>1, <1>2, <1>3, <1>4, <1>5, <1>6, <1>7, <1>8, <1>9, QuietMove
  DEF Becomes, Stays, LoopsHand

\* BindFails: a session without a socket is over.
LEMMA BindFailsStep == ASSUME RelayInv, NEW w \in Workers, BindFails(w) PROVE RelayInv'
<1>0. TypeOK /\ Shapes /\ CountsBalance /\ LoopsHand
  BY DEF RelayInv
<1>1. /\ worker[w] \in Worker /\ worker[w].pc = "bind" /\ Shape(w)
      /\ worker[w].client = NoHandle /\ worker[w].outbound = NoHandle
  BY <1>0 DEF TypeOK, Shapes, Shape, BindFails, At
<1>2. Becomes(w, "leave", NoHandle, NoHandle, NoRule) /\ TypeOK'
  BY <1>0, <1>1 DEF BindFails, Returns, NoWorker, TypeOK, Worker, Places, Becomes, Others
<1>3. Shape(w)'
  BY <1>2 DEF Shape, Becomes
<1>4. CountsBalance'
  BY <1>0, <1>1, <1>2, CountsMove DEF BindFails, Becomes, Counted, FlowsOf, InFlow
<1>5. /\ \A s \in Sides : Held(w, s)' = Held(w, s)
      /\ ~HoldsClient(w)' /\ ~Stale(w)'
  BY <1>1, <1>2 DEF Sides, Held, HoldsClient, HoldsOutbound, Becomes, Stale
<1>6. \A h \in Handles : ~WillUnlist(w, h) /\ ~Unlists(w, h)'
  BY <1>1, <1>2 DEF WillUnlist, Unlists, Becomes
<1>7. tracked' = tracked /\ tracked \subseteq Handles
  BY <1>0 DEF BindFails, TypeOK
<1>. QED
  BY <1>0, <1>1, <1>2, <1>3, <1>4, <1>5, <1>6, <1>7, QuietMove DEF BindFails, Becomes, LoopsHand

\* CountFlow: one flow more of the rule.
LEMMA CountFlowStep == ASSUME RelayInv, NEW w \in Workers, CountFlow(w) PROVE RelayInv'
<1>0. TypeOK /\ Shapes /\ CountsBalance /\ LoopsHand
  BY DEF RelayInv
<1>1. /\ worker[w] \in Worker /\ worker[w].pc = "count" /\ Shape(w)
      /\ worker[w].rule \in Rules /\ worker[w].outbound # NoHandle
  BY <1>0 DEF TypeOK, Shapes, Shape, CountFlow, At
<1>2. /\ Becomes(w, "flow", worker[w].client, worker[w].outbound, worker[w].adapter)
      /\ Stays(w) /\ rules' = rules
  BY <1>0, <1>1 DEF CountFlow, TypeOK, Worker, Places, Becomes, Stays, Others
<1>3. flows' = [flows EXCEPT ![worker[w].rule] = @ + 1] /\ flows \in [Rules -> Nat] /\ active' = active
  BY <1>0 DEF CountFlow, TypeOK
<1>4. TypeOK'
  BY <1>0, <1>1, <1>2, <1>3 DEF CountFlow, TypeOK, Becomes
<1>5. Shape(w)'
  BY <1>1, <1>2 DEF Shape, Becomes, Stays
<1>6. CountsBalance'
  <2>1. Counted' = Counted
    BY <1>1, <1>2 DEF Counted, Becomes, Others
  <2>2. ASSUME NEW r \in Rules PROVE flows'[r] = Cardinality(FlowsOf(r)')
    <3>0. flows[r] = Cardinality(FlowsOf(r))
      BY <1>0 DEF CountsBalance, FlowsBalanced
    <3>1. CASE r = worker[w].rule
      <4>1. FlowsOf(r)' = FlowsOf(r) \cup {w} /\ w \notin FlowsOf(r)
        BY <1>1, <1>2, <3>1 DEF FlowsOf, InFlow, Becomes, Stays, Others
      <4>2. IsFiniteSet(FlowsOf(r)) /\ Cardinality(FlowsOf(r)) \in Nat
        BY Finite
      <4>3. Cardinality(FlowsOf(r)') = Cardinality(FlowsOf(r)) + 1
        BY <4>1, <4>2, FS_AddElement
      <4>. QED
        BY <1>1, <1>3, <3>0, <3>1, <4>2, <4>3
    <3>2. CASE r # worker[w].rule
      <4>1. FlowsOf(r)' = FlowsOf(r)
        BY <1>1, <1>2, <3>2 DEF FlowsOf, InFlow, Becomes, Stays, Others
      <4>. QED
        BY <1>3, <3>0, <3>2, <4>1
    <3>. QED
      BY <3>1, <3>2
  <2>. QED
    BY <1>0, <1>3, <2>1, <2>2 DEF CountsBalance, WorkersCounted, FlowsBalanced
<1>7. \A s \in Sides : Held(w, s)' = Held(w, s)
  BY <1>1, <1>2 DEF Sides, Held, HoldsClient, HoldsOutbound, Becomes, Shape
<1>8. \A h : (WillUnlist(w, h) => WillUnlist(w, h)') /\ (Unlists(w, h)' => Unlists(w, h))
  BY <1>1, <1>2 DEF WillUnlist, Unlists, Becomes
<1>9. (HoldsClient(w)' => HoldsClient(w)) /\ (Stale(w)' => Stale(w))
  BY <1>1, <1>2 DEF HoldsClient, Stale, Becomes, Stays
<1>. QED
  BY <1>0, <1>1, <1>2, <1>3, <1>4, <1>5, <1>6, <1>7, <1>8, <1>9, QuietMove
  DEF CountFlow, Becomes, Stays, LoopsHand

\* UntrackOutbound: the closed socket to the remote end is taken off the list.
LEMMA UntrackOutboundStep == ASSUME RelayInv, NEW w \in Workers, UntrackOutbound(w) PROVE RelayInv'
<1>0. TypeOK /\ Shapes /\ CountsBalance /\ LoopsHand
  BY DEF RelayInv
<1>1. worker[w] \in Worker /\ worker[w].pc = "untrackOut" /\ Shape(w)
  BY <1>0 DEF TypeOK, Shapes, UntrackOutbound, At
<1>2. /\ Becomes(w, "untrackIn", worker[w].client, worker[w].outbound, worker[w].adapter)
      /\ Stays(w) /\ tracked' = tracked \ {worker[w].outbound}
      /\ TypeOK'
  BY <1>0, <1>1, SMTT(30) DEF UntrackOutbound, Untrack, Goes, TypeOK, Worker, Places, Becomes, Stays, Others
<1>3. Shape(w)'
  BY <1>1, <1>2 DEF Shape, Becomes, Stays
<1>4. CountsBalance'
  BY <1>0, <1>1, <1>2, CountsMove DEF UntrackOutbound, Becomes, Stays, Counted, FlowsOf, InFlow, Shape
<1>5. \A s \in Sides : Held(w, s)' = Held(w, s)
  BY <1>1, <1>2 DEF Sides, Held, HoldsClient, HoldsOutbound, Becomes
<1>6. /\ \A h \in tracked' : WillUnlist(w, h) => WillUnlist(w, h)'
      /\ \A h \in tracked : h \in tracked' \/ Unlists(w, h)
      /\ \A h : Unlists(w, h)' => Unlists(w, h)
  BY <1>1, <1>2 DEF WillUnlist, Unlists, Becomes
<1>7. (HoldsClient(w)' => HoldsClient(w)) /\ ~Stale(w)'
  BY <1>1, <1>2 DEF HoldsClient, Stale, Becomes
<1>. QED
  BY <1>0, <1>1, <1>2, <1>3, <1>4, <1>5, <1>6, <1>7, QuietMove
  DEF UntrackOutbound, Becomes, Stays, LoopsHand

\* UntrackClient: the closed client is taken off the list.
LEMMA UntrackClientStep == ASSUME RelayInv, NEW w \in Workers, UntrackClient(w) PROVE RelayInv'
<1>0. TypeOK /\ Shapes /\ CountsBalance /\ LoopsHand
  BY DEF RelayInv
<1>1. worker[w] \in Worker /\ worker[w].pc = "untrackIn" /\ Shape(w)
  BY <1>0 DEF TypeOK, Shapes, UntrackClient, At
<1>2. /\ Others(w) /\ worker' \in [Workers -> Worker]
      /\ tracked' = tracked \ {worker[w].client}
      /\ TypeOK'
      /\ \/ /\ worker[w].outbound # NoHandle /\ worker'[w].pc = "uncount" /\ Stays(w)
            /\ worker'[w].client = worker[w].client /\ worker'[w].outbound = worker[w].outbound
         \/ /\ worker[w].outbound = NoHandle /\ worker'[w].pc = "leave"
            /\ worker'[w].client = NoHandle /\ worker'[w].outbound = NoHandle
  <2>1. CASE worker[w].outbound # NoHandle
    BY <1>0, <1>1, <2>1 DEF UntrackClient, Untrack, Goes, TypeOK, Worker, Places, Stays, Others
  <2>2. CASE worker[w].outbound = NoHandle
    <3>1. Returns(w) /\ tracked' = tracked \ {worker[w].client}
      BY <2>2 DEF UntrackClient, Untrack
    <3>2. Becomes(w, "leave", NoHandle, NoHandle, NoRule)
      BY <1>0, <3>1, ReturnsFields
    <3>3. TypeOK'
      BY <1>0, <3>1, <3>2 DEF UntrackClient, TypeOK, Becomes
    <3>. QED
      BY <2>2, <3>1, <3>2, <3>3 DEF Becomes
  <2>. QED
    BY <2>1, <2>2
<1>3. Shape(w)'
  BY <1>1, <1>2 DEF Shape, Stays
<1>4. CountsBalance'
  BY <1>0, <1>1, <1>2, CountsMove DEF UntrackClient, Stays, Counted, FlowsOf, InFlow
<1>5. /\ \A s \in Sides : Held(w, s)' = Held(w, s)
      /\ ~HoldsClient(w)' /\ ~Stale(w)'
  BY <1>1, <1>2 DEF Sides, Held, HoldsClient, HoldsOutbound, Stale
<1>6. /\ \A h \in tracked' : ~WillUnlist(w, h)
      /\ \A h \in tracked : h \in tracked' \/ Unlists(w, h)
      /\ \A h \in Handles : ~Unlists(w, h)'
  BY <1>1, <1>2 DEF WillUnlist, Unlists
<1>. QED
  BY <1>0, <1>1, <1>2, <1>3, <1>4, <1>5, <1>6, QuietMove DEF UntrackClient, LoopsHand

\* UncountFlow: one flow fewer of the rule.
LEMMA UncountFlowStep == ASSUME RelayInv, NEW w \in Workers, UncountFlow(w) PROVE RelayInv'
<1>0. TypeOK /\ Shapes /\ CountsBalance /\ LoopsHand
  BY DEF RelayInv
<1>1. /\ worker[w] \in Worker /\ worker[w].pc = "uncount" /\ Shape(w)
      /\ worker[w].rule \in Rules /\ worker[w].outbound # NoHandle
  BY <1>0 DEF TypeOK, Shapes, Shape, UncountFlow, At
<1>2. Becomes(w, "leave", NoHandle, NoHandle, NoRule)
  BY <1>0, <1>1 DEF UncountFlow, Returns, NoWorker, TypeOK, Worker, Places, Becomes, Others
<1>3. /\ flows' = [flows EXCEPT ![worker[w].rule] = IF @ > 0 THEN @ - 1 ELSE @]
      /\ flows \in [Rules -> Nat] /\ flows' \in [Rules -> Nat] /\ active' = active
  <2>1. flows[worker[w].rule] \in Nat
    BY <1>0, <1>1 DEF TypeOK
  <2>2. (IF flows[worker[w].rule] > 0 THEN flows[worker[w].rule] - 1 ELSE flows[worker[w].rule]) \in Nat
    BY <2>1
  <2>. QED
    BY <1>0, <2>2 DEF UncountFlow, TypeOK
<1>4. TypeOK'
  BY <1>0, <1>2, <1>3 DEF UncountFlow, TypeOK, Becomes
<1>5. Shape(w)'
  BY <1>2 DEF Shape, Becomes
<1>6. CountsBalance'
  <2>1. Counted' = Counted
    BY <1>1, <1>2 DEF Counted, Becomes, Others
  <2>2. ASSUME NEW r \in Rules PROVE flows'[r] = Cardinality(FlowsOf(r)')
    <3>0. flows[r] = Cardinality(FlowsOf(r))
      BY <1>0 DEF CountsBalance, FlowsBalanced
    <3>1. CASE r = worker[w].rule
      <4>1. FlowsOf(r)' = FlowsOf(r) \ {w} /\ w \in FlowsOf(r)
        BY <1>1, <1>2, <3>1 DEF FlowsOf, InFlow, Becomes, Others
      <4>2. /\ Cardinality(FlowsOf(r)) \in Nat /\ Cardinality(FlowsOf(r)') \in Nat
            /\ Cardinality(FlowsOf(r)') = Cardinality(FlowsOf(r)) - 1
        <5>1. IsFiniteSet(FlowsOf(r))
          BY Finite
        <5>2. IsFiniteSet(FlowsOf(r)')
          BY <4>1, <5>1, FS_RemoveElement
        <5>. QED
          BY <4>1, <5>1, <5>2, FS_RemoveElement, FS_CardinalityType
      <4>. QED
        BY <1>3, <3>0, <3>1, <4>2
    <3>2. CASE r # worker[w].rule
      <4>1. FlowsOf(r)' = FlowsOf(r)
        BY <1>1, <1>2, <3>2 DEF FlowsOf, InFlow, Becomes, Others
      <4>. QED
        BY <1>3, <3>0, <3>2, <4>1
    <3>. QED
      BY <3>1, <3>2
  <2>. QED
    BY <1>0, <1>3, <2>1, <2>2 DEF CountsBalance, WorkersCounted, FlowsBalanced
<1>7. /\ \A s \in Sides : Held(w, s)' = Held(w, s)
      /\ ~HoldsClient(w)' /\ ~Stale(w)'
  BY <1>1, <1>2 DEF Sides, Held, HoldsClient, HoldsOutbound, Becomes, Stale
<1>8. \A h \in Handles : ~WillUnlist(w, h) /\ ~Unlists(w, h)'
  BY <1>1, <1>2 DEF WillUnlist, Unlists, Becomes
<1>9. tracked' = tracked /\ tracked \subseteq Handles
  BY <1>0 DEF UncountFlow, TypeOK
<1>. QED
  BY <1>0, <1>1, <1>2, <1>3, <1>4, <1>5, <1>6, <1>7, <1>8, <1>9, QuietMove
  DEF UncountFlow, Becomes, LoopsHand

\* Leave: the thread gives up its count.  It is counted, so that the count is not 0.
LEMMA LeaveStep == ASSUME RelayInv, NEW w \in Workers, Leave(w) PROVE RelayInv'
<1>0. TypeOK /\ Shapes /\ CountsBalance /\ LoopsHand
  BY DEF RelayInv
<1>1. /\ worker[w] \in Worker /\ worker[w].pc = "leave" /\ Shape(w)
      /\ worker[w].client = NoHandle /\ worker[w].outbound = NoHandle
  BY <1>0 DEF TypeOK, Shapes, Shape, Leave, At
<1>2. Becomes(w, "notify", NoHandle, NoHandle, worker[w].adapter)
  BY <1>0, <1>1 DEF Leave, Goes, TypeOK, Worker, Places, Becomes, Others
<1>3. Counted' = Counted \ {w} /\ w \in Counted
  BY <1>1, <1>2 DEF Counted, Becomes, Others
<1>4. /\ Cardinality(Counted) \in Nat /\ Cardinality(Counted') \in Nat
      /\ Cardinality(Counted') = Cardinality(Counted) - 1
  <2>1. IsFiniteSet(Counted)
    BY Finite
  <2>2. IsFiniteSet(Counted')
    BY <1>3, <2>1, FS_RemoveElement
  <2>. QED
    BY <1>3, <2>1, <2>2, FS_RemoveElement, FS_CardinalityType
<1>5. active = Cardinality(Counted) /\ active' = active - 1
  BY <1>0 DEF CountsBalance, WorkersCounted, Leave
<1>6. active' = Cardinality(Counted') /\ active' \in Nat /\ active # 0
  BY <1>4, <1>5
<1>7. TypeOK'
  BY <1>0, <1>2, <1>6 DEF Leave, TypeOK, Becomes
<1>8. Shape(w)'
  BY <1>2 DEF Shape, Becomes
<1>9. CountsBalance'
  <2>1. \A r \in Rules : FlowsOf(r)' = FlowsOf(r)
    BY <1>1, <1>2 DEF FlowsOf, InFlow, Becomes, Others
  <2>. QED
    BY <1>0, <1>6, <2>1 DEF Leave, CountsBalance, WorkersCounted, FlowsBalanced
<1>10. /\ \A s \in Sides : Held(w, s)' = Held(w, s)
       /\ ~HoldsClient(w)' /\ ~Stale(w)'
  BY <1>1, <1>2 DEF Sides, Held, HoldsClient, HoldsOutbound, Becomes, Stale
<1>11. \A h \in Handles : ~WillUnlist(w, h) /\ ~Unlists(w, h)'
  BY <1>1, <1>2 DEF WillUnlist, Unlists, Becomes
<1>12. tracked' = tracked /\ tracked \subseteq Handles
  BY <1>0 DEF Leave, TypeOK
<1>13. stop # "stopped"
  BY <1>0, <1>6 DEF LoopsHand
<1>. QED
  BY <1>1, <1>2, <1>7, <1>8, <1>9, <1>10, <1>11, <1>12, <1>13, QuietMove DEF Leave, Becomes

\* Notify: the thread ends.
LEMMA NotifyStep == ASSUME RelayInv, NEW w \in Workers, Notify(w) PROVE RelayInv'
<1>0. TypeOK /\ Shapes /\ CountsBalance /\ LoopsHand
  BY DEF RelayInv
<1>1. /\ worker[w] \in Worker /\ worker[w].pc = "notify" /\ Shape(w)
      /\ worker[w].client = NoHandle /\ worker[w].outbound = NoHandle
  BY <1>0 DEF TypeOK, Shapes, Shape, Notify, At
<1>2. Becomes(w, "none", NoHandle, NoHandle, NoRule) /\ TypeOK'
  BY <1>0, <1>1 DEF Notify, NoWorker, TypeOK, Worker, Places, Becomes, Others
<1>3. Shape(w)'
  BY <1>2 DEF Shape, Becomes
<1>4. CountsBalance'
  BY <1>0, <1>1, <1>2, CountsMove DEF Notify, Becomes, Counted, FlowsOf, InFlow
<1>5. /\ \A s \in Sides : Held(w, s)' = Held(w, s)
      /\ ~HoldsClient(w)' /\ ~Stale(w)'
  BY <1>1, <1>2 DEF Sides, Held, HoldsClient, HoldsOutbound, Becomes, Stale
<1>6. \A h \in Handles : ~WillUnlist(w, h) /\ ~Unlists(w, h)'
  BY <1>1, <1>2 DEF WillUnlist, Unlists, Becomes
<1>7. tracked' = tracked /\ tracked \subseteq Handles
  BY <1>0 DEF Notify, TypeOK
<1>. QED
  BY <1>0, <1>1, <1>2, <1>3, <1>4, <1>5, <1>6, <1>7, QuietMove DEF Notify, Becomes, LoopsHand

-----------------------------------------------------------------------------
\* Steps that open or close a socket.

\* The clients of others are not touched when a socket is opened, or w's is closed.
LEMMA OtherClients ==
  ASSUME TypeOK, Owned, NEW w \in Workers, NEW h \in Handles, NEW x,
         sock[h] = "free" \/ \E s \in Sides : Held(w, s) = h,
         sock' = [sock EXCEPT ![h] = x]
  PROVE  \A v \in Workers : v # w /\ HoldsClient(v) =>
           worker[v].client # h /\ sock'[worker[v].client] = sock[worker[v].client]
<1> SUFFICES ASSUME NEW v \in Workers, v # w, HoldsClient(v)
             PROVE  worker[v].client # h /\ sock'[worker[v].client] = sock[worker[v].client]
  OBVIOUS
<1>1. /\ worker[v].client \in Handles /\ Held(v, "in") = worker[v].client
      /\ "in" \in Sides /\ sock \in [Handles -> {"free", "open", "shut"}]
  BY DEF HoldsClient, Held, TypeOK, Worker, Sides
<1>2. worker[v].client # h
  BY <1>1, NoHandleAssumption DEF Owned, HeldAreSockets, HeldOnce
<1>. QED
  BY <1>1, <1>2

\* A client whose handle nobody is going to unlist is not threatened.
LEMMA NewClient ==
  ASSUME NEW w \in Workers, NEW h \in Handles, Others(w), worker'[w].client = h,
         worker'[w].pc \in {"got", "lookup"}, worker'[w].reused = Unlisting(h), ~worker'[w].reused
  PROVE  \A v \in Workers : ~Threatens(v, w)'
<1>1. \A v \in Workers : ~Unlists(v, h)
  BY DEF Unlisting, Unlists
<1>2. \A v \in Workers : Threatens(v, w)' => v # w /\ Unlists(v, h)
  BY DEF Threatens, Unlists, Others
<1>. QED
  BY <1>1, <1>2

\* A client that was not threatened still is not, when w unlists nothing new but what it
\* held beside its client.
LEMMA OldClient ==
  ASSUME Unthreatened, NEW w \in Workers, Others(w), HoldsClient(w),
         ~worker[w].reused, worker'[w].client = worker[w].client,
         ~Threatens(w, w)'
  PROVE  \A v \in Workers : ~Threatens(v, w)'
<1>1. \A v \in Workers : ~Threatens(v, w)
  BY DEF Unthreatened
<1>2. \A v \in Workers : v # w => (Threatens(v, w)' <=> Threatens(v, w))
  BY DEF Threatens, Unlists, Others
<1>. QED
  BY <1>1, <1>2

\* Accept: the TCP loop has a connection in its hands.
LEMMA AcceptStep ==
  ASSUME RelayInv, NEW w \in Workers, NEW r \in Rules, Accept(w, r) PROVE RelayInv'
<1>0. TypeOK /\ Shapes /\ CountsBalance /\ Owned /\ LoopsHand
  BY DEF RelayInv
<1>1. /\ worker[w] \in Worker /\ worker[w].pc = "none" /\ Shape(w) /\ w \in TcpWorkers
      /\ worker[w].client = NoHandle /\ worker[w].outbound = NoHandle
  BY <1>0 DEF TypeOK, Shapes, Shape, Accept
<1>2. PICK h \in Handles :
        /\ sock[h] = "free"
        /\ sock' = [sock EXCEPT ![h] = "open"]
        /\ worker' = [worker EXCEPT ![w] =
             [NoWorker EXCEPT !.pc = "got", !.rule = r, !.client = h, !.reused = Unlisting(h)]]
  BY DEF Accept
<1>3. /\ Becomes(w, "got", h, NoHandle, NoRule) /\ worker'[w].rule = r
      /\ worker'[w].reused = Unlisting(h)
  <2>1. Unlisting(h) \in BOOLEAN
    BY DEF Unlisting
  <2>. QED
    BY <1>0, <1>2, <2>1 DEF NoWorker, TypeOK, Worker, Places, Becomes, Others
<1>4. TypeOK'
  BY <1>0, <1>2, <1>3 DEF Accept, TypeOK, Becomes
<1>5. Shape(w)'
  BY <1>1, <1>3, WorkersAssumption, NoHandleAssumption DEF Shape, Becomes
<1>6. CountsBalance'
  BY <1>0, <1>1, <1>3, CountsMove DEF Accept, Becomes, Counted, FlowsOf, InFlow
<1>7. Owned'
  <2>1. Held(w, "in") = NoHandle /\ Held(w, "in")' = h /\ Held(w, "out") = NoHandle /\ Held(w, "out")' = NoHandle
    BY <1>1, <1>3, NoHandleAssumption DEF Held, HoldsClient, HoldsOutbound, Becomes
  <2>2. /\ "in" \in Sides /\ \A s \in Sides : s # "in" => Held(w, s)' = Held(w, s)
        /\ sock \in [Handles -> {"free", "open", "shut"}] /\ Others(w)
        /\ \A v \in Workers, s \in Sides : Held(v, s) \in Handles \cup {NoHandle}
    BY <1>0, <1>3, <2>1, HeldTyped DEF TypeOK, Becomes, Sides
  <2>. QED
    BY <1>0, <1>2, <2>1, <2>2, OwnedGain
<1>8. LoopsHand'
  <2>1. running /\ loop' = loop /\ stop' = stop /\ active' = active
    BY DEF Accept
  <2>2. \A v \in TcpWorkers : worker'[v].pc = "got" <=> v = w
    BY <1>3 DEF Accept, Becomes, Others, Workers
  <2>3. \A v \in UdpWorkers : worker'[v] = worker[v]
    BY <1>1, <1>3, WorkersAssumption DEF Becomes, Others, Workers
  <2>. QED
    BY <1>0, <2>1, <2>2, <2>3 DEF LoopsHand, Kinds, WorkersOf, running
<1>9. \A g \in Handles : ~WillUnlist(w, g) /\ ~Unlists(w, g)'
  BY <1>1, <1>3 DEF WillUnlist, Unlists, Becomes
<1>10. \A v \in Workers : v # w /\ HoldsClient(v) => sock'[worker[v].client] = sock[worker[v].client]
  BY <1>0, <1>2, OtherClients
<1>11. ~worker'[w].reused => \A v \in Workers : ~Threatens(v, w)'
  BY <1>3, NewClient DEF Becomes
<1>12. ~Stale(w)' /\ tracked' = tracked /\ tracked \subseteq Handles
  BY <1>0, <1>3 DEF Stale, Becomes, Accept, TypeOK
<1>. QED
  BY <1>3, <1>4, <1>5, <1>6, <1>7, <1>8, <1>9, <1>10, <1>11, <1>12, WorkerMoves DEF Accept, Becomes

\* ReceivePacket: the UDP loop has a session in its hands.
LEMMA ReceivePacketStep ==
  ASSUME RelayInv, NEW w \in Workers, NEW r \in Rules, ReceivePacket(w, r) PROVE RelayInv'
<1>0. TypeOK /\ Shapes /\ CountsBalance /\ Owned /\ LoopsHand
  BY DEF RelayInv
<1>1. /\ worker[w] \in Worker /\ worker[w].pc = "none" /\ Shape(w) /\ w \in UdpWorkers
      /\ worker[w].client = NoHandle /\ worker[w].outbound = NoHandle
  BY <1>0 DEF TypeOK, Shapes, Shape, ReceivePacket
<1>2. Becomes(w, "got", NoHandle, NoHandle, NoRule) /\ worker'[w].rule = r /\ TypeOK'
  BY <1>0 DEF ReceivePacket, NoWorker, TypeOK, Worker, Places, Becomes, Others
<1>3. Shape(w)'
  BY <1>1, <1>2 DEF Shape, Becomes
<1>4. CountsBalance'
  BY <1>0, <1>1, <1>2, CountsMove DEF ReceivePacket, Becomes, Counted, FlowsOf, InFlow
<1>5. \A s \in Sides : Held(w, s)' = Held(w, s)
  BY <1>1, <1>2 DEF Sides, Held, HoldsClient, HoldsOutbound, Becomes
<1>6. Owned'
  BY <1>0, <1>2, <1>5, HeldTyped, OwnedKept DEF ReceivePacket, Becomes
<1>7. LoopsHand'
  <2>1. running /\ loop' = loop /\ stop' = stop /\ active' = active /\ loop["udp"] = "receiving"
    BY DEF ReceivePacket
  <2>2. \A v \in UdpWorkers : worker'[v].pc = "got" <=> v = w
    BY <1>2 DEF ReceivePacket, Becomes, Others, Workers
  <2>3. \A v \in TcpWorkers : worker'[v] = worker[v]
    BY <1>1, <1>2, WorkersAssumption DEF Becomes, Others, Workers
  <2>. QED
    BY <1>0, <2>1, <2>2, <2>3 DEF LoopsHand, Kinds, WorkersOf, running
<1>8. /\ \A g \in Handles : ~WillUnlist(w, g) /\ ~Unlists(w, g)'
      /\ ~HoldsClient(w)' /\ ~Stale(w)'
  BY <1>1, <1>2 DEF WillUnlist, Unlists, Becomes, HoldsClient, Stale
<1>9. tracked' = tracked /\ tracked \subseteq Handles
  BY <1>0 DEF ReceivePacket, TypeOK
<1>. QED
  BY <1>2, <1>3, <1>4, <1>6, <1>7, <1>8, <1>9, WorkerMoves DEF ReceivePacket, Becomes

\* Spawn: one thread more, which Stop has to wait for; a loop that Stop has told to end
\* does so after it.
LEMMA SpawnStep == ASSUME RelayInv, NEW w \in Workers, Spawn(w) PROVE RelayInv'
<1>0. TypeOK /\ Shapes /\ CountsBalance /\ Owned /\ Unthreatened /\ LoopsHand
  BY DEF RelayInv
<1>1. worker[w] \in Worker /\ worker[w].pc = "got" /\ Shape(w)
  BY <1>0 DEF TypeOK, Shapes, Spawn
<1>2. /\ worker'[w].pc = IF w \in TcpWorkers THEN "trackIn" ELSE "bind"
      /\ Becomes(w, worker'[w].pc, worker[w].client, worker[w].outbound, worker[w].adapter)
      /\ Stays(w)
  BY <1>0, <1>1 DEF Spawn, TypeOK, Worker, Places, Becomes, Stays, Others
<1>3. TypeOK'
  BY <1>0, <1>2 DEF Spawn, TypeOK, Becomes
<1>4. Shape(w)'
  BY <1>1, <1>2, WorkersAssumption DEF Shape, Becomes, Stays, Workers
<1>5. CountsBalance'
  <2>1. Counted' = Counted \cup {w} /\ w \notin Counted
    BY <1>1, <1>2 DEF Counted, Becomes, Others
  <2>2. IsFiniteSet(Counted) /\ Cardinality(Counted) \in Nat
    BY Finite
  <2>3. Cardinality(Counted') = Cardinality(Counted) + 1
    BY <2>1, <2>2, FS_AddElement
  <2>4. \A r \in Rules : FlowsOf(r)' = FlowsOf(r)
    BY <1>1, <1>2 DEF FlowsOf, InFlow, Becomes, Others
  <2>. QED
    BY <1>0, <2>3, <2>4 DEF Spawn, CountsBalance, WorkersCounted, FlowsBalanced
<1>6. \A s \in Sides : Held(w, s)' = Held(w, s)
  BY <1>1, <1>2 DEF Sides, Held, HoldsClient, HoldsOutbound, Becomes, Shape
<1>7. Owned'
  BY <1>0, <1>2, <1>6, HeldTyped, OwnedKept DEF Spawn, Becomes
<1>8. LoopsHand'
  <2>1. /\ stop' = stop /\ stop # "stopped"
    BY <1>0, <1>1 DEF Spawn, LoopsHand, Kinds, WorkersOf, Workers
  <2>2. \A k \in Kinds : \A v \in WorkersOf(k) : worker'[v].pc = "got" => v # w /\ worker[v].pc = "got"
    BY <1>2 DEF Kinds, WorkersOf, Workers, Becomes, Others
  <2>3. loop' = [k \in Kinds |-> IF w \in WorkersOf(k) /\ ~running THEN "ended" ELSE loop[k]]
    BY DEF Spawn
  <2>. QED
    BY <1>0, <1>1, <2>1, <2>2, <2>3 DEF LoopsHand, Kinds, running
<1>9. /\ \A g \in Handles : ~WillUnlist(w, g) /\ ~Unlists(w, g)'
      /\ (HoldsClient(w)' => HoldsClient(w))
      /\ w \in TcpWorkers => ~Stale(w)'
  BY <1>1, <1>2 DEF WillUnlist, Unlists, Becomes, HoldsClient, Stale, Shape
<1>10. HoldsClient(w)' /\ ~worker'[w].reused =>
         /\ \A v \in Workers : ~Threatens(v, w)'
         /\ w \in TcpWorkers => worker'[w].pc = "trackIn"
  <2>1. ~Threatens(w, w)'
    BY <1>2 DEF Threatens, Unlists, Becomes
  <2>. QED
    BY <1>0, <1>2, <1>9, <2>1, OldClient DEF Becomes, Stays
<1>11. tracked' = tracked /\ tracked \subseteq Handles
  BY <1>0 DEF Spawn, TypeOK
<1>. QED
  BY <1>2, <1>3, <1>4, <1>5, <1>7, <1>8, <1>9, <1>10, <1>11, WorkerMoves DEF Spawn, Becomes

\* BindClient: a UDP session has a socket of its own, which is not listed yet.
LEMMA BindClientStep == ASSUME RelayInv, NEW w \in Workers, BindClient(w) PROVE RelayInv'
<1>0. TypeOK /\ Shapes /\ CountsBalance /\ Owned /\ LoopsHand
  BY DEF RelayInv
<1>1. /\ worker[w] \in Worker /\ worker[w].pc = "bind" /\ Shape(w)
      /\ w \in UdpWorkers /\ w \notin TcpWorkers
      /\ worker[w].client = NoHandle /\ worker[w].outbound = NoHandle
  BY <1>0, WorkersAssumption DEF TypeOK, Shapes, Shape, BindClient, At
<1>2. PICK h \in Handles :
        /\ sock[h] = "free"
        /\ sock' = [sock EXCEPT ![h] = "open"]
        /\ worker' = [worker EXCEPT ![w].pc = "lookup",
             ![w].client = h, ![w].reused = Unlisting(h)]
  BY DEF BindClient
<1>3. /\ Becomes(w, "lookup", h, NoHandle, worker[w].adapter) /\ worker'[w].rule = worker[w].rule
      /\ worker'[w].reused = Unlisting(h)
  <2>1. Unlisting(h) \in BOOLEAN
    BY DEF Unlisting
  <2>. QED
    BY <1>0, <1>1, <1>2, <2>1, ZenonT(40) DEF TypeOK, Worker, Places, Becomes, Others
<1>4. TypeOK'
  BY <1>0, <1>2, <1>3 DEF BindClient, TypeOK, Becomes
<1>5. Shape(w)'
  BY <1>1, <1>3, NoHandleAssumption DEF Shape, Becomes
<1>6. CountsBalance'
  BY <1>0, <1>1, <1>3, CountsMove DEF BindClient, Becomes, Counted, FlowsOf, InFlow
<1>7. Owned'
  <2>1. Held(w, "in") = NoHandle /\ Held(w, "in")' = h /\ Held(w, "out") = NoHandle /\ Held(w, "out")' = NoHandle
    BY <1>1, <1>3, NoHandleAssumption DEF Held, HoldsClient, HoldsOutbound, Becomes
  <2>2. /\ "in" \in Sides /\ \A s \in Sides : s # "in" => Held(w, s)' = Held(w, s)
        /\ sock \in [Handles -> {"free", "open", "shut"}] /\ Others(w)
        /\ \A v \in Workers, s \in Sides : Held(v, s) \in Handles \cup {NoHandle}
    BY <1>0, <1>3, <2>1, HeldTyped DEF TypeOK, Becomes, Sides
  <2>. QED
    BY <1>0, <1>2, <2>1, <2>2, OwnedGain
<1>8. LoopsHand'
  BY <1>0, <1>3, LoopsMove DEF BindClient, Becomes, LoopsHand
<1>9. \A g \in Handles : ~WillUnlist(w, g) /\ ~Unlists(w, g)'
  BY <1>1, <1>3 DEF WillUnlist, Unlists, Becomes
<1>10. \A v \in Workers : v # w /\ HoldsClient(v) => sock'[worker[v].client] = sock[worker[v].client]
  BY <1>0, <1>2, OtherClients
<1>11. ~worker'[w].reused => \A v \in Workers : ~Threatens(v, w)'
  BY <1>3, NewClient DEF Becomes
<1>12. ~Stale(w)' /\ tracked' = tracked /\ tracked \subseteq Handles
  BY <1>0, <1>3 DEF Stale, Becomes, BindClient, TypeOK
<1>. QED
  BY <1>1, <1>3, <1>4, <1>5, <1>6, <1>7, <1>8, <1>9, <1>10, <1>11, <1>12, WorkerMoves
  DEF BindClient, Becomes

\* OpenOutbound: a socket of its own, other than the client.
LEMMA OpenOutboundStep == ASSUME RelayInv, NEW w \in Workers, OpenOutbound(w) PROVE RelayInv'
<1>0. /\ TypeOK /\ Shapes /\ CountsBalance /\ Owned /\ LoopsHand
      /\ Unthreatened /\ ClientsListed /\ TcpFlowsFollowRules
  BY DEF RelayInv
<1>1. /\ worker[w] \in Worker /\ worker[w].pc = "open" /\ Shape(w)
      /\ worker[w].client \in Handles /\ worker[w].outbound = NoHandle
      /\ HoldsClient(w)
  BY <1>0 DEF TypeOK, Worker, Shapes, Shape, OpenOutbound, At, HoldsClient
<1>2. PICK h \in Handles :
        /\ sock[h] = "free"
        /\ sock' = [sock EXCEPT ![h] = "open"]
        /\ worker' = [worker EXCEPT ![w].pc = "connect", ![w].outbound = h]
  BY DEF OpenOutbound
<1>3. Becomes(w, "connect", worker[w].client, h, worker[w].adapter) /\ Stays(w)
  BY <1>0, <1>1, <1>2, ZenonT(40) DEF TypeOK, Worker, Places, Becomes, Stays, Others
<1>4. TypeOK'
  BY <1>0, <1>2, <1>3 DEF OpenOutbound, TypeOK, Becomes
<1>5. worker[w].client # h /\ sock'[worker[w].client] = sock[worker[w].client]
  <2>1. Held(w, "in") = worker[w].client /\ "in" \in Sides
    BY <1>1 DEF Held, Sides
  <2>2. sock[worker[w].client] # "free"
    BY <1>0, <1>1, <2>1, NoHandleAssumption DEF Owned, HeldAreSockets
  <2>. QED
    BY <1>0, <1>1, <1>2, <2>2 DEF TypeOK
<1>6. Shape(w)'
  BY <1>1, <1>3, <1>5, NoHandleAssumption DEF Shape, Becomes, Stays
<1>7. CountsBalance'
  BY <1>0, <1>1, <1>3, CountsMove DEF OpenOutbound, Becomes, Counted, FlowsOf, InFlow
<1>8. Owned'
  <2>1. Held(w, "in")' = Held(w, "in") /\ Held(w, "out") = NoHandle /\ Held(w, "out")' = h
    BY <1>1, <1>3, NoHandleAssumption DEF Held, HoldsClient, HoldsOutbound, Becomes
  <2>2. /\ "out" \in Sides /\ \A s \in Sides : s # "out" => Held(w, s)' = Held(w, s)
        /\ sock \in [Handles -> {"free", "open", "shut"}] /\ Others(w)
        /\ \A v \in Workers, s \in Sides : Held(v, s) \in Handles \cup {NoHandle}
    BY <1>0, <1>3, <2>1, HeldTyped DEF TypeOK, Becomes, Sides
  <2>. QED
    BY <1>0, <1>2, <2>1, <2>2, OwnedGain
<1>9. LoopsHand'
  BY <1>0, <1>3, LoopsMove DEF OpenOutbound, Becomes, LoopsHand
<1>10. \A g \in Handles : (WillUnlist(w, g) => WillUnlist(w, g)') /\ ~Unlists(w, g)'
  BY <1>1, <1>3, NoHandleAssumption DEF WillUnlist, Unlists, Becomes
<1>11. \A v \in Workers : v # w /\ HoldsClient(v) => sock'[worker[v].client] = sock[worker[v].client]
  BY <1>0, <1>2, OtherClients
<1>12. ~worker'[w].reused =>
         /\ \A v \in Workers : ~Threatens(v, w)'
         /\ w \in TcpWorkers => worker'[w].client \in tracked
  <2>1. ~Threatens(w, w)'
    BY <1>3 DEF Threatens, Unlists, Becomes
  <2>. QED
    BY <1>0, <1>1, <1>3, <2>1, OldClient DEF Becomes, Stays, ClientsListed
<1>13. Stale(w)' => Stale(w)
  BY <1>1, <1>3 DEF Stale, Becomes, Stays, OpenOutbound
<1>14. apply = "idle" /\ restarted /\ w \in TcpWorkers /\ Stale(w)' /\ ~worker'[w].reused =>
         sock'[worker'[w].client] = "shut"
  BY <1>0, <1>3, <1>5, <1>13 DEF TcpFlowsFollowRules, Becomes, Stays
<1>15. tracked' = tracked /\ tracked \subseteq Handles
  BY <1>0 DEF OpenOutbound, TypeOK
<1>. QED
  BY <1>3, <1>4, <1>6, <1>7, <1>8, <1>9, <1>10, <1>11, <1>12, <1>14, <1>15, WorkerMoves
  DEF OpenOutbound, Becomes

\* ConnectFails: the socket is closed before it was listed.
LEMMA ConnectFailsStep == ASSUME RelayInv, NEW w \in Workers, ConnectFails(w) PROVE RelayInv'
<1>0. /\ TypeOK /\ Shapes /\ CountsBalance /\ Owned /\ LoopsHand
      /\ Unthreatened /\ ClientsListed
  BY DEF RelayInv
<1> DEFINE h == worker[w].outbound
<1>1. /\ worker[w] \in Worker /\ worker[w].pc = "connect" /\ Shape(w)
      /\ worker[w].client \in Handles /\ h \in Handles
      /\ HoldsClient(w) /\ HoldsOutbound(w)
  BY <1>0 DEF TypeOK, Worker, Shapes, Shape, ConnectFails, At, HoldsClient, HoldsOutbound
<1>2. sock' = [sock EXCEPT ![h] = "free"]
  BY DEF ConnectFails, Close
<1>3. Becomes(w, "closeIn", worker[w].client, NoHandle, NoRule) /\ Stays(w)
  BY <1>0, <1>1 DEF ConnectFails, Refused, TypeOK, Worker, Places, Becomes, Stays, Others
<1>4. TypeOK'
  BY <1>0, <1>2, <1>3 DEF ConnectFails, TypeOK, Becomes
<1>5. Shape(w)'
  BY <1>1, <1>3 DEF Shape, Becomes, Stays
<1>6. CountsBalance'
  BY <1>0, <1>1, <1>3, CountsMove DEF ConnectFails, Becomes, Counted, FlowsOf, InFlow
<1>7. Held(w, "out") = h
  BY <1>1 DEF Held
<1>8. Owned'
  <2>1. Held(w, "in")' = Held(w, "in") /\ Held(w, "out")' = NoHandle
    BY <1>1, <1>3 DEF Held, HoldsClient, HoldsOutbound, Becomes
  <2>2. /\ "out" \in Sides /\ \A s \in Sides : s # "out" => Held(w, s)' = Held(w, s)
        /\ sock \in [Handles -> {"free", "open", "shut"}] /\ Others(w)
        /\ \A v \in Workers, s \in Sides : Held(v, s) \in Handles \cup {NoHandle}
    BY <1>0, <1>3, <2>1, HeldTyped DEF TypeOK, Becomes, Sides
  <2>. QED
    BY <1>0, <1>1, <1>2, <1>7, <2>1, <2>2, OwnedLose
<1>9. LoopsHand'
  BY <1>0, <1>3, LoopsMove DEF ConnectFails, Becomes, LoopsHand
<1>10. \A g \in Handles : (WillUnlist(w, g) => WillUnlist(w, g)') /\ ~Unlists(w, g)'
  BY <1>1, <1>3, NoHandleAssumption DEF WillUnlist, Unlists, Becomes
<1>11. \A v \in Workers : v # w /\ HoldsClient(v) => sock'[worker[v].client] = sock[worker[v].client]
  <2>1. \E s \in Sides : Held(w, s) = h
    BY <1>7 DEF Sides
  <2>. QED
    BY <1>0, <1>1, <1>2, <2>1, OtherClients
<1>12. ~worker'[w].reused =>
         /\ \A v \in Workers : ~Threatens(v, w)'
         /\ w \in TcpWorkers => worker'[w].client \in tracked
  <2>1. ~Threatens(w, w)'
    BY <1>1, <1>3, NoHandleAssumption DEF Threatens, Unlists, Becomes
  <2>. QED
    BY <1>0, <1>1, <1>3, <2>1, OldClient DEF Becomes, Stays, ClientsListed
<1>13. ~Stale(w)' /\ tracked' = tracked /\ tracked \subseteq Handles
  BY <1>0, <1>3 DEF ConnectFails, TypeOK, Stale, Becomes
<1>. QED
  BY <1>3, <1>4, <1>5, <1>6, <1>8, <1>9, <1>10, <1>11, <1>12, <1>13, WorkerMoves
  DEF ConnectFails, Becomes

\* CloseOutbound: the socket is closed, and listed until it is untracked.
LEMMA CloseOutboundStep == ASSUME RelayInv, NEW w \in Workers, CloseOutbound(w) PROVE RelayInv'
<1>0. /\ TypeOK /\ Shapes /\ CountsBalance /\ Owned /\ LoopsHand
      /\ Unthreatened /\ ClientsListed
  BY DEF RelayInv
<1> DEFINE h == worker[w].outbound
<1>1. /\ worker[w] \in Worker /\ worker[w].pc = "closeOut" /\ Shape(w)
      /\ worker[w].client \in Handles /\ h \in Handles /\ h # worker[w].client
      /\ HoldsClient(w) /\ HoldsOutbound(w)
  BY <1>0 DEF TypeOK, Worker, Shapes, Shape, CloseOutbound, At, HoldsClient, HoldsOutbound
<1>2. sock' = [sock EXCEPT ![h] = "free"]
  BY DEF CloseOutbound, Close
<1>3. Becomes(w, "closeIn", worker[w].client, h, NoRule) /\ Stays(w)
  BY <1>0, <1>1 DEF CloseOutbound, TypeOK, Worker, Places, Becomes, Stays, Others
<1>4. TypeOK'
  BY <1>0, <1>2, <1>3 DEF CloseOutbound, TypeOK, Becomes
<1>5. Shape(w)'
  BY <1>1, <1>3 DEF Shape, Becomes, Stays
<1>6. CountsBalance'
  BY <1>0, <1>1, <1>3, CountsMove DEF CloseOutbound, Becomes, Stays, Counted, FlowsOf, InFlow
<1>7. Held(w, "out") = h
  BY <1>1 DEF Held
<1>8. Owned'
  <2>1. Held(w, "in")' = Held(w, "in") /\ Held(w, "out")' = NoHandle
    BY <1>1, <1>3 DEF Held, HoldsClient, HoldsOutbound, Becomes
  <2>2. /\ "out" \in Sides /\ \A s \in Sides : s # "out" => Held(w, s)' = Held(w, s)
        /\ sock \in [Handles -> {"free", "open", "shut"}] /\ Others(w)
        /\ \A v \in Workers, s \in Sides : Held(v, s) \in Handles \cup {NoHandle}
    BY <1>0, <1>3, <2>1, HeldTyped DEF TypeOK, Becomes, Sides
  <2>. QED
    BY <1>0, <1>1, <1>2, <1>7, <2>1, <2>2, OwnedLose
<1>9. LoopsHand'
  BY <1>0, <1>3, LoopsMove DEF CloseOutbound, Becomes, LoopsHand
<1>10. \A g \in Handles : WillUnlist(w, g) => WillUnlist(w, g)'
  BY <1>1, <1>3, NoHandleAssumption DEF WillUnlist, Becomes
<1>11. \A g \in Handles : Unlists(w, g)' => \E s \in Sides : Held(w, s) = g
  BY <1>3, <1>7 DEF Unlists, Becomes, Sides
<1>12. \A v \in Workers : v # w /\ HoldsClient(v) => sock'[worker[v].client] = sock[worker[v].client]
  <2>1. \E s \in Sides : Held(w, s) = h
    BY <1>7 DEF Sides
  <2>. QED
    BY <1>0, <1>1, <1>2, <2>1, OtherClients
<1>13. ~worker'[w].reused =>
         /\ \A v \in Workers : ~Threatens(v, w)'
         /\ w \in TcpWorkers => worker'[w].client \in tracked
  <2>1. ~Threatens(w, w)'
    BY <1>1, <1>3 DEF Threatens, Unlists, Becomes
  <2>. QED
    BY <1>0, <1>1, <1>3, <2>1, OldClient DEF Becomes, Stays, ClientsListed
<1>14. ~Stale(w)' /\ tracked' = tracked /\ tracked \subseteq Handles
  BY <1>0, <1>3 DEF CloseOutbound, TypeOK, Stale, Becomes
<1>. QED
  BY <1>3, <1>4, <1>5, <1>6, <1>8, <1>9, <1>10, <1>11, <1>12, <1>13, <1>14, WorkerMoves
  DEF CloseOutbound, Becomes

\* CloseClient: the client is closed, and listed until it is untracked if it ever was.
LEMMA CloseClientStep == ASSUME RelayInv, NEW w \in Workers, CloseClient(w) PROVE RelayInv'
<1>0. TypeOK /\ Shapes /\ CountsBalance /\ Owned /\ LoopsHand
  BY DEF RelayInv
<1> DEFINE h == worker[w].client
<1>1. /\ worker[w] \in Worker /\ worker[w].pc = "closeIn" /\ Shape(w)
      /\ h \in Handles /\ HoldsClient(w) /\ ~HoldsOutbound(w)
  BY <1>0 DEF TypeOK, Worker, Shapes, Shape, CloseClient, At, HoldsClient, HoldsOutbound
<1>2. sock' = [sock EXCEPT ![h] = "free"]
  BY DEF CloseClient, Close
<1>3. /\ Others(w) /\ worker' \in [Workers -> Worker]
      /\ \/ /\ worker[w].outbound # NoHandle /\ worker'[w].pc = "untrackOut" /\ Stays(w)
            /\ worker'[w].client = h /\ worker'[w].outbound = worker[w].outbound
         \/ /\ worker[w].outbound = NoHandle /\ worker'[w].pc = "untrackIn" /\ Stays(w)
            /\ w \in TcpWorkers
            /\ worker'[w].client = h /\ worker'[w].outbound = NoHandle
         \/ /\ worker[w].outbound = NoHandle /\ worker'[w].pc = "leave" /\ w \notin TcpWorkers
            /\ worker'[w].client = NoHandle /\ worker'[w].outbound = NoHandle
  <2>1. CASE worker[w].outbound # NoHandle \/ w \in TcpWorkers
    BY <1>0, <1>1, <2>1 DEF CloseClient, Goes, TypeOK, Worker, Places, Stays, Others
  <2>2. CASE worker[w].outbound = NoHandle /\ w \notin TcpWorkers
    BY <1>0, <2>2, ReturnsFields DEF CloseClient, Becomes
  <2>. QED
    BY <2>1, <2>2
<1>4. TypeOK'
  BY <1>0, <1>2, <1>3 DEF CloseClient, TypeOK
<1>5. Shape(w)'
  BY <1>1, <1>3 DEF Shape, Stays
<1>6. CountsBalance'
  BY <1>0, <1>1, <1>3, CountsMove DEF CloseClient, Stays, Counted, FlowsOf, InFlow
<1>7. Held(w, "in") = h
  BY <1>1 DEF Held
<1>8. Owned'
  <2>1. Held(w, "out")' = Held(w, "out") /\ Held(w, "in")' = NoHandle
    BY <1>1, <1>3 DEF Held, HoldsClient, HoldsOutbound
  <2>2. /\ "in" \in Sides /\ \A s \in Sides : s # "in" => Held(w, s)' = Held(w, s)
        /\ sock \in [Handles -> {"free", "open", "shut"}] /\ Others(w)
        /\ \A v \in Workers, s \in Sides : Held(v, s) \in Handles \cup {NoHandle}
    BY <1>0, <1>3, <2>1, HeldTyped DEF TypeOK, Sides
  <2>. QED
    BY <1>0, <1>1, <1>2, <1>7, <2>1, <2>2, OwnedLose
<1>9. LoopsHand'
  BY <1>0, <1>3, LoopsMove DEF CloseClient, LoopsHand
<1>10. \A g \in Handles : WillUnlist(w, g) => WillUnlist(w, g)'
  BY <1>1, <1>3, NoHandleAssumption DEF WillUnlist
<1>11. \A g \in Handles : Unlists(w, g)' => Unlists(w, g) \/ \E s \in Sides : Held(w, s) = g
  BY <1>1, <1>3, <1>7 DEF Unlists, Sides
<1>12. \A v \in Workers : v # w /\ HoldsClient(v) => sock'[worker[v].client] = sock[worker[v].client]
  <2>1. \E s \in Sides : Held(w, s) = h
    BY <1>7 DEF Sides
  <2>. QED
    BY <1>0, <1>1, <1>2, <2>1, OtherClients
<1>13. ~HoldsClient(w)' /\ ~Stale(w)'
  BY <1>3 DEF HoldsClient, Stale
<1>14. tracked' = tracked /\ tracked \subseteq Handles
  BY <1>0 DEF CloseClient, TypeOK
<1>. QED
  BY <1>3, <1>4, <1>5, <1>6, <1>8, <1>9, <1>10, <1>11, <1>12, <1>13, <1>14, WorkerMoves
  DEF CloseClient

-----------------------------------------------------------------------------
\* Steps of the service, of Stop and of the loops.

\* No worker moves, and a socket is at most shut.
LEMMA ServiceMoves ==
  ASSUME RelayInv, worker' = worker, tracked' = tracked, active' = active, flows' = flows,
         \A h \in Handles : (sock'[h] = "free") <=> (sock[h] = "free"),
         TypeOK', LoopsHand', Configured', TcpFlowsFollowRules'
  PROVE  RelayInv'
<1>0. /\ TypeOK /\ Shapes /\ CountsBalance /\ Owned /\ Listed
      /\ Unthreatened /\ ClientsListed
  BY DEF RelayInv
<1>1. Shapes'
  BY <1>0 DEF Shapes, Shape
<1>2. CountsBalance'
  BY <1>0 DEF CountsBalance, WorkersCounted, FlowsBalanced, Counted, FlowsOf
<1>3. Owned'
  <2>1. \A v \in Workers, s \in Sides :
          Held(v, s)' = Held(v, s) /\ Held(v, s) \in Handles \cup {NoHandle}
    BY <1>0, HeldTyped DEF Held, HoldsClient, HoldsOutbound
  <2>2. HeldAreSockets'
    BY <1>0, <2>1 DEF Owned, HeldAreSockets
  <2>3. HeldOnce'
    BY <1>0, <2>1 DEF Owned, HeldOnce
  <2>4. SocketsHeld'
    BY <1>0, <2>1 DEF Owned, SocketsHeld
  <2>. QED
    BY <2>2, <2>3, <2>4 DEF Owned
<1>4. Listed'
  BY <1>0 DEF Listed, WillUnlist
<1>5. Unthreatened'
  BY <1>0 DEF Unthreatened, Threatens, Unlists, HoldsClient
<1>6. ClientsListed'
  BY <1>0 DEF ClientsListed, HoldsClient
<1>. QED
  BY <1>1, <1>2, <1>3, <1>4, <1>5, <1>6 DEF RelayInv

\* ShutTracked shuts whatever is listed and is still a socket.
LEMMA Shuts ==
  ASSUME TypeOK, ShutTracked
  PROVE  /\ sock' \in [Handles -> {"free", "open", "shut"}]
         /\ \A h \in Handles : (sock'[h] = "free") <=> (sock[h] = "free")
         /\ \A h \in Handles : sock[h] = "shut" => sock'[h] = "shut"
         /\ \A h \in Handles : h \in tracked /\ sock[h] # "free" => sock'[h] = "shut"
  BY DEF TypeOK, ShutTracked

\* A TCP flow that may be stale holds its client, which is past its listing.
LEMMA StaleHolds ==
  ASSUME TypeOK, Shapes, Owned, NEW w \in TcpWorkers, Stale(w)
  PROVE  /\ HoldsClient(w) /\ worker[w].pc \notin {"got", "trackIn"}
         /\ worker[w].client \in Handles /\ sock[worker[w].client] # "free"
<1>1. w \in Workers /\ Shape(w) /\ worker[w] \in Worker /\ w \notin UdpWorkers
  BY WorkersAssumption DEF Workers, Shapes, TypeOK
<1>2. HoldsClient(w) /\ worker[w].pc \notin {"got", "trackIn"}
  BY <1>1 DEF Stale, Shape, HoldsClient
<1>3. worker[w].client \in Handles /\ Held(w, "in") = worker[w].client /\ "in" \in Sides
  BY <1>1, <1>2 DEF HoldsClient, Held, Sides, Worker
<1>. QED
  BY <1>1, <1>2, <1>3, NoHandleAssumption DEF Owned, HeldAreSockets

\* Configure gives the relay new rules.
LEMMA ConfigureStep == ASSUME RelayInv, NEW t \in Tables, Configure(t) PROVE RelayInv'
<1>0. TypeOK /\ LoopsHand
  BY DEF RelayInv
<1>1. TypeOK'
  <2>1. t \in [Rules -> Adapters \cup {NoRule}]
    BY TablesAssumption
  <2>2. applies' \in 0..MaxApplies
    BY <1>0, MaxAppliesAssumption DEF TypeOK, Configure
  <2>. QED
    BY <1>0, <2>1, <2>2 DEF Configure, TypeOK
<1>2. LoopsHand'
  BY <1>0 DEF Configure, LoopsHand, running
<1>3. Configured' /\ TcpFlowsFollowRules'
  BY DEF Configure, Configured, TcpFlowsFollowRules
<1>. QED
  BY <1>1, <1>2, <1>3, ServiceMoves DEF Configure

\* ApplyFails: the flows are not restarted.
LEMMA ApplyFailsStep == ASSUME RelayInv, ApplyFails PROVE RelayInv'
<1>0. TypeOK /\ LoopsHand /\ Configured
  BY DEF RelayInv
<1>1. TypeOK'
  BY <1>0 DEF ApplyFails, TypeOK
<1>2. LoopsHand'
  BY <1>0 DEF ApplyFails, LoopsHand, running
<1>3. Configured' /\ TcpFlowsFollowRules'
  BY <1>0 DEF ApplyFails, Configured, TcpFlowsFollowRules
<1>. QED
  BY <1>1, <1>2, <1>3, ServiceMoves DEF ApplyFails

\* RestartFlows: a stale client is on the list, so that it is shut.
LEMMA RestartFlowsStep == ASSUME RelayInv, RestartFlows PROVE RelayInv'
<1>0. TypeOK /\ Shapes /\ Owned /\ ClientsListed /\ LoopsHand
  BY DEF RelayInv
<1>1. TypeOK'
  BY <1>0, Shuts DEF RestartFlows, TypeOK
<1>2. LoopsHand'
  BY <1>0 DEF RestartFlows, LoopsHand, running
<1>3. TcpFlowsFollowRules'
  <2> SUFFICES ASSUME NEW w \in TcpWorkers, Stale(w)', ~worker'[w].reused
               PROVE  sock'[worker'[w].client] = "shut"
    BY DEF TcpFlowsFollowRules
  <2>1. worker' = worker /\ Stale(w)
    BY DEF RestartFlows, Stale
  <2>2. /\ HoldsClient(w) /\ worker[w].pc \notin {"got", "trackIn"}
        /\ worker[w].client \in Handles /\ sock[worker[w].client] # "free"
    BY <1>0, <2>1, StaleHolds
  <2>3. worker[w].client \in tracked
    BY <1>0, <2>1, <2>2 DEF ClientsListed
  <2>. QED
    BY <1>0, <2>1, <2>2, <2>3, Shuts DEF RestartFlows
<1>4. Configured'
  BY DEF RestartFlows, Configured
<1>. QED
  BY <1>0, <1>1, <1>2, <1>3, <1>4, Shuts, ServiceMoves DEF RestartFlows

\* Stop: it waits for the loops and then for the threads they have left behind.
LEMMA StopStepStep == ASSUME RelayInv, StopStep PROVE RelayInv'
<1>0. TypeOK /\ Shapes /\ Owned /\ LoopsHand /\ Configured /\ TcpFlowsFollowRules
  BY DEF RelayInv
<1>1. CASE StopBegins
  <2>1. TypeOK' /\ Configured' /\ TcpFlowsFollowRules'
    BY <1>0, <1>1 DEF StopBegins, StopTo, TypeOK, Configured, TcpFlowsFollowRules, Stale
  <2>2. LoopsHand'
    BY <1>0, <1>1 DEF StopBegins, StopTo, LoopsHand, running
  <2>. QED
    BY <1>1, <2>1, <2>2, ServiceMoves DEF StopBegins
<1>2. CASE StopRestarts
  <2>1. TypeOK' /\ Configured'
    BY <1>0, <1>2, Shuts DEF StopRestarts, StopTo, TypeOK, Configured
  <2>2. LoopsHand'
    BY <1>0, <1>2 DEF StopRestarts, StopTo, LoopsHand, running
  <2>3. TcpFlowsFollowRules'
    <3> SUFFICES ASSUME apply = "idle", restarted, NEW w \in TcpWorkers, Stale(w),
                        ~worker[w].reused
                 PROVE  sock'[worker[w].client] = "shut"
      BY <1>2 DEF StopRestarts, TcpFlowsFollowRules, Stale
    <3>1. worker[w].client \in Handles
      BY <1>0, StaleHolds
    <3>2. sock[worker[w].client] = "shut"
      BY <1>0 DEF TcpFlowsFollowRules
    <3>. QED
      BY <1>0, <1>2, <3>1, <3>2, Shuts DEF StopRestarts
  <2>. QED
    BY <1>0, <1>2, <2>1, <2>2, <2>3, Shuts, ServiceMoves DEF StopRestarts
<1>3. CASE StopReturns
  <2>1. TypeOK' /\ Configured' /\ TcpFlowsFollowRules'
    BY <1>0, <1>3 DEF StopReturns, StopTo, TypeOK, Configured, TcpFlowsFollowRules, Stale
  <2>2. LoopsHand'
    BY <1>0, <1>3 DEF StopReturns, StopTo, LoopsHand, running
  <2>. QED
    BY <1>3, <2>1, <2>2, ServiceMoves DEF StopReturns
<1>. QED
  BY <1>1, <1>2, <1>3 DEF StopStep

\* LoopEnds: with nothing in its hands a loop ends.
LEMMA LoopEndsStep == ASSUME RelayInv, NEW k \in Kinds, LoopEnds(k) PROVE RelayInv'
<1>0. TypeOK /\ LoopsHand /\ Configured /\ TcpFlowsFollowRules
  BY DEF RelayInv
<1>1. TypeOK' /\ Configured' /\ TcpFlowsFollowRules'
  BY <1>0 DEF LoopEnds, TypeOK, Configured, TcpFlowsFollowRules, Stale
<1>2. LoopsHand'
  BY <1>0 DEF LoopEnds, LoopsHand, running, TypeOK
<1>. QED
  BY <1>1, <1>2, ServiceMoves DEF LoopEnds

-----------------------------------------------------------------------------
\* The invariant holds at the start: no worker has anything.
LEMMA RelayInit == Init => RelayInv
<1> SUFFICES ASSUME Init PROVE RelayInv
  OBVIOUS
<1>1. TypeOK
  BY TablesAssumption, MaxAppliesAssumption DEF Init, TypeOK, NoWorker, Worker, Places
<1>2. \A w \in Workers : /\ worker[w].pc = "none" /\ worker[w].client = NoHandle
                         /\ worker[w].outbound = NoHandle
  BY DEF Init, NoWorker
<1>3. Shapes
  BY <1>2 DEF Shapes, Shape
<1>4. CountsBalance
  <2>1. Counted = {} /\ \A r \in Rules : FlowsOf(r) = {}
    BY <1>2 DEF Counted, FlowsOf
  <2>. QED
    BY <2>1, FS_EmptySet DEF Init, CountsBalance, WorkersCounted, FlowsBalanced
<1>5. Owned
  <2>1. \A w \in Workers, s \in Sides : Held(w, s) = NoHandle
    BY <1>2 DEF Held, HoldsClient, HoldsOutbound
  <2>. QED
    BY <2>1 DEF Init, Owned, HeldAreSockets, HeldOnce, SocketsHeld
<1>6. Listed /\ Configured
  BY DEF Init, Listed, Configured
<1>7. Unthreatened /\ ClientsListed
  BY <1>2 DEF Unthreatened, ClientsListed, HoldsClient, Workers
<1>8. LoopsHand
  <2>1. \A k \in Kinds : \A w \in WorkersOf(k) : worker[w].pc # "got"
    BY <1>2 DEF Kinds, WorkersOf, Workers
  <2>. QED
    BY <2>1 DEF Init, LoopsHand
<1>9. TcpFlowsFollowRules
  BY <1>2 DEF TcpFlowsFollowRules, Stale, Workers
<1>. QED
  BY <1>1, <1>3, <1>4, <1>5, <1>6, <1>7, <1>8, <1>9 DEF RelayInv

\* Every step of the relay keeps it.
LEMMA RelayStep == RelayInv /\ [Next]_vars => RelayInv'
<1> SUFFICES ASSUME RelayInv, [Next]_vars PROVE RelayInv'
  OBVIOUS
<1>1. CASE UNCHANGED vars
  <2>1. TypeOK /\ LoopsHand /\ Configured /\ TcpFlowsFollowRules
    BY DEF RelayInv
  <2>2. TypeOK' /\ LoopsHand' /\ Configured' /\ TcpFlowsFollowRules'
    BY <1>1, <2>1 DEF vars, TypeOK, LoopsHand, running, Configured, TcpFlowsFollowRules, Stale
  <2>. QED
    BY <1>1, <2>2, ServiceMoves DEF vars
<1>2. ASSUME NEW w \in Workers, WorkerStep(w) \/ SessionEnds(w) PROVE RelayInv'
  <2>1. CASE \/ Spawn(w) \/ TrackClient(w) \/ QueryFails(w) \/ BindClient(w) \/ BindFails(w)
             \/ Lookup(w) \/ OpenFails(w) \/ OpenOutbound(w) \/ Connect(w) \/ ConnectFails(w)
    BY <2>1, SpawnStep, TrackClientStep, QueryFailsStep, BindClientStep, BindFailsStep,
       LookupStep, OpenFailsStep, OpenOutboundStep, ConnectStep, ConnectFailsStep
  <2>2. CASE \/ TrackOutbound(w) \/ CountFlow(w) \/ CloseOutbound(w) \/ CloseClient(w)
             \/ UntrackOutbound(w) \/ UntrackClient(w) \/ UncountFlow(w) \/ Leave(w) \/ Notify(w)
    BY <2>2, TrackOutboundStep, CountFlowStep, CloseOutboundStep, CloseClientStep,
       UntrackOutboundStep, UntrackClientStep, UncountFlowStep, LeaveStep, NotifyStep
  <2>3. CASE \/ \E p \in {"up", "down"} : PumpMustEnd(w, p)
             \/ SessionMustEnd(w) \/ SessionEnds(w)
    BY <2>3, FlowStep DEF PumpMustEnd, SessionMustEnd
  <2>. QED
    BY <1>2, <2>1, <2>2, <2>3 DEF WorkerStep
<1>3. ASSUME NEW w \in Workers, NEW p \in {"up", "down"}, PumpEnds(w, p) PROVE RelayInv'
  BY <1>3, FlowStep
<1>4. ASSUME NEW w \in Workers, NEW r \in Rules, Accept(w, r) \/ ReceivePacket(w, r)
      PROVE  RelayInv'
  BY <1>4, AcceptStep, ReceivePacketStep
<1>5. CASE ApplyFails \/ RestartFlows \/ StopStep
  BY <1>5, ApplyFailsStep, RestartFlowsStep, StopStepStep
<1>6. ASSUME NEW t \in Tables, Configure(t) PROVE RelayInv'
  BY <1>6, ConfigureStep
<1>7. ASSUME NEW k \in Kinds, LoopEnds(k) PROVE RelayInv'
  BY <1>7, LoopEndsStep
<1>. QED
  BY <1>1, <1>2, <1>3, <1>4, <1>5, <1>6, <1>7 DEF Next

\* The relay is always as RelayInv says.
LEMMA RelayCorrect == Spec => []RelayInv
  BY RelayInit, RelayStep, PTL DEF Spec

\* The variables of the engine, its threads and its sockets keep their types; above all
\* active_workers_, which is counted down without a test, never wraps.
THEOREM TypeCorrect == Spec => []TypeOK
<1>1. RelayInv => TypeOK
  BY DEF RelayInv
<1>. QED
  BY <1>1, RelayCorrect, PTL

\* active_workers_ and the active_flows of every rule are right on every path, for any
\* number of workers.
THEOREM CountsCorrect == Spec => []CountsBalance
<1>1. RelayInv => CountsBalance
  BY DEF RelayInv
<1>. QED
  BY <1>1, RelayCorrect, PTL

\* No path leaks a socket or closes one that is not its own, however handles are reused.
THEOREM SocketsCorrect == Spec => []SocketsOwned
<1>1. RelayInv => SocketsOwned
  <2> SUFFICES ASSUME RelayInv, NEW h \in Handles, sock[h] # "free"
               PROVE  Cardinality({<<w, "in">> : w \in {v \in Workers : HoldsClient(v) /\ worker[v].client = h}}
                        \cup {<<w, "out">> : w \in {v \in Workers : HoldsOutbound(v) /\ worker[v].outbound = h}}) = 1
    BY DEF SocketsOwned
  <2> DEFINE holds == {<<w, "in">> : w \in {v \in Workers : HoldsClient(v) /\ worker[v].client = h}}
                      \cup {<<w, "out">> : w \in {v \in Workers : HoldsOutbound(v) /\ worker[v].outbound = h}}
  <2>1. h # NoHandle
    BY NoHandleAssumption
  <2>2. \A v \in Workers : /\ Held(v, "in") = h <=> HoldsClient(v) /\ worker[v].client = h
                           /\ Held(v, "out") = h <=> HoldsOutbound(v) /\ worker[v].outbound = h
    BY <2>1 DEF Held
  <2>3. PICK w \in Workers, s \in Sides : Held(w, s) = h
    BY DEF RelayInv, Owned, SocketsHeld
  <2>4. \A v \in Workers, t \in Sides : Held(v, t) = h => v = w /\ t = s
    BY <2>1, <2>3 DEF RelayInv, Owned, HeldOnce
  <2>5. holds = {<<w, s>>}
    <3>1. \A v \in Workers : /\ HoldsClient(v) /\ worker[v].client = h <=> v = w /\ s = "in"
                             /\ HoldsOutbound(v) /\ worker[v].outbound = h <=> v = w /\ s = "out"
      BY <2>2, <2>3, <2>4 DEF Sides
    <3>2. CASE s = "in"
      BY <3>1, <3>2
    <3>3. CASE s = "out"
      BY <3>1, <3>3
    <3>. QED
      BY <3>2, <3>3 DEF Sides
  <2>. QED
    BY <2>5, FS_Singleton
<1>. QED
  BY <1>1, RelayCorrect, PTL

\* After a restart no TCP flow goes on under the previous rules, for any number of
\* flows and in whatever order they were being set up.
THEOREM FlowsCorrect == Spec => []TcpFlowsFollowRules
<1>1. RelayInv => TcpFlowsFollowRules
  BY DEF RelayInv
<1>. QED
  BY <1>1, RelayCorrect, PTL

\* When Stop has returned nothing of the engine is left but a thread about to end.
THEOREM StopCorrect == Spec => []StoppedIsQuiet
<1>1. RelayInv => StoppedIsQuiet
  <2> SUFFICES ASSUME RelayInv, stop = "stopped"
               PROVE  /\ \A w \in Workers : worker[w].pc \in {"none", "notify"}
                      /\ \A k \in Kinds : loop[k] = "ended"
                      /\ \A h \in Handles : sock[h] = "free"
                      /\ tracked = {}
                      /\ \A r \in Rules : flows[r] = 0
    BY DEF StoppedIsQuiet
  <2>0. /\ TypeOK /\ Shapes /\ CountsBalance /\ Owned /\ Listed /\ LoopsHand
    BY DEF RelayInv
  <2>1. active = 0 /\ \A k \in Kinds : loop[k] = "ended"
    BY <2>0 DEF LoopsHand
  <2>2. Counted = {}
    <3>1. Cardinality(Counted) = 0
      BY <2>0, <2>1 DEF CountsBalance, WorkersCounted
    <3>. QED
      BY <3>1, Finite, FS_EmptySet
  <2>3. \A w \in Workers : worker[w].pc # "got"
    BY <2>0, <2>1 DEF LoopsHand, Kinds, WorkersOf, Workers
  <2>4. \A w \in Workers : worker[w].pc \in {"none", "notify"}
    BY <2>2, <2>3 DEF Counted
  <2>5. \A w \in Workers : worker[w].client = NoHandle /\ worker[w].outbound = NoHandle
    BY <2>0, <2>4 DEF Shapes, Shape
  <2>6. \A h \in Handles : sock[h] = "free"
    <3>1. \A w \in Workers, s \in Sides : Held(w, s) = NoHandle
      BY <2>5 DEF Held, HoldsClient, HoldsOutbound
    <3>. QED
      BY <2>0, <3>1, NoHandleAssumption DEF Owned, SocketsHeld
  <2>7. tracked = {}
    <3>1. \A w \in Workers, h \in Handles : ~WillUnlist(w, h)
      BY <2>4 DEF WillUnlist
    <3>. QED
      BY <2>0, <3>1 DEF Listed, TypeOK
  <2>8. \A r \in Rules : flows[r] = 0
    <3>1. \A r \in Rules : FlowsOf(r) = {}
      BY <2>4 DEF FlowsOf, InFlow
    <3>. QED
      BY <2>0, <3>1, FS_EmptySet DEF CountsBalance, FlowsBalanced
  <2>. QED
    BY <2>1, <2>4, <2>6, <2>7, <2>8
<1>. QED
  BY <1>1, RelayCorrect, PTL
=============================================================================
