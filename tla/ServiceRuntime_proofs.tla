----------------------- MODULE ServiceRuntime_proofs -----------------------
(***************************************************************************)
(* Proofs about ServiceRuntime, for any rules, adapters, configurations    *)
(* and routes, any number of interface changes and any faults.             *)
(*                                                                         *)
(* What one thread may rely on while another runs is the invariant of      *)
(* Guarded: who holds the mutex has the open transaction, and knows for    *)
(* which configuration it is.  On it rest                                  *)
(*   - Agrees: current rules, rules of the relay and rules in force are    *)
(*     the same unless the last Apply of a client has failed;              *)
(*   - Blocks: no rule that blocks is without a filter, also while its     *)
(*     transaction is half filled;                                         *)
(*   - Follows: filters are for the adapters that are up now, or another   *)
(*     Apply is to come;                                                   *)
(*   - Quiesces: what Stop may count on after each of its steps.           *)
(***************************************************************************)
EXTENDS ServiceRuntime, TLAPS

\* The places of the service thread under the mutex.
UnderMutex == {"configure", "applying", "reconcile", "record", "clear", "cleanup"}

\* The configuration that the open transaction is for.
Applying == IF service = "applying" THEN request.config ELSE current

\* The request is the one that the place is for.
Asked ==
  /\ service = "lock" => request.op \in {"apply", "reconcile", "cleanup"}
  /\ service \in {"configure", "applying"} => request.op = "apply"
  /\ service \in {"reconcile", "record"} => request.op = "reconcile"
  /\ service # "reply" => reply = NoReply

\* The mutex belongs to one thread, and the transaction to who holds it, until the
\* process ends.
Guarded ==
  service # "ended" =>
    /\ mutex = "service" <=> service \in UnderMutex
    /\ mutex = "notify" <=> notify = "applying"
    /\ apply.pc # "idle" <=> service = "applying" \/ notify = "applying"
    /\ apply.pc \in {"begin", "fill"} => apply.config = Applying
    /\ apply.pc = "done" => history.inForce = Applying

\* What the three calls of an apply leave behind.
Agrees ==
  /\ service = "applying" => relay.rules = request.config.rules
  /\ service # "applying" /\ ~history.failed =>
       history.inForce = current /\ relay.rules = current.rules
  /\ proxy => ~history.failed
  /\ service = "reply" /\ reply.running => proxy /\ reply.config = current

\* A rule of c that blocks.
Blocking(c, r) == c.master /\ c.rules[r] # Off /\ c.rules[r].policy = "block"

\* Its filter is there, or is put into the transaction that replaces it.
Blocks ==
  ~stopping =>
    /\ ~history.cleared => \A r \in Rules : Blocking(history.inForce, r) => filters[r] # "none"
    /\ apply.pc = "fill" =>
         \A r \in Rules \ apply.todo : Blocking(apply.config, r) => apply.staged[r] # "none"

\* The filters f of the rules S are those of c for the adapters that are up, or a
\* notification is to come that will make them so if c is in effect.
Close(f, c, S) ==
  /\ ~c.master => \A r \in S : f[r] = "none"
  /\ pending \/ notify = "called" \/ \A r \in S : f[r] = Filter(c, r)

Follows ==
  ~stopping =>
    /\ apply.pc = "fill" => Close(apply.staged, apply.config, Rules \ apply.todo)
    /\ apply.pc = "done" => Close(filters, Applying, Rules)
    /\ ~history.missed /\ ~history.cleared /\ notify # "applying" /\ apply.pc # "done" =>
         Close(filters, current, Rules)

\* Stop runs beside the service thread and behind the notifications.
Over == service \in {"gone", "ended"}
Quiesces ==
  /\ control \notin {"idle", "exchange"} \/ Over => stopping
  /\ stopping /\ control \in {"idle", "exchange"} => Over
  /\ control # "idle" => service # "start"
  /\ ~Over /\ control \notin {"idle", "exchange"} =>
       /\ control # "cancel" => notify = "idle"
       /\ ~history.busy => service \notin Dispatching

\* The inventory knows the routes, except while a request changes them.
Known ==
  /\ service = "record" => routes \subseteq request.routes
  /\ ~history.spoilt /\ ~Over /\ service # "record" => routes \subseteq recorded

ServiceInv ==
  /\ TypeOK /\ Asked /\ Guarded /\ Agrees /\ Blocks /\ Follows /\ Quiesces /\ Known
  /\ StopRemoves

\* Names of groups of variables, and of helpers that most steps use.
USE DEF network, wfp, table, state, flags, exchange, others, vars, Goes, Stops


-----------------------------------------------------------------------------
\* What is known of a configuration, a request and a filter.
LEMMA ConfigTypes ==
  /\ Nothing \in Configs
  /\ \A c \in Configs : c.master \in BOOLEAN /\ c.rules \in [Rules -> RuleSpec \cup {Off}]
  BY ConfigsAssumption

\* A request that is being served is one of its kind.
LEMMA RequestTypes ==
  ASSUME TypeOK, Asked
  PROVE  /\ service \in {"configure", "applying"} => request.config \in Configs
         /\ service \in {"reconcile", "record"} => request.routes \in SUBSET Routes
  BY DEF TypeOK, Asked, Request, NoRequest

\* What a filter makes of an application is a kind of filter.
LEMMA FilterType ==
  \A c, r : Filter(c, r) \in Kinds
  BY DEF Filter, Kinds

-----------------------------------------------------------------------------
\* The service thread.
\* The service thread goes on to another place outside the mutex, and nothing else
\* changes: it accepts no client while the service is stopping.
LEMMA ServiceMoves ==
  ASSUME ServiceInv, NEW from, NEW to, Moves(from, to),
         from \notin UnderMutex \cup {"lock", "reply", "gone", "ended"},
         to \in {"check", "leave", "create", "listen", "connected", "close", "serve"},
         to = "serve" => ~stopping
  PROVE  ServiceInv'
<1>0. /\ TypeOK /\ Asked /\ Guarded /\ Agrees /\ Blocks /\ Follows /\ Quiesces /\ Known
      /\ StopRemoves
  BY DEF ServiceInv
<1>1. TypeOK'
  BY <1>0 DEF Moves, TypeOK, ServicePlaces
<1>2. Quiesces'
  BY <1>0 DEF Moves, Quiesces, Over, Dispatching
<1>3. Asked' /\ Guarded' /\ Agrees' /\ Blocks' /\ Follows' /\ Known' /\ StopRemoves'
  BY <1>0 DEF Moves, Asked, Guarded, UnderMutex, Applying, Agrees, Blocks, Follows,
     Close, Filter, Known, Over, StopRemoves, Transaction
<1>. QED
  BY <1>1, <1>2, <1>3 DEF ServiceInv

\* Stop has not begun: the control handler cannot stop a service that is starting.
LEMMA InitializeKeeps ==
  ASSUME ServiceInv, Initialize
  PROVE  ServiceInv'
<1>0. /\ TypeOK /\ Asked /\ Guarded /\ Agrees /\ Blocks /\ Follows /\ Quiesces /\ Known
      /\ StopRemoves
  BY DEF ServiceInv
<1>1. TypeOK'
  <2>1. relay' = [rules |-> relay.rules, running |-> TRUE]
    BY <1>0 DEF Initialize, TypeOK
  <2>. QED
    BY <1>0, <2>1, ZenonT(40) DEF TypeOK, Initialize, ServicePlaces
<1>2. Quiesces'
  BY <1>0 DEF Initialize, Quiesces, Over
<1>3. StopRemoves'
  BY <1>0 DEF Initialize, StopRemoves, Quiesces
<1>4. Asked' /\ Guarded' /\ Agrees' /\ Blocks' /\ Follows' /\ Known'
  BY <1>0 DEF Initialize, Asked, Guarded, UnderMutex, Applying, Agrees, Blocks,
     Follows, Close, Filter, Known, Over
<1>. QED
  BY <1>1, <1>2, <1>3, <1>4 DEF ServiceInv

\* A status is that of the configuration applied last.
LEMMA ReceiveStatusKeeps ==
  ASSUME ServiceInv, NEW q \in Request, ReceiveStatus(q)
  PROVE  ServiceInv'
<1>0. /\ TypeOK /\ Asked /\ Guarded /\ Agrees /\ Blocks /\ Follows /\ Quiesces /\ Known
      /\ StopRemoves
  BY DEF ServiceInv
<1>1. TypeOK'
  BY <1>0, ConfigTypes DEF ReceiveStatus, StatusOf, TypeOK, ServicePlaces, StatusOf
<1>2. Agrees'
  BY <1>0 DEF ReceiveStatus, StatusOf, Agrees
<1>3. Asked' /\ Guarded' /\ Blocks' /\ Follows' /\ Quiesces' /\ Known' /\ StopRemoves'
  BY <1>0 DEF ReceiveStatus, Asked, Guarded, UnderMutex, Applying, Blocks, Follows,
     Close, Filter, Quiesces, Over, Dispatching, Known, StopRemoves
<1>. QED
  BY <1>1, <1>2, <1>3 DEF ServiceInv

\* A request is served by the place it asks for.
LEMMA ReceiveKeeps ==
  ASSUME ServiceInv, NEW q \in Request, Receive(q)
  PROVE  ServiceInv'
<1>0. /\ TypeOK /\ Asked /\ Guarded /\ Agrees /\ Blocks /\ Follows /\ Quiesces /\ Known
      /\ StopRemoves
  BY DEF ServiceInv
<1>1. TypeOK'
  BY <1>0 DEF Receive, TypeOK, ServicePlaces
<1>2. Asked'
  BY <1>0 DEF Receive, Request, Asked
<1>3. Guarded' /\ Agrees' /\ Blocks' /\ Follows' /\ Quiesces' /\ Known' /\ StopRemoves'
  BY <1>0 DEF Receive, Guarded, UnderMutex, Applying, Agrees, Blocks, Follows, Close,
     Filter, Quiesces, Over, Dispatching, Known, StopRemoves
<1>. QED
  BY <1>1, <1>2, <1>3 DEF ServiceInv

\* The mutex was free: no transaction is open.
LEMMA LockKeeps ==
  ASSUME ServiceInv, Lock
  PROVE  ServiceInv'
<1>0. /\ TypeOK /\ Asked /\ Guarded /\ Agrees /\ Blocks /\ Follows /\ Quiesces /\ Known
      /\ StopRemoves
  BY DEF ServiceInv
<1>a. service = "lock" /\ service' \in {"configure", "reconcile", "clear"}
  BY <1>0 DEF Lock, Asked
<1>1. TypeOK'
  <2>1. service' \in ServicePlaces
    BY <1>0 DEF Lock, Asked, ServicePlaces
  <2>2. mutex' = "service"
    BY DEF Lock
  <2>. QED
    BY <1>0, <2>1, <2>2, ZenonT(40) DEF TypeOK, Lock
<1>2. Asked'
  BY <1>0, <1>a DEF Lock, Asked
<1>3. Guarded'
  BY <1>0, <1>a DEF Lock, Guarded, UnderMutex
<1>4. Known'
  BY <1>0, <1>a DEF Lock, Known, Over
<1>5. Agrees'
  BY <1>0, <1>a DEF Lock, Agrees
<1>6. Blocks'
  BY <1>0, <1>a DEF Lock, Blocks
<1>7. Follows'
  BY <1>0, <1>a, ZenonT(40) DEF Lock, Follows, Close, Filter, Applying, Past, Transaction
<1>8. Quiesces'
  BY <1>0, <1>a DEF Lock, Quiesces, Over, Dispatching
<1>9. StopRemoves'
  BY <1>0, <1>a DEF Lock, StopRemoves
<1>. QED
  BY <1>1, <1>2, <1>3, <1>4, <1>5, <1>6, <1>7, <1>8, <1>9 DEF ServiceInv

\* A transaction is opened for the rules that the relay has just been given.
LEMMA ConfigureKeeps ==
  ASSUME ServiceInv, Configure
  PROVE  ServiceInv'
<1>0. /\ TypeOK /\ Asked /\ Guarded /\ Agrees /\ Blocks /\ Follows /\ Quiesces /\ Known
      /\ StopRemoves
  BY DEF ServiceInv
<1>1. TypeOK'
  <2>1. apply' \in Transaction
    BY <1>0, ConfigTypes, RequestTypes, OffAssumption DEF Configure, NoApply,
       Transaction, Kinds, NoApply, Unfiltered
  <2>. QED
    BY <1>0, ConfigTypes, RequestTypes, OffAssumption, <2>1 DEF Configure, TypeOK,
       ServicePlaces
<1>2. Guarded'
  BY <1>0 DEF Configure, Guarded, UnderMutex, Applying
<1>3. Agrees'
  BY <1>0 DEF Configure, Agrees
<1>4. Asked' /\ Blocks' /\ Follows' /\ Quiesces' /\ Known' /\ StopRemoves'
  BY <1>0 DEF Configure, Asked, Blocks, Follows, Close, Filter, Applying, Quiesces,
     Over, Dispatching, Known, StopRemoves
<1>. QED
  BY <1>1, <1>2, <1>3, <1>4 DEF ServiceInv

\* The three parts agree on the configuration of the request.
LEMMA AppliedKeeps ==
  ASSUME ServiceInv, Applied
  PROVE  ServiceInv'
<1>0. /\ TypeOK /\ Asked /\ Guarded /\ Agrees /\ Blocks /\ Follows /\ Quiesces /\ Known
      /\ StopRemoves
  BY DEF ServiceInv
<1>1. TypeOK'
  <2>1. history' \in Past
    BY <1>0, ConfigTypes, RequestTypes DEF Applied, TypeOK, Past
  <2>2. apply' \in Transaction
    BY <1>0, ConfigTypes, RequestTypes DEF Applied, NoApply, Transaction, Kinds,
       NoApply, Unfiltered
  <2>. QED
    BY <1>0, ConfigTypes, RequestTypes, <2>1, <2>2 DEF Applied, Unlock, StatusOf,
       TypeOK, ServicePlaces
<1>2. Guarded'
  BY <1>0 DEF Applied, Unlock, NoApply, Guarded, UnderMutex
<1>3. Agrees'
  BY <1>0 DEF Applied, Unlock, StatusOf, Agrees, Applying, TypeOK, Past, Guarded
<1>4. Follows'
  BY <1>0 DEF Applied, NoApply, Follows, Close, Filter, Applying
<1>5. Asked'
  BY <1>0 DEF Applied, Asked
<1>6. Blocks'
  BY <1>0 DEF Applied, NoApply, Blocks
<1>7. Quiesces'
  BY <1>0 DEF Applied, Quiesces, Over, Dispatching
<1>8. Known'
  BY <1>0 DEF Applied, Known, Over
<1>9. StopRemoves'
  BY <1>0 DEF Applied, StopRemoves
<1>. QED
  BY <1>1, <1>2, <1>3, <1>4, <1>5, <1>6, <1>7, <1>8, <1>9 DEF ServiceInv

\* They no longer do: nothing is said of them until the next Apply of a client.
LEMMA NotAppliedKeeps ==
  ASSUME ServiceInv, NotApplied
  PROVE  ServiceInv'
<1>0. /\ TypeOK /\ Asked /\ Guarded /\ Agrees /\ Blocks /\ Follows /\ Quiesces /\ Known
      /\ StopRemoves
  BY DEF ServiceInv
<1>1. TypeOK'
  <2>1. history' \in Past
    BY <1>0, ConfigTypes DEF NotApplied, TypeOK, Past
  <2>2. apply' \in Transaction
    BY <1>0, ConfigTypes DEF NotApplied, NoApply, Transaction, Kinds, NoApply,
       Unfiltered
  <2>. QED
    BY <1>0, ConfigTypes, <2>1, <2>2 DEF NotApplied, Unlock, StatusOf, TypeOK,
       ServicePlaces
<1>2. Guarded'
  BY <1>0 DEF NotApplied, Unlock, NoApply, Guarded, UnderMutex
<1>3. Agrees'
  BY <1>0 DEF NotApplied, Unlock, StatusOf, Agrees, TypeOK, Past
<1>4. Asked'
  BY <1>0 DEF NotApplied, Asked
<1>5. Blocks'
  BY <1>0 DEF NotApplied, NoApply, Blocks
<1>6. Follows'
  BY <1>0 DEF NotApplied, NoApply, Follows, Close, Filter
<1>7. Quiesces'
  BY <1>0 DEF NotApplied, Quiesces, Over, Dispatching
<1>8. Known'
  BY <1>0 DEF NotApplied, Known, Over
<1>9. StopRemoves'
  BY <1>0 DEF NotApplied, StopRemoves
<1>. QED
  BY <1>1, <1>2, <1>3, <1>4, <1>5, <1>6, <1>7, <1>8, <1>9 DEF ServiceInv

\* The table has the routes of the request before the inventory does.
LEMMA ReconcileKeeps ==
  ASSUME ServiceInv, Reconcile
  PROVE  ServiceInv'
<1>0. /\ TypeOK /\ Asked /\ Guarded /\ Agrees /\ Blocks /\ Follows /\ Quiesces /\ Known
      /\ StopRemoves
  BY DEF ServiceInv
<1>1. TypeOK'
  BY <1>0, ConfigTypes, RequestTypes DEF Reconcile, TypeOK, ServicePlaces
<1>2. Known'
  BY <1>0 DEF Reconcile, Known
<1>3. StopRemoves'
  BY <1>0 DEF Reconcile, StopRemoves, Quiesces, Over, Dispatching
<1>4. Asked' /\ Guarded' /\ Agrees' /\ Blocks' /\ Follows' /\ Quiesces'
  BY <1>0 DEF Reconcile, Asked, Guarded, UnderMutex, Agrees, Blocks, Follows, Close,
     Filter, Quiesces, Over, Dispatching
<1>. QED
  BY <1>1, <1>2, <1>3, <1>4 DEF ServiceInv

\* And now the inventory.
LEMMA RecordKeeps ==
  ASSUME ServiceInv, Record
  PROVE  ServiceInv'
<1>0. /\ TypeOK /\ Asked /\ Guarded /\ Agrees /\ Blocks /\ Follows /\ Quiesces /\ Known
      /\ StopRemoves
  BY DEF ServiceInv
<1>1. TypeOK'
  BY <1>0, ConfigTypes, RequestTypes DEF Record, Unlock, TypeOK, ServicePlaces
<1>2. Guarded'
  BY <1>0 DEF Record, Unlock, Guarded, UnderMutex
<1>3. Agrees'
  BY <1>0 DEF Record, Unlock, Agrees, Asked, NoReply
<1>4. Known'
  BY <1>0 DEF Record, Known
<1>5. Asked' /\ Blocks' /\ Follows' /\ Quiesces' /\ StopRemoves'
  BY <1>0 DEF Record, Asked, Blocks, Follows, Close, Filter, Applying, Quiesces, Over,
     Dispatching, StopRemoves
<1>. QED
  BY <1>1, <1>2, <1>3, <1>4, <1>5 DEF ServiceInv

\* The filters go; no transaction is open, so that they go at once.
LEMMA ClearFiltersKeeps ==
  ASSUME ServiceInv, ClearFilters
  PROVE  ServiceInv'
<1>0. /\ TypeOK /\ Asked /\ Guarded /\ Agrees /\ Blocks /\ Follows /\ Quiesces /\ Known
      /\ StopRemoves
  BY DEF ServiceInv
<1>1. TypeOK'
  <2>1. history' \in Past
    BY <1>0 DEF ClearFilters, Clear, TypeOK, Past
  <2>2. apply' \in Transaction
    BY <1>0 DEF ClearFilters, Clear, TypeOK, Transaction, Kinds
  <2>. QED
    BY <1>0, <2>1, <2>2 DEF ClearFilters, Clear, TypeOK, ServicePlaces, Kinds
<1>2. Blocks'
  BY <1>0 DEF ClearFilters, Clear, Blocks, Guarded, UnderMutex
<1>3. Follows'
  BY <1>0 DEF ClearFilters, Clear, Follows, Guarded, UnderMutex
<1>4. StopRemoves'
  BY <1>0 DEF ClearFilters, Clear, StopRemoves, Quiesces, Over, Dispatching
<1>5. Asked' /\ Guarded' /\ Agrees' /\ Quiesces' /\ Known'
  BY <1>0 DEF ClearFilters, Clear, Asked, Guarded, UnderMutex, Agrees, Quiesces, Over,
     Dispatching, Known, TypeOK, Past
<1>. QED
  BY <1>1, <1>2, <1>3, <1>4, <1>5 DEF ServiceInv

\* The routes of the inventory go, but for those that cannot be removed.
LEMMA CleanupKeeps ==
  ASSUME ServiceInv, Cleanup
  PROVE  ServiceInv'
<1>0. /\ TypeOK /\ Asked /\ Guarded /\ Agrees /\ Blocks /\ Follows /\ Quiesces /\ Known
      /\ StopRemoves
  BY DEF ServiceInv
<1>1. TypeOK'
  <2>1. history' \in Past
    BY <1>0, ConfigTypes DEF Cleanup, TypeOK, Past
  <2>. QED
    BY <1>0, ConfigTypes, <2>1 DEF Cleanup, CleanRoutes, Unlock, StatusOf, TypeOK,
       ServicePlaces
<1>2. Guarded'
  BY <1>0 DEF Cleanup, Unlock, Guarded, UnderMutex
<1>3. Agrees'
  BY <1>0 DEF Cleanup, Unlock, StatusOf, Agrees, TypeOK
<1>4. Known'
  BY <1>0 DEF Cleanup, CleanRoutes, Known, Over, TypeOK, Past
<1>5. StopRemoves'
  BY <1>0 DEF Cleanup, CleanRoutes, StopRemoves, TypeOK, Past
<1>6. Asked' /\ Blocks' /\ Follows' /\ Quiesces'
  BY <1>0 DEF Cleanup, Asked, Blocks, Follows, Close, Filter, Applying, Quiesces, Over,
     Dispatching
<1>. QED
  BY <1>1, <1>2, <1>3, <1>4, <1>5, <1>6 DEF ServiceInv

\* The answer is given and forgotten.
LEMMA ReplyKeeps ==
  ASSUME ServiceInv, Reply
  PROVE  ServiceInv'
<1>0. /\ TypeOK /\ Asked /\ Guarded /\ Agrees /\ Blocks /\ Follows /\ Quiesces /\ Known
      /\ StopRemoves
  BY DEF ServiceInv
<1>1. TypeOK'
  BY <1>0, ConfigTypes DEF Reply, NoReply, TypeOK, ServicePlaces, NoReply
<1>2. Asked'
  BY <1>0 DEF Reply, Asked
<1>3. Guarded' /\ Agrees' /\ Blocks' /\ Follows' /\ Quiesces' /\ Known' /\ StopRemoves'
  BY <1>0 DEF Reply, Guarded, UnderMutex, Applying, Agrees, Blocks, Follows, Close,
     Filter, Quiesces, Over, Dispatching, Known, StopRemoves
<1>. QED
  BY <1>1, <1>2, <1>3 DEF ServiceInv

\* The destructor takes everything with it.
LEMMA DestroyKeeps ==
  ASSUME ServiceInv, Destroy
  PROVE  ServiceInv'
<1>0. /\ TypeOK /\ Asked /\ Guarded /\ Agrees /\ Blocks /\ Follows /\ Quiesces /\ Known
      /\ StopRemoves
  BY DEF ServiceInv
<1>1. TypeOK'
  <2>1. relay' = [rules |-> relay.rules, running |-> FALSE]
    BY <1>0 DEF Destroy, TypeOK
  <2>2. filters' \in [Rules -> Kinds]
    BY DEF Destroy, Unfiltered, Kinds
  <2>3. routes' \in SUBSET Routes /\ recorded' \in SUBSET Routes
    BY <1>0 DEF Destroy, CleanRoutes, TypeOK
  <2>4. stopping' \in BOOLEAN
    BY DEF Destroy
  <2>. QED
    BY <1>0, <2>1, <2>2, <2>3, <2>4, ZenonT(60) DEF TypeOK, Destroy, ServicePlaces
<1>2. Quiesces'
  BY <1>0 DEF Destroy, Quiesces, Over
<1>3. StopRemoves'
  BY <1>0 DEF Destroy, StopRemoves
<1>4. Asked' /\ Guarded' /\ Agrees' /\ Blocks' /\ Follows' /\ Known'
  BY <1>0 DEF Destroy, Asked, Guarded, UnderMutex, Applying, Agrees, Blocks, Follows,
     Known, Over
<1>. QED
  BY <1>1, <1>2, <1>3, <1>4 DEF ServiceInv

\* After the end there is nothing to guard.
LEMMA ProcessEndsKeeps ==
  ASSUME ServiceInv, ProcessEnds
  PROVE  ServiceInv'
<1>0. /\ TypeOK /\ Asked /\ Guarded /\ Agrees /\ Blocks /\ Follows /\ Quiesces /\ Known
      /\ StopRemoves
  BY DEF ServiceInv
<1>1. TypeOK'
  <2>1. apply' \in Transaction
    BY <1>0, ConfigTypes DEF ProcessEnds, Transaction, Kinds, NoApply, Unfiltered
  <2>. QED
    BY <1>0, ConfigTypes, <2>1 DEF ProcessEnds, TypeOK, ServicePlaces, Unfiltered,
       Kinds
<1>2. Agrees'
  BY <1>0 DEF ProcessEnds, Agrees
<1>3. Asked' /\ Guarded' /\ Blocks' /\ Follows' /\ Quiesces' /\ Known' /\ StopRemoves'
  BY <1>0 DEF ProcessEnds, Asked, Guarded, Blocks, Follows, Quiesces, Over, Known,
     StopRemoves
<1>. QED
  BY <1>1, <1>2, <1>3 DEF ServiceInv

-----------------------------------------------------------------------------
\* The network, the notifications and the transaction.
\* The filters may now be wrong, and a notification is to come.
LEMMA InterfaceChangesKeeps ==
  ASSUME ServiceInv, InterfaceChanges
  PROVE  ServiceInv'
<1>0. /\ TypeOK /\ Asked /\ Guarded /\ Agrees /\ Blocks /\ Follows /\ Quiesces /\ Known
      /\ StopRemoves
  BY DEF ServiceInv
<1>1. TypeOK'
  BY <1>0, MaxChangesAssumption DEF InterfaceChanges, TypeOK
<1>2. Follows'
  BY <1>0 DEF InterfaceChanges, Follows, Close, Applying
<1>3. Asked' /\ Guarded' /\ Agrees' /\ Blocks' /\ Quiesces' /\ Known' /\ StopRemoves'
  BY <1>0 DEF InterfaceChanges, Asked, Guarded, Applying, Agrees, Blocks, Quiesces,
     Over, Known, StopRemoves
<1>. QED
  BY <1>1, <1>2, <1>3 DEF ServiceInv

\* The driver is no part of the invariant: a filter blocks without it.
LEMMA DriverChangesKeeps ==
  ASSUME ServiceInv, DriverChanges
  PROVE  ServiceInv'
<1>0. /\ TypeOK /\ Asked /\ Guarded /\ Agrees /\ Blocks /\ Follows /\ Quiesces /\ Known
      /\ StopRemoves
  BY DEF ServiceInv
<1>1. TypeOK'
  BY <1>0, MaxChangesAssumption DEF DriverChanges, TypeOK
<1>2. Asked' /\ Guarded' /\ Agrees' /\ Blocks' /\ Follows' /\ Quiesces' /\ Known' /\ StopRemoves'
  BY <1>0 DEF DriverChanges, Asked, Guarded, Applying, Agrees, Blocks, Follows, Close,
     Filter, Quiesces, Over, Known, StopRemoves, Transaction
<1>. QED
  BY <1>1, <1>2 DEF ServiceInv

\* The pending change becomes a call, unless Stop has begun.
LEMMA NotifiedKeeps ==
  ASSUME ServiceInv, Notified
  PROVE  ServiceInv'
<1>0. /\ TypeOK /\ Asked /\ Guarded /\ Agrees /\ Blocks /\ Follows /\ Quiesces /\ Known
      /\ StopRemoves
  BY DEF ServiceInv
<1>1. TypeOK'
  <2>1. pending' \in BOOLEAN
    BY DEF Notified
  <2>2. notify' \in {"idle", "called", "applying"}
    BY DEF Notified
  <2>. QED
    BY <1>0, <2>1, <2>2 DEF TypeOK, Notified
<1>2. Follows'
  BY <1>0 DEF Notified, Follows, Close, Applying
<1>3. Quiesces'
  BY <1>0 DEF Notified, Quiesces, Over
<1>4. Asked' /\ Guarded' /\ Agrees' /\ Blocks' /\ Known' /\ StopRemoves'
  BY <1>0 DEF Notified, Asked, Guarded, Applying, Agrees, Blocks, Known, Over,
     StopRemoves
<1>. QED
  BY <1>1, <1>2, <1>3, <1>4 DEF ServiceInv

\* A transaction that has just been opened.
LEMMA OpenedTypes ==
  ASSUME NEW c \in Configs
  PROVE  [NoApply EXCEPT !.pc = "begin", !.config = c] \in Transaction
<1>1. Unfiltered \in [Rules -> Kinds]
  BY DEF Unfiltered, Kinds
<1>2. NoApply \in Transaction
  BY <1>1, ConfigTypes DEF NoApply, Transaction
<1>. QED
  BY <1>2 DEF Transaction

\* With routing on a transaction is opened for the current rules, and with routing off
\* there is nothing to adapt.
LEMMA NotifyLocksKeeps ==
  ASSUME ServiceInv, NotifyLocks
  PROVE  ServiceInv'
<1>0. /\ TypeOK /\ Asked /\ Guarded /\ Agrees /\ Blocks /\ Follows /\ Quiesces /\ Known
      /\ StopRemoves
  BY DEF ServiceInv
<1>1. TypeOK'
  <2>1. apply' \in Transaction
    <3>1. apply' = apply \/ apply' = [NoApply EXCEPT !.pc = "begin", !.config = current]
      BY DEF NotifyLocks
    <3>2. apply \in Transaction /\ current \in Configs
      BY <1>0 DEF TypeOK
    <3>. QED
      BY <3>1, <3>2, OpenedTypes
  <2>. QED
    BY <1>0, <2>1 DEF TypeOK, NotifyLocks
<1>2. Guarded'
  BY <1>0 DEF NotifyLocks, NoApply, Guarded, UnderMutex, Applying, Transaction, Asked
<1>3. Agrees'
  BY <1>0 DEF NotifyLocks, Agrees
<1>4. Follows'
  BY <1>0 DEF NotifyLocks, NoApply, Follows, Close, Filter, Past, Transaction, Guarded,
     UnderMutex, Quiesces, Over, Dispatching, Unfiltered
<1>5. Quiesces'
  BY <1>0 DEF NotifyLocks, Quiesces, Over
<1>6. Asked'
  BY <1>0 DEF NotifyLocks, Asked
<1>7. Blocks'
  BY <1>0 DEF NotifyLocks, NoApply, Blocks, Transaction
<1>8. Known'
  BY <1>0 DEF NotifyLocks, Known, Over
<1>9. StopRemoves'
  BY <1>0 DEF NotifyLocks, StopRemoves
<1>. QED
  BY <1>1, <1>2, <1>3, <1>4, <1>5, <1>6, <1>7, <1>8, <1>9 DEF ServiceInv

\* The filters follow the adapters, or an Apply has been missed.
LEMMA NotifyEndsKeeps ==
  ASSUME ServiceInv, NotifyEnds
  PROVE  ServiceInv'
<1>0. /\ TypeOK /\ Asked /\ Guarded /\ Agrees /\ Blocks /\ Follows /\ Quiesces /\ Known
      /\ StopRemoves
  BY DEF ServiceInv
<1>1. TypeOK'
  <2>1. history' \in Past
    BY <1>0, ConfigTypes DEF NotifyEnds, TypeOK, Past
  <2>2. apply' \in Transaction
    BY <1>0, ConfigTypes DEF NotifyEnds, NoApply, Transaction, Kinds, Unfiltered
  <2>. QED
    BY <1>0, <2>1, <2>2, ZenonT(40) DEF NotifyEnds, TypeOK
<1>2. Guarded'
  BY <1>0 DEF NotifyEnds, NoApply, Guarded, UnderMutex
<1>3. Follows'
  BY <1>0, ZenonT(40) DEF NotifyEnds, Alive, NoApply, Follows, Close, Filter, Applying, TypeOK,
     Past, Transaction, Guarded, UnderMutex, Quiesces, Over, Dispatching, Unfiltered
<1>4. Asked' /\ Agrees' /\ Blocks' /\ Quiesces' /\ Known' /\ StopRemoves'
  BY <1>0 DEF NotifyEnds, NoApply, Asked, Agrees, Blocks, Quiesces, Over, Known,
     StopRemoves
<1>. QED
  BY <1>1, <1>2, <1>3, <1>4 DEF ServiceInv

\* The filters in force stay until the commit.
LEMMA ApplyBeginsKeeps ==
  ASSUME ServiceInv, Applies, ApplyBegins
  PROVE  ServiceInv'
<1>0. /\ TypeOK /\ Asked /\ Guarded /\ Agrees /\ Blocks /\ Follows /\ Quiesces /\ Known
      /\ StopRemoves
  BY DEF ServiceInv
<1>1. TypeOK'
  <2>1. apply' \in Transaction
    BY <1>0 DEF ApplyBegins, TypeOK, Transaction, Kinds, Unfiltered
  <2>. QED
    BY <1>0, <2>1 DEF Applies, ApplyBegins, TypeOK
<1>2. Guarded'
  BY <1>0 DEF Applies, ApplyBegins, Guarded, Applying
<1>3. Asked' /\ Agrees' /\ Blocks' /\ Follows' /\ Quiesces' /\ Known' /\ StopRemoves'
  BY <1>0 DEF Applies, ApplyBegins, Asked, Agrees, Blocks, Follows, Close, Filter,
     Quiesces, Over, Known, StopRemoves
<1>. QED
  BY <1>1, <1>2, <1>3 DEF ServiceInv

\* A rule's filter is that of its adapter's state now; should that change before the
\* commit, a notification is to come.
LEMMA ApplyFillsKeeps ==
  ASSUME ServiceInv, Applies, ApplyFills
  PROVE  ServiceInv'
<1>0. /\ TypeOK /\ Asked /\ Guarded /\ Agrees /\ Blocks /\ Follows /\ Quiesces /\ Known
      /\ StopRemoves
  BY DEF ServiceInv
<1>a. PICK r \in apply.todo :
        apply' = [apply EXCEPT !.todo = @ \ {r}, !.staged[r] = Filter(apply.config, r)]
  BY DEF ApplyFills
<1>b. /\ apply.pc = "fill" /\ apply'.pc = "fill" /\ apply'.config = apply.config
      /\ apply'.todo = apply.todo \ {r} /\ apply.todo \subseteq Rules
      /\ apply'.staged = [apply.staged EXCEPT ![r] = Filter(apply.config, r)]
      /\ apply.staged \in [Rules -> Kinds]
  BY <1>0, <1>a DEF ApplyFills, TypeOK, Transaction
<1>c. UNCHANGED <<filters, history, network, table, state, flags, service, exchange, others,
                  relay, mutex>>
  BY DEF Applies, ApplyFills
<1>1. TypeOK'
  <2>1. apply'.staged \in [Rules -> Kinds]
    BY <1>b, FilterType
  <2>2. apply' \in Transaction
    BY <1>0, <1>a, <1>b, <2>1 DEF TypeOK, Transaction
  <2>. QED
    BY <1>0, <1>c, <2>2 DEF TypeOK
<1>2. Blocks'

  BY <1>0, <1>b, <1>c DEF Blocks, Blocking, Filter
<1>3. Follows'

  BY <1>0, <1>b, <1>c DEF Follows, Close, Filter, Applying
<1>4. Asked' /\ Guarded' /\ Agrees' /\ Quiesces' /\ Known' /\ StopRemoves'
  BY <1>0, <1>b, <1>c DEF Asked, Guarded, Agrees, Quiesces, Known, StopRemoves,
     UnderMutex, Applying, Over
<1>. QED
  BY <1>1, <1>2, <1>3, <1>4 DEF ServiceInv

\* All filters are replaced at once, by those of the transaction.
LEMMA ApplyCommitsKeeps ==
  ASSUME ServiceInv, Applies, ApplyCommits
  PROVE  ServiceInv'
<1>0. /\ TypeOK /\ Asked /\ Guarded /\ Agrees /\ Blocks /\ Follows /\ Quiesces /\ Known
      /\ StopRemoves
  BY DEF ServiceInv
<1>1. TypeOK'
  <2>1. apply' \in Transaction
    BY <1>0, ConfigTypes DEF ApplyCommits, TypeOK, Transaction, NoApply, Unfiltered, Kinds
  <2>2. apply.config \in Configs /\ apply.staged \in [Rules -> Kinds]
    BY <1>0 DEF TypeOK, Transaction
  <2>3. history' \in Past
    BY <1>0, <2>2 DEF ApplyCommits, TypeOK, Past
  <2>. QED
    BY <1>0, <2>1, <2>2, <2>3 DEF TypeOK, Applies, ApplyCommits
<1>2. Guarded'
  BY <1>0 DEF Applies, ApplyCommits, Guarded, Applying
<1>3. Agrees'
  BY <1>0 DEF Applies, ApplyCommits, Alive, Agrees, Applying, Guarded
<1>4. Blocks'
  BY <1>0 DEF Applies, ApplyCommits, Blocks
<1>5. Follows'
  BY <1>0 DEF Applies, ApplyCommits, Alive, Follows, Close, Filter, Applying,
     Transaction, Guarded
<1>6. StopRemoves'
  BY <1>0 DEF Applies, ApplyCommits, StopRemoves, Quiesces, Over, Dispatching, Guarded
<1>7. Asked' /\ Quiesces' /\ Known'
  BY <1>0 DEF Applies, ApplyCommits, Asked, Quiesces, Over, Known
<1>. QED
  BY <1>1, <1>2, <1>3, <1>4, <1>5, <1>6, <1>7 DEF ServiceInv

\* The filters in force stay.
LEMMA ApplyFailsKeeps ==
  ASSUME ServiceInv, Applies, ApplyFails
  PROVE  ServiceInv'
<1>0. /\ TypeOK /\ Asked /\ Guarded /\ Agrees /\ Blocks /\ Follows /\ Quiesces /\ Known
      /\ StopRemoves
  BY DEF ServiceInv
<1>1. TypeOK'
  <2>1. apply' \in Transaction
    BY <1>0, ConfigTypes DEF ApplyFails, Transaction, Kinds, NoApply, Unfiltered
  <2>. QED
    BY <1>0, ConfigTypes, <2>1 DEF Applies, ApplyFails, TypeOK
<1>2. Guarded'
  BY <1>0 DEF Applies, ApplyFails, Guarded
<1>3. Asked' /\ Agrees' /\ Blocks' /\ Follows' /\ Quiesces' /\ Known' /\ StopRemoves'
  BY <1>0 DEF Applies, ApplyFails, Asked, Agrees, Blocks, Follows, Close, Filter,
     Quiesces, Over, Known, StopRemoves
<1>. QED
  BY <1>1, <1>2, <1>3 DEF ServiceInv

-----------------------------------------------------------------------------
\* Stop.
\* The handler is called for a service that has started.
LEMMA StopRequestedKeeps ==
  ASSUME ServiceInv, StopRequested
  PROVE  ServiceInv'
<1>0. /\ TypeOK /\ Asked /\ Guarded /\ Agrees /\ Blocks /\ Follows /\ Quiesces /\ Known
      /\ StopRemoves
  BY DEF ServiceInv
<1>1. TypeOK'
  BY <1>0 DEF StopRequested, TypeOK, ControlPlaces
<1>2. Quiesces'
  BY <1>0 DEF StopRequested, Quiesces, Over
<1>3. Asked' /\ Guarded' /\ Agrees' /\ Blocks' /\ Follows' /\ Known' /\ StopRemoves'
  BY <1>0 DEF StopRequested, Asked, Guarded, Applying, Agrees, Blocks, Follows, Close,
     Filter, Known, Over, StopRemoves, Transaction
<1>. QED
  BY <1>1, <1>2, <1>3 DEF ServiceInv

\* From here on no notification begins and no client is accepted; what is being served
\* is remembered as busy.
LEMMA ExchangeKeeps ==
  ASSUME ServiceInv, Exchange
  PROVE  ServiceInv'
<1>0. /\ TypeOK /\ Asked /\ Guarded /\ Agrees /\ Blocks /\ Follows /\ Quiesces /\ Known
      /\ StopRemoves
  BY DEF ServiceInv
<1>1. TypeOK'
  <2>1. history' \in Past
    BY <1>0 DEF Exchange, TypeOK, Past
  <2>. QED
    BY <1>0, <2>1 DEF Exchange, TypeOK, ControlPlaces
<1>2. Quiesces'
  BY <1>0 DEF Exchange, Quiesces, Over, TypeOK, Past
<1>3. StopRemoves'
  BY <1>0 DEF Exchange, StopRemoves, Quiesces, Over
<1>4. Asked' /\ Guarded' /\ Agrees' /\ Blocks' /\ Follows' /\ Known'
  BY <1>0 DEF Exchange, Asked, Guarded, Applying, Agrees, Blocks, Follows, Known, Over
<1>. QED
  BY <1>1, <1>2, <1>3, <1>4 DEF ServiceInv

\* No notification is running, and none will.
LEMMA CancelKeeps ==
  ASSUME ServiceInv, Cancel
  PROVE  ServiceInv'
<1>0. /\ TypeOK /\ Asked /\ Guarded /\ Agrees /\ Blocks /\ Follows /\ Quiesces /\ Known
      /\ StopRemoves
  BY DEF ServiceInv
<1>1. TypeOK'
  <2>1. pending' \in BOOLEAN
    BY DEF Cancel
  <2>2. control' \in ControlPlaces
    BY DEF Cancel, ControlPlaces
  <2>. QED
    BY <1>0, <2>1, <2>2 DEF TypeOK, Cancel
<1>2. Follows'
  BY <1>0 DEF Cancel, Follows, Quiesces
<1>3. Quiesces'
  BY <1>0 DEF Cancel, Quiesces, Over
<1>4. Asked' /\ Guarded' /\ Agrees' /\ Blocks' /\ Known' /\ StopRemoves'
  BY <1>0 DEF Cancel, Asked, Guarded, Applying, Agrees, Blocks, Known, Over,
     StopRemoves
<1>. QED
  BY <1>1, <1>2, <1>3, <1>4 DEF ServiceInv

\* The filters go at once, since no transaction is open unless a request was served.
LEMMA StopClearsKeeps ==
  ASSUME ServiceInv, StopClears
  PROVE  ServiceInv'
<1>0. /\ TypeOK /\ Asked /\ Guarded /\ Agrees /\ Blocks /\ Follows /\ Quiesces /\ Known
      /\ StopRemoves
  BY DEF ServiceInv
<1>1. TypeOK'
  <2>1. history' \in Past
    BY <1>0 DEF StopClears, Clear, TypeOK, Past
  <2>2. apply' \in Transaction
    BY <1>0 DEF StopClears, Clear, TypeOK, Transaction, Kinds
  <2>. QED
    BY <1>0, <2>1, <2>2 DEF StopClears, Clear, TypeOK, ControlPlaces, Kinds
<1>2. Blocks'
  BY <1>0 DEF StopClears, Blocks, Quiesces
<1>3. Follows'
  BY <1>0 DEF StopClears, Follows, Quiesces
<1>4. StopRemoves'

  <2>1. PICK left \in SUBSET Rules :
          /\ history' = [history EXCEPT !.cleared = TRUE, !.spoilt = @ \/ left # {}]
          /\ apply.pc # "fill" =>
               filters' = [r \in Rules |-> IF r \in left THEN filters[r] ELSE "none"]
    BY DEF StopClears, Clear
  <2>2. history'.busy = history.busy /\ (~history'.spoilt => left = {})
    BY <1>0, <2>1 DEF TypeOK, Past
  <2>3. SUFFICES ASSUME ~history'.busy, ~history'.spoilt, service' \notin {"gone", "ended"}
                 PROVE  filters' = Unfiltered
    BY DEF StopRemoves, StopClears
  <2>4. service = service' /\ control = "clear"
    BY DEF StopClears
  <2>5. service \notin Dispatching /\ notify = "idle"
    BY <1>0, <2>2, <2>3, <2>4 DEF Quiesces, Over
  <2>6. apply.pc # "fill"
    BY <1>0, <2>3, <2>4, <2>5 DEF Guarded, Dispatching
  <2>. QED
    BY <2>1, <2>2, <2>3, <2>6 DEF Unfiltered
<1>5. Asked' /\ Guarded' /\ Agrees' /\ Quiesces' /\ Known'
  BY <1>0 DEF StopClears, Clear, Asked, Guarded, Applying, Agrees, Quiesces, Over,
     Known, TypeOK, Past, Transaction
<1>. QED
  BY <1>1, <1>2, <1>3, <1>4, <1>5 DEF ServiceInv

\* The relay stops.
LEMMA StopRelayKeeps ==
  ASSUME ServiceInv, StopRelay
  PROVE  ServiceInv'
<1>0. /\ TypeOK /\ Asked /\ Guarded /\ Agrees /\ Blocks /\ Follows /\ Quiesces /\ Known
      /\ StopRemoves
  BY DEF ServiceInv
<1>1. TypeOK'
  <2>1. relay' \in [rules : [Rules -> RuleSpec \cup {Off}], running : BOOLEAN]
    BY <1>0 DEF StopRelay, TypeOK
  <2>2. control' \in ControlPlaces
    BY DEF StopRelay, ControlPlaces
  <2>3. UNCHANGED <<network, wfp, table, state, flags, service, exchange, notify, mutex, history>>
    BY DEF StopRelay
  <2>. QED
    BY <1>0, <2>1, <2>2, <2>3 DEF TypeOK
<1>2. StopRemoves'
  BY <1>0 DEF StopRelay, StopRemoves
<1>3. Asked' /\ Guarded' /\ Agrees' /\ Blocks' /\ Follows' /\ Quiesces' /\ Known'
  BY <1>0 DEF StopRelay, Asked, Guarded, Applying, Agrees, Blocks, Follows, Quiesces,
     Over, Known
<1>. QED
  BY <1>1, <1>2, <1>3 DEF ServiceInv

\* The routes go: the inventory knows them, unless a request was changing them.
LEMMA StopCleansKeeps ==
  ASSUME ServiceInv, StopCleans
  PROVE  ServiceInv'
<1>0. /\ TypeOK /\ Asked /\ Guarded /\ Agrees /\ Blocks /\ Follows /\ Quiesces /\ Known
      /\ StopRemoves
  BY DEF ServiceInv
<1>1. TypeOK'
  <2>1. history' \in Past
    BY <1>0 DEF StopCleans, TypeOK, Past
  <2>. QED
    BY <1>0, <2>1 DEF StopCleans, CleanRoutes, TypeOK, ControlPlaces
<1>2. Known'
  BY <1>0 DEF StopCleans, CleanRoutes, Known, Over, TypeOK, Past
<1>3. StopRemoves'

  <2>1. PICK left \in SUBSET (routes \cap recorded) :
          /\ routes' = (routes \ recorded) \cup left
          /\ history' = [history EXCEPT !.spoilt = @ \/ left # {}]
    BY DEF StopCleans, CleanRoutes
  <2>2. /\ history'.busy = history.busy /\ (history.spoilt => history'.spoilt)
        /\ ~history'.spoilt => left = {}
    BY <1>0, <2>1 DEF TypeOK, Past
  <2>3. SUFFICES ASSUME ~history'.busy, ~history'.spoilt, service' \notin {"gone", "ended"}
                 PROVE  filters' = Unfiltered /\ ~relay'.running /\ routes' = {}
    BY DEF StopRemoves
  <2>4. /\ service = service' /\ control = "cleanup" /\ filters' = filters
        /\ relay' = relay
    BY DEF StopCleans
  <2>5. service # "record" /\ stopping
    BY <1>0, <2>2, <2>3, <2>4 DEF Quiesces, Over, Dispatching
  <2>6. routes \subseteq recorded
    BY <1>0, <2>2, <2>3, <2>4, <2>5 DEF Known, Over
  <2>. QED
    BY <1>0, <2>1, <2>2, <2>3, <2>4, <2>5, <2>6 DEF StopRemoves
<1>4. Asked' /\ Guarded' /\ Agrees' /\ Blocks' /\ Follows' /\ Quiesces'
  BY <1>0 DEF StopCleans, Asked, Guarded, Applying, Agrees, Blocks, Follows, Quiesces,
     Over
<1>. QED
  BY <1>1, <1>2, <1>3, <1>4 DEF ServiceInv

\* The service thread is freed, and accepts no client.
LEMMA WakeKeeps ==
  ASSUME ServiceInv, Wake
  PROVE  ServiceInv'
<1>0. /\ TypeOK /\ Asked /\ Guarded /\ Agrees /\ Blocks /\ Follows /\ Quiesces /\ Known
      /\ StopRemoves
  BY DEF ServiceInv
<1>1. TypeOK'
  <2>1. history' \in Past
    BY <1>0 DEF Wake, TypeOK, Past
  <2>. QED
    BY <1>0, <2>1 DEF Wake, TypeOK, ServicePlaces, ControlPlaces
<1>2. Quiesces'
  BY <1>0 DEF Wake, Quiesces, Over, Dispatching
<1>3. Asked' /\ Guarded' /\ Agrees' /\ Blocks' /\ Follows' /\ Known' /\ StopRemoves'
  BY <1>0 DEF Wake, Asked, Guarded, UnderMutex, Applying, Agrees, Blocks, Follows,
     Close, Filter, Known, Over, StopRemoves, Past, Transaction
<1>. QED
  BY <1>1, <1>2, <1>3 DEF ServiceInv

\* Stop has returned.
LEMMA SetEventKeeps ==
  ASSUME ServiceInv, SetEvent
  PROVE  ServiceInv'
<1>0. /\ TypeOK /\ Asked /\ Guarded /\ Agrees /\ Blocks /\ Follows /\ Quiesces /\ Known
      /\ StopRemoves
  BY DEF ServiceInv
<1>1. TypeOK'
  BY <1>0 DEF SetEvent, TypeOK, ControlPlaces
<1>2. Quiesces'
  BY <1>0 DEF SetEvent, Quiesces, Over
<1>3. StopRemoves'
  BY <1>0 DEF SetEvent, StopRemoves
<1>4. Asked' /\ Guarded' /\ Agrees' /\ Blocks' /\ Follows' /\ Known'
  BY <1>0 DEF SetEvent, Asked, Guarded, Applying, Agrees, Blocks, Follows, Close,
     Filter, Known, Over, Past
<1>. QED
  BY <1>1, <1>2, <1>3, <1>4 DEF ServiceInv

-----------------------------------------------------------------------------
\* The invariant holds when the process starts, and every step keeps it.

\* The invariant holds at first.
LEMMA ServiceStarts == Init => ServiceInv
<1> SUFFICES ASSUME Init PROVE ServiceInv
  OBVIOUS
<1>1. TypeOK
  <2>1. apply \in Transaction
    BY ConfigTypes DEF Init, NoApply, Unfiltered, Transaction, Kinds
  <2>2. history \in Past
    BY ConfigTypes DEF Init, Past
  <2>3. relay \in [rules : [Rules -> RuleSpec \cup {Off}], running : BOOLEAN]
    BY ConfigTypes DEF Init
  <2>4. reply \in [config : Configs, running : BOOLEAN]
    BY ConfigTypes DEF Init, NoReply
  <2>5. filters \in [Rules -> Kinds]
    BY DEF Init, Unfiltered, Kinds
  <2>6. changes \in 0..MaxChanges
    BY MaxChangesAssumption DEF Init
  <2>7. /\ up \in SUBSET Adapters /\ pending \in BOOLEAN /\ current \in Configs
        /\ proxy \in BOOLEAN /\ stopping \in BOOLEAN /\ event \in BOOLEAN
        /\ service \in ServicePlaces /\ control \in ControlPlaces
    BY ConfigTypes DEF Init, ServicePlaces, ControlPlaces
  <2>. QED
    BY <2>1, <2>2, <2>3, <2>4, <2>5, <2>6, <2>7 DEF Init, TypeOK
<1>2. Asked /\ Guarded /\ Agrees
  BY DEF Init, Asked, Guarded, Agrees, UnderMutex, NoApply, NoReply
<1>3. Blocks /\ Follows
  BY ConfigsAssumption
  DEF Init, Blocks, Blocking, Follows, Close, Filter, Unfiltered, NoApply
<1>4. Quiesces /\ Known /\ StopRemoves
  BY DEF Init, Quiesces, Known, Over, StopRemoves
<1>. QED
  BY <1>1, <1>2, <1>3, <1>4 DEF ServiceInv

\* Every call the service serves keeps the invariant.
LEMMA ServesKeeps ==
  ASSUME ServiceInv, Serves
  PROVE  ServiceInv'
<1>1. CASE CannotInitialize
  BY <1>1, ServiceMoves DEF CannotInitialize, Moves, UnderMutex
<1>2. CASE CheckStopping
  BY <1>2, ServiceMoves DEF CheckStopping, Moves, UnderMutex
<1>3. CASE CreatePipe \/ CannotCreatePipe
  BY <1>3, ServiceMoves DEF CreatePipe, CannotCreatePipe, Moves, UnderMutex
<1>4. CASE Accept
  BY <1>4, ServiceMoves DEF Accept, Moves, UnderMutex
<1>5. CASE Reject \/ ClosePipe
  BY <1>5, ServiceMoves DEF Reject, ClosePipe, Moves, UnderMutex
<1>6. CASE \E q \in Request : ReceiveStatus(q) \/ Receive(q)
  BY <1>6, ReceiveStatusKeeps, ReceiveKeeps
<1>7. CASE Initialize \/ Lock \/ Configure \/ Applied \/ NotApplied \/ Reconcile \/ Record
  BY <1>7, InitializeKeeps, LockKeeps, ConfigureKeeps, AppliedKeeps, NotAppliedKeeps,
     ReconcileKeeps, RecordKeeps
<1>8. CASE ClearFilters \/ Cleanup \/ Reply \/ Destroy \/ ProcessEnds
  BY <1>8, ClearFiltersKeeps, CleanupKeeps, ReplyKeeps, DestroyKeeps, ProcessEndsKeeps
<1>. QED
  BY <1>1, <1>2, <1>3, <1>4, <1>5, <1>6, <1>7, <1>8 DEF Serves

\* Every step keeps the invariant.
LEMMA ServiceStep == ServiceInv /\ [Next]_vars => ServiceInv'
<1> SUFFICES ASSUME ServiceInv, [Next]_vars PROVE ServiceInv'
  OBVIOUS
<1>1. CASE Serves
  BY <1>1, ServesKeeps
<1>2. CASE ClientConnects
  BY <1>2, ServiceMoves DEF ClientConnects, Moves, UnderMutex
<1>3. CASE InterfaceChanges \/ DriverChanges
  BY <1>3, InterfaceChangesKeeps, DriverChangesKeeps
<1>4. CASE Notifies
  BY <1>4, NotifiedKeeps, NotifyLocksKeeps, NotifyEndsKeeps DEF Notifies
<1>5. CASE Applies
  <2>1. ApplyBegins \/ ApplyFills \/ ApplyCommits \/ ApplyFails
    BY <1>5 DEF Applies
  <2>. QED
    BY <1>5, <2>1, ApplyBeginsKeeps, ApplyFillsKeeps, ApplyCommitsKeeps, ApplyFailsKeeps
<1>6. CASE StopRequested \/ Exchange \/ Cancel \/ StopClears
  BY <1>6, StopRequestedKeeps, ExchangeKeeps, CancelKeeps, StopClearsKeeps
<1>7. CASE StopRelay \/ StopCleans \/ Wake \/ SetEvent
  BY <1>7, StopRelayKeeps, StopCleansKeeps, WakeKeeps, SetEventKeeps
<1>8. CASE UNCHANGED vars
  <2>1. /\ TypeOK /\ Asked /\ Guarded /\ Agrees /\ Blocks /\ Follows /\ Quiesces /\ Known
        /\ StopRemoves
    BY DEF ServiceInv
  <2>2. TypeOK' /\ Asked' /\ Guarded' /\ Agrees'
    BY <1>8, <2>1 DEF TypeOK, Asked, Guarded, Agrees, UnderMutex, Applying
  <2>3. Blocks' /\ Follows'
    BY <1>8, <2>1 DEF Blocks, Blocking, Follows, Close, Filter, Applying
  <2>4. Quiesces' /\ Known' /\ StopRemoves'
    BY <1>8, <2>1 DEF Quiesces, Known, Over, StopRemoves, Dispatching
  <2>. QED
    BY <2>2, <2>3, <2>4 DEF ServiceInv
<1>. QED
  BY <1>1, <1>2, <1>3, <1>4, <1>5, <1>6, <1>7, <1>8 DEF Next, StopSteps

\* The invariant that the theorems below rest on, for each order in which the service
\* thread, the control handler and the network callbacks take the mutex.
THEOREM ServiceCorrect == Spec => []ServiceInv
  BY ServiceStarts, ServiceStep, PTL DEF Spec

-----------------------------------------------------------------------------
\* What it gives.

\* The types of the service, for any configurations and any number of changes.
THEOREM ServiceTypes == Spec => []TypeOK
<1>1. ServiceInv => TypeOK
  BY DEF ServiceInv
<1>. QED
  BY <1>1, ServiceCorrect, PTL

\* Whatever an interface does while a request or a notification is applied, the filters
\* end up those of the current rules for the adapters that are up.
THEOREM FiltersCorrect == Spec => []FiltersFollowInterfaces
<1>1. ServiceInv => FiltersFollowInterfaces
  <2> SUFFICES ASSUME ServiceInv, Settled, ~history.missed, ~history.cleared
               PROVE  filters = Wanted(current)
    BY DEF FiltersFollowInterfaces
  <2>0. TypeOK /\ Guarded /\ Follows
    BY DEF ServiceInv
  <2>1. apply.pc # "done"
    BY <2>0 DEF Settled, Guarded, UnderMutex
  <2>2. \A r \in Rules : filters[r] = Filter(current, r)
    BY <2>0, <2>1 DEF Settled, Follows, Close
  <2>3. filters \in [Rules -> Kinds]
    BY <2>0 DEF TypeOK
  <2>. QED
    BY <2>2, <2>3 DEF Wanted
<1>. QED
  BY <1>1, ServiceCorrect, PTL

\* A redirected connection finds in the relay the rule its filter was made from, for
\* any order of requests, failures and notifications.
THEOREM RedirectsCorrect == Spec => []RedirectsFindTheirRule
<1>1. ServiceInv => RedirectsFindTheirRule
  <2> SUFFICES ASSUME ServiceInv, Settled, ~history.failed
               PROVE  relay.rules = history.inForce.rules
    BY DEF RedirectsFindTheirRule
  <2>. QED
    BY DEF ServiceInv, Settled, Guarded, Agrees, UnderMutex
<1>. QED
  BY <1>1, ServiceCorrect, PTL

\* A rule that blocks does so while filters are replaced, when that fails half way, and
\* when its adapter or the driver goes.
THEOREM BlockCorrect == Spec => []BlockNeverLeaks
<1>1. ServiceInv => BlockNeverLeaks
  <2> SUFFICES ASSUME ServiceInv, ~history.cleared, ~stopping, NEW r \in Rules,
                      Blocking(history.inForce, r)
               PROVE  "permit" \notin Fates(r)
    BY DEF BlockNeverLeaks, Blocking
  <2>1. filters[r] # "none"
    BY DEF ServiceInv, Blocks
  <2>2. filters[r] \in {"block", "redirect"}
    BY <2>1 DEF ServiceInv, TypeOK, Kinds
  <2>. QED
    BY <2>2 DEF Fates, Classify
<1>. QED
  BY <1>1, ServiceCorrect, PTL

\* A status that says the proxy is running tells the truth about filters and relay.
THEOREM StatusCorrect == Spec => []StatusIsTrue
<1>1. ServiceInv => StatusIsTrue
  BY DEF ServiceInv, Agrees, StatusIsTrue
<1>. QED
  BY <1>1, ServiceCorrect, PTL

\* What Stop has removed stays removed, when no request was being served.
THEOREM StopStays == Spec => []StopRemoves
<1>1. ServiceInv => StopRemoves
  BY DEF ServiceInv
<1>. QED
  BY <1>1, ServiceCorrect, PTL
=============================================================================
