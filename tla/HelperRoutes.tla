---------------------------- MODULE HelperRoutes ----------------------------
(***************************************************************************)
(* The macOS privileged helper: RouteManager behind HelperDelegate.        *)
(*                                                                         *)
(* The helper owns an inventory of the routes it installed (managed), kept *)
(* in memory and written to managed_routes.json at the end of a request,   *)
(* and edits the kernel's routing table by running /sbin/route once per    *)
(* route.  A request gives the routes wanted; the handler removes managed  *)
(* routes that are not wanted, adds wanted routes that are not managed,    *)
(* then looks every wanted route up and repairs those that are managed but *)
(* not in force.                                                           *)
(*                                                                         *)
(* Each run of a /sbin/route command is a step, and so is each change of   *)
(* the inventory that follows one.  Between two steps the machine may      *)
(* change the table, the helper may die, and, when an earlier request has  *)
(* timed out at the client, another request may be running: every XPC      *)
(* connection has its own queue and RouteManager takes no lock.            *)
(*                                                                         *)
(* Abstractions: destinations do not nest, so a lookup finds the entry of  *)
(* the destination itself or the default route; the order of the routes    *)
(* within a phase is left open; the inventory is a set (a second row for   *)
(* the same route is deleted with the first); the browser processes the    *)
(* handler signals are not modelled.                                       *)
(*                                                                         *)
(* A definition whose name starts with Bug is not part of the model: it is *)
(* the definition after it with a plausible mistake, for mutation checks.  *)
(***************************************************************************)
EXTENDS Naturals, FiniteSets

CONSTANTS
  Specs,      \* the RouteSpecs a client may ask for
  Vias,       \* where a lookup may lead: [iface, gateway]
  Sessions,   \* XPC connections: more than one only after a client timeout
  Faults,     \* which failures the environment may cause
  NoGateway,  \* RouteSpec.gateway = nil
  NoRoute     \* no kernel entry for a destination

FaultKinds == {"command", "persist", "death", "restart", "reboot", "table", "default"}

ASSUME SpecsAssumption ==
  \A s \in Specs : [iface |-> s.iface, gateway |-> s.gateway] \in Vias
ASSUME FaultsAssumption == Faults \subseteq FaultKinds
Dests == {s.dest : s \in Specs}

Via(spec) == [iface |-> spec.iface, gateway |-> spec.gateway]

\* What the kernel holds for a destination.  by records who installed the entry;
\* the kernel does not know it.
Entry == [via : Vias, by : {"helper", "other"}]

ASSUME NoRouteAssumption == NoRoute \notin Entry

VARIABLES
  kernel,      \* routing table: destination -> entry or NoRoute
  defaultVia,  \* where packets without an entry go
  managed,     \* RouteManager.managed
  store,       \* managed_routes.json
  session,     \* the request each connection is serving
  fresh        \* history: the connection that asked last, {} once anything but
               \* the helper has touched the table since it asked

vars == <<kernel, defaultVia, managed, store, session, fresh>>

Request ==
  [pc : {"idle", "work", "forget", "record", "repair", "recheck", "done"},
   desired : SUBSET Specs,
   current : SUBSET Specs,      \* currentSet: the inventory when it started
   remove : SUBSET Specs,       \* toRemove not yet handled
   add : SUBSET Specs,          \* toAdd not yet handled
   check : SUBSET Specs,        \* desired not yet verified
   hand : SUBSET Specs,         \* the route a command was just run for, if any
   verified : SUBSET Specs,     \* routeChecks that came out verified
   result : {"ok", "errors"}]   \* whether errors is empty

Idle == [pc |-> "idle", desired |-> {}, current |-> {}, remove |-> {},
         add |-> {}, check |-> {}, hand |-> {}, verified |-> {}, result |-> "ok"]

\* A command is in hand between running it and acting on its outcome.
HandOK(q) == q.hand = {} <=> q.pc \in {"idle", "work", "done"}

\* The types of the variables.
TypeOK ==
  /\ kernel \in [Dests -> Entry \cup {NoRoute}]
  /\ defaultVia \in Vias
  /\ managed \in SUBSET Specs
  /\ store \in SUBSET Specs
  /\ session \in [Sessions -> Request]
  /\ \A c \in Sessions : HandOK(session[c])
  /\ fresh \in SUBSET Sessions

Init ==
  /\ kernel = [d \in Dests |-> NoRoute]
  /\ defaultVia \in Vias
  /\ managed = {}
  /\ store = {}
  /\ session = [c \in Sessions |-> Idle]
  /\ fresh = {}

-----------------------------------------------------------------------------
\* inspectRoute: `route -n get` gives the interface and gateway a packet would
\* take; a spec without a gateway accepts any.
Lookup(d) == IF kernel[d] = NoRoute THEN defaultVia ELSE kernel[d].via

InForce(spec) ==
  /\ Lookup(spec.dest).iface = spec.iface
  /\ spec.gateway = NoGateway \/ Lookup(spec.dest).gateway = spec.gateway

\* A request holds at most one route per destination: planFromRules merges
\* equal claims and excludes conflicting ones.
Requests == {D \in SUBSET Specs : \A s, t \in D : s.dest = t.dest => s = t}

\* A command of a session that has failed for a reason of its own.
CommandFails == "command" \in Faults

\* The request c is serving becomes q.
Becomes(c, q) == session' = [session EXCEPT ![c] = q]

\* reconcileDesired: payload items that do not parse or validate are reported
\* and dropped, the rest is reconciled.  The two differences are taken from the
\* inventory as it stands now.
Start(c, desired, rejected) ==
  /\ session[c].pc \in {"idle", "done"}
  /\ Becomes(c, [Idle EXCEPT
       !.pc = "work", !.desired = desired, !.current = managed,
       !.remove = managed \ desired, !.add = desired \ managed, !.check = desired,
       !.result = IF rejected THEN "errors" ELSE "ok"])
  /\ fresh' = {c}
  /\ UNCHANGED <<kernel, defaultVia, managed, store>>

\* The entry of spec's destination leads somewhere else.
Elsewhere(spec) ==
  kernel[spec.dest] # NoRoute /\ kernel[spec.dest].via # Via(spec)

\* `route delete` succeeds, or finds nothing to delete: both forget the row.  An
\* entry for the destination that leads elsewhere may go or stay.
Delete(c) ==
  /\ session[c].pc = "work"
  /\ \E spec \in session[c].remove :
       /\ \/ kernel' = [kernel EXCEPT ![spec.dest] = NoRoute]
          \/ Elsewhere(spec) /\ UNCHANGED kernel
       /\ Becomes(c, [session[c] EXCEPT !.pc = "forget", !.hand = {spec}])
  /\ UNCHANGED <<defaultVia, managed, store, fresh>>

\* The row is dropped although the route is still there.
BugDeleteFailsForgets(c) ==
  /\ CommandFails
  /\ session[c].pc = "work"
  /\ \E spec \in session[c].remove :
       /\ managed' = managed \ {spec}
       /\ Becomes(c, [session[c] EXCEPT !.remove = @ \ {spec}, !.result = "errors"])
  /\ UNCHANGED <<kernel, defaultVia, store, fresh>>

\* The failure is not reported.
BugDeleteFailsSilently(c) ==
  /\ CommandFails
  /\ session[c].pc = "work"
  /\ \E spec \in session[c].remove :
       Becomes(c, [session[c] EXCEPT !.remove = @ \ {spec}])
  /\ UNCHANGED <<kernel, defaultVia, managed, store, fresh>>

\* Any other failure keeps the row and is reported.
DeleteFails(c) ==
  /\ CommandFails
  /\ session[c].pc = "work"
  /\ \E spec \in session[c].remove :
       Becomes(c, [session[c] EXCEPT !.remove = @ \ {spec}, !.result = "errors"])
  /\ UNCHANGED <<kernel, defaultVia, managed, store, fresh>>

\* The inventory becomes rows; when another handler is changing the array too,
\* one of the two changes may be lost (the accesses are not synchronised).
SetManaged(c, rows) ==
  managed' \in {rows} \cup (IF \E b \in Sessions \ {c} : session[b].pc \in {"forget", "record"}
                          THEN {managed} ELSE {})

Forget(c) ==
  /\ session[c].pc = "forget"
  /\ SetManaged(c, managed \ session[c].hand)
  /\ Becomes(c, [session[c] EXCEPT !.pc = "work", !.hand = {},
                                   !.remove = @ \ session[c].hand])
  /\ UNCHANGED <<kernel, defaultVia, store, fresh>>

\* Wanted routes are added without waiting for the removals.
BugAddingEarly(c) == session[c].pc = "work"

Adding(c) == session[c].pc = "work" /\ session[c].remove = {}

Install(spec) ==
  kernel' = [kernel EXCEPT ![spec.dest] = [via |-> Via(spec), by |-> "helper"]]

\* `route add` succeeds only where the table has no entry for the destination.
Add(c) ==
  /\ Adding(c)
  /\ \E spec \in session[c].add :
       /\ kernel[spec.dest] = NoRoute
       /\ Install(spec)
       /\ Becomes(c, [session[c] EXCEPT !.pc = "record", !.hand = {spec}])
  /\ UNCHANGED <<defaultVia, managed, store, fresh>>

AddFails(c) ==
  /\ Adding(c)
  /\ \E spec \in session[c].add :
       /\ kernel[spec.dest] # NoRoute \/ CommandFails
       /\ Becomes(c, [session[c] EXCEPT !.add = @ \ {spec}, !.result = "errors"])
  /\ UNCHANGED <<kernel, defaultVia, managed, store, fresh>>

Record(c) ==
  /\ session[c].pc = "record"
  /\ SetManaged(c, managed \cup session[c].hand)
  /\ Becomes(c, [session[c] EXCEPT !.pc = "work", !.hand = {},
                                   !.add = @ \ session[c].hand])
  /\ UNCHANGED <<kernel, defaultVia, store, fresh>>

-----------------------------------------------------------------------------
\* The verification loop.

Checking(c) == Adding(c) /\ session[c].add = {}

\* `route get` may show that spec is not in force, or show nothing and fail.
NotSeen(spec) == ~InForce(spec) \/ CommandFails

\* The command in hand is not cleared.
BugPassKeepsHand(c, spec) ==
  Becomes(c, [session[c] EXCEPT !.pc = "work", !.check = @ \ {spec},
                                !.verified = @ \cup {spec}])

\* The check of spec is verified.
Pass(c, spec) ==
  Becomes(c, [session[c] EXCEPT !.pc = "work", !.hand = {}, !.check = @ \ {spec},
                                !.verified = @ \cup {spec}])

\* The check of spec is not verified, which is an error of the request.
Report(c, spec) ==
  Becomes(c, [session[c] EXCEPT !.pc = "work", !.hand = {}, !.check = @ \ {spec},
                                !.result = "errors"])

\* The inventory is taken as proof that the route is in force.
BugInspectTrustsInventory(c) ==
  /\ Checking(c)
  /\ \E spec \in session[c].check :
       IF InForce(spec) \/ spec \in session[c].current
       THEN Pass(c, spec) ELSE Report(c, spec)
  /\ UNCHANGED <<kernel, defaultVia, managed, store, fresh>>

\* A wanted route that is not in force is repaired when it was in the inventory
\* before this request; one this request has added, or failed to, is reported.
Inspect(c) ==
  /\ Checking(c)
  /\ \E spec \in session[c].check :
       \/ InForce(spec) /\ Pass(c, spec)
       \/ /\ NotSeen(spec)
          /\ spec \in session[c].current
          /\ Becomes(c, [session[c] EXCEPT !.pc = "repair", !.hand = {spec}])
       \/ /\ NotSeen(spec)
          /\ spec \notin session[c].current
          /\ Report(c, spec)
  /\ UNCHANGED <<kernel, defaultVia, managed, store, fresh>>

Repair(c) ==
  /\ session[c].pc = "repair"
  /\ \E spec \in session[c].hand :
       /\ kernel[spec.dest] = NoRoute
       /\ Install(spec)
  /\ Becomes(c, [session[c] EXCEPT !.pc = "recheck"])
  /\ UNCHANGED <<defaultVia, managed, store, fresh>>

\* The error is reported, but the check counts as verified.
BugRepairFailsVerified(c) ==
  /\ session[c].pc = "repair"
  /\ \E spec \in session[c].hand :
       /\ kernel[spec.dest] # NoRoute \/ CommandFails
       /\ Becomes(c, [session[c] EXCEPT !.pc = "work", !.hand = {}, !.check = @ \ {spec},
                                        !.verified = @ \cup {spec}, !.result = "errors"])
  /\ UNCHANGED <<kernel, defaultVia, managed, store, fresh>>

RepairFails(c) ==
  /\ session[c].pc = "repair"
  /\ \E spec \in session[c].hand :
       /\ kernel[spec.dest] # NoRoute \/ CommandFails
       /\ Report(c, spec)
  /\ UNCHANGED <<kernel, defaultVia, managed, store, fresh>>

Recheck(c) ==
  /\ session[c].pc = "recheck"
  /\ \E spec \in session[c].hand :
       \/ InForce(spec) /\ Pass(c, spec)
       \/ NotSeen(spec) /\ Report(c, spec)
  /\ UNCHANGED <<kernel, defaultVia, managed, store, fresh>>

\* The inventory becomes what was asked for, whatever could be removed.
BugPersistDesired(c) ==
  /\ Checking(c)
  /\ session[c].check = {}
  /\ managed' = session[c].desired
  /\ store' = managed'
  /\ Becomes(c, [session[c] EXCEPT !.pc = "done"])
  /\ UNCHANGED <<kernel, defaultVia, fresh>>

\* persist() replaces the file in one step; its failure is swallowed.
Persist(c) ==
  /\ Checking(c)
  /\ session[c].check = {}
  /\ store' \in {managed} \cup (IF "persist" \in Faults THEN {store} ELSE {})
  /\ Becomes(c, [session[c] EXCEPT !.pc = "done"])
  /\ UNCHANGED <<kernel, defaultVia, managed, fresh>>

Handler(c) ==
  \/ Delete(c) \/ DeleteFails(c) \/ Forget(c)
  \/ Add(c) \/ AddFails(c) \/ Record(c)
  \/ Inspect(c) \/ Repair(c) \/ RepairFails(c) \/ Recheck(c)
  \/ Persist(c)

-----------------------------------------------------------------------------
\* The environment.

Serving(c) == session[c].pc \notin {"idle", "done"}

\* RouteManager.init: a new helper process starts from the file.
Reload ==
  /\ managed' = store
  /\ session' = [c \in Sessions |-> Idle]
  /\ UNCHANGED store

\* The helper process ends; launchd starts another on the next connection.
Die ==
  /\ \/ "death" \in Faults
     \/ "restart" \in Faults /\ \A c \in Sessions : ~Serving(c)
  /\ Reload
  /\ UNCHANGED <<kernel, defaultVia, fresh>>

\* The kernel's table is volatile, the file is not.
Reboot ==
  /\ "reboot" \in Faults
  /\ kernel' = [d \in Dests |-> NoRoute]
  /\ fresh' = {}
  /\ Reload
  /\ UNCHANGED defaultVia

\* The system drops an entry (its interface went down, an administrator removed
\* it), or somebody else adds one.
EntryLost(d) ==
  /\ "table" \in Faults
  /\ kernel[d] # NoRoute
  /\ kernel' = [kernel EXCEPT ![d] = NoRoute]
  /\ fresh' = {}
  /\ UNCHANGED <<defaultVia, managed, store, session>>

ForeignEntry(d, via) ==
  /\ "table" \in Faults
  /\ kernel[d] = NoRoute
  /\ kernel' = [kernel EXCEPT ![d] = [via |-> via, by |-> "other"]]
  /\ fresh' = {}
  /\ UNCHANGED <<defaultVia, managed, store, session>>

DefaultChanges(via) ==
  /\ "default" \in Faults
  /\ via # defaultVia
  /\ defaultVia' = via
  /\ fresh' = {}
  /\ UNCHANGED <<kernel, managed, store, session>>

Environment ==
  \/ Die
  \/ Reboot
  \/ \E d \in Dests : EntryLost(d)
  \/ \E d \in Dests, via \in Vias : ForeignEntry(d, via)
  \/ \E via \in Vias : DefaultChanges(via)

Next ==
  \/ \E c \in Sessions, desired \in Requests, rejected \in BOOLEAN :
       Start(c, desired, rejected)
  \/ \E c \in Sessions : Handler(c)
  \/ Environment

Spec == Init /\ [][Next]_vars

-----------------------------------------------------------------------------
\* A destination whose entry the helper installed.
Owned(d) == kernel[d] # NoRoute /\ kernel[d].by = "helper"

\* spec is the route behind the entry of its destination.
Holds(spec) == kernel[spec.dest] # NoRoute /\ kernel[spec.dest].via = Via(spec)

\* Rows in the inventory, or about to be.
Rows == managed \cup UNION {session[c].hand : c \in {b \in Sessions : session[b].pc = "record"}}

\* Entries the helper installed and has no row for: no later request can remove
\* them, and every later request to add the destination fails.
Orphaned ==
  {d \in Dests : Owned(d) /\ ~\E spec \in Rows : spec.dest = d /\ Holds(spec)}

\* c asked last, was answered, and nothing has touched the table since.
Answered(c) ==
  c \in fresh /\ session[c].pc = "done" /\ \A b \in Sessions : ~Serving(b)

AnsweredOk(c) == Answered(c) /\ session[c].result = "ok"

\* The inventory never loses track of a route while the helper lives: a step can
\* orphan a kernel entry only by reloading a file that is behind the inventory
\* (RouteManager.swift:99-186 writes it once, at the end of a request).
OrphansOnlyByReload ==
  [][Orphaned' \subseteq Orphaned \/ (managed' = store /\ Rows # store)]_vars

\* No entry is ever orphaned when the helper is not killed within a request and
\* its writes succeed.
NothingOrphaned == Orphaned = {}

\* An answer without errors is true: every wanted route is in force, whatever
\* the table and the inventory held before (HelperDelegate "ok").
OkMeansInForce ==
  \A c \in Sessions : AnsweredOk(c) => \A spec \in session[c].desired : InForce(spec)

\* ... and is complete: nothing the helper installed is left but what was asked
\* for, so that a disabled or deleted rule's route is gone.
OkLeavesNothingElse ==
  \A c \in Sessions : AnsweredOk(c) =>
    \A d \in Dests : Owned(d) =>
      \E spec \in session[c].desired : spec.dest = d /\ Holds(spec)

\* A verified route check is true even when the answer as a whole has errors:
\* rules are marked Applied from the checks (RouteManager.swift:137-163).
VerifiedMeansInForce ==
  \A c \in Sessions : Answered(c) => \A spec \in session[c].verified : InForce(spec)

-----------------------------------------------------------------------------
\* The request of a connection and the inventory, when connections are served one
\* at a time.

\* The three lists of work are what the handler has still to do, in its order.
PhasesOK(q) ==
  /\ q.desired \in Requests
  /\ q.remove \cap q.desired = {}
  /\ q.add \subseteq q.desired \ q.current
  /\ q.check \subseteq q.desired
  /\ q.verified \subseteq q.desired \ q.check
  /\ q.verified # {} => q.remove = {} /\ q.add = {}

\* The command in hand is the one its phase has run, and a deleted route is gone
\* before its row is.
HandMatches(q) ==
  /\ q.pc = "forget" => /\ q.hand \subseteq q.remove
                        /\ \A spec \in q.hand : ~(Owned(spec.dest) /\ Holds(spec))
  /\ q.pc = "record" => q.remove = {} /\ q.hand \subseteq q.add
  /\ q.pc \in {"repair", "recheck"} =>
       /\ q.hand \subseteq q.check \cap q.current
       /\ q.remove = {} /\ q.add = {}

\* A wanted row is never dropped, and without errors every row is wanted or about
\* to be dropped and every wanted route is verified or about to be checked.
ProgressOK(q) ==
  q.pc # "idle" =>
    /\ q.current \cap q.desired \subseteq managed
    /\ q.result = "ok" => managed \subseteq q.desired \cup q.remove
    /\ q.result = "ok" => q.desired \subseteq q.verified \cup q.check

\* What was verified stays in force until somebody else touches the table.
VerifiedOK(c) ==
  c \in fresh => \A spec \in session[c].verified : InForce(spec)

\* The answered request has done all of its work.
DoneOK(q) == q.pc = "done" => q.remove = {} /\ q.check = {}

\* Inductive, for one connection at a time: what the three properties of the
\* answers and OrphansOnlyByReload rest on.
SerialInv ==
  \A c \in Sessions :
    /\ PhasesOK(session[c])
    /\ HandMatches(session[c])
    /\ ProgressOK(session[c])
    /\ VerifiedOK(c)
    /\ DoneOK(session[c])
=============================================================================
