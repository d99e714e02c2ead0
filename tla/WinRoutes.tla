----------------------------- MODULE WinRoutes -----------------------------
(***************************************************************************)
(* Destination routes on Windows: RouteManager of the service and the      *)
(* browser refresh that follows a request (BrowserReconnect).              *)
(*                                                                         *)
(* The service keeps an inventory of its routes (managed_), in memory and, *)
(* from the end of one request or cleanup to the end of the next, in       *)
(* managed_routes.json.  Requests are served one at a time, under the      *)
(* mutex of ServiceRuntime.  ServiceRuntime::Stop runs in another thread   *)
(* and takes no mutex: its cleanup may fall between any two steps of a     *)
(* request.  Each call into the IP helper is a step here, so that the      *)
(* table may change, or the service end, between two of them.              *)
(*                                                                         *)
(* Unlike macOS, Windows keeps several rows for a destination, told apart  *)
(* by adapter and next hop; which of them a packet takes is up to metrics  *)
(* and more specific prefixes.                                             *)
(*                                                                         *)
(* Abstractions: the inventory is a set (rows and lists are handled in any *)
(* order); a prefix is a member of a small set and no two overlap; counts  *)
(* and the wording of errors are left out.                                 *)
(***************************************************************************)
EXTENDS Naturals, FiniteSets

CONSTANTS
  Routes,     \* the RouteSpecs a client may ask for
  Invalid,    \* those IsValidRoute refuses
  Requests,   \* the sets of routes asked for
  Foreign,    \* rows other programs may have
  Flows,      \* connections of browser network services: [process, kind, dest]
  Faults      \* what the environment may do: fail calls, stop the service, ...

ASSUME InvalidAssumption == Invalid \subseteq Routes
ASSUME RequestsAssumption == Requests \subseteq SUBSET Routes
ASSUME FlowsAssumption == \A f \in Flows : f.kind \in {"tcp", "udp"}

\* The row a route stands for: its tag is only known to the inventory.
RowOf(r) == [dest |-> r.dest, adapter |-> r.adapter, gateway |-> r.gateway]
RowsOf(S) == {RowOf(r) : r \in S}
Rows == RowsOf(Routes)
Dests == {r.dest : r \in Routes}

ASSUME ForeignAssumption == Foreign \subseteq Rows

VARIABLES
  table,    \* the rows of the IPv4 forwarding table
  created,  \* history: those the service has put there
  managed,  \* RouteManager.managed_
  file,     \* managed_routes.json
  work,     \* the call that is running
  stop,     \* ServiceRuntime::Stop, as far as it cleans up the routes
  answer,   \* the answer to the last request
  stale,    \* flows opened before this request changed the routes of their destination
  overdue,  \* ... and before an earlier request did
  lossy     \* history: one of the causes of a lost row has occurred

vars == <<table, created, managed, file, work, stop, answer, stale, overdue, lossy>>

Places == {"down", "idle", "clean", "erase", "remove", "add", "inspect", "repair", "save", "refresh"}

Work ==
  [pc : Places,
   desired : SUBSET Routes,   \* the routes asked for
   todo : SUBSET Routes,      \* of the loop that is running
   next : SUBSET Routes,      \* the inventory to be
   hand : SUBSET Routes,      \* the route being inspected, if any
   recorded : BOOLEAN,        \* it was in the inventory, and has not been put back yet
   removed : SUBSET Dests,    \* removed_destinations
   added : SUBSET Dests,      \* added_destinations
   verified : SUBSET Dests,   \* destinations of route_checks that are verified
   reset : SUBSET Dests,      \* connection_reset_destinations
   result : {"ok", "errors"}] \* whether errors is empty

NoWork == [pc |-> "idle", desired |-> {}, todo |-> {}, next |-> {}, hand |-> {},
           recorded |-> FALSE, removed |-> {}, added |-> {}, verified |-> {},
           reset |-> {}, result |-> "ok"]
Down == [NoWork EXCEPT !.pc = "down"]

Stop ==
  [pc : {"off", "none", "clean", "save", "done"},  \* "off": not to be called yet
   todo : SUBSET Routes,        \* of the loop of Cleanup
   last : BOOLEAN,              \* the service thread begins no other request
   torn : SUBSET {"loop", "file"}]
     \* managed_ was replaced beneath the loop; two threads were in Save at once

NoStop == [pc |-> "off", todo |-> {}, last |-> FALSE, torn |-> {}]

Answer ==
  [result : {"none", "ok", "errors"},
   desired : SUBSET Routes,  \* what an answer without errors was asked for
   refreshed : BOOLEAN,      \* WMI answered and every process chosen has ended
   gone : SUBSET Rows]       \* history: rows others have removed since it was asked

NoAnswer == [result |-> "none", desired |-> {}, refreshed |-> FALSE, gone |-> {}]

\* The types of the variables.
TypeOK ==
  /\ table \in SUBSET Rows
  /\ created \in SUBSET table
  /\ managed \in SUBSET Routes
  /\ file \in SUBSET Routes
  /\ work \in Work
  /\ stop \in Stop
  /\ answer \in Answer
  /\ stale \in SUBSET Flows
  /\ overdue \in SUBSET Flows
  /\ lossy \in BOOLEAN

\* Before the first start nothing is installed or recorded; the table may hold
\* routes of other programs.
Init ==
  /\ table \in SUBSET Foreign
  /\ created = {}
  /\ managed = {} /\ file = {}
  /\ work = Down /\ stop = NoStop
  /\ answer = NoAnswer
  /\ stale = {} /\ overdue = {}
  /\ lossy = FALSE

-----------------------------------------------------------------------------
\* Calls into the system.

At(place) == work.pc = place

\* stopping_ is set.
Stopping == stop.pc \in {"clean", "save", "done"}

\* Run looks at stopping_ before it waits for a client: one more request may be
\* served after Stop has begun.
MayServe == At("idle") /\ (Stopping => ~stop.last)
Serve == stop' = [stop EXCEPT !.last = Stopping]

\* Flows to d leave over the route they were opened on.
Outdate(d) == stale' = stale \cup {f \in Flows : f.dest = d}

\* Add: CreateIpForwardEntry2 creates the row of r, or finds it there, whoever
\* put it there, and is content.
Adds(r) ==
  /\ table' = table \cup {RowOf(r)}
  /\ created' = IF RowOf(r) \in table THEN created ELSE created \cup {RowOf(r)}
  /\ IF RowOf(r) \in table THEN UNCHANGED stale ELSE Outdate(r.dest)

\* Any other status of a call, such as an adapter that is gone.  PopulateRow fails
\* too: a LUID of 20 digits may exceed 64 bits.
CallFails == "call" \in Faults

\* Remove: DeleteIpForwardEntry2 deletes the row of r or does not find it.
BugRemoves(r) ==
  /\ table' = table \ {RowOf(r)}
  /\ UNCHANGED created
  /\ IF RowOf(r) \in table THEN Outdate(r.dest) ELSE UNCHANGED stale

Removes(r) ==
  /\ table' = table \ {RowOf(r)}
  /\ created' = created \ {RowOf(r)}
  /\ IF RowOf(r) \in table THEN Outdate(r.dest) ELSE UNCHANGED stale

\* Save writes a copy and moves it over the file.  Nothing looks at the outcome:
\* the move may fail, and a write cut short (a full disk, another Save into the same
\* copy) is moved all the same.
Save(m) ==
  \/ file' = m /\ UNCHANGED lossy
  \/ /\ "file" \in Faults \cup stop.torn
     /\ \E cut \in (SUBSET m) \cup {file} : cut # m /\ file' = cut
     /\ lossy' = TRUE

\* managed_ is about to be changed and saved by the service thread, and Stop is in its
\* loop over managed_, or in Save.
TearStop ==
  stop' = [stop EXCEPT !.torn = @ \cup {t \in {"loop", "file"} :
                                           <<t, stop.pc>> \in {<<"loop", "clean">>, <<"file", "save">>}}]

-----------------------------------------------------------------------------
\* Start and cleanup.

\* The constructor loads the file, and Initialize cleans up.
Start ==
  /\ At("down")
  /\ managed' = file
  /\ work' = [NoWork EXCEPT !.pc = "clean", !.todo = file]
  /\ UNCHANGED <<table, created, file, stop, answer, stale, overdue, lossy>>

\* Operation cleanup.
Clean ==
  /\ MayServe /\ Serve
  /\ work' = [NoWork EXCEPT !.pc = "clean", !.todo = managed]
  /\ answer' = NoAnswer
  /\ UNCHANGED <<table, created, managed, file, stale, overdue, lossy>>

CleanRoute(r) ==
  /\ At("clean") /\ r \in work.todo
  /\ Removes(r)
  /\ work' = [work EXCEPT !.todo = @ \ {r}]
  /\ UNCHANGED <<managed, file, stop, answer, overdue, lossy>>

\* A failure is ignored.
CleanRouteFails(r) ==
  /\ At("clean") /\ r \in work.todo
  /\ CallFails
  /\ work' = [work EXCEPT !.todo = @ \ {r}]
  /\ lossy' = TRUE
  /\ UNCHANGED <<table, created, managed, file, stop, answer, stale, overdue>>

\* The loop runs on over routes that Stop has destroyed.
CleanSkips(r) ==
  /\ At("clean") /\ r \in work.todo \ managed
  /\ work' = [work EXCEPT !.todo = @ \ {r}]
  /\ UNCHANGED <<table, created, managed, file, stop, answer, stale, overdue, lossy>>

\* The inventory is emptied, whatever has become of its routes.
CleanClears ==
  /\ At("clean") /\ work.todo = {}
  /\ managed' = {}
  /\ work' = [work EXCEPT !.pc = "erase"]
  /\ TearStop
  /\ UNCHANGED <<table, created, file, answer, stale, overdue, lossy>>

\* At a start the service is now running, and may be stopped.
CleanEnds ==
  /\ At("erase")
  /\ Save(managed)
  /\ work' = NoWork
  /\ stop' = [stop EXCEPT !.pc = IF @ = "off" THEN "none" ELSE @]
  /\ UNCHANGED <<table, created, managed, answer, stale, overdue>>

-----------------------------------------------------------------------------
\* Cleanup as Stop calls it, beside whatever the service thread does.

StopBegins ==
  /\ "stop" \in Faults
  /\ stop.pc = "none"
  /\ stop' = [stop EXCEPT !.pc = "clean", !.todo = managed, !.last = ~At("idle")]
  /\ UNCHANGED <<table, created, managed, file, work, answer, stale, overdue, lossy>>

StopRoute(r) ==
  /\ stop.pc = "clean" /\ r \in stop.todo
  /\ Removes(r)
  /\ stop' = [stop EXCEPT !.todo = @ \ {r}]
  /\ UNCHANGED <<managed, file, work, answer, overdue, lossy>>

StopRouteFails(r) ==
  /\ stop.pc = "clean" /\ r \in stop.todo
  /\ CallFails
  /\ stop' = [stop EXCEPT !.todo = @ \ {r}]
  /\ lossy' = TRUE
  /\ UNCHANGED <<table, created, managed, file, work, answer, stale, overdue>>

\* The loop runs on over routes that have been freed.
StopSkips(r) ==
  /\ stop.pc = "clean" /\ r \in stop.todo
  /\ "loop" \in stop.torn
  /\ stop' = [stop EXCEPT !.todo = @ \ {r}]
  /\ UNCHANGED <<table, created, managed, file, work, answer, stale, overdue, lossy>>

StopClears ==
  /\ stop.pc = "clean" /\ stop.todo = {}
  /\ managed' = {}
  /\ stop' = [stop EXCEPT !.pc = "save",
                          !.torn = @ \cup (IF work.pc \in {"save", "erase"} THEN {"file"} ELSE {})]
  /\ UNCHANGED <<table, created, file, work, answer, stale, overdue, lossy>>

\* What is saved is the inventory as it is by then.
StopSaves ==
  /\ stop.pc = "save"
  /\ Save(managed)
  /\ stop' = [stop EXCEPT !.pc = "done"]
  /\ UNCHANGED <<table, created, managed, work, answer, stale, overdue>>

-----------------------------------------------------------------------------
\* Reconcile.

\* One invalid route and nothing is done.
RefuseRequest(desired) ==
  /\ MayServe /\ Serve
  /\ desired \cap Invalid # {}
  /\ answer' = [NoAnswer EXCEPT !.result = "errors"]
  /\ UNCHANGED <<table, created, managed, file, work, stale, overdue, lossy>>

Reconcile(desired) ==
  /\ MayServe /\ Serve
  /\ desired \cap Invalid = {}
  /\ work' = [NoWork EXCEPT !.pc = "remove", !.desired = desired, !.todo = managed \ desired]
  /\ answer' = NoAnswer
  /\ overdue' = overdue \cup stale
  /\ stale' = {}
  /\ UNCHANGED <<table, created, managed, file, lossy>>

RemoveRoute(r) ==
  /\ At("remove") /\ r \in work.todo
  /\ Removes(r)
  /\ work' = [work EXCEPT !.todo = @ \ {r}, !.removed = @ \cup {r.dest}]
  /\ UNCHANGED <<managed, file, stop, answer, overdue, lossy>>

\* The inventory takes over what is wanted and nothing else.
BugRemoveRouteFails(r) ==
  /\ At("remove") /\ r \in work.todo
  /\ CallFails
  /\ work' = [work EXCEPT !.todo = @ \ {r}, !.result = "errors"]
  /\ UNCHANGED <<table, created, managed, file, stop, answer, stale, overdue, lossy>>

\* A route that could not be removed stays in the inventory.
RemoveRouteFails(r) ==
  /\ At("remove") /\ r \in work.todo
  /\ CallFails
  /\ work' = [work EXCEPT !.todo = @ \ {r}, !.next = @ \cup {r}, !.result = "errors"]
  /\ UNCHANGED <<table, created, managed, file, stop, answer, stale, overdue, lossy>>

RemovedAll ==
  /\ At("remove") /\ work.todo = {}
  /\ work' = [work EXCEPT !.pc = "add", !.todo = work.desired]
  /\ UNCHANGED <<table, created, managed, file, stop, answer, stale, overdue, lossy>>

\* The loop runs on over routes that Stop has destroyed.
RemoveSkips(r) ==
  /\ At("remove") /\ r \in work.todo \ managed
  /\ work' = [work EXCEPT !.todo = @ \ {r}, !.result = "errors"]
  /\ UNCHANGED <<table, created, managed, file, stop, answer, stale, overdue, lossy>>

\* r is kept or added, and goes on to be inspected.
Inspecting(r) ==
  [work EXCEPT !.pc = "inspect", !.todo = @ \ {r}, !.next = @ \cup {r}, !.hand = {r},
               !.recorded = r \in managed]

\* r has been inspected, for the last time.
Inspected == [work EXCEPT !.pc = "add", !.hand = {}, !.recorded = FALSE]

KeepRoute(r) ==
  /\ At("add") /\ r \in work.todo /\ r \in managed
  /\ work' = Inspecting(r)
  /\ UNCHANGED <<table, created, managed, file, stop, answer, stale, overdue, lossy>>

AddRoute(r) ==
  /\ At("add") /\ r \in work.todo /\ r \notin managed
  /\ Adds(r)
  /\ work' = [Inspecting(r) EXCEPT !.added = @ \cup {r.dest}]
  /\ UNCHANGED <<managed, file, stop, answer, overdue, lossy>>

AddRouteFails(r) ==
  /\ At("add") /\ r \in work.todo /\ r \notin managed
  /\ CallFails
  /\ work' = [work EXCEPT !.todo = @ \ {r}, !.result = "errors"]
  /\ UNCHANGED <<table, created, managed, file, stop, answer, stale, overdue, lossy>>

\* A recorded route is taken to be there.
BugVerifies(r) == RowOf(r) \in table \/ work.recorded

\* Inspect of r: the exact row is there, and the best route leads over it.  A table
\* that cannot be read has no exact row.
Verifies(r) == RowOf(r) \in table
Misses(r) == RowOf(r) \notin table \/ CallFails

InspectVerifies(r) ==
  /\ At("inspect") /\ r \in work.hand
  /\ Verifies(r)
  /\ work' = [Inspected EXCEPT !.verified = @ \cup {r.dest}]
  /\ UNCHANGED <<table, created, managed, file, stop, answer, stale, overdue, lossy>>

\* The check is one of the errors: another route is better, or the row is missing
\* and was not in the inventory before or has been put back already.
InspectFails(r) ==
  /\ At("inspect") /\ r \in work.hand
  /\ Verifies(r) \/ ~work.recorded
  /\ work' = [Inspected EXCEPT !.result = "errors"]
  /\ UNCHANGED <<table, created, managed, file, stop, answer, stale, overdue, lossy>>

\* The row of a recorded route is missing: the machine was restarted, or somebody removed it.
InspectMisses(r) ==
  /\ At("inspect") /\ r \in work.hand
  /\ Misses(r) /\ work.recorded
  /\ work' = [work EXCEPT !.pc = "repair"]
  /\ UNCHANGED <<table, created, managed, file, stop, answer, stale, overdue, lossy>>

\* What is put back was there before.
BugRepairRoute(r) ==
  /\ At("repair") /\ r \in work.hand
  /\ Adds(r)
  /\ work' = [work EXCEPT !.pc = "inspect", !.recorded = FALSE]
  /\ UNCHANGED <<managed, file, stop, answer, overdue, lossy>>

RepairRoute(r) ==
  /\ At("repair") /\ r \in work.hand
  /\ Adds(r)
  /\ work' = [work EXCEPT !.pc = "inspect", !.recorded = FALSE, !.added = @ \cup {r.dest}]
  /\ UNCHANGED <<managed, file, stop, answer, overdue, lossy>>

RepairRouteFails(r) ==
  /\ At("repair") /\ r \in work.hand
  /\ CallFails
  /\ work' = [Inspected EXCEPT !.result = "errors"]
  /\ UNCHANGED <<table, created, managed, file, stop, answer, stale, overdue, lossy>>

\* connection_reset_destinations: what was removed, and what was added if verified.
Reset == work.removed \cup (work.added \cap work.verified)

\* The new inventory is taken over.  If Stop is in its loop it will empty it again,
\* without a look at what is new in it.
TakeOver ==
  /\ At("add") /\ work.todo = {}
  /\ managed' = work.next
  /\ work' = [work EXCEPT !.pc = "save"]
  /\ lossy' = (lossy \/ stop.pc = "clean")
  /\ TearStop
  /\ UNCHANGED <<table, created, file, answer, stale, overdue>>

\* It is saved, as it is by then, and the answer is made.
Reconciled ==
  /\ At("save")
  /\ Save(managed)
  /\ answer' = IF work.result = "ok"
                 THEN [answer EXCEPT !.result = "ok", !.desired = work.desired]
                 ELSE [NoAnswer EXCEPT !.result = "errors"]
  /\ work' = [NoWork EXCEPT !.pc = "refresh", !.reset = Reset]
  /\ UNCHANGED <<table, created, managed, stop, stale, overdue>>

\* Reconnect: the network services with a TCP connection to one of the
\* destinations and, as the remote end of UDP is not known, those with any UDP
\* socket.  Terminating one ends all of its flows.
Refreshed(dests) ==
  IF dests = {} THEN {}
  ELSE {f.process : f \in {g \in Flows : g.kind = "udp" \/ g.dest \in dests}}

Refresh ==
  /\ At("refresh")
  /\ LET gone == {f \in Flows : f.process \in Refreshed(work.reset)} IN
       /\ stale' = stale \ gone
       /\ overdue' = overdue \ gone
  /\ answer' = [answer EXCEPT !.refreshed = TRUE]
  /\ work' = NoWork
  /\ UNCHANGED <<table, created, managed, file, stop, lossy>>

\* The browser is not refreshed, or only in part: WMI does not answer, a process
\* cannot be opened or terminated.
RefreshFails ==
  /\ At("refresh") /\ CallFails
  /\ work' = NoWork
  /\ UNCHANGED <<table, created, managed, file, stop, answer, stale, overdue, lossy>>

-----------------------------------------------------------------------------
\* The environment.

\* The service ends, at any point.  What has been added since the file was last
\* written is lost to the next start.
Crash ==
  /\ "crash" \in Faults /\ ~At("down")
  /\ work' = Down /\ stop' = NoStop
  /\ managed' = {}
  /\ answer' = NoAnswer
  /\ lossy' = (lossy \/ (work.pc \in {"add", "inspect", "repair", "save"} /\ work.added # {}))
  /\ UNCHANGED <<table, created, file, stale, overdue>>

\* Run leaves, and the process ends; ServiceMain does not wait for Stop.
Ends ==
  /\ Stopping /\ At("idle")
  /\ work' = Down /\ stop' = NoStop
  /\ managed' = {}
  /\ answer' = NoAnswer
  /\ UNCHANGED <<table, created, file, stale, overdue, lossy>>

\* Rows made by the service do not survive a restart of the machine, nor does a flow.
Reboot ==
  /\ "reboot" \in Faults
  /\ table' = table \ created
  /\ created' = {}
  /\ work' = Down /\ stop' = NoStop
  /\ managed' = {}
  /\ answer' = NoAnswer
  /\ stale' = {} /\ overdue' = {}
  /\ UNCHANGED <<file, lossy>>

\* Somebody else adds a row, or removes one: an adapter that goes down takes its rows with it.
RowAppears(row) ==
  /\ "table" \in Faults /\ row \notin table
  /\ table' = table \cup {row}
  /\ UNCHANGED <<created, managed, file, work, stop, answer, stale, overdue, lossy>>

RowVanishes(row) ==
  /\ "table" \in Faults /\ row \in table
  /\ table' = table \ {row}
  /\ created' = created \ {row}
  /\ answer' = [answer EXCEPT !.gone = @ \cup ({row} \cap RowsOf(work.desired \cup answer.desired))]
  /\ UNCHANGED <<managed, file, work, stop, stale, overdue, lossy>>

Environment ==
  \/ Crash \/ Ends \/ Reboot
  \/ \E row \in Foreign : RowAppears(row)
  \/ \E row \in Rows : RowVanishes(row)

-----------------------------------------------------------------------------
Step(r) ==
  \/ CleanRoute(r) \/ CleanRouteFails(r) \/ CleanSkips(r)
  \/ RemoveRoute(r) \/ RemoveRouteFails(r) \/ RemoveSkips(r)
  \/ KeepRoute(r) \/ AddRoute(r) \/ AddRouteFails(r)
  \/ InspectVerifies(r) \/ InspectFails(r) \/ InspectMisses(r)
  \/ RepairRoute(r) \/ RepairRouteFails(r)

Serving ==
  \/ \E r \in Routes : Step(r)
  \/ CleanClears \/ CleanEnds
  \/ RemovedAll \/ TakeOver \/ Reconciled \/ Refresh \/ RefreshFails

StopCleans ==
  \/ StopBegins \/ StopClears \/ StopSaves
  \/ \E r \in Routes : StopRoute(r) \/ StopRouteFails(r) \/ StopSkips(r)

Next ==
  \/ Start \/ Clean
  \/ \E desired \in Requests : RefuseRequest(desired) \/ Reconcile(desired)
  \/ Serving
  \/ StopCleans
  \/ Environment

Spec == Init /\ [][Next]_vars

-----------------------------------------------------------------------------
\* Rows the service put into the table and knows nothing of: no later request and
\* no cleanup will remove them.
Known == RowsOf(IF At("down") THEN file ELSE managed \cup work.next)
Orphans == created \ Known

\* The service loses track of a row only in one of four ways: it ends between an
\* addition and the next Save, a Save fails or is cut short, by another Save too, a
\* cleanup cannot remove the row, or a request takes over its inventory while Stop is
\* removing routes.  While none of these has happened, what it has created it also
\* removes, however requests succeed, fail and repair, wherever Stop begins beside
\* them, and whatever others do to the table.
OrphansOnlyWhenLossy == Orphans # {} => lossy

\* An answer without errors is true until Stop begins: each route asked for is in the
\* inventory and its row in the table, unless somebody else has removed it since; also
\* when its row was removed under another tag by the same request, or was missing.
OkMeansInForce ==
  answer.result = "ok" /\ ~Stopping =>
    \A r \in answer.desired : r \in managed /\ RowOf(r) \in table \cup answer.gone

\* After an answer without errors, and a refresh that could be made, no browser
\* connection is left on a route this request has replaced, removed or put back;
\* until Stop begins, which removes routes and refreshes nothing.
ResetReachesFlows ==
  answer.result = "ok" /\ answer.refreshed /\ ~Stopping => stale = {}

\* ... nor on one an earlier request has: "Add, toggle, change interface, and delete
\* its destination rule.  Confirm the browser window remains open, the public IP
\* changes without relaunching it" (windows/IntegrationTests/WFP_GATE.md:28-29).
NoFlowLeftBehind ==
  answer.result = "ok" /\ answer.refreshed /\ ~Stopping => stale \cup overdue = {}
=============================================================================
