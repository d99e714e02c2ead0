-------------------------- MODULE WinRoutes_proofs --------------------------
(***************************************************************************)
(* Proofs about WinRoutes, for any routes, requests, flows and faults.     *)
(*                                                                         *)
(* None of the three properties is inductive.  Each is proved from what    *)
(* the request that is running has got done so far:                        *)
(*   - Accounted: which rows each loop has still to deal with, and         *)
(*     StopAccounted: which Stop has, for OrphansOnlyWhenLossy;            *)
(*   - Fulfils: what has been done for the routes already gone past, for   *)
(*     OkMeansInForce;                                                     *)
(*   - Reaches: why each outdated flow will be reset, for                  *)
(*     ResetReachesFlows.                                                  *)
(* HandOK (one route at a time) and AnswersLast (an answer belongs to a    *)
(* request that is over) hold them together.                               *)
(***************************************************************************)
EXTENDS WinRoutes, TLAPS

\* The routes handled are routes, and their rows and destinations those of the model.
LEMMA Typed ==
  ASSUME NEW S \in SUBSET Routes, NEW r \in S
  PROVE  r \in Routes /\ RowOf(r) \in Rows /\ r.dest \in Dests /\ RowOf(r) \in RowsOf(S)
  BY DEF Rows, RowsOf, Dests

\* Whatever becomes of a write, the file holds routes.
LEMMA SaveTyped ==
  ASSUME TypeOK, NEW m \in SUBSET Routes, Save(m)
  PROVE  file' \in SUBSET Routes /\ lossy' \in BOOLEAN /\ (~lossy' => file' = m /\ ~lossy)
  BY DEF Save, TypeOK

\* Tearing changes what is torn and nothing else, and that only once Stop has begun.
LEMMA Torn ==
  ASSUME stop \in Stop, TearStop
  PROVE  /\ stop' \in Stop
         /\ stop'.pc = stop.pc /\ stop'.todo = stop.todo /\ stop'.last = stop.last
         /\ ~Stopping => stop'.torn = stop.torn
         /\ stop.pc # "clean" /\ "loop" \notin stop.torn => "loop" \notin stop'.torn
<1> DEFINE more == {t \in {"loop", "file"} :
                      <<t, stop.pc>> \in {<<"loop", "clean">>, <<"file", "save">>}}
<1>1. /\ more \subseteq {"loop", "file"}
      /\ ~Stopping => more = {}
      /\ stop.pc # "clean" => "loop" \notin more
  BY DEF Stopping
<1>2. stop' = [stop EXCEPT !.torn = stop.torn \cup more]
  BY DEF TearStop
<1> HIDE DEF more
<1>3. stop.torn \cup more \subseteq {"loop", "file"}
  BY <1>1 DEF Stop
<1>. QED
  BY <1>1, <1>2, <1>3 DEF Stop

\* Every step keeps the types of the variables.
LEMMA TypeStep == TypeOK /\ [Next]_vars => TypeOK'
<1> SUFFICES ASSUME TypeOK, [Next]_vars PROVE TypeOK'
  OBVIOUS
<1>0. /\ NoWork \in Work /\ Down \in Work /\ NoAnswer \in Answer /\ NoStop \in Stop
      /\ work.desired \in SUBSET Routes /\ work.todo \in SUBSET Routes
      /\ work.next \in SUBSET Routes /\ work.hand \in SUBSET Routes
  BY DEF NoWork, Down, Work, Places, NoAnswer, Answer, NoStop, Stop, TypeOK
<1>1. CASE UNCHANGED vars
  BY <1>1 DEF vars, TypeOK
<1>10. /\ Serve => stop' \in Stop
       /\ TearStop => stop' \in Stop
  <2>1. stop \in Stop
    BY DEF TypeOK
  <2>2. ASSUME Serve PROVE stop' \in Stop
    <3>1. Stopping \in BOOLEAN
      BY DEF Stopping
    <3>. QED
      BY <2>1, <2>2, <3>1 DEF Serve, Stop
  <2>. QED
    BY <2>1, <2>2, Torn
<1>2. CASE Start \/ Clean \/ CleanClears \/ CleanEnds
  <2>1. CASE Start
    BY <2>1 DEF Start, TypeOK, NoWork, Work, Places
  <2>2. CASE Clean
    BY <1>0, <1>10, <2>2 DEF Clean, TypeOK, NoWork, Work, Places
  <2>3. CASE CleanClears
    BY <1>10, <2>3 DEF CleanClears, TypeOK, Work, Places
  <2>4. CASE CleanEnds
    <3>1. file' \in SUBSET Routes /\ lossy' \in BOOLEAN
      BY <2>4, SaveTyped DEF CleanEnds, TypeOK
    <3>2. stop' \in Stop
      BY <2>4 DEF CleanEnds, Stop, TypeOK
    <3>. QED
      BY <1>0, <2>4, <3>1, <3>2 DEF CleanEnds, TypeOK
  <2>. QED
    BY <1>2, <2>1, <2>2, <2>3, <2>4
<1>3. ASSUME NEW desired \in Requests, RefuseRequest(desired) \/ Reconcile(desired)
      PROVE  TypeOK'
  <2>1. desired \in SUBSET Routes
    BY RequestsAssumption
  <2>2. CASE RefuseRequest(desired)
    BY <1>0, <1>10, <2>2 DEF RefuseRequest, TypeOK, NoAnswer, Answer
  <2>3. CASE Reconcile(desired)
    <3>1. work' \in Work
      BY <2>1, <2>3 DEF Reconcile, TypeOK, NoWork, Work, Places
    <3>. QED
      BY <1>0, <1>10, <2>3, <3>1 DEF Reconcile, TypeOK
  <2>. QED
    BY <1>3, <2>2, <2>3
<1>4. ASSUME NEW r \in Routes, Step(r) PROVE TypeOK'
  <2>0. RowOf(r) \in Rows /\ r.dest \in Dests
    BY Typed
  <2>1. ASSUME Adds(r) PROVE /\ table' \in SUBSET Rows /\ created' \in SUBSET table'
                             /\ stale' \in SUBSET Flows
    BY <2>0, <2>1 DEF Adds, Outdate, TypeOK
  <2>2. ASSUME Removes(r) PROVE /\ table' \in SUBSET Rows /\ created' \in SUBSET table'
                                /\ stale' \in SUBSET Flows
    BY <2>0, <2>2 DEF Removes, Outdate, TypeOK
  <2>3. CASE CleanRoute(r)
    BY <2>2, <2>3 DEF CleanRoute, TypeOK, Work
  <2>4. CASE CleanRouteFails(r)
    BY <2>4 DEF CleanRouteFails, TypeOK, Work
  <2>5. CASE RemoveRoute(r)
    BY <2>0, <2>2, <2>5 DEF RemoveRoute, TypeOK, Work
  <2>6. CASE RemoveRouteFails(r)
    BY <2>6 DEF RemoveRouteFails, TypeOK, Work
  <2>7. CASE KeepRoute(r)
    BY <2>7 DEF KeepRoute, Inspecting, TypeOK, Work, Places
  <2>8. CASE AddRoute(r)
    <3>1. work' \in Work
      <4>1. Inspecting(r) \in Work
        <5>1. (r \in managed) \in BOOLEAN
          OBVIOUS
        <5>. QED
          BY <5>1 DEF Inspecting, TypeOK, Work, Places
      <4>2. work' = [Inspecting(r) EXCEPT !.added = @ \cup {r.dest}]
        BY <2>8 DEF AddRoute
      <4>. QED
        BY <2>0, <4>1, <4>2 DEF Work
    <3>. QED
      BY <2>1, <2>8, <3>1 DEF AddRoute, TypeOK
  <2>9. CASE AddRouteFails(r)
    BY <2>9 DEF AddRouteFails, TypeOK, Work
  <2>10. CASE InspectVerifies(r)
    BY <2>0, <2>10 DEF InspectVerifies, Inspected, TypeOK, Work, Places
  <2>11. CASE InspectFails(r)
    BY <2>11 DEF InspectFails, Inspected, TypeOK, Work, Places
  <2>12. CASE InspectMisses(r)
    BY <2>12 DEF InspectMisses, TypeOK, Work, Places
  <2>13. CASE RepairRoute(r)
    BY <2>0, <2>1, <2>13 DEF RepairRoute, TypeOK, Work, Places
  <2>14. CASE RepairRouteFails(r)
    BY <2>14 DEF RepairRouteFails, Inspected, TypeOK, Work, Places
  <2>15. CASE CleanSkips(r) \/ RemoveSkips(r)
    <3>1. work' \in Work
      <4>1. CASE CleanSkips(r)
        BY <4>1 DEF CleanSkips, TypeOK, Work
      <4>2. CASE RemoveSkips(r)
        BY <4>2 DEF RemoveSkips, TypeOK, Work
      <4>. QED
        BY <2>15, <4>1, <4>2
    <3>. QED
      BY <2>15, <3>1 DEF CleanSkips, RemoveSkips, TypeOK
  <2>. QED
    BY <1>4, <2>3, <2>4, <2>5, <2>6, <2>7, <2>8, <2>9, <2>10, <2>11, <2>12, <2>13, <2>14, <2>15
       DEF Step
<1>5. CASE RemovedAll
  BY <1>5 DEF RemovedAll, TypeOK, Work, Places
<1>9. CASE TakeOver
  BY <1>0, <1>9, <1>10 DEF TakeOver, TypeOK, Work, Places
<1>6. CASE Reconciled
  <2>1. work' \in Work
    BY <1>6 DEF Reconciled, Reset, TypeOK, NoWork, Work, Places
  <2>2. answer' \in Answer
    BY <1>0, <1>6 DEF Reconciled, TypeOK, NoAnswer, Answer
  <2>3. file' \in SUBSET Routes /\ lossy' \in BOOLEAN
    BY <1>6, SaveTyped DEF Reconciled, TypeOK
  <2>. QED
    BY <1>0, <1>6, <2>1, <2>2, <2>3 DEF Reconciled, TypeOK
<1>7. CASE Refresh \/ RefreshFails
  BY <1>0, <1>7 DEF Refresh, RefreshFails, TypeOK, Answer
<1>8. CASE Environment
  <2>1. CASE Crash \/ Ends \/ Reboot
    BY <1>0, <2>1 DEF Crash, Ends, Reboot, TypeOK
  <2>2. ASSUME NEW row \in Foreign, RowAppears(row) PROVE TypeOK'
    BY <2>2, ForeignAssumption DEF RowAppears, TypeOK
  <2>3. ASSUME NEW row \in Rows, RowVanishes(row) PROVE TypeOK'
    BY <2>3 DEF RowVanishes, TypeOK, Answer
  <2>. QED
    BY <1>8, <2>1, <2>2, <2>3 DEF Environment
<1>11. CASE StopCleans
  <2>1. CASE StopBegins
    BY <2>1 DEF StopBegins, At, TypeOK, Stop
  <2>2. ASSUME NEW r \in Routes, StopRoute(r) \/ StopRouteFails(r) \/ StopSkips(r)
        PROVE  TypeOK'
    <3>1. stop' \in Stop
      BY <2>2 DEF StopRoute, StopRouteFails, StopSkips, TypeOK, Stop
    <3>2. Removes(r) => /\ table' \in SUBSET Rows /\ created' \in SUBSET table'
                        /\ stale' \in SUBSET Flows
      BY DEF Removes, Outdate, TypeOK
    <3>. QED
      BY <2>2, <3>1, <3>2 DEF StopRoute, StopRouteFails, StopSkips, TypeOK
  <2>3. CASE StopClears
    BY <2>3 DEF StopClears, TypeOK, Stop
  <2>4. CASE StopSaves
    <3>1. file' \in SUBSET Routes /\ lossy' \in BOOLEAN
      BY <2>4, SaveTyped DEF StopSaves, TypeOK
    <3>. QED
      BY <2>4, <3>1 DEF StopSaves, TypeOK, Stop
  <2>. QED
    BY <1>11, <2>1, <2>2, <2>3, <2>4 DEF StopCleans
<1>. QED
  BY <1>1, <1>2, <1>3, <1>4, <1>5, <1>6, <1>7, <1>8, <1>9, <1>11 DEF Next, Serving

\* Every state of the service has the types the code gives its variables.
THEOREM TypeCorrect == Spec => []TypeOK
<1>1. Init => TypeOK
  <2>1. Down \in Work /\ NoAnswer \in Answer /\ NoStop \in Stop
    BY DEF Down, NoWork, Work, Places, NoAnswer, Answer, NoStop, Stop
  <2>. QED
    BY <2>1, ForeignAssumption DEF Init, TypeOK
<1>. QED
  BY <1>1, TypeStep, PTL DEF Spec

-----------------------------------------------------------------------------
\* At most one route is in hand, only while it is inspected or put back, and
\* then it is in the inventory to be.
HandOK ==
  /\ \A r, s \in work.hand : r = s
  /\ work.hand \subseteq work.next
  /\ work.pc \notin {"inspect", "repair"} => work.hand = {}

\* Every step keeps HandOK.
LEMMA HandStep == TypeOK /\ HandOK /\ [Next]_vars => HandOK'
<1> SUFFICES ASSUME TypeOK, HandOK, [Next]_vars PROVE HandOK'
  OBVIOUS
<1>0. work \in Work
  BY DEF TypeOK
<1>1. CASE UNCHANGED vars
  BY <1>1 DEF vars, HandOK
<1>2. CASE Start \/ Clean \/ CleanEnds \/ Reconciled \/ Refresh \/ RefreshFails
  <2>1. NoWork.hand = {}
    BY DEF NoWork
  <2>2. work'.hand = {}
    BY <1>2, <2>1 DEF Start, Clean, CleanEnds, Reconciled, Refresh, RefreshFails, NoWork
  <2>. QED
    BY <2>2 DEF HandOK
<1>7. CASE CleanClears \/ TakeOver
  BY <1>0, <1>7 DEF CleanClears, TakeOver, At, Work, HandOK
<1>8. CASE StopCleans
  BY <1>8 DEF StopCleans, StopBegins, StopRoute, StopRouteFails, StopSkips, StopClears, StopSaves,
       HandOK
<1>3. ASSUME NEW desired \in Requests, RefuseRequest(desired) \/ Reconcile(desired)
      PROVE  HandOK'
  BY <1>3 DEF RefuseRequest, Reconcile, NoWork, HandOK
<1>4. ASSUME NEW r \in Routes, Step(r) PROVE HandOK'
  <2>1. CASE CleanRoute(r) \/ CleanRouteFails(r) \/ RemoveRoute(r) \/ AddRouteFails(r)
    BY <1>0, <2>1 DEF CleanRoute, CleanRouteFails, RemoveRoute, AddRouteFails, At, Work, HandOK
  <2>7. CASE CleanSkips(r) \/ RemoveSkips(r)
    BY <1>0, <2>7 DEF CleanSkips, RemoveSkips, At, Work, HandOK
  <2>2. CASE RemoveRouteFails(r)
    BY <1>0, <2>2 DEF RemoveRouteFails, At, Work, HandOK
  <2>3. CASE KeepRoute(r)
    BY <1>0, <2>3 DEF KeepRoute, Inspecting, At, Work, HandOK
  <2>4. CASE AddRoute(r)
    BY <1>0, <2>4 DEF AddRoute, Inspecting, At, Work, HandOK
  <2>5. CASE InspectVerifies(r) \/ InspectFails(r) \/ RepairRouteFails(r)
    BY <1>0, <2>5 DEF InspectVerifies, InspectFails, RepairRouteFails, Inspected, At, Work,
         HandOK
  <2>6. CASE InspectMisses(r) \/ RepairRoute(r)
    BY <1>0, <2>6 DEF InspectMisses, RepairRoute, At, Work, HandOK
  <2>. QED
    BY <1>4, <2>1, <2>2, <2>3, <2>4, <2>5, <2>6, <2>7 DEF Step
<1>5. CASE RemovedAll
  BY <1>0, <1>5 DEF RemovedAll, At, Work, HandOK
<1>6. CASE Environment
  <2>1. CASE Crash \/ Ends \/ Reboot
    BY <2>1 DEF Crash, Ends, Reboot, Down, NoWork, HandOK
  <2>2. CASE work' = work
    BY <2>2 DEF HandOK
  <2>3. Environment => Crash \/ Ends \/ Reboot \/ work' = work
    BY DEF Environment, RowAppears, RowVanishes
  <2>. QED
    BY <1>6, <2>1, <2>2, <2>3
<1>. QED
  BY <1>1, <1>2, <1>3, <1>4, <1>5, <1>6, <1>7, <1>8 DEF Next, Serving

-----------------------------------------------------------------------------
\* Before Stop begins nothing is torn; once it has begun, the service thread begins one
\* request more at most; a service that has ended is not being stopped.
StopOK ==
  /\ ~Stopping => stop.torn = {}
  /\ Stopping /\ work.pc \notin {"down", "idle"} => stop.last
  /\ At("down") => stop = NoStop

\* Every step keeps StopOK.
LEMMA StopOKStep == TypeOK /\ StopOK /\ [Next]_vars => StopOK'
<1> SUFFICES ASSUME TypeOK, StopOK, [Next]_vars PROVE StopOK'
  OBVIOUS
<1>0. work \in Work /\ stop \in Stop
  BY DEF TypeOK
<1>1. CASE UNCHANGED vars
  BY <1>1 DEF vars, Stopping, At, StopOK
<1>2. CASE Start
  BY <1>2 DEF Start, Stopping, At, NoWork, NoStop, StopOK
<1>3. ASSUME MayServe, Serve, work'.pc # "down" PROVE StopOK'
  BY <1>0, <1>3 DEF MayServe, Serve, Stopping, At, Stop, StopOK
<1>4. CASE Clean
  BY <1>3, <1>4 DEF Clean, NoWork
<1>5. ASSUME NEW desired \in Requests, RefuseRequest(desired) \/ Reconcile(desired)
      PROVE  StopOK'
  BY <1>3, <1>5 DEF RefuseRequest, Reconcile, MayServe, At, NoWork
<1>6. ASSUME stop' = stop, work.pc \notin {"down", "idle"}, work'.pc # "down" PROVE StopOK'
  BY <1>6 DEF Stopping, At, StopOK
<1>7. ASSUME NEW r \in Routes, Step(r) PROVE StopOK'
  <2>1. stop' = stop /\ work.pc \notin {"down", "idle"} /\ work'.pc # "down"
    BY <1>0, <1>7 DEF Step, CleanRoute, CleanRouteFails, CleanSkips, RemoveRoute, RemoveRouteFails,
         RemoveSkips, KeepRoute, AddRoute, AddRouteFails, InspectVerifies, InspectFails,
         InspectMisses, RepairRoute, RepairRouteFails, Inspecting, Inspected, At, Work
  <2>. QED
    BY <1>6, <2>1
<1>8. CASE RemovedAll \/ Reconciled \/ Refresh \/ RefreshFails
  <2>1. stop' = stop /\ work.pc \notin {"down", "idle"}
    BY <1>8 DEF RemovedAll, Reconciled, Refresh, RefreshFails, At
  <2>2. work'.pc # "down"
    <3>1. CASE RemovedAll
      BY <1>0, <3>1 DEF RemovedAll, Work
    <3>2. CASE Reconciled
      BY <3>2 DEF Reconciled, NoWork
    <3>3. CASE Refresh \/ RefreshFails
      BY <3>3 DEF Refresh, RefreshFails, NoWork
    <3>. QED
      BY <1>8, <3>1, <3>2, <3>3
  <2>. QED
    BY <1>6, <2>1, <2>2
<1>9. CASE CleanClears \/ TakeOver
  <2>1. work.pc \notin {"down", "idle"} /\ work'.pc # "down" /\ TearStop
    BY <1>0, <1>9 DEF CleanClears, TakeOver, At, Work
  <2>. QED
    <3>1. /\ stop'.pc = stop.pc /\ stop'.last = stop.last
          /\ ~Stopping => stop'.torn = stop.torn
      BY <1>0, <2>1, Torn
    <3>. QED
      BY <2>1, <3>1 DEF Stopping, At, StopOK
<1>10. CASE CleanEnds
  BY <1>0, <1>10 DEF CleanEnds, Stopping, At, NoWork, Stop, StopOK
<1>11. CASE StopCleans
  <2>1. CASE StopBegins
    <3>1. /\ work' = work /\ stop.pc = "none" /\ stop'.pc = "clean"
          /\ stop'.last = (work.pc # "idle")
      BY <1>0, <2>1 DEF StopBegins, At, Stop
    <3>2. work.pc # "down"
      BY <3>1 DEF At, NoStop, StopOK
    <3>. QED
      BY <3>1, <3>2 DEF Stopping, At, StopOK
  <2>2. CASE ~StopBegins
    <3>1. /\ work' = work /\ stop'.last = stop.last /\ Stopping /\ Stopping'
      BY <1>0, <1>11, <2>2 DEF StopCleans, StopRoute, StopRouteFails, StopSkips, StopClears,
           StopSaves, Stopping, Stop
    <3>. QED
      BY <3>1 DEF At, NoStop, Stopping, StopOK
  <2>. QED
    BY <2>1, <2>2
<1>12. CASE Environment
  <2>1. CASE Crash \/ Ends \/ Reboot
    BY <2>1 DEF Crash, Ends, Reboot, Stopping, NoStop, Down, NoWork, At, StopOK
  <2>2. ASSUME (\E row \in Foreign : RowAppears(row)) \/ (\E row \in Rows : RowVanishes(row))
        PROVE  StopOK'
    BY <2>2 DEF RowAppears, RowVanishes, Stopping, At, StopOK
  <2>. QED
    BY <1>12, <2>1, <2>2 DEF Environment
<1>. QED
  BY <1>1, <1>2, <1>4, <1>5, <1>7, <1>8, <1>9, <1>10, <1>11, <1>12 DEF Next, Serving

-----------------------------------------------------------------------------
\* A request is past its removals, and may have added rows.
Adding == work.pc \in {"add", "inspect", "repair"}

\* While nothing has been lost: the rows created are those of the file, except that
\* between an addition and the next Save some are only in the inventory to be.  A loop
\* has gone past a route only when its row is gone or it has been taken into the
\* inventory to be.
Accounted ==
  ~lossy =>
    /\ created \subseteq RowsOf(file) \/ (work.added # {} /\ (Adding \/ At("save")))
    /\ work.pc \in {"idle", "refresh", "save", "erase"} => created \subseteq RowsOf(managed)
    /\ At("clean") => created \subseteq RowsOf(work.todo \cap managed)
    /\ At("remove") => created \subseteq RowsOf(((work.todo \cup work.desired) \cap managed) \cup work.next)
    /\ Adding => created \subseteq RowsOf((work.todo \cap managed) \cup work.next)

\* The same of Stop: its loop has gone past a route only when its row is gone or has been
\* added again by the request beside it, which has it in its inventory to be.  Once the
\* inventory has been emptied no other rows are left.
StopAccounted ==
  ~lossy =>
    /\ ~Stopping /\ work.pc \notin {"down", "save", "erase"} => managed = file
    /\ stop.pc = "clean" =>
         \/ created \subseteq RowsOf(stop.todo)
         \/ Adding /\ work.added # {} /\ created \subseteq RowsOf(stop.todo \cup work.next)
    /\ stop.pc = "clean" /\ "loop" \in stop.torn =>
         created = {} /\ work.pc \in {"erase", "idle"} /\ stop.last
    /\ stop.pc \in {"save", "done"} /\ (~stop.last \/ work.pc \in {"clean", "remove"} \/ Adding) =>
         created = {} \/ (Adding /\ work.added # {})

\* What is left when the row of one route is taken away.
LEMMA WithoutRow ==
  ASSUME NEW S, NEW T, NEW r, S \subseteq RowsOf(T)
  PROVE  S \ {RowOf(r)} \subseteq RowsOf(T \ {r})
  BY DEF RowsOf

\* More routes have more rows.
LEMMA RowsMonotone ==
  ASSUME NEW S, NEW T, S \subseteq T
  PROVE  RowsOf(S) \subseteq RowsOf(T)
  BY DEF RowsOf

\* No routes have no rows.
LEMMA NoRows == RowsOf({}) = {}
  BY DEF RowsOf

\* Every step of the service thread keeps Accounted.
LEMMA AccountedByService ==
  TypeOK /\ HandOK /\ Accounted /\ StopAccounted /\ Serving => Accounted'
<1> SUFFICES ASSUME TypeOK, HandOK, Accounted, StopAccounted, Serving, ~lossy' PROVE Accounted'
  BY DEF Accounted
<1>0. work \in Work /\ created \subseteq table /\ lossy \in BOOLEAN
  BY DEF TypeOK
<1>1. ASSUME NEW r \in Routes, Step(r) PROVE Accounted'
  <2>1. CASE CleanRoute(r)
    <3>1. /\ ~lossy /\ managed' = managed /\ file' = file /\ created' = created \ {RowOf(r)}
          /\ work'.pc = "clean" /\ work'.todo = work.todo \ {r}
          /\ work.pc = "clean"
      BY <1>0, <2>1 DEF CleanRoute, Removes, At, Work
    <3>2. created' \subseteq RowsOf((work.todo \cap managed) \ {r})
      BY <3>1, WithoutRow DEF At, Accounted
    <3>3. created' \subseteq RowsOf(work'.todo \cap managed')
      BY <3>1, <3>2, RowsMonotone
    <3>. QED
      BY <3>1, <3>3 DEF At, Adding, Accounted
  <2>2. CASE CleanRouteFails(r)
    BY <2>2 DEF CleanRouteFails
  <2>3. CASE CleanSkips(r)
    <3>1. /\ ~lossy /\ managed' = managed /\ file' = file /\ created' = created
          /\ work'.pc = "clean" /\ work.pc = "clean"
          /\ work'.todo \cap managed' = work.todo \cap managed
      BY <1>0, <2>3 DEF CleanSkips, At, Work
    <3>. QED
      BY <3>1 DEF At, Adding, Accounted
  <2>4. CASE RemoveRoute(r)
    <3>1. /\ ~lossy /\ managed' = managed /\ file' = file /\ created' = created \ {RowOf(r)}
          /\ work'.pc = "remove" /\ work'.todo = work.todo \ {r} /\ work'.next = work.next
          /\ work'.desired = work.desired /\ work.pc = "remove"
      BY <1>0, <2>4 DEF RemoveRoute, Removes, At, Work
    <3>2. created' \subseteq RowsOf((((work.todo \cup work.desired) \cap managed) \cup work.next) \ {r})
      BY <3>1, WithoutRow DEF At, Accounted
    <3>3. created' \subseteq RowsOf(((work'.todo \cup work'.desired) \cap managed') \cup work'.next)
      BY <3>1, <3>2, RowsMonotone
    <3>. QED
      BY <3>1, <3>3 DEF At, Adding, Accounted
  <2>5. CASE RemoveRouteFails(r)
    <3>1. /\ ~lossy /\ managed' = managed /\ file' = file /\ created' = created
          /\ work'.pc = "remove" /\ work'.todo = work.todo \ {r} /\ work'.next = work.next \cup {r}
          /\ work'.desired = work.desired /\ work.pc = "remove"
      BY <1>0, <2>5 DEF RemoveRouteFails, At, Work
    <3>2. ((work.todo \cup work.desired) \cap managed) \cup work.next
            \subseteq ((work'.todo \cup work'.desired) \cap managed') \cup work'.next
      BY <3>1
    <3>3. created' \subseteq RowsOf(((work'.todo \cup work'.desired) \cap managed') \cup work'.next)
      BY <3>1, <3>2, RowsMonotone DEF At, Accounted
    <3>. QED
      BY <3>1, <3>3 DEF At, Adding, Accounted
  <2>6. CASE RemoveSkips(r)
    <3>1. /\ ~lossy /\ managed' = managed /\ file' = file /\ created' = created
          /\ work'.pc = "remove" /\ work'.next = work.next
          /\ (work'.todo \cup work'.desired) \cap managed' = (work.todo \cup work.desired) \cap managed
          /\ work.pc = "remove"
      BY <1>0, <2>6 DEF RemoveSkips, At, Work
    <3>. QED
      BY <3>1 DEF At, Adding, Accounted
  <2>7. CASE KeepRoute(r)
    <3>1. /\ ~lossy /\ managed' = managed /\ file' = file /\ created' = created
          /\ work'.pc = "inspect" /\ work'.todo = work.todo \ {r} /\ work'.next = work.next \cup {r}
          /\ work'.added = work.added /\ work.pc = "add"
      BY <1>0, <2>7 DEF KeepRoute, Inspecting, At, Work
    <3>2. (work.todo \cap managed) \cup work.next \subseteq (work'.todo \cap managed') \cup work'.next
      BY <3>1
    <3>3. created' \subseteq RowsOf((work'.todo \cap managed') \cup work'.next)
      BY <3>1, <3>2, RowsMonotone DEF At, Adding, Accounted
    <3>. QED
      BY <3>1, <3>3 DEF At, Adding, Accounted
  <2>8. CASE AddRoute(r)
    <3>1. /\ ~lossy /\ managed' = managed /\ file' = file /\ created' \subseteq created \cup {RowOf(r)}
          /\ work'.pc = "inspect" /\ work'.todo = work.todo \ {r} /\ work'.next = work.next \cup {r}
          /\ work'.added # {} /\ work.pc = "add" /\ r \notin managed
      BY <1>0, <2>8 DEF AddRoute, Adds, Inspecting, At, Work
    <3>2. (work.todo \cap managed) \cup work.next \subseteq (work'.todo \cap managed') \cup work'.next
      BY <3>1
    <3>3. created \subseteq RowsOf((work'.todo \cap managed') \cup work'.next)
      BY <3>1, <3>2, RowsMonotone DEF At, Adding, Accounted
    <3>4. RowOf(r) \in RowsOf((work'.todo \cap managed') \cup work'.next)
      BY <3>1 DEF RowsOf
    <3>. QED
      BY <3>1, <3>3, <3>4 DEF At, Adding, Accounted
  <2>9. CASE AddRouteFails(r)
    <3>1. /\ ~lossy /\ managed' = managed /\ file' = file /\ created' = created
          /\ work'.pc = "add" /\ work'.todo = work.todo \ {r} /\ work'.next = work.next
          /\ work'.added = work.added /\ work.pc = "add" /\ r \notin managed
      BY <1>0, <2>9 DEF AddRouteFails, At, Work
    <3>2. (work.todo \cap managed) \cup work.next = (work'.todo \cap managed') \cup work'.next
      BY <3>1
    <3>. QED
      BY <3>1, <3>2 DEF At, Adding, Accounted
  <2>10. CASE InspectVerifies(r) \/ InspectFails(r) \/ InspectMisses(r) \/ RepairRouteFails(r)
    <3>1. /\ ~lossy /\ managed' = managed /\ file' = file /\ created' = created
          /\ work'.pc \in {"add", "repair"} /\ work'.todo = work.todo /\ work'.next = work.next
          /\ work'.added = work.added /\ work.pc \in {"inspect", "repair"}
      BY <1>0, <2>10 DEF InspectVerifies, InspectFails, InspectMisses, RepairRouteFails, Inspected,
           At, Work
    <3>. QED
      BY <3>1 DEF At, Adding, Accounted
  <2>11. CASE RepairRoute(r)
    <3>1. /\ ~lossy /\ managed' = managed /\ file' = file /\ created' \subseteq created \cup {RowOf(r)}
          /\ work'.pc = "inspect" /\ work'.todo = work.todo /\ work'.next = work.next
          /\ work'.added # {} /\ work.pc = "repair" /\ r \in work.hand
      BY <1>0, <2>11 DEF RepairRoute, Adds, At, Work
    <3>2. RowOf(r) \in RowsOf((work.todo \cap managed) \cup work.next)
      BY <3>1 DEF RowsOf, HandOK
    <3>. QED
      BY <3>1, <3>2 DEF At, Adding, Accounted
  <2>. QED
    BY <1>1, <2>1, <2>2, <2>3, <2>4, <2>5, <2>6, <2>7, <2>8, <2>9, <2>10, <2>11 DEF Step
<1>2. CASE CleanClears
  <2>1. /\ ~lossy /\ managed' = {} /\ file' = file /\ created' = created
        /\ work'.pc = "erase" /\ work.pc = "clean" /\ work.todo \cap managed = {}
    BY <1>0, <1>2 DEF CleanClears, At, Work
  <2>. QED
    BY <2>1 DEF At, Adding, Accounted
<1>3. CASE CleanEnds
  <2>1. /\ ~lossy /\ file' = managed /\ managed' = managed /\ created' = created
        /\ work'.pc = "idle" /\ work.pc = "erase"
    BY <1>0, <1>3 DEF CleanEnds, Save, NoWork, At
  <2>. QED
    BY <2>1 DEF At, Adding, Accounted
<1>4. CASE RemovedAll
  <2>1. /\ ~lossy /\ managed' = managed /\ file' = file /\ created' = created
        /\ work'.pc = "add" /\ work'.todo = work.desired /\ work'.next = work.next
        /\ work.pc = "remove" /\ work.todo = {}
    BY <1>0, <1>4 DEF RemovedAll, At, Work
  <2>2. ((work.todo \cup work.desired) \cap managed) \cup work.next
          = (work'.todo \cap managed') \cup work'.next
    BY <2>1
  <2>. QED
    BY <2>1, <2>2 DEF At, Adding, Accounted
<1>5. CASE TakeOver
  <2>1. /\ ~lossy /\ managed' = work.next /\ file' = file /\ created' = created
        /\ work'.pc = "save" /\ work'.added = work.added /\ work.pc = "add"
        /\ (work.todo \cap managed) \cup work.next = work.next
    BY <1>0, <1>5 DEF TakeOver, At, Work
  <2>. QED
    BY <2>1 DEF At, Adding, Accounted
<1>6. CASE Reconciled
  <2>1. /\ ~lossy /\ file' = managed /\ managed' = managed /\ created' = created
        /\ work'.pc = "refresh" /\ work.pc = "save"
    BY <1>0, <1>6 DEF Reconciled, Save, NoWork, At
  <2>. QED
    BY <2>1 DEF At, Adding, Accounted
<1>7. CASE Refresh \/ RefreshFails
  <2>1. /\ ~lossy /\ file' = file /\ managed' = managed /\ created' = created
        /\ work'.pc = "idle" /\ work.pc = "refresh"
    BY <1>7 DEF Refresh, RefreshFails, NoWork, At
  <2>. QED
    BY <2>1 DEF At, Adding, Accounted
<1>. QED
  BY <1>1, <1>2, <1>3, <1>4, <1>5, <1>6, <1>7 DEF Serving

\* Every step keeps Accounted.
LEMMA AccountedStep ==
  TypeOK /\ HandOK /\ StopOK /\ Accounted /\ StopAccounted /\ [Next]_vars => Accounted'
<1> SUFFICES ASSUME TypeOK, HandOK, StopOK, Accounted, StopAccounted, [Next]_vars, ~lossy'
             PROVE  Accounted'
  BY DEF Accounted
<1>0. work \in Work /\ stop \in Stop /\ lossy \in BOOLEAN
  BY DEF TypeOK
<1>1. CASE UNCHANGED vars
  BY <1>1 DEF vars, At, Adding, Accounted
<1>2. CASE Start
  <2>1. /\ ~lossy /\ managed' = file /\ file' = file /\ created' = created
        /\ work'.pc = "clean" /\ work'.todo = file /\ work.pc = "down"
    BY <1>2 DEF Start, At, NoWork
  <2>. QED
    BY <2>1 DEF At, Adding, Accounted
<1>3. CASE Clean
  <2>1. /\ ~lossy /\ managed' = managed /\ file' = file /\ created' = created
        /\ work'.pc = "clean" /\ work'.todo = managed /\ work.pc = "idle"
    BY <1>3 DEF Clean, MayServe, At, NoWork
  <2>. QED
    BY <2>1 DEF At, Adding, Accounted
<1>4. ASSUME NEW desired \in Requests, RefuseRequest(desired) \/ Reconcile(desired)
      PROVE  Accounted'
  <2>1. CASE RefuseRequest(desired)
    BY <2>1 DEF RefuseRequest, At, Adding, Accounted
  <2>2. CASE Reconcile(desired)
    <3>1. /\ ~lossy /\ managed' = managed /\ file' = file /\ created' = created
          /\ work'.pc = "remove" /\ work'.todo = managed \ desired /\ work'.desired = desired
          /\ work'.next = {} /\ work.pc = "idle"
      BY <2>2 DEF Reconcile, MayServe, At, NoWork
    <3>2. managed = ((work'.todo \cup work'.desired) \cap managed') \cup work'.next
      BY <3>1
    <3>. QED
      BY <3>1, <3>2 DEF At, Adding, Accounted
  <2>. QED
    BY <1>4, <2>1, <2>2
<1>5. CASE Serving
  BY <1>5, AccountedByService
<1>6. CASE StopCleans
  <2>1. CASE StopBegins \/ (\E r \in Routes : StopSkips(r))
    BY <2>1 DEF StopBegins, StopSkips, At, Adding, Accounted
  <2>2. ASSUME NEW r \in Routes, StopRoute(r) PROVE Accounted'
    <3>1. /\ ~lossy /\ managed' = managed /\ file' = file /\ created' \subseteq created
          /\ work' = work
      BY <2>2 DEF StopRoute, Removes
    <3>. QED
      BY <3>1 DEF At, Adding, Accounted
  <2>3. ASSUME NEW r \in Routes, StopRouteFails(r) PROVE Accounted'
    BY <2>3 DEF StopRouteFails
  <2>4. CASE StopClears
    <3>1. /\ ~lossy /\ managed' = {} /\ file' = file /\ created' = created /\ work' = work
          /\ stop.pc = "clean" /\ stop.todo = {}
      BY <2>4 DEF StopClears
    <3>2. created = {} \/ (Adding /\ created \subseteq RowsOf(work.next))
      <4>1. RowsOf({} \cup work.next) = RowsOf(work.next)
        OBVIOUS
      <4>. QED
        BY <3>1, <4>1, NoRows DEF StopAccounted
    <3>3. Adding => work.pc \in {"add", "inspect", "repair"}
      BY DEF Adding
    <3>4. (work'.todo \cap managed') \cup work'.next = work.next
      BY <3>1
    <3>5. CASE created = {}
      BY <3>1, <3>5 DEF At, Adding, Accounted
    <3>6. CASE Adding /\ created \subseteq RowsOf(work.next)
      BY <3>1, <3>4, <3>6 DEF At, Adding, Accounted
    <3>. QED
      BY <3>2, <3>5, <3>6
  <2>5. CASE StopSaves
    <3>1. /\ ~lossy /\ managed' = managed /\ file' = managed /\ created' = created /\ work' = work
          /\ stop.pc = "save"
      BY <1>0, <2>5 DEF StopSaves, Save
    <3>2. work.pc # "down"
      BY <3>1 DEF StopOK, At, NoStop
    <3>3. CASE work.pc \in {"idle", "refresh", "save", "erase"}
      BY <3>1, <3>3 DEF At, Adding, Accounted
    <3>4. CASE work.pc \in {"clean", "remove"} \/ Adding
      <4>1. created = {} \/ (Adding /\ work.added # {})
        BY <3>1, <3>4 DEF StopAccounted
      <4>2. created \subseteq RowsOf(managed) \/ (Adding /\ work.added # {})
        BY <4>1
      <4>. QED
        BY <3>1, <4>2 DEF At, Adding, Accounted
    <3>. QED
      BY <1>0, <3>2, <3>3, <3>4 DEF Work, Places, Adding
  <2>. QED
    BY <1>6, <2>1, <2>2, <2>3, <2>4, <2>5 DEF StopCleans
<1>7. CASE Environment
  <2>1. CASE Crash \/ Ends
    <3>1. /\ ~lossy /\ file' = file /\ created' = created /\ work'.pc = "down"
          /\ ~ (work.added # {} /\ (Adding \/ At("save")))
      BY <1>0, <2>1 DEF Crash, Ends, At, Adding, Down, NoWork
    <3>. QED
      BY <3>1 DEF At, Adding, Accounted
  <2>2. CASE Reboot
    BY <2>2 DEF Reboot, At, Adding, Down, NoWork, Accounted
  <2>3. ASSUME NEW row \in Foreign, RowAppears(row) PROVE Accounted'
    BY <2>3 DEF RowAppears, At, Adding, Accounted
  <2>4. ASSUME NEW row \in Rows, RowVanishes(row) PROVE Accounted'
    BY <2>4 DEF RowVanishes, At, Adding, Accounted
  <2>. QED
    BY <1>7, <2>1, <2>2, <2>3, <2>4 DEF Environment
<1>. QED
  BY <1>1, <1>2, <1>3, <1>4, <1>5, <1>6, <1>7 DEF Next

\* Every step keeps StopAccounted.
LEMMA StopAccountedStep ==
  TypeOK /\ HandOK /\ StopOK /\ Accounted /\ StopAccounted /\ [Next]_vars => StopAccounted'
<1> SUFFICES ASSUME TypeOK, HandOK, StopOK, Accounted, StopAccounted, [Next]_vars, ~lossy'
             PROVE  StopAccounted'
  BY DEF StopAccounted
<1>0. work \in Work /\ stop \in Stop /\ lossy \in BOOLEAN
  BY DEF TypeOK
<1>1. CASE UNCHANGED vars
  BY <1>1 DEF vars, Stopping, Adding, StopAccounted
<1>2. CASE Start
  <2>1. stop'.pc = "off" /\ managed' = file'
    BY <1>2 DEF Start, StopOK, NoStop
  <2>. QED
    BY <2>1 DEF StopAccounted
<1>3. ASSUME ~lossy, MayServe, Serve, created' = created, managed' = managed, file' = file,
             work' = work \/ (work'.pc \in {"clean", "remove"})
      PROVE  StopAccounted'
  <2>1. /\ work.pc = "idle" /\ work'.pc \in {"idle", "clean", "remove"} /\ ~Adding /\ ~Adding'
        /\ Stopping => ~stop.last /\ stop'.last
        /\ stop'.pc = stop.pc /\ stop'.todo = stop.todo /\ stop'.torn = stop.torn
    BY <1>0, <1>3 DEF MayServe, Serve, At, Adding, Stop
  <2>2. Stopping' <=> Stopping
    BY <2>1 DEF Stopping
  <2>. QED
    BY <1>3, <2>1, <2>2 DEF Stopping, StopAccounted
<1>4. CASE Clean
  BY <1>3, <1>4 DEF Clean, NoWork
<1>5. ASSUME NEW desired \in Requests, RefuseRequest(desired) \/ Reconcile(desired)
      PROVE  StopAccounted'
  BY <1>3, <1>5 DEF RefuseRequest, Reconcile, NoWork
<1>6. ASSUME ~lossy, stop' = stop, managed' = managed, file' = file, created' \subseteq created,
             \/ work.pc \in {"clean", "remove"} /\ work'.pc = work.pc
             \/ work.pc = "refresh" /\ work'.pc = "idle"
      PROVE  StopAccounted'
  <2>1. /\ Stopping' <=> Stopping
        /\ Stopping => stop.last
        /\ ~Adding /\ ~Adding'
    BY <1>6 DEF Stopping, StopOK, Adding
  <2>. QED
    BY <1>6, <2>1 DEF Stopping, StopAccounted
<1>7. ASSUME ~lossy, stop' = stop, managed' = managed, file' = file,
             Adding, Adding', work.next \subseteq work'.next,
             work.added # {} => work'.added # {},
             \/ created' \subseteq created
             \/ work'.added # {} /\ created' \subseteq created \cup RowsOf(work'.next)
      PROVE  StopAccounted'
  <2>1. /\ Stopping' <=> Stopping
        /\ Stopping => stop.last
    BY <1>7 DEF Stopping, StopOK, Adding
  <2>2. /\ RowsOf(stop.todo) \subseteq RowsOf(stop.todo \cup work'.next)
        /\ RowsOf(work'.next) \subseteq RowsOf(stop.todo \cup work'.next)
        /\ RowsOf(stop.todo \cup work.next) \subseteq RowsOf(stop.todo \cup work'.next)
    BY <1>7, RowsMonotone
  <2>3. ASSUME stop.pc = "clean"
        PROVE  \/ created' \subseteq RowsOf(stop.todo)
               \/ work'.added # {} /\ created' \subseteq RowsOf(stop.todo \cup work'.next)
    <3>1. \/ created \subseteq RowsOf(stop.todo)
          \/ work.added # {} /\ created \subseteq RowsOf(stop.todo \cup work.next)
      BY <1>7, <2>3 DEF StopAccounted
    <3>. QED
      BY <1>7, <2>2, <3>1
  <2>4. ~ (stop.pc = "clean" /\ "loop" \in stop.torn)
    BY <1>7 DEF StopAccounted, Adding
  <2>5. ASSUME stop.pc \in {"save", "done"} PROVE created' = {} \/ work'.added # {}
    <3>1. created = {} \/ work.added # {}
      BY <1>7, <2>5 DEF StopAccounted
    <3>. QED
      BY <1>7, <3>1
  <2>6. /\ work.pc \notin {"down", "save", "erase"}
        /\ ~Stopping => managed = file
    BY <1>7 DEF Adding, StopAccounted
  <2>. QED
    BY <1>7, <2>1, <2>3, <2>4, <2>5, <2>6 DEF Stopping, StopAccounted
<1>8. ASSUME NEW r \in Routes, Step(r) PROVE StopAccounted'
  <2>1. CASE CleanRoute(r)
    <3>1. /\ ~lossy /\ stop' = stop /\ managed' = managed /\ file' = file /\ created' \subseteq created
          /\ work.pc = "clean" /\ work'.pc = "clean"
      BY <1>0, <2>1 DEF CleanRoute, Removes, At, Work
    <3>. QED
      BY <1>6, <3>1
  <2>2. CASE CleanSkips(r) \/ RemoveRouteFails(r) \/ RemoveSkips(r)
    <3>1. /\ ~lossy /\ stop' = stop /\ managed' = managed /\ file' = file /\ created' \subseteq created
          /\ work.pc \in {"clean", "remove"} /\ work'.pc = work.pc
      BY <1>0, <2>2 DEF CleanSkips, RemoveRouteFails, RemoveSkips, At, Work
    <3>. QED
      BY <1>6, <3>1
  <2>3. CASE RemoveRoute(r)
    <3>1. /\ ~lossy /\ stop' = stop /\ managed' = managed /\ file' = file /\ created' \subseteq created
          /\ work.pc = "remove" /\ work'.pc = "remove"
      BY <1>0, <2>3 DEF RemoveRoute, Removes, At, Work
    <3>. QED
      BY <1>6, <3>1
  <2>4. CASE CleanRouteFails(r)
    BY <2>4 DEF CleanRouteFails
  <2>5. CASE KeepRoute(r) \/ AddRouteFails(r) \/ InspectVerifies(r) \/ InspectFails(r)
             \/ InspectMisses(r) \/ RepairRouteFails(r)
    <3>1. /\ ~lossy /\ stop' = stop /\ managed' = managed /\ file' = file /\ created' = created
          /\ Adding /\ Adding' /\ work.next \subseteq work'.next /\ work'.added = work.added
      <4>1. CASE KeepRoute(r)
        BY <1>0, <4>1 DEF KeepRoute, Inspecting, At, Adding, Work
      <4>3. CASE AddRouteFails(r)
        BY <1>0, <4>3 DEF AddRouteFails, At, Adding, Work
      <4>2. CASE InspectVerifies(r) \/ InspectFails(r) \/ InspectMisses(r) \/ RepairRouteFails(r)
        BY <1>0, <4>2 DEF InspectVerifies, InspectFails, InspectMisses, RepairRouteFails,
             Inspected, At, Adding, Work
      <4>. QED
        BY <2>5, <4>1, <4>2, <4>3
    <3>. QED
      BY <1>7, <3>1
  <2>6. CASE AddRoute(r)
    <3>1. /\ ~lossy /\ stop' = stop /\ managed' = managed /\ file' = file
          /\ created' \subseteq created \cup {RowOf(r)}
          /\ Adding /\ Adding' /\ work'.next = work.next \cup {r}
          /\ work'.added # {}
      BY <1>0, <2>6 DEF AddRoute, Adds, Inspecting, At, Adding, Work
    <3>2. RowOf(r) \in RowsOf(work'.next)
      BY <3>1 DEF RowsOf
    <3>. QED
      BY <1>7, <3>1, <3>2
  <2>7. CASE RepairRoute(r)
    <3>1. /\ ~lossy /\ stop' = stop /\ managed' = managed /\ file' = file
          /\ created' \subseteq created \cup {RowOf(r)}
          /\ Adding /\ Adding' /\ work'.next = work.next /\ r \in work.hand
          /\ work'.added # {}
      BY <1>0, <2>7 DEF RepairRoute, Adds, At, Adding, Work
    <3>2. RowOf(r) \in RowsOf(work'.next)
      BY <3>1 DEF RowsOf, HandOK
    <3>. QED
      BY <1>7, <3>1, <3>2
  <2>. QED
    BY <1>8, <2>1, <2>2, <2>3, <2>4, <2>5, <2>6, <2>7 DEF Step
<1>9. CASE Refresh \/ RefreshFails
  BY <1>6, <1>9 DEF Refresh, RefreshFails, NoWork, At
<1>10. CASE RemovedAll
  <2>1. /\ ~lossy /\ stop' = stop /\ managed' = managed /\ file' = file /\ created' = created
        /\ work.pc = "remove" /\ work'.pc = "add"
    BY <1>0, <1>10 DEF RemovedAll, At, Work
  <2>2. /\ Stopping' <=> Stopping
        /\ Stopping => stop.last
        /\ ~Adding
    BY <2>1 DEF Stopping, StopOK, Adding
  <2>. QED
    BY <2>1, <2>2 DEF Stopping, StopAccounted
<1>11. CASE CleanClears
  <2>1. /\ ~lossy /\ managed' = {} /\ file' = file /\ created' = created
        /\ work.pc = "clean" /\ work'.pc = "erase" /\ work.todo = {}
        /\ stop'.pc = stop.pc /\ stop'.todo = stop.todo /\ stop'.last = stop.last
    BY <1>0, <1>11, Torn DEF CleanClears, At, Work
  <2>2. created = {}
    BY <2>1, NoRows DEF At, Accounted
  <2>3. Stopping => stop.last
    BY <2>1 DEF StopOK
  <2>. QED
    BY <2>1, <2>2, <2>3 DEF Stopping, Adding, StopAccounted
<1>12. CASE CleanEnds
  <2>1. /\ ~lossy /\ managed' = managed /\ file' = managed /\ created' = created
        /\ work.pc = "erase" /\ work'.pc = "idle"
        /\ stop'.todo = stop.todo /\ stop'.last = stop.last /\ stop'.torn = stop.torn
        /\ stop'.pc = stop.pc \/ (stop.pc = "off" /\ stop'.pc = "none")
    BY <1>0, <1>12 DEF CleanEnds, Save, NoWork, At, Stop
  <2>2. Stopping => stop.last
    BY <2>1 DEF StopOK
  <2>. QED
    BY <2>1, <2>2 DEF Stopping, Adding, StopAccounted
<1>13. CASE TakeOver
  <2>1. /\ ~lossy /\ stop.pc # "clean" /\ created' = created
        /\ work.pc = "add" /\ work'.pc = "save"
        /\ stop'.pc = stop.pc /\ stop'.last = stop.last
    BY <1>0, <1>13, Torn DEF TakeOver, At, Work
  <2>2. Stopping => stop.last
    BY <2>1 DEF StopOK
  <2>. QED
    BY <2>1, <2>2 DEF Stopping, Adding, StopAccounted
<1>14. CASE Reconciled
  <2>1. /\ ~lossy /\ stop' = stop /\ managed' = managed /\ file' = managed /\ created' = created
        /\ work.pc = "save" /\ work'.pc = "refresh"
    BY <1>0, <1>14 DEF Reconciled, Save, NoWork, At
  <2>2. Stopping => stop.last
    BY <2>1 DEF StopOK
  <2>. QED
    BY <2>1, <2>2 DEF Stopping, Adding, StopAccounted
<1>15. CASE StopCleans
  <2>1. CASE StopBegins
    <3>1. /\ ~lossy /\ managed' = managed /\ file' = file /\ created' = created /\ work' = work
          /\ stop.pc = "none" /\ stop'.pc = "clean" /\ stop'.todo = managed /\ stop'.torn = stop.torn
      BY <1>0, <2>1 DEF StopBegins, Stop
    <3>2. stop.torn = {} /\ work.pc # "down"
      BY <3>1 DEF StopOK, Stopping, NoStop, At
    <3>3. managed = file \/ work.pc \in {"save", "erase"}
      BY <3>1, <3>2 DEF StopAccounted, Stopping
    <3>4. CASE created \subseteq RowsOf(managed)
      BY <3>1, <3>2, <3>4 DEF Stopping, StopAccounted
    <3>5. CASE ~ (created \subseteq RowsOf(managed))
      <4>1. managed = file /\ Adding /\ work.added # {}
        BY <3>1, <3>3, <3>5 DEF Accounted, At, Adding
      <4>2. created \subseteq RowsOf((work.todo \cap managed) \cup work.next)
        BY <3>1, <4>1 DEF Accounted
      <4>3. RowsOf((work.todo \cap managed) \cup work.next) \subseteq RowsOf(managed \cup work.next)
        BY RowsMonotone
      <4>4. Adding'
        BY <3>1, <4>1 DEF Adding
      <4>. QED
        BY <3>1, <3>2, <4>1, <4>2, <4>3, <4>4 DEF Stopping, StopAccounted
    <3>. QED
      BY <3>4, <3>5
  <2>2. ASSUME NEW r \in Routes, StopRoute(r) PROVE StopAccounted'
    <3>1. /\ ~lossy /\ managed' = managed /\ file' = file /\ created' = created \ {RowOf(r)}
          /\ work' = work /\ stop.pc = "clean" /\ stop'.pc = "clean"
          /\ stop'.todo = stop.todo \ {r} /\ stop'.last = stop.last /\ stop'.torn = stop.torn
      BY <1>0, <2>2 DEF StopRoute, Removes, Stop
    <3>2. created \subseteq RowsOf(stop.todo) => created' \subseteq RowsOf(stop'.todo)
      BY <3>1, WithoutRow
    <3>3. created \subseteq RowsOf(stop.todo \cup work.next)
            => created' \subseteq RowsOf(stop'.todo \cup work'.next)
      <4>1. (stop.todo \cup work.next) \ {r} \subseteq stop'.todo \cup work'.next
        BY <3>1
      <4>2. RowsOf((stop.todo \cup work.next) \ {r}) \subseteq RowsOf(stop'.todo \cup work'.next)
        BY <4>1, RowsMonotone
      <4>. QED
        BY <3>1, <4>2, WithoutRow
    <3>. QED
      BY <3>1, <3>2, <3>3 DEF Stopping, Adding, StopAccounted
  <2>3. ASSUME NEW r \in Routes, StopRouteFails(r) PROVE StopAccounted'
    BY <2>3 DEF StopRouteFails
  <2>4. ASSUME NEW r \in Routes, StopSkips(r) PROVE StopAccounted'
    <3>1. /\ ~lossy /\ managed' = managed /\ file' = file /\ created' = created
          /\ work' = work /\ stop.pc = "clean" /\ stop'.pc = "clean" /\ "loop" \in stop.torn
          /\ stop'.last = stop.last
      BY <1>0, <2>4 DEF StopSkips, Stop
    <3>2. created = {} /\ work.pc \in {"erase", "idle"} /\ stop.last
      BY <3>1 DEF StopAccounted
    <3>. QED
      BY <3>1, <3>2 DEF Stopping, Adding, StopAccounted
  <2>5. CASE StopClears
    <3>1. /\ ~lossy /\ created' = created /\ work' = work
          /\ stop.pc = "clean" /\ stop'.pc = "save" /\ stop.todo = {}
      BY <1>0, <2>5 DEF StopClears, Stop
    <3>2. created = {} \/ (Adding /\ work.added # {})
      BY <3>1, NoRows DEF StopAccounted
    <3>. QED
      BY <3>1, <3>2 DEF Stopping, Adding, StopAccounted
  <2>6. CASE StopSaves
    <3>1. /\ ~lossy /\ created' = created /\ work' = work
          /\ stop.pc = "save" /\ stop'.pc = "done" /\ stop'.last = stop.last
      BY <1>0, <2>6 DEF StopSaves, Save, Stop
    <3>. QED
      BY <3>1 DEF Stopping, Adding, StopAccounted
  <2>. QED
    BY <1>15, <2>1, <2>2, <2>3, <2>4, <2>5, <2>6 DEF StopCleans
<1>16. CASE Environment
  <2>1. CASE Crash \/ Ends \/ Reboot
    <3>1. stop'.pc = "off" /\ work'.pc = "down"
      BY <2>1 DEF Crash, Ends, Reboot, NoStop, Down, NoWork
    <3>. QED
      BY <3>1 DEF Stopping, StopAccounted
  <2>2. ASSUME (\E row \in Foreign : RowAppears(row)) \/ (\E row \in Rows : RowVanishes(row))
        PROVE  StopAccounted'
    <3>1. /\ ~lossy /\ stop' = stop /\ work' = work /\ managed' = managed /\ file' = file
          /\ created' \subseteq created
      BY <2>2 DEF RowAppears, RowVanishes
    <3>. QED
      BY <3>1 DEF Stopping, Adding, StopAccounted
  <2>. QED
    BY <1>16, <2>1, <2>2 DEF Environment
<1>. QED
  BY <1>1, <1>2, <1>4, <1>5, <1>8, <1>9, <1>10, <1>11, <1>12, <1>13, <1>14, <1>15, <1>16
     DEF Next, Serving

\* The service loses track of a row it has created only when it ends between an addition
\* and the next Save, when a Save fails or is cut short, when a cleanup cannot remove a
\* row, or when a request takes over its inventory while Stop is removing routes.
THEOREM OrphansCorrect == Spec => []OrphansOnlyWhenLossy
<1>1. Init => HandOK /\ StopOK /\ Accounted /\ StopAccounted
  BY DEF Init, HandOK, StopOK, Accounted, StopAccounted, Stopping, Adding, At, Down, NoWork, NoStop,
       RowsOf
<1>2. TypeOK /\ StopOK /\ Accounted => OrphansOnlyWhenLossy
  <2> SUFFICES ASSUME TypeOK, Accounted, ~lossy PROVE Orphans = {}
    BY DEF OrphansOnlyWhenLossy
  <2>1. CASE At("down")
    <3>1. created \subseteq RowsOf(file)
      BY <2>1 DEF At, Adding, Accounted
    <3>. QED
      BY <2>1, <3>1 DEF Orphans, Known
  <2>2. CASE ~At("down")
    <3>1. created \subseteq RowsOf(managed \cup work.next)
      <4>1. /\ RowsOf(managed) \subseteq RowsOf(managed \cup work.next)
            /\ RowsOf(work.todo \cap managed) \subseteq RowsOf(managed \cup work.next)
            /\ RowsOf(((work.todo \cup work.desired) \cap managed) \cup work.next)
                 \subseteq RowsOf(managed \cup work.next)
            /\ RowsOf((work.todo \cap managed) \cup work.next) \subseteq RowsOf(managed \cup work.next)
        BY RowsMonotone
      <4>2. work.pc \in Places
        BY DEF TypeOK, Work
      <4>. QED
        BY <2>2, <4>1, <4>2 DEF Places, At, Adding, Accounted
    <3>. QED
      BY <2>2, <3>1 DEF Orphans, Known
  <2>. QED
    BY <2>1, <2>2
<1>. QED
  BY TypeCorrect, HandStep, StopOKStep, AccountedStep, StopAccountedStep, <1>1, <1>2, PTL DEF Spec

-----------------------------------------------------------------------------
\* An answer without errors belongs to the request that has ended last, and a
\* refresh ends it.
AnswersLast ==
  /\ answer.result = "ok" => work.pc \in {"idle", "refresh"}
  /\ answer.refreshed => At("idle")

\* Every step keeps AnswersLast.
LEMMA AnswersLastStep == TypeOK /\ AnswersLast /\ [Next]_vars => AnswersLast'
<1> SUFFICES ASSUME TypeOK, AnswersLast, [Next]_vars PROVE AnswersLast'
  OBVIOUS
<1>0. work \in Work /\ answer \in Answer
  BY DEF TypeOK
<1>1. CASE UNCHANGED vars
  BY <1>1 DEF vars, At, AnswersLast
<1>2. CASE Start \/ Clean \/ CleanClears \/ CleanEnds \/ RemovedAll \/ TakeOver
  BY <1>2 DEF Start, Clean, CleanClears, CleanEnds, RemovedAll, TakeOver, NoWork, NoAnswer, At,
       AnswersLast
<1>8. CASE StopCleans
  BY <1>8 DEF StopCleans, StopBegins, StopRoute, StopRouteFails, StopSkips, StopClears, StopSaves,
       At, AnswersLast
<1>3. ASSUME NEW desired \in Requests, RefuseRequest(desired) \/ Reconcile(desired)
      PROVE  AnswersLast'
  BY <1>3 DEF RefuseRequest, Reconcile, NoAnswer, At, AnswersLast
<1>4. ASSUME NEW r \in Routes, Step(r) PROVE AnswersLast'
  <2>1. answer' = answer /\ work.pc \notin {"idle", "refresh"}
    BY <1>4 DEF Step, CleanRoute, CleanRouteFails, CleanSkips, RemoveRoute, RemoveRouteFails,
         RemoveSkips, KeepRoute, AddRoute, AddRouteFails, InspectVerifies, InspectFails, InspectMisses, RepairRoute,
         RepairRouteFails, At
  <2>. QED
    BY <2>1 DEF At, AnswersLast
<1>5. CASE Reconciled
  BY <1>0, <1>5 DEF Reconciled, NoWork, NoAnswer, Answer, At, AnswersLast
<1>6. CASE Refresh \/ RefreshFails
  BY <1>0, <1>6 DEF Refresh, RefreshFails, NoWork, Answer, At, AnswersLast
<1>7. CASE Environment
  <2>1. CASE Crash \/ Ends \/ Reboot
    BY <2>1 DEF Crash, Ends, Reboot, NoAnswer, AnswersLast
  <2>2. ASSUME NEW row \in Foreign, RowAppears(row) PROVE AnswersLast'
    BY <2>2 DEF RowAppears, At, AnswersLast
  <2>3. ASSUME NEW row \in Rows, RowVanishes(row) PROVE AnswersLast'
    BY <1>0, <2>3 DEF RowVanishes, Answer, At, AnswersLast
  <2>. QED
    BY <1>7, <2>1, <2>2, <2>3 DEF Environment
<1>. QED
  BY <1>1, <1>2, <1>3, <1>4, <1>5, <1>6, <1>7, <1>8 DEF Next, Serving

-----------------------------------------------------------------------------
\* Until Stop begins.

\* Stop, once begun, is not over before the service has ended; and its cleanup touches
\* neither the work of the service thread nor the answer.
LEMMA StopLasts ==
  ASSUME TypeOK, [Next]_vars
  PROVE  /\ Stopping /\ work'.pc # "down" => Stopping'
         /\ StopCleans => Stopping' /\ work' = work /\ answer' = answer
<1>1. CASE UNCHANGED vars
  BY <1>1 DEF vars, Stopping, StopCleans, StopBegins, StopRoute, StopRouteFails, StopSkips,
       StopClears, StopSaves, TypeOK, Stop
<1>2. CASE StopCleans
  BY <1>2 DEF StopCleans, StopBegins, StopRoute, StopRouteFails, StopSkips, StopClears, StopSaves,
       Stopping, TypeOK, Stop
<1>3. ASSUME stop' = stop \/ Serve \/ TearStop \/ CleanEnds \/ work' = Down
      PROVE  Stopping /\ work'.pc # "down" => Stopping'
  BY <1>3 DEF Serve, TearStop, CleanEnds, Stopping, Down, NoWork, TypeOK, Stop
<1>4. ASSUME NEW r \in Routes, Step(r) PROVE stop' = stop
  BY <1>4 DEF Step, CleanRoute, CleanRouteFails, CleanSkips, RemoveRoute, RemoveRouteFails,
       RemoveSkips, KeepRoute, AddRoute, AddRouteFails, InspectVerifies, InspectFails,
       InspectMisses, RepairRoute, RepairRouteFails
<1>5. Serving => stop' = stop \/ TearStop \/ CleanEnds
  BY <1>4 DEF Serving, CleanClears, RemovedAll, TakeOver, Reconciled, Refresh, RefreshFails
<1>6. Environment => stop' = stop \/ work' = Down
  BY DEF Environment, Crash, Ends, Reboot, RowAppears, RowVanishes
<1>7. Start \/ Clean \/ (\E desired \in Requests : RefuseRequest(desired) \/ Reconcile(desired))
        => stop' = stop \/ Serve
  BY DEF Start, Clean, RefuseRequest, Reconcile
<1>. QED
  BY <1>1, <1>2, <1>3, <1>5, <1>6, <1>7 DEF Next

\* Once the removals of a request are over, every route it has gone past without
\* an error is in the inventory to be, and its row is in the table (or was, until
\* somebody else removed it), or about to be inspected.
Fulfils ==
  ~Stopping /\ work.pc \in {"add", "inspect", "repair", "save"} /\ work.result = "ok" =>
    /\ \A r \in work.desired \ work.todo :
         r \in work.next /\ (r \in work.hand \/ RowOf(r) \in table \cup answer.gone)
    /\ At("save") => work.todo = {} /\ managed = work.next

\* Every step keeps Fulfils.
LEMMA FulfilsStep == TypeOK /\ HandOK /\ Fulfils /\ [Next]_vars => Fulfils'
<1> SUFFICES ASSUME TypeOK, HandOK, Fulfils, [Next]_vars PROVE Fulfils'
  OBVIOUS
<1>0. work \in Work /\ answer \in Answer
  BY DEF TypeOK
<1>1. CASE UNCHANGED vars
  BY <1>1 DEF vars, At, Stopping, Fulfils
<1>2. CASE Stopping' \/ work'.pc \notin {"add", "inspect", "repair", "save"}
  BY <1>2 DEF At, Fulfils
<1> SUFFICES ASSUME ~Stopping', work'.pc \in {"add", "inspect", "repair", "save"} PROVE Fulfils'
  BY <1>2
<1>9. ~Stopping /\ ~StopCleans
  BY StopLasts
<1> USE <1>9
<1>3. ASSUME NEW r \in Routes, Step(r) PROVE Fulfils'
  <2>1. CASE KeepRoute(r)
    <3>1. /\ table' = table /\ answer' = answer /\ work.pc = "add" /\ work'.pc = "inspect"
          /\ work'.todo = work.todo \ {r} /\ work'.next = work.next \cup {r} /\ work'.hand = {r}
          /\ work'.desired = work.desired /\ work'.result = work.result
      BY <1>0, <2>1 DEF KeepRoute, Inspecting, At, Work
    <3>. QED
      BY <3>1 DEF At, Fulfils, HandOK
  <2>2. CASE AddRoute(r)
    <3>1. /\ table \subseteq table' /\ answer' = answer /\ work.pc = "add" /\ work'.pc = "inspect"
          /\ work'.todo = work.todo \ {r} /\ work'.next = work.next \cup {r} /\ work'.hand = {r}
          /\ work'.desired = work.desired /\ work'.result = work.result
      BY <1>0, <2>2 DEF AddRoute, Adds, Inspecting, At, Work
    <3>. QED
      BY <3>1 DEF At, Fulfils, HandOK
  <2>3. CASE AddRouteFails(r) \/ InspectFails(r) \/ RepairRouteFails(r)
    <3>1. work'.result = "errors"
      BY <1>0, <2>3 DEF AddRouteFails, InspectFails, RepairRouteFails, Inspected, Work
    <3>. QED
      BY <3>1 DEF At, Fulfils
  <2>4. CASE InspectVerifies(r)
    <3>1. /\ table' = table /\ answer' = answer /\ work.pc = "inspect" /\ r \in work.hand
          /\ work'.pc = "add" /\ RowOf(r) \in table
          /\ work'.todo = work.todo /\ work'.next = work.next /\ work'.hand = {}
          /\ work'.desired = work.desired /\ work'.result = work.result
      BY <1>0, <2>4 DEF InspectVerifies, Inspected, Verifies, At, Work
    <3>. QED
      BY <3>1 DEF At, Fulfils, HandOK
  <2>5. CASE InspectMisses(r)
    <3>1. /\ table' = table /\ answer' = answer /\ work.pc = "inspect"
          /\ work'.pc = "repair" /\ work'.todo = work.todo /\ work'.next = work.next /\ work'.hand = work.hand
          /\ work'.desired = work.desired /\ work'.result = work.result
      BY <1>0, <2>5 DEF InspectMisses, At, Work
    <3>. QED
      BY <3>1 DEF At, Fulfils
  <2>6. CASE RepairRoute(r)
    <3>1. /\ table \subseteq table' /\ answer' = answer /\ work.pc = "repair"
          /\ work'.pc = "inspect" /\ work'.todo = work.todo /\ work'.next = work.next /\ work'.hand = work.hand
          /\ work'.desired = work.desired /\ work'.result = work.result
      BY <1>0, <2>6 DEF RepairRoute, Adds, At, Work
    <3>. QED
      BY <3>1 DEF At, Fulfils
  <2>7. ~ (CleanRoute(r) \/ CleanRouteFails(r) \/ CleanSkips(r)
              \/ RemoveRoute(r) \/ RemoveRouteFails(r) \/ RemoveSkips(r))
    BY <1>0 DEF CleanRoute, CleanRouteFails, CleanSkips, RemoveRoute, RemoveRouteFails, RemoveSkips,
         At, Work
  <2>. QED
    BY <1>3, <2>1, <2>2, <2>3, <2>4, <2>5, <2>6, <2>7 DEF Step
<1>4. CASE RemovedAll
  BY <1>0, <1>4 DEF RemovedAll, At, Work, Fulfils
<1>10. CASE TakeOver
  BY <1>0, <1>10 DEF TakeOver, At, Work, Fulfils
<1>5. ASSUME NEW row \in Rows, RowVanishes(row) PROVE Fulfils'
  <2>1. /\ work' = work /\ managed' = managed /\ table' = table \ {row}
        /\ answer'.gone = answer.gone \cup ({row} \cap RowsOf(work.desired \cup answer.desired))
    BY <1>0, <1>5 DEF RowVanishes, Answer
  <2>2. \A r \in work.desired : RowOf(r) \in RowsOf(work.desired \cup answer.desired)
    BY DEF RowsOf
  <2>. QED
    BY <2>1, <2>2 DEF At, Fulfils
<1>6. ASSUME NEW row \in Foreign, RowAppears(row) PROVE Fulfils'
  <2>1. work' = work /\ managed' = managed /\ answer' = answer /\ table \subseteq table'
    BY <1>6 DEF RowAppears
  <2>. QED
    BY <2>1 DEF At, Fulfils
<1>7. ~ (Start \/ Clean \/ CleanClears \/ CleanEnds \/ Reconciled \/ Refresh \/ RefreshFails
           \/ Crash \/ Ends \/ Reboot)
  <2>1. NoWork.pc = "idle" /\ Down.pc = "down"
    BY DEF NoWork, Down
  <2>. QED
    BY <1>0, <2>1 DEF Start, Clean, CleanClears, CleanEnds, Reconciled, Refresh, RefreshFails,
         Crash, Ends, Reboot, NoWork, Work
<1>8. ~ \E desired \in Requests : RefuseRequest(desired) \/ Reconcile(desired)
  BY DEF RefuseRequest, Reconcile, MayServe, At, NoWork
<1>. QED
  BY <1>1, <1>3, <1>4, <1>5, <1>6, <1>7, <1>8, <1>10 DEF Next, Serving, Environment

\* An answer without errors is true: each route asked for is in the inventory, and
\* in the table unless somebody else has removed it since.
THEOREM OkCorrect == Spec => []OkMeansInForce
<1>1. Init => HandOK /\ AnswersLast /\ Fulfils /\ OkMeansInForce
  BY DEF Init, HandOK, AnswersLast, Fulfils, OkMeansInForce, Stopping, At, Down,
       NoWork, NoStop, NoAnswer
<1>2. /\ TypeOK /\ HandOK /\ AnswersLast /\ Fulfils /\ OkMeansInForce
      /\ [Next]_vars
      => OkMeansInForce'
  <2> SUFFICES ASSUME TypeOK, HandOK, AnswersLast, Fulfils, OkMeansInForce, [Next]_vars,
                      answer'.result = "ok", ~Stopping'
               PROVE  OkMeansInForce'
    BY DEF OkMeansInForce
  <2>0. work \in Work /\ answer \in Answer
    BY DEF TypeOK
  <2>10. ~StopCleans /\ (work'.pc # "down" => ~Stopping)
    BY StopLasts
  <2>1. CASE UNCHANGED vars
    BY <2>1 DEF vars, Stopping, OkMeansInForce
  <2>2. CASE \E r \in Routes : Step(r)
    <3>1. answer' = answer /\ work.pc \notin {"idle", "refresh"}
      BY <2>2 DEF Step, CleanRoute, CleanRouteFails, CleanSkips, RemoveRoute, RemoveRouteFails,
           RemoveSkips, KeepRoute, AddRoute, AddRouteFails, InspectVerifies, InspectFails, InspectMisses, RepairRoute,
           RepairRouteFails, At
    <3>. QED
      BY <3>1 DEF AnswersLast
  <2>9. CASE Start \/ Clean \/ CleanClears \/ CleanEnds \/ RemovedAll \/ TakeOver
    <3>1. ~Clean
      BY DEF Clean, NoAnswer
    <3>2. answer' = answer /\ work.pc \notin {"idle", "refresh"}
      BY <2>9, <3>1 DEF Start, CleanClears, CleanEnds, RemovedAll, TakeOver, At
    <3>. QED
      BY <3>2 DEF AnswersLast
  <2>3. ASSUME NEW desired \in Requests, RefuseRequest(desired) \/ Reconcile(desired)
        PROVE  OkMeansInForce'
    <3>1. answer'.result # "ok"
      BY <2>3 DEF RefuseRequest, Reconcile, NoAnswer
    <3>. QED
      BY <3>1
  <2>4. CASE Reconciled
    <3>1. /\ work.pc = "save" /\ table' = table /\ managed' = managed /\ ~Stopping
          /\ work.result = "ok" /\ answer'.desired = work.desired /\ answer'.gone = answer.gone
      BY <2>0, <2>4 DEF Reconciled, NoAnswer, At, Answer, Stopping
    <3>2. work.hand = {}
      BY <3>1 DEF HandOK
    <3>. QED
      BY <3>1, <3>2 DEF At, Fulfils, OkMeansInForce
  <2>5. CASE Refresh \/ RefreshFails
    <3>1. ~Stopping
      BY <2>5 DEF Refresh, RefreshFails, Stopping
    <3>. QED
      BY <2>0, <2>5, <3>1 DEF Refresh, RefreshFails, Answer, OkMeansInForce
  <2>6. CASE Crash \/ Ends \/ Reboot
    BY <2>6 DEF Crash, Ends, Reboot, NoAnswer
  <2>7. ASSUME NEW row \in Foreign, RowAppears(row) PROVE OkMeansInForce'
    BY <2>7 DEF RowAppears, Stopping, OkMeansInForce
  <2>8. ASSUME NEW row \in Rows, RowVanishes(row) PROVE OkMeansInForce'
    <3>1. /\ table' = table \ {row} /\ managed' = managed
          /\ answer'.result = answer.result /\ answer'.desired = answer.desired
          /\ answer'.gone = answer.gone \cup ({row} \cap RowsOf(work.desired \cup answer.desired))
      BY <2>0, <2>8 DEF RowVanishes, Answer
    <3>2. \A r \in answer.desired : RowOf(r) \in RowsOf(work.desired \cup answer.desired)
      BY DEF RowsOf
    <3>3. ~Stopping
      BY <2>8 DEF RowVanishes, Stopping
    <3>. QED
      BY <3>1, <3>2, <3>3 DEF OkMeansInForce
  <2>. QED
    BY <2>1, <2>2, <2>3, <2>4, <2>5, <2>6, <2>7, <2>8, <2>9, <2>10 DEF Next, Serving, Environment
<1>. QED
  BY TypeCorrect, HandStep, AnswersLastStep, FulfilsStep, <1>1, <1>2, PTL DEF Spec

-----------------------------------------------------------------------------
\* While a request has no error, each flow left on a route it has changed has a
\* destination it has removed, or one it has added and has verified, or is about
\* to inspect; so that all of them are among those to be reset.
Reaches ==
  /\ work.pc \in {"remove", "add", "inspect", "repair", "save"} /\ ~Stopping /\ work.result = "ok" =>
       \A f \in stale :
         \/ f.dest \in work.removed
         \/ /\ f.dest \in work.added
            /\ f.dest \in work.verified \/ \E r \in work.hand : r.dest = f.dest
  /\ At("refresh") /\ ~Stopping /\ answer.result = "ok" => \A f \in stale : f.dest \in work.reset

\* Every step keeps Reaches.
LEMMA ReachesStep == TypeOK /\ HandOK /\ Reaches /\ [Next]_vars => Reaches'
<1> SUFFICES ASSUME TypeOK, HandOK, Reaches, [Next]_vars PROVE Reaches'
  OBVIOUS
<1>0. work \in Work /\ answer \in Answer
  BY DEF TypeOK
<1>1. CASE UNCHANGED vars
  BY <1>1 DEF vars, Stopping, At, Reaches
<1>2. CASE Stopping' \/ work'.pc \notin {"remove", "add", "inspect", "repair", "save", "refresh"}
  BY <1>2 DEF At, Reaches
<1> SUFFICES ASSUME ~Stopping',
                    work'.pc \in {"remove", "add", "inspect", "repair", "save", "refresh"}
             PROVE  Reaches'
  BY <1>2
<1>10. ~Stopping /\ ~StopCleans
  BY StopLasts
<1> USE <1>10
<1>3. ASSUME NEW r \in Routes, Step(r) PROVE Reaches'
  <2>1. ~ (CleanRoute(r) \/ CleanRouteFails(r) \/ CleanSkips(r))
    BY <1>0 DEF CleanRoute, CleanRouteFails, CleanSkips, At, Work
  <2>2. CASE RemoveRoute(r)
    <3>1. /\ stale' \subseteq stale \cup {f \in Flows : f.dest = r.dest} /\ work.pc = "remove"
          /\ work'.pc = "remove" /\ work'.removed = work.removed \cup {r.dest}
          /\ work'.added = work.added /\ work'.verified = work.verified
          /\ work'.hand = work.hand /\ work'.result = work.result
      BY <1>0, <2>2 DEF RemoveRoute, Removes, Outdate, At, Work
    <3>. QED
      BY <3>1 DEF At, Reaches
  <2>3. CASE RemoveRouteFails(r) \/ RemoveSkips(r) \/ AddRouteFails(r) \/ InspectFails(r)
               \/ RepairRouteFails(r)
    <3>1. work'.result = "errors" /\ work'.pc \in {"remove", "add"}
      BY <1>0, <2>3 DEF RemoveRouteFails, RemoveSkips, AddRouteFails, InspectFails,
           RepairRouteFails, Inspected, At, Work
    <3>. QED
      BY <3>1 DEF At, Reaches
  <2>4. CASE KeepRoute(r)
    <3>1. /\ stale' = stale /\ work.pc = "add" /\ work'.pc = "inspect"
          /\ work'.removed = work.removed /\ work'.added = work.added
          /\ work'.verified = work.verified /\ work'.result = work.result
      BY <1>0, <2>4 DEF KeepRoute, Inspecting, At, Work
    <3>2. work.hand = {}
      BY <3>1 DEF HandOK
    <3>. QED
      BY <3>1, <3>2 DEF At, Reaches
  <2>5. CASE AddRoute(r)
    <3>1. /\ stale' \subseteq stale \cup {f \in Flows : f.dest = r.dest}
          /\ work.pc = "add" /\ work'.pc = "inspect" /\ work'.hand = {r}
          /\ work'.removed = work.removed /\ work'.added = work.added \cup {r.dest}
          /\ work'.verified = work.verified /\ work'.result = work.result
      BY <1>0, <2>5 DEF AddRoute, Adds, Outdate, Inspecting, At, Work
    <3>2. work.hand = {}
      BY <3>1 DEF HandOK
    <3>. QED
      BY <3>1, <3>2 DEF At, Reaches
  <2>6. CASE InspectVerifies(r)
    <3>1. /\ stale' = stale /\ work.pc = "inspect" /\ work'.pc = "add" /\ r \in work.hand
          /\ work'.removed = work.removed /\ work'.added = work.added
          /\ work'.verified = work.verified \cup {r.dest} /\ work'.result = work.result
      BY <1>0, <2>6 DEF InspectVerifies, Inspected, At, Work
    <3>2. \A s \in work.hand : s.dest = r.dest
      BY <3>1 DEF HandOK
    <3>. QED
      BY <3>1, <3>2 DEF At, Reaches
  <2>7. CASE InspectMisses(r)
    <3>1. /\ stale' = stale /\ work.pc = "inspect" /\ work'.pc = "repair"
          /\ work'.removed = work.removed /\ work'.added = work.added
          /\ work'.verified = work.verified /\ work'.result = work.result
          /\ work'.hand = work.hand
      BY <1>0, <2>7 DEF InspectMisses, At, Work
    <3>. QED
      BY <3>1 DEF At, Reaches
  <2>8. CASE RepairRoute(r)
    <3>1. /\ stale' \subseteq stale \cup {f \in Flows : f.dest = r.dest}
          /\ work.pc = "repair" /\ work'.pc = "inspect" /\ r \in work.hand
          /\ work'.removed = work.removed /\ work'.added = work.added \cup {r.dest}
          /\ work'.verified = work.verified /\ work'.result = work.result
          /\ work'.hand = work.hand
      BY <1>0, <2>8 DEF RepairRoute, Adds, Outdate, At, Work
    <3>. QED
      BY <3>1 DEF At, Reaches
  <2>. QED
    BY <1>3, <2>1, <2>2, <2>3, <2>4, <2>5, <2>6, <2>7, <2>8 DEF Step
<1>4. CASE RemovedAll
  <2>1. /\ stale' = stale /\ work.pc = "remove" /\ work'.pc = "add"
        /\ work'.removed = work.removed /\ work'.added = work.added
        /\ work'.verified = work.verified /\ work'.result = work.result
        /\ work'.hand = work.hand
    BY <1>0, <1>4 DEF RemovedAll, At, Work
  <2>. QED
    BY <2>1 DEF At, Reaches
<1>11. CASE TakeOver
  <2>1. /\ stale' = stale /\ work.pc = "add" /\ work'.pc = "save"
        /\ work'.removed = work.removed /\ work'.added = work.added
        /\ work'.verified = work.verified /\ work'.result = work.result
        /\ work'.hand = work.hand
    BY <1>0, <1>11 DEF TakeOver, At, Work
  <2>. QED
    BY <2>1 DEF At, Reaches
<1>5. CASE Reconciled
  <2>1. /\ stale' = stale /\ work.pc = "save" /\ work'.pc = "refresh" /\ work'.reset = Reset
        /\ answer'.result = "ok" => work.result = "ok"
    BY <1>0, <1>5 DEF Reconciled, NoWork, NoAnswer, At
  <2>2. work.hand = {}
    BY <2>1 DEF HandOK
  <2>. QED
    BY <2>1, <2>2 DEF Reset, At, Reaches
<1>6. ~ (Start \/ Clean \/ CleanClears \/ CleanEnds \/ Refresh \/ RefreshFails
           \/ Crash \/ Ends \/ Reboot)
  <2>1. NoWork.pc = "idle" /\ Down.pc = "down"
    BY DEF NoWork, Down
  <2>. QED
    BY <1>0, <2>1 DEF Start, Clean, CleanClears, CleanEnds, Refresh, RefreshFails, Crash, Ends,
         Reboot, NoWork, Work
<1>7. ~ \E desired \in Requests : RefuseRequest(desired)
  BY DEF RefuseRequest, MayServe, At
<1>8. ASSUME NEW desired \in Requests, Reconcile(desired) PROVE Reaches'
  <2>1. stale' = {}
    BY <1>8 DEF Reconcile
  <2>. QED
    BY <2>1 DEF Reaches
<1>9. ASSUME (\E row \in Foreign : RowAppears(row)) \/ (\E row \in Rows : RowVanishes(row))
      PROVE  Reaches'
  <2>1. work' = work /\ stale' = stale /\ answer'.result = answer.result
    BY <1>0, <1>9 DEF RowAppears, RowVanishes, Answer
  <2>. QED
    BY <2>1 DEF At, Reaches
<1>. QED
  BY <1>1, <1>3, <1>4, <1>5, <1>6, <1>7, <1>8, <1>9, <1>11 DEF Next, Serving, Environment

\* After an answer without errors and a complete refresh no browser connection is
\* left on a route the request has replaced, removed or put back.
THEOREM ResetCorrect == Spec => []ResetReachesFlows
<1>1. Init => HandOK /\ AnswersLast /\ Reaches /\ ResetReachesFlows
  BY DEF Init, HandOK, AnswersLast, Reaches, ResetReachesFlows, Stopping, At, Down,
       NoWork, NoStop, NoAnswer
<1>2. /\ TypeOK /\ AnswersLast /\ Reaches /\ ResetReachesFlows
      /\ [Next]_vars
      => ResetReachesFlows'
  <2> SUFFICES ASSUME TypeOK, AnswersLast, Reaches, ResetReachesFlows, [Next]_vars,
                      answer'.result = "ok", answer'.refreshed, ~Stopping'
               PROVE  stale' = {}
    BY DEF ResetReachesFlows
  <2>0. answer \in Answer /\ stale \subseteq Flows
    BY DEF TypeOK
  <2>9. ~StopCleans
    BY StopLasts
  <2>1. CASE UNCHANGED vars
    BY <2>1 DEF vars, Stopping, ResetReachesFlows
  <2>2. CASE \E r \in Routes : Step(r)
    <3>1. answer' = answer /\ work.pc # "idle"
      BY <2>2 DEF Step, CleanRoute, CleanRouteFails, CleanSkips, RemoveRoute, RemoveRouteFails,
           RemoveSkips, KeepRoute, AddRoute, AddRouteFails, InspectVerifies, InspectFails, InspectMisses, RepairRoute,
           RepairRouteFails, At
    <3>. QED
      BY <3>1 DEF AnswersLast, At
  <2>3. CASE Start \/ CleanClears \/ CleanEnds \/ RemovedAll \/ TakeOver \/ RefreshFails
    <3>1. answer' = answer /\ work.pc # "idle"
      BY <2>3 DEF Start, CleanClears, CleanEnds, RemovedAll, TakeOver, RefreshFails, At
    <3>. QED
      BY <3>1 DEF AnswersLast, At
  <2>4. CASE Clean \/ Crash \/ Ends \/ Reboot
    BY <2>4 DEF Clean, Crash, Ends, Reboot, NoAnswer
  <2>5. ASSUME NEW desired \in Requests, RefuseRequest(desired) \/ Reconcile(desired)
        PROVE  FALSE
    BY <2>5 DEF RefuseRequest, Reconcile, NoAnswer
  <2>6. CASE Reconciled
    <3>1. work.pc = "save" /\ (answer'.refreshed => answer.refreshed)
      BY <2>0, <2>6 DEF Reconciled, NoAnswer, Answer, At
    <3>. QED
      BY <3>1 DEF AnswersLast, At
  <2>7. CASE Refresh
    <3>1. /\ At("refresh") /\ answer.result = "ok" /\ ~Stopping
          /\ stale' = stale \ {f \in Flows : f.process \in Refreshed(work.reset)}
      BY <2>0, <2>7 DEF Refresh, Stopping, Answer
    <3>2. ASSUME NEW f \in stale PROVE f.process \in Refreshed(work.reset)
      <4>1. f \in Flows /\ f.dest \in work.reset
        BY <2>0, <3>1 DEF Reaches
      <4>. QED
        BY <4>1 DEF Refreshed
    <3>. QED
      BY <2>0, <3>1, <3>2
  <2>8. ASSUME (\E row \in Foreign : RowAppears(row)) \/ (\E row \in Rows : RowVanishes(row))
        PROVE  stale' = {}
    <3>1. /\ stale' = stale /\ ~Stopping
          /\ answer'.result = answer.result /\ answer'.refreshed = answer.refreshed
      BY <2>0, <2>8 DEF RowAppears, RowVanishes, Stopping, Answer
    <3>. QED
      BY <3>1 DEF ResetReachesFlows
  <2>. QED
    BY <2>1, <2>2, <2>3, <2>4, <2>5, <2>6, <2>7, <2>8, <2>9 DEF Next, Serving, Environment
<1>. QED
  BY TypeCorrect, HandStep, AnswersLastStep, ReachesStep, <1>1, <1>2, PTL DEF Spec
=============================================================================
