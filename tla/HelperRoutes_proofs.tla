------------------------ MODULE HelperRoutes_proofs ------------------------
(***************************************************************************)
(* Proofs about HelperRoutes.                                              *)
(*                                                                         *)
(* Types are proved for any number of connections.  The rest assumes that  *)
(* requests do not overlap (OneAtATime) and follows from SerialInv: checks *)
(* and answers tell the truth, and a route is orphaned by nothing but the  *)
(* reload of a file that is behind the inventory.  When the helper is not  *)
(* killed within a request and its writes succeed (NoDeathNoLoss) the file *)
(* is never behind at a reload, so that nothing is orphaned at all.        *)
(***************************************************************************)
EXTENDS HelperRoutes, TLAPS

USE SpecsAssumption, NoRouteAssumption

-----------------------------------------------------------------------------
\* Changing one request to a well-formed one keeps all of them well-formed.
LEMMA BecomesTyped ==
  ASSUME TypeOK, NEW c \in Sessions, NEW q \in Request, HandOK(q), Becomes(c, q)
  PROVE  /\ session' \in [Sessions -> Request]
         /\ \A b \in Sessions : HandOK(session'[b])
         /\ session'[c] = q
         /\ \A b \in Sessions \ {c} : session'[b] = session[b]
  BY DEF TypeOK, Becomes

\* A route is installed as an entry of the table.
LEMMA InstallTyped ==
  ASSUME TypeOK, NEW spec \in Specs, Install(spec)
  PROVE  kernel' \in [Dests -> Entry \cup {NoRoute}]
<1>1. [via |-> Via(spec), by |-> "helper"] \in Entry
  BY DEF Via, Entry
<1>. QED
  BY <1>1 DEF TypeOK, Install

\* The outcome of a check leaves a well-formed request with nothing in hand.
LEMMA CheckTyped ==
  ASSUME TypeOK, NEW c \in Sessions, NEW spec \in Specs,
         Pass(c, spec) \/ Report(c, spec)
  PROVE  /\ session' \in [Sessions -> Request]
         /\ \A b \in Sessions : HandOK(session'[b])
<1>0. session[c] \in Request
  BY DEF TypeOK
<1>1. CASE Pass(c, spec)
  <2> DEFINE q == [session[c] EXCEPT !.pc = "work", !.hand = {}, !.check = @ \ {spec},
                                     !.verified = @ \cup {spec}]
  <2>1. q \in Request /\ HandOK(q)
    BY <1>0 DEF Request, HandOK
  <2>2. Becomes(c, q)
    BY <1>1 DEF Pass
  <2>. QED
    BY <2>1, <2>2, BecomesTyped
<1>2. CASE Report(c, spec)
  <2> DEFINE q == [session[c] EXCEPT !.pc = "work", !.hand = {}, !.check = @ \ {spec},
                                     !.result = "errors"]
  <2>1. q \in Request /\ HandOK(q)
    BY <1>0 DEF Request, HandOK
  <2>2. Becomes(c, q)
    BY <1>2 DEF Report
  <2>. QED
    BY <2>1, <2>2, BecomesTyped
<1>. QED
  BY <1>1, <1>2

\* Every state of the helper has the types the code gives its variables.
THEOREM TypeCorrect == Spec => []TypeOK
<1>1. Init => TypeOK
  BY DEF Init, TypeOK, Idle, Request, HandOK
<1>2. TypeOK /\ [Next]_vars => TypeOK'
  <2> SUFFICES ASSUME TypeOK, [Next]_vars PROVE TypeOK'
    OBVIOUS
  <2>0. \A c \in Sessions : session[c] \in Request /\ HandOK(session[c])
    BY DEF TypeOK
  <2>1. ASSUME NEW c \in Sessions, NEW desired \in Requests, NEW rejected \in BOOLEAN,
               Start(c, desired, rejected)
        PROVE  TypeOK'
    <3> DEFINE q == [Idle EXCEPT
         !.pc = "work", !.desired = desired, !.current = managed,
         !.remove = managed \ desired, !.add = desired \ managed, !.check = desired,
         !.result = IF rejected THEN "errors" ELSE "ok"]
    <3>1. q \in Request /\ HandOK(q)
      BY DEF TypeOK, Idle, Request, Requests, HandOK
    <3>2. Becomes(c, q)
      BY <2>1 DEF Start
    <3>3. /\ session' \in [Sessions -> Request]
          /\ \A b \in Sessions : HandOK(session'[b])
      BY <3>1, <3>2, BecomesTyped
    <3>. QED
      BY <2>1, <3>3 DEF Start, TypeOK
  <2>2. ASSUME NEW c \in Sessions, Delete(c) PROVE TypeOK'
    <3>1. PICK spec \in session[c].remove :
             /\ \/ kernel' = [kernel EXCEPT ![spec.dest] = NoRoute]
                \/ UNCHANGED kernel
             /\ Becomes(c, [session[c] EXCEPT !.pc = "forget", !.hand = {spec}])
      BY <2>2 DEF Delete
    <3>2. spec \in Specs
      BY <2>0 DEF Request
    <3> DEFINE q == [session[c] EXCEPT !.pc = "forget", !.hand = {spec}]
    <3>3. q \in Request /\ HandOK(q)
      BY <2>0, <3>2 DEF Request, HandOK
    <3>4. /\ session' \in [Sessions -> Request]
          /\ \A b \in Sessions : HandOK(session'[b])
      BY <3>1, <3>3, BecomesTyped
    <3>5. kernel' \in [Dests -> Entry \cup {NoRoute}]
      BY <3>1 DEF TypeOK
    <3>. QED
      BY <2>2, <3>4, <3>5 DEF Delete, TypeOK
  <2>3. ASSUME NEW c \in Sessions, DeleteFails(c) PROVE TypeOK'
    <3>1. PICK spec \in session[c].remove :
             Becomes(c, [session[c] EXCEPT !.remove = @ \ {spec}, !.result = "errors"])
      BY <2>3 DEF DeleteFails
    <3> DEFINE q == [session[c] EXCEPT !.remove = @ \ {spec}, !.result = "errors"]
    <3>2. q \in Request /\ HandOK(q)
      BY <2>0 DEF Request, HandOK
    <3>3. /\ session' \in [Sessions -> Request]
          /\ \A b \in Sessions : HandOK(session'[b])
      BY <3>1, <3>2, BecomesTyped
    <3>. QED
      BY <2>3, <3>3 DEF DeleteFails, TypeOK
  <2>4. ASSUME NEW c \in Sessions, Forget(c) PROVE TypeOK'
    <3> DEFINE q == [session[c] EXCEPT !.pc = "work", !.hand = {},
                                       !.remove = @ \ session[c].hand]
    <3>1. q \in Request /\ HandOK(q)
      BY <2>0 DEF Request, HandOK
    <3>2. /\ session' \in [Sessions -> Request]
          /\ \A b \in Sessions : HandOK(session'[b])
      BY <2>4, <3>1, BecomesTyped DEF Forget
    <3>3. managed' \in SUBSET Specs
      BY <2>4 DEF Forget, SetManaged, TypeOK
    <3>. QED
      BY <2>4, <3>2, <3>3 DEF TypeOK, Forget
  <2>5. ASSUME NEW c \in Sessions, Add(c) PROVE TypeOK'
    <3>1. PICK spec \in session[c].add :
             /\ Install(spec)
             /\ Becomes(c, [session[c] EXCEPT !.pc = "record", !.hand = {spec}])
      BY <2>5 DEF Add
    <3>2. spec \in Specs
      BY <2>0 DEF Request
    <3> DEFINE q == [session[c] EXCEPT !.pc = "record", !.hand = {spec}]
    <3>3. q \in Request /\ HandOK(q)
      BY <2>0, <3>2 DEF Request, HandOK
    <3>4. /\ session' \in [Sessions -> Request]
          /\ \A b \in Sessions : HandOK(session'[b])
      BY <3>1, <3>3, BecomesTyped
    <3>5. kernel' \in [Dests -> Entry \cup {NoRoute}]
      BY <3>1, <3>2, InstallTyped
    <3>. QED
      BY <2>5, <3>4, <3>5 DEF Add, TypeOK
  <2>6. ASSUME NEW c \in Sessions, AddFails(c) PROVE TypeOK'
    <3>1. PICK spec \in session[c].add :
             Becomes(c, [session[c] EXCEPT !.add = @ \ {spec}, !.result = "errors"])
      BY <2>6 DEF AddFails
    <3> DEFINE q == [session[c] EXCEPT !.add = @ \ {spec}, !.result = "errors"]
    <3>2. q \in Request /\ HandOK(q)
      BY <2>0 DEF Request, HandOK
    <3>3. /\ session' \in [Sessions -> Request]
          /\ \A b \in Sessions : HandOK(session'[b])
      BY <3>1, <3>2, BecomesTyped
    <3>. QED
      BY <2>6, <3>3 DEF AddFails, TypeOK
  <2>7. ASSUME NEW c \in Sessions, Record(c) PROVE TypeOK'
    <3> DEFINE q == [session[c] EXCEPT !.pc = "work", !.hand = {},
                                       !.add = @ \ session[c].hand]
    <3>1. q \in Request /\ HandOK(q)
      BY <2>0 DEF Request, HandOK
    <3>2. /\ session' \in [Sessions -> Request]
          /\ \A b \in Sessions : HandOK(session'[b])
      BY <2>7, <3>1, BecomesTyped DEF Record
    <3>3. managed' \in SUBSET Specs
      BY <2>0, <2>7 DEF Record, SetManaged, TypeOK, Request
    <3>. QED
      BY <2>7, <3>2, <3>3 DEF TypeOK, Record
  <2>8. ASSUME NEW c \in Sessions, Inspect(c) PROVE TypeOK'
    <3>1. PICK spec \in session[c].check :
             \/ Pass(c, spec)
             \/ Report(c, spec)
             \/ Becomes(c, [session[c] EXCEPT !.pc = "repair", !.hand = {spec}])
      BY <2>8 DEF Inspect
    <3>2. spec \in Specs
      BY <2>0 DEF Request
    <3>3. /\ session' \in [Sessions -> Request]
          /\ \A b \in Sessions : HandOK(session'[b])
      <4> DEFINE q == [session[c] EXCEPT !.pc = "repair", !.hand = {spec}]
      <4>1. q \in Request /\ HandOK(q)
        BY <2>0, <3>2 DEF Request, HandOK
      <4>2. CASE Becomes(c, q)
        BY <4>1, <4>2, BecomesTyped
      <4>. QED
        BY <3>1, <3>2, <4>2, CheckTyped
    <3>. QED
      BY <2>8, <3>3 DEF Inspect, TypeOK
  <2>9. ASSUME NEW c \in Sessions, Repair(c) PROVE TypeOK'
    <3>1. PICK spec \in session[c].hand : Install(spec)
      BY <2>9 DEF Repair
    <3>2. kernel' \in [Dests -> Entry \cup {NoRoute}]
      BY <2>0, <3>1, InstallTyped DEF Request
    <3> DEFINE q == [session[c] EXCEPT !.pc = "recheck"]
    <3>3. q \in Request /\ HandOK(q)
      BY <2>0, <2>9 DEF Repair, Request, HandOK
    <3>4. /\ session' \in [Sessions -> Request]
          /\ \A b \in Sessions : HandOK(session'[b])
      BY <2>9, <3>3, BecomesTyped DEF Repair
    <3>. QED
      BY <2>9, <3>2, <3>4 DEF TypeOK, Repair
  <2>10. ASSUME NEW c \in Sessions, RepairFails(c) PROVE TypeOK'
    <3>1. PICK spec \in session[c].hand : Report(c, spec)
      BY <2>10 DEF RepairFails
    <3>2. spec \in Specs
      BY <2>0 DEF Request
    <3>. QED
      BY <2>10, <3>1, <3>2, CheckTyped DEF RepairFails, TypeOK
  <2>11. ASSUME NEW c \in Sessions, Recheck(c) PROVE TypeOK'
    <3>1. PICK spec \in session[c].hand : Pass(c, spec) \/ Report(c, spec)
      BY <2>11 DEF Recheck
    <3>2. spec \in Specs
      BY <2>0 DEF Request
    <3>. QED
      BY <2>11, <3>1, <3>2, CheckTyped DEF Recheck, TypeOK
  <2>12. ASSUME NEW c \in Sessions, Persist(c) PROVE TypeOK'
    <3> DEFINE q == [session[c] EXCEPT !.pc = "done"]
    <3>1. q \in Request /\ HandOK(q)
      BY <2>0, <2>12 DEF Persist, Checking, Adding, Request, HandOK
    <3>2. /\ session' \in [Sessions -> Request]
          /\ \A b \in Sessions : HandOK(session'[b])
      BY <2>12, <3>1, BecomesTyped DEF Persist
    <3>. QED
      BY <2>12, <3>2 DEF Persist, TypeOK
  <2>13. ASSUME Environment PROVE TypeOK'
    <3>1. Idle \in Request /\ HandOK(Idle)
      BY DEF Idle, Request, HandOK
    <3>2. ASSUME Reload
          PROVE  /\ managed' \in SUBSET Specs /\ store' \in SUBSET Specs
                 /\ session' \in [Sessions -> Request]
                 /\ \A b \in Sessions : HandOK(session'[b])
      BY <3>1, <3>2 DEF Reload, TypeOK
    <3>3. CASE Die
      BY <3>2, <3>3 DEF Die, TypeOK
    <3>4. CASE Reboot
      BY <3>2, <3>4 DEF Reboot, TypeOK
    <3>5. ASSUME NEW d \in Dests, EntryLost(d) PROVE TypeOK'
      BY <3>5 DEF EntryLost, TypeOK
    <3>6. ASSUME NEW d \in Dests, NEW via \in Vias, ForeignEntry(d, via) PROVE TypeOK'
      BY <3>6 DEF ForeignEntry, TypeOK, Entry
    <3>7. ASSUME NEW via \in Vias, DefaultChanges(via) PROVE TypeOK'
      BY <3>7 DEF DefaultChanges, TypeOK
    <3>. QED
      BY <2>13, <3>3, <3>4, <3>5, <3>6, <3>7 DEF Environment
  <2>14. CASE UNCHANGED vars
    BY <2>14 DEF TypeOK, vars
  <2>. QED
    BY <2>1, <2>2, <2>3, <2>4, <2>5, <2>6, <2>7, <2>8, <2>9, <2>10, <2>11, <2>12,
       <2>13, <2>14 DEF Next, Handler
<1>. QED
  BY <1>1, <1>2, PTL DEF Spec

-----------------------------------------------------------------------------
\* The client sends its requests one after another (NetPilotPlugin's worker queue)
\* and none has timed out.
OneAtATime == \A a, b \in Sessions : a = b

\* With one connection, an invariant of the request of that connection is one of
\* all of them.
LEMMA OnlyRequest ==
  ASSUME OneAtATime, NEW c \in Sessions,
         PhasesOK(session'[c]), HandMatches(session[c])', ProgressOK(session[c])',
         VerifiedOK(c)', DoneOK(session'[c])
  PROVE  SerialInv'
  BY DEF OneAtATime, SerialInv

\* Nothing races with the handler's changes of the inventory.
LEMMA NoRace ==
  ASSUME OneAtATime, NEW c \in Sessions, NEW rows, SetManaged(c, rows)
  PROVE  managed' = rows
  BY DEF OneAtATime, SetManaged

\* A lookup depends on the entry of its destination and on the default route.
LEMMA LookupLocal ==
  ASSUME NEW spec \in Specs, kernel'[spec.dest] = kernel[spec.dest],
         UNCHANGED defaultVia
  PROVE  /\ InForce(spec)' <=> InForce(spec)
         /\ (Owned(spec.dest) /\ Holds(spec))' <=> (Owned(spec.dest) /\ Holds(spec))
  BY DEF InForce, Lookup, Owned, Holds

\* Every step of a helper that serves one connection keeps SerialInv.
LEMMA SerialStep ==
  ASSUME OneAtATime, TypeOK, SerialInv, Next
  PROVE  SerialInv'
<1>0. \A c \in Sessions : session[c] \in Request /\ HandOK(session[c])
  BY DEF TypeOK
<1>1. ASSUME NEW c \in Sessions, NEW desired \in Requests, NEW rejected \in BOOLEAN,
             Start(c, desired, rejected)
      PROVE  SerialInv'
  <2> DEFINE q == [Idle EXCEPT
         !.pc = "work", !.desired = desired, !.current = managed,
         !.remove = managed \ desired, !.add = desired \ managed, !.check = desired,
         !.result = IF rejected THEN "errors" ELSE "ok"]
  <2>1. session'[c] = q /\ managed' = managed
    BY <1>1 DEF Start, Becomes, TypeOK
  <2>2. q.verified = {} /\ q.pc = "work" /\ q.desired = desired /\ q.current = managed
        /\ q.remove = managed \ desired /\ q.add = desired \ managed
        /\ q.check = desired
    BY DEF Idle
  <2>3. PhasesOK(session'[c])
    BY <2>1, <2>2 DEF PhasesOK
  <2>4. HandMatches(session[c])' /\ VerifiedOK(c)' /\ DoneOK(session'[c])
    BY <2>1, <2>2 DEF HandMatches, VerifiedOK, DoneOK
  <2>5. ProgressOK(session[c])'
    BY <2>1, <2>2 DEF ProgressOK
  <2>. QED
    BY <2>3, <2>4, <2>5, OnlyRequest
<1>2. ASSUME NEW c \in Sessions, Delete(c) PROVE SerialInv'
  <2>1. PICK spec \in session[c].remove :
          /\ \/ kernel' = [kernel EXCEPT ![spec.dest] = NoRoute]
             \/ Elsewhere(spec) /\ UNCHANGED kernel
          /\ Becomes(c, [session[c] EXCEPT !.pc = "forget", !.hand = {spec}])
    BY <1>2 DEF Delete
  <2>2. spec \in Specs /\ spec.dest \in Dests
    BY <1>0 DEF Request, Dests
  <2> DEFINE q == [session[c] EXCEPT !.pc = "forget", !.hand = {spec}]
  <2>3. session'[c] = q /\ managed' = managed
    BY <1>2, <2>1 DEF Delete, TypeOK, Becomes
  <2>4. /\ q.pc = "forget" /\ q.hand = {spec}
        /\ q.desired = session[c].desired /\ q.current = session[c].current
        /\ q.remove = session[c].remove /\ q.add = session[c].add
        /\ q.check = session[c].check /\ q.verified = session[c].verified
        /\ q.result = session[c].result
    BY <1>0 DEF Request
  <2>5. PhasesOK(session'[c]) /\ DoneOK(session'[c])
    BY <2>3, <2>4 DEF SerialInv, PhasesOK, DoneOK
  <2>6. ~(Owned(spec.dest) /\ Holds(spec))'
    BY <2>1, <2>2 DEF Owned, Holds, Elsewhere, TypeOK
  <2>7. HandMatches(session[c])'
    BY <2>3, <2>4, <2>6 DEF HandMatches
  <2>8. session[c].pc = "work"
    BY <1>2 DEF Delete
  <2>9. ProgressOK(session[c])'
    BY <2>3, <2>4, <2>8 DEF SerialInv, ProgressOK
  <2>10. session[c].verified = {}
    BY DEF SerialInv, PhasesOK
  <2>11. VerifiedOK(c)'
    BY <2>3, <2>4, <2>10 DEF VerifiedOK
  <2>. QED
    BY <2>5, <2>7, <2>9, <2>11, OnlyRequest
<1>3. ASSUME NEW c \in Sessions, DeleteFails(c) PROVE SerialInv'
  <2>1. PICK spec \in session[c].remove :
          Becomes(c, [session[c] EXCEPT !.remove = @ \ {spec}, !.result = "errors"])
    BY <1>3 DEF DeleteFails
  <2> DEFINE q == [session[c] EXCEPT !.remove = @ \ {spec}, !.result = "errors"]
  <2>2. session'[c] = q /\ managed' = managed /\ kernel' = kernel
        /\ defaultVia' = defaultVia /\ fresh' = fresh
    BY <1>3, <2>1 DEF DeleteFails, TypeOK, Becomes
  <2>3. /\ q.pc = session[c].pc /\ q.hand = session[c].hand
        /\ q.desired = session[c].desired /\ q.current = session[c].current
        /\ q.remove = session[c].remove \ {spec} /\ q.add = session[c].add
        /\ q.check = session[c].check /\ q.verified = session[c].verified
        /\ q.result = "errors" /\ session[c].pc = "work"
    BY <1>0, <1>3 DEF Request, DeleteFails
  <2>4. PhasesOK(session'[c]) /\ DoneOK(session'[c])
    BY <2>2, <2>3 DEF SerialInv, PhasesOK, DoneOK
  <2>5. HandMatches(session[c])' /\ ProgressOK(session[c])'
    BY <2>2, <2>3 DEF SerialInv, HandMatches, ProgressOK
  <2>6. VerifiedOK(c)'
    BY <2>2, <2>3 DEF SerialInv, VerifiedOK, InForce, Lookup
  <2>. QED
    BY <2>4, <2>5, <2>6, OnlyRequest
<1>4. ASSUME NEW c \in Sessions, Forget(c) PROVE SerialInv'
  <2> DEFINE q == [session[c] EXCEPT !.pc = "work", !.hand = {},
                                     !.remove = @ \ session[c].hand]
  <2>1. session'[c] = q /\ kernel' = kernel /\ defaultVia' = defaultVia /\ fresh' = fresh
    BY <1>4 DEF Forget, TypeOK, Becomes
  <2>2. managed' = managed \ session[c].hand
    BY <1>4, NoRace DEF Forget
  <2>3. /\ q.pc = "work" /\ q.hand = {}
        /\ q.desired = session[c].desired /\ q.current = session[c].current
        /\ q.remove = session[c].remove \ session[c].hand /\ q.add = session[c].add
        /\ q.check = session[c].check /\ q.verified = session[c].verified
        /\ q.result = session[c].result /\ session[c].pc = "forget"
    BY <1>0, <1>4 DEF Request, Forget
  <2>4. PhasesOK(session'[c]) /\ DoneOK(session'[c]) /\ HandMatches(session[c])'
    BY <2>1, <2>3 DEF SerialInv, PhasesOK, DoneOK, HandMatches
  <2>5. session[c].hand \cap session[c].desired = {}
    BY <2>3 DEF SerialInv, PhasesOK, HandMatches
  <2>6. ProgressOK(session[c])'
    BY <2>1, <2>2, <2>3, <2>5 DEF SerialInv, ProgressOK
  <2>7. VerifiedOK(c)'
    BY <2>1, <2>3 DEF SerialInv, VerifiedOK, InForce, Lookup
  <2>. QED
    BY <2>4, <2>6, <2>7, OnlyRequest
<1>5. ASSUME NEW c \in Sessions, Add(c) PROVE SerialInv'
  <2>1. PICK spec \in session[c].add :
          /\ Install(spec)
          /\ Becomes(c, [session[c] EXCEPT !.pc = "record", !.hand = {spec}])
    BY <1>5 DEF Add
  <2> DEFINE q == [session[c] EXCEPT !.pc = "record", !.hand = {spec}]
  <2>2. session'[c] = q /\ managed' = managed
    BY <1>5, <2>1 DEF Add, TypeOK, Becomes
  <2>3. /\ q.pc = "record" /\ q.hand = {spec}
        /\ q.desired = session[c].desired /\ q.current = session[c].current
        /\ q.remove = session[c].remove /\ q.add = session[c].add
        /\ q.check = session[c].check /\ q.verified = session[c].verified
        /\ q.result = session[c].result /\ session[c].pc = "work"
        /\ session[c].remove = {}
    BY <1>0, <1>5 DEF Request, Add, Adding
  <2>4. PhasesOK(session'[c]) /\ DoneOK(session'[c]) /\ HandMatches(session[c])'
    BY <2>2, <2>3 DEF SerialInv, PhasesOK, DoneOK, HandMatches
  <2>5. ProgressOK(session[c])'
    BY <2>2, <2>3 DEF SerialInv, ProgressOK
  <2>6. session[c].verified = {}
    BY DEF SerialInv, PhasesOK
  <2>7. VerifiedOK(c)'
    BY <2>2, <2>3, <2>6 DEF VerifiedOK
  <2>. QED
    BY <2>4, <2>5, <2>7, OnlyRequest
<1>6. ASSUME NEW c \in Sessions, AddFails(c) PROVE SerialInv'
  <2>1. PICK spec \in session[c].add :
          Becomes(c, [session[c] EXCEPT !.add = @ \ {spec}, !.result = "errors"])
    BY <1>6 DEF AddFails
  <2> DEFINE q == [session[c] EXCEPT !.add = @ \ {spec}, !.result = "errors"]
  <2>2. session'[c] = q /\ managed' = managed /\ kernel' = kernel
        /\ defaultVia' = defaultVia /\ fresh' = fresh
    BY <1>6, <2>1 DEF AddFails, TypeOK, Becomes
  <2>3. /\ q.pc = "work" /\ q.hand = session[c].hand
        /\ q.desired = session[c].desired /\ q.current = session[c].current
        /\ q.remove = session[c].remove /\ q.add = session[c].add \ {spec}
        /\ q.check = session[c].check /\ q.verified = session[c].verified
        /\ q.result = "errors" /\ session[c].pc = "work"
    BY <1>0, <1>6 DEF Request, AddFails, Adding
  <2>4. PhasesOK(session'[c]) /\ DoneOK(session'[c]) /\ HandMatches(session[c])'
    BY <2>2, <2>3 DEF SerialInv, PhasesOK, DoneOK, HandMatches
  <2>5. ProgressOK(session[c])'
    BY <2>2, <2>3 DEF SerialInv, ProgressOK
  <2>6. VerifiedOK(c)'
    BY <2>2, <2>3 DEF SerialInv, VerifiedOK, InForce, Lookup
  <2>. QED
    BY <2>4, <2>5, <2>6, OnlyRequest
<1>7. ASSUME NEW c \in Sessions, Record(c) PROVE SerialInv'
  <2> DEFINE q == [session[c] EXCEPT !.pc = "work", !.hand = {},
                                     !.add = @ \ session[c].hand]
  <2>1. session'[c] = q /\ kernel' = kernel /\ defaultVia' = defaultVia /\ fresh' = fresh
    BY <1>7 DEF Record, TypeOK, Becomes
  <2>2. managed' = managed \cup session[c].hand
    BY <1>7, NoRace DEF Record
  <2>3. /\ q.pc = "work" /\ q.hand = {}
        /\ q.desired = session[c].desired /\ q.current = session[c].current
        /\ q.remove = session[c].remove /\ q.add = session[c].add \ session[c].hand
        /\ q.check = session[c].check /\ q.verified = session[c].verified
        /\ q.result = session[c].result /\ session[c].pc = "record"
    BY <1>0, <1>7 DEF Request, Record
  <2>4. PhasesOK(session'[c]) /\ DoneOK(session'[c]) /\ HandMatches(session[c])'
    BY <2>1, <2>3 DEF SerialInv, PhasesOK, DoneOK, HandMatches
  <2>5. session[c].hand \subseteq session[c].desired
    BY <2>3 DEF SerialInv, PhasesOK, HandMatches
  <2>6. ProgressOK(session[c])'
    BY <2>1, <2>2, <2>3, <2>5 DEF SerialInv, ProgressOK
  <2>7. VerifiedOK(c)'
    BY <2>1, <2>3 DEF SerialInv, VerifiedOK, InForce, Lookup
  <2>. QED
    BY <2>4, <2>6, <2>7, OnlyRequest
<1>8. ASSUME NEW c \in Sessions, NEW spec \in session[c].check,
             session[c].pc \in {"work", "repair", "recheck"},
             session[c].remove = {}, session[c].add = {},
             (InForce(spec) /\ Pass(c, spec)) \/ Report(c, spec),
             UNCHANGED <<kernel, defaultVia, managed, fresh>>
      PROVE  SerialInv'
  <2>1. CASE InForce(spec) /\ Pass(c, spec)
    <3> DEFINE q == [session[c] EXCEPT !.pc = "work", !.hand = {}, !.check = @ \ {spec},
                                       !.verified = @ \cup {spec}]
    <3>1. session'[c] = q
      BY <2>1 DEF Pass, TypeOK, Becomes
    <3>2. /\ q.pc = "work" /\ q.hand = {}
          /\ q.desired = session[c].desired /\ q.current = session[c].current
          /\ q.remove = {} /\ q.add = {}
          /\ q.check = session[c].check \ {spec}
          /\ q.verified = session[c].verified \cup {spec}
          /\ q.result = session[c].result
      BY <1>0, <1>8 DEF Request
    <3>3. PhasesOK(session'[c]) /\ DoneOK(session'[c]) /\ HandMatches(session[c])'
      BY <1>8, <3>1, <3>2 DEF SerialInv, PhasesOK, DoneOK, HandMatches
    <3>4. ProgressOK(session[c])'
      BY <1>8, <3>1, <3>2 DEF SerialInv, ProgressOK
    <3>5. VerifiedOK(c)'
      BY <1>8, <2>1, <3>1, <3>2 DEF SerialInv, VerifiedOK, InForce, Lookup
    <3>. QED
      BY <3>3, <3>4, <3>5, OnlyRequest
  <2>2. CASE Report(c, spec)
    <3> DEFINE q == [session[c] EXCEPT !.pc = "work", !.hand = {}, !.check = @ \ {spec},
                                       !.result = "errors"]
    <3>1. session'[c] = q
      BY <2>2 DEF Report, TypeOK, Becomes
    <3>2. /\ q.pc = "work" /\ q.hand = {}
          /\ q.desired = session[c].desired /\ q.current = session[c].current
          /\ q.remove = {} /\ q.add = {}
          /\ q.check = session[c].check \ {spec} /\ q.verified = session[c].verified
          /\ q.result = "errors"
      BY <1>0, <1>8 DEF Request
    <3>3. PhasesOK(session'[c]) /\ DoneOK(session'[c]) /\ HandMatches(session[c])'
      BY <1>8, <3>1, <3>2 DEF SerialInv, PhasesOK, DoneOK, HandMatches
    <3>4. ProgressOK(session[c])'
      BY <1>8, <3>1, <3>2 DEF SerialInv, ProgressOK
    <3>5. VerifiedOK(c)'
      BY <1>8, <3>1, <3>2 DEF SerialInv, VerifiedOK, InForce, Lookup
    <3>. QED
      BY <3>3, <3>4, <3>5, OnlyRequest
  <2>. QED
    BY <1>8, <2>1, <2>2
<1>9. ASSUME NEW c \in Sessions, Inspect(c) PROVE SerialInv'
  <2>1. /\ session[c].pc = "work" /\ session[c].remove = {} /\ session[c].add = {}
        /\ UNCHANGED <<kernel, defaultVia, managed, fresh>>
    BY <1>9 DEF Inspect, Checking, Adding
  <2>2. PICK spec \in session[c].check :
          \/ InForce(spec) /\ Pass(c, spec)
          \/ Report(c, spec)
          \/ /\ spec \in session[c].current
             /\ Becomes(c, [session[c] EXCEPT !.pc = "repair", !.hand = {spec}])
    BY <1>9 DEF Inspect
  <2>3. CASE (InForce(spec) /\ Pass(c, spec)) \/ Report(c, spec)
    BY <1>8, <2>1, <2>3
  <2>4. CASE /\ spec \in session[c].current
             /\ Becomes(c, [session[c] EXCEPT !.pc = "repair", !.hand = {spec}])
    <3> DEFINE q == [session[c] EXCEPT !.pc = "repair", !.hand = {spec}]
    <3>1. session'[c] = q
      BY <2>4 DEF TypeOK, Becomes
    <3>2. /\ q.pc = "repair" /\ q.hand = {spec}
          /\ q.desired = session[c].desired /\ q.current = session[c].current
          /\ q.remove = {} /\ q.add = {}
          /\ q.check = session[c].check /\ q.verified = session[c].verified
          /\ q.result = session[c].result
      BY <1>0, <2>1 DEF Request
    <3>3. PhasesOK(session'[c]) /\ DoneOK(session'[c]) /\ HandMatches(session[c])'
      BY <2>1, <2>4, <3>1, <3>2 DEF SerialInv, PhasesOK, DoneOK, HandMatches
    <3>4. ProgressOK(session[c])'
      BY <2>1, <3>1, <3>2 DEF SerialInv, ProgressOK
    <3>5. VerifiedOK(c)'
      BY <2>1, <3>1, <3>2 DEF SerialInv, VerifiedOK, InForce, Lookup
    <3>. QED
      BY <3>3, <3>4, <3>5, OnlyRequest
  <2>. QED
    BY <2>2, <2>3, <2>4
<1>10. ASSUME NEW c \in Sessions, Repair(c) PROVE SerialInv'
  <2>1. PICK spec \in session[c].hand : Install(spec)
    BY <1>10 DEF Repair
  <2> DEFINE q == [session[c] EXCEPT !.pc = "recheck"]
  <2>2. session'[c] = q /\ managed' = managed /\ fresh' = fresh /\ defaultVia' = defaultVia
    BY <1>10 DEF Repair, TypeOK, Becomes
  <2>3. /\ q.pc = "recheck" /\ q.hand = session[c].hand
        /\ q.desired = session[c].desired /\ q.current = session[c].current
        /\ q.remove = session[c].remove /\ q.add = session[c].add
        /\ q.check = session[c].check /\ q.verified = session[c].verified
        /\ q.result = session[c].result /\ session[c].pc = "repair"
    BY <1>0, <1>10 DEF Request, Repair
  <2>4. PhasesOK(session'[c]) /\ DoneOK(session'[c]) /\ HandMatches(session[c])'
    BY <2>2, <2>3 DEF SerialInv, PhasesOK, DoneOK, HandMatches
  <2>5. ProgressOK(session[c])'
    BY <2>2, <2>3 DEF SerialInv, ProgressOK
  <2>6. VerifiedOK(c)'
    <3> SUFFICES ASSUME c \in fresh, NEW t \in session[c].verified PROVE InForce(t)'
      BY <2>2, <2>3 DEF VerifiedOK
    <3>1. spec \in session[c].check /\ spec \in session[c].desired
      BY <2>3 DEF SerialInv, PhasesOK, HandMatches
    <3>2. t \in session[c].desired /\ t # spec /\ t \in Specs
      BY <1>0, <3>1 DEF SerialInv, PhasesOK, Request
    <3>3. t.dest # spec.dest
      BY <3>1, <3>2 DEF SerialInv, PhasesOK, Requests
    <3>4. kernel'[t.dest] = kernel[t.dest]
      BY <2>1, <3>2, <3>3 DEF Install, TypeOK, Dests
    <3>5. InForce(t)
      BY DEF SerialInv, VerifiedOK
    <3>. QED
      BY <2>2, <3>2, <3>4, <3>5, LookupLocal
  <2>. QED
    BY <2>4, <2>5, <2>6, OnlyRequest
<1>11. ASSUME NEW c \in Sessions, RepairFails(c) \/ Recheck(c) PROVE SerialInv'
  <2>1. /\ session[c].pc \in {"repair", "recheck"}
        /\ UNCHANGED <<kernel, defaultVia, managed, fresh>>
    BY <1>11 DEF RepairFails, Recheck
  <2>2. PICK spec \in session[c].hand : (InForce(spec) /\ Pass(c, spec)) \/ Report(c, spec)
    BY <1>11 DEF RepairFails, Recheck
  <2>3. spec \in session[c].check /\ session[c].remove = {} /\ session[c].add = {}
    BY <2>1 DEF SerialInv, HandMatches
  <2>. QED
    BY <1>8, <2>1, <2>2, <2>3
<1>12. ASSUME NEW c \in Sessions, Persist(c) PROVE SerialInv'
  <2> DEFINE q == [session[c] EXCEPT !.pc = "done"]
  <2>1. session'[c] = q /\ managed' = managed /\ kernel' = kernel
        /\ defaultVia' = defaultVia /\ fresh' = fresh
    BY <1>12 DEF Persist, TypeOK, Becomes
  <2>2. /\ q.pc = "done" /\ q.hand = session[c].hand
        /\ q.desired = session[c].desired /\ q.current = session[c].current
        /\ q.remove = session[c].remove /\ q.add = session[c].add
        /\ q.check = session[c].check /\ q.verified = session[c].verified
        /\ q.result = session[c].result /\ session[c].pc = "work"
        /\ session[c].remove = {} /\ session[c].check = {}
    BY <1>0, <1>12 DEF Request, Persist, Checking, Adding
  <2>3. PhasesOK(session'[c]) /\ DoneOK(session'[c]) /\ HandMatches(session[c])'
    BY <2>1, <2>2 DEF SerialInv, PhasesOK, DoneOK, HandMatches
  <2>4. ProgressOK(session[c])'
    BY <2>1, <2>2 DEF SerialInv, ProgressOK
  <2>5. VerifiedOK(c)'
    BY <2>1, <2>2 DEF SerialInv, VerifiedOK, InForce, Lookup
  <2>. QED
    BY <2>3, <2>4, <2>5, OnlyRequest
<1>13. ASSUME Die \/ Reboot PROVE SerialInv'
  <2>1. \A c \in Sessions : session'[c] = Idle
    BY <1>13 DEF Die, Reboot, Reload
  <2>. QED
    BY <2>1 DEF SerialInv, Idle, PhasesOK, HandMatches, ProgressOK, VerifiedOK, DoneOK,
                Requests
<1>14. ASSUME fresh' = {}, UNCHANGED <<managed, session>>,
              \A d \in Dests : (~Owned(d))' \/ kernel'[d] = kernel[d]
       PROVE  SerialInv'
  <2> SUFFICES ASSUME NEW c \in Sessions
               PROVE  HandMatches(session[c])' /\ VerifiedOK(c)'
    BY <1>14 DEF SerialInv, PhasesOK, ProgressOK, DoneOK
  <2>1. \A spec \in session[c].hand : spec.dest \in Dests
    BY <1>0 DEF Request, Dests
  <2>2. HandMatches(session[c])'
    BY <1>14, <2>1 DEF SerialInv, HandMatches, Owned, Holds
  <2>. QED
    BY <1>14, <2>2 DEF VerifiedOK
<1>15. ASSUME NEW d \in Dests, EntryLost(d) PROVE SerialInv'
  BY <1>14, <1>15 DEF EntryLost, Owned, TypeOK
<1>16. ASSUME NEW d \in Dests, NEW via \in Vias, ForeignEntry(d, via) PROVE SerialInv'
  BY <1>14, <1>16 DEF ForeignEntry, Owned, TypeOK
<1>17. ASSUME NEW via \in Vias, DefaultChanges(via) PROVE SerialInv'
  BY <1>14, <1>17 DEF DefaultChanges
<1>. QED
  BY <1>1, <1>2, <1>3, <1>4, <1>5, <1>6, <1>7, <1>9, <1>10, <1>11, <1>12, <1>13,
     <1>15, <1>16, <1>17 DEF Next, Handler, Environment

\* With one connection at a time SerialInv always holds: the handler's lists of
\* work, the command it has run and the inventory agree at every step.
THEOREM SerialCorrect == OneAtATime => (Spec => []SerialInv)
<1> SUFFICES ASSUME OneAtATime PROVE Spec => []SerialInv
  OBVIOUS
<1>1. Init => SerialInv
  BY DEF Init, Idle, SerialInv, PhasesOK, HandMatches, ProgressOK, VerifiedOK, DoneOK,
         Requests
<1>2. TypeOK /\ SerialInv /\ UNCHANGED vars => SerialInv'
  BY DEF vars, SerialInv, PhasesOK, HandMatches, ProgressOK, VerifiedOK, DoneOK,
         InForce, Lookup, Owned, Holds
<1>3. TypeOK /\ SerialInv /\ [Next]_vars => SerialInv'
  BY <1>2, SerialStep
<1>. QED
  BY <1>1, <1>3, TypeCorrect, PTL DEF Spec

-----------------------------------------------------------------------------
\* A verified check is true for as long as nobody else touches the table, even
\* when other parts of the request failed: rules are marked Applied from it.
THEOREM VerifiedCorrect == OneAtATime => (Spec => []VerifiedMeansInForce)
<1>1. SerialInv => VerifiedMeansInForce
  BY DEF SerialInv, VerifiedOK, VerifiedMeansInForce, Answered
<1>. QED
  BY <1>1, SerialCorrect, PTL

\* An answer without errors means that every wanted route is in force, whatever
\* the table and the inventory held when the request came.
THEOREM OkCorrect == OneAtATime => (Spec => []OkMeansInForce)
<1>1. SerialInv => OkMeansInForce
  <2> SUFFICES ASSUME SerialInv, NEW c \in Sessions, AnsweredOk(c),
                      NEW spec \in session[c].desired
               PROVE  InForce(spec)
    BY DEF OkMeansInForce
  <2>1. c \in fresh /\ session[c].pc = "done" /\ session[c].result = "ok"
    BY DEF AnsweredOk, Answered
  <2>2. session[c].check = {}
    BY <2>1 DEF SerialInv, DoneOK
  <2>3. spec \in session[c].verified
    BY <2>1, <2>2 DEF SerialInv, ProgressOK
  <2>. QED
    BY <2>1, <2>3 DEF SerialInv, VerifiedOK
<1>. QED
  BY <1>1, SerialCorrect, PTL

-----------------------------------------------------------------------------
\* With one connection, the rows are the inventory and the route that connection
\* is about to record.
LEMMA RowsOfOne ==
  ASSUME OneAtATime, NEW c \in Sessions
  PROVE  Rows = managed \cup (IF session[c].pc = "record" THEN session[c].hand ELSE {})
<1>1. {b \in Sessions : session[b].pc = "record"} =
        IF session[c].pc = "record" THEN {c} ELSE {}
  BY DEF OneAtATime
<1>. QED
  BY <1>1 DEF Rows

\* A step that leaves the rows alone and each entry as it was, or gone, or
\* somebody else's, orphans nothing.
LEMMA OrphansLocal ==
  ASSUME Rows' = Rows,
         \A d \in Dests : (~Owned(d))' \/ kernel'[d] = kernel[d]
  PROVE  Orphaned' \subseteq Orphaned
  BY DEF Orphaned, Owned, Holds

\* Installing a route that has, or now gets, a row orphans nothing.
LEMMA InstallOrphans ==
  ASSUME TypeOK, NEW spec \in Specs, Install(spec), spec \in Rows', Rows \subseteq Rows'
  PROVE  Orphaned' \subseteq Orphaned
<1> SUFFICES ASSUME NEW d \in Dests, d \in Orphaned' PROVE d \in Orphaned
  BY DEF Orphaned
<1>1. CASE d = spec.dest
  <2>1. kernel'[d] = [via |-> Via(spec), by |-> "helper"]
    BY <1>1 DEF Install, TypeOK
  <2>2. Holds(spec)'
    BY <1>1, <2>1, [via |-> Via(spec), by |-> "helper"] \in Entry DEF Holds, Entry, Via
  <2>. QED
    BY <1>1, <2>2 DEF Orphaned
<1>2. CASE d # spec.dest
  <2>1. kernel'[d] = kernel[d]
    BY <1>2 DEF Install, TypeOK
  <2>. QED
    BY <2>1 DEF Orphaned, Owned, Holds
<1>. QED
  BY <1>1, <1>2

\* Where a step of the handler leaves the request: only the write of the file ends
\* it, and only an add leaves a route to be recorded.
LEMMA PcStep ==
  ASSUME TypeOK, NEW c \in Sessions, Handler(c)
  PROVE  /\ session'[c].pc # "idle"
         /\ Persist(c) \/ session'[c].pc # "done"
         /\ Add(c) \/ session'[c].pc # "record"
<1>0. session[c] \in Request
  BY DEF TypeOK
<1>1. ASSUME NEW q, Becomes(c, q) PROVE session'[c] = q
  BY <1>1 DEF Becomes, TypeOK
<1>2. ASSUME NEW spec, Pass(c, spec) PROVE session'[c].pc = "work"
  <2> DEFINE q == [session[c] EXCEPT !.pc = "work", !.hand = {}, !.check = @ \ {spec},
                                     !.verified = @ \cup {spec}]
  <2>1. q.pc = "work"
    BY <1>0 DEF Request
  <2>. QED
    BY <1>1, <1>2, <2>1 DEF Pass
<1>3. ASSUME NEW spec, Report(c, spec) PROVE session'[c].pc = "work"
  <2> DEFINE q == [session[c] EXCEPT !.pc = "work", !.hand = {}, !.check = @ \ {spec},
                                     !.result = "errors"]
  <2>1. q.pc = "work"
    BY <1>0 DEF Request
  <2>. QED
    BY <1>1, <1>3, <2>1 DEF Report
<1>4. CASE Delete(c)
  <2>1. PICK spec \in session[c].remove :
          Becomes(c, [session[c] EXCEPT !.pc = "forget", !.hand = {spec}])
    BY <1>4 DEF Delete
  <2> DEFINE q == [session[c] EXCEPT !.pc = "forget", !.hand = {spec}]
  <2>2. q.pc = "forget"
    BY <1>0 DEF Request
  <2>. QED
    BY <1>1, <2>1, <2>2
<1>5. CASE DeleteFails(c)
  <2>1. PICK spec \in session[c].remove :
          Becomes(c, [session[c] EXCEPT !.remove = @ \ {spec}, !.result = "errors"])
    BY <1>5 DEF DeleteFails
  <2> DEFINE q == [session[c] EXCEPT !.remove = @ \ {spec}, !.result = "errors"]
  <2>2. q.pc = "work"
    BY <1>0, <1>5 DEF Request, DeleteFails
  <2>. QED
    BY <1>1, <2>1, <2>2
<1>6. CASE Forget(c)
  <2> DEFINE q == [session[c] EXCEPT !.pc = "work", !.hand = {},
                                     !.remove = @ \ session[c].hand]
  <2>1. q.pc = "work"
    BY <1>0 DEF Request
  <2>. QED
    BY <1>1, <1>6, <2>1 DEF Forget
<1>7. CASE AddFails(c)
  <2>1. PICK spec \in session[c].add :
          Becomes(c, [session[c] EXCEPT !.add = @ \ {spec}, !.result = "errors"])
    BY <1>7 DEF AddFails
  <2> DEFINE q == [session[c] EXCEPT !.add = @ \ {spec}, !.result = "errors"]
  <2>2. q.pc = "work"
    BY <1>0, <1>7 DEF Request, AddFails, Adding
  <2>. QED
    BY <1>1, <2>1, <2>2
<1>8. CASE Add(c)
  <2>1. PICK spec \in session[c].add :
          Becomes(c, [session[c] EXCEPT !.pc = "record", !.hand = {spec}])
    BY <1>8 DEF Add
  <2> DEFINE q == [session[c] EXCEPT !.pc = "record", !.hand = {spec}]
  <2>2. q.pc = "record"
    BY <1>0 DEF Request
  <2>. QED
    BY <1>1, <1>8, <2>1, <2>2
<1>9. CASE Record(c)
  <2> DEFINE q == [session[c] EXCEPT !.pc = "work", !.hand = {},
                                     !.add = @ \ session[c].hand]
  <2>1. q.pc = "work"
    BY <1>0 DEF Request
  <2>. QED
    BY <1>1, <1>9, <2>1 DEF Record
<1>10. CASE Inspect(c)
  <2>1. PICK spec \in session[c].check :
          \/ Pass(c, spec)
          \/ Becomes(c, [session[c] EXCEPT !.pc = "repair", !.hand = {spec}])
          \/ Report(c, spec)
    BY <1>10 DEF Inspect
  <2> DEFINE q == [session[c] EXCEPT !.pc = "repair", !.hand = {spec}]
  <2>2. q.pc = "repair"
    BY <1>0 DEF Request
  <2>. QED
    BY <1>1, <1>2, <1>3, <2>1, <2>2
<1>11. CASE Repair(c)
  <2> DEFINE q == [session[c] EXCEPT !.pc = "recheck"]
  <2>1. q.pc = "recheck"
    BY <1>0 DEF Request
  <2>. QED
    BY <1>1, <1>11, <2>1 DEF Repair
<1>12. CASE RepairFails(c) \/ Recheck(c)
  BY <1>2, <1>3, <1>12 DEF RepairFails, Recheck
<1>13. CASE Persist(c)
  <2> DEFINE q == [session[c] EXCEPT !.pc = "done"]
  <2>1. q.pc = "done"
    BY <1>0 DEF Request
  <2>. QED
    BY <1>1, <1>13, <2>1 DEF Persist
<1>. QED
  BY <1>4, <1>5, <1>6, <1>7, <1>8, <1>9, <1>10, <1>11, <1>12, <1>13 DEF Handler

\* Only a reload, by a death or a reboot, can orphan an entry.
LEMMA OrphanStep ==
  ASSUME OneAtATime, TypeOK, SerialInv, Next, ~Die, ~Reboot
  PROVE  Orphaned' \subseteq Orphaned
<1>0. \A c \in Sessions : session[c] \in Request
  BY DEF TypeOK
<1>1. ASSUME NEW c \in Sessions, NEW q \in Request, Becomes(c, q),
             session[c].pc # "record", q.pc # "record",
             UNCHANGED managed,
             \A d \in Dests : kernel'[d] = NoRoute \/ kernel'[d] = kernel[d]
      PROVE  Orphaned' \subseteq Orphaned
  <2>1. session'[c].pc = q.pc
    BY <1>1 DEF Becomes, TypeOK
  <2>2. Rows = managed
    BY <1>1, RowsOfOne
  <2>3. Rows' = managed'
    <3>1. {b \in Sessions : session'[b].pc = "record"} = {}
      BY <1>1, <2>1 DEF OneAtATime
    <3>. QED
      BY <3>1 DEF Rows
  <2>. QED
    BY <1>1, <2>2, <2>3, OrphansLocal DEF Owned
<1>2. ASSUME NEW c \in Sessions, NEW desired \in Requests, NEW rejected \in BOOLEAN,
             Start(c, desired, rejected)
      PROVE  Orphaned' \subseteq Orphaned
  <2> DEFINE q == [Idle EXCEPT
         !.pc = "work", !.desired = desired, !.current = managed,
         !.remove = managed \ desired, !.add = desired \ managed, !.check = desired,
         !.result = IF rejected THEN "errors" ELSE "ok"]
  <2>1. q \in Request /\ q.pc = "work"
    BY DEF TypeOK, Idle, Request, Requests
  <2>. QED
    BY <1>1, <1>2, <2>1 DEF Start
<1>3. ASSUME NEW c \in Sessions, Delete(c) PROVE Orphaned' \subseteq Orphaned
  <2>1. PICK spec \in session[c].remove :
          /\ \/ kernel' = [kernel EXCEPT ![spec.dest] = NoRoute]
             \/ UNCHANGED kernel
          /\ Becomes(c, [session[c] EXCEPT !.pc = "forget", !.hand = {spec}])
    BY <1>3 DEF Delete
  <2> DEFINE q == [session[c] EXCEPT !.pc = "forget", !.hand = {spec}]
  <2>2. q \in Request /\ q.pc = "forget"
    <3>1. spec \in Specs
      BY <1>0 DEF Request
    <3>. QED
      BY <1>0, <3>1 DEF Request
  <2>3. \A d \in Dests : kernel'[d] = NoRoute \/ kernel'[d] = kernel[d]
    BY <2>1 DEF TypeOK
  <2>. QED
    BY <1>1, <1>3, <2>1, <2>2, <2>3 DEF Delete
<1>4. ASSUME NEW c \in Sessions, Forget(c) PROVE Orphaned' \subseteq Orphaned
  <2>1. managed' = managed \ session[c].hand /\ kernel' = kernel
    BY <1>4, NoRace DEF Forget
  <2>2. Rows = managed /\ session[c].pc = "forget"
    BY <1>4, RowsOfOne DEF Forget
  <2>3. managed' \subseteq Rows'
    BY DEF Rows
  <2>4. \A spec \in session[c].hand : ~(Owned(spec.dest) /\ Holds(spec))
    BY <2>2 DEF SerialInv, HandMatches
  <2>. QED
    BY <2>1, <2>2, <2>3, <2>4 DEF Orphaned, Owned, Holds
<1>5. ASSUME NEW c \in Sessions, Add(c) PROVE Orphaned' \subseteq Orphaned
  <2>1. PICK spec \in session[c].add :
          /\ Install(spec)
          /\ Becomes(c, [session[c] EXCEPT !.pc = "record", !.hand = {spec}])
    BY <1>5 DEF Add
  <2>2. session'[c].pc = "record" /\ session'[c].hand = {spec} /\ managed' = managed
    BY <1>0, <1>5, <2>1 DEF Add, Becomes, Request, TypeOK
  <2>3. spec \in Rows' /\ managed' \subseteq Rows'
    BY <2>2 DEF Rows
  <2>4. Rows = managed
    BY <1>5, RowsOfOne DEF Add, Adding
  <2>. QED
    BY <1>0, <2>1, <2>2, <2>3, <2>4, InstallOrphans DEF Request
<1>6. ASSUME NEW c \in Sessions, Record(c) PROVE Orphaned' \subseteq Orphaned
  <2>1. managed' = managed \cup session[c].hand /\ kernel' = kernel
    BY <1>6, NoRace DEF Record
  <2>2. Rows = managed \cup session[c].hand
    BY <1>6, RowsOfOne DEF Record
  <2>3. managed' \subseteq Rows'
    BY DEF Rows
  <2>. QED
    BY <2>1, <2>2, <2>3 DEF Orphaned, Owned, Holds
<1>7. ASSUME NEW c \in Sessions, Repair(c) PROVE Orphaned' \subseteq Orphaned
  <2>1. PICK spec \in session[c].hand : Install(spec)
    BY <1>7 DEF Repair
  <2>2. session[c].pc = "repair" /\ managed' = managed
    BY <1>7 DEF Repair
  <2>3. spec \in managed
    BY <2>2 DEF SerialInv, HandMatches, PhasesOK, ProgressOK
  <2>4. Rows = managed
    BY <2>2, RowsOfOne
  <2>5. managed' \subseteq Rows'
    BY DEF Rows
  <2>. QED
    BY <2>1, <2>2, <2>3, <2>4, <2>5, InstallOrphans DEF TypeOK
<1>8. ASSUME NEW c \in Sessions,
             DeleteFails(c) \/ AddFails(c) \/ Inspect(c) \/ RepairFails(c) \/ Recheck(c)
               \/ Persist(c)
      PROVE  Orphaned' \subseteq Orphaned
  <2>1. kernel' = kernel /\ managed' = managed /\ session[c].pc # "record"
    BY <1>8 DEF DeleteFails, AddFails, Inspect, RepairFails, Recheck, Persist, Checking,
                Adding
  <2>2. session'[c].pc # "record"
    <3>1. ASSUME NEW spec \in Specs, Install(spec), kernel[spec.dest] = NoRoute
          PROVE  FALSE
      <4>1. [via |-> Via(spec), by |-> "helper"] \in Entry
        BY DEF Via, Entry
      <4>2. kernel'[spec.dest] = [via |-> Via(spec), by |-> "helper"]
        BY <3>1 DEF Install, TypeOK, Dests
      <4>. QED
        BY <2>1, <3>1, <4>1, <4>2
    <3>2. ~Add(c)
      BY <1>0, <3>1 DEF Add, Request
    <3>. QED
      BY <1>8, <3>2, PcStep DEF Handler
  <2>3. Rows = managed
    BY <2>1, RowsOfOne
  <2>4. {b \in Sessions : session'[b].pc = "record"} = {}
    BY <2>2 DEF OneAtATime
  <2>5. Rows' = managed'
    BY <2>4 DEF Rows
  <2>. QED
    BY <2>1, <2>3, <2>5, OrphansLocal
<1>9. ASSUME UNCHANGED <<managed, session>>,
             \A d \in Dests : (~Owned(d))' \/ kernel'[d] = kernel[d]
      PROVE  Orphaned' \subseteq Orphaned
  <2>1. Rows' = Rows
    BY <1>9 DEF Rows
  <2>. QED
    BY <1>9, <2>1, OrphansLocal
<1>10. ASSUME NEW d \in Dests, EntryLost(d) PROVE Orphaned' \subseteq Orphaned
  BY <1>9, <1>10 DEF EntryLost, Owned, TypeOK
<1>11. ASSUME NEW d \in Dests, NEW via \in Vias, ForeignEntry(d, via)
       PROVE  Orphaned' \subseteq Orphaned
  BY <1>9, <1>11 DEF ForeignEntry, Owned, TypeOK
<1>12. ASSUME NEW via \in Vias, DefaultChanges(via) PROVE Orphaned' \subseteq Orphaned
  BY <1>9, <1>12 DEF DefaultChanges
<1>. QED
  BY <1>2, <1>3, <1>4, <1>5, <1>6, <1>7, <1>8, <1>10, <1>11, <1>12
  DEF Next, Handler, Environment

\* A new process has no command in hand: its rows are the file's.
LEMMA ReloadRows ==
  ASSUME Reload
  PROVE  managed' = store /\ Rows' = store
<1>1. {b \in Sessions : session'[b].pc = "record"} = {}
  BY DEF Reload, Idle
<1>. QED
  BY <1>1 DEF Reload, Rows

\* The inventory never loses track of a route while the helper lives.
THEOREM OrphansCorrect == OneAtATime => (Spec => OrphansOnlyByReload)
<1> SUFFICES ASSUME OneAtATime PROVE Spec => OrphansOnlyByReload
  OBVIOUS
<1> DEFINE Step == Orphaned' \subseteq Orphaned \/ (managed' = store /\ Rows # store)
<1>1. TypeOK /\ SerialInv /\ Next => Step
  <2> SUFFICES ASSUME TypeOK, SerialInv, Next PROVE Step
    OBVIOUS
  <2>1. CASE Die \/ Reboot
    <3>1. managed' = store /\ Rows' = store
      BY <2>1, ReloadRows DEF Die, Reboot
    <3>2. \A d \in Dests : (~Owned(d))' \/ kernel'[d] = kernel[d]
      BY <2>1 DEF Die, Reboot, Owned
    <3>. QED
      BY <3>1, <3>2, OrphansLocal
  <2>. QED
    BY <2>1, OrphanStep
<1>2. TypeOK /\ SerialInv /\ [Next]_vars => [Step]_vars
  BY <1>1
<1>3. Spec => []SerialInv
  BY SerialCorrect
<1>. QED
  BY <1>2, <1>3, TypeCorrect, PTL DEF Spec, OrphansOnlyByReload

-----------------------------------------------------------------------------
\* The helper is not killed within a request, and its writes succeed.
NoDeathNoLoss == "death" \notin Faults /\ "persist" \notin Faults

\* Between requests the file is the inventory, so that a restart loses nothing.
FileInv ==
  /\ Orphaned = {}
  /\ (\A c \in Sessions : ~Serving(c)) => store = managed

\* After a step of a request its connection is still being served, but for the
\* step that writes the file.
LEMMA FileStep ==
  ASSUME OneAtATime, NoDeathNoLoss, TypeOK, SerialInv, FileInv, Next
  PROVE  FileInv'
<1>0. \A c \in Sessions : session[c] \in Request
  BY DEF TypeOK
<1>1. ASSUME NEW c \in Sessions, session'[c].pc \notin {"idle", "done"},
             Orphaned' \subseteq Orphaned
      PROVE  FileInv'
  BY <1>1 DEF FileInv, Serving
<1>2. ASSUME NEW c \in Sessions, NEW q, Becomes(c, q) PROVE session'[c] = q
  BY <1>2 DEF Becomes, TypeOK
<1>3. ASSUME NEW c \in Sessions, NEW desired \in Requests, NEW rejected \in BOOLEAN,
             Start(c, desired, rejected), ~Die, ~Reboot
      PROVE  FileInv'
  <2> DEFINE q == [Idle EXCEPT
         !.pc = "work", !.desired = desired, !.current = managed,
         !.remove = managed \ desired, !.add = desired \ managed, !.check = desired,
         !.result = IF rejected THEN "errors" ELSE "ok"]
  <2>0. q.pc = "work"
    BY DEF Idle
  <2>1. session'[c].pc = "work"
    BY <1>2, <1>3, <2>0 DEF Start
  <2>. QED
    BY <1>1, <1>3, <2>1, OrphanStep
<1>4. ASSUME NEW c \in Sessions, Handler(c), ~Persist(c), ~Die, ~Reboot PROVE FileInv'
  <2>1. session'[c].pc \notin {"idle", "done"}
    BY <1>4, PcStep
  <2>. QED
    BY <1>1, <1>4, <2>1, OrphanStep DEF Handler
<1>5. ASSUME NEW c \in Sessions, Persist(c), ~Die, ~Reboot PROVE FileInv'
  <2>1. store' = managed' 
    BY <1>5 DEF Persist, NoDeathNoLoss
  <2>. QED
    BY <1>5, <2>1, OrphanStep DEF FileInv
<1>6. ASSUME Environment, ~Die, ~Reboot PROVE FileInv'
  <2>1. UNCHANGED <<managed, store, session>>
    BY <1>6 DEF Environment, EntryLost, ForeignEntry, DefaultChanges
  <2>. QED
    BY <1>6, <2>1, OrphanStep DEF FileInv, Serving
<1>7. CASE Die
  <2>1. (\A c \in Sessions : ~Serving(c)) /\ kernel' = kernel /\ Reload
    BY <1>7 DEF Die, NoDeathNoLoss
  <2>2. managed' = store /\ Rows' = store /\ store' = store
    BY <2>1, ReloadRows DEF Reload
  <2>3. {b \in Sessions : session[b].pc = "record"} = {}
    BY <2>1 DEF Serving
  <2>4. Rows = managed /\ store = managed
    BY <2>1, <2>3 DEF Rows, FileInv
  <2>. QED
    BY <2>1, <2>2, <2>4, OrphansLocal DEF FileInv
<1>8. CASE Reboot
  <2>1. \A d \in Dests : ~Owned(d)'
    BY <1>8 DEF Reboot, Owned
  <2>2. managed' = store'
    BY <1>8 DEF Reboot, Reload
  <2>. QED
    BY <2>1, <2>2 DEF FileInv, Orphaned
<1>. QED
  BY <1>3, <1>4, <1>5, <1>6, <1>7, <1>8 DEF Next

\* ... and it holds from the start.
LEMMA FileCorrect == OneAtATime /\ NoDeathNoLoss => (Spec => []FileInv)
<1> SUFFICES ASSUME OneAtATime, NoDeathNoLoss PROVE Spec => []FileInv
  OBVIOUS
<1>1. Init => FileInv
  BY DEF Init, FileInv, Orphaned, Owned
<1>2. TypeOK /\ SerialInv /\ FileInv /\ [Next]_vars => FileInv'
  <2>1. FileInv /\ UNCHANGED vars => FileInv'
    BY DEF vars, FileInv, Orphaned, Owned, Holds, Rows, Serving
  <2>. QED
    BY <2>1, FileStep
<1>3. Spec => []SerialInv
  BY SerialCorrect
<1>. QED
  BY <1>1, <1>2, <1>3, TypeCorrect, PTL DEF Spec

\* No kernel entry is ever orphaned when the helper is not killed within a request.
THEOREM NothingOrphanedCorrect ==
  OneAtATime /\ NoDeathNoLoss => (Spec => []NothingOrphaned)
<1>1. FileInv => NothingOrphaned
  BY DEF FileInv, NothingOrphaned
<1>. QED
  BY <1>1, FileCorrect, PTL

\* An answer without errors leaves no entry of the helper's but the ones asked for:
\* the route of a disabled or deleted rule is gone.
THEOREM OkLeavesCorrect ==
  OneAtATime /\ NoDeathNoLoss => (Spec => []OkLeavesNothingElse)
<1> SUFFICES ASSUME OneAtATime, NoDeathNoLoss PROVE Spec => []OkLeavesNothingElse
  OBVIOUS
<1>1. SerialInv /\ FileInv => OkLeavesNothingElse
  <2> SUFFICES ASSUME SerialInv, FileInv, NEW c \in Sessions, AnsweredOk(c),
                      NEW d \in Dests, Owned(d)
               PROVE  \E spec \in session[c].desired : spec.dest = d /\ Holds(spec)
    BY DEF OkLeavesNothingElse
  <2>1. session[c].pc = "done" /\ session[c].result = "ok"
    BY DEF AnsweredOk, Answered
  <2>2. Rows = managed
    BY <2>1, RowsOfOne
  <2>3. PICK spec \in managed : spec.dest = d /\ Holds(spec)
    BY <2>2 DEF FileInv, Orphaned
  <2>4. managed \subseteq session[c].desired
    BY <2>1 DEF SerialInv, ProgressOK, DoneOK
  <2>. QED
    BY <2>3, <2>4
<1>2. Spec => []SerialInv /\ []FileInv
  BY SerialCorrect, FileCorrect, PTL
<1>. QED
  BY <1>1, <1>2, PTL
=============================================================================
