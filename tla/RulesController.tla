-------------------------- MODULE RulesController --------------------------
(***************************************************************************)
(* NetPilotController: the destination rules, the operations of the UI on  *)
(* them, and the chain of applies that carries them to the helper.         *)
(*                                                                         *)
(* Dart runs one isolate: code between two awaits is atomic, and anything  *)
(* may run during an await.  An operation is a task; its pc names the      *)
(* await it is in, and its step does what follows that await.  applyAll    *)
(* appends to a chain of futures: the applies run one after another, and a *)
(* save waits for its own before it scans the page.                        *)
(*                                                                         *)
(* The native side is the contract HelperRoutes is shown to keep: a reply  *)
(* without errors means the table is what was asked for, a verified check  *)
(* means that route is in force.  A request that is not answered in time   *)
(* goes on in the helper, beside the requests that follow it.              *)
(*                                                                         *)
(* Abstractions: rules carry no LAN pin (hostIpv4 = null), so that the     *)
(* hosts request of an apply asks for nothing and can only succeed or      *)
(* throw; an import brings one rule without sub-rules; consecutive awaits  *)
(* with nothing but a check between them are one; labels, times, messages  *)
(* and the scan status are left out, and so is the file the rules are      *)
(* written to (the await of the write is kept).                            *)
(*                                                                         *)
(* A definition whose name starts with Bug is not part of the model: it is *)
(* the definition after it with a plausible mistake, for mutation checks.  *)
(***************************************************************************)
EXTENDS RoutePlan, FiniteSets, Sequences

CONSTANTS
  RuleIds,       \* identifiers of rules: naturals
  TaskIds,       \* room for operations that are under way at once
  Destinations,  \* what a rule may name: [kind, destination]
  Ifaces,
  Gateways,      \* gateways an interface may have, NoGateway for none
  Answers,       \* name -> the sets of addresses a resolver may return for it
  Found,         \* URL -> the sub-rules a scan of it may find: [id, kind, destination]
  Modes,         \* the routing modes in use, of "custom" and "default"
  Operations,    \* the operations the user makes
  Faults,        \* the failures that happen
  MaxQueue,      \* bound: the user acts only while fewer applies are waiting
  MaxLate,       \* bound: the unanswered requests that are at work at once
  NoRule,
  NoTask

ASSUME ModesAssumption == Modes \subseteq {"custom", "default"}
ASSUME OperationsAssumption ==
  Operations \subseteq {"save", "toggle", "toggleSub", "delete", "refresh", "import",
                        "mode", "reapply"}
ASSUME RulesFaultsAssumption == Faults \subseteq {"helper", "timeout", "hosts", "write"}

VARIABLES
  rules,     \* _rules, by id
  mode,      \* _routingMode
  gateways,  \* _interfaces: the gateway of each interface
  tasks,     \* operations under way
  token,     \* _ruleSaveOperations: the newest save of each rule
  queue,     \* _applyChain: for each apply not finished, the task awaiting it
  apply,     \* the apply at the head of the queue
  table,     \* the routes the helper holds
  late,      \* the unanswered requests the helper is still at work on: what each asks for
  beside,    \* history: there were some when the last request was made
  asked      \* history: what the user has last asked for, by rule

vars == <<rules, mode, gateways, tasks, token, queue, apply, table, late, beside, asked>>

-----------------------------------------------------------------------------
Statuses == {"pending", "applied", "unresolved", "error"}

\* The rules there are.
Live(rs) == {rs[r] : r \in {i \in RuleIds : rs[i] # NoRule}}

\* The rules as planFromRules sees them: each with the gateway of its interface.
Planned(rs) ==
  {[id |-> rule.id, kind |-> rule.kind, destination |-> rule.destination,
    ips |-> rule.ips, iface |-> rule.iface, enabled |-> rule.enabled,
    subs |-> rule.subs, gateway |-> gateways[rule.iface]] : rule \in Live(rs)}

\* Names are resolved; an address is its own answer, and a CIDR needs none.
Named(entry) == entry.kind \in {"hostname", "url"}

Resolutions(entry) ==
  CASE Named(entry) -> Answers[entry.destination]
    [] entry.kind = "ipv4" -> {{entry.destination}}
    [] entry.kind = "cidr" -> {{}}

\* One answer for each entry.
Resolved(entries) ==
  {ips \in [entries -> UNION {Resolutions(e) : e \in entries}] :
     \A e \in entries : ips[e] \in Resolutions(e)}

\* The status of an entry that has just been resolved.
ResolvedStatus(entry, ips) ==
  IF Named(entry) /\ ips = {} THEN "unresolved" ELSE "pending"

\* Every rule of rs changed by F, every sub-rule S of it by G.
EachRule(rs, F(_)) == [r \in RuleIds |-> IF rs[r] = NoRule THEN NoRule ELSE F(rs[r])]
EachSub(rule, G(_)) == [rule EXCEPT !.subs = {G(sub) : sub \in @}]

\* applyAll failed as a whole: an error on every enabled rule and sub-rule of one.
AllFail(rs) ==
  LET FailSub(sub) == IF sub.enabled THEN [sub EXCEPT !.status = "error"] ELSE sub
      FailRule(rule) ==
        IF rule.enabled THEN [EachSub(rule, FailSub) EXCEPT !.status = "error"] ELSE rule
  IN EachRule(rs, FailRule)

\* The same status for every rule and sub-rule, whether enabled or not.
AllHave(rs, status) ==
  LET SetSub(sub) == [sub EXCEPT !.status = status]
      SetRule(rule) == [EachSub(rule, SetSub) EXCEPT !.status = status]
  IN EachRule(rs, SetRule)

\* A reply of the helper: ok, and the checks it made of the routes asked for; a
\* reply to no routes, and an error before any check, hold no checks.
Check(route, verified) == [cidr |-> route.cidr, iface |-> route.iface, verified |-> verified]

\* verificationError = null: each CIDR of the entry was checked, and verified.
Verified(entry, iface, reply) ==
  reply.checks = {} \/ \A c \in Cidrs(entry) :
                          [cidr |-> c, iface |-> iface, verified |-> TRUE] \in reply.checks

\* The status of an enabled entry after a reply.
EntryStatus(entry, iface, conflicts, reply) ==
  IF Named(entry) /\ entry.ips = {} THEN "unresolved"
  ELSE IF \/ conflicts # {}
          \/ ~Verified(entry, iface, reply)
          \/ ~reply.ok /\ reply.checks = {}
       THEN "error" ELSE "applied"

\* The reply to a plan, written to the rules as they are now.
Report(rs, plan, reply) ==
  LET PendingSub(sub) == [sub EXCEPT !.status = "pending"]
      ReportRule(rule) ==
        LET ReportSub(sub) ==
              [sub EXCEPT !.status =
                 IF sub.enabled
                 THEN EntryStatus(sub, rule.iface, SubRuleConflicts(plan, rule.id, sub.id), reply)
                 ELSE "pending"]
        IN IF rule.enabled
           THEN [EachSub(rule, ReportSub) EXCEPT !.status =
                   EntryStatus(rule, rule.iface, RuleConflicts(plan, rule.id), reply)]
           ELSE [EachSub(rule, PendingSub) EXCEPT !.status = "pending"]
  IN EachRule(rs, ReportRule)

-----------------------------------------------------------------------------
\* Tasks.  A task is the await it is in, its rule, and what the rest of the operation
\* reads: what a save asks for, whether the rule was enabled when it started (initial,
\* empty when there was none) and the sub-rules it replaced; the list of rules a
\* refresh or an import has made its own; the mode to change to.

Free(t) == tasks[t] = NoTask
Awaits(t, pc) == ~Free(t) /\ tasks[t].pc = pc

\* The user starts an operation of this name as task t.
Acts(op, t) == op \in Operations /\ Free(t) /\ Len(queue) < MaxQueue

\* An identifier nothing knows: a new rule gets a new UUID.
Unused(r) ==
  /\ asked[r] = NoRule
  /\ rules[r] = NoRule
  /\ \A t \in TaskIds : ~Free(t) => tasks[t].rule # r /\ tasks[t].snapshot[r] = NoRule

NoRules == [r \in RuleIds |-> NoRule]

Task(pc, r) ==
  [pc |-> pc, rule |-> r, ask |-> NoRule, initial |-> {}, previous |-> {},
   snapshot |-> NoRules, mode |-> mode]

Continue(t, task) == tasks' = [tasks EXCEPT ![t] = task]
End(t) == Continue(t, NoTask)

\* What the user has asked of a rule on show; one that has come back is as it shows.
AskOf(r) ==
  IF asked[r] # NoRule THEN asked[r]
  ELSE [dest |-> [kind |-> rules[r].kind, destination |-> rules[r].destination],
        iface |-> rules[r].iface, enabled |-> rules[r].enabled, off |-> {}]

\* currentRule(): nothing when a newer save or a deletion has taken over.
Current(t, rs) == token[tasks[t].rule] = t /\ rs[tasks[t].rule] # NoRule

\* applyAll: one more apply on the chain, with the task that waits for it.
ApplyAll(waiter) == queue' = Append(queue, waiter)

\* The write that ends an edit in memory, and the apply that follows it.  When the
\* write fails the exception ends the operation.
WriteFails == "write" \in Faults

\* The rule as it was when the save started decides.
BugSavedRule(task, ips, existing) ==
  [id |-> task.rule, kind |-> task.ask.kind, destination |-> task.ask.destination,
   ips |-> ips, iface |-> task.ask.iface, enabled |-> task.ask.enabled,
   subs |-> {}, status |-> ResolvedStatus(task.ask, ips)]

\* The rule as the save task writes it: the toggle of another operation, made since
\* the save started, is kept.
SavedRule(task, ips, existing) ==
  [id |-> task.rule, kind |-> task.ask.kind, destination |-> task.ask.destination,
   ips |-> ips, iface |-> task.ask.iface,
   enabled |-> IF task.initial # {} /\ existing # NoRule /\ existing.enabled \notin task.initial
               THEN existing.enabled ELSE task.ask.enabled,
   subs |-> {}, status |-> ResolvedStatus(task.ask, ips)]

\* The save writes its parent rule; the sub-rules it replaces are kept for the scan.
WriteParent(t, task, ips) ==
  LET r == task.rule
      existing == rules[r]
  IN /\ rules' = [rules EXCEPT ![r] = SavedRule(task, ips, existing)]
     /\ Continue(t, [task EXCEPT !.pc = "write", !.initial = {},
                       !.previous = IF existing = NoRule THEN {} ELSE existing.subs])

\* The newest save of r has taken the sub-rules away and its scan has not put any back.
Taken(r) ==
  token[r] # NoTask /\ tasks[token[r]] # NoTask
    /\ tasks[token[r]].rule = r /\ tasks[token[r]].pc \in {"write", "apply", "mark", "scan"}

\* upsertRule, until its first await.  The editor passes the enabled state of the
\* rule it edits, a new rule is enabled.
Save(t, r, dest, iface) ==
  /\ Acts("save", t)
  /\ rules[r] # NoRule \/ Unused(r)
  /\ LET enabled == IF rules[r] = NoRule THEN TRUE ELSE rules[r].enabled
         ask == [kind |-> dest.kind, destination |-> dest.destination, iface |-> iface,
                 enabled |-> enabled]
         initial == IF rules[r] = NoRule THEN {} ELSE {enabled}
         task == [Task("dns", r) EXCEPT !.ask = ask, !.initial = initial]
     IN /\ \/ Named(dest) /\ Continue(t, task) /\ UNCHANGED rules
           \/ ~Named(dest) /\ \E ips \in Resolutions(dest) : WriteParent(t, task, ips)
        /\ asked' = [asked EXCEPT ![r] =
                       [dest |-> dest, iface |-> iface, enabled |-> enabled,
                        off |-> IF rules[r] = NoRule \/ ~Named(dest) \/ Taken(r) THEN {}
                                ELSE AskOf(r).off]]
  /\ token' = [token EXCEPT ![r] = t]
  /\ UNCHANGED <<mode, gateways, queue, apply, table, late, beside>>

\* Whatever happened during the resolution, its save goes on.
BugSuperseded(t) == FALSE

\* A newer save has started, or the rule has been deleted, during the resolution.
Superseded(t) ==
  \/ token[tasks[t].rule] # t
  \/ tasks[t].initial # {} /\ rules[tasks[t].rule] = NoRule

\* The save will not scan: no sub-rule remains whose toggle could be kept.
NoScan(t) == asked' = [asked EXCEPT ![tasks[t].rule].off = {}]

SaveResolved(t) ==
  /\ Awaits(t, "dns")
  /\ \/ /\ Superseded(t)
        /\ End(t)
        /\ UNCHANGED <<rules, asked>>
     \/ /\ ~Superseded(t)
        /\ \E ips \in Resolutions(tasks[t].ask) :
             /\ WriteParent(t, tasks[t], ips)
             /\ IF tasks[t].ask.kind # "url" \/ ips = {} THEN NoScan(t)
                ELSE UNCHANGED asked
  /\ UNCHANGED <<mode, gateways, token, queue, apply, table, late, beside>>

SaveWritten(t) ==
  /\ Awaits(t, "write")
  /\ \/ /\ Current(t, rules)
        /\ ApplyAll(t)
        /\ Continue(t, [tasks[t] EXCEPT !.pc = "apply"])
     \/ /\ ~Current(t, rules) \/ WriteFails
        /\ End(t)
        /\ UNCHANGED queue
  /\ UNCHANGED <<rules, mode, gateways, token, apply, table, late, beside, asked>>

\* The save's own apply has ended, leaving the rules rs: a URL that resolved and was
\* applied is scanned, one that was not applied is marked, which takes a write.
AfterApply(t, rs) ==
  LET task == tasks[t]
      scans == task.ask.kind = "url" /\ Current(t, rs) /\ rs[task.rule].ips # {}
  IN IF ~scans THEN NoTask
     ELSE IF rs[task.rule].status = "applied" THEN [task EXCEPT !.pc = "scan"]
     ELSE [task EXCEPT !.pc = "mark"]

SaveMarked(t) ==
  /\ Awaits(t, "mark")
  /\ End(t)
  /\ IF Current(t, rules) THEN NoScan(t) ELSE UNCHANGED asked
  /\ UNCHANGED <<rules, mode, gateways, token, queue, apply, table, late, beside>>

\* Whatever a scan finds is switched on.
BugFoundSub(found, ips, previous) ==
  [id |-> found.id, kind |-> found.kind, destination |-> found.destination, ips |-> ips,
   enabled |-> TRUE, status |-> ResolvedStatus(found, ips)]

\* A sub-rule found by a scan keeps the identity and the enabled state it had.
FoundSub(found, ips, previous) ==
  [id |-> found.id, kind |-> found.kind, destination |-> found.destination, ips |-> ips,
   enabled |-> ~\E sub \in previous : sub.destination = found.destination /\ ~sub.enabled,
   status |-> ResolvedStatus(found, ips)]

\* The sub-rules a scan of the URL may find, resolved.
Scanned(task) ==
  UNION {{{FoundSub(f, ips[f], task.previous) : f \in found} : ips \in Resolved(found)} :
         found \in SUBSET Found[task.ask.destination]}

\* The scan's outcome goes to the rule as it is now.
PutSubs(t, subs) ==
  /\ rules' = [rules EXCEPT ![tasks[t].rule].subs = subs]
  /\ asked' = [asked EXCEPT ![tasks[t].rule].off =
                  @ \cap {sub.destination : sub \in subs}]

\* The result goes to the rule although a newer save has started.
BugScanEnds(t) ==
  /\ Awaits(t, "scan")
  /\ \/ /\ rules[tasks[t].rule] # NoRule
        /\ \E subs \in Scanned(tasks[t]) : PutSubs(t, subs)
        /\ Continue(t, [tasks[t] EXCEPT !.pc = "scanWrite"])
     \/ /\ rules[tasks[t].rule] = NoRule
        /\ End(t)
        /\ UNCHANGED <<rules, asked>>
  /\ UNCHANGED <<mode, gateways, token, queue, apply, table, late, beside>>

\* The scan, and the resolution of what it found, end or fail: a failed scan leaves
\* no sub-rules.
ScanEnds(t) ==
  /\ Awaits(t, "scan")
  /\ \/ /\ Current(t, rules)
        /\ \E subs \in Scanned(tasks[t]) : PutSubs(t, subs)
        /\ Continue(t, [tasks[t] EXCEPT !.pc = "scanWrite"])
     \/ /\ Current(t, rules)
        /\ PutSubs(t, {})
        /\ Continue(t, [tasks[t] EXCEPT !.pc = "failWrite"])
     \/ /\ ~Current(t, rules)
        /\ End(t)
        /\ UNCHANGED <<rules, asked>>
  /\ UNCHANGED <<mode, gateways, token, queue, apply, table, late, beside>>

\* When the write of a scan's result fails it is handled like a failed scan.
ScanWritten(t) ==
  /\ Awaits(t, "scanWrite") \/ Awaits(t, "failWrite")
  /\ \/ /\ Current(t, rules)
        /\ ApplyAll(NoTask)
        /\ End(t)
        /\ UNCHANGED <<rules, asked>>
     \/ /\ ~Current(t, rules) \/ (WriteFails /\ tasks[t].pc = "failWrite")
        /\ End(t)
        /\ UNCHANGED <<rules, queue, asked>>
     \/ /\ WriteFails /\ Current(t, rules) /\ tasks[t].pc = "scanWrite"
        /\ PutSubs(t, {})
        /\ Continue(t, [tasks[t] EXCEPT !.pc = "failWrite"])
        /\ UNCHANGED queue
  /\ UNCHANGED <<mode, gateways, token, apply, table, late, beside>>

-----------------------------------------------------------------------------
\* Edits that need no resolver: they change the rules at once, then write, then apply.

\* The edit with result rs starts as task t.
Edit(t, r, rs) ==
  /\ rules' = rs
  /\ Continue(t, Task("edit", r))
  /\ UNCHANGED <<mode, gateways, queue, apply, table, late, beside>>

\* The status stays: a rule that is off is shown as applied until the next apply.
BugSetRuleEnabled(t, r, on) ==
  /\ Acts("toggle", t)
  /\ rules[r] # NoRule
  /\ rules[r].enabled # on
  /\ Edit(t, r, [rules EXCEPT ![r].enabled = on])
  /\ asked' = [asked EXCEPT ![r] = [AskOf(r) EXCEPT !.enabled = on]]
  /\ UNCHANGED token

SetRuleEnabled(t, r, on) ==
  /\ Acts("toggle", t)
  /\ rules[r] # NoRule
  /\ rules[r].enabled # on
  /\ Edit(t, r, [rules EXCEPT ![r].enabled = on, ![r].status = "pending"])
  /\ asked' = [asked EXCEPT ![r] = [AskOf(r) EXCEPT !.enabled = on]]
  /\ UNCHANGED token

SetSubRuleEnabled(t, r, id, on) ==
  LET Toggled(sub) ==
        IF sub.id = id THEN [sub EXCEPT !.enabled = on, !.status = "pending"] ELSE sub
      destinations == {sub.destination : sub \in {u \in rules[r].subs : u.id = id}}
  IN /\ Acts("toggleSub", t)
     /\ rules[r] # NoRule
     /\ \E sub \in rules[r].subs : sub.id = id /\ sub.enabled # on
     /\ Edit(t, r, [rules EXCEPT ![r] = EachSub(@, Toggled)])
     /\ asked' = [asked EXCEPT ![r] =
          [AskOf(r) EXCEPT !.off = IF on THEN @ \ destinations ELSE @ \cup destinations]]
     /\ UNCHANGED token

DeleteRule(t, r) ==
  /\ Acts("delete", t)
  /\ rules[r] # NoRule
  /\ Edit(t, r, [rules EXCEPT ![r] = NoRule])
  /\ asked' = [asked EXCEPT ![r] = NoRule]
  /\ token' = [token EXCEPT ![r] = NoTask]

\* The edit is left to the next apply that comes along.
BugEditWritten(t) ==
  /\ Awaits(t, "edit")
  /\ End(t)
  /\ UNCHANGED <<rules, mode, gateways, token, queue, apply, table, late, beside, asked>>

\* The rules are written; nothing is applied when the write fails.
EditWritten(t) ==
  /\ Awaits(t, "edit")
  /\ End(t)
  /\ ApplyAll(NoTask) \/ (WriteFails /\ UNCHANGED queue)
  /\ UNCHANGED <<rules, mode, gateways, token, apply, table, late, beside, asked>>

\* refreshResolutions resolves the rules it finds when it starts ...
Refresh(t) ==
  /\ Acts("refresh", t)
  /\ rules # NoRules
  /\ Continue(t, [Task("refresh", NoRule) EXCEPT !.snapshot = rules])
  /\ UNCHANGED <<rules, mode, gateways, token, queue, apply, table, late, beside, asked>>

RefreshedEntry(entry, ips) ==
  [entry EXCEPT !.ips = ips, !.status = ResolvedStatus(entry, ips)]

RefreshedRule(rule) ==
  {[parent EXCEPT !.subs = {RefreshedEntry(sub, ips[sub]) : sub \in rule.subs}] :
     parent \in IF Named(rule) THEN {RefreshedEntry(rule, ips) : ips \in Resolutions(rule)}
                ELSE {rule},
     ips \in Resolved(rule.subs)}

\* ... and makes them the rules there are when it has.
RefreshResolved(t) ==
  LET old == tasks[t].snapshot
      Outcomes(r) == IF old[r] = NoRule THEN {NoRule} ELSE RefreshedRule(old[r])
  IN /\ Awaits(t, "refresh")
     /\ rules' \in {next \in [RuleIds -> UNION {Outcomes(r) : r \in RuleIds}] :
                      \A r \in RuleIds : next[r] \in Outcomes(r)}
     /\ Continue(t, Task("edit", NoRule))
     /\ UNCHANGED <<mode, gateways, token, queue, apply, table, late, beside, asked>>

-----------------------------------------------------------------------------
\* importRules, for a backup of one rule.

Duplicate(dest, iface) ==
  \E rule \in Live(rules) : rule.destination = dest.destination /\ rule.iface = iface

Import(t, r, dest, iface, on) ==
  /\ Acts("import", t)
  /\ Unused(r)
  /\ ~Duplicate(dest, iface)
  /\ Continue(t, [Task("import", r) EXCEPT
                    !.ask = [kind |-> dest.kind, destination |-> dest.destination,
                             iface |-> iface, enabled |-> on]])
  /\ UNCHANGED <<rules, mode, gateways, token, queue, apply, table, late, beside, asked>>

\* A rule the user has added in the meantime is not imported again.
ImportResolved(t) ==
  /\ Awaits(t, "import")
  /\ LET ask == tasks[t].ask
         r == tasks[t].rule
     IN \/ /\ Duplicate(ask, ask.iface)
           /\ End(t)
           /\ UNCHANGED asked
        \/ /\ ~Duplicate(ask, ask.iface)
           /\ \E ips \in Resolutions(ask) :
                Continue(t, [tasks[t] EXCEPT !.pc = "importWrite", !.snapshot =
                  [rules EXCEPT ![r] =
                     [id |-> r, kind |-> ask.kind, destination |-> ask.destination, ips |-> ips,
                      iface |-> ask.iface, enabled |-> ask.enabled, subs |-> {},
                      status |-> "pending"]]])
           /\ asked' = [asked EXCEPT ![r] =
                           [dest |-> [kind |-> ask.kind, destination |-> ask.destination],
                            iface |-> ask.iface, enabled |-> ask.enabled, off |-> {}]]
  /\ UNCHANGED <<rules, mode, gateways, token, queue, apply, table, late, beside>>

\* The list made before the write becomes the rules after it.
ImportWritten(t) ==
  /\ Awaits(t, "importWrite")
  /\ End(t)
  /\ \/ rules' = tasks[t].snapshot /\ ApplyAll(NoTask) /\ UNCHANGED asked
     \/ /\ WriteFails
        /\ asked' = [asked EXCEPT ![tasks[t].rule] = NoRule]
        /\ UNCHANGED <<rules, queue>>
  /\ UNCHANGED <<mode, gateways, token, apply, table, late, beside>>

-----------------------------------------------------------------------------
\* The routing mode, and what else asks for an apply.

\* setRoutingMode: main.dart runs one mode change at a time.
SetMode(t) ==
  /\ Acts("mode", t)
  /\ \A u \in TaskIds : ~Awaits(u, "mode")
  /\ \E m \in Modes \ {mode} :
       Continue(t, [Task("mode", NoRule) EXCEPT !.mode = m])
  /\ UNCHANGED <<rules, mode, gateways, token, queue, apply, table, late, beside, asked>>

ModeWritten(t) ==
  /\ Awaits(t, "mode")
  /\ End(t)
  /\ \/ mode' = tasks[t].mode /\ ApplyAll(NoTask)
     \/ WriteFails /\ UNCHANGED <<mode, queue>>
  /\ UNCHANGED <<rules, gateways, token, apply, table, late, beside, asked>>

\* The interfaces have changed, or the helper was repaired.
Reapply ==
  /\ "reapply" \in Operations
  /\ Len(queue) < MaxQueue
  /\ gateways' \in [Ifaces -> Gateways]
  /\ ApplyAll(NoTask)
  /\ UNCHANGED <<rules, mode, tasks, token, apply, table, late, beside, asked>>

-----------------------------------------------------------------------------
\* _applyAllInternal, the apply at the head of the queue.

NoPlan == [routes |-> {}, conflicts |-> {}]
NoApply == [pc |-> "idle", plan |-> NoPlan]

\* Where the apply goes next with the rules as they are now.
ApplyGoes(pc, plan) == apply' = [pc |-> pc, plan |-> plan]

\* The save that waits for the apply is not told.
BugApplyEnds(rs) ==
  /\ rules' = rs
  /\ apply' = NoApply
  /\ queue' = Tail(queue)
  /\ UNCHANGED tasks

\* The apply ends and leaves the rules rs; an exception is caught in it, so that
\* the next apply and the save that waits for this one always go on.
ApplyEnds(rs) ==
  /\ rules' = rs
  /\ apply' = NoApply
  /\ queue' = Tail(queue)
  /\ IF Head(queue) = NoTask THEN UNCHANGED tasks
     ELSE Continue(Head(queue), AfterApply(Head(queue), rs))

\* A request goes to the helper: it runs alone, or beside unanswered ones.
Asks == beside' = (late # {})

ApplyBegins ==
  /\ apply.pc = "idle"
  /\ queue # <<>>
  /\ \/ mode = "default" /\ ApplyGoes("clear", NoPlan) /\ Asks
     \/ mode = "custom" /\ ApplyGoes("plan", NoPlan) /\ UNCHANGED beside
  /\ UNCHANGED <<rules, mode, gateways, tasks, token, queue, table, late, asked>>

\* The helper's status is known and the hosts are reconciled: the plan is made from
\* the rules as they are now.
ApplyPlans ==
  /\ apply.pc = "plan"
  /\ ApplyGoes("reconcile", Plan(Planned(rules)))
  /\ Asks
  /\ UNCHANGED <<rules, mode, gateways, tasks, token, queue, table, late, asked>>

\* The helper is not enabled although there are routes to apply, or one of the two
\* requests before the plan has failed.
ApplyStops ==
  /\ apply.pc = "plan"
  /\ \/ "helper" \in Faults /\ Routes(Planned(rules)) # {}
     \/ "hosts" \in Faults
  /\ ApplyEnds(AllFail(rules))
  /\ UNCHANGED <<mode, gateways, token, table, late, beside, asked>>

\* What the helper may make of a request for routes.
AllDone(routes) ==
  [table |-> routes, ok |-> TRUE, checks |-> {Check(route, TRUE) : route \in routes}]

\* One route per destination in a routing table.
OnePerCidr(routes) == \A r, q \in routes : r.cidr = q.cidr => r = q

\* The tables a request may leave behind when not all of it is done.
Leftovers(routes) ==
  {t \in {kept \cup added : kept \in SUBSET (table \ routes), added \in SUBSET routes} :
     OnePerCidr(t)}

SomeDone(routes) ==
  {[table |-> t, ok |-> FALSE, checks |-> {Check(route, route \in t) : route \in routes}] :
     t \in Leftovers(routes)}

Replies(routes) ==
  {AllDone(routes)} \cup (IF "helper" \in Faults THEN SomeDone(routes) ELSE {})

NoReply == [table |-> table, ok |-> FALSE, checks |-> {}]

\* No answer within eight seconds: the helper is left to go on with the request.
NotAnswered(routes) ==
  /\ "timeout" \in Faults
  /\ Cardinality(late) < MaxLate
  /\ late' = late \cup {routes}
  /\ UNCHANGED table

ApplyReplied ==
  /\ apply.pc = "reconcile"
  /\ \/ /\ \E reply \in Replies(apply.plan.routes) :
             table' = reply.table /\ rules' = Report(rules, apply.plan, reply)
        /\ UNCHANGED late
     \/ NotAnswered(apply.plan.routes) /\ rules' = Report(rules, apply.plan, NoReply)
  /\ ApplyGoes("save", NoPlan)
  /\ UNCHANGED <<mode, gateways, tasks, token, queue, beside, asked>>

\* The request throws; it may have reached the helper.
ApplyThrows ==
  /\ apply.pc = "reconcile"
  /\ NotAnswered(apply.plan.routes)
  /\ ApplyEnds(AllFail(rules))
  /\ UNCHANGED <<mode, gateways, token, beside, asked>>

\* System Default asks for no routes, and no rule is applied.
Clears(failure) ==
  \E failed \in {failure} \cup (IF "hosts" \in Faults THEN {TRUE} ELSE {}) :
    rules' = AllHave(rules, IF failed THEN "error" ELSE "pending")

ApplyCleared ==
  /\ apply.pc = "clear"
  /\ \/ /\ \E reply \in Replies({}) : table' = reply.table /\ Clears(~reply.ok)
        /\ UNCHANGED late
     \/ NotAnswered({}) /\ Clears(TRUE)
  /\ ApplyGoes("save", NoPlan)
  /\ UNCHANGED <<mode, gateways, tasks, token, queue, beside, asked>>

ApplySaved ==
  /\ apply.pc = "save"
  /\ ApplyEnds(rules) \/ (WriteFails /\ ApplyEnds(AllFail(rules)))
  /\ UNCHANGED <<mode, gateways, token, table, late, beside, asked>>

\* An unanswered request goes on, or only now begins: reconcile removes what its list
\* does not name and adds what it names, whatever later requests have been told.
LateEdits ==
  /\ \E routes \in late :
       \/ \E route \in table \ routes : table' = table \ {route}
       \/ \E route \in routes \ table :
            table' = table \cup {route} /\ OnePerCidr(table \cup {route})
  /\ UNCHANGED <<rules, mode, gateways, tasks, token, queue, apply, late, beside, asked>>

LateEnds ==
  /\ \E routes \in late : late' = late \ {routes}
  /\ UNCHANGED <<rules, mode, gateways, tasks, token, queue, apply, table, beside, asked>>

-----------------------------------------------------------------------------
Kinds == {"url", "hostname", "ipv4", "cidr"}

\* Names and addresses.
Places ==
  DOMAIN Answers \cup UNION {UNION Answers[name] : name \in DOMAIN Answers}
  \cup {dest.destination : dest \in Destinations}
  \cup {f.destination : f \in UNION {Found[url] : url \in DOMAIN Found}}

SubRule ==
  [id : Nat, kind : Kinds, destination : Places, ips : SUBSET Places, enabled : BOOLEAN,
   status : Statuses]

Rule ==
  [id : RuleIds, kind : Kinds, destination : Places, ips : SUBSET Places, iface : Ifaces,
   enabled : BOOLEAN, subs : SUBSET SubRule, status : Statuses]

RuleLists == [RuleIds -> Rule \cup {NoRule}]

\* What a save or an import asks for, and what the user has asked of a rule.
Asking == [kind : Kinds, destination : Places, iface : Ifaces, enabled : BOOLEAN]
Ask ==
  [dest : [kind : Kinds, destination : Places], iface : Ifaces, enabled : BOOLEAN,
   off : SUBSET Places]

TaskState ==
  [pc : {"dns", "write", "apply", "mark", "scan", "scanWrite", "failWrite", "edit",
         "refresh", "import", "importWrite", "mode"},
   rule : RuleIds \cup {NoRule}, ask : Asking \cup {NoRule}, initial : SUBSET BOOLEAN,
   previous : SUBSET SubRule, snapshot : RuleLists, mode : Modes]

\* Names have answers, and URLs pages; what is absent is none of what may be present.
ASSUME DestinationsAssumption ==
  /\ Destinations \subseteq [kind : Kinds, destination : Places]
  /\ \A dest \in Destinations :
       /\ Named(dest) => dest.destination \in DOMAIN Answers
       /\ dest.kind = "url" => dest.destination \in DOMAIN Found
ASSUME FoundAssumption ==
  \A url \in DOMAIN Found :
    /\ Found[url] \subseteq [id : Nat, kind : Kinds, destination : Places]
    /\ \A f \in Found[url] : Named(f) => f.destination \in DOMAIN Answers
ASSUME AbsenceAssumption ==
  /\ NoRule \notin Rule /\ NoRule \notin Ask
  /\ NoTask \notin TaskState /\ NoTask \notin TaskIds

\* A save waits for an apply exactly while that apply is on the chain.
WaitersOK ==
  \A t \in TaskIds :
    Cardinality({i \in DOMAIN queue : queue[i] = t}) = IF Awaits(t, "apply") THEN 1 ELSE 0

\* The types of the variables, and who waits for what.
TypeOK ==
  /\ rules \in RuleLists
  /\ \A r \in RuleIds : rules[r] # NoRule => rules[r].id = r
  /\ mode \in Modes
  /\ gateways \in [Ifaces -> Gateways]
  /\ tasks \in [TaskIds -> TaskState \cup {NoTask}]
  /\ token \in [RuleIds -> TaskIds \cup {NoTask}]
  /\ queue \in Seq(TaskIds \cup {NoTask})
  /\ apply.pc \in {"idle", "plan", "reconcile", "clear", "save"}
  /\ apply.pc # "idle" => queue # <<>>
  /\ WaitersOK
  /\ beside \in BOOLEAN
  /\ asked \in [RuleIds -> Ask \cup {NoRule}]

Init ==
  /\ rules = NoRules
  /\ mode \in Modes
  /\ gateways \in [Ifaces -> Gateways]
  /\ tasks = [t \in TaskIds |-> NoTask]
  /\ token = [r \in RuleIds |-> NoTask]
  /\ queue = <<>>
  /\ apply = NoApply
  /\ table = {} /\ late = {}
  /\ beside = FALSE
  /\ asked = NoRules

User ==
  \/ \E t \in TaskIds, r \in RuleIds, dest \in Destinations, iface \in Ifaces :
       Save(t, r, dest, iface) \/ \E on \in BOOLEAN : Import(t, r, dest, iface, on)
  \/ \E t \in TaskIds, r \in RuleIds :
       \/ \E on \in BOOLEAN : SetRuleEnabled(t, r, on)
       \/ \E f \in UNION {Found[url] : url \in DOMAIN Found}, on \in BOOLEAN :
            SetSubRuleEnabled(t, r, f.id, on)
       \/ DeleteRule(t, r)
  \/ \E t \in TaskIds : Refresh(t) \/ SetMode(t)
  \/ Reapply

Goes(t) ==
  \/ SaveResolved(t) \/ SaveWritten(t) \/ SaveMarked(t) \/ ScanEnds(t) \/ ScanWritten(t)
  \/ EditWritten(t) \/ RefreshResolved(t) \/ ImportResolved(t) \/ ImportWritten(t)
  \/ ModeWritten(t)

Applies ==
  \/ ApplyBegins \/ ApplyPlans \/ ApplyStops \/ ApplyReplied \/ ApplyThrows
  \/ ApplyCleared \/ ApplySaved

Late == LateEdits \/ LateEnds

Next == User \/ Applies \/ Late \/ \E t \in TaskIds : Goes(t)

Spec == Init /\ [][Next]_vars

\* Every await ends: resolver, scan and helper requests have deadlines, and the
\* event loop serves what has ended.
FairSpec == Spec /\ WF_vars(Applies) /\ \A t \in TaskIds : WF_vars(Goes(t))

-----------------------------------------------------------------------------
\* Nothing is under way.
Quiet == queue = <<>> /\ \A t \in TaskIds : Free(t)

\* A rule that is told to carry traffic has all of its routes in force.
InForce(rule) ==
  \A c \in Cidrs(rule) : \E route \in table : route.cidr = c /\ route.iface = rule.iface

\* A deleted rule never comes back: not from a save or scan that was under way
\* (netpilot_controller_test.dart:83, upsertRule's token).
DeletedStaysDeleted == \A r \in RuleIds : asked[r] = NoRule => rules[r] = NoRule

\* The last toggle decides, also over a save or a scan that started before it.
LastToggleWins ==
  \A r \in RuleIds :
    rules[r] # NoRule /\ asked[r] # NoRule => rules[r].enabled = asked[r].enabled

\* Once nothing is under way for a rule it is what its last edit asked for, however
\* many saves raced.
LastEditWins ==
  \A r \in RuleIds :
    asked[r] # NoRule /\ (\A t \in TaskIds : Free(t) \/ tasks[t].rule # r) =>
      /\ rules[r] # NoRule
      /\ rules[r].destination = asked[r].dest.destination
      /\ rules[r].iface = asked[r].iface

\* The result of a scan never lands on a rule that has been edited to another
\* destination since: sub-rules are ones the rule's own page leads to.
SubRulesBelong ==
  \A r \in RuleIds :
    rules[r] # NoRule =>
      \A sub \in rules[r].subs :
        /\ rules[r].kind = "url"
        /\ \E f \in Found[rules[r].destination] : f.destination = sub.destination

\* A sub-rule the user has switched off stays off through later scans that find it
\* again, whatever saves and toggles overtake each other, unless in between a scan
\* failed or did not find it, or the rule was saved again while its sub-rules were
\* taken away (upsertRule's previousByDestination).
SubTogglesKept ==
  \A r \in RuleIds :
    rules[r] # NoRule /\ asked[r] # NoRule =>
      \A sub \in rules[r].subs : sub.destination \in asked[r].off => ~sub.enabled

\* When everything has come to rest the table is what the rules ask for, in whatever
\* order edits, applies, mode and network changes came: nothing at all under System
\* Default.
TableFollowsRules ==
  Quiet => table = IF mode = "default" THEN {} ELSE Routes(Planned(rules))

\* When everything has come to rest a rule is shown as Applied only if its routes
\* are in force and the mode is Custom, whatever failed on the way and however late
\* the helper is still at work on requests nobody waits for; unless the last request
\* was made beside one of those, which may take out what it has just verified.
AppliedIsTrue ==
  Quiet /\ ~beside => \A rule \in Live(rules) :
    rule.status = "applied" => mode = "custom" /\ rule.enabled /\ InForce(rule)

\* Every operation ends, and so every apply: no failure stops the chain.
OperationsEnd == \A t \in TaskIds : ~Free(t) ~> Free(t)
=============================================================================
