----------------------- MODULE RulesController_proofs -----------------------
(***************************************************************************)
(* Proofs about RulesController, for any rules, destinations and resolver  *)
(* answers, any number of operations under way and of applies waiting, and *)
(* any failures, writes included, where a theorem does not say otherwise.  *)
(*                                                                         *)
(* They assume that nothing replaces the list of rules as a whole:         *)
(* NoListWrites, without refresh and import, whose lost updates break the  *)
(* properties.                                                             *)
(*                                                                         *)
(* What a save does after an await is right because of its token.  The     *)
(* invariant says what the token stands for (SavesOwn): as long as it is   *)
(* the save's, the rule has been asked for, is still what the save found   *)
(* or wrote, and the last word on its destination is the save's.           *)
(*                                                                         *)
(* The chain of applies is right in the end because of what is still to    *)
(* come: in every state either an apply that has not read the rules yet is *)
(* on the chain or will be (Pending), or the one under way is made of the  *)
(* rules and the mode as they are (ApplyIsCurrent), and what it leaves     *)
(* behind is right.  An edit whose write fails is applied by nobody, so    *)
(* that part assumes NoFailedWrites.                                       *)
(*                                                                         *)
(* The switches of sub-rules live in the rule, or, while its newest save   *)
(* has emptied it, in what that save has taken (OffKept).                  *)
(***************************************************************************)
EXTENDS RulesController, FiniteSetTheorems, TLAPS

NoListWrites == Operations \cap {"refresh", "import"} = {}

\* The awaits of a save, in the order it comes to them.
Saving(t) ==
  ~Free(t) /\ tasks[t].pc \in {"dns", "write", "apply", "mark", "scan", "scanWrite", "failWrite"}

\* The save t has the token of its rule: no newer save, no deletion.
Owns(t) == token[tasks[t].rule] = t

\* What the user asked of the destination of a rule, and what the rule shows.
AsksFor(a, ask) ==
  a # NoRule /\ a.dest.destination = ask.destination /\ a.iface = ask.iface
Shows(rule, ask) ==
  /\ rule # NoRule /\ rule.kind = ask.kind /\ rule.destination = ask.destination
  /\ rule.iface = ask.iface

\* A save before and after it has written its parent rule.
OwnsBefore(task, a, rule) ==
  IF task.initial = {} THEN rule = NoRule /\ a.enabled = task.ask.enabled
  ELSE rule # NoRule /\ task.initial = {task.ask.enabled}
SaveOwns(t) ==
  LET task == tasks[t]
      r == tasks[t].rule
  IN /\ r \in RuleIds /\ task.ask \in Asking
     /\ Named(task.ask) => task.ask.destination \in DOMAIN Answers
     /\ task.ask.kind = "url" => task.ask.destination \in DOMAIN Found
     /\ task.pc = "dns" => Named(task.ask)
     /\ task.pc \in {"mark", "scan", "scanWrite", "failWrite"} => task.ask.kind = "url"
     /\ Owns(t) => AsksFor(asked[r], task.ask)
     /\ Owns(t) /\ task.pc = "dns" => OwnsBefore(task, asked[r], rules[r])
     /\ Owns(t) /\ task.pc # "dns" => Shows(rules[r], task.ask)
SavesOwn == \A t \in TaskIds : Saving(t) => SaveOwns(t)

\* What is not a save is an edit or a change of mode.
OthersEdit == \A t \in TaskIds : ~Free(t) /\ ~Saving(t) => tasks[t].pc \in {"edit", "mode"}

\* The rule is as asked, or a save that has the token will make it so.
EditKept ==
  \A r \in RuleIds : asked[r] # NoRule =>
    \/ rules[r] # NoRule /\ AsksFor(asked[r], rules[r])
    \/ \E t \in TaskIds : Awaits(t, "dns") /\ tasks[t].rule = r /\ token[r] = t

\* Each task that waits for an apply has one place in the queue, and nobody else any.
WaitersWait == \A i \in DOMAIN queue : queue[i] # NoTask => Awaits(queue[i], "apply")
WaitOnce == \A i, j \in DOMAIN queue : queue[i] = queue[j] /\ queue[i] # NoTask => i = j
WaitedFor == \A t \in TaskIds : Awaits(t, "apply") => \E i \in DOMAIN queue : queue[i] = t
Waits == WaitersWait /\ WaitOnce /\ WaitedFor

Types ==
  /\ rules \in RuleLists
  /\ \A r \in RuleIds : rules[r] # NoRule => rules[r].id = r
  /\ mode \in Modes
  /\ gateways \in [Ifaces -> Gateways]
  /\ tasks \in [TaskIds -> TaskState \cup {NoTask}]
  /\ token \in [RuleIds -> TaskIds \cup {NoTask}]
  /\ queue \in Seq(TaskIds \cup {NoTask})
  /\ apply.pc \in {"idle", "plan", "reconcile", "clear", "save"}
  /\ apply.pc # "idle" => queue # <<>>
  /\ asked \in [RuleIds -> Ask \cup {NoRule}]

RulesInv ==
  /\ Types /\ Waits /\ SavesOwn /\ OthersEdit /\ EditKept
  /\ DeletedStaysDeleted /\ LastToggleWins /\ SubRulesBelong

-----------------------------------------------------------------------------
\* What resolvers, scans and replies return.

\* Resolvers return sets of addresses.
LEMMA ResolutionsOK ==
  ASSUME NEW entry, entry.kind \in Kinds, entry.destination \in Places,
         Named(entry) => entry.destination \in DOMAIN Answers
  PROVE  Resolutions(entry) \subseteq SUBSET Places
<1>1. CASE Named(entry)
  <2>1. entry.destination \in DOMAIN Answers /\ Resolutions(entry) = Answers[entry.destination]
    BY <1>1 DEF Resolutions, Named
  <2>2. \A ips \in Answers[entry.destination] : ips \subseteq UNION Answers[entry.destination]
    OBVIOUS
  <2>3. UNION Answers[entry.destination] \subseteq UNION {UNION Answers[name] : name \in DOMAIN Answers}
    BY <2>1
  <2>. QED
    BY <2>1, <2>2, <2>3 DEF Places
<1>2. CASE ~Named(entry)
  BY <1>2 DEF Resolutions, Named, Kinds
<1>. QED
  BY <1>1, <1>2

\* The sub-rules of a scan are those its page leads to.
LEMMA ScannedOK ==
  ASSUME NEW task \in TaskState, task.ask \in Asking,
         task.ask.destination \in DOMAIN Found, NEW subs \in Scanned(task)
  PROVE  /\ subs \in SUBSET SubRule
         /\ \A sub \in subs : \E f \in Found[task.ask.destination] :
              f.destination = sub.destination
<1>0. PICK found \in SUBSET Found[task.ask.destination] :
        \E ips \in Resolved(found) : subs = {FoundSub(f, ips[f], task.previous) : f \in found}
  BY DEF Scanned
<1>1. PICK ips \in Resolved(found) :
        subs = {FoundSub(f, ips[f], task.previous) : f \in found}
  BY <1>0
<1>2. \A f \in found : f.id \in Nat /\ f.kind \in Kinds /\ f.destination \in Places
  BY FoundAssumption
<1>3. \A f \in found : ips[f] \in SUBSET Places
  <2>1. \A f \in found : Resolutions(f) \subseteq SUBSET Places
    BY <1>2, ResolutionsOK, FoundAssumption
  <2>2. \A f \in found : ips[f] \in Resolutions(f)
    BY DEF Resolved
  <2>. QED
    BY <2>1, <2>2
<1>4. \A f \in found : FoundSub(f, ips[f], task.previous) \in SubRule
  BY <1>2, <1>3 DEF FoundSub, SubRule, ResolvedStatus, Statuses
<1>5. \A f \in found : FoundSub(f, ips[f], task.previous).destination = f.destination
  BY DEF FoundSub
<1>. QED
  BY <1>1, <1>4, <1>5

\* The rules of new are those of old, but for statuses and sub-rules ...
SameParents(old, new) ==
  /\ new \in RuleLists
  /\ \A r \in RuleIds :
       /\ (new[r] = NoRule) <=> (old[r] = NoRule)
       /\ old[r] # NoRule =>
            /\ new[r].id = old[r].id /\ new[r].kind = old[r].kind
            /\ new[r].destination = old[r].destination
            /\ new[r].iface = old[r].iface /\ new[r].enabled = old[r].enabled

\* ... and so are the destinations of its sub-rules.
SameButStatus(old, new) ==
  /\ SameParents(old, new)
  /\ \A r \in RuleIds : old[r] # NoRule =>
       \A sub \in new[r].subs : \E was \in old[r].subs : sub.destination = was.destination

\* A list differs from itself in no status.
LEMMA SameIsSame ==
  ASSUME NEW rs \in RuleLists
  PROVE  SameButStatus(rs, rs)
  BY DEF SameButStatus, SameParents

\* A rule whose statuses have been changed by EXCEPT.
StatusOf(old, new) ==
  /\ new \in Rule
  /\ new.id = old.id /\ new.kind = old.kind /\ new.destination = old.destination
  /\ new.iface = old.iface /\ new.enabled = old.enabled
  /\ \A sub \in new.subs : \E was \in old.subs : sub.destination = was.destination

\* A list whose rules have changed in their statuses only.
LEMMA StatusesSame ==
  ASSUME NEW rs \in RuleLists, NEW new,
         new = [r \in RuleIds |-> new[r]],
         \A r \in RuleIds : rs[r] = NoRule => new[r] = NoRule,
         \A r \in RuleIds : rs[r] # NoRule => StatusOf(rs[r], new[r])
  PROVE  SameButStatus(rs, new)
<1>1. \A r \in RuleIds : new[r] \in Rule \cup {NoRule}
  BY DEF StatusOf
<1>2. new \in RuleLists
  BY <1>1 DEF RuleLists
<1>. QED
  BY <1>2, AbsenceAssumption DEF SameButStatus, SameParents, StatusOf

\* The changes of one rule.
LEMMA StatusChanged ==
  ASSUME NEW rule \in Rule, NEW status \in Statuses, NEW subs \in SUBSET SubRule,
         \A sub \in subs : \E was \in rule.subs : sub.destination = was.destination
  PROVE  /\ StatusOf(rule, [rule EXCEPT !.status = status])
         /\ StatusOf(rule, [[rule EXCEPT !.subs = subs] EXCEPT !.status = status])
  BY DEF StatusOf, Rule

\* AllHave changes statuses only.
LEMMA AllHaveStatus ==
  ASSUME NEW rs \in RuleLists, NEW status \in Statuses
  PROVE  SameButStatus(rs, AllHave(rs, status))
<1> DEFINE S(rule) == {[sub EXCEPT !.status = status] : sub \in rule.subs}
           R(rule) == [[rule EXCEPT !.subs = S(rule)] EXCEPT !.status = status]
<1>1. AllHave(rs, status) = [r \in RuleIds |-> IF rs[r] = NoRule THEN NoRule ELSE R(rs[r])]
  BY DEF AllHave, EachRule, EachSub
<1>2. ASSUME NEW r \in RuleIds, rs[r] # NoRule
      PROVE  StatusOf(rs[r], R(rs[r]))
  <2>1. rs[r] \in Rule
    BY <1>2 DEF RuleLists
  <2>2. S(rs[r]) \in SUBSET SubRule
    BY <2>1 DEF Rule, SubRule
  <2>3. \A sub \in S(rs[r]) : \E was \in rs[r].subs : sub.destination = was.destination
    BY <2>1 DEF Rule, SubRule
  <2>. QED
    BY <2>1, <2>2, <2>3, StatusChanged
<1> DEFINE new == AllHave(rs, status)
<1>3. \A r \in RuleIds : new[r] = IF rs[r] = NoRule THEN NoRule ELSE R(rs[r])
  BY <1>1
<1>4. new = [r \in RuleIds |-> new[r]]
  BY <1>1, <1>3
<1> HIDE DEF new, R
<1>5. SameButStatus(rs, new)
  BY <1>2, <1>3, <1>4, StatusesSame
<1>. QED
  BY <1>5 DEF new

\* AllFail changes statuses only.
LEMMA AllFailStatus ==
  ASSUME NEW rs \in RuleLists
  PROVE  SameButStatus(rs, AllFail(rs))
<1> DEFINE S(rule) == {IF sub.enabled THEN [sub EXCEPT !.status = "error"] ELSE sub :
                         sub \in rule.subs}
           R(rule) == IF rule.enabled THEN [[rule EXCEPT !.subs = S(rule)] EXCEPT !.status = "error"]
                      ELSE rule
<1>1. AllFail(rs) = [r \in RuleIds |-> IF rs[r] = NoRule THEN NoRule ELSE R(rs[r])]
  BY DEF AllFail, EachRule, EachSub
<1>2. ASSUME NEW r \in RuleIds, rs[r] # NoRule
      PROVE  StatusOf(rs[r], R(rs[r]))
  <2>1. rs[r] \in Rule
    BY <1>2 DEF RuleLists
  <2>2. S(rs[r]) \in SUBSET SubRule
    BY <2>1 DEF Rule, SubRule, Statuses
  <2>3. \A sub \in S(rs[r]) : \E was \in rs[r].subs : sub.destination = was.destination
    BY <2>1 DEF Rule, SubRule
  <2>4. "error" \in Statuses
    BY DEF Statuses
  <2>5. StatusOf(rs[r], rs[r])
    BY <2>1 DEF StatusOf
  <2>. QED
    BY <2>1, <2>2, <2>3, <2>4, <2>5, StatusChanged
<1> DEFINE new == AllFail(rs)
<1>3. \A r \in RuleIds : new[r] = IF rs[r] = NoRule THEN NoRule ELSE R(rs[r])
  BY <1>1
<1>4. new = [r \in RuleIds |-> new[r]]
  BY <1>1, <1>3
<1> HIDE DEF new, R
<1>5. SameButStatus(rs, new)
  BY <1>2, <1>3, <1>4, StatusesSame
<1>. QED
  BY <1>5 DEF new

\* The status of an entry after a reply is a status.
LEMMA EntryStatusOK ==
  ASSUME NEW entry, NEW iface, NEW conflicts, NEW reply
  PROVE  EntryStatus(entry, iface, conflicts, reply) \in Statuses
  BY DEF EntryStatus, Statuses

\* Report changes statuses only.
LEMMA ReportStatus ==
  ASSUME NEW rs \in RuleLists, NEW plan, NEW reply
  PROVE  SameButStatus(rs, Report(rs, plan, reply))
<1> DEFINE P(rule) == {[sub EXCEPT !.status = "pending"] : sub \in rule.subs}
           Q(rule) == {[sub EXCEPT !.status =
                          IF sub.enabled
                          THEN EntryStatus(sub, rule.iface, SubRuleConflicts(plan, rule.id, sub.id), reply)
                          ELSE "pending"] : sub \in rule.subs}
           E(rule) == EntryStatus(rule, rule.iface, RuleConflicts(plan, rule.id), reply)
           R(rule) == IF rule.enabled THEN [[rule EXCEPT !.subs = Q(rule)] EXCEPT !.status = E(rule)]
                      ELSE [[rule EXCEPT !.subs = P(rule)] EXCEPT !.status = "pending"]
<1>1. Report(rs, plan, reply) = [r \in RuleIds |-> IF rs[r] = NoRule THEN NoRule ELSE R(rs[r])]
  BY DEF Report, EachRule, EachSub
<1>2. ASSUME NEW r \in RuleIds, rs[r] # NoRule
      PROVE  StatusOf(rs[r], R(rs[r]))
  <2>1. rs[r] \in Rule
    BY <1>2 DEF RuleLists
  <2>2. P(rs[r]) \in SUBSET SubRule
    BY <2>1 DEF Rule, SubRule, Statuses
  <2>3. \A sub \in P(rs[r]) : \E was \in rs[r].subs : sub.destination = was.destination
    BY <2>1 DEF Rule, SubRule
  <2>4. ASSUME NEW sub \in SubRule, NEW status \in Statuses
        PROVE  [sub EXCEPT !.status = status] \in SubRule
               /\ [sub EXCEPT !.status = status].destination = sub.destination
    BY DEF SubRule
  <2>5. \A sub \in rs[r].subs :
          (IF sub.enabled
           THEN EntryStatus(sub, rs[r].iface, SubRuleConflicts(plan, rs[r].id, sub.id), reply)
           ELSE "pending") \in Statuses
    BY EntryStatusOK DEF Statuses
  <2>6. \A sub \in rs[r].subs : sub \in SubRule
    BY <2>1 DEF Rule
  <2>7. Q(rs[r]) \in SUBSET SubRule
    BY <2>4, <2>5, <2>6
  <2>8. ASSUME NEW sub \in Q(rs[r])
        PROVE  \E was \in rs[r].subs : sub.destination = was.destination
    <3>1. PICK was \in rs[r].subs :
            sub = [was EXCEPT !.status =
                     IF was.enabled
                     THEN EntryStatus(was, rs[r].iface, SubRuleConflicts(plan, rs[r].id, was.id), reply)
                     ELSE "pending"]
      OBVIOUS
    <3>. QED
      BY <2>4, <2>5, <2>6, <3>1
  <2>9. E(rs[r]) \in Statuses
    BY EntryStatusOK
  <2>10. "pending" \in Statuses
    BY DEF Statuses
  <2> HIDE DEF P, Q, E
  <2>. QED
    BY <2>1, <2>2, <2>3, <2>7, <2>8, <2>9, <2>10, StatusChanged
<1> DEFINE new == Report(rs, plan, reply)
<1> HIDE DEF P, Q, E, R
<1>3. \A r \in RuleIds : new[r] = IF rs[r] = NoRule THEN NoRule ELSE R(rs[r])
  BY <1>1
<1>4. new = [r \in RuleIds |-> new[r]]
  BY <1>1, <1>3
<1> HIDE DEF new, R
<1>5. SameButStatus(rs, new)
  BY <1>2, <1>3, <1>4, StatusesSame
<1>. QED
  BY <1>5 DEF new

-----------------------------------------------------------------------------
\* What a step may leave alone.

USE DEF Free, Continue, End

\* A task that goes on to the next await.
LEMMA Moved ==
  ASSUME NEW task \in TaskState,
         NEW pc \in {"write", "apply", "mark", "scan", "scanWrite", "failWrite"}
  PROVE  /\ [task EXCEPT !.pc = pc] \in TaskState /\ [task EXCEPT !.pc = pc] # NoTask
         /\ [task EXCEPT !.pc = pc].pc = pc /\ [task EXCEPT !.pc = pc].rule = task.rule
         /\ [task EXCEPT !.pc = pc].ask = task.ask
<1>1. [task EXCEPT !.pc = pc] \in TaskState
  BY DEF TaskState
<1>. QED
  BY <1>1, AbsenceAssumption DEF TaskState

\* A step of one task leaves the others.
LEMMA OneMoves ==
  ASSUME Types, NEW t \in TaskIds, NEW task, tasks' = [tasks EXCEPT ![t] = task]
  PROVE  tasks'[t] = task /\ \A u \in TaskIds \ {t} : tasks'[u] = tasks[u]
  BY DEF Types

\* Nobody begins or ends to wait.
Unmoved(u) == Awaits(u, "apply")' <=> Awaits(u, "apply")

\* While nobody begins or ends to wait and the queue stays, who waits for what stays.
LEMMA WaitsKept ==
  ASSUME Waits, Types, queue' = queue, \A u \in TaskIds : Unmoved(u)
  PROVE  Waits'
<1>1. \A i \in DOMAIN queue : queue[i] \in TaskIds \cup {NoTask}
  BY DEF Types
<1>. QED
  BY <1>1 DEF Waits, WaitersWait, WaitOnce, WaitedFor, Unmoved

\* An apply that nobody waits for.
LEMMA WaitsNobody ==
  ASSUME Waits, Types, queue' = Append(queue, NoTask), \A u \in TaskIds : Unmoved(u)
  PROVE  Waits'
<1>1. queue \in Seq(TaskIds \cup {NoTask}) /\ queue' \in Seq(TaskIds \cup {NoTask})
  BY DEF Types
<1>2. /\ DOMAIN queue' = 1..Len(queue)+1 /\ DOMAIN queue = 1..Len(queue)
      /\ \A i \in 1..Len(queue) : queue'[i] = queue[i] /\ queue[i] \in TaskIds \cup {NoTask}
      /\ queue'[Len(queue)+1] = NoTask
  BY <1>1
<1>. QED
  BY <1>1, <1>2 DEF Waits, WaitersWait, WaitOnce, WaitedFor, Unmoved

\* An apply that t waits for.
LEMMA WaitsMore ==
  ASSUME Waits, Types, NEW t \in TaskIds, queue' = Append(queue, t),
         ~Awaits(t, "apply"), Awaits(t, "apply")', \A u \in TaskIds \ {t} : Unmoved(u)
  PROVE  Waits'
<1>1. queue \in Seq(TaskIds \cup {NoTask}) /\ queue' \in Seq(TaskIds \cup {NoTask})
  BY DEF Types
<1>2. /\ DOMAIN queue' = 1..Len(queue)+1 /\ DOMAIN queue = 1..Len(queue)
      /\ \A i \in 1..Len(queue) : queue'[i] = queue[i] /\ queue[i] \in TaskIds \cup {NoTask}
      /\ queue'[Len(queue)+1] = t
  BY <1>1
<1>3. \A i \in 1..Len(queue) : queue[i] # t
  BY <1>2, AbsenceAssumption DEF Waits, WaitersWait, WaitOnce, WaitedFor
<1>4. WaitersWait'
  BY <1>2, <1>3 DEF Waits, WaitersWait, WaitOnce, WaitedFor, Unmoved
<1>5. WaitOnce'
  BY <1>2, <1>3 DEF Waits, WaitersWait, WaitOnce, WaitedFor
<1>6. WaitedFor'
  <2>1. CASE Len(queue) + 1 \in DOMAIN queue'
    BY <1>2, <2>1 DEF Waits, WaitersWait, WaitOnce, WaitedFor, Unmoved
  <2>. QED
    BY <1>1, <1>2, <2>1
<1>. QED
  BY <1>4, <1>5, <1>6 DEF Waits

\* The apply at the head has ended.
LEMMA WaitsLess ==
  ASSUME Waits, Types, queue # <<>>, queue' = Tail(queue),
         \A u \in TaskIds : u = Head(queue) => ~Awaits(u, "apply")',
         \A u \in TaskIds : u # Head(queue) => Unmoved(u)
  PROVE  Waits'
<1>1. queue \in Seq(TaskIds \cup {NoTask}) /\ queue' \in Seq(TaskIds \cup {NoTask})
  BY DEF Types
<1>2. /\ Len(queue) \in Nat \ {0}
      /\ DOMAIN queue' = 1..Len(queue)-1 /\ DOMAIN queue = 1..Len(queue)
      /\ \A i \in 1..Len(queue)-1 : queue'[i] = queue[i+1]
      /\ \A i \in 1..Len(queue) : queue[i] \in TaskIds \cup {NoTask}
      /\ Head(queue) = queue[1]
  BY <1>1
<1>3. \A i \in 1..Len(queue)-1 : queue'[i] # NoTask => queue'[i] # Head(queue)
  BY <1>2 DEF Waits, WaitersWait, WaitOnce, WaitedFor
<1>4. WaitersWait'
  BY <1>2, <1>3 DEF Waits, WaitersWait, WaitOnce, WaitedFor, Unmoved
<1>5. WaitOnce'
  BY <1>2 DEF Waits, WaitersWait, WaitOnce, WaitedFor
<1>6. WaitedFor'
  <2> SUFFICES ASSUME NEW u \in TaskIds, Awaits(u, "apply")'
               PROVE  \E i \in DOMAIN queue' : queue'[i] = u
    BY DEF WaitedFor
  <2>1. Awaits(u, "apply") /\ u # Head(queue)
    BY DEF Unmoved
  <2>2. PICK i \in DOMAIN queue : queue[i] = u
    BY <2>1 DEF Waits, WaitersWait, WaitOnce, WaitedFor
  <2>3. i # 1 /\ i - 1 \in DOMAIN queue' /\ queue'[i-1] = queue[i]
    BY <1>2, <2>1, <2>2
  <2>. QED
    BY <2>2, <2>3
<1>. QED
  BY <1>4, <1>5, <1>6 DEF Waits

\* What the user has asked of r stays, but for the switch of a rule there is and for the
\* sub-rules that are off.
SameAsk(r) ==
  /\ (asked'[r] = NoRule) <=> (asked[r] = NoRule)
  /\ asked[r] # NoRule =>
       /\ asked'[r].dest = asked[r].dest /\ asked'[r].iface = asked[r].iface
       /\ rules[r] = NoRule => asked'[r].enabled = asked[r].enabled

\* So does the rule, but for its switch, statuses and sub-rules.
SameRule(r) ==
  /\ (rules'[r] = NoRule) <=> (rules[r] = NoRule)
  /\ rules[r] # NoRule =>
       /\ rules'[r].kind = rules[r].kind /\ rules'[r].destination = rules[r].destination
       /\ rules'[r].iface = rules[r].iface

\* A save that does not move keeps what it owns unless somebody else takes it.
LEMMA OwnsStill ==
  ASSUME NEW u \in TaskIds, Saving(u), SaveOwns(u), tasks'[u] = tasks[u],
         token'[tasks[u].rule] = u =>
           Owns(u) /\ SameRule(tasks[u].rule) /\ SameAsk(tasks[u].rule)
  PROVE  SaveOwns(u)'
  BY DEF SaveOwns, Owns, SameRule, SameAsk, AsksFor, Shows, OwnsBefore, Named

\* A task that moves without having anything yet to write to its rule.
Advances(u) ==
  /\ ~(Awaits(u, "dns") /\ Owns(u))
  /\ tasks'[u] # NoTask =>
       \/ tasks'[u].pc \in {"edit", "mode"}
       \/ /\ Saving(u) /\ tasks[u].pc # "dns"
          /\ tasks'[u].pc \in {"apply", "mark", "scan", "scanWrite", "failWrite"}
          /\ tasks'[u].pc # "apply" => tasks[u].ask.kind = "url"
          /\ tasks'[u].rule = tasks[u].rule /\ tasks'[u].ask = tasks[u].ask

\* A step that takes no token, adds and removes no rule, and changes neither what a rule
\* is for nor what the user has asked for.
LEMMA QuietStep ==
  ASSUME RulesInv, SameParents(rules, rules'), token' = token,
         \A r \in RuleIds :
           SameAsk(r) /\ (asked[r] # NoRule => asked'[r].enabled = asked[r].enabled),
         \A u \in TaskIds : tasks'[u] = tasks[u] \/ Advances(u)
  PROVE  SavesOwn' /\ OthersEdit' /\ EditKept' /\ DeletedStaysDeleted' /\ LastToggleWins'
<1>0. /\ SavesOwn /\ OthersEdit /\ EditKept /\ DeletedStaysDeleted /\ LastToggleWins
  BY DEF RulesInv
<1>1. \A r \in RuleIds : SameRule(r)
  BY DEF SameParents, SameRule
<1>2. SavesOwn'
  <2> SUFFICES ASSUME NEW u \in TaskIds, Saving(u)'
               PROVE  SaveOwns(u)'
    BY DEF SavesOwn
  <2>1. CASE tasks'[u] = tasks[u]
    <3>1. Saving(u) /\ SaveOwns(u)
      BY <1>0, <2>1 DEF Saving, SavesOwn
    <3>2. tasks[u].rule \in RuleIds
      BY <3>1 DEF SaveOwns
    <3>. QED
      BY <1>1, <2>1, <3>1, <3>2, OwnsStill DEF Owns
  <2>2. CASE Advances(u)
    <3>1. /\ Saving(u) /\ tasks[u].pc # "dns" /\ tasks'[u].pc # "dns"
          /\ tasks'[u].pc # "apply" => tasks[u].ask.kind = "url"
          /\ tasks'[u].rule = tasks[u].rule /\ tasks'[u].ask = tasks[u].ask
      BY <2>2 DEF Advances, Saving
    <3>2. SaveOwns(u)
      BY <1>0, <3>1 DEF SavesOwn
    <3>3. SameRule(tasks[u].rule) /\ SameAsk(tasks[u].rule)
      BY <1>1, <3>2 DEF SaveOwns
    <3>. QED
      BY <3>1, <3>2, <3>3 DEF SaveOwns, Owns, SameRule, SameAsk, AsksFor, Shows, Named
  <2>. QED
    BY <2>1, <2>2
<1>3. OthersEdit'
  BY <1>0 DEF OthersEdit, Advances, Saving
<1>4. EditKept'
  <2> SUFFICES ASSUME NEW r \in RuleIds, asked'[r] # NoRule
               PROVE  \/ rules'[r] # NoRule /\ AsksFor(asked'[r], rules'[r])
                      \/ \E u \in TaskIds : Awaits(u, "dns")' /\ tasks'[u].rule = r /\ token'[r] = u
    BY DEF EditKept
  <2>1. asked[r] # NoRule
    BY DEF SameAsk
  <2>2. CASE rules[r] # NoRule /\ AsksFor(asked[r], rules[r])
    BY <1>1, <2>1, <2>2 DEF SameRule, SameAsk, AsksFor
  <2>3. CASE \E u \in TaskIds : Awaits(u, "dns") /\ tasks[u].rule = r /\ token[r] = u
    <3>1. PICK u \in TaskIds : Awaits(u, "dns") /\ tasks[u].rule = r /\ token[r] = u
      BY <2>3
    <3>2. tasks'[u] = tasks[u]
      BY <3>1 DEF Advances, Owns
    <3>. QED
      BY <3>1, <3>2 DEF Awaits
  <2>. QED
    BY <1>0, <2>1, <2>2, <2>3 DEF EditKept
<1>5. DeletedStaysDeleted' /\ LastToggleWins'
  BY <1>0 DEF DeletedStaysDeleted, LastToggleWins, SameParents, SameAsk
<1>. QED
  BY <1>2, <1>3, <1>4, <1>5

\* Sub-rules that are reported on stay those of their page.
LEMMA SubsStay ==
  ASSUME SubRulesBelong, SameButStatus(rules, rules')
  PROVE  SubRulesBelong'
  BY DEF SubRulesBelong, SameButStatus, SameParents

\* A list of rules that stays is the same, statuses and all.
LEMMA SameHere ==
  ASSUME Types, rules' = rules
  PROVE  SameButStatus(rules, rules') /\ SameParents(rules, rules')
  BY SameIsSame DEF Types, SameButStatus

\* The types after the step of one task, for what most steps change.
LEMMA TypesAfter ==
  ASSUME Types, SameParents(rules, rules'), mode' \in Modes, gateways' = gateways,
         NEW t \in TaskIds, NEW task \in TaskState \cup {NoTask},
         tasks' = [tasks EXCEPT ![t] = task], token' = token,
         NEW w \in TaskIds \cup {NoTask}, queue' = queue \/ queue' = Append(queue, w),
         apply' = apply, asked' \in [RuleIds -> Ask \cup {NoRule}]
  PROVE  Types'
<1>1. queue' \in Seq(TaskIds \cup {NoTask}) /\ (queue # <<>> => queue' # <<>>)
  BY DEF Types
<1>2. rules' \in RuleLists /\ \A r \in RuleIds : rules'[r] # NoRule => rules'[r].id = r
  BY DEF Types, SameParents
<1>3. tasks' \in [TaskIds -> TaskState \cup {NoTask}]
  BY DEF Types
<1>. QED
  BY <1>1, <1>2, <1>3 DEF Types

\* The user's wish for r with some sub-rules taken off the list of those that are off.
LEMMA LessOff ==
  ASSUME Types, NEW r \in RuleIds, asked[r] # NoRule, NEW off \in SUBSET Places,
         asked' = [asked EXCEPT ![r].off = off]
  PROVE  /\ asked' \in [RuleIds -> Ask \cup {NoRule}]
         /\ \A q \in RuleIds :
              SameAsk(q) /\ (asked[q] # NoRule => asked'[q].enabled = asked[q].enabled)
<1>1. asked[r] \in Ask
  BY DEF Types
<1>2. [asked[r] EXCEPT !.off = off] \in Ask
  BY <1>1 DEF Ask
<1>3. asked' \in [RuleIds -> Ask \cup {NoRule}]
  BY <1>2 DEF Types
<1>4. asked'[r] = [asked[r] EXCEPT !.off = off] /\ \A q \in RuleIds \ {r} : asked'[q] = asked[q]
  BY DEF Types
<1>5. /\ asked'[r] # NoRule /\ asked'[r].dest = asked[r].dest
      /\ asked'[r].iface = asked[r].iface /\ asked'[r].enabled = asked[r].enabled
  BY <1>1, <1>2, <1>4, AbsenceAssumption DEF Ask
<1>. QED
  BY <1>3, <1>4, <1>5 DEF SameAsk

\* What is asked stays.
LEMMA SameAsks ==
  ASSUME Types, asked' = asked
  PROVE  /\ asked' \in [RuleIds -> Ask \cup {NoRule}]
         /\ \A q \in RuleIds :
              SameAsk(q) /\ (asked[q] # NoRule => asked'[q].enabled = asked[q].enabled)
  BY DEF Types, SameAsk

-----------------------------------------------------------------------------
\* A save, after its parent rule.

\* The write has ended: the save waits for an apply, or has been overtaken.
LEMMA SaveWrittenKeeps ==
  ASSUME RulesInv, NEW t \in TaskIds, SaveWritten(t)
  PROVE  RulesInv'
<1>0. Types /\ Waits /\ SavesOwn /\ SubRulesBelong
  BY DEF RulesInv
<1>1. /\ tasks[t] \in TaskState /\ tasks[t].pc = "write" /\ Saving(t) /\ SaveOwns(t)
      /\ rules' = rules /\ token' = token /\ asked' = asked
  BY <1>0 DEF SaveWritten, Awaits, Types, Saving, SavesOwn
<1>2. PICK task \in {NoTask, [tasks[t] EXCEPT !.pc = "apply"]} :
        /\ tasks' = [tasks EXCEPT ![t] = task]
        /\ IF task = NoTask THEN queue' = queue ELSE queue' = Append(queue, t)
  <2>1. [tasks[t] EXCEPT !.pc = "apply"] # NoTask
    BY <1>1, Moved
  <2>. QED
    BY <2>1 DEF SaveWritten, ApplyAll
<1>3. /\ task \in TaskState \cup {NoTask}
      /\ task # NoTask =>
           task.pc = "apply" /\ task.rule = tasks[t].rule /\ task.ask = tasks[t].ask
  <2>1. CASE task = NoTask
    BY <2>1
  <2>2. CASE task = [tasks[t] EXCEPT !.pc = "apply"]
    BY <1>1, <2>2, Moved
  <2>. QED
    BY <1>2, <2>1, <2>2
<1>4. tasks'[t] = task /\ \A u \in TaskIds \ {t} : tasks'[u] = tasks[u]
  BY <1>0, <1>2, OneMoves
<1>5. SameButStatus(rules, rules') /\ SameParents(rules, rules')
  BY <1>0, <1>1, SameHere
<1>6. Types'
  <2>1. mode' \in Modes /\ gateways' = gateways /\ apply' = apply
    BY <1>0 DEF SaveWritten, Types
  <2>. QED
    BY <1>0, <1>1, <1>2, <1>3, <1>5, <2>1, SameAsks, TypesAfter
<1>7. Waits'
  <2>1. ~Awaits(t, "apply") /\ \A u \in TaskIds \ {t} : Unmoved(u)
    BY <1>1, <1>4 DEF Awaits, Unmoved
  <2>2. CASE task = NoTask
    BY <1>0, <1>2, <1>4, <2>1, <2>2, WaitsKept DEF Awaits, Unmoved
  <2>3. CASE task # NoTask
    BY <1>0, <1>2, <1>3, <1>4, <2>1, <2>3, WaitsMore DEF Awaits
  <2>. QED
    BY <2>2, <2>3
<1>8. \A u \in TaskIds : tasks'[u] = tasks[u] \/ Advances(u)
  BY <1>1, <1>3, <1>4 DEF Advances, Awaits
<1>. QED
  BY <1>0, <1>1, <1>5, <1>6, <1>7, <1>8, SameAsks, QuietStep, SubsStay DEF RulesInv

\* A task ends and changes nothing but what the user may expect of sub-rules.
LEMMA TaskEnds ==
  ASSUME RulesInv, NEW t \in TaskIds, tasks' = [tasks EXCEPT ![t] = NoTask],
         ~(Awaits(t, "dns") /\ Owns(t)), ~Awaits(t, "apply"),
         SameButStatus(rules, rules'), token' = token,
         queue' = queue \/ queue' = Append(queue, NoTask),
         mode' \in Modes, gateways' = gateways, apply' = apply,
         asked' \in [RuleIds -> Ask \cup {NoRule}],
         \A q \in RuleIds :
              SameAsk(q) /\ (asked[q] # NoRule => asked'[q].enabled = asked[q].enabled)
  PROVE  RulesInv'
<1>0. Types /\ Waits /\ SavesOwn /\ SubRulesBelong
  BY DEF RulesInv
<1>1. tasks'[t] = NoTask /\ \A u \in TaskIds \ {t} : tasks'[u] = tasks[u]
  BY <1>0, OneMoves
<1>2. Types'
  BY <1>0, TypesAfter DEF SameButStatus
<1>3. \A u \in TaskIds : Unmoved(u)
  BY <1>1 DEF Awaits, Unmoved
<1>4. Waits'
  BY <1>0, <1>3, WaitsKept, WaitsNobody
<1>5. \A u \in TaskIds : tasks'[u] = tasks[u] \/ Advances(u)
  BY <1>1 DEF Advances
<1>6. SavesOwn' /\ OthersEdit' /\ EditKept' /\ DeletedStaysDeleted' /\ LastToggleWins'
  BY <1>5, QuietStep DEF SameButStatus
<1>. QED
  BY <1>0, <1>2, <1>4, <1>6, SubsStay DEF RulesInv

\* The URL was not applied: no scan, no sub-rules to keep.
LEMMA SaveMarkedKeeps ==
  ASSUME RulesInv, NEW t \in TaskIds, SaveMarked(t)
  PROVE  RulesInv'
<1>0. Types /\ SavesOwn
  BY DEF RulesInv
<1>1. /\ tasks[t].pc = "mark" /\ Saving(t) /\ SaveOwns(t)
      /\ rules' = rules /\ token' = token /\ queue' = queue /\ tasks' = [tasks EXCEPT ![t] = NoTask]
      /\ mode' = mode /\ gateways' = gateways /\ apply' = apply
  BY <1>0 DEF SaveMarked, Awaits, Saving, SavesOwn
<1>2. /\ asked' \in [RuleIds -> Ask \cup {NoRule}]
      /\ \A q \in RuleIds :
           SameAsk(q) /\ (asked[q] # NoRule => asked'[q].enabled = asked[q].enabled)
  <2>1. CASE Current(t, rules)
    <3>1. asked[tasks[t].rule] # NoRule /\ tasks[t].rule \in RuleIds
      BY <1>1, <2>1 DEF SaveOwns, Owns, Current, AsksFor
    <3>2. asked' = [asked EXCEPT ![tasks[t].rule].off = {}]
      BY <2>1 DEF SaveMarked, NoScan
    <3>3. {} \in SUBSET Places
      OBVIOUS
    <3>. QED
      BY <1>0, <3>1, <3>2, <3>3, LessOff
  <2>2. CASE ~Current(t, rules)
    BY <1>0, <2>2, SameAsks DEF SaveMarked
  <2>. QED
    BY <2>1, <2>2
<1>3. SameButStatus(rules, rules')
  BY <1>0, <1>1, SameHere
<1>4. mode' \in Modes
  BY <1>0, <1>1 DEF Types
<1>. QED
  BY <1>1, <1>2, <1>3, <1>4, TaskEnds DEF Awaits

\* The write of an edit has ended.
LEMMA EditWrittenKeeps ==
  ASSUME RulesInv, NEW t \in TaskIds, EditWritten(t)
  PROVE  RulesInv'
<1>0. Types
  BY DEF RulesInv
<1>1. /\ tasks[t].pc = "edit"
      /\ rules' = rules /\ token' = token /\ asked' = asked /\ tasks' = [tasks EXCEPT ![t] = NoTask]
      /\ mode' = mode /\ gateways' = gateways /\ apply' = apply
      /\ queue' = queue \/ queue' = Append(queue, NoTask)
  BY DEF EditWritten, Awaits, ApplyAll
<1>2. mode' \in Modes
  BY <1>0, <1>1 DEF Types
<1>. QED
  BY <1>0, <1>1, <1>2, SameHere, SameAsks, TaskEnds DEF Awaits

\* The write of the mode has ended.
LEMMA ModeWrittenKeeps ==
  ASSUME RulesInv, NEW t \in TaskIds, ModeWritten(t)
  PROVE  RulesInv'
<1>0. Types
  BY DEF RulesInv
<1>1. /\ tasks[t].pc = "mode" /\ tasks[t] \in TaskState
      /\ rules' = rules /\ token' = token /\ asked' = asked /\ tasks' = [tasks EXCEPT ![t] = NoTask]
      /\ mode' \in {mode, tasks[t].mode} /\ gateways' = gateways /\ apply' = apply
      /\ queue' = queue \/ queue' = Append(queue, NoTask)
  BY <1>0 DEF ModeWritten, Awaits, ApplyAll, Types
<1>2. mode' \in Modes
  BY <1>0, <1>1 DEF Types, TaskState
<1>. QED
  BY <1>0, <1>1, <1>2, SameHere, SameAsks, TaskEnds DEF Awaits

\* The sub-rules that a scan has found, or none, go to the rule of the save that has the
\* token.
LEMMA SubsPut ==
  ASSUME RulesInv, NEW t \in TaskIds, tasks[t].pc \in {"scan", "scanWrite"}, tasks[t] # NoTask,
         Current(t, rules), NEW subs \in SUBSET SubRule, PutSubs(t, subs),
         \A sub \in subs : \E f \in Found[tasks[t].ask.destination] :
           f.destination = sub.destination
  PROVE  /\ SameParents(rules, rules') /\ SubRulesBelong'
         /\ asked' \in [RuleIds -> Ask \cup {NoRule}]
         /\ \A q \in RuleIds :
              SameAsk(q) /\ (asked[q] # NoRule => asked'[q].enabled = asked[q].enabled)
<1> DEFINE r == tasks[t].rule
<1>0. Types /\ SavesOwn /\ SubRulesBelong
  BY DEF RulesInv
<1>1. /\ r \in RuleIds /\ asked[r] # NoRule /\ Shows(rules[r], tasks[t].ask)
      /\ tasks[t].ask.kind = "url"
  <2>1. SaveOwns(t)
    BY <1>0 DEF SavesOwn, Saving
  <2>2. Owns(t)
    BY DEF Current, Owns
  <2>. QED
    BY <2>1, <2>2 DEF SaveOwns, AsksFor
<1>2. rules[r] \in Rule /\ rules' = [rules EXCEPT ![r].subs = subs]
  BY <1>0, <1>1 DEF Types, RuleLists, PutSubs, Shows
<1>3. /\ rules'[r] = [rules[r] EXCEPT !.subs = subs]
      /\ \A q \in RuleIds \ {r} : rules'[q] = rules[q]
  BY <1>0, <1>1, <1>2 DEF Types, RuleLists
<1>4. /\ rules'[r] \in Rule /\ rules'[r].subs = subs
      /\ rules'[r].id = rules[r].id /\ rules'[r].kind = rules[r].kind
      /\ rules'[r].destination = rules[r].destination
      /\ rules'[r].iface = rules[r].iface /\ rules'[r].enabled = rules[r].enabled
  BY <1>2, <1>3 DEF Rule
<1>5. rules' \in RuleLists
  BY <1>0, <1>2, <1>4, <1>3 DEF Types, RuleLists
<1>6. SameParents(rules, rules')
  BY <1>1, <1>3, <1>4, <1>5, AbsenceAssumption DEF SameParents, Shows
<1>7. SubRulesBelong'
  <2> SUFFICES ASSUME NEW q \in RuleIds, rules'[q] # NoRule, NEW sub \in rules'[q].subs
               PROVE  /\ rules'[q].kind = "url"
                      /\ \E f \in Found[rules'[q].destination] : f.destination = sub.destination
    BY DEF SubRulesBelong
  <2>1. CASE q = r
    BY <1>1, <1>4, <2>1 DEF Shows
  <2>2. CASE q # r
    BY <1>0, <1>3, <2>2 DEF SubRulesBelong
  <2>. QED
    BY <2>1, <2>2
<1>8. asked[r].off \cap {sub.destination : sub \in subs} \in SUBSET Places
  BY <1>0, <1>1 DEF Types, Ask
<1>9. asked' = [asked EXCEPT ![r].off = asked[r].off \cap {sub.destination : sub \in subs}]
  BY <1>0, <1>1 DEF PutSubs, Types
<1>. QED
  BY <1>0, <1>1, <1>6, <1>7, <1>8, <1>9, LessOff

\* It goes on to write them.
LEMMA SubsPutKeeps ==
  ASSUME RulesInv, NEW t \in TaskIds, tasks[t].pc \in {"scan", "scanWrite"}, tasks[t] # NoTask,
         Current(t, rules), NEW subs \in SUBSET SubRule, PutSubs(t, subs),
         \A sub \in subs : \E f \in Found[tasks[t].ask.destination] :
           f.destination = sub.destination,
         NEW pc \in {"scanWrite", "failWrite"},
         tasks' = [tasks EXCEPT ![t] = [tasks[t] EXCEPT !.pc = pc]],
         UNCHANGED <<mode, gateways, token, queue, apply, table>>
  PROVE  RulesInv'
<1>0. Types /\ Waits /\ SavesOwn
  BY DEF RulesInv
<1>1. /\ SameParents(rules, rules') /\ SubRulesBelong'
      /\ asked' \in [RuleIds -> Ask \cup {NoRule}]
      /\ \A q \in RuleIds :
           SameAsk(q) /\ (asked[q] # NoRule => asked'[q].enabled = asked[q].enabled)
  BY SubsPut
<1>2. tasks[t] \in TaskState /\ Saving(t) /\ SaveOwns(t)
  BY <1>0 DEF Types, Saving, SavesOwn
<1> DEFINE task == [tasks[t] EXCEPT !.pc = pc]
<1>3. /\ task \in TaskState /\ task # NoTask
      /\ task.pc = pc /\ task.rule = tasks[t].rule /\ task.ask = tasks[t].ask
  <2>1. pc \in {"write", "apply", "mark", "scan", "scanWrite", "failWrite"}
    OBVIOUS
  <2>. QED
    BY <1>2, <2>1, Moved
<1>4. tasks'[t] = task /\ \A u \in TaskIds \ {t} : tasks'[u] = tasks[u]
  BY <1>0, OneMoves
<1> HIDE DEF task
<1>5. Types'
  <2>1. tasks' = [tasks EXCEPT ![t] = task] /\ mode' \in Modes
    BY <1>0 DEF task, Types
  <2>. QED
    BY <1>0, <1>1, <1>3, <2>1, TypesAfter
<1>6. Waits'
  <2>1. \A u \in TaskIds : Unmoved(u)
    BY <1>3, <1>4 DEF Awaits, Unmoved
  <2>. QED
    BY <1>0, <2>1, WaitsKept
<1>7. \A u \in TaskIds : tasks'[u] = tasks[u] \/ Advances(u)
  BY <1>2, <1>3, <1>4 DEF Advances, Awaits, SaveOwns
<1>. QED
  BY <1>1, <1>5, <1>6, <1>7, QuietStep DEF RulesInv

\* The scan has ended.
LEMMA ScanEndsKeeps ==
  ASSUME RulesInv, NEW t \in TaskIds, ScanEnds(t)
  PROVE  RulesInv'
<1>0. Types /\ SavesOwn
  BY DEF RulesInv
<1>1. /\ tasks[t].pc = "scan" /\ tasks[t] # NoTask /\ tasks[t] \in TaskState
      /\ UNCHANGED <<mode, gateways, token, queue, apply, table>>
  BY <1>0 DEF ScanEnds, Awaits, Types
<1>2. tasks[t].ask \in Asking /\ tasks[t].ask.destination \in DOMAIN Found
  BY <1>0, <1>1 DEF SavesOwn, Saving, SaveOwns
<1>3. CASE Current(t, rules) /\ \E subs \in Scanned(tasks[t]) : PutSubs(t, subs)
           /\ tasks' = [tasks EXCEPT ![t] = [tasks[t] EXCEPT !.pc = "scanWrite"]]
  <2>1. PICK subs \in Scanned(tasks[t]) : PutSubs(t, subs)
    BY <1>3
  <2>2. subs \in SUBSET SubRule /\ \A sub \in subs : \E f \in Found[tasks[t].ask.destination] :
           f.destination = sub.destination
    BY <1>1, <1>2, ScannedOK
  <2>. QED
    BY <1>1, <1>3, <2>1, <2>2, SubsPutKeeps
<1>4. CASE Current(t, rules) /\ PutSubs(t, {})
           /\ tasks' = [tasks EXCEPT ![t] = [tasks[t] EXCEPT !.pc = "failWrite"]]
  <2>1. {} \in SUBSET SubRule /\ \A sub \in {} : \E f \in Found[tasks[t].ask.destination] :
           f.destination = sub.destination
    OBVIOUS
  <2>. QED
    BY <1>1, <1>4, <2>1, SubsPutKeeps
<1>5. CASE tasks' = [tasks EXCEPT ![t] = NoTask] /\ rules' = rules /\ asked' = asked
  <2>1. mode' \in Modes
    BY <1>0, <1>1 DEF Types
  <2>. QED
    BY <1>0, <1>1, <1>5, <2>1, SameHere, SameAsks, TaskEnds DEF Awaits
<1>. QED
  BY <1>3, <1>4, <1>5 DEF ScanEnds

\* The write of its result has ended.
LEMMA ScanWrittenKeeps ==
  ASSUME RulesInv, NEW t \in TaskIds, ScanWritten(t)
  PROVE  RulesInv'
<1>0. Types
  BY DEF RulesInv
<1>1. /\ tasks[t].pc \in {"scanWrite", "failWrite"} /\ tasks[t] # NoTask
      /\ mode' = mode /\ gateways' = gateways /\ token' = token /\ apply' = apply
      /\ table' = table
  BY DEF ScanWritten, Awaits
<1>2. CASE /\ Current(t, rules) /\ PutSubs(t, {}) /\ tasks[t].pc = "scanWrite" /\ queue' = queue
           /\ tasks' = [tasks EXCEPT ![t] = [tasks[t] EXCEPT !.pc = "failWrite"]]
  <2>1. {} \in SUBSET SubRule /\ \A sub \in {} : \E f \in Found[tasks[t].ask.destination] :
           f.destination = sub.destination
    OBVIOUS
  <2>. QED
    BY <1>1, <1>2, <2>1, SubsPutKeeps
<1>3. CASE /\ tasks' = [tasks EXCEPT ![t] = NoTask] /\ rules' = rules /\ asked' = asked
           /\ queue' = queue \/ queue' = Append(queue, NoTask)
  <2>1. mode' \in Modes
    BY <1>0, <1>1 DEF Types
  <2>. QED
    BY <1>0, <1>1, <1>3, <2>1, SameHere, SameAsks, TaskEnds DEF Awaits
<1>. QED
  BY <1>2, <1>3 DEF ScanWritten, ApplyAll

-----------------------------------------------------------------------------
\* The edits without resolver.

\* The tasks that operations begin with.
LEMMA NewTask ==
  ASSUME Types, NEW pc \in {"edit", "mode", "dns"}, NEW r \in RuleIds \cup {NoRule}
  PROVE  /\ Task(pc, r) \in TaskState /\ Task(pc, r) # NoTask
         /\ Task(pc, r).pc = pc /\ Task(pc, r).rule = r
<1>1. NoRules \in RuleLists
  BY DEF NoRules, RuleLists
<1>2. Task(pc, r) \in TaskState
  BY <1>1 DEF Types, Task, TaskState
<1>. QED
  BY <1>2, AbsenceAssumption DEF Task

\* A switch: the rule r becomes new, and what is asked of it a.
LEMMA SwitchStep ==
  ASSUME RulesInv, NEW t \in TaskIds, tasks[t] = NoTask, NEW r \in RuleIds, rules[r] # NoRule,
         tasks' = [tasks EXCEPT ![t] = Task("edit", r)],
         NEW new, StatusOf([rules[r] EXCEPT !.enabled = new.enabled], new),
         rules' = [rules EXCEPT ![r] = new],
         NEW a \in Ask, asked[r] # NoRule, a.dest = asked[r].dest, a.iface = asked[r].iface,
         a.enabled = new.enabled, asked' = [asked EXCEPT ![r] = a],
         UNCHANGED <<token, mode, gateways, queue, apply>>
  PROVE  RulesInv'
<1>0. /\ Types /\ Waits /\ SavesOwn /\ OthersEdit /\ EditKept /\ DeletedStaysDeleted
      /\ LastToggleWins /\ SubRulesBelong
  BY DEF RulesInv
<1>1. rules[r] \in Rule
  BY <1>0 DEF Types, RuleLists
<1>2. /\ new \in Rule /\ new # NoRule /\ new.id = rules[r].id /\ new.kind = rules[r].kind
      /\ new.destination = rules[r].destination /\ new.iface = rules[r].iface
      /\ \A sub \in new.subs : \E was \in rules[r].subs : sub.destination = was.destination
  BY <1>1, AbsenceAssumption DEF StatusOf, Rule
<1>3. /\ rules'[r] = new /\ \A q \in RuleIds \ {r} : rules'[q] = rules[q]
      /\ asked'[r] = a /\ \A q \in RuleIds \ {r} : asked'[q] = asked[q]
      /\ a # NoRule
  BY <1>0, AbsenceAssumption DEF Types, RuleLists
<1>4. tasks'[t] = Task("edit", r) /\ \A u \in TaskIds \ {t} : tasks'[u] = tasks[u]
  BY <1>0, OneMoves
<1>5. Task("edit", r) \in TaskState /\ Task("edit", r) # NoTask /\ Task("edit", r).pc = "edit"
  BY <1>0, NewTask
<1>6. \A q \in RuleIds : SameRule(q) /\ SameAsk(q)
  BY <1>2, <1>3 DEF SameRule, SameAsk
<1>7. Types'
  <2>1. rules' \in RuleLists /\ \A q \in RuleIds : rules'[q] # NoRule => rules'[q].id = q
    BY <1>0, <1>2, <1>3 DEF Types, RuleLists
  <2>2. tasks' \in [TaskIds -> TaskState \cup {NoTask}] /\ asked' \in [RuleIds -> Ask \cup {NoRule}]
    BY <1>0, <1>5 DEF Types
  <2>. QED
    BY <1>0, <2>1, <2>2 DEF Types
<1>8. Waits'
  <2>1. \A u \in TaskIds : Unmoved(u)
    BY <1>4, <1>5 DEF Awaits, Unmoved
  <2>. QED
    BY <1>0, <2>1, WaitsKept
<1>9. SavesOwn'
  <2> SUFFICES ASSUME NEW u \in TaskIds, Saving(u)'
               PROVE  SaveOwns(u)'
    BY DEF SavesOwn
  <2>1. u # t /\ tasks'[u] = tasks[u] /\ Saving(u)
    BY <1>4, <1>5 DEF Saving
  <2>2. SaveOwns(u)
    BY <1>0, <2>1 DEF SavesOwn
  <2>3. tasks[u].rule \in RuleIds
    BY <2>2 DEF SaveOwns
  <2>. QED
    BY <1>6, <2>1, <2>2, <2>3, OwnsStill DEF Owns
<1>10. OthersEdit'
  BY <1>0, <1>4, <1>5 DEF OthersEdit, Saving
<1>11. EditKept'
  <2> SUFFICES ASSUME NEW q \in RuleIds, asked'[q] # NoRule
               PROVE  \/ rules'[q] # NoRule /\ AsksFor(asked'[q], rules'[q])
                      \/ \E u \in TaskIds : Awaits(u, "dns")' /\ tasks'[u].rule = q /\ token'[q] = u
    BY DEF EditKept
  <2>1. CASE \E u \in TaskIds : Awaits(u, "dns") /\ tasks[u].rule = q /\ token[q] = u
    BY <1>4, <2>1 DEF Awaits
  <2>2. CASE rules[q] # NoRule /\ AsksFor(asked[q], rules[q])
    BY <1>6, <2>2 DEF SameRule, SameAsk, AsksFor
  <2>. QED
    BY <1>0, <1>6, <2>1, <2>2 DEF EditKept, SameAsk
<1>12. DeletedStaysDeleted' /\ LastToggleWins'
  BY <1>0, <1>2, <1>3 DEF DeletedStaysDeleted, LastToggleWins
<1>13. SubRulesBelong'
  <2> SUFFICES ASSUME NEW q \in RuleIds, rules'[q] # NoRule, NEW sub \in rules'[q].subs
               PROVE  /\ rules'[q].kind = "url"
                      /\ \E f \in Found[rules'[q].destination] : f.destination = sub.destination
    BY DEF SubRulesBelong
  <2>1. \E was \in rules[q].subs : sub.destination = was.destination
    BY <1>2, <1>3
  <2>. QED
    BY <1>0, <1>2, <1>3, <2>1 DEF SubRulesBelong
<1>. QED
  BY <1>7, <1>8, <1>9, <1>10, <1>11, <1>12, <1>13 DEF RulesInv

\* The switch of a rule keeps the invariant.
LEMMA SetRuleEnabledKeeps ==
  ASSUME RulesInv, NEW t \in TaskIds, NEW r \in RuleIds, NEW on \in BOOLEAN,
         SetRuleEnabled(t, r, on)
  PROVE  RulesInv'
<1>0. Types /\ DeletedStaysDeleted
  BY DEF RulesInv
<1> DEFINE new == [rules[r] EXCEPT !.enabled = on, !.status = "pending"]
           a == [asked[r] EXCEPT !.enabled = on]
<1>1. /\ tasks[t] = NoTask /\ rules[r] # NoRule /\ tasks' = [tasks EXCEPT ![t] = Task("edit", r)]
      /\ UNCHANGED <<token, mode, gateways, queue, apply>>
  BY DEF SetRuleEnabled, Edit, Acts
<1>2. asked[r] # NoRule /\ asked[r] \in Ask /\ rules[r] \in Rule
  BY <1>0, <1>1 DEF DeletedStaysDeleted, Types, RuleLists
<1>3. rules' = [rules EXCEPT ![r] = new]
  BY <1>0 DEF SetRuleEnabled, Edit, Types, RuleLists
<1>4. asked' = [asked EXCEPT ![r] = a]
  BY <1>2 DEF SetRuleEnabled, AskOf
<1>5. new.enabled = on /\ StatusOf([rules[r] EXCEPT !.enabled = on], new)
  BY <1>2 DEF StatusOf, Rule, Statuses
<1>6. a \in Ask /\ a.dest = asked[r].dest /\ a.iface = asked[r].iface /\ a.enabled = on
  BY <1>2 DEF Ask
<1> HIDE DEF new, a
<1>. QED
  BY <1>1, <1>2, <1>3, <1>4, <1>5, <1>6, SwitchStep, ZenonT(40)

\* The switch of a sub-rule keeps the invariant.
LEMMA SetSubRuleEnabledKeeps ==
  ASSUME RulesInv, NEW t \in TaskIds, NEW r \in RuleIds, NEW id, NEW on \in BOOLEAN,
         SetSubRuleEnabled(t, r, id, on)
  PROVE  RulesInv'
<1>0. Types /\ DeletedStaysDeleted /\ LastToggleWins
  BY DEF RulesInv
<1> DEFINE S == {IF sub.id = id THEN [sub EXCEPT !.enabled = on, !.status = "pending"] ELSE sub :
                   sub \in rules[r].subs}
           D == {sub.destination : sub \in {u \in rules[r].subs : u.id = id}}
           new == [rules[r] EXCEPT !.subs = S]
           a == [asked[r] EXCEPT !.off = IF on THEN asked[r].off \ D ELSE asked[r].off \cup D]
<1>1. /\ tasks[t] = NoTask /\ rules[r] # NoRule /\ tasks' = [tasks EXCEPT ![t] = Task("edit", r)]
      /\ UNCHANGED <<token, mode, gateways, queue, apply>>
  BY DEF SetSubRuleEnabled, Edit, Acts
<1>2. asked[r] # NoRule /\ asked[r] \in Ask /\ rules[r] \in Rule /\ rules[r].enabled = asked[r].enabled
  BY <1>0, <1>1 DEF DeletedStaysDeleted, LastToggleWins, Types, RuleLists
<1>3. rules' = [rules EXCEPT ![r] = new]
  BY <1>0 DEF SetSubRuleEnabled, Edit, EachSub, Types, RuleLists
<1>4. asked' = [asked EXCEPT ![r] = a]
  BY <1>2 DEF SetSubRuleEnabled, AskOf
<1>5. S \in SUBSET SubRule /\ \A sub \in S : \E was \in rules[r].subs :
        sub.destination = was.destination
  <2>1. rules[r].subs \in SUBSET SubRule
    BY <1>2 DEF Rule
  <2>2. ASSUME NEW sub \in SubRule
        PROVE  /\ [sub EXCEPT !.enabled = on, !.status = "pending"] \in SubRule
               /\ [sub EXCEPT !.enabled = on, !.status = "pending"].destination = sub.destination
    BY DEF SubRule, Statuses
  <2>. QED
    BY <2>1, <2>2
<1>6. D \in SUBSET Places
  BY <1>2 DEF Rule, SubRule
<1> HIDE DEF S, D
<1>7. new.enabled = rules[r].enabled /\ StatusOf([rules[r] EXCEPT !.enabled = new.enabled], new)
  BY <1>2, <1>5 DEF StatusOf, Rule
<1>8. a \in Ask /\ a.dest = asked[r].dest /\ a.iface = asked[r].iface /\ a.enabled = new.enabled
  BY <1>2, <1>6, <1>7 DEF Ask
<1> HIDE DEF new, a
<1>. QED
  BY <1>1, <1>2, <1>3, <1>4, <1>7, <1>8, SwitchStep

\* A deletion takes the token: no save that is under way writes the rule again.
LEMMA DeleteRuleKeeps ==
  ASSUME RulesInv, NEW t \in TaskIds, NEW r \in RuleIds, DeleteRule(t, r)
  PROVE  RulesInv'
<1>0. /\ Types /\ Waits /\ SavesOwn /\ OthersEdit /\ EditKept /\ DeletedStaysDeleted
      /\ LastToggleWins /\ SubRulesBelong
  BY DEF RulesInv
<1>1. /\ tasks[t] = NoTask /\ tasks' = [tasks EXCEPT ![t] = Task("edit", r)]
      /\ rules' = [rules EXCEPT ![r] = NoRule] /\ asked' = [asked EXCEPT ![r] = NoRule]
      /\ token' = [token EXCEPT ![r] = NoTask]
      /\ mode' = mode /\ gateways' = gateways /\ queue' = queue /\ apply' = apply
  BY DEF DeleteRule, Edit, Acts
<1>2. /\ rules'[r] = NoRule /\ \A q \in RuleIds \ {r} : rules'[q] = rules[q]
      /\ asked'[r] = NoRule /\ \A q \in RuleIds \ {r} : asked'[q] = asked[q]
      /\ token'[r] = NoTask /\ \A q \in RuleIds \ {r} : token'[q] = token[q]
  BY <1>0, <1>1 DEF Types, RuleLists
<1>3. tasks'[t] = Task("edit", r) /\ \A u \in TaskIds \ {t} : tasks'[u] = tasks[u]
  BY <1>0, <1>1, OneMoves
<1>4. Task("edit", r) \in TaskState /\ Task("edit", r) # NoTask /\ Task("edit", r).pc = "edit"
  BY <1>0, NewTask
<1>5. Types'
  <2>1. rules' \in RuleLists /\ \A q \in RuleIds : rules'[q] # NoRule => rules'[q].id = q
    BY <1>0, <1>1, <1>2 DEF Types, RuleLists
  <2>2. tasks' \in [TaskIds -> TaskState \cup {NoTask}] /\ asked' \in [RuleIds -> Ask \cup {NoRule}]
    BY <1>0, <1>1, <1>4 DEF Types
  <2>3. token' \in [RuleIds -> TaskIds \cup {NoTask}]
    BY <1>0, <1>1 DEF Types
  <2>. QED
    BY <1>0, <1>1, <2>1, <2>2, <2>3 DEF Types
<1>6. Waits'
  <2>1. \A u \in TaskIds : Unmoved(u)
    BY <1>1, <1>3, <1>4 DEF Awaits, Unmoved
  <2>. QED
    BY <1>0, <1>1, <2>1, WaitsKept
<1>7. SavesOwn'
  <2> SUFFICES ASSUME NEW u \in TaskIds, Saving(u)'
               PROVE  SaveOwns(u)'
    BY DEF SavesOwn
  <2>1. u # t /\ tasks'[u] = tasks[u] /\ Saving(u)
    BY <1>3, <1>4 DEF Saving
  <2>2. SaveOwns(u)
    BY <1>0, <2>1 DEF SavesOwn
  <2>3. tasks[u].rule \in RuleIds
    BY <2>2 DEF SaveOwns
  <2>4. token'[tasks[u].rule] = u =>
          Owns(u) /\ SameRule(tasks[u].rule) /\ SameAsk(tasks[u].rule)
    BY <1>2, <2>3, AbsenceAssumption DEF Owns, SameRule, SameAsk
  <2>. QED
    BY <2>1, <2>2, <2>4, OwnsStill
<1>8. OthersEdit'
  BY <1>0, <1>3, <1>4 DEF OthersEdit, Saving
<1>9. EditKept'
  <2> SUFFICES ASSUME NEW q \in RuleIds, asked'[q] # NoRule
               PROVE  \/ rules'[q] # NoRule /\ AsksFor(asked'[q], rules'[q])
                      \/ \E u \in TaskIds : Awaits(u, "dns")' /\ tasks'[u].rule = q /\ token'[q] = u
    BY DEF EditKept
  <2>1. q # r
    BY <1>2
  <2>2. CASE \E u \in TaskIds : Awaits(u, "dns") /\ tasks[u].rule = q /\ token[q] = u
    BY <1>1, <1>2, <1>3, <2>1, <2>2 DEF Awaits
  <2>3. CASE rules[q] # NoRule /\ AsksFor(asked[q], rules[q])
    BY <1>2, <2>1, <2>3
  <2>. QED
    BY <1>0, <1>2, <2>1, <2>2, <2>3 DEF EditKept
<1>10. DeletedStaysDeleted' /\ LastToggleWins'
  BY <1>0, <1>2 DEF DeletedStaysDeleted, LastToggleWins
<1>11. SubRulesBelong'
  BY <1>0, <1>2 DEF SubRulesBelong
<1>. QED
  BY <1>5, <1>6, <1>7, <1>8, <1>9, <1>10, <1>11 DEF RulesInv

\* A change of the routing mode begins.
LEMMA SetModeKeeps ==
  ASSUME RulesInv, NEW t \in TaskIds, SetMode(t)
  PROVE  RulesInv'
<1>0. Types /\ Waits /\ SubRulesBelong
  BY DEF RulesInv
<1>1. PICK m \in Modes : tasks' = [tasks EXCEPT ![t] = [Task("mode", NoRule) EXCEPT !.mode = m]]
  BY DEF SetMode
<1> DEFINE task == [Task("mode", NoRule) EXCEPT !.mode = m]
<1>2. /\ tasks[t] = NoTask /\ rules' = rules /\ token' = token /\ asked' = asked
      /\ mode' = mode /\ gateways' = gateways /\ queue' = queue /\ apply' = apply
  BY DEF SetMode, Acts
<1>3. task \in TaskState /\ task # NoTask /\ task.pc = "mode"
  <2>1. task \in TaskState
    BY <1>0, NewTask DEF TaskState
  <2>. QED
    BY <1>0, <2>1, NewTask, AbsenceAssumption DEF TaskState
<1> HIDE DEF task
<1>4. tasks' = [tasks EXCEPT ![t] = task]
  BY <1>1 DEF task
<1>5. tasks'[t] = task /\ \A u \in TaskIds \ {t} : tasks'[u] = tasks[u]
  BY <1>0, <1>4, OneMoves
<1>6. SameButStatus(rules, rules') /\ SameParents(rules, rules')
  BY <1>0, <1>2, SameHere
<1>7. Types'
  <2>1. mode' \in Modes
    BY <1>0, <1>2 DEF Types
  <2>. QED
    BY <1>0, <1>2, <1>3, <1>4, <1>6, <2>1, SameAsks, TypesAfter
<1>8. Waits'
  <2>1. \A u \in TaskIds : Unmoved(u)
    BY <1>2, <1>3, <1>5 DEF Awaits, Unmoved
  <2>. QED
    BY <1>0, <1>2, <2>1, WaitsKept
<1>9. \A u \in TaskIds : tasks'[u] = tasks[u] \/ Advances(u)
  BY <1>2, <1>3, <1>5 DEF Advances, Awaits
<1>. QED
  BY <1>0, <1>2, <1>6, <1>7, <1>8, <1>9, SameAsks, QuietStep, SubsStay DEF RulesInv

-----------------------------------------------------------------------------
\* A save, until it has written its parent rule.

\* What a save may ask for has answers and pages.
Askable(ask) ==
  /\ ask \in Asking
  /\ Named(ask) => ask.destination \in DOMAIN Answers
  /\ ask.kind = "url" => ask.destination \in DOMAIN Found

\* The save t, which has the token, writes the rule that was asked for.
LEMMA ParentWritten ==
  ASSUME RulesInv, NEW t \in TaskIds, NEW task \in TaskState, NEW ips \in SUBSET Places,
         NEW r \in RuleIds, task.rule = r, Askable(task.ask), WriteParent(t, task, ips),
         tasks[t] = NoTask \/ (~Awaits(t, "apply") /\ tasks[t].rule = r),
         token' = [token EXCEPT ![r] = t],
         NEW a \in Ask, asked' = [asked EXCEPT ![r] = a], AsksFor(a, task.ask),
         a.enabled = SavedRule(task, ips, rules[r]).enabled,
         UNCHANGED <<mode, gateways, queue, apply>>
  PROVE  RulesInv'
<1> DEFINE new == SavedRule(task, ips, rules[r])
           kept == IF rules[r] = NoRule THEN {} ELSE rules[r].subs
           next == [task EXCEPT !.pc = "write", !.initial = {}, !.previous = kept]
<1>0. /\ Types /\ Waits /\ SavesOwn /\ OthersEdit /\ EditKept /\ DeletedStaysDeleted
      /\ LastToggleWins /\ SubRulesBelong
  BY DEF RulesInv
<1>1. /\ new \in Rule /\ new # NoRule /\ new.id = r /\ new.kind = task.ask.kind
      /\ new.destination = task.ask.destination /\ new.iface = task.ask.iface
      /\ new.enabled = a.enabled /\ new.subs = {}
  <2>1. rules[r] # NoRule => rules[r].enabled \in BOOLEAN
    BY <1>0 DEF Types, RuleLists, Rule
  <2>2. ResolvedStatus(task.ask, ips) \in Statuses
    BY DEF ResolvedStatus, Statuses
  <2>3. new \in Rule
    BY <2>1, <2>2 DEF SavedRule, Rule, Askable, Asking
  <2>. QED
    BY <2>3, AbsenceAssumption DEF SavedRule
<1>2. /\ next \in TaskState /\ next # NoTask /\ next.pc = "write" /\ next.rule = r
      /\ next.ask = task.ask
  <2>1. kept \in SUBSET SubRule
    BY <1>0 DEF Types, RuleLists, Rule
  <2> HIDE DEF kept
  <2>2. next \in TaskState
    BY <2>1 DEF TaskState
  <2>. QED
    BY <2>2, AbsenceAssumption DEF TaskState
<1>3. rules' = [rules EXCEPT ![r] = new] /\ tasks' = [tasks EXCEPT ![t] = next]
  BY DEF WriteParent
<1> HIDE DEF new, kept, next
<1>4. /\ rules'[r] = new /\ \A q \in RuleIds \ {r} : rules'[q] = rules[q]
      /\ asked'[r] = a /\ \A q \in RuleIds \ {r} : asked'[q] = asked[q]
      /\ token'[r] = t /\ \A q \in RuleIds \ {r} : token'[q] = token[q]
  BY <1>0, <1>3 DEF Types, RuleLists
<1>5. tasks'[t] = next /\ \A u \in TaskIds \ {t} : tasks'[u] = tasks[u]
  BY <1>0, <1>3, OneMoves
<1>6. a # NoRule
  BY DEF AsksFor
<1>7. Types'
  <2>1. rules' \in RuleLists /\ \A q \in RuleIds : rules'[q] # NoRule => rules'[q].id = q
    BY <1>0, <1>1, <1>3, <1>4 DEF Types, RuleLists
  <2>2. tasks' \in [TaskIds -> TaskState \cup {NoTask}]
    BY <1>0, <1>2, <1>3 DEF Types
  <2>3. asked' \in [RuleIds -> Ask \cup {NoRule}]
    BY <1>0 DEF Types
  <2>. QED
    BY <1>0, <2>1, <2>2, <2>3 DEF Types
<1>8. Waits'
  <2>1. \A u \in TaskIds : Unmoved(u)
    BY <1>2, <1>5 DEF Awaits, Unmoved
  <2>. QED
    BY <1>0, <2>1, WaitsKept
<1>9. SavesOwn'
  <2> SUFFICES ASSUME NEW u \in TaskIds, Saving(u)'
               PROVE  SaveOwns(u)'
    BY DEF SavesOwn
  <2>1. CASE u = t
    BY <1>1, <1>2, <1>4, <1>5, <2>1 DEF SaveOwns, Owns, AsksFor, Shows, Askable, Named
  <2>2. CASE u # t
    <3>1. tasks'[u] = tasks[u] /\ Saving(u) /\ SaveOwns(u)
      BY <1>0, <1>5, <2>2 DEF Saving, SavesOwn
    <3>2. tasks[u].rule \in RuleIds
      BY <3>1 DEF SaveOwns
    <3>3. token'[tasks[u].rule] = u =>
            Owns(u) /\ SameRule(tasks[u].rule) /\ SameAsk(tasks[u].rule)
      BY <1>4, <2>2, <3>2 DEF Owns, SameRule, SameAsk
    <3>. QED
      BY <3>1, <3>3, OwnsStill
  <2>. QED
    BY <2>1, <2>2
<1>10. OthersEdit'
  BY <1>0, <1>2, <1>5 DEF OthersEdit, Saving
<1>11. EditKept'
  <2> SUFFICES ASSUME NEW q \in RuleIds, asked'[q] # NoRule
               PROVE  \/ rules'[q] # NoRule /\ AsksFor(asked'[q], rules'[q])
                      \/ \E u \in TaskIds : Awaits(u, "dns")' /\ tasks'[u].rule = q /\ token'[q] = u
    BY DEF EditKept
  <2>1. CASE q = r
    BY <1>1, <1>4, <2>1 DEF AsksFor
  <2>2. CASE q # r /\ rules[q] # NoRule /\ AsksFor(asked[q], rules[q])
    BY <1>4, <2>2
  <2>3. CASE q # r /\ \E u \in TaskIds : Awaits(u, "dns") /\ tasks[u].rule = q /\ token[q] = u
    <3>1. PICK u \in TaskIds : Awaits(u, "dns") /\ tasks[u].rule = q /\ token[q] = u
      BY <2>3
    <3>2. tasks'[u] = tasks[u]
      BY <1>5, <2>3, <3>1 DEF Awaits
    <3>. QED
      BY <1>4, <2>3, <3>1, <3>2 DEF Awaits
  <2>. QED
    BY <1>0, <1>4, <2>1, <2>2, <2>3 DEF EditKept
<1>12. DeletedStaysDeleted' /\ LastToggleWins'
  BY <1>0, <1>1, <1>4, <1>6 DEF DeletedStaysDeleted, LastToggleWins
<1>13. SubRulesBelong'
  BY <1>0, <1>1, <1>4 DEF SubRulesBelong
<1>. QED
  BY <1>7, <1>8, <1>9, <1>10, <1>11, <1>12, <1>13 DEF RulesInv

\* A save takes the token and goes to the resolver.
LEMMA SaveAsks ==
  ASSUME RulesInv, NEW t \in TaskIds, tasks[t] = NoTask, NEW task \in TaskState,
         task # NoTask, NEW r \in RuleIds, task.rule = r, task.pc = "dns", Askable(task.ask),
         Named(task.ask), NEW a \in Ask, AsksFor(a, task.ask), a.enabled = task.ask.enabled,
         task.initial = IF rules[r] = NoRule THEN {} ELSE {task.ask.enabled},
         rules[r] # NoRule => rules[r].enabled = a.enabled,
         tasks' = [tasks EXCEPT ![t] = task], asked' = [asked EXCEPT ![r] = a],
         token' = [token EXCEPT ![r] = t],
         UNCHANGED <<rules, mode, gateways, queue, apply>>
  PROVE  RulesInv'
<1>0. /\ Types /\ Waits /\ SavesOwn /\ OthersEdit /\ EditKept /\ DeletedStaysDeleted
      /\ LastToggleWins /\ SubRulesBelong
  BY DEF RulesInv
<1>1. /\ asked'[r] = a /\ \A q \in RuleIds \ {r} : asked'[q] = asked[q]
      /\ token'[r] = t /\ \A q \in RuleIds \ {r} : token'[q] = token[q]
  BY <1>0 DEF Types
<1>2. tasks'[t] = task /\ \A u \in TaskIds \ {t} : tasks'[u] = tasks[u]
  BY <1>0, OneMoves
<1>3. a # NoRule
  BY DEF AsksFor
<1>4. Types'
  <2>1. tasks' \in [TaskIds -> TaskState \cup {NoTask}]
    BY <1>0 DEF Types
  <2>2. asked' \in [RuleIds -> Ask \cup {NoRule}] /\ token' \in [RuleIds -> TaskIds \cup {NoTask}]
    BY <1>0 DEF Types
  <2>. QED
    BY <1>0, <2>1, <2>2 DEF Types
<1>5. Waits'
  <2>1. \A u \in TaskIds : Unmoved(u)
    BY <1>2 DEF Awaits, Unmoved
  <2>. QED
    BY <1>0, <2>1, WaitsKept
<1>6. SavesOwn'
  <2> SUFFICES ASSUME NEW u \in TaskIds, Saving(u)'
               PROVE  SaveOwns(u)'
    BY DEF SavesOwn
  <2>1. CASE u = t
    BY <1>1, <1>2, <2>1 DEF SaveOwns, Owns, OwnsBefore, Askable, Named
  <2>2. CASE u # t
    <3>1. tasks'[u] = tasks[u] /\ Saving(u) /\ SaveOwns(u)
      BY <1>0, <1>2, <2>2 DEF Saving, SavesOwn
    <3>2. tasks[u].rule \in RuleIds
      BY <3>1 DEF SaveOwns
    <3>3. token'[tasks[u].rule] = u =>
            Owns(u) /\ SameRule(tasks[u].rule) /\ SameAsk(tasks[u].rule)
      BY <1>1, <2>2, <3>2 DEF Owns, SameRule, SameAsk
    <3>. QED
      BY <3>1, <3>3, OwnsStill
  <2>. QED
    BY <2>1, <2>2
<1>7. OthersEdit'
  BY <1>0, <1>2 DEF OthersEdit, Saving
<1>8. EditKept'
  <2> SUFFICES ASSUME NEW q \in RuleIds, asked'[q] # NoRule
               PROVE  \/ rules'[q] # NoRule /\ AsksFor(asked'[q], rules'[q])
                      \/ \E u \in TaskIds : Awaits(u, "dns")' /\ tasks'[u].rule = q /\ token'[q] = u
    BY DEF EditKept
  <2>1. CASE q = r
    BY <1>1, <1>2, <2>1 DEF Awaits
  <2>2. CASE q # r /\ rules[q] # NoRule /\ AsksFor(asked[q], rules[q])
    BY <1>1, <2>2
  <2>3. CASE q # r /\ \E u \in TaskIds : Awaits(u, "dns") /\ tasks[u].rule = q /\ token[q] = u
    BY <1>1, <1>2, <2>3 DEF Awaits
  <2>. QED
    BY <1>0, <1>1, <2>1, <2>2, <2>3 DEF EditKept
<1>9. DeletedStaysDeleted' /\ LastToggleWins'
  BY <1>0, <1>1, <1>3 DEF DeletedStaysDeleted, LastToggleWins
<1>10. SubRulesBelong'
  BY <1>0 DEF SubRulesBelong
<1>. QED
  BY <1>4, <1>5, <1>6, <1>7, <1>8, <1>9, <1>10 DEF RulesInv

\* A save that starts keeps the invariant.
LEMMA SaveKeeps ==
  ASSUME RulesInv, NEW t \in TaskIds, NEW r \in RuleIds, NEW dest \in Destinations,
         NEW iface \in Ifaces, Save(t, r, dest, iface)
  PROVE  RulesInv'
<1> DEFINE on == IF rules[r] = NoRule THEN TRUE ELSE rules[r].enabled
           ask == [kind |-> dest.kind, destination |-> dest.destination, iface |-> iface,
                   enabled |-> on]
           first == IF rules[r] = NoRule THEN {} ELSE {on}
           task == [Task("dns", r) EXCEPT !.ask = ask, !.initial = first]
           off == IF rules[r] = NoRule \/ ~Named(dest) \/ Taken(r) THEN {}
                  ELSE AskOf(r).off
           a == [dest |-> dest, iface |-> iface, enabled |-> on, off |-> off]
<1>0. Types
  BY DEF RulesInv
<1>1. /\ tasks[t] = NoTask /\ token' = [token EXCEPT ![r] = t]
      /\ asked' = [asked EXCEPT ![r] = a]
      /\ UNCHANGED <<mode, gateways, queue, apply>>
  BY DEF Save, Acts
<1>2. /\ dest \in [kind : Kinds, destination : Places]
      /\ Named(dest) => dest.destination \in DOMAIN Answers
      /\ dest.kind = "url" => dest.destination \in DOMAIN Found
  BY DestinationsAssumption
<1>3. on \in BOOLEAN
  BY <1>0 DEF Types, RuleLists, Rule
<1>4. /\ Askable(ask) /\ Named(ask) = Named(dest) /\ ask.enabled = on /\ ask.iface = iface
      /\ ask.destination = dest.destination
  BY <1>2, <1>3 DEF Askable, Asking, Named
<1>5. off \in SUBSET Places
  <2>1. asked[r] # NoRule => asked[r] \in Ask
    BY <1>0 DEF Types
  <2>2. {} \in SUBSET Places
    OBVIOUS
  <2>. QED
    BY <2>1, <2>2 DEF AskOf, Ask
<1>6. /\ task \in TaskState /\ task # NoTask /\ task.ask = ask /\ task.initial = first
      /\ task.rule = r /\ task.pc = "dns"
  <2>1. Task("dns", r) \in TaskState /\ Task("dns", r).pc = "dns" /\ Task("dns", r).rule = r
    BY <1>0, NewTask
  <2>2. first \in SUBSET BOOLEAN /\ ask \in Asking
    BY <1>3, <1>4 DEF Askable
  <2> HIDE DEF first, ask
  <2>3. task \in TaskState
    BY <2>1, <2>2 DEF TaskState
  <2>. QED
    BY <2>1, <2>3, AbsenceAssumption DEF TaskState
<1>7. a \in Ask /\ a.enabled = on /\ AsksFor(a, ask)
  <2>1. a \in Ask
    <3> HIDE DEF off, on
    <3>. QED
      BY <1>2, <1>3, <1>5 DEF Ask
  <2>. QED
    BY <2>1, AbsenceAssumption DEF AsksFor
<1>8. rules[r] # NoRule => rules[r].enabled = on
  OBVIOUS
<1>9. CASE Named(dest) /\ tasks' = [tasks EXCEPT ![t] = task] /\ rules' = rules
  <2>1. task.initial = IF rules[r] = NoRule THEN {} ELSE {task.ask.enabled}
    BY <1>4, <1>6
  <2> HIDE DEF on, ask, first, task, off, a
  <2>. QED
    BY <1>1, <1>4, <1>6, <1>7, <1>8, <1>9, <2>1, SaveAsks
<1>10. CASE ~Named(dest) /\ \E ips \in Resolutions(dest) : WriteParent(t, task, ips)
  <2>1. PICK ips \in Resolutions(dest) : WriteParent(t, task, ips)
    BY <1>10
  <2>2. ips \in SUBSET Places
    BY <1>2, <2>1, ResolutionsOK
  <2>3. a.enabled = SavedRule(task, ips, rules[r]).enabled
    <3>1. SavedRule(task, ips, rules[r]).enabled = on
      BY <1>4, <1>6, <1>8 DEF SavedRule
    <3>. QED
      BY <1>7, <3>1
  <2> HIDE DEF on, ask, first, task, off, a
  <2>. QED
    BY <1>1, <1>4, <1>6, <1>7, <2>1, <2>2, <2>3, ParentWritten
<1>. QED
  BY <1>9, <1>10 DEF Save

\* A save whose destination is resolved, superseded or not, keeps the invariant.
LEMMA SaveResolvedKeeps ==
  ASSUME RulesInv, NEW t \in TaskIds, SaveResolved(t)
  PROVE  RulesInv'
<1> DEFINE r == tasks[t].rule
<1>0. Types /\ SavesOwn /\ LastToggleWins
  BY DEF RulesInv
<1>1. /\ tasks[t] \in TaskState /\ tasks[t].pc = "dns" /\ SaveOwns(t) /\ Awaits(t, "dns")
      /\ UNCHANGED <<mode, gateways, token, queue, apply>>
  BY <1>0 DEF SaveResolved, Awaits, Types, Saving, SavesOwn
<1>2. r \in RuleIds /\ Askable(tasks[t].ask)
  BY <1>1 DEF SaveOwns, Askable
<1>3. CASE Superseded(t) /\ tasks' = [tasks EXCEPT ![t] = NoTask] /\ rules' = rules /\ asked' = asked
  <2>1. ~Owns(t)
    BY <1>1, <1>3 DEF SaveOwns, Superseded, Owns, OwnsBefore
  <2>2. mode' \in Modes
    BY <1>0, <1>1 DEF Types
  <2>. QED
    BY <1>0, <1>1, <1>3, <2>1, <2>2, SameHere, SameAsks, TaskEnds DEF Awaits
<1>4. CASE /\ ~Superseded(t)
           /\ \E ips \in Resolutions(tasks[t].ask) :
                /\ WriteParent(t, tasks[t], ips)
                /\ IF tasks[t].ask.kind # "url" \/ ips = {} THEN NoScan(t) ELSE UNCHANGED asked
  <2>1. PICK ips \in Resolutions(tasks[t].ask) :
          /\ WriteParent(t, tasks[t], ips)
          /\ IF tasks[t].ask.kind # "url" \/ ips = {} THEN NoScan(t) ELSE UNCHANGED asked
    BY <1>4
  <2>2. ips \in SUBSET Places
    BY <1>2, <2>1, ResolutionsOK DEF Askable, Asking
  <2>3. token[r] = t /\ Owns(t) /\ AsksFor(asked[r], tasks[t].ask)
        /\ OwnsBefore(tasks[t], asked[r], rules[r])
    BY <1>1, <1>4 DEF SaveOwns, Superseded, Owns
  <2>4. asked[r] \in Ask /\ asked[r].enabled = SavedRule(tasks[t], ips, rules[r]).enabled
    BY <1>0, <1>2, <2>3 DEF Types, OwnsBefore, SavedRule, LastToggleWins, AsksFor
  <2>5. PICK a \in Ask : /\ asked' = [asked EXCEPT ![r] = a]
                         /\ a.enabled = asked[r].enabled /\ AsksFor(a, tasks[t].ask)
    <3>1. CASE tasks[t].ask.kind # "url" \/ ips = {}
      <4> DEFINE b == [asked[r] EXCEPT !.off = {}]
      <4>1. b \in Ask /\ b.dest = asked[r].dest /\ b.iface = asked[r].iface
            /\ b.enabled = asked[r].enabled
        BY <2>4 DEF Ask
      <4>2. asked' = [asked EXCEPT ![r] = b]
        BY <2>1, <3>1 DEF NoScan
      <4>3. AsksFor(b, tasks[t].ask)
        BY <2>3, <4>1, AbsenceAssumption DEF AsksFor
      <4> HIDE DEF b
      <4>. QED
        BY <4>1, <4>2, <4>3
    <3>2. CASE ~(tasks[t].ask.kind # "url" \/ ips = {})
      BY <1>0, <1>2, <2>1, <2>3, <2>4, <3>2 DEF Types
    <3>. QED
      BY <3>1, <3>2
  <2>6. token' = [token EXCEPT ![r] = t]
    BY <1>0, <1>1, <1>2, <2>3 DEF Types
  <2>7. ~Awaits(t, "apply")
    BY <1>1 DEF Awaits
  <2>8. a.enabled = SavedRule(tasks[t], ips, rules[r]).enabled
    BY <2>4, <2>5
  <2>9. UNCHANGED <<mode, gateways, queue, apply>> /\ tasks[t].rule = r
    BY <1>1
  <2>10. tasks[t] \in TaskState /\ WriteParent(t, tasks[t], ips)
    BY <1>1, <2>1
  <2>11. a \in Ask /\ asked' = [asked EXCEPT ![r] = a] /\ AsksFor(a, tasks[t].ask)
    BY <2>5
  <2> HIDE DEF r
  <2>. QED
    BY <1>2, <2>2, <2>6, <2>7, <2>8, <2>9, <2>10, <2>11, ParentWritten, ZenonT(40)
<1>. QED
  BY <1>3, <1>4 DEF SaveResolved

-----------------------------------------------------------------------------
\* The chain of applies.

\* An apply that goes on, or one more on the chain: statuses change, and no task moves.
LEMMA NobodyMoves ==
  ASSUME RulesInv, SameButStatus(rules, rules'),
         UNCHANGED <<tasks, token, asked, mode>>, gateways' \in [Ifaces -> Gateways],
         queue' = queue \/ queue' = Append(queue, NoTask),
         apply'.pc \in {"idle", "plan", "reconcile", "clear", "save"},
         apply'.pc # "idle" => queue # <<>>
  PROVE  RulesInv'
<1>0. Types /\ Waits /\ SubRulesBelong
  BY DEF RulesInv
<1>1. Types'
  <2>1. queue' \in Seq(TaskIds \cup {NoTask}) /\ (queue # <<>> => queue' # <<>>)
    BY <1>0, SMTT(30) DEF Types
  <2>2. rules' \in RuleLists /\ \A r \in RuleIds : rules'[r] # NoRule => rules'[r].id = r
    BY <1>0 DEF Types, SameButStatus, SameParents
  <2>. QED
    BY <1>0, <2>1, <2>2 DEF Types
<1>2. Waits'
  <2>1. \A u \in TaskIds : Unmoved(u)
    BY DEF Awaits, Unmoved
  <2>. QED
    BY <1>0, <2>1, WaitsKept, WaitsNobody
<1>3. SavesOwn' /\ OthersEdit' /\ EditKept' /\ DeletedStaysDeleted' /\ LastToggleWins'
  BY <1>0, SameAsks, QuietStep DEF SameButStatus
<1>. QED
  BY <1>0, <1>1, <1>2, <1>3, SubsStay DEF RulesInv

\* An apply ends: the save that waits for it, and no other task, goes on.
LEMMA ApplyEndsKeeps ==
  ASSUME RulesInv, apply.pc # "idle", NEW rs, SameButStatus(rules, rs), ApplyEnds(rs),
         UNCHANGED <<mode, gateways, token, asked>>
  PROVE  RulesInv'
<1> DEFINE h == Head(queue)
<1>0. Types /\ Waits /\ SavesOwn /\ SubRulesBelong
  BY DEF RulesInv
<1>1. /\ queue # <<>> /\ queue' = Tail(queue) /\ rules' = rs /\ apply' = NoApply
      /\ SameButStatus(rules, rules')
  BY <1>0 DEF ApplyEnds, Types
<1>2. h \in TaskIds \cup {NoTask} /\ (h # NoTask => Awaits(h, "apply"))
  <2>1. queue \in Seq(TaskIds \cup {NoTask})
    BY <1>0 DEF Types
  <2>2. 1 \in DOMAIN queue /\ h = queue[1] /\ queue[1] \in TaskIds \cup {NoTask}
    BY <1>1, <2>1
  <2>. QED
    BY <1>0, <2>2 DEF Waits, WaitersWait
<1>3. /\ \A u \in TaskIds : u # h => tasks'[u] = tasks[u]
      /\ h # NoTask =>
           /\ tasks'[h] \in TaskState \cup {NoTask}
           /\ tasks'[h] # NoTask =>
                /\ tasks'[h].pc \in {"scan", "mark"} /\ tasks[h].ask.kind = "url"
                /\ tasks'[h].rule = tasks[h].rule /\ tasks'[h].ask = tasks[h].ask
      /\ tasks' \in [TaskIds -> TaskState \cup {NoTask}]
  <2>1. CASE h = NoTask
    BY <1>0, <2>1 DEF ApplyEnds, Types
  <2>2. CASE h # NoTask
    <3>1. h \in TaskIds /\ tasks[h] \in TaskState
      BY <1>0, <1>2, <2>2 DEF Types, Awaits
    <3>2. tasks' = [tasks EXCEPT ![h] = AfterApply(h, rs)]
      BY <2>2 DEF ApplyEnds
    <3>3. /\ [tasks[h] EXCEPT !.pc = "scan"] \in TaskState
          /\ [tasks[h] EXCEPT !.pc = "scan"].pc = "scan"
          /\ [tasks[h] EXCEPT !.pc = "scan"].rule = tasks[h].rule
          /\ [tasks[h] EXCEPT !.pc = "scan"].ask = tasks[h].ask
          /\ [tasks[h] EXCEPT !.pc = "mark"] \in TaskState
          /\ [tasks[h] EXCEPT !.pc = "mark"].pc = "mark"
          /\ [tasks[h] EXCEPT !.pc = "mark"].rule = tasks[h].rule
          /\ [tasks[h] EXCEPT !.pc = "mark"].ask = tasks[h].ask
      BY <3>1, Moved
    <3> DEFINE after == AfterApply(h, rs)
    <3>4. /\ after \in TaskState \cup {NoTask}
          /\ after # NoTask =>
                /\ after.pc \in {"scan", "mark"} /\ tasks[h].ask.kind = "url"
                /\ after.rule = tasks[h].rule /\ after.ask = tasks[h].ask
      BY <3>3 DEF AfterApply
    <3> HIDE DEF after
    <3>5. tasks'[h] = after /\ \A u \in TaskIds \ {h} : tasks'[u] = tasks[u]
      BY <1>0, <3>1, <3>2, OneMoves DEF after
    <3>6. tasks' \in [TaskIds -> TaskState \cup {NoTask}]
      BY <1>0, <3>1, <3>2, <3>4 DEF Types, after
    <3>. QED
      BY <3>4, <3>5, <3>6
  <2>. QED
    BY <2>1, <2>2
<1>4. Types'
  <2>1. queue' \in Seq(TaskIds \cup {NoTask})
    BY <1>0, <1>1 DEF Types
  <2>2. rules' \in RuleLists /\ \A r \in RuleIds : rules'[r] # NoRule => rules'[r].id = r
    BY <1>0, <1>1 DEF Types, SameButStatus, SameParents
  <2>3. apply'.pc = "idle"
    BY <1>1 DEF NoApply
  <2>. QED
    BY <1>0, <1>3, <2>1, <2>2, <2>3 DEF Types
<1>5. Waits'
  <2>1. \A u \in TaskIds : u = Head(queue) => ~Awaits(u, "apply")'
    BY <1>2, <1>3, AbsenceAssumption DEF Awaits
  <2>2. \A u \in TaskIds : u # Head(queue) => Unmoved(u)
    BY <1>3 DEF Awaits, Unmoved
  <2>. QED
    BY <1>0, <1>1, <2>1, <2>2, WaitsLess
<1>6. \A u \in TaskIds : tasks'[u] = tasks[u] \/ Advances(u)
  <2> SUFFICES ASSUME NEW u \in TaskIds, u = h PROVE Advances(u)
    BY <1>3
  <2>1. u # NoTask /\ tasks[u] # NoTask /\ tasks[u].pc = "apply"
    BY <1>2, AbsenceAssumption DEF Awaits
  <2>. QED
    BY <1>3, <2>1 DEF Advances, Awaits, Saving
<1>7. SavesOwn' /\ OthersEdit' /\ EditKept' /\ DeletedStaysDeleted' /\ LastToggleWins'
  BY <1>0, <1>1, <1>6, SameAsks, QuietStep DEF SameButStatus
<1>. QED
  BY <1>0, <1>1, <1>4, <1>5, <1>7, SubsStay DEF RulesInv

\* The chain of applies keeps the invariant.
LEMMA AppliesKeep ==
  ASSUME RulesInv, Applies
  PROVE  RulesInv'
<1>0. Types
  BY DEF RulesInv
<1>1. /\ rules \in RuleLists /\ gateways \in [Ifaces -> Gateways]
      /\ apply.pc # "idle" => queue # <<>>
  BY <1>0 DEF Types
<1>2. CASE ApplyBegins
  BY <1>0, <1>1, <1>2, SameHere, NobodyMoves DEF ApplyBegins, ApplyGoes
<1>3. CASE ApplyPlans
  BY <1>0, <1>1, <1>3, SameHere, NobodyMoves DEF ApplyPlans, ApplyGoes
<1>4. CASE ApplyStops
  BY <1>1, <1>4, AllFailStatus, ApplyEndsKeeps DEF ApplyStops
<1>5. CASE ApplyReplied
  <2>0. \E reply : rules' = Report(rules, apply.plan, reply)
    BY <1>5 DEF ApplyReplied
  <2>1. SameButStatus(rules, rules')
    BY <1>1, <2>0, ReportStatus
  <2>. QED
    BY <1>0, <1>1, <1>5, <2>1, NobodyMoves DEF ApplyReplied, ApplyGoes
<1>6. CASE ApplyThrows
  BY <1>1, <1>6, AllFailStatus, ApplyEndsKeeps DEF ApplyThrows
<1>7. CASE ApplyCleared
  <2>1. SameButStatus(rules, rules')
    BY <1>1, <1>7, AllHaveStatus DEF ApplyCleared, Clears, Statuses
  <2>. QED
    BY <1>0, <1>1, <1>7, <2>1, NobodyMoves DEF ApplyCleared, ApplyGoes
<1>8. CASE ApplySaved
  BY <1>1, <1>8, AllFailStatus, SameIsSame, ApplyEndsKeeps DEF ApplySaved
<1>. QED
  BY <1>2, <1>3, <1>4, <1>5, <1>6, <1>7, <1>8 DEF Applies

-----------------------------------------------------------------------------
\* The invariant.

\* The invariant holds at first.
LEMMA RulesStart == Init => RulesInv
<1> SUFFICES ASSUME Init PROVE RulesInv
  OBVIOUS
<1>1. NoRules \in RuleLists /\ \A r \in RuleIds : rules[r] = NoRule /\ asked[r] = NoRule
  BY DEF Init, NoRules, RuleLists
<1>2. Types
  BY <1>1 DEF Init, Types, NoRules, NoApply
<1>3. \A t \in TaskIds : Free(t)
  BY DEF Init
<1>4. Waits
  BY <1>3 DEF Init, Waits, WaitersWait, WaitOnce, WaitedFor, Awaits
<1>5. SavesOwn /\ OthersEdit
  BY <1>3 DEF SavesOwn, Saving, OthersEdit
<1>6. EditKept /\ DeletedStaysDeleted /\ LastToggleWins /\ SubRulesBelong
  BY <1>1 DEF EditKept, DeletedStaysDeleted, LastToggleWins, SubRulesBelong
<1>. QED
  BY <1>2, <1>4, <1>5, <1>6 DEF RulesInv

\* What the user does keeps the invariant.
LEMMA UserKeeps ==
  ASSUME RulesInv, NoListWrites, User
  PROVE  RulesInv'
<1>1. \A t \in TaskIds : ~Acts("import", t) /\ ~Acts("refresh", t)
  BY DEF NoListWrites, Acts
<1>2. CASE \E t \in TaskIds, r \in RuleIds, dest \in Destinations, iface \in Ifaces :
             Save(t, r, dest, iface) \/ \E on \in BOOLEAN : Import(t, r, dest, iface, on)
  BY <1>1, <1>2, SaveKeeps DEF Import
<1>3. CASE \E t \in TaskIds, r \in RuleIds :
             \/ \E on \in BOOLEAN : SetRuleEnabled(t, r, on)
             \/ \E f \in UNION {Found[url] : url \in DOMAIN Found}, on \in BOOLEAN :
                  SetSubRuleEnabled(t, r, f.id, on)
             \/ DeleteRule(t, r)
  BY <1>3, SetRuleEnabledKeeps, SetSubRuleEnabledKeeps, DeleteRuleKeeps
<1>4. CASE \E t \in TaskIds : Refresh(t) \/ SetMode(t)
  BY <1>1, <1>4, SetModeKeeps DEF Refresh
<1>5. CASE Reapply
  <2>1. Types
    BY DEF RulesInv
  <2>2. apply.pc \in {"idle", "plan", "reconcile", "clear", "save"}
        /\ (apply.pc # "idle" => queue # <<>>)
    BY <2>1 DEF Types
  <2>. QED
    BY <1>5, <2>1, <2>2, SameHere, NobodyMoves DEF Reapply, ApplyAll
<1>. QED
  BY <1>2, <1>3, <1>4, <1>5 DEF User

\* What operations do after their awaits keeps the invariant.
LEMMA GoesKeeps ==
  ASSUME RulesInv, NEW t \in TaskIds, Goes(t)
  PROVE  RulesInv'
<1>1. ~Awaits(t, "refresh") /\ ~Awaits(t, "import") /\ ~Awaits(t, "importWrite")
  BY DEF RulesInv, OthersEdit, Saving, Awaits
<1>2. ~RefreshResolved(t) /\ ~ImportResolved(t) /\ ~ImportWritten(t)
  BY <1>1 DEF RefreshResolved, ImportResolved, ImportWritten
<1>. QED
  BY <1>2, SaveResolvedKeeps, SaveWrittenKeeps, SaveMarkedKeeps, ScanEndsKeeps,
     ScanWrittenKeeps, EditWrittenKeeps, ModeWrittenKeeps DEF Goes

\* Every step keeps the invariant.
LEMMA RulesStep ==
  ASSUME NoListWrites
  PROVE  RulesInv /\ [Next]_vars => RulesInv'
<1> SUFFICES ASSUME RulesInv, [Next]_vars PROVE RulesInv'
  OBVIOUS
<1>1. CASE User
  BY <1>1, UserKeeps
<1>2. CASE Applies
  BY <1>2, AppliesKeep
<1>3. CASE \E t \in TaskIds : Goes(t)
  BY <1>3, GoesKeeps
<1>4. CASE Late \/ UNCHANGED vars
  <2>1. Types
    BY DEF RulesInv
  <2>2. UNCHANGED <<rules, mode, gateways, tasks, token, queue, apply, asked>>
    BY <1>4 DEF vars, Late, LateEdits, LateEnds
  <2>3. gateways' \in [Ifaces -> Gateways]
        /\ apply'.pc \in {"idle", "plan", "reconcile", "clear", "save"}
        /\ (apply'.pc # "idle" => queue # <<>>)
    BY <2>1, <2>2 DEF Types
  <2>. QED
    BY <2>1, <2>2, <2>3, SameHere, NobodyMoves
<1>. QED
  BY <1>1, <1>2, <1>3, <1>4 DEF Next

\* The invariant that the theorems below rest on, for upsertRule, its scan, the toggles,
\* deletions, changes of mode and the chain of applies in any order and with any failures.
THEOREM RulesCorrect ==
  ASSUME NoListWrites
  PROVE  Spec => []RulesInv
  BY RulesStart, RulesStep, PTL DEF Spec

-----------------------------------------------------------------------------
\* What it gives.

\* Requests to the helper are the chain's: what else goes on leaves them alone.
LEMMA OnlyAppliesAsk ==
  ASSUME User \/ \E t \in TaskIds : Goes(t)
  PROVE  UNCHANGED <<apply, table, late, beside>>
<1>1. CASE User
  <2>1. ASSUME NEW t \in TaskIds, NEW r \in RuleIds, NEW dest, NEW iface, NEW on,
               Save(t, r, dest, iface) \/ Import(t, r, dest, iface, on)
        PROVE  UNCHANGED <<apply, table, late, beside>>
    BY <2>1 DEF Save, Import
  <2>2. ASSUME NEW t \in TaskIds, NEW r \in RuleIds, NEW id, NEW on,
               SetRuleEnabled(t, r, on) \/ SetSubRuleEnabled(t, r, id, on) \/ DeleteRule(t, r)
        PROVE  UNCHANGED <<apply, table, late, beside>>
    BY <2>2 DEF SetRuleEnabled, SetSubRuleEnabled, DeleteRule, Edit
  <2>3. ASSUME NEW t \in TaskIds, Refresh(t) \/ SetMode(t)
        PROVE  UNCHANGED <<apply, table, late, beside>>
    BY <2>3 DEF Refresh, SetMode
  <2>4. CASE Reapply
    BY <2>4 DEF Reapply
  <2>. QED
    BY <1>1, <2>1, <2>2, <2>3, <2>4 DEF User
<1>2. CASE \E t \in TaskIds : Goes(t)
  <2>1. PICK t \in TaskIds : Goes(t)
    BY <1>2
  <2>2. CASE SaveResolved(t) \/ SaveWritten(t) \/ SaveMarked(t)
    BY <2>2, ZenonT(40) DEF SaveResolved, SaveWritten, SaveMarked
  <2>3. CASE ScanEnds(t) \/ ScanWritten(t)
    BY <2>3 DEF ScanEnds, ScanWritten
  <2>4. CASE EditWritten(t) \/ RefreshResolved(t) \/ ModeWritten(t)
    BY <2>4 DEF EditWritten, RefreshResolved, ModeWritten
  <2>5. CASE ImportResolved(t) \/ ImportWritten(t)
    BY <2>5 DEF ImportResolved, ImportWritten
  <2>. QED
    BY <2>1, <2>2, <2>3, <2>4, <2>5 DEF Goes
<1>. QED
  BY <1>1, <1>2

\* Whether a request was made beside others is decided when it is made.
LEMMA AppliesAsk ==
  ASSUME Applies
  PROVE  \/ Asks /\ UNCHANGED <<table, late>>
         \/ UNCHANGED beside /\ (late' = late \/ "timeout" \in Faults)
<1>1. CASE ApplyBegins \/ ApplyPlans
  BY <1>1 DEF ApplyBegins, ApplyPlans
<1>2. CASE ApplyStops \/ ApplyThrows \/ ApplySaved
  BY <1>2 DEF ApplyStops, ApplyThrows, ApplySaved, NotAnswered
<1>3. CASE ApplyReplied
  BY <1>3 DEF ApplyReplied, NotAnswered
<1>4. CASE ApplyCleared
  BY <1>4 DEF ApplyCleared, NotAnswered
<1>. QED
  BY <1>1, <1>2, <1>3, <1>4 DEF Applies

\* The types of the controller, and that each save awaiting its apply has just one place
\* on the chain.
THEOREM RulesTypes ==
  ASSUME NoListWrites
  PROVE  Spec => []TypeOK
<1>1. RulesInv /\ beside \in BOOLEAN => TypeOK
  <2> SUFFICES ASSUME RulesInv, beside \in BOOLEAN PROVE TypeOK
    OBVIOUS
  <2>0. Types /\ Waits
    BY DEF RulesInv
  <2>1. WaitersOK
    <3> SUFFICES ASSUME NEW t \in TaskIds
                 PROVE  Cardinality({i \in DOMAIN queue : queue[i] = t})
                          = IF Awaits(t, "apply") THEN 1 ELSE 0
      BY DEF WaitersOK
    <3>1. CASE Awaits(t, "apply")
      <4>1. PICK i \in DOMAIN queue : queue[i] = t
        BY <2>0, <3>1 DEF Waits, WaitedFor
      <4>2. {j \in DOMAIN queue : queue[j] = t} = {i}
        BY <2>0, <4>1, AbsenceAssumption DEF Waits, WaitOnce
      <4>. QED
        BY <3>1, <4>2, FS_Singleton
    <3>2. CASE ~Awaits(t, "apply")
      <4>1. {j \in DOMAIN queue : queue[j] = t} = {}
        BY <2>0, <3>2, AbsenceAssumption DEF Waits, WaitersWait
      <4>. QED
        BY <3>2, <4>1, FS_EmptySet
    <3>. QED
      BY <3>1, <3>2
  <2>. QED
    BY <2>0, <2>1 DEF Types, TypeOK
<1>2. Init => beside \in BOOLEAN
  BY DEF Init
<1>3. beside \in BOOLEAN /\ [Next]_vars => (beside \in BOOLEAN)'
  <2> SUFFICES ASSUME beside \in BOOLEAN, [Next]_vars PROVE beside' \in BOOLEAN
    OBVIOUS
  <2>1. CASE Applies
    <3>1. (late # {}) \in BOOLEAN
      OBVIOUS
    <3>. QED
      BY <2>1, <3>1, AppliesAsk DEF Asks
  <2>2. CASE User \/ \E t \in TaskIds : Goes(t)
    BY <2>2, OnlyAppliesAsk
  <2>3. CASE Late \/ UNCHANGED vars
    BY <2>3 DEF Late, LateEdits, LateEnds, vars
  <2>. QED
    BY <2>1, <2>2, <2>3 DEF Next
<1>. QED
  BY <1>1, <1>2, <1>3, RulesCorrect, PTL DEF Spec

\* deleteRule is final: no save or scan under way brings the rule back.
THEOREM DeletionsFinal ==
  ASSUME NoListWrites
  PROVE  Spec => []DeletedStaysDeleted
<1>1. RulesInv => DeletedStaysDeleted
  BY DEF RulesInv
<1>. QED
  BY <1>1, RulesCorrect, PTL

\* setRuleEnabled has the last word over the saves and scans that overlap it.
THEOREM TogglesWin ==
  ASSUME NoListWrites
  PROVE  Spec => []LastToggleWins
<1>1. RulesInv => LastToggleWins
  BY DEF RulesInv
<1>. QED
  BY <1>1, RulesCorrect, PTL

\* Of any number of racing saves of a rule the one that began last decides what the rule
\* is, whatever the resolver, the scan and the writes do.
THEOREM EditsWin ==
  ASSUME NoListWrites
  PROVE  Spec => []LastEditWins
<1>1. RulesInv => LastEditWins
  <2> SUFFICES ASSUME RulesInv, NEW r \in RuleIds, asked[r] # NoRule,
                      \A t \in TaskIds : Free(t) \/ tasks[t].rule # r
               PROVE  /\ rules[r] # NoRule
                      /\ rules[r].destination = asked[r].dest.destination
                      /\ rules[r].iface = asked[r].iface
    BY DEF LastEditWins
  <2>. QED
    BY DEF RulesInv, EditKept, AsksFor, Awaits
<1>. QED
  BY <1>1, RulesCorrect, PTL

\* The result of a scan goes to the rule of its own page and to no other: _scan's checks
\* of the token after each of its awaits.
THEOREM SubRulesOwn ==
  ASSUME NoListWrites
  PROVE  Spec => []SubRulesBelong
<1>1. RulesInv => SubRulesBelong
  BY DEF RulesInv
<1>. QED
  BY <1>1, RulesCorrect, PTL
-----------------------------------------------------------------------------
\* What a reply changes is nothing a plan reads.

\* Entries, rules and lists of rules that differ in their statuses only.
EntryAlike(old, new) ==
  /\ new.id = old.id /\ new.kind = old.kind /\ new.destination = old.destination
  /\ new.ips = old.ips /\ new.enabled = old.enabled
SubsAlike(old, new) ==
  /\ \A sub \in new : \E was \in old : EntryAlike(was, sub)
  /\ \A was \in old : \E sub \in new : EntryAlike(was, sub)
RuleAlike(old, new) ==
  EntryAlike(old, new) /\ new.iface = old.iface /\ SubsAlike(old.subs, new.subs)
ListAlike(old, new) ==
  \A r \in RuleIds :
    /\ new[r] = NoRule <=> old[r] = NoRule
    /\ old[r] # NoRule => RuleAlike(old[r], new[r])

\* A list is like itself.
LEMMA AlikeItself == \A rs : ListAlike(rs, rs)
  BY DEF ListAlike, RuleAlike, EntryAlike, SubsAlike

\* An entry that differs in its status claims the same.
LEMMA SameCidrs ==
  ASSUME NEW old, NEW new, EntryAlike(old, new)
  PROVE  Cidrs(new) = Cidrs(old)
  BY DEF EntryAlike, Cidrs

\* A rule as it is planned.
View(rule) ==
  [id |-> rule.id, kind |-> rule.kind, destination |-> rule.destination,
   ips |-> rule.ips, iface |-> rule.iface, enabled |-> rule.enabled,
   subs |-> rule.subs, gateway |-> gateways[rule.iface]]

\* planFromRules sees each rule there is.
LEMMA PlannedViews ==
  ASSUME NEW rs
  PROVE  Planned(rs) = {View(rs[r]) : r \in {i \in RuleIds : rs[i] # NoRule}}
  BY DEF Planned, Live, View

\* The claims of a sub-rule.
SubClaim(rule, sub) == Claim(View(rule), sub.id, sub)

\* What a planned rule claims: its own CIDRs and those of its sub-rules that are on.
LEMMA ViewClaims ==
  ASSUME NEW rule
  PROVE  RuleClaims(View(rule)) =
           IF ~rule.enabled THEN {}
           ELSE Claim(View(rule), 0, rule)
                \cup UNION {SubClaim(rule, sub) : sub \in {s \in rule.subs : s.enabled}}
<1>1. Cidrs(View(rule)) = Cidrs(rule)
  BY DEF View, Cidrs
<1>2. Claim(View(rule), 0, View(rule)) = Claim(View(rule), 0, rule)
  BY <1>1 DEF Claim
<1>3. View(rule).enabled = rule.enabled /\ View(rule).subs = rule.subs
  BY DEF View
<1>. QED
  BY <1>2, <1>3 DEF RuleClaims, SubClaim

\* Rules that differ in their statuses claim the same.
LEMMA AlikeRuleClaims ==
  ASSUME NEW old, NEW new, RuleAlike(old, new)
  PROVE  RuleClaims(View(new)) = RuleClaims(View(old))
<1>1. /\ new.id = old.id /\ new.iface = old.iface /\ new.enabled = old.enabled
      /\ EntryAlike(old, new) /\ SubsAlike(old.subs, new.subs)
  BY DEF RuleAlike, EntryAlike
<1>2. /\ View(new).id = View(old).id /\ View(new).iface = View(old).iface
      /\ View(new).gateway = View(old).gateway
  BY <1>1 DEF View
<1>3. ASSUME NEW n, NEW was, NEW sub, EntryAlike(was, sub)
      PROVE  Claim(View(new), n, sub) = Claim(View(old), n, was)
  BY <1>2, <1>3, SameCidrs DEF Claim
<1>4. Claim(View(new), 0, new) = Claim(View(old), 0, old)
  BY <1>1, <1>3
<1>5. ASSUME NEW was, NEW sub, EntryAlike(was, sub)
      PROVE  SubClaim(new, sub) = SubClaim(old, was) /\ sub.enabled = was.enabled
  BY <1>3, <1>5 DEF SubClaim, EntryAlike
<1>6. UNION {SubClaim(new, sub) : sub \in {s \in new.subs : s.enabled}} \subseteq
        UNION {SubClaim(old, sub) : sub \in {s \in old.subs : s.enabled}}
  <2>1. ASSUME NEW sub \in new.subs, sub.enabled
        PROVE  \E was \in old.subs : was.enabled /\ SubClaim(new, sub) = SubClaim(old, was)
    BY <1>1, <1>5, <2>1 DEF SubsAlike
  <2>. QED
    BY <2>1
<1>7. UNION {SubClaim(old, sub) : sub \in {s \in old.subs : s.enabled}} \subseteq
        UNION {SubClaim(new, sub) : sub \in {s \in new.subs : s.enabled}}
  <2>1. ASSUME NEW was \in old.subs, was.enabled
        PROVE  \E sub \in new.subs : sub.enabled /\ SubClaim(new, sub) = SubClaim(old, was)
    BY <1>1, <1>5, <2>1 DEF SubsAlike
  <2>. QED
    BY <2>1
<1>. QED
  BY <1>1, <1>4, <1>6, <1>7, ViewClaims

\* Rules that differ in their statuses have the same plan.
LEMMA SamePlan ==
  ASSUME NEW old, NEW new, ListAlike(old, new)
  PROVE  Plan(Planned(new)) = Plan(Planned(old))
<1>1. Candidates(Planned(new)) = Candidates(Planned(old))
  <2>1. \A r \in RuleIds : old[r] # NoRule => RuleClaims(View(new[r])) = RuleClaims(View(old[r]))
    BY AlikeRuleClaims DEF ListAlike
  <2>2. \A r \in RuleIds : new[r] # NoRule <=> old[r] # NoRule
    BY DEF ListAlike
  <2>3. \A rs : Candidates(Planned(rs)) =
          UNION {RuleClaims(View(rs[r])) : r \in {i \in RuleIds : rs[i] # NoRule}}
    BY PlannedViews DEF Candidates
  <2>4. \A rs : \A c : c \in Candidates(Planned(rs)) <=>
          \E r \in RuleIds : rs[r] # NoRule /\ c \in RuleClaims(View(rs[r]))
    BY <2>3
  <2>5. \A c : c \in Candidates(Planned(new)) <=> c \in Candidates(Planned(old))
    <3> SUFFICES ASSUME NEW c
                 PROVE  (\E r \in RuleIds : new[r] # NoRule /\ c \in RuleClaims(View(new[r]))) <=>
                        (\E r \in RuleIds : old[r] # NoRule /\ c \in RuleClaims(View(old[r])))
      BY <2>4
    <3>. QED
      BY <2>1, <2>2
  <2>6. /\ Candidates(Planned(new)) \subseteq Candidates(Planned(old))
        /\ Candidates(Planned(old)) \subseteq Candidates(Planned(new))
    BY <2>5
  <2>. QED
    BY <2>6
<1>2. /\ Claimed(Planned(new)) = Claimed(Planned(old))
      /\ \A c : ClaimsOn(c, Planned(new)) = ClaimsOn(c, Planned(old))
  BY <1>1 DEF Claimed, ClaimsOn
<1>3. \A c : Conflicting(c, Planned(new)) <=> Conflicting(c, Planned(old))
  BY <1>2 DEF Conflicting, Signatures
<1>4. Routes(Planned(new)) = Routes(Planned(old))
  BY <1>2, <1>3 DEF Routes
<1>. QED
  BY <1>1, <1>3, <1>4 DEF Plan

\* A rule whose status, and those of its sub-rules, have been written.
Marked(rule, status, of) ==
  [[rule EXCEPT !.subs = {[sub EXCEPT !.status = of[sub]] : sub \in rule.subs}]
     EXCEPT !.status = status]

\* Writing statuses changes nothing else of a rule.
LEMMA MarkedAlike ==
  ASSUME NEW rule \in Rule, NEW status, NEW of
  PROVE  RuleAlike(rule, Marked(rule, status, of)) /\ Marked(rule, status, of).status = status
<1> DEFINE subs == {[sub EXCEPT !.status = of[sub]] : sub \in rule.subs}
<1>1. \A sub \in rule.subs : EntryAlike(sub, [sub EXCEPT !.status = of[sub]])
  BY DEF Rule, SubRule, EntryAlike
<1>2. SubsAlike(rule.subs, subs)
  BY <1>1 DEF SubsAlike
<1> HIDE DEF subs
<1>3. Marked(rule, status, of) = [[rule EXCEPT !.subs = subs] EXCEPT !.status = status]
  BY DEF Marked, subs
<1>. QED
  BY <1>2, <1>3 DEF Rule, RuleAlike, EntryAlike

\* AllHave writes the same status to every rule, and nothing else.
LEMMA AllHaveAlike ==
  ASSUME NEW rs \in RuleLists, NEW status \in Statuses
  PROVE  /\ ListAlike(rs, AllHave(rs, status))
         /\ \A r \in RuleIds : rs[r] # NoRule => AllHave(rs, status)[r].status = status
<1> DEFINE of(rule) == [sub \in rule.subs |-> status]
<1>1. \A rule : {[sub EXCEPT !.status = of(rule)[sub]] : sub \in rule.subs} =
                {[sub EXCEPT !.status = status] : sub \in rule.subs}
  OBVIOUS
<1>2. AllHave(rs, status) =
        [r \in RuleIds |-> IF rs[r] = NoRule THEN NoRule ELSE Marked(rs[r], status, of(rs[r]))]
  BY <1>1 DEF AllHave, EachRule, EachSub, Marked
<1> DEFINE new == AllHave(rs, status)
<1>3. \A r \in RuleIds : new[r] = IF rs[r] = NoRule THEN NoRule ELSE Marked(rs[r], status, of(rs[r]))
  BY <1>2
<1> HIDE DEF new, of
<1>4. \A r \in RuleIds : rs[r] # NoRule => RuleAlike(rs[r], new[r]) /\ new[r].status = status
  BY <1>3, MarkedAlike DEF RuleLists
<1>5. \A r \in RuleIds : rs[r] # NoRule => new[r] # NoRule
  BY AllHaveStatus DEF new, SameButStatus, SameParents
<1>. QED
  BY <1>3, <1>4, <1>5 DEF new, ListAlike

\* AllFail writes an error to every rule that is on, and nothing else.
LEMMA AllFailAlike ==
  ASSUME NEW rs \in RuleLists
  PROVE  /\ ListAlike(rs, AllFail(rs))
         /\ \A r \in RuleIds : rs[r] # NoRule =>
              AllFail(rs)[r].status = IF rs[r].enabled THEN "error" ELSE rs[r].status
<1> DEFINE S(rule) == {IF sub.enabled THEN [sub EXCEPT !.status = "error"] ELSE sub :
                         sub \in rule.subs}
           R(rule) == IF rule.enabled THEN [[rule EXCEPT !.subs = S(rule)] EXCEPT !.status = "error"]
                      ELSE rule
           of(rule) == [sub \in rule.subs |-> IF sub.enabled THEN "error" ELSE sub.status]
<1>1. AllFail(rs) = [r \in RuleIds |-> IF rs[r] = NoRule THEN NoRule ELSE R(rs[r])]
  BY DEF AllFail, EachRule, EachSub
<1>2. ASSUME NEW rule \in Rule
      PROVE  RuleAlike(rule, R(rule)) /\ R(rule).status = IF rule.enabled THEN "error" ELSE rule.status
  <2>1. \A sub \in rule.subs : ~sub.enabled => [sub EXCEPT !.status = sub.status] = sub
    BY DEF Rule, SubRule
  <2>2. {[sub EXCEPT !.status = of(rule)[sub]] : sub \in rule.subs} = S(rule)
    BY <2>1
  <2>3. RuleAlike(rule, rule)
    BY DEF RuleAlike, EntryAlike, SubsAlike
  <2>4. RuleAlike(rule, Marked(rule, "error", of(rule))) /\ Marked(rule, "error", of(rule)).status = "error"
    BY MarkedAlike
  <2>5. Marked(rule, "error", of(rule)) = [[rule EXCEPT !.subs = S(rule)] EXCEPT !.status = "error"]
    BY <2>2 DEF Marked
  <2> HIDE DEF S, of
  <2>. QED
    BY <2>3, <2>4, <2>5
<1> DEFINE new == AllFail(rs)
<1>3. \A r \in RuleIds : new[r] = IF rs[r] = NoRule THEN NoRule ELSE R(rs[r])
  BY <1>1
<1> HIDE DEF new, R
<1>4. \A r \in RuleIds : rs[r] # NoRule =>
        RuleAlike(rs[r], new[r]) /\ new[r].status = IF rs[r].enabled THEN "error" ELSE rs[r].status
  BY <1>2, <1>3 DEF RuleLists
<1>5. \A r \in RuleIds : rs[r] # NoRule => new[r] # NoRule
  BY AllFailStatus DEF new, SameButStatus, SameParents
<1>. QED
  BY <1>3, <1>4, <1>5 DEF new, ListAlike

\* Report writes to each rule the status it has after the reply, and nothing else.
LEMMA ReportAlike ==
  ASSUME NEW rs \in RuleLists, NEW plan, NEW reply
  PROVE  /\ ListAlike(rs, Report(rs, plan, reply))
         /\ \A r \in RuleIds : rs[r] # NoRule =>
              Report(rs, plan, reply)[r].status =
                IF rs[r].enabled
                THEN EntryStatus(rs[r], rs[r].iface, RuleConflicts(plan, rs[r].id), reply)
                ELSE "pending"
<1> DEFINE P(rule) == {[sub EXCEPT !.status = "pending"] : sub \in rule.subs}
           Q(rule) == {[sub EXCEPT !.status =
                          IF sub.enabled
                          THEN EntryStatus(sub, rule.iface, SubRuleConflicts(plan, rule.id, sub.id), reply)
                          ELSE "pending"] : sub \in rule.subs}
           E(rule) == EntryStatus(rule, rule.iface, RuleConflicts(plan, rule.id), reply)
           R(rule) == IF rule.enabled THEN [[rule EXCEPT !.subs = Q(rule)] EXCEPT !.status = E(rule)]
                      ELSE [[rule EXCEPT !.subs = P(rule)] EXCEPT !.status = "pending"]
           p(rule) == [sub \in rule.subs |-> "pending"]
           q(rule) == [sub \in rule.subs |->
                         IF sub.enabled
                         THEN EntryStatus(sub, rule.iface, SubRuleConflicts(plan, rule.id, sub.id), reply)
                         ELSE "pending"]
<1>1. Report(rs, plan, reply) = [r \in RuleIds |-> IF rs[r] = NoRule THEN NoRule ELSE R(rs[r])]
  BY DEF Report, EachRule, EachSub
<1>2. ASSUME NEW rule \in Rule
      PROVE  RuleAlike(rule, R(rule)) /\ R(rule).status = IF rule.enabled THEN E(rule) ELSE "pending"
  <2>1. {[sub EXCEPT !.status = p(rule)[sub]] : sub \in rule.subs} = P(rule)
    OBVIOUS
  <2>2. {[sub EXCEPT !.status = q(rule)[sub]] : sub \in rule.subs} = Q(rule)
    OBVIOUS
  <2>3. Marked(rule, "pending", p(rule)) = [[rule EXCEPT !.subs = P(rule)] EXCEPT !.status = "pending"]
    BY <2>1 DEF Marked
  <2>4. Marked(rule, E(rule), q(rule)) = [[rule EXCEPT !.subs = Q(rule)] EXCEPT !.status = E(rule)]
    BY <2>2 DEF Marked
  <2>5. RuleAlike(rule, Marked(rule, "pending", p(rule)))
        /\ Marked(rule, "pending", p(rule)).status = "pending"
    BY MarkedAlike
  <2>6. RuleAlike(rule, Marked(rule, E(rule), q(rule))) /\ Marked(rule, E(rule), q(rule)).status = E(rule)
    BY MarkedAlike
  <2> HIDE DEF P, Q, E, p, q
  <2>. QED
    BY <2>3, <2>4, <2>5, <2>6
<1> DEFINE new == Report(rs, plan, reply)
<1>3. \A r \in RuleIds : new[r] = IF rs[r] = NoRule THEN NoRule ELSE R(rs[r])
  BY <1>1
<1> HIDE DEF new, R, E
<1>4. \A r \in RuleIds : rs[r] # NoRule =>
        RuleAlike(rs[r], new[r]) /\ new[r].status = IF rs[r].enabled THEN E(rs[r]) ELSE "pending"
  BY <1>2, <1>3 DEF RuleLists
<1>5. \A r \in RuleIds : rs[r] # NoRule => new[r] # NoRule
  BY ReportStatus DEF new, SameButStatus, SameParents
<1>. QED
  BY <1>3, <1>4, <1>5 DEF new, E, ListAlike

-----------------------------------------------------------------------------
\* The applies that are still to come.

NoFailedWrites == "write" \notin Faults

\* A task that will append an apply to the chain, unless another takes over that will.
WillApply(t) ==
  \/ Awaits(t, "edit")
  \/ Awaits(t, "dns") /\ ~Superseded(t)
  \/ (Awaits(t, "write") \/ Awaits(t, "scanWrite") \/ Awaits(t, "failWrite")) /\ Current(t, rules)

\* An apply that has not read the rules yet is on the chain, or will be.
Pending ==
  \/ Len(queue) >= 2
  \/ queue # <<>> /\ apply.pc = "idle"
  \/ \E t \in TaskIds : WillApply(t)

\* A step that leaves alone what applies read and write, and every task that will apply.
NoNews ==
  /\ \E t \in TaskIds : ~WillApply(t) /\ \A u \in TaskIds \ {t} : tasks'[u] = tasks[u]
  /\ UNCHANGED <<rules, mode, gateways, token, queue, apply, table>>

\* A step without news keeps the applies to come.
LEMMA NoNewsPends ==
  ASSUME NoNews, Pending
  PROVE  Pending'
<1>1. PICK t \in TaskIds : ~WillApply(t) /\ \A u \in TaskIds \ {t} : tasks'[u] = tasks[u]
  BY DEF NoNews
<1>2. \A u \in TaskIds : WillApply(u) => tasks'[u] = tasks[u]
  BY <1>1
<1>3. UNCHANGED <<rules, token, queue, apply>>
  BY DEF NoNews
<1>4. ASSUME NEW u \in TaskIds, WillApply(u)
      PROVE  WillApply(u)'
  <2>1. tasks'[u] = tasks[u]
    BY <1>2, <1>4
  <2>2. \A pc : Awaits(u, pc)' <=> Awaits(u, pc)
    BY <2>1 DEF Awaits
  <2>3. Superseded(u)' <=> Superseded(u)
    BY <1>3, <2>1 DEF Superseded
  <2>4. Current(u, rules)' <=> Current(u, rules)
    BY <1>3, <2>1 DEF Current
  <2>. QED
    BY <1>4, <2>2, <2>3, <2>4 DEF WillApply
<1>. QED
  BY <1>3, <1>4 DEF Pending

\* One more apply on the chain has not begun.
LEMMA AppliesMore ==
  ASSUME RulesInv, NEW w \in TaskIds \cup {NoTask}, ApplyAll(w), apply' = apply
  PROVE  Pending'
<1>1. queue \in Seq(TaskIds \cup {NoTask}) /\ (apply.pc # "idle" => queue # <<>>)
  BY DEF RulesInv, Types
<1>2. queue' = Append(queue, w)
  BY DEF ApplyAll
<1>3. Len(queue') = Len(queue) + 1 /\ queue' # <<>> /\ (queue # <<>> => Len(queue) >= 1)
  BY <1>1, <1>2
<1>. QED
  BY <1>1, <1>3 DEF Pending

\* A new edit will apply.
LEMMA EditPends ==
  ASSUME RulesInv, NEW t \in TaskIds, NEW r \in RuleIds, NEW rs, Edit(t, r, rs)
  PROVE  Pending'
<1>1. tasks' = [tasks EXCEPT ![t] = Task("edit", r)]
  BY DEF Edit
<1>2. Types
  BY DEF RulesInv
<1>3. tasks'[t] = Task("edit", r)
  BY <1>1, <1>2, OneMoves
<1>4. Task("edit", r) # NoTask /\ Task("edit", r).pc = "edit"
  BY <1>2, NewTask
<1>5. Awaits(t, "edit")'
  BY <1>3, <1>4 DEF Awaits
<1>. QED
  BY <1>5 DEF Pending, WillApply

\* A save that has the token, and has something to write, will apply.
LEMMA OwnerApplies ==
  ASSUME RulesInv', NEW t \in TaskIds, tasks'[t] # NoTask,
         tasks'[t].pc \in {"dns", "write", "scanWrite", "failWrite"}, token'[tasks'[t].rule] = t
  PROVE  Pending'
<1>1. SaveOwns(t)'
  BY DEF RulesInv, SavesOwn, Saving
<1>2. WillApply(t)'
  BY <1>1 DEF SaveOwns, Owns, OwnsBefore, Shows, WillApply, Awaits, Superseded, Current
<1>. QED
  BY <1>2 DEF Pending

\* A save that has written its parent rule.
LEMMA ParentGoes ==
  ASSUME Types, NEW t \in TaskIds, NEW task \in TaskState, task.rule \in RuleIds, NEW ips,
         WriteParent(t, task, ips)
  PROVE  tasks'[t] # NoTask /\ tasks'[t].pc = "write" /\ tasks'[t].rule = task.rule
<1> DEFINE existing == rules[task.rule]
           kept == IF existing = NoRule THEN {} ELSE existing.subs
           next == [task EXCEPT !.pc = "write", !.initial = {}, !.previous = kept]
<1>1. tasks' = [tasks EXCEPT ![t] = next]
  BY DEF WriteParent
<1>2. next # NoTask /\ next.pc = "write" /\ next.rule = task.rule
  <2>1. kept \in SUBSET SubRule
    BY DEF Types, RuleLists, Rule
  <2> HIDE DEF kept
  <2>2. next \in TaskState
    BY <2>1 DEF TaskState
  <2>. QED
    BY <2>2, AbsenceAssumption DEF TaskState
<1> HIDE DEF next
<1>3. tasks'[t] = next
  BY <1>1, OneMoves
<1>. QED
  BY <1>2, <1>3

\* A save that starts will apply.
LEMMA SavePends ==
  ASSUME RulesInv, RulesInv', NEW t \in TaskIds, NEW r \in RuleIds, NEW dest \in Destinations,
         NEW iface \in Ifaces, Save(t, r, dest, iface)
  PROVE  Pending'
<1> DEFINE on == IF rules[r] = NoRule THEN TRUE ELSE rules[r].enabled
           ask == [kind |-> dest.kind, destination |-> dest.destination, iface |-> iface,
                   enabled |-> on]
           first == IF rules[r] = NoRule THEN {} ELSE {on}
           task == [Task("dns", r) EXCEPT !.ask = ask, !.initial = first]
<1>0. Types
  BY DEF RulesInv
<1>1. task \in TaskState /\ task # NoTask /\ task.rule = r /\ task.pc = "dns"
  <2>1. Task("dns", r) \in TaskState /\ Task("dns", r).pc = "dns" /\ Task("dns", r).rule = r
    BY <1>0, NewTask
  <2>2. on \in BOOLEAN
    BY <1>0 DEF Types, RuleLists, Rule
  <2>3. ask \in Asking /\ first \in SUBSET BOOLEAN
    BY <2>2, DestinationsAssumption DEF Asking
  <2> HIDE DEF first, ask
  <2>4. task \in TaskState
    BY <2>1, <2>3 DEF TaskState
  <2>. QED
    BY <2>1, <2>4, AbsenceAssumption DEF TaskState
<1>2. /\ token' = [token EXCEPT ![r] = t]
      /\ \/ tasks' = [tasks EXCEPT ![t] = task]
         \/ \E ips : WriteParent(t, task, ips)
  BY DEF Save
<1> HIDE DEF task
<1>3. tasks'[t] # NoTask /\ tasks'[t].pc \in {"dns", "write"} /\ tasks'[t].rule = r
  <2>1. CASE tasks' = [tasks EXCEPT ![t] = task]
    <3>1. tasks'[t] = task
      BY <1>0, <2>1, OneMoves
    <3>. QED
      BY <1>1, <3>1
  <2>2. CASE \E ips : WriteParent(t, task, ips)
    BY <1>0, <1>1, <2>2, ParentGoes
  <2>. QED
    BY <1>2, <2>1, <2>2
<1>4. token'[r] = t
  BY <1>0, <1>2 DEF Types
<1>. QED
  BY <1>3, <1>4, OwnerApplies

\* What the user does is carried by an apply, or is only a beginning.
LEMMA UserPends ==
  ASSUME RulesInv, RulesInv', NoListWrites, User
  PROVE  Pending' \/ NoNews
<1>0. Types
  BY DEF RulesInv
<1>1. \A t \in TaskIds : ~Acts("import", t) /\ ~Acts("refresh", t)
  BY DEF NoListWrites, Acts
<1>2. CASE \E t \in TaskIds, r \in RuleIds, dest \in Destinations, iface \in Ifaces :
             Save(t, r, dest, iface) \/ \E on \in BOOLEAN : Import(t, r, dest, iface, on)
  BY <1>1, <1>2, SavePends, SMTT(30) DEF Import
<1>3. CASE \E t \in TaskIds, r \in RuleIds :
             \/ \E on \in BOOLEAN : SetRuleEnabled(t, r, on)
             \/ \E f \in UNION {Found[url] : url \in DOMAIN Found}, on \in BOOLEAN :
                  SetSubRuleEnabled(t, r, f.id, on)
             \/ DeleteRule(t, r)
  <2>1. PICK t \in TaskIds, r \in RuleIds :
               \/ \E on \in BOOLEAN : SetRuleEnabled(t, r, on)
               \/ \E f \in UNION {Found[url] : url \in DOMAIN Found}, on \in BOOLEAN :
                    SetSubRuleEnabled(t, r, f.id, on)
               \/ DeleteRule(t, r)
    BY <1>3
  <2>2. ASSUME NEW on, SetRuleEnabled(t, r, on) PROVE \E rs : Edit(t, r, rs)
    BY <2>2 DEF SetRuleEnabled
  <2>3. ASSUME NEW id, NEW on, SetSubRuleEnabled(t, r, id, on) PROVE \E rs : Edit(t, r, rs)
    BY <2>3 DEF SetSubRuleEnabled
  <2>4. DeleteRule(t, r) => \E rs : Edit(t, r, rs)
    BY DEF DeleteRule
  <2>5. \E rs : Edit(t, r, rs)
    BY <2>1, <2>2, <2>3, <2>4
  <2>. QED
    BY <2>5, EditPends
<1>4. CASE \E t \in TaskIds : Refresh(t) \/ SetMode(t)
  <2>1. PICK t \in TaskIds : SetMode(t)
    BY <1>1, <1>4 DEF Refresh
  <2>2. PICK m \in Modes : tasks' = [tasks EXCEPT ![t] = [Task("mode", NoRule) EXCEPT !.mode = m]]
    BY <2>1 DEF SetMode
  <2>3. \A u \in TaskIds \ {t} : tasks'[u] = tasks[u]
    BY <1>0, <2>2, OneMoves
  <2>4. ~WillApply(t)
    BY <2>1 DEF SetMode, Acts, WillApply, Awaits
  <2>. QED
    BY <2>1, <2>3, <2>4 DEF SetMode, NoNews
<1>5. CASE Reapply
  BY <1>5, AppliesMore DEF Reapply
<1>. QED
  BY <1>2, <1>3, <1>4, <1>5 DEF User

\* A task that ends without news had none to bring.
LEMMA EndIsNoNews ==
  ASSUME RulesInv, NEW t \in TaskIds, ~WillApply(t), tasks' = [tasks EXCEPT ![t] = NoTask],
         UNCHANGED <<rules, mode, gateways, token, queue, apply, table>>
  PROVE  NoNews
<1>1. \A u \in TaskIds \ {t} : tasks'[u] = tasks[u]
  BY OneMoves DEF RulesInv
<1>. QED
  BY <1>1 DEF NoNews

\* A save that goes on with what it found.
LEMMA ScanGoes ==
  ASSUME RulesInv, RulesInv', NEW t \in TaskIds, tasks[t] # NoTask, Current(t, rules),
         token' = token, NEW pc \in {"scanWrite", "failWrite"},
         tasks' = [tasks EXCEPT ![t] = [tasks[t] EXCEPT !.pc = pc]]
  PROVE  Pending'
<1>0. Types /\ tasks[t] \in TaskState
  BY DEF RulesInv, Types
<1> DEFINE next == [tasks[t] EXCEPT !.pc = pc]
<1>1. next # NoTask /\ next.pc = pc /\ next.rule = tasks[t].rule
  <2>1. pc \in {"write", "apply", "mark", "scan", "scanWrite", "failWrite"}
    OBVIOUS
  <2>. QED
    BY <1>0, <2>1, Moved, ZenonT(30)
<1> HIDE DEF next
<1>2. tasks'[t] = next
  BY <1>0, OneMoves DEF next
<1>3. token'[tasks'[t].rule] = t
  BY <1>1, <1>2 DEF Current
<1>. QED
  BY <1>1, <1>2, <1>3, OwnerApplies

\* So is what tasks do.
LEMMA GoesPends ==
  ASSUME RulesInv, RulesInv', NoFailedWrites, NEW t \in TaskIds, Goes(t)
  PROVE  Pending' \/ NoNews
<1>0. Types
  BY DEF RulesInv
<1>1. ~Awaits(t, "refresh") /\ ~Awaits(t, "import") /\ ~Awaits(t, "importWrite") /\ ~WriteFails
  BY DEF RulesInv, OthersEdit, Saving, Awaits, NoFailedWrites, WriteFails
<1>2. CASE SaveResolved(t)
  <2>1. CASE Superseded(t) /\ tasks' = [tasks EXCEPT ![t] = NoTask] /\ rules' = rules
    <3>1. ~WillApply(t)
      BY <1>2, <2>1 DEF SaveResolved, WillApply, Awaits
    <3>. QED
      BY <1>2, <2>1, <3>1, EndIsNoNews DEF SaveResolved
  <2>2. CASE ~Superseded(t) /\ \E ips : WriteParent(t, tasks[t], ips)
    <3>1. tasks[t] \in TaskState /\ token' = token /\ token[tasks[t].rule] = t
      BY <1>0, <1>2, <2>2 DEF SaveResolved, Awaits, Types, Superseded
    <3>3. tasks[t].rule \in RuleIds
      BY <1>2 DEF SaveResolved, Awaits, RulesInv, SavesOwn, Saving, SaveOwns
    <3>2. tasks'[t] # NoTask /\ tasks'[t].pc = "write" /\ tasks'[t].rule = tasks[t].rule
      BY <1>0, <2>2, <3>1, <3>3, ParentGoes
    <3>. QED
      BY <3>1, <3>2, OwnerApplies
  <2>. QED
    BY <1>2, <2>1, <2>2 DEF SaveResolved
<1>3. CASE SaveWritten(t)
  <2>1. CASE Current(t, rules) /\ ApplyAll(t)
    BY <1>3, <2>1, AppliesMore DEF SaveWritten
  <2>2. CASE ~Current(t, rules) /\ tasks' = [tasks EXCEPT ![t] = NoTask] /\ queue' = queue
    <3>1. ~WillApply(t)
      BY <1>3, <2>2 DEF SaveWritten, WillApply, Awaits
    <3>. QED
      BY <1>3, <2>2, <3>1, EndIsNoNews DEF SaveWritten
  <2>. QED
    BY <1>1, <1>3, <2>1, <2>2 DEF SaveWritten
<1>4. CASE SaveMarked(t)
  <2>1. ~WillApply(t)
    BY <1>4 DEF SaveMarked, WillApply, Awaits
  <2>. QED
    BY <1>4, <2>1, EndIsNoNews DEF SaveMarked
<1>5. CASE ScanEnds(t)
  <2>1. tasks[t] # NoTask /\ token' = token
    BY <1>5 DEF ScanEnds, Awaits
  <2>2. CASE /\ Current(t, rules)
             /\ \E pc \in {"scanWrite", "failWrite"} :
                  tasks' = [tasks EXCEPT ![t] = [tasks[t] EXCEPT !.pc = pc]]
    BY <2>1, <2>2, ScanGoes
  <2>3. CASE ~Current(t, rules) /\ tasks' = [tasks EXCEPT ![t] = NoTask] /\ rules' = rules
    <3>1. ~WillApply(t)
      BY <1>5 DEF ScanEnds, WillApply, Awaits
    <3>. QED
      BY <1>5, <2>3, <3>1, EndIsNoNews DEF ScanEnds
  <2>. QED
    BY <1>5, <2>2, <2>3 DEF ScanEnds
<1>6. CASE ScanWritten(t)
  <2>1. CASE ApplyAll(NoTask)
    BY <1>6, <2>1, AppliesMore DEF ScanWritten
  <2>2. CASE ~Current(t, rules) /\ tasks' = [tasks EXCEPT ![t] = NoTask] /\ UNCHANGED <<rules, queue>>
    <3>1. ~WillApply(t)
      BY <1>6, <2>2 DEF ScanWritten, WillApply, Awaits
    <3>. QED
      BY <1>6, <2>2, <3>1, EndIsNoNews DEF ScanWritten
  <2>. QED
    BY <1>1, <1>6, <2>1, <2>2 DEF ScanWritten
<1>7. CASE EditWritten(t)
  BY <1>1, <1>7, AppliesMore DEF EditWritten
<1>8. CASE ModeWritten(t)
  BY <1>1, <1>8, AppliesMore DEF ModeWritten
<1>9. ~RefreshResolved(t) /\ ~ImportResolved(t) /\ ~ImportWritten(t)
  BY <1>1 DEF RefreshResolved, ImportResolved, ImportWritten
<1>. QED
  BY <1>2, <1>3, <1>4, <1>5, <1>6, <1>7, <1>8, <1>9 DEF Goes

-----------------------------------------------------------------------------
\* The apply that is under way.

\* It goes the way of the mode, and its plan is made of the rules as they are.
ApplyIsCurrent ==
  /\ apply.pc = "plan" => mode = "custom"
  /\ apply.pc = "reconcile" => mode = "custom" /\ apply.plan = Plan(Planned(rules))
  /\ apply.pc = "clear" => mode = "default"

\* An apply has ended, or has its answer.
Settled == apply.pc \in {"idle", "save"}

\* A task that will apply does so after a step of others that keeps the rules alike.
LEMMA WillStill ==
  ASSUME RulesInv, NEW t \in TaskIds, WillApply(t), tasks'[t] = tasks[t], token' = token,
         ListAlike(rules, rules')
  PROVE  WillApply(t)'
<1>1. \A pc : Awaits(t, pc)' <=> Awaits(t, pc)
  BY DEF Awaits
<1>2. CASE Awaits(t, "edit")
  BY <1>1, <1>2 DEF WillApply
<1>3. CASE ~Awaits(t, "edit")
  <2>1. tasks[t].rule \in RuleIds
    BY <1>3 DEF WillApply, Awaits, RulesInv, SavesOwn, Saving, SaveOwns
  <2>2. rules'[tasks[t].rule] = NoRule <=> rules[tasks[t].rule] = NoRule
    BY <2>1 DEF ListAlike
  <2>3. (Superseded(t)' <=> Superseded(t)) /\ (Current(t, rules)' <=> Current(t, rules))
    BY <2>2 DEF Superseded, Current
  <2>. QED
    BY <1>1, <2>3 DEF WillApply
<1>. QED
  BY <1>2, <1>3

\* An apply that goes on does not keep others from coming.
LEMMA GoesOnPends ==
  ASSUME RulesInv, Pending, apply.pc # "idle", ListAlike(rules, rules'),
         UNCHANGED <<tasks, token, queue>>
  PROVE  Pending'
<1>1. CASE Len(queue) >= 2
  BY <1>1 DEF Pending
<1>2. CASE \E t \in TaskIds : WillApply(t)
  BY <1>2, WillStill DEF Pending
<1>. QED
  BY <1>1, <1>2 DEF Pending

\* Nor does one that ends: the save that waits for it is not one of them.
LEMMA EndPends ==
  ASSUME RulesInv, Pending, apply.pc # "idle", NEW rs, ListAlike(rules, rs), ApplyEnds(rs),
         token' = token
  PROVE  Pending'
<1>0. Types /\ Waits
  BY DEF RulesInv
<1>1. /\ queue \in Seq(TaskIds \cup {NoTask}) /\ queue # <<>>
      /\ queue' = Tail(queue) /\ rules' = rs /\ apply'.pc = "idle"
  BY <1>0 DEF ApplyEnds, Types, NoApply
<1>2. CASE Len(queue) >= 2
  <2>1. queue \in Seq(TaskIds \cup {NoTask}) /\ queue # <<>> /\ queue' = Tail(queue)
    BY <1>1
  <2>2. Len(queue') = Len(queue) - 1
    BY <2>1
  <2>3. queue' # <<>>
    BY <1>2, <2>1, <2>2, SMTT(30)
  <2>. QED
    BY <1>1, <2>3 DEF Pending
<1>3. CASE \E t \in TaskIds : WillApply(t)
  <2>1. PICK t \in TaskIds : WillApply(t)
    BY <1>3
  <2>2. 1 \in DOMAIN queue /\ Head(queue) = queue[1] /\ queue[1] \in TaskIds \cup {NoTask}
    BY <1>1
  <2>3. Head(queue) # NoTask => Awaits(Head(queue), "apply")
    BY <1>0, <2>2 DEF Waits, WaitersWait
  <2>4. t # Head(queue)
    <3>1. ~Awaits(t, "apply") /\ t # NoTask
      BY <2>1, AbsenceAssumption DEF WillApply, Awaits
    <3>. QED
      BY <2>3, <3>1
  <2>5. tasks'[t] = tasks[t]
    <3>1. CASE Head(queue) = NoTask
      BY <3>1 DEF ApplyEnds
    <3>2. CASE Head(queue) # NoTask
      BY <1>0, <2>2, <2>4, <3>2 DEF ApplyEnds, Types
    <3>. QED
      BY <3>1, <3>2
  <2>6. WillApply(t)'
    BY <1>1, <2>1, <2>5, WillStill
  <2>. QED
    BY <2>6 DEF Pending
<1>. QED
  BY <1>2, <1>3 DEF Pending

\* What ends an apply, or gives it its answer.
Outcome == ApplyStops \/ ApplyReplied \/ ApplyThrows \/ ApplyCleared \/ ApplySaved

\* A step of the chain while others are to come: one of them may begin.
LEMMA AppliesPend ==
  ASSUME RulesInv, Pending, Applies
  PROVE  Pending' \/ ApplyBegins
<1>0. rules \in RuleLists
  BY DEF RulesInv, Types
<1>1. CASE ApplyPlans
  BY <1>1, AlikeItself, GoesOnPends DEF ApplyPlans
<1>2. CASE ApplyStops
  BY <1>0, <1>2, AllFailAlike, EndPends DEF ApplyStops
<1>3. CASE ApplyReplied
  <2>0. \E reply : rules' = Report(rules, apply.plan, reply)
    BY <1>3 DEF ApplyReplied
  <2>1. ListAlike(rules, rules')
    BY <1>0, <2>0, ReportAlike
  <2>2. UNCHANGED <<tasks, token, queue>> /\ apply.pc # "idle"
    BY <1>3 DEF ApplyReplied
  <2>. QED
    BY <2>1, <2>2, GoesOnPends
<1>4. CASE ApplyThrows
  BY <1>0, <1>4, AllFailAlike, EndPends DEF ApplyThrows
<1>5. CASE ApplyCleared
  <2>1. ListAlike(rules, rules')
    BY <1>0, <1>5, AllHaveAlike DEF ApplyCleared, Clears, Statuses
  <2>. QED
    BY <1>5, <2>1, GoesOnPends DEF ApplyCleared
<1>6. CASE ApplySaved
  BY <1>0, <1>6, AllFailAlike, AlikeItself, EndPends DEF ApplySaved
<1>. QED
  BY <1>1, <1>2, <1>3, <1>4, <1>5, <1>6 DEF Applies

\* An apply that begins is current, and has no answer yet.
LEMMA BeginsCurrent ==
  ASSUME RulesInv, ApplyBegins
  PROVE  ApplyIsCurrent' /\ ~Settled'
<1>1. mode' = mode /\ mode \in {"custom", "default"}
  BY ModesAssumption DEF RulesInv, Types, ApplyBegins
<1>2. apply'.pc = IF mode = "default" THEN "clear" ELSE "plan"
  BY DEF ApplyBegins, ApplyGoes
<1>. QED
  BY <1>1, <1>2 DEF ApplyIsCurrent, Settled

\* A step of the chain while nothing is to come.
LEMMA AppliesCurrent ==
  ASSUME RulesInv, ApplyIsCurrent, Applies
  PROVE  ApplyIsCurrent' /\ (Settled' => Outcome)
<1>1. CASE ApplyBegins
  BY <1>1, BeginsCurrent
<1>2. CASE ApplyPlans
  <2>1. apply' = [pc |-> "reconcile", plan |-> Plan(Planned(rules))] /\ mode' = "custom"
    BY <1>2 DEF ApplyPlans, ApplyGoes, ApplyIsCurrent
  <2>2. Planned(rules)' = Planned(rules)
    BY <1>2 DEF ApplyPlans, Planned, Live
  <2>3. Plan(Planned(rules))' = Plan(Planned(rules))
    BY <2>2
  <2>. QED
    BY <2>1, <2>3 DEF ApplyIsCurrent, Settled
<1>3. CASE Outcome
  <2>1. (\E rs : ApplyEnds(rs)) \/ ApplyGoes("save", NoPlan)
    <3>1. ApplyStops => \E rs : ApplyEnds(rs)
      BY DEF ApplyStops
    <3>2. ApplyThrows => \E rs : ApplyEnds(rs)
      BY DEF ApplyThrows
    <3>3. ApplySaved => \E rs : ApplyEnds(rs)
      BY DEF ApplySaved
    <3>4. ApplyReplied \/ ApplyCleared => ApplyGoes("save", NoPlan)
      BY DEF ApplyReplied, ApplyCleared
    <3>. QED
      BY <1>3, <3>1, <3>2, <3>3, <3>4 DEF Outcome
  <2>2. apply'.pc \in {"idle", "save"}
    BY <2>1 DEF ApplyEnds, ApplyGoes, NoApply
  <2>. QED
    BY <1>3, <2>2 DEF ApplyIsCurrent
<1>. QED
  BY <1>1, <1>2, <1>3 DEF Applies, Outcome

\* A step that leaves the chain and what it reads alone; the helper may still be at work
\* on requests that nobody waits for.
SameChain ==
  /\ UNCHANGED <<rules, mode, gateways, apply, beside>>
  /\ late = {} => UNCHANGED <<table, late>>

\* A step, from a state in which an apply is to come or the one under way is current.
LEMMA ChainStep ==
  ASSUME NoListWrites, NoFailedWrites, RulesInv, Pending \/ ApplyIsCurrent, [Next]_vars
  PROVE  /\ RulesInv'
         /\ \/ Pending'
            \/ /\ ApplyIsCurrent'
               /\ Settled' =>
                    ~Pending /\ (Outcome \/ SameChain)
<1>1. RulesInv'
  BY RulesStep
<1>2. ASSUME UNCHANGED <<rules, mode, gateways, apply>>, ApplyIsCurrent
      PROVE  ApplyIsCurrent'
  <2>1. Planned(rules)' = Planned(rules)
    BY <1>2 DEF Planned, Live
  <2>2. Plan(Planned(rules))' = Plan(Planned(rules))
    BY <2>1
  <2>. QED
    BY <1>2, <2>2 DEF ApplyIsCurrent
<1>4. CASE User \/ \E t \in TaskIds : Goes(t)
  <2>1. CASE NoNews
    <3>1. UNCHANGED <<rules, mode, gateways, apply>> /\ SameChain
      BY <1>4, <2>1, OnlyAppliesAsk DEF NoNews, SameChain
    <3>. QED
      BY <1>1, <1>2, <2>1, <3>1, NoNewsPends
  <2>2. Pending' \/ NoNews
    BY <1>1, <1>4, UserPends, GoesPends
  <2>. QED
    BY <1>1, <2>1, <2>2
<1>5. CASE Applies
  <2>1. CASE Pending
    BY <1>1, <1>5, <2>1, AppliesPend, BeginsCurrent
  <2>2. CASE ~Pending
    BY <1>1, <1>5, <2>2, AppliesCurrent
  <2>. QED
    BY <2>1, <2>2
<1>6. CASE Late \/ UNCHANGED vars
  <2>1. UNCHANGED <<rules, mode, gateways, tasks, token, queue, apply>> /\ SameChain
    BY <1>6 DEF vars, Late, LateEdits, LateEnds, SameChain
  <2>2. Pending => Pending'
    <3>1. \A t \in TaskIds : WillApply(t) => WillApply(t)'
      BY <2>1, AlikeItself, WillStill
    <3>. QED
      BY <2>1, <3>1 DEF Pending
  <2>. QED
    BY <1>1, <1>2, <2>1, <2>2
<1>. QED
  BY <1>4, <1>5, <1>6 DEF Next

-----------------------------------------------------------------------------
\* The table.

TableSettled ==
  Settled => table = IF mode = "default" THEN {} ELSE Routes(Planned(rules))
TableInv == RulesInv /\ late = {} /\ (Pending \/ (ApplyIsCurrent /\ TableSettled))

\* A helper without faults does all it is asked.
LEMMA SureReply ==
  ASSUME Faults = {}, NEW routes
  PROVE  /\ Replies(routes) = {AllDone(routes)} /\ AllDone(routes).table = routes
         /\ ~NotAnswered(routes)
  BY DEF Replies, AllDone, NotAnswered

\* Rules that differ in their statuses want the same table, while gateways stay.
LEMMA SameWanted ==
  ASSUME ListAlike(rules, rules'), gateways' = gateways
  PROVE  Routes(Planned(rules))' = Routes(Planned(rules))
<1>1. Planned(rules)' = Planned(rules')
  BY DEF Planned
<1>2. Routes(Planned(rules)') = Routes(Planned(rules'))
  BY <1>1
<1>3. Plan(Planned(rules')).routes = Plan(Planned(rules)).routes
  BY SamePlan
<1>. QED
  BY <1>2, <1>3 DEF Plan

\* With a helper that does what it is asked each outcome leaves the table wanted.
LEMMA OutcomeTable ==
  ASSUME Faults = {}, RulesInv, ApplyIsCurrent, TableSettled, Outcome
  PROVE  TableSettled'
<1>0. rules \in RuleLists /\ ~WriteFails
  BY DEF RulesInv, Types, WriteFails
<1>1. ~ApplyStops /\ ~ApplyThrows
  BY SureReply DEF ApplyStops, ApplyThrows
<1>2. CASE ApplyReplied
  <2>1. /\ mode' = mode /\ mode = "custom" /\ gateways' = gateways
        /\ apply.plan = Plan(Planned(rules))
    BY <1>2 DEF ApplyReplied, ApplyIsCurrent
  <2>2. PICK reply \in Replies(apply.plan.routes) :
               table' = reply.table /\ rules' = Report(rules, apply.plan, reply)
    BY <1>2, SureReply DEF ApplyReplied
  <2>3. table' = Routes(Planned(rules))
    BY <2>1, <2>2, SureReply DEF Plan
  <2>4. ListAlike(rules, rules')
    BY <1>0, <2>2, ReportAlike
  <2>5. Routes(Planned(rules))' = Routes(Planned(rules))
    BY <2>1, <2>4, SameWanted
  <2>. QED
    BY <2>1, <2>3, <2>5 DEF TableSettled
<1>3. CASE ApplyCleared
  <2>1. mode' = "default"
    BY <1>3 DEF ApplyCleared, ApplyIsCurrent
  <2>2. table' = {}
    BY <1>3, SureReply DEF ApplyCleared
  <2>. QED
    BY <2>1, <2>2 DEF TableSettled
<1>4. CASE ApplySaved
  <2>1. UNCHANGED <<rules, mode, gateways, table>> /\ Settled
    BY <1>0, <1>4 DEF ApplySaved, ApplyEnds, Settled
  <2>2. Routes(Planned(rules))' = Routes(Planned(rules))
    BY <2>1, AlikeItself, SameWanted
  <2>. QED
    BY <2>1, <2>2 DEF TableSettled
<1>. QED
  BY <1>1, <1>2, <1>3, <1>4 DEF Outcome

\* Every step keeps what is known of the table.
LEMMA TableStep ==
  ASSUME NoListWrites, Faults = {}
  PROVE  TableInv /\ [Next]_vars => TableInv'
<1> SUFFICES ASSUME TableInv, [Next]_vars PROVE TableInv'
  OBVIOUS
<1>1. /\ NoFailedWrites /\ RulesInv /\ late = {}
      /\ Pending \/ (ApplyIsCurrent /\ TableSettled)
  BY DEF NoFailedWrites, TableInv
<1>2. /\ RulesInv'
      /\ \/ Pending'
         \/ /\ ApplyIsCurrent'
            /\ Settled' =>
                 ~Pending /\ (Outcome \/ SameChain)
  BY <1>1, ChainStep
<1>3. ASSUME ApplyIsCurrent, TableSettled, Settled', Outcome
      PROVE  TableSettled'
  BY <1>1, <1>3, OutcomeTable
<1>4. ASSUME TableSettled, Settled', SameChain
      PROVE  TableSettled'
  <2>1. UNCHANGED <<rules, mode, gateways, apply, table>>
    BY <1>1, <1>4 DEF SameChain
  <2>2. Routes(Planned(rules))' = Routes(Planned(rules))
    BY <2>1, AlikeItself, SameWanted
  <2>. QED
    BY <1>4, <2>1, <2>2 DEF TableSettled, Settled
<1>5. ~Settled' => TableSettled'
  BY DEF TableSettled
<1>6. late' = {}
  <2>1. CASE Applies
    BY <1>1, <2>1, AppliesAsk
  <2>2. CASE User \/ \E t \in TaskIds : Goes(t)
    BY <1>1, <2>2, OnlyAppliesAsk
  <2>3. CASE Late \/ UNCHANGED vars
    BY <1>1, <2>3 DEF Late, LateEdits, LateEnds, vars
  <2>. QED
    BY <2>1, <2>2, <2>3 DEF Next
<1>. QED
  BY <1>1, <1>2, <1>3, <1>4, <1>5, <1>6 DEF TableInv

\* When nothing is under way no apply is to come, and none is.
LEMMA QuietIsSettled ==
  ASSUME RulesInv, Quiet
  PROVE  ~Pending /\ Settled
<1>1. queue = <<>> /\ apply.pc = "idle"
  BY DEF Quiet, RulesInv, Types
<1>2. \A t \in TaskIds : ~WillApply(t)
  BY DEF Quiet, WillApply, Awaits
<1>. QED
  BY <1>1, <1>2 DEF Pending, Settled

\* applyAll's chain carries every edit, change of mode and change of a network to the
\* helper: when the user rests and the helper does as it is told, the table is what the
\* rules ask for, whatever overtook what on the way.
THEOREM TableCorrect ==
  ASSUME NoListWrites, Faults = {}
  PROVE  Spec => []TableFollowsRules
<1>1. Init => TableInv
  <2> SUFFICES ASSUME Init PROVE TableInv
    OBVIOUS
  <2>1. RulesInv
    BY RulesStart
  <2>2. Planned(rules) = {}
    BY DEF Init, NoRules, Planned, Live
  <2>3. Routes({}) = {}
    BY DEF Routes, Claimed, Candidates
  <2>4. late = {} /\ ApplyIsCurrent /\ TableSettled
    BY <2>2, <2>3 DEF Init, NoApply, ApplyIsCurrent, TableSettled
  <2>. QED
    BY <2>1, <2>4 DEF TableInv
<1>2. TableInv /\ [Next]_vars => TableInv'
  BY TableStep
<1>3. TableInv => TableFollowsRules
  BY QuietIsSettled DEF TableInv, TableSettled, TableFollowsRules
<1>. QED
  BY <1>1, <1>2, <1>3, PTL DEF Spec

-----------------------------------------------------------------------------
\* What is shown as applied.

\* Only a rule that is on is.
AppliedOn == \A r \in RuleIds : rules[r] # NoRule /\ rules[r].status = "applied" => rules[r].enabled

\* Operations change one rule at a time, and apply none.
LEMMA OneRuleOn ==
  ASSUME Types, AppliedOn, NEW r \in RuleIds, \A q \in RuleIds \ {r} : rules'[q] = rules[q],
         \/ rules'[r] = NoRule
         \/ rules'[r].status # "applied"
         \/ /\ rules[r] # NoRule /\ rules'[r].status = rules[r].status
            /\ rules'[r].enabled = rules[r].enabled
  PROVE  AppliedOn'
<1> SUFFICES ASSUME NEW q \in RuleIds, rules'[q] # NoRule, rules'[q].status = "applied"
             PROVE  rules'[q].enabled
  BY DEF AppliedOn
<1>1. CASE q = r
  BY <1>1 DEF AppliedOn
<1>2. CASE q # r
  BY <1>2 DEF AppliedOn
<1>. QED
  BY <1>1, <1>2

\* A save writes its parent rule without applying it.
LEMMA ParentOn ==
  ASSUME Types, AppliedOn, NEW t, NEW task, task.rule \in RuleIds, NEW ips,
         WriteParent(t, task, ips)
  PROVE  AppliedOn'
<1> DEFINE saved == SavedRule(task, ips, rules[task.rule])
<1>1. rules' = [rules EXCEPT ![task.rule] = saved]
  BY DEF WriteParent
<1>2. saved.status # "applied"
  BY DEF SavedRule, ResolvedStatus
<1> HIDE DEF saved
<1>3. rules'[task.rule] = saved /\ \A q \in RuleIds \ {task.rule} : rules'[q] = rules[q]
  BY <1>1 DEF Types, RuleLists
<1>. QED
  BY <1>2, <1>3, OneRuleOn

\* A scan's result leaves the status of its rule.
LEMMA SubsOn ==
  ASSUME Types, AppliedOn, NEW r \in RuleIds, rules[r] # NoRule, NEW subs,
         rules' = [rules EXCEPT ![r].subs = subs]
  PROVE  AppliedOn'
<1>1. rules[r] \in Rule
  BY DEF Types, RuleLists
<1>2. /\ rules'[r] = [rules[r] EXCEPT !.subs = subs]
      /\ \A q \in RuleIds \ {r} : rules'[q] = rules[q]
  BY DEF Types, RuleLists
<1>3. rules'[r].status = rules[r].status /\ rules'[r].enabled = rules[r].enabled
  BY <1>1, <1>2 DEF Rule
<1>. QED
  BY <1>2, <1>3, OneRuleOn

\* No edit of the user shows a rule as applied.
LEMMA UserOn ==
  ASSUME RulesInv, NoListWrites, AppliedOn, User
  PROVE  AppliedOn'
<1>0. Types
  BY DEF RulesInv
<1>1. \A t \in TaskIds : ~Acts("import", t) /\ ~Acts("refresh", t)
  BY DEF NoListWrites, Acts
<1>2. ASSUME rules' = rules PROVE AppliedOn'
  BY <1>2 DEF AppliedOn
<1>3. CASE \E t \in TaskIds, r \in RuleIds, dest \in Destinations, iface \in Ifaces :
             Save(t, r, dest, iface)
  <2>1. PICK t \in TaskIds, r \in RuleIds, dest \in Destinations, iface \in Ifaces :
               Save(t, r, dest, iface)
    BY <1>3
  <2> DEFINE on == IF rules[r] = NoRule THEN TRUE ELSE rules[r].enabled
             ask == [kind |-> dest.kind, destination |-> dest.destination, iface |-> iface,
                     enabled |-> on]
             first == IF rules[r] = NoRule THEN {} ELSE {on}
             task == [Task("dns", r) EXCEPT !.ask = ask, !.initial = first]
  <2>2. rules' = rules \/ \E ips : WriteParent(t, task, ips)
    BY <2>1 DEF Save
  <2>3. task.rule = r
    BY DEF Task
  <2> HIDE DEF task
  <2>. QED
    BY <1>0, <1>2, <2>2, <2>3, ParentOn
<1>4. CASE \E t \in TaskIds, r \in RuleIds, on \in BOOLEAN : SetRuleEnabled(t, r, on)
  <2>1. PICK t \in TaskIds, r \in RuleIds, on \in BOOLEAN : SetRuleEnabled(t, r, on)
    BY <1>4
  <2>2. /\ rules[r] # NoRule
        /\ rules' = [rules EXCEPT ![r].enabled = on, ![r].status = "pending"]
    BY <2>1 DEF SetRuleEnabled, Edit
  <2>3. rules[r] \in Rule
    BY <1>0, <2>2 DEF Types, RuleLists
  <2>4. /\ rules'[r] = [[rules[r] EXCEPT !.enabled = on] EXCEPT !.status = "pending"]
        /\ \A q \in RuleIds \ {r} : rules'[q] = rules[q]
    BY <1>0, <2>2 DEF Types, RuleLists
  <2>5. rules'[r].status = "pending"
    BY <2>3, <2>4 DEF Rule
  <2>. QED
    BY <1>0, <2>4, <2>5, OneRuleOn
<1>5. CASE \E t \in TaskIds, r \in RuleIds, on \in BOOLEAN :
             \E f \in UNION {Found[url] : url \in DOMAIN Found} : SetSubRuleEnabled(t, r, f.id, on)
  <2>1. PICK t \in TaskIds, r \in RuleIds, on \in BOOLEAN :
               \E f \in UNION {Found[url] : url \in DOMAIN Found} : SetSubRuleEnabled(t, r, f.id, on)
    BY <1>5
  <2>2. PICK id : SetSubRuleEnabled(t, r, id, on)
    BY <2>1
  <2> DEFINE Toggled(sub) ==
               IF sub.id = id THEN [sub EXCEPT !.enabled = on, !.status = "pending"] ELSE sub
             subs == {Toggled(sub) : sub \in rules[r].subs}
  <2>3. rules[r] # NoRule /\ rules' = [rules EXCEPT ![r] = [rules[r] EXCEPT !.subs = subs]]
    BY <1>0, <2>2 DEF SetSubRuleEnabled, Edit, EachSub, Types, RuleLists
  <2> HIDE DEF subs
  <2>4. rules' = [rules EXCEPT ![r].subs = subs]
    BY <2>3
  <2>. QED
    BY <1>0, <2>3, <2>4, SubsOn
<1>6. CASE \E t \in TaskIds, r \in RuleIds : DeleteRule(t, r)
  <2>1. PICK t \in TaskIds, r \in RuleIds : rules' = [rules EXCEPT ![r] = NoRule]
    BY <1>6 DEF DeleteRule, Edit
  <2>2. rules'[r] = NoRule /\ \A q \in RuleIds \ {r} : rules'[q] = rules[q]
    BY <1>0, <2>1 DEF Types, RuleLists
  <2>. QED
    BY <1>0, <2>2, OneRuleOn
<1>7. CASE \E t \in TaskIds : Refresh(t) \/ SetMode(t)
  BY <1>1, <1>2, <1>7 DEF Refresh, SetMode
<1>8. CASE Reapply
  BY <1>2, <1>8 DEF Reapply
<1>. QED
  BY <1>1, <1>3, <1>4, <1>5, <1>6, <1>7, <1>8 DEF User, Import

\* Nor does an operation that goes on.
LEMMA GoesOn ==
  ASSUME RulesInv, AppliedOn, NEW t \in TaskIds, Goes(t)
  PROVE  AppliedOn'
<1>0. Types
  BY DEF RulesInv
<1>1. ~Awaits(t, "refresh") /\ ~Awaits(t, "import") /\ ~Awaits(t, "importWrite")
  BY DEF RulesInv, OthersEdit, Saving, Awaits
<1>2. ASSUME rules' = rules PROVE AppliedOn'
  BY <1>2 DEF AppliedOn
<1>3. ASSUME Saving(t) PROVE tasks[t].rule \in RuleIds
  BY <1>3 DEF RulesInv, SavesOwn, SaveOwns
<1>4. CASE SaveResolved(t)
  <2>1. tasks[t].rule \in RuleIds
    BY <1>3, <1>4 DEF SaveResolved, Awaits, Saving
  <2>2. rules' = rules \/ \E ips : WriteParent(t, tasks[t], ips)
    BY <1>4 DEF SaveResolved
  <2>. QED
    BY <1>0, <1>2, <2>1, <2>2, ParentOn
<1>5. CASE ScanEnds(t) \/ ScanWritten(t)
  <2>1. tasks[t].rule \in RuleIds
    BY <1>3, <1>5 DEF ScanEnds, ScanWritten, Awaits, Saving
  <2>2. rules' = rules \/ (Current(t, rules) /\ \E subs : PutSubs(t, subs))
    BY <1>5 DEF ScanEnds, ScanWritten
  <2>3. ASSUME Current(t, rules), NEW subs, PutSubs(t, subs)
        PROVE  AppliedOn'
    BY <1>0, <2>1, <2>3, SubsOn DEF Current, PutSubs
  <2>. QED
    BY <1>2, <2>2, <2>3
<1>6. CASE SaveWritten(t) \/ SaveMarked(t) \/ EditWritten(t) \/ ModeWritten(t)
  BY <1>2, <1>6 DEF SaveWritten, SaveMarked, EditWritten, ModeWritten
<1>7. ~RefreshResolved(t) /\ ~ImportResolved(t) /\ ~ImportWritten(t)
  BY <1>1 DEF RefreshResolved, ImportResolved, ImportWritten
<1>. QED
  BY <1>4, <1>5, <1>6, <1>7 DEF Goes

\* An apply that failed leaves no rule applied.
LEMMA FailedOn ==
  ASSUME Types, AppliedOn, rules' = AllFail(rules)
  PROVE  \A r \in RuleIds : rules'[r] # NoRule => rules'[r].status # "applied"
<1> SUFFICES ASSUME NEW r \in RuleIds, rules'[r] # NoRule PROVE rules'[r].status # "applied"
  OBVIOUS
<1>1. rules \in RuleLists
  BY DEF Types
<1>2. rules[r] # NoRule
  BY <1>1, AllFailAlike DEF ListAlike
<1>3. rules'[r].status = IF rules[r].enabled THEN "error" ELSE rules[r].status
  BY <1>1, <1>2, AllFailAlike
<1>. QED
  BY <1>2, <1>3 DEF AppliedOn

\* System Default leaves no rule applied.
LEMMA ClearedOn ==
  ASSUME Types, ApplyCleared
  PROVE  \A r \in RuleIds : rules'[r] # NoRule => rules'[r].status # "applied"
<1> SUFFICES ASSUME NEW r \in RuleIds, rules'[r] # NoRule PROVE rules'[r].status # "applied"
  OBVIOUS
<1>1. rules \in RuleLists
  BY DEF Types
<1>2. PICK status \in {"error", "pending"} : rules' = AllHave(rules, status)
  BY DEF ApplyCleared, Clears
<1>3. status \in Statuses
  BY DEF Statuses
<1>4. rules[r] # NoRule
  BY <1>1, <1>2, <1>3, AllHaveAlike DEF ListAlike
<1>. QED
  BY <1>1, <1>2, <1>3, <1>4, AllHaveAlike

\* A rule that a reply shows as applied is on, and the reply says so of it.
LEMMA RepliedOn ==
  ASSUME Types, NEW plan, NEW reply, rules' = Report(rules, plan, reply),
         NEW r \in RuleIds, rules'[r] # NoRule, rules'[r].status = "applied"
  PROVE  /\ rules[r] # NoRule /\ RuleAlike(rules[r], rules'[r]) /\ rules[r].enabled
         /\ EntryStatus(rules[r], rules[r].iface, RuleConflicts(plan, r), reply) = "applied"
<1>1. rules \in RuleLists
  BY DEF Types
<1>2. ListAlike(rules, rules')
  BY <1>1, ReportAlike
<1>3. rules[r] # NoRule /\ RuleAlike(rules[r], rules'[r])
  BY <1>2 DEF ListAlike
<1>4. rules[r].id = r
  BY <1>3 DEF Types
<1>5. rules'[r].status =
        IF rules[r].enabled
        THEN EntryStatus(rules[r], rules[r].iface, RuleConflicts(plan, r), reply)
        ELSE "pending"
  BY <1>1, <1>3, <1>4, ReportAlike
<1>. QED
  BY <1>3, <1>5

\* The chain shows only rules as applied that are on.
LEMMA AppliesOn ==
  ASSUME Types, AppliedOn, Applies
  PROVE  AppliedOn'
<1>1. CASE rules' = rules
  BY <1>1 DEF AppliedOn
<1>2. CASE rules' = AllFail(rules)
  BY <1>2, FailedOn DEF AppliedOn
<1>3. CASE ApplyCleared
  BY <1>3, ClearedOn DEF AppliedOn
<1>4. CASE ApplyReplied
  <2>1. PICK reply : rules' = Report(rules, apply.plan, reply)
    BY <1>4 DEF ApplyReplied
  <2> SUFFICES ASSUME NEW r \in RuleIds, rules'[r] # NoRule, rules'[r].status = "applied"
               PROVE  rules'[r].enabled
    BY DEF AppliedOn
  <2>. QED
    BY <2>1, RepliedOn DEF RuleAlike, EntryAlike
<1>5. Applies => \/ rules' = rules \/ rules' = AllFail(rules) \/ ApplyCleared \/ ApplyReplied
  BY DEF Applies, ApplyBegins, ApplyPlans, ApplyStops, ApplyThrows, ApplySaved, ApplyEnds
<1>. QED
  BY <1>1, <1>2, <1>3, <1>4, <1>5

\* Every CIDR that a rule which is on claims has a route, or is in conflict.
LEMMA ClaimedIsPlanned ==
  ASSUME Types, NEW r \in RuleIds, rules[r] # NoRule, rules[r].enabled,
         NEW c \in Cidrs(rules[r]), RuleConflicts(Plan(Planned(rules)), r) = {}
  PROVE  Plan(Planned(rules)).routes # {}
<1> DEFINE ps == Planned(rules)
           claim == [cidr |-> c, iface |-> View(rules[r]).iface,
                     gateway |-> View(rules[r]).gateway, owner |-> <<View(rules[r]).id, 0>>]
<1>1. View(rules[r]) \in ps
  BY PlannedViews
<1>2. claim \in Claim(View(rules[r]), 0, rules[r])
  BY DEF Claim
<1>3. claim \in RuleClaims(View(rules[r]))
  BY <1>2, ViewClaims
<1>4. claim \in Candidates(ps)
  BY <1>1, <1>3 DEF Candidates
<1>5. claim.cidr = c /\ claim.owner[1] = r
  BY DEF View, Types
<1> HIDE DEF claim, ps
<1>6. Plan(ps).routes = Routes(ps)
      /\ Plan(ps).conflicts = {d \in Candidates(ps) : Conflicting(d.cidr, ps)}
  BY DEF Plan
<1>7. ~Conflicting(c, ps)
  <2> SUFFICES ASSUME Conflicting(c, ps) PROVE FALSE
    OBVIOUS
  <2>1. claim \in Plan(ps).conflicts
    BY <1>4, <1>5, <1>6
  <2>2. c \in RuleConflicts(Plan(ps), r)
    BY <1>5, <2>1 DEF RuleConflicts
  <2>. QED
    BY <2>2 DEF ps
<1>8. c \in Claimed(ps)
  BY <1>4, <1>5 DEF Claimed
<1>9. FirstClaim(ClaimsOn(c, ps)) \in Routes(ps)
  BY <1>7, <1>8 DEF Routes
<1>. QED
  BY <1>6, <1>9 DEF ps

\* A reply makes a rule applied only when all its routes are in the table it leaves.
LEMMA ReplyForce ==
  ASSUME Types, NEW r \in RuleIds, rules[r] # NoRule, rules[r].enabled, NEW plan,
         plan = Plan(Planned(rules)), NEW reply \in Replies(plan.routes),
         EntryStatus(rules[r], rules[r].iface, RuleConflicts(plan, r), reply) = "applied",
         NEW c \in Cidrs(rules[r])
  PROVE  \E route \in reply.table : route.cidr = c /\ route.iface = rules[r].iface
<1> DEFINE check == [cidr |-> c, iface |-> rules[r].iface, verified |-> TRUE]
<1>1. /\ RuleConflicts(plan, r) = {}
      /\ reply.checks = {} \/ check \in reply.checks
      /\ reply.ok \/ reply.checks # {}
  BY DEF EntryStatus, Verified
<1>2. \/ reply = AllDone(plan.routes)
      \/ reply \in SomeDone(plan.routes)
  BY DEF Replies
<1>3. plan.routes # {}
  BY <1>1, ClaimedIsPlanned
<1>4. CASE reply = AllDone(plan.routes)
  <2>1. reply.table = plan.routes /\ reply.checks = {Check(route, TRUE) : route \in plan.routes}
    BY <1>4 DEF AllDone
  <2>2. PICK route \in plan.routes : check = Check(route, TRUE)
    BY <1>1, <1>3, <2>1
  <2>3. route.cidr = c /\ route.iface = rules[r].iface
    BY <2>2 DEF Check
  <2>. QED
    BY <2>1, <2>3
<1>5. CASE reply \in SomeDone(plan.routes)
  <2>1. PICK left : reply = [table |-> left, ok |-> FALSE,
                             checks |-> {Check(route, route \in left) : route \in plan.routes}]
    BY <1>5 DEF SomeDone
  <2>2. /\ reply.table = left /\ ~reply.ok
        /\ reply.checks = {Check(route, route \in left) : route \in plan.routes}
    BY <2>1
  <2>3. PICK route \in plan.routes : check = Check(route, route \in left)
    BY <1>1, <2>2
  <2>4. route.cidr = c /\ route.iface = rules[r].iface /\ route \in left
    BY <2>3 DEF Check
  <2>. QED
    BY <2>2, <2>4
<1>. QED
  BY <1>2, <1>4, <1>5

\* No answer makes no rule applied.
LEMMA NoReplyNoForce ==
  ASSUME NEW rule, NEW plan, NEW conflicts
  PROVE  EntryStatus(rule, rule.iface, conflicts, NoReply) # "applied"
  BY DEF EntryStatus, NoReply

\* A request that was not made beside others is the only one at work.
Alone == apply.pc \in {"reconcile", "clear"} /\ ~beside => late = {}

\* When an apply has its answer, what is shown as applied is, and stays so: nothing else
\* is at work on the table.
AppliedSettled ==
  Settled /\ ~beside => \A r \in RuleIds :
    rules[r] # NoRule /\ rules[r].status = "applied" =>
      mode = "custom" /\ late = {} /\ InForce(rules[r])
AppliedInv ==
  /\ RulesInv /\ AppliedOn /\ Alone
  /\ Pending \/ (ApplyIsCurrent /\ AppliedSettled)

\* A request is alone from when it is made to when it is answered.
LEMMA AloneStep ==
  ASSUME Alone, [Next]_vars
  PROVE  Alone'
<1>1. CASE ApplyBegins \/ ApplyPlans
  <2>1. late' = late /\ (Asks \/ apply'.pc = "plan")
    BY <1>1 DEF ApplyBegins, ApplyPlans, ApplyGoes
  <2>2. Asks => (~beside' => late = {})
    BY DEF Asks
  <2>. QED
    BY <2>1, <2>2 DEF Alone
<1>2. CASE Outcome
  <2>1. (\E rs : ApplyEnds(rs)) \/ ApplyGoes("save", NoPlan)
    <3>1. ApplyStops => \E rs : ApplyEnds(rs)
      BY DEF ApplyStops
    <3>2. ApplyThrows => \E rs : ApplyEnds(rs)
      BY DEF ApplyThrows
    <3>3. ApplySaved => \E rs : ApplyEnds(rs)
      BY DEF ApplySaved
    <3>4. ApplyReplied \/ ApplyCleared => ApplyGoes("save", NoPlan)
      BY DEF ApplyReplied, ApplyCleared
    <3>. QED
      BY <1>2, <3>1, <3>2, <3>3, <3>4 DEF Outcome
  <2>. QED
    BY <2>1 DEF Alone, ApplyEnds, ApplyGoes, NoApply
<1>3. CASE User \/ \E t \in TaskIds : Goes(t)
  BY <1>3, OnlyAppliesAsk DEF Alone
<1>4. CASE Late \/ UNCHANGED vars
  BY <1>4 DEF Alone, Late, LateEdits, LateEnds, vars
<1>. QED
  BY <1>1, <1>2, <1>3, <1>4 DEF Next, Applies, Outcome

\* Each outcome of an apply leaves only rules applied whose routes are in force.
LEMMA OutcomeApplied ==
  ASSUME NoFailedWrites, RulesInv, AppliedOn, Alone, ApplyIsCurrent, AppliedSettled, Outcome
  PROVE  AppliedSettled'
<1>0. Types /\ ~WriteFails
  BY DEF RulesInv, NoFailedWrites, WriteFails
<1>1. ASSUME \A r \in RuleIds : rules'[r] # NoRule => rules'[r].status # "applied"
      PROVE  AppliedSettled'
  BY <1>1 DEF AppliedSettled
<1>2. CASE ApplyStops \/ ApplyThrows
  <2>1. rules' = AllFail(rules)
    BY <1>2 DEF ApplyStops, ApplyThrows, ApplyEnds
  <2>. QED
    BY <1>0, <1>1, <2>1, FailedOn
<1>3. CASE ApplyCleared
  BY <1>0, <1>1, <1>3, ClearedOn
<1>4. CASE ApplySaved
  <2>1. UNCHANGED <<rules, mode, table, late, beside>> /\ Settled
    BY <1>0, <1>4 DEF ApplySaved, ApplyEnds, Settled
  <2>. QED
    BY <2>1 DEF AppliedSettled, InForce
<1>5. CASE NotAnswered(apply.plan.routes) /\ rules' = Report(rules, apply.plan, NoReply)
  BY <1>0, <1>1, <1>5, RepliedOn, NoReplyNoForce
<1>6. CASE /\ ApplyReplied /\ late' = late
           /\ \E reply \in Replies(apply.plan.routes) :
                table' = reply.table /\ rules' = Report(rules, apply.plan, reply)
  <2>1. /\ mode' = mode /\ mode = "custom" /\ apply.plan = Plan(Planned(rules))
        /\ beside' = beside /\ apply.pc = "reconcile"
    BY <1>6 DEF ApplyReplied, ApplyIsCurrent
  <2>2. PICK reply \in Replies(apply.plan.routes) :
               table' = reply.table /\ rules' = Report(rules, apply.plan, reply)
    BY <1>6
  <2>0. ~beside => late' = {}
    BY <1>6, <2>1 DEF Alone
  <2> SUFFICES ASSUME ~beside, NEW r \in RuleIds, rules'[r] # NoRule,
                      rules'[r].status = "applied", NEW c \in Cidrs(rules'[r])
               PROVE  \E route \in table' : route.cidr = c /\ route.iface = rules'[r].iface
    BY <2>0, <2>1 DEF AppliedSettled, InForce
  <2>3. /\ rules[r] # NoRule /\ RuleAlike(rules[r], rules'[r]) /\ rules[r].enabled
        /\ EntryStatus(rules[r], rules[r].iface, RuleConflicts(apply.plan, r), reply) = "applied"
    BY <1>0, <2>2, RepliedOn
  <2>4. rules'[r].iface = rules[r].iface /\ Cidrs(rules'[r]) = Cidrs(rules[r])
    BY <2>3, SameCidrs DEF RuleAlike
  <2>5. \E route \in reply.table : route.cidr = c /\ route.iface = rules[r].iface
    BY <1>0, <2>1, <2>2, <2>3, <2>4, ReplyForce
  <2>. QED
    BY <2>2, <2>4, <2>5
<1>7. ApplyReplied => \/ NotAnswered(apply.plan.routes) /\ rules' = Report(rules, apply.plan, NoReply)
                      \/ /\ late' = late
                         /\ \E reply \in Replies(apply.plan.routes) :
                              table' = reply.table /\ rules' = Report(rules, apply.plan, reply)
  BY DEF ApplyReplied
<1>. QED
  BY <1>2, <1>3, <1>4, <1>5, <1>6, <1>7 DEF Outcome

\* Every step keeps what is known of the rules that are shown as applied.
LEMMA AppliedStep ==
  ASSUME NoListWrites, NoFailedWrites
  PROVE  AppliedInv /\ [Next]_vars => AppliedInv'
<1> SUFFICES ASSUME AppliedInv, [Next]_vars PROVE AppliedInv'
  OBVIOUS
<1>1. RulesInv /\ AppliedOn /\ Alone /\ (Pending \/ (ApplyIsCurrent /\ AppliedSettled))
  BY DEF AppliedInv
<1>2. /\ RulesInv'
      /\ \/ Pending'
         \/ /\ ApplyIsCurrent'
            /\ Settled' =>
                 ~Pending /\ (Outcome \/ SameChain)
  BY <1>1, ChainStep
<1>3. AppliedOn'
  <2>1. CASE User
    BY <1>1, <2>1, UserOn
  <2>2. CASE \E t \in TaskIds : Goes(t)
    BY <1>1, <2>2, GoesOn
  <2>3. CASE Applies
    BY <1>1, <2>3, AppliesOn DEF RulesInv
  <2>4. CASE Late \/ UNCHANGED vars
    BY <1>1, <2>4 DEF Late, LateEdits, LateEnds, vars, AppliedOn
  <2>. QED
    BY <2>1, <2>2, <2>3, <2>4 DEF Next
<1>4. ASSUME ApplyIsCurrent, AppliedSettled, Settled', Outcome
      PROVE  AppliedSettled'
  BY <1>1, <1>4, OutcomeApplied
<1>5. ASSUME AppliedSettled, Settled', SameChain
      PROVE  AppliedSettled'
  <2> SUFFICES ASSUME ~beside', NEW r \in RuleIds, rules'[r] # NoRule,
                      rules'[r].status = "applied"
               PROVE  mode' = "custom" /\ late' = {} /\ InForce(rules[r])'
    BY DEF AppliedSettled
  <2>1. mode = "custom" /\ late = {} /\ InForce(rules[r])
    BY <1>5 DEF AppliedSettled, Settled, SameChain
  <2>2. UNCHANGED <<rules, mode, table, late>>
    BY <1>5, <2>1 DEF SameChain
  <2>. QED
    BY <2>1, <2>2 DEF InForce
<1>6. ~Settled' => AppliedSettled'
  BY DEF AppliedSettled
<1>7. Alone'
  BY <1>1, AloneStep
<1>. QED
  BY <1>1, <1>2, <1>3, <1>4, <1>5, <1>6, <1>7 DEF AppliedInv

\* applyAll tells the truth: when the user rests, a rule that shows Applied is on, under
\* Custom, and has each of its routes in force, whether the helper was there or not and
\* whatever it left undone of any request.  A request that timed out may be at work still,
\* and the next one may overtake it: all that is left out is that the last request of all
\* was made while one of those was, which may undo it.
THEOREM AppliedCorrect ==
  ASSUME NoListWrites, NoFailedWrites
  PROVE  Spec => []AppliedIsTrue
<1>1. Init => AppliedInv
  <2> SUFFICES ASSUME Init PROVE AppliedInv
    OBVIOUS
  <2>1. RulesInv
    BY RulesStart
  <2>2. \A r \in RuleIds : rules[r] = NoRule
    BY DEF Init, NoRules
  <2>3. AppliedOn /\ AppliedSettled
    BY <2>2 DEF AppliedOn, AppliedSettled
  <2>4. Alone /\ ApplyIsCurrent
    BY DEF Init, NoApply, Alone, ApplyIsCurrent
  <2>. QED
    BY <2>1, <2>3, <2>4 DEF AppliedInv
<1>2. AppliedInv /\ [Next]_vars => AppliedInv'
  BY AppliedStep
<1>3. AppliedInv => AppliedIsTrue
  BY QuietIsSettled DEF AppliedInv, AppliedOn, AppliedSettled, AppliedIsTrue, Live
<1>. QED
  BY <1>1, <1>2, <1>3, PTL DEF Spec

-----------------------------------------------------------------------------
\* Sub-rules that are switched off.

\* A page leads to a destination once, and a sub-rule's identity is its own.
FoundOnce ==
  \A url \in DOMAIN Found : \A f, g \in Found[url] : f.id = g.id <=> f.destination = g.destination

\* A sub-rule for the destination is off; every one for the destinations is.
IsOff(dst, subs) == \E sub \in subs : sub.destination = dst /\ ~sub.enabled
AllOff(off, subs) == \A sub \in subs : sub.destination \in off => ~sub.enabled
OnePerPlace(subs) == \A p, q \in subs : p.id = q.id <=> p.destination = q.destination

\* The newest save t of the rule r has taken its sub-rules to find them again.
Replaces(t, r) ==
  /\ ~Free(t) /\ tasks[t].rule = r /\ token[r] = t
  /\ tasks[t].pc \in {"write", "apply", "mark", "scan"}

\* The save t of the rule r comes to its scan: what it saves is a page, and has addresses.
WillScan(t, r) ==
  Awaits(t, "write") \/ Awaits(t, "apply") =>
    tasks[t].ask.kind = "url" /\ rules[r] # NoRule /\ rules[r].ips # {}

\* What the user has switched off is off in the rule, or was in what the newest save has
\* taken, which leaves nothing to switch in the rule; the save then comes to its scan.
OffKept(r) ==
  /\ rules[r] # NoRule => AllOff(asked[r].off, rules[r].subs)
  /\ (\A t \in TaskIds : ~Replaces(t, r)) =>
       \A dst \in asked[r].off : rules[r] # NoRule /\ IsOff(dst, rules[r].subs)
  /\ \A t \in TaskIds : Replaces(t, r) =>
       /\ \A dst \in asked[r].off : IsOff(dst, tasks[t].previous)
       /\ rules[r] # NoRule => rules[r].subs = {}
  /\ asked[r].off # {} => \A t \in TaskIds :
       Replaces(t, r) => WillScan(t, r)
OffsKept == \A r \in RuleIds : asked[r] # NoRule => OffKept(r)
EachOnce == \A r \in RuleIds : rules[r] # NoRule => OnePerPlace(rules[r].subs)
OffInv == RulesInv /\ OffsKept /\ EachOnce

\* What leaves sub-rules and tasks as far as they matter here.
RulesStill ==
  \A r \in RuleIds :
    /\ rules'[r] # NoRule => /\ rules[r] # NoRule /\ SubsAlike(rules[r].subs, rules'[r].subs)
                             /\ rules'[r].ips = rules[r].ips
    /\ asked'[r] # NoRule /\ rules[r] # NoRule => rules'[r] # NoRule
AsksStill ==
  \A r \in RuleIds : asked'[r] # NoRule =>
    asked[r] # NoRule /\ asked'[r].off \in {asked[r].off, {}}
TaskStill(t) ==
  /\ Saving(t)' => /\ Saving(t) /\ tasks'[t].rule = tasks[t].rule /\ tasks'[t].ask = tasks[t].ask
                   /\ tasks'[t].previous = tasks[t].previous
  /\ Awaits(t, "dns")' => Awaits(t, "dns")
  /\ (Awaits(t, "write") \/ Awaits(t, "apply"))' => Awaits(t, "write") \/ Awaits(t, "apply")
  /\ \A r \in RuleIds : Replaces(t, r)' => Replaces(t, r)
  /\ \A r \in RuleIds : Replaces(t, r) /\ asked'[r] # NoRule /\ asked'[r].off # {} => Replaces(t, r)'

\* Sub-rules that differ in their statuses are off alike.
LEMMA AlikeOff ==
  ASSUME NEW old, NEW new, SubsAlike(old, new)
  PROVE  /\ \A off : AllOff(off, old) => AllOff(off, new)
         /\ \A dst : IsOff(dst, old) => IsOff(dst, new)
         /\ OnePerPlace(old) => OnePerPlace(new)
<1>1. \A off : AllOff(off, old) => AllOff(off, new)
  BY DEF SubsAlike, EntryAlike, AllOff
<1>2. \A dst : IsOff(dst, old) => IsOff(dst, new)
  BY DEF SubsAlike, EntryAlike, IsOff
<1>3. OnePerPlace(old) => OnePerPlace(new)
  <2> SUFFICES ASSUME OnePerPlace(old), NEW p \in new, NEW q \in new
               PROVE  p.id = q.id <=> p.destination = q.destination
    BY DEF OnePerPlace
  <2>1. PICK was \in old : EntryAlike(was, p)
    BY DEF SubsAlike
  <2>2. PICK other \in old : EntryAlike(other, q)
    BY DEF SubsAlike
  <2>. QED
    BY <2>1, <2>2 DEF OnePerPlace, EntryAlike
<1>. QED
  BY <1>1, <1>2, <1>3

\* Steps that leave sub-rules, what is asked and the saves that replace them.
LEMMA OffStays ==
  ASSUME OffsKept, EachOnce, RulesStill, AsksStill, token' = token,
         \A t \in TaskIds : TaskStill(t)
  PROVE  OffsKept' /\ EachOnce'
<1>1. EachOnce'
  BY AlikeOff DEF EachOnce, RulesStill
<1>2. ASSUME NEW r \in RuleIds, asked'[r] # NoRule
      PROVE  OffKept(r)'
  <2>1. OffKept(r) /\ asked'[r].off \in {asked[r].off, {}}
    BY <1>2 DEF AsksStill, OffsKept
  <2>2. rules'[r] # NoRule => AllOff(asked'[r].off, rules'[r].subs)
    <3>1. rules'[r] # NoRule => AllOff(asked[r].off, rules'[r].subs)
      BY <2>1, AlikeOff DEF OffKept, RulesStill
    <3>. QED
      BY <2>1, <3>1 DEF AllOff
  <2>3. ASSUME NEW t \in TaskIds, Replaces(t, r)'
        PROVE  /\ \A dst \in asked'[r].off : IsOff(dst, tasks'[t].previous)
               /\ rules'[r] # NoRule => rules'[r].subs = {}
    <3>1. Saving(t)'
      BY <2>3 DEF Replaces, Saving, Free
    <3>2. Replaces(t, r) /\ tasks'[t].previous = tasks[t].previous
      BY <2>3, <3>1 DEF TaskStill
    <3>3. \A dst \in asked[r].off : IsOff(dst, tasks'[t].previous)
      BY <2>1, <3>2 DEF OffKept
    <3>4. rules'[r] # NoRule => rules[r].subs = {} /\ SubsAlike(rules[r].subs, rules'[r].subs)
      BY <2>1, <3>2 DEF OffKept, RulesStill
    <3>5. rules'[r] # NoRule => rules'[r].subs = {}
      BY <3>4 DEF SubsAlike
    <3>. QED
      BY <2>1, <3>3, <3>5
  <2>4. CASE asked'[r].off = {}
    BY <2>2, <2>3, <2>4 DEF OffKept
  <2>5. CASE asked'[r].off # {}
    <3>1. asked'[r].off = asked[r].off
      BY <2>1, <2>5
    <3>2. (\A t \in TaskIds : ~Replaces(t, r)') =>
            \A dst \in asked'[r].off : rules'[r] # NoRule /\ IsOff(dst, rules'[r].subs)
      <4>1. (\A t \in TaskIds : ~Replaces(t, r)') => \A t \in TaskIds : ~Replaces(t, r)
        BY <1>2, <2>5 DEF TaskStill
      <4>2. \A dst : rules[r] # NoRule /\ IsOff(dst, rules[r].subs) =>
                       rules'[r] # NoRule /\ IsOff(dst, rules'[r].subs)
        BY <1>2, AlikeOff DEF RulesStill
      <4>. QED
        BY <2>1, <3>1, <4>1, <4>2 DEF OffKept
    <3>3. ASSUME NEW t \in TaskIds, Replaces(t, r)'
          PROVE  WillScan(t, r)'
      <4>1. Replaces(t, r) /\ tasks'[t].ask = tasks[t].ask
        BY <3>3 DEF TaskStill, Replaces, Saving, Free
      <4>2. WillScan(t, r)
        BY <2>1, <2>5, <3>1, <4>1 DEF OffKept
      <4>3. rules[r] # NoRule => rules'[r] # NoRule /\ rules'[r].ips = rules[r].ips
        BY <1>2 DEF RulesStill
      <4>. QED
        BY <3>3, <4>1, <4>2, <4>3 DEF TaskStill, WillScan
    <3>. QED
      BY <2>2, <2>3, <3>2, <3>3 DEF OffKept
  <2>. QED
    BY <2>4, <2>5
<1>. QED
  BY <1>1, <1>2 DEF OffsKept

\* A task that is not one of a save that replaces sub-rules, and begins no save.
LEMMA OtherStill ==
  ASSUME Types, NEW t \in TaskIds, NEW task, tasks' = [tasks EXCEPT ![t] = task],
         task = NoTask \/ task.pc \in {"edit", "mode"}, \A r \in RuleIds : ~Replaces(t, r),
         token' = token
  PROVE  \A u \in TaskIds : TaskStill(u)
<1>1. tasks'[t] = task /\ \A u \in TaskIds \ {t} : tasks'[u] = tasks[u]
  BY OneMoves
<1>2. \A r \in RuleIds : ~Replaces(t, r)'
  BY <1>1 DEF Replaces
<1>3. ~Saving(t)' /\ ~Awaits(t, "dns")' /\ ~Awaits(t, "write")' /\ ~Awaits(t, "apply")'
  BY <1>1 DEF Saving, Awaits
<1>4. TaskStill(t)
  BY <1>2, <1>3 DEF TaskStill
<1>5. ASSUME NEW u \in TaskIds, tasks'[u] = tasks[u]
      PROVE  TaskStill(u)
  BY <1>5 DEF TaskStill, Saving, Awaits, Replaces
<1>. QED
  BY <1>1, <1>4, <1>5

\* A save that goes on with the sub-rules it has taken, from pc to next.
LEMMA SaveStill ==
  ASSUME Types, NEW t \in TaskIds, ~Free(t), tasks[t].pc \in {"write", "apply"},
         NEW pc \in {"apply", "mark", "scan"}, token' = token,
         tasks' = [tasks EXCEPT ![t] = [tasks[t] EXCEPT !.pc = pc]]
  PROVE  \A u \in TaskIds : TaskStill(u)
<1> DEFINE next == [tasks[t] EXCEPT !.pc = pc]
<1>1. tasks[t] \in TaskState
  BY DEF Types
<1>2. /\ next # NoTask /\ next.pc = pc /\ next.rule = tasks[t].rule /\ next.ask = tasks[t].ask
      /\ next.previous = tasks[t].previous
  <2>1. next \in TaskState
    BY <1>1 DEF TaskState
  <2>. QED
    BY <1>1, <2>1, AbsenceAssumption DEF TaskState
<1> HIDE DEF next
<1>3. tasks'[t] = next /\ \A u \in TaskIds \ {t} : tasks'[u] = tasks[u]
  BY OneMoves DEF next
<1>4. Saving(t) /\ \A r \in RuleIds : Replaces(t, r)' <=> Replaces(t, r)
  BY <1>2, <1>3 DEF Saving, Replaces
<1>5. ~Awaits(t, "dns")' /\ (Awaits(t, "write") \/ Awaits(t, "apply"))
  BY <1>2, <1>3 DEF Awaits
<1>6. TaskStill(t)
  BY <1>2, <1>3, <1>4, <1>5 DEF TaskStill
<1>7. ASSUME NEW u \in TaskIds, tasks'[u] = tasks[u]
      PROVE  TaskStill(u)
  BY <1>7 DEF TaskStill, Saving, Awaits, Replaces
<1>. QED
  BY <1>3, <1>6, <1>7

\* Tasks that do not move are left.
LEMMA NobodyStill ==
  ASSUME tasks' = tasks, token' = token
  PROVE  \A u \in TaskIds : TaskStill(u)
  BY DEF TaskStill, Saving, Awaits, Replaces

\* Rules that differ in their statuses have their sub-rules left.
LEMMA AlikeStill ==
  ASSUME ListAlike(rules, rules')
  PROVE  RulesStill
  BY DEF ListAlike, RuleAlike, EntryAlike, RulesStill

\* An apply that ends sends the save which waits for it to its scan, or leaves a rule
\* with no sub-rules.
LEMMA EndsOff ==
  ASSUME RulesInv, OffsKept, EachOnce, apply.pc # "idle", NEW rs,
         ListAlike(rules, rs), ApplyEnds(rs), UNCHANGED <<token, asked>>
  PROVE  OffsKept' /\ EachOnce'
<1>0. Types /\ Waits /\ SavesOwn
  BY DEF RulesInv
<1>1. queue \in Seq(TaskIds \cup {NoTask}) /\ queue # <<>> /\ rules' = rs
  BY <1>0 DEF ApplyEnds, Types
<1>2. RulesStill /\ AsksStill
  BY <1>1, AlikeStill DEF AsksStill
<1>3. CASE Head(queue) = NoTask
  BY <1>2, <1>3, NobodyStill, OffStays DEF ApplyEnds
<1>4. CASE Head(queue) # NoTask
  <2>1. 1 \in DOMAIN queue /\ Head(queue) = queue[1] /\ queue[1] \in TaskIds \cup {NoTask}
    BY <1>1
  <2>2. PICK t \in TaskIds : t = Head(queue) /\ Awaits(t, "apply")
    BY <1>0, <1>4, <2>1 DEF Waits, WaitersWait
  <2>3. tasks' = [tasks EXCEPT ![t] = AfterApply(t, rs)]
    BY <1>4, <2>2 DEF ApplyEnds
  <2>4. CASE AfterApply(t, rs) # NoTask
    <3>1. PICK pc \in {"apply", "mark", "scan"} : AfterApply(t, rs) = [tasks[t] EXCEPT !.pc = pc]
      BY <2>4 DEF AfterApply
    <3>2. \A u \in TaskIds : TaskStill(u)
      BY <1>0, <2>2, <2>3, <3>1, SaveStill DEF Awaits
    <3>. QED
      BY <1>2, <3>2, OffStays
  <2>5. CASE AfterApply(t, rs) = NoTask /\ ~Owns(t)
    <3>1. \A r \in RuleIds : ~Replaces(t, r)
      BY <2>5 DEF Replaces, Owns
    <3>. QED
      BY <1>0, <1>2, <2>3, <2>5, <3>1, OtherStill, OffStays
  <2>6. CASE AfterApply(t, rs) = NoTask /\ Owns(t)
    <3>0. PICK r : r = tasks[t].rule
      OBVIOUS
    <3>1. SaveOwns(t) /\ Owns(t)
      BY <1>0, <2>2, <2>6 DEF SavesOwn, Saving, Awaits
    <3>2. r \in RuleIds /\ rules[r] # NoRule /\ asked[r] # NoRule
      BY <2>2, <3>0, <3>1 DEF SaveOwns, Awaits, Shows, AsksFor
    <3>3. rs[r] # NoRule /\ rs[r].ips = rules[r].ips
      BY <3>2 DEF ListAlike, RuleAlike, EntryAlike
    <3>4. tasks[t].ask.kind = "url" /\ rules[r].ips # {} => AfterApply(t, rs) # NoTask
      <4>1. Current(t, rs)
        BY <3>0, <3>1, <3>3 DEF Current, Owns
      <4>2. ASSUME NEW pc \in {"mark", "scan"} PROVE [tasks[t] EXCEPT !.pc = pc] # NoTask
        <5>1. tasks[t] \in TaskState
          BY <1>0, <2>2 DEF Types, Awaits
        <5>2. pc \in {"write", "apply", "mark", "scan", "scanWrite", "failWrite"}
          OBVIOUS
        <5>. QED
          BY <5>1, <5>2, Moved
      <4>3. ASSUME tasks[t].ask.kind = "url", rules[r].ips # {}
            PROVE  AfterApply(t, rs) \in {[tasks[t] EXCEPT !.pc = pc] : pc \in {"mark", "scan"}}
        BY <3>0, <3>3, <4>1, <4>3 DEF AfterApply
      <4>. QED
        BY <4>2, <4>3
    <3>5. asked[r].off = {}
      <4>1. asked[r].off # {} => WillScan(t, r)
        BY <2>2, <3>0, <3>1, <3>2 DEF OffsKept, OffKept, Awaits, Owns, Replaces
      <4>. QED
        BY <2>2, <2>6, <3>4, <4>1 DEF WillScan
    <3>6. tasks'[t] = NoTask /\ \A u \in TaskIds \ {t} : tasks'[u] = tasks[u]
      BY <1>0, <2>2, <2>3, <2>6, OneMoves
    <3>7. \A q \in RuleIds : Replaces(t, q) => q = r
      BY <3>0 DEF Replaces
    <3>8. TaskStill(t)
      <4>1. ~Saving(t)' /\ \A pc : ~Awaits(t, pc)'
        BY <3>6 DEF Saving, Awaits
      <4>2. \A q \in RuleIds : ~Replaces(t, q)'
        BY <3>6 DEF Replaces
      <4>3. \A q \in RuleIds : Replaces(t, q) => asked'[q].off = {}
        BY <3>5, <3>7
      <4>. QED
        BY <4>1, <4>2, <4>3 DEF TaskStill
    <3>9. ASSUME NEW u \in TaskIds, tasks'[u] = tasks[u]
          PROVE  TaskStill(u)
      BY <3>9 DEF TaskStill, Saving, Awaits, Replaces
    <3>. QED
      BY <1>2, <3>6, <3>8, <3>9, OffStays
  <2>. QED
    BY <2>4, <2>5, <2>6
<1>. QED
  BY <1>3, <1>4

\* The chain of applies keeps the switches of sub-rules.
LEMMA AppliesOff ==
  ASSUME RulesInv, OffsKept, EachOnce, Applies
  PROVE  OffsKept' /\ EachOnce'
<1>0. rules \in RuleLists
  BY DEF RulesInv, Types
<1>1. ASSUME ListAlike(rules, rules'), UNCHANGED <<tasks, token, asked>>
      PROVE  OffsKept' /\ EachOnce'
  BY <1>1, AlikeStill, NobodyStill, OffStays DEF AsksStill
<1>2. CASE ApplyBegins \/ ApplyPlans
  BY <1>1, <1>2, AlikeItself DEF ApplyBegins, ApplyPlans
<1>3. CASE ApplyStops
  BY <1>0, <1>3, AllFailAlike, EndsOff DEF ApplyStops
<1>4. CASE ApplyReplied
  <2>0. \E reply : rules' = Report(rules, apply.plan, reply)
    BY <1>4 DEF ApplyReplied
  <2>1. ListAlike(rules, rules')
    BY <1>0, <2>0, ReportAlike
  <2>2. UNCHANGED <<tasks, token, asked>>
    BY <1>4 DEF ApplyReplied
  <2>. QED
    BY <1>1, <2>1, <2>2
<1>5. CASE ApplyThrows
  BY <1>0, <1>5, AllFailAlike, EndsOff DEF ApplyThrows
<1>6. CASE ApplyCleared
  <2>1. ListAlike(rules, rules')
    BY <1>0, <1>6, AllHaveAlike DEF ApplyCleared, Clears, Statuses
  <2>. QED
    BY <1>1, <1>6, <2>1 DEF ApplyCleared
<1>7. CASE ApplySaved
  BY <1>0, <1>7, AllFailAlike, AlikeItself, EndsOff DEF ApplySaved
<1>. QED
  BY <1>2, <1>3, <1>4, <1>5, <1>6, <1>7 DEF Applies

\* A task changes what is off in its own rule, and in no other.
LEMMA OneRuleOff ==
  ASSUME OffsKept, EachOnce, NEW t \in TaskIds, NEW r \in RuleIds,
         \A q \in RuleIds \ {r} :
           rules'[q] = rules[q] /\ asked'[q] = asked[q] /\ token'[q] = token[q],
         \A u \in TaskIds \ {t} : tasks'[u] = tasks[u],
         Free(t) \/ tasks[t].rule = r, (Free(t) \/ tasks[t].rule = r)',
         asked'[r] # NoRule => OffKept(r)',
         rules'[r] # NoRule => OnePerPlace(rules'[r].subs)
  PROVE  OffsKept' /\ EachOnce'
<1>1. EachOnce'
  <2> SUFFICES ASSUME NEW q \in RuleIds, rules'[q] # NoRule PROVE OnePerPlace(rules'[q].subs)
    BY DEF EachOnce
  <2>. QED
    BY DEF EachOnce
<1>2. ASSUME NEW q \in RuleIds \ {r}, asked'[q] # NoRule
      PROVE  OffKept(q)'
  <2>1. rules'[q] = rules[q] /\ asked'[q] = asked[q] /\ token'[q] = token[q] /\ OffKept(q)
    BY <1>2 DEF OffsKept
  <2>2. ASSUME NEW u \in TaskIds
        PROVE  /\ Replaces(u, q)' <=> Replaces(u, q)
               /\ Replaces(u, q) => tasks'[u] = tasks[u]
    <3>1. CASE u = t
      BY <1>2, <3>1 DEF Replaces
    <3>2. CASE u # t
      BY <2>1, <3>2 DEF Replaces
    <3>. QED
      BY <3>1, <3>2
  <2>3. ASSUME NEW u \in TaskIds, asked[q].off # {}, Replaces(u, q)'
        PROVE  WillScan(u, q)'
    <3>1. tasks'[u] = tasks[u] /\ WillScan(u, q)
      BY <2>1, <2>2, <2>3 DEF OffKept
    <3>. QED
      BY <2>1, <3>1 DEF WillScan, Awaits
  <2>4. rules'[q] # NoRule => AllOff(asked'[q].off, rules'[q].subs)
    BY <2>1 DEF OffKept
  <2>5. (\A u \in TaskIds : ~Replaces(u, q)') =>
          \A dst \in asked'[q].off : rules'[q] # NoRule /\ IsOff(dst, rules'[q].subs)
    BY <2>1, <2>2 DEF OffKept
  <2>6. ASSUME NEW u \in TaskIds, Replaces(u, q)'
        PROVE  /\ \A dst \in asked'[q].off : IsOff(dst, tasks'[u].previous)
               /\ rules'[q] # NoRule => rules'[q].subs = {}
    BY <2>1, <2>2, <2>6 DEF OffKept
  <2>. QED
    BY <2>1, <2>3, <2>4, <2>5, <2>6 DEF OffKept
<1>. QED
  BY <1>1, <1>2 DEF OffsKept

\* A save that writes its parent rule takes its sub-rules.
LEMMA ParentOff ==
  ASSUME RulesInv, RulesInv', OffsKept, EachOnce, NEW t \in TaskIds, NEW task \in TaskState,
         NEW r \in RuleIds, r = task.rule, NEW ips, WriteParent(t, task, ips),
         Free(t) \/ (tasks[t].pc = "dns" /\ tasks[t].rule = r),
         token'[r] = t,
         \A q \in RuleIds \ {r} : asked'[q] = asked[q] /\ token'[q] = token[q],
         asked'[r].off # {} =>
           /\ asked[r] # NoRule /\ asked'[r].off = asked[r].off
           /\ task.ask.kind = "url" /\ ips # {}
           /\ \A u \in TaskIds : ~Replaces(u, r)
  PROVE  OffsKept' /\ EachOnce'
<1>0. Types
  BY DEF RulesInv
<1> DEFINE saved == SavedRule(task, ips, rules[r])
           taken == IF rules[r] = NoRule THEN {} ELSE rules[r].subs
           next == [task EXCEPT !.pc = "write", !.initial = {}, !.previous = taken]
<1>1. rules' = [rules EXCEPT ![r] = saved] /\ tasks' = [tasks EXCEPT ![t] = next]
  BY DEF WriteParent
<1>2. saved.subs = {} /\ saved.ips = ips
  BY DEF SavedRule
<1>3. /\ next # NoTask /\ next.pc = "write" /\ next.rule = r /\ next.ask = task.ask
      /\ next.previous = taken
  <2>1. taken \in SUBSET SubRule
    BY <1>0 DEF Types, RuleLists, Rule
  <2> HIDE DEF taken
  <2>2. next \in TaskState
    BY <2>1 DEF TaskState
  <2>. QED
    BY <2>2, AbsenceAssumption DEF TaskState
<1> HIDE DEF next, saved, taken
<1>4. /\ rules'[r] = saved /\ tasks'[t] = next
      /\ \A q \in RuleIds \ {r} : rules'[q] = rules[q]
      /\ \A u \in TaskIds \ {t} : tasks'[u] = tasks[u]
  BY <1>0, <1>1, OneMoves DEF Types, RuleLists
<1>5. Saving(t)' /\ Owns(t)' /\ Replaces(t, r)' /\ (Free(t) \/ tasks[t].rule = r)'
  BY <1>3, <1>4 DEF Saving, Owns, Replaces
<1>6. rules'[r] # NoRule
  <2>1. SaveOwns(t)'
    BY <1>5 DEF RulesInv, SavesOwn
  <2>. QED
    BY <1>3, <1>4, <1>5, <2>1 DEF SaveOwns, Shows
<1>7. \A u \in TaskIds : Replaces(u, r)' => u = t
  BY DEF Replaces
<1>8. OffKept(r)'
  <2>1. AllOff(asked'[r].off, rules'[r].subs) /\ rules'[r].subs = {}
    BY <1>2, <1>4 DEF AllOff
  <2>2. \A dst \in asked'[r].off : IsOff(dst, tasks'[t].previous)
    <3> SUFFICES ASSUME NEW dst \in asked'[r].off PROVE IsOff(dst, tasks'[t].previous)
      OBVIOUS
    <3>1. asked[r] # NoRule /\ asked'[r].off = asked[r].off /\ \A u \in TaskIds : ~Replaces(u, r)
      OBVIOUS
    <3>2. rules[r] # NoRule /\ IsOff(dst, rules[r].subs)
      BY <3>1 DEF OffsKept, OffKept
    <3>. QED
      BY <1>3, <1>4, <3>2 DEF taken
  <2>3. asked'[r].off # {} => WillScan(t, r)'
    <3>1. ~Awaits(t, "dns")' /\ rules'[r].ips = ips /\ tasks'[t].ask = task.ask
      BY <1>2, <1>3, <1>4 DEF Awaits
    <3>. QED
      BY <1>6, <3>1 DEF WillScan
  <2>. QED
    BY <1>5, <1>6, <1>7, <2>1, <2>2, <2>3 DEF OffKept
<1>9. OnePerPlace(rules'[r].subs)
  BY <1>2, <1>4 DEF OnePerPlace
<1>10. \A q \in RuleIds \ {r} :
         rules'[q] = rules[q] /\ asked'[q] = asked[q] /\ token'[q] = token[q]
  BY <1>4
<1>. QED
  BY <1>4, <1>5, <1>8, <1>9, <1>10, OneRuleOff

\* A save that starts keeps what is off in the rule, or takes it over.
LEMMA SaveOff ==
  ASSUME RulesInv, RulesInv', OffsKept, EachOnce, NEW t \in TaskIds,
         NEW r \in RuleIds, NEW dest \in Destinations, NEW iface \in Ifaces,
         Save(t, r, dest, iface)
  PROVE  OffsKept' /\ EachOnce'
<1> DEFINE on == IF rules[r] = NoRule THEN TRUE ELSE rules[r].enabled
           ask == [kind |-> dest.kind, destination |-> dest.destination, iface |-> iface,
                   enabled |-> on]
           first == IF rules[r] = NoRule THEN {} ELSE {on}
           task == [Task("dns", r) EXCEPT !.ask = ask, !.initial = first]
           off == IF rules[r] = NoRule \/ ~Named(dest) \/ Taken(r) THEN {}
                  ELSE AskOf(r).off
           a == [dest |-> dest, iface |-> iface, enabled |-> on, off |-> off]
<1>0. Types /\ DeletedStaysDeleted /\ Free(t)
  BY DEF RulesInv, Save, Acts
<1>1. task \in TaskState /\ task # NoTask /\ task.ask.kind = dest.kind /\ task.rule = r /\ task.pc = "dns"
  <2>1. Task("dns", r) \in TaskState /\ Task("dns", r).pc = "dns" /\ Task("dns", r).rule = r
    BY <1>0, NewTask
  <2>2. on \in BOOLEAN
    BY <1>0 DEF Types, RuleLists, Rule
  <2>3. ask \in Asking /\ first \in SUBSET BOOLEAN /\ ask.kind = dest.kind
    BY <2>2, DestinationsAssumption DEF Asking
  <2> HIDE DEF first, ask
  <2>4. task \in TaskState
    BY <2>1, <2>3 DEF TaskState
  <2>5. task.rule = r /\ task.pc = "dns" /\ task.ask = ask
    BY <2>1, <2>3 DEF TaskState
  <2>. QED
    BY <2>3, <2>4, <2>5, AbsenceAssumption
<1>2. /\ asked' = [asked EXCEPT ![r] = a] /\ token' = [token EXCEPT ![r] = t]
      /\ \/ Named(dest) /\ tasks' = [tasks EXCEPT ![t] = task] /\ rules' = rules
         \/ ~Named(dest) /\ \E ips \in Resolutions(dest) : WriteParent(t, task, ips)
  BY DEF Save
<1>3. /\ asked'[r] = a /\ token'[r] = t
      /\ \A q \in RuleIds \ {r} : asked'[q] = asked[q] /\ token'[q] = token[q]
  BY <1>0, <1>2 DEF Types
<1>4. off # {} => /\ rules[r] # NoRule /\ asked[r] # NoRule /\ off = asked[r].off
                  /\ Named(dest) /\ ~Taken(r)
  BY <1>0 DEF AskOf, DeletedStaysDeleted
<1>8. ~Taken(r) => \A u \in TaskIds : ~Replaces(u, r)
  BY <1>0, AbsenceAssumption DEF Taken, Replaces, Types
<1>5. a.off = off
  OBVIOUS
<1> HIDE DEF task, off, a
<1>6. CASE Named(dest) /\ tasks' = [tasks EXCEPT ![t] = task] /\ rules' = rules
  <2>1. tasks'[t] = task /\ \A u \in TaskIds \ {t} : tasks'[u] = tasks[u]
    BY <1>0, <1>6, OneMoves
  <2>2. \A u \in TaskIds : ~Replaces(u, r)'
    BY <1>1, <1>3, <2>1 DEF Replaces
  <2>3. (Free(t) \/ tasks[t].rule = r)'
    BY <1>1, <2>1
  <2>5. OffKept(r)'
    <3>1. CASE off = {}
      BY <1>3, <1>5, <2>2, <3>1 DEF OffKept, AllOff
    <3>2. CASE off # {}
      <4>1. /\ asked'[r].off = asked[r].off /\ OffKept(r) /\ rules[r] # NoRule
            /\ \A u \in TaskIds : ~Replaces(u, r)
        BY <1>3, <1>4, <1>5, <1>8, <3>2 DEF OffsKept
      <4>2. AllOff(asked[r].off, rules[r].subs) /\ \A dst \in asked[r].off : IsOff(dst, rules[r].subs)
        BY <4>1 DEF OffKept
      <4>. QED
        BY <1>3, <1>6, <2>2, <4>1, <4>2 DEF OffKept
    <3>. QED
      BY <3>1, <3>2
  <2>6. rules'[r] # NoRule => OnePerPlace(rules'[r].subs)
    BY <1>6 DEF EachOnce
  <2>. QED
    BY <1>0, <1>3, <1>6, <2>1, <2>3, <2>5, <2>6, OneRuleOff
<1>7. CASE ~Named(dest) /\ \E ips : WriteParent(t, task, ips)
  <2>2. asked'[r].off = {}
    BY <1>3, <1>4, <1>5, <1>7
  <2>. QED
    BY <1>0, <1>1, <1>3, <1>7, <2>2, ParentOff
<1>. QED
  BY <1>2, <1>6, <1>7

\* A resolved save takes the sub-rules over, and gives up on a scan without addresses.
LEMMA SaveResolvedOff ==
  ASSUME RulesInv, RulesInv', OffsKept, EachOnce, NEW t \in TaskIds,
         SaveResolved(t)
  PROVE  OffsKept' /\ EachOnce'
<1>0. Types
  BY DEF RulesInv
<1>1. Awaits(t, "dns") /\ token' = token /\ tasks[t] \in TaskState
  BY <1>0 DEF SaveResolved, Awaits, Types
<1>2. SaveOwns(t)
  BY <1>1 DEF RulesInv, SavesOwn, Saving, Awaits
<1>3. PICK r \in RuleIds : r = tasks[t].rule
  BY <1>2 DEF SaveOwns
<1>5. CASE tasks' = [tasks EXCEPT ![t] = NoTask] /\ rules' = rules /\ asked' = asked
  <2>1. \A u \in TaskIds : TaskStill(u)
    <3>1. \A q \in RuleIds : ~Replaces(t, q)
      BY <1>1 DEF Replaces, Awaits
    <3>. QED
      BY <1>0, <1>1, <1>5, <3>1, OtherStill
  <2>2. RulesStill /\ AsksStill
    BY <1>5, AlikeItself, AlikeStill DEF AsksStill
  <2>. QED
    BY <1>1, <2>1, <2>2, OffStays
<1>6. ASSUME ~Superseded(t), NEW ips, WriteParent(t, tasks[t], ips),
             IF tasks[t].ask.kind # "url" \/ ips = {} THEN NoScan(t) ELSE UNCHANGED asked
      PROVE  OffsKept' /\ EachOnce'
  <2>0. token[r] = t /\ Owns(t) /\ asked[r] # NoRule
    BY <1>2, <1>3, <1>6 DEF Superseded, SaveOwns, AsksFor, Owns
  <2>1. asked[r] \in Ask
    BY <1>0, <2>0 DEF Types
  <2>2. /\ \A q \in RuleIds \ {r} : asked'[q] = asked[q]
        /\ asked'[r].off = IF tasks[t].ask.kind # "url" \/ ips = {} THEN {} ELSE asked[r].off
    <3>1. CASE tasks[t].ask.kind # "url" \/ ips = {}
      <4>1. asked' = [asked EXCEPT ![r] = [asked[r] EXCEPT !.off = {}]]
        BY <1>3, <1>6, <3>1 DEF NoScan
      <4>2. [asked[r] EXCEPT !.off = {}].off = {}
        BY <2>1 DEF Ask
      <4>3. asked'[r] = [asked[r] EXCEPT !.off = {}] /\ \A q \in RuleIds \ {r} : asked'[q] = asked[q]
        BY <1>0, <4>1 DEF Types
      <4>. QED
        BY <3>1, <4>2, <4>3
    <3>2. CASE ~(tasks[t].ask.kind # "url" \/ ips = {})
      BY <1>6, <3>2
    <3>. QED
      BY <3>1, <3>2
  <2>4. tasks[t].pc = "dns" /\ tasks[t].rule = r /\ token'[r] = t
    BY <1>1, <1>3, <2>0 DEF Awaits
  <2>5. \A u \in TaskIds : ~Replaces(u, r)
    BY <2>0, <2>4 DEF Replaces
  <2>. QED
    BY <1>1, <1>3, <1>6, <2>0, <2>2, <2>4, <2>5, ParentOff
<1>. QED
  BY <1>5, <1>6 DEF SaveResolved

\* A save that has been written waits for its apply with what it has taken.
LEMMA SaveWrittenOff ==
  ASSUME RulesInv, NoFailedWrites, OffsKept, EachOnce, NEW t \in TaskIds, SaveWritten(t)
  PROVE  OffsKept' /\ EachOnce'
<1>0. Types /\ ~WriteFails
  BY DEF RulesInv, NoFailedWrites, WriteFails
<1>1. Awaits(t, "write") /\ UNCHANGED <<rules, token, asked>>
  BY DEF SaveWritten
<1>2. RulesStill /\ AsksStill
  BY <1>1, AlikeItself, AlikeStill DEF AsksStill
<1>3. CASE Current(t, rules)
  <2>1. tasks' = [tasks EXCEPT ![t] = [tasks[t] EXCEPT !.pc = "apply"]]
    BY <1>0, <1>3 DEF SaveWritten
  <2>2. \A u \in TaskIds : TaskStill(u)
    BY <1>0, <1>1, <2>1, SaveStill DEF Awaits
  <2>. QED
    BY <1>1, <1>2, <2>2, OffStays
<1>4. CASE ~Current(t, rules)
  <2>1. tasks' = [tasks EXCEPT ![t] = NoTask]
    BY <1>4 DEF SaveWritten
  <2>2. ~Owns(t)
    <3>1. SaveOwns(t) /\ tasks[t].pc = "write"
      BY <1>1 DEF RulesInv, SavesOwn, Saving, Awaits
    <3>. QED
      BY <1>4, <3>1 DEF SaveOwns, Owns, Current, Shows
  <2>3. \A r \in RuleIds : ~Replaces(t, r)
    BY <2>2 DEF Replaces, Owns
  <2>. QED
    BY <1>0, <1>1, <1>2, <2>1, <2>3, OtherStill, OffStays
<1>. QED
  BY <1>3, <1>4

\* A save whose parent was not applied gives up on its scan.
LEMMA SaveMarkedOff ==
  ASSUME RulesInv, OffsKept, EachOnce, NEW t \in TaskIds, SaveMarked(t)
  PROVE  OffsKept' /\ EachOnce'
<1>0. Types
  BY DEF RulesInv
<1>1. Awaits(t, "mark") /\ rules' = rules /\ token' = token /\ tasks' = [tasks EXCEPT ![t] = NoTask]
  BY DEF SaveMarked
<1>2. SaveOwns(t)
  BY <1>1 DEF RulesInv, SavesOwn, Saving, Awaits
<1>3. PICK r \in RuleIds : r = tasks[t].rule
  BY <1>2 DEF SaveOwns
<1>4. tasks'[t] = NoTask /\ \A u \in TaskIds \ {t} : tasks'[u] = tasks[u]
  BY <1>0, <1>1, OneMoves
<1>5. CASE Current(t, rules)
  <2>1. asked[r] # NoRule /\ asked[r] \in Ask
    BY <1>0, <1>2, <1>3, <1>5 DEF SaveOwns, Owns, Current, AsksFor, Types
  <2>2. asked' = [asked EXCEPT ![r] = [asked[r] EXCEPT !.off = {}]]
    BY <1>3, <1>5 DEF SaveMarked, NoScan
  <2>3. [asked[r] EXCEPT !.off = {}].off = {}
    BY <2>1 DEF Ask
  <2>4. asked'[r].off = {} /\ \A q \in RuleIds \ {r} : asked'[q] = asked[q]
    BY <1>0, <2>2, <2>3 DEF Types
  <2>5. \A u \in TaskIds : Replaces(u, r)' => u = t
    BY <1>1, <1>3, <1>5 DEF Replaces, Current
  <2>6. \A u \in TaskIds : ~Replaces(u, r)'
    BY <1>4, <2>5 DEF Replaces
  <2>7. OffKept(r)'
    BY <2>4, <2>6 DEF OffKept, AllOff
  <2>8. rules'[r] # NoRule => OnePerPlace(rules'[r].subs)
    BY <1>1 DEF EachOnce
  <2>9. \A q \in RuleIds \ {r} :
          rules'[q] = rules[q] /\ asked'[q] = asked[q] /\ token'[q] = token[q]
    BY <1>1, <2>4
  <2>10. (Free(t) \/ tasks[t].rule = r)' /\ tasks[t].rule = r
    BY <1>3, <1>4
  <2>. QED
    BY <1>4, <2>7, <2>8, <2>9, <2>10, OneRuleOff
<1>6. CASE ~Current(t, rules)
  <2>1. asked' = asked
    BY <1>6 DEF SaveMarked
  <2>2. RulesStill /\ AsksStill
    BY <1>1, <2>1, AlikeItself, AlikeStill DEF AsksStill
  <2>3. ~Owns(t)
    BY <1>1, <1>2, <1>6 DEF SaveOwns, Owns, Current, Shows, Awaits
  <2>4. \A q \in RuleIds : ~Replaces(t, q)
    BY <2>3 DEF Replaces, Owns
  <2>. QED
    BY <1>0, <1>1, <2>2, <2>4, OtherStill, OffStays
<1>. QED
  BY <1>5, <1>6

\* What a scan finds again keeps its switch.
LEMMA ScanFinds ==
  ASSUME FoundOnce, NEW task, task.ask.destination \in DOMAIN Found, NEW subs \in Scanned(task)
  PROVE  /\ OnePerPlace(subs)
         /\ \A sub \in subs : sub.enabled <=> ~IsOff(sub.destination, task.previous)
<1>1. PICK found \in SUBSET Found[task.ask.destination] :
        subs \in {{FoundSub(f, ips[f], task.previous) : f \in found} : ips \in Resolved(found)}
  BY DEF Scanned
<1>2. PICK ips : subs = {FoundSub(f, ips[f], task.previous) : f \in found}
  BY <1>1
<1>3. ASSUME NEW f, NEW is
      PROVE  LET sub == FoundSub(f, is, task.previous)
             IN  /\ sub.id = f.id /\ sub.destination = f.destination
                 /\ sub.enabled <=> ~IsOff(sub.destination, task.previous)
  BY DEF FoundSub, IsOff
<1>4. \A sub \in subs : sub.enabled <=> ~IsOff(sub.destination, task.previous)
  BY <1>2, <1>3
<1>5. \A sub \in subs : \E f \in found : sub.id = f.id /\ sub.destination = f.destination
  BY <1>2, <1>3
<1>6. ASSUME NEW p \in subs, NEW q \in subs
      PROVE  p.id = q.id <=> p.destination = q.destination
  <2>1. PICK f \in found : p.id = f.id /\ p.destination = f.destination
    BY <1>5
  <2>2. PICK g \in found : q.id = g.id /\ q.destination = g.destination
    BY <1>5
  <2>3. f \in Found[task.ask.destination] /\ g \in Found[task.ask.destination]
    OBVIOUS
  <2>4. f.id = g.id <=> f.destination = g.destination
    BY <2>3 DEF FoundOnce
  <2>. QED
    BY <2>1, <2>2, <2>4
<1>. QED
  BY <1>4, <1>6 DEF OnePerPlace

\* The scan's outcome is written to the rule: found again and off, or not found.
LEMMA SubsOff ==
  ASSUME RulesInv, OffsKept, EachOnce, NEW t \in TaskIds,
         Awaits(t, "scan"), Current(t, rules), NEW subs \in SUBSET SubRule, PutSubs(t, subs), OnePerPlace(subs),
         \A sub \in subs : sub.enabled <=> ~IsOff(sub.destination, tasks[t].previous),
         NEW pc \in {"scanWrite", "failWrite"}, token' = token,
         tasks' = [tasks EXCEPT ![t] = [tasks[t] EXCEPT !.pc = pc]]
  PROVE  OffsKept' /\ EachOnce'
<1>0. Types /\ tasks[t] \in TaskState
  BY DEF RulesInv, Types, Awaits
<1>1. SaveOwns(t) /\ Owns(t)
  BY DEF RulesInv, SavesOwn, Saving, Awaits, Current, Owns
<1>2. PICK r \in RuleIds : r = tasks[t].rule
  BY <1>1 DEF SaveOwns
<1>3. asked[r] # NoRule /\ rules[r] # NoRule /\ asked[r] \in Ask /\ rules[r] \in Rule
  BY <1>0, <1>1, <1>2 DEF SaveOwns, AsksFor, Shows, Awaits, Types, RuleLists
<1>4. /\ rules'[r] = [rules[r] EXCEPT !.subs = subs]
      /\ \A q \in RuleIds \ {r} : rules'[q] = rules[q]
  BY <1>0, <1>2 DEF PutSubs, Types, RuleLists
<1> DEFINE off == asked[r].off \cap {sub.destination : sub \in subs}
<1>5. /\ asked'[r] = [asked[r] EXCEPT !.off = off]
      /\ \A q \in RuleIds \ {r} : asked'[q] = asked[q]
  BY <1>0, <1>2 DEF PutSubs, Types
<1>6. rules'[r].subs = subs /\ asked'[r].off = off
  BY <1>3, <1>4, <1>5 DEF Rule, Ask
<1>7. \A dst \in asked[r].off : IsOff(dst, tasks[t].previous)
  <2>1. Replaces(t, r)
    BY <1>1, <1>2 DEF Replaces, Awaits, Owns
  <2>. QED
    BY <1>3, <2>1 DEF OffsKept, OffKept
<1>8. AllOff(off, subs) /\ \A dst \in off : IsOff(dst, subs)
  BY <1>7 DEF AllOff, IsOff
<1> HIDE DEF off
<1>9. tasks'[t] # NoTask /\ tasks'[t].pc = pc /\ tasks'[t].rule = r
  <2> DEFINE next == [tasks[t] EXCEPT !.pc = pc]
  <2>1. pc \in {"write", "apply", "mark", "scan", "scanWrite", "failWrite"}
    OBVIOUS
  <2>2. next # NoTask /\ next.pc = pc /\ next.rule = tasks[t].rule
    BY <1>0, <2>1, Moved, ZenonT(30)
  <2> HIDE DEF next
  <2>3. tasks'[t] = next
    BY <1>0, OneMoves DEF next
  <2>. QED
    BY <1>2, <2>2, <2>3
<1>10. \A u \in TaskIds \ {t} : tasks'[u] = tasks[u]
  BY <1>0, OneMoves
<1>11. \A u \in TaskIds : ~Replaces(u, r)'
  BY <1>1, <1>2, <1>9 DEF Replaces, Owns
<1>13. rules'[r] # NoRule
  <2>1. rules'[r] \in Rule
    BY <1>3, <1>4 DEF Rule
  <2>. QED
    BY <2>1, AbsenceAssumption
<1>14. OffKept(r)'
  BY <1>6, <1>8, <1>11, <1>13 DEF OffKept
<1>15. (Free(t) \/ tasks[t].rule = r)' /\ tasks[t].rule = r
  BY <1>2, <1>9
<1>16. \A q \in RuleIds \ {r} :
         rules'[q] = rules[q] /\ asked'[q] = asked[q] /\ token'[q] = token[q]
  BY <1>4, <1>5
<1>. QED
  BY <1>6, <1>10, <1>14, <1>15, <1>16, OneRuleOff

\* A scan that ends well or badly.
LEMMA ScanEndsOff ==
  ASSUME FoundOnce, RulesInv, OffsKept, EachOnce, NEW t \in TaskIds,
         ScanEnds(t)
  PROVE  OffsKept' /\ EachOnce'
<1>0. Types /\ Awaits(t, "scan") /\ token' = token
  BY DEF RulesInv, ScanEnds
<1>1. SaveOwns(t) /\ tasks[t] \in TaskState /\ tasks[t].pc = "scan"
  BY <1>0 DEF RulesInv, SavesOwn, Saving, Awaits, Types
<1>2. tasks[t].ask \in Asking /\ tasks[t].ask.destination \in DOMAIN Found
  BY <1>1 DEF SaveOwns
<1>3. CASE /\ Current(t, rules)
           /\ \E subs \in Scanned(tasks[t]) : PutSubs(t, subs)
           /\ tasks' = [tasks EXCEPT ![t] = [tasks[t] EXCEPT !.pc = "scanWrite"]]
  <2>1. PICK subs \in Scanned(tasks[t]) : PutSubs(t, subs)
    BY <1>3
  <2>2. subs \in SUBSET SubRule
    BY <1>1, <1>2, ScannedOK
  <2>3. /\ OnePerPlace(subs)
        /\ \A sub \in subs : sub.enabled <=> ~IsOff(sub.destination, tasks[t].previous)
    BY <1>2, ScanFinds
  <2>. QED
    BY <1>0, <1>3, <2>1, <2>2, <2>3, SubsOff
<1>4. CASE /\ Current(t, rules)
           /\ PutSubs(t, {})
           /\ tasks' = [tasks EXCEPT ![t] = [tasks[t] EXCEPT !.pc = "failWrite"]]
  <2>1. OnePerPlace({}) /\ {} \in SUBSET SubRule
    BY DEF OnePerPlace
  <2>. QED
    BY <1>0, <1>4, <2>1, SubsOff
<1>5. CASE /\ ~Current(t, rules)
           /\ tasks' = [tasks EXCEPT ![t] = NoTask]
           /\ UNCHANGED <<rules, asked>>
  <2>1. RulesStill /\ AsksStill
    BY <1>5, AlikeItself, AlikeStill DEF AsksStill
  <2>2. ~Owns(t)
    BY <1>1, <1>5 DEF SaveOwns, Owns, Current, Shows
  <2>3. \A q \in RuleIds : ~Replaces(t, q)
    BY <2>2 DEF Replaces, Owns
  <2>. QED
    BY <1>0, <1>5, <2>1, <2>3, OtherStill, OffStays
<1>. QED
  BY <1>3, <1>4, <1>5 DEF ScanEnds

\* What ends with nothing to keep, and changes no rule.
LEMMA OthersOff ==
  ASSUME RulesInv, NoFailedWrites, OffsKept, EachOnce, NEW t \in TaskIds,
         ScanWritten(t) \/ EditWritten(t) \/ ModeWritten(t)
  PROVE  OffsKept' /\ EachOnce'
<1>0. Types /\ ~WriteFails
  BY DEF RulesInv, NoFailedWrites, WriteFails
<1>1. /\ UNCHANGED <<rules, token, asked>>
      /\ tasks' = [tasks EXCEPT ![t] = NoTask]
  BY <1>0 DEF ScanWritten, EditWritten, ModeWritten
<1>2. \A r \in RuleIds : ~Replaces(t, r)
  BY DEF ScanWritten, EditWritten, ModeWritten, Awaits, Replaces
<1>3. \A u \in TaskIds : TaskStill(u)
  BY <1>0, <1>1, <1>2, OtherStill
<1>4. RulesStill /\ AsksStill
  BY <1>1, AlikeItself, AlikeStill DEF AsksStill
<1>. QED
  BY <1>1, <1>3, <1>4, OffStays

\* Operations that go on keep the switches of sub-rules.
LEMMA GoesOff ==
  ASSUME FoundOnce, NoFailedWrites, RulesInv, RulesInv', OffsKept, EachOnce,
         NEW t \in TaskIds, Goes(t)
  PROVE  OffsKept' /\ EachOnce'
<1>1. ~Awaits(t, "refresh") /\ ~Awaits(t, "import") /\ ~Awaits(t, "importWrite")
  BY DEF RulesInv, OthersEdit, Saving, Awaits
<1>2. ~RefreshResolved(t) /\ ~ImportResolved(t) /\ ~ImportWritten(t)
  BY <1>1 DEF RefreshResolved, ImportResolved, ImportWritten
<1>. QED
  BY <1>2, SaveResolvedOff, SaveWrittenOff, SaveMarkedOff, ScanEndsOff, OthersOff DEF Goes

\* An edit is a task of its own.
LEMMA EditBegins ==
  ASSUME Types, NEW t \in TaskIds, NEW r \in RuleIds, NEW rs, Edit(t, r, rs)
  PROVE  tasks'[t] # NoTask /\ tasks'[t].pc = "edit" /\ tasks'[t].rule = r
<1>1. tasks' = [tasks EXCEPT ![t] = Task("edit", r)]
  BY DEF Edit
<1>2. tasks'[t] = Task("edit", r)
  BY <1>1, OneMoves
<1>. QED
  BY <1>2, NewTask

\* The user's switch of a rule, and the deletion of one.
LEMMA EditOff ==
  ASSUME RulesInv, OffsKept, EachOnce, NEW t \in TaskIds, NEW r \in RuleIds, NEW rs,
         Free(t), Edit(t, r, rs), token' = token
  PROVE  \A u \in TaskIds : TaskStill(u)
<1>0. Types
  BY DEF RulesInv
<1>1. Task("edit", r).pc = "edit"
  BY <1>0, NewTask
<1>2. \A q \in RuleIds : ~Replaces(t, q)
  BY DEF Replaces
<1>. QED
  BY <1>0, <1>1, <1>2, OtherStill DEF Edit

\* The switch of a rule leaves its sub-rules.
LEMMA SetRuleOff ==
  ASSUME RulesInv, OffsKept, EachOnce, NEW t \in TaskIds, NEW r \in RuleIds,
         NEW on \in BOOLEAN, SetRuleEnabled(t, r, on)
  PROVE  OffsKept' /\ EachOnce'
<1>0. Types /\ rules[r] # NoRule /\ asked[r] # NoRule /\ Free(t) /\ token' = token
  BY DEF RulesInv, DeletedStaysDeleted, SetRuleEnabled, Acts
<1>1. rules[r] \in Rule /\ asked[r] \in Ask
  BY <1>0 DEF Types, RuleLists
<1>2. \E rs : Edit(t, r, rs)
  BY DEF SetRuleEnabled
<1>3. /\ rules'[r] = [[rules[r] EXCEPT !.enabled = on] EXCEPT !.status = "pending"]
      /\ \A q \in RuleIds \ {r} : rules'[q] = rules[q]
  BY <1>0 DEF SetRuleEnabled, Edit, Types, RuleLists
<1>4. rules'[r].subs = rules[r].subs /\ rules'[r].ips = rules[r].ips /\ rules'[r] # NoRule
  <2> DEFINE switched == [rules[r] EXCEPT !.enabled = on]
  <2>1. switched \in Rule /\ switched.subs = rules[r].subs /\ switched.ips = rules[r].ips
    BY <1>1 DEF Rule
  <2>2. rules'[r] = [switched EXCEPT !.status = "pending"]
    BY <1>3
  <2> HIDE DEF switched
  <2>3. /\ [switched EXCEPT !.status = "pending"] \in Rule
        /\ [switched EXCEPT !.status = "pending"].subs = switched.subs
        /\ [switched EXCEPT !.status = "pending"].ips = switched.ips
    BY <2>1 DEF Rule, Statuses
  <2>. QED
    BY <2>1, <2>2, <2>3, AbsenceAssumption
<1>5. asked' = [asked EXCEPT ![r] = [asked[r] EXCEPT !.enabled = on]]
  BY <1>0 DEF SetRuleEnabled, AskOf
<1>6. asked'[r].off = asked[r].off /\ \A q \in RuleIds \ {r} : asked'[q] = asked[q]
  <2>1. [asked[r] EXCEPT !.enabled = on].off = asked[r].off
    BY <1>1 DEF Ask
  <2>. QED
    BY <1>0, <1>5, <2>1 DEF Types
<1>7. RulesStill
  <2>1. \A subs : SubsAlike(subs, subs)
    BY DEF SubsAlike, EntryAlike
  <2>. QED
    BY <1>0, <1>3, <1>4, <2>1 DEF RulesStill
<1>8. AsksStill
  BY <1>0, <1>6 DEF AsksStill
<1>. QED
  BY <1>0, <1>2, <1>7, <1>8, EditOff, OffStays

\* A deletion leaves the other rules.
LEMMA DeleteOff ==
  ASSUME RulesInv, OffsKept, EachOnce, NEW t \in TaskIds, NEW r \in RuleIds,
         DeleteRule(t, r)
  PROVE  OffsKept' /\ EachOnce'
<1>0. Types /\ Free(t)
  BY DEF RulesInv, DeleteRule, Acts
<1>1. /\ rules'[r] = NoRule /\ \A q \in RuleIds \ {r} : rules'[q] = rules[q]
      /\ asked'[r] = NoRule /\ \A q \in RuleIds \ {r} : asked'[q] = asked[q]
  BY <1>0 DEF DeleteRule, Edit, Types, RuleLists
<1>2. /\ tasks'[t].rule = r /\ \A u \in TaskIds \ {t} : tasks'[u] = tasks[u]
      /\ \A q \in RuleIds \ {r} : token'[q] = token[q]
  <2>1. \E rs : Edit(t, r, rs)
    BY DEF DeleteRule
  <2>2. tasks'[t].rule = r
    BY <1>0, <2>1, EditBegins
  <2>3. \A u \in TaskIds \ {t} : tasks'[u] = tasks[u]
    BY <1>0, <2>1, OneMoves DEF Edit
  <2>4. \A q \in RuleIds \ {r} : token'[q] = token[q]
    BY <1>0 DEF DeleteRule, Types
  <2>. QED
    BY <2>2, <2>3, <2>4
<1>3. \A q \in RuleIds \ {r} :
        rules'[q] = rules[q] /\ asked'[q] = asked[q] /\ token'[q] = token[q]
  BY <1>1, <1>2
<1>. QED
  BY <1>0, <1>1, <1>2, <1>3, OneRuleOff

\* The switch of a sub-rule: it alone changes, and what is asked of its destination.
LEMMA SetSubOff ==
  ASSUME RulesInv, OffsKept, EachOnce, NEW t \in TaskIds, NEW r \in RuleIds,
         NEW id, NEW on \in BOOLEAN, SetSubRuleEnabled(t, r, id, on)
  PROVE  OffsKept' /\ EachOnce'
<1> DEFINE Toggled(sub) ==
             IF sub.id = id THEN [[sub EXCEPT !.enabled = on] EXCEPT !.status = "pending"] ELSE sub
           subs == rules[r].subs
           new == {Toggled(sub) : sub \in subs}
           places == {sub.destination : sub \in {u \in subs : u.id = id}}
           off == IF on THEN asked[r].off \ places ELSE asked[r].off \cup places
<1>0. Types /\ rules[r] # NoRule /\ asked[r] # NoRule /\ Free(t) /\ token' = token
  BY DEF RulesInv, DeletedStaysDeleted, SetSubRuleEnabled, Acts
<1>1. rules[r] \in Rule /\ asked[r] \in Ask /\ subs \in SUBSET SubRule
  BY <1>0 DEF Types, RuleLists, Rule
<1>2. \A sub \in subs : /\ Toggled(sub).id = sub.id /\ Toggled(sub).destination = sub.destination
                        /\ Toggled(sub).enabled = IF sub.id = id THEN on ELSE sub.enabled
  BY <1>1 DEF SubRule
<1>3. /\ rules'[r] = [rules[r] EXCEPT !.subs = new]
      /\ \A q \in RuleIds \ {r} : rules'[q] = rules[q]
  BY <1>0 DEF SetSubRuleEnabled, Edit, EachSub, Types, RuleLists
<1>4. asked' = [asked EXCEPT ![r] = [asked[r] EXCEPT !.off = off]]
  BY <1>0 DEF SetSubRuleEnabled, AskOf
<1> HIDE DEF Toggled, new, off
<1>5. asked'[r].off = off /\ \A q \in RuleIds \ {r} : asked'[q] = asked[q]
  <2>1. [asked[r] EXCEPT !.off = off].off = off
    BY <1>1 DEF Ask
  <2>. QED
    BY <1>0, <1>4, <2>1 DEF Types
<1>6. rules'[r].subs = new /\ rules[r] # NoRule
  BY <1>0, <1>1, <1>3 DEF Rule
<1>7. OnePerPlace(subs)
  BY <1>0 DEF EachOnce
<1>8. OnePerPlace(new)
  BY <1>2, <1>7 DEF OnePerPlace, new
<1>9. \A u \in TaskIds : ~Replaces(u, r)
  <2>1. subs # {}
    BY DEF SetSubRuleEnabled
  <2>. QED
    BY <1>0, <2>1 DEF OffsKept, OffKept
<1>10. AllOff(asked[r].off, subs) /\ \A dst \in asked[r].off : IsOff(dst, subs)
  BY <1>0, <1>9 DEF OffsKept, OffKept
<1>11. AllOff(off, new)
  <2> SUFFICES ASSUME NEW sub \in subs, Toggled(sub).destination \in off
               PROVE  ~Toggled(sub).enabled
    BY DEF AllOff, new
  <2>1. CASE sub.id = id
    <3>1. sub.destination \in places
      BY <2>1
    <3>. QED
      BY <1>2, <2>1, <3>1 DEF off
  <2>2. CASE sub.id # id
    <3>1. sub.destination \notin places
      BY <1>7, <2>2 DEF OnePerPlace
    <3>2. sub.destination \in asked[r].off
      BY <1>2, <3>1 DEF off
    <3>. QED
      BY <1>2, <1>10, <2>2, <3>2 DEF AllOff
  <2>. QED
    BY <2>1, <2>2
<1>12. \A dst \in off : IsOff(dst, new)
  <2> SUFFICES ASSUME NEW dst \in off PROVE \E sub \in subs : /\ Toggled(sub).destination = dst
                                                             /\ ~Toggled(sub).enabled
    BY DEF IsOff, new
  <2>1. CASE dst \in places
    <3>1. ~on
      BY <2>1 DEF off
    <3>. QED
      BY <1>2, <2>1, <3>1
  <2>2. CASE dst \notin places
    <3>1. dst \in asked[r].off
      BY <2>2 DEF off
    <3>2. PICK sub \in subs : sub.destination = dst /\ ~sub.enabled
      BY <1>10, <3>1 DEF IsOff
    <3>3. sub.id # id
      BY <2>2, <3>2
    <3>. QED
      BY <1>2, <3>2, <3>3
  <2>. QED
    BY <2>1, <2>2
<1>13. /\ tasks'[t].pc = "edit" /\ tasks'[t].rule = r
       /\ \A u \in TaskIds \ {t} : tasks'[u] = tasks[u]
  <2>1. \E rs : Edit(t, r, rs)
    BY DEF SetSubRuleEnabled
  <2>. QED
    BY <1>0, <2>1, EditBegins, OneMoves DEF Edit
<1>14. \A u \in TaskIds : ~Replaces(u, r)'
  <2>1. ~Replaces(t, r)'
    BY <1>13 DEF Replaces
  <2>2. \A u \in TaskIds \ {t} : ~Replaces(u, r)'
    BY <1>0, <1>9, <1>13 DEF Replaces
  <2>. QED
    BY <2>1, <2>2
<1>16. rules'[r] # NoRule
  <2>1. \A sub \in subs : Toggled(sub) \in SubRule
    BY <1>1 DEF Toggled, SubRule, Statuses
  <2>2. new \in SUBSET SubRule
    BY <2>1 DEF new
  <2>3. rules'[r] \in Rule
    BY <1>1, <1>3, <2>2 DEF Rule
  <2>. QED
    BY <2>3, AbsenceAssumption
<1>17. OffKept(r)'
  BY <1>5, <1>6, <1>11, <1>12, <1>14, <1>16 DEF OffKept
<1>18. \A q \in RuleIds \ {r} :
         rules'[q] = rules[q] /\ asked'[q] = asked[q] /\ token'[q] = token[q]
  BY <1>0, <1>3, <1>5
<1>. QED
  BY <1>0, <1>6, <1>8, <1>13, <1>17, <1>18, OneRuleOff

\* What the user does keeps the switches of sub-rules.
LEMMA UserOff ==
  ASSUME NoListWrites, RulesInv, RulesInv', OffsKept, EachOnce, User
  PROVE  OffsKept' /\ EachOnce'
<1>0. Types
  BY DEF RulesInv
<1>1. \A t \in TaskIds : ~Acts("import", t) /\ ~Acts("refresh", t)
  BY DEF NoListWrites, Acts
<1>2. CASE \E t \in TaskIds, r \in RuleIds, dest \in Destinations, iface \in Ifaces :
             Save(t, r, dest, iface) \/ \E on \in BOOLEAN : Import(t, r, dest, iface, on)
  BY <1>1, <1>2, SaveOff DEF Import
<1>3. CASE \E t \in TaskIds, r \in RuleIds :
             \/ \E on \in BOOLEAN : SetRuleEnabled(t, r, on)
             \/ \E f \in UNION {Found[url] : url \in DOMAIN Found}, on \in BOOLEAN :
                  SetSubRuleEnabled(t, r, f.id, on)
             \/ DeleteRule(t, r)
  BY <1>3, SetRuleOff, SetSubOff, DeleteOff
<1>4. CASE \E t \in TaskIds : Refresh(t) \/ SetMode(t)
  <2>1. PICK t \in TaskIds : SetMode(t)
    BY <1>1, <1>4 DEF Refresh
  <2>2. PICK m \in Modes : tasks' = [tasks EXCEPT ![t] = [Task("mode", NoRule) EXCEPT !.mode = m]]
    BY <2>1 DEF SetMode
  <2>3. [Task("mode", NoRule) EXCEPT !.mode = m].pc = "mode"
    BY DEF Task
  <2>4. \A r \in RuleIds : ~Replaces(t, r)
    BY <2>1 DEF SetMode, Acts, Replaces
  <2>5. RulesStill /\ AsksStill /\ token' = token
    BY <2>1, AlikeItself, AlikeStill DEF SetMode, AsksStill
  <2>6. \A u \in TaskIds : TaskStill(u)
    BY <1>0, <2>2, <2>3, <2>4, <2>5, OtherStill
  <2>. QED
    BY <2>5, <2>6, OffStays
<1>5. CASE Reapply
  BY <1>5, AlikeItself, AlikeStill, NobodyStill, OffStays DEF Reapply, AsksStill
<1>. QED
  BY <1>2, <1>3, <1>4, <1>5 DEF User

\* Every step keeps them.
LEMMA OffStep ==
  ASSUME FoundOnce, NoListWrites, NoFailedWrites
  PROVE  OffInv /\ [Next]_vars => OffInv'
<1> SUFFICES ASSUME OffInv, [Next]_vars PROVE OffInv'
  OBVIOUS
<1>1. RulesInv /\ OffsKept /\ EachOnce
  BY DEF OffInv
<1>2. RulesInv'
  BY <1>1, RulesStep
<1>3. CASE User
  BY <1>1, <1>2, <1>3, UserOff DEF OffInv
<1>4. CASE Applies
  BY <1>1, <1>2, <1>4, AppliesOff DEF OffInv
<1>5. CASE \E t \in TaskIds : Goes(t)
  BY <1>1, <1>2, <1>5, GoesOff DEF OffInv
<1>6. CASE Late \/ UNCHANGED vars
  <2>1. UNCHANGED <<rules, asked, tasks, token>>
    BY <1>6 DEF Late, LateEdits, LateEnds, vars
  <2>2. RulesStill /\ AsksStill
    BY <2>1, AlikeItself, AlikeStill DEF AsksStill
  <2>. QED
    BY <1>1, <1>2, <2>1, <2>2, NobodyStill, OffStays DEF OffInv
<1>. QED
  BY <1>3, <1>4, <1>5, <1>6 DEF Next

\* upsertRule's previousByDestination: the sub-rules that a save replaces are what its
\* scan reads the switches from, and nothing in between loses them: neither the applies
\* that run meanwhile nor a resolution or scan that fails.
THEOREM SubTogglesStay ==
  ASSUME FoundOnce, NoListWrites, NoFailedWrites
  PROVE  Spec => []SubTogglesKept
<1>1. Init => OffInv
  <2> SUFFICES ASSUME Init PROVE OffInv
    OBVIOUS
  <2>1. RulesInv
    BY RulesStart
  <2>2. \A r \in RuleIds : rules[r] = NoRule /\ asked[r] = NoRule
    BY DEF Init, NoRules
  <2>3. \A t \in TaskIds : Free(t)
    BY DEF Init
  <2>. QED
    BY <2>1, <2>2, <2>3 DEF OffInv, OffsKept, EachOnce, Saving
<1>2. OffInv /\ [Next]_vars => OffInv'
  BY OffStep
<1>3. OffInv => SubTogglesKept
  BY DEF OffInv, OffsKept, OffKept, AllOff, SubTogglesKept
<1>. QED
  BY <1>1, <1>2, <1>3, PTL DEF Spec
=============================================================================
