----------------------------- MODULE RoutePlan -----------------------------
(***************************************************************************)
(* RouteReconciler.planFromRules: which routes a list of routing rules     *)
(* asks the native layer for.  Pure: no state of its own.                  *)
(*                                                                         *)
(* A rule, or a sub-rule found by the dependency scanner, claims one host  *)
(* route per resolved address, or its own CIDR, through the rule's         *)
(* interface and that interface's gateway.  Claims on one CIDR that agree  *)
(* are merged into one route; claims that do not agree exclude the CIDR    *)
(* and are reported to every claimant.                                     *)
(*                                                                         *)
(* Abstractions: an address and a CIDR are model values apart from the     *)
(* "/32" made of an address; identifiers are naturals, whose order stands  *)
(* for the code's string order; lists are sets (the code sorts its result, *)
(* and nothing reads the order of the conflict messages).                  *)
(*                                                                         *)
(* A definition whose name starts with Bug is not part of the model: it is *)
(* the definition after it with a plausible mistake, for mutation checks.  *)
(***************************************************************************)
EXTENDS Naturals

CONSTANT NoGateway   \* DesiredRoute.gateway = null

\* The "/32" CIDR of an address: '$ip/32'.
Host(ip) == <<ip, 32>>

\* _expandDestination: the CIDRs an entry claims.  A hostname or URL claims its
\* resolved addresses, an IPv4 destination itself, a CIDR itself.
Cidrs(entry) ==
  CASE entry.kind = "cidr" -> {entry.destination}
    [] entry.kind = "ipv4" -> {Host(entry.destination)}
    [] entry.kind \in {"hostname", "url"} -> {Host(ip) : ip \in entry.ips}

\* Owner keys: <<rule, 0>> for a rule, <<rule, sub>> for its sub-rule.  The code
\* compares '<rule>' and '<rule>:sub:<sub>' as strings; rule ids have one length.
OwnerLeq(a, b) == a[1] < b[1] \/ (a[1] = b[1] /\ a[2] <= b[2])

Claim(rule, sub, entry) ==
  {[cidr |-> c, iface |-> rule.iface, gateway |-> rule.gateway,
    owner |-> <<rule.id, sub>>] : c \in Cidrs(entry)}

\* The enabled entries of a rule: itself and its enabled sub-rules, and nothing
\* when the rule is disabled.
RuleClaims(rule) ==
  IF ~rule.enabled THEN {}
  ELSE Claim(rule, 0, rule)
       \cup UNION {Claim(rule, sub.id, sub) : sub \in {s \in rule.subs : s.enabled}}

Candidates(rules) == UNION {RuleClaims(rule) : rule \in rules}

ClaimsOn(cidr, rules) == {c \in Candidates(rules) : c.cidr = cidr}

\* Only a different gateway is a conflict.
BugSignatures(cidr, rules) == {c.gateway : c \in ClaimsOn(cidr, rules)}

\* The distinct (interface, gateway) pairs asked for one destination.
Signatures(cidr, rules) ==
  {<<c.iface, c.gateway>> : c \in ClaimsOn(cidr, rules)}

Claimed(rules) == {c.cidr : c \in Candidates(rules)}

Conflicting(cidr, rules) == \E s, t \in Signatures(cidr, rules) : s # t

\* Claims that agree are merged into the one whose owner comes first.
FirstClaim(claims) ==
  CHOOSE c \in claims : \A d \in claims : OwnerLeq(c.owner, d.owner)

\* A conflict takes every route of the rules it is about.
BugRoutes(rules) ==
  LET lost == {c.owner[1] : c \in {d \in Candidates(rules) : Conflicting(d.cidr, rules)}}
      kept == {c \in Candidates(rules) : c.owner[1] \notin lost}
  IN {FirstClaim({c \in kept : c.cidr = cidr}) : cidr \in {c.cidr : c \in kept}}

Routes(rules) ==
  {FirstClaim(ClaimsOn(cidr, rules)) :
     cidr \in {c \in Claimed(rules) : ~Conflicting(c, rules)}}

\* planFromRules: the routes asked of the native layer, and the claims that conflict.
Plan(rules) ==
  [routes |-> Routes(rules),
   conflicts |-> {c \in Candidates(rules) : Conflicting(c.cidr, rules)}]

\* A sub-rule's conflict is reported to the sub-rule alone.
BugRuleConflicts(plan, id) ==
  {c.cidr : c \in {d \in plan.conflicts : d.owner = <<id, 0>>}}

\* conflictsByRuleId: a sub-rule's conflict is reported to its parent too.
RuleConflicts(plan, id) == {c.cidr : c \in {d \in plan.conflicts : d.owner[1] = id}}

\* conflictsBySubRuleKey.
SubRuleConflicts(plan, id, sub) ==
  {c.cidr : c \in {d \in plan.conflicts : d.owner = <<id, sub>>}}

\* What is there already is looked up by destination, without the tag.
BugDiff(desired, current) ==
  [toAdd |-> {d \in desired : \A c \in current : c.cidr # d.cidr},
   toRemove |-> current \ desired,
   unchanged |-> desired \cap current]

\* RouteReconciler.diff.
Diff(desired, current) ==
  [toAdd |-> desired \ current,
   toRemove |-> current \ desired,
   unchanged |-> desired \cap current]
=============================================================================
