----------------------------- MODULE RouteEdits -----------------------------
(***************************************************************************)
(* What one edit of a list of rules does to the plan made from it: the     *)
(* plan is made afresh at every apply (netpilot_controller.dart:635-643),  *)
(* and the helper removes and adds the difference.                         *)
(*                                                                         *)
(* An edit puts one rule in the place of another, or takes one away; the   *)
(* gateways do not change.                                                 *)
(***************************************************************************)
EXTENDS RoutePlan

CONSTANTS
  Ids,      \* identifiers of rules
  Choices,  \* id -> the rules it may stand for, as planFromRules sees them
  NoRule

ASSUME IdsAssumption == Ids \subseteq Nat
ASSUME ChoicesAssumption ==
  \A id \in Ids : \A rule \in Choices[id] :
    /\ rule # NoRule
    /\ rule.id = id
    /\ \A sub \in rule.subs : sub.id \in Nat \ {0}

VARIABLE list  \* id -> its rule, or NoRule

Rules == {list[id] : id \in {i \in Ids : list[i] # NoRule}}

Init == list = [id \in Ids |-> NoRule]

\* _replaceRule: the rule is added, saved again, toggled, resolved or scanned.
Put(id) ==
  \E rule \in Choices[id] : list' = [list EXCEPT ![id] = rule]

\* deleteRule.
Remove(id) ==
  /\ list[id] # NoRule
  /\ list' = [list EXCEPT ![id] = NoRule]

Next == \E id \in Ids : Put(id) \/ Remove(id)

Spec == Init /\ [][Next]_list

-----------------------------------------------------------------------------
\* The CIDRs a rule claims now; none when there is no such rule.
ClaimedBy(id) ==
  IF list[id] = NoRule THEN {} ELSE {c.cidr : c \in RuleClaims(list[id])}

\* The CIDR is routed the way the rule asks.
Served(rule, cidr) ==
  \E route \in Routes(Rules) :
    route.cidr = cidr /\ route.iface = rule.iface /\ route.gateway = rule.gateway

\* An enabled claim is never dropped silently, and never both routed and reported:
\* each CIDR of an enabled rule or sub-rule goes where its rule says, or the conflict
\* is on the rule, and on the sub-rule whose it is
\* (route_reconciler_test.dart:128, HANDOFF.md:757-759).
ServedOrReported ==
  LET plan == Plan(Rules)
  IN \A rule \in Rules : \A c \in RuleClaims(rule) :
       /\ Served(rule, c.cidr) # (c.cidr \in RuleConflicts(plan, rule.id))
       /\ c.owner[2] # 0 =>
            Served(rule, c.cidr) # (c.cidr \in SubRuleConflicts(plan, rule.id, c.owner[2]))

\* The routes, conflict reports of a destination.
RoutesOn(cidr) == {route \in Routes(Rules) : route.cidr = cidr}
ReportsOn(cidr) == {c \in Plan(Rules).conflicts : c.cidr = cidr}

\* An edit of one rule touches nothing but the destinations that rule claims before or
\* after it: another rule keeps its routes, and its conflicts, however the edited rule
\* conflicts elsewhere ("other non-conflicting routes still apply", HANDOFF.md:759).
EditsAreLocal ==
  [][\A id \in Ids : (\A other \in Ids \ {id} : list'[other] = list[other]) =>
       \A c \in (Claimed(Rules) \cup Claimed(Rules)') \ (ClaimedBy(id) \cup ClaimedBy(id)') :
         RoutesOn(c)' = RoutesOn(c) /\ ReportsOn(c)' = ReportsOn(c)]_list

\* Deleting a rule, or switching it off, takes no destination from another rule.  The
\* helper is asked to remove routes of that rule only; and since a route carries the tag
\* of its first owner (DesiredRoute.==, routing_rule.dart:237), one that is merged with
\* claims of other rules is among them: it is added again, the same way, for the next
\* owner.
WithdrawalHandsOver ==
  [][\A id \in Ids :
       /\ \A other \in Ids \ {id} : list'[other] = list[other]
       /\ ClaimedBy(id)' = {}
       => LET change == Diff(Routes(Rules)', Routes(Rules))
          IN \A route \in change.toRemove :
               /\ route.owner[1] = id
               /\ route.cidr \in Claimed(Rules)' =>
                    \E next \in change.toAdd :
                      /\ next.cidr = route.cidr
                      /\ next.iface = route.iface /\ next.gateway = route.gateway]_list
=============================================================================
