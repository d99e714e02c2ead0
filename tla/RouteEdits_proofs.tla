------------------------- MODULE RouteEdits_proofs -------------------------
(***************************************************************************)
(* Proofs about RouteEdits, for any rules.                                 *)
(*                                                                         *)
(* What is planned for a destination depends on the claims on it alone,    *)
(* and the first of them exists because owners are pairs of naturals; the  *)
(* three properties follow from how an edit changes the claims.            *)
(***************************************************************************)
EXTENDS RouteEdits, WellFoundedInduction, TLAPS

-----------------------------------------------------------------------------
\* The first of several claims.

\* A set of naturals has a least element.
LEMMA LeastNatural ==
  ASSUME NEW S \in SUBSET Nat, S # {}
  PROVE  \E n \in S : \A k \in S : n <= k
<1> DEFINE R == {p \in Nat \X Nat : p[1] < p[2]}
<1>1. IsWellFoundedOn(R, Nat)
  BY NatLessThanWellFounded DEF OpToRel
<1>2. PICK n \in S : \A k \in S : ~ (<<k, n>> \in R)
  <2>. HIDE DEF R
  <2>. QED
    BY <1>1, WFMin, Zenon
<1>3. \A k \in S : ~ (k < n)
  BY <1>2
<1>. QED
  BY <1>3

\* The owners of the claims are comparable.
Owned(claims) == \A c \in claims : c.owner \in Nat \X Nat

\* FirstClaim picks one of the claims, and none of them comes before it.
LEMMA FirstClaimIsFirst ==
  ASSUME NEW claims, claims # {}, Owned(claims)
  PROVE  /\ FirstClaim(claims) \in claims
         /\ \A c \in claims : OwnerLeq(FirstClaim(claims).owner, c.owner)
<1> DEFINE X == {c.owner[1] : c \in claims}
<1>1. PICK m \in X : \A k \in X : m <= k
  <2>1. X \in SUBSET Nat /\ X # {}
    BY DEF Owned
  <2>. HIDE DEF X
  <2>. QED
    BY <2>1, LeastNatural
<1> DEFINE Y == {c.owner[2] : c \in {d \in claims : d.owner[1] = m}}
<1>2. PICK n \in Y : \A k \in Y : n <= k
  <2>1. Y \in SUBSET Nat /\ Y # {}
    BY DEF Owned
  <2>. HIDE DEF Y
  <2>. QED
    BY <2>1, LeastNatural
<1>3. PICK first \in claims : first.owner[1] = m /\ first.owner[2] = n
  OBVIOUS
<1>4. ASSUME NEW c \in claims
      PROVE  OwnerLeq(first.owner, c.owner)
  <2>1. m \in Nat /\ n \in Nat /\ c.owner[1] \in Nat /\ c.owner[2] \in Nat
    BY DEF Owned
  <2>2. m <= c.owner[1]
    BY <1>1
  <2>3. c.owner[1] = m => n <= c.owner[2]
    BY <1>2
  <2>. QED
    BY <1>3, <2>1, <2>2, <2>3 DEF OwnerLeq
<1>. QED
  BY <1>4 DEF FirstClaim

-----------------------------------------------------------------------------
\* What is planned for one destination.

\* Claims on a destination without a conflict go the same way.
LEMMA ClaimsAgree ==
  ASSUME NEW rules, NEW cidr, ~Conflicting(cidr, rules),
         NEW c \in ClaimsOn(cidr, rules), NEW d \in ClaimsOn(cidr, rules)
  PROVE  c.iface = d.iface /\ c.gateway = d.gateway
<1>1. /\ <<c.iface, c.gateway>> \in Signatures(cidr, rules)
      /\ <<d.iface, d.gateway>> \in Signatures(cidr, rules)
  BY DEF Signatures
<1>2. <<c.iface, c.gateway>> = <<d.iface, d.gateway>>
  BY <1>1 DEF Conflicting
<1>. QED
  BY <1>2

\* Routes are first claims, each on its own destination.
LEMMA RoutesAreFirstClaims ==
  ASSUME NEW rules, Owned(Candidates(rules)), NEW route
  PROVE  route \in Routes(rules) <=>
           /\ route \in Candidates(rules)
           /\ ~Conflicting(route.cidr, rules)
           /\ route = FirstClaim(ClaimsOn(route.cidr, rules))
<1>1. ASSUME NEW cidr \in Claimed(rules)
      PROVE  FirstClaim(ClaimsOn(cidr, rules)) \in ClaimsOn(cidr, rules)
  <2>1. ClaimsOn(cidr, rules) # {} /\ Owned(ClaimsOn(cidr, rules))
    BY DEF Claimed, ClaimsOn, Owned
  <2>. QED
    BY <2>1, FirstClaimIsFirst
<1>. QED
  BY <1>1 DEF Routes, ClaimsOn, Claimed

\* The routes of a destination depend on the claims on it alone.
LEMMA RoutesOfClaims ==
  ASSUME NEW rs, NEW rt, Owned(Candidates(rs)), Owned(Candidates(rt)), NEW cidr,
         ClaimsOn(cidr, rs) = ClaimsOn(cidr, rt)
  PROVE  {route \in Routes(rs) : route.cidr = cidr} = {route \in Routes(rt) : route.cidr = cidr}
<1>1. Conflicting(cidr, rs) <=> Conflicting(cidr, rt)
  BY DEF Conflicting, Signatures
<1>2. \A route : route.cidr = cidr =>
        (route \in Candidates(rs) <=> route \in Candidates(rt))
  BY DEF ClaimsOn
<1>3. ASSUME NEW route, route.cidr = cidr
      PROVE  route \in Routes(rs) <=> route \in Routes(rt)
  BY <1>1, <1>2, <1>3, RoutesAreFirstClaims
<1>. QED
  BY <1>3

\* So do the conflicts reported on it.
LEMMA ReportsOfClaims ==
  ASSUME NEW rs, NEW rt, NEW cidr, ClaimsOn(cidr, rs) = ClaimsOn(cidr, rt)
  PROVE  {c \in Plan(rs).conflicts : c.cidr = cidr} = {c \in Plan(rt).conflicts : c.cidr = cidr}
<1>1. Conflicting(cidr, rs) <=> Conflicting(cidr, rt)
  BY DEF Conflicting, Signatures
<1>2. \A c : c.cidr = cidr => (c \in Candidates(rs) <=> c \in Candidates(rt))
  BY DEF ClaimsOn
<1>. QED
  BY <1>1, <1>2 DEF Plan

-----------------------------------------------------------------------------
\* The claims of a list.

\* A rule and its claims carry its identifier, its interface and its gateway.
LEMMA ClaimsOfRule ==
  ASSUME NEW id \in Ids, NEW rule \in Choices[id]
  PROVE  /\ rule # NoRule /\ rule.id = id
         /\ \A c \in RuleClaims(rule) :
              /\ c.owner \in Nat \X Nat /\ c.owner[1] = id
              /\ c.iface = rule.iface /\ c.gateway = rule.gateway
              /\ c = [cidr |-> c.cidr, iface |-> c.iface, gateway |-> c.gateway,
                      owner |-> c.owner]
<1>1. rule # NoRule /\ rule.id = id /\ id \in Nat /\ \A sub \in rule.subs : sub.id \in Nat
  BY IdsAssumption, ChoicesAssumption
<1>2. \A sub, entry : \A c \in Claim(rule, sub, entry) :
        /\ c.owner = <<id, sub>>
        /\ c.iface = rule.iface /\ c.gateway = rule.gateway
        /\ c = [cidr |-> c.cidr, iface |-> c.iface, gateway |-> c.gateway, owner |-> c.owner]
  BY <1>1 DEF Claim
<1>3. ASSUME NEW c \in RuleClaims(rule)
      PROVE  \E sub \in Nat : \E entry : c \in Claim(rule, sub, entry)
  BY <1>1, <1>3 DEF RuleClaims
<1>. QED
  BY <1>1, <1>2, <1>3, SMTT(30)

\* Every place of the list holds no rule or one of its choices.
ListOK ==
  /\ list = [id \in Ids |-> list[id]]
  /\ \A id \in Ids : list[id] = NoRule \/ list[id] \in Choices[id]

\* Nothing but rules that may stand there gets into the list: deleteRule and
\* _replaceRule write one place.
THEOREM ListCorrect == Spec => []ListOK
<1>1. Init => ListOK
  BY DEF Init, ListOK
<1>2. ListOK /\ [Next]_list => ListOK'
  <2> SUFFICES ASSUME ListOK, [Next]_list PROVE ListOK'
    OBVIOUS
  <2>1. CASE UNCHANGED list
    BY <2>1 DEF ListOK
  <2>2. ASSUME NEW id \in Ids, Put(id)
        PROVE  ListOK'
    BY <2>2 DEF Put, ListOK
  <2>3. ASSUME NEW id \in Ids, Remove(id)
        PROVE  ListOK'
    BY <2>3 DEF Remove, ListOK
  <2>. QED
    BY <2>1, <2>2, <2>3 DEF Next
<1>. QED
  BY <1>1, <1>2, PTL DEF Spec

\* The claims planned from are those of the rules in the list.
ClaimsOK ==
  /\ \A c \in Candidates(Rules) : c.owner \in Nat \X Nat
  /\ \A c \in Candidates(Rules) : \E id \in Ids : list[id] # NoRule /\ c \in RuleClaims(list[id])
  /\ \A id \in Ids : list[id] # NoRule => RuleClaims(list[id]) \subseteq Candidates(Rules)
  /\ \A id \in Ids : \A c \in RuleClaims(list[id]) :
       list[id] # NoRule =>
         /\ c.owner[1] = id
         /\ c.iface = list[id].iface /\ c.gateway = list[id].gateway
         /\ c = [cidr |-> c.cidr, iface |-> c.iface, gateway |-> c.gateway, owner |-> c.owner]

\* A list of allowed rules gives well-formed claims, each of one rule of the list.
LEMMA ClaimsOfList == ListOK => ClaimsOK
<1> SUFFICES ASSUME ListOK PROVE ClaimsOK
  OBVIOUS
<1>1. \A c \in Candidates(Rules) : \E id \in Ids : list[id] # NoRule /\ c \in RuleClaims(list[id])
  BY DEF Candidates, Rules
<1>2. \A id \in Ids : list[id] # NoRule => RuleClaims(list[id]) \subseteq Candidates(Rules)
  BY DEF Candidates, Rules
<1>3. ASSUME NEW id \in Ids, list[id] # NoRule, NEW c \in RuleClaims(list[id])
      PROVE  /\ c.owner \in Nat \X Nat /\ c.owner[1] = id
             /\ c.iface = list[id].iface /\ c.gateway = list[id].gateway
             /\ c = [cidr |-> c.cidr, iface |-> c.iface, gateway |-> c.gateway, owner |-> c.owner]
  <2>1. list[id] \in Choices[id]
    BY <1>3 DEF ListOK
  <2>. QED
    BY <2>1, ClaimsOfRule
<1>. QED
  BY <1>1, <1>2, <1>3 DEF ClaimsOK

\* The same of the list after a step.
LEMMA ClaimsOfNextList == ListOK' => ClaimsOK'
<1>. QED
  BY ClaimsOfList, PTL

-----------------------------------------------------------------------------
\* An edit changes the claims of one rule.

\* Editing a rule leaves the claims on a destination it never claims.
LEMMA ClaimsElsewhere ==
  ASSUME ClaimsOK, ClaimsOK', NEW id \in Ids,
         \A other \in Ids \ {id} : list'[other] = list[other],
         NEW cidr, cidr \notin ClaimedBy(id), cidr \notin ClaimedBy(id)'
  PROVE  ClaimsOn(cidr, Rules') = ClaimsOn(cidr, Rules)
<1>1. ASSUME NEW c \in Candidates(Rules), c.cidr = cidr
      PROVE  c \in Candidates(Rules')
  <2>1. PICK i \in Ids : list[i] # NoRule /\ c \in RuleClaims(list[i])
    BY DEF ClaimsOK
  <2>2. i # id
    BY <1>1, <2>1 DEF ClaimedBy
  <2>3. list'[i] # NoRule /\ c \in RuleClaims(list'[i])
    BY <2>1, <2>2
  <2>. QED
    BY <2>3 DEF ClaimsOK
<1>2. ASSUME NEW c \in Candidates(Rules'), c.cidr = cidr
      PROVE  c \in Candidates(Rules)
  <2>1. PICK i \in Ids : list'[i] # NoRule /\ c \in RuleClaims(list'[i])
    BY DEF ClaimsOK
  <2>2. i # id
    BY <1>2, <2>1 DEF ClaimedBy
  <2>3. list[i] # NoRule /\ c \in RuleClaims(list[i])
    BY <2>1, <2>2
  <2>. QED
    BY <2>3 DEF ClaimsOK
<1>. QED
  BY <1>1, <1>2 DEF ClaimsOn

\* An edit of one rule changes the routes and the conflicts of no destination but those
\* the rule claims before or after it, for any rules (planFromRules).
THEOREM EditsAreLocalCorrect == Spec => EditsAreLocal
<1> DEFINE Local ==
      \A id \in Ids : (\A other \in Ids \ {id} : list'[other] = list[other]) =>
        \A c \in (Claimed(Rules) \cup Claimed(Rules)') \ (ClaimedBy(id) \cup ClaimedBy(id)') :
          RoutesOn(c)' = RoutesOn(c) /\ ReportsOn(c)' = ReportsOn(c)
<1>1. ListOK /\ ListOK' /\ [Next]_list => [Local]_list
  <2> SUFFICES ASSUME ClaimsOK, ClaimsOK', NEW id \in Ids,
                      \A other \in Ids \ {id} : list'[other] = list[other],
                      NEW c \in (Claimed(Rules) \cup Claimed(Rules)')
                                  \ (ClaimedBy(id) \cup ClaimedBy(id)')
               PROVE  RoutesOn(c)' = RoutesOn(c) /\ ReportsOn(c)' = ReportsOn(c)
    BY ClaimsOfList, ClaimsOfNextList
  <2>1. ClaimsOn(c, Rules') = ClaimsOn(c, Rules)
    BY ClaimsElsewhere
  <2>2. Owned(Candidates(Rules)) /\ Owned(Candidates(Rules'))
    BY DEF ClaimsOK, Owned
  <2>3. {route \in Routes(Rules') : route.cidr = c} = {route \in Routes(Rules) : route.cidr = c}
    BY <2>1, <2>2, RoutesOfClaims
  <2>4. {d \in Plan(Rules').conflicts : d.cidr = c} = {d \in Plan(Rules).conflicts : d.cidr = c}
    BY <2>1, ReportsOfClaims
  <2>. QED
    BY <2>3, <2>4 DEF RoutesOn, ReportsOn
<1>. QED
  BY <1>1, ListCorrect, PTL DEF Spec, EditsAreLocal

-----------------------------------------------------------------------------
\* Every claim is answered.

\* Each destination of an enabled rule or sub-rule is routed as it asks, or reported as
\* a conflict to it, and never both, for any rules (planFromRules).
THEOREM ServedOrReportedCorrect == Spec => []ServedOrReported
<1>1. ListOK => ServedOrReported
  <2> SUFFICES ASSUME ListOK, ClaimsOK,
                      NEW rule \in Rules, NEW c \in RuleClaims(rule)
               PROVE  /\ Served(rule, c.cidr)
                           # (c.cidr \in RuleConflicts(Plan(Rules), rule.id))
                      /\ Served(rule, c.cidr)
                           # (c.cidr \in SubRuleConflicts(Plan(Rules), rule.id, c.owner[2]))
    BY ClaimsOfList DEF ServedOrReported
  <2>1. PICK id \in Ids : list[id] # NoRule /\ rule = list[id]
    BY DEF Rules
  <2>2. rule.id = id
    BY <2>1, ChoicesAssumption DEF ListOK
  <2>3. /\ c \in Candidates(Rules)
        /\ c.owner \in Nat \X Nat /\ c.owner[1] = id
        /\ c.iface = rule.iface /\ c.gateway = rule.gateway
    BY <2>1 DEF ClaimsOK
  <2>4. Owned(Candidates(Rules))
    BY DEF ClaimsOK, Owned
  <2>5. CASE Conflicting(c.cidr, Rules)
    <3>1. c \in Plan(Rules).conflicts
      BY <2>3, <2>5 DEF Plan
    <3>2. c.owner = <<rule.id, c.owner[2]>>
      BY <2>2, <2>3
    <3>3. c.cidr \in RuleConflicts(Plan(Rules), rule.id)
      BY <3>1, <2>2, <2>3 DEF RuleConflicts
    <3>4. c.cidr \in SubRuleConflicts(Plan(Rules), rule.id, c.owner[2])
      BY <3>1, <3>2 DEF SubRuleConflicts
    <3>5. ~Served(rule, c.cidr)
      BY <2>4, <2>5, RoutesAreFirstClaims DEF Served
    <3>. QED
      BY <3>3, <3>4, <3>5
  <2>6. CASE ~Conflicting(c.cidr, Rules)
    <3> DEFINE claims == ClaimsOn(c.cidr, Rules)
               first == FirstClaim(claims)
    <3>1. c \in claims /\ Owned(claims)
      BY <2>3, <2>4 DEF ClaimsOn, Owned
    <3>2. first \in claims
      <4>. HIDE DEF claims
      <4>. QED
        BY <3>1, FirstClaimIsFirst
    <3>3. first.cidr = c.cidr /\ first \in Candidates(Rules)
      BY <3>2 DEF ClaimsOn
    <3>4. first \in Routes(Rules)
      BY <2>4, <2>6, <3>3, RoutesAreFirstClaims
    <3>5. first.iface = c.iface /\ first.gateway = c.gateway
      BY <2>6, <3>1, <3>2, ClaimsAgree
    <3>6. Served(rule, c.cidr)
      BY <2>3, <3>3, <3>4, <3>5 DEF Served
    <3>7. \A d \in Plan(Rules).conflicts : d.cidr # c.cidr
      BY <2>6 DEF Plan
    <3>. QED
      BY <3>6, <3>7 DEF RuleConflicts, SubRuleConflicts
  <2>. QED
    BY <2>5, <2>6
<1>. QED
  BY <1>1, ListCorrect, PTL

-----------------------------------------------------------------------------
\* A withdrawal takes nothing from other rules.

\* Two claims that agree, neither of which comes before the other, are one.
LEMMA SameClaim ==
  ASSUME NEW rules, NEW c \in Candidates(rules), NEW d \in Candidates(rules),
         ~Conflicting(c.cidr, rules), c.cidr = d.cidr,
         c.owner \in Nat \X Nat, d.owner \in Nat \X Nat,
         OwnerLeq(c.owner, d.owner), OwnerLeq(d.owner, c.owner),
         c = [cidr |-> c.cidr, iface |-> c.iface, gateway |-> c.gateway, owner |-> c.owner],
         d = [cidr |-> d.cidr, iface |-> d.iface, gateway |-> d.gateway, owner |-> d.owner]
  PROVE  c = d
<1>1. c.owner = d.owner
  BY DEF OwnerLeq
<1>2. c.iface = d.iface /\ c.gateway = d.gateway
  <2>1. c \in ClaimsOn(c.cidr, rules) /\ d \in ClaimsOn(c.cidr, rules)
    BY DEF ClaimsOn
  <2>. QED
    BY <2>1, ClaimsAgree
<1>. QED
  BY <1>1, <1>2

\* A withdrawal adds no claims.
LEMMA ClaimsShrink ==
  ASSUME ClaimsOK, ClaimsOK', NEW id \in Ids,
         \A other \in Ids \ {id} : list'[other] = list[other],
         ClaimedBy(id)' = {}
  PROVE  Candidates(Rules') \subseteq Candidates(Rules)
<1> SUFFICES ASSUME NEW c \in Candidates(Rules')
             PROVE  c \in Candidates(Rules)
  OBVIOUS
<1>1. PICK i \in Ids : list'[i] # NoRule /\ c \in RuleClaims(list'[i])
  BY DEF ClaimsOK
<1>2. i # id
  BY <1>1, SMTT(30) DEF ClaimedBy
<1>. QED
  BY <1>1, <1>2 DEF ClaimsOK

\* A route whose owner stays is the first claim still.
LEMMA OthersStayFirst ==
  ASSUME ClaimsOK, ClaimsOK', NEW id \in Ids,
         \A other \in Ids \ {id} : list'[other] = list[other],
         ClaimedBy(id)' = {},
         NEW route \in Routes(Rules), route.owner[1] # id
  PROVE  route \in Routes(Rules')
<1> DEFINE before == ClaimsOn(route.cidr, Rules)
           after == ClaimsOn(route.cidr, Rules')
           first == FirstClaim(after)
<1>1. Owned(Candidates(Rules)) /\ Owned(Candidates(Rules'))
  BY DEF ClaimsOK, Owned
<1>2. /\ route \in Candidates(Rules)
      /\ ~Conflicting(route.cidr, Rules)
      /\ route = FirstClaim(before)
  BY <1>1, RoutesAreFirstClaims
<1>3. route \in Candidates(Rules')
  <2>1. PICK i \in Ids : list[i] # NoRule /\ route \in RuleClaims(list[i])
    BY <1>2 DEF ClaimsOK
  <2>2. i # id
    BY <2>1 DEF ClaimsOK
  <2>. QED
    BY <2>1, <2>2 DEF ClaimsOK
<1>4. Candidates(Rules') \subseteq Candidates(Rules)
  BY ClaimsShrink
<1>5. ~Conflicting(route.cidr, Rules')
  BY <1>2, <1>4 DEF Conflicting, Signatures, ClaimsOn
<1>6. /\ after \subseteq before
      /\ route \in after
      /\ Owned(after) /\ Owned(before)
  BY <1>1, <1>3, <1>4 DEF ClaimsOn, Owned
<1>7. first \in after /\ OwnerLeq(first.owner, route.owner)
  <2>. HIDE DEF after
  <2>. QED
    BY <1>6, FirstClaimIsFirst
<1>8. OwnerLeq(route.owner, first.owner)
  <2>. HIDE DEF after, before, first
  <2>. QED
    BY <1>2, <1>6, <1>7, FirstClaimIsFirst
<1>9. first = route
  <2>1. first \in Candidates(Rules) /\ first.cidr = route.cidr
    BY <1>4, <1>7 DEF ClaimsOn
  <2>2. \A c \in Candidates(Rules) :
          /\ c.owner \in Nat \X Nat
          /\ c = [cidr |-> c.cidr, iface |-> c.iface, gateway |-> c.gateway,
                  owner |-> c.owner]
    BY DEF ClaimsOK
  <2>. HIDE DEF first
  <2>. QED
    BY <1>2, <1>7, <1>8, <2>1, <2>2, SameClaim
<1>. QED
  BY <1>1, <1>3, <1>5, <1>9, RoutesAreFirstClaims

\* When a rule is deleted or switched off, every route the helper is asked to remove is
\* owned by that rule, and if another rule claims its destination it is among those to
\* add, the same way, for any rules (planFromRules, diff).
THEOREM WithdrawalCorrect == Spec => WithdrawalHandsOver
<1> DEFINE Change == Diff(Routes(Rules)', Routes(Rules))
           HandedOver ==
             \A id \in Ids :
               /\ \A other \in Ids \ {id} : list'[other] = list[other]
               /\ ClaimedBy(id)' = {}
               => \A route \in Change.toRemove :
                    /\ route.owner[1] = id
                    /\ route.cidr \in Claimed(Rules)' =>
                         \E next \in Change.toAdd :
                           /\ next.cidr = route.cidr
                           /\ next.iface = route.iface /\ next.gateway = route.gateway
<1>1. ListOK /\ ListOK' /\ [Next]_list => [HandedOver]_list
  <2> SUFFICES ASSUME ClaimsOK, ClaimsOK', NEW id \in Ids,
                      \A other \in Ids \ {id} : list'[other] = list[other],
                      ClaimedBy(id)' = {},
                      NEW route \in Routes(Rules), route \notin Routes(Rules')
               PROVE  /\ route.owner[1] = id
                      /\ route.cidr \in Claimed(Rules') =>
                           \E next \in Routes(Rules') \ Routes(Rules) :
                             /\ next.cidr = route.cidr
                             /\ next.iface = route.iface /\ next.gateway = route.gateway
    BY ClaimsOfList, ClaimsOfNextList DEF Diff
  <2>1. route.owner[1] = id
    BY OthersStayFirst
  <2>2. ASSUME route.cidr \in Claimed(Rules')
        PROVE  \E next \in Routes(Rules') \ Routes(Rules) :
                 /\ next.cidr = route.cidr
                 /\ next.iface = route.iface /\ next.gateway = route.gateway
    <3> DEFINE before == ClaimsOn(route.cidr, Rules)
               after == ClaimsOn(route.cidr, Rules')
               next == FirstClaim(after)
    <3>1. Owned(Candidates(Rules)) /\ Owned(Candidates(Rules'))
      BY DEF ClaimsOK, Owned
    <3>2. /\ route \in Candidates(Rules)
          /\ ~Conflicting(route.cidr, Rules)
          /\ route = FirstClaim(before)
      BY <3>1, RoutesAreFirstClaims
    <3>3. Candidates(Rules') \subseteq Candidates(Rules)
      BY ClaimsShrink
    <3>4. ~Conflicting(route.cidr, Rules')
      BY <3>2, <3>3 DEF Conflicting, Signatures, ClaimsOn
    <3>5. after # {} /\ Owned(after) /\ after \subseteq before
      BY <2>2, <3>1, <3>3 DEF Claimed, ClaimsOn, Owned
    <3>6. next \in after
      <4>. HIDE DEF after
      <4>. QED
        BY <3>5, FirstClaimIsFirst
    <3>7. next \in Candidates(Rules') /\ next.cidr = route.cidr /\ next \in before
      BY <3>5, <3>6 DEF ClaimsOn
    <3>8. next \in Routes(Rules')
      <4>. HIDE DEF next
      <4>1. next = FirstClaim(ClaimsOn(next.cidr, Rules'))
        BY <3>7 DEF next
      <4>. QED
        BY <3>1, <3>4, <3>7, <4>1, RoutesAreFirstClaims
    <3>9. next \notin Routes(Rules)
      <4>. HIDE DEF next
      <4>1. next \in Routes(Rules) => next = FirstClaim(ClaimsOn(next.cidr, Rules))
        BY <3>1, RoutesAreFirstClaims
      <4>. QED
        BY <3>2, <3>7, <3>8, <4>1
    <3>10. next.iface = route.iface /\ next.gateway = route.gateway
      <4>. HIDE DEF next
      <4>1. route \in ClaimsOn(route.cidr, Rules) /\ next \in ClaimsOn(route.cidr, Rules)
        BY <3>2, <3>7 DEF ClaimsOn
      <4>. QED
        BY <3>2, <4>1, ClaimsAgree
    <3>. QED
      BY <3>7, <3>8, <3>9, <3>10
  <2>. QED
    BY <2>1, <2>2
<1>. QED
  BY <1>1, ListCorrect, PTL DEF Spec, WithdrawalHandsOver
=============================================================================
