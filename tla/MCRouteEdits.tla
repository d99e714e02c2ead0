---------------------------- MODULE MCRouteEdits ----------------------------
(***************************************************************************)
(* Two addresses, claimed as a URL's resolved addresses, as a "/32" given  *)
(* as a CIDR, or by a sub-rule, over an interface with a gateway and two   *)
(* without.                                                                *)
(***************************************************************************)
EXTENDS RouteEdits, TLC

CONSTANTS a, b, c, en0, en1, en2, gw

Links == {<<en0, gw>>, <<en1, NoGateway>>, <<en2, NoGateway>>}

Targets ==
  {[kind |-> "url", destination |-> c, ips |-> ips] : ips \in {{a}, {a, b}}}
  \cup {[kind |-> "cidr", destination |-> Host(a), ips |-> {}]}

Sub(on) ==
  [id |-> 1, kind |-> "ipv4", destination |-> b, ips |-> {b}, enabled |-> on]

Full(id) ==
  {[id |-> id, kind |-> t.kind, destination |-> t.destination, ips |-> t.ips,
    iface |-> link[1], gateway |-> link[2], enabled |-> on, subs |-> subs] :
     t \in Targets, link \in Links, on \in BOOLEAN, subs \in {{}, {Sub(TRUE)}, {Sub(FALSE)}}}

\* The second rule has no sub-rule that is off.
Second(id) == {rule \in Full(id) : \A sub \in rule.subs : sub.enabled}

\* The third rule claims one address, and has no sub-rules.
Plain(id) ==
  {rule \in Full(id) : rule.enabled /\ rule.subs = {} /\ rule.ips = {a}}

MCChoices == (1 :> Full(1)) @@ (2 :> Second(2)) @@ (3 :> Plain(3))
=============================================================================
