------------------------- MODULE MCRulesController -------------------------
(***************************************************************************)
(* A URL u whose page leads to a host d, a URL v whose page leads nowhere, *)
(* and the address a that u resolves to as a rule of its own: rules for u  *)
(* and for a conflict when they name different interfaces.  In the run     *)
(* with faults pages lead nowhere.                                         *)
(***************************************************************************)
EXTENDS RulesController, TLC

CONSTANTS u, v, d, a, b, en0, en1, gw, t1, t2

Url(name) == [kind |-> "url", destination |-> name]
Address == [kind |-> "ipv4", destination |-> a]

OneUrl == {Url(u)}
TwoUrls == {Url(u), Url(v)}
UrlAndAddress == {Url(u), Address}

\* u may fail to resolve; d may resolve to the address of either rule.
MCAnswers == (u :> {{}, {a}}) @@ (v :> {{b}}) @@ (d :> {{a}, {b}})
SureAnswers == (u :> {{a}}) @@ (v :> {{b}}) @@ (d :> {{a}})

MCFound == (u :> {[id |-> 1, kind |-> "hostname", destination |-> d]}) @@ (v :> {})
NothingFound == (u :> {}) @@ (v :> {})

AllEdits == {"save", "toggle", "toggleSub", "delete", "mode", "reapply"}
TogglesAndModes == {"save", "toggle", "mode"}
OperationsThatWait == {"save", "delete", "refresh", "import", "mode"}

NoFault == {}
HelperFaults == {"helper", "timeout", "hosts"}
CaughtFaults == {"write", "hosts"}

TaskSymmetry == Permutations(TaskIds)
=============================================================================
