------------------------- MODULE MCServiceRuntime -------------------------
(* Instances of ServiceRuntime for TLC. *)
EXTENDS ServiceRuntime

CONSTANTS r, a, off

Config(m, spec) == [master |-> m, rules |-> [x \in Rules |-> spec]]
MCNothing == [master |-> FALSE, rules |-> [x \in Rules |-> Off]]

\* A rule with either policy, and no rules.
MCConfigs ==
  {MCNothing,
   Config(TRUE, [adapter |-> a, policy |-> "block"]),
   Config(TRUE, [adapter |-> a, policy |-> "fallback"])}

AllFaults == {"wfp", "route", "system", "driver"}
NoPairs == {}
=============================================================================
