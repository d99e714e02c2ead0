----------------------------- MODULE MCPipeCalls -----------------------------
(* Limits of one or two items, and requests within and beyond them. *)
EXTENDS PipeCalls, TLC

CONSTANTS app, tool, r, s, x, y

Rule(id, exes) == [rule |-> id, executables |-> exes]
Apply(rules) == [op |-> "apply", config |-> [master |-> TRUE, rules |-> rules]]

MCRequests ==
  {[op |-> "status"], [op |-> "cleanup"],
   [op |-> "reconcile", routes |-> <<r>>], [op |-> "reconcile", routes |-> <<r, s, r>>],
   Apply(<<Rule(r, <<x, y>>), Rule(s, <<x>>)>>),
   Apply(<<Rule(r, <<x, y, x>>)>>),
   Apply(<<Rule(r, <<x, y>>), Rule(s, <<x, y>>), Rule(r, <<x, y>>)>>)}

\* The application calls for anything, the maintenance tool for a cleanup.
MCAsks == (app :> MCRequests) @@ (tool :> {[op |-> "cleanup"]})

Result(ok, checks, resets) ==
  [ok |-> ok, errors |-> <<>>, checks |-> checks, resets |-> resets, restarted |-> <<>>]
MCResults == {Result(TRUE, <<r, s>>, <<s>>), Result(FALSE, <<r, r, s>>, <<>>)}
=============================================================================
