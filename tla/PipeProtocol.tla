---------------------------- MODULE PipeProtocol ----------------------------
(***************************************************************************)
(* The frames between the desktop application and the Windows service:     *)
(* netpilot_protocol.cpp.                                                  *)
(*                                                                         *)
(* A frame is a sequence of fields.  A run of fields of fixed number and   *)
(* order (the strings of a route, the flags of a status) counts as one     *)
(* field; the length of a list is a field of its own, read before its      *)
(* items, and the decoders bound it where the encoders do not.             *)
(***************************************************************************)
EXTENDS Naturals, Sequences, SequencesExt

CONSTANTS
  MaxItems,        \* routes, errors, checks, ... in a list: 4096
  MaxRules,        \* app rules in a request: 1024
  MaxExecutables,  \* executables of an app rule: 201
  MaxMetrics,      \* metrics in a status: 1024
  Malformed        \* what a decoder returns instead of a value

ASSUME LimitsAssumption == {MaxItems, MaxRules, MaxExecutables, MaxMetrics} \subseteq Nat

EncodeList(items) == <<Len(items)>> \o items

\* ReadU32 at a place of frame p; beyond the frame it fails, as for a length that no
\* list may have.
Length(p, at, limit) == IF at \in DOMAIN p THEN p[at] ELSE limit + 1

\* The items of the list that begins at a place.
Items(p, at) == SubSeq(p, at + 1, at + p[at])

-----------------------------------------------------------------------------
\* A reconcile request is a list of routes, and nothing after it.

EncodeRoutes(routes) == EncodeList(routes)

DecodeRoutes(p) ==
  LET n == Length(p, 1, MaxItems)
  IN IF n > MaxItems \/ 1 + n # Len(p) THEN Malformed ELSE Items(p, 1)

\* An apply request is the master switch and a list of rules, each with a list.
EncodeAppRules(config) ==
  <<config.master, Len(config.rules)>>
    \o FlattenSeq([i \in DOMAIN config.rules |->
         <<config.rules[i].rule>> \o EncodeList(config.rules[i].executables)])

\* Where rule i begins: rule i - 1 has a field of its own and its list before it.
RuleAt(p, i) ==
  LET at[k \in 1..i] == IF k = 1 THEN 3 ELSE at[k - 1] + 2 + Length(p, at[k - 1] + 1, MaxExecutables)
  IN at[i]

DecodeAppRules(p) ==
  LET n == Length(p, 2, MaxRules)
  IN IF \/ n > MaxRules
        \/ \E i \in 1..n : Length(p, RuleAt(p, i) + 1, MaxExecutables) > MaxExecutables
        \/ RuleAt(p, n + 1) # Len(p) + 1
       THEN Malformed
       ELSE [master |-> p[1],
             rules |-> [i \in 1..n |-> [rule |-> p[RuleAt(p, i)],
                                        executables |-> Items(p, RuleAt(p, i) + 1)]]]

-----------------------------------------------------------------------------
\* A status is its flags and a list of metrics.
EncodeStatus(status) == <<status.flags>> \o EncodeList(status.metrics)

DecodeStatus(p) ==
  LET n == Length(p, 2, MaxMetrics)
  IN IF n > MaxMetrics \/ 2 + n # Len(p) THEN Malformed
     ELSE [flags |-> p[1], metrics |-> Items(p, 2)]

\* The result of a reconcile: its flag and counts, and four lists.
EncodeReconcileResult(result) ==
  <<result.ok>> \o EncodeList(result.errors) \o EncodeList(result.checks)
    \o EncodeList(result.resets) \o EncodeList(result.restarted)

\* Where list i of a result begins.
ListAt(p, i) ==
  LET at[k \in 1..i] == IF k = 1 THEN 2 ELSE at[k - 1] + 1 + Length(p, at[k - 1], MaxItems)
  IN at[i]

DecodeReconcileResult(p) ==
  IF \/ \E i \in 1..4 : Length(p, ListAt(p, i), MaxItems) > MaxItems
     \/ ListAt(p, 5) # Len(p) + 1
    THEN Malformed
    ELSE [ok |-> p[1], errors |-> Items(p, ListAt(p, 1)), checks |-> Items(p, ListAt(p, 2)),
          resets |-> Items(p, ListAt(p, 3)), restarted |-> Items(p, ListAt(p, 4))]
=============================================================================
