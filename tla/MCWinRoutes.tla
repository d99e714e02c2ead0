---------------------------- MODULE MCWinRoutes ----------------------------
(***************************************************************************)
(* Two destinations and two adapters.  The first destination is asked for  *)
(* through either adapter, and through one of them under two tags; one     *)
(* browser has a TCP connection to it, another a QUIC connection to the    *)
(* second.  One route is invalid.  The run with failures and Stop asks for *)
(* one route at a time (SingleRequests).                                   *)
(***************************************************************************)
EXTENDS WinRoutes

CONSTANTS d1, d2, eth, wifi, gw, none, t1, t2, chrome, edge

Route(d, a, g, t) == [dest |-> d, adapter |-> a, gateway |-> g, tag |-> t]

First == Route(d1, eth, gw, t1)
Retagged == Route(d1, eth, gw, t2)
Moved == Route(d1, wifi, none, t1)
Second == Route(d2, eth, gw, t2)
Bad == Route(d2, none, gw, t1)

MCRoutes == {First, Retagged, Moved, Second, Bad}
MCInvalid == {Bad}
MCRequests == {{}, {First}, {Retagged, Second}, {Moved}, {Bad}}
SingleRequests == {{}, {First}, {Retagged}, {Moved}, {Bad}}
MCForeign == {RowOf(First)}
OneFlow == {[process |-> chrome, kind |-> "tcp", dest |-> d1]}
MCFlows == {[process |-> chrome, kind |-> "tcp", dest |-> d1],
            [process |-> edge, kind |-> "udp", dest |-> d2]}

AllFaults == {"call", "file", "crash", "reboot", "table", "stop"}
NoFault == {}
=============================================================================
