--------------------------- MODULE MCHelperRoutes ---------------------------
(***************************************************************************)
(* Two destinations, two interfaces.  The first destination is asked for   *)
(* through either interface, by gateway or directly, and by two owners     *)
(* (the tag is part of a route's identity); the second through one.        *)
(***************************************************************************)
EXTENDS HelperRoutes

CONSTANTS d1, d2, en0, en1, gw, r1, r2

Route(d, i, g, t) == [dest |-> d, iface |-> i, gateway |-> g, tag |-> t]

MCSpecs == {Route(d1, en0, gw, r1), Route(d1, en0, gw, r2),
            Route(d1, en1, NoGateway, r1), Route(d2, en0, gw, r2)}

MCVias == {[iface |-> en0, gateway |-> gw], [iface |-> en1, gateway |-> NoGateway]}

\* Serial requests, every failure but a death within a request and a lost write.
Survivable == {"command", "restart", "reboot", "table", "default"}

\* The inventory and the file fall apart, and the table is left to the helper.
Deaths == {"command", "death", "persist"}
=============================================================================
