----------------------------- MODULE MCConnSetup -----------------------------
(***************************************************************************)
(* ConnSetup for TLC: two Dials against two Accepts for the kinds with a   *)
(* listener of their own and without, and one pair whose Dial's Conn is    *)
(* used and closed.                                                        *)
(***************************************************************************)
EXTENDS ConnSetup

CONSTANTS d1, d2, a1, a2

Scene(k, calls, users) == [kind |-> k, calls |-> calls, users |-> users]

MCScenes ==
  {Scene("Conn", {d1, d2, a1, a2}, {}), Scene("perftest", {d1, d2, a1, a2}, {}),
   Scene("RawConn", {d1, d2, a1}, {})}
  \cup {Scene(k, {d1, a1}, {d1, a1}) : k \in {"Conn", "EventConn"}}
=============================================================================
