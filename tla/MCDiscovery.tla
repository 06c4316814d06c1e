------------------------------ MODULE MCDiscovery ------------------------------
(* Discovery for TLC: a folder with a directory in it and one in that, and *)
(* a folder beside it.                                                     *)
EXTENDS Discovery

CONSTANTS a, b, c, d

Nested == {<<b, a>>, <<c, b>>, <<c, a>>}
Flat   == {}
===============================================================================
