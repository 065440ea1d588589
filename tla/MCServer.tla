------------------------------ MODULE MCServer ------------------------------
(* Server with two requests in flight at most: one may end while the other *)
(* goes on.                                                                *)
EXTENDS Server

CONSTANTS r1, r2, http, collector, tcp, m, none

MCRequests == {r1, r2}
MCIds == {http, collector, tcp}
=============================================================================
