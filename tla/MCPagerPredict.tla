--------------------------- MODULE MCPagerPredict ---------------------------
(* The history keeps three accesses, so that a page drops out of the       *)
(* working set after three ticks.  The limits are to PAGEWAIT as in the    *)
(* code.                                                                   *)
EXTENDS PagerPredict

MCWalks == {<<1>>, <<0, 1, 0, 2>>, <<0, 1, 2, 2, 2, 3, 0>>, <<0, 1, 1, 1, 1, 1, 1, 2>>}

\* Three jobs with these want another page in the same tick.
MCLongWalks == {<<0, 1, 2, 2, 2, 2, 3, 0>>, <<0, 0, 0, 0, 0, 0, 0, 0, 0, 0, 1>>}
=============================================================================
