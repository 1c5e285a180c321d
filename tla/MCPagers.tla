------------------------------ MODULE MCPagers ------------------------------
(* Three jobs on two processors with two frames.  Each pager gets walks    *)
(* that try it: the basic pager two that fit in the frames and one that    *)
(* makes it evict; the LRU pager some that come back to a page they left,  *)
(* so that the least recently used page is not always the lowest; the API  *)
(* test jobs that wait for the page that is tested, or for the other page, *)
(* which never comes.                                                      *)
EXTENDS Pagers

WalksOf ==
    [basic |-> {<<1>>, <<0, 1, 0>>, <<2, 1, 0, 2>>},
     lru   |-> {<<1>>, <<0, 1, 0>>, <<0, 1, 2, 0>>, <<1, 0, 0, 2, 0>>, <<2, 0, 2, 1, 0>>},
     api   |-> {<<0, 1>>, <<1, 0>>}]

MCWalks == UNION {WalksOf[p] : p \in DOMAIN WalksOf}

MCInit == PagersInit /\ walk \in [Jobs -> WalksOf[pager]]

MCSpec == MCInit /\ [][PagersNext]_pagersVars /\ WF_pagersVars(PagersNext)
=============================================================================
