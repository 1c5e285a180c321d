------------------------------- MODULE Pagers -------------------------------
(***************************************************************************)
(* The programs of PA4/Makefile whose pager keeps no history: the          *)
(* simulator linked with the basic pager, the LRU pager or the API test.   *)
(* The variables of the pagers that are not linked never change.           *)
(***************************************************************************)
EXTENDS PagerBasic, PagerLru, PagerApiTest

VARIABLE pager   \* the one the program is linked with

basicOnly == <<served>>
lruOnly == <<timestamps, tick, proc, exited, lastUse>>
apiOnly == <<tested, testVars, testEnded>>
pagersVars == <<vars, basicOnly, lruOnly, apiOnly, pager>>

PagersInit == pager \in {"basic", "lru", "api"} /\ BasicInit /\ LruInit /\ ApiInit

PagersNext ==
    /\ \/ pager = "basic" /\ BasicNext /\ UNCHANGED <<lruOnly, apiOnly>>
       \/ pager = "lru" /\ LruNext /\ UNCHANGED <<basicOnly, apiOnly>>
       \/ pager = "api" /\ ApiNext /\ UNCHANGED <<basicOnly, lruOnly>>
    /\ UNCHANGED pager

\* Each of the three is one sequential program, which runs until it stops itself.
PagersSpec == PagersInit /\ [][PagersNext]_pagersVars /\ WF_pagersVars(PagersNext)

----------------------------------------------------------------------------
\* The program with the basic pager never swaps out pages of a job whose pages
\* fit in the frames.
BasicNeverSwapsOut == pager = "basic" => NeverSwapsOut

\* In the program with the basic pager one job at a time holds frames.
BasicOneJobHolds == pager = "basic" => OneJobHolds

\* In the program with the API test, what the test remembers is where its page is.
ApiTracksPage == pager = "api" => TestTracksPage

\* Under the basic pager every job ends, if no job has more than one page beyond
\* the frames.  With two beyond, pageout may succeed for ever on a lower page that
\* is out already (pager-basic.c:42-48), and the job waits.
BasicJobsEnd == pager = "basic" => AllJobsEnd

\* Under the LRU pager every job ends.
LruJobsEnd == pager = "lru" => AllJobsEnd

\* The API test comes to its end.
ApiTestExits == pager = "api" => TestExits
=============================================================================
