---------------------------- MODULE PagerApiTest ----------------------------
(***************************************************************************)
(* PA4/api-test.c as the pager of the simulator: it sends one page in and  *)
(* out again, waits for each move to be seen in the state it is given, and *)
(* ends the program after some of them.  What it prints is left out.       *)
(***************************************************************************)
EXTENDS Simulator

CONSTANT MAXITERATIONS   \* moves before the test ends

VARIABLES tested,        \* whether pageit has returned in this tick
          outTestRun,    \* whether the page was sent in since it was out
          inTestRun,     \* whether the page was sent out since it was in
          iterations,    \* moves that were accepted
          testEnded      \* whether the test called exit

testVars == <<outTestRun, inTestRun, iterations>>
apiVars == <<vars, tested, testVars, testEnded>>

testProc == 0
testPage == 0

ApiInit ==
    /\ Init
    /\ tested = FALSE
    /\ outTestRun = FALSE /\ inTestRun = FALSE /\ iterations = 0
    /\ testEnded = FALSE

\* What q says of the page.
SwappedIn == processes[testProc] # NULL /\ StateOf(testProc, testPage) = 0

\* Mutant: the other test is not made ready.
InTestOnce ==
    /\ SwappedIn /\ ~inTestRun
    /\ pageout(testProc, testPage)
    /\ PageoutReturns(testProc, testPage)
    /\ inTestRun' = TRUE
    /\ iterations' = iterations + 1
    /\ UNCHANGED outTestRun

\* pagein, which changes nothing here as the page is in, and then pageout.
InTest ==
    /\ SwappedIn /\ ~inTestRun
    /\ pageout(testProc, testPage)
    /\ IF PageoutReturns(testProc, testPage)
       THEN /\ inTestRun' = TRUE /\ outTestRun' = FALSE
            /\ iterations' = iterations + 1
       ELSE UNCHANGED testVars

\* Mutant: the result of pagein is not looked at.
OutTestUnchecked ==
    /\ ~SwappedIn /\ ~outTestRun
    /\ pagein(testProc, testPage)
    /\ outTestRun' = TRUE /\ inTestRun' = FALSE
    /\ iterations' = iterations + 1

\* pageout, which changes nothing here as the page is not in, and then pagein,
\* again in every tick until the page is out and can be taken in.
OutTest ==
    /\ ~SwappedIn /\ ~outTestRun
    /\ pagein(testProc, testPage)
    /\ IF PageinReturns(testProc, testPage)
       THEN /\ outTestRun' = TRUE /\ inTestRun' = FALSE
            /\ iterations' = iterations + 1
       ELSE UNCHANGED testVars

\* The move asked for is still under way.
Wait ==
    /\ IF SwappedIn THEN inTestRun ELSE outTestRun
    /\ UNCHANGED <<pages, pagesavail, testVars>>

test_pageit ==
    /\ phase = "pageit" /\ ~tested
    /\ InTest \/ OutTest \/ Wait
    /\ testEnded' = (iterations' > MAXITERATIONS)
    /\ tested' = TRUE
    /\ UNCHANGED <<processes, queueend, walk, pc, active, phase, turn>>

ApiEndTick == tested /\ EndTick /\ tested' = FALSE

ApiNext ==
    \/ /\ ~testEnded
       /\ \/ allstep /\ UNCHANGED <<tested, testVars, testEnded>>
          \/ allage /\ UNCHANGED <<tested, testVars, testEnded>>
          \/ test_pageit
          \/ ApiEndTick /\ UNCHANGED <<testVars, testEnded>>
    \/ testEnded /\ UNCHANGED apiVars

\* One sequential program, which runs until it stops itself.
ApiSpec == ApiInit /\ [][ApiNext]_apiVars /\ WF_apiVars(ApiNext)

----------------------------------------------------------------------------
\* What the test remembers is where the page is: after a pagein that returned
\* TRUE it comes or is in, after such a pageout it goes or is out, and the moves
\* alternate.  The results of the two are all the test knows this by; it never
\* sees a page that is under way.  No other page is asked for, and this one is
\* sent out in the very tick in which it came in, so that no statement is
\* executed and the test never meets a job that ends.
TestTracksPage ==
    LET n == pages[0][testPage]
    IN  /\ ~(outTestRun /\ inTestRun)
        /\ outTestRun => n >= 0
        /\ inTestRun => n < 0
        /\ outTestRun <=> iterations % 2 = 1
        /\ pagesavail = PHYSICALPAGES - (IF Holds(n) THEN 1 ELSE 0)
        /\ phase = "allstep" => n # 0
        /\ \A j \in Jobs : pc[j] = 1 /\ active[j]

\* The test comes to its end.
TestExits == <>testEnded
=============================================================================
