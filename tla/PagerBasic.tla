----------------------------- MODULE PagerBasic -----------------------------
(***************************************************************************)
(* PA4/pager-basic.c as the pager of the simulator: it serves only the     *)
(* first active processor, one call of pageit being one step.              *)
(***************************************************************************)
EXTENDS Simulator

VARIABLE served   \* whether pageit has returned in this tick

basicVars == <<vars, served>>

BasicInit == Init /\ served = FALSE

ActiveProcs == {i \in Processors : processes[i] # NULL /\ active[processes[i]]}

\* Mutant: a processor that lacks its page is served first.
FirstWaiting ==
    CHOOSE i \in ActiveProcs :
        Resident(processes[i]) => \A k \in ActiveProcs : Resident(processes[k])

FirstActive == CHOOSE i \in ActiveProcs : \A k \in ActiveProcs : i <= k

\* The first page, not the wanted one, for which pageout returns TRUE: that
\* is so of a page that is already out, and then nothing moves.
Victims(i, page) == {p \in Pages \ {page} : PageoutReturns(i, p)}

EvictOther(i, page) ==
    IF Victims(i, page) = {}
    THEN UNCHANGED <<pages, pagesavail>>
    ELSE pageout(i, CHOOSE p \in Victims(i, page) :
                        \A r \in Victims(i, page) : p <= r)

Serve(i) ==
    LET page == Needed(processes[i])
    IN  \/ /\ Resident(processes[i])
           /\ UNCHANGED <<pages, pagesavail>>
        \/ /\ ~Resident(processes[i])
           /\ PageinReturns(i, page)
           /\ pagein(i, page)
        \/ /\ ~Resident(processes[i])
           /\ ~PageinReturns(i, page)
           /\ EvictOther(i, page)

pageit ==
    /\ phase = "pageit"
    /\ ~served
    /\ served' = TRUE
    /\ IF ActiveProcs = {} THEN UNCHANGED <<pages, pagesavail>>
                           ELSE Serve(FirstActive)
    /\ UNCHANGED <<processes, queueend, walk, pc, active, phase, turn>>

\* Mutant: the tick ends but pageit is not called again.
BasicEndTickServed == served /\ EndTick /\ UNCHANGED served

BasicEndTick == served /\ EndTick /\ served' = FALSE

BasicNext ==
    \/ allstep /\ UNCHANGED served
    \/ allage /\ UNCHANGED served
    \/ pageit
    \/ BasicEndTick
    \/ Ended /\ UNCHANGED served

\* One sequential program, which runs until it stops itself.
BasicSpec == BasicInit /\ [][BasicNext]_basicVars /\ WF_basicVars(BasicNext)

----------------------------------------------------------------------------
\* "This implementation never actually ends up having to swap out any pages"
\* (pa4.pdf, 3): so it is of every job whose pages all fit in the frames.
NeverSwapsOut ==
    \A j \in Jobs :
        Cardinality({walk[j][k] : k \in DOMAIN walk[j]}) <= PHYSICALPAGES =>
            \A p \in Pages : pages[j][p] >= 0 \/ pages[j][p] = OUT

\* "only one process is allocated pages at a time": when the first active
\* job ends it leaves no frame behind, and none was given to another job.
OneJobHolds == Cardinality({jp[1] : jp \in Held}) <= 1
=============================================================================
