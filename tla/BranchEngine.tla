---------------------------- MODULE BranchEngine ----------------------------
(***************************************************************************)
(* PA4/simulator.c, the branch engine: which statements a job executes.    *)
(* process_load draws the decisions of every branch ahead; process_step    *)
(* executes the statement at the program counter once its page is          *)
(* resident, which is taken for granted here.  The pages of the statements *)
(* executed are the walks of Simulator.                                    *)
(*                                                                         *)
(* Probabilities are choices.  A branch of kind IF is taken and passed for *)
(* runs of lengths up to MaxRun; its probability is neither 0 nor 1, or    *)
(* bcontext_init would not end.  bcontext_init also writes brings[         *)
(* MAXBRINGS] of an IF, which is the kind of the next context; that is     *)
(* initialised next, or belongs to no branch, and is not read again.       *)
(***************************************************************************)
EXTENDS Integers, Sequences

CONSTANTS Programs,    \* what may be loaded
          MAXBRINGS,   \* the number of runs drawn for a branch
          MaxRun       \* bound on the runs of an IF

ASSUME SizesAssumption ==
    /\ MAXBRINGS \in Nat \ {0} /\ MAXBRINGS % 2 = 0
    /\ MaxRun \in Nat \ {0}

\* Branches and exits are in the order of their statements, the last
\* statement is an exit, and a loop goes back at least once.
ASSUME ProgramsAssumption ==
    \A p \in Programs :
        /\ p.size \in Nat \ {0}
        /\ p.branches \in Seq([wherefrom : 0 .. p.size - 2, whereto : 0 .. p.size - 1,
                               btype : {"GOTO", "FOR", "NFOR", "IF"},
                               min : Nat, max : Nat])
        /\ \A k \in DOMAIN p.branches :
              p.branches[k].btype \in {"FOR", "NFOR"} => p.branches[k].min > 0
        /\ \A k, m \in DOMAIN p.branches :
              k < m => p.branches[k].wherefrom < p.branches[m].wherefrom
        /\ p.exits \in Seq(Nat)
        /\ \A k, m \in DOMAIN p.exits : k < m => p.exits[k] < p.exits[m]
        /\ p.exits # <<>> /\ p.exits[Len(p.exits)] = p.size - 1

VARIABLES program,    \* the program loaded
          contexts,   \* the state of the decisions of each branch
          pc,         \* the program counter
          exited,     \* whether process_step returned FALSE
          same        \* history: the last decision of each branch, and how
                      \* many times in a row it was the same

vars == <<program, contexts, pc, exited, same>>

----------------------------------------------------------------------------
(* The tables of a program, indexed from 0 *)

\* What lies beyond the table of the branches, or of the exits, was never set:
\* it is 0.  Without branches max is -1 and the entry before the table is read as
\* well (simulator.c:387).  C does not define that; it is taken as 0 too, which is
\* what is there in memory: an unset entry of the exits of the program before.
KeyAt(keys, n) == IF n + 1 \in DOMAIN keys THEN keys[n + 1] ELSE 0

\* What is left of the table: <<min, max>>.
Lefts(keys) == (0 .. Len(keys)) \X (-1 .. Len(keys))

\* Mutant: the upper half is searched from the statement after the middle.
HalveOff(keys, at) ==
    [left \in Lefts(keys) |->
        LET mid == (left[1] + left[2]) \div 2
        IN  IF left[1] + 1 >= left[2] THEN left
            ELSE IF at = KeyAt(keys, mid) THEN <<mid, mid>>
            ELSE IF at < KeyAt(keys, mid) THEN <<left[1], mid - 1>>
            ELSE <<mid + 1, left[2] - 1>>]

\* One turn of the binary search; the statement is found when its entry alone
\* is left.
Halve(keys, at) ==
    [left \in Lefts(keys) |->
        LET mid == (left[1] + left[2]) \div 2
        IN  IF left[1] + 1 >= left[2] THEN left
            ELSE IF at = KeyAt(keys, mid) THEN <<mid, mid>>
            ELSE IF at < KeyAt(keys, mid) THEN <<left[1], mid>>
            ELSE <<mid, left[2]>>]

\* What is left when the search ends; it takes no more turns than the table
\* has entries.
Narrowed(keys, at) ==
    LET after[turn \in 0 .. Len(keys)] ==
          IF turn = 0 THEN <<0, Len(keys) - 1>> ELSE Halve(keys, at)[after[turn - 1]]
    IN  after[Len(keys)]

\* The entry of the table for statement at, or -1.
Lookup(keys, at) ==
    LET left == Narrowed(keys, at)
    IN  IF at = KeyAt(keys, left[1]) THEN left[1]
        ELSE IF at = KeyAt(keys, left[2]) THEN left[2]
        ELSE -1

Wherefroms == [k \in DOMAIN program.branches |-> program.branches[k].wherefrom]

\* The zeroes beyond the table are a branch from 0 to 0.
BranchAt(k) ==
    IF k + 1 \in DOMAIN program.branches THEN program.branches[k + 1]
    ELSE [wherefrom |-> 0, whereto |-> 0, btype |-> "GOTO", min |-> 0, max |-> 0]

----------------------------------------------------------------------------
(* Decisions drawn ahead *)

Runs == 0 .. MAXBRINGS - 1

Context(bsize, bvalue, brings) ==
    [boffset |-> 0, bsize |-> bsize, bvalue |-> bvalue, bcount |-> 0,
     brings |-> brings]

FirstOnly(n) == [r \in Runs |-> IF r = 0 THEN n ELSE 0]

bcontext_clear == Context(1, TRUE, FirstOnly(1))

\* How many times a loop may go back.
Turns(b) == IF b.max > b.min THEN b.min .. b.max - 1 ELSE {b.min}

\* Whether a loop turns by branching, or by passing.
TurnsBack(b) == b.btype = "FOR"

\* The runs of a loop: some turns, then one decision the other way.
LoopRuns(b) ==
    {brings \in [Runs -> Turns(b) \cup {1}] :
        \A r \in Runs : IF r % 2 = 0 THEN brings[r] \in Turns(b) ELSE brings[r] = 1}

Forever == 2147483647

\* The contexts a branch may be given.
bcontext_init(b) ==
    IF b.btype = "GOTO" THEN {Context(1, TRUE, FirstOnly(Forever))}
    ELSE IF b.btype = "IF"
         THEN {Context(MAXBRINGS, value, brings) :
                  value \in BOOLEAN, brings \in [Runs -> 1 .. MaxRun]}
         ELSE {Context(MAXBRINGS, TurnsBack(b), brings) : brings \in LoopRuns(b)}

\* The next run of decisions begins: they go the other way.
NextRun(c) ==
    [c EXCEPT !.boffset = (@ + 1) % c.bsize, !.bcount = 0, !.bvalue = ~@]

\* Mutants: the run ends one decision late, or the runs do not wrap around.
DecidedLate(c) ==
    IF c.bcount + 1 > c.brings[c.boffset] THEN NextRun(c)
    ELSE [c EXCEPT !.bcount = @ + 1]
DecidedUnwrapped(c) ==
    IF c.bcount + 1 >= c.brings[c.boffset]
    THEN [c EXCEPT !.boffset = @ + 1, !.bcount = 0, !.bvalue = ~@]
    ELSE [c EXCEPT !.bcount = @ + 1]

\* What bcontext_decide leaves; it returns bvalue.
Decided(c) ==
    IF c.bcount + 1 >= c.brings[c.boffset] THEN NextRun(c)
    ELSE [c EXCEPT !.bcount = @ + 1]

----------------------------------------------------------------------------
(* process_load and process_step *)

\* The contexts that matter; without branches the first, only cleared, does.
Contexts == 0 .. (IF program.branches = <<>> THEN 0 ELSE Len(program.branches) - 1)

Init ==
    /\ program \in Programs
    /\ contexts \in [Contexts -> UNION {bcontext_init(BranchAt(k)) : k \in Contexts}
                                 \cup {bcontext_clear}]
    /\ \A k \in Contexts :
          IF program.branches = <<>> THEN contexts[k] = bcontext_clear
          ELSE contexts[k] \in bcontext_init(BranchAt(k))
    /\ pc = 0
    /\ exited = FALSE
    /\ same = [k \in Contexts |-> [taken |-> contexts[k].bvalue, times |-> 0]]

AtExit == Lookup(program.exits, pc) # -1
BranchHere == Lookup(Wherefroms, pc)

Exit ==
    /\ ~exited /\ AtExit
    /\ exited' = TRUE
    /\ UNCHANGED <<program, contexts, pc, same>>

Again(k) ==
    [taken |-> contexts[k].bvalue,
     times |-> IF same[k].taken = contexts[k].bvalue THEN same[k].times + 1 ELSE 1]

process_dobranch(k) ==
    /\ contexts' = [contexts EXCEPT ![k] = Decided(@)]
    /\ same' = [same EXCEPT ![k] = Again(k)]
    /\ LET next == IF contexts[k].bvalue THEN BranchAt(k).whereto ELSE pc + 1
       IN  pc' = IF next \in 0 .. program.size - 1 THEN next ELSE 0

Branch ==
    /\ ~exited /\ ~AtExit
    /\ BranchHere # -1
    /\ process_dobranch(BranchHere)
    /\ UNCHANGED <<program, exited>>

\* Mutant: the restart comes one statement before the end.
AdvanceShort ==
    /\ ~exited /\ ~AtExit
    /\ BranchHere = -1
    /\ pc' = IF pc + 1 >= program.size - 1 THEN 0 ELSE pc + 1
    /\ UNCHANGED <<program, contexts, exited, same>>

\* The default action.
Advance ==
    /\ ~exited /\ ~AtExit
    /\ BranchHere = -1
    /\ pc' = IF pc + 1 > program.size THEN 0 ELSE pc + 1
    /\ UNCHANGED <<program, contexts, exited, same>>

Ended == exited /\ UNCHANGED vars

Next == Exit \/ Branch \/ Advance \/ Ended

Spec == Init /\ [][Next]_vars

\* The simulator goes on, and the pager lets the job run.
FairSpec == Spec /\ WF_vars(Next)

----------------------------------------------------------------------------
\* The types of the variables.  The program counter stays in the program, so
\* that its page is one of the job's (simulator.c:333-337).
TypeOK ==
    /\ program \in Programs
    /\ contexts \in [Contexts -> [boffset : Runs, bsize : {1, MAXBRINGS},
                                  bvalue : BOOLEAN, bcount : Nat,
                                  brings : [Runs -> Nat]]]
    /\ pc \in 0 .. program.size - 1
    /\ exited \in BOOLEAN
    /\ same \in [Contexts -> [taken : BOOLEAN, times : Nat]]

\* The two binary searches of process_step find the entry of a statement if
\* there is one, and nothing otherwise.  Empty tables are exempt: what the search
\* finds in one is the subject of EntirelyLinear.
SearchFinds ==
    \A keys \in {program.exits, Wherefroms} : keys # <<>> =>
        \A at \in 0 .. program.size - 1 :
            LET found == Lookup(keys, at)
            IN  IF \E k \in DOMAIN keys : keys[k] = at
                THEN found + 1 \in DOMAIN keys /\ keys[found + 1] = at
                ELSE found = -1

\* How often in a row branch b may branch (taken), or pass.
RunLengths(b, taken) ==
    IF b.btype = "GOTO" THEN {Forever}
    ELSE IF taken = (b.btype = "FOR") THEN Turns(b) ELSE {1}

\* A FOR goes back as many times as its bounds allow and then passes once, and
\* a NFOR passes and then branches once, also when the loop is entered again
\* and its runs are used up.  A GOTO branches, "forever" (simulator.c:190),
\* which is 2147483647 times.
BranchesAsDrawn ==
    [][\A k \in Contexts :
          LET b == BranchAt(k)
              was == same[k]
              is == same'[k]
          IN  program.branches # <<>> /\ b.btype # "IF" /\ is # was =>
                /\ was.times = 0 => is.taken = (b.btype # "NFOR")
                /\ is.taken # was.taken => was.times \in RunLengths(b, was.taken)
                /\ \E n \in RunLengths(b, is.taken) : is.times <= n
      ]_vars

\* Every job comes to its exit: process_step does not wander for ever.
JobExits == <>exited

\* A program without branches is "entirely linear" (pgm4.pseudo:1): each step
\* executes the next statement.
EntirelyLinear ==
    [][program.branches = <<>> /\ ~exited' => pc' = pc + 1]_vars
=============================================================================
