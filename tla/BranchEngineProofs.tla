------------------------- MODULE BranchEngineProofs -------------------------
(***************************************************************************)
(* Proofs about the branch engine: the binary searches of process_step     *)
(* find what they look for in every table, the program counter stays in    *)
(* the program, and every branch decides as its kind and bounds say,       *)
(* however long the job runs.                                              *)
(***************************************************************************)
EXTENDS BranchEngine, WellFoundedInduction, TLAPS

----------------------------------------------------------------------------
(* Induction *)

\* A set of natural numbers has a least one.
LEMMA LeastNat ==
    ASSUME NEW S \in SUBSET Nat, S # {}
    PROVE  \E n \in S : \A m \in S : n <= m
<1>1. PICK R : R = OpToRel(<, Nat)
  OBVIOUS
<1>2. IsWellFoundedOn(R, Nat)
  BY <1>1, NatLessThanWellFounded
<1>3. PICK n \in S : \A m \in S : ~(<<m, n>> \in R)
  BY <1>2, WFMin
<1>4. \A m, k \in Nat : m < k => <<m, k>> \in R
  BY <1>1 DEF OpToRel
<1>5. S \subseteq Nat
  OBVIOUS
<1>6. \A m \in S : ~(m < n)
  BY <1>3, <1>4, <1>5
<1> QED
  BY <1>5, <1>6

----------------------------------------------------------------------------
(* The binary search *)

\* The tables that are searched: their keys grow.
Tables == {keys \in Seq(Nat) : keys # <<>>
                               /\ \A k, m \in DOMAIN keys : k < m => keys[k] < keys[m]}

\* The turns of a search, up to some number of them.
Turned(keys, at, f, last) ==
    f = [turn \in 0 .. last |->
            IF turn = 0 THEN <<0, Len(keys) - 1>> ELSE Halve(keys, at)[f[turn - 1]]]

\* However many turns there are, what each leaves is defined.
LEMMA TurnsDefined ==
    ASSUME NEW keys, NEW at, NEW last \in Nat
    PROVE  \E f : Turned(keys, at, f, last)
<1> DEFINE first == <<0, Len(keys) - 1>>
           then(left) == Halve(keys, at)[left]
           Undefined == {d \in Nat : ~\E f : Turned(keys, at, f, d)}
<1>1. SUFFICES ASSUME Undefined # {} PROVE FALSE
  OBVIOUS
<1>2. PICK d \in Undefined : \A e \in Undefined : d <= e
  BY <1>1, LeastNat
<1>3. d \in Nat /\ ~\E f : Turned(keys, at, f, d)
  BY <1>2
<1>4. CASE d = 0
  <2> DEFINE f == [turn \in 0 .. 0 |-> first]
  <2>1. f = [turn \in 0 .. 0 |-> IF turn = 0 THEN first ELSE then(f[turn - 1])]
    OBVIOUS
  <2> QED
    BY <1>3, <1>4, <2>1 DEF Turned
<1>5. CASE d # 0
  <2>1. d - 1 \in Nat /\ ~(d <= d - 1)
    BY <1>3, <1>5
  <2> HIDE DEF Undefined
  <2>2. d - 1 \notin Undefined
    BY <1>2, <2>1
  <2> USE DEF Undefined
  <2>3. PICK g : Turned(keys, at, g, d - 1)
    BY <2>1, <2>2
  <2>4. g = [turn \in 0 .. d - 1 |-> IF turn = 0 THEN first ELSE then(g[turn - 1])]
    BY <2>3 DEF Turned
  <2> HIDE DEF first, then
  <2> DEFINE f == [turn \in 0 .. d |-> IF turn = d THEN then(g[d - 1]) ELSE g[turn]]
  <2>5. \A turn \in 0 .. d - 1 :
           f[turn] = IF turn = 0 THEN first ELSE then(g[turn - 1])
    BY <1>3, <2>4
  <2>6. \A turn \in 0 .. d : turn # 0 => turn - 1 \in 0 .. d - 1 /\ turn - 1 # d /\ turn - 1 \in 0 .. d
    BY <1>3
  <2>7. \A turn \in 0 .. d : turn # 0 => f[turn - 1] = g[turn - 1]
    BY <2>6
  <2>8. \A turn \in 0 .. d : turn # d => turn \in 0 .. d - 1
    BY <1>3
  <2>9. \A turn \in 0 .. d : f[turn] = IF turn = 0 THEN first ELSE then(f[turn - 1])
    <3> TAKE turn \in 0 .. d
    <3>1. CASE turn = d
      BY <1>5, <2>7, <3>1
    <3>2. CASE turn # d
      BY <2>5, <2>7, <2>8, <3>2
    <3> QED
      BY <3>1, <3>2
  <2>10. f = [turn \in 0 .. d |-> IF turn = 0 THEN first ELSE then(f[turn - 1])]
    <3> DEFINE h == [turn \in 0 .. d |-> IF turn = 0 THEN first ELSE then(f[turn - 1])]
    <3>1. \A turn \in 0 .. d : f[turn] = h[turn]
      BY <2>9
    <3>2. f = [turn \in 0 .. d |-> f[turn]]
      OBVIOUS
    <3>3. h = [turn \in 0 .. d |-> h[turn]]
      OBVIOUS
    <3> HIDE DEF f, h
    <3>4. f = h
      BY <3>1, <3>2, <3>3
    <3> QED
      BY <3>4 DEF h
  <2> USE DEF first, then
  <2>11. Turned(keys, at, f, d)
    BY <2>10 DEF Turned
  <2> QED
    BY <1>3, <2>11
<1> QED
  BY <1>4, <1>5

\* What a turn leaves has an entry, is within the table, and is smaller than
\* what it was given unless that was only two; the entry sought is not lost.
Within(keys, at, left, rest) ==
    /\ left[1] \in 0 .. Len(keys) - 1 /\ left[2] \in 0 .. Len(keys) - 1
    /\ left = <<left[1], left[2]>>
    /\ left[1] <= left[2]
    /\ left[2] - left[1] <= rest \/ left[2] - left[1] <= 1
    /\ \A k \in DOMAIN keys : keys[k] = at => left[1] + 1 <= k /\ k <= left[2] + 1

LEMMA HalveNarrows ==
    ASSUME NEW keys \in Tables, NEW at \in Nat, NEW left, NEW rest \in Int,
           Within(keys, at, left, rest)
    PROVE  Within(keys, at, Halve(keys, at)[left], rest - 1)
<1>1. PICK min, max : min = left[1] /\ max = left[2]
  OBVIOUS
<1>2. /\ min \in 0 .. Len(keys) - 1 /\ max \in 0 .. Len(keys) - 1
      /\ left = <<min, max>> /\ min <= max
      /\ max - min <= rest \/ max - min <= 1
      /\ \A k \in DOMAIN keys : keys[k] = at => min + 1 <= k /\ k <= max + 1
  BY <1>1 DEF Within
<1>3. /\ keys \in Seq(Nat) /\ Len(keys) \in Nat /\ DOMAIN keys = 1 .. Len(keys)
      /\ \A k \in DOMAIN keys : keys[k] \in Nat
      /\ \A k, m \in DOMAIN keys : k < m => keys[k] < keys[m]
  BY DEF Tables
<1>4. left \in Lefts(keys)
  BY <1>2, <1>3 DEF Lefts
<1>5. PICK mid : mid = (min + max) \div 2
  OBVIOUS
<1>6. PICK next : next = Halve(keys, at)[left]
  OBVIOUS
<1>7. next = IF min + 1 >= max THEN left
             ELSE IF at = KeyAt(keys, mid) THEN <<mid, mid>>
             ELSE IF at < KeyAt(keys, mid) THEN <<min, mid>>
             ELSE <<mid, max>>
  BY <1>1, <1>4, <1>5, <1>6 DEF Halve
<1>8. CASE min + 1 >= max
  BY <1>2, <1>3, <1>6, <1>7, <1>8 DEF Within
<1>9. CASE ~(min + 1 >= max)
  <2>1. mid \in Int /\ min < mid /\ mid < max
    BY <1>2, <1>3, <1>5, <1>9
  <2>2. mid \in 0 .. Len(keys) - 1 /\ mid + 1 \in DOMAIN keys
    BY <1>2, <1>3, <2>1
  <2>3. KeyAt(keys, mid) = keys[mid + 1] /\ keys[mid + 1] \in Nat
    BY <1>3, <2>2 DEF KeyAt
  <2>4. \A k \in DOMAIN keys : /\ k < mid + 1 => keys[k] < keys[mid + 1]
                               /\ mid + 1 < k => keys[mid + 1] < keys[k]
    BY <1>3, <2>2
  <2>5. CASE at = keys[mid + 1]
    <3>1. next = <<mid, mid>>
      BY <1>7, <1>9, <2>3, <2>5
    <3>2. \A k \in DOMAIN keys : keys[k] = at => k = mid + 1
      BY <1>3, <2>2, <2>4, <2>5
    <3> QED
      BY <1>3, <1>6, <2>2, <3>1, <3>2 DEF Within
  <2>6. CASE at < keys[mid + 1]
    <3>1. next = <<min, mid>>
      BY <1>7, <1>9, <2>3, <2>6
    <3>2. \A k \in DOMAIN keys : keys[k] = at => min + 1 <= k /\ k <= mid + 1
      <4> SUFFICES ASSUME NEW k \in DOMAIN keys, keys[k] = at
                   PROVE  min + 1 <= k /\ k <= mid + 1
        OBVIOUS
      <4>1. k \in Nat /\ keys[k] \in Nat
        BY <1>3
      <4>2. ~(mid + 1 < k)
        BY <2>3, <2>4, <2>6, <4>1
      <4> QED
        BY <1>2, <2>1, <4>1, <4>2
    <3>3. next[1] = min /\ next[2] = mid
      BY <3>1
    <3>4. min <= mid /\ (mid - min <= rest - 1 \/ mid - min <= 1)
      BY <1>2, <1>3, <2>1
    <3> QED
      BY <1>2, <1>6, <2>2, <3>1, <3>2, <3>3, <3>4 DEF Within
  <2>7. CASE keys[mid + 1] < at
    <3>1. next = <<mid, max>>
      BY <1>7, <1>9, <2>3, <2>7
    <3>2. \A k \in DOMAIN keys : keys[k] = at => mid + 1 <= k /\ k <= max + 1
      <4> SUFFICES ASSUME NEW k \in DOMAIN keys, keys[k] = at
                   PROVE  mid + 1 <= k /\ k <= max + 1
        OBVIOUS
      <4>1. k \in Nat /\ keys[k] \in Nat
        BY <1>3
      <4>2. ~(k < mid + 1)
        BY <2>3, <2>4, <2>7, <4>1
      <4> QED
        BY <1>2, <2>1, <4>1, <4>2
    <3>3. next[1] = mid /\ next[2] = max
      BY <3>1
    <3>4. mid <= max /\ (max - mid <= rest - 1 \/ max - mid <= 1)
      BY <1>2, <1>3, <2>1
    <3> QED
      BY <1>2, <1>6, <2>2, <3>1, <3>2, <3>3, <3>4 DEF Within
  <2> QED
    BY <2>3, <2>5, <2>6, <2>7
<1> QED
  BY <1>8, <1>9

\* Every turn leaves less, so that at the end one or two entries are left.
LEMMA TurnsNarrow ==
    ASSUME NEW keys \in Tables, NEW at \in Nat, NEW f,
           Turned(keys, at, f, Len(keys)),
           NEW turn \in 0 .. Len(keys)
    PROVE  Within(keys, at, f[turn], Len(keys) - 1 - turn)
<1> DEFINE size == Len(keys)
           Wrong == {t \in 0 .. size : ~Within(keys, at, f[t], size - 1 - t)}
<1>1. /\ size \in Nat \ {0} /\ DOMAIN keys = 1 .. size
  BY DEF Tables
<1>2. SUFFICES ASSUME Wrong # {} PROVE FALSE
  OBVIOUS
<1>3. PICK n \in Wrong : \A m \in Wrong : n <= m
  <2>1. Wrong \in SUBSET Nat
    BY <1>1
  <2> HIDE DEF Wrong
  <2> QED
    BY <1>2, <2>1, LeastNat
<1>4. n \in 0 .. size /\ ~Within(keys, at, f[n], size - 1 - n)
  BY <1>3
<1>5. f[n] = IF n = 0 THEN <<0, size - 1>> ELSE Halve(keys, at)[f[n - 1]]
  BY <1>4 DEF Turned
<1>6. CASE n = 0
  <2>1. f[n] = <<0, size - 1>> /\ f[n][1] = 0 /\ f[n][2] = size - 1
    BY <1>5, <1>6
  <2>2. \A k \in DOMAIN keys : 0 + 1 <= k /\ k <= size - 1 + 1
    BY <1>1
  <2> QED
    BY <1>1, <1>4, <1>6, <2>1, <2>2 DEF Within
<1>7. CASE n # 0
  <2>1. n - 1 \in 0 .. size /\ ~(n <= n - 1)
    BY <1>1, <1>4, <1>7
  <2> HIDE DEF Wrong
  <2>2. n - 1 \notin Wrong
    BY <1>3, <2>1
  <2> USE DEF Wrong
  <2>3. Within(keys, at, f[n - 1], size - 1 - (n - 1))
    BY <2>1, <2>2
  <2>4. size - 1 - (n - 1) \in Int /\ size - 1 - (n - 1) - 1 = size - 1 - n
    BY <1>1, <1>4
  <2> HIDE DEF size
  <2>5. Within(keys, at, Halve(keys, at)[f[n - 1]], size - 1 - n)
    BY <2>3, <2>4, HalveNarrows
  <2> QED
    BY <1>4, <1>5, <1>7, <2>5
<1> QED
  BY <1>6, <1>7

\* The binary search finds the entry of a statement if there is one, and
\* nothing otherwise, in every table whose keys grow.
LEMMA LookupFinds ==
    ASSUME NEW keys \in Tables, NEW at \in Nat
    PROVE  /\ Lookup(keys, at) \in -1 .. Len(keys) - 1
           /\ IF \E k \in DOMAIN keys : keys[k] = at
              THEN /\ Lookup(keys, at) + 1 \in DOMAIN keys
                   /\ keys[Lookup(keys, at) + 1] = at
              ELSE Lookup(keys, at) = -1
<1>1. /\ Len(keys) \in Nat \ {0} /\ DOMAIN keys = 1 .. Len(keys)
  BY DEF Tables
<1> DEFINE after == CHOOSE f : Turned(keys, at, f, Len(keys))
<1>2. Turned(keys, at, after, Len(keys))
  BY <1>1, TurnsDefined
<1>3. Narrowed(keys, at) = after[Len(keys)]
  BY DEF Narrowed, Turned
<1> HIDE DEF after
<1>4. Len(keys) \in 0 .. Len(keys)
  BY <1>1
<1>5. Within(keys, at, after[Len(keys)], Len(keys) - 1 - Len(keys))
  BY <1>2, <1>4, TurnsNarrow
<1>6. PICK min, max : min = Narrowed(keys, at)[1] /\ max = Narrowed(keys, at)[2]
  OBVIOUS
<1>7. /\ min \in 0 .. Len(keys) - 1 /\ max \in 0 .. Len(keys) - 1
      /\ max - min <= 1
      /\ \A k \in DOMAIN keys : keys[k] = at => min + 1 <= k /\ k <= max + 1
  BY <1>1, <1>3, <1>5, <1>6 DEF Within
<1>8. /\ min + 1 \in DOMAIN keys /\ max + 1 \in DOMAIN keys
      /\ KeyAt(keys, min) = keys[min + 1] /\ KeyAt(keys, max) = keys[max + 1]
  BY <1>1, <1>7 DEF KeyAt
<1>9. Lookup(keys, at) = IF at = keys[min + 1] THEN min
                         ELSE IF at = keys[max + 1] THEN max ELSE -1
  BY <1>6, <1>8 DEF Lookup
<1>10. \A k \in DOMAIN keys : keys[k] = at => k = min + 1 \/ k = max + 1
  BY <1>1, <1>7
<1>11. CASE at = keys[min + 1]
  BY <1>1, <1>7, <1>8, <1>9, <1>11
<1>12. CASE at # keys[min + 1] /\ at = keys[max + 1]
  BY <1>1, <1>7, <1>8, <1>9, <1>12
<1>13. CASE at # keys[min + 1] /\ at # keys[max + 1]
  <2>1. Lookup(keys, at) = -1
    BY <1>9, <1>13
  <2>2. ~\E k \in DOMAIN keys : keys[k] = at
    BY <1>10, <1>13
  <2> QED
    BY <1>1, <2>1, <2>2
<1> QED
  BY <1>11, <1>12, <1>13

----------------------------------------------------------------------------
(* The programs *)

\* The constants, without division.
LEMMA Sizes ==
    /\ MAXBRINGS \in Nat /\ MAXBRINGS >= 2 /\ MAXBRINGS % 2 = 0
    /\ MaxRun \in Nat \ {0}
    /\ 0 \in Runs /\ Runs \subseteq Nat
  BY SizesAssumption DEF Runs

LEMMA SeqEntries ==
    ASSUME NEW S, NEW seq \in Seq(S)
    PROVE  /\ Len(seq) \in Nat /\ DOMAIN seq = 1 .. Len(seq)
           /\ \A k \in DOMAIN seq : seq[k] \in S
  OBVIOUS

\* What the table of branches holds.
Entries == [wherefrom : 0 .. program.size - 2, whereto : 0 .. program.size - 1,
            btype : {"GOTO", "FOR", "NFOR", "IF"}, min : Nat, max : Nat]

LEMMA ForeverIsNat == Forever \in Nat \ {0}
  BY SMT DEF Forever

\* The tables of a program can be searched; the last statement is an exit.
LEMMA ProgramTables ==
    ASSUME program \in Programs
    PROVE  /\ program.size \in Nat \ {0}
           /\ program.exits \in Tables
           /\ program.exits[Len(program.exits)] = program.size - 1
           /\ Len(program.exits) \in DOMAIN program.exits
           /\ program.branches \in Seq(Entries)
           /\ \A k \in DOMAIN program.branches : program.branches[k] \in Entries
           /\ program.branches # <<>> => Wherefroms \in Tables
           /\ Len(Wherefroms) = Len(program.branches)
           /\ DOMAIN Wherefroms = DOMAIN program.branches
<1> DEFINE branches == program.branches
<1>1. /\ program.size \in Nat \ {0}
      /\ branches \in Seq(Entries)
      /\ \A k, m \in DOMAIN branches :
            k < m => branches[k].wherefrom < branches[m].wherefrom
      /\ program.exits \in Seq(Nat)
      /\ \A k, m \in DOMAIN program.exits :
            k < m => program.exits[k] < program.exits[m]
      /\ program.exits # <<>>
      /\ program.exits[Len(program.exits)] = program.size - 1
  BY ProgramsAssumption DEF Entries
<1>2. program.exits \in Tables /\ Len(program.exits) \in DOMAIN program.exits
  BY <1>1 DEF Tables
<1>3. /\ Len(branches) \in Nat /\ DOMAIN branches = 1 .. Len(branches)
      /\ \A k \in DOMAIN branches : branches[k] \in Entries
  <2>1. branches \in Seq(Entries)
    BY <1>1
  <2> HIDE DEF branches
  <2> QED
    BY <2>1, SeqEntries
<1>4. \A k \in DOMAIN branches : branches[k].wherefrom \in Nat
  <2>1. \A e \in Entries : e.wherefrom \in 0 .. program.size - 2
    BY DEF Entries
  <2>2. 0 .. program.size - 2 \subseteq Nat
    OBVIOUS
  <2> HIDE DEF branches
  <2> QED
    BY <1>3, <2>1, <2>2
<1>5. /\ Wherefroms = [k \in 1 .. Len(branches) |-> branches[k].wherefrom]
      /\ \A k \in 1 .. Len(branches) : Wherefroms[k] = branches[k].wherefrom
  BY <1>3 DEF Wherefroms
<1>6. /\ DOMAIN Wherefroms = 1 .. Len(branches)
      /\ \A k \in 1 .. Len(branches) : Wherefroms[k] \in Nat
  BY <1>3, <1>5, <1>4
<1>7. Wherefroms \in Seq(Nat) /\ Len(Wherefroms) = Len(branches)
  BY <1>3, <1>5, <1>6
<1>8. branches # <<>> => Len(branches) # 0
  BY <1>1
<1>9. branches # <<>> => Wherefroms # <<>>
  BY <1>7, <1>8
<1>10. \A k, m \in DOMAIN Wherefroms : k < m => Wherefroms[k] < Wherefroms[m]
  BY <1>1, <1>3, <1>5, <1>6
<1> QED
  BY <1>1, <1>2, <1>3, <1>6, <1>7, <1>9, <1>10 DEF Tables

\* What BranchAt returns.
BranchType == [wherefrom : Nat, whereto : Nat, btype : {"GOTO", "FOR", "NFOR", "IF"},
               min : Nat, max : Nat]

LEMMA BranchTypes ==
    ASSUME program \in Programs, NEW k \in Contexts
    PROVE  /\ BranchAt(k) \in BranchType
           /\ BranchAt(k).whereto \in 0 .. program.size - 1
           /\ BranchAt(k).btype \in {"FOR", "NFOR"} => BranchAt(k).min > 0
<1>1. program.size \in Nat \ {0}
  BY ProgramTables
<1>2. CASE k + 1 \in DOMAIN program.branches
  <2>1. program.branches[k + 1] \in Entries
    BY <1>2, ProgramTables
  <2>2. program.branches[k + 1].btype \in {"FOR", "NFOR"}
           => program.branches[k + 1].min > 0
    BY <1>2, ProgramsAssumption
  <2>3. BranchAt(k) = program.branches[k + 1]
    BY <1>2 DEF BranchAt
  <2>4. program.branches[k + 1] \in BranchType
    BY <1>1, <2>1 DEF BranchType, Entries
  <2> QED
    BY <2>1, <2>2, <2>3, <2>4 DEF Entries
<1>3. CASE k + 1 \notin DOMAIN program.branches
  BY <1>1, <1>3 DEF BranchAt, BranchType
<1> QED
  BY <1>2, <1>3

\* A statement with a branch has one of the contexts, and the last statement
\* of the program is an exit.
LEMMA Searched ==
    ASSUME program \in Programs, pc \in 0 .. program.size - 1
    PROVE  /\ BranchHere # -1 => BranchHere \in Contexts
           /\ pc = program.size - 1 => AtExit
<1>1. pc \in Nat /\ program.size \in Nat
  BY ProgramTables
<1>2. ASSUME BranchHere # -1 PROVE BranchHere \in Contexts
  <2>1. CASE program.branches = <<>>
    <3>1. PICK left : left = Narrowed(Wherefroms, pc)
      OBVIOUS
    <3>2. Len(Wherefroms) = 0
      BY <2>1, ProgramTables
    <3>3. \A f : Turned(Wherefroms, pc, f, 0) => f[0] = <<0, -1>>
      BY <3>2 DEF Turned
    <3> DEFINE after == CHOOSE f : Turned(Wherefroms, pc, f, 0)
    <3>4. Turned(Wherefroms, pc, after, 0)
      BY TurnsDefined
    <3>5. left = after[0]
      BY <3>1, <3>2 DEF Narrowed, Turned
    <3> HIDE DEF after
    <3>6. left = <<0, -1>>
      BY <3>3, <3>4, <3>5
    <3>7. KeyAt(Wherefroms, 0) = 0 /\ KeyAt(Wherefroms, -1) = 0
      BY <2>1, ProgramTables DEF KeyAt
    <3>8. BranchHere = 0
      BY <1>2, <3>1, <3>6, <3>7 DEF BranchHere, Lookup
    <3> QED
      BY <2>1, <3>8 DEF Contexts
  <2>2. CASE program.branches # <<>>
    <3>1. Wherefroms \in Tables /\ Len(Wherefroms) = Len(program.branches)
      BY <2>2, ProgramTables
    <3>2. BranchHere \in -1 .. Len(program.branches) - 1
      BY <1>1, <3>1, LookupFinds DEF BranchHere
    <3>3. Len(program.branches) \in Nat
      BY ProgramTables
    <3> QED
      BY <1>2, <2>2, <3>2, <3>3 DEF Contexts
  <2> QED
    BY <2>1, <2>2
<1>3. ASSUME pc = program.size - 1 PROVE AtExit
  <2>1. /\ program.exits \in Tables
        /\ \E k \in DOMAIN program.exits : program.exits[k] = pc
    BY <1>3, ProgramTables
  <2>2. Lookup(program.exits, pc) + 1 \in DOMAIN program.exits
    BY <1>1, <2>1, LookupFinds
  <2>3. 0 \notin DOMAIN program.exits
    BY <2>1 DEF Tables
  <2> QED
    BY <2>2, <2>3 DEF AtExit
<1> QED
  BY <1>2, <1>3

----------------------------------------------------------------------------
(* Types *)

ContextType == [boffset : Runs, bsize : {1, MAXBRINGS}, bvalue : BOOLEAN,
                bcount : Nat, brings : [Runs -> Nat]]

SameType == [taken : BOOLEAN, times : Nat]

LEMMA ContextParts ==
    ASSUME NEW c \in ContextType
    PROVE  /\ c.boffset \in Runs /\ c.boffset \in Nat
           /\ c.bsize \in {1, MAXBRINGS} /\ c.bsize \in Nat \ {0} /\ c.bsize <= MAXBRINGS
           /\ c.bvalue \in BOOLEAN /\ c.bcount \in Nat /\ c.brings \in [Runs -> Nat]
<1>1. /\ c.boffset \in Runs /\ c.bsize \in {1, MAXBRINGS} /\ c.bvalue \in BOOLEAN
      /\ c.bcount \in Nat /\ c.brings \in [Runs -> Nat]
  BY DEF ContextType
<1>2. c.boffset \in Nat
  BY <1>1, Sizes
<1>3. c.bsize \in Nat \ {0} /\ c.bsize <= MAXBRINGS
  BY <1>1, Sizes
<1> QED
  BY <1>1, <1>2, <1>3

\* The offset of a context is of one of its runs.
Good ==
    /\ TypeOK
    /\ \A k \in Contexts : contexts[k].boffset < contexts[k].bsize

\* The decisions of run r, of a loop or a GOTO, are all this one.
Value(b, r) == (r % 2 = 0) = (b.btype # "NFOR")

\* The runs drawn are of the lengths the branch allows, and the decisions now
\* are those of the run at the offset.
RunsDrawn(b, c) ==
    /\ \A r \in 0 .. c.bsize - 1 : c.brings[r] \in RunLengths(b, Value(b, r))
    /\ c.bvalue = Value(b, c.boffset) \/ b.btype = "GOTO"
    /\ c.bsize = (IF b.btype = "GOTO" THEN 1 ELSE MAXBRINGS)

\* What was decided last is of the run at the offset if that has begun, and
\* else is the whole of the run before it.
InStep(b, c, s) ==
    /\ c.bcount < c.brings[c.boffset]
    /\ c.bcount > 0 => s.taken = c.bvalue /\ s.times = c.bcount
    /\ c.bcount = 0 => \/ /\ s.times = 0
                          /\ s.taken = c.bvalue /\ c.bvalue = (b.btype # "NFOR")
                       \/ s.taken = ~c.bvalue /\ s.times \in RunLengths(b, s.taken)

\* The invariant behind BranchesAsDrawn.
DrawnInv ==
    \A k \in Contexts :
        program.branches # <<>> /\ BranchAt(k).btype # "IF" =>
            /\ RunsDrawn(BranchAt(k), contexts[k])
            /\ InStep(BranchAt(k), contexts[k], same[k])

\* What bcontext_init draws has the type of a context, and its runs are of the
\* lengths the branch allows.
LEMMA InitDraws ==
    ASSUME NEW b \in BranchType, b.btype \in {"FOR", "NFOR"} => b.min > 0,
           NEW c \in bcontext_init(b)
    PROVE  /\ c \in ContextType
           /\ c.boffset = 0 /\ c.bcount = 0 /\ 0 < c.bsize
           /\ b.btype # "IF" => /\ RunsDrawn(b, c)
                               /\ c.bvalue = (b.btype # "NFOR")
                               /\ 0 < c.brings[0]
<1>1. /\ b.min \in Nat /\ b.max \in Nat
      /\ b.btype \in {"GOTO", "FOR", "NFOR", "IF"}
  BY DEF BranchType
<1>2. Turns(b) \subseteq Nat
  BY <1>1 DEF Turns
<1>3. \A n \in Nat : FirstOnly(n) \in [Runs -> Nat] /\ FirstOnly(n)[0] = n
  BY Sizes DEF FirstOnly
<1>4. Forever \in Nat \ {0}
  BY ForeverIsNat
<1>5. ASSUME NEW bsize \in {1, MAXBRINGS}, NEW bvalue \in BOOLEAN,
             NEW brings \in [Runs -> Nat], c = Context(bsize, bvalue, brings)
      PROVE  /\ c \in ContextType
             /\ c.boffset = 0 /\ c.bcount = 0 /\ 0 < c.bsize
             /\ c.bsize = bsize /\ c.bvalue = bvalue /\ c.brings = brings
  <2>1. c = [boffset |-> 0, bsize |-> bsize, bvalue |-> bvalue, bcount |-> 0,
             brings |-> brings]
    BY <1>5 DEF Context
  <2>2. c \in ContextType
    BY <2>1, Sizes DEF ContextType
  <2>3. 0 < bsize
    BY Sizes
  <2> QED
    BY <2>1, <2>2, <2>3
<1>6. CASE b.btype = "GOTO"
  <2>1. c = Context(1, TRUE, FirstOnly(Forever))
    BY <1>6 DEF bcontext_init
  <2>2. /\ c \in ContextType
        /\ c.boffset = 0 /\ c.bcount = 0 /\ 0 < c.bsize
        /\ c.bsize = 1 /\ c.bvalue = TRUE /\ c.brings = FirstOnly(Forever)
    BY <1>3, <1>5, <1>4, <2>1
  <2>3. c.brings[0] = Forever /\ 0 < c.brings[0]
    BY <1>3, <1>4, <2>2
  <2>4. \A r \in 0 .. c.bsize - 1 : c.brings[r] \in RunLengths(b, Value(b, r))
    BY <1>6, <2>2, <2>3 DEF RunLengths
  <2> QED
    BY <1>6, <2>2, <2>4, <2>3 DEF RunsDrawn
<1>7. CASE b.btype = "IF"
  <2>1. PICK value \in BOOLEAN, brings \in [Runs -> 1 .. MaxRun] :
           c = Context(MAXBRINGS, value, brings)
    BY <1>7 DEF bcontext_init
  <2>2. brings \in [Runs -> Nat]
    BY <2>1
  <2>3. /\ c \in ContextType
        /\ c.boffset = 0 /\ c.bcount = 0 /\ 0 < c.bsize
    BY <1>5, <2>1, <2>2
  <2>4. ~(b.btype # "IF")
    BY <1>7
  <2> QED
    BY <2>3, <2>4
<1>8. CASE b.btype \in {"FOR", "NFOR"}
  <2>1. PICK brings \in LoopRuns(b) : c = Context(MAXBRINGS, TurnsBack(b), brings)
    <3>1. ~(b.btype = "GOTO") /\ ~(b.btype = "IF")
      BY <1>8
    <3>2. c \in {Context(MAXBRINGS, TurnsBack(b), brings) : brings \in LoopRuns(b)}
      BY <3>1 DEF bcontext_init
    <3> QED
      BY <3>2
  <2>2. /\ brings \in [Runs -> Turns(b) \cup {1}]
        /\ \A r \in Runs : IF r % 2 = 0 THEN brings[r] \in Turns(b) ELSE brings[r] = 1
    BY <2>1 DEF LoopRuns
  <2>3. brings \in [Runs -> Nat]
    BY <1>2, <2>2
  <2>4. TurnsBack(b) \in BOOLEAN
    BY DEF TurnsBack
  <2>5. /\ c \in ContextType
        /\ c.boffset = 0 /\ c.bcount = 0 /\ 0 < c.bsize
        /\ c.bsize = MAXBRINGS /\ c.bvalue = TurnsBack(b) /\ c.brings = brings
    BY <1>5, <2>1, <2>3, <2>4
  <2>6. c.bvalue = (b.btype # "NFOR") /\ c.bvalue = Value(b, 0)
    BY <1>8, <2>5 DEF Value, TurnsBack
  <2>7. \A r \in Runs : c.brings[r] \in RunLengths(b, Value(b, r))
    <3> TAKE r \in Runs
    <3>1. CASE r % 2 = 0
      BY <1>8, <2>2, <2>5, <3>1 DEF RunLengths, Value
    <3>2. CASE r % 2 # 0
      BY <1>8, <2>2, <2>5, <3>2 DEF RunLengths, Value
    <3> QED
      BY <3>1, <3>2
  <2>8. 0 < c.brings[0]
    <3>1. c.brings[0] \in Turns(b)
      BY <2>2, <2>5, Sizes
    <3> QED
      BY <1>1, <1>8, <3>1 DEF Turns
  <2> QED
    BY <1>8, <2>5, <2>6, <2>7, <2>8 DEF RunsDrawn, Runs
<1> QED
  BY <1>1, <1>6, <1>7, <1>8

\* A decision keeps the type of a context.
LEMMA DecidedType ==
    ASSUME NEW c \in ContextType, c.boffset < c.bsize
    PROVE  Decided(c) \in ContextType /\ Decided(c).boffset < Decided(c).bsize
<1>1. /\ c.boffset \in Nat /\ c.bsize \in Nat \ {0} /\ c.bsize <= MAXBRINGS
      /\ c.bcount \in Nat /\ (~c.bvalue) \in BOOLEAN
  BY ContextParts
<1>2. PICK next : next = (c.boffset + 1) % c.bsize
  OBVIOUS
<1>3. next \in 0 .. c.bsize - 1
  BY <1>1, <1>2
<1>4. next \in Runs
  BY <1>1, <1>3, Sizes DEF Runs
<1>5. CASE c.bcount + 1 >= c.brings[c.boffset]
  <2>1. Decided(c) = [c EXCEPT !.boffset = next, !.bcount = 0, !.bvalue = ~@]
    BY <1>2, <1>5 DEF Decided, NextRun
  <2>2. Decided(c).boffset = next /\ Decided(c).bsize = c.bsize
    BY <2>1 DEF ContextType
  <2>3. Decided(c) \in ContextType
    <3>1. PICK other : other = ~c.bvalue
      OBVIOUS
    <3>2. other \in BOOLEAN
      BY <3>1
    <3>3. Decided(c) = [c EXCEPT !.boffset = next, !.bcount = 0, !.bvalue = other]
      BY <2>1, <3>1
    <3>4. c = [boffset |-> c.boffset, bsize |-> c.bsize, bvalue |-> c.bvalue,
               bcount |-> c.bcount, brings |-> c.brings]
      BY DEF ContextType
    <3>5. Decided(c) = [boffset |-> next, bsize |-> c.bsize, bvalue |-> other,
                        bcount |-> 0, brings |-> c.brings]
      BY <3>3, <3>4
    <3> QED
      BY <1>4, <3>2, <3>5, ContextParts DEF ContextType
  <2> QED
    BY <1>1, <1>3, <2>2, <2>3
<1>6. CASE ~(c.bcount + 1 >= c.brings[c.boffset])
  <2>1. Decided(c) = [c EXCEPT !.bcount = c.bcount + 1]
    BY <1>6 DEF Decided
  <2> QED
    BY <1>1, <2>1 DEF ContextType
<1> QED
  BY <1>5, <1>6

\* The runs of a branch are not empty.
LEMMA LengthsPositive ==
    ASSUME NEW b \in BranchType, b.btype \in {"FOR", "NFOR"} => b.min > 0,
           b.btype # "IF", NEW taken \in BOOLEAN
    PROVE  RunLengths(b, taken) \subseteq Nat \ {0}
<1>1. /\ b.min \in Nat /\ b.max \in Nat
      /\ b.btype \in {"GOTO", "FOR", "NFOR", "IF"}
  BY DEF BranchType
<1> QED
  BY <1>1, ForeverIsNat DEF RunLengths, Turns

\* The next run is of the other decision.
LEMMA NextIsOther ==
    ASSUME NEW b, NEW offset \in Runs
    PROVE  Value(b, (offset + 1) % MAXBRINGS) = ~Value(b, offset)
<1>1. offset \in Nat /\ offset < MAXBRINGS
  BY Sizes DEF Runs
<1>2. ((offset + 1) % MAXBRINGS) % 2 = 0 <=> offset % 2 # 0
  BY <1>1, Sizes
<1> QED
  BY <1>2 DEF Value

\* A decision is of the run at the offset, and keeps the context in step.
LEMMA DecidedInStep ==
    ASSUME NEW b \in BranchType, b.btype \in {"FOR", "NFOR"} => b.min > 0,
           b.btype # "IF",
           NEW c \in ContextType, c.boffset < c.bsize, NEW was \in SameType,
           RunsDrawn(b, c), InStep(b, c, was),
           NEW is, is = [taken |-> c.bvalue,
                         times |-> IF was.taken = c.bvalue THEN was.times + 1 ELSE 1]
    PROVE  /\ RunsDrawn(b, Decided(c)) /\ InStep(b, Decided(c), is)
           /\ was.times = 0 => is.taken = (b.btype # "NFOR")
           /\ is.taken # was.taken => was.times \in RunLengths(b, was.taken)
           /\ \E n \in RunLengths(b, is.taken) : is.times <= n
<1>1. /\ c.boffset \in Nat /\ c.boffset \in Runs
      /\ c.bsize \in Nat \ {0} /\ c.bsize <= MAXBRINGS
      /\ c.bcount \in Nat /\ c.bvalue \in BOOLEAN
      /\ was.taken \in BOOLEAN /\ was.times \in Nat
  BY ContextParts DEF SameType
<1>2. PICK n : n = c.brings[c.boffset]
  OBVIOUS
<1>3. \A taken \in BOOLEAN : RunLengths(b, taken) \subseteq Nat \ {0}
  BY LengthsPositive
<1>4. \A taken : b.btype = "GOTO" => RunLengths(b, taken) = {Forever}
  BY DEF RunLengths
<1>5. n \in RunLengths(b, c.bvalue) /\ n \in Nat \ {0}
  <2>1. c.boffset \in 0 .. c.bsize - 1
    BY <1>1
  <2>2. n \in RunLengths(b, Value(b, c.boffset))
    BY <1>2, <2>1 DEF RunsDrawn
  <2>3. n \in RunLengths(b, c.bvalue)
    BY <1>4, <2>2 DEF RunsDrawn
  <2> QED
    BY <1>1, <1>3, <2>3
<1>6. is.taken = c.bvalue /\ is.times = c.bcount + 1
  BY <1>1 DEF InStep
<1>7. c.bcount < n
  BY <1>2 DEF InStep
<1>8. \E m \in RunLengths(b, is.taken) : is.times <= m
  BY <1>1, <1>5, <1>6, <1>7
<1>9. was.times = 0 => is.taken = (b.btype # "NFOR")
  <2> SUFFICES ASSUME was.times = 0 PROVE is.taken = (b.btype # "NFOR")
    OBVIOUS
  <2>1. c.bcount = 0
    BY <1>1 DEF InStep
  <2>2. ~(was.times \in RunLengths(b, was.taken))
    BY <1>1, <1>3
  <2> QED
    BY <1>6, <2>1, <2>2 DEF InStep
<1>10. is.taken # was.taken => was.times \in RunLengths(b, was.taken)
  BY <1>1, <1>6 DEF InStep
<1>11. CASE c.bcount + 1 >= n
  <2>1. PICK next : next = (c.boffset + 1) % c.bsize
    OBVIOUS
  <2>2. next \in 0 .. c.bsize - 1
    BY <1>1, <2>1
  <2>3. PICK d : d = Decided(c)
    OBVIOUS
  <2>4. d = [c EXCEPT !.boffset = next, !.bcount = 0, !.bvalue = ~@]
    BY <1>2, <1>11, <2>1, <2>3 DEF Decided, NextRun
  <2>5. /\ d.boffset = next /\ d.bsize = c.bsize /\ d.brings = c.brings
        /\ d.bcount = 0 /\ d.bvalue = ~c.bvalue
    BY <2>4 DEF ContextType
  <2>6. d.bvalue = Value(b, next) \/ b.btype = "GOTO"
    BY <1>1, <2>1, <2>5, NextIsOther DEF RunsDrawn
  <2>7. RunsDrawn(b, d)
    BY <2>5, <2>6 DEF RunsDrawn
  <2>8. c.bcount + 1 = n
    BY <1>1, <1>5, <1>7, <1>11
  <2>9. is.taken = ~d.bvalue /\ is.times \in RunLengths(b, is.taken)
    BY <1>1, <1>5, <1>6, <2>5, <2>8
  <2>10. d.bcount < d.brings[d.boffset]
    <3>1. d.brings[d.boffset] \in RunLengths(b, Value(b, next))
      BY <2>2, <2>5 DEF RunsDrawn
    <3>2. Value(b, next) \in BOOLEAN
      BY DEF Value
    <3>3. d.brings[d.boffset] \in Nat \ {0}
      BY <1>3, <3>1, <3>2
    <3> QED
      BY <2>5, <3>3
  <2>11. InStep(b, d, is)
    BY <2>5, <2>9, <2>10 DEF InStep
  <2> QED
    BY <1>8, <1>9, <1>10, <2>3, <2>7, <2>11
<1>12. CASE ~(c.bcount + 1 >= n)
  <2>1. PICK d : d = Decided(c)
    OBVIOUS
  <2>2. d = [c EXCEPT !.bcount = c.bcount + 1]
    BY <1>2, <1>12, <2>1 DEF Decided
  <2>3. /\ d.boffset = c.boffset /\ d.bsize = c.bsize /\ d.brings = c.brings
        /\ d.bcount = c.bcount + 1 /\ d.bvalue = c.bvalue
    BY <2>2 DEF ContextType
  <2>4. RunsDrawn(b, d)
    BY <2>3 DEF RunsDrawn
  <2>5. InStep(b, d, is)
    BY <1>1, <1>2, <1>5, <1>6, <1>12, <2>3 DEF InStep
  <2> QED
    BY <1>8, <1>9, <1>10, <2>1, <2>4, <2>5
<1> QED
  BY <1>11, <1>12

----------------------------------------------------------------------------
(* The steps *)

\* The invariant of the proofs.
Inv == Good /\ DrawnInv

LEMMA InvInit == Init => Inv
<1> SUFFICES ASSUME Init PROVE Inv
  OBVIOUS
<1>1. program \in Programs /\ program.size \in Nat \ {0}
  BY ProgramTables DEF Init
<1>2. ASSUME NEW k \in Contexts
      PROVE  /\ contexts[k] \in ContextType
             /\ contexts[k].boffset < contexts[k].bsize
             /\ program.branches # <<>> /\ BranchAt(k).btype # "IF" =>
                   /\ RunsDrawn(BranchAt(k), contexts[k])
                   /\ InStep(BranchAt(k), contexts[k], same[k])
  <2>1. CASE program.branches = <<>>
    <3>1. contexts[k] = bcontext_clear
      BY <2>1 DEF Init
    <3>2. FirstOnly(1) \in [Runs -> Nat]
      BY Sizes DEF FirstOnly
    <3> QED
      BY <2>1, <3>1, <3>2, Sizes DEF bcontext_clear, Context, ContextType
  <2>2. CASE program.branches # <<>>
    <3>1. contexts[k] \in bcontext_init(BranchAt(k))
      BY <2>2 DEF Init
    <3>2. /\ BranchAt(k) \in BranchType
          /\ BranchAt(k).btype \in {"FOR", "NFOR"} => BranchAt(k).min > 0
      BY <1>1, BranchTypes
    <3>3. /\ contexts[k] \in ContextType
          /\ contexts[k].boffset = 0 /\ contexts[k].bcount = 0
          /\ 0 < contexts[k].bsize
          /\ BranchAt(k).btype # "IF" =>
                /\ RunsDrawn(BranchAt(k), contexts[k])
                /\ contexts[k].bvalue = (BranchAt(k).btype # "NFOR")
                /\ 0 < contexts[k].brings[0]
      BY <3>1, <3>2, InitDraws
    <3>4. same[k].taken = contexts[k].bvalue /\ same[k].times = 0
      BY DEF Init
    <3> QED
      BY <3>3, <3>4 DEF InStep
  <2> QED
    BY <2>1, <2>2
<1>3. \A k \in Contexts : contexts[k].bvalue \in BOOLEAN
  BY <1>2 DEF ContextType
<1>4. DOMAIN contexts = Contexts /\ contexts = [k \in DOMAIN contexts |-> contexts[k]]
  BY DEF Init
<1>5. contexts \in [Contexts -> ContextType]
  BY <1>2, <1>4
<1>6. same \in [Contexts -> SameType]
  BY <1>3 DEF Init, SameType
<1>7. pc \in 0 .. program.size - 1 /\ exited \in BOOLEAN
  <2>1. pc = 0
    BY DEF Init
  <2>2. exited = FALSE
    BY DEF Init
  <2>3. pc \in 0 .. program.size - 1
    BY <1>1, <2>1
  <2> QED
    BY <2>2, <2>3
<1>8. Good
  BY <1>1, <1>2, <1>5, <1>6, <1>7 DEF Good, TypeOK, ContextType, SameType
<1>9. DrawnInv
  BY <1>2 DEF DrawnInv
<1> QED
  BY <1>8, <1>9 DEF Inv

\* A branch keeps the invariant and decides as drawn.
LEMMA BranchStep ==
    ASSUME Inv, Branch
    PROVE  /\ Inv'
           /\ \A k \in Contexts :
                LET b == BranchAt(k)
                    was == same[k]
                    is == same'[k]
                IN  program.branches # <<>> /\ b.btype # "IF" /\ is # was =>
                      /\ was.times = 0 => is.taken = (b.btype # "NFOR")
                      /\ is.taken # was.taken => was.times \in RunLengths(b, was.taken)
                      /\ \E n \in RunLengths(b, is.taken) : is.times <= n
<1>1. /\ program \in Programs /\ program' = program /\ exited' \in BOOLEAN
      /\ program.size \in Nat \ {0}
  BY ProgramTables DEF Inv, Good, TypeOK, Branch
<1>2. /\ contexts \in [Contexts -> ContextType] /\ same \in [Contexts -> SameType]
      /\ pc \in 0 .. program.size - 1
      /\ \A k \in Contexts : contexts[k].boffset < contexts[k].bsize
  BY DEF Inv, Good, TypeOK, ContextType, SameType
<1>3. Contexts' = Contexts /\ \A k : BranchAt(k)' = BranchAt(k)
  BY <1>1 DEF Contexts, BranchAt
<1>4. PICK k : k = BranchHere
  OBVIOUS
<1>5. k \in Contexts
  BY <1>1, <1>2, <1>4, Searched DEF Branch
<1>6. /\ contexts' = [contexts EXCEPT ![k] = Decided(@)]
      /\ same' = [same EXCEPT ![k] = Again(k)]
      /\ pc' = LET next == IF contexts[k].bvalue THEN BranchAt(k).whereto ELSE pc + 1
               IN  IF next \in 0 .. program.size - 1 THEN next ELSE 0
  BY <1>4 DEF Branch, process_dobranch
<1>7. pc' \in 0 .. program.size - 1
  BY <1>1, <1>6
<1>8. PICK c : c = contexts[k]
  OBVIOUS
<1>9. c \in ContextType /\ c.boffset < c.bsize /\ c.bvalue \in BOOLEAN
  BY <1>2, <1>5, <1>8 DEF ContextType
<1>10. /\ contexts'[k] = Decided(c) /\ same'[k] = Again(k)
       /\ \A m \in Contexts : m # k => contexts'[m] = contexts[m] /\ same'[m] = same[m]
  BY <1>2, <1>5, <1>6, <1>8
<1>11. Decided(c) \in ContextType /\ Decided(c).boffset < Decided(c).bsize
  BY <1>9, DecidedType
<1>12. PICK was, is : was = same[k] /\ is = Again(k)
  OBVIOUS
<1>13. /\ was \in SameType
       /\ is = [taken |-> c.bvalue,
                times |-> IF was.taken = c.bvalue THEN was.times + 1 ELSE 1]
  BY <1>2, <1>5, <1>8, <1>12 DEF Again
<1>14. is \in SameType
  BY <1>9, <1>13 DEF SameType
<1>15. contexts' \in [Contexts -> ContextType] /\ same' \in [Contexts -> SameType]
  BY <1>2, <1>5, <1>6, <1>8, <1>11, <1>12, <1>14
<1>16. \A m \in Contexts : contexts'[m].boffset < contexts'[m].bsize
  BY <1>2, <1>10, <1>11
<1>17. Good'
  BY <1>1, <1>3, <1>7, <1>15, <1>16 DEF Good, TypeOK, ContextType, SameType
<1>18. ASSUME program.branches # <<>>, BranchAt(k).btype # "IF"
       PROVE  /\ RunsDrawn(BranchAt(k), Decided(c)) /\ InStep(BranchAt(k), Decided(c), is)
              /\ was.times = 0 => is.taken = (BranchAt(k).btype # "NFOR")
              /\ is.taken # was.taken => was.times \in RunLengths(BranchAt(k), was.taken)
              /\ \E n \in RunLengths(BranchAt(k), is.taken) : is.times <= n
  <2>1. PICK b : b = BranchAt(k)
    OBVIOUS
  <2>2. b \in BranchType /\ (b.btype \in {"FOR", "NFOR"} => b.min > 0)
    BY <1>1, <1>5, <2>1, BranchTypes
  <2>3. RunsDrawn(b, c) /\ InStep(b, c, was)
    BY <1>5, <1>8, <1>12, <1>18, <2>1 DEF Inv, DrawnInv
  <2>4. b.btype # "IF"
    BY <1>18, <2>1
  <2>5. /\ RunsDrawn(b, Decided(c)) /\ InStep(b, Decided(c), is)
        /\ was.times = 0 => is.taken = (b.btype # "NFOR")
        /\ is.taken # was.taken => was.times \in RunLengths(b, was.taken)
        /\ \E n \in RunLengths(b, is.taken) : is.times <= n
    BY <1>9, <1>13, <2>2, <2>3, <2>4, DecidedInStep
  <2> QED
    BY <2>1, <2>5
<1>19. DrawnInv'
  <2> SUFFICES ASSUME NEW m \in Contexts,
                      program.branches # <<>>, BranchAt(m).btype # "IF"
               PROVE  /\ RunsDrawn(BranchAt(m), contexts'[m])
                      /\ InStep(BranchAt(m), contexts'[m], same'[m])
    BY <1>1, <1>3 DEF DrawnInv
  <2>1. CASE m = k
    BY <1>10, <1>12, <1>18, <2>1
  <2>2. CASE m # k
    BY <1>10, <2>2 DEF Inv, DrawnInv
  <2> QED
    BY <2>1, <2>2
<1> QED
  BY <1>10, <1>12, <1>17, <1>18, <1>19 DEF Inv

\* The other steps leave the decisions alone.
LEMMA OtherSteps ==
    ASSUME Inv, Exit \/ Advance \/ Ended \/ UNCHANGED vars
    PROVE  Inv' /\ same' = same
<1>1. /\ program \in Programs /\ program' = program
      /\ contexts' = contexts /\ same' = same
      /\ program.size \in Nat \ {0} /\ pc \in 0 .. program.size - 1
      /\ exited \in BOOLEAN
  BY ProgramTables DEF Inv, Good, TypeOK, Exit, Advance, Ended, vars
<1>2. Contexts' = Contexts /\ \A k : BranchAt(k)' = BranchAt(k)
  BY <1>1 DEF Contexts, BranchAt
<1>3. exited' \in BOOLEAN /\ pc' \in 0 .. program.size - 1
  <2>1. CASE Exit
    BY <1>1, <2>1 DEF Exit
  <2>2. CASE Advance
    <3>1. pc # program.size - 1
      BY <1>1, <2>2, Searched DEF Advance
    <3> QED
      BY <1>1, <2>2, <3>1 DEF Advance
  <2>3. CASE Ended \/ UNCHANGED vars
    BY <1>1, <2>3 DEF Ended, vars
  <2> QED
    BY <2>1, <2>2, <2>3
<1>4. Good'
  BY <1>1, <1>2, <1>3 DEF Inv, Good, TypeOK
<1>5. DrawnInv'
  BY <1>1, <1>2 DEF Inv, DrawnInv
<1> QED
  BY <1>1, <1>4, <1>5 DEF Inv

LEMMA InvStep == Inv /\ [Next]_vars => Inv'
  BY BranchStep, OtherSteps DEF Next

----------------------------------------------------------------------------
(* Theorems *)

\* The program counter stays in the program, so that the page a job stands on
\* is one of its own, and what indexes the decisions stays in their table,
\* whatever the programs.
THEOREM TypeCorrect == Spec => []TypeOK
<1>1. Inv => TypeOK
  BY DEF Inv, Good
<1> QED
  BY <1>1, InvInit, InvStep, PTL DEF Spec

\* The binary searches of process_step find the entry of a statement if there
\* is one, and nothing otherwise, in the tables of every program, of any size.
THEOREM SearchesFind == Spec => []SearchFinds
<1>1. TypeOK => SearchFinds
  <2> SUFFICES ASSUME TypeOK PROVE SearchFinds
    OBVIOUS
  <2>1. program \in Programs
    BY DEF TypeOK
  <2> SUFFICES ASSUME NEW keys \in {program.exits, Wherefroms}, keys # <<>>,
                      NEW at \in 0 .. program.size - 1
               PROVE  IF \E k \in DOMAIN keys : keys[k] = at
                      THEN /\ Lookup(keys, at) + 1 \in DOMAIN keys
                           /\ keys[Lookup(keys, at) + 1] = at
                      ELSE Lookup(keys, at) = -1
    BY DEF SearchFinds
  <2>2. program.branches = <<>> => Wherefroms = <<>>
    BY <2>1, ProgramTables DEF Wherefroms
  <2>3. keys \in Tables /\ at \in Nat
    BY <2>1, <2>2, ProgramTables
  <2> QED
    BY <2>3, LookupFinds
<1> QED
  BY <1>1, TypeCorrect, PTL

\* A FOR goes back as often as its bounds allow and then passes once, a NFOR
\* the reverse, and a GOTO branches 2147483647 times in a row, for every
\* program, every bounds and however often the runs drawn are used up.
THEOREM DecisionsAsDrawn == Spec => BranchesAsDrawn
<1>1. ASSUME Inv, [Next]_vars
      PROVE  [\A k \in Contexts :
                LET b == BranchAt(k)
                    was == same[k]
                    is == same'[k]
                IN  program.branches # <<>> /\ b.btype # "IF" /\ is # was =>
                      /\ was.times = 0 => is.taken = (b.btype # "NFOR")
                      /\ is.taken # was.taken => was.times \in RunLengths(b, was.taken)
                      /\ \E n \in RunLengths(b, is.taken) : is.times <= n]_vars
  <2>1. CASE Branch
    BY <1>1, <2>1, BranchStep
  <2>2. CASE Exit \/ Advance \/ Ended \/ UNCHANGED vars
    BY <1>1, <2>2, OtherSteps
  <2> QED
    BY <1>1, <2>1, <2>2 DEF Next
<1> QED
  BY <1>1, InvInit, InvStep, PTL DEF Spec, BranchesAsDrawn

=============================================================================
