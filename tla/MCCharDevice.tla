---------------------------- MODULE MCCharDevice ----------------------------
(* Two tasks and two files over a buffer of two bytes: calls of two tasks  *)
(* meet on one file and on two, and reads and writes end before, at and    *)
(* behind the end of the buffer.                                           *)
EXTENDS CharDevice, TLC

CONSTANTS t1, t2, f1, f2, a, b

MCTasks == {t1, t2}
MCFiles == {f1, f2}
MCChars == {a, b}
MCStrings == {<<a, b, b>>}
MCOffsets == {-1, 3}

MCSymmetry == Permutations(MCTasks) \cup Permutations(MCFiles)
=============================================================================
