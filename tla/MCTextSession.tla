---------------------------- MODULE MCTextSession -----------------------------
(***************************************************************************)
(* Small instances of TextSession.  Turns, notes and session_end frames    *)
(* are interchangeable among themselves.                                   *)
(***************************************************************************)
EXTENDS TextSession, TLC

CONSTANTS t1, t2, t3, t4, n1, n2, e1, e2

FrameSymmetry == Permutations(Turns) \cup Permutations(Notes) \cup Permutations(Ends)
===============================================================================
