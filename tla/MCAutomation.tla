---------------------------- MODULE MCAutomation ----------------------------
(***************************************************************************)
(* Two questions and a remark of one user for TLC, and another user in the *)
(* room.                                                                   *)
(***************************************************************************)
EXTENDS Automation, TLC

CONSTANTS m1, m2, m3, u1, u2

MCAuthor == [m \in Message |-> u1]
MCContent == [m \in Message |-> IF m = m3 THEN {"question"} ELSE {"mentioned name"}]

Symmetry == Permutations({m1, m2})
=============================================================================
