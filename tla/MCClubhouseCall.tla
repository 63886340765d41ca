--------------------------- MODULE MCClubhouseCall ---------------------------
(***************************************************************************)
(* Small delays for TLC: the exponential one grows past its cap, and the    *)
(* hints lie below, at and above what is honoured of them.                  *)
(***************************************************************************)
EXTENDS ClubhouseCall

MCHints == {0, 1, MaxRetryAfter, MaxRetryAfter + 1}
=============================================================================
