---------------------------- MODULE MCActionStore ----------------------------
(***************************************************************************)
(* Instances of ActionStore for TLC.                                       *)
(***************************************************************************)
EXTENDS ActionStore, TLC

\* Callers and tokens are interchangeable.
CallersAndTokens == Permutations(Caller) \cup Permutations(Token)
=============================================================================
