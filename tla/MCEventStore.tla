---------------------------- MODULE MCEventStore ----------------------------
(***************************************************************************)
(* Instances of EventStore for TLC.                                        *)
(***************************************************************************)
EXTENDS EventStore, TLC

\* Handlers and tokens are interchangeable.
HandlersAndTokens == Permutations(Handler) \cup Permutations(Token)
=============================================================================
