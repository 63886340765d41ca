--------------------------- MODULE MCEventPipeline ---------------------------
(***************************************************************************)
(* Instances of EventPipeline for TLC.                                     *)
(***************************************************************************)
EXTENDS EventPipeline, TLC

CONSTANTS m1, u1

\* One message, of a user not seen before.
OneAuthor == m1 :> u1

\* Handlers, tokens and syncs are interchangeable.
Interchangeable == Permutations(Handler) \cup Permutations(Token) \cup Permutations(Sync)
=============================================================================
