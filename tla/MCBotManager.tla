---------------------------- MODULE MCBotManager ----------------------------
(***************************************************************************)
(* Instances of BotManager for TLC.                                        *)
(***************************************************************************)
EXTENDS BotManager, TLC

\* Calls are interchangeable, and so are rooms.
CallsAndRooms == Permutations(Call) \cup Permutations(Room)
=============================================================================
