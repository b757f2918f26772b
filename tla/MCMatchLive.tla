----------------------------- MODULE MCMatchLive -----------------------------
(***************************************************************************)
(* The small instances of MCMatch, with players that may go away.          *)
(***************************************************************************)
EXTENDS MCMatch, MatchLiveness
==============================================================================
