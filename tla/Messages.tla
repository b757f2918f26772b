------------------------------ MODULE Messages ------------------------------
(***************************************************************************)
(* What a MATCH_STATE message tells a player of the game                   *)
(* (protocol/Messages.cpp, serialize_match_state).  Names, texts, the      *)
(* timer and the starting cities, which never change, are left out.        *)
(***************************************************************************)
EXTENDS GameRules

\* A spy located by an opponent with Encryption is still told that its cover may
\* hold: "UNKNOWN" is all it ever learns while it is not openly exposed.
CoverStatus(g, s) ==
  IF ~g.cover[s] /\ "stealth" \notin g.flags[s] THEN "EXPOSED"
  ELSE IF Encrypted(g, Opp(s)) THEN "UNKNOWN" ELSE "ACTIVE"

\* claimedIntel is missing: the code adds it to a record it has copied before.
MatchState(g, s) ==
  LET o == Opp(s)
  IN  [ city       |-> g.city[s],
        intel      |-> g.intel[s],
        actions    |-> g.actions[s],
        coverStatus|-> CoverStatus(g, s),
        known      |-> g.known[s],
        unlocked   |-> g.unlocked[s],
        prep       |-> g.prep[s],
        flags      |-> g.flags[s] \ {"stealth"},
        revealed   |-> g.revealed[o] \cup (g.unlocked[o] \cap {"ENCRYPTION"}),
        turn       |-> g.turn,
        turnNumber |-> g.turnNumber,
        over       |-> g.over,
        winner     |-> g.winner,
        opponentMoved |-> g.moved[o],
        scheduled  |-> g.scheduled,
        gone       |-> g.gone,
        stranded   |-> Stranded(g, s),
        controller |-> g.controller,
        intelAt    |-> g.intelAt,
        actionAt   |-> g.actionAt ]
=============================================================================
