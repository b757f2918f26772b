--------------------------- MODULE GameBoardProps ---------------------------
(***************************************************************************)
(* What a player may expect of the board.                                  *)
(***************************************************************************)
EXTENDS GameBoard, MatchProps

\* Everything keeps to its type; nothing is under way on a link that is down.
BoardTypeOK ==
  /\ linked \in BOOLEAN
  /\ Len(up) <= MaxInFlight /\ Len(down) <= MaxUnheard + 1
  /\ linked \/ up \o down = <<>>
  /\ \A i \in 1..Len(up) :
       up[i].action \in CommandName \cup Ability /\ up[i].target \in City \cup {None}
  /\ \A i \in 1..Len(down) : down[i].type \in {"MATCH_STATE", "GAME_OVER", "ERROR"}
  /\ DOMAIN ui = DOMAIN Blank
  /\ ui.heard \in BOOLEAN
  /\ ui.sel \in City \cup {None} /\ ui.high \in City \cup {None}
  /\ ui.over \in Side \cup {None}

\* Nothing is under way: the board has handled all it was sent, the match all the
\* player did.
Quiet == linked /\ Mounted /\ up = <<>> /\ down = <<>>

\* However messages were lost, hidden by Encryption or sent again after a break or
\* a reload, the quiet board shows the game: all of it in the player's own turn, and
\* its end, with the right winner, as soon as there is one and no sooner.
ShowsTheGame ==
  Quiet =>
    /\ ui.over = IF game.over THEN game.winner ELSE None
    /\ game.turn = Me \/ game.over \/ ~Encrypted(game, Opp(Me)) =>
         Board(ui.state) = Board(MatchState(game, Me))

\* What a player whose board is quiet and has no move target can ask for at once.
Offered(r) ==
  /\ r.action = "MOVE" => Clickable(r.target) /\ Target(r.target) # None
  /\ r.action = "END_TURN" => EndTurnEnabled
  /\ r.action \notin {"MOVE", "END_TURN"} => Enabled(r.action)

Asks == {Ask("MOVE", c) : c \in City}
        \cup {Ask(a, None) : a \in {"STRIKE", "WAIT", "CONTROL", "END_TURN"} \cup Ability}

\* The buttons repeat the rules of the server in a language of their own.  They
\* never withhold what the server would accept, except a LOCATE of an opponent
\* whose city is known.
LegalIsOffered ==
  Quiet /\ ui.sel = None => \A r \in Asks :
    Legal(r) /\ ~(r.action = "LOCATE" /\ game.known[Me] # None) => Offered(r)

\* And where they offer what the server refuses, the rule is one the buttons do not
\* know: a stranded spy can only move, no rest in the opponent's city, and no Deep
\* Cover or Prep Mission before the last action.
Unchecked(r) ==
  \/ r.action \notin {"MOVE", "END_TURN"} /\ Stranded(game, Me)
  \/ r.action \in {"WAIT", "DEEP_COVER", "PREP_MISSION"} /\ HeldByOpponent(game, Me)
  \/ r.action \in {"DEEP_COVER", "PREP_MISSION"} /\ game.actions[Me] > 1

RefusalsExplained ==
  Quiet /\ ui.sel = None => \A r \in Asks : Offered(r) /\ ~Legal(r) => Unchecked(r)

\* A move target locks every button, so it is always marked as the one city chosen
\* on the map, and one click on it is a MOVE: no click, message, new turn or reload
\* leaves a target that cannot be seen.
SelectionShown == ui.sel # None => ui.high = ui.sel
=============================================================================
