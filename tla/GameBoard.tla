----------------------------- MODULE GameBoard -----------------------------
(***************************************************************************)
(* The board of a match in one player's browser (PhaserGame.tsx), joined   *)
(* to the match it shows: commands go up and messages come down a link     *)
(* that keeps their order and may break, so what is clicked is decided on  *)
(* a state the match may have left behind.                                 *)
(*                                                                         *)
(* Module Browser says how the link is made and which page is shown; here  *)
(* it is up or down, and the page is the board of this match.              *)
(***************************************************************************)
EXTENDS Match

CONSTANTS
  Me,            \* the side of the player at this browser
  Price,         \* the Intel each ability's button asks for
  MaxInFlight,   \* bound: commands under way to the server
  MaxUnheard     \* bound: messages not yet handled, above which the match waits

ASSUME BoardAssumption ==
  /\ Me \in Side
  /\ Price \in [Ability -> Nat]
  /\ MaxInFlight \in Nat
  /\ MaxUnheard \in Nat \ {0}

VARIABLES
  linked,       \* the socket is open
  up, down,     \* what is under way to the match, and to the board
  ui            \* the state of the component

boardVars == <<matchVars, linked, up, down, ui>>

\* The messages of the wire, as far as the board sends and handles them.
Ask(a, c) == [action |-> a, target |-> c]
Tell(t, body) == [type |-> t, payload |-> body]

\* useState and useRef: the match state shown, whether a message has been handled
\* since the component was mounted (lastStateRef, lastTurnRef), the move target,
\* the highlighted city and the winner on the overlay.
Blank == [state |-> None, heard |-> FALSE, sel |-> None, high |-> None, over |-> None]

BoardInit ==
  /\ MatchInit
  /\ linked = TRUE
  /\ up = <<>>
  /\ down = <<>>
  /\ ui = Blank

-----------------------------------------------------------------------------
(* What is shown, and what can be clicked.                                 *)

Mounted == ui.state # None
ShownTurn == Mounted /\ ui.state.turn = Me
MayAct == ShownTurn /\ ui.state.actions > 0 /\ ui.over = None

\* playerAdjacentCities and disappearedSet.
Near(c) == c \in Adjacent(ui.state.city)
\* A button is grey while a move target is chosen, and by what the state shows.
\* Mutants: it forgets that a city is held already; that the price must be paid.
HeldTwice(a) ==
  /\ MayAct /\ ui.sel = None
  /\ a \in Ability => ui.state.intel >= Price[a]
  /\ a = "LOCATE" => ui.state.known = None
  /\ a \in Permanent => a \notin ui.state.unlocked
TooDear(a) ==
  /\ MayAct /\ ui.sel = None
  /\ a = "CONTROL" => ui.state.controller[ui.state.city] # Me
  /\ a \in Ability => ui.state.intel > Price[a]
  /\ a = "LOCATE" => ui.state.known = None
  /\ a \in Permanent => a \notin ui.state.unlocked

Enabled(a) ==
  /\ MayAct /\ ui.sel = None
  /\ a = "CONTROL" => ui.state.controller[ui.state.city] # Me
  /\ a \in Ability => ui.state.intel >= Price[a]
  /\ a = "LOCATE" => ui.state.known = None
  /\ a \in Permanent => a \notin ui.state.unlocked

EndTurnEnabled == ShownTurn /\ ui.over = None /\ ui.sel = None

\* A city takes clicks when it is on the map; it becomes a move target when it is
\* a neighbour.
Clickable(c) == MayAct /\ c \notin ui.state.gone
Target(c) == IF Near(c) /\ c # ui.state.city THEN c ELSE None

\* What a click makes of the selection.
Picks(sel, high) == ui' = [ui EXCEPT !.sel = sel, !.high = high]

\* sendAction and sendEndTurn: without a link nothing is sent, and nobody is told.
Sends(a, c) == up' = IF linked THEN Append(up, Ask(a, c)) ELSE up
Room == Len(up) < MaxInFlight
Still == UNCHANGED <<matchVars, linked, down>>

\* handleCityClick.  The second click on the target moves.
CityClick(c) ==
  /\ Clickable(c)
  /\ IF ui.high = c /\ ui.sel = c
     THEN /\ Room /\ "MOVE" \in Commands
          /\ Sends("MOVE", c)
          /\ Picks(None, None)
     ELSE /\ IF ui.high = c THEN Picks(None, None) ELSE Picks(Target(c), c)
          /\ UNCHANGED up
  /\ Still

\* Mutant: a click on the map forgets the highlight and keeps the target.
KeepsTarget ==
  /\ Mounted /\ ui.over = None
  /\ Picks(ui.sel, IF ui.high = ui.state.city THEN None ELSE ui.state.city)
  /\ UNCHANGED up
  /\ Still

\* handleMapClick: the player's own city is highlighted, or nothing.
MapClick ==
  /\ Mounted /\ ui.over = None
  /\ Picks(None, IF ui.high = ui.state.city THEN None ELSE ui.state.city)
  /\ UNCHANGED up
  /\ Still

\* The cross on the hint about a highlighted city.
Dismiss ==
  /\ MayAct /\ ui.high \notin {None, ui.state.city}
  /\ Picks(None, None)
  /\ UNCHANGED up
  /\ Still

\* Every button of the action bar but END TURN gives up the selection.
Press(a) ==
  /\ Enabled(a) /\ Room
  /\ Sends(a, None)
  /\ Picks(None, None)
  /\ Still

PressEndTurn ==
  /\ EndTurnEnabled /\ Room
  /\ Sends("END_TURN", None)
  /\ UNCHANGED ui
  /\ Still

Buttons == Commands \cap (Ability \cup {"WAIT", "STRIKE", "CONTROL"})

Clicks ==
  \/ \E c \in City : CityClick(c)
  \/ MapClick
  \/ Dismiss
  \/ \E a \in Buttons : Press(a)
  \/ "END_TURN" \in Commands /\ PressEndTurn

-----------------------------------------------------------------------------
(* What the board makes of a message.                                      *)

\* The effect on a new initialState, which also brings back an end that was missed.
\* Mutant: it does not.
MissesTheEnd(u, st) == [u EXCEPT !.state = st]
Synced(u, st) ==
  [u EXCEPT !.state = st, !.over = IF st.over THEN st.winner ELSE @]

\* handleMatchState: a turn that has passed takes the selection with it, once a
\* first message has been handled to compare with.
OnState(u, st) ==
  LET turned == u.heard /\ u.state.turn # st.turn
  IN  [Synced(u, st) EXCEPT !.heard = TRUE,
                            !.sel = IF turned THEN None ELSE @,
                            !.high = IF turned THEN None ELSE @]

\* The component is mounted by MATCH_START, and hears the state that follows, or
\* with that state, when React renders later: then it subscribes too late for it.
FirstState(st) ==
  {[Synced(Blank, st) EXCEPT !.heard = h] : h \in BOOLEAN}

Hears ==
  /\ down # <<>>
  /\ down' = Tail(down)
  /\ LET m == Head(down)
     IN  \/ /\ m.type = "MATCH_STATE" /\ Mounted
            /\ ui' = OnState(ui, m.payload)
         \/ /\ m.type = "MATCH_STATE" /\ ~Mounted
            /\ ui' \in FirstState(m.payload)
         \/ /\ m.type = "GAME_OVER" /\ Mounted
            /\ ui' = [ui EXCEPT !.over = m.payload]
         \/ /\ m.type = "ERROR" \/ (m.type = "GAME_OVER" /\ ~Mounted)
            /\ UNCHANGED ui
  /\ UNCHANGED <<matchVars, linked, up>>

-----------------------------------------------------------------------------
(* The match, seen from this player's link.                                *)

\* What a step sends the player: GAME_OVER, then the state.  A state sent again
\* unchanged is only said by Reconnect of the opponent, which may follow any step.
News ==
  (IF verdict'[Me] # verdict[Me] THEN <<Tell("GAME_OVER", game'.winner)>> ELSE <<>>)
  \o (IF screen'[Me] # screen[Me] THEN <<Tell("MATCH_STATE", screen'[Me])>> ELSE <<>>)

Again == IF started THEN <<Tell("MATCH_STATE", screen'[Me])>> ELSE <<>>
Refusal == <<Tell("ERROR", None)>>

Delivers(msgs) == down' = IF linked THEN down \o msgs ELSE down
Listens == Len(down) < MaxUnheard

\* The check the match makes of a command, beside that of its arrival in time.
Legal(r) ==
  LET g == ClearNotices(game, Me)
      a == r.action
  IN  /\ Active
      /\ a = "MOVE"    => CanMove(g, Me, r.target)
      /\ a = "STRIKE"  => CanStrike(g, Me)
      /\ a = "WAIT"    => CanWait(g, Me)
      /\ a = "CONTROL" => CanControl(g, Me)
      /\ a \in Ability => CanUse(g, Me, a)
      /\ a = "END_TURN" => MyTurn(game, Me)

Serves(r) ==
  LET a == r.action
  IN  /\ a = "MOVE"     => HandleMove(Me, r.target)
      /\ a = "STRIKE"   => HandleStrike(Me)
      /\ a = "WAIT"     => HandleWait(Me)
      /\ a = "CONTROL"  => HandleControl(Me)
      /\ a \in Ability  => HandleAbility(Me, a)
      /\ a = "END_TURN" => IF Legal(r) THEN HandleEndTurn(Me) ELSE UNCHANGED matchVars

\* Only a command that comes after the deadline of the opponent's turn is answered
\* by the new state instead of an error.
Answer(r) ==
  IF Legal(r) \/ (r.action # "END_TURN" /\ TimedOut /\ game.turn # Me) THEN News ELSE Refusal

Arrives ==
  /\ up # <<>> /\ Listens
  /\ Serves(Head(up))
  /\ up' = Tail(up)
  /\ Delivers(Answer(Head(up)))
  /\ UNCHANGED <<linked, ui>>

\* The clocks, and the opponent, whose own browser and broken connections are left
\* out: module Match has them, and here they would only be one more way to the end.
Proceeds ==
  /\ Listens
  /\ \/ /\ Start \/ CheckForTimeout \/ Pass \/ Issue(Opp(Me))
        /\ Delivers(News)
     \/ Reconnect(Opp(Me)) /\ Delivers(Again)
  /\ UNCHANGED <<linked, up, ui>>

-----------------------------------------------------------------------------
(* The link.                                                               *)

\* Mutant: messages of the old socket are still handled.
LateMessages ==
  /\ linked
  /\ linked' = FALSE
  /\ up' = <<>>
  /\ UNCHANGED <<matchVars, down, ui>>

\* Everything under way is lost; the server finds out when it does.
Breaks ==
  /\ linked
  /\ linked' = FALSE
  /\ up' = <<>>
  /\ down' = <<>>
  /\ UNCHANGED <<matchVars, ui>>

Noticed ==
  /\ ~linked /\ away[Me] = Here
  /\ Disconnect(Me)
  /\ UNCHANGED <<linked, up, down, ui>>

\* The player is back, on the same page or on a page loaded anew.
Relinks(u) ==
  /\ ~linked
  /\ linked' = TRUE
  /\ Reconnect(Me)
  /\ down' = Again
  /\ ui' = u
  /\ UNCHANGED up

BoardNext == Clicks \/ Hears \/ Arrives \/ Proceeds \/ Breaks \/ Noticed
             \/ \E u \in {ui, Blank} : Relinks(u)

BoardSpec == BoardInit /\ [][BoardNext]_boardVars
=============================================================================
