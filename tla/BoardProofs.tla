---------------------------- MODULE BoardProofs ----------------------------
(***************************************************************************)
(* Proofs about GameBoard: joined to a board and a link that breaks, the   *)
(* match is still the match of module Match, so all that is proved of it   *)
(* holds; the move target on the board is always the marked city; and      *)
(* ViewInv, which follows the states under way from the match to the       *)
(* board: what is shown in the end, what is offered, and why some of it is *)
(* refused.                                                                *)
(***************************************************************************)
EXTENDS GameBoardProps, MatchProofs, SequenceTheorems

\* What is under way to the match is what the board can ask for.
Sendable ==
  {q \in [action : Buttons \cup {"MOVE", "END_TURN"}, target : City \cup {None}] :
     q.action = "MOVE" => q.target \in City}

UpOK == up \in Seq(Sendable)

Marked(u) == {"sel", "high"} \subseteq DOMAIN u /\ (u.sel # None => u.high = u.sel)

BoardInv == UpOK /\ Marked(ui)

-----------------------------------------------------------------------------

LEMMA SendsOK ==
  ASSUME UpOK, NEW a, NEW c, Ask(a, c) \in Sendable, Sends(a, c)
  PROVE  UpOK'
  BY DEF UpOK, Sends

LEMMA AskOK ==
  /\ \A c \in City : Ask("MOVE", c) \in Sendable
  /\ \A a \in Buttons : a # "MOVE" /\ Ask(a, None) \in Sendable
  /\ Ask("END_TURN", None) \in Sendable
  BY DEF Ask, Sendable, Buttons, Ability, Permanent

LEMMA PicksOK ==
  ASSUME Marked(ui), NEW sel, NEW high, sel # None => high = sel, Picks(sel, high)
  PROVE  Marked(ui')
  BY DEF Marked, Picks

LEMMA ClicksKeep ==
  ASSUME BoardInv, Clicks
  PROVE  BoardInv' /\ UNCHANGED matchVars
  <1>1. ASSUME NEW c \in City, CityClick(c) PROVE BoardInv'
    <2>1. CASE ui.high = c /\ ui.sel = c
      BY <1>1, <2>1, AskOK, SendsOK, PicksOK DEF CityClick, BoardInv
    <2>2. CASE ~(ui.high = c /\ ui.sel = c)
      <3>1. UpOK'
        BY <1>1, <2>2 DEF CityClick, BoardInv, UpOK
      <3>2. Target(c) # None => c = Target(c)
        BY DEF Target
      <3> QED BY <1>1, <2>2, <3>1, <3>2, PicksOK DEF CityClick, BoardInv
    <2> QED BY <2>1, <2>2
  <1>2. ASSUME MapClick PROVE BoardInv'
    <2>1. UpOK'
      BY <1>2 DEF MapClick, BoardInv, UpOK
    <2> QED BY <1>2, <2>1, PicksOK DEF MapClick, BoardInv
  <1>3. ASSUME Dismiss PROVE BoardInv'
    <2>1. UpOK'
      BY <1>3 DEF Dismiss, BoardInv, UpOK
    <2> QED BY <1>3, <2>1, PicksOK DEF Dismiss, BoardInv
  <1>4. ASSUME NEW a \in Buttons, Press(a) PROVE BoardInv'
    BY <1>4, AskOK, SendsOK, PicksOK DEF Press, BoardInv
  <1>5. ASSUME PressEndTurn PROVE BoardInv'
    BY <1>5, AskOK, SendsOK DEF PressEndTurn, BoardInv
  <1>6. UNCHANGED matchVars
    BY DEF Clicks, CityClick, MapClick, Dismiss, Press, PressEndTurn, Still
  <1> QED BY <1>1, <1>2, <1>3, <1>4, <1>5, <1>6 DEF Clicks

LEMMA HearsKeeps ==
  ASSUME BoardInv, Hears
  PROVE  BoardInv' /\ UNCHANGED matchVars
  <1>1. UpOK' /\ UNCHANGED matchVars
    BY DEF Hears, BoardInv, UpOK
  <1>2. ASSUME NEW u, Marked(u), NEW st PROVE Marked(Synced(u, st))
    BY <1>2 DEF Marked, Synced
  <1>3. ASSUME NEW st PROVE Marked(OnState(ui, st))
    <2> DEFINE u == Synced(ui, st)
    <2>1. Marked(u)
      BY <1>2 DEF BoardInv
    <2> HIDE DEF u
    <2>2. OnState(ui, st) =
            LET turned == ui.heard /\ ui.state.turn # st.turn
            IN  [u EXCEPT !.heard = TRUE, !.sel = IF turned THEN None ELSE @,
                          !.high = IF turned THEN None ELSE @]
      BY DEF OnState, u
    <2> QED BY <2>1, <2>2 DEF Marked
  <1>4. Marked(Blank)
    BY DEF Marked, Blank
  <1>5. ASSUME NEW w PROVE Marked([ui EXCEPT !.over = w])
    BY DEF BoardInv, Marked
  <1>6. ASSUME NEW st, NEW u \in FirstState(st) PROVE Marked(u)
    <2> DEFINE x == Synced(Blank, st)
    <2>1. Marked(x)
      BY <1>2, <1>4
    <2>2. \E h \in BOOLEAN : u = [x EXCEPT !.heard = h]
      BY <1>6 DEF FirstState
    <2> HIDE DEF x
    <2> QED BY <2>1, <2>2 DEF Marked
  <1>7. Marked(ui')
    <2> DEFINE m == Head(down)
    <2>1. \/ ui' = OnState(ui, m.payload)
          \/ ui' \in FirstState(m.payload)
          \/ ui' = [ui EXCEPT !.over = m.payload]
          \/ ui' = ui
      BY DEF Hears
    <2> HIDE DEF m
    <2> QED BY <1>3, <1>5, <1>6, <2>1 DEF BoardInv
  <1> QED BY <1>1, <1>7 DEF BoardInv

\* The match serves what the board asks as it serves any player.
LEMMA ServesIssues ==
  ASSUME NEW r \in Sendable, Serves(r)
  PROVE  Issue(Me) \/ UNCHANGED matchVars
  <1>1. /\ r.action \in Ability \cup {"WAIT", "STRIKE", "CONTROL", "MOVE", "END_TURN"}
        /\ r.action = "MOVE" => r.target \in City
    BY DEF Sendable, Buttons
  <1> QED BY <1>1 DEF Serves, Issue

LEMMA BoardStep ==
  ASSUME BoardInv, [BoardNext]_boardVars
  PROVE  BoardInv' /\ [MatchNext]_matchVars
  <1>1. Me \in Side /\ Opp(Me) \in Side
    BY BoardAssumption, OppFacts
  <1>2. CASE UNCHANGED boardVars
    BY <1>2 DEF boardVars, BoardInv, UpOK
  <1>3. CASE Clicks
    BY <1>3, ClicksKeep
  <1>4. CASE Hears
    BY <1>4, HearsKeeps
  <1>5. CASE Arrives
    <2>1. up # <<>> /\ up' = Tail(up) /\ ui' = ui /\ Serves(Head(up))
      BY <1>5 DEF Arrives
    <2>2. Head(up) \in Sendable /\ UpOK'
      BY <2>1 DEF BoardInv, UpOK
    <2> QED BY <1>1, <2>1, <2>2, ServesIssues DEF BoardInv, MatchNext
  <1>6. CASE Proceeds
    <2>1. up' = up /\ ui' = ui
      BY <1>6 DEF Proceeds
    <2>2. Start \/ CheckForTimeout \/ Pass \/ Issue(Opp(Me)) \/ Reconnect(Opp(Me))
      BY <1>6 DEF Proceeds
    <2> QED BY <1>1, <2>1, <2>2 DEF BoardInv, UpOK, MatchNext
  <1>7. CASE Breaks
    BY <1>7 DEF Breaks, BoardInv, UpOK
  <1>8. CASE Noticed
    BY <1>1, <1>8 DEF Noticed, BoardInv, UpOK, MatchNext
  <1>9. ASSUME NEW u \in {ui, Blank}, Relinks(u) PROVE BoardInv' /\ [MatchNext]_matchVars
    <2>1. Marked(u)
      BY DEF BoardInv, Marked, Blank
    <2> QED BY <1>1, <1>9, <2>1 DEF Relinks, BoardInv, UpOK, MatchNext
  <1> QED BY <1>2, <1>3, <1>4, <1>5, <1>6, <1>7, <1>8, <1>9 DEF BoardNext

LEMMA BoardInitInv == BoardInit => BoardInv
  BY DEF BoardInit, BoardInv, UpOK, Marked, Blank

\* With a board, a link that breaks and a player that clicks on states that may be
\* old, the match is the match of module Match: every step is one of its steps or
\* leaves it alone.  All that is proved of MatchSpec holds.
THEOREM BoardIsAMatch == BoardSpec => MatchSpec
  <1>1. BoardInit => MatchInit
    BY DEF BoardInit
  <1> QED BY <1>1, BoardInitInv, BoardStep, PTL DEF BoardSpec, MatchSpec

\* No click, message, new turn or reload, in any order, leaves a move target that
\* is not the marked city.
THEOREM SelectionAlwaysShown == BoardSpec => []SelectionShown
  <1>1. BoardInv => SelectionShown
    BY DEF BoardInv, Marked, SelectionShown
  <1> QED BY <1>1, BoardInitInv, BoardStep, PTL DEF BoardSpec

-----------------------------------------------------------------------------
(* What is under way to the board, and what the board makes of it.         *)

States == {MatchState(g, Me) : g \in Game}

Note == [type : {"MATCH_STATE"}, payload : States]
        \cup [type : {"GAME_OVER"}, payload : Side]
        \cup [type : {"ERROR"}, payload : {None}]

UiOK ==
  ui \in [state : States \cup {None}, heard : BOOLEAN, sel : City \cup {None},
          high : City \cup {None}, over : Side \cup {None}]

LinkOK ==
  /\ linked \in BOOLEAN
  /\ Len(up) <= MaxInFlight
  /\ down \in Seq(Note) /\ Len(down) <= MaxUnheard + 1
  /\ ~linked => up = <<>> /\ down = <<>>

\* Message m says nothing false of the end of game g.
TrueOf(m, g) ==
  /\ m.type = "MATCH_STATE" /\ m.payload.over => g.over /\ m.payload.winner = g.winner
  /\ m.type = "GAME_OVER" => g.over /\ m.payload = g.winner

\* The overlay of u is right about game g, and does not miss an end that u shows.
EndOK(u, g) ==
  /\ u.over # None => g.over /\ u.over = g.winner
  /\ u.state # None /\ u.state.over =>
       g.over /\ u.state.winner = g.winner /\ u.over = g.winner

Stateless(d) == \A i \in 1..Len(d) : d[i].type # "MATCH_STATE"
LastState(d, i) ==
  d[i].type = "MATCH_STATE" /\ \A j \in (i + 1)..Len(d) : d[j].type # "MATCH_STATE"

\* A board that shows st and handles all of d then shows end.
Leads(d, st, end) ==
  /\ \A i \in 1..Len(d) : LastState(d, i) => d[i].payload = end
  /\ Stateless(d) => st = end

ViewInv ==
  /\ UiOK /\ LinkOK
  /\ \A i \in 1..Len(down) : TrueOf(down[i], game)
  /\ EndOK(ui, game)
  /\ linked => Leads(down, ui.state, screen[Me])
  /\ ~started => screen[Me] = None /\ ui.state = None /\ Stateless(down)

LEMMA LeadsOn ==
  ASSUME NEW S, NEW d \in Seq(S), NEW e \in Seq(S), NEW st, NEW mid, NEW end,
         Leads(d, st, mid), Leads(e, mid, end)
  PROVE  Leads(d \o e, st, end)
  <1> DEFINE w == d \o e
             m == Len(d)
             n == Len(e)
  <1>1. m \in Nat /\ n \in Nat
    OBVIOUS
  <1>2. Len(w) = m + n /\ \A i \in 1..(m + n) : w[i] = IF i <= m THEN d[i] ELSE e[i - m]
    BY ConcatProperties
  <1> HIDE DEF w
  <1>3. \A i \in 1..m : i \in 1..(m + n) /\ w[i] = d[i]
    BY <1>1, <1>2
  <1>4. \A i \in 1..n : m + i \in 1..(m + n) /\ w[m + i] = e[i]
    <2> SUFFICES ASSUME NEW i \in 1..n PROVE m + i \in 1..(m + n) /\ w[m + i] = e[i]
      OBVIOUS
    <2>1. m + i \in 1..(m + n) /\ ~(m + i <= m) /\ m + i - m = i
      BY <1>1
    <2> QED BY <1>2, <2>1
  <1>5. ASSUME NEW i \in 1..Len(w), LastState(w, i) PROVE w[i].payload = end
    <2>1. CASE i <= m
      <3>1. i \in 1..m /\ w[i] = d[i]
        BY <1>1, <1>2, <2>1
      <3>2. \A j \in 1..n : m + j \in (i + 1)..Len(w)
        BY <1>1, <1>2, <2>1, <3>1
      <3>3. Stateless(e)
        BY <1>4, <1>5, <3>2 DEF LastState, Stateless
      <3>4. \A j \in (i + 1)..m : j \in (i + 1)..Len(w) /\ j \in 1..m
        BY <1>1, <1>2, <3>1
      <3>5. LastState(d, i)
        BY <1>3, <1>5, <3>1, <3>4 DEF LastState
      <3> QED BY <3>1, <3>3, <3>5 DEF Leads
    <2>2. CASE ~(i <= m)
      <3>1. i - m \in 1..n /\ w[i] = e[i - m]
        BY <1>1, <1>2, <2>2
      <3>2. \A j \in (i - m + 1)..n : m + j \in (i + 1)..Len(w) /\ j \in 1..n
        BY <1>1, <1>2, <3>1
      <3>3. LastState(e, i - m)
        BY <1>4, <1>5, <3>1, <3>2 DEF LastState
      <3> QED BY <3>1, <3>3 DEF Leads
    <2> QED BY <2>1, <2>2
  <1>6. ASSUME Stateless(w) PROVE st = end
    <2>1. Stateless(d) /\ Stateless(e)
      BY <1>2, <1>3, <1>4, <1>6 DEF Stateless
    <2> QED BY <2>1 DEF Leads
  <1> QED BY <1>5, <1>6 DEF Leads, w

LEMMA LeadsAfterOne ==
  ASSUME NEW S, NEW d \in Seq(S), d # <<>>, NEW st, NEW end, Leads(d, st, end)
  PROVE  Leads(Tail(d), IF Head(d).type = "MATCH_STATE" THEN Head(d).payload ELSE st, end)
  <1> DEFINE w == Tail(d)
             n == Len(d)
             now == IF Head(d).type = "MATCH_STATE" THEN Head(d).payload ELSE st
  <1>1. n \in Nat \ {0} /\ Head(d) = d[1]
    OBVIOUS
  <1>2. Len(w) = n - 1 /\ \A i \in 1..(n - 1) : w[i] = d[i + 1]
    BY HeadTailProperties
  <1> HIDE DEF w
  <1>3. ASSUME NEW i \in 1..Len(w), LastState(w, i) PROVE w[i].payload = end
    <2>1. i + 1 \in 1..n /\ w[i] = d[i + 1]
      BY <1>1, <1>2
    <2>2. \A j \in (i + 1 + 1)..n : j - 1 \in (i + 1)..Len(w) /\ w[j - 1] = d[j]
      BY <1>1, <1>2, <2>1
    <2>3. LastState(d, i + 1)
      BY <1>3, <2>1, <2>2 DEF LastState
    <2> QED BY <2>1, <2>3 DEF Leads
  <1>4. ASSUME Stateless(w) PROVE now = end
    <2>1. \A j \in (1 + 1)..n : j - 1 \in 1..Len(w) /\ w[j - 1] = d[j]
      <3> SUFFICES ASSUME NEW j \in (1 + 1)..n
                   PROVE  j - 1 \in 1..Len(w) /\ w[j - 1] = d[j]
        OBVIOUS
      <3>1. j - 1 \in 1..(n - 1) /\ j - 1 + 1 = j
        BY <1>1
      <3> QED BY <1>2, <3>1
    <2>2. \A j \in (1 + 1)..n : d[j].type # "MATCH_STATE"
      BY <1>4, <2>1 DEF Stateless
    <2>3. CASE d[1].type = "MATCH_STATE"
      BY <1>1, <2>2, <2>3 DEF LastState, Leads
    <2>4. CASE d[1].type # "MATCH_STATE"
      <3>1. Stateless(d)
        <4> SUFFICES ASSUME NEW j \in 1..n PROVE d[j].type # "MATCH_STATE"
          BY DEF Stateless
        <4>1. j = 1 \/ j \in (1 + 1)..n
          BY <1>1
        <4> QED BY <2>2, <2>4, <4>1
      <3> QED BY <1>1, <2>4, <3>1 DEF Leads
    <2> QED BY <2>3, <2>4
  <1> QED BY <1>3, <1>4 DEF Leads, w

LEMMA StateFacts ==
  ASSUME NEW st \in States
  PROVE  st.city \in City /\ st.over \in BOOLEAN /\ st.winner \in Side \cup {None}
  <1>1. PICK g \in Game : st = MatchState(g, Me)
    BY DEF States
  <1>2. Good(g) /\ Me \in Side
    BY GoodIsGame, BoardAssumption
  <1> QED BY <1>1, <1>2 DEF MatchState, Good, Typed

\* What is true of the end stays true, because the end is final.
LEMMA EndStays ==
  ASSUME NEW g, NEW h, g.over => h = g
  PROVE  /\ \A m : TrueOf(m, g) => TrueOf(m, h)
         /\ \A u : EndOK(u, g) => EndOK(u, h)
  BY DEF TrueOf, EndOK

-----------------------------------------------------------------------------
(* What the match sends.                                                   *)

LEMMA MatchTells ==
  ASSUME MatchInv, [MatchNext]_matchVars
  PROVE  /\ game.over => game' = game
         /\ started => started'
         /\ started' => /\ game' \in Game
                        /\ screen'[Me] \in {screen[Me], MatchState(game', Me)}
         /\ verdict'[Me] # verdict[Me] => game'.over /\ game'.winner \in Side
  <1>1. StepKind /\ MatchInv' /\ Me \in Side
    BY StepKinds, MatchStep_Inv, BoardAssumption
  <1>2. game.over => game' = game
    BY <1>1 DEF StepKind, Keeps, Begins, Quits, Goes, Plays, Active
  <1>3. started => started'
    BY <1>1 DEF StepKind, Keeps, Begins, Quits, Goes, Plays
  <1>4. ASSUME started'
        PROVE  game' \in Game /\ screen'[Me] \in {screen[Me], MatchState(game', Me)}
    <2>1. game' \in Game
      BY <1>1, <1>4, GoodIsGame DEF MatchInv, Live
    <2>2. Shows \/ ScreenKind
      BY <1>4, StepScreen
    <2> QED BY <1>1, <2>1, <2>2 DEF ScreenKind, Shows, Hides, NoticesOnly, Unseen, Broadcast
  <1>5. ASSUME verdict'[Me] # verdict[Me] PROVE game'.over /\ game'.winner \in Side
    <2>1. game'.over
      BY <1>1, <1>2, <1>5 DEF MatchInv, OneVerdict
    <2>2. CASE started'
      BY <1>1, <2>1, <2>2 DEF MatchInv, Live, Secure, Decided
    <2>3. CASE ~started'
      <3>1. game' \in Unstarted
        BY <1>1, <2>3 DEF MatchInv
      <3> QED BY <2>1, <3>1, WaitingFacts DEF Unstarted, Side
    <2> QED BY <2>1, <2>2, <2>3
  <1> QED BY <1>2, <1>3, <1>4, <1>5

\* These messages are what a step of the match owes the board.
Fits(msgs) ==
  /\ msgs \in Seq(Note) /\ Len(msgs) <= 2
  /\ \A i \in 1..Len(msgs) : TrueOf(msgs[i], game')
  /\ Leads(msgs, screen[Me], screen'[Me])
  /\ ~started' => Stateless(msgs) /\ screen'[Me] = screen[Me]

LEMMA FewMessages ==
  ASSUME NEW st
  PROVE  /\ Stateless(<<>>) /\ Leads(<<>>, st, st)
         /\ \A m : m.type # "MATCH_STATE" => Stateless(<<m>>) /\ Leads(<<m>>, st, st)
         /\ \A m : m.type = "MATCH_STATE" => Leads(<<m>>, st, m.payload)
  BY DEF Stateless, LastState, Leads

LEMMA NewsFits ==
  ASSUME MatchInv, [MatchNext]_matchVars, ~started' => screen'[Me] = screen[Me]
  PROVE  Fits(News)
  <1> DEFINE ended == Tell("GAME_OVER", game'.winner)
             state == Tell("MATCH_STATE", screen'[Me])
             a == IF verdict'[Me] # verdict[Me] THEN <<ended>> ELSE <<>>
             b == IF screen'[Me] # screen[Me] THEN <<state>> ELSE <<>>
  <1>1. News = a \o b
    BY DEF News
  <1>2. /\ ended.type = "GAME_OVER" /\ ended.payload = game'.winner
        /\ verdict'[Me] # verdict[Me] => ended \in Note /\ TrueOf(ended, game')
    BY MatchTells DEF Tell, Note, TrueOf
  <1>3. /\ state.type = "MATCH_STATE" /\ state.payload = screen'[Me]
        /\ screen'[Me] # screen[Me] => state \in Note /\ TrueOf(state, game')
    <2> SUFFICES ASSUME screen'[Me] # screen[Me] PROVE state \in Note /\ TrueOf(state, game')
      BY DEF Tell
    <2>1. started' /\ game' \in Game /\ screen'[Me] = MatchState(game', Me)
      BY MatchTells, MatchStep_Inv DEF MatchInv
    <2>2. state \in Note
      BY <2>1 DEF Note, States, Tell
    <2>3. TrueOf(state, game')
      BY <2>1 DEF TrueOf, Tell, MatchState
    <2> QED BY <2>2, <2>3
  <1> HIDE DEF ended, state
  <1>4. /\ a \in Seq(Note) /\ Len(a) <= 1 /\ Len(a) \in Nat
        /\ \A i \in 1..Len(a) : TrueOf(a[i], game')
        /\ Stateless(a) /\ Leads(a, screen[Me], screen[Me])
    <2>1. CASE verdict'[Me] # verdict[Me]
      <3>1. a = <<ended>> /\ ended \in Note /\ TrueOf(ended, game')
        BY <1>2, <2>1
      <3>2. Stateless(<<ended>>) /\ Leads(<<ended>>, screen[Me], screen[Me])
        BY <1>2, FewMessages
      <3> HIDE DEF a
      <3> QED BY <3>1, <3>2
    <2>2. CASE verdict'[Me] = verdict[Me]
      BY <2>2, FewMessages
    <2> QED BY <2>1, <2>2
  <1>5. /\ b \in Seq(Note) /\ Len(b) <= 1 /\ Len(b) \in Nat
        /\ \A i \in 1..Len(b) : TrueOf(b[i], game')
        /\ Leads(b, screen[Me], screen'[Me])
        /\ ~started' => Stateless(b)
    BY <1>3, FewMessages
  <1> HIDE DEF a, b
  <1>6. /\ a \o b \in Seq(Note)
        /\ Len(a \o b) = Len(a) + Len(b)
        /\ \A i \in 1..(Len(a) + Len(b)) : (a \o b)[i] = IF i <= Len(a) THEN a[i] ELSE b[i - Len(a)]
    BY <1>4, <1>5, ConcatProperties
  <1>7. ASSUME NEW i \in 1..Len(a \o b)
        PROVE  (a \o b)[i] \in {a[k] : k \in 1..Len(a)} \cup {b[k] : k \in 1..Len(b)}
    <2>1. i <= Len(a) \/ i - Len(a) \in 1..Len(b)
      BY <1>4, <1>5, <1>6
    <2> QED BY <1>4, <1>5, <1>6, <2>1
  <1>8. Leads(a \o b, screen[Me], screen'[Me])
    BY <1>4, <1>5, LeadsOn
  <1>9. ~started' => Stateless(a \o b)
    BY <1>4, <1>5, <1>7 DEF Stateless
  <1> QED BY <1>1, <1>4, <1>5, <1>6, <1>7, <1>8, <1>9 DEF Fits

\* A state sent again is the state the player was just sent, whatever it shows.
LEMMA AgainFits ==
  ASSUME MatchInv, [MatchNext]_matchVars, NEW s \in Side, Reconnect(s), NEW st,
         ~started => st = screen[Me]
  PROVE  /\ Again \in Seq(Note) /\ Len(Again) <= 1
         /\ \A i \in 1..Len(Again) : TrueOf(Again[i], game')
         /\ Leads(Again, st, screen'[Me])
         /\ ~started' => Stateless(Again) /\ screen'[Me] = screen[Me]
  <1> DEFINE state == Tell("MATCH_STATE", screen'[Me])
  <1>1. started' = started /\ game' = game /\ Me \in Side
    BY BoardAssumption DEF Reconnect
  <1>2. CASE started
    <2>1. Again = <<state>>
      BY <1>2 DEF Again
    <2>2. screen'[Me] = MatchState(game', Me) /\ game' \in Game
      BY <1>1, <1>2, MatchTells DEF Reconnect, Broadcast
    <2>3. state \in Note /\ TrueOf(state, game')
      <3>1. state \in Note
        BY <2>2 DEF Note, States, Tell
      <3>2. TrueOf(state, game')
        BY <2>2 DEF TrueOf, Tell, MatchState
      <3> QED BY <3>1, <3>2
    <2>4. state.type = "MATCH_STATE" /\ state.payload = screen'[Me]
      BY DEF Tell
    <2> HIDE DEF state
    <2>5. Leads(<<state>>, st, screen'[Me])
      BY <2>4, FewMessages
    <2>6. Len(<<state>>) = 1 /\ <<state>>[1] = state /\ <<state>> \in Seq(Note)
      BY <2>3
    <2> QED BY <1>1, <1>2, <2>1, <2>3, <2>5, <2>6
  <1>3. CASE ~started
    <2>1. Again = <<>> /\ screen'[Me] = screen[Me]
      BY <1>3 DEF Again, Reconnect
    <2> QED BY <1>3, <2>1, FewMessages
  <1> QED BY <1>2, <1>3, <1>1 DEF MatchInv

\* An error changes nothing that is shown.
LEMMA RefusalFits ==
  ASSUME screen'[Me] = screen[Me]
  PROVE  Fits(Refusal)
  <1> DEFINE m == Tell("ERROR", None)
  <1>1. m \in Note /\ m.type = "ERROR" /\ TrueOf(m, game')
    BY DEF Tell, Note, TrueOf
  <1> HIDE DEF m
  <1>2. Stateless(<<m>>) /\ Leads(<<m>>, screen[Me], screen[Me])
    BY <1>1, FewMessages
  <1>3. Refusal = <<m>>
    BY DEF Refusal, m
  <1> QED BY <1>1, <1>2, <1>3 DEF Fits

-----------------------------------------------------------------------------
(* The steps of the board.                                                 *)

LEMMA PicksTyped ==
  ASSUME UiOK, NEW sel \in City \cup {None}, NEW high \in City \cup {None}, Picks(sel, high)
  PROVE  UiOK' /\ ui'.state = ui.state /\ ui'.over = ui.over
  BY DEF UiOK, Picks

LEMMA SendsTyped ==
  ASSUME UpOK, LinkOK, NEW a, NEW c, Sends(a, c), Room
  PROVE  Len(up') <= MaxInFlight /\ (~linked => up' = <<>>)
  <1>1. CASE linked
    <2>1. Len(up) \in Nat /\ Len(up') = Len(up) + 1 /\ MaxInFlight \in Nat
      BY <1>1, BoardAssumption DEF UpOK, Sends
    <2> QED BY <1>1, <2>1 DEF Room
  <1>2. CASE ~linked
    BY <1>2 DEF Sends, LinkOK
  <1> QED BY <1>1, <1>2

LEMMA ClicksView ==
  ASSUME BoardInv, ViewInv, Clicks
  PROVE  ViewInv'
  <1>1. UpOK /\ UiOK /\ LinkOK
    BY DEF BoardInv, ViewInv
  <1>2. ui.sel \in City \cup {None} /\ ui.state \in States \cup {None}
    BY <1>1 DEF UiOK
  <1> DEFINE Ui == UiOK' /\ ui'.state = ui.state /\ ui'.over = ui.over
             Up == Len(up') <= MaxInFlight /\ (~linked => up' = <<>>)
  <1>3. up' = up => Up
    BY <1>1 DEF LinkOK
  <1>4. ASSUME NEW c \in City, CityClick(c) PROVE Ui /\ Up
    <2>1. CASE ui.high = c /\ ui.sel = c
      BY <1>1, <1>4, <2>1, PicksTyped, SendsTyped DEF CityClick
    <2>2. CASE ~(ui.high = c /\ ui.sel = c)
      <3>1. Target(c) \in City \cup {None}
        BY DEF Target
      <3> QED BY <1>1, <1>3, <1>4, <2>2, <3>1, PicksTyped DEF CityClick
    <2> QED BY <2>1, <2>2
  <1>5. ASSUME MapClick PROVE Ui /\ Up
    <2>1. ui.state.city \in City
      BY <1>2, <1>5, StateFacts DEF MapClick, Mounted
    <2> QED BY <1>1, <1>3, <1>5, <2>1, PicksTyped DEF MapClick
  <1>6. ASSUME Dismiss PROVE Ui /\ Up
    BY <1>1, <1>3, <1>6, PicksTyped DEF Dismiss
  <1>7. ASSUME NEW a \in Buttons, Press(a) PROVE Ui /\ Up
    BY <1>1, <1>7, PicksTyped, SendsTyped DEF Press
  <1>8. ASSUME PressEndTurn PROVE Ui /\ Up
    BY <1>1, <1>8, SendsTyped DEF PressEndTurn, UiOK
  <1>9. Ui /\ Up
    BY <1>4, <1>5, <1>6, <1>7, <1>8 DEF Clicks
  <1>10. UNCHANGED <<matchVars, linked, down>>
    BY DEF Clicks, CityClick, MapClick, Dismiss, Press, PressEndTurn, Still
  <1>11. game' = game /\ screen' = screen /\ started' = started /\ linked' = linked /\ down' = down
    BY <1>10 DEF matchVars
  <1>12. LinkOK'
    BY <1>1, <1>9, <1>11 DEF LinkOK
  <1>13. EndOK(ui', game')
    BY <1>9, <1>11 DEF ViewInv, EndOK
  <1> QED BY <1>9, <1>11, <1>12, <1>13 DEF ViewInv

\* A board in its five parts.
Drawn(state, heard, sel, high, over) ==
  [state |-> state, heard |-> heard, sel |-> sel, high |-> high, over |-> over]

LEMMA DrawnFacts ==
  ASSUME NEW state, NEW heard, NEW sel, NEW high, NEW over
  PROVE  LET u == Drawn(state, heard, sel, high, over)
         IN  /\ u.state = state /\ u.heard = heard /\ u.sel = sel /\ u.high = high
             /\ u.over = over
  BY DEF Drawn

\* What the board makes of a state: shown as it is, and its end with it.
LEMMA ShowsState ==
  ASSUME NEW st \in States, NEW h \in BOOLEAN, NEW sel \in City \cup {None},
         NEW high \in City \cup {None}, NEW over \in Side \cup {None},
         ui' = Drawn(st, h, sel, high, over),
         NEW g, over # None => g.over /\ over = g.winner,
         st.over => g.over /\ st.winner = g.winner /\ over = g.winner
  PROVE  UiOK' /\ ui'.state = st /\ EndOK(ui', g)
  <1>1. UiOK'
    BY DEF UiOK, Drawn
  <1>2. ui'.state = st /\ ui'.over = over
    BY DrawnFacts
  <1> QED BY <1>1, <1>2 DEF EndOK

LEMMA HearsView ==
  ASSUME BoardInv, ViewInv, Hears, MatchInv
  PROVE  ViewInv'
  <1> DEFINE m == Head(down)
             now == IF m.type = "MATCH_STATE" THEN m.payload ELSE ui.state
  <1>1. /\ UiOK /\ LinkOK /\ EndOK(ui, game) /\ down # <<>> /\ down \in Seq(Note)
        /\ linked => Leads(down, ui.state, screen[Me])
    BY DEF ViewInv, LinkOK, Hears
  <1>2. /\ down' = Tail(down) /\ up' = up /\ linked' = linked
        /\ game' = game /\ screen' = screen /\ started' = started
    BY DEF Hears, matchVars
  <1>3. /\ Len(down) \in Nat \ {0} /\ m = down[1] /\ m \in Note
        /\ down' \in Seq(Note) /\ Len(down') = Len(down) - 1
        /\ \A i \in 1..Len(down') : down'[i] = down[i + 1] /\ i + 1 \in 1..Len(down)
    BY <1>1, <1>2, HeadTailProperties
  <1>4. TrueOf(m, game) /\ \A i \in 1..Len(down') : TrueOf(down'[i], game)
    BY <1>3 DEF ViewInv
  <1>5. linked => Leads(down', now, screen[Me])
    BY <1>1, <1>2, LeadsAfterOne
  <1>6. LinkOK'
    <2>1. linked
      BY <1>1 DEF LinkOK
    <2>2. Len(down') <= MaxUnheard + 1
      BY <1>1, <1>3, BoardAssumption DEF LinkOK
    <2> QED BY <1>1, <1>2, <1>3, <2>1, <2>2 DEF LinkOK
  <1>7. ~started => screen[Me] = None /\ ui.state = None /\ m.type # "MATCH_STATE" /\ Stateless(down')
    BY <1>3 DEF ViewInv, Stateless
  <1>8. UiOK' /\ ui'.state = now /\ EndOK(ui', game)
    <2>1. CASE m.type = "MATCH_STATE"
      <3> DEFINE st == m.payload
      <3>1. st \in States
        BY <1>3, <2>1 DEF Note
      <3>2. st.over => game.over /\ st.winner = game.winner
        BY <1>4, <2>1 DEF TrueOf
      <3>3. /\ st.winner \in Side \cup {None} /\ ui.over \in Side \cup {None}
            /\ ui.over # None => game.over /\ ui.over = game.winner
        BY <1>1, <3>1, StateFacts DEF UiOK, EndOK
      <3>4. \E h \in BOOLEAN, sel \in City \cup {None}, high \in City \cup {None} :
              \E over \in {None, ui.over} :
                ui' = Drawn(st, h, sel, high, IF st.over THEN st.winner ELSE over)
        <4>1. CASE Mounted
          <5> DEFINE turned == ui.heard /\ ui.state.turn # st.turn
          <5>1. ui' = OnState(ui, st)
            BY <2>1, <4>1 DEF Hears
          <5>2. ui' = Drawn(st, TRUE, IF turned THEN None ELSE ui.sel,
                            IF turned THEN None ELSE ui.high,
                            IF st.over THEN st.winner ELSE ui.over)
            BY <1>1, <5>1 DEF OnState, Synced, UiOK, Drawn
          <5>3. ui.sel \in City \cup {None} /\ ui.high \in City \cup {None}
            BY <1>1 DEF UiOK
          <5> QED BY <5>2, <5>3
        <4>2. CASE ~Mounted
          <5>1. PICK h \in BOOLEAN : ui' = [Synced(Blank, st) EXCEPT !.heard = h]
            BY <2>1, <4>2 DEF Hears, FirstState
          <5>2. ui' = Drawn(st, h, None, None, IF st.over THEN st.winner ELSE None)
            BY <5>1 DEF Synced, Blank, Drawn
          <5> QED BY <5>2
        <4> QED BY <4>1, <4>2
      <3>5. PICK h \in BOOLEAN, sel \in City \cup {None}, high \in City \cup {None},
                 over \in {None, ui.over} :
              ui' = Drawn(st, h, sel, high, IF st.over THEN st.winner ELSE over)
        BY <3>4
      <3> DEFINE w == IF st.over THEN st.winner ELSE over
      <3>6. /\ w \in Side \cup {None}
            /\ w # None => game.over /\ w = game.winner
            /\ st.over => game.over /\ st.winner = game.winner /\ w = game.winner
        BY <3>2, <3>3
      <3>7. ui' = Drawn(st, h, sel, high, w)
        BY <3>5
      <3>8. now = st
        BY <2>1
      <3> HIDE DEF st, now, w
      <3> QED BY <3>1, <3>6, <3>7, <3>8, ShowsState
    <2>2. CASE m.type = "GAME_OVER"
      <3>1. m.payload \in Side /\ game.over /\ m.payload = game.winner
        BY <1>3, <1>4, <2>2 DEF Note, TrueOf
      <3>2. ui' \in {ui, [ui EXCEPT !.over = m.payload]}
        BY <2>2 DEF Hears
      <3> HIDE DEF m
      <3>3. UiOK' /\ ui'.state = ui.state /\ ui'.over \in {ui.over, m.payload}
        BY <1>1, <3>1, <3>2 DEF UiOK
      <3>4. EndOK(ui', game)
        BY <1>1, <3>1, <3>3 DEF EndOK
      <3> QED BY <2>2, <3>3, <3>4
    <2>3. CASE m.type = "ERROR"
      BY <1>1, <2>3 DEF Hears, UiOK
    <2> QED BY <1>3, <2>1, <2>2, <2>3 DEF Note
  <1> HIDE DEF m, now
  <1>9. ~started => ui'.state = None
    BY <1>7, <1>8 DEF now
  <1> QED BY <1>2, <1>4, <1>5, <1>6, <1>7, <1>8, <1>9 DEF ViewInv

\* After a step of the match and what it sends, the board still leads to the screen.
LEMMA DeliversKeeps ==
  ASSUME ViewInv, MatchInv, [MatchNext]_matchVars, NEW msgs, Fits(msgs), Listens,
         Delivers(msgs), ui' = ui, linked' = linked,
         Len(up') <= MaxInFlight, ~linked => up' = <<>>
  PROVE  ViewInv'
  <1>1. /\ UiOK /\ LinkOK /\ EndOK(ui, game)
        /\ linked => Leads(down, ui.state, screen[Me])
        /\ \A i \in 1..Len(down) : TrueOf(down[i], game)
        /\ ~started => screen[Me] = None /\ ui.state = None /\ Stateless(down)
    BY DEF ViewInv
  <1>2. /\ down \in Seq(Note) /\ Len(down) \in Nat /\ msgs \in Seq(Note)
        /\ Len(msgs) \in Nat /\ Len(msgs) <= 2
    BY <1>1 DEF LinkOK, Fits
  <1>3. (game.over => game' = game) /\ (started => started')
    BY MatchTells
  <1>4. UiOK' /\ EndOK(ui', game') /\ \A i \in 1..Len(down) : TrueOf(down[i], game')
    BY <1>1, <1>3, EndStays DEF UiOK
  <1>5. CASE linked
    <2>1. down' = down \o msgs
      BY <1>5 DEF Delivers
    <2>2. /\ down' \in Seq(Note)
          /\ Len(down') = Len(down) + Len(msgs)
          /\ \A i \in 1..(Len(down) + Len(msgs)) :
               down'[i] = IF i <= Len(down) THEN down[i] ELSE msgs[i - Len(down)]
      BY <1>2, <2>1, ConcatProperties
    <2>3. ASSUME NEW i \in 1..Len(down')
          PROVE  down'[i] \in {down[k] : k \in 1..Len(down)} \cup {msgs[k] : k \in 1..Len(msgs)}
      <3>1. i <= Len(down) \/ i - Len(down) \in 1..Len(msgs)
        BY <1>2, <2>2
      <3> QED BY <1>2, <2>2, <3>1
    <2>4. \A i \in 1..Len(down') : TrueOf(down'[i], game')
      BY <1>4, <2>3 DEF Fits
    <2>5. Len(down') <= MaxUnheard + 1
      BY <1>2, <2>2, BoardAssumption DEF Listens
    <2>6. LinkOK'
      BY <1>1, <1>5, <2>2, <2>5 DEF LinkOK
    <2>7. Leads(down', ui'.state, screen'[Me])
      BY <1>1, <1>2, <1>5, <2>1, LeadsOn DEF Fits
    <2>8. ~started' => screen'[Me] = None /\ ui'.state = None /\ Stateless(down')
      BY <1>1, <1>3, <2>3 DEF Fits, Stateless
    <2> QED BY <1>4, <2>4, <2>6, <2>7, <2>8 DEF ViewInv
  <1>6. CASE ~linked
    <2>1. down' = down
      BY <1>6 DEF Delivers
    <2>2. LinkOK'
      BY <1>1, <1>6, <2>1 DEF LinkOK
    <2>3. ~started' => screen'[Me] = None /\ ui'.state = None /\ Stateless(down')
      BY <1>1, <1>3, <2>1 DEF Fits
    <2> QED BY <1>4, <1>6, <2>1, <2>2, <2>3 DEF ViewInv
  <1> QED BY <1>5, <1>6

\* A command that is refused in time changes nothing the players were sent.
LEMMA RefusedSilent ==
  ASSUME NEW s, NEW ok, NEW effect, NEW hidden, HandleAction(s, ok, effect, hidden),
         ~(TimedOut /\ s # game.turn), ~(Active /\ ok)
  PROVE  screen' = screen
  BY DEF HandleAction, Dropped, Refused, sent

LEMMA RefusalSilent ==
  ASSUME NEW r \in Sendable, Serves(r), ~Legal(r),
         ~(r.action # "END_TURN" /\ TimedOut /\ game.turn # Me)
  PROVE  screen' = screen
  <1>1. r.action \in Ability \cup {"WAIT", "STRIKE", "CONTROL", "MOVE", "END_TURN"}
    BY DEF Sendable, Buttons
  <1>2. CASE r.action = "END_TURN"
    BY <1>2 DEF Serves, matchVars
  <1>3. CASE r.action = "MOVE"
    <2>1. ~(Active /\ CanMove(ClearNotices(game, Me), Me, r.target))
      BY <1>3 DEF Legal, Ability, Permanent
    <2>2. HandleMove(Me, r.target)
      BY <1>3 DEF Serves
    <2>3. ~(TimedOut /\ Me # game.turn)
      BY <1>3
    <2> QED BY <2>1, <2>2, <2>3 DEF HandleMove, HandleAction, Dropped, Refused, sent
  <1>4. CASE r.action = "STRIKE"
    <2>1. ~(Active /\ CanStrike(ClearNotices(game, Me), Me))
      BY <1>4 DEF Legal, Ability, Permanent
    <2>2. HandleStrike(Me)
      BY <1>4 DEF Serves
    <2>3. ~(TimedOut /\ Me # game.turn)
      BY <1>4
    <2> QED BY <2>1, <2>2, <2>3, RefusedSilent DEF HandleStrike
  <1>5. CASE r.action = "WAIT"
    <2>1. ~(Active /\ CanWait(ClearNotices(game, Me), Me))
      BY <1>5 DEF Legal, Ability, Permanent
    <2>2. HandleWait(Me)
      BY <1>5 DEF Serves
    <2>3. ~(TimedOut /\ Me # game.turn)
      BY <1>5
    <2> QED BY <2>1, <2>2, <2>3 DEF HandleWait, HandleAction, Dropped, Refused, sent
  <1>6. CASE r.action = "CONTROL"
    <2>1. ~(Active /\ CanControl(ClearNotices(game, Me), Me))
      BY <1>6 DEF Legal, Ability, Permanent
    <2>2. HandleControl(Me)
      BY <1>6 DEF Serves
    <2>3. ~(TimedOut /\ Me # game.turn)
      BY <1>6
    <2> QED BY <2>1, <2>2, <2>3 DEF HandleControl, HandleAction, Dropped, Refused, sent
  <1>7. CASE r.action \in Ability
    <2>1. r.action \notin {"WAIT", "STRIKE", "CONTROL", "MOVE", "END_TURN"}
      BY <1>7 DEF Ability, Permanent
    <2> QED BY <1>7, <2>1, RefusedSilent DEF Serves, Legal, HandleAbility
  <1> QED BY <1>1, <1>2, <1>3, <1>4, <1>5, <1>6, <1>7

\* Before the match starts the opponent's steps send the player nothing.
LEMMA EarlySilent ==
  ASSUME ~started', Start \/ CheckForTimeout \/ Pass \/ Issue(Opp(Me))
  PROVE  screen'[Me] = screen[Me]
  <1>1. Me \in Side /\ Opp(Me) \in Side /\ Opp(Me) # Me
    BY BoardAssumption, OppFacts
  <1>2. ASSUME CheckForTimeout PROVE FALSE
    <2>1. started
      BY <1>2 DEF CheckForTimeout, TimedOut, Active
    <2>2. started' = started
      <3>1. CASE HandleDisconnectTimeout
        BY <3>1 DEF HandleDisconnectTimeout
      <3>2. CASE HandleTurnTimeout
        BY <3>2 DEF HandleTurnTimeout
      <3> QED BY <1>2, <3>1, <3>2 DEF CheckForTimeout
    <2> QED BY <2>1, <2>2
  <1>3. ASSUME Issue(Opp(Me)) PROVE screen'[Me] = screen[Me]
    <2>1. ~started
      BY <1>1, <1>3, IssueStarted
    <2>2. CASE HandleAbort(Opp(Me))
      <3>1. Me = BETA /\ Me # ALPHA
        BY <1>1, <2>1, <2>2 DEF HandleAbort, Joined, Side
      <3> QED BY <1>1, <2>1, <2>2, <3>1 DEF HandleAbort, Broadcast, Everybody, Joined
    <2>3. CASE ~HandleAbort(Opp(Me))
      <3>1. screen' = screen
        BY <1>3, <2>1, <2>3, RefusedSilent
        DEF Issue, HandleMove, HandleStrike, HandleWait, HandleControl, HandleAbility,
            HandleUnknown, HandleEndTurn, Dropped, Refused, Active, TimedOut, sent
      <3> QED BY <3>1
    <2> QED BY <2>2, <2>3
  <1> QED BY <1>2, <1>3 DEF Start, Pass, sent

LEMMA ArrivesView ==
  ASSUME BoardInv, ViewInv, Arrives, MatchInv, [MatchNext]_matchVars
  PROVE  ViewInv'
  <1> DEFINE r == Head(up)
  <1>1. /\ up # <<>> /\ Listens /\ Serves(r) /\ up' = Tail(up) /\ Delivers(Answer(r))
        /\ linked' = linked /\ ui' = ui
    BY DEF Arrives
  <1>2. r \in Sendable /\ Len(up) \in Nat /\ Len(up') = Len(up) - 1
    BY <1>1 DEF BoardInv, UpOK
  <1>3. Len(up) <= MaxInFlight /\ linked /\ MaxInFlight \in Nat
    BY <1>1, BoardAssumption DEF ViewInv, LinkOK
  <1> HIDE DEF r
  <1>4. Fits(Answer(r))
    <2>1. CASE Legal(r) \/ (r.action # "END_TURN" /\ TimedOut /\ game.turn # Me)
      <3>1. started'
        BY <2>1, MatchTells DEF Legal, TimedOut, Active
      <3>2. Answer(r) = News
        BY <2>1 DEF Answer
      <3> QED BY <3>1, <3>2, NewsFits
    <2>2. CASE ~(Legal(r) \/ (r.action # "END_TURN" /\ TimedOut /\ game.turn # Me))
      <3>1. screen' = screen
        BY <1>1, <1>2, <2>2, RefusalSilent
      <3>2. Answer(r) = Refusal
        BY <2>2 DEF Answer
      <3> QED BY <3>1, <3>2, RefusalFits
    <2> QED BY <2>1, <2>2
  <1>5. Len(up') <= MaxInFlight
    BY <1>2, <1>3
  <1> QED BY <1>1, <1>3, <1>4, <1>5, DeliversKeeps

LEMMA ProceedsView ==
  ASSUME ViewInv, Proceeds, MatchInv, [MatchNext]_matchVars
  PROVE  ViewInv'
  <1>1. Listens /\ up' = up /\ linked' = linked /\ ui' = ui
    BY DEF Proceeds
  <1>2. Len(up') <= MaxInFlight /\ (~linked => up' = <<>>)
    BY <1>1 DEF ViewInv, LinkOK
  <1>3. \E msgs : Delivers(msgs) /\ Fits(msgs)
    <2>1. CASE (Start \/ CheckForTimeout \/ Pass \/ Issue(Opp(Me))) /\ Delivers(News)
      BY <2>1, EarlySilent, NewsFits
    <2>2. CASE Reconnect(Opp(Me)) /\ Delivers(Again)
      <3>1. Opp(Me) \in Side
        BY BoardAssumption, OppFacts
      <3>2. Fits(Again)
        BY <2>2, <3>1, AgainFits DEF Fits
      <3> QED BY <2>2, <3>2
    <2> QED BY <2>1, <2>2 DEF Proceeds
  <1> QED BY <1>1, <1>2, <1>3, DeliversKeeps

LEMMA LinkView ==
  ASSUME ViewInv, Breaks \/ Noticed
  PROVE  ViewInv'
  <1>1. /\ game' = game /\ screen' = screen /\ started' = started /\ ui' = ui
        /\ linked' = FALSE /\ up' = <<>> /\ down' = <<>>
    BY DEF Breaks, Noticed, Disconnect, sent, matchVars, ViewInv, LinkOK
  <1>2. LinkOK'
    <2>1. Len(up') <= MaxInFlight
      BY <1>1, BoardAssumption
    <2>2. Len(down') <= MaxUnheard + 1
      BY <1>1, BoardAssumption
    <2>3. down' \in Seq(Note)
      BY <1>1
    <2> QED BY <1>1, <2>1, <2>2, <2>3 DEF LinkOK
  <1> QED BY <1>1, <1>2, FewMessages DEF ViewInv, UiOK

LEMMA RelinksView ==
  ASSUME ViewInv, NEW u \in {ui, Blank}, Relinks(u), MatchInv, [MatchNext]_matchVars
  PROVE  ViewInv'
  <1>1. /\ Me \in Side /\ Reconnect(Me) /\ linked' = TRUE /\ down' = Again /\ up' = up
        /\ ui' = u /\ game' = game /\ started' = started
    BY BoardAssumption DEF Relinks, Reconnect
  <1>2. UiOK' /\ EndOK(u, game)
    <2>1. CASE u = ui
      BY <1>1, <2>1 DEF ViewInv, UiOK
    <2>2. CASE u = Blank
      <3>1. EndOK(Blank, game)
        BY DEF EndOK, Blank
      <3>2. Blank = Drawn(None, FALSE, None, None, None)
        BY DEF Blank, Drawn
      <3>3. UiOK'
        BY <1>1, <2>2, <3>2 DEF UiOK, Drawn
      <3> QED BY <2>2, <3>1, <3>3
    <2> QED BY <2>1, <2>2
  <1>3. ~started => u.state = None /\ screen[Me] = None
    BY DEF ViewInv, Blank
  <1>4. /\ Again \in Seq(Note) /\ Len(Again) <= 1
        /\ \A i \in 1..Len(Again) : TrueOf(Again[i], game')
        /\ Leads(Again, u.state, screen'[Me])
        /\ ~started' => Stateless(Again) /\ screen'[Me] = screen[Me]
    BY <1>1, <1>3, AgainFits
  <1>5. LinkOK'
    <2>1. Len(up') <= MaxInFlight /\ Len(Again) \in Nat
      BY <1>1, <1>4 DEF ViewInv, LinkOK
    <2> QED BY <1>1, <1>4, <2>1, BoardAssumption DEF LinkOK
  <1> QED BY <1>1, <1>2, <1>3, <1>4, <1>5 DEF ViewInv

LEMMA ViewStep ==
  ASSUME BoardInv, ViewInv, MatchInv, [BoardNext]_boardVars
  PROVE  ViewInv'
  <1>1. [MatchNext]_matchVars
    BY BoardStep
  <1>2. CASE UNCHANGED boardVars
    BY <1>2 DEF boardVars, matchVars, ViewInv, UiOK, LinkOK
  <1>3. CASE BoardNext
    BY <1>1, <1>3, ClicksView, HearsView, ArrivesView, ProceedsView, LinkView, RelinksView
    DEF BoardNext
  <1> QED BY <1>2, <1>3

LEMMA ViewInit == BoardInit => ViewInv
  <1> SUFFICES ASSUME BoardInit PROVE ViewInv
    OBVIOUS
  <1>1. Me \in Side /\ linked = TRUE /\ up = <<>> /\ down = <<>> /\ ui = Blank /\ started = FALSE
        /\ screen = [s \in Side |-> None]
    BY BoardAssumption DEF BoardInit, MatchInit
  <1>2. LinkOK
    BY <1>1, BoardAssumption DEF LinkOK
  <1>3. UiOK /\ EndOK(ui, game) /\ ui.state = None
    BY <1>1 DEF UiOK, EndOK, Blank
  <1> QED BY <1>1, <1>2, <1>3, FewMessages DEF ViewInv

LEMMA ViewAlways == BoardSpec => [](BoardInv /\ ViewInv /\ MatchInv)
  <1>1. BoardInv /\ ViewInv /\ MatchInv /\ [BoardNext]_boardVars
          => (BoardInv /\ ViewInv /\ MatchInv)'
    BY BoardStep, ViewStep, MatchStep_Inv
  <1>2. BoardInit => BoardInv /\ ViewInv /\ MatchInv
    BY BoardInitInv, ViewInit, MatchInit_Inv DEF BoardInit
  <1> QED BY <1>1, <1>2, PTL DEF BoardSpec

-----------------------------------------------------------------------------
(* What a player may expect of the board.                                  *)

BoardView == BoardInv /\ ViewInv /\ MatchInv /\ UpToDate /\ TurnSeen

LEMMA BoardViewAlways == BoardSpec => []BoardView
  BY ViewAlways, BoardIsAMatch, AlwaysUpToDate, TurnSeenAlways, PTL DEF BoardView

LEMMA TypedBoard ==
  ASSUME BoardInv, ViewInv
  PROVE  BoardTypeOK
  <1>1. /\ UpOK /\ UiOK /\ LinkOK
        /\ linked \in BOOLEAN /\ Len(up) <= MaxInFlight /\ Len(down) <= MaxUnheard + 1
    BY DEF BoardInv, ViewInv, LinkOK
  <1>2. linked \/ up \o down = <<>>
    BY <1>1 DEF LinkOK
  <1>3. \A q \in Sendable : q.action \in CommandName \cup Ability /\ q.target \in City \cup {None}
    BY DEF Sendable, Buttons, CommandName
  <1>4. \A i \in 1..Len(up) : up[i] \in Sendable
    BY <1>1 DEF UpOK
  <1>5. \A i \in 1..Len(down) : down[i] \in Note
    BY <1>1 DEF LinkOK
  <1>6. \A n \in Note : n.type \in {"MATCH_STATE", "GAME_OVER", "ERROR"}
    BY DEF Note
  <1>7. /\ DOMAIN ui = DOMAIN Blank /\ ui.heard \in BOOLEAN
        /\ ui.sel \in City \cup {None} /\ ui.high \in City \cup {None}
        /\ ui.over \in Side \cup {None}
    BY <1>1 DEF UiOK, Blank
  <1> QED BY <1>1, <1>2, <1>3, <1>4, <1>5, <1>6, <1>7 DEF BoardTypeOK

\* What is under way, shown and chosen keeps to its types, and nothing is under way
\* on a link that is down.
THEOREM BoardTypeCorrect == BoardSpec => []BoardTypeOK
  BY ViewAlways, TypedBoard, PTL

LEMMA QuietShows ==
  ASSUME BoardView, Quiet
  PROVE  /\ started /\ ui.state = screen[Me] /\ ui.state \in States
         /\ ui.state.turn = game.turn
         /\ ui.over = IF game.over THEN game.winner ELSE None
         /\ game.over => game.winner \in Side
         /\ game.turn = Me \/ game.over \/ ~Encrypted(game, Opp(Me)) =>
              Board(ui.state) = Board(MatchState(game, Me))
  <1>1. Me \in Side /\ linked /\ Mounted /\ down = <<>>
    BY BoardAssumption DEF Quiet
  <1>2. /\ started /\ ui.state \in States /\ ui.over \in Side \cup {None}
        /\ Leads(<<>>, ui.state, screen[Me]) /\ EndOK(ui, game)
    BY <1>1 DEF BoardView, ViewInv, UiOK, Mounted
  <1>3. ui.state = screen[Me]
    BY <1>2 DEF Leads, Stateless
  <1>4. ui.state.turn = game.turn
    BY <1>1, <1>2, <1>3 DEF BoardView, TurnSeen
  <1>5. /\ game.over => ui.state = MatchState(game, Me)
        /\ game.turn = Me \/ ~Encrypted(game, Opp(Me)) =>
             Board(ui.state) = Board(MatchState(game, Me))
    BY <1>1, <1>2, <1>3 DEF BoardView, UpToDate
  <1>6. game.over => game.winner \in Side
    BY <1>2 DEF BoardView, MatchInv, Live, Secure, Decided
  <1>7. ui.over = IF game.over THEN game.winner ELSE None
    <2>1. CASE game.over
      <3>1. ui.state.over
        <4>1. MatchState(game, Me).over = game.over
          BY DEF MatchState
        <4> QED BY <1>5, <2>1, <4>1
      <3> QED BY <1>1, <1>2, <2>1, <3>1 DEF EndOK, Mounted
    <2>2. CASE ~game.over
      BY <1>2, <2>2 DEF EndOK
    <2> QED BY <2>1, <2>2
  <1> QED BY <1>2, <1>3, <1>4, <1>5, <1>6, <1>7

\* However messages were lost, hidden by Encryption or sent again after a break or
\* a reload, the quiet board shows the game as it is in the player's own turn, and
\* its end with the right winner.
THEOREM AlwaysShowsTheGame == BoardSpec => []ShowsTheGame
  <1>1. BoardView => ShowsTheGame
    BY QuietShows DEF ShowsTheGame
  <1> QED BY <1>1, BoardViewAlways, PTL

\* What the quiet board shows in the player's own turn, for the buttons.
LEMMA OwnTurnShows ==
  ASSUME BoardView, Quiet, game.turn = Me
  PROVE  /\ ui.state.turn = Me
         /\ ui.state.city = game.city[Me]
         /\ ui.state.intel = game.intel[Me] /\ game.intel[Me] \in Nat
         /\ ui.state.actions = game.actions[Me] /\ game.actions[Me] \in Nat
         /\ ui.state.known = game.known[Me]
         /\ ui.state.unlocked = game.unlocked[Me]
         /\ ui.state.gone = game.gone
         /\ ui.state.controller = game.controller
  <1>1. /\ ui.state \in States /\ ui.state.turn = game.turn
        /\ Board(ui.state) = Board(MatchState(game, Me))
        /\ started /\ Me \in Side
    BY QuietShows, BoardAssumption
  <1>2. PICK h : ui.state = MatchState(h, Me)
    BY <1>1 DEF States
  <1>3. Good(game)
    BY <1>1 DEF BoardView, MatchInv, Live
  <1>4. game.intel[Me] \in Nat /\ game.actions[Me] \in Nat
    BY <1>1, <1>3 DEF Good, Typed
  <1> QED BY <1>1, <1>2, <1>4 DEF Board, MatchState

\* A command clears notices only.
LEMMA ClearedFacts ==
  ASSUME NEW g, NEW s, g = ClearNotices(game, s), started, MatchInv
  PROVE  /\ g.turn = game.turn /\ g.over = game.over /\ g.actions = game.actions
         /\ g.city = game.city /\ g.gone = game.gone /\ g.intel = game.intel
         /\ g.controller = game.controller /\ g.unlocked = game.unlocked
  <1>1. game \in Game
    BY GoodIsGame DEF MatchInv, Live
  <1> QED BY <1>1 DEF ClearNotices, Game

\* The buttons never withhold what the server would accept, except a LOCATE of an
\* opponent whose city is known: on a map without roads from a city to itself, at
\* the server's prices.
THEOREM LegalAlwaysOffered ==
  ASSUME Price = Cost, \A c \in City : c \notin Adjacent(c)
  PROVE  BoardSpec => []LegalIsOffered
  <1>1. ASSUME BoardView, Quiet, ui.sel = None, NEW r \in Asks, Legal(r),
               ~(r.action = "LOCATE" /\ game.known[Me] # None)
        PROVE  Offered(r)
    <2> DEFINE g == ClearNotices(game, Me)
    <2>1. MatchInv /\ started
      BY <1>1, QuietShows DEF BoardView
    <2>2. /\ g.turn = game.turn /\ g.over = game.over /\ g.actions = game.actions
          /\ g.city = game.city /\ g.gone = game.gone /\ g.intel = game.intel
          /\ g.controller = game.controller /\ g.unlocked = game.unlocked
      BY <2>1, ClearedFacts
    <2>3. /\ Active
          /\ r.action = "MOVE"    => CanMove(g, Me, r.target)
          /\ r.action = "STRIKE"  => CanStrike(g, Me)
          /\ r.action = "WAIT"    => CanWait(g, Me)
          /\ r.action = "CONTROL" => CanControl(g, Me)
          /\ r.action \in Ability => CanUse(g, Me, r.action)
          /\ r.action = "END_TURN" => MyTurn(game, Me)
      BY <1>1 DEF Legal
    <2> HIDE DEF g
    <2>4. /\ r.action \in {"MOVE", "STRIKE", "WAIT", "CONTROL", "END_TURN"} \cup Ability
          /\ r.action = "MOVE" => r.target \in City
      <3>1. CASE r \in {Ask("MOVE", c) : c \in City}
        BY <3>1 DEF Ask
      <3>2. CASE r \in {Ask(a, None) : a \in {"STRIKE", "WAIT", "CONTROL", "END_TURN"} \cup Ability}
        BY <3>2 DEF Ask, Ability
      <3> QED BY <1>1, <3>1, <3>2 DEF Asks
    <2>5. game.turn = Me /\ ~game.over /\ (r.action # "END_TURN" => CanAct(g, Me))
      BY <2>2, <2>3, <2>4
      DEF Active, CanMove, CanStrike, CanWait, CanControl, CanUse, CanAct, MyTurn
    <2>6. ui.over = None /\ Mounted
      BY <1>1, <2>5, QuietShows DEF Quiet
    <2>7. /\ ui.state.turn = Me
          /\ ui.state.city = game.city[Me]
          /\ ui.state.intel = game.intel[Me]
          /\ ui.state.actions = game.actions[Me] /\ game.actions[Me] \in Nat
          /\ ui.state.known = game.known[Me]
          /\ ui.state.unlocked = game.unlocked[Me]
          /\ ui.state.gone = game.gone
          /\ ui.state.controller = game.controller
      BY <1>1, <2>5, OwnTurnShows
    <2>8. r.action # "END_TURN" => MayAct
      BY <2>2, <2>5, <2>6, <2>7 DEF CanAct, MayAct, ShownTurn
    <2>9. r.action = "END_TURN" => EndTurnEnabled
      BY <1>1, <2>6, <2>7 DEF EndTurnEnabled, ShownTurn
    <2>10. r.action = "MOVE" => Clickable(r.target) /\ Target(r.target) # None
      <3>1. r.action = "MOVE" => r.target \in Adjacent(ui.state.city) /\ r.target \notin ui.state.gone
        BY <2>2, <2>3, <2>7 DEF CanMove
      <3>2. \A c, d : c \in Adjacent(d) /\ d \in City => c # d
        OBVIOUS
      <3>3. game.city[Me] \in City
        BY <1>1, QuietShows, StateFacts, <2>7
      <3>4. None \notin City
        BY MapAssumption
      <3> QED BY <2>4, <2>7, <2>8, <3>1, <3>2, <3>3, <3>4 DEF Clickable, Target, Near
    <2>11. r.action \notin {"MOVE", "END_TURN"} => Enabled(r.action)
      <3>1. r.action = "CONTROL" => ui.state.controller[ui.state.city] # Me
        BY <2>2, <2>3, <2>7 DEF CanControl
      <3>2. r.action \in Ability => ui.state.intel >= Price[r.action]
        BY <2>2, <2>3, <2>7 DEF CanUse
      <3>3. r.action = "LOCATE" => ui.state.known = None
        BY <1>1, <2>7
      <3>4. r.action \in Permanent => r.action \notin ui.state.unlocked
        BY <2>2, <2>3, <2>7 DEF CanUse, Abilities, Permanent, Ability
      <3> QED BY <1>1, <2>8, <3>1, <3>2, <3>3, <3>4 DEF Enabled
    <2> QED BY <2>9, <2>10, <2>11 DEF Offered
  <1>2. BoardView => LegalIsOffered
    BY <1>1 DEF LegalIsOffered
  <1> QED BY <1>2, BoardViewAlways, PTL

\* Where the buttons offer what the server refuses, the rule is one they do not know,
\* and never a wrong turn, a missing action or a price.
THEOREM RefusalsAlwaysExplained ==
  ASSUME Price = Cost
  PROVE  BoardSpec => []RefusalsExplained
  <1>1. ASSUME BoardView, Quiet, ui.sel = None, NEW r \in Asks, Offered(r), ~Unchecked(r)
        PROVE  Legal(r)
    <2> DEFINE g == ClearNotices(game, Me)
    <2>1. MatchInv /\ started
      BY <1>1, QuietShows DEF BoardView
    <2>2. /\ g.turn = game.turn /\ g.over = game.over /\ g.actions = game.actions
          /\ g.city = game.city /\ g.gone = game.gone /\ g.intel = game.intel
          /\ g.controller = game.controller /\ g.unlocked = game.unlocked
      BY <2>1, ClearedFacts
    <2> HIDE DEF g
    <2>4. r.action \in {"MOVE", "STRIKE", "WAIT", "CONTROL", "END_TURN"} \cup Ability
      BY <1>1 DEF Asks, Ask
    <2>5. ShownTurn /\ ui.over = None /\ (r.action # "END_TURN" => MayAct)
      <3>1. CASE r.action = "END_TURN"
        BY <1>1, <3>1 DEF Offered, EndTurnEnabled
      <3>2. CASE r.action = "MOVE"
        BY <1>1, <3>2 DEF Offered, Clickable, MayAct
      <3>3. CASE r.action \notin {"MOVE", "END_TURN"}
        BY <1>1, <3>3 DEF Offered, Enabled, MayAct
      <3> QED BY <3>1, <3>2, <3>3
    <2>6. game.turn = Me /\ ~game.over
      <3>1. game.over => ui.over \in Side
        BY <1>1, QuietShows
      <3>2. game.turn = Me
        BY <1>1, <2>5, QuietShows DEF ShownTurn
      <3> QED BY <2>5, <3>1, <3>2, RulesAssumption
    <2>7. /\ ui.state.city = game.city[Me]
          /\ ui.state.intel = game.intel[Me]
          /\ ui.state.actions = game.actions[Me] /\ game.actions[Me] \in Nat
          /\ ui.state.unlocked = game.unlocked[Me]
          /\ ui.state.gone = game.gone
          /\ ui.state.controller = game.controller
      BY <1>1, <2>6, OwnTurnShows
    <2>8. Active /\ MyTurn(game, Me) /\ (r.action # "END_TURN" => CanAct(g, Me))
      BY <2>1, <2>2, <2>5, <2>6, <2>7 DEF Active, MyTurn, CanAct, MayAct
    <2>9. r.action \notin {"MOVE", "END_TURN"} => ~Stranded(g, Me)
      BY <1>1, <2>2 DEF Unchecked, Stranded
    <2>10. r.action \in {"WAIT", "DEEP_COVER", "PREP_MISSION"} => ~HeldByOpponent(g, Me)
      BY <1>1, <2>2 DEF Unchecked, HeldByOpponent
    <2>11. r.action = "MOVE" => CanMove(g, Me, r.target)
      <3>1. r.action = "MOVE" => Clickable(r.target) /\ Near(r.target)
        BY <1>1 DEF Offered, Target
      <3> QED BY <2>2, <2>7, <2>8, <3>1 DEF CanMove, Clickable, Near
    <2>12. r.action = "STRIKE" => CanStrike(g, Me)
      BY <2>8, <2>9 DEF CanStrike
    <2>13. r.action = "WAIT" => CanWait(g, Me)
      BY <2>8, <2>9, <2>10 DEF CanWait
    <2>14. r.action \notin {"MOVE", "END_TURN"} => Enabled(r.action)
      BY <1>1 DEF Offered
    <2>15. r.action = "CONTROL" => CanControl(g, Me)
      BY <2>2, <2>7, <2>8, <2>9, <2>14 DEF CanControl, Enabled
    <2>16. r.action \in Ability => CanUse(g, Me, r.action)
      <3> SUFFICES ASSUME r.action \in Ability
                   PROVE  CanUse(g, Me, r.action)
        OBVIOUS
      <3>1. Enabled(r.action) /\ CanAct(g, Me) /\ ~Stranded(g, Me)
        BY <2>8, <2>9, <2>14 DEF Ability
      <3>2. g.intel[Me] >= Cost[r.action]
        BY <2>2, <2>7, <3>1 DEF Enabled
      <3>3. r.action \in Permanent => r.action \notin g.unlocked[Me]
        BY <2>2, <2>7, <3>1 DEF Enabled
      <3>4. g.unlocked[Me] \subseteq Permanent
        <4>1. game.unlocked[Me] \subseteq Permanent
          BY <2>1, BoardAssumption DEF MatchInv, Live, Good, Typed
        <4> QED BY <2>2, <4>1
      <3>5. r.action \in Abilities(g, Me) /\ (r.action = "STRIKE_REPORT" => r.action \notin g.unlocked[Me])
        BY <3>3, <3>4 DEF Abilities, Permanent
      <3>6. r.action \in {"DEEP_COVER", "PREP_MISSION"} => g.actions[Me] = 1
        BY <1>1, <2>2, <2>7, <3>1 DEF Unchecked, CanAct
      <3> QED BY <2>10, <3>1, <3>2, <3>5, <3>6 DEF CanUse
    <2> QED BY <2>8, <2>11, <2>12, <2>13, <2>15, <2>16 DEF Legal, g
  <1>2. BoardView => RefusalsExplained
    BY <1>1 DEF RefusalsExplained
  <1> QED BY <1>2, BoardViewAlways, PTL
=============================================================================
