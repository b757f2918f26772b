----------------------------- MODULE MatchProofs -----------------------------
(***************************************************************************)
(* Proofs about Match: the game of a match keeps the invariants of the     *)
(* rules although the match also ends turns by itself, and the end of the  *)
(* game is told once.  StepKinds sorts the steps of a match by what they   *)
(* do to the game and to the verdict; everything else follows from it.     *)
(***************************************************************************)
EXTENDS MatchProps, GameProofs

\* A game that has started: besides the invariants of the rules, the side on
\* turn can act.
Live(g) == Good(g) /\ Secure(g) /\ (~g.over => g.actions[g.turn] > 0)

Unstarted == Waiting \cup {Concede(g, ALPHA) : g \in Waiting}

MatchInv ==
  /\ started \in BOOLEAN
  /\ IF started THEN Live(game) ELSE game \in Unstarted
  /\ OneVerdict

-----------------------------------------------------------------------------
(* The game before the start.                                              *)

LEMMA WaitingFacts ==
  ASSUME NEW g \in Waiting
  PROVE  /\ g.over = FALSE
         /\ Concede(g, ALPHA).over = TRUE
         /\ Concede(g, ALPHA).winner = BETA
<1>1. PICK i \in IntelGaps : \E a \in ActionGaps : g = Unplaced(i, a)
  BY DEF Waiting
<1>2. PICK a \in ActionGaps : g = Unplaced(i, a)
  BY <1>1
<1>3. IsRecord(g) /\ g.over = FALSE
  BY <1>2 DEF Unplaced, NewGame, IsRecord, Fields
<1>4. Concede(g, ALPHA) = [g EXCEPT !.over = TRUE, !.winner = BETA]
  BY <1>3 DEF Concede, Opp
<1>5. QED
  BY <1>3, <1>4 DEF IsRecord, Fields

LEMMA UnstartedFacts ==
  ASSUME NEW g \in Unstarted
  PROVE  g.over \in BOOLEAN /\ (~g.over => g \in Waiting)
BY WaitingFacts DEF Unstarted

-----------------------------------------------------------------------------
(* What the match does to the game by itself.                              *)

\* A turn that ends leaves the next player with actions.
LEMMA EndTurnLive ==
  ASSUME NEW g, Good(g), Secure(g), NEW s \in Side, MyTurn(g, s), NEW skip \in BOOLEAN
  PROVE  Live(EndTurnEffect(g, s, skip)) /\ ~EndTurnEffect(g, s, skip).over
<1> DEFINE h == EndTurnEffect(g, s, skip)
<1>1. Good(h) /\ Secure(h)
  BY EndTurnGood, EndTurnSecure
<1>2. h.turn = Opp(s) /\ h.actions[Opp(s)] \in 2..4 /\ h.over = g.over
  BY EndTurnPasses
<1> HIDE DEF h
<1>3. Live(h) /\ ~h.over
  BY <1>1, <1>2 DEF Live, MyTurn
<1>4. QED
  BY <1>3 DEF h

LEMMA ConcedeLive ==
  ASSUME NEW g, Good(g), Secure(g), NEW s \in Side
  PROVE  Live(Concede(g, s)) /\ Concede(g, s).over
<1> DEFINE h == Concede(g, s)
<1>1. Good(h) /\ Secure(h)
  BY ConcedeGood, ConcedeSecure
<1>2. h.over
  BY DEF Concede, Good, IsRecord, Fields, Typed
<1>3. QED
  BY <1>1, <1>2 DEF Live

\* handle_turn_timeout takes the actions that are left before it ends the turn.
LEMMA NoActionsLeft ==
  ASSUME NEW g, Good(g), Secure(g), NEW s \in Side, MyTurn(g, s)
  PROVE  LET z == [g EXCEPT !.actions[s] = 0]
         IN  Good(z) /\ Secure(z) /\ MyTurn(z, s)
<1> DEFINE z == [g EXCEPT !.actions[s] = 0]
<1>1. IsRecord(z)
  BY DEF Good, IsRecord
<1>2. \A f \in Fields \ {"actions"} : z[f] = g[f]
  BY DEF Good, IsRecord, Fields
<1>3. z.actions = [g.actions EXCEPT ![s] = 0]
  BY DEF Good, IsRecord, Fields
<1> HIDE DEF z
<1>4. z.actions \in [Side -> Nat]
  BY <1>3 DEF Good, Typed
<1>5. Good(z)
  BY <1>1, <1>2, <1>4 DEF Good, Typed, Fields
<1>6. /\ z.city = g.city /\ z.cover = g.cover /\ z.known = g.known
      /\ z.deepSince = g.deepSince /\ z.turn = g.turn /\ z.turnNumber = g.turnNumber
      /\ z.over = g.over /\ z.winner = g.winner
  BY <1>2 DEF Fields
<1>7. KnowsExactly(z) /\ Decided(z) /\ MyTurn(z, s)
  BY <1>6 DEF Secure, KnowsExactly, Decided, MyTurn
<1>8. HiddenWhileDeep(z)
  BY <1>3, <1>6 DEF Secure, HiddenWhileDeep, Deep, MyTurn, Good, Typed
<1>9. QED
  BY <1>5, <1>7, <1>8 DEF Secure, z

\* An accepted command, with the turn that may end after it.
LEMMA AcceptedLive ==
  ASSUME NEW s \in Side, NEW effect, Good(effect), Secure(effect), effect.turn = s,
         NEW h \in CountAction(effect), NEW hidden, Accepted(s, h, hidden)
  PROVE  Live(game') /\ Conclude(game') /\ started' = started
<1>1. Good(h) /\ Frame(effect, h, Counted)
  BY CountActionGood
<1>2. Counted \cap Secret = {}
  BY DEF Counted, Secret
<1>3. Secure(h)
  BY <1>1, <1>2, FrameSecure
<1>4. h.turn = s
  BY <1>1 DEF Frame, Counted, Fields
<1>5. started' = started
  BY DEF Accepted
<1>6. CASE ~h.over /\ h.actions[s] <= 0
  <2>1. game' = EndTurnEffect(h, s, FALSE) /\ Conclude(game')
    BY <1>6 DEF Accepted
  <2>2. Live(game')
    BY <1>1, <1>3, <1>4, <1>6, <2>1, EndTurnLive DEF MyTurn
  <2>3. QED
    BY <1>5, <2>1, <2>2
<1>7. CASE ~(~h.over /\ h.actions[s] <= 0)
  <2>1. game' = h /\ Conclude(game')
    BY <1>7 DEF Accepted
  <2>2. h.actions[s] \in Nat
    BY <1>1 DEF Good, Typed
  <2>3. QED
    BY <1>1, <1>3, <1>4, <1>5, <1>7, <2>1, <2>2 DEF Live
<1>8. QED
  BY <1>6, <1>7

-----------------------------------------------------------------------------
(* The steps of a match.                                                   *)

\* Nothing happens to the game and its outcome.
Keeps == UNCHANGED <<game, started, finished, verdict>>

Begins ==
  /\ ~started /\ ~game.over
  /\ started' = TRUE /\ game' \in NewGames
  /\ UNCHANGED <<finished, verdict>>

\* ALPHA leaves before the start.
Quits ==
  /\ ~started /\ ~game.over
  /\ game' = Concede(game, ALPHA)
  /\ Conclude(game') /\ UNCHANGED started

\* A command that cannot end the game.
Goes ==
  /\ Active
  /\ Live(game') /\ ~game'.over
  /\ UNCHANGED <<started, finished, verdict>>

\* A command or a deadline that may have ended the game.
Plays ==
  /\ Active
  /\ Live(game')
  /\ Conclude(game') /\ UNCHANGED started

StepKind == Keeps \/ Begins \/ Quits \/ Goes \/ Plays

LEMMA TurnTimeoutPlays ==
  ASSUME MatchInv, TimedOut, HandleTurnTimeout
  PROVE  Plays
<1> DEFINE p == game.turn
           z == [game EXCEPT !.actions[p] = 0]
           passed == EndTurnEffect(z, p, TRUE)
<1>1. Active /\ Good(game) /\ Secure(game) /\ p \in Side /\ MyTurn(game, p)
  BY DEF TimedOut, Active, MatchInv, Live, Good, Typed, MyTurn
<1>2. Good(z) /\ Secure(z) /\ MyTurn(z, p)
  BY <1>1, NoActionsLeft
<1>3. game' \in {passed, Concede(passed, p)} /\ Conclude(game') /\ started' = started
  BY DEF HandleTurnTimeout
<1> HIDE DEF z
<1>4. Live(passed)
  BY <1>1, <1>2, EndTurnLive
<1> HIDE DEF passed, p
<1>5. Live(game')
  BY <1>1, <1>3, <1>4, ConcedeLive DEF Live
<1>6. QED
  BY <1>1, <1>3, <1>5 DEF Plays

LEMMA TimeoutPlays ==
  ASSUME MatchInv, CheckForTimeout
  PROVE  Plays
<1>1. CASE Active /\ HandleDisconnectTimeout
  <2>1. Good(game) /\ Secure(game)
    BY <1>1 DEF Active, MatchInv, Live
  <2>2. PICK s \in Side : game' = Concede(game, s)
    BY <1>1 DEF HandleDisconnectTimeout, Side
  <2>3. Conclude(game') /\ started' = started
    BY <1>1 DEF HandleDisconnectTimeout
  <2>4. QED
    BY <1>1, <2>1, <2>2, <2>3, ConcedeLive DEF Plays
<1>2. CASE TimedOut /\ HandleTurnTimeout
  BY <1>2, TurnTimeoutPlays
<1>3. QED
  BY <1>1, <1>2 DEF CheckForTimeout

LEMMA ActionKind ==
  ASSUME MatchInv, NEW s \in Side, NEW ok, NEW effect, NEW hidden,
         Active /\ ok => Good(effect) /\ Secure(effect) /\ effect.turn = s,
         HandleAction(s, ok, effect, hidden)
  PROVE  StepKind
<1>1. CASE Dropped(s)
  BY <1>1, TurnTimeoutPlays DEF Dropped, StepKind
<1>2. CASE Refused(s, game)
  BY <1>2 DEF Refused, sent, StepKind, Keeps
<1>3. CASE Active /\ Refused(s, ClearNotices(game, s))
  <2>1. Good(game) /\ Secure(game) /\ ~game.over /\ game.actions[game.turn] > 0
    BY <1>3 DEF Active, MatchInv, Live
  <2>2. /\ game' = ClearNotices(game, s)
        /\ UNCHANGED <<started, finished, verdict>>
    BY <1>3 DEF Refused, sent
  <2>3. Good(game') /\ Secure(game') /\ Frame(game, game', {"flags"})
    BY <2>1, <2>2, ClearNoticesGood, ClearNoticesSecure
  <2>4. Live(game') /\ ~game'.over
    BY <2>1, <2>3 DEF Live, Frame, Fields
  <2>5. QED
    BY <1>3, <2>2, <2>4 DEF StepKind, Goes
<1>4. CASE Active /\ ok /\ \E h \in CountAction(effect) : Accepted(s, h, hidden)
  BY <1>4, AcceptedLive DEF StepKind, Plays
<1>5. QED
  BY <1>1, <1>2, <1>3, <1>4 DEF HandleAction

LEMMA CommandKind ==
  ASSUME MatchInv, NEW s \in Side, Issue(s)
  PROVE  StepKind
<1> DEFINE g == ClearNotices(game, s)
<1>1. Active => Good(g) /\ Secure(g)
  BY ClearNoticesSecure DEF Active, MatchInv, Live
<1> HIDE DEF g
<1>2. ASSUME NEW e, ActsFor(g, e, s), CanAct(g, s)
      PROVE  e.turn = s
  BY <1>2 DEF ActsFor, CanAct, MyTurn
<1>3. ASSUME NEW c \in City, HandleMove(s, c)
      PROVE  StepKind
  <2>1. CanMove(g, s, c) => CanAct(g, s)
    BY DEF CanMove
  <2>2. QED
    BY <1>1, <1>2, <1>3, <2>1, MoveGood, MoveSecure, MoveActs, ActionKind DEF HandleMove, g
<1>4. ASSUME HandleStrike(s)
      PROVE  StepKind
  <2>1. CanStrike(g, s) => CanAct(g, s)
    BY DEF CanStrike
  <2>2. QED
    BY <1>1, <1>2, <1>4, <2>1, StrikeGood, StrikeSecure, StrikeActs, ActionKind
    DEF HandleStrike, g
<1>5. ASSUME HandleWait(s)
      PROVE  StepKind
  <2>1. CanWait(g, s) => CanAct(g, s)
    BY DEF CanWait
  <2>2. QED
    BY <1>1, <1>2, <1>5, <2>1, WaitGood, WaitSecure, WaitActs, ActionKind DEF HandleWait, g
<1>6. ASSUME HandleControl(s)
      PROVE  StepKind
  <2>1. CanControl(g, s) => CanAct(g, s)
    BY DEF CanControl
  <2>2. QED
    BY <1>1, <1>2, <1>6, <2>1, ControlGood, ControlSecure, ControlActs, ActionKind
    DEF HandleControl, g
<1>7. ASSUME NEW a \in Ability, HandleAbility(s, a)
      PROVE  StepKind
  <2>1. CanUse(g, s, a) => CanAct(g, s)
    BY DEF CanUse
  <2>2. QED
    BY <1>1, <1>2, <1>7, <2>1, UseGood, UseSecure, UseActs, ActionKind DEF HandleAbility, g
<1>8. ASSUME HandleUnknown(s)
      PROVE  StepKind
  <2>1. CASE Dropped(s)
    BY <2>1, TurnTimeoutPlays DEF Dropped, StepKind
  <2>2. CASE Refused(s, game)
    BY <2>2 DEF Refused, StepKind, Keeps, sent
  <2>3. QED
    BY <1>8, <2>1, <2>2 DEF HandleUnknown
<1>9. ASSUME HandleEndTurn(s)
      PROVE  StepKind
  <2>1. Active /\ MyTurn(game, s) /\ game' = EndTurnEffect(game, s, FALSE)
    BY <1>9 DEF HandleEndTurn, Active, MyTurn
  <2>2. Good(game) /\ Secure(game)
    BY <2>1 DEF Active, MatchInv, Live
  <2>3. Live(game') /\ ~game'.over
    BY <2>1, <2>2, EndTurnLive
  <2>4. QED
    BY <1>9, <2>1, <2>3 DEF HandleEndTurn, StepKind, Goes
<1>10. ASSUME HandleAbort(s)
       PROVE  StepKind
  <2>1. /\ ~game.over /\ Joined(s) /\ game' = Concede(game, s)
        /\ Conclude(game') /\ UNCHANGED started
    BY <1>10 DEF HandleAbort
  <2>2. CASE started
    <3>1. Active /\ Good(game) /\ Secure(game)
      BY <2>1, <2>2 DEF Active, MatchInv, Live
    <3>2. QED
      BY <2>1, <3>1, ConcedeLive DEF StepKind, Plays
  <2>3. CASE ~started
    BY <2>1, <2>3 DEF Joined, StepKind, Quits
  <2>4. QED
    BY <2>2, <2>3
<1>11. QED
  BY <1>3, <1>4, <1>5, <1>6, <1>7, <1>8, <1>9, <1>10 DEF Issue

LEMMA StepKinds ==
  ASSUME MatchInv, [MatchNext]_matchVars
  PROVE  StepKind
<1>1. CASE UNCHANGED matchVars
  BY <1>1 DEF matchVars, StepKind, Keeps
<1>2. CASE Start
  BY <1>2 DEF Start, StepKind, Begins
<1>3. CASE CheckForTimeout
  BY <1>3, TimeoutPlays DEF StepKind
<1>4. CASE Pass
  BY <1>4 DEF Pass, sent, StepKind, Keeps
<1>5. ASSUME NEW s \in Side, Issue(s)
      PROVE  StepKind
  BY <1>5, CommandKind
<1>6. ASSUME NEW s \in Side, Disconnect(s) \/ Reconnect(s)
      PROVE  StepKind
  BY <1>6 DEF Disconnect, Reconnect, sent, StepKind, Keeps
<1>7. QED
  BY <1>1, <1>2, <1>3, <1>4, <1>5, <1>6 DEF MatchNext

-----------------------------------------------------------------------------
(* The invariant.                                                          *)

LEMMA MatchInit_Inv == MatchInit => MatchInv
<1> SUFFICES ASSUME MatchInit
             PROVE  MatchInv
  OBVIOUS
<1>1. game \in Waiting
  BY DEF MatchInit, Waiting
<1>2. started = FALSE /\ finished = FALSE /\ \A s \in Side : verdict[s] = <<>>
  BY DEF MatchInit
<1>3. OneVerdict
  BY <1>1, <1>2, WaitingFacts DEF OneVerdict
<1>4. QED
  BY <1>1, <1>2, <1>3 DEF MatchInv, Unstarted

\* The end of a game that was not over is told to everybody in the match.
LEMMA ConcludeTells ==
  ASSUME OneVerdict, ~game.over, Conclude(game'), UNCHANGED started,
         game'.over \in BOOLEAN
  PROVE  OneVerdict'
<1>1. ~finished /\ \A s \in Side : verdict[s] = <<>>
  BY DEF OneVerdict
<1>2. finished' = game'.over \/ (finished' <=> game'.over)
  BY <1>1 DEF Conclude
<1>3. ASSUME NEW s \in Side
      PROVE  verdict'[s] = IF game'.over /\ Joined(s)' THEN <<game'.winner>> ELSE <<>>
  <2>1. Joined(s)' <=> Joined(s)
    BY DEF Joined
  <2>2. verdict'[s] = IF game'.over /\ Joined(s) THEN Append(verdict[s], game'.winner)
                      ELSE verdict[s]
    BY DEF Conclude
  <2>3. Append(<<>>, game'.winner) = <<game'.winner>>
    OBVIOUS
  <2>4. QED
    BY <1>1, <2>1, <2>2, <2>3
<1>4. QED
  BY <1>2, <1>3 DEF OneVerdict

LEMMA MatchStep_Inv ==
  ASSUME MatchInv, [MatchNext]_matchVars
  PROVE  MatchInv'
<1>1. CASE Keeps
  BY <1>1 DEF Keeps, MatchInv, OneVerdict, Joined
<1>2. CASE Begins
  <2>1. Good(game') /\ Secure(game')
    BY <1>2, NewGameGood, NewGameSecure DEF Begins
  <2>2. ~game'.over /\ game'.actions[game'.turn] > 0
    BY <1>2 DEF Begins, NewGames, NewGame
  <2>3. Live(game')
    BY <2>1, <2>2 DEF Live
  <2>4. OneVerdict'
    BY <1>2, <2>2 DEF Begins, MatchInv, OneVerdict
  <2>5. QED
    BY <1>2, <2>3, <2>4 DEF Begins, MatchInv
<1>3. CASE Quits
  <2>1. game \in Waiting
    BY <1>3, UnstartedFacts DEF Quits, MatchInv
  <2>2. game' \in Unstarted /\ game'.over = TRUE
    BY <1>3, <2>1, WaitingFacts DEF Quits, Unstarted
  <2>3. OneVerdict'
    BY <1>3, <2>2, ConcludeTells DEF Quits, MatchInv
  <2>4. QED
    BY <1>3, <2>2, <2>3 DEF Quits, MatchInv
<1>4. CASE Goes
  <2>1. ~game.over /\ OneVerdict /\ started
    BY <1>4 DEF Goes, Active, MatchInv
  <2>2. OneVerdict'
    BY <1>4, <2>1 DEF Goes, OneVerdict
  <2>3. QED
    BY <1>4, <2>1, <2>2 DEF Goes, MatchInv
<1>5. CASE Plays
  <2>1. ~game.over /\ OneVerdict /\ started /\ game'.over \in BOOLEAN
    BY <1>5 DEF Plays, Active, MatchInv, Live, Good, Typed
  <2>2. OneVerdict'
    BY <1>5, <2>1, ConcludeTells DEF Plays
  <2>3. QED
    BY <1>5, <2>1, <2>2 DEF Plays, MatchInv
<1>6. QED
  BY <1>1, <1>2, <1>3, <1>4, <1>5, StepKinds DEF StepKind

LEMMA MatchInvAlways == MatchSpec => []MatchInv
<1>1. MatchInv /\ [MatchNext]_matchVars => MatchInv'
  BY MatchStep_Inv
<1>2. QED
  BY <1>1, MatchInit_Inv, PTL DEF MatchSpec

\* However a game ends, each player that has joined is told once, and of the
\* same winner, and only then is the match marked for removal.
THEOREM OneVerdictAlways == MatchSpec => []OneVerdict
<1>1. MatchInv => OneVerdict
  BY DEF MatchInv
<1>2. QED
  BY <1>1, MatchInvAlways, PTL

\* The match never waits for a player who has no action left.
THEOREM OnTurnAlwaysCanAct == MatchSpec => []OnTurnCanAct
<1>1. MatchInv => OnTurnCanAct
  BY DEF MatchInv, Live, OnTurnCanAct, Active
<1>2. QED
  BY <1>1, MatchInvAlways, PTL

\* Nothing that still arrives after the end changes the game or its outcome.
THEOREM EndAlwaysFinal == MatchSpec => EndIsFinal
<1> DEFINE Final == game.over => game' = game /\ verdict' = verdict
<1>1. MatchInv /\ [MatchNext]_matchVars => [Final]_matchVars
  <2> SUFFICES ASSUME MatchInv, [MatchNext]_matchVars
               PROVE  Final
    OBVIOUS
  <2>1. QED
    BY StepKinds DEF StepKind, Keeps, Begins, Quits, Goes, Plays, Active
<1>2. []MatchInv /\ [][MatchNext]_matchVars => [][Final]_matchVars
  BY <1>1, PTL
<1>3. QED
  BY <1>2, MatchInvAlways, PTL DEF MatchSpec, EndIsFinal

\* The turns the match ends by itself - after the last action, and at a deadline,
\* with actions left - keep what the rules promise of cover and Deep Cover.
THEOREM MatchKeepsCover ==
  MatchSpec => [](started => ExposureExact /\ DeepCoverHolds /\ WinnerDecided)
<1>1. MatchInv => (started => ExposureExact /\ DeepCoverHolds /\ WinnerDecided)
  BY DEF MatchInv, Live, Secure, ExposureExact, DeepCoverHolds, WinnerDecided, Decided
<1>2. QED
  BY <1>1, MatchInvAlways, PTL
-----------------------------------------------------------------------------
(* The clocks, the missed turns, and what each player was last sent.       *)


TimesOK ==
  /\ clock \in 0..(TURN_DURATION + STARTUP_GRACE)
  /\ grace \in BOOLEAN
  /\ away \in [Side -> {Here} \cup 0..DISCONNECT_TIMEOUT]
  /\ screen = [s \in Side |-> screen[s]]
  /\ verdict = [s \in Side |-> verdict[s]]
  /\ finished \in BOOLEAN

\* While the match goes on nobody has missed one turn too many.
MissedOK ==
  /\ missed \in [Side -> 0..MAX_CONSECUTIVE_TIMEOUTS]
  /\ Active => \A s \in Side : missed[s] < MAX_CONSECUTIVE_TIMEOUTS
  /\ ~started => \A s \in Side : missed[s] = 0

ClockInv == MatchInv /\ TimesOK /\ MissedOK /\ MissedTurnsWereTheirs

-----------------------------------------------------------------------------
(* What a step does to the turn and to the count of missed turns.          *)

Stays(g, h) == h.turn = g.turn /\ h.turnNumber = g.turnNumber
Advances(g, h) == h.turn = Opp(g.turn) /\ h.turnNumber = g.turnNumber + 1

Forgives ==
  /\ missed' = missed \/ \E s \in Side : missed' = [missed EXCEPT ![s] = 0]
  /\ started => Stays(game, game') \/ Advances(game, game')

Charges ==
  /\ Active
  /\ missed' = [missed EXCEPT ![game.turn] = @ + 1]
  /\ Advances(game, game')
  /\ LastMiss(game.turn) => game'.over

\* Everything but the start.
Runs == started' = started /\ TimesOK' /\ (Forgives \/ Charges)

LEMMA ConcedeStays ==
  ASSUME NEW g, Good(g), NEW s \in Side
  PROVE  Stays(g, Concede(g, s))
BY ConcedeGood DEF Frame, Fields, Stays

LEMMA EndTurnAdvances ==
  ASSUME NEW g, Good(g), NEW s \in Side, g.turn = s, NEW skip \in BOOLEAN
  PROVE  Advances(g, EndTurnEffect(g, s, skip))
BY EndTurnPasses DEF Advances

LEMMA SentShape ==
  ASSUME NEW g, NEW to, Broadcast(g, to)
  PROVE  screen' = [s \in Side |-> screen'[s]]
BY DEF Broadcast

LEMMA ConcludeShape ==
  ASSUME NEW g, Conclude(g)
  PROVE  verdict' = [s \in Side |-> verdict'[s]] /\ finished' \in BOOLEAN
BY DEF Conclude

LEMMA ResetOK == 0 \in 0..(TURN_DURATION + STARTUP_GRACE)
BY TimeAssumption

LEMMA TurnTimeoutRuns ==
  ASSUME MatchInv, TimesOK, TimedOut, HandleTurnTimeout
  PROVE  Runs
<1> DEFINE p == game.turn
           z == [game EXCEPT !.actions[p] = 0]
           passed == EndTurnEffect(z, p, TRUE)
<1>1. Active /\ Good(game) /\ Secure(game) /\ p \in Side /\ MyTurn(game, p)
  BY DEF TimedOut, Active, MatchInv, Live, Good, Typed, MyTurn
<1>2. Good(z) /\ Secure(z) /\ MyTurn(z, p)
  BY <1>1, NoActionsLeft
<1>3. Stays(game, z)
  BY <1>1 DEF Stays, Good, IsRecord, Fields
<1>4. /\ game' = IF LastMiss(p) THEN Concede(passed, p) ELSE passed
      /\ missed' = [missed EXCEPT ![p] = @ + 1]
      /\ clock' = 0 /\ grace' = FALSE
      /\ UNCHANGED <<started, away>>
      /\ Conclude(game') /\ Broadcast(game', Side)
  BY DEF HandleTurnTimeout
<1> HIDE DEF z
<1>5. Live(passed) /\ Advances(z, passed)
  BY <1>1, <1>2, EndTurnLive, EndTurnAdvances DEF MyTurn
<1> HIDE DEF passed, p
<1>6. Advances(game, game')
  BY <1>1, <1>3, <1>4, <1>5, ConcedeStays DEF Advances, Stays, Live
<1>7. LastMiss(p) => game'.over
  BY <1>1, <1>4, <1>5, ConcedeLive DEF Live
<1>8. TimesOK'
  BY <1>4, SentShape, ConcludeShape, ResetOK DEF TimesOK
<1>9. QED
  BY <1>1, <1>4, <1>6, <1>7, <1>8 DEF Runs, Charges, p

LEMMA TimeoutRuns ==
  ASSUME MatchInv, TimesOK, CheckForTimeout
  PROVE  Runs
<1>1. CASE Active /\ HandleDisconnectTimeout
  <2>1. Good(game)
    BY <1>1 DEF Active, MatchInv, Live
  <2>2. PICK s \in Side : game' = Concede(game, s)
    BY <1>1 DEF HandleDisconnectTimeout, Side
  <2>3. /\ Conclude(game') /\ Broadcast(game', Side)
        /\ UNCHANGED <<started, clock, grace, missed, away>>
    BY <1>1 DEF HandleDisconnectTimeout
  <2>4. TimesOK'
    BY <2>3, SentShape, ConcludeShape DEF TimesOK
  <2>5. QED
    BY <2>1, <2>2, <2>3, <2>4, ConcedeStays DEF Runs, Forgives
<1>2. CASE TimedOut /\ HandleTurnTimeout
  BY <1>2, TurnTimeoutRuns
<1>3. QED
  BY <1>1, <1>2 DEF CheckForTimeout

LEMMA RefusedRuns ==
  ASSUME MatchInv, TimesOK, NEW s \in Side, NEW g, Refused(s, g),
         started => Stays(game, g)
  PROVE  Runs
<1>1. /\ game' = g
      /\ missed' = [missed EXCEPT ![s] = 0] /\ grace' = FALSE
      /\ clock' \in {0, clock}
      /\ UNCHANGED <<started, away, finished, screen, verdict>>
  BY DEF Refused, Attended, sent
<1>2. TimesOK'
  BY <1>1, ResetOK DEF TimesOK
<1>3. QED
  BY <1>1, <1>2 DEF Runs, Forgives

LEMMA AcceptedRuns ==
  ASSUME MatchInv, TimesOK, NEW s \in Side, NEW effect, Good(effect), effect.turn = s,
         Stays(game, effect), NEW h \in CountAction(effect), NEW hidden,
         Accepted(s, h, hidden)
  PROVE  Runs
<1>1. Good(h) /\ Stays(effect, h)
  BY CountActionGood DEF Frame, Counted, Fields, Stays
<1>2. /\ game' = IF ~h.over /\ h.actions[s] <= 0 THEN EndTurnEffect(h, s, FALSE) ELSE h
      /\ missed' = [missed EXCEPT ![s] = 0]
      /\ clock' = 0 /\ grace' = FALSE
      /\ UNCHANGED <<started, away>>
      /\ Conclude(game') /\ \E to \in SUBSET Side : Broadcast(game', to)
  <2>1. h.turn \in Side
    BY <1>1 DEF Good, Typed
  <2>2. QED
    BY <2>1 DEF Accepted, Attended
<1>3. Stays(game, game') \/ Advances(game, game')
  <2>1. Advances(h, EndTurnEffect(h, s, FALSE))
    BY <1>1, EndTurnAdvances DEF Stays
  <2>2. QED
    BY <1>1, <1>2, <2>1 DEF Stays, Advances
<1>4. TimesOK'
  BY <1>2, SentShape, ConcludeShape, ResetOK DEF TimesOK
<1>5. QED
  BY <1>2, <1>3, <1>4 DEF Runs, Forgives

LEMMA ActionRuns ==
  ASSUME MatchInv, TimesOK, NEW s \in Side, NEW ok, NEW effect, NEW hidden,
         Active /\ ok => Good(effect) /\ effect.turn = s /\ Stays(game, effect),
         HandleAction(s, ok, effect, hidden)
  PROVE  Runs
<1>1. CASE Dropped(s)
  BY <1>1, TurnTimeoutRuns DEF Dropped
<1>2. CASE Refused(s, game)
  BY <1>2, RefusedRuns DEF Stays
<1>3. CASE Active /\ Refused(s, ClearNotices(game, s))
  <2>1. Stays(game, ClearNotices(game, s))
    BY <1>3, ClearNoticesGood DEF Active, MatchInv, Live, Frame, Fields, Stays
  <2>2. QED
    BY <1>3, <2>1, RefusedRuns
<1>4. CASE Active /\ ok /\ \E h \in CountAction(effect) : Accepted(s, h, hidden)
  BY <1>4, AcceptedRuns
<1>5. QED
  BY <1>1, <1>2, <1>3, <1>4 DEF HandleAction

\* An accepted command is the own turn's, and does not pass it.
LEMMA CommandRuns ==
  ASSUME MatchInv, TimesOK, NEW s \in Side, Issue(s)
  PROVE  Runs
<1> DEFINE g == ClearNotices(game, s)
<1>1. Active => Good(g) /\ Stays(game, g)
  BY ClearNoticesGood DEF Active, MatchInv, Live, Frame, Fields, Stays
<1> HIDE DEF g
<1>2. ASSUME NEW e, Active, ActsFor(g, e, s), CanAct(g, s)
      PROVE  e.turn = s /\ Stays(game, e)
  BY <1>1, <1>2 DEF ActsFor, CanAct, MyTurn, Stays
<1>3. ASSUME NEW c \in City, HandleMove(s, c)
      PROVE  Runs
  <2>1. CanMove(g, s, c) => CanAct(g, s)
    BY DEF CanMove
  <2>2. QED
    BY <1>1, <1>2, <1>3, <2>1, MoveGood, MoveActs, ActionRuns DEF HandleMove, g
<1>4. ASSUME HandleStrike(s)
      PROVE  Runs
  <2>1. CanStrike(g, s) => CanAct(g, s)
    BY DEF CanStrike
  <2>2. QED
    BY <1>1, <1>2, <1>4, <2>1, StrikeGood, StrikeActs, ActionRuns DEF HandleStrike, g
<1>5. ASSUME HandleWait(s)
      PROVE  Runs
  <2>1. CanWait(g, s) => CanAct(g, s)
    BY DEF CanWait
  <2>2. QED
    BY <1>1, <1>2, <1>5, <2>1, WaitGood, WaitActs, ActionRuns DEF HandleWait, g
<1>6. ASSUME HandleControl(s)
      PROVE  Runs
  <2>1. CanControl(g, s) => CanAct(g, s)
    BY DEF CanControl
  <2>2. QED
    BY <1>1, <1>2, <1>6, <2>1, ControlGood, ControlActs, ActionRuns DEF HandleControl, g
<1>7. ASSUME NEW a \in Ability, HandleAbility(s, a)
      PROVE  Runs
  <2>1. CanUse(g, s, a) => CanAct(g, s)
    BY DEF CanUse
  <2>2. QED
    BY <1>1, <1>2, <1>7, <2>1, UseGood, UseActs, ActionRuns DEF HandleAbility, g
<1>8. ASSUME HandleUnknown(s)
      PROVE  Runs
  <2>1. CASE Dropped(s)
    BY <2>1, TurnTimeoutRuns DEF Dropped
  <2>2. CASE Refused(s, game)
    BY <2>2, RefusedRuns DEF Stays
  <2>3. QED
    BY <1>8, <2>1, <2>2 DEF HandleUnknown
<1>9. ASSUME HandleEndTurn(s)
      PROVE  Runs
  <2>1. /\ Active /\ game.turn = s
        /\ game' = EndTurnEffect(game, s, FALSE)
        /\ missed' = [missed EXCEPT ![s] = 0]
        /\ clock' = 0 /\ UNCHANGED <<started, grace, away, finished, verdict>>
        /\ Broadcast(game', Side)
    BY <1>9 DEF HandleEndTurn, Active, MyTurn
  <2>2. Advances(game, game')
    BY <2>1, EndTurnAdvances DEF Active, MatchInv, Live
  <2>3. TimesOK'
    BY <2>1, SentShape, ResetOK DEF TimesOK
  <2>4. QED
    BY <2>1, <2>2, <2>3 DEF Runs, Forgives
<1>10. ASSUME HandleAbort(s)
       PROVE  Runs
  <2>1. /\ game' = Concede(game, s)
        /\ Conclude(game') /\ Broadcast(game', Everybody)
        /\ UNCHANGED <<started, clock, grace, missed, away>>
    BY <1>10 DEF HandleAbort, clocks
  <2>2. started => Stays(game, game')
    BY <2>1, ConcedeStays DEF MatchInv, Live
  <2>3. TimesOK'
    BY <2>1, SentShape, ConcludeShape DEF TimesOK
  <2>4. QED
    BY <2>1, <2>2, <2>3 DEF Runs, Forgives
<1>11. QED
  BY <1>3, <1>4, <1>5, <1>6, <1>7, <1>8, <1>9, <1>10 DEF Issue

LEMMA PassRuns ==
  ASSUME MatchInv, TimesOK, Pass
  PROVE  Runs
<1>1. UNCHANGED <<game, started, grace, missed, finished, screen, verdict>>
  BY DEF Pass, sent
<1>2. clock' \in 0..(TURN_DURATION + STARTUP_GRACE)
  BY TimeAssumption DEF Pass, TimesOK, Later, Limit
<1>3. away' \in [Side -> {Here} \cup 0..DISCONNECT_TIMEOUT]
  BY TimeAssumption DEF Pass, TimesOK, Later, Here
<1>4. TimesOK'
  BY <1>1, <1>2, <1>3 DEF TimesOK
<1>5. QED
  BY <1>1, <1>4 DEF Runs, Forgives, Stays

LEMMA ConnectionRuns ==
  ASSUME MatchInv, TimesOK, NEW s \in Side, Disconnect(s) \/ Reconnect(s)
  PROVE  Runs
<1>1. /\ UNCHANGED <<game, started, clock, grace, missed, finished, verdict>>
      /\ away' \in {[away EXCEPT ![s] = 0], [away EXCEPT ![s] = Here]}
      /\ screen' = screen \/ \E to \in SUBSET Side : Broadcast(game, to)
  BY DEF Disconnect, Reconnect, clocks, sent
<1>2. away' \in [Side -> {Here} \cup 0..DISCONNECT_TIMEOUT]
  BY <1>1, TimeAssumption DEF TimesOK
<1>3. TimesOK'
  BY <1>1, <1>2, SentShape DEF TimesOK
<1>4. QED
  BY <1>1, <1>3 DEF Runs, Forgives, Stays

LEMMA StepRuns ==
  ASSUME MatchInv, TimesOK, [MatchNext]_matchVars
  PROVE  Runs \/ Start
<1>1. CASE UNCHANGED matchVars
  BY <1>1 DEF matchVars, Runs, Forgives, TimesOK, Stays
<1>2. CASE CheckForTimeout
  BY <1>2, TimeoutRuns
<1>3. CASE Pass
  BY <1>3, PassRuns
<1>4. ASSUME NEW s \in Side, Issue(s)
      PROVE  Runs
  BY <1>4, CommandRuns
<1>5. ASSUME NEW s \in Side, Disconnect(s) \/ Reconnect(s)
      PROVE  Runs
  BY <1>5, ConnectionRuns
<1>6. QED
  BY <1>1, <1>2, <1>3, <1>4, <1>5 DEF MatchNext

-----------------------------------------------------------------------------
(* Missed turns.                                                           *)

\* The turns of g that are over and were those of s.
Own(g, s) == IF g.turn = s THEN (g.turnNumber - 1) \div 2 ELSE g.turnNumber \div 2

LEMMA HalfTurns ==
  ASSUME NEW n \in Nat
  PROVE  /\ (n - 1) \div 2 + 1 = (n + 1) \div 2
         /\ (n - 1) \div 2 \in Int /\ n \div 2 \in Nat
         /\ (n + 1 - 1) \div 2 = n \div 2
OBVIOUS

LEMMA OwnGrows ==
  ASSUME NEW g, Good(g), NEW h, NEW s \in Side, Advances(g, h)
  PROVE  Own(h, s) = IF g.turn = s THEN Own(g, s) + 1 ELSE Own(g, s)
<1>1. g.turnNumber \in Nat /\ g.turn \in Side
  BY DEF Good, Typed
<1>2. h.turn = s <=> g.turn # s
  BY <1>1, OppFacts DEF Advances
<1>3. QED
  BY <1>1, <1>2, HalfTurns DEF Own, Advances

LEMMA OwnInt ==
  ASSUME NEW g, Good(g), NEW s \in Side
  PROVE  Own(g, s) \in Int
<1>1. g.turnNumber \in Nat
  BY DEF Good, Typed
<1>2. QED
  BY <1>1, HalfTurns DEF Own

LEMMA ClockInit == MatchInit => ClockInv
<1> SUFFICES ASSUME MatchInit
             PROVE  ClockInv
  OBVIOUS
<1>1. TimesOK
  BY ResetOK, TimeAssumption DEF MatchInit, TimesOK
<1>2. MissedOK
  BY TimeAssumption DEF MatchInit, MissedOK, Active
<1>3. MissedTurnsWereTheirs
  BY DEF MatchInit, MissedTurnsWereTheirs
<1>4. QED
  BY <1>1, <1>2, <1>3, MatchInit_Inv DEF ClockInv

LEMMA StartClock ==
  ASSUME ClockInv, Start
  PROVE  TimesOK' /\ MissedOK' /\ MissedTurnsWereTheirs'
<1>1. /\ ~started /\ started' = TRUE /\ clock' = 0
      /\ UNCHANGED <<grace, missed, away, finished, verdict>>
  BY DEF Start
<1>2. game' \in NewGames /\ Broadcast(game', Side)
  BY DEF Start
<1>3. game'.turnNumber = 1
  BY <1>2 DEF NewGames, NewGame
<1>4. \A s \in Side : missed[s] = 0
  BY <1>1 DEF ClockInv, MissedOK
<1>5. TimesOK'
  BY <1>1, <1>2, SentShape, ResetOK DEF ClockInv, TimesOK
<1>6. MissedOK'
  BY <1>1, <1>4, TimeAssumption DEF ClockInv, MissedOK
<1>7. MissedTurnsWereTheirs'
  BY <1>1, <1>3, <1>4 DEF MissedTurnsWereTheirs
<1>8. QED
  BY <1>5, <1>6, <1>7

LEMMA RunsMissed ==
  ASSUME ClockInv, Runs, game.over => game' = game
  PROVE  MissedOK' /\ MissedTurnsWereTheirs'
<1>1. started' = started /\ (Active' => Active)
  BY DEF Runs, Active
<1>2. missed \in [Side -> 0..MAX_CONSECUTIVE_TIMEOUTS]
  BY DEF ClockInv, MissedOK
<1>3. started => Good(game) /\ \A s \in Side : missed[s] <= Own(game, s)
  BY DEF ClockInv, MatchInv, Live, MissedTurnsWereTheirs, Own
<1>4. MissedTurnsWereTheirs' <=> (started => \A s \in Side : missed'[s] <= Own(game', s))
  BY <1>1 DEF MissedTurnsWereTheirs, Own
<1>5. CASE Forgives
  <2>1. /\ missed' \in [Side -> 0..MAX_CONSECUTIVE_TIMEOUTS]
        /\ \A s \in Side : missed'[s] <= missed[s]
    BY <1>2, <1>5, TimeAssumption DEF Forgives
  <2>2. MissedOK'
    BY <1>1, <1>2, <2>1, TimeAssumption DEF ClockInv, MissedOK
  <2>3. ASSUME started, NEW s \in Side
        PROVE  missed'[s] <= Own(game', s)
    <3>1. Own(game', s) = Own(game, s) \/ Own(game', s) = Own(game, s) + 1
      <4>1. CASE Stays(game, game')
        BY <4>1 DEF Stays, Own
      <4>2. CASE Advances(game, game')
        BY <1>3, <2>3, <4>2, OwnGrows
      <4>3. QED
        BY <1>5, <2>3, <4>1, <4>2 DEF Forgives
    <3>2. missed[s] <= Own(game, s) /\ Own(game, s) \in Int
      BY <1>3, <2>3, OwnInt
    <3>3. missed'[s] <= missed[s] /\ missed'[s] \in Nat /\ missed[s] \in Nat
      BY <1>2, <2>1, TimeAssumption
    <3>4. QED
      BY <3>1, <3>2, <3>3
  <2>4. QED
    BY <1>4, <2>2, <2>3
<1>6. CASE Charges
  <2>1. started /\ Active /\ Good(game) /\ game.turn \in Side
    BY <1>3, <1>6 DEF Charges, Active, Good, Typed
  <2>2. \A s \in Side : missed[s] < MAX_CONSECUTIVE_TIMEOUTS
    BY <2>1 DEF ClockInv, MissedOK
  <2>3. \A s \in Side : missed'[s] = IF s = game.turn THEN missed[s] + 1 ELSE missed[s]
    BY <1>2, <1>6 DEF Charges
  <2>4. missed' \in [Side -> 0..MAX_CONSECUTIVE_TIMEOUTS]
    BY <1>2, <1>6, <2>1, <2>2, TimeAssumption DEF Charges
  <2>5. Active' => \A s \in Side : missed'[s] < MAX_CONSECUTIVE_TIMEOUTS
    BY <1>2, <1>6, <2>1, <2>2, <2>3, TimeAssumption DEF Charges, LastMiss, Active
  <2>6. MissedOK'
    BY <1>1, <2>1, <2>4, <2>5 DEF MissedOK
  <2>7. ASSUME NEW s \in Side
        PROVE  missed'[s] <= Own(game', s)
    <3>1. Own(game', s) = IF game.turn = s THEN Own(game, s) + 1 ELSE Own(game, s)
      BY <1>6, <2>1, OwnGrows DEF Charges
    <3>2. missed[s] <= Own(game, s) /\ Own(game, s) \in Int /\ missed[s] \in Nat
      BY <1>2, <1>3, <2>1, OwnInt, TimeAssumption
    <3>3. QED
      BY <2>3, <3>1, <3>2
  <2>8. QED
    BY <1>4, <2>6, <2>7
<1>7. QED
  BY <1>5, <1>6 DEF Runs

LEMMA ClockStep ==
  ASSUME ClockInv, [MatchNext]_matchVars
  PROVE  ClockInv'
<1>1. MatchInv'
  BY MatchStep_Inv DEF ClockInv
<1>2. CASE Start
  BY <1>1, <1>2, StartClock DEF ClockInv
<1>3. CASE Runs
  <2>1. game.over => game' = game
    BY StepKinds DEF ClockInv, StepKind, Keeps, Begins, Quits, Goes, Plays, Active
  <2>2. MissedOK' /\ MissedTurnsWereTheirs'
    BY <1>3, <2>1, RunsMissed
  <2>3. QED
    BY <1>1, <1>3, <2>2 DEF ClockInv, Runs
<1>4. QED
  BY <1>2, <1>3, StepRuns DEF ClockInv

LEMMA ClockInvAlways == MatchSpec => []ClockInv
<1>1. ClockInv /\ [MatchNext]_matchVars => ClockInv'
  BY ClockStep
<1>2. QED
  BY <1>1, ClockInit, PTL DEF MatchSpec

\* However a deadline is noticed, and by whom, a missed turn is counted once, and
\* against the player whose turn it was.
THEOREM MissedTurnsAlwaysTheirs == MatchSpec => []MissedTurnsWereTheirs
<1>1. ClockInv => MissedTurnsWereTheirs
  BY DEF ClockInv
<1>2. QED
  BY <1>1, ClockInvAlways, PTL

\* The state of a match keeps to its types.
THEOREM MatchTypeCorrect == MatchSpec => []MatchTypeOK
<1>1. ASSUME ClockInv
      PROVE  MatchTypeOK
  <2>1. MatchInv /\ TimesOK /\ MissedOK
    BY <1>1 DEF ClockInv
  <2>2. started \in BOOLEAN /\ finished \in BOOLEAN
    BY <2>1 DEF MatchInv, TimesOK
  <2>3. IF started THEN game \in Game ELSE game \in Waiting \cup {Concede(g, ALPHA) : g \in Waiting}
    BY <2>1, GoodIsGame DEF MatchInv, Live, Unstarted
  <2>4. verdict \in [Side -> Seq(Side)]
    <3>1. game.over => game.winner \in Side
      <4>1. CASE started
        BY <2>1, <4>1 DEF MatchInv, Live, Secure, Decided
      <4>2. CASE ~started
        BY <2>1, <4>2, WaitingFacts DEF MatchInv, Unstarted, Side
      <4>3. QED
        BY <4>1, <4>2
    <3>2. ASSUME NEW s \in Side
          PROVE  verdict[s] \in Seq(Side)
      <4>1. (game.over /\ verdict[s] = <<game.winner>>) \/ verdict[s] = <<>>
        BY <2>1 DEF MatchInv, OneVerdict
      <4>2. CASE game.over /\ verdict[s] = <<game.winner>>
        BY <3>1, <4>2
      <4>3. CASE verdict[s] = <<>>
        BY <4>3
      <4>4. QED
        BY <4>1, <4>2, <4>3
    <3>3. verdict = [s \in Side |-> verdict[s]]
      BY <2>1 DEF TimesOK
    <3>4. QED
      BY <3>2, <3>3
  <2>5. DOMAIN screen = Side
    BY <2>1 DEF TimesOK
  <2>6. QED
    BY <2>1, <2>2, <2>3, <2>4, <2>5 DEF MatchTypeOK, TimesOK, MissedOK
<1>2. QED
  BY <1>1, ClockInvAlways, PTL

-----------------------------------------------------------------------------
(* What each player was last sent.                                         *)

\* Player s sees game g as UpToDate wants it.
Seen(v, g, s) ==
  /\ g.over => v = MatchState(g, s)
  /\ g.turn = s \/ ~Encrypted(g, Opp(s)) => Board(v) = Board(MatchState(g, s))

\* What a step of a match that has started does to the screens: it sends the
\* game to both, changes nothing of it but notices, or hides an action.
Shows == Broadcast(game', Side)

NoticesOnly ==
  /\ screen' = screen /\ ~game'.over
  /\ \E s \in Side : game' = ClearNotices(game, s)

Unseen == game' = game /\ screen' = screen

Hides ==
  /\ ~game'.over /\ game'.turn \in Side
  /\ Encrypted(game', game'.turn) /\ game'.turn = game.turn
  /\ Broadcast(game', {game'.turn})

ScreenKind == Shows \/ NoticesOnly \/ Unseen \/ Hides

LEMMA ClearNoticesBoard ==
  ASSUME NEW g, Good(g), NEW s \in Side, NEW p \in Side
  PROVE  LET h == ClearNotices(g, s)
         IN  /\ Board(MatchState(h, p)) = Board(MatchState(g, p))
             /\ h.over = g.over /\ h.turn = g.turn
             /\ Encrypted(h, Opp(p)) <=> Encrypted(g, Opp(p))
<1> DEFINE h == ClearNotices(g, s)
<1>1. Frame(g, h, {"flags"})
  BY ClearNoticesGood
<1>2. \A q \in Side : "stealth" \in h.flags[q] <=> "stealth" \in g.flags[q]
  BY DEF ClearNotices, Notice, Good, IsRecord, Fields
<1> HIDE DEF h
<1>3. \A f \in Fields \ {"flags"} : h[f] = g[f]
  BY <1>1 DEF Frame
<1>4. /\ h.city = g.city /\ h.intel = g.intel /\ h.actions = g.actions
      /\ h.known = g.known /\ h.unlocked = g.unlocked /\ h.prep = g.prep
      /\ h.revealed = g.revealed /\ h.turn = g.turn /\ h.turnNumber = g.turnNumber
      /\ h.over = g.over /\ h.winner = g.winner /\ h.moved = g.moved
      /\ h.scheduled = g.scheduled /\ h.gone = g.gone /\ h.controller = g.controller
      /\ h.intelAt = g.intelAt /\ h.actionAt = g.actionAt /\ h.cover = g.cover
  BY <1>3 DEF Fields
<1>5. CoverStatus(h, p) = CoverStatus(g, p) /\ Stranded(h, p) = Stranded(g, p)
  BY <1>2, <1>4 DEF CoverStatus, Encrypted, Stranded
<1>6. Board(MatchState(h, p)) = Board(MatchState(g, p))
  <2> DEFINE v == MatchState(g, p)
             w == MatchState(h, p)
  <2>1. DOMAIN v = DOMAIN w
    BY DEF MatchState
  <2>2. \A f \in DOMAIN v \ {"flags"} : w[f] = v[f]
    <3>1. /\ w.city = v.city /\ w.intel = v.intel /\ w.actions = v.actions
          /\ w.coverStatus = v.coverStatus /\ w.known = v.known /\ w.unlocked = v.unlocked
          /\ w.prep = v.prep /\ w.revealed = v.revealed /\ w.turn = v.turn
          /\ w.turnNumber = v.turnNumber /\ w.over = v.over /\ w.winner = v.winner
          /\ w.opponentMoved = v.opponentMoved /\ w.scheduled = v.scheduled /\ w.gone = v.gone
          /\ w.stranded = v.stranded /\ w.controller = v.controller /\ w.intelAt = v.intelAt
          /\ w.actionAt = v.actionAt
      BY <1>4, <1>5 DEF MatchState
    <3>2. DOMAIN v \ {"flags"} \subseteq
            {"city", "intel", "actions", "coverStatus", "known", "unlocked", "prep",
             "revealed", "turn", "turnNumber", "over", "winner", "opponentMoved",
             "scheduled", "gone", "stranded", "controller", "intelAt", "actionAt"}
      BY DEF MatchState
    <3> HIDE DEF v, w
    <3>3. QED
      BY <3>1, <3>2
  <2>3. v = [f \in DOMAIN v |-> v[f]] /\ w = [f \in DOMAIN w |-> w[f]]
    BY DEF MatchState
  <2> HIDE DEF v, w
  <2>4. [w EXCEPT !.flags = {}] = [v EXCEPT !.flags = {}]
    BY <2>1, <2>2, <2>3
  <2>5. QED
    BY <2>4 DEF Board, v, w
<1>7. QED
  BY <1>4, <1>6 DEF Encrypted, h

LEMMA AcceptedScreen ==
  ASSUME NEW s \in Side, NEW effect, Good(effect), effect.turn = s,
         NEW h \in CountAction(effect), NEW hidden, Accepted(s, h, hidden),
         hidden => ~effect.over /\ Encrypted(effect, s) /\ game.turn = s
  PROVE  ScreenKind
<1>1. Frame(effect, h, Counted)
  BY CountActionGood
<1>2. h.turn = s /\ h.over = effect.over /\ h.unlocked = effect.unlocked
  BY <1>1 DEF Frame, Counted, Fields
<1>3. CASE hidden /\ ~(~h.over /\ h.actions[s] <= 0)
  <2>1. game' = h /\ Broadcast(game', {game'.turn})
    BY <1>3 DEF Accepted
  <2>2. QED
    BY <1>2, <1>3, <2>1 DEF ScreenKind, Hides, Encrypted
<1>4. CASE ~hidden \/ (~h.over /\ h.actions[s] <= 0)
  BY <1>4 DEF Accepted, ScreenKind, Shows
<1>5. QED
  BY <1>3, <1>4

LEMMA ActionScreen ==
  ASSUME MatchInv, started, NEW s \in Side, NEW ok, NEW effect, NEW hidden,
         Active /\ ok => Good(effect) /\ effect.turn = s,
         Active /\ ok /\ hidden =>
           ~effect.over /\ Encrypted(effect, s) /\ game.turn = s,
         HandleAction(s, ok, effect, hidden)
  PROVE  ScreenKind
<1>1. CASE Dropped(s)
  BY <1>1 DEF Dropped, HandleTurnTimeout, ScreenKind, Shows
<1>2. CASE Refused(s, game)
  BY <1>2 DEF Refused, sent, ScreenKind, Unseen
<1>3. CASE Active /\ Refused(s, ClearNotices(game, s))
  <2>1. game' = ClearNotices(game, s) /\ screen' = screen
    BY <1>3 DEF Refused, sent
  <2>2. ~game'.over
    BY <1>3, <2>1, ClearNoticesBoard DEF Active, MatchInv, Live
  <2>3. QED
    BY <2>1, <2>2 DEF ScreenKind, NoticesOnly
<1>4. CASE Active /\ ok /\ \E h \in CountAction(effect) : Accepted(s, h, hidden)
  BY <1>4, AcceptedScreen
<1>5. QED
  BY <1>1, <1>2, <1>3, <1>4 DEF HandleAction

\* The commands that may be hidden: those of a spy with Encryption.
LEMMA UseKeepsOver ==
  ASSUME NEW g, Good(g), NEW s \in Side, NEW a \in Ability, CanUse(g, s, a),
         Encrypted(g, s)
  PROVE  UseEffect(g, s, a).over = g.over /\ Encrypted(UseEffect(g, s, a), s)
<1> DEFINE p == Pay(g, s, a)
<1>1. Good(p) /\ p.over = g.over /\ p.unlocked = g.unlocked
  BY PayGood DEF Frame, Fields
<1> HIDE DEF p
<1>2. /\ DeepCover(p, s).over = p.over /\ DeepCover(p, s).unlocked = p.unlocked
      /\ Locate(p, s).over = p.over /\ Locate(p, s).unlocked = p.unlocked
      /\ PrepMission(p, s).over = p.over /\ PrepMission(p, s).unlocked = p.unlocked
  BY <1>1, DeepCoverGood, LocateGood, PrepMissionGood DEF Frame, Fields
<1>3. /\ StrikeReport(p, s).over = p.over /\ RapidRecon(p, s).over = p.over
      /\ Encryption(p, s).over = p.over
  BY <1>1, StrikeReportGood, RapidReconGood, EncryptionGood DEF Frame, Fields
<1>4. /\ p.unlocked[s] \subseteq StrikeReport(p, s).unlocked[s]
      /\ p.unlocked[s] \subseteq RapidRecon(p, s).unlocked[s]
      /\ p.unlocked[s] \subseteq Encryption(p, s).unlocked[s]
  BY <1>1 DEF StrikeReport, RapidRecon, Encryption, Good, Typed, IsRecord, Fields
<1>5. QED
  BY <1>1, <1>2, <1>3, <1>4 DEF UseEffect, Ability, Encrypted, p

LEMMA CommandScreen ==
  ASSUME MatchInv, started, NEW s \in Side, Issue(s)
  PROVE  ScreenKind
<1> DEFINE g == ClearNotices(game, s)
<1>1. Active => Good(g) /\ g.turn = game.turn
  BY ClearNoticesGood, ClearNoticesBoard DEF Active, MatchInv, Live
<1> HIDE DEF g
<1>2. ASSUME NEW e, ActsFor(g, e, s), CanAct(g, s)
      PROVE  e.turn = s
  BY <1>2 DEF ActsFor, CanAct, MyTurn
<1>3. ASSUME NEW c \in City, HandleMove(s, c)
      PROVE  ScreenKind
  <2>1. CanMove(g, s, c) => CanAct(g, s)
    BY DEF CanMove
  <2>2. QED
    BY <1>1, <1>2, <1>3, <2>1, MoveGood, MoveActs, ActionScreen DEF HandleMove, g
<1>4. ASSUME HandleStrike(s)
      PROVE  ScreenKind
  <2> DEFINE e == StrikeEffect(g, s)
             hidden == Encrypted(g, s) /\ ~Hit(g, s)
  <2>1. ASSUME Active, CanStrike(g, s)
        PROVE  /\ Good(e) /\ e.turn = s
               /\ hidden => ~e.over /\ Encrypted(e, s) /\ game.turn = s
    <3>1. CanAct(g, s)
      BY <2>1 DEF CanStrike
    <3>2. Good(e) /\ e.turn = s /\ e.unlocked = g.unlocked
      BY <1>1, <1>2, <2>1, <3>1, StrikeGood, StrikeActs DEF Frame, Fields
    <3>3. e.over = Hit(g, s)
      BY <1>1, <2>1 DEF StrikeEffect, Good, IsRecord, Fields
    <3>4. QED
      BY <1>1, <2>1, <3>1, <3>2, <3>3 DEF Encrypted, CanAct, MyTurn
  <2>2. HandleAction(s, CanStrike(g, s), e, hidden)
    BY <1>4 DEF HandleStrike, g
  <2> HIDE DEF e, hidden
  <2>3. QED
    BY <2>1, <2>2, ActionScreen
<1>5. ASSUME HandleWait(s)
      PROVE  ScreenKind
  <2>1. CanWait(g, s) => CanAct(g, s)
    BY DEF CanWait
  <2>2. QED
    BY <1>1, <1>2, <1>5, <2>1, WaitGood, WaitActs, ActionScreen DEF HandleWait, g
<1>6. ASSUME HandleControl(s)
      PROVE  ScreenKind
  <2>1. CanControl(g, s) => CanAct(g, s)
    BY DEF CanControl
  <2>2. QED
    BY <1>1, <1>2, <1>6, <2>1, ControlGood, ControlActs, ActionScreen DEF HandleControl, g
<1>7. ASSUME NEW a \in Ability, HandleAbility(s, a)
      PROVE  ScreenKind
  <2> DEFINE e == UseEffect(g, s, a)
             hidden == Encrypted(g, s) /\ a # "ENCRYPTION"
  <2>1. ASSUME Active, CanUse(g, s, a)
        PROVE  /\ Good(e) /\ e.turn = s
               /\ hidden => ~e.over /\ Encrypted(e, s) /\ game.turn = s
    <3>1. CanAct(g, s)
      BY <2>1 DEF CanUse
    <3>2. Good(e) /\ e.turn = s
      BY <1>1, <1>2, <2>1, <3>1, UseGood, UseActs
    <3>3. ~g.over
      BY <3>1 DEF CanAct, MyTurn
    <3>4. QED
      BY <1>1, <2>1, <3>1, <3>2, <3>3, UseKeepsOver DEF CanAct, MyTurn
  <2>2. HandleAction(s, CanUse(g, s, a), e, hidden)
    BY <1>7 DEF HandleAbility, g
  <2> HIDE DEF e, hidden
  <2>3. QED
    BY <2>1, <2>2, ActionScreen
<1>8. ASSUME HandleUnknown(s)
      PROVE  ScreenKind
  BY <1>8 DEF HandleUnknown, Dropped, HandleTurnTimeout, Refused, sent,
              ScreenKind, Shows, Unseen
<1>9. ASSUME HandleEndTurn(s)
      PROVE  ScreenKind
  BY <1>9 DEF HandleEndTurn, ScreenKind, Shows
<1>10. ASSUME HandleAbort(s)
       PROVE  ScreenKind
  <2>1. Everybody = Side
    BY DEF Everybody, Joined
  <2>2. QED
    BY <1>10, <2>1 DEF HandleAbort, ScreenKind, Shows
<1>11. QED
  BY <1>3, <1>4, <1>5, <1>6, <1>7, <1>8, <1>9, <1>10 DEF Issue

LEMMA IssueStarted ==
  ASSUME NEW s \in Side, Issue(s)
  PROVE  started' = started
BY DEF Issue, HandleMove, HandleStrike, HandleWait, HandleControl, HandleAbility,
       HandleUnknown, HandleEndTurn, HandleAbort, HandleAction, Dropped,
       HandleTurnTimeout, Refused, Accepted

LEMMA StepScreen ==
  ASSUME MatchInv, [MatchNext]_matchVars, started'
  PROVE  Shows \/ (started /\ ScreenKind)
<1>1. CASE UNCHANGED matchVars
  BY <1>1 DEF matchVars, ScreenKind, Unseen
<1>2. CASE Start
  BY <1>2 DEF Start, Shows
<1>3. CASE CheckForTimeout
  BY <1>3 DEF CheckForTimeout, HandleDisconnectTimeout, HandleTurnTimeout, Shows
<1>4. CASE Pass
  BY <1>4 DEF Pass, sent, ScreenKind, Unseen
<1>5. ASSUME NEW s \in Side, Issue(s)
      PROVE  started /\ ScreenKind
  BY <1>5, IssueStarted, CommandScreen
<1>6. ASSUME NEW s \in Side, Disconnect(s) \/ Reconnect(s)
      PROVE  started /\ ScreenKind
  BY <1>6 DEF Disconnect, Reconnect, sent, ScreenKind, Shows, Unseen
<1>7. QED
  BY <1>1, <1>2, <1>3, <1>4, <1>5, <1>6 DEF MatchNext

LEMMA ScreenStep ==
  ASSUME MatchInv, UpToDate, [MatchNext]_matchVars
  PROVE  UpToDate'
<1> SUFFICES ASSUME started', NEW s \in Side
             PROVE  Seen(screen'[s], game', s)
  BY DEF UpToDate, Seen
<1>1. Shows \/ (started /\ ScreenKind)
  BY StepScreen
<1>2. CASE Shows
  BY <1>2 DEF Shows, Broadcast, Seen
<1>3. CASE Hides
  <2>1. CASE s = game'.turn
    BY <1>3, <2>1 DEF Hides, Broadcast, Seen
  <2>2. CASE s # game'.turn
    <3>1. Opp(s) = game'.turn
      BY <1>3, <2>2, OppFacts DEF Hides, Side
    <3>2. QED
      BY <1>3, <2>2, <3>1 DEF Hides, Seen
  <2>3. QED
    BY <2>1, <2>2
<1>4. CASE (NoticesOnly \/ Unseen) /\ started
  <2>1. Good(game) /\ Seen(screen[s], game, s)
    BY <1>4 DEF MatchInv, Live, UpToDate, Seen
  <2>2. CASE Unseen
    BY <2>1, <2>2 DEF Unseen
  <2>3. CASE NoticesOnly
    BY <2>1, <2>3, ClearNoticesBoard DEF NoticesOnly, Seen
  <2>4. QED
    BY <1>4, <2>2, <2>3
<1>5. QED
  BY <1>1, <1>2, <1>3, <1>4 DEF ScreenKind

\* Nobody is left to think that it is the other one's turn: a hidden action is not one
\* that ends the turn.
TurnSeen == started => \A s \in Side : screen[s].turn = game.turn

LEMMA TurnSeenStep ==
  ASSUME MatchInv, TurnSeen, [MatchNext]_matchVars
  PROVE  TurnSeen'
<1> SUFFICES ASSUME started', NEW s \in Side
             PROVE  screen'[s].turn = game'.turn
  BY DEF TurnSeen
<1>1. Shows \/ (started /\ ScreenKind)
  BY StepScreen
<1>2. \A g : MatchState(g, s).turn = g.turn
  BY DEF MatchState
<1>3. CASE Shows
  BY <1>2, <1>3 DEF Shows, Broadcast
<1>4. CASE Hides /\ started
  BY <1>2, <1>4 DEF Hides, Broadcast, TurnSeen
<1>5. CASE (NoticesOnly \/ Unseen) /\ started
  BY <1>5, ClearNoticesBoard DEF NoticesOnly, Unseen, TurnSeen, MatchInv, Live
<1>6. QED
  BY <1>1, <1>3, <1>4, <1>5 DEF ScreenKind

LEMMA TurnSeenAlways == MatchSpec => []TurnSeen
<1>1. MatchInit => TurnSeen
  BY DEF MatchInit, TurnSeen
<1>2. MatchInv /\ TurnSeen /\ [MatchNext]_matchVars => TurnSeen'
  BY TurnSeenStep
<1>3. QED
  BY <1>1, <1>2, MatchInvAlways, PTL DEF MatchSpec

\* A player who cannot have had something hidden from it was last sent the game
\* as it is, and everybody was sent the end.
THEOREM AlwaysUpToDate == MatchSpec => []UpToDate
<1>1. MatchInit => UpToDate
  BY DEF MatchInit, UpToDate
<1>2. MatchInv /\ UpToDate /\ [MatchNext]_matchVars => UpToDate'
  BY ScreenStep
<1>3. QED
  BY <1>1, <1>2, MatchInvAlways, PTL DEF MatchSpec
=============================================================================
