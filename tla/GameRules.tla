------------------------------ MODULE GameRules ------------------------------
(***************************************************************************)
(* The rules of a Two Spies game as GameState.cpp implements them, written *)
(* as operators on a game record g.  Every command of the code is a pair:  *)
(* Can...(g, s, ...), the checks it makes before it changes anything, and  *)
(* ...Effect(g, s, ...), what it then assigns.  Module GameState runs them *)
(* as a state machine; module Match calls them from its own handlers.      *)
(***************************************************************************)
EXTENDS CityGraph

CONSTANTS
  ALPHA, BETA,     \* the two sides
  Free,            \* a pop-up nobody has claimed
  Cost,            \* AbilityCosts.hpp: Intel cost of each ability
  IntelGaps,       \* actions between two Intel pop-ups (3..5 in the code)
  ActionGaps       \* actions between two Action pop-ups (7..10 in the code)

Side == {ALPHA, BETA}
Ability == {"LOCATE", "DEEP_COVER", "STRIKE_REPORT", "ENCRYPTION",
            "RAPID_RECON", "PREP_MISSION"}

ASSUME RulesAssumption ==
  /\ ALPHA # BETA
  /\ None \notin Side
  /\ Free \notin Side \cup {None}
  /\ Cost \in [Ability -> Nat]
  /\ IntelGaps \subseteq Nat \ {0} /\ IntelGaps # {}
  /\ ActionGaps \subseteq Nat \ {0} /\ ActionGaps # {}

Opp(s) == IF s = ALPHA THEN BETA ELSE ALPHA

\* The opponent_* flags of PlayerData, and its two flags about visibility:
\* cover_blown_stealthily and locate_blocked_by_deep_cover.
Notice == {"strike", "locate", "deepCover", "control", "intel", "encryption",
           "prepMission", "strikeReport"}
Flag == Notice \cup {"stealth", "locateBlocked"}

Permanent == {"STRIKE_REPORT", "ENCRYPTION", "RAPID_RECON"}
NotDeep == -1              \* deep_cover_used_on_turn when Deep Cover is off

Popups == [City -> Side \cup {None, Free}]

(***************************************************************************)
(* The state of a game.  The fields indexed by side are those of           *)
(* PlayerData; the abilities list is Ability without the one-time          *)
(* purchases already made, so only "unlocked" is kept.  action_count_ is   *)
(* only ever used modulo 6.  The counters since the last pop-up and the    *)
(* threshold for the next are kept as their difference, the actions still  *)
(* to go.  A pop-up map gives None (no pop-up), Free, or who claimed it.   *)
(***************************************************************************)
Game ==
  [ city       : [Side -> City],
    actions    : [Side -> Nat],
    intel      : [Side -> Nat],
    cover      : [Side -> BOOLEAN],
    known      : [Side -> City \cup {None}],
    flags      : [Side -> SUBSET Flag],
    unlocked   : [Side -> SUBSET Permanent],
    revealed   : [Side -> SUBSET Permanent],
    deepSince  : [Side -> Nat \cup {NotDeep}],
    prep       : [Side -> BOOLEAN],
    moved      : [Side -> BOOLEAN],
    visited    : [Side -> SUBSET City],
    newCity    : [Side -> BOOLEAN],
    claimIntel : [Side -> BOOLEAN],
    claimAction: [Side -> BOOLEAN],
    turn       : Side,
    turnNumber : Nat,
    over       : BOOLEAN,
    winner     : Side \cup {None},
    phase      : 0..5,
    scheduled  : City \cup {None},
    gone       : SUBSET City,
    controller : [City -> Side \cup {None}],
    intelAt    : Popups,
    actionAt   : Popups,
    untilIntel : Nat,
    untilAction: Nat ]

\* The constructor, set_starting_cities and set_starting_turn.
NewGame(start, first, gapI, gapA) ==
  [ city       |-> start,
    actions    |-> [s \in Side |-> 2],
    intel      |-> [s \in Side |-> 2],
    cover      |-> [s \in Side |-> FALSE],
    known      |-> [s \in Side |-> start[Opp(s)]],
    flags      |-> [s \in Side |-> {}],
    unlocked   |-> [s \in Side |-> {}],
    revealed   |-> [s \in Side |-> {}],
    deepSince  |-> [s \in Side |-> NotDeep],
    prep       |-> [s \in Side |-> FALSE],
    moved      |-> [s \in Side |-> FALSE],
    visited    |-> [s \in Side |-> {start[s]}],
    newCity    |-> [s \in Side |-> FALSE],
    claimIntel |-> [s \in Side |-> FALSE],
    claimAction|-> [s \in Side |-> FALSE],
    turn       |-> first,
    turnNumber |-> 1,
    over       |-> FALSE,
    winner     |-> None,
    phase      |-> 0,
    scheduled  |-> None,
    gone       |-> {},
    controller |-> [c \in City |-> None],
    intelAt    |-> [c \in City |-> None],
    actionAt   |-> [c \in City |-> None],
    untilIntel |-> gapI,
    untilAction|-> gapA ]

NewGames ==
  {NewGame(start, first, gapI, gapA) :
     start \in {f \in [Side -> City] : /\ f[ALPHA] # f[BETA]
                                       /\ f[BETA] \notin Adjacent(f[ALPHA])},
     first \in Side, gapI \in IntelGaps, gapA \in ActionGaps}

-----------------------------------------------------------------------------
(* The action counter: pop-ups appear and cities disappear.                *)

\* A pop-up appears in a random city still on the map without one, if any.
Spawned(g, popups) ==
  LET empty == {c \in City \ g.gone : g.intelAt[c] = None /\ g.actionAt[c] = None}
  IN  IF empty = {} THEN {popups} ELSE {[popups EXCEPT ![c] = Free] : c \in empty}

\* The Intel pop-ups become p, and n actions are to go to the next one.
IntelBoard(g, n, p) == [g EXCEPT !.untilIntel = n, !.intelAt = p]
ActionBoard(g, n, p) == [g EXCEPT !.untilAction = n, !.actionAt = p]

SpawnIntel(g) ==
  IF g.untilIntel > 1
  THEN {IntelBoard(g, g.untilIntel - 1, g.intelAt)}
  ELSE {IntelBoard(g, n, p) : n \in IntelGaps, p \in Spawned(g, g.intelAt)}

SpawnAction(g) ==
  IF g.untilAction > 1
  THEN {ActionBoard(g, g.untilAction - 1, g.actionAt)}
  ELSE {ActionBoard(g, n, p) : n \in ActionGaps, p \in Spawned(g, g.actionAt)}

\* At the fourth action of every six a city is scheduled, at the sixth it goes.
Schedule(g) ==
  IF Disappearable(g.gone) = {}
  THEN {[g EXCEPT !.scheduled = None]}
  ELSE {[g EXCEPT !.scheduled = c] : c \in Disappearable(g.gone)}

\* Mutants: a city disappears at the fifth action; the choice is made again then.
GoesTooSoon(g) ==
  CASE g.phase = 4 -> Schedule(g)
    [] g.phase = 5 -> {[g EXCEPT !.gone = @ \cup ({g.scheduled} \ {None}),
                                 !.scheduled = None]}
    [] OTHER       -> {g}
ChosenTwice(g) ==
  CASE g.phase \in {4, 5} -> Schedule(g)
    [] g.phase = 0 -> {[g EXCEPT !.gone = @ \cup ({g.scheduled} \ {None}),
                                 !.scheduled = None]}
    [] OTHER       -> {g}

ShrinkMap(g) ==
  CASE g.phase = 4 -> Schedule(g)
    [] g.phase = 0 -> {[g EXCEPT !.gone = @ \cup ({g.scheduled} \ {None}),
                                 !.scheduled = None]}
    [] OTHER       -> {g}

\* increment_action_count: every outcome its random draws allow.
CountAction(g) ==
  UNION {ShrinkMap(h) :
    h \in UNION {SpawnAction(i) :
      i \in SpawnIntel([g EXCEPT !.phase = (@ + 1) % 6])}}

-----------------------------------------------------------------------------
(* The checks every command makes first, in the code's terms.              *)

\* clear_action_notifications, the first statement of every command: it runs
\* even when the command is then rejected, whoever sent it.
ClearNotices(g, s) ==
  [g EXCEPT !.flags = [p \in Side |-> IF p = s THEN g.flags[p] \ {"locateBlocked"}
                                               ELSE g.flags[p] \ Notice]]

\* Mutants of the two checks: any side acts at any time; the game never stops.
AnyTurn(g, s) == ~g.over
NeverStops(g, s) == g.turn = s

MyTurn(g, s) == ~g.over /\ g.turn = s
CanAct(g, s) == MyTurn(g, s) /\ g.actions[s] > 0
Stranded(g, s) == g.city[s] \in g.gone
HeldByOpponent(g, s) == g.controller[g.city[s]] = Opp(s)
Deep(g, s) == g.deepSince[s] >= 0
Encrypted(g, s) == "ENCRYPTION" \in g.unlocked[s]

\* A notice the opponent gets unless the actor has Encryption.
Notify(g, s, n) == IF Encrypted(g, s) THEN {} ELSE {n}

-----------------------------------------------------------------------------
(* MOVE.  The only command a stranded spy may use.                         *)

CanMove(g, s, c) ==
  /\ CanAct(g, s)
  /\ c \in Adjacent(g.city[s])
  /\ c \notin g.gone

\* Mutant: what the opponent knows is not cleared by a move.
MoveLeavesTrace(g, s, c) ==
  [g EXCEPT !.city[s] = c, !.actions[s] = @ - 1, !.moved[s] = TRUE,
            !.visited[s] = @ \cup {c}, !.newCity[s] = @ \/ c \notin g.visited[s],
            !.cover[s] = TRUE]

MoveEffect(g, s, c) ==
  LET o == Opp(s)
      entered == g.controller[c] = o /\ ~Deep(g, s)
      recon   == /\ "RAPID_RECON" \in g.unlocked[s]
                 /\ g.city[o] = c
                 /\ ~Deep(g, o)
  IN  [g EXCEPT
        !.city[s] = c,
        !.actions[s] = @ - 1,
        !.moved[s] = TRUE,
        !.visited[s] = @ \cup {c},
        !.newCity[s] = @ \/ c \notin g.visited[s],
        !.cover = [p \in Side |-> IF p = s THEN ~entered
                                  ELSE g.cover[p] /\ ~recon],
        !.known = [p \in Side |->
                     IF p = s THEN IF recon THEN c ELSE g.known[s]
                     ELSE IF entered THEN c ELSE None]]

(* STRIKE, always at the striker's own city.                               *)

CanStrike(g, s) == CanAct(g, s) /\ ~Stranded(g, s)

Hit(g, s) == g.city[Opp(s)] = g.city[s]

\* Mutants: a hit that names no winner; a reported miss that leaves the cover on.
HitWithoutWinner(g, s) ==
  [g EXCEPT !.actions[s] = @ - 1, !.over = Hit(g, s)]
ReportWithoutCover(g, s) ==
  [g EXCEPT !.actions[s] = @ - 1,
            !.over = Hit(g, s),
            !.winner = IF Hit(g, s) THEN s ELSE @,
            !.known[Opp(s)] = IF "STRIKE_REPORT" \in g.unlocked[Opp(s)]
                              THEN g.city[s] ELSE @]

StrikeEffect(g, s) ==
  LET o == Opp(s)
      reported == ~Hit(g, s) /\ "STRIKE_REPORT" \in g.unlocked[o]
  IN  [g EXCEPT
        !.actions[s] = @ - 1,
        !.over = Hit(g, s),
        !.winner = IF Hit(g, s) THEN s ELSE @,
        !.flags[o] = IF Hit(g, s) THEN @ ELSE @ \cup Notify(g, s, "strike"),
        !.cover[s] = @ /\ ~reported,
        !.known[o] = IF reported THEN g.city[s] ELSE @]

(* WAIT.                                                                   *)

CanWait(g, s) ==
  CanAct(g, s) /\ ~Stranded(g, s) /\ ~HeldByOpponent(g, s)

WaitEffect(g, s) ==
  [g EXCEPT !.actions[s] = @ - 1, !.cover[s] = TRUE, !.known[Opp(s)] = None]

(* CONTROL, which takes a city from the opponent as well.                  *)

CanControl(g, s) ==
  CanAct(g, s) /\ ~Stranded(g, s) /\ g.controller[g.city[s]] # s

ControlEffect(g, s) ==
  [g EXCEPT
    !.controller[g.city[s]] = s,
    !.cover[s] = FALSE,
    !.known[Opp(s)] = g.city[s],
    !.flags[Opp(s)] = @ \cup Notify(g, s, "control"),
    !.actions[s] = @ - 1]

-----------------------------------------------------------------------------
(* Abilities.                                                              *)

\* Encryption and Rapid Recon leave the list when bought; Strike Report stays
\* in it and is refused by a check of its own.
Abilities(g, s) == Ability \ (g.unlocked[s] \ {"STRIKE_REPORT"})

\* Mutant: the Intel a spy has is not compared with the cost.
CanUseUnpaid(g, s, a) ==
  CanAct(g, s) /\ ~Stranded(g, s) /\ a \in Abilities(g, s)

\* The code deducts the cost, finds out that a last-action ability is used too
\* early or in the opponent's city, and refunds: nothing has changed.
CanUse(g, s, a) ==
  /\ CanAct(g, s)
  /\ ~Stranded(g, s)
  /\ a \in Abilities(g, s)
  /\ a = "STRIKE_REPORT" => a \notin g.unlocked[s]
  /\ g.intel[s] >= Cost[a]
  /\ a \in {"DEEP_COVER", "PREP_MISSION"} => /\ g.actions[s] = 1
                                             /\ ~HeldByOpponent(g, s)

Pay(g, s, a) == [g EXCEPT !.intel[s] = @ - Cost[a], !.actions[s] = @ - 1]

DeepCover(g, s) ==
  [g EXCEPT
    !.deepSince[s] = g.turnNumber,
    !.cover[s] = TRUE,
    !.known[Opp(s)] = None,
    !.flags[Opp(s)] = @ \cup Notify(g, s, "deepCover")]

\* Mutant: Deep Cover does not stop a Locate.
LocateAnyone(g, s) ==
  [g EXCEPT !.known[s] = g.city[Opp(s)], !.cover[Opp(s)] = FALSE]

\* Deep Cover defeats a Locate: the searcher learns so, the target nothing.
Locate(g, s) ==
  LET o == Opp(s)
  IN  IF Deep(g, o)
      THEN [g EXCEPT
             !.known[s] = None,
             !.flags = [p \in Side |-> IF p = s THEN g.flags[p] \cup {"locateBlocked"}
                                                ELSE g.flags[p] \ {"locate"}]]
      ELSE [g EXCEPT
             !.known[s] = g.city[o],
             !.cover[o] = FALSE,
             !.flags = [p \in Side |->
                          IF p = s THEN g.flags[p] \ {"locateBlocked"}
                          ELSE g.flags[p] \cup
                               {IF Encrypted(g, s) THEN "stealth" ELSE "locate"}]]

StrikeReport(g, s) ==
  [g EXCEPT
    !.unlocked[s] = @ \cup {"STRIKE_REPORT"},
    !.revealed[s] = IF Encrypted(g, s) THEN @ ELSE @ \cup {"STRIKE_REPORT"},
    !.flags[Opp(s)] = @ \cup Notify(g, s, "strikeReport")]

\* Announced whatever it hides from then on.
Encryption(g, s) ==
  [g EXCEPT
    !.unlocked[s] = @ \cup {"ENCRYPTION"},
    !.flags[Opp(s)] = @ \cup {"encryption"}]

RapidRecon(g, s) ==
  [g EXCEPT
    !.unlocked[s] = @ \cup {"RAPID_RECON"},
    !.revealed[s] = IF Encrypted(g, s) THEN @ ELSE @ \cup {"RAPID_RECON"}]

PrepMission(g, s) ==
  [g EXCEPT
    !.prep[s] = TRUE,
    !.flags[Opp(s)] = @ \cup Notify(g, s, "prepMission")]

UseEffect(g, s, a) ==
  LET paid == Pay(g, s, a)
  IN  CASE a = "DEEP_COVER"    -> DeepCover(paid, s)
        [] a = "LOCATE"        -> Locate(paid, s)
        [] a = "STRIKE_REPORT" -> StrikeReport(paid, s)
        [] a = "ENCRYPTION"    -> Encryption(paid, s)
        [] a = "RAPID_RECON"   -> RapidRecon(paid, s)
        [] a = "PREP_MISSION"  -> PrepMission(paid, s)

-----------------------------------------------------------------------------
(* END TURN, in the order the code does it.                                *)

\* try_claim_intel and try_claim_action: ending the turn on an unclaimed pop-up
\* claims it; it is paid out when the claimer's next turn starts.
Claim(g, s) ==
  LET c == g.city[s]
  IN  [g EXCEPT
        !.claimIntel[s] = @ \/ g.intelAt[c] = Free,
        !.intelAt[c] = IF @ = Free THEN s ELSE @,
        !.claimAction[s] = @ \/ g.actionAt[c] = Free,
        !.actionAt[c] = IF @ = Free THEN s ELSE @]

\* Base income, the exploration bonus (lost on a timeout), 4 per city held.
Income(g, s, skip) ==
  [g EXCEPT
    !.intel[s] = @ + 4 + (IF g.newCity[s] /\ ~skip THEN 4 ELSE 0)
                   + 4 * Cardinality({c \in City : g.controller[c] = s}),
    !.newCity[s] = FALSE]

\* Mutant: Prep Mission adds to the actions left over from the last turn.
ActionsPileUp(g, n) ==
  [g EXCEPT !.turn = n, !.turnNumber = @ + 1, !.actions[n] = @ + 2,
            !.prep[n] = FALSE]

\* n is the side whose turn starts.
PassTurn(g, n) ==
  [g EXCEPT
    !.turn = n,
    !.turnNumber = @ + 1,
    !.actions[n] = IF g.prep[n] THEN 3 ELSE 2,
    !.prep[n] = FALSE,
    !.flags[n] = @ \ {"encryption", "prepMission", "stealth"}]

\* The first pop-up claimed by n, if the map has not taken it, leaves the board.
Taken(popups, n) ==
  IF \E c \in City : popups[c] = n
  THEN [popups EXCEPT ![CHOOSE c \in City : popups[c] = n] = None]
  ELSE popups

\* Mutant: the claim is paid and the pop-up left on the board.
PopupStays(g, n) ==
  IF g.claimIntel[n]
  THEN [g EXCEPT !.intel[n] = @ + 10, !.cover[n] = FALSE,
                 !.known[Opp(n)] = g.city[n], !.claimIntel[n] = FALSE]
  ELSE g

ApplyClaimedIntel(g, n) ==
  IF g.claimIntel[n]
  THEN [g EXCEPT
         !.intel[n] = @ + 10,
         !.cover[n] = FALSE,
         !.known[Opp(n)] = g.city[n],
         !.flags[Opp(n)] = @ \cup Notify(g, n, "intel"),
         !.intelAt = Taken(@, n),
         !.claimIntel[n] = FALSE]
  ELSE g

\* Mutant: the claimer is exposed, but the opponent is not told where.
PaidInSecret(g, n) ==
  IF g.claimAction[n]
  THEN [g EXCEPT !.actions[n] = @ + 1, !.cover[n] = FALSE,
                 !.actionAt = Taken(@, n), !.claimAction[n] = FALSE]
  ELSE g

ApplyClaimedAction(g, n) ==
  IF g.claimAction[n]
  THEN [g EXCEPT
         !.actions[n] = @ + 1,
         !.cover[n] = FALSE,
         !.known[Opp(n)] = g.city[n],
         !.actionAt = Taken(@, n),
         !.claimAction[n] = FALSE]
  ELSE g

DropGonePopups(g) ==
  LET Kept(popups) == [c \in City |-> IF c \in g.gone THEN None ELSE popups[c]]
  IN  [g EXCEPT !.intelAt = Kept(@), !.actionAt = Kept(@)]

ExpireDeepCover(g, n) ==
  IF Deep(g, n) /\ g.turnNumber - g.deepSince[n] >= 2
  THEN [g EXCEPT !.deepSince[n] = NotDeep]
  ELSE g

\* Starting a turn in the opponent's city blows the cover of the one who starts.
MeetOpponent(g, n) ==
  IF g.city[n] = g.city[Opp(n)] /\ ~Deep(g, n)
  THEN [g EXCEPT !.cover[n] = FALSE, !.known[Opp(n)] = g.city[n]]
  ELSE g

\* The last statements: all flags of the side whose turn has ended.
ClearFlags(g, s) == [g EXCEPT !.flags[s] = {}]

EndTurnEffect(g, s, skip) ==
  LET n == Opp(s)
      begun   == PassTurn(Income(Claim(g, s), s, skip), n)
      paid    == ApplyClaimedAction(ApplyClaimedIntel(begun, n), n)
      settled == ExpireDeepCover(DropGonePopups(paid), n)
  IN  ClearFlags(MeetOpponent(settled, n), s)

-----------------------------------------------------------------------------
(* abort and forfeit: side s loses, unless the game is already over.       *)

Concede(g, s) ==
  IF g.over THEN g ELSE [g EXCEPT !.over = TRUE, !.winner = Opp(s)]
==============================================================================
