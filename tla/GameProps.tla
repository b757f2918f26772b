------------------------------ MODULE GameProps ------------------------------
(***************************************************************************)
(* What the rules promise, stated over the states of GameState.            *)
(***************************************************************************)
EXTENDS GameState

\* Every field of PlayerData and GameState keeps to its type; Intel and actions
\* never go negative (GameState.cpp subtracts both without a check of its own).
TypeOK == game \in Game

\* In game g, each side knows where the other is exactly when it has no cover.
KnowsExactly(g) ==
  \A s \in Side : g.known[Opp(s)] = IF g.cover[s] THEN None ELSE g.city[s]

\* has_cover and the opponent's known_opponent_city are two fields, written in
\* a dozen places by commands of either side; they always say the same: the
\* opponent knows exactly the city of a spy without cover, and it is the city
\* the spy is in now, never one it has left.
ExposureExact == KnowsExactly(game)

\* In game g, Deep Cover goes with cover, and with a turn its owner cannot act in.
HiddenWhileDeep(g) ==
  \A s \in Side : Deep(g, s) =>
    /\ g.cover[s]
    /\ IF g.turn = s
       THEN g.deepSince[s] = g.turnNumber /\ g.actions[s] = 0
       ELSE g.turnNumber = g.deepSince[s] + 1

\* Deep Cover hides the spy for as long as it lasts, which is from the last
\* action of the turn it was bought in to the end of the opponent's next turn:
\* nothing the opponent does meanwhile exposes the spy, and it never lasts into
\* a turn in which its owner can act.
DeepCoverHolds == HiddenWhileDeep(game)

\* The claim flags of the players and the claims marked on the pop-ups agree
\* from the end of one turn to the start of the claimer's next, over the
\* opponent's actions, which spawn pop-ups and remove cities: a spy has at most
\* one claim, at the city where it waits for its turn; the pop-up it claimed is
\* still there unless the map has taken the city; nobody else's claim is there.
ClaimsMatchPopups ==
  /\ \A c \in City : game.intelAt[c] = None \/ game.actionAt[c] = None
  /\ \A s \in Side :
       /\ game.claimIntel[s] \/ game.claimAction[s] => game.turn # s
       /\ ~(game.claimIntel[s] /\ game.claimAction[s])
       /\ \A c \in City : /\ game.intelAt[c] = s =>
                               game.claimIntel[s] /\ c = game.city[s]
                          /\ game.actionAt[c] = s =>
                               game.claimAction[s] /\ c = game.city[s]
       /\ game.claimIntel[s] =>
            game.intelAt[game.city[s]] = s \/ Stranded(game, s)
       /\ game.claimAction[s] =>
            game.actionAt[game.city[s]] = s \/ Stranded(game, s)

\* The cities still on the map are connected, and still will be once the
\* scheduled one is gone: what select_random_city_to_disappear checked at the
\* fourth action of six is not stale at the sixth.
MapStaysConnected ==
  /\ Connected(City \ game.gone)
  /\ game.scheduled # None => /\ game.scheduled \notin game.gone
                              /\ StaysConnected(game.gone, game.scheduled)

\* The search calls a city safe exactly when the other cities left cannot be parted
\* in two without an edge between the parts, at every stage of the shrinking map.
SafeMeansUncut ==
  \A c \in City \ game.gone :
    StaysConnected(game.gone, c) <=> Uncut(City \ (game.gone \cup {c}))

\* A city is announced from the fourth to the sixth action of every six, every
\* time, until the last city has gone: a connected map always has a city it can
\* lose (the code's comment calls the other case "shouldn't happen").
AlwaysWarned ==
  game.scheduled # None <=> game.phase \in {4, 5} /\ game.gone # City

\* There is a winner exactly when the game is over.
WinnerDecided == game.over <=> game.winner \in Side

-----------------------------------------------------------------------------
\* Cities disappear one at a time and only as announced; an announcement is
\* never withdrawn or replaced.
DisappearsAsAnnounced ==
  [][/\ game.scheduled # None /\ game'.scheduled # game.scheduled =>
          /\ game'.scheduled = None
          /\ game'.gone = game.gone \cup {game.scheduled}
     /\ game'.gone # game.gone =>
          game'.gone = game.gone \cup {game.scheduled}]_game

\* While a turn lasts, nothing anybody does changes what belongs to the side
\* that is not on turn: its position, Intel, actions, abilities and claims.
\* Only its cover, its knowledge and its flags can change.
IdleSpyUntouched ==
  [][\A s \in Side : game.turn # s /\ game'.turn = game.turn =>
       /\ game'.city[s] = game.city[s]
       /\ game'.intel[s] = game.intel[s]
       /\ game'.actions[s] = game.actions[s]
       /\ game'.unlocked[s] = game.unlocked[s]
       /\ game'.deepSince[s] = game.deepSince[s]
       /\ game'.prep[s] = game.prep[s]
       /\ game'.claimIntel[s] = game.claimIntel[s]
       /\ game'.claimAction[s] = game.claimAction[s]]_game

\* Once the game is over nothing changes but notification flags, whatever
\* commands still arrive.
FinalOutcome ==
  [][game.over => game' = [game EXCEPT !.flags = game'.flags]]_game

\* A game keeps the promises of TurnGame.  The side on turn, its turn number and
\* its actions are spread over GameState and both PlayerData, and end_turn moves
\* the bonus actions of Prep Mission and of Action pop-ups into the new turn.
Turns == INSTANCE TurnGame
           WITH NoSide <- None, turn <- game.turn, number <- game.turnNumber,
                left <- game.actions[game.turn], winner <- game.winner
TurnSpec == Turns!Spec

-----------------------------------------------------------------------------
(* What the documentation and the comments say and the code does not do.   *)

\* .github/GAME_MECHANICS.md:206: a stranded spy whose neighbouring cities have
\* all disappeared loses.
StrandedLoses ==
  \A s \in Side :
    Stranded(game, s) /\ Adjacent(game.city[s]) \subseteq game.gone => game.over

\* .github/GAME_MECHANICS.md:294 and GameState.cpp:688-689: a player sees its
\* notifications during its turn: they are not cleared before it has acted or
\* its turn has ended.
NoticesLastTheTurn ==
  [][\A s \in Side :
       game.turn = s /\ game'.turn = s /\ game'.actions[s] = game.actions[s] =>
         game.flags[s] \cap Notice \subseteq game'.flags[s]]_game

\* .github/GAME_MECHANICS.md:182: paying out an Intel claim sets
\* opponentClaimedIntel for the opponent (who has no Encryption to fear).
IntelClaimAnnounced ==
  [][\A s \in Side :
       game.claimIntel[s] /\ ~game'.claimIntel[s] /\ ~Encrypted(game, s) =>
         "intel" \in game'.flags[Opp(s)]]_game
==============================================================================
