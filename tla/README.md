# Two Spies: specification and verification

Two Spies is a turn-based game for two players. A C++ server (`src/backend`)
holds every game; a browser client (`src/stitch-frontend`) shows one player's part of
it over a WebSocket. This directory holds TLA+ modules of both, TLC
configurations that check them on small instances, and proofs, checked by TLAPS,
that the most important properties hold for every map, cost, time limit, and
number of players, rooms and connections.

Contents: 1 the system, 2 the modules and how they correspond to the code,
3 the runs, 4 the proofs, 5 where code and documents disagree, 6 what is left
out, 7 what is left.

## 1. The system

```
 App ── PhaserGame (board), hub, name entry
  │
 WebSocketClient ── WebSocket ── Session ─┐
 (other browser) ── WebSocket ── Session ─┤   WebSocketServer ── registry of sessions
                                  ▼            │ 1 s tick
                            MatchManager ◄─────┘
                                  │ rooms, codes, players
                                  ▼
                                Match     turn clock, grace, missed turns,
                                  │       disconnect clock, broadcasts
                                  ▼
                              GameState   the rules
                                  │
                              CityGraph   the map
```

| component | state | operations | interacts with |
|---|---|---|---|
| City graph (`CityGraph.cpp`, `DefaultMap.hpp`) | cities, edges, coordinates | adjacency, connectivity search | read by the game |
| Game rules (`GameState.cpp`) | two `PlayerData`, city controllers, pop-ups, disappearing cities, turn, winner | `move strike wait control use_ability end_turn abort forfeit`, each with its own copy of the checks | called by Match under its lock |
| Match (`Match.cpp`) | the game, two player slots, turn clock, grace flag, missed-turn counters, disconnect times, finish time | `add_player start handle_action handle_end_turn handle_abort remove_player handle_player_disconnect/reconnect check_*_timeout` | called by sessions and by the tick; sends to players |
| Match manager (`MatchManager.cpp`) | matches, room codes, player → room | create, join by code, leave, abort, purge after 60 s | called by sessions and by the tick |
| Server and sessions (`WebSocketServer.cpp`, `Session.cpp`) | sessions by id, player id of a session, its write queue | accept, read, dispatch, queue a write, close, tick | four I/O threads, one strand per session |
| Wire protocol (`Messages.cpp`) | none | parse a client message, serialize one side's view | decides what a player gets to see |
| Browser connection (`WebSocketClient.ts`, `EventEmitter.ts`) | socket, timer of the next attempt, token, handlers | connect, send, reconnect, disconnect | tells App and board of every message |
| Browser application (`main.tsx`) | phase (name, reconnecting, deployment, playing), session and code of the match, loading, two timers, URL and storage | twelve handlers of the connection, an effect that joins by URL, the clicks of the screens | mounts hub or board, sends requests |
| Browser screens (`PhaserGame.tsx`, `MissionDeploymentHub.tsx`, `CodenameAuthorizationTerminal.tsx`) | the state shown, move target, highlight, end | clicks on cities and buttons; messages | hear the same messages as App, without its session check |

What is hard here:

* **Redundant state.** Whether a spy is exposed is stored twice, as its own
  `has_cover` and as the opponent's `known_opponent_city`, and a dozen places
  write them separately. A claimed pop-up is a flag of the player and a mark on
  the pop-up. Deep Cover is a flag and a turn number.
* **Order within `end_turn`.** It claims pop-ups, pays income, passes the turn,
  adds bonus actions, pays the other side's claims, expires Deep Cover and
  clears two different sets of flags, about a hundred lines in which the order
  of two statements decides who learns what.
* **Choices that go stale.** The city to disappear is chosen two actions before
  it disappears, by a connectivity search over the map of that moment.
* **Commands from the wrong side, or too late.** The server forwards any command
  of either player to the game at any time.
* **Clocks** (Match): turn timeout, startup grace, missed turns and disconnects
  race with late commands and with each other.
* **Connections**: a player may have two sessions at once, and the
  older one may close last. What is sent on a link that is gone is lost.
* **What the browser believes.** It knows its match by a URL, a token, a state, a
  ref beside the state and a sentinel in the ref; its handlers were made by the
  first render and see that render's variables for ever; React renders later than
  the handlers set. The board repeats the rules of the server in its own words.
* **Threads**: four I/O threads, one mutex in each of manager, match, registry
  and write queue.

What makes each component correct:

* *Graph and disappearance*: what is left of the map is connected, always; a
  city disappears only when announced; an announcement is always possible.
* *Rules*: a side knows the other's city exactly when the other has no cover;
  Deep Cover lasts exactly through one opponent's turn; claims and pop-ups
  agree; nothing is spent that is not there; a side acts in its own turn only;
  the outcome is decided once. Seen from outside: turns alternate, each has 2 to
  4 actions, and they only go down.
* *Match*: at most one outcome is announced, and to both; a timeout never ends
  the wrong turn; a finished match stays finished; a match whose players are
  gone ends; after each change both players are sent the state.
* *Match manager*: a code leads to at most one waiting match, and a player to the
  match it is in; what is finished is eventually purged.
* *Server*: the registry leads to a session of that player; a closing old
  session does not cut off the new one (it does: section 5); locks are taken in one
  order.
* *Browser*: there is one connection or one attempt at it; whatever happens to it,
  the page comes to rest on a screen one can use, and a player whose match runs on
  its board. The board shows the game, offers what is legal, and hides no lock.
* *View*: a player's messages do not contain what it must not know.

The hazards of each part, with the lines at which they bite and the properties
that watch them, are in `PROJECT.json`.

## 2. The modules

| module | stands for |
|---|---|
| `CityGraph` | `CityGraph.cpp` and `select_random_city_to_disappear`: constant operators over a map given as constants |
| `Search`, `MCSearch` | the loop of `would_graph_stay_connected`, one city at a time, and an instance for TLC |
| `CityGraphProofs`, `SearchProofs` | the theorems about the search, in one expression and as the loop |
| `GameRules` | every rule of `GameState.cpp`, as operators on a game record |
| `GameState` | class `GameState` as a state machine: any command by any side at any time |
| `GameProps` | its properties and the refinement mapping to `TurnGame` |
| `TurnGame` | the abstract specification: alternating turns with a number of actions and one winner |
| `MCGame` | maps, costs, symmetry and view for TLC |
| `GameProofs`, `GameMapProofs` | the theorems about a game |
| `Messages` | `serialize_match_state`: what a `MATCH_STATE` shows one side |
| `Match` | class `Match` as a state machine over the operators of `GameRules`, with its clocks |
| `MatchProps` | its properties |
| `MatchLiveness` | players that fall silent or disappear, fairness, and that the match ends |
| `MCMatch`, `MCMatchLive` | instances for TLC |
| `MatchProofs` | the theorems about a match |
| `Rooms` | class `MatchManager`: every method as an operator from one manager to the next and the messages it sends |
| `Server` | sessions, their registry and links over `Rooms`; players whose browsers are not modelled |
| `Browser` | `WebSocketClient`, App with its screens, and the person at it, over `Server` |
| `BrowserProps`, `MCBrowser` | its properties; its instance for TLC |
| `GameBoard` | `PhaserGame`: the board of one player over a link to a whole `Match` |
| `GameBoardProps`, `MCGameBoard` | its properties; its instance for TLC |
| `RoomLife` | the abstract specification of a room: its life, its players and who is linked to it |
| `BrowserProofs`, `RecoveryProofs`, `BoardProofs` | the theorems about rooms, connections and pages, about the way back to a match, and about the board |

`GameRules` is separate from the state machine so that `Match` can call the same
rules from its own handlers, as the code does. `Match` extends `GameState` for
its variable and its bounds, and uses none of its actions: a step of a match is
more than a step of the game. A last action and the end of the turn are one step
of `Match`, since both happen under the match's lock; a deadline takes the
remaining actions, which no command of the game can do, ends the turn, and may
forfeit the game.

The system is composed twice, once for each question that needs it. `Browser` has
all of the connection, the lobby and the pages, and of a match only whether it
waits, runs or is over. `GameBoard` has all of a match and one player's board, and
of the connection only whether it is up. Both have the same link: messages keep
their order, and a break loses what is under way.

### From code to model

The variable `game` is one record: the fields of `PlayerData` indexed by side,
and those of `GameState`. Each command of the code is a pair of operators:
`Can...` collects the checks (the early returns that fill an error) and
`...Effect` the assignments. `GameState.Attempt` is the shape all commands
share: clear the notifications (also when the command is then refused, as in
the code), check, and when accepted take the effect and count the action.
`CountAction` is `increment_action_count`: it is part of every accepted command,
never a step of its own. It returns the set of games the random draws allow.
`end_turn` does not count as an action. `abort` and `forfeit` are both `Concede`.

Kept by what they do rather than as stored:

* `action_count_` is used only modulo 6: field `phase`.
* The actions since the last pop-up and the random threshold for the next one
  are kept as their difference, the actions still to go.
* The list of available abilities is the fixed list without the permanent
  purchases: only `unlocked` is kept. `opponent_has_*` flags are `revealed`.
* `deep_cover_active` and `deep_cover_used_on_turn` are one field, `deepSince`,
  with the code's -1 for "off"; the two are always assigned together.
* Pop-ups are functions from cities to None, Free or who claimed it.
* The refund of a last-action ability that turns out too early or in the
  opponent's city undoes the deduction a few lines above it: the check is in
  `CanUse` and no Intel changes.
* A player's boolean notification flags are a set, `flags`; `winner` is None until the
  game is over. Coordinates are integers. Names, error texts and logging are left out;
  `check_same_city` (`GameState.cpp:722-746`), never called, is left out too.

The graph search keeps a stack in the code. `Visited` computes the set the
search has seen when the stack is empty, in layers, as a recursive function. The
loop itself, with its stack, started anywhere and pushing neighbours in any
order, is `Search`. Both are proved to answer `Uncut`, what it means to be connected
(section 4), and so to answer the same.

### From Match.cpp to `Match`

Every public method of `Match` takes the match's mutex, so each is one action;
so is the server's tick (`CheckForTimeout`), and so is time (`Pass`).

* *Time.* A time point of the code is kept as the time passed since
  (`clock`, `away`), counted up to the largest value it is compared with.
  Beyond that no comparison can change, so the cap loses nothing.
* *Commands* (`HandleAction`): a command after the deadline of the other's turn
  ends that turn and is dropped (`Dropped`); any other command first clears the
  sender's missed turns and the grace period (`Attended`), then is refused or
  accepted. Refused commands include those to a match that has not started or is
  over, and unknown ones, which the game never sees.
* *Start* is the join of BETA and `start` in one step: the manager holds its own
  lock over both and over every abort. Before it the game is `Unplaced`: only
  ALPHA is there, and ALPHA may abort.
* *Messages.* `screen` is the last `MATCH_STATE` each player was sent and
  `verdict` all `GAME_OVER`s. `TURN_CHANGE`, `OPPONENT_DISCONNECTED`,
  `OPPONENT_RECONNECTED` and error messages depend on nothing else and are left
  out. Where the code sends `MATCH_STATE` twice in one call, under the lock, the
  second is kept.
* `broadcast_state` checks for a timeout of its own. Its callers have all reset
  the clock or ended the game just before, so that check finds nothing and is
  left out. `handle_player_reconnect` is never called, and `remove_player` is empty.
* `start` on a map where all cities are adjacent throws; `NewGames` is empty then.
* `claimedIntel` is not in `MatchState`: the code adds it to `player_state`
  (`Messages.cpp:211`) after that record has been copied into the result
  (`:166`), so it is never sent, although `GAME_MECHANICS.md:183` says it is.

### From MatchManager, Session and WebSocketServer to `Rooms` and `Server`

A method of the manager takes its mutex, so each is one operator, applied in one
step by the session that calls it. Its result holds the next manager and what it
sends to each player, in order (`SendTo`): messages to different players meet in no
queue, so their order among each other is not kept. `Deliver` gives each player's to
the session the registry names at that moment. A session speaks for one player
(`RegistrySound`), so it has at most one listener.

* A session is `open`, `cut` (the link is gone and the server has not noticed) or
  `free`. It handles its messages in order (`ServerReceives`), one at a time, as its
  strand does. `ServerNotices` is the failed read after which it is unregistered.
* The registry has no entry for a session before AUTHENTICATE: `on_accept` registers
  it under an identity of its own, to which nothing is addressed before.
* Session ids are given in order; the code draws among 900,000 those not in use.
  Codes may be used again once given up, as in the code.
* `PeerActs` is the other players' sessions: every call that would have an effect.
  `Play`, `GameEnds` and `RoomExpires` are what a match does by itself.
* The calls of `remove_player` and `is_empty` on a finished match in `create_match`
  and `join_match_by_code` do nothing in the code and are left out.

### From main.tsx and WebSocketClient.ts to `Browser`

* *Rendering.* A handler sets state, and React shows it later. `app` is what has been
  set, `shown` what was rendered last; `Renders` is the step between, with the effects
  that run after it (`JoinsByURL`, mounting the board). The refs `phaseRef` and
  `isGameOverRef` are assigned by effects, so they are read from `shown`.
* *First render.* The effect that subscribes runs once. Its handlers see `phase`
  'reconnecting', `isLoading` true and the first `playerName` for ever:
  `OnError` and `OnState` contain what is left of their tests, `Entry` reads
  `wasNamed`.
* *The client.* `client.ws` is the socket, `line` its state for the browser,
  `session` that for the server. `Fails` is a failed attempt (onerror, then onclose),
  `Drops` the discovery that an open one is dead, with or without onerror. The growing
  delay is left out: the timer may run out at any time.
* *The person* clicks on what is shown and enabled (`Clicks` and its uses), loads the
  page again or opens an invitation (`Reloads`). A page that takes another's place
  gets the stored token, or a new one.
* `Served` are the states a page may be loaded in: nothing has happened yet, or the
  player's match already runs, and others may have opened a room since.

### From PhaserGame.tsx to `GameBoard`

`ui` holds the state shown, whether a message has been handled since the component was
mounted, the move target (`selectedCity`), the highlighted city and the winner on the
overlay. `CityClick`, `MapClick`, `Dismiss`, `Press` and `PressEndTurn` are its click
handlers, each enabled when the element is there and not disabled. `Hears` is the
handler of a message together with the effect on the property `initialState`: App
and board hear the same message and render together. When the component is mounted
with the first state it may subscribe too late to hear it (`FirstState`).

The match answers a command (`Arrives`) by what it sends this player: the verdict, then
the state, or an error (`Answer`). Whatever else happens in the match (`Proceeds`)
sends the same way. The opponent is `Issue(Opp(Me))`: any of its commands at any time;
its own broken connections are in `Match` and left out here. `Breaks` loses what is
under way, `Noticed` tells the match or does not, `Relinks` brings back the same page
or a new one, and the match sends it everything again.

### The abstract specifications

`TurnGame` knows whose turn it is, its number, how many actions are left and who
has won. It promises that actions go down one at a time, that only `end_turn`
passes the turn, always to the other side and with 2, 3 or 4 actions, and that
after the game is decided nothing moves. The mapping reads `left` from the
actions of the side on turn, so a bonus paid to the wrong side or at the wrong
moment of `end_turn` breaks it.

`RoomLife` knows of each room its life (none, waiting, running, over, gone), its two
players and who is inside. It promises that a room is opened by its host alone, starts
when its guest enters, ends, and is gone when nobody is left in it; and that nobody gets in
otherwise. One step may change several rooms, since who enters one leaves another. The
mapping (`Seen`) reads who is inside from the links of all players, which the manager
keeps in another table than the players of a room, and clears and sets in other places.

## 3. The runs

All runs issue each command for *both* sides at *every* state: the server
forwards whatever arrives. So do the runs of `Match`, until its `MaxTurn`.

| run | asks | instance |
|---|---|---|
| `cover` | exposure, Deep Cover, what a command may touch, strikes, permanent abilities, the end of the game | 3 cities, 3 turns, no pop-ups, 372k states |
| `popups` | claims over several turns while the map shrinks; refinement of `TurnGame` | 3 cities, 5 turns, an Intel pop-up every 2nd and an Action pop-up every 3rd action, 510k states |
| `shrink` | the shrinking map, until nothing is left | 4 cities, 16 turns, 19k states |
| `stranded`, `intel_notice` | statements of the documents that the code does not keep (section 5) | 3 cities |
| `match` | commands, deadlines, broken connections and reconnections in any order, before, during and after the game | 3 cities, 2 missed turns lose, commands in the first 2 turns, 253k states |
| `match_live` | whether an abandoned match ends | 3 cities, commands in the first 2 turns, then deadlines only, 87k states |
| `missed_turns` | a comment of `Match.cpp` that the code does not keep (section 5) | 3 cities |
| `browser` | whether a page, a connection and a player always find their way back | one browser, one other player, 2 connections, 3 rooms, 2 codes, 3 events, 487k states |
| `browser_end` | a document's test that the code does not pass (section 5) | the same |
| `browser_reload` | another one (section 5) | two other players and 2 rooms; the page is loaded by an invitation, and the others rest |
| `board` | whether the board shows the game and offers its rules | 3 cities, 3 turns, one command and one message under way, 477k states |

What they show:

* `cover`: `ExposureExact` (the two records of a spy's exposure always agree),
  `DeepCoverHolds` (it hides for the opponent's whole turn and is over before
  its owner can act), `IdleSpyUntouched` (no command, accepted or not, changes
  position, Intel, actions, abilities or claims of the side not on turn),
  `WinnerDecided`, `FinalOutcome` (after the end only notifications change), and
  the type invariant, whose one contentful part is that Intel and actions never
  go negative. Strike Report, Rapid Recon and Encryption take part.
* `popups`: `ClaimsMatchPopups` over spawning, claiming, paying out and
  disappearing; `TurnSpec`.
* `shrink`: `MapStaysConnected` (a choice stays safe until it is carried out),
  `SafeMeansUncut` (a city is called safe exactly when the others cannot be parted
  without an edge between the parts), `AlwaysWarned` (a candidate always exists, so the
  warning comes at every fourth action of six), `DisappearsAsAnnounced`.
* `match`: `OneVerdict` (however many of strike, abort, third missed turn and lost
  connection come together, each player is told once, and both the same),
  `EndIsFinal`, `OnTurnCanAct` (nobody has to wait for a player without actions),
  `UpToDate` (what a player was last sent is the present state but for notices,
  unless the opponent is on turn and has Encryption), `MissedTurnsWereTheirs` (a
  deadline, which the tick, a late command and the broadcast may all notice, is
  charged once and to its owner).
* `match_live`: `IdleMatchEnds` and `DesertedMatchEnds`.
* `browser`: `OneLine` (one socket or one timer, and App knows which),
  `RegistrySound`, `CodesOpenRooms` (a code leads only to a room that waits) and its
  converse `CodesLast` (a room that waits keeps its code, with one exception, which the
  run reaches: see section 5), `RoomsLive` (the manager implements `RoomLife`),
  `SettledScreen` (a page at rest is neither
  reconnecting nor under the banner), `Recovered` (a player last seen on the board of a
  match that still runs, and who has only reloaded since, is on it again when all is
  quiet, unless the URL leads to another room), `Settles` (when the faults end, all comes to rest). `home`, a history
  variable of `BrowserProps`, remembers the board.
* `board`: `ShowsTheGame` (a board with nothing under way shows the end exactly when
  there is one, and the whole game whenever nothing is hidden from it),
  `LegalIsOffered` and `RefusalsExplained` (the buttons and the server's rules agree
  but for three rules named in `Unchecked` and a LOCATE of a known opponent),
  `SelectionShown` (a move target, which disables every button, is always visible).

### Bounds

* *Cities.* Three in a row is the smallest map on which two spies can start
  (they may not start next to each other), and on it they meet in the
  middle, strike, take each other's cities and enter them. The disappearance
  run uses four, placed so that no peripheral city is safe at first (the fallback
  that ignores the periphery is used) and later the periphery changes. A row has
  no cycle; what the search does on other maps is proved (section 4).
* *Turns* (`MaxTurn`): a Deep Cover or a claim made in one turn is over two turns
  later. In `cover`, three turns hold the Deep Cover of the side that begins with
  its expiry, and suffice to buy an ability, use it against the opponent and strike;
  since either side may begin, they do so for both. In `popups` five turns hold two
  claims. Sixteen turns exhaust a map of four cities.
* *Costs* (`SmallCost`) are scaled down so that abilities can be bought in the
  first turns. *Pop-up intervals* are shorter than the code's 3-5 and 7-10, so
  that both kinds appear; an interval of 99 means none within the bound. The
  proofs put no bound on any of these.
* *Match.* A turn of 1 unit with 1 of grace, a disconnect limit of 1 and 2 missed
  turns let every order of the deadlines occur: a disconnect may begin before, in or
  after the time of a turn and run out before, with or after it; in `match_live` the
  limit is 2, so that a player may also miss a turn while away. `MaxTurn` bounds the
  turns in which commands are issued. Deadlines are not bounded by it, nor need
  to be: a silent match ends after 2 missed turns of one side. In `match_live`
  commands are issued in the first turn of each side, and one player may go or both fall
  silent at any moment of them. The proofs put no bound on any of these limits.
* *Browser.* Two connections let a new session open before the old one is found dead.
  `MaxEvents` = 3 counts what people, peers and the network do: a match begun by two of
  them and broken by the third; or, since a match may already run (`Served`), a break,
  a reload and the end of the game, which is what `browser_end` needs. Two events make
  a room that runs, so that three rooms are more than three events can use. In
  `browser_reload` a third player has opened a second room before the page is loaded. What
  happens by itself is not bounded. The proofs put no bound on any of these.
* *Board.* One command and one message under way are enough for a click to meet a turn
  that has passed. `ENCRYPTION` hides moves; a turn of 1 unit and one missed turn end the
  match under the board. With two of each under way, with three turns and two missed
  ones, and with LOCATE and four turns the same properties held (1.7, 5.8 and 0.3
  million states).
* *Commands* limits each run to the commands its question is about; together the
  runs use all of them.

*Symmetry.* In `match` and `board` only the row is reversed, since ALPHA is the host. `browser` has none. In the runs of
the rules the two sides play by the same rules and the set of initial games
contains both orders; the maps are symmetric under reversal, coordinates
included (`x` becomes 9-`x` on four cities and 6-`x` on three, which exchanges
"left fifth" and "right fifth"). The two `CHOOSE`s in the rules do not break this:
the start of the graph search does not affect its result, and a side has at
most one claimed pop-up (`ClaimsMatchPopups`). *View* (`shrink` only): without
pop-ups, strikes, control and abilities, the fields left out of `ShrinkView` decide
neither which commands are accepted nor which cities go, and no property of
that run reads them.

### Fairness

`Spec` carries no fairness: a game waits for its players, so no liveness is
claimed of `GameState`. `AbandonedSpec` assumes two things, and nothing of the
players. Time passes (`WF` of `Pass`). And a deadline that has passed is noticed:
`WebSocketServer::on_timeout_check` re-arms itself for as long as the server runs
and checks every started match each second. This is weak fairness of
`CheckForTimeout`, written as `[]<>~Overdue`: `Overdue` is exactly when that
action is enabled, and the action leaves no deadline passed, so the two say the
same; TLC evaluates the second much faster. Nothing is assumed of commands,
disconnections and reconnections, which may go on for ever and in any order.

In `WatchedSpec` fairness is weak fairness of `Works`: the browser's event loop, its
timers, React, and the sessions of the server. No single kind of these steps is
promised anything; as long as one of them is enabled, one of them happens. That is
enough because each of them uses something up. Nothing is assumed of people, peers and
the network, whose events `MaxEvents` bounds: `Settles` says that after the last of
them all is done.

Deadlock is checked in every run but those of the browser: when all events are used
up and all has come to rest, nothing is left to happen.

## 4. The proofs

`GameProofs` and `GameMapProofs` prove, for every map, cost function, pop-up interval and
set of commands:

| theorem | states |
|---|---|
| `TypeCorrect` | `Spec => []TypeOK` |
| `SecureAlways` | the inductive invariant below |
| `ExposureAlwaysExact`, `DeepCoverAlwaysHolds`, `WinnerAlwaysDecided` | the invariants of the runs |
| `IdleSpyAlwaysUntouched`, `OutcomeAlwaysFinal` | the action properties |
| `GameImplementsTurns` | `Spec => TurnSpec`: the game implements `TurnGame` |
| `ClaimsAlwaysMatch`, `AlwaysAsAnnounced` | `Spec => []ClaimsMatchPopups`, `Spec => DisappearsAsAnnounced` |
| `MapAlwaysConnected`, `WarnedAlways` | `Spec => []MapStaysConnected`, `[]AlwaysWarned`, if the map is connected at first |
| `SafeAlwaysMeansUncut` | `Spec => []SafeMeansUncut` |

Assumptions, all named and evaluated by TLC on the instances: `MapAssumption`
(cities are finitely many, edges join cities, coordinates are integers),
`RulesAssumption` (two different sides, costs are naturals, intervals are at
least 1), `BoundAssumption`, and for a match `TimeAssumption` (a turn, the
disconnect limit and the number of missed turns are at least 1).

**The invariant.** `Good` says that the record has its fields and types.
`Secure` is `KnowsExactly /\ HiddenWhileDeep /\ Decided`. None of the three
could be proved alone with ease. `KnowsExactly` survives most commands by
itself, since each writes both fields, but a Locate or a Rapid Recon against a
spy in Deep Cover is harmless only because Deep Cover implies cover, which is
part of `HiddenWhileDeep`. That one counts turns: a Deep Cover dates from its
owner's present turn, with no action left, or from the turn before. `end_turn`
first passes the turn, which makes `HiddenWhileDeep` false for the moment, and
restores it only when Deep Cover expires some statements later. The proof
follows the statements with an intermediate predicate, `Turning`, that says what
holds in between: the spy whose turn starts may still have a Deep Cover of two
turns ago, and may have lost its cover to a pop-up payout.

**The argument.** For each effect there is one lemma that gives its frame (which
fields it leaves alone) and the value of those it changes; from these follow
the preservation of type and of `Secure`, one lemma per command; the step
theorem splits on the disjuncts of `Next`. `CountAction` is a chain of three
lemmas, each of which leaves everything but the board alone. The action
properties and the refinement use the same frames with the invariant as
hypothesis.

**Map and pop-ups.** `MapStaysConnected` is kept by every step once it is known that a
city is announced in the fourth and fifth action of six only (`Announced`): no choice is
made while another is pending, and no city goes in between. What the search computes is
not needed for that, only that the city passed it and the set of cities gone has not
changed. It is needed for `AlwaysWarned`: that a choice is found each time.
`ClaimsMatchPopups` is kept by the count of actions because pop-ups appear where there is
none, and by a command because the side on turn has no claims; within `end_turn` it is
false for a while, and `Booked`, all of it but the part about turns, is followed from
statement to statement until the claims of the next side are paid out.

`CityGraphProofs` and `SearchProofs` prove, for every map, every start and every order of
the neighbours:

| theorem | states |
|---|---|
| `ConnectedIsUncut` | the search in one expression (`Visited`) sees all that is left exactly when that is `Uncut` |
| `AlwaysOneToLose` | as long as what is left is connected, some city can be lost (`Disappearable` is not empty) |
| `AlwaysRightAnswer` | `SearchSpec => []RightAnswer`: the loop answers whether the remaining cities are `Uncut` |
| `AlwaysAnswersAsModelled`, `AlwaysSomethingToLose` | loop and expression agree; the same as `AlwaysOneToLose`, of the states of `Search` |
| `SearchAlwaysAdvances` | `SearchSpec => SearchAdvances`: every turn of the loop leaves less to do, so it ends |

The invariant of the loop has two halves, one for each direction of the answer: a city
seen and no longer on the stack has no unseen neighbour, and a part of the map that no
edge leaves has been seen from within or not at all. `Visited` takes an induction over
its layers, and the city to lose one over the map. The induction theorems of the library
take the statement as a parameter and cannot be used; both are said of sets instead.
The library does prove that the strict subsets of a finite set are well founded, and
a well-founded set has minimal members: so every family of subsets of a finite set has
a smallest and a largest member (`SmallestSet`, `LargestSet`), and so has every set of
naturals a least (`LeastNat`). `Recursion` uses that to show that a function recursive over the
naturals exists, so that the layers `Visited` chooses are those it is written with. They
grow, a layer that does not is a part no edge leaves (`VisitedSealed`), and there are
fewer that grow than cities. The city to lose is the one that a largest part that
hangs together leaves out (`SomethingSafe`).

`MCSearch` with `Search.cfg` is a small instance of `Search` for TLC, kept beside the
runs: every graph over five cities, with any of them gone (457k states). It shows besides
that the loop ends as such (`SearchEnds`).

`MatchProofs` proves, for every map and every value of the time limits as well:

| theorem | states |
|---|---|
| `OneVerdictAlways`, `OnTurnAlwaysCanAct` | `MatchSpec => []OneVerdict`, `[]OnTurnCanAct` |
| `EndAlwaysFinal` | `MatchSpec => EndIsFinal` |
| `MatchKeepsCover` | a started match has exact exposure, a Deep Cover that holds, and a decided winner |
| `MatchTypeCorrect`, `MissedTurnsAlwaysTheirs` | `MatchSpec => []MatchTypeOK`, `[]MissedTurnsWereTheirs` |
| `AlwaysUpToDate` | `MatchSpec => []UpToDate` |

The invariant `MatchInv` is `OneVerdict` together with what the game is: before
the start unplaced, or aborted by ALPHA; after it `Live`, that is `Good`, `Secure`,
and the side on turn can act unless the game is over. The last part needs the
theorem about `end_turn` that a turn starts with 2 to 4 actions; `Secure` needs a
new lemma, `NoActionsLeft`, because a deadline takes actions in a way no command
can. `StepKinds` sorts the steps into five kinds by what they do to the game and
the verdict, and both the invariant and `EndIsFinal` follow from the kinds alone.
The clocks and the screens sort them twice more. By what they do to the turn and the counts
(`Runs`): a step keeps the turn or passes it, and adds to a count only with a turn that it
passes and whose owner it charges; that no count passes its limit needs that the last
miss ends the game. By what they do to the screens (`ScreenKind`): both are sent
the game, only notices change, or an action is hidden by a spy that has Encryption, is
on turn and has not ended the game.

`BrowserProofs` proves for any number of players, rooms, codes, connections and events:

| theorem | states |
|---|---|
| `SpecInv` | the inductive invariant below |
| `CodesOpenRoomsHolds`, `RegistrySoundHolds`, `OneLineHolds` | the invariants of the run about rooms, registry and connection |
| `BrowserTypeCorrect` | `Spec => []BrowserTypeOK` |
| `NoPageLeftWaiting` | `Spec => []SettledScreen` |
| `WatchingIsHarmless` | `WatchedSpec => Spec`: what is proved of `Spec` holds of what the run checks |

The assumptions are `RoomAssumption`, `ServerAssumption` and `BrowserAssumption`. The
invariant has three parts that hardly meet. `Orderly` says of the manager that it
has its type, that nothing is known under an id not yet given out, and that a code leads
to a waiting room with that code; each operator of `Rooms` preserves it, by one lemma
each. Since a room has one code only, a code that is given up by its value cannot
leave another one that leads to the same room (`OwnCode`).
`RegistrySound` needs to know of each session that it starts with AUTHENTICATE, never
sees it again, and speaks for nobody before (`InOrder`); otherwise a second
AUTHENTICATE could leave the registry with a session of somebody else.
`OneLine` needs of the server only that a slot taken for a new attempt is free at
both ends.

`Screen` adds the page and the messages to it. `SettledScreen` speaks of quiet states
only; what keeps it is `Awaited`, which speaks of all: while a page reconnects over a
connection that both ends hold open, the session has not yet been identified, or the
answer to AUTHENTICATE is on its way, or the timer of the fallback runs. The parts hold
each other up. That the answer, when it is heard, ends the wait or starts the timer needs
that the handler, which reads what was rendered last, still sees a page that reconnects
(`Shows`: nothing goes back to reconnecting without a new page). That the answer is on
its way at all needs `RegistrySound`: the session is the only one the player listens at,
and the player the only one that listens there. And a session in order has something to
read until it has been identified, so a quiet one has been.
Handlers of the App need no lemma of their own for this but that what they leave
`Follows` what they found: typed, no further back, no timer lost, no banner over a
live link.

`RecoveryProofs` proves, from the same assumptions:

| theorem | states |
|---|---|
| `LinksAlwaysLead` | `Spec => []Linked(mgr)`: a link leads to a room that exists and has this player |
| `RoomsAlwaysLive` | `Spec => RoomsLive`: the manager implements `RoomLife` |
| `CodesLastHolds` | `Spec => CodesLast`: nothing but an abort by a player of an earlier room with the same code shuts a room that waits; for each method by itself (`LastsFrom`) |
| `PlayersRecover` | `WatchedSpec => []Recovered` |

*Rooms.* Whoever calls which method, `Steps` says what becomes of the rooms and links: they
go on, one is forgotten, a guest is let in, or a room is founded. There is one lemma for
each method, among them that `abort_match` never founds or lets in, although it calls
three others; from `Steps` follow `Linked`, each room's step of `RoomLife`
(`StepsLive`), and what `Recovered` needs of the manager: a player in a match that had
begun was in it before (`StepsInMatch`).

*The way back.* `Recovered` speaks of quiet states; its invariant `Tracked` says, of all,
that as long as `home` is kept and its match lasts nothing on its way takes the page
elsewhere (`Safe`). That has three parts.

* `Steady`: the session of the page is that of the match or none, if the URL says nothing
  else, and no timer is about to show the hub.
* `Harmless`: nothing has been asked of the server but to be identified and to join. So it
  does not end the match on the player's behalf: it refuses the second in an active match.
* `Fine`, of the messages on their way to the page: each is one that a player in a match
  gets (`Fit`), so no error sends it away and no MATCH_CREATED gives it another session.
  If the page has no session they begin with the MATCH_START of `home`, since a page
  without one takes the first room it hears of. And if the session of the
  server knows its player, the page either is on the board already, with the room on it or
  in a state under way, or MATCH_START and MATCH_STATE of `home` come first
  (`OnItsWay`).

The server keeps `Fine` because what it sends a player in a running match is `Fit`
whoever asks for what (`FitFor`, one lemma for each method), because AUTHENTICATE is
answered by the whole match from its start (`IdentifiedResumes`), and because the answer
finds an empty line: nothing is sent to a session that does not know its player.
This needs an invariant of its own, `Lines`: the page's own session speaks for the page's
player or for nobody yet, and what does not reach the page is not kept. The page
keeps `Fine` because it handles the messages in order (`FineHears`), and a render
mounts the board with the state that was set (`RendersBoard`, `Mounting`). A broken
connection cuts the messages short, after which nothing is claimed of them but that they
are harmless, until the next session has been identified. A reload keeps the token, or takes
one that is in no room (`TokenKept`, `SameToken`).

Two hypotheses of `Recovered` are needed. `Leads`: without it the property is false
(`browser_reload`). And that the match runs for the player, which a peer can change: abandoning a
finished match unlinks both its players from whatever rooms they are in by then. A
player can so be a member of two running rooms and get the states of both. It is not led
astray: a page with a session ignores the states of others, and one without is told of
`home` first.

`BoardProofs` proves, with `BoardAssumption`:

| theorem | states |
|---|---|
| `BoardIsAMatch` | `BoardSpec => MatchSpec`: what `MatchProofs` proves of a match holds of one played through a board |
| `SelectionAlwaysShown` | `BoardSpec => []SelectionShown` |
| `BoardTypeCorrect` | `BoardSpec => []BoardTypeOK` |
| `AlwaysShowsTheGame` | `BoardSpec => []ShowsTheGame` |
| `LegalAlwaysOffered` | `BoardSpec => []LegalIsOffered`, if the prices on the buttons are the server's and no road leads from a city to itself |
| `RefusalsAlwaysExplained` | `BoardSpec => []RefusalsExplained`, if the prices on the buttons are the server's |

The two hypotheses hold of the code: the prices in `PhaserGame.tsx` are those of
`AbilityCosts.hpp`, and `DefaultMap.hpp` has no such road (on one, the server would let a
spy move to where it is, which the board never offers).

`ShowsTheGame`, again about quiet states, rests on what is true of the messages under way.
`Leads` says of those on the link that the last state among them is the one the match
sent last, or, if there is none, that the board shows it already; handling the first of
them and sending more both keep that (`LeadsAfterOne`, `LeadsOn`), and a break or a new
page empties the link before everything is sent again. `TrueOf` says of each that an end
it tells of has come, and with that winner, however late it arrives: the end is final
(`EndAlwaysFinal`). A quiet board therefore shows what the match sent last, and
`AlwaysUpToDate` says what that is: the game as it is, unless a spy on turn hides it, which
cannot be the case in one's own turn (`TurnSeenAlways`). Offers and refusals then
compare the rules of the board and those of the server on the same state; what is left
over are the notices, which a command clears before it is checked.

**Only model-checked.** Liveness (`IdleMatchEnds`, `DesertedMatchEnds`, `Settles`,
`SearchEnds`) is out of the prover's reach: it needs fairness and `ENABLED`. All other
properties of the passing runs are theorems.

## 5. Where code and documents disagree

* **A stranded spy does not lose** (`stranded`). `GAME_MECHANICS.md:206` says it
  does when all its neighbours have disappeared; the code only refuses its
  commands and the game goes on.
* **Refused commands wipe notifications** (`NoticesLastTheTurn`; `GameNotices.cfg`, kept
  beside the runs, finds it in three steps). Each command
  starts with `clear_action_notifications`, before the sender is checked, so a
  command of the waiting player erases what the player on turn has not acted on
  yet. A comment (`GameState.cpp:688-689`) and `GAME_MECHANICS.md:294` say the
  flags last a turn.
* **The notice of a claimed Intel pop-up is never seen** (`intel_notice`).
  `end_turn` sets it at `:634` for the side whose turn ends, and clears all
  flags of that side at `:694`.
* **Any command clears the sender's missed turns** (`missed_turns`).
  `Match.cpp:222` ties this to a "successful action from correct player"; the
  statements run before the command is looked at, so a player that never plays
  but sends something in each of the opponent's turns does not lose by timeout.
* **A closing session cuts off the one that replaced it** (`browser_end`).
  `unregister_session` erases the player's entry in the registry whichever session it
  leads to (`WebSocketServer.cpp:59`), and has the player counted as disconnected. A
  player who reloads before the old connection is found dead is on the board, with an
  open socket, and is sent nothing any more; when the match ends it is not told.
  `game_persistence_architecture.md:84` expects that it "sees the current turn state
  accurately". Any new connection repairs it, which is why `Recovered` holds.
* **A reload does not always lead back to the game** (`browser_reload`).
  `game_persistence_architecture.md:80` expects "immediately back in the game", since the URL
  represents the active match (`:16`). INITIATE OPERATION forgets the session of the page
  but not the URL (`main.tsx:408-424`), and MATCH_STATE, which is then taken from any
  room, does not set the URL. A player of a running match that has opened an invitation to
  another room can come back to its board that way, with the URL of the other room in the
  address bar: the next reload takes that room for its own, ignores the match, and
  ends in the hub.

Seen while modelling and modelled as the code does it, in the browser:

* the test that shall keep the last state of an aborted match away (`main.tsx:272-278`)
  reads the `isLoading` of the first render, true for ever: after INITIATE OPERATION a
  late one shows its finished board (and one of a match that runs its board, see above);
* a failed attempt to reconnect in the middle of a match leads to the hub or the name
  entry, since `phase` in the handler is the one of the first render (`main.tsx:161`), where
  `game_flow_cleanup.md:422` wants the game with an overlay; the state sent at the next
  connection leads back;
* ABORT, LEAVE and the request to join are dropped when the socket is not open, and App
  acts as if they had been sent (`main.tsx:398-406`); the server still has the player in
  its match and refuses the next room;
* asking for another room while in an active one is not answered
  (`MatchManager.cpp:96-99`): the page goes on loading;
* a delayed MATCH_CREATED of a room that was given up shows its frequency again
  (`main.tsx:185-204`);
* TERMINATE LINK forgets the stored token, but the client uses it until the page is
  loaded again (`main.tsx:496-509`);
* the board's handlers look at no session (`PhaserGame.tsx:235`), the badge of a
  disconnected opponent may stay (`:363`), a second strike in a turn is not
  reported (`:137`), and a double click sends an action twice, the second of which may be
  carried out in a later turn of the player (`:414`).

In the manager: aborting takes the code that the room once had from whichever room has
it now, whose host then waits for nobody (`CodesLast` says that this alone shuts a
room), and unlinks both players of the room, also one who is in another by then
(`MatchManager.cpp:187-199`); a room whose host goes away before anybody joins stays for
ever (`:297`).

In the rules and the match: `Match.hpp:109` says the
grace period lasts until the first action or until it expires, but END_TURN does
not end it, so that the second player's first turn may be the longer one; the notice
of a Prep Mission is set and cleared in the same step, since Prep Mission is always
the last action of a turn, though the screens wait for it (`PhaserGame.tsx:286`);
the test of Deep Cover at the start of a turn (`GameState.cpp:674`) can never be
true, since Deep Cover has expired by then (`DeepCoverHolds`); and CONTROL takes a city from the opponent,
as its comment says and `GAME_MECHANICS.md:68` and `:216` deny. A located city stays known
after the turn, until its spy acts (`GameState.cpp:150`), where `GAME_MECHANICS.md:88` ends
it with the turn; the Intel pop-up and its reward wait for the claimer's next turn
(`:1009-1035`), where `GAME_MECHANICS.md:181` has both at the claim; and a spy is stranded once
its city has disappeared (`:915`), where `GAME_MECHANICS.md:205` says when it is scheduled to.

## 6. Not modelled

* Drawing, layout, zoom, tooltips, sound, log lines, banners, notices and the
  countdown on the screen: no state other parts depend on. The command center, its map,
  the world map canvas and the link-frequency dialog are such screens; App does not mount
  the first two.
* The open or closed state of the hub's join dialog, its error text, and `isGameOver` of
  App, which only decides whether a lost connection is announced on a finished board.
* React's StrictMode, which in development mounts App twice and so opens, closes and
  opens a connection; a production build does not.
* The messages OPPONENT_DISCONNECTED, OPPONENT_RECONNECTED, TURN_CHANGE and
  WAITING_FOR_OPPONENT, SET_PLAYER_NAME and error texts: no state depends on them.
  RECONNECT_MATCH, which the browser never sends.
* The write queue of a session, strands and locks: below the level of messages. The
  buffer of `Session::do_write` is a string that is gone when the write reads it
  (`Session.cpp:276-289`); the model delivers what was queued. The locks are nested in
  one order, so that no cycle exists.
* The cap on connections; `wss`, JSON and the WebSocket handshake: encoding and library
  code.
* The 14 cities of `DefaultMap.hpp`: data; the proofs hold for any map, and
  TLC's instances are small ones.
* Which city, code or id a random draw picks: every outcome is allowed, but that ids
  are not used twice.
* Two browsers at once. A match has its second player as the source of any command at
  any time, and a room as any request at any time, which includes whatever a browser
  would do.

## 7. What is left

1. `View`: what a player can learn from all the states and notices it is sent.
2. That the room of `Rooms` and the lobby of `Match` live the same life.
3. Two browsers on one server, and a match under the hub.
