---------------------------- MODULE BrowserProps ----------------------------
(***************************************************************************)
(* What a player may expect of the browser and of the server behind it,    *)
(* whatever the network and the other players do.                          *)
(***************************************************************************)
EXTENDS Browser

\* The room on whose board the player was last seen at rest, for as long as it
\* clicks nothing but the reload button.
VARIABLE home

watchedVars == <<vars, home>>

\* At rest: the socket is open on both sides, all that was sent has been handled,
\* all that was set has been rendered, no timer of the App runs, and the server has
\* no session left whose link is gone.
AtRest ==
  /\ Online
  /\ session[client.ws] = "open"
  /\ View(app) = shown /\ ~app.fresh /\ ~app.fallback /\ ~app.naming
  /\ \A s \in Socket : up[s] = <<>> /\ down[s] = <<>> /\ session[s] # "cut"

OnBoard(r) == app.phase = "playing" /\ app.ref = r /\ board.room # None
Plays(r) == Exists(mgr, r) /\ mgr.rooms[r].life = "running" /\ mgr.links[client.token] = r
Leads(r) == app.url # None => app.url.room = r
Settled(r) == AtRest /\ OnBoard(r) /\ Plays(r)

\* A room as its players know it: its life, its two players, and which of all the
\* players are linked to it.
Seen(m, r) ==
  LET room == m.rooms[r]
  IN  [ life |-> IF r > m.issued THEN "none" ELSE IF room = None THEN "gone" ELSE room.life,
        host |-> IF room = None THEN None ELSE room.alpha,
        guest |-> IF room = None THEN None ELSE room.beta,
        inside |-> {p \in Player : m.links[p] = r} ]

WatchedInit == Init /\ home = None

WatchedNext ==
  /\ Next
  /\ home' = IF \E r \in RoomId : Settled(r)' THEN app'.ref
             ELSE IF Person /\ ~Reloads(app.url) THEN None
             ELSE home

\* What neither a person nor the network has to do: the event loop of the browser,
\* its timers, React, and the sessions of the server.  Some of it keeps happening
\* as long as there is some to do; only MaxEvents bounds the faults.
Works ==
  \/ Proceeds
  \/ /\ \E s \in Socket : ServerReceives(s) \/ ServerNotices(s)
     /\ UNCHANGED browserVars

WatchedSpec == WatchedInit /\ [][WatchedNext]_watchedVars /\ WF_vars(Works)

-----------------------------------------------------------------------------
\* Everything keeps to its type.
BrowserTypeOK ==
  /\ mgr \in Manager
  /\ registry \in [Player -> Socket \cup {None}]
  /\ session \in [Socket -> {"free", "open", "cut"}]
  /\ who \in [Socket -> Player \cup {None}]
  /\ \A s \in Socket : \A i \in 1..Len(up[s]) : up[s][i] \in Request
  /\ \A s \in Socket : \A i \in 1..Len(down[s]) : down[s][i] \in Message
  /\ line \in [Socket -> {"none", "connecting", "open"}]
  /\ client \in [ws : Socket \cup {None}, timer : BOOLEAN, token : Me]
  /\ app \in App
  /\ board \in [room : RoomId \cup {None}, over : BOOLEAN] \cup {None}

\* WebSocketClient keeps exactly one thing going, a socket or the timer of the next
\* attempt: errors and closings, one after the other or alone, never leave two
\* sockets, two attempts or none; and the App knows whether the socket is open.
OneLine ==
  /\ client.timer <=> client.ws = None
  /\ \A s \in Socket : line[s] # "none" <=> s = client.ws
  /\ app.connected <=> Online

\* The registry never leads to a session that is gone or that speaks for somebody
\* else, in whatever order old and new connections of a player authenticate and are
\* found dead.
RegistrySound ==
  \A p \in Player : registry[p] # None =>
    session[registry[p]] # "free" /\ who[registry[p]] = p

\* A code leads to a room only as long as that room waits for its second player:
\* joining, aborting and expiry, by either player and in any order, leave no code
\* that leads into a running or a vanished match.
CodesOpenRooms ==
  \A c \in Code : mgr.codes[c] # None =>
    /\ Exists(mgr, mgr.codes[c])
    /\ mgr.rooms[mgr.codes[c]].life = "waiting"
    /\ mgr.rooms[mgr.codes[c]].code = c

\* Who has been told the code of a room that waits can come in.
Open(m, r) ==
  Exists(m, r) /\ m.rooms[r].life = "waiting" /\ m.codes[m.rooms[r].code] = r

\* A player gives up another room, which had the same code before.
Robs(m, n, r) ==
  \E p \in Player :
    LET k == m.links[p]
    IN  /\ k # r /\ Exists(m, k) /\ m.rooms[k].code = m.rooms[r].code
        /\ n.links[p] = None

\* The codes are drawn, consumed and erased by whoever opens, joins, aborts and
\* outlives a room, and drawn again.  Of all that, one thing alone shuts a room while it
\* waits: that a player of an earlier room with the same code gives that one up.
CodesLast ==
  [][\A r \in RoomId :
       Open(mgr, r) /\ Exists(mgr', r) /\ mgr'.rooms[r].life = "waiting" =>
         Open(mgr', r) \/ Robs(mgr, mgr', r)]_mgr

\* The manager keeps the promises of RoomLife: each of its rooms opens with its host,
\* starts when the guest comes, runs, ends and is forgotten, once each and never
\* backwards; the links of the players, which it keeps apart from the rooms, only ever
\* lead to a room one is a player of, and nobody gets back in by another way.
Lobby == INSTANCE RoomLife
           WITH Id <- RoomId, Nobody <- None, rooms <- [r \in RoomId |-> Seen(mgr, r)]
RoomsLive == Lobby!Spec

\* Once all is quiet, no page is left reconnecting or under the banner that says the
\* link is down: AUTHENTICATED, the state, the errors and the five-second fallback
\* between them always get it out.
SettledScreen == AtRest => app.phase # "reconnecting" /\ app.connected /\ ~app.banner

\* Whatever befalls the connection, and however often the page is reloaded, a player
\* that clicks nothing else and whose match still runs ends up on its board again,
\* unless the URL leads to another room.
Recovered == AtRest /\ home # None /\ Plays(home) /\ Leads(home) => OnBoard(home)

\* After the last fault everything comes to rest: the browser is connected again
\* and nobody waits for anybody.
Settles == <>[]AtRest

-----------------------------------------------------------------------------
(* What the documentation says and the code does not do.                   *)

\* docs/game_persistence_architecture.md:84: a player that comes back to its match
\* "reconnects successfully and sees the current turn state accurately".  So it does
\* not look at a game in progress when that game has ended.
SeesTheEnd ==
  AtRest /\ home # None /\ OnBoard(home) /\ Exists(mgr, home) =>
    (Over(mgr, home) => board.over)

\* docs/game_persistence_architecture.md:80: "Start a game, copy the URL. Refresh the
\* page. Expected: Immediately back in the game", since the URL is "to represent the
\* active match" (:16).  So Recovered holds whatever the URL is.
BackInTheGame == AtRest /\ home # None /\ Plays(home) => OnBoard(home)
=============================================================================
