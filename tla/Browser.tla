------------------------------ MODULE Browser ------------------------------
(***************************************************************************)
(* One browser and the server: WebSocketClient, the App component of       *)
(* main.tsx with its screens, and the person in front of them.             *)
(*                                                                         *)
(* A handler of the App runs to its end and only then, some time later,    *)
(* React renders: the screens, phaseRef and isGameOverRef show what was    *)
(* rendered last (shown), not what the App has set since (app).  The       *)
(* handlers of the connection were created by the first render and go on   *)
(* seeing its phase, isLoading and playerName.                             *)
(***************************************************************************)
EXTENDS Server

CONSTANT Clearing       \* the sentinel '__clearing__'

ASSUME BrowserAssumption ==
  /\ Clearing \notin RoomId \cup {None}
  /\ None \notin [room : RoomId, code : Code] \cup [room : RoomId \cup {None}, over : BOOLEAN]
  /\ Player \ Peer # {} /\ Socket # {} /\ Code # {}

VARIABLES
  line,       \* the browser's side of a connection: "none", "connecting", "open"
  client,     \* WebSocketClient: its ws, whether a reconnection is scheduled, token
  app,        \* the state and the refs of App, the URL and what is stored
  shown,      \* what the last render shows
  board       \* what PhaserGame shows, None while it is not mounted

browserVars == <<line, client, app, shown, board>>
vars == <<serverVars, browserVars>>

Me == Player \ Peer
Phase == {"entering-name", "reconnecting", "deployment", "playing"}
Link == [room : RoomId, code : Code]

App ==
  [ phase : Phase, loading : BOOLEAN, connected : BOOLEAN,
    banner : BOOLEAN,                          \* isReconnecting
    code : Code \cup {None},                   \* matchCode
    urlCode : Code \cup {None},
    ref : RoomId \cup {None, Clearing},        \* matchSessionIdRef, and matchSessionId
    state : [room : RoomId, over : BOOLEAN] \cup {None},   \* initialState
    fresh : BOOLEAN,                           \* initialState or initialMap is new
    joined : BOOLEAN,                          \* hasAutoJoined
    fallback : BOOLEAN, naming : BOOLEAN,      \* timers: five seconds, 800 ms
    wasNamed : BOOLEAN,                        \* playerName of the first render
    named : BOOLEAN,                           \* two_spies_name is stored
    token : Me \cup {None},                    \* two_spies_token
    url : Link \cup {None} ]

\* A page at u: phase, isLoading and the session of a URL of the right form.
Loaded(u, named, token) ==
  [ phase |-> "reconnecting", loading |-> TRUE, connected |-> FALSE, banner |-> FALSE,
    code |-> None, state |-> None, fresh |-> FALSE, joined |-> FALSE,
    urlCode |-> IF u \in Link THEN u.code ELSE None,
    ref |-> IF u \in Link THEN u.room ELSE None,
    fallback |-> FALSE, naming |-> FALSE,
    wasNamed |-> named, named |-> named, token |-> token, url |-> u ]

\* matchSessionId: the ref, except for the sentinel.
SessionId(a) == IF a.ref = Clearing THEN None ELSE a.ref

\* What the screens and the effects of a render depend on.
View(a) == [phase |-> a.phase, loading |-> a.loading, connected |-> a.connected,
            code |-> a.code, urlCode |-> a.urlCode, sid |-> SessionId(a)]

-----------------------------------------------------------------------------
(* The handlers of App, each from one App to the next.                     *)

\* Where the App goes without a match.
Entry(a) == IF a.wasNamed THEN "deployment" ELSE "entering-name"

\* resetMatchState
Reset(a, phase) ==
  [a EXCEPT !.phase = phase, !.state = None, !.code = None, !.ref = Clearing,
            !.urlCode = None, !.loading = FALSE,
            !.joined = FALSE, !.url = None]

OnConnected(a) == [a EXCEPT !.connected = TRUE, !.banner = FALSE, !.loading = FALSE]

\* The phase this handler tests is the one of the first render, 'reconnecting'.
OnError(a) == [a EXCEPT !.loading = FALSE, !.phase = Entry(a)]

OnDisconnected(a) ==
  [a EXCEPT !.connected = FALSE, !.banner = @ \/ shown.phase = "playing"]

\* Mutant: no fallback for a match that does not show itself.
NoFallback(a, inMatch) ==
  IF shown.phase # "reconnecting" \/ inMatch THEN a
  ELSE [a EXCEPT !.phase = Entry(a)]

OnAuthenticated(a, inMatch) ==
  IF shown.phase # "reconnecting" THEN a
  ELSE IF inMatch THEN [a EXCEPT !.fallback = TRUE]
  ELSE [a EXCEPT !.phase = Entry(a)]

\* Mutant: the two parts of the URL are exchanged.
URLExchanged(a, r, c) ==
  [a EXCEPT !.code = c, !.ref = r, !.url = [room |-> c, code |-> r],
            !.loading = FALSE,
            !.phase = IF @ = "reconnecting" THEN "deployment" ELSE @]

OnCreated(a, r, c) ==
  [a EXCEPT !.code = c, !.ref = r, !.url = [room |-> r, code |-> c],
            !.loading = FALSE,
            !.phase = IF @ = "reconnecting" THEN "deployment" ELSE @]

OnStart(a, r, c) ==
  IF a.ref \in RoomId \ {r} THEN a
  ELSE [a EXCEPT !.code = c, !.ref = r, !.url = [room |-> r, code |-> c],
                 !.loading = FALSE, !.fresh = TRUE, !.phase = "playing"]

\* Without a session any state is taken: isLoading, which the guard tests, is the
\* one of the first render, TRUE.
OnState(a, r, over) ==
  IF a.ref \in {Clearing} \cup (RoomId \ {r}) THEN a
  ELSE [a EXCEPT !.ref = r, !.state = [room |-> r, over |-> over], !.fresh = TRUE,
                 !.loading = FALSE, !.phase = IF @ = "entering-name" THEN @ ELSE "playing"]

\* Every error the server sends these requests is fatal only while reconnecting.
OnRefused(a) ==
  IF shown.phase = "reconnecting" THEN Reset(a, Entry(a))
  ELSE [a EXCEPT !.loading = FALSE]

\* The five seconds matter only while the App is reconnecting, which it never is
\* again.
Timed(a) == [a EXCEPT !.fallback = @ /\ a.phase = "reconnecting"]

Heard(a, msg) == Timed(
  CASE msg.type = "AUTHENTICATED" -> OnAuthenticated(a, msg.inMatch)
    [] msg.type = "MATCH_CREATED" -> OnCreated(a, msg.room, msg.code)
    [] msg.type = "MATCH_START"   -> OnStart(a, msg.room, msg.code)
    [] msg.type = "MATCH_STATE"   -> OnState(a, msg.room, msg.over)
    [] msg.type = "ERROR"         -> OnRefused(a)
    [] OTHER                      -> a)

\* PhaserGame hears the same messages and looks at no session.
Unstarted == [room |-> None, over |-> FALSE]
Mounted(b, state) ==
  IF state = None THEN b
  ELSE [b EXCEPT !.room = state.room, !.over = @ \/ state.over]

BoardHeard(b, msg) ==
  IF b = None THEN None
  ELSE CASE msg.type = "MATCH_STATE" -> [b EXCEPT !.room = msg.room]
         [] msg.type = "GAME_OVER"   -> [b EXCEPT !.over = TRUE]
         [] OTHER                    -> b

-----------------------------------------------------------------------------
(* WebSocketClient.                                                        *)

NoLine == client.ws = None
Online == ~NoLine /\ line[client.ws] = "open"       \* isConnected

\* Connections differ in nothing: a new one takes some slot given up at both ends.
Unused == {s \in Socket : line[s] = "none" /\ session[s] = "free"}
Slot == CHOOSE s \in Unused : TRUE

\* send: dropped unless the socket is open, lost if the link has gone unnoticed.
Send(q) ==
  up' = IF Online /\ session[client.ws] = "open"
        THEN [up EXCEPT ![client.ws] = Append(@, q)]
        ELSE up

\* onopen: AUTHENTICATE goes out before anything else.
Opens(s) ==
  /\ line[s] = "connecting"
  /\ line' = [line EXCEPT ![s] = "open"]
  /\ session' = [session EXCEPT ![s] = "open"]
  /\ up' = [up EXCEPT ![s] = <<Authenticate(client.token)>>]
  /\ app' = OnConnected(app)
  /\ UNCHANGED <<mgr, registry, who, events, down, client, shown, board>>

\* Mutant: nothing is scheduled when the socket closes.
GivesUp(s, a) ==
  /\ line' = [line EXCEPT ![s] = "none"]
  /\ app' = Timed(OnDisconnected(a))
  /\ client' = [client EXCEPT !.ws = None]

\* onclose: the App hears of it, then the next attempt is scheduled.
Closed(s, a) ==
  /\ line' = [line EXCEPT ![s] = "none"]
  /\ app' = Timed(OnDisconnected(a))
  /\ client' = [client EXCEPT !.ws = None, !.timer = TRUE]

\* The attempt fails: onerror, then onclose.
Fails(s) ==
  /\ line[s] = "connecting"
  /\ Event
  /\ Closed(s, OnError(app))
  /\ UNCHANGED <<mgr, registry, session, who, up, down, shown, board>>

\* The link is gone.  Some of what was on its way still arrives.
LinkBreaks(s) ==
  /\ session[s] = "open"
  /\ Event
  /\ session' = [session EXCEPT ![s] = "cut"]
  /\ \E n \in 0..Len(up[s]) : up' = [up EXCEPT ![s] = SubSeq(@, 1, n)]
  /\ \E n \in 0..Len(down[s]) : down' = [down EXCEPT ![s] = SubSeq(@, 1, n)]
  /\ UNCHANGED <<mgr, registry, who, line, client, app, shown, board>>

\* The browser finds out, with or without an error event.
Drops(s) ==
  /\ line[s] = "open"
  /\ session[s] # "open"
  /\ down[s] = <<>>
  /\ Closed(s, app) \/ Closed(s, OnError(app))
  /\ UNCHANGED <<serverVars, shown, board>>

\* Mutant: the timer is not forgotten when it has run out.
StillScheduled ==
  /\ client.timer
  /\ Unused # {}
  /\ line' = [line EXCEPT ![Slot] = "connecting"]
  /\ client' = [client EXCEPT !.ws = Slot]
  /\ UNCHANGED <<serverVars, app, shown, board>>

\* The timer of scheduleReconnect.
Redials ==
  /\ client.timer
  /\ Unused # {}
  /\ line' = [line EXCEPT ![Slot] = "connecting"]
  /\ client' = [client EXCEPT !.ws = Slot, !.timer = FALSE]
  /\ UNCHANGED <<serverVars, app, shown, board>>

\* onmessage: the handlers of the App and of a mounted PhaserGame.
Hears(s) ==
  /\ line[s] = "open"
  /\ down[s] # <<>>
  /\ app' = Heard(app, Head(down[s]))
  /\ board' = BoardHeard(board, Head(down[s]))
  /\ down' = [down EXCEPT ![s] = Tail(@)]
  /\ UNCHANGED <<mgr, registry, session, who, events, up, line, client, shown>>

-----------------------------------------------------------------------------
(* React and the timers of App.                                            *)

\* handleLinkToNetwork, called by the hub and by the effect that joins by URL.
Linking(a) == [a EXCEPT !.loading = Online]

\* The effect that joins the match of the URL runs when one of what it depends on
\* has changed.
JoinsByURL ==
  /\ app.phase = "deployment" /\ app.connected
  /\ app.urlCode # None /\ SessionId(app) # None /\ ~app.joined
  /\ <<app.phase, app.connected, app.urlCode, SessionId(app)>>
       # <<shown.phase, shown.connected, shown.urlCode, shown.sid>>

\* PhaserGame is mounted, updated or unmounted.
Renders ==
  /\ View(app) # shown \/ app.fresh
  /\ shown' = View(app)
  /\ board' = IF app.phase # "playing" THEN None
              ELSE IF board = None THEN Mounted(Unstarted, app.state)
              ELSE IF app.fresh THEN Mounted(board, app.state)
              ELSE board
  /\ IF JoinsByURL
     THEN /\ app' = [Linking(app) EXCEPT !.fresh = FALSE, !.joined = TRUE]
          /\ Send(Join(app.urlCode))
     ELSE /\ app' = [app EXCEPT !.fresh = FALSE]
          /\ UNCHANGED up
  /\ UNCHANGED <<mgr, registry, session, who, events, down, line, client>>

\* Five seconds after AUTHENTICATED with in_match.
FallsBack ==
  /\ app.fallback
  /\ app' = [app EXCEPT !.fallback = FALSE,
                        !.phase = IF @ = "reconnecting" THEN Entry(app) ELSE @]
  /\ UNCHANGED <<serverVars, line, client, shown, board>>

\* 800 ms after the name.
Enters ==
  /\ app.naming
  /\ app' = [app EXCEPT !.naming = FALSE, !.loading = FALSE, !.phase = "deployment"]
  /\ UNCHANGED <<serverVars, line, client, shown, board>>

-----------------------------------------------------------------------------
(* The person, who clicks on what is shown.                                *)

\* A click that changes the App and asks something of the server.
Clicks(a, q) ==
  /\ Event
  /\ app' = a
  /\ Send(q)
  /\ UNCHANGED <<mgr, registry, session, who, down, line, client, shown, board>>

\* CodenameAuthorizationTerminal: everything in the form is disabled while loading.
FormEnabled == shown.phase = "entering-name" /\ ~shown.loading

Named(a) == [a EXCEPT !.named = TRUE, !.loading = Online, !.naming = @ \/ Online]

SubmitsName ==
  /\ FormEnabled
  /\ Event
  /\ app' = Named(app)
  /\ UNCHANGED <<mgr, registry, session, who, up, down, line, client, shown, board>>

\* MissionDeploymentHub.  The modal with the frequency covers everything else.
FrequencyShown == shown.phase = "deployment" /\ shown.code # None
InHub == shown.phase = "deployment" /\ shown.code = None
InitiateEnabled == InHub /\ ~shown.loading
LinkEnabled == InHub /\ ~shown.loading

InitiatesOperation ==
  /\ InitiateEnabled
  /\ Clicks([app EXCEPT !.loading = Online, !.code = None, !.ref = None],
            Ask("CREATE_MATCH"))

\* Four digits typed into the modal and submitted.
LinksToNetwork(c) == LinkEnabled /\ Clicks(Linking(app), Join(c))

Wiped(a) == [Reset(a, "entering-name") EXCEPT !.named = FALSE, !.token = None]

TerminatesLink == InHub /\ Clicks(Wiped(app), Ask("ABORT_MATCH"))

\* PhaserGame: ABORT below the board, until the overlay of a finished game covers it
\* and offers RETURN TO LOBBY.
AbortShown == shown.phase = "playing" /\ board.room # None /\ ~board.over
OverlayShown == shown.phase = "playing" /\ board.room # None /\ board.over

Abandons ==
  /\ FrequencyShown \/ AbortShown
  /\ Clicks(Reset(app, "deployment"), Ask("ABORT_MATCH"))

Returns == OverlayShown /\ Clicks(Reset(app, "deployment"), Ask("LEAVE_MATCH"))

\* A page with its own client takes the place of this one: the same URL or an
\* invitation to a room.  Without a stored token a new one is made.
Invitations == {[room |-> r, code |-> mgr.rooms[r].code] : r \in {x \in RoomId : Exists(mgr, x)}}

Tokens ==
  IF app.token # None THEN {app.token}
  ELSE {t \in Me \ {client.token} :
          \A r \in RoomId : Exists(mgr, r) => t \notin Members(mgr.rooms[r])}

Reloads(u) ==
  /\ Event
  /\ Unused # {}
  /\ \E t \in Tokens :
       /\ app' = Loaded(u, app.named, t)
       /\ client' = [ws |-> Slot, timer |-> FALSE, token |-> t]
  /\ shown' = View(app')
  /\ board' = None
  /\ line' = [x \in Socket |-> IF x = Slot THEN "connecting" ELSE "none"]
  /\ session' = [x \in Socket |->
                   IF x = client.ws /\ session[x] = "open" THEN "cut" ELSE session[x]]
  /\ down' = [x \in Socket |-> IF x = client.ws THEN <<>> ELSE down[x]]
  /\ UNCHANGED <<mgr, registry, who, up>>

-----------------------------------------------------------------------------

\* A page may be loaded at any time: before there is a room, or by a player, p, whose
\* match runs and who has closed its page; and others may have opened a room by then.
Served(p) ==
  LET c == CHOOSE x \in Code : TRUE
      Left(q) == RemovePlayer(Enter(NewRoom(NoRooms, q, c).mgr, 1, p, c).mgr, p).mgr
      Two == {x \in Peer \X Peer : MaxRooms > 1 /\ x[1] # x[2]}
  IN  {NoRooms} \cup {Left(q) : q \in Peer} \cup {NewRoom(Left(x[1]), x[2], c).mgr : x \in Two}

Init ==
  /\ ServerInit
  /\ LET s == CHOOSE x \in Socket : TRUE
         t == CHOOSE x \in Me : TRUE
     IN  /\ mgr \in Served(t)
         /\ \E named \in {TRUE, InActiveRoom(mgr, t)}, u \in {None} \cup Invitations :
              app = Loaded(u, named, t)
         /\ client = [ws |-> s, timer |-> FALSE, token |-> t]
         /\ line = [x \in Socket |-> IF x = s THEN "connecting" ELSE "none"]
  /\ shown = View(app)
  /\ board = None

\* What happens by itself.
Proceeds ==
  \/ Renders \/ FallsBack \/ Enters \/ Redials
  \/ \E s \in Socket : Opens(s) \/ Drops(s) \/ Hears(s)

Person ==
  \/ SubmitsName \/ InitiatesOperation \/ TerminatesLink \/ Abandons \/ Returns
  \/ \E c \in Code : LinksToNetwork(c)
  \/ \E u \in {app.url} \cup Invitations : Reloads(u)

Next ==
  \/ Proceeds
  \/ Person
  \/ \E s \in Socket : Fails(s) \/ LinkBreaks(s)
  \/ ServerNext /\ UNCHANGED browserVars

Spec == Init /\ [][Next]_vars
=============================================================================
