----------------------------- MODULE MCBrowser -----------------------------
(***************************************************************************)
(* A small instance of Browser: one browser, one other player and two      *)
(* connections, so that a new one can open before the old one is found     *)
(* dead.  A third player, for the run in which there are two rooms.        *)
(***************************************************************************)
EXTENDS BrowserProps

CONSTANTS t1, t2, t3, s1, s2, c1, c2

Tokens2 == {t1, t2}
Tokens3 == {t1, t2, t3}
Peers1 == {t2}
Peers2 == {t2, t3}
Sockets2 == {s1, s2}
Codes2 == {c1, c2}

-----------------------------------------------------------------------------
(* Some behaviours of WatchedSpec, enough to refute BackInTheGame: the page *)
(* is loaded by way of an invitation to another room, the player clicks     *)
(* INITIATE OPERATION and the reload button only, and the others rest.      *)

Invited == app.url # None => mgr.links[app.token] # app.url.room

Calm ==
  /\ Person => InitiatesOperation \/ Reloads(app.url)
  /\ ServerNext => \E s \in Socket : ServerReceives(s) \/ ServerNotices(s)

InvitedSpec == WatchedInit /\ Invited /\ [][WatchedNext /\ Calm]_watchedVars
=============================================================================
