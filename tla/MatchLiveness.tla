--------------------------- MODULE MatchLiveness ---------------------------
(***************************************************************************)
(* A match always ends when it is abandoned.  The players of Match are     *)
(* given two ways to abandon it: both may fall silent, and one may lose    *)
(* its connection for good.                                                *)
(***************************************************************************)
EXTENDS MatchProps

VARIABLES
  quiet,        \* nobody sends commands any more
  deserter      \* the side whose connection is lost for good, or None

liveVars == <<matchVars, quiet, deserter>>

\* Whoever has not gone for good may still connect and disconnect.
Abandoning ==
  \/ /\ \/ Start
        \/ CheckForTimeout
        \/ Pass
        \/ \E s \in Side \ {deserter} :
             (~quiet /\ Issue(s)) \/ Disconnect(s) \/ Reconnect(s)
     /\ UNCHANGED <<quiet, deserter>>
  \/ /\ ~quiet /\ quiet' = TRUE
     /\ UNCHANGED <<matchVars, deserter>>
  \/ /\ deserter = None
     /\ \E s \in Side : Disconnect(s) /\ deserter' = s
     /\ UNCHANGED quiet

\* The server's timer and time itself go on.  A deadline that has passed is
\* noticed: this is weak fairness of CheckForTimeout, which is enabled exactly
\* when a deadline has passed and after which none has.
Overdue == Active /\ (Lost # {} \/ TimedOut)

AbandonedSpec ==
  /\ MatchInit /\ quiet = FALSE /\ deserter = None
  /\ [][Abandoning]_liveVars
  /\ WF_liveVars(Pass /\ UNCHANGED <<quiet, deserter>>)
  /\ []<>~Overdue

\* If both players stop sending commands, a match that has started ends, however
\* often their connections break and come back meanwhile.
IdleMatchEnds == (started /\ quiet) ~> game.over

\* If a player's connection is lost for good, a match that has started ends,
\* whatever the other player does with its turns.
DesertedMatchEnds == (started /\ deserter # None) ~> game.over
=============================================================================
