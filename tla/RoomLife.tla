------------------------------ MODULE RoomLife ------------------------------
(***************************************************************************)
(* What a room promises, whoever keeps it: who is in it, and how it        *)
(* begins, runs and ends.  A step may change several rooms: who opens or   *)
(* enters one leaves another.                                              *)
(***************************************************************************)
CONSTANTS Id, Player, Nobody

VARIABLE rooms      \* per id: life, host, guest, and who is inside

Life == {"none", "waiting", "running", "over", "gone"}

RoomState == [life : Life, host : Player \cup {Nobody}, guest : Player \cup {Nobody},
              inside : SUBSET Player]

\* Only players of the room are inside, and nobody before and after it.
Sound(x) ==
  /\ x \in RoomState
  /\ x.inside \subseteq {x.host, x.guest}
  /\ x.life \in {"none", "gone"} => x.inside = {}

-----------------------------------------------------------------------------
(* The steps of one room, from x to y.  Players may leave at any of them,  *)
(* and no one gets in but the host that opens the room and the guest whose *)
(* coming starts the match.                                                *)

SamePlayers(x, y) == y.host = x.host /\ y.guest = x.guest

Stays(x, y) == y.life = x.life /\ SamePlayers(x, y) /\ y.inside \subseteq x.inside

Opens(x, y) ==
  /\ x.life = "none" /\ y.life = "waiting"
  /\ y.host \in Player /\ y.guest = Nobody
  /\ y.inside = {y.host}

Starts(x, y) ==
  /\ x.life = "waiting" /\ y.life = "running"
  /\ y.host = x.host /\ y.guest \in Player
  /\ y.guest \in y.inside /\ y.inside \subseteq x.inside \cup {y.guest}

Ends(x, y) ==
  /\ x.life = "running" /\ y.life = "over"
  /\ SamePlayers(x, y) /\ y.inside \subseteq x.inside

Vanishes(x, y) ==
  /\ x.life \in {"waiting", "over"} /\ y.life = "gone"
  /\ y.host = Nobody /\ y.guest = Nobody /\ y.inside = {}

Moves(x, y) ==
  Stays(x, y) \/ Opens(x, y) \/ Starts(x, y) \/ Ends(x, y) \/ Vanishes(x, y)

-----------------------------------------------------------------------------

\* The server may have been running for a while.
Init == \A r \in Id : Sound(rooms[r])

Next == \A r \in Id : Moves(rooms[r], rooms'[r])

Spec == Init /\ [][Next]_rooms
=============================================================================
