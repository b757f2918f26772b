---------------------------- MODULE GameMapProofs ----------------------------
(***************************************************************************)
(* Proofs about GameState, continued: the cities that disappear, and the   *)
(* pop-ups on them.  Both change with the count of accepted actions, the   *)
(* pop-ups also when a turn ends; nothing else touches them.               *)
(***************************************************************************)
EXTENDS GameProofs, CityGraphProofs

\* A city is only announced in the fourth and fifth of every six actions.
Announced(g) == g.scheduled # None => g.phase \in {4, 5}

\* The map of g is connected, and will be without the city announced.
MapSafe(g) ==
  /\ Connected(City \ g.gone)
  /\ g.scheduled # None => /\ g.scheduled \notin g.gone
                           /\ StaysConnected(g.gone, g.scheduled)

\* AlwaysWarned for game g.
Warned(g) == g.scheduled # None <=> g.phase \in {4, 5} /\ g.gone # City

\* ClaimsMatchPopups for game g, but for the side on turn, whose claims are
\* still to be paid out when its turn starts.
Booked(g) ==
  /\ \A c \in City : g.intelAt[c] = None \/ g.actionAt[c] = None
  /\ \A s \in Side :
       /\ ~(g.claimIntel[s] /\ g.claimAction[s])
       /\ \A c \in City :
            /\ g.intelAt[c] = s => g.claimIntel[s] /\ c = g.city[s]
            /\ g.actionAt[c] = s => g.claimAction[s] /\ c = g.city[s]
       /\ g.claimIntel[s] => g.intelAt[g.city[s]] = s \/ g.city[s] \in g.gone
       /\ g.claimAction[s] => g.actionAt[g.city[s]] = s \/ g.city[s] \in g.gone

PaidOut(g, s) == ~g.claimIntel[s] /\ ~g.claimAction[s]

Claims(g) == Booked(g) /\ PaidOut(g, g.turn)

LEMMA ClaimsAre == ASSUME Good(game) PROVE ClaimsMatchPopups <=> Claims(game)
<1>1. game.turn \in Side
  BY DEF Good, Typed
<1>2. QED
  BY <1>1 DEF ClaimsMatchPopups, Claims, Booked, PaidOut, Stranded

\* The fields these properties are about.
Board == {"phase", "scheduled", "gone"}
Ledger == {"intelAt", "actionAt", "claimIntel", "claimAction", "city", "gone"}

LEMMA FrameMap ==
  ASSUME NEW g, NEW h, NEW F, Frame(g, h, F), F \cap Board = {}
  PROVE  /\ Announced(g) <=> Announced(h)
         /\ MapSafe(g) <=> MapSafe(h)
         /\ Warned(g) <=> Warned(h)
         /\ h.scheduled = g.scheduled /\ h.gone = g.gone /\ h.phase = g.phase
<1>1. h.scheduled = g.scheduled /\ h.gone = g.gone /\ h.phase = g.phase
  BY DEF Frame, Board, Fields
<1>2. QED
  BY <1>1 DEF Announced, MapSafe, Warned

LEMMA FrameBooked ==
  ASSUME NEW g, NEW h, NEW F, Frame(g, h, F), F \cap Ledger = {}, Booked(g)
  PROVE  Booked(h) /\ h.claimIntel = g.claimIntel /\ h.claimAction = g.claimAction
<1>1. /\ h.intelAt = g.intelAt /\ h.actionAt = g.actionAt /\ h.city = g.city
      /\ h.claimIntel = g.claimIntel /\ h.claimAction = g.claimAction /\ h.gone = g.gone
  BY DEF Frame, Ledger, Fields
<1>2. QED
  BY <1>1 DEF Booked

-----------------------------------------------------------------------------
(* The commands touch neither the map nor the pop-ups.                     *)

Untouched(g, h) ==
  /\ h.phase = g.phase /\ h.scheduled = g.scheduled /\ h.gone = g.gone
  /\ h.intelAt = g.intelAt /\ h.actionAt = g.actionAt

LEMMA UseUntouched ==
  ASSUME NEW g, Good(g), NEW s \in Side, NEW a \in Ability, CanUse(g, s, a)
  PROVE  Untouched(g, UseEffect(g, s, a))
<1> DEFINE p == Pay(g, s, a)
<1>1. Good(p) /\ Untouched(g, p)
  BY PayGood DEF Frame, Fields, Untouched
<1> HIDE DEF p
<1>2. /\ Untouched(p, DeepCover(p, s)) /\ Untouched(p, Locate(p, s))
      /\ Untouched(p, StrikeReport(p, s)) /\ Untouched(p, Encryption(p, s))
      /\ Untouched(p, RapidRecon(p, s)) /\ Untouched(p, PrepMission(p, s))
  BY <1>1, DeepCoverGood, LocateGood, StrikeReportGood, EncryptionGood,
     RapidReconGood, PrepMissionGood DEF Frame, Fields, Untouched
<1>3. UseEffect(g, s, a) \in
        {DeepCover(p, s), Locate(p, s), StrikeReport(p, s), Encryption(p, s),
         RapidRecon(p, s), PrepMission(p, s)}
  BY DEF UseEffect, Ability, p
<1>4. QED
  BY <1>1, <1>2, <1>3 DEF Untouched

\* An accepted command: the effect, and then the count of actions.
Accepts(s) ==
  \E e : /\ Good(e) /\ CanAct(game, s) /\ ActsFor(game, e, s) /\ Untouched(game, e)
         /\ game' \in CountAction(e)

LEMMA CommandAccepts ==
  ASSUME Good(game), NEW s \in Side, Command(s)
  PROVE  game' = ClearNotices(game, s) \/ Accepts(s)
<1> DEFINE g == ClearNotices(game, s)
<1>1. Good(g) /\ Frame(game, g, {"flags"})
  BY ClearNoticesGood
<1> HIDE DEF g
<1>2. CanAct(g, s) => CanAct(game, s)
  BY <1>1 DEF CanAct, MyTurn, Frame, Fields
<1>3. ASSUME NEW e, Good(e), CanAct(g, s), ActsFor(g, e, s), Untouched(g, e),
             game' \in CountAction(e)
      PROVE  Accepts(s)
  <2>1. ActsFor(game, e, s) /\ Untouched(game, e)
    BY <1>1, <1>3 DEF ActsFor, Untouched, Frame, Fields
  <2>2. QED
    BY <1>2, <1>3, <2>1 DEF Accepts
<1>4. ASSUME NEW c \in City, Move(s, c)
      PROVE  game' = g \/ Accepts(s)
  <2>1. CASE CanMove(g, s, c)
    <3>1. game' \in CountAction(MoveEffect(g, s, c))
      BY <1>4, <2>1 DEF Move, Attempt, g
    <3>2. Good(MoveEffect(g, s, c)) /\ Untouched(g, MoveEffect(g, s, c))
      BY <1>1, <2>1, MoveGood DEF Frame, Fields, Untouched
    <3>3. QED
      BY <1>1, <1>3, <2>1, <3>1, <3>2, MoveActs DEF CanMove
  <2>2. QED
    BY <1>4, <2>1 DEF Move, Attempt, g
<1>5. ASSUME Strike(s)
      PROVE  game' = g \/ Accepts(s)
  <2>1. CASE CanStrike(g, s)
    <3>1. game' \in CountAction(StrikeEffect(g, s))
      BY <1>5, <2>1 DEF Strike, Attempt, g
    <3>2. Good(StrikeEffect(g, s)) /\ Untouched(g, StrikeEffect(g, s))
      BY <1>1, <2>1, StrikeGood DEF Frame, Fields, Untouched
    <3>3. QED
      BY <1>1, <1>3, <2>1, <3>1, <3>2, StrikeActs DEF CanStrike
  <2>2. QED
    BY <1>5, <2>1 DEF Strike, Attempt, g
<1>6. ASSUME Wait(s)
      PROVE  game' = g \/ Accepts(s)
  <2>1. CASE CanWait(g, s)
    <3>1. game' \in CountAction(WaitEffect(g, s))
      BY <1>6, <2>1 DEF Wait, Attempt, g
    <3>2. Good(WaitEffect(g, s)) /\ Untouched(g, WaitEffect(g, s))
      BY <1>1, <2>1, WaitGood DEF Frame, Fields, Untouched
    <3>3. QED
      BY <1>1, <1>3, <2>1, <3>1, <3>2, WaitActs DEF CanWait
  <2>2. QED
    BY <1>6, <2>1 DEF Wait, Attempt, g
<1>7. ASSUME Control(s)
      PROVE  game' = g \/ Accepts(s)
  <2>1. CASE CanControl(g, s)
    <3>1. game' \in CountAction(ControlEffect(g, s))
      BY <1>7, <2>1 DEF Control, Attempt, g
    <3>2. Good(ControlEffect(g, s)) /\ Untouched(g, ControlEffect(g, s))
      BY <1>1, <2>1, ControlGood DEF Frame, Fields, Untouched
    <3>3. QED
      BY <1>1, <1>3, <2>1, <3>1, <3>2, ControlActs DEF CanControl
  <2>2. QED
    BY <1>7, <2>1 DEF Control, Attempt, g
<1>8. ASSUME NEW a \in Ability, UseAbility(s, a)
      PROVE  game' = g \/ Accepts(s)
  <2>1. CASE CanUse(g, s, a)
    <3>1. game' \in CountAction(UseEffect(g, s, a))
      BY <1>8, <2>1 DEF UseAbility, Attempt, g
    <3>2. Good(UseEffect(g, s, a)) /\ Untouched(g, UseEffect(g, s, a))
      BY <1>1, <2>1, UseGood, UseUntouched
    <3>3. QED
      BY <1>1, <1>3, <2>1, <3>1, <3>2, UseActs DEF CanUse
  <2>2. QED
    BY <1>8, <2>1 DEF UseAbility, Attempt, g
<1>9. QED
  BY <1>4, <1>5, <1>6, <1>7, <1>8 DEF Command, g

LEMMA AcceptedClaims ==
  ASSUME NEW g, Good(g), NEW s \in Side, g.turn = s, Claims(g), NEW e, Good(e),
         ActsFor(g, e, s), Untouched(g, e)
  PROVE  Claims(e)
<1>1. e.turn = s /\ PaidOut(e, s)
  BY DEF ActsFor, Claims, PaidOut
<1>2. \A o \in Side \ {s} : e.city[o] = g.city[o]
  BY DEF ActsFor
<1>3. e.claimIntel = g.claimIntel /\ e.claimAction = g.claimAction
  BY DEF ActsFor
<1>4. Booked(e)
  BY <1>1, <1>2, <1>3 DEF Claims, Booked, PaidOut, Untouched
<1>5. QED
  BY <1>1, <1>4 DEF Claims

-----------------------------------------------------------------------------
(* The count of actions.                                                   *)

\* The steps of increment_action_count, one after the other.
LEMMA CountSteps ==
  ASSUME NEW g, Good(g), NEW h \in CountAction(g)
  PROVE  \E k, i, j : /\ k = [g EXCEPT !.phase = (@ + 1) % 6] /\ Good(k)
                      /\ i \in SpawnIntel(k) /\ Good(i)
                      /\ j \in SpawnAction(i) /\ Good(j)
                      /\ h \in ShrinkMap(j) /\ Good(h)
<1> DEFINE k == [g EXCEPT !.phase = (@ + 1) % 6]
<1>1. Good(k)
  <2>1. IsRecord(k)
    BY DEF Good, IsRecord
  <2>2. \A f \in Fields \ {"phase"} : k[f] = g[f]
    BY DEF Good, IsRecord, Fields
  <2>3. k.phase \in 0..5
    BY DEF Good, IsRecord, Fields, Typed
  <2>4. QED
    BY <2>1, <2>2, <2>3 DEF Good, Typed, Fields
<1>2. PICK i \in SpawnIntel(k) : \E j \in SpawnAction(i) : h \in ShrinkMap(j)
  BY DEF CountAction
<1> HIDE DEF k
<1>3. PICK j \in SpawnAction(i) : h \in ShrinkMap(j)
  BY <1>2
<1>4. Good(i)
  BY <1>1, SpawnIntelGood
<1>5. Good(j)
  BY <1>4, SpawnActionGood
<1>6. Good(h)
  BY <1>3, <1>5, ShrinkMapGood
<1>7. QED
  BY <1>1, <1>2, <1>3, <1>4, <1>5, <1>6 DEF k

LEMMA SpawnIntelSteps ==
  ASSUME NEW g, Good(g), NEW h \in SpawnIntel(g)
  PROVE  /\ Frame(g, h, {"untilIntel", "intelAt"})
         /\ \A c \in City : \/ h.intelAt[c] = g.intelAt[c]
                            \/ /\ h.intelAt[c] = Free
                               /\ g.intelAt[c] = None /\ g.actionAt[c] = None
<1>1. PICK p \in {g.intelAt} \cup Spawned(g, g.intelAt) : \E n : h = IntelBoard(g, n, p)
  BY DEF SpawnIntel
<1> PICK n : h = IntelBoard(g, n, p)
  BY <1>1
<1>2. IsRecord(h) /\ h.intelAt = p
  BY DEF IntelBoard, Good, IsRecord, Fields
<1>3. \A f \in Fields \ {"untilIntel", "intelAt"} : h[f] = g[f]
  BY DEF IntelBoard, Good, IsRecord, Fields
<1>4. ASSUME NEW c \in City
      PROVE  \/ p[c] = g.intelAt[c]
             \/ p[c] = Free /\ g.intelAt[c] = None /\ g.actionAt[c] = None
  BY DEF Spawned, Good, Typed, Popups
<1>5. QED
  BY <1>2, <1>3, <1>4 DEF Frame

LEMMA SpawnActionSteps ==
  ASSUME NEW g, Good(g), NEW h \in SpawnAction(g)
  PROVE  /\ Frame(g, h, {"untilAction", "actionAt"})
         /\ \A c \in City : \/ h.actionAt[c] = g.actionAt[c]
                            \/ /\ h.actionAt[c] = Free
                               /\ g.intelAt[c] = None /\ g.actionAt[c] = None
<1>1. PICK p \in {g.actionAt} \cup Spawned(g, g.actionAt) : \E n : h = ActionBoard(g, n, p)
  BY DEF SpawnAction
<1> PICK n : h = ActionBoard(g, n, p)
  BY <1>1
<1>2. IsRecord(h) /\ h.actionAt = p
  BY DEF ActionBoard, Good, IsRecord, Fields
<1>3. \A f \in Fields \ {"untilAction", "actionAt"} : h[f] = g[f]
  BY DEF ActionBoard, Good, IsRecord, Fields
<1>4. ASSUME NEW c \in City
      PROVE  \/ p[c] = g.actionAt[c]
             \/ p[c] = Free /\ g.intelAt[c] = None /\ g.actionAt[c] = None
  BY DEF Spawned, Good, Typed, Popups
<1>5. QED
  BY <1>2, <1>3, <1>4 DEF Frame

\* What the shrinking does: nothing, an announcement, or the loss announced.
LEMMA ShrinkSteps ==
  ASSUME NEW g, Good(g), NEW h \in ShrinkMap(g)
  PROVE  /\ Frame(g, h, {"scheduled", "gone"})
         /\ CASE g.phase = 4 -> /\ h.gone = g.gone
                                /\ IF Disappearable(g.gone) = {} THEN h.scheduled = None
                                   ELSE h.scheduled \in Disappearable(g.gone)
              [] g.phase = 0 -> /\ h.gone = g.gone \cup ({g.scheduled} \ {None})
                                /\ h.scheduled = None
              [] OTHER -> h.gone = g.gone /\ h.scheduled = g.scheduled
<1>1. CASE g.phase = 4
  <2>1. PICK c : /\ h = [g EXCEPT !.scheduled = c]
                 /\ IF Disappearable(g.gone) = {} THEN c = None
                    ELSE c \in Disappearable(g.gone)
    BY <1>1 DEF ShrinkMap, Schedule
  <2>2. IsRecord(h) /\ h.scheduled = c /\ h.gone = g.gone
    BY <2>1 DEF Good, IsRecord, Fields
  <2>3. \A f \in Fields \ {"scheduled"} : h[f] = g[f]
    BY <2>1 DEF Good, IsRecord, Fields
  <2>4. QED
    BY <1>1, <2>1, <2>2, <2>3 DEF Frame
<1>2. CASE g.phase = 0
  <2>1. h = [g EXCEPT !.gone = @ \cup ({g.scheduled} \ {None}), !.scheduled = None]
    BY <1>2 DEF ShrinkMap
  <2>2. /\ IsRecord(h) /\ h.scheduled = None
        /\ h.gone = g.gone \cup ({g.scheduled} \ {None})
    BY <2>1 DEF Good, IsRecord, Fields
  <2>3. \A f \in Fields \ {"scheduled", "gone"} : h[f] = g[f]
    BY <2>1 DEF Good, IsRecord, Fields
  <2>4. QED
    BY <1>2, <2>2, <2>3 DEF Frame
<1>3. CASE g.phase # 4 /\ g.phase # 0
  <2>1. h = g
    BY <1>3 DEF ShrinkMap
  <2>2. QED
    BY <1>3, <2>1 DEF Frame, Good
<1>4. QED
  BY <1>1, <1>2, <1>3

LEMMA CountMap ==
  ASSUME NEW g, Good(g), Announced(g), NEW h \in CountAction(g)
  PROVE  /\ Announced(h)
         /\ MapSafe(g) => MapSafe(h)
         /\ MapSafe(g) /\ Warned(g) => Warned(h)
         /\ g.scheduled # None /\ h.scheduled # g.scheduled =>
              h.scheduled = None /\ h.gone = g.gone \cup {g.scheduled}
         /\ h.gone # g.gone => h.gone = g.gone \cup {g.scheduled}
<1>1. PICK k, i, j : /\ k = [g EXCEPT !.phase = (@ + 1) % 6] /\ Good(k)
                     /\ i \in SpawnIntel(k) /\ Good(i)
                     /\ j \in SpawnAction(i) /\ Good(j)
                     /\ h \in ShrinkMap(j) /\ Good(h)
  BY CountSteps
<1>2. k.phase = (g.phase + 1) % 6 /\ k.scheduled = g.scheduled /\ k.gone = g.gone
  BY <1>1 DEF Good, IsRecord, Fields
<1>3. j.phase = k.phase /\ j.scheduled = k.scheduled /\ j.gone = k.gone
  <2>1. Frame(k, i, {"untilIntel", "intelAt"}) /\ Frame(i, j, {"untilAction", "actionAt"})
    BY <1>1, SpawnIntelSteps, SpawnActionSteps
  <2>2. QED
    BY <2>1 DEF Frame, Fields
<1>4. /\ h.phase = j.phase
      /\ CASE j.phase = 4 -> /\ h.gone = j.gone
                             /\ IF Disappearable(j.gone) = {} THEN h.scheduled = None
                                ELSE h.scheduled \in Disappearable(j.gone)
           [] j.phase = 0 -> /\ h.gone = j.gone \cup ({j.scheduled} \ {None})
                             /\ h.scheduled = None
           [] OTHER -> h.gone = j.gone /\ h.scheduled = j.scheduled
  BY <1>1, ShrinkSteps DEF Frame, Fields
<1>5. g.phase \in 0..5
  BY DEF Good, Typed
<1>6. CASE g.phase = 3
  <2>1. j.phase = 4 /\ g.scheduled = None
    BY <1>2, <1>3, <1>6 DEF Announced
  <2>2. /\ h.gone = g.gone /\ h.phase = 4
        /\ IF Disappearable(g.gone) = {} THEN h.scheduled = None
           ELSE h.scheduled \in Disappearable(g.gone)
    BY <1>2, <1>3, <1>4, <2>1
  <2>3. g.gone \in SUBSET City
    BY DEF Good, Typed
  <2>4. \A c \in Disappearable(g.gone) : c \in City \ g.gone /\ StaysConnected(g.gone, c)
    BY <2>3, OnlyUnneeded
  <2>5. Announced(h) /\ (MapSafe(g) => MapSafe(h))
    BY <2>1, <2>2, <2>4 DEF Announced, MapSafe
  <2>6. ASSUME MapSafe(g) PROVE Warned(h)
    <3>1. g.gone # City => Disappearable(g.gone) # {}
      BY <2>3, <2>6, AlwaysOneToLose, MapAssumption DEF MapSafe
    <3>2. g.gone = City => Disappearable(g.gone) = {}
      BY <2>4
    <3>3. QED
      BY <2>2, <2>4, <3>1, <3>2, MapAssumption DEF Warned
  <2>7. QED
    BY <2>1, <2>2, <2>5, <2>6
<1>7. CASE g.phase = 5
  <2>1. h.gone = g.gone \cup ({g.scheduled} \ {None}) /\ h.scheduled = None /\ h.phase = 0
    BY <1>2, <1>3, <1>4, <1>7
  <2>2. Announced(h) /\ Warned(h)
    BY <2>1 DEF Announced, Warned
  <2>3. CASE g.scheduled = None
    <3>1. h.gone = g.gone
      BY <2>1, <2>3
    <3>2. QED
      BY <2>1, <2>2, <2>3, <3>1 DEF MapSafe
  <2>4. CASE g.scheduled # None
    <3>1. h.gone = g.gone \cup {g.scheduled}
      BY <2>1, <2>4
    <3>2. MapSafe(g) => Connected(City \ h.gone)
      BY <2>4, <3>1 DEF MapSafe, StaysConnected
    <3>3. QED
      BY <2>1, <2>2, <2>4, <3>1, <3>2 DEF MapSafe
  <2>5. QED
    BY <2>3, <2>4
<1>8. CASE g.phase \in {0, 1, 2, 4}
  <2>1. /\ j.phase = g.phase + 1
        /\ h.gone = g.gone /\ h.scheduled = g.scheduled /\ h.phase = g.phase + 1
    BY <1>2, <1>3, <1>4, <1>8
  <2>2. QED
    BY <1>8, <2>1 DEF Announced, MapSafe, Warned
<1>9. QED
  BY <1>5, <1>6, <1>7, <1>8

\* Pop-ups only appear where there is none, and never claimed.
LEMMA CountClaims ==
  ASSUME NEW g, Good(g), Claims(g), NEW h \in CountAction(g)
  PROVE  Claims(h)
<1>1. PICK k, i, j : /\ k = [g EXCEPT !.phase = (@ + 1) % 6] /\ Good(k)
                     /\ i \in SpawnIntel(k) /\ Good(i)
                     /\ j \in SpawnAction(i) /\ Good(j)
                     /\ h \in ShrinkMap(j) /\ Good(h)
  BY CountSteps
<1>2. Free # None /\ \A s \in Side : Free # s
  BY RulesAssumption
<1>3. Booked(k) /\ k.claimIntel = g.claimIntel /\ k.claimAction = g.claimAction
      /\ k.turn = g.turn
  <2>1. Frame(g, k, {"phase"})
    BY <1>1 DEF Frame, Good, IsRecord, Fields
  <2>2. {"phase"} \cap Ledger = {}
    BY DEF Ledger
  <2>3. QED
    BY <2>1, <2>2, FrameBooked DEF Claims, Frame, Fields
<1>4. Booked(i) /\ i.claimIntel = k.claimIntel /\ i.claimAction = k.claimAction
      /\ i.turn = k.turn
  <2>1. /\ i.claimIntel = k.claimIntel /\ i.claimAction = k.claimAction /\ i.turn = k.turn
        /\ i.actionAt = k.actionAt /\ i.city = k.city /\ i.gone = k.gone
    <3>1. Frame(k, i, {"untilIntel", "intelAt"})
      BY <1>1, SpawnIntelSteps
    <3>2. QED
      BY <3>1 DEF Frame, Fields
  <2>2. \A c \in City : \/ i.intelAt[c] = k.intelAt[c]
                        \/ /\ i.intelAt[c] = Free
                           /\ k.intelAt[c] = None /\ k.actionAt[c] = None
    BY <1>1, SpawnIntelSteps
  <2>3. \A s \in Side : i.city[s] \in City /\ None # s
    BY <1>1, RulesAssumption DEF Good, Typed
  <2>4. QED
    BY <1>2, <1>3, <2>1, <2>2, <2>3 DEF Booked
<1>5. Booked(j) /\ j.claimIntel = i.claimIntel /\ j.claimAction = i.claimAction
      /\ j.turn = i.turn
  <2>1. /\ j.claimIntel = i.claimIntel /\ j.claimAction = i.claimAction /\ j.turn = i.turn
        /\ j.intelAt = i.intelAt /\ j.city = i.city /\ j.gone = i.gone
    <3>1. Frame(i, j, {"untilAction", "actionAt"})
      BY <1>1, SpawnActionSteps
    <3>2. QED
      BY <3>1 DEF Frame, Fields
  <2>2. \A c \in City : \/ j.actionAt[c] = i.actionAt[c]
                        \/ /\ j.actionAt[c] = Free
                           /\ i.intelAt[c] = None /\ i.actionAt[c] = None
    BY <1>1, SpawnActionSteps
  <2>3. \A s \in Side : j.city[s] \in City /\ None # s
    BY <1>1, RulesAssumption DEF Good, Typed
  <2>4. QED
    BY <1>2, <1>4, <2>1, <2>2, <2>3 DEF Booked
<1>6. Booked(h) /\ h.claimIntel = j.claimIntel /\ h.claimAction = j.claimAction
      /\ h.turn = j.turn
  <2>1. /\ h.claimIntel = j.claimIntel /\ h.claimAction = j.claimAction /\ h.turn = j.turn
        /\ h.intelAt = j.intelAt /\ h.actionAt = j.actionAt /\ h.city = j.city
    BY <1>1, ShrinkSteps DEF Frame, Fields
  <2>2. j.gone \subseteq h.gone
    BY <1>1, ShrinkSteps
  <2>3. QED
    BY <1>5, <2>1, <2>2 DEF Booked
<1>7. QED
  BY <1>3, <1>4, <1>5, <1>6 DEF Claims, PaidOut

-----------------------------------------------------------------------------
(* The end of a turn.                                                      *)

LEMMA ClaimBooked ==
  ASSUME NEW g, Good(g), NEW s \in Side, Booked(g), PaidOut(g, s)
  PROVE  Booked(Claim(g, s))
<1> DEFINE h == Claim(g, s)
           c == g.city[s]
<1>1. c \in City /\ Free # None /\ None # s /\ \A o \in Side : Free # o
  BY RulesAssumption DEF Good, Typed
<1>2. Frame(g, h, {"claimIntel", "intelAt", "claimAction", "actionAt"})
  BY ClaimGood
<1>3. h.city = g.city /\ h.gone = g.gone
  BY <1>2 DEF Frame, Fields
<1>4. /\ h.claimIntel = [g.claimIntel EXCEPT ![s] = @ \/ g.intelAt[c] = Free]
      /\ h.claimAction = [g.claimAction EXCEPT ![s] = @ \/ g.actionAt[c] = Free]
      /\ h.intelAt = [g.intelAt EXCEPT ![c] = IF @ = Free THEN s ELSE @]
      /\ h.actionAt = [g.actionAt EXCEPT ![c] = IF @ = Free THEN s ELSE @]
  BY DEF Claim, Good, IsRecord, Fields
<1>5. /\ \A d \in City : /\ h.intelAt[d] = IF d = c /\ g.intelAt[c] = Free THEN s
                                           ELSE g.intelAt[d]
                         /\ h.actionAt[d] = IF d = c /\ g.actionAt[c] = Free THEN s
                                            ELSE g.actionAt[d]
      /\ \A o \in Side : /\ h.claimIntel[o] <=> IF o = s THEN g.intelAt[c] = Free
                                                ELSE g.claimIntel[o]
                         /\ h.claimAction[o] <=> IF o = s THEN g.actionAt[c] = Free
                                                 ELSE g.claimAction[o]
  <2>1. g.intelAt \in Popups /\ g.actionAt \in Popups
    BY DEF Good, Typed
  <2>2. g.claimIntel \in [Side -> BOOLEAN] /\ g.claimAction \in [Side -> BOOLEAN]
    BY DEF Good, Typed
  <2>3. ~g.claimIntel[s] /\ ~g.claimAction[s]
    BY DEF PaidOut
  <2> HIDE DEF h, c
  <2>4. \A d \in City : /\ h.intelAt[d] = IF d = c /\ g.intelAt[c] = Free THEN s
                                          ELSE g.intelAt[d]
                        /\ h.actionAt[d] = IF d = c /\ g.actionAt[c] = Free THEN s
                                           ELSE g.actionAt[d]
    BY <1>4, <2>1 DEF Popups
  <2>5. \A o \in Side : h.claimIntel[o] <=> IF o = s THEN g.intelAt[c] = Free
                                            ELSE g.claimIntel[o]
    BY <1>4, <2>2, <2>3
  <2>6. \A o \in Side : h.claimAction[o] <=> IF o = s THEN g.actionAt[c] = Free
                                             ELSE g.claimAction[o]
    BY <1>4, <2>2, <2>3
  <2>7. QED
    BY <2>4, <2>5, <2>6
<1> HIDE DEF h, c
<1>6. c = g.city[s]
  BY DEF c
<1>7. ASSUME NEW o \in Side
      PROVE  g.city[o] \in City
  BY DEF Good, Typed
<1>8. \A d \in City : h.intelAt[d] = None \/ h.actionAt[d] = None
  BY <1>1, <1>5 DEF Booked
<1>9. ASSUME NEW o \in Side
      PROVE  /\ ~(h.claimIntel[o] /\ h.claimAction[o])
             /\ \A d \in City :
                  /\ h.intelAt[d] = o => h.claimIntel[o] /\ d = h.city[o]
                  /\ h.actionAt[d] = o => h.claimAction[o] /\ d = h.city[o]
             /\ h.claimIntel[o] => h.intelAt[h.city[o]] = o \/ h.city[o] \in h.gone
             /\ h.claimAction[o] => h.actionAt[h.city[o]] = o \/ h.city[o] \in h.gone
  <2>1. CASE o = s
    BY <1>1, <1>3, <1>5, <1>6, <2>1 DEF Booked, PaidOut
  <2>2. CASE o # s
    BY <1>1, <1>3, <1>5, <1>6, <1>7, <2>2 DEF Booked
  <2>3. QED
    BY <2>1, <2>2
<1>10. QED
  BY <1>8, <1>9 DEF Booked, h

\* A claim that is paid leaves the board: there is no other of its owner.
LEMMA TakenAll ==
  ASSUME NEW p \in Popups, NEW n \in Side, NEW c \in City,
         \A d \in City : p[d] = n => d = c
  PROVE  \A d \in City : Taken(p, n)[d] = IF p[d] = n THEN None ELSE p[d]
<1>1. CASE \E d \in City : p[d] = n
  <2>1. (CHOOSE d \in City : p[d] = n) = c
    BY <1>1
  <2>2. Taken(p, n) = [p EXCEPT ![c] = None] /\ p[c] = n
    BY <1>1, <2>1 DEF Taken
  <2>3. QED
    BY <2>2 DEF Popups
<1>2. CASE ~\E d \in City : p[d] = n
  BY <1>2 DEF Taken
<1>3. QED
  BY <1>1, <1>2

LEMMA IntelPaidOut ==
  ASSUME NEW g, Good(g), NEW n \in Side, Booked(g)
  PROVE  LET h == ApplyClaimedIntel(g, n)
         IN  Booked(h) /\ ~h.claimIntel[n] /\ h.claimAction = g.claimAction
<1> DEFINE h == ApplyClaimedIntel(g, n)
<1>1. CASE ~g.claimIntel[n]
  BY <1>1 DEF ApplyClaimedIntel
<1>2. CASE g.claimIntel[n]
  <2>1. Frame(g, h, {"intel", "cover", "known", "flags", "intelAt", "claimIntel"})
    BY ApplyClaimedIntelGood
  <2>2. /\ h.claimAction = g.claimAction /\ h.actionAt = g.actionAt
        /\ h.city = g.city /\ h.gone = g.gone
    BY <2>1 DEF Frame, Fields
  <2>3. /\ h.intelAt = Taken(g.intelAt, n)
        /\ h.claimIntel = [g.claimIntel EXCEPT ![n] = FALSE]
    BY <1>2 DEF ApplyClaimedIntel, Good, IsRecord, Fields
  <2>4. g.city[n] \in City /\ g.intelAt \in Popups /\ None \notin Side
    BY RulesAssumption DEF Good, Typed
  <2>5. \A d \in City : g.intelAt[d] = n => d = g.city[n]
    BY DEF Booked
  <2>6. \A d \in City : h.intelAt[d] = IF g.intelAt[d] = n THEN None ELSE g.intelAt[d]
    BY <2>3, <2>4, <2>5, TakenAll
  <2>7. \A o \in Side : h.claimIntel[o] <=> o # n /\ g.claimIntel[o]
    BY <2>3 DEF Good, Typed
  <2>8. \A o \in Side : g.city[o] \in City
    BY DEF Good, Typed
  <2> HIDE DEF h
  <2>9. Booked(h)
    BY <2>2, <2>4, <2>6, <2>7, <2>8 DEF Booked
  <2>10. QED
    BY <2>2, <2>7, <2>9 DEF h
<1>3. QED
  BY <1>1, <1>2

LEMMA ActionPaidOut ==
  ASSUME NEW g, Good(g), NEW n \in Side, Booked(g)
  PROVE  LET h == ApplyClaimedAction(g, n)
         IN  Booked(h) /\ ~h.claimAction[n] /\ h.claimIntel = g.claimIntel
<1> DEFINE h == ApplyClaimedAction(g, n)
<1>1. CASE ~g.claimAction[n]
  BY <1>1 DEF ApplyClaimedAction
<1>2. CASE g.claimAction[n]
  <2>1. Frame(g, h, {"actions", "cover", "known", "actionAt", "claimAction"})
    BY ApplyClaimedActionGood
  <2>2. /\ h.claimIntel = g.claimIntel /\ h.intelAt = g.intelAt
        /\ h.city = g.city /\ h.gone = g.gone
    BY <2>1 DEF Frame, Fields
  <2>3. /\ h.actionAt = Taken(g.actionAt, n)
        /\ h.claimAction = [g.claimAction EXCEPT ![n] = FALSE]
    BY <1>2 DEF ApplyClaimedAction, Good, IsRecord, Fields
  <2>4. g.city[n] \in City /\ g.actionAt \in Popups /\ None \notin Side
    BY RulesAssumption DEF Good, Typed
  <2>5. \A d \in City : g.actionAt[d] = n => d = g.city[n]
    BY DEF Booked
  <2>6. \A d \in City : h.actionAt[d] = IF g.actionAt[d] = n THEN None ELSE g.actionAt[d]
    BY <2>3, <2>4, <2>5, TakenAll
  <2>7. \A o \in Side : h.claimAction[o] <=> o # n /\ g.claimAction[o]
    BY <2>3 DEF Good, Typed
  <2>8. \A o \in Side : g.city[o] \in City
    BY DEF Good, Typed
  <2> HIDE DEF h
  <2>9. Booked(h)
    BY <2>2, <2>4, <2>6, <2>7, <2>8 DEF Booked
  <2>10. QED
    BY <2>2, <2>7, <2>9 DEF h
<1>3. QED
  BY <1>1, <1>2

LEMMA DropGoneBooked ==
  ASSUME NEW g, Good(g), Booked(g)
  PROVE  LET h == DropGonePopups(g)
         IN  Booked(h) /\ h.claimIntel = g.claimIntel /\ h.claimAction = g.claimAction
<1> DEFINE h == DropGonePopups(g)
<1>1. /\ h.claimIntel = g.claimIntel /\ h.claimAction = g.claimAction
      /\ h.city = g.city /\ h.gone = g.gone
  BY DropGonePopupsGood DEF Frame, Fields
<1>2. \A c \in City : /\ h.intelAt[c] = IF c \in g.gone THEN None ELSE g.intelAt[c]
                      /\ h.actionAt[c] = IF c \in g.gone THEN None ELSE g.actionAt[c]
  BY DEF DropGonePopups, Good, IsRecord, Fields
<1>3. \A s \in Side : g.city[s] \in City /\ None # s
  BY RulesAssumption DEF Good, Typed
<1> HIDE DEF h
<1>4. Booked(h)
  BY <1>1, <1>2, <1>3 DEF Booked
<1>5. QED
  BY <1>1, <1>4 DEF h

LEMMA EndTurnBoard ==
  ASSUME NEW g, Good(g), NEW s \in Side, g.turn = s, NEW skip \in BOOLEAN
  PROVE  LET h == EndTurnEffect(g, s, skip)
         IN  /\ h.phase = g.phase /\ h.scheduled = g.scheduled /\ h.gone = g.gone
             /\ Claims(g) => Claims(h)
<1> DEFINE n == Opp(s)
           a == Claim(g, s)
           b == Income(a, s, skip)
           begun == PassTurn(b, n)
           paidI == ApplyClaimedIntel(begun, n)
           paid == ApplyClaimedAction(paidI, n)
           dropped == DropGonePopups(paid)
           settled == ExpireDeepCover(dropped, n)
           met == MeetOpponent(settled, n)
           h == ClearFlags(met, s)
<1>1. n \in Side
  BY OppFacts
<1>2. Good(a) /\ Frame(g, a, {"claimIntel", "intelAt", "claimAction", "actionAt"})
  BY ClaimGood
<1>3. Claims(g) => Booked(a)
  BY ClaimBooked DEF Claims
<1> HIDE DEF a
<1>4. Good(b) /\ Frame(a, b, {"intel", "newCity"})
  BY <1>2, IncomeGood
<1> HIDE DEF b
<1>5. Good(begun) /\ Frame(b, begun, {"turn", "turnNumber", "actions", "prep", "flags"})
  BY <1>1, <1>4, PassTurnGood
<1> HIDE DEF begun
<1>6. Claims(g) => Booked(begun)
  <2>1. /\ {"intel", "newCity"} \cap Ledger = {}
        /\ {"turn", "turnNumber", "actions", "prep", "flags"} \cap Ledger = {}
    BY DEF Ledger
  <2>2. QED
    BY <1>3, <1>4, <1>5, <2>1, FrameBooked
<1>7. /\ Good(paidI)
      /\ Frame(begun, paidI, {"intel", "cover", "known", "flags", "intelAt", "claimIntel"})
      /\ Claims(g) => Booked(paidI) /\ ~paidI.claimIntel[n]
  BY <1>1, <1>5, <1>6, ApplyClaimedIntelGood, IntelPaidOut
<1> HIDE DEF paidI
<1>8. /\ Good(paid)
      /\ Frame(paidI, paid, {"actions", "cover", "known", "actionAt", "claimAction"})
      /\ Claims(g) => Booked(paid) /\ PaidOut(paid, n)
  BY <1>1, <1>7, ApplyClaimedActionGood, ActionPaidOut DEF PaidOut
<1> HIDE DEF paid
<1>9. /\ Good(dropped) /\ Frame(paid, dropped, {"intelAt", "actionAt"})
      /\ Claims(g) => Booked(dropped) /\ PaidOut(dropped, n)
  BY <1>8, DropGonePopupsGood, DropGoneBooked DEF PaidOut
<1> HIDE DEF dropped
<1>10. Good(settled) /\ Frame(dropped, settled, {"deepSince"})
  BY <1>1, <1>9, ExpireDeepCoverGood
<1> HIDE DEF settled
<1>11. Good(met) /\ Frame(settled, met, {"cover", "known"})
  BY <1>1, <1>10, MeetOpponentGood
<1> HIDE DEF met
<1>12. Good(h) /\ Frame(met, h, {"flags"})
  BY <1>11, ClearFlagsGood
<1>13. h = EndTurnEffect(g, s, skip)
  BY DEF EndTurnEffect, h, met, settled, dropped, paid, paidI, begun, b, a
<1> HIDE DEF h
<1>14. h.phase = g.phase /\ h.scheduled = g.scheduled /\ h.gone = g.gone
  BY <1>2, <1>4, <1>5, <1>7, <1>8, <1>9, <1>10, <1>11, <1>12 DEF Frame, Fields
<1>15. Claims(g) => Booked(h) /\ PaidOut(h, n)
  <2>1. /\ {"deepSince"} \cap Ledger = {} /\ {"cover", "known"} \cap Ledger = {}
        /\ {"flags"} \cap Ledger = {}
    BY DEF Ledger
  <2>2. Claims(g) => Booked(settled) /\ PaidOut(settled, n)
    BY <1>9, <1>10, <2>1, FrameBooked DEF PaidOut
  <2>3. Claims(g) => Booked(met) /\ PaidOut(met, n)
    BY <1>11, <2>1, <2>2, FrameBooked DEF PaidOut
  <2>4. QED
    BY <1>12, <2>1, <2>3, FrameBooked DEF PaidOut
<1>16. h.turn = n
  BY <1>13, EndTurnPasses
<1>17. QED
  BY <1>13, <1>14, <1>15, <1>16 DEF Claims

-----------------------------------------------------------------------------
(* The steps of the game.                                                  *)

\* What a step does to the announcement and to the cities that are gone.
LostAsAnnounced(g, h) ==
  /\ g.scheduled # None /\ h.scheduled # g.scheduled =>
       h.scheduled = None /\ h.gone = g.gone \cup {g.scheduled}
  /\ h.gone # g.gone => h.gone = g.gone \cup {g.scheduled}

MapStep(g, h) ==
  /\ Announced(g) => Announced(h) /\ LostAsAnnounced(g, h)
  /\ Announced(g) /\ MapSafe(g) => MapSafe(h) /\ (Warned(g) => Warned(h))
  /\ Claims(g) => Claims(h)

LEMMA FrameStep ==
  ASSUME NEW g, NEW h, NEW F, Frame(g, h, F), F \cap (Board \cup Ledger \cup {"turn"}) = {}
  PROVE  MapStep(g, h)
<1>1. F \cap Board = {} /\ F \cap Ledger = {} /\ "turn" \notin F
  OBVIOUS
<1>2. h.turn = g.turn
  BY <1>1 DEF Frame, Fields
<1>3. QED
  BY <1>1, <1>2, FrameMap, FrameBooked DEF MapStep, LostAsAnnounced, Claims, PaidOut

LEMMA NextMap ==
  ASSUME Good(game), [Next]_game
  PROVE  MapStep(game, game')
<1>1. CASE UNCHANGED game
  BY <1>1 DEF MapStep, LostAsAnnounced
<1>2. ASSUME NEW s \in Side, Command(s)
      PROVE  MapStep(game, game')
  <2>1. CASE game' = ClearNotices(game, s)
    <3>1. Frame(game, game', {"flags"})
      BY <2>1, ClearNoticesGood
    <3>2. {"flags"} \cap (Board \cup Ledger \cup {"turn"}) = {}
      BY DEF Board, Ledger
    <3>3. QED
      BY <3>1, <3>2, FrameStep
  <2>2. CASE Accepts(s)
    <3>1. PICK e : /\ Good(e) /\ CanAct(game, s) /\ ActsFor(game, e, s)
                   /\ Untouched(game, e) /\ game' \in CountAction(e)
      BY <2>2 DEF Accepts
    <3>2. Claims(game) => Claims(e)
      BY <3>1, AcceptedClaims DEF CanAct, MyTurn
    <3>3. /\ Announced(game) <=> Announced(e)
          /\ MapSafe(game) <=> MapSafe(e)
          /\ Warned(game) <=> Warned(e)
      BY <3>1 DEF Untouched, Announced, MapSafe, Warned
    <3>4. QED
      BY <3>1, <3>2, <3>3, CountMap, CountClaims DEF MapStep, LostAsAnnounced, Untouched
  <2>3. QED
    BY <1>2, <2>1, <2>2, CommandAccepts
<1>3. ASSUME NEW s \in Side, NEW skip \in BOOLEAN, EndTurn(s, skip)
      PROVE  MapStep(game, game')
  <2>1. game.turn = s /\ game' = EndTurnEffect(game, s, skip)
    BY <1>3 DEF EndTurn, MyTurn
  <2>2. QED
    BY <2>1, EndTurnBoard DEF MapStep, LostAsAnnounced, Announced, MapSafe, Warned
<1>4. ASSUME NEW s \in Side, Abort(s)
      PROVE  MapStep(game, game')
  <2>1. Frame(game, game', {"over", "winner"})
    BY <1>4, ConcedeGood DEF Abort
  <2>2. {"over", "winner"} \cap (Board \cup Ledger \cup {"turn"}) = {}
    BY DEF Board, Ledger
  <2>3. QED
    BY <2>1, <2>2, FrameStep
<1>5. QED
  BY <1>1, <1>2, <1>3, <1>4 DEF Next, Command

LEMMA InitMap ==
  ASSUME Init
  PROVE  Announced(game) /\ Claims(game) /\ Warned(game) /\ (Connected(City) => MapSafe(game))
<1>1. PICK start \in [Side -> City], first \in Side, gapI \in IntelGaps, gapA \in ActionGaps :
        game = NewGame(start, first, gapI, gapA)
  BY DEF Init, NewGames
<1>2. game.scheduled = None /\ game.gone = {} /\ game.turn \in Side
  BY <1>1 DEF NewGame
<1>3. City \ {} = City
  OBVIOUS
<1>4. Announced(game) /\ Warned(game) /\ (Connected(City) => MapSafe(game))
  <2>1. game.phase = 0
    BY <1>1 DEF NewGame
  <2>2. QED
    BY <1>2, <1>3, <2>1 DEF Announced, MapSafe, Warned
<1>5. /\ \A c \in City : game.intelAt[c] = None /\ game.actionAt[c] = None
      /\ \A s \in Side : ~game.claimIntel[s] /\ ~game.claimAction[s]
  BY <1>1 DEF NewGame
<1>6. Claims(game)
  BY <1>2, <1>5, RulesAssumption DEF Claims, Booked, PaidOut
<1>7. QED
  BY <1>4, <1>6

MapInv == Good(game) /\ Announced(game) /\ Claims(game)

LEMMA MapInvAlways == Spec => []MapInv
<1>1. Init => MapInv
  BY InitMap, NewGameGood DEF Init, MapInv
<1>2. MapInv /\ [Next]_game => MapInv'
  BY NextMap, StepGood DEF MapInv, MapStep
<1>3. QED
  BY <1>1, <1>2, PTL DEF Spec

\* The claims of the players and the marks on the pop-ups agree at all times:
\* nobody is paid for a pop-up that is not its own, and none is lost but with
\* its city.
THEOREM ClaimsAlwaysMatch == Spec => []ClaimsMatchPopups
<1>1. MapInv => ClaimsMatchPopups
  BY ClaimsAre DEF MapInv
<1>2. QED
  BY <1>1, MapInvAlways, PTL

\* Cities disappear one at a time and only as announced.
THEOREM AlwaysAsAnnounced == Spec => DisappearsAsAnnounced
<1>1. MapInv /\ [Next]_game =>
        [/\ game.scheduled # None /\ game'.scheduled # game.scheduled =>
              /\ game'.scheduled = None
              /\ game'.gone = game.gone \cup {game.scheduled}
         /\ game'.gone # game.gone =>
              game'.gone = game.gone \cup {game.scheduled}]_game
  BY NextMap DEF MapInv, MapStep, LostAsAnnounced
<1>2. QED
  BY <1>1, MapInvAlways, PTL DEF Spec, DisappearsAsAnnounced

\* On a map that is connected at first, the city that goes at the sixth action
\* never disconnects it, although the check was made two actions before.
THEOREM MapAlwaysConnected ==
  ASSUME Connected(City)
  PROVE  Spec => []MapStaysConnected
<1>1. Init => MapSafe(game)
  BY InitMap
<1>2. MapInv /\ MapSafe(game) /\ [Next]_game => MapSafe(game)'
  BY NextMap DEF MapInv, MapStep
<1>3. MapSafe(game) => MapStaysConnected
  BY DEF MapSafe, MapStaysConnected
<1>4. QED
  BY <1>1, <1>2, <1>3, MapInvAlways, PTL DEF Spec

\* On such a map a city is announced from the fourth to the sixth action of every
\* six, every time: the search for one that can go never comes back without any,
\* until none is left.
THEOREM WarnedAlways ==
  ASSUME Connected(City)
  PROVE  Spec => []AlwaysWarned
<1>1. Init => MapSafe(game) /\ Warned(game)
  BY InitMap
<1>2. MapInv /\ MapSafe(game) /\ Warned(game) /\ [Next]_game
        => MapSafe(game)' /\ Warned(game)'
  BY NextMap DEF MapInv, MapStep
<1>3. Warned(game) => AlwaysWarned
  BY DEF Warned, AlwaysWarned
<1>4. QED
  BY <1>1, <1>2, <1>3, MapInvAlways, PTL DEF Spec

\* On every map, at every stage of its shrinking, a city the search calls safe is
\* one without which the cities left cannot be parted, and the others are not.
THEOREM SafeAlwaysMeansUncut == Spec => []SafeMeansUncut
<1>1. MapInv => SafeMeansUncut
  <2>1. \A W \in SUBSET City : Connected(W) <=> Uncut(W)
    BY MapAssumption, FS_Subset, ConnectedIsUncut
  <2>2. QED
    BY <2>1 DEF SafeMeansUncut, StaysConnected
<1>2. QED
  BY <1>1, MapInvAlways, PTL
=============================================================================
