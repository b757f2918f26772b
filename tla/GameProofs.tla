------------------------------ MODULE GameProofs ------------------------------
(***************************************************************************)
(* Proofs about GameState.  A game is a record of 27 fields; the lemmas    *)
(* about an operator say first that its result is such a record and which  *)
(* fields it leaves alone, then what its own fields are, and the proofs of *)
(* the invariants use only that.                                           *)
(***************************************************************************)
EXTENDS GameProps, FiniteSetTheorems, TLAPS

Fields ==
  {"city", "actions", "intel", "cover", "known", "flags", "unlocked", "revealed",
   "deepSince", "prep", "moved", "visited", "newCity", "claimIntel",
   "claimAction", "turn", "turnNumber", "over", "winner", "phase", "scheduled",
   "gone", "controller", "intelAt", "actionAt", "untilIntel", "untilAction"}

\* g is a record with these fields, whatever is in them.
IsRecord(g) == g = [f \in Fields |-> g[f]]

\* h is a record with these fields, and agrees with g outside F.
Frame(g, h, F) == IsRecord(h) /\ \A f \in Fields \ F : h[f] = g[f]

Typed(g) ==
  /\ g.city        \in [Side -> City]
  /\ g.actions     \in [Side -> Nat]
  /\ g.intel       \in [Side -> Nat]
  /\ g.cover       \in [Side -> BOOLEAN]
  /\ g.known       \in [Side -> City \cup {None}]
  /\ g.flags       \in [Side -> SUBSET Flag]
  /\ g.unlocked    \in [Side -> SUBSET Permanent]
  /\ g.revealed    \in [Side -> SUBSET Permanent]
  /\ g.deepSince   \in [Side -> Nat \cup {NotDeep}]
  /\ g.prep        \in [Side -> BOOLEAN]
  /\ g.moved       \in [Side -> BOOLEAN]
  /\ g.visited     \in [Side -> SUBSET City]
  /\ g.newCity     \in [Side -> BOOLEAN]
  /\ g.claimIntel  \in [Side -> BOOLEAN]
  /\ g.claimAction \in [Side -> BOOLEAN]
  /\ g.turn        \in Side
  /\ g.turnNumber  \in Nat
  /\ g.over        \in BOOLEAN
  /\ g.winner      \in Side \cup {None}
  /\ g.phase       \in 0..5
  /\ g.scheduled   \in City \cup {None}
  /\ g.gone        \in SUBSET City
  /\ g.controller  \in [City -> Side \cup {None}]
  /\ g.intelAt     \in Popups
  /\ g.actionAt    \in Popups
  /\ g.untilIntel  \in Nat
  /\ g.untilAction \in Nat

Good(g) == IsRecord(g) /\ Typed(g)

LEMMA GoodIsGame == ASSUME NEW g PROVE Good(g) <=> g \in Game
<1>1. ASSUME g \in Game PROVE Typed(g)
  BY <1>1 DEF Game, Typed
<1>2. ASSUME g \in Game PROVE IsRecord(g)
  BY <1>2 DEF Game, IsRecord, Fields
<1>3. ASSUME Good(g) PROVE g \in Game
  BY <1>3 DEF Good, Game, Typed, IsRecord, Fields
<1>4. QED
  BY <1>1, <1>2, <1>3 DEF Good

LEMMA OppFacts ==
  ASSUME NEW s \in Side
  PROVE  Opp(s) \in Side /\ Opp(s) # s /\ Opp(Opp(s)) = s /\ Side = {s, Opp(s)}
BY RulesAssumption DEF Opp, Side

-----------------------------------------------------------------------------
(* Type correctness, operator by operator.                                 *)

LEMMA ClearNoticesGood ==
  ASSUME NEW g, Good(g), NEW s \in Side
  PROVE  /\ Good(ClearNotices(g, s))
         /\ Frame(g, ClearNotices(g, s), {"flags"})
<1> DEFINE h == ClearNotices(g, s)
<1>1. Frame(g, h, {"flags"})
  BY DEF ClearNotices, Frame, IsRecord, Fields, Good
<1>2. h.flags \in [Side -> SUBSET Flag]
  BY DEF ClearNotices, IsRecord, Fields, Good, Typed
<1>3. QED
  BY <1>1, <1>2 DEF Good, Typed, Frame, Fields

LEMMA MoveGood ==
  ASSUME NEW g, Good(g), NEW s \in Side, NEW c \in City, CanMove(g, s, c)
  PROVE  /\ Good(MoveEffect(g, s, c))
         /\ Frame(g, MoveEffect(g, s, c),
                  {"city", "actions", "moved", "visited", "newCity", "cover", "known"})
<1> DEFINE h == MoveEffect(g, s, c)
<1> USE DEF Good
<1>1. Frame(g, h, {"city", "actions", "moved", "visited", "newCity", "cover", "known"})
  <2>1. IsRecord(h)
    BY DEF MoveEffect, IsRecord
  <2>2. \A f \in Fields \ {"city", "actions", "moved", "visited", "newCity", "cover", "known"} :
          h[f] = g[f]
    BY DEF MoveEffect, IsRecord, Fields
  <2>3. QED
    BY <2>1, <2>2 DEF Frame
<1>2. h.city \in [Side -> City]
  BY DEF MoveEffect, IsRecord, Fields, Typed
<1>3. h.actions \in [Side -> Nat]
  BY DEF MoveEffect, IsRecord, Fields, Typed, CanMove, CanAct
<1>4. h.cover \in [Side -> BOOLEAN]
  BY DEF MoveEffect, IsRecord, Fields, Typed
<1>5. h.known \in [Side -> City \cup {None}]
  BY DEF MoveEffect, IsRecord, Fields, Typed
<1>6. h.moved \in [Side -> BOOLEAN]
  BY DEF MoveEffect, IsRecord, Fields, Typed
<1>7. h.visited \in [Side -> SUBSET City]
  BY DEF MoveEffect, IsRecord, Fields, Typed
<1>8. h.newCity \in [Side -> BOOLEAN]
  BY DEF MoveEffect, IsRecord, Fields, Typed
<1>9. QED
  BY <1>1, <1>2, <1>3, <1>4, <1>5, <1>6, <1>7, <1>8 DEF Typed, Frame, Fields

LEMMA StrikeGood ==
  ASSUME NEW g, Good(g), NEW s \in Side, CanStrike(g, s)
  PROVE  /\ Good(StrikeEffect(g, s))
         /\ Frame(g, StrikeEffect(g, s),
                  {"actions", "over", "winner", "flags", "cover", "known"})
<1> DEFINE h == StrikeEffect(g, s)
<1> USE DEF Good
<1>1. Frame(g, h, {"actions", "over", "winner", "flags", "cover", "known"})
  <2>1. IsRecord(h)
    BY DEF StrikeEffect, IsRecord
  <2>2. \A f \in Fields \ {"actions", "over", "winner", "flags", "cover", "known"} : h[f] = g[f]
    BY DEF StrikeEffect, IsRecord, Fields
  <2>3. QED
    BY <2>1, <2>2 DEF Frame
<1>2. h.actions \in [Side -> Nat]
  BY DEF StrikeEffect, IsRecord, Fields, Typed, CanStrike, CanAct
<1>3. h.over \in BOOLEAN
  BY DEF StrikeEffect, IsRecord, Fields, Typed, Hit
<1>4. h.winner \in Side \cup {None}
  BY DEF StrikeEffect, IsRecord, Fields, Typed
<1>5. h.flags \in [Side -> SUBSET Flag]
  BY OppFacts DEF StrikeEffect, IsRecord, Fields, Typed, Notify, Flag, Notice
<1>6. h.cover \in [Side -> BOOLEAN]
  BY DEF StrikeEffect, IsRecord, Fields, Typed
<1>7. h.known \in [Side -> City \cup {None}]
  BY OppFacts DEF StrikeEffect, IsRecord, Fields, Typed
<1>8. QED
  BY <1>1, <1>2, <1>3, <1>4, <1>5, <1>6, <1>7 DEF Typed, Frame, Fields

LEMMA WaitGood ==
  ASSUME NEW g, Good(g), NEW s \in Side, CanWait(g, s)
  PROVE  /\ Good(WaitEffect(g, s))
         /\ Frame(g, WaitEffect(g, s), {"actions", "cover", "known"})
<1> DEFINE h == WaitEffect(g, s)
<1> USE DEF Good
<1>1. Frame(g, h, {"actions", "cover", "known"})
  BY DEF WaitEffect, Frame, IsRecord, Fields
<1>2. h.actions \in [Side -> Nat]
  BY DEF WaitEffect, IsRecord, Fields, Typed, CanWait, CanAct
<1>3. h.cover \in [Side -> BOOLEAN]
  BY DEF WaitEffect, IsRecord, Fields, Typed
<1>4. h.known \in [Side -> City \cup {None}]
  BY DEF WaitEffect, IsRecord, Fields, Typed
<1>5. QED
  BY <1>1, <1>2, <1>3, <1>4 DEF Typed, Frame, Fields

LEMMA ControlGood ==
  ASSUME NEW g, Good(g), NEW s \in Side, CanControl(g, s)
  PROVE  /\ Good(ControlEffect(g, s))
         /\ Frame(g, ControlEffect(g, s),
                  {"actions", "cover", "known", "flags", "controller"})
<1> DEFINE h == ControlEffect(g, s)
<1> USE DEF Good
<1>1. Frame(g, h, {"actions", "cover", "known", "flags", "controller"})
  <2>1. IsRecord(h)
    BY DEF ControlEffect, IsRecord
  <2>2. \A f \in Fields \ {"actions", "cover", "known", "flags", "controller"} : h[f] = g[f]
    BY DEF ControlEffect, IsRecord, Fields
  <2>3. QED
    BY <2>1, <2>2 DEF Frame
<1>2. h.actions \in [Side -> Nat]
  BY DEF ControlEffect, IsRecord, Fields, Typed, CanControl, CanAct
<1>3. h.cover \in [Side -> BOOLEAN]
  BY DEF ControlEffect, IsRecord, Fields, Typed
<1>4. h.known \in [Side -> City \cup {None}]
  BY OppFacts DEF ControlEffect, IsRecord, Fields, Typed
<1>5. h.flags \in [Side -> SUBSET Flag]
  BY OppFacts DEF ControlEffect, IsRecord, Fields, Typed, Notify, Flag, Notice
<1>6. h.controller \in [City -> Side \cup {None}]
  BY DEF ControlEffect, IsRecord, Fields, Typed
<1>7. QED
  BY <1>1, <1>2, <1>3, <1>4, <1>5, <1>6 DEF Typed, Frame, Fields

LEMMA PayGood ==
  ASSUME NEW g, Good(g), NEW s \in Side, NEW a \in Ability, CanUse(g, s, a)
  PROVE  /\ Good(Pay(g, s, a))
         /\ Frame(g, Pay(g, s, a), {"intel", "actions"})
<1> DEFINE h == Pay(g, s, a)
<1> USE DEF Good
<1>1. Frame(g, h, {"intel", "actions"})
  <2>1. IsRecord(h)
    BY DEF Pay, IsRecord
  <2>2. \A f \in Fields \ {"intel", "actions"} : h[f] = g[f]
    BY DEF Pay, IsRecord, Fields
  <2>3. QED
    BY <2>1, <2>2 DEF Frame
<1>2. h.intel \in [Side -> Nat]
  BY RulesAssumption DEF Pay, IsRecord, Fields, Typed, CanUse
<1>3. h.actions \in [Side -> Nat]
  BY DEF Pay, IsRecord, Fields, Typed, CanUse, CanAct
<1>4. QED
  BY <1>1, <1>2, <1>3 DEF Typed, Frame, Fields

LEMMA DeepCoverGood ==
  ASSUME NEW g, Good(g), NEW s \in Side
  PROVE  /\ Good(DeepCover(g, s))
         /\ Frame(g, DeepCover(g, s), {"deepSince", "cover", "known", "flags"})
<1> DEFINE h == DeepCover(g, s)
<1> USE DEF Good
<1>1. Frame(g, h, {"deepSince", "cover", "known", "flags"})
  <2>1. IsRecord(h)
    BY DEF DeepCover, IsRecord
  <2>2. \A f \in Fields \ {"deepSince", "cover", "known", "flags"} : h[f] = g[f]
    BY DEF DeepCover, IsRecord, Fields
  <2>3. QED
    BY <2>1, <2>2 DEF Frame
<1>2. h.deepSince \in [Side -> Nat \cup {NotDeep}]
  BY DEF DeepCover, IsRecord, Fields, Typed
<1>3. h.cover \in [Side -> BOOLEAN]
  BY DEF DeepCover, IsRecord, Fields, Typed
<1>4. h.known \in [Side -> City \cup {None}]
  BY OppFacts DEF DeepCover, IsRecord, Fields, Typed
<1>5. h.flags \in [Side -> SUBSET Flag]
  BY OppFacts DEF DeepCover, IsRecord, Fields, Typed, Notify, Flag, Notice
<1>6. QED
  BY <1>1, <1>2, <1>3, <1>4, <1>5 DEF Typed, Frame, Fields

LEMMA StrikeReportGood ==
  ASSUME NEW g, Good(g), NEW s \in Side
  PROVE  /\ Good(StrikeReport(g, s))
         /\ Frame(g, StrikeReport(g, s), {"unlocked", "revealed", "flags"})
<1> DEFINE h == StrikeReport(g, s)
<1> USE DEF Good
<1>1. Frame(g, h, {"unlocked", "revealed", "flags"})
  <2>1. IsRecord(h)
    BY DEF StrikeReport, IsRecord
  <2>2. \A f \in Fields \ {"unlocked", "revealed", "flags"} : h[f] = g[f]
    BY DEF StrikeReport, IsRecord, Fields
  <2>3. QED
    BY <2>1, <2>2 DEF Frame
<1>2. h.unlocked \in [Side -> SUBSET Permanent]
  BY DEF StrikeReport, IsRecord, Fields, Typed, Permanent
<1>3. h.revealed \in [Side -> SUBSET Permanent]
  BY DEF StrikeReport, IsRecord, Fields, Typed, Permanent
<1>4. h.flags \in [Side -> SUBSET Flag]
  BY OppFacts DEF StrikeReport, IsRecord, Fields, Typed, Notify, Flag, Notice
<1>5. QED
  BY <1>1, <1>2, <1>3, <1>4 DEF Typed, Frame, Fields

LEMMA EncryptionGood ==
  ASSUME NEW g, Good(g), NEW s \in Side
  PROVE  /\ Good(Encryption(g, s))
         /\ Frame(g, Encryption(g, s), {"unlocked", "flags"})
<1> DEFINE h == Encryption(g, s)
<1> USE DEF Good
<1>1. Frame(g, h, {"unlocked", "flags"})
  <2>1. IsRecord(h)
    BY DEF Encryption, IsRecord
  <2>2. \A f \in Fields \ {"unlocked", "flags"} : h[f] = g[f]
    BY DEF Encryption, IsRecord, Fields
  <2>3. QED
    BY <2>1, <2>2 DEF Frame
<1>2. h.unlocked \in [Side -> SUBSET Permanent]
  BY DEF Encryption, IsRecord, Fields, Typed, Permanent
<1>3. h.flags \in [Side -> SUBSET Flag]
  BY OppFacts DEF Encryption, IsRecord, Fields, Typed, Notify, Flag, Notice
<1>4. QED
  BY <1>1, <1>2, <1>3 DEF Typed, Frame, Fields

LEMMA RapidReconGood ==
  ASSUME NEW g, Good(g), NEW s \in Side
  PROVE  /\ Good(RapidRecon(g, s))
         /\ Frame(g, RapidRecon(g, s), {"unlocked", "revealed"})
<1> DEFINE h == RapidRecon(g, s)
<1> USE DEF Good
<1>1. Frame(g, h, {"unlocked", "revealed"})
  <2>1. IsRecord(h)
    BY DEF RapidRecon, IsRecord
  <2>2. \A f \in Fields \ {"unlocked", "revealed"} : h[f] = g[f]
    BY DEF RapidRecon, IsRecord, Fields
  <2>3. QED
    BY <2>1, <2>2 DEF Frame
<1>2. h.unlocked \in [Side -> SUBSET Permanent]
  BY DEF RapidRecon, IsRecord, Fields, Typed, Permanent
<1>3. h.revealed \in [Side -> SUBSET Permanent]
  BY DEF RapidRecon, IsRecord, Fields, Typed, Permanent
<1>4. QED
  BY <1>1, <1>2, <1>3 DEF Typed, Frame, Fields

LEMMA PrepMissionGood ==
  ASSUME NEW g, Good(g), NEW s \in Side
  PROVE  /\ Good(PrepMission(g, s))
         /\ Frame(g, PrepMission(g, s), {"prep", "flags"})
<1> DEFINE h == PrepMission(g, s)
<1> USE DEF Good
<1>1. Frame(g, h, {"prep", "flags"})
  <2>1. IsRecord(h)
    BY DEF PrepMission, IsRecord
  <2>2. \A f \in Fields \ {"prep", "flags"} : h[f] = g[f]
    BY DEF PrepMission, IsRecord, Fields
  <2>3. QED
    BY <2>1, <2>2 DEF Frame
<1>2. h.prep \in [Side -> BOOLEAN]
  BY DEF PrepMission, IsRecord, Fields, Typed
<1>3. h.flags \in [Side -> SUBSET Flag]
  BY OppFacts DEF PrepMission, IsRecord, Fields, Typed, Notify, Flag, Notice
<1>4. QED
  BY <1>1, <1>2, <1>3 DEF Typed, Frame, Fields

LEMMA ClaimGood ==
  ASSUME NEW g, Good(g), NEW s \in Side
  PROVE  /\ Good(Claim(g, s))
         /\ Frame(g, Claim(g, s),
                  {"claimIntel", "intelAt", "claimAction", "actionAt"})
<1> DEFINE h == Claim(g, s)
<1> USE DEF Good
<1>1. Frame(g, h, {"claimIntel", "intelAt", "claimAction", "actionAt"})
  <2>1. IsRecord(h)
    BY DEF Claim, IsRecord
  <2>2. \A f \in Fields \ {"claimIntel", "intelAt", "claimAction", "actionAt"} :
          h[f] = g[f]
    BY DEF Claim, IsRecord, Fields
  <2>3. QED
    BY <2>1, <2>2 DEF Frame
<1>2. h.claimIntel \in [Side -> BOOLEAN]
  BY DEF Claim, IsRecord, Fields, Typed
<1>3. h.intelAt \in Popups
  BY DEF Claim, IsRecord, Fields, Typed, Popups
<1>4. h.claimAction \in [Side -> BOOLEAN]
  BY DEF Claim, IsRecord, Fields, Typed
<1>5. h.actionAt \in Popups
  BY DEF Claim, IsRecord, Fields, Typed, Popups
<1>6. QED
  BY <1>1, <1>2, <1>3, <1>4, <1>5 DEF Typed, Frame, Fields

LEMMA PassTurnGood ==
  ASSUME NEW g, Good(g), NEW n \in Side
  PROVE  /\ Good(PassTurn(g, n))
         /\ Frame(g, PassTurn(g, n),
                  {"turn", "turnNumber", "actions", "prep", "flags"})
<1> DEFINE h == PassTurn(g, n)
<1> USE DEF Good
<1>1. Frame(g, h, {"turn", "turnNumber", "actions", "prep", "flags"})
  <2>1. IsRecord(h)
    BY DEF PassTurn, IsRecord
  <2>2. \A f \in Fields \ {"turn", "turnNumber", "actions", "prep", "flags"} :
          h[f] = g[f]
    BY DEF PassTurn, IsRecord, Fields
  <2>3. QED
    BY <2>1, <2>2 DEF Frame
<1>2. h.turn \in Side
  BY DEF PassTurn, IsRecord, Fields, Typed
<1>3. h.turnNumber \in Nat
  BY DEF PassTurn, IsRecord, Fields, Typed
<1>4. h.actions \in [Side -> Nat]
  BY DEF PassTurn, IsRecord, Fields, Typed
<1>5. h.prep \in [Side -> BOOLEAN]
  BY DEF PassTurn, IsRecord, Fields, Typed
<1>6. h.flags \in [Side -> SUBSET Flag]
  BY DEF PassTurn, IsRecord, Fields, Typed
<1>7. QED
  BY <1>1, <1>2, <1>3, <1>4, <1>5, <1>6 DEF Typed, Frame, Fields

LEMMA DropGonePopupsGood ==
  ASSUME NEW g, Good(g)
  PROVE  /\ Good(DropGonePopups(g))
         /\ Frame(g, DropGonePopups(g), {"intelAt", "actionAt"})
<1> DEFINE h == DropGonePopups(g)
<1> USE DEF Good
<1>1. Frame(g, h, {"intelAt", "actionAt"})
  <2>1. IsRecord(h)
    BY DEF DropGonePopups, IsRecord
  <2>2. \A f \in Fields \ {"intelAt", "actionAt"} : h[f] = g[f]
    BY DEF DropGonePopups, IsRecord, Fields
  <2>3. QED
    BY <2>1, <2>2 DEF Frame
<1>2. h.intelAt \in Popups
  BY DEF DropGonePopups, IsRecord, Fields, Typed, Popups
<1>3. h.actionAt \in Popups
  BY DEF DropGonePopups, IsRecord, Fields, Typed, Popups
<1>4. QED
  BY <1>1, <1>2, <1>3 DEF Typed, Frame, Fields

LEMMA ClearFlagsGood ==
  ASSUME NEW g, Good(g), NEW s \in Side
  PROVE  /\ Good(ClearFlags(g, s))
         /\ Frame(g, ClearFlags(g, s), {"flags"})
<1> DEFINE h == ClearFlags(g, s)
<1> USE DEF Good
<1>1. Frame(g, h, {"flags"})
  <2>1. IsRecord(h)
    BY DEF ClearFlags, IsRecord
  <2>2. \A f \in Fields \ {"flags"} : h[f] = g[f]
    BY DEF ClearFlags, IsRecord, Fields
  <2>3. QED
    BY <2>1, <2>2 DEF Frame
<1>2. h.flags \in [Side -> SUBSET Flag]
  BY DEF ClearFlags, IsRecord, Fields, Typed
<1>3. QED
  BY <1>1, <1>2 DEF Typed, Frame, Fields

LEMMA FrameTrans ==
  ASSUME NEW g, NEW h, NEW k, NEW F, NEW G, Frame(g, h, F), Frame(h, k, G)
  PROVE  Frame(g, k, F \cup G)
BY DEF Frame

LEMMA LocateGood ==
  ASSUME NEW g, Good(g), NEW s \in Side
  PROVE  /\ Good(Locate(g, s))
         /\ Frame(g, Locate(g, s), {"known", "cover", "flags"})
<1> DEFINE h == Locate(g, s)
<1> USE DEF Good
<1>1. IsRecord(h)
  <2>1. CASE Deep(g, Opp(s))
    BY <2>1 DEF Locate, IsRecord
  <2>2. CASE ~Deep(g, Opp(s))
    BY <2>2 DEF Locate, IsRecord
  <2>3. QED
    BY <2>1, <2>2
<1>2. \A f \in Fields \ {"known", "cover", "flags"} : h[f] = g[f]
  <2>1. CASE Deep(g, Opp(s))
    BY <2>1 DEF Locate, IsRecord, Fields
  <2>2. CASE ~Deep(g, Opp(s))
    BY <2>2 DEF Locate, IsRecord, Fields
  <2>3. QED
    BY <2>1, <2>2
<1>3. h.known \in [Side -> City \cup {None}]
  <2>1. CASE Deep(g, Opp(s))
    BY <2>1 DEF Locate, IsRecord, Fields, Typed
  <2>2. CASE ~Deep(g, Opp(s))
    BY <2>2, OppFacts DEF Locate, IsRecord, Fields, Typed
  <2>3. QED
    BY <2>1, <2>2
<1>4. h.cover \in [Side -> BOOLEAN]
  <2>1. CASE Deep(g, Opp(s))
    BY <2>1 DEF Locate, IsRecord, Fields, Typed
  <2>2. CASE ~Deep(g, Opp(s))
    BY <2>2 DEF Locate, IsRecord, Fields, Typed
  <2>3. QED
    BY <2>1, <2>2
<1>5. h.flags \in [Side -> SUBSET Flag]
  <2>1. CASE Deep(g, Opp(s))
    BY <2>1 DEF Locate, IsRecord, Fields, Typed, Flag
  <2>2. CASE ~Deep(g, Opp(s))
    BY <2>2 DEF Locate, IsRecord, Fields, Typed, Flag, Notice
  <2>3. QED
    BY <2>1, <2>2
<1>6. QED
  BY <1>1, <1>2, <1>3, <1>4, <1>5 DEF Typed, Frame, Fields

LEMMA IncomeGood ==
  ASSUME NEW g, Good(g), NEW s \in Side, NEW skip \in BOOLEAN
  PROVE  /\ Good(Income(g, s, skip))
         /\ Frame(g, Income(g, s, skip), {"intel", "newCity"})
<1> DEFINE h == Income(g, s, skip)
           held == {c \in City : g.controller[c] = s}
<1> USE DEF Good
<1>1. Cardinality(held) \in Nat
  BY MapAssumption, FS_Subset, FS_CardinalityType
<1>2. IsRecord(h)
  BY DEF Income, IsRecord
<1>3. \A f \in Fields \ {"intel", "newCity"} : h[f] = g[f]
  BY DEF Income, IsRecord, Fields
<1>4. h.newCity \in [Side -> BOOLEAN]
  BY DEF Income, IsRecord, Fields, Typed
<1>5. h.intel \in [Side -> Nat]
  <2> HIDE DEF held
  <2>1. h.intel = [g.intel EXCEPT ![s] =
           @ + 4 + (IF g.newCity[s] /\ ~skip THEN 4 ELSE 0) + 4 * Cardinality(held)]
    BY DEF Income, IsRecord, Fields, held
  <2>2. QED
    BY <1>1, <2>1 DEF Typed
<1>6. QED
  BY <1>2, <1>3, <1>4, <1>5 DEF Typed, Frame, Fields

LEMMA TakenPopups ==
  ASSUME NEW p \in Popups, NEW n \in Side
  PROVE  Taken(p, n) \in Popups
BY DEF Taken, Popups

LEMMA ApplyClaimedIntelGood ==
  ASSUME NEW g, Good(g), NEW n \in Side
  PROVE  /\ Good(ApplyClaimedIntel(g, n))
         /\ Frame(g, ApplyClaimedIntel(g, n),
                  {"intel", "cover", "known", "flags", "intelAt", "claimIntel"})
<1> DEFINE h == ApplyClaimedIntel(g, n)
<1> USE DEF Good
<1>1. CASE ~(g.claimIntel[n])
  BY <1>1 DEF ApplyClaimedIntel, Frame
<1>2. CASE g.claimIntel[n]
  <2>1. IsRecord(h)
    BY <1>2 DEF ApplyClaimedIntel, IsRecord
  <2>2. \A f \in Fields \ {"intel", "cover", "known", "flags", "intelAt", "claimIntel"} :
          h[f] = g[f]
    BY <1>2 DEF ApplyClaimedIntel, IsRecord, Fields
  <2>3. h.intel \in [Side -> Nat]
    BY <1>2 DEF ApplyClaimedIntel, IsRecord, Fields, Typed
  <2>4. h.cover \in [Side -> BOOLEAN]
    BY <1>2 DEF ApplyClaimedIntel, IsRecord, Fields, Typed
  <2>5. h.known \in [Side -> City \cup {None}]
    BY <1>2, OppFacts DEF ApplyClaimedIntel, IsRecord, Fields, Typed
  <2>6. h.flags \in [Side -> SUBSET Flag]
    BY <1>2, OppFacts DEF ApplyClaimedIntel, IsRecord, Fields, Typed, Notify, Flag, Notice
  <2>7. h.intelAt \in Popups
    BY <1>2, TakenPopups DEF ApplyClaimedIntel, IsRecord, Fields, Typed
  <2>8. h.claimIntel \in [Side -> BOOLEAN]
    BY <1>2 DEF ApplyClaimedIntel, IsRecord, Fields, Typed
  <2>9. QED
    BY <2>1, <2>2, <2>3, <2>4, <2>5, <2>6, <2>7, <2>8 DEF Typed, Frame, Fields
<1>3. QED
  BY <1>1, <1>2

LEMMA ApplyClaimedActionGood ==
  ASSUME NEW g, Good(g), NEW n \in Side
  PROVE  /\ Good(ApplyClaimedAction(g, n))
         /\ Frame(g, ApplyClaimedAction(g, n),
                  {"actions", "cover", "known", "actionAt", "claimAction"})
<1> DEFINE h == ApplyClaimedAction(g, n)
<1> USE DEF Good
<1>1. CASE ~(g.claimAction[n])
  BY <1>1 DEF ApplyClaimedAction, Frame
<1>2. CASE g.claimAction[n]
  <2>1. IsRecord(h)
    BY <1>2 DEF ApplyClaimedAction, IsRecord
  <2>2. \A f \in Fields \ {"actions", "cover", "known", "actionAt", "claimAction"} :
          h[f] = g[f]
    BY <1>2 DEF ApplyClaimedAction, IsRecord, Fields
  <2>3. h.actions \in [Side -> Nat]
    BY <1>2 DEF ApplyClaimedAction, IsRecord, Fields, Typed
  <2>4. h.cover \in [Side -> BOOLEAN]
    BY <1>2 DEF ApplyClaimedAction, IsRecord, Fields, Typed
  <2>5. h.known \in [Side -> City \cup {None}]
    BY <1>2, OppFacts DEF ApplyClaimedAction, IsRecord, Fields, Typed
  <2>6. h.actionAt \in Popups
    BY <1>2, TakenPopups DEF ApplyClaimedAction, IsRecord, Fields, Typed
  <2>7. h.claimAction \in [Side -> BOOLEAN]
    BY <1>2 DEF ApplyClaimedAction, IsRecord, Fields, Typed
  <2>8. QED
    BY <2>1, <2>2, <2>3, <2>4, <2>5, <2>6, <2>7 DEF Typed, Frame, Fields
<1>3. QED
  BY <1>1, <1>2

LEMMA ExpireDeepCoverGood ==
  ASSUME NEW g, Good(g), NEW n \in Side
  PROVE  /\ Good(ExpireDeepCover(g, n))
         /\ Frame(g, ExpireDeepCover(g, n), {"deepSince"})
<1> DEFINE h == ExpireDeepCover(g, n)
<1> USE DEF Good
<1>1. CASE ~(Deep(g, n) /\ g.turnNumber - g.deepSince[n] >= 2)
  BY <1>1 DEF ExpireDeepCover, Frame
<1>2. CASE Deep(g, n) /\ g.turnNumber - g.deepSince[n] >= 2
  <2>1. IsRecord(h)
    BY <1>2 DEF ExpireDeepCover, IsRecord
  <2>2. \A f \in Fields \ {"deepSince"} : h[f] = g[f]
    BY <1>2 DEF ExpireDeepCover, IsRecord, Fields
  <2>3. h.deepSince \in [Side -> Nat \cup {NotDeep}]
    BY <1>2 DEF ExpireDeepCover, IsRecord, Fields, Typed
  <2>4. QED
    BY <2>1, <2>2, <2>3 DEF Typed, Frame, Fields
<1>3. QED
  BY <1>1, <1>2

LEMMA MeetOpponentGood ==
  ASSUME NEW g, Good(g), NEW n \in Side
  PROVE  /\ Good(MeetOpponent(g, n))
         /\ Frame(g, MeetOpponent(g, n), {"cover", "known"})
<1> DEFINE h == MeetOpponent(g, n)
<1> USE DEF Good
<1>1. CASE ~(g.city[n] = g.city[Opp(n)] /\ ~Deep(g, n))
  BY <1>1 DEF MeetOpponent, Frame
<1>2. CASE g.city[n] = g.city[Opp(n)] /\ ~Deep(g, n)
  <2>1. IsRecord(h)
    BY <1>2 DEF MeetOpponent, IsRecord
  <2>2. \A f \in Fields \ {"cover", "known"} : h[f] = g[f]
    BY <1>2 DEF MeetOpponent, IsRecord, Fields
  <2>3. h.cover \in [Side -> BOOLEAN]
    BY <1>2 DEF MeetOpponent, IsRecord, Fields, Typed
  <2>4. h.known \in [Side -> City \cup {None}]
    BY <1>2, OppFacts DEF MeetOpponent, IsRecord, Fields, Typed
  <2>5. QED
    BY <2>1, <2>2, <2>3, <2>4 DEF Typed, Frame, Fields
<1>3. QED
  BY <1>1, <1>2

LEMMA ConcedeGood ==
  ASSUME NEW g, Good(g), NEW s \in Side
  PROVE  /\ Good(Concede(g, s))
         /\ Frame(g, Concede(g, s), {"over", "winner"})
<1> DEFINE h == Concede(g, s)
<1> USE DEF Good
<1>1. CASE ~(~g.over)
  BY <1>1 DEF Concede, Frame
<1>2. CASE ~g.over
  <2>1. IsRecord(h)
    BY <1>2 DEF Concede, IsRecord
  <2>2. \A f \in Fields \ {"over", "winner"} : h[f] = g[f]
    BY <1>2 DEF Concede, IsRecord, Fields
  <2>3. h.over \in BOOLEAN
    BY <1>2 DEF Concede, IsRecord, Fields, Typed
  <2>4. h.winner \in Side \cup {None}
    BY <1>2, OppFacts DEF Concede, IsRecord, Fields, Typed
  <2>5. QED
    BY <2>1, <2>2, <2>3, <2>4 DEF Typed, Frame, Fields
<1>3. QED
  BY <1>1, <1>2

LEMMA EndTurnGood ==
  ASSUME NEW g, Good(g), NEW s \in Side, NEW skip \in BOOLEAN
  PROVE  Good(EndTurnEffect(g, s, skip))
<1> DEFINE n == Opp(s)
           begun == PassTurn(Income(Claim(g, s), s, skip), n)
           paid == ApplyClaimedAction(ApplyClaimedIntel(begun, n), n)
           settled == ExpireDeepCover(DropGonePopups(paid), n)
<1>1. n \in Side
  BY OppFacts
<1>2. Good(begun)
  BY <1>1, ClaimGood, IncomeGood, PassTurnGood
<1>3. Good(paid)
  BY <1>1, <1>2, ApplyClaimedIntelGood, ApplyClaimedActionGood
<1>4. Good(settled)
  BY <1>1, <1>3, DropGonePopupsGood, ExpireDeepCoverGood
<1>5. QED
  BY <1>1, <1>4, MeetOpponentGood, ClearFlagsGood DEF EndTurnEffect

LEMMA UseGood ==
  ASSUME NEW g, Good(g), NEW s \in Side, NEW a \in Ability, CanUse(g, s, a)
  PROVE  Good(UseEffect(g, s, a))
<1>1. Good(Pay(g, s, a))
  BY PayGood
<1>2. QED
  BY <1>1, DeepCoverGood, LocateGood, StrikeReportGood, EncryptionGood,
     RapidReconGood, PrepMissionGood DEF UseEffect, Ability

-----------------------------------------------------------------------------
(* The action counter.                                                     *)

Counted == {"phase", "untilIntel", "untilAction", "intelAt", "actionAt",
            "scheduled", "gone"}

LEMMA SpawnedPopups ==
  ASSUME NEW g, NEW p \in Popups, NEW q \in Spawned(g, p)
  PROVE  q \in Popups
BY DEF Spawned, Popups

LEMMA IntelBoardGood ==
  ASSUME NEW g, Good(g), NEW n \in Nat, NEW p \in Popups
  PROVE  Good(IntelBoard(g, n, p)) /\ Frame(g, IntelBoard(g, n, p), Counted)
<1> DEFINE h == IntelBoard(g, n, p)
<1> USE DEF Good
<1>1. IsRecord(h)
  BY DEF IntelBoard, IsRecord
<1>2. \A f \in Fields \ {"untilIntel", "intelAt"} : h[f] = g[f]
  BY DEF IntelBoard, IsRecord, Fields
<1>3. h.untilIntel \in Nat
  BY DEF IntelBoard, IsRecord, Fields
<1>4. h.intelAt \in Popups
  BY DEF IntelBoard, IsRecord, Fields
<1>5. QED
  BY <1>1, <1>2, <1>3, <1>4 DEF Typed, Frame, Fields, Counted

LEMMA SpawnIntelGood ==
  ASSUME NEW g, Good(g), NEW h \in SpawnIntel(g)
  PROVE  Good(h) /\ Frame(g, h, Counted)
<1>1. g.untilIntel \in Nat /\ g.intelAt \in Popups
  BY DEF Good, Typed
<1>2. CASE g.untilIntel > 1
  <2>1. h = IntelBoard(g, g.untilIntel - 1, g.intelAt)
    BY <1>2 DEF SpawnIntel
  <2>2. QED
    BY <1>1, <1>2, <2>1, IntelBoardGood
<1>3. CASE ~(g.untilIntel > 1)
  <2>1. PICK n \in IntelGaps, p \in Spawned(g, g.intelAt) : h = IntelBoard(g, n, p)
    BY <1>3 DEF SpawnIntel
  <2>2. n \in Nat /\ p \in Popups
    BY <1>1, RulesAssumption, SpawnedPopups
  <2>3. QED
    BY <2>1, <2>2, IntelBoardGood
<1>4. QED
  BY <1>2, <1>3

LEMMA ActionBoardGood ==
  ASSUME NEW g, Good(g), NEW n \in Nat, NEW p \in Popups
  PROVE  Good(ActionBoard(g, n, p)) /\ Frame(g, ActionBoard(g, n, p), Counted)
<1> DEFINE h == ActionBoard(g, n, p)
<1> USE DEF Good
<1>1. IsRecord(h)
  BY DEF ActionBoard, IsRecord
<1>2. \A f \in Fields \ {"untilAction", "actionAt"} : h[f] = g[f]
  BY DEF ActionBoard, IsRecord, Fields
<1>3. h.untilAction \in Nat
  BY DEF ActionBoard, IsRecord, Fields
<1>4. h.actionAt \in Popups
  BY DEF ActionBoard, IsRecord, Fields
<1>5. QED
  BY <1>1, <1>2, <1>3, <1>4 DEF Typed, Frame, Fields, Counted

LEMMA SpawnActionGood ==
  ASSUME NEW g, Good(g), NEW h \in SpawnAction(g)
  PROVE  Good(h) /\ Frame(g, h, Counted)
<1>1. g.untilAction \in Nat /\ g.actionAt \in Popups
  BY DEF Good, Typed
<1>2. CASE g.untilAction > 1
  <2>1. h = ActionBoard(g, g.untilAction - 1, g.actionAt)
    BY <1>2 DEF SpawnAction
  <2>2. QED
    BY <1>1, <1>2, <2>1, ActionBoardGood
<1>3. CASE ~(g.untilAction > 1)
  <2>1. PICK n \in ActionGaps, p \in Spawned(g, g.actionAt) : h = ActionBoard(g, n, p)
    BY <1>3 DEF SpawnAction
  <2>2. n \in Nat /\ p \in Popups
    BY <1>1, RulesAssumption, SpawnedPopups
  <2>3. QED
    BY <2>1, <2>2, ActionBoardGood
<1>4. QED
  BY <1>2, <1>3

LEMMA ShrinkMapGood ==
  ASSUME NEW g, Good(g), NEW h \in ShrinkMap(g)
  PROVE  Good(h) /\ Frame(g, h, Counted)
<1> USE DEF Good
<1>1. \A c \in Disappearable(g.gone) : c \in City
  BY DEF Disappearable, Peripheral
<1>2. ASSUME NEW c \in City \cup {None}, h = [g EXCEPT !.scheduled = c]
      PROVE  Good(h) /\ Frame(g, h, Counted)
  <2>1. IsRecord(h)
    BY <1>2 DEF IsRecord
  <2>2. \A f \in Fields \ {"scheduled"} : h[f] = g[f]
    BY <1>2 DEF IsRecord, Fields
  <2>3. h.scheduled = c
    BY <1>2 DEF IsRecord, Fields
  <2>4. QED
    BY <2>1, <2>2, <2>3 DEF Typed, Frame, Fields, Counted
<1>3. CASE g.phase = 4
  <2>1. ShrinkMap(g) = Schedule(g)
    BY <1>3 DEF ShrinkMap
  <2>2. QED
    BY <1>1, <1>2, <2>1 DEF Schedule
<1>4. CASE g.phase = 0
  <2>1. h = [g EXCEPT !.gone = @ \cup ({g.scheduled} \ {None}), !.scheduled = None]
    BY <1>4 DEF ShrinkMap
  <2>2. IsRecord(h)
    BY <2>1 DEF IsRecord
  <2>3. \A f \in Fields \ {"gone", "scheduled"} : h[f] = g[f]
    BY <2>1 DEF IsRecord, Fields
  <2>4. h.gone = g.gone \cup ({g.scheduled} \ {None}) /\ h.scheduled = None
    BY <2>1 DEF IsRecord, Fields
  <2>5. QED
    BY <2>2, <2>3, <2>4 DEF Typed, Frame, Fields, Counted
<1>5. CASE ~(g.phase = 4) /\ ~(g.phase = 0)
  BY <1>5 DEF ShrinkMap, Frame
<1>6. QED
  BY <1>3, <1>4, <1>5

LEMMA CountActionGood ==
  ASSUME NEW g, Good(g), NEW h \in CountAction(g)
  PROVE  Good(h) /\ Frame(g, h, Counted)
<1> DEFINE k == [g EXCEPT !.phase = (@ + 1) % 6]
<1>1. Good(k) /\ Frame(g, k, Counted)
  <2> USE DEF Good
  <2>1. IsRecord(k)
    BY DEF IsRecord
  <2>2. \A f \in Fields \ {"phase"} : k[f] = g[f]
    BY DEF IsRecord, Fields
  <2>3. k.phase \in 0..5
    BY DEF IsRecord, Fields, Typed
  <2>4. QED
    BY <2>1, <2>2, <2>3 DEF Typed, Frame, Fields, Counted
<1> HIDE DEF k
<1>2. PICK i \in SpawnIntel(k) : \E j \in SpawnAction(i) : h \in ShrinkMap(j)
  BY DEF CountAction, k
<1> PICK j \in SpawnAction(i) : h \in ShrinkMap(j)
  BY <1>2
<1>3. Good(i) /\ Frame(k, i, Counted)
  BY <1>1, SpawnIntelGood
<1>4. Good(j) /\ Frame(i, j, Counted)
  BY <1>3, SpawnActionGood
<1>5. Good(h) /\ Frame(j, h, Counted)
  BY <1>4, ShrinkMapGood
<1>6. QED
  BY <1>1, <1>3, <1>4, <1>5 DEF Frame

-----------------------------------------------------------------------------
(* Type correctness.                                                       *)

LEMMA NewGameGood ==
  ASSUME NEW g \in NewGames
  PROVE  Good(g)
<1>1. PICK start \in [Side -> City], first \in Side, gapI \in IntelGaps, gapA \in ActionGaps :
        g = NewGame(start, first, gapI, gapA)
  BY DEF NewGames
<1>2. gapI \in Nat /\ gapA \in Nat
  BY RulesAssumption
<1>3. IsRecord(g)
  BY <1>1 DEF NewGame, IsRecord, Fields
<1>4. Typed(g)
  BY <1>1, <1>2, OppFacts, RulesAssumption DEF NewGame, Typed, Popups, Flag, Permanent, NotDeep
<1>5. QED
  BY <1>3, <1>4 DEF Good

\* Whatever a command's effect preserves and the counter preserves, the whole
\* command preserves.
LEMMA AttemptGood ==
  ASSUME NEW g, Good(g), NEW ok, NEW effect, ok => Good(effect), Attempt(g, ok, effect)
  PROVE  Good(game')
BY CountActionGood DEF Attempt

LEMMA StepGood ==
  ASSUME Good(game), [Next]_game
  PROVE  Good(game')
<1>1. CASE UNCHANGED game
  BY <1>1
<1>2. ASSUME NEW s \in Side, NEW c \in City, Move(s, c)
      PROVE  Good(game')
  BY <1>2, ClearNoticesGood, MoveGood, AttemptGood DEF Move
<1>3. ASSUME NEW s \in Side, Strike(s)
      PROVE  Good(game')
  BY <1>3, ClearNoticesGood, StrikeGood, AttemptGood DEF Strike
<1>4. ASSUME NEW s \in Side, Wait(s)
      PROVE  Good(game')
  BY <1>4, ClearNoticesGood, WaitGood, AttemptGood DEF Wait
<1>5. ASSUME NEW s \in Side, Control(s)
      PROVE  Good(game')
  BY <1>5, ClearNoticesGood, ControlGood, AttemptGood DEF Control
<1>6. ASSUME NEW s \in Side, NEW a \in Ability, UseAbility(s, a)
      PROVE  Good(game')
  BY <1>6, ClearNoticesGood, UseGood, AttemptGood DEF UseAbility
<1>7. ASSUME NEW s \in Side, NEW skip \in BOOLEAN, EndTurn(s, skip)
      PROVE  Good(game')
  BY <1>7, EndTurnGood DEF EndTurn
<1>8. ASSUME NEW s \in Side, Abort(s)
      PROVE  Good(game')
  BY <1>8, ConcedeGood DEF Abort
<1>9. QED
  BY <1>1, <1>2, <1>3, <1>4, <1>5, <1>6, <1>7, <1>8 DEF Next

\* Every game the commands of either side can reach, in any order, has the type
\* of a game: Intel and actions are never taken from a spy that has none left.
THEOREM TypeCorrect == Spec => []TypeOK
<1>1. Init => Good(game)
  BY NewGameGood DEF Init
<1>2. Good(game) /\ [Next]_game => Good(game)'
  BY StepGood
<1>3. Good(game) => TypeOK
  BY GoodIsGame DEF TypeOK
<1>4. QED
  BY <1>1, <1>2, <1>3, PTL DEF Spec

-----------------------------------------------------------------------------
(* Cover, Deep Cover and the winner.  Secure is inductive together with    *)
(* Good: a spy in Deep Cover has no action left in its own turn, so nothing*)
(* it does can expose it, and the commands of the opponent look at Deep    *)
(* Cover before they expose anybody.                                       *)

Decided(g) == g.over <=> g.winner \in Side

Secure(g) == KnowsExactly(g) /\ HiddenWhileDeep(g) /\ Decided(g)

\* The fields Secure is about.
Secret == {"city", "cover", "known", "deepSince", "turn", "turnNumber", "actions",
           "over", "winner"}

LEMMA FrameSecure ==
  ASSUME NEW g, NEW h, NEW F, Secure(g), Frame(g, h, F), F \cap Secret = {}
  PROVE  Secure(h)
<1>1. \A f \in Secret : h[f] = g[f]
  BY DEF Frame, Secret, Fields
<1>2. /\ h.city = g.city /\ h.cover = g.cover /\ h.known = g.known
      /\ h.deepSince = g.deepSince /\ h.turn = g.turn /\ h.turnNumber = g.turnNumber
      /\ h.actions = g.actions /\ h.over = g.over /\ h.winner = g.winner
  BY <1>1 DEF Secret
<1>3. QED
  BY <1>2 DEF Secure, KnowsExactly, HiddenWhileDeep, Decided, Deep

LEMMA ActsUndercover ==
  ASSUME NEW g, Good(g), Secure(g), NEW s \in Side, CanAct(g, s)
  PROVE  ~Deep(g, s) /\ g.winner = None /\ ~g.over /\ g.turn = s
<1>1. g.turn = s /\ ~g.over /\ g.actions[s] > 0
  BY DEF CanAct, MyTurn
<1>2. ~Deep(g, s)
  BY <1>1 DEF Secure, HiddenWhileDeep
<1>3. g.winner = None
  BY <1>1 DEF Secure, Decided, Good, Typed
<1>4. QED
  BY <1>1, <1>2, <1>3

LEMMA MoveSecure ==
  ASSUME NEW g, Good(g), Secure(g), NEW s \in Side, NEW c \in City, CanMove(g, s, c)
  PROVE  Secure(MoveEffect(g, s, c))
<1> DEFINE h == MoveEffect(g, s, c)
           o == Opp(s)
           entered == g.controller[c] = o /\ ~Deep(g, s)
           recon == "RAPID_RECON" \in g.unlocked[s] /\ g.city[o] = c /\ ~Deep(g, o)
<1>1. o \in Side /\ o # s /\ Opp(s) = o /\ Opp(o) = s /\ Side = {s, o}
  BY OppFacts
<1>2. ~Deep(g, s) /\ g.winner = None /\ ~g.over /\ g.turn = s
  BY ActsUndercover DEF CanMove
<1>3. /\ h.city = [g.city EXCEPT ![s] = c]
      /\ h.deepSince = g.deepSince /\ h.turn = g.turn /\ h.turnNumber = g.turnNumber
      /\ h.over = g.over /\ h.winner = g.winner
      /\ h.actions = [g.actions EXCEPT ![s] = @ - 1]
  BY DEF MoveEffect, Good, IsRecord, Fields
<1>4. h.cover[s] = ~entered /\ (h.cover[o] <=> g.cover[o] /\ ~recon)
  BY <1>1 DEF MoveEffect, Good, IsRecord, Fields
<1>5. /\ h.known[s] = IF recon THEN c ELSE g.known[s]
      /\ h.known[o] = IF entered THEN c ELSE None
  BY <1>1 DEF MoveEffect, Good, IsRecord, Fields
<1> HIDE DEF h, o, entered
<1>6. h.city[s] = c /\ h.city[o] = g.city[o]
  BY <1>1, <1>3 DEF Good, Typed
<1>7. KnowsExactly(h)
  <2>1. h.known[o] = IF h.cover[s] THEN None ELSE h.city[s]
    BY <1>4, <1>5, <1>6
  <2>2. h.known[s] = IF h.cover[o] THEN None ELSE h.city[o]
    <3>1. g.known[s] = IF g.cover[o] THEN None ELSE g.city[o]
      BY <1>1 DEF Secure, KnowsExactly
    <3>2. QED
      BY <3>1, <1>4, <1>5, <1>6
  <2>3. QED
    BY <2>1, <2>2, <1>1 DEF KnowsExactly
<1>8. HiddenWhileDeep(h)
  <2>1. ~Deep(h, s)
    BY <1>2, <1>3 DEF Deep
  <2>2. Deep(h, o) => h.cover[o] /\ h.turn # o /\ h.turnNumber = h.deepSince[o] + 1
    BY <1>1, <1>2, <1>3, <1>4 DEF Deep, Secure, HiddenWhileDeep
  <2>3. QED
    BY <2>1, <2>2, <1>1 DEF HiddenWhileDeep
<1>9. Decided(h)
  BY <1>3 DEF Secure, Decided
<1>10. QED
  BY <1>7, <1>8, <1>9 DEF Secure, h

\* An action by s that changes nothing of its opponent's, and leaves the opponent
\* with the right knowledge of s.
LEMMA ActorSecure ==
  ASSUME NEW g, Good(g), Secure(g), NEW s \in Side, CanAct(g, s), NEW h,
         Frame(g, h, Fields \ {"city", "deepSince", "turn", "turnNumber"}),
         h.cover[Opp(s)] = g.cover[Opp(s)],
         h.known[s] = g.known[s],
         h.known[Opp(s)] = IF h.cover[s] THEN None ELSE g.city[s],
         Decided(h)
  PROVE  Secure(h)
<1>1. Opp(s) \in Side /\ Opp(s) # s /\ Opp(Opp(s)) = s /\ Side = {s, Opp(s)}
  BY OppFacts
<1>2. ~Deep(g, s) /\ g.turn = s
  BY ActsUndercover
<1>3. /\ h.city = g.city /\ h.deepSince = g.deepSince
      /\ h.turn = g.turn /\ h.turnNumber = g.turnNumber
  BY DEF Frame, Fields
<1>4. KnowsExactly(h)
  <2>1. g.known[s] = IF g.cover[Opp(s)] THEN None ELSE g.city[Opp(s)]
    BY <1>1 DEF Secure, KnowsExactly
  <2>2. QED
    BY <1>1, <1>3, <2>1 DEF KnowsExactly
<1>5. HiddenWhileDeep(h)
  <2>1. ~Deep(h, s)
    BY <1>2, <1>3 DEF Deep
  <2>2. Deep(h, Opp(s)) => /\ h.cover[Opp(s)] /\ h.turn # Opp(s)
                           /\ h.turnNumber = h.deepSince[Opp(s)] + 1
    BY <1>1, <1>2, <1>3 DEF Deep, Secure, HiddenWhileDeep
  <2>3. QED
    BY <2>1, <2>2, <1>1 DEF HiddenWhileDeep
<1>6. QED
  BY <1>4, <1>5 DEF Secure

LEMMA KnownOf ==
  ASSUME NEW g, Secure(g), NEW s \in Side
  PROVE  g.known[Opp(s)] = IF g.cover[s] THEN None ELSE g.city[s]
BY DEF Secure, KnowsExactly

LEMMA StrikeSecure ==
  ASSUME NEW g, Good(g), Secure(g), NEW s \in Side, CanStrike(g, s)
  PROVE  Secure(StrikeEffect(g, s))
<1> DEFINE h == StrikeEffect(g, s)
           o == Opp(s)
           reported == ~Hit(g, s) /\ "STRIKE_REPORT" \in g.unlocked[o]
<1>1. o \in Side /\ o # s
  BY OppFacts
<1>2. CanAct(g, s) /\ g.winner = None /\ ~g.over
  BY ActsUndercover DEF CanStrike
<1>3. Frame(g, h, Fields \ {"city", "deepSince", "turn", "turnNumber"})
  BY StrikeGood DEF Frame, Fields
<1>4. h.cover[o] = g.cover[o] /\ h.known[s] = g.known[s]
  BY <1>1 DEF StrikeEffect, Good, IsRecord, Fields, Typed
<1>5. /\ h.cover[s] <=> g.cover[s] /\ ~reported
      /\ h.known[o] = IF reported THEN g.city[s] ELSE g.known[o]
  BY <1>1 DEF StrikeEffect, Good, IsRecord, Fields, Typed
<1>6. Decided(h)
  <2>1. (h.over <=> Hit(g, s)) /\ h.winner = IF Hit(g, s) THEN s ELSE g.winner
    BY DEF StrikeEffect, Good, IsRecord, Fields
  <2>2. QED
    BY <1>2, <2>1, RulesAssumption DEF Decided
<1> HIDE DEF h, reported
<1>7. h.known[o] = IF h.cover[s] THEN None ELSE g.city[s]
  BY <1>5, KnownOf
<1>8. QED
  BY <1>2, <1>3, <1>4, <1>6, <1>7, ActorSecure DEF h

LEMMA WaitSecure ==
  ASSUME NEW g, Good(g), Secure(g), NEW s \in Side, CanWait(g, s)
  PROVE  Secure(WaitEffect(g, s))
<1> DEFINE h == WaitEffect(g, s)
           o == Opp(s)
<1>1. o \in Side /\ o # s
  BY OppFacts
<1>2. CanAct(g, s)
  BY DEF CanWait
<1>3. Frame(g, h, Fields \ {"city", "deepSince", "turn", "turnNumber"})
  BY WaitGood DEF Frame, Fields
<1>4. h.cover[o] = g.cover[o] /\ h.known[s] = g.known[s]
  BY <1>1 DEF WaitEffect, Good, IsRecord, Fields, Typed
<1>5. h.cover[s] /\ h.known[o] = None
  BY <1>1 DEF WaitEffect, Good, IsRecord, Fields, Typed
<1>6. Decided(h)
  BY WaitGood DEF Frame, Fields, Decided, Secure
<1> HIDE DEF h
<1>7. QED
  BY <1>2, <1>3, <1>4, <1>5, <1>6, ActorSecure DEF h

LEMMA ControlSecure ==
  ASSUME NEW g, Good(g), Secure(g), NEW s \in Side, CanControl(g, s)
  PROVE  Secure(ControlEffect(g, s))
<1> DEFINE h == ControlEffect(g, s)
           o == Opp(s)
<1>1. o \in Side /\ o # s
  BY OppFacts
<1>2. CanAct(g, s)
  BY DEF CanControl
<1>3. Frame(g, h, Fields \ {"city", "deepSince", "turn", "turnNumber"})
  BY ControlGood DEF Frame, Fields
<1>4. h.cover[o] = g.cover[o] /\ h.known[s] = g.known[s]
  BY <1>1 DEF ControlEffect, Good, IsRecord, Fields, Typed
<1>5. ~h.cover[s] /\ h.known[o] = g.city[s]
  BY <1>1 DEF ControlEffect, Good, IsRecord, Fields, Typed
<1>6. Decided(h)
  BY ControlGood DEF Frame, Fields, Decided, Secure
<1> HIDE DEF h
<1>7. QED
  BY <1>2, <1>3, <1>4, <1>5, <1>6, ActorSecure DEF h

LEMMA PaySecure ==
  ASSUME NEW g, Good(g), Secure(g), NEW s \in Side, NEW a \in Ability, CanUse(g, s, a)
  PROVE  Secure(Pay(g, s, a))
<1> DEFINE h == Pay(g, s, a)
<1>1. CanAct(g, s)
  BY DEF CanUse
<1>2. /\ h.cover = g.cover /\ h.known = g.known /\ h.over = g.over
      /\ h.winner = g.winner
      /\ Frame(g, h, Fields \ {"city", "deepSince", "turn", "turnNumber"})
  BY PayGood DEF Frame, Fields
<1> HIDE DEF h
<1>3. Decided(h)
  BY <1>2 DEF Decided, Secure
<1>4. QED
  BY <1>1, <1>2, <1>3, KnownOf, ActorSecure DEF h

LEMMA DeepCoverSecure ==
  ASSUME NEW g, Good(g), Secure(g), NEW s \in Side, g.turn = s, g.actions[s] = 0
  PROVE  Secure(DeepCover(g, s))
<1> DEFINE h == DeepCover(g, s)
           o == Opp(s)
<1>1. o \in Side /\ o # s /\ Opp(s) = o /\ Opp(o) = s /\ Side = {s, o}
  BY OppFacts
<1>2. /\ h.city = g.city /\ h.turn = g.turn /\ h.turnNumber = g.turnNumber
      /\ h.actions = g.actions /\ h.over = g.over /\ h.winner = g.winner
  BY DeepCoverGood DEF Frame, Fields
<1>3. /\ h.deepSince = [g.deepSince EXCEPT ![s] = g.turnNumber]
      /\ h.cover = [g.cover EXCEPT ![s] = TRUE]
      /\ h.known = [g.known EXCEPT ![o] = None]
  BY DEF DeepCover, Good, IsRecord, Fields
<1> HIDE DEF h, o
<1>4. /\ h.cover[s] /\ h.cover[o] = g.cover[o] /\ h.known[o] = None
      /\ h.known[s] = g.known[s]
      /\ h.deepSince[s] = g.turnNumber /\ h.deepSince[o] = g.deepSince[o]
  BY <1>1, <1>3 DEF Good, Typed
<1>5. KnowsExactly(h)
  BY <1>1, <1>2, <1>4 DEF KnowsExactly, Secure
<1>6. HiddenWhileDeep(h)
  <2>1. h.cover[s] /\ h.turn = s /\ h.deepSince[s] = h.turnNumber /\ h.actions[s] = 0
    BY <1>2, <1>4
  <2>2. Deep(h, o) => h.cover[o] /\ h.turn # o /\ h.turnNumber = h.deepSince[o] + 1
    BY <1>1, <1>2, <1>4 DEF Deep, Secure, HiddenWhileDeep
  <2>3. QED
    BY <2>1, <2>2, <1>1 DEF HiddenWhileDeep
<1>7. QED
  BY <1>2, <1>5, <1>6 DEF Secure, Decided, h

LEMMA LocateSecure ==
  ASSUME NEW g, Good(g), Secure(g), NEW s \in Side
  PROVE  Secure(Locate(g, s))
<1> DEFINE h == Locate(g, s)
           o == Opp(s)
<1>1. o \in Side /\ o # s /\ Opp(s) = o /\ Opp(o) = s /\ Side = {s, o}
  BY OppFacts
<1>2. /\ h.city = g.city /\ h.turn = g.turn /\ h.turnNumber = g.turnNumber
      /\ h.actions = g.actions /\ h.over = g.over /\ h.winner = g.winner
      /\ h.deepSince = g.deepSince
  BY LocateGood DEF Frame, Fields
<1>3. CASE Deep(g, o)
  <2>1. h.cover = g.cover /\ h.known = [g.known EXCEPT ![s] = None]
    BY <1>3 DEF Locate, Good, IsRecord, Fields
  <2> HIDE DEF h, o
  <2>2. h.known[s] = None /\ h.known[o] = g.known[o]
    BY <1>1, <2>1 DEF Good, Typed
  <2>3. h.cover[o]
    BY <1>1, <1>3, <2>1 DEF Secure, HiddenWhileDeep
  <2>4. QED
    BY <1>1, <1>2, <2>1, <2>2, <2>3
    DEF Secure, KnowsExactly, HiddenWhileDeep, Decided, Deep, h
<1>4. CASE ~Deep(g, o)
  <2>1. /\ h.cover = [g.cover EXCEPT ![o] = FALSE]
        /\ h.known = [g.known EXCEPT ![s] = g.city[o]]
    BY <1>4 DEF Locate, Good, IsRecord, Fields
  <2> HIDE DEF h, o
  <2>2. /\ h.known[s] = g.city[o] /\ h.known[o] = g.known[o]
        /\ ~h.cover[o] /\ h.cover[s] = g.cover[s]
    BY <1>1, <2>1 DEF Good, Typed
  <2>3. KnowsExactly(h)
    BY <1>1, <1>2, <2>2 DEF Secure, KnowsExactly
  <2>4. HiddenWhileDeep(h)
    BY <1>1, <1>2, <1>4, <2>2 DEF Secure, HiddenWhileDeep, Deep
  <2>5. QED
    BY <1>2, <2>3, <2>4 DEF Secure, Decided, h
<1>5. QED
  BY <1>3, <1>4

LEMMA UseSecure ==
  ASSUME NEW g, Good(g), Secure(g), NEW s \in Side, NEW a \in Ability, CanUse(g, s, a)
  PROVE  Secure(UseEffect(g, s, a))
<1> DEFINE paid == Pay(g, s, a)
<1>1. Good(paid) /\ Secure(paid)
  BY PayGood, PaySecure
<1>2. a = "DEEP_COVER" => paid.turn = s /\ paid.actions[s] = 0
  BY DEF CanUse, CanAct, MyTurn, Pay, Good, IsRecord, Fields, Typed
<1> HIDE DEF paid
<1>3. ASSUME NEW h, NEW F, Frame(paid, h, F), F \cap Secret = {}
      PROVE  Secure(h)
  BY <1>1, <1>3, FrameSecure
<1>4. Secure(StrikeReport(paid, s)) /\ Secure(Encryption(paid, s))
  BY <1>1, <1>3, StrikeReportGood, EncryptionGood DEF Secret
<1>5. Secure(RapidRecon(paid, s)) /\ Secure(PrepMission(paid, s))
  BY <1>1, <1>3, RapidReconGood, PrepMissionGood DEF Secret
<1>6. Secure(Locate(paid, s)) /\ (a = "DEEP_COVER" => Secure(DeepCover(paid, s)))
  BY <1>1, <1>2, LocateSecure, DeepCoverSecure
<1>7. QED
  BY <1>4, <1>5, <1>6 DEF UseEffect, Ability, paid

LEMMA ConcedeSecure ==
  ASSUME NEW g, Good(g), Secure(g), NEW s \in Side
  PROVE  Secure(Concede(g, s))
<1> DEFINE h == Concede(g, s)
<1>1. CASE g.over
  BY <1>1 DEF Concede
<1>2. CASE ~g.over
  <2>1. h.over /\ h.winner = Opp(s)
    BY <1>2 DEF Concede, Good, IsRecord, Fields
  <2>2. Decided(h)
    BY <2>1, OppFacts DEF Decided
  <2>3. /\ h.city = g.city /\ h.cover = g.cover /\ h.known = g.known
        /\ h.deepSince = g.deepSince /\ h.turn = g.turn /\ h.turnNumber = g.turnNumber
        /\ h.actions = g.actions
    BY ConcedeGood DEF Frame, Fields
  <2> HIDE DEF h
  <2>4. QED
    BY <2>2, <2>3 DEF Secure, KnowsExactly, HiddenWhileDeep, Deep, h
<1>3. QED
  BY <1>1, <1>2

\* Secure while end_turn works on the turn of n that starts: a Deep Cover of n
\* has lasted its two turns, and is about to expire.
Turning(g, n) ==
  /\ KnowsExactly(g)
  /\ Decided(g)
  /\ g.turn = n
  /\ Deep(g, Opp(n)) => g.cover[Opp(n)] /\ g.turnNumber = g.deepSince[Opp(n)] + 1
  /\ Deep(g, n) => g.turnNumber = g.deepSince[n] + 2

LEMMA PassTurnTurning ==
  ASSUME NEW g, Good(g), Secure(g), NEW s \in Side, g.turn = s
  PROVE  Turning(PassTurn(g, Opp(s)), Opp(s))
<1> DEFINE o == Opp(s)
           h == PassTurn(g, o)
<1>1. o \in Side /\ o # s /\ Opp(s) = o /\ Opp(o) = s /\ Side = {s, o}
  BY OppFacts
<1>2. /\ h.city = g.city /\ h.cover = g.cover /\ h.known = g.known
      /\ h.deepSince = g.deepSince /\ h.over = g.over /\ h.winner = g.winner
  BY <1>1, PassTurnGood DEF Frame, Fields
<1>3. h.turn = o /\ h.turnNumber = g.turnNumber + 1
  BY DEF PassTurn, Good, IsRecord, Fields
<1> HIDE DEF h, o
<1>4. KnowsExactly(h) /\ Decided(h)
  BY <1>2 DEF Secure, KnowsExactly, Decided
<1>5. Deep(h, s) => h.cover[s] /\ h.turnNumber = h.deepSince[s] + 1
  BY <1>1, <1>2, <1>3 DEF Secure, HiddenWhileDeep, Deep
<1>6. Deep(h, o) => h.turnNumber = h.deepSince[o] + 2
  <2>1. g.deepSince[o] \in Int /\ g.turnNumber \in Nat
    BY <1>1 DEF Good, Typed, NotDeep
  <2>2. Deep(g, o) => g.turnNumber = g.deepSince[o] + 1
    BY <1>1 DEF Secure, HiddenWhileDeep
  <2>3. QED
    BY <2>1, <2>2, <1>2, <1>3 DEF Deep
<1>7. Turning(h, o)
  BY <1>1, <1>3, <1>4, <1>5, <1>6 DEF Turning
<1>8. QED
  BY <1>7 DEF h, o

\* Exposing n to its opponent, and nothing else Turning is about.
LEMMA ExposeTurning ==
  ASSUME NEW g, Good(g), NEW n \in Side, Turning(g, n), NEW h,
         Frame(g, h, Fields \ {"city", "deepSince", "turn", "turnNumber", "over", "winner"}),
         h.cover = [g.cover EXCEPT ![n] = FALSE],
         h.known = [g.known EXCEPT ![Opp(n)] = g.city[n]]
  PROVE  Turning(h, n)
<1> DEFINE o == Opp(n)
<1>1. o \in Side /\ o # n /\ Opp(n) = o /\ Opp(o) = n /\ Side = {n, o}
  BY OppFacts
<1>2. /\ h.city = g.city /\ h.deepSince = g.deepSince /\ h.turn = g.turn
      /\ h.turnNumber = g.turnNumber /\ h.over = g.over /\ h.winner = g.winner
  BY DEF Frame, Fields
<1> HIDE DEF o
<1>3. /\ ~h.cover[n] /\ h.cover[o] = g.cover[o]
      /\ h.known[o] = g.city[n] /\ h.known[n] = g.known[n]
  BY <1>1 DEF Good, Typed
<1>4. KnowsExactly(h)
  BY <1>1, <1>2, <1>3 DEF Turning, KnowsExactly
<1>5. QED
  BY <1>1, <1>2, <1>3, <1>4 DEF Turning, Decided, Deep

LEMMA ApplyTurning ==
  ASSUME NEW g, Good(g), NEW n \in Side, Turning(g, n)
  PROVE  Turning(ApplyClaimedIntel(g, n), n) /\ Turning(ApplyClaimedAction(g, n), n)
<1>1. Turning(ApplyClaimedIntel(g, n), n)
  <2> DEFINE h == ApplyClaimedIntel(g, n)
  <2>1. CASE ~g.claimIntel[n]
    BY <2>1 DEF ApplyClaimedIntel
  <2>2. CASE g.claimIntel[n]
    <3>1. /\ h.cover = [g.cover EXCEPT ![n] = FALSE]
          /\ h.known = [g.known EXCEPT ![Opp(n)] = g.city[n]]
      BY <2>2 DEF ApplyClaimedIntel, Good, IsRecord, Fields
    <3>2. Frame(g, h, Fields \ {"city", "deepSince", "turn", "turnNumber", "over", "winner"})
      BY ApplyClaimedIntelGood DEF Frame, Fields
    <3>3. QED
      BY <3>1, <3>2, ExposeTurning
  <2>3. QED
    BY <2>1, <2>2
<1>2. Turning(ApplyClaimedAction(g, n), n)
  <2> DEFINE h == ApplyClaimedAction(g, n)
  <2>1. CASE ~g.claimAction[n]
    BY <2>1 DEF ApplyClaimedAction
  <2>2. CASE g.claimAction[n]
    <3>1. /\ h.cover = [g.cover EXCEPT ![n] = FALSE]
          /\ h.known = [g.known EXCEPT ![Opp(n)] = g.city[n]]
      BY <2>2 DEF ApplyClaimedAction, Good, IsRecord, Fields
    <3>2. Frame(g, h, Fields \ {"city", "deepSince", "turn", "turnNumber", "over", "winner"})
      BY ApplyClaimedActionGood DEF Frame, Fields
    <3>3. QED
      BY <3>1, <3>2, ExposeTurning
  <2>3. QED
    BY <2>1, <2>2
<1>3. QED
  BY <1>1, <1>2

LEMMA ExpireTurning ==
  ASSUME NEW g, Good(g), NEW n \in Side, Turning(g, n)
  PROVE  LET h == ExpireDeepCover(DropGonePopups(g), n)
         IN  Turning(h, n) /\ ~Deep(h, n)
<1> DEFINE d == DropGonePopups(g)
           h == ExpireDeepCover(d, n)
<1>1. Opp(n) \in Side /\ Opp(n) # n
  BY OppFacts
<1>2. Good(d) /\ Turning(d, n)
  <2>1. /\ d.city = g.city /\ d.cover = g.cover /\ d.known = g.known
        /\ d.deepSince = g.deepSince /\ d.turn = g.turn /\ d.turnNumber = g.turnNumber
        /\ d.over = g.over /\ d.winner = g.winner
    BY DropGonePopupsGood DEF Frame, Fields
  <2> HIDE DEF d
  <2>2. Turning(d, n)
    BY <2>1 DEF Turning, KnowsExactly, Decided, Deep
  <2>3. QED
    BY <2>2, DropGonePopupsGood DEF d
<1> HIDE DEF d
<1>3. CASE ~Deep(d, n)
  BY <1>2, <1>3 DEF ExpireDeepCover, d
<1>4. CASE Deep(d, n)
  <2>1. d.turnNumber - d.deepSince[n] >= 2
    BY <1>2, <1>4 DEF Turning, Good, Typed, NotDeep
  <2>2. h.deepSince = [d.deepSince EXCEPT ![n] = NotDeep]
    BY <1>2, <1>4, <2>1 DEF ExpireDeepCover, Good, IsRecord, Fields
  <2>3. /\ h.city = d.city /\ h.cover = d.cover /\ h.known = d.known
        /\ h.turn = d.turn /\ h.turnNumber = d.turnNumber
        /\ h.over = d.over /\ h.winner = d.winner
    BY <1>2, ExpireDeepCoverGood DEF Frame, Fields
  <2> HIDE DEF h
  <2>4. h.deepSince[n] = NotDeep /\ h.deepSince[Opp(n)] = d.deepSince[Opp(n)]
    BY <1>1, <1>2, <2>2 DEF Good, Typed
  <2>5. ~Deep(h, n)
    BY <2>4 DEF Deep, NotDeep
  <2>6. Turning(h, n)
    BY <1>2, <2>3, <2>4, <2>5 DEF Turning, KnowsExactly, Decided, Deep
  <2>7. QED
    BY <2>5, <2>6 DEF h, d
<1>5. QED
  BY <1>3, <1>4

LEMMA MeetTurning ==
  ASSUME NEW g, Good(g), NEW n \in Side, Turning(g, n), ~Deep(g, n)
  PROVE  Secure(MeetOpponent(g, n))
<1> DEFINE h == MeetOpponent(g, n)
<1>1. Opp(n) \in Side /\ Opp(n) # n /\ Side = {n, Opp(n)}
  BY OppFacts
<1>2. Turning(h, n)
  <2>1. CASE g.city[n] # g.city[Opp(n)]
    BY <2>1 DEF MeetOpponent
  <2>2. CASE g.city[n] = g.city[Opp(n)]
    <3>1. /\ h.cover = [g.cover EXCEPT ![n] = FALSE]
          /\ h.known = [g.known EXCEPT ![Opp(n)] = g.city[n]]
      BY <2>2 DEF MeetOpponent, Good, IsRecord, Fields
    <3>2. Frame(g, h, Fields \ {"city", "deepSince", "turn", "turnNumber", "over", "winner"})
      BY MeetOpponentGood DEF Frame, Fields
    <3>3. QED
      BY <3>1, <3>2, ExposeTurning
  <2>3. QED
    BY <2>1, <2>2
<1>3. ~Deep(h, n)
  BY MeetOpponentGood DEF Frame, Fields, Deep
<1> HIDE DEF h
<1>4. HiddenWhileDeep(h)
  BY <1>1, <1>2, <1>3 DEF HiddenWhileDeep, Turning
<1>5. QED
  BY <1>2, <1>4 DEF Secure, Turning, h

LEMMA EndTurnSecure ==
  ASSUME NEW g, Good(g), Secure(g), NEW s \in Side, NEW skip \in BOOLEAN, MyTurn(g, s)
  PROVE  Secure(EndTurnEffect(g, s, skip))
<1> DEFINE n == Opp(s)
           claimed == Claim(g, s)
           earned  == Income(claimed, s, skip)
           begun   == PassTurn(earned, n)
           richer  == ApplyClaimedIntel(begun, n)
           paid    == ApplyClaimedAction(richer, n)
           settled == ExpireDeepCover(DropGonePopups(paid), n)
<1>1. n \in Side
  BY OppFacts
<1>2. Good(claimed) /\ Secure(claimed) /\ claimed.turn = s
  <2>1. Frame(g, claimed, {"claimIntel", "intelAt", "claimAction", "actionAt"})
    BY ClaimGood
  <2>2. claimed.turn = s
    BY <2>1 DEF Frame, Fields, MyTurn
  <2>3. QED
    BY <2>1, <2>2, ClaimGood, FrameSecure DEF Secret
<1>3. Good(earned) /\ Secure(earned) /\ earned.turn = s
  <2> HIDE DEF claimed
  <2>1. Frame(claimed, earned, {"intel", "newCity"})
    BY <1>2, IncomeGood
  <2>2. earned.turn = s
    BY <1>2, <2>1 DEF Frame, Fields
  <2>3. QED
    BY <1>2, <2>1, <2>2, IncomeGood, FrameSecure DEF Secret
<1>4. Good(begun) /\ Turning(begun, n)
  <2> HIDE DEF earned
  <2>1. QED
    BY <1>1, <1>3, PassTurnGood, PassTurnTurning
<1>5. Good(richer) /\ Turning(richer, n)
  <2> HIDE DEF begun
  <2>1. QED
    BY <1>1, <1>4, ApplyClaimedIntelGood, ApplyTurning
<1>6. Good(paid) /\ Turning(paid, n)
  <2> HIDE DEF richer
  <2>1. QED
    BY <1>1, <1>5, ApplyClaimedActionGood, ApplyTurning
<1>7. Good(settled) /\ Turning(settled, n) /\ ~Deep(settled, n)
  <2> HIDE DEF paid
  <2>1. QED
    BY <1>1, <1>6, DropGonePopupsGood, ExpireDeepCoverGood, ExpireTurning
<1>8. Secure(ClearFlags(MeetOpponent(settled, n), s))
  <2> HIDE DEF settled
  <2>1. Good(MeetOpponent(settled, n)) /\ Secure(MeetOpponent(settled, n))
    BY <1>1, <1>7, MeetOpponentGood, MeetTurning
  <2>2. QED
    BY <2>1, ClearFlagsGood, FrameSecure DEF Secret
<1>9. QED
  BY <1>8 DEF EndTurnEffect

-----------------------------------------------------------------------------
(* The invariants of a whole game.                                         *)

LEMMA NewGameSecure ==
  ASSUME NEW g \in NewGames
  PROVE  Secure(g)
<1>1. PICK start \in [Side -> City], first \in Side, gapI \in IntelGaps, gapA \in ActionGaps :
        g = NewGame(start, first, gapI, gapA)
  BY DEF NewGames
<1>2. /\ g.city = start
      /\ g.cover = [s \in Side |-> FALSE]
      /\ g.known = [s \in Side |-> start[Opp(s)]]
      /\ g.deepSince = [s \in Side |-> NotDeep]
      /\ g.over = FALSE
      /\ g.winner = None
  BY <1>1 DEF NewGame
<1>3. KnowsExactly(g)
  BY <1>2, OppFacts DEF KnowsExactly
<1>4. HiddenWhileDeep(g)
  BY <1>2 DEF HiddenWhileDeep, Deep, NotDeep
<1>5. Decided(g)
  BY <1>2, RulesAssumption DEF Decided
<1>6. QED
  BY <1>3, <1>4, <1>5 DEF Secure

LEMMA ClearNoticesSecure ==
  ASSUME NEW g, Good(g), Secure(g), NEW s \in Side
  PROVE  Good(ClearNotices(g, s)) /\ Secure(ClearNotices(g, s))
BY ClearNoticesGood, FrameSecure DEF Secret

LEMMA AttemptSecure ==
  ASSUME NEW g, Secure(g), NEW ok, NEW effect,
         ok => Good(effect) /\ Secure(effect), Attempt(g, ok, effect)
  PROVE  Secure(game')
<1>1. CASE ~ok
  BY <1>1 DEF Attempt
<1>2. CASE ok
  <2>1. Good(effect) /\ Secure(effect) /\ game' \in CountAction(effect)
    BY <1>2 DEF Attempt
  <2>2. Frame(effect, game', Counted)
    BY <2>1, CountActionGood
  <2>3. Counted \cap Secret = {}
    BY DEF Counted, Secret
  <2>4. QED
    BY <2>1, <2>2, <2>3, FrameSecure
<1>3. QED
  BY <1>1, <1>2

LEMMA StepSecure ==
  ASSUME Good(game), Secure(game), [Next]_game
  PROVE  Secure(game')
<1>1. CASE UNCHANGED game
  BY <1>1
<1>2. ASSUME NEW s \in Side, NEW c \in City, Move(s, c)
      PROVE  Secure(game')
  BY <1>2, ClearNoticesSecure, MoveGood, MoveSecure, AttemptSecure DEF Move
<1>3. ASSUME NEW s \in Side, Strike(s)
      PROVE  Secure(game')
  BY <1>3, ClearNoticesSecure, StrikeGood, StrikeSecure, AttemptSecure DEF Strike
<1>4. ASSUME NEW s \in Side, Wait(s)
      PROVE  Secure(game')
  BY <1>4, ClearNoticesSecure, WaitGood, WaitSecure, AttemptSecure DEF Wait
<1>5. ASSUME NEW s \in Side, Control(s)
      PROVE  Secure(game')
  BY <1>5, ClearNoticesSecure, ControlGood, ControlSecure, AttemptSecure DEF Control
<1>6. ASSUME NEW s \in Side, NEW a \in Ability, UseAbility(s, a)
      PROVE  Secure(game')
  BY <1>6, ClearNoticesSecure, UseGood, UseSecure, AttemptSecure DEF UseAbility
<1>7. ASSUME NEW s \in Side, NEW skip \in BOOLEAN, EndTurn(s, skip)
      PROVE  Secure(game')
  BY <1>7, EndTurnSecure DEF EndTurn
<1>8. ASSUME NEW s \in Side, Abort(s)
      PROVE  Secure(game')
  BY <1>8, ConcedeSecure DEF Abort
<1>9. QED
  BY <1>1, <1>2, <1>3, <1>4, <1>5, <1>6, <1>7, <1>8 DEF Next

THEOREM SecureAlways == Spec => [](Good(game) /\ Secure(game))
<1>1. Init => Good(game) /\ Secure(game)
  BY NewGameGood, NewGameSecure DEF Init
<1>2. Good(game) /\ Secure(game) /\ [Next]_game => (Good(game) /\ Secure(game))'
  BY StepGood, StepSecure
<1>3. QED
  BY <1>1, <1>2, PTL DEF Spec

\* A spy without cover is known to its opponent, at the city where it is now, and
\* a spy with cover is not known at all, whatever the two have done.
THEOREM ExposureAlwaysExact == Spec => []ExposureExact
<1>1. Good(game) /\ Secure(game) => ExposureExact
  BY DEF Secure, ExposureExact
<1>2. QED
  BY <1>1, SecureAlways, PTL

\* Deep Cover keeps its owner under cover until the end of the opponent's turn,
\* and never lasts into a turn in which the owner can act.
THEOREM DeepCoverAlwaysHolds == Spec => []DeepCoverHolds
<1>1. Good(game) /\ Secure(game) => DeepCoverHolds
  BY DEF Secure, DeepCoverHolds
<1>2. QED
  BY <1>1, SecureAlways, PTL

\* No game ends without a winner and none has a winner before it ends.
THEOREM WinnerAlwaysDecided == Spec => []WinnerDecided
<1>1. Good(game) /\ Secure(game) => WinnerDecided
  BY DEF Secure, Decided, WinnerDecided
<1>2. QED
  BY <1>1, SecureAlways, PTL

-----------------------------------------------------------------------------
(* GameState implements TurnGame; who can change what, and when.  An       *)
(* accepted action is looked at as a whole: ActsFor says what the effect   *)
(* of a command of side s may do to the fields these properties are about. *)

\* In h, side s has spent one action of g, perhaps won, and has left alone what
\* belongs to its opponent.
ActsFor(g, h, s) ==
  /\ h.turn = g.turn
  /\ h.turnNumber = g.turnNumber
  /\ h.actions = [g.actions EXCEPT ![s] = @ - 1]
  /\ h.winner \in {g.winner, s}
  /\ h.claimIntel = g.claimIntel
  /\ h.claimAction = g.claimAction
  /\ \A o \in Side \ {s} :
       /\ h.city[o] = g.city[o]
       /\ h.intel[o] = g.intel[o]
       /\ h.unlocked[o] = g.unlocked[o]
       /\ h.deepSince[o] = g.deepSince[o]
       /\ h.prep[o] = g.prep[o]

LEMMA MoveActs ==
  ASSUME NEW g, Good(g), NEW s \in Side, NEW c \in City, CanMove(g, s, c)
  PROVE  ActsFor(g, MoveEffect(g, s, c), s)
<1> DEFINE h == MoveEffect(g, s, c)
<1>1. Frame(g, h, {"city", "actions", "moved", "visited", "newCity", "cover", "known"})
  BY MoveGood
<1>2. h.actions = [g.actions EXCEPT ![s] = @ - 1] /\ h.city = [g.city EXCEPT ![s] = c]
  BY DEF MoveEffect, Good, IsRecord, Fields
<1> HIDE DEF h
<1>3. QED
  BY <1>1, <1>2 DEF ActsFor, Frame, Fields, Good, Typed, h

LEMMA StrikeActs ==
  ASSUME NEW g, Good(g), NEW s \in Side, CanStrike(g, s)
  PROVE  ActsFor(g, StrikeEffect(g, s), s)
<1> DEFINE h == StrikeEffect(g, s)
<1>1. Frame(g, h, {"actions", "over", "winner", "flags", "cover", "known"})
  BY StrikeGood
<1>2. /\ h.actions = [g.actions EXCEPT ![s] = @ - 1]
      /\ h.winner = IF Hit(g, s) THEN s ELSE g.winner
  BY DEF StrikeEffect, Good, IsRecord, Fields
<1> HIDE DEF h
<1>3. QED
  BY <1>1, <1>2 DEF ActsFor, Frame, Fields, h

LEMMA WaitActs ==
  ASSUME NEW g, Good(g), NEW s \in Side, CanWait(g, s)
  PROVE  ActsFor(g, WaitEffect(g, s), s)
<1> DEFINE h == WaitEffect(g, s)
<1>1. Frame(g, h, {"actions", "cover", "known"})
  BY WaitGood
<1>2. h.actions = [g.actions EXCEPT ![s] = @ - 1]
  BY DEF WaitEffect, Good, IsRecord, Fields
<1> HIDE DEF h
<1>3. QED
  BY <1>1, <1>2 DEF ActsFor, Frame, Fields, h

LEMMA ControlActs ==
  ASSUME NEW g, Good(g), NEW s \in Side, CanControl(g, s)
  PROVE  ActsFor(g, ControlEffect(g, s), s)
<1> DEFINE h == ControlEffect(g, s)
<1>1. Frame(g, h, {"actions", "cover", "known", "flags", "controller"})
  BY ControlGood
<1>2. h.actions = [g.actions EXCEPT ![s] = @ - 1]
  BY DEF ControlEffect, Good, IsRecord, Fields
<1> HIDE DEF h
<1>3. QED
  BY <1>1, <1>2 DEF ActsFor, Frame, Fields, h

LEMMA PayActs ==
  ASSUME NEW g, Good(g), NEW s \in Side, NEW a \in Ability, CanUse(g, s, a)
  PROVE  ActsFor(g, Pay(g, s, a), s)
<1> DEFINE h == Pay(g, s, a)
<1>1. Frame(g, h, {"intel", "actions"})
  BY PayGood
<1>2. /\ h.actions = [g.actions EXCEPT ![s] = @ - 1]
      /\ h.intel = [g.intel EXCEPT ![s] = @ - Cost[a]]
  BY DEF Pay, Good, IsRecord, Fields
<1> HIDE DEF h
<1>3. QED
  BY <1>1, <1>2 DEF ActsFor, Frame, Fields, Good, Typed, h

\* What an ability does after it has been paid for.
LEMMA PaidActs ==
  ASSUME NEW g, NEW s \in Side, NEW p, ActsFor(g, p, s), NEW h,
         Frame(p, h, {"deepSince", "cover", "known", "flags", "unlocked", "revealed", "prep"}),
         \A o \in Side \ {s} : /\ h.unlocked[o] = p.unlocked[o]
                               /\ h.deepSince[o] = p.deepSince[o]
                               /\ h.prep[o] = p.prep[o]
  PROVE  ActsFor(g, h, s)
BY DEF ActsFor, Frame, Fields

LEMMA UseActs ==
  ASSUME NEW g, Good(g), NEW s \in Side, NEW a \in Ability, CanUse(g, s, a)
  PROVE  ActsFor(g, UseEffect(g, s, a), s)
<1> DEFINE p == Pay(g, s, a)
           F == {"deepSince", "cover", "known", "flags", "unlocked", "revealed", "prep"}
<1>1. Good(p) /\ ActsFor(g, p, s)
  BY PayGood, PayActs
<1> HIDE DEF p
<1>2. ActsFor(g, DeepCover(p, s), s)
  <2>1. Frame(p, DeepCover(p, s), {"deepSince", "cover", "known", "flags"})
    BY <1>1, DeepCoverGood
  <2>2. DeepCover(p, s).deepSince = [p.deepSince EXCEPT ![s] = p.turnNumber]
    BY <1>1 DEF DeepCover, Good, IsRecord, Fields
  <2> DEFINE h == DeepCover(p, s)
  <2> HIDE DEF h
  <2>3. QED
    BY <1>1, <2>1, <2>2, PaidActs DEF Frame, Fields, Good, Typed, h
<1>3. ActsFor(g, Locate(p, s), s)
  <2>1. Frame(p, Locate(p, s), {"known", "cover", "flags"})
    BY <1>1, LocateGood
  <2>2. QED
    BY <1>1, <2>1, PaidActs DEF Frame, Fields
<1>4. ActsFor(g, StrikeReport(p, s), s)
  <2>1. Frame(p, StrikeReport(p, s), {"unlocked", "revealed", "flags"})
    BY <1>1, StrikeReportGood
  <2>2. StrikeReport(p, s).unlocked = [p.unlocked EXCEPT ![s] = @ \cup {"STRIKE_REPORT"}]
    BY <1>1 DEF StrikeReport, Good, IsRecord, Fields
  <2>3. QED
    BY <1>1, <2>1, <2>2, PaidActs DEF Frame, Fields, Good, Typed
<1>5. ActsFor(g, Encryption(p, s), s)
  <2>1. Frame(p, Encryption(p, s), {"unlocked", "flags"})
    BY <1>1, EncryptionGood
  <2>2. Encryption(p, s).unlocked = [p.unlocked EXCEPT ![s] = @ \cup {"ENCRYPTION"}]
    BY <1>1 DEF Encryption, Good, IsRecord, Fields
  <2>3. QED
    BY <1>1, <2>1, <2>2, PaidActs DEF Frame, Fields, Good, Typed
<1>6. ActsFor(g, RapidRecon(p, s), s)
  <2>1. Frame(p, RapidRecon(p, s), {"unlocked", "revealed"})
    BY <1>1, RapidReconGood
  <2>2. RapidRecon(p, s).unlocked = [p.unlocked EXCEPT ![s] = @ \cup {"RAPID_RECON"}]
    BY <1>1 DEF RapidRecon, Good, IsRecord, Fields
  <2> DEFINE h == RapidRecon(p, s)
  <2> HIDE DEF h
  <2>3. \A o \in Side \ {s} : h.unlocked[o] = p.unlocked[o]
    BY <1>1, <2>2 DEF Good, Typed, h
  <2>4. QED
    BY <1>1, <2>1, <2>3, PaidActs DEF Frame, Fields, h
<1>7. ActsFor(g, PrepMission(p, s), s)
  <2>1. Frame(p, PrepMission(p, s), {"prep", "flags"})
    BY <1>1, PrepMissionGood
  <2>2. PrepMission(p, s).prep = [p.prep EXCEPT ![s] = TRUE]
    BY <1>1 DEF PrepMission, Good, IsRecord, Fields
  <2>3. QED
    BY <1>1, <2>1, <2>2, PaidActs DEF Frame, Fields, Good, Typed
<1>8. QED
  BY <1>2, <1>3, <1>4, <1>5, <1>6, <1>7 DEF UseEffect, Ability, p

\* A command was refused, and only notices have changed, or it was accepted.
LEMMA AttemptActs ==
  ASSUME NEW g, Good(g), NEW s \in Side, NEW ok, NEW effect,
         ok => CanAct(g, s) /\ Good(effect) /\ ActsFor(g, effect, s),
         Attempt(g, ok, effect)
  PROVE  \/ game' = g
         \/ CanAct(g, s) /\ ActsFor(g, game', s)
<1>1. CASE ~ok
  BY <1>1 DEF Attempt
<1>2. CASE ok
  <2>1. Frame(effect, game', Counted)
    BY <1>2, CountActionGood DEF Attempt
  <2>2. QED
    BY <1>2, <2>1 DEF ActsFor, Frame, Fields, Counted
<1>3. QED
  BY <1>1, <1>2

\* The commands that cost an action.
Command(s) ==
  \/ \E c \in City : Move(s, c)
  \/ Strike(s)
  \/ Wait(s)
  \/ Control(s)
  \/ \E a \in Ability : UseAbility(s, a)

LEMMA CommandActs ==
  ASSUME Good(game), NEW s \in Side, Command(s)
  PROVE  \/ game' = ClearNotices(game, s)
         \/ CanAct(game, s) /\ ActsFor(game, game', s)
<1> DEFINE g == ClearNotices(game, s)
<1>1. Good(g) /\ Frame(game, g, {"flags"})
  BY ClearNoticesGood
<1> HIDE DEF g
<1>2. game' = g \/ (CanAct(g, s) /\ ActsFor(g, game', s))
  <2>1. ASSUME NEW c \in City, Move(s, c)
        PROVE  game' = g \/ (CanAct(g, s) /\ ActsFor(g, game', s))
    <3>1. CanMove(g, s, c) => CanAct(g, s)
      BY DEF CanMove
    <3>2. QED
      BY <1>1, <2>1, <3>1, MoveGood, MoveActs, AttemptActs DEF Move, g
  <2>2. ASSUME Strike(s)
        PROVE  game' = g \/ (CanAct(g, s) /\ ActsFor(g, game', s))
    <3>1. CanStrike(g, s) => CanAct(g, s)
      BY DEF CanStrike
    <3>2. QED
      BY <1>1, <2>2, <3>1, StrikeGood, StrikeActs, AttemptActs DEF Strike, g
  <2>3. ASSUME Wait(s)
        PROVE  game' = g \/ (CanAct(g, s) /\ ActsFor(g, game', s))
    <3>1. CanWait(g, s) => CanAct(g, s)
      BY DEF CanWait
    <3>2. QED
      BY <1>1, <2>3, <3>1, WaitGood, WaitActs, AttemptActs DEF Wait, g
  <2>4. ASSUME Control(s)
        PROVE  game' = g \/ (CanAct(g, s) /\ ActsFor(g, game', s))
    <3>1. CanControl(g, s) => CanAct(g, s)
      BY DEF CanControl
    <3>2. QED
      BY <1>1, <2>4, <3>1, ControlGood, ControlActs, AttemptActs DEF Control, g
  <2>5. ASSUME NEW a \in Ability, UseAbility(s, a)
        PROVE  game' = g \/ (CanAct(g, s) /\ ActsFor(g, game', s))
    <3>1. CanUse(g, s, a) => CanAct(g, s)
      BY DEF CanUse
    <3>2. QED
      BY <1>1, <2>5, <3>1, UseGood, UseActs, AttemptActs DEF UseAbility, g
  <2>6. QED
    BY <2>1, <2>2, <2>3, <2>4, <2>5 DEF Command
<1>3. CASE game' = g
  BY <1>3 DEF g
<1>4. CASE CanAct(g, s) /\ ActsFor(g, game', s)
  <2>1. CanAct(game, s)
    BY <1>1, <1>4 DEF CanAct, MyTurn, Frame, Fields
  <2>2. ActsFor(game, game', s)
    BY <1>1, <1>4 DEF ActsFor, Frame, Fields
  <2>3. QED
    BY <2>1, <2>2
<1>5. QED
  BY <1>2, <1>3, <1>4

\* end_turn: the other side starts a turn of two to four actions.
LEMMA EndTurnPasses ==
  ASSUME NEW g, Good(g), NEW s \in Side, NEW skip \in BOOLEAN
  PROVE  LET h == EndTurnEffect(g, s, skip)
         IN  /\ h.turn = Opp(s)
             /\ h.turnNumber = g.turnNumber + 1
             /\ h.actions[Opp(s)] \in 2..4
             /\ h.over = g.over /\ h.winner = g.winner
<1> DEFINE n == Opp(s)
           earned  == Income(Claim(g, s), s, skip)
           begun   == PassTurn(earned, n)
           richer  == ApplyClaimedIntel(begun, n)
           paid    == ApplyClaimedAction(richer, n)
           settled == ExpireDeepCover(DropGonePopups(paid), n)
           ended   == ClearFlags(MeetOpponent(settled, n), s)
<1>1. n \in Side
  BY OppFacts
<1>2. Good(earned) /\ earned.turnNumber = g.turnNumber /\ earned.over = g.over
        /\ earned.winner = g.winner
  BY ClaimGood, IncomeGood DEF Frame, Fields
<1>3. Good(begun) /\ begun.turn = n /\ begun.turnNumber = g.turnNumber + 1
        /\ begun.actions[n] \in 2..3 /\ begun.over = g.over /\ begun.winner = g.winner
  <2> HIDE DEF earned, n
  <2>1. Good(begun) /\ begun.over = earned.over /\ begun.winner = earned.winner
    BY <1>1, <1>2, PassTurnGood DEF Frame, Fields
  <2>2. /\ begun.turn = n /\ begun.turnNumber = earned.turnNumber + 1
        /\ begun.actions = [earned.actions EXCEPT ![n] = IF earned.prep[n] THEN 3 ELSE 2]
    BY <1>2 DEF PassTurn, Good, IsRecord, Fields
  <2> HIDE DEF begun
  <2>3. begun.actions[n] = IF earned.prep[n] THEN 3 ELSE 2
    BY <1>1, <1>2, <2>2 DEF Good, Typed
  <2>4. QED
    BY <1>2, <2>1, <2>2, <2>3
<1>4. Good(richer) /\ richer.turn = n /\ richer.turnNumber = g.turnNumber + 1
        /\ richer.actions[n] \in 2..3 /\ richer.over = g.over /\ richer.winner = g.winner
  <2> HIDE DEF begun
  <2>1. QED
    BY <1>1, <1>3, ApplyClaimedIntelGood DEF Frame, Fields
<1>5. Good(paid) /\ paid.turn = n /\ paid.turnNumber = g.turnNumber + 1
        /\ paid.actions[n] \in 2..4 /\ paid.over = g.over /\ paid.winner = g.winner
  <2> HIDE DEF richer, n
  <2>1. /\ Good(paid) /\ paid.turn = richer.turn /\ paid.turnNumber = richer.turnNumber
        /\ paid.over = richer.over /\ paid.winner = richer.winner
    BY <1>1, <1>4, ApplyClaimedActionGood DEF Frame, Fields
  <2>2. paid.actions[n] \in {richer.actions[n], richer.actions[n] + 1}
    <3>1. CASE ~richer.claimAction[n]
      BY <3>1 DEF ApplyClaimedAction
    <3>2. CASE richer.claimAction[n]
      <4>1. paid.actions = [richer.actions EXCEPT ![n] = @ + 1]
        BY <1>4, <3>2 DEF ApplyClaimedAction, Good, IsRecord, Fields
      <4> HIDE DEF paid
      <4>2. QED
        BY <1>1, <1>4, <4>1 DEF Good, Typed
    <3>3. QED
      BY <3>1, <3>2
  <2> HIDE DEF paid
  <2>3. QED
    BY <1>4, <2>1, <2>2
<1>6. Good(settled) /\ settled.turn = n /\ settled.turnNumber = g.turnNumber + 1
        /\ settled.actions[n] \in 2..4 /\ settled.over = g.over /\ settled.winner = g.winner
  <2> HIDE DEF paid
  <2>1. QED
    BY <1>1, <1>5, DropGonePopupsGood, ExpireDeepCoverGood DEF Frame, Fields
<1>7. ended.turn = n /\ ended.turnNumber = g.turnNumber + 1
        /\ ended.actions[n] \in 2..4 /\ ended.over = g.over /\ ended.winner = g.winner
  <2> DEFINE met == MeetOpponent(settled, n)
  <2> HIDE DEF settled, n
  <2>1. Good(met) /\ Frame(settled, met, {"cover", "known"})
    BY <1>1, <1>6, MeetOpponentGood
  <2> HIDE DEF met
  <2>2. Frame(met, ended, {"flags"})
    BY <2>1, ClearFlagsGood DEF met
  <2> HIDE DEF ended
  <2>3. QED
    BY <1>6, <2>1, <2>2 DEF Frame, Fields
<1>8. ended = EndTurnEffect(g, s, skip)
  BY DEF EndTurnEffect
<1> HIDE DEF ended, n
<1>9. QED
  BY <1>7, <1>8 DEF n

-----------------------------------------------------------------------------
(* The opponent of the side on turn.                                       *)

\* A command, of whichever side, leaves alone what belongs to the side that is
\* not on turn, until the turn ends.
THEOREM IdleSpyAlwaysUntouched == Spec => IdleSpyUntouched
<1> DEFINE Untouched ==
      \A s \in Side : game.turn # s /\ game'.turn = game.turn =>
        /\ game'.city[s] = game.city[s]
        /\ game'.intel[s] = game.intel[s]
        /\ game'.actions[s] = game.actions[s]
        /\ game'.unlocked[s] = game.unlocked[s]
        /\ game'.deepSince[s] = game.deepSince[s]
        /\ game'.prep[s] = game.prep[s]
        /\ game'.claimIntel[s] = game.claimIntel[s]
        /\ game'.claimAction[s] = game.claimAction[s]
<1>1. ASSUME Good(game), [Next]_game
      PROVE  [Untouched]_game
  <2>1. ASSUME NEW F, Frame(game, game', F), F \subseteq {"flags", "over", "winner"}
        PROVE  Untouched
    BY <2>1 DEF Frame, Fields
  <2>2. ASSUME NEW s \in Side, Command(s)
        PROVE  Untouched
    <3>1. CASE game' = ClearNotices(game, s)
      <4>1. Frame(game, game', {"flags"})
        BY <1>1, <3>1, ClearNoticesGood
      <4>2. QED
        BY <4>1, <2>1
    <3>2. CASE CanAct(game, s) /\ ActsFor(game, game', s)
      BY <1>1, <3>2 DEF ActsFor, CanAct, MyTurn, Good, Typed
    <3>3. QED
      BY <1>1, <2>2, <3>1, <3>2, CommandActs
  <2>3. ASSUME NEW s \in Side, NEW skip \in BOOLEAN, EndTurn(s, skip)
        PROVE  game'.turn # game.turn
    <3>1. game.turn = s /\ game' = EndTurnEffect(game, s, skip)
      BY <2>3 DEF EndTurn, MyTurn
    <3>2. game'.turn = Opp(s)
      BY <1>1, <3>1, EndTurnPasses
    <3>3. QED
      BY <3>1, <3>2, OppFacts
  <2>4. ASSUME NEW s \in Side, Abort(s)
        PROVE  Untouched
    <3>1. Frame(game, game', {"over", "winner"})
      BY <1>1, <2>4, ConcedeGood DEF Abort
    <3>2. QED
      BY <3>1, <2>1
  <2>5. QED
    BY <1>1, <2>2, <2>3, <2>4 DEF Next, Command
<1>2. [](Good(game)) /\ [][Next]_game => [][Untouched]_game
  BY <1>1, PTL
<1>3. QED
  BY <1>2, SecureAlways, PTL DEF Spec, IdleSpyUntouched

-----------------------------------------------------------------------------
(* The end of the game.                                                    *)

\* Commands that still arrive when the game is over change nothing but flags.
THEOREM OutcomeAlwaysFinal == Spec => FinalOutcome
<1> DEFINE Final == game.over => game' = [game EXCEPT !.flags = game'.flags]
<1>1. ASSUME Good(game), [Next]_game
      PROVE  [Final]_game
  <2>1. ASSUME NEW s \in Side, Command(s)
        PROVE  Final
    <3>1. CASE game' = ClearNotices(game, s)
      <4>1. Frame(game, game', {"flags"})
        BY <1>1, <3>1, ClearNoticesGood
      <4>2. QED
        BY <1>1, <4>1 DEF Frame, Good, IsRecord
    <3>2. CASE CanAct(game, s)
      BY <3>2 DEF CanAct, MyTurn
    <3>3. QED
      BY <1>1, <2>1, <3>1, <3>2, CommandActs
  <2>2. ASSUME NEW s \in Side, NEW skip \in BOOLEAN, EndTurn(s, skip)
        PROVE  Final
    BY <2>2 DEF EndTurn, MyTurn
  <2>3. ASSUME NEW s \in Side, Abort(s)
        PROVE  Final
    <3>1. game.over => game' = game
      BY <2>3 DEF Abort, Concede
    <3>2. game = [game EXCEPT !.flags = game.flags]
      BY <1>1 DEF Good, IsRecord
    <3>3. QED
      BY <3>1, <3>2
  <2>4. QED
    BY <1>1, <2>1, <2>2, <2>3 DEF Next, Command
<1>2. [](Good(game)) /\ [][Next]_game => [][Final]_game
  BY <1>1, PTL
<1>3. QED
  BY <1>2, SecureAlways, PTL DEF Spec, FinalOutcome

-----------------------------------------------------------------------------
(* GameState implements TurnGame.                                          *)

LEMMA TurnInit == Init => Turns!Init
<1> SUFFICES ASSUME Init
             PROVE  Turns!Init
  OBVIOUS
<1>1. PICK start \in [Side -> City], first \in Side, gapI \in IntelGaps, gapA \in ActionGaps :
        game = NewGame(start, first, gapI, gapA)
  BY DEF Init, NewGames
<1>2. /\ game.turn = first /\ game.turnNumber = 1 /\ game.winner = None
      /\ game.actions = [s \in Side |-> 2]
  BY <1>1 DEF NewGame
<1>3. QED
  BY <1>2 DEF Turns!Init

LEMMA TurnStep ==
  ASSUME Good(game), Secure(game), [Next]_game
  PROVE  [Turns!Next]_Turns!vars
<1>1. CASE UNCHANGED game
  BY <1>1 DEF Turns!vars
<1>2. ASSUME NEW s \in Side, Command(s)
      PROVE  [Turns!Next]_Turns!vars
  <2>1. CASE game' = ClearNotices(game, s)
    <3>1. Frame(game, game', {"flags"})
      BY <2>1, ClearNoticesGood
    <3>2. QED
      BY <3>1 DEF Frame, Fields, Turns!vars
  <2>2. CASE CanAct(game, s) /\ ActsFor(game, game', s)
    <3>1. game.turn = s /\ game.winner = None /\ game.actions[s] > 0
      BY <2>2, ActsUndercover DEF CanAct
    <3>2. /\ game'.turn = s /\ game'.turnNumber = game.turnNumber
          /\ game'.winner \in {None, s}
          /\ game'.actions[s] = game.actions[s] - 1
      BY <2>2, <3>1 DEF ActsFor, Good, Typed
    <3>3. Turns!Act
      BY <3>1, <3>2 DEF Turns!Act
    <3>4. QED
      BY <3>3 DEF Turns!Next
  <2>3. QED
    BY <1>2, <2>1, <2>2, CommandActs
<1>3. ASSUME NEW s \in Side, NEW skip \in BOOLEAN, EndTurn(s, skip)
      PROVE  [Turns!Next]_Turns!vars
  <2>1. game.turn = s /\ ~game.over /\ game' = EndTurnEffect(game, s, skip)
    BY <1>3 DEF EndTurn, MyTurn
  <2>2. /\ game'.turn = Opp(s) /\ game'.turnNumber = game.turnNumber + 1
        /\ game'.actions[Opp(s)] \in 2..4 /\ game'.winner = game.winner
    BY <2>1, EndTurnPasses
  <2>3. game.winner = None
    BY <2>1 DEF Secure, Decided, Good, Typed
  <2>4. Turns!Pass
    BY <2>1, <2>2, <2>3, OppFacts DEF Turns!Pass
  <2>5. QED
    BY <2>4 DEF Turns!Next
<1>4. ASSUME NEW s \in Side, Abort(s)
      PROVE  [Turns!Next]_Turns!vars
  <2>1. CASE game.over
    BY <1>4, <2>1 DEF Abort, Concede, Turns!vars
  <2>2. CASE ~game.over
    <3>1. game.winner = None
      BY <2>2 DEF Secure, Decided, Good, Typed
    <3>2. Frame(game, game', {"over", "winner"}) /\ Good(game')
      BY <1>4, ConcedeGood DEF Abort
    <3>3. game'.winner = Opp(s)
      BY <1>4, <2>2 DEF Abort, Concede, Good, IsRecord, Fields
    <3>4. Turns!GiveUp
      BY <3>1, <3>2, <3>3, OppFacts DEF Frame, Fields, Turns!GiveUp
    <3>5. QED
      BY <3>4 DEF Turns!Next
  <2>3. QED
    BY <2>1, <2>2
<1>5. QED
  BY <1>1, <1>2, <1>3, <1>4 DEF Next, Command

\* Callers of GameState may rely on TurnGame: alternating numbered turns of two
\* to four actions, acted in by the side on turn only, until there is a winner.
THEOREM GameImplementsTurns == Spec => TurnSpec
<1>1. Init => Turns!Init
  BY TurnInit
<1>2. Good(game) /\ Secure(game) /\ [Next]_game => [Turns!Next]_Turns!vars
  BY TurnStep
<1>3. QED
  BY <1>1, <1>2, SecureAlways, PTL DEF Spec, TurnSpec, Turns!Spec
=============================================================================
