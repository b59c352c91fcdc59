-------------------------- MODULE ChargeLogicProofs --------------------------
(***************************************************************************)
(* Proofs about ChargeLogic, for every number of guns and every value of   *)
(* the other constants.  A lemma on an operator says what the operator     *)
(* returns for data of the right type; the lemmas follow the order of the  *)
(* definitions in GunMachine, ChargeSession and ChargeLogic.               *)
(***************************************************************************)
EXTENDS ChargeLogic, TLAPS

\* The reader waits on its own account only if the switch allows it.
AutoAllowed(s) == s.reader.auto => CardAutoWait

Sound(s) == s \in Data /\ AutoAllowed(s)

\* AutoWaitSole and NoServiceOnDeadLink on the data of the process.
AutoSole(s) == IsAutoWaiting(s) => IsSolePrepare(s, s.reader.gun)

InService(s, g) == s.gun[g].state \in {"PREPARE", "STARTING", "CHARGING"}
LinkUp(s, g) == ~s.link[g]["meter"].fault /\ ~s.link[g]["pile"].fault
LinksServe(s) == \A g \in Guns : InService(s, g) => LinkUp(s, g)

Good(s) == Sound(s) /\ AutoSole(s) /\ LinksServe(s)

\* From s to t no gun changes state, and the reader and the links stay.
Quiet(s, t) ==
    /\ t \in Data
    /\ t.reader = s.reader
    /\ t.link = s.link
    /\ \A h \in Guns : t.gun[h].state = s.gun[h].state

\* From s to t at most gun g changes its state, to one of S.
Moves(s, t, g, S) ==
    /\ Sound(t)
    /\ AutoSole(s) => AutoSole(t)
    /\ t.link = s.link
    /\ \A h \in Guns \ {g} : t.gun[h].state = s.gun[h].state
    /\ t.gun[g].state \in S

-----------------------------------------------------------------------------
(* Data and its parts.                                                     *)

\* The parts of typed data have the types of their fields.
LEMMA Parts ==
    ASSUME NEW s \in Data, NEW g \in Guns
    PROVE  /\ s.gun[g] \in GunRec
           /\ s.sess[g] \in SessRec
           /\ s.meter[g] \in MeterRec
           /\ s.card[g] \in CardRec
           /\ s.link[g] \in [Links -> LinkRec]
           /\ s.reader \in ReaderRec
           /\ s.ledger[g] \in [Orders -> Booking]
  BY DEF Data

\* A new record for one gun, with or without a new meter, keeps the data typed.
LEMMA PutGun ==
    ASSUME NEW s \in Data, NEW g \in Guns, NEW r \in GunRec, NEW m \in MeterRec
    PROVE  /\ [s EXCEPT !.gun[g] = r] \in Data
           /\ [s EXCEPT !.meter[g] = m] \in Data
           /\ [s EXCEPT !.gun[g] = r, !.meter[g] = m] \in Data
  BY DEF Data

\* So does a new session record, alone or with the meter or the gun's record.
LEMMA PutSess ==
    ASSUME NEW s \in Data, NEW g \in Guns, NEW o \in SessRec, NEW m \in MeterRec,
           NEW r \in GunRec
    PROVE  /\ [s EXCEPT !.sess[g] = o] \in Data
           /\ [s EXCEPT !.sess[g] = o, !.meter[g] = m] \in Data
           /\ [s EXCEPT !.sess[g] = o, !.gun[g] = r] \in Data
  BY DEF Data

\* So does a new card record.
LEMMA PutCard ==
    ASSUME NEW s \in Data, NEW g \in Guns, NEW c \in CardRec
    PROVE  [s EXCEPT !.card[g] = c] \in Data
  BY DEF Data

\* So do new records for a gun in all four functions at once.
LEMMA PutAll ==
    ASSUME NEW s \in Data, NEW g \in Guns, NEW r \in GunRec, NEW o \in SessRec,
           NEW m \in MeterRec, NEW c \in CardRec
    PROVE  [s EXCEPT !.gun[g] = r, !.sess[g] = o, !.meter[g] = m, !.card[g] = c] \in Data
  BY DEF Data

\* So does a new row of the ledger.
LEMMA PutLedger ==
    ASSUME NEW s \in Data, NEW g \in Guns, NEW l \in [Orders -> Booking]
    PROVE  [s EXCEPT !.ledger[g] = l] \in Data
  BY DEF Data

\* A quiet step keeps the invariant.
LEMMA QuietGood ==
    ASSUME NEW s, NEW t, Good(s), Quiet(s, t)
    PROVE  Good(t)
  BY DEF Good, Sound, Quiet, AutoAllowed, AutoSole, IsAutoWaiting, IsSolePrepare,
         LinksServe, InService, LinkUp

\* A quiet step of a gun that is in S is a move of that gun to S.
LEMMA QuietMoves ==
    ASSUME NEW s, NEW t, NEW g \in Guns, NEW S, Sound(s), Quiet(s, t),
           s.gun[g].state \in S
    PROVE  Moves(s, t, g, S)
  BY DEF Moves, Sound, Quiet, AutoAllowed, AutoSole, IsAutoWaiting, IsSolePrepare

\* The process starts with typed data.
LEMMA InitialType == InitialData \in Data
  <1>1. InitialData.gun \in [Guns -> GunRec]
    BY DEF InitialData, GunRec, States
  <1>2. InitialData.sess \in [Guns -> SessRec]
    BY BoundAssumption DEF InitialData, SessRec, Orders, Readings, Reasons
  <1>3. InitialData.meter \in [Guns -> MeterRec]
    BY BoundAssumption DEF InitialData, MeterRec, Readings
  <1>4. InitialData.card \in [Guns -> CardRec]
    BY DEF InitialData, CardRec, NoAsk, AskRec
  <1>5. InitialData.link \in [Guns -> [Links -> LinkRec]]
    BY DEF InitialData, LinkRec
  <1>6. InitialData.reader \in ReaderRec
    BY GunAssumption DEF InitialData, ReaderRec, Guns
  <1>7. InitialData.ledger \in [Guns -> [Orders -> Booking]]
    BY DEF InitialData, Booking
  <1> QED
    BY <1>1, <1>2, <1>3, <1>4, <1>5, <1>6, <1>7 DEF InitialData, Data

\* No gun is its own peer (getMergePeerGun).
LEMMA PeerFact ==
    ASSUME NEW g \in Guns
    PROVE  Peer(g) # g
  BY GunAssumption DEF Peer, Guns

-----------------------------------------------------------------------------
(* The reader.                                                             *)

\* resetCardReaderState leaves the reader idle and touches nothing else.
LEMMA ResetReaderFact ==
    ASSUME NEW s \in Data
    PROVE  LET t == ResetCardReaderState(s)
           IN  /\ t \in Data
               /\ t.gun = s.gun
               /\ t.link = s.link
               /\ t.reader.phase = "idle"
               /\ ~t.reader.auto
  <1>1. s.reader \in ReaderRec
    BY DEF Data
  <1>2. [phase |-> "idle", gun |-> 0, auto |-> FALSE, rf |-> s.reader.rf] \in ReaderRec
    BY <1>1, GunAssumption DEF ReaderRec, Guns
  <1> QED
    BY <1>2 DEF Data, ResetCardReaderState

\* startOfflineCardFlow waits for a card only for a gun in PREPARE.
LEMMA StartFlowFact ==
    ASSUME NEW s \in Data, NEW g \in Guns, NEW auto \in BOOLEAN, NEW ask \in AskRec
    PROVE  LET t == StartOfflineCardFlow(s, g, auto, ask)
           IN  /\ t \in Data
               /\ t.gun = s.gun
               /\ t.link = s.link
               /\ \/ t = s
                  \/ t.reader.gun = g /\ t.reader.auto = auto
  <1> DEFINE r == [phase |-> "wait_start_card", gun |-> g, auto |-> auto, rf |-> TRUE]
  <1>1. r \in ReaderRec
    BY DEF ReaderRec
  <1>2. s.card[g] \in CardRec
    BY Parts
  <1>3. [s.card[g] EXCEPT !.ask = ask] \in CardRec
    BY <1>2 DEF CardRec
  <1> QED
    BY <1>1, <1>3 DEF Data, StartOfflineCardFlow

\* cancelAutoCardWaiting leaves a reader that no longer waits on its own account.
LEMMA CancelFact ==
    ASSUME NEW s \in Data
    PROVE  LET t == CancelAutoCardWaiting(s)
           IN  /\ t \in Data
               /\ t.gun = s.gun
               /\ t.link = s.link
               /\ ~t.reader.auto
  <1>1. s.reader \in ReaderRec
    BY DEF Data
  <1>2. CASE s.reader.rf
    <2>1. [s.reader EXCEPT !.auto = FALSE, !.phase = "wait_auto_rf_close"] \in ReaderRec
      BY <1>1 DEF ReaderRec
    <2>2. CancelAutoCardWaiting(s) =
            [s EXCEPT !.reader = [s.reader EXCEPT !.auto = FALSE,
                                                  !.phase = "wait_auto_rf_close"]]
      BY <1>1, <1>2 DEF CancelAutoCardWaiting, Data, ReaderRec
    <2> QED
      BY <2>1, <2>2, <1>1 DEF Data, ReaderRec
  <1>3. CASE ~s.reader.rf
    BY <1>3, ResetReaderFact DEF CancelAutoCardWaiting
  <1> QED
    BY <1>2, <1>3

\* reconcileAutoCardWaiting leaves a reader that waits for the sole gun in
\* PREPARE, whatever it found.
LEMMA ReconcileFact ==
    ASSUME NEW s, Sound(s)
    PROVE  LET t == ReconcileAutoCardWaiting(s)
           IN  /\ Sound(t)
               /\ AutoSole(t)
               /\ t.gun = s.gun
               /\ t.link = s.link
  <1> DEFINE t == ReconcileAutoCardWaiting(s)
             sole == CHOOSE g \in Guns : IsSolePrepare(s, g)
  <1>0. s \in Data
    BY DEF Sound
  <1>1. CASE ~CardAutoWait
    BY <1>1 DEF ReconcileAutoCardWaiting, IsAutoWaiting, Sound, AutoAllowed, AutoSole
  <1>2. CASE CardAutoWait /\ IsAutoWaiting(s)
    <2>1. CASE IsSolePrepare(s, s.reader.gun)
      BY <1>2, <2>1 DEF ReconcileAutoCardWaiting, AutoSole
    <2>2. CASE ~IsSolePrepare(s, s.reader.gun)
      <3>1. t = CancelAutoCardWaiting(s)
        BY <1>2, <2>2 DEF ReconcileAutoCardWaiting
      <3> QED
        BY <1>0, <3>1, CancelFact DEF IsAutoWaiting, Sound, AutoAllowed, AutoSole
    <2> QED
      BY <2>1, <2>2
  <1>3. CASE CardAutoWait /\ ~IsAutoWaiting(s)
    <2>1. CASE \/ IsCardReaderBusy(s)
               \/ HasOfflineCardChargingSession(s)
               \/ ~ \E g \in Guns : IsSolePrepare(s, g)
      BY <1>3, <2>1 DEF ReconcileAutoCardWaiting, AutoSole
    <2>2. CASE ~(\/ IsCardReaderBusy(s)
                 \/ HasOfflineCardChargingSession(s)
                 \/ ~ \E g \in Guns : IsSolePrepare(s, g))
      <3> DEFINE own == TRUE
      <3>1. t = StartOfflineCardFlow(s, sole, own, NoAsk)
        BY <1>3, <2>2 DEF ReconcileAutoCardWaiting
      <3>2. sole \in Guns /\ IsSolePrepare(s, sole)
        BY <2>2
      <3>3. NoAsk \in AskRec /\ own \in BOOLEAN
        BY DEF NoAsk, AskRec
      <3> HIDE DEF sole, own
      <3>4. /\ t \in Data
            /\ t.gun = s.gun
            /\ t.link = s.link
            /\ t = s \/ t.reader.gun = sole
        BY <1>0, <3>1, <3>2, <3>3, StartFlowFact
      <3>5. IsSolePrepare(t, sole)
        BY <3>2, <3>4 DEF IsSolePrepare
      <3>6. Sound(t) /\ AutoSole(t) /\ t.gun = s.gun /\ t.link = s.link
        BY <1>3, <3>4, <3>5 DEF Sound, AutoAllowed, AutoSole
      <3> QED
        BY <3>6
    <2> QED
      BY <2>1, <2>2
  <1> QED
    BY <1>1, <1>2, <1>3

-----------------------------------------------------------------------------
(* Transitions.                                                            *)

\* The assignments of transitionTo move one gun and leave the reader and the links.
LEMMA MoveFact ==
    ASSUME NEW s \in Data, NEW g \in Guns, NEW to \in States
    PROVE  LET t == Move(s, g, to)
           IN  /\ t \in Data
               /\ t.reader = s.reader
               /\ t.link = s.link
               /\ t.gun[g].state = to
               /\ \A h \in Guns \ {g} : t.gun[h].state = s.gun[h].state
  <1> DEFINE r == [s.gun[g] EXCEPT
                     !.state = to,
                     !.retried = FALSE,
                     !.startOk = \/ to = "CHARGING"
                                 \/ s.gun[g].startOk /\ to \notin {"STARTING", "IDLE"},
                     !.gone = s.gun[g].gone /\ to # "IDLE"]
             m == [s.meter[g] EXCEPT !.voltSeen = s.meter[g].voltSeen
                                                  /\ to \notin {"CHARGING", "IDLE"}]
  <1>1. s.gun[g] \in GunRec /\ s.meter[g] \in MeterRec
    BY Parts
  <1>2. r \in GunRec /\ r.state = to
    BY <1>1 DEF GunRec
  <1>3. m \in MeterRec
    BY <1>1 DEF MeterRec
  <1>4. Move(s, g, to) = [s EXCEPT !.gun[g] = r, !.meter[g] = m]
    BY DEF Move
  <1> HIDE DEF r, m
  <1>5. Move(s, g, to) \in Data
    <2>1. [s EXCEPT !.gun[g] = r, !.meter[g] = m] \in Data
      BY <1>2, <1>3, PutGun
    <2> QED
      BY <1>4, <2>1
  <1>6. /\ Move(s, g, to).reader = s.reader
        /\ Move(s, g, to).link = s.link
        /\ Move(s, g, to).gun = [s.gun EXCEPT ![g] = r]
    BY <1>4 DEF Data
  <1> QED
    BY <1>2, <1>5, <1>6 DEF Data

\* resetChargeSessionState changes no state, no link and not the reader.
LEMMA ResetFact ==
    ASSUME NEW s \in Data, NEW g \in Guns
    PROVE  Quiet(s, ResetChargeSessionState(s, g))
  <1> DEFINE r == [s.gun[g] EXCEPT !.retried = FALSE, !.startOk = FALSE,
                                   !.stopSeen = FALSE, !.gone = FALSE]
             o == [armed |-> FALSE, basis |-> FALSE, merge |-> FALSE,
                   order |-> 0, issued |-> s.sess[g].issued, lastCmd |-> 0,
                   precharge |-> 0, tcuStop |-> FALSE, reason |-> "none"]
             m == [s.meter[g] EXCEPT !.stable = 0, !.voltSeen = FALSE, !.ready = FALSE,
                                     !.based = FALSE, !.last = 0, !.total = 0]
             c == [s.card[g] EXCEPT !.ask = NoAsk]
  <1>1. /\ s.gun[g] \in GunRec
        /\ s.sess[g] \in SessRec
        /\ s.meter[g] \in MeterRec
        /\ s.card[g] \in CardRec
    BY Parts
  <1>2. r \in GunRec /\ r.state = s.gun[g].state
    BY <1>1 DEF GunRec
  <1>3. o \in SessRec
    BY <1>1, BoundAssumption DEF SessRec, Orders, Readings, Reasons
  <1>4. m \in MeterRec
    <2>1. 0 \in 0 .. 3 /\ 0 \in Readings /\ 0 \in Nat
      BY BoundAssumption DEF Readings
    <2> QED
      BY <1>1, <2>1 DEF MeterRec
  <1>5. c \in CardRec
    BY <1>1 DEF CardRec, NoAsk, AskRec
  <1>6. ResetChargeSessionState(s, g) =
          [s EXCEPT !.gun[g] = r, !.sess[g] = o, !.meter[g] = m, !.card[g] = c]
    BY DEF ResetChargeSessionState
  <1> DEFINE t == ResetChargeSessionState(s, g)
  <1> HIDE DEF r, o, m, c
  <1>7. t \in Data
    <2>1. [s EXCEPT !.gun[g] = r, !.sess[g] = o, !.meter[g] = m, !.card[g] = c] \in Data
      BY <1>2, <1>3, <1>4, <1>5, PutAll
    <2> QED
      BY <1>6, <2>1
  <1>8. t.reader = s.reader /\ t.link = s.link /\ t.gun = [s.gun EXCEPT ![g] = r]
    BY <1>6 DEF Data
  <1> QED
    BY <1>2, <1>7, <1>8 DEF Data, Quiet

\* Neither does writing the trade record.
LEMMA LogFact ==
    ASSUME NEW s \in Data, NEW g \in Guns
    PROVE  Quiet(s, LogTradeRecordOnStopped(s, g))
  <1> DEFINE o == s.sess[g].order
             b == s.ledger[g][o]
             n == IF b.count < 2 THEN b.count + 1 ELSE 2
             c == [count |-> n, kwh |-> s.meter[g].total, card |-> s.card[g].no]
  <1>1. /\ s.sess[g] \in SessRec
        /\ s.meter[g] \in MeterRec
        /\ s.card[g] \in CardRec
        /\ s.ledger[g] \in [Orders -> Booking]
    BY Parts
  <1>2. o \in Orders
    BY <1>1 DEF SessRec
  <1>3. b.count \in 0 .. 2
    BY <1>1, <1>2 DEF Booking
  <1>4. n \in 0 .. 2
    BY <1>3
  <1>5. c \in Booking
    BY <1>1, <1>4 DEF Booking, MeterRec, CardRec
  <1>6. LogTradeRecordOnStopped(s, g) = [s EXCEPT !.ledger[g] = [s.ledger[g] EXCEPT ![o] = c]]
    BY DEF LogTradeRecordOnStopped
  <1>7. [s.ledger[g] EXCEPT ![o] = c] \in [Orders -> Booking]
    BY <1>1, <1>5
  <1> DEFINE t == LogTradeRecordOnStopped(s, g)
             l == [s.ledger[g] EXCEPT ![o] = c]
  <1> HIDE DEF c, o, l
  <1>8. t = [s EXCEPT !.ledger[g] = l] /\ l \in [Orders -> Booking]
    BY <1>6, <1>7 DEF l
  <1>9. t \in Data
    <2>1. [s EXCEPT !.ledger[g] = l] \in Data
      BY <1>8, PutLedger
    <2> QED
      BY <1>8, <2>1
  <1>10. t.reader = s.reader /\ t.link = s.link /\ t.gun = s.gun
    BY <1>8 DEF Data
  <1> QED
    BY <1>9, <1>10 DEF Quiet

\* Neither does closing the key card session.
LEMMA SettleFact ==
    ASSUME NEW s \in Data, NEW g \in Guns
    PROVE  Quiet(s, PrepareOfflineCardSettlement(s, g))
  <1> DEFINE c == [active |-> FALSE, no |-> NoCard, swiped |-> FALSE, ask |-> NoAsk]
  <1>1. c \in CardRec
    BY DEF CardRec, NoAsk, AskRec
  <1>2. \/ PrepareOfflineCardSettlement(s, g) = s
        \/ PrepareOfflineCardSettlement(s, g) = [s EXCEPT !.card[g] = c]
    BY DEF PrepareOfflineCardSettlement
  <1> DEFINE t == PrepareOfflineCardSettlement(s, g)
  <1> HIDE DEF c
  <1>3. t \in Data
    BY <1>1, <1>2, PutCard
  <1>4. t.reader = s.reader /\ t.link = s.link /\ t.gun = s.gun
    BY <1>1, <1>2 DEF Data
  <1> QED
    BY <1>3, <1>4 DEF Quiet

\* A quiet step keeps the data sound.
LEMMA QuietSound ==
    ASSUME NEW s, NEW t, Sound(s), Quiet(s, t)
    PROVE  Sound(t)
  BY DEF Sound, Quiet, AutoAllowed

\* A gun told to stop settles, and may be gone on to IDLE when it has.
Reached(to) == IF to = "STOPPED" THEN {"STOPPED", "IDLE"} ELSE {to}

\* Closing a session books it and ends its card's part, and is quiet.
LEMMA CloseFact ==
    ASSUME NEW s \in Data, NEW g \in Guns
    PROVE  Quiet(s, CloseSession(s, g))
  <1> DEFINE t == LogTradeRecordOnStopped(s, g)
  <1>1. Quiet(s, t) /\ t \in Data
    BY LogFact DEF Quiet
  <1>2. CloseSession(s, g) = PrepareOfflineCardSettlement(t, g)
    BY DEF CloseSession
  <1> HIDE DEF t
  <1>3. Quiet(t, PrepareOfflineCardSettlement(t, g))
    BY <1>1, SettleFact
  <1> QED
    BY <1>1, <1>2, <1>3 DEF Quiet

\* From s to t gun g alone is put in a state of S, the reader aside.
Puts(s, t, g, S) ==
    /\ Sound(t)
    /\ t.link = s.link
    /\ \A h \in Guns \ {g} : t.gun[h].state = s.gun[h].state
    /\ t.gun[g].state \in S

\* A step that is quiet after a put is part of it.
LEMMA PutsQuiet ==
    ASSUME NEW s, NEW t, NEW u, NEW g \in Guns, NEW S, Puts(s, t, g, S), Quiet(t, u)
    PROVE  Puts(s, u, g, S)
  BY DEF Puts, Quiet, Sound, AutoAllowed

\* Reconciling the reader turns a put into a move.
LEMMA PutsReconciled ==
    ASSUME NEW s, NEW t, NEW g \in Guns, NEW S, Puts(s, t, g, S)
    PROVE  Moves(s, ReconcileAutoCardWaiting(t), g, S)
  <1> DEFINE u == ReconcileAutoCardWaiting(t)
  <1>1. Sound(u) /\ AutoSole(u) /\ u.gun = t.gun /\ u.link = t.link
    BY ReconcileFact DEF Puts
  <1> HIDE DEF u
  <1>2. Moves(s, u, g, S)
    BY <1>1 DEF Puts, Moves
  <1> QED
    BY <1>2 DEF u

\* The assignments of transitionTo put the gun where it was told.
LEMMA MovePuts ==
    ASSUME NEW s, Sound(s), NEW g \in Guns, NEW to \in States
    PROVE  Puts(s, Move(s, g, to), g, {to})
  <1> DEFINE u == Move(s, g, to)
  <1>1. /\ u \in Data
        /\ u.reader = s.reader
        /\ u.link = s.link
        /\ u.gun[g].state = to
        /\ \A h \in Guns \ {g} : u.gun[h].state = s.gun[h].state
    BY MoveFact DEF Sound
  <1> HIDE DEF u
  <1>2. Puts(s, u, g, {to})
    BY <1>1 DEF Puts, Sound, AutoAllowed
  <1> QED
    BY <1>2 DEF u

\* A gun in STOPPED stays there, or is gone on to IDLE.
LEMMA LeaveFact ==
    ASSUME NEW s, NEW t, NEW g \in Guns, Puts(s, t, g, {"STOPPED"})
    PROVE  Puts(s, LeaveIfGone(t, g), g, {"STOPPED", "IDLE"})
  <1> DEFINE u == Move(t, g, "IDLE")
             v == ResetChargeSessionState(u, g)
             w == ReconcileAutoCardWaiting(v)
  <1>1. Puts(t, u, g, {"IDLE"}) /\ u \in Data
    BY MovePuts DEF Puts, States, Sound
  <1>2. LeaveIfGone(t, g) = t \/ LeaveIfGone(t, g) = w
    BY DEF LeaveIfGone
  <1> HIDE DEF u
  <1>3. Puts(t, v, g, {"IDLE"})
    BY <1>1, ResetFact, PutsQuiet
  <1> HIDE DEF v
  <1>4. Moves(t, w, g, {"IDLE"})
    BY <1>3, PutsReconciled
  <1> HIDE DEF w
  <1> QED
    BY <1>2, <1>4 DEF Puts, Moves

\* What belongs to the new state leaves the gun there, or gone on to IDLE.
LEMMA EnterFact ==
    ASSUME NEW s, NEW t, NEW g \in Guns, NEW to \in States, Puts(s, t, g, {to})
    PROVE  Puts(s, Enter(t, g, to), g, Reached(to))
  <1>1. t \in Data
    BY DEF Puts, Sound
  <1>2. CASE to = "STOPPED"
    <2>1. Puts(s, CloseSession(t, g), g, {"STOPPED"})
      BY <1>1, <1>2, CloseFact, PutsQuiet
    <2>2. Puts(s, LeaveIfGone(CloseSession(t, g), g), g, {"STOPPED", "IDLE"})
      BY <2>1, LeaveFact
    <2> QED
      BY <1>2, <2>2 DEF Enter, Reached
  <1>3. CASE to = "IDLE"
    <2>1. Puts(s, ResetChargeSessionState(t, g), g, {"IDLE"})
      BY <1>1, <1>3, ResetFact, PutsQuiet
    <2> QED
      BY <1>3, <2>1 DEF Enter, Reached
  <1>4. CASE to \notin {"STOPPED", "IDLE"}
    <2>1. Enter(t, g, to) = t /\ Reached(to) = {to}
      BY <1>4 DEF Enter, Reached
    <2> QED
      BY <2>1
  <1> QED
    BY <1>2, <1>3, <1>4

\* transitionTo moves its gun where it was told, and the reader follows.
LEMMA TransitionFact ==
    ASSUME NEW s, Sound(s), NEW g \in Guns, NEW to \in States
    PROVE  Moves(s, TransitionTo(s, g, to), g, Reached(to))
  <1> DEFINE u == Move(s, g, to)
             v == Enter(u, g, to)
  <1>1. CASE s.gun[g].state = to
    <2>1. TransitionTo(s, g, to) = s
      BY <1>1 DEF TransitionTo
    <2> QED
      BY <1>1, <2>1 DEF Moves, Reached
  <1>2. CASE s.gun[g].state # to
    <2>1. TransitionTo(s, g, to) = ReconcileAutoCardWaiting(v)
      BY <1>2 DEF TransitionTo
    <2>2. Puts(s, u, g, {to})
      BY MovePuts
    <2> HIDE DEF u
    <2>3. Puts(s, v, g, Reached(to))
      BY <2>2, EnterFact
    <2> HIDE DEF v
    <2> QED
      BY <2>1, <2>3, PutsReconciled
  <1> QED
    BY <1>1, <1>2

\* The first half of enterStopping moves its gun to STOPPING.
LEMMA HaltFact ==
    ASSUME NEW s, Sound(s), NEW g \in Guns
    PROVE  Moves(s, Halt(s, g), g, {"STOPPING"})
  <1> DEFINE u == TransitionTo(s, g, "STOPPING")
             r == [u.gun[g] EXCEPT !.gone = FALSE, !.stopSeen = FALSE,
                                   !.sent = "stop_charge"]
             m == [u.meter[g] EXCEPT !.stable = 0]
             t == Halt(s, g)
  <1>1. "STOPPING" \in States /\ Reached("STOPPING") = {"STOPPING"}
    BY DEF States, Reached
  <1>2. Moves(s, u, g, {"STOPPING"})
    BY <1>1, TransitionFact
  <1>3. u \in Data
    BY <1>2 DEF Moves, Sound
  <1>4. u.gun[g] \in GunRec /\ u.meter[g] \in MeterRec
    BY <1>3, Parts
  <1>5. r \in GunRec /\ r.state = u.gun[g].state
    BY <1>4 DEF GunRec
  <1>6. m \in MeterRec
    BY <1>4 DEF MeterRec
  <1>7. t = [u EXCEPT !.gun[g] = r, !.meter[g] = m]
    BY DEF Halt
  <1> HIDE DEF u, r, m, t
  <1>8. [u EXCEPT !.gun[g] = r, !.meter[g] = m] \in Data
    BY <1>3, <1>5, <1>6, PutGun
  <1>9. t.reader = u.reader /\ t.link = u.link /\ t.gun = [u.gun EXCEPT ![g] = r]
    BY <1>3, <1>7 DEF Data
  <1>10. Quiet(u, t)
    BY <1>3, <1>5, <1>7, <1>8, <1>9 DEF Quiet, Data
  <1>11. Sound(u) /\ u.gun[g].state \in {"STOPPING"}
    BY <1>2 DEF Moves
  <1>12. Moves(u, t, g, {"STOPPING"})
    BY <1>10, <1>11, QuietMoves
  <1>13. Moves(s, t, g, {"STOPPING"})
    BY <1>2, <1>12 DEF Moves
  <1> QED
    BY <1>13 DEF t

\* From s to t gun g, and at most its peer, start to stop.
Stops(s, t, g) ==
    /\ Sound(t)
    /\ AutoSole(s) => AutoSole(t)
    /\ t.link = s.link
    /\ t.gun[g].state = "STOPPING"
    /\ \A h \in Guns \ {g} : \/ t.gun[h].state = s.gun[h].state
                             \/ t.gun[h].state = "STOPPING"

\* enterStopping moves its gun, and at most its peer with it, to STOPPING.
LEMMA EnterStoppingFact ==
    ASSUME NEW s, Sound(s), NEW g \in Guns
    PROVE  Stops(s, EnterStopping(s, g), g)
  <1> DEFINE u == Halt(s, g)
             v == Halt(u, Peer(g))
             t == EnterStopping(s, g)
  <1>1. Moves(s, u, g, {"STOPPING"})
    BY HaltFact
  <1>2. Stops(s, u, g)
    BY <1>1 DEF Moves, Stops
  <1>3. CASE t = u
    BY <1>2, <1>3
  <1>4. CASE HasPeer(g) /\ t = v
    <2>1. Peer(g) \in Guns /\ Peer(g) # g
      BY <1>4, PeerFact DEF HasPeer
    <2>2. Sound(u)
      BY <1>1 DEF Moves
    <2>3. Moves(u, v, Peer(g), {"STOPPING"})
      BY <2>1, <2>2, HaltFact
    <2> HIDE DEF u, v, t
    <2>4. Stops(s, v, g)
      BY <1>1, <2>1, <2>3 DEF Moves, Stops
    <2> QED
      BY <1>4, <2>4 DEF t
  <1>5. t = u \/ (HasPeer(g) /\ t = v)
    BY DEF EnterStopping, HaltPeer, MergedPair
  <1> QED
    BY <1>3, <1>4, <1>5

-----------------------------------------------------------------------------
(* handleEvent.                                                            *)

\* All guns but g are out of service or have their links.
OthersServe(s, g) == \A h \in Guns \ {g} : InService(s, h) => LinkUp(s, h)

\* A gun that stops, alone or with others, breaks no link rule.
LEMMA StopsGood ==
    ASSUME NEW s, NEW t, NEW g \in Guns, Stops(s, t, g), AutoSole(s), OthersServe(s, g)
    PROVE  Good(t) /\ t.link = s.link
  BY DEF Stops, Good, LinksServe, OthersServe, InService, LinkUp

\* A gun may move into service if its links are up, and out of it always.
LEMMA MovesGood ==
    ASSUME NEW s, NEW t, NEW g \in Guns, NEW S, Moves(s, t, g, S), AutoSole(s),
           OthersServe(s, g),
           \/ LinkUp(s, g)
           \/ S \cap {"PREPARE", "STARTING", "CHARGING"} = {}
    PROVE  Good(t) /\ t.link = s.link
  BY DEF Moves, Good, LinksServe, OthersServe, InService, LinkUp

\* What the invariant says of the guns other than g.
LEMMA GoodOthers ==
    ASSUME NEW s, Good(s), NEW g \in Guns
    PROVE  Sound(s) /\ AutoSole(s) /\ OthersServe(s, g) /\ s \in Data
  BY DEF Good, LinksServe, OthersServe, Sound

\* Disarming a start is quiet.
LEMMA DisarmFact ==
    ASSUME NEW s \in Data, NEW g \in Guns
    PROVE  Quiet(s, Disarm(s, g))
  <1> DEFINE o == [s.sess[g] EXCEPT !.armed = FALSE, !.lastCmd = 0]
             t == Disarm(s, g)
  <1>1. s.sess[g] \in SessRec
    BY Parts
  <1>2. o \in SessRec
    <2>1. 0 \in Orders
      BY BoundAssumption DEF Orders
    <2> QED
      BY <1>1, <2>1 DEF SessRec
  <1>3. t = [s EXCEPT !.sess[g] = o]
    BY DEF Disarm
  <1> HIDE DEF o, t
  <1>4. [s EXCEPT !.sess[g] = o] \in Data
    BY <1>2, PutSess, PutGun, Parts
  <1>5. t.reader = s.reader /\ t.link = s.link /\ t.gun = s.gun
    BY <1>3 DEF Data
  <1>6. Quiet(s, t)
    BY <1>3, <1>4, <1>5 DEF Quiet
  <1> QED
    BY <1>6 DEF t

\* Sending start_charge is quiet.
LEMMA SendFact ==
    ASSUME NEW s \in Data, NEW g \in Guns
    PROVE  Quiet(s, SendArmedStart(s, g))
  <1> DEFINE o == [s.sess[g] EXCEPT !.armed = FALSE, !.lastCmd = s.sess[g].order]
             r == [s.gun[g] EXCEPT !.sent = "start_charge", !.retried = FALSE]
             t == [s EXCEPT !.sess[g] = o, !.gun[g] = r]
  <1>1. s.sess[g] \in SessRec /\ s.gun[g] \in GunRec
    BY Parts
  <1>2. o \in SessRec
    BY <1>1 DEF SessRec
  <1>3. r \in GunRec /\ r.state = s.gun[g].state
    BY <1>1 DEF GunRec
  <1>4. SendArmedStart(s, g) = s \/ SendArmedStart(s, g) = t
    BY DEF SendArmedStart
  <1> HIDE DEF o, r
  <1>5. t \in Data
    BY <1>2, <1>3, PutSess, Parts
  <1>6. t.reader = s.reader /\ t.link = s.link /\ t.gun = [s.gun EXCEPT ![g] = r]
    BY DEF Data
  <1> HIDE DEF t
  <1>7. Quiet(s, t)
    BY <1>3, <1>5, <1>6 DEF Quiet, Data
  <1>8. Quiet(s, s)
    BY DEF Quiet
  <1> QED
    BY <1>4, <1>7, <1>8

\* A quiet change and a transition after it.
LEMMA QuietThenTo ==
    ASSUME NEW s, Sound(s), NEW u, Quiet(s, u), NEW g \in Guns, NEW to \in States
    PROVE  Moves(s, TransitionTo(u, g, to), g, Reached(to))
  <1>1. Sound(u) /\ (AutoSole(s) => AutoSole(u))
    BY QuietSound DEF Quiet, AutoSole, IsAutoWaiting, IsSolePrepare
  <1>2. Moves(u, TransitionTo(u, g, to), g, Reached(to))
    BY <1>1, TransitionFact
  <1> QED
    BY <1>1, <1>2 DEF Moves, Quiet

\* Leaving service needs no link.
LEMMA ToRest ==
    ASSUME NEW s, Sound(s), AutoSole(s), NEW u, Quiet(s, u), NEW g \in Guns,
           OthersServe(s, g), NEW to \in {"IDLE", "STOPPED", "ERROR"}
    PROVE  Good(TransitionTo(u, g, to)) /\ TransitionTo(u, g, to).link = s.link
  <1>1. /\ to \in States
        /\ Reached(to) \cap {"PREPARE", "STARTING", "CHARGING"} = {}
    BY DEF States, Reached
  <1>2. Moves(s, TransitionTo(u, g, to), g, Reached(to))
    BY <1>1, QuietThenTo
  <1> QED
    BY <1>1, <1>2, MovesGood

\* Entering it does.
LEMMA ToService ==
    ASSUME NEW s, Sound(s), AutoSole(s), NEW u, Quiet(s, u), NEW g \in Guns,
           OthersServe(s, g), LinkUp(s, g), NEW to \in {"PREPARE", "STARTING", "CHARGING"}
    PROVE  Good(TransitionTo(u, g, to)) /\ TransitionTo(u, g, to).link = s.link
  <1>1. to \in States
    BY DEF States
  <1>2. Moves(s, TransitionTo(u, g, to), g, Reached(to))
    BY <1>1, QuietThenTo
  <1> QED
    BY <1>2, MovesGood

\* enterStopping keeps the invariant, whatever state the gun is in.
LEMMA ToStopping ==
    ASSUME NEW s, Sound(s), AutoSole(s), NEW g \in Guns, OthersServe(s, g)
    PROVE  Good(EnterStopping(s, g)) /\ EnterStopping(s, g).link = s.link
  BY EnterStoppingFact, StopsGood

\* Doing nothing is quiet.
LEMMA QuietRefl ==
    ASSUME NEW s, Sound(s)
    PROVE  Quiet(s, s)
  BY DEF Quiet, Sound

\* A quiet step keeps the invariant and the links.
LEMMA QuietLink ==
    ASSUME NEW s, NEW t, Good(s), Quiet(s, t)
    PROVE  Good(t) /\ t.link = s.link
  BY QuietGood DEF Quiet

\* Remembering stop_complete is quiet.
LEMMA StopSeenFact ==
    ASSUME NEW s \in Data, NEW g \in Guns
    PROVE  Quiet(s, [s EXCEPT !.gun[g].stopSeen = TRUE])
  <1> DEFINE r == [s.gun[g] EXCEPT !.stopSeen = TRUE]
             t == [s EXCEPT !.gun[g] = r]
  <1>1. s.gun[g] \in GunRec
    BY Parts
  <1>2. r \in GunRec /\ r.state = s.gun[g].state
    BY <1>1 DEF GunRec
  <1>3. t = [s EXCEPT !.gun[g].stopSeen = TRUE]
    OBVIOUS
  <1> HIDE DEF r
  <1>4. t \in Data
    BY <1>2, PutGun, Parts
  <1>5. t.reader = s.reader /\ t.link = s.link /\ t.gun = [s.gun EXCEPT ![g] = r]
    BY DEF Data
  <1> HIDE DEF t
  <1>6. Quiet(s, t)
    BY <1>2, <1>4, <1>5 DEF Quiet, Data
  <1> QED
    BY <1>3, <1>6

\* Noting a stop of the logic's own is quiet.
LEMMA TcuStopFact ==
    ASSUME NEW s \in Data, NEW g \in Guns, NEW b \in BOOLEAN
    PROVE  Quiet(s, [s EXCEPT !.sess[g].tcuStop = b])
  <1> DEFINE o == [s.sess[g] EXCEPT !.tcuStop = b]
             t == [s EXCEPT !.sess[g] = o]
  <1>1. s.sess[g] \in SessRec
    BY Parts
  <1>2. o \in SessRec
    BY <1>1 DEF SessRec
  <1>3. t = [s EXCEPT !.sess[g].tcuStop = b]
    OBVIOUS
  <1> HIDE DEF o
  <1>4. t \in Data
    BY <1>2, PutSess, Parts
  <1>5. t.reader = s.reader /\ t.link = s.link /\ t.gun = s.gun
    BY DEF Data
  <1> HIDE DEF t
  <1>6. Quiet(s, t)
    BY <1>4, <1>5 DEF Quiet
  <1> QED
    BY <1>3, <1>6

\* A plugged gun leaves IDLE for PREPARE only with its meter and its pile up.
LEMMA OnIdleFact ==
    ASSUME NEW s, Good(s), NEW g \in Guns, NEW e
    PROVE  Good(OnIdle(s, g, e)) /\ OnIdle(s, g, e).link = s.link
  <1>1. Sound(s) /\ AutoSole(s) /\ OthersServe(s, g) /\ Quiet(s, s)
    BY GoodOthers, QuietRefl
  <1>2. CASE e = "VEHICLE_CONNECTED" /\ LinkUp(s, g)
    <2>1. OnIdle(s, g, e) = TransitionTo(s, g, "PREPARE")
      BY <1>2 DEF OnIdle, LinkUp
    <2> QED
      BY <1>1, <1>2, <2>1, ToService
  <1>3. CASE \/ e = "VEHICLE_CONNECTED" /\ ~LinkUp(s, g)
             \/ e \in {"TOTAL_FAULT", "DEVICE_ERR"}
    <2>1. OnIdle(s, g, e) = TransitionTo(s, g, "ERROR")
      BY <1>3 DEF OnIdle, LinkUp
    <2> QED
      BY <1>1, <2>1, ToRest
  <1>4. CASE e \notin {"VEHICLE_CONNECTED", "TOTAL_FAULT", "DEVICE_ERR"}
    BY <1>4 DEF OnIdle
  <1> QED
    BY <1>2, <1>3, <1>4

\* PREPARE keeps the invariant under every event.
LEMMA OnPrepareFact ==
    ASSUME NEW s, Good(s), NEW g \in Guns, NEW e, s.gun[g].state = "PREPARE"
    PROVE  Good(OnPrepare(s, g, e)) /\ OnPrepare(s, g, e).link = s.link
  <1>1. /\ Sound(s) /\ AutoSole(s) /\ OthersServe(s, g) /\ s \in Data
        /\ Quiet(s, s) /\ LinkUp(s, g)
    BY GoodOthers, QuietRefl DEF Good, LinksServe, InService
  <1>2. Quiet(s, SendArmedStart(s, g)) /\ Quiet(s, Disarm(s, g))
    BY <1>1, SendFact, DisarmFact
  <1>3. CASE e = "AUTH_OK"
    BY <1>1, <1>2, <1>3, ToService DEF OnPrepare
  <1>4. CASE e = "AUTH_FAIL"
    BY <1>2, <1>4, QuietLink DEF OnPrepare
  <1>5. CASE e \in {"VEHICLE_DISCONNECTED", "RESET_ERROR"}
    BY <1>1, <1>2, <1>5, ToRest DEF OnPrepare
  <1>6. CASE e \in {"TOTAL_FAULT", "DEVICE_ERR"}
    BY <1>1, <1>6, ToRest DEF OnPrepare
  <1>7. CASE e \notin {"AUTH_OK", "AUTH_FAIL", "VEHICLE_DISCONNECTED", "RESET_ERROR",
                       "TOTAL_FAULT", "DEVICE_ERR"}
    BY <1>7 DEF OnPrepare
  <1> QED
    BY <1>3, <1>4, <1>5, <1>6, <1>7

\* STARTING keeps the invariant under every event.
LEMMA OnStartingFact ==
    ASSUME NEW s, Good(s), NEW g \in Guns, NEW e, s.gun[g].state = "STARTING"
    PROVE  Good(OnStarting(s, g, e)) /\ OnStarting(s, g, e).link = s.link
  <1>1. /\ Sound(s) /\ AutoSole(s) /\ OthersServe(s, g) /\ s \in Data
        /\ Quiet(s, s) /\ LinkUp(s, g)
    BY GoodOthers, QuietRefl DEF Good, LinksServe, InService
  <1>2. Quiet(s, [s EXCEPT !.sess[g].tcuStop = FALSE])
    <2> DEFINE b == FALSE
    <2>1. b \in BOOLEAN
      OBVIOUS
    <2> HIDE DEF b
    <2>2. Quiet(s, [s EXCEPT !.sess[g].tcuStop = b])
      BY <1>1, <2>1, TcuStopFact
    <2> QED
      BY <2>2 DEF b
  <1>3. CASE e = "START_COMPLETE_OK"
    <2> DEFINE u == [s EXCEPT !.sess[g].tcuStop = FALSE]
    <2>1. OnStarting(s, g, e) = TransitionTo(u, g, "CHARGING")
      BY <1>3 DEF OnStarting
    <2>2. Quiet(s, u)
      BY <1>2
    <2> HIDE DEF u
    <2> QED
      BY <1>1, <2>1, <2>2, ToService
  <1>4. CASE e \in {"START_COMPLETE_FAIL", "TOTAL_FAULT", "DEVICE_ERR", "STOP_CMD"}
    BY <1>1, <1>4, ToStopping DEF OnStarting
  <1>5. CASE e = "RESET_ERROR"
    BY <1>1, <1>5, ToRest DEF OnStarting
  <1>6. CASE e \notin {"START_COMPLETE_OK", "START_COMPLETE_FAIL", "TOTAL_FAULT",
                       "DEVICE_ERR", "STOP_CMD", "RESET_ERROR"}
    BY <1>6 DEF OnStarting
  <1> QED
    BY <1>3, <1>4, <1>5, <1>6

\* CHARGING keeps the invariant under every event.
LEMMA OnChargingFact ==
    ASSUME NEW s, Good(s), NEW g \in Guns, NEW e
    PROVE  Good(OnCharging(s, g, e)) /\ OnCharging(s, g, e).link = s.link
  <1>1. Good(EnterStopping(s, g)) /\ EnterStopping(s, g).link = s.link
    BY GoodOthers, ToStopping
  <1>2. CASE e = "STOP_COMPLETE"
    <2> DEFINE u == EnterStopping(s, g)
    <2>1. OnCharging(s, g, e) = [u EXCEPT !.gun[g].stopSeen = TRUE]
      BY <1>2 DEF OnCharging
    <2>2. Good(u) /\ u.link = s.link /\ u \in Data
      BY <1>1, GoodOthers
    <2> HIDE DEF u
    <2>3. Quiet(u, [u EXCEPT !.gun[g].stopSeen = TRUE])
      BY <2>2, StopSeenFact
    <2> QED
      BY <2>1, <2>2, <2>3, QuietLink
  <1>3. CASE e \in {"STOP_CMD", "WORKSTATUS_ZERO", "TOTAL_FAULT", "DEVICE_ERR"}
    BY <1>1, <1>3 DEF OnCharging
  <1>4. CASE e \notin {"STOP_COMPLETE", "STOP_CMD", "WORKSTATUS_ZERO", "TOTAL_FAULT",
                       "DEVICE_ERR"}
    BY <1>4 DEF OnCharging
  <1> QED
    BY <1>2, <1>3, <1>4

\* STOPPING keeps the invariant under every event.
LEMMA OnStoppingFact ==
    ASSUME NEW s, Good(s), NEW g \in Guns, NEW e
    PROVE  Good(OnStopping(s, g, e)) /\ OnStopping(s, g, e).link = s.link
  <1>1. Sound(s) /\ AutoSole(s) /\ OthersServe(s, g) /\ s \in Data /\ Quiet(s, s)
    BY GoodOthers, QuietRefl
  <1>2. CASE e = "STOP_COMPLETE"
    BY <1>1, <1>2, StopSeenFact, QuietLink DEF OnStopping
  <1>3. CASE e = "METER_STALE"
    BY <1>1, <1>3, ToRest DEF OnStopping
  <1>4. CASE e \notin {"STOP_COMPLETE", "METER_STALE"}
    BY <1>4 DEF OnStopping
  <1> QED
    BY <1>2, <1>3, <1>4

\* STOPPED keeps the invariant under every event.
LEMMA OnStoppedFact ==
    ASSUME NEW s, Good(s), NEW g \in Guns, NEW e
    PROVE  Good(OnStopped(s, g, e)) /\ OnStopped(s, g, e).link = s.link
  <1>1. Sound(s) /\ AutoSole(s) /\ OthersServe(s, g) /\ Quiet(s, s)
    BY GoodOthers, QuietRefl
  <1>2. CASE e = "VEHICLE_DISCONNECTED"
    BY <1>1, <1>2, ToRest DEF OnStopped
  <1>3. CASE e \in {"TOTAL_FAULT", "DEVICE_ERR"}
    BY <1>1, <1>3, ToRest DEF OnStopped
  <1>4. CASE e \notin {"VEHICLE_DISCONNECTED", "TOTAL_FAULT", "DEVICE_ERR"}
    BY <1>4 DEF OnStopped
  <1> QED
    BY <1>2, <1>3, <1>4

\* ERROR keeps the invariant under every event.
LEMMA OnErrorFact ==
    ASSUME NEW s, Good(s), NEW g \in Guns, NEW e
    PROVE  Good(OnError(s, g, e)) /\ OnError(s, g, e).link = s.link
  <1>1. Sound(s) /\ AutoSole(s) /\ OthersServe(s, g) /\ Quiet(s, s)
    BY GoodOthers, QuietRefl
  <1>2. CASE e = "RESET_ERROR"
    BY <1>1, <1>2, ToRest DEF OnError
  <1>3. CASE e # "RESET_ERROR"
    BY <1>3 DEF OnError
  <1> QED
    BY <1>2, <1>3

\* Whatever the event, the state machine keeps the invariants.
LEMMA HandleEventFact ==
    ASSUME NEW s, Good(s), NEW g \in Guns, NEW e
    PROVE  Good(HandleEvent(s, g, e)) /\ HandleEvent(s, g, e).link = s.link
  BY OnIdleFact, OnPrepareFact, OnStartingFact, OnChargingFact, OnStoppingFact,
     OnStoppedFact, OnErrorFact DEF HandleEvent

\* A fault mends a gun that is in service without its links.
LEMMA DeviceErrFact ==
    ASSUME NEW s, Sound(s), AutoSole(s), NEW g \in Guns, OthersServe(s, g)
    PROVE  Good(HandleEvent(s, g, "DEVICE_ERR"))
  <1>1. s.gun[g].state \in States
    BY Parts DEF Sound, GunRec
  <1>2. Quiet(s, s)
    BY QuietRefl
  <1>3. CASE s.gun[g].state \in {"STARTING", "CHARGING"}
    BY <1>3, ToStopping DEF HandleEvent, OnStarting, OnCharging
  <1>4. CASE s.gun[g].state \in {"IDLE", "PREPARE", "STOPPED"}
    BY <1>2, <1>4, ToRest DEF HandleEvent, OnIdle, OnPrepare, OnStopped
  <1>5. CASE s.gun[g].state \in {"STOPPING", "ERROR"}
    <2>1. HandleEvent(s, g, "DEVICE_ERR") = s
      BY <1>5 DEF HandleEvent, OnStopping, OnError
    <2> QED
      BY <1>5, <2>1 DEF Good, LinksServe, OthersServe, InService
  <1> QED
    BY <1>1, <1>3, <1>4, <1>5 DEF States

-----------------------------------------------------------------------------
(* Changes that no gun's state, the reader or a link takes part in.        *)

\* Quiet steps compose.
LEMMA QuietTrans ==
    ASSUME NEW s, NEW t, NEW u, Quiet(s, t), Quiet(t, u)
    PROVE  Quiet(s, u)
  BY DEF Quiet

\* A new session record is quiet.
LEMMA QuietSess ==
    ASSUME NEW s \in Data, NEW g \in Guns, NEW o \in SessRec
    PROVE  Quiet(s, [s EXCEPT !.sess[g] = o])
  <1> DEFINE t == [s EXCEPT !.sess[g] = o]
  <1>1. t \in Data
    BY PutSess, Parts
  <1>2. t.reader = s.reader /\ t.link = s.link /\ t.gun = s.gun
    BY DEF Data
  <1> HIDE DEF t
  <1>3. Quiet(s, t)
    BY <1>1, <1>2 DEF Quiet
  <1> QED
    BY <1>3 DEF t

\* So is a new session record with a new meter record.
LEMMA QuietSessMeter ==
    ASSUME NEW s \in Data, NEW g \in Guns, NEW o \in SessRec, NEW m \in MeterRec
    PROVE  /\ Quiet(s, [s EXCEPT !.sess[g] = o, !.meter[g] = m])
           /\ Quiet(s, [s EXCEPT !.meter[g] = m])
  <1> DEFINE t == [s EXCEPT !.sess[g] = o, !.meter[g] = m]
             u == [s EXCEPT !.meter[g] = m]
  <1>1. t \in Data /\ u \in Data
    BY PutSess, PutGun, Parts
  <1>2. /\ t.reader = s.reader /\ t.link = s.link /\ t.gun = s.gun
        /\ u.reader = s.reader /\ u.link = s.link /\ u.gun = s.gun
    BY DEF Data
  <1> HIDE DEF t, u
  <1>3. Quiet(s, t) /\ Quiet(s, u)
    BY <1>1, <1>2 DEF Quiet
  <1> QED
    BY <1>3 DEF t, u

\* So is a new card record.
LEMMA QuietCard ==
    ASSUME NEW s \in Data, NEW g \in Guns, NEW c \in CardRec
    PROVE  Quiet(s, [s EXCEPT !.card[g] = c])
  <1> DEFINE t == [s EXCEPT !.card[g] = c]
  <1>1. t \in Data
    BY PutCard
  <1>2. t.reader = s.reader /\ t.link = s.link /\ t.gun = s.gun
    BY DEF Data
  <1> HIDE DEF t
  <1>3. Quiet(s, t)
    BY <1>1, <1>2 DEF Quiet
  <1> QED
    BY <1>3 DEF t

\* So is a new gun record in the same state.
LEMMA QuietGun ==
    ASSUME NEW s \in Data, NEW g \in Guns, NEW r \in GunRec, r.state = s.gun[g].state
    PROVE  Quiet(s, [s EXCEPT !.gun[g] = r])
  <1> DEFINE t == [s EXCEPT !.gun[g] = r]
  <1>1. t \in Data
    BY PutGun, Parts
  <1>2. t.reader = s.reader /\ t.link = s.link /\ t.gun = [s.gun EXCEPT ![g] = r]
    BY DEF Data
  <1> HIDE DEF t
  <1>3. Quiet(s, t)
    BY <1>1, <1>2 DEF Quiet, Data
  <1> QED
    BY <1>3 DEF t

\* The reason of a stop may be noted at any time.
LEMMA ReasonFact ==
    ASSUME NEW s \in Data, NEW g \in Guns, NEW b \in Reasons
    PROVE  Quiet(s, [s EXCEPT !.sess[g].reason = b])
  <1> DEFINE o == [s.sess[g] EXCEPT !.reason = b]
  <1>1. s.sess[g] \in SessRec
    BY Parts
  <1>2. o \in SessRec
    BY <1>1 DEF SessRec
  <1>3. [s EXCEPT !.sess[g] = o] = [s EXCEPT !.sess[g].reason = b]
    OBVIOUS
  <1> HIDE DEF o
  <1>4. Quiet(s, [s EXCEPT !.sess[g] = o])
    BY <1>2, QuietSess
  <1> QED
    BY <1>3, <1>4

\* Noting a reason of the logic's own is quiet.
LEMMA ReasonNoted ==
    ASSUME NEW s \in Data, NEW g \in Guns
    PROVE  /\ Quiet(s, [s EXCEPT !.sess[g].reason = "fault"])
           /\ Quiet(s, [s EXCEPT !.sess[g].reason = "normal"])
  BY ReasonFact DEF Reasons

\* Setting tcuStopReqSent is quiet.
LEMMA TcuStopTrue ==
    ASSUME NEW s \in Data, NEW g \in Guns
    PROVE  Quiet(s, [s EXCEPT !.sess[g].tcuStop = TRUE])
  <1> DEFINE b == TRUE
  <1>1. b \in BOOLEAN
    OBVIOUS
  <1> HIDE DEF b
  <1>2. Quiet(s, [s EXCEPT !.sess[g].tcuStop = b])
    BY <1>1, TcuStopFact
  <1> QED
    BY <1>2 DEF b

\* After a quiet change every event keeps the invariants still.
LEMMA QuietEvent ==
    ASSUME NEW s, Good(s), NEW t, Quiet(s, t), NEW g \in Guns, NEW e
    PROVE  Good(HandleEvent(t, g, e))
  BY QuietGood, HandleEventFact

-----------------------------------------------------------------------------
(* Orders and starts.                                                      *)

\* Setting the prepaid amount is quiet.
LEMMA PrechargeFact ==
    ASSUME NEW s \in Data, NEW g \in Guns, NEW x \in Readings
    PROVE  Quiet(s, [s EXCEPT !.sess[g].precharge = x])
  <1> DEFINE o == [s.sess[g] EXCEPT !.precharge = x]
  <1>1. s.sess[g] \in SessRec
    BY Parts
  <1>2. o \in SessRec
    BY <1>1 DEF SessRec
  <1>3. [s EXCEPT !.sess[g] = o] = [s EXCEPT !.sess[g].precharge = x]
    OBVIOUS
  <1> HIDE DEF o
  <1>4. Quiet(s, [s EXCEPT !.sess[g] = o])
    BY <1>2, QuietSess
  <1> QED
    BY <1>3, <1>4

\* Settling a pair on the smaller amount is quiet.
LEMMA SyncFact ==
    ASSUME NEW s \in Data, NEW g \in Guns
    PROVE  Quiet(s, SyncMergePrechargeAmount(s, g))
  <1> DEFINE p == Peer(g)
             x == Least(s.sess[g].precharge, s.sess[p].precharge)
             t == [s EXCEPT !.sess[g].precharge = x]
             u == [t EXCEPT !.sess[p].precharge = x]
  <1>1. CASE SyncMergePrechargeAmount(s, g) = s
    BY <1>1 DEF Quiet
  <1>2. CASE HasPeer(g) /\ SyncMergePrechargeAmount(s, g)
                             = [s EXCEPT !.sess[g].precharge = x, !.sess[p].precharge = x]
    <2>1. p \in Guns
      BY <1>2 DEF HasPeer
    <2>2. s.sess[g] \in SessRec /\ s.sess[p] \in SessRec
      BY <2>1, Parts
    <2>3. x \in Readings
      BY <2>2 DEF SessRec, Least
    <2> HIDE DEF x, p
    <2>4. Quiet(s, t)
      BY <2>3, PrechargeFact
    <2>5. t \in Data
      BY <2>4 DEF Quiet
    <2>6. Quiet(t, u)
      <3> HIDE DEF t
      <3> QED
        BY <2>1, <2>3, <2>5, PrechargeFact
    <2>7. u = [s EXCEPT !.sess[g].precharge = x, !.sess[p].precharge = x]
      OBVIOUS
    <2> HIDE DEF t, u
    <2> QED
      BY <1>2, <2>4, <2>6, <2>7, QuietTrans DEF p, x
  <1>3. \/ SyncMergePrechargeAmount(s, g) = s
        \/ HasPeer(g) /\ SyncMergePrechargeAmount(s, g)
                           = [s EXCEPT !.sess[g].precharge = x, !.sess[p].precharge = x]
    BY DEF SyncMergePrechargeAmount, MergedPair
  <1> QED
    BY <1>1, <1>2, <1>3

\* Opening an order is quiet.
LEMMA UpdateAuthFact ==
    ASSUME NEW s \in Data, NEW g \in Guns, NEW c \in StartData,
           s.sess[g].issued < MaxOrder
    PROVE  Quiet(s, UpdateAuthBasis(s, g, c))
  <1> DEFINE o == [s.sess[g] EXCEPT !.basis = TRUE, !.merge = c.merge,
                                    !.order = s.sess[g].issued + 1,
                                    !.issued = s.sess[g].issued + 1,
                                    !.precharge = c.precharge,
                                    !.tcuStop = FALSE, !.reason = "none"]
             m == [s.meter[g] EXCEPT !.stable = 0, !.ready = c.model, !.based = FALSE,
                                     !.last = 0, !.total = 0]
             t == [s EXCEPT !.sess[g] = o, !.meter[g] = m]
  <1>1. s.sess[g] \in SessRec /\ s.meter[g] \in MeterRec
    BY Parts
  <1>2. s.sess[g].issued + 1 \in Orders
    BY <1>1, BoundAssumption DEF SessRec, Orders
  <1>3. o \in SessRec
    BY <1>1, <1>2 DEF SessRec, StartData, Reasons
  <1>4. m \in MeterRec
    <2>1. 0 \in 0 .. 3 /\ 0 \in Readings /\ 0 \in Nat /\ c.model \in BOOLEAN
      BY BoundAssumption DEF Readings, StartData
    <2> QED
      BY <1>1, <2>1 DEF MeterRec
  <1>5. UpdateAuthBasis(s, g, c) = SyncMergePrechargeAmount(t, g)
    BY DEF UpdateAuthBasis
  <1> HIDE DEF o, m
  <1>6. Quiet(s, t)
    BY <1>3, <1>4, QuietSessMeter
  <1> HIDE DEF t
  <1>7. Quiet(t, SyncMergePrechargeAmount(t, g))
    BY <1>6, SyncFact DEF Quiet
  <1> QED
    BY <1>5, <1>6, <1>7, QuietTrans

\* Arming a start is quiet.
LEMMA ArmFact ==
    ASSUME NEW s \in Data, NEW g \in Guns, NEW c \in StartData,
           s.sess[g].issued < MaxOrder
    PROVE  Quiet(s, ArmPendingStart(s, g, c))
  <1> DEFINE t == UpdateAuthBasis(s, g, c)
             o == [t.sess[g] EXCEPT !.armed = TRUE]
  <1>1. Quiet(s, t) /\ t \in Data
    BY UpdateAuthFact DEF Quiet
  <1>2. ArmPendingStart(s, g, c) = [t EXCEPT !.sess[g] = o]
    BY DEF ArmPendingStart
  <1> HIDE DEF t
  <1>3. t.sess[g] \in SessRec
    BY <1>1, Parts
  <1>4. o \in SessRec
    BY <1>3 DEF SessRec
  <1> HIDE DEF o
  <1>5. Quiet(t, [t EXCEPT !.sess[g] = o])
    BY <1>1, <1>4, QuietSess
  <1> QED
    BY <1>1, <1>2, <1>5, QuietTrans

\* Dispatching an armed start keeps the invariant.
LEMMA DispatchFact ==
    ASSUME NEW s, Good(s), NEW g \in Guns
    PROVE  Good(DispatchArmedStart(s, g))
  BY HandleEventFact DEF DispatchArmedStart

\* Dispatching a merged pair keeps the invariant.
LEMMA TryDispatchFact ==
    ASSUME NEW s, Good(s), NEW g \in Guns
    PROVE  Good(TryDispatchMergePendingStart(s, g))
  <1> DEFINE p == Peer(g)
             t == SyncMergePrechargeAmount(s, g)
             u == SyncMergePrechargeAmount(t, p)
  <1>1. CASE TryDispatchMergePendingStart(s, g) = s
    BY <1>1
  <1>2. CASE HasPeer(g) /\ TryDispatchMergePendingStart(s, g)
                             = DispatchArmedStart(DispatchArmedStart(u, g), p)
    <2>1. p \in Guns
      BY <1>2 DEF HasPeer
    <2>2. Good(t)
      BY GoodOthers, SyncFact, QuietGood
    <2> HIDE DEF t, p
    <2>3. Good(u)
      BY <2>1, <2>2, GoodOthers, SyncFact, QuietGood
    <2> HIDE DEF u
    <2>4. Good(DispatchArmedStart(u, g))
      BY <2>3, DispatchFact
    <2>5. Good(DispatchArmedStart(DispatchArmedStart(u, g), p))
      BY <2>1, <2>4, DispatchFact
    <2> QED
      BY <1>2, <2>5 DEF u, t, p
  <1>3. \/ TryDispatchMergePendingStart(s, g) = s
        \/ HasPeer(g) /\ TryDispatchMergePendingStart(s, g)
                           = DispatchArmedStart(DispatchArmedStart(u, g), p)
    BY DEF TryDispatchMergePendingStart
  <1> QED
    BY <1>1, <1>2, <1>3

\* A reader that no longer waits suits every gun.
LEMMA ResetReaderGood ==
    ASSUME NEW s, Good(s)
    PROVE  Good(ResetCardReaderState(s))
  <1> DEFINE t == ResetCardReaderState(s)
  <1>1. s \in Data
    BY DEF Good, Sound
  <1>2. /\ t \in Data
        /\ t.gun = s.gun
        /\ t.link = s.link
        /\ t.reader.phase = "idle"
        /\ ~t.reader.auto
    BY <1>1, ResetReaderFact
  <1> HIDE DEF t
  <1>3. Good(t)
    BY <1>2 DEF Good, Sound, AutoAllowed, AutoSole, IsAutoWaiting, LinksServe,
                InService, LinkUp
  <1> QED
    BY <1>3 DEF t

\* A card start keeps the invariant, in whatever state it finds the gun.
LEMMA BeginCardFact ==
    ASSUME NEW s, Good(s), NEW g \in Guns, s.sess[g].issued < MaxOrder
    PROVE  Good(BeginOfflineCardCharge(s, g))
  <1> DEFINE data == [merge |-> s.card[g].ask.merge, precharge |-> 0,
                      model |-> \/ CardFeeFallback
                                \/ s.card[g].ask.model
                                \/ s.meter[g].ready]
             c == [s.card[g] EXCEPT !.active = TRUE, !.swiped = FALSE]
             t == [s EXCEPT !.card[g] = c]
             u == ArmPendingStart(t, g, data)
             d == [u.card[g] EXCEPT !.ask = NoAsk]
             v == [u EXCEPT !.card[g] = d]
  <1>1. s \in Data /\ s.card[g] \in CardRec /\ s.meter[g] \in MeterRec
    BY GoodOthers, Parts
  <1>2. data \in StartData
    <2>1. s.card[g].ask.merge \in BOOLEAN /\ s.card[g].ask.model \in BOOLEAN
      BY <1>1 DEF CardRec, AskRec
    <2>2. 0 \in Readings
      BY BoundAssumption DEF Readings
    <2> QED
      BY <1>1, <2>1, <2>2, SwitchAssumption DEF StartData, MeterRec
  <1>3. c \in CardRec
    BY <1>1 DEF CardRec
  <1>4. BeginOfflineCardCharge(s, g) = DispatchArmedStart(ResetCardReaderState(v), g)
    BY DEF BeginOfflineCardCharge
  <1> HIDE DEF c, data
  <1>5. Quiet(s, t)
    BY <1>1, <1>3, QuietCard
  <1>6. t.sess = s.sess
    BY <1>1 DEF Data
  <1> HIDE DEF t
  <1>7. Quiet(t, u) /\ u \in Data
    BY <1>2, <1>5, <1>6, ArmFact DEF Quiet
  <1> HIDE DEF u
  <1>8. u.card[g] \in CardRec
    BY <1>7, Parts
  <1>9. d \in CardRec
    BY <1>8 DEF CardRec, NoAsk, AskRec
  <1> HIDE DEF d
  <1>10. Quiet(u, v)
    BY <1>7, <1>9, QuietCard
  <1> HIDE DEF v
  <1>11. Good(v)
    BY <1>5, <1>7, <1>10, QuietGood
  <1> QED
    BY <1>4, <1>11, ResetReaderGood, DispatchFact

-----------------------------------------------------------------------------
(* Metering and the fee.                                                   *)

\* A reading keeps the meter typed.
LEMMA TakeReadingFact ==
    ASSUME NEW m \in MeterRec, NEW kwh \in Readings
    PROVE  TakeReading(m, kwh) \in MeterRec
  <1> DEFINE n == IF ~m.known \/ kwh # m.value THEN 0 ELSE Least(m.stable + 1, 3)
  <1>1. m.stable \in 0 .. 3
    BY DEF MeterRec
  <1>2. n \in 0 .. 3
    BY <1>1 DEF Least
  <1>3. TakeReading(m, kwh) = [m EXCEPT !.known = TRUE, !.value = kwh, !.stable = n]
    BY DEF TakeReading
  <1> HIDE DEF n
  <1>4. [m EXCEPT !.known = TRUE, !.value = kwh, !.stable = n] \in MeterRec
    BY <1>2 DEF MeterRec
  <1> QED
    BY <1>3, <1>4

\* A voltage keeps the meter typed.
LEMMA TakeVoltageFact ==
    ASSUME NEW m \in MeterRec, NEW volt \in {"low", "normal"}, NEW charging \in BOOLEAN
    PROVE  TakeVoltage(m, volt, charging) \in MeterRec
  BY DEF TakeVoltage, MeterRec

\* A reading never lowers the total.
LEMMA BillFact ==
    ASSUME NEW m \in MeterRec, NEW kwh \in Readings
    PROVE  BillReading(m, kwh) \in MeterRec /\ BillReading(m, kwh).total >= m.total
  <1>1. /\ m.total \in Nat /\ m.last \in Nat /\ m.last \in Readings /\ kwh \in Nat
        /\ m.ready \in BOOLEAN /\ m.based \in BOOLEAN
    BY BoundAssumption DEF MeterRec, Readings
  <1>2. CASE ~m.ready
    BY <1>1, <1>2 DEF BillReading
  <1>3. CASE m.ready /\ ~m.based
    <2>1. BillReading(m, kwh) = [m EXCEPT !.based = TRUE, !.last = kwh]
      BY <1>3 DEF BillReading
    <2>2. /\ [m EXCEPT !.based = TRUE, !.last = kwh] \in MeterRec
          /\ [m EXCEPT !.based = TRUE, !.last = kwh].total = m.total
      BY DEF MeterRec
    <2> QED
      BY <1>1, <2>1, <2>2
  <1>4. CASE m.ready /\ m.based
    <2> DEFINE x == IF kwh > m.last THEN m.total + (kwh - m.last) ELSE m.total
    <2>1. x \in Nat /\ x >= m.total
      BY <1>1
    <2>2. BillReading(m, kwh) = [m EXCEPT !.last = kwh, !.total = x]
      BY <1>4 DEF BillReading
    <2> HIDE DEF x
    <2>3. /\ [m EXCEPT !.last = kwh, !.total = x] \in MeterRec
          /\ [m EXCEPT !.last = kwh, !.total = x].total = x
      BY <2>1 DEF MeterRec
    <2> QED
      BY <2>1, <2>2, <2>3
  <1> QED
    BY <1>1, <1>2, <1>3, <1>4

\* A meter packet is quiet.
LEMMA MeterDataFact ==
    ASSUME NEW s \in Data, NEW g \in Guns, NEW kwh \in Readings,
           NEW volt \in {"low", "normal"}
    PROVE  Quiet(s, HandleMeterData(s, g, kwh, volt))
  <1> DEFINE charging == s.gun[g].state = "CHARGING"
             taken == TakeReading(s.meter[g], kwh)
             read == TakeVoltage(taken, volt, charging)
             m == IF s.gun[g].state \in {"CHARGING", "STOPPING"}
                  THEN BillReading(read, kwh) ELSE read
  <1>1. s.meter[g] \in MeterRec
    BY Parts
  <1>2. taken \in MeterRec
    BY <1>1, TakeReadingFact
  <1>3. charging \in BOOLEAN
    OBVIOUS
  <1>4. HandleMeterData(s, g, kwh, volt) = [s EXCEPT !.meter[g] = m]
    BY DEF HandleMeterData
  <1> HIDE DEF taken, charging
  <1>5. read \in MeterRec
    BY <1>2, <1>3, TakeVoltageFact
  <1> HIDE DEF read
  <1>6. m \in MeterRec
    BY <1>5, BillFact
  <1> HIDE DEF m
  <1>7. Quiet(s, [s EXCEPT !.meter[g] = m])
    BY <1>6, QuietSessMeter, Parts
  <1> QED
    BY <1>4, <1>7

\* A stop of the logic's own keeps the invariant.
LEMMA RequestStopFact ==
    ASSUME NEW s, Good(s), NEW g \in Guns
    PROVE  Good(RequestStop(s, g))
  <1>1. Quiet(s, [s EXCEPT !.sess[g].tcuStop = TRUE])
    BY GoodOthers, TcuStopTrue
  <1> QED
    BY <1>1, QuietEvent DEF RequestStop

\* The stop at the prepaid amount keeps the invariant, for a pair as for one gun.
LEMMA PrepaidFact ==
    ASSUME NEW s, Good(s), NEW g \in Guns
    PROVE  Good(MaybeTriggerTcuStopByPrecharge(s, g))
  <1> DEFINE t == RequestStop(s, g)
             r == MaybeTriggerTcuStopByPrecharge(s, g)
  <1>1. Good(t)
    BY RequestStopFact
  <1>2. r = s \/ r = t \/ (HasPeer(g) /\ r = RequestStop(t, Peer(g)))
    BY DEF MaybeTriggerTcuStopByPrecharge, RequestPeerStop
  <1> HIDE DEF t, r
  <1>3. HasPeer(g) => Good(RequestStop(t, Peer(g)))
    BY <1>1, RequestStopFact DEF HasPeer
  <1>4. Good(r)
    BY <1>1, <1>2, <1>3
  <1> QED
    BY <1>4 DEF r

-----------------------------------------------------------------------------
(* The links.                                                              *)

WithLink(s, g, l, r) == [s EXCEPT !.link[g][l] = r]

\* A new link record touches that link only.
LEMMA LinkFact ==
    ASSUME NEW s \in Data, NEW g \in Guns, NEW l \in Links, NEW r \in LinkRec
    PROVE  LET t == WithLink(s, g, l, r)
           IN  /\ t \in Data
               /\ t.gun = s.gun
               /\ t.reader = s.reader
               /\ \A h \in Guns \ {g} : t.link[h] = s.link[h]
               /\ t.link[g][l] = r
               /\ \A k \in Links \ {l} : t.link[g][k] = s.link[g][k]
  <1> DEFINE b == [s.link[g] EXCEPT ![l] = r]
             t == [s EXCEPT !.link[g] = b]
  <1>1. s.link[g] \in [Links -> LinkRec]
    BY Parts
  <1>2. /\ b \in [Links -> LinkRec]
        /\ b[l] = r
        /\ \A k \in Links \ {l} : b[k] = s.link[g][k]
    BY <1>1
  <1>3. WithLink(s, g, l, r) = t
    BY DEF WithLink
  <1> HIDE DEF b
  <1>4. t \in Data
    BY <1>2 DEF Data
  <1>5. t.gun = s.gun /\ t.reader = s.reader /\ t.link = [s.link EXCEPT ![g] = b]
    BY DEF Data
  <1>6. /\ \A h \in Guns \ {g} : t.link[h] = s.link[h]
        /\ t.link[g] = b
    BY <1>5 DEF Data
  <1> HIDE DEF t
  <1> QED
    BY <1>2, <1>3, <1>4, <1>5, <1>6

\* A link of gun g has no part in what the other guns rest on.
LEMMA LinkOthers ==
    ASSUME NEW s, Good(s), NEW g \in Guns, NEW l \in Links, NEW r \in LinkRec
    PROVE  LET t == WithLink(s, g, l, r)
           IN  /\ Sound(t)
               /\ AutoSole(t)
               /\ OthersServe(t, g)
               /\ t \in Data
               /\ t.gun = s.gun
  <1> DEFINE t == WithLink(s, g, l, r)
  <1>1. s \in Data
    BY DEF Good, Sound
  <1>2. /\ t \in Data
        /\ t.gun = s.gun
        /\ t.reader = s.reader
        /\ \A h \in Guns \ {g} : t.link[h] = s.link[h]
    BY <1>1, LinkFact
  <1> HIDE DEF t
  <1>3. Sound(t) /\ AutoSole(t) /\ OthersServe(t, g)
    BY <1>2 DEF Good, Sound, AutoAllowed, AutoSole, IsAutoWaiting, IsSolePrepare,
                LinksServe, OthersServe, InService, LinkUp
  <1> QED
    BY <1>2, <1>3 DEF t

\* A link that is not made worse changes nothing for its gun either.
LEMMA LinkGood ==
    ASSUME NEW s, Good(s), NEW g \in Guns, NEW l \in Links, NEW r \in LinkRec,
           r.fault => s.link[g][l].fault
    PROVE  Good(WithLink(s, g, l, r))
  <1> DEFINE t == WithLink(s, g, l, r)
  <1>1. s \in Data
    BY DEF Good, Sound
  <1>2. /\ t.gun = s.gun
        /\ t.link[g][l] = r
        /\ \A k \in Links \ {l} : t.link[g][k] = s.link[g][k]
    BY <1>1, LinkFact
  <1>3. Sound(t) /\ AutoSole(t) /\ OthersServe(t, g)
    BY LinkOthers
  <1> HIDE DEF t
  <1>4. InService(t, g) => LinkUp(t, g)
    BY <1>2 DEF Good, LinksServe, InService, LinkUp, Links
  <1>5. Good(t)
    BY <1>3, <1>4 DEF Good, LinksServe, OthersServe
  <1> QED
    BY <1>5 DEF t

\* A link that is up again breaks nothing.
LEMMA ClearedGood ==
    ASSUME NEW s, Good(s), NEW g \in Guns, NEW l \in Links
    PROVE  Good([s EXCEPT !.link[g][l] = Cleared])
  <1>1. Cleared \in LinkRec /\ ~Cleared.fault
    BY DEF Cleared, LinkRec
  <1>2. Good(WithLink(s, g, l, Cleared))
    BY <1>1, LinkGood
  <1> QED
    BY <1>2 DEF WithLink

\* Opening the confirmation window keeps the invariant.
LEMMA NoteOfflineFact ==
    ASSUME NEW s, Good(s), NEW g \in Guns, NEW l \in Links
    PROVE  Good(NoteOffline(s, g, l))
  <1> DEFINE r == [s.link[g][l] EXCEPT !.pending = TRUE]
  <1>1. s.link[g][l] \in LinkRec
    BY GoodOthers, Parts
  <1>2. r \in LinkRec /\ r.fault = s.link[g][l].fault
    BY <1>1 DEF LinkRec
  <1>3. NoteOffline(s, g, l) = s \/ NoteOffline(s, g, l) = WithLink(s, g, l, r)
    BY DEF NoteOffline, WithLink
  <1> HIDE DEF r
  <1>4. Good(WithLink(s, g, l, r))
    BY <1>2, LinkGood
  <1> QED
    BY <1>3, <1>4

\* A gun leaves ERROR for PREPARE only when every link is up.
LEMMA NoteOnlineFact ==
    ASSUME NEW s, Good(s), NEW g \in Guns, NEW l \in Links
    PROVE  Good(NoteOnline(s, g, l))
  <1> DEFINE t == [s EXCEPT !.link[g][l] = Cleared]
             n == NoteOnline(s, g, l)
  <1>1. Good(t)
    BY ClearedGood
  <1>2. \/ n = t
        \/ (\A k \in Links : ~t.link[g][k].fault) /\ n = TransitionTo(t, g, "PREPARE")
        \/ n = TransitionTo(t, g, "IDLE")
    BY DEF NoteOnline
  <1> HIDE DEF t, n
  <1>3. Sound(t) /\ AutoSole(t) /\ OthersServe(t, g) /\ Quiet(t, t)
    BY <1>1, GoodOthers, QuietRefl
  <1>4. Good(TransitionTo(t, g, "IDLE"))
    BY <1>3, ToRest
  <1>5. (\A k \in Links : ~t.link[g][k].fault) => Good(TransitionTo(t, g, "PREPARE"))
    BY <1>3, ToService DEF LinkUp, Links
  <1>6. Good(n)
    BY <1>1, <1>2, <1>4, <1>5
  <1> QED
    BY <1>6 DEF n

\* A confirmed fault takes the gun out of service within the same call.
LEMMA ConfirmFact ==
    ASSUME NEW s, Good(s), NEW g \in Guns, NEW l \in Links
    PROVE  Good(ConfirmOffline(s, g, l))
  <1> DEFINE r == [fault |-> TRUE, latched |-> TRUE, pending |-> FALSE]
             t == LatchFault(s, g, l)
             st == s.gun[g].state
             b == IF st \in {"STARTING", "CHARGING"} THEN "fault"
                  ELSE t.sess[g].reason
             u == [t EXCEPT !.sess[g].reason = b]
  <1>1. r \in LinkRec
    BY DEF LinkRec
  <1>2. t = WithLink(s, g, l, r)
    BY DEF LatchFault, WithLink
  <1>3. ConfirmOffline(s, g, l) = IF st = "STOPPING" THEN t
                                  ELSE HandleEvent(u, g, "DEVICE_ERR")
    BY DEF ConfirmOffline
  <1> HIDE DEF r, t
  <1>4. Sound(t) /\ AutoSole(t) /\ OthersServe(t, g) /\ t \in Data /\ t.gun = s.gun
    BY <1>1, <1>2, LinkOthers
  <1>5. CASE st # "STOPPING"
    <2>1. b \in Reasons
      BY <1>4, Parts DEF SessRec, Reasons
    <2> HIDE DEF b
    <2>2. Quiet(t, u)
      BY <1>4, <2>1, ReasonFact
    <2> HIDE DEF u
    <2>3. Sound(u) /\ AutoSole(u) /\ OthersServe(u, g)
      BY <1>4, <2>2, QuietSound DEF Quiet, AutoSole, IsAutoWaiting, IsSolePrepare,
                                    OthersServe, InService, LinkUp
    <2> QED
      BY <1>3, <1>5, <2>3, DeviceErrFact
  <1>6. CASE st = "STOPPING"
    <2>1. ~InService(t, g)
      BY <1>4, <1>6 DEF InService
    <2> QED
      BY <1>3, <1>4, <1>6, <2>1 DEF Good, LinksServe, OthersServe
  <1> QED
    BY <1>5, <1>6

-----------------------------------------------------------------------------
(* One iteration of the main loop on a gun.                                *)

\* The limits of STARTING keep the invariant.
LEMMA PollStartingFact ==
    ASSUME NEW s, Good(s), NEW g \in Guns, NEW due
    PROVE  Good(PollStarting(s, g, due))
  <1> DEFINE r == [s.gun[g] EXCEPT !.retried = TRUE, !.sent = "start_charge"]
             again == [s EXCEPT !.gun[g] = r]
             t == IF "starting_30s" \in due /\ ~s.gun[g].retried THEN again ELSE s
             u == [t EXCEPT !.sess[g].reason = "fault"]
  <1>1. s \in Data /\ s.gun[g] \in GunRec
    BY GoodOthers, Parts
  <1>2. r \in GunRec /\ r.state = s.gun[g].state
    BY <1>1 DEF GunRec
  <1>3. PollStarting(s, g, due) = IF "starting_60s" \in due
                                  THEN HandleEvent(u, g, "STOP_CMD") ELSE t
    BY DEF PollStarting
  <1> HIDE DEF r
  <1>4. Good(again)
    BY <1>1, <1>2, QuietGun, QuietGood
  <1> HIDE DEF again
  <1>5. Good(t)
    BY <1>4
  <1> HIDE DEF t
  <1>6. Quiet(t, u)
    BY <1>5, GoodOthers, ReasonNoted
  <1> QED
    BY <1>3, <1>5, <1>6, QuietEvent

\* The end of the settlement keeps the invariant.
LEMMA PollStoppingFact ==
    ASSUME NEW s, Good(s), NEW g \in Guns, NEW due
    PROVE  Good(PollStopping(s, g, due))
  BY HandleEventFact DEF PollStopping

\* The checks of CHARGING keep the invariant.
LEMMA PollChargingFact ==
    ASSUME NEW s, Good(s), NEW g \in Guns, NEW due
    PROVE  Good(PollCharging(s, g, due))
  <1> DEFINE t == MaybeTriggerTcuStopByPrecharge(s, g)
             u == [t EXCEPT !.sess[g].reason = "fault"]
             p == PollCharging(s, g, due)
  <1>1. Good(t)
    BY PrepaidFact
  <1>2. p = t \/ p = HandleEvent(u, g, "DEVICE_ERR")
    BY DEF PollCharging, MaybeTriggerMeteringAbnormal
  <1> HIDE DEF t, p
  <1>3. Quiet(t, u)
    BY <1>1, GoodOthers, ReasonNoted
  <1>4. Good(p)
    BY <1>1, <1>2, <1>3, QuietEvent
  <1> QED
    BY <1>4 DEF p

\* The checks of the session's state keep the invariant.
LEMMA PollSessionFact ==
    ASSUME NEW s, Good(s), NEW g \in Guns, NEW due
    PROVE  Good(PollSession(s, g, due))
  <1>1. /\ Good(PollCharging(s, g, due))
        /\ Good(PollStarting(s, g, due))
        /\ Good(PollStopping(s, g, due))
    BY PollChargingFact, PollStartingFact, PollStoppingFact
  <1> QED
    BY <1>1 DEF PollSession

\* The three watched links.
LEMMA LinkNames == {"meter", "platform", "pile"} \subseteq Links
  BY DEF Links

\* A check passes on its data in a record of two fields.
Checked(i) == i = [data |-> i.data, over |-> i.over] /\ Good(i.data)

\* Each of the four checks of the links keeps the invariant.
LEMMA ChecksFact ==
    ASSUME NEW i, Checked(i), NEW g \in Guns, NEW due
    PROVE  /\ Checked(MaybeConfirmMeterOfflineFault(i, g, due))
           /\ Checked(MaybeConfirmPlatformOfflineFault(i, g, due))
           /\ Checked(MaybeConfirmPileYxTimeoutFault(i, g, due))
           /\ Checked(MaybeConfirmPileOfflineFault(i, g, due))
  <1>1. /\ Checked(Confirm(i, g, "meter"))
        /\ Checked(Confirm(i, g, "platform"))
        /\ Checked(Confirm(i, g, "pile"))
    <2>1. ASSUME NEW l \in Links
          PROVE  Checked(Confirm(i, g, l))
      BY ConfirmFact DEF Checked, Confirm
    <2> QED
      BY <2>1, LinkNames
  <1>2. Checked([i EXCEPT !.data.link[g]["platform"] = Cleared])
    <2> DEFINE t == [i.data EXCEPT !.link[g]["platform"] = Cleared]
    <2>1. Good(t)
      BY LinkNames, ClearedGood DEF Checked
    <2>2. [i EXCEPT !.data.link[g]["platform"] = Cleared] = [data |-> t, over |-> i.over]
      BY DEF Checked
    <2> HIDE DEF t
    <2>3. Checked([data |-> t, over |-> i.over])
      BY <2>1 DEF Checked
    <2> QED
      BY <2>2, <2>3
  <1>3. Checked(MaybeConfirmMeterOfflineFault(i, g, due))
    BY <1>1 DEF MaybeConfirmMeterOfflineFault
  <1>4. Checked(MaybeConfirmPlatformOfflineFault(i, g, due))
    BY <1>1, <1>2 DEF MaybeConfirmPlatformOfflineFault
  <1>5. Checked(MaybeConfirmPileYxTimeoutFault(i, g, due))
    BY <1>1 DEF MaybeConfirmPileYxTimeoutFault
  <1>6. Checked(MaybeConfirmPileOfflineFault(i, g, due))
    BY <1>1 DEF MaybeConfirmPileOfflineFault
  <1> QED
    BY <1>3, <1>4, <1>5, <1>6

\* The checks of the links keep the invariant.
LEMMA CheckLinksFact ==
    ASSUME NEW s, Good(s), NEW g \in Guns, NEW due
    PROVE  Good(CheckLinks(s, g, due).data)
  <1> DEFINE a == [data |-> s, over |-> FALSE]
             b == MaybeConfirmMeterOfflineFault(a, g, due)
             c == MaybeConfirmPlatformOfflineFault(b, g, due)
             d == MaybeConfirmPileYxTimeoutFault(c, g, due)
             e == MaybeConfirmPileOfflineFault(d, g, due)
  <1>1. Checked(a)
    BY DEF Checked
  <1>2. CheckLinks(s, g, due) = e
    BY DEF CheckLinks
  <1> HIDE DEF a
  <1>3. Checked(b)
    BY <1>1, ChecksFact
  <1> HIDE DEF b
  <1>4. Checked(c)
    BY <1>3, ChecksFact
  <1> HIDE DEF c
  <1>5. Checked(d)
    BY <1>4, ChecksFact
  <1> HIDE DEF d
  <1>6. Checked(e)
    BY <1>5, ChecksFact
  <1> QED
    BY <1>2, <1>6 DEF Checked

\* One iteration of the main loop on a gun keeps the invariant.
LEMMA PollGunFact ==
    ASSUME NEW s, Good(s), NEW g \in Guns, NEW due
    PROVE  Good(PollGun(s, g, due))
  BY CheckLinksFact, PollSessionFact DEF PollGun, FinishIteration

-----------------------------------------------------------------------------
(* The actions: each leaves data behind that keeps the invariants.         *)

CanLeaveGood == \E s : Good(s) /\ Become(s)

\* The data of the process and its variables.
LEMMA NowFact ==
    /\ Now.gun = gun
    /\ Now.sess = sess
    /\ Now.meter = meter
    /\ Now.card = card
    /\ Now.link = link
    /\ Now.reader = reader
    /\ Now.ledger = ledger
  BY DEF Now

\* The starts of the HMI and of the platform keep the invariant.
LEMMA StartsFact ==
    ASSUME Good(Now), NEW g \in Guns, HmiStart(g) \/ PlatformStart(g)
    PROVE  CanLeaveGood
  <1>1. PICK c \in StartCmds :
           LET armed == ArmPendingStart(Now, g, c)
           IN  \/ Become(DispatchArmedStart(armed, g))
               \/ Become(TryDispatchMergePendingStart(armed, g))
    BY DEF HmiStart, PlatformStart
  <1>2. c \in StartData
    BY InputAssumption
  <1>3. Now.sess[g].issued < MaxOrder
    BY NowFact DEF HmiStart, PlatformStart, CanOpenOrder
  <1> DEFINE s == Now
             armed == ArmPendingStart(s, g, c)
  <1>4. Good(armed)
    <2>1. Good(s) /\ s.sess[g].issued < MaxOrder
      BY <1>3
    <2> HIDE DEF s
    <2>2. s \in Data
      BY <2>1, GoodOthers
    <2>3. Quiet(s, armed)
      BY <1>2, <2>1, <2>2, ArmFact
    <2> QED
      BY <2>1, <2>3, QuietGood
  <1>5. Good(DispatchArmedStart(armed, g)) /\ Good(TryDispatchMergePendingStart(armed, g))
    <2> HIDE DEF armed
    <2> QED
      BY <1>4, DispatchFact, TryDispatchFact
  <1> QED
    BY <1>1, <1>5 DEF CanLeaveGood

\* The handlers that only pass an event to the state machine keep it.
LEMMA EventsFact ==
    ASSUME Good(Now), NEW g \in Guns,
           AuthResult(g) \/ StopCharge(g) \/ ResetError(g) \/ DeviceErrOn(g) \/ DeviceErrOff(g)
    PROVE  CanLeaveGood
  <1>1. PICK e : Become(HandleEvent(Now, g, e))
    BY DEF AuthResult, StopCharge, ResetError, DeviceErrOn, DeviceErrOff
  <1>2. Good(HandleEvent(Now, g, e))
    BY HandleEventFact
  <1> QED
    BY <1>1, <1>2 DEF CanLeaveGood

\* A flow on request does not wait on the reader's own account.
LEMMA StartFlowGood ==
    ASSUME NEW s, Good(s), NEW g \in Guns, NEW ask \in AskRec
    PROVE  Good(StartOfflineCardFlow(s, g, FALSE, ask))
  <1> DEFINE b == FALSE
             t == StartOfflineCardFlow(s, g, b, ask)
  <1>1. b \in BOOLEAN /\ ~b
    OBVIOUS
  <1> HIDE DEF b
  <1>2. t \in Data /\ t.gun = s.gun /\ t.link = s.link /\ (t = s \/ t.reader.auto = b)
    BY <1>1, GoodOthers, StartFlowFact
  <1> HIDE DEF t
  <1>3. Good(t)
    BY <1>1, <1>2 DEF Good, Sound, AutoAllowed, AutoSole, IsAutoWaiting, IsSolePrepare,
                      LinksServe, InService, LinkUp
  <1> QED
    BY <1>3 DEF t, b

\* A request to wait for a card keeps it.
LEMMA RequestFact ==
    ASSUME Good(Now), NEW g \in Guns, RequestCardStart(g)
    PROVE  CanLeaveGood
  <1>1. PICK ask \in AskRec : Become(StartOfflineCardFlow(Now, g, FALSE, ask))
    BY DEF RequestCardStart
  <1>2. Good(StartOfflineCardFlow(Now, g, FALSE, ask))
    BY StartFlowGood
  <1> QED
    BY <1>1, <1>2 DEF CanLeaveGood

\* Noting the outcome of a start keeps it.
LEMMA StartOkFact ==
    ASSUME NEW s, Good(s), NEW g \in Guns, NEW b \in BOOLEAN
    PROVE  Good([s EXCEPT !.gun[g].startOk = b])
  <1> DEFINE r == [s.gun[g] EXCEPT !.startOk = b]
  <1>1. s \in Data /\ s.gun[g] \in GunRec
    BY GoodOthers, Parts
  <1>2. r \in GunRec /\ r.state = s.gun[g].state
    BY <1>1 DEF GunRec
  <1>3. [s EXCEPT !.gun[g] = r] = [s EXCEPT !.gun[g].startOk = b]
    OBVIOUS
  <1> HIDE DEF r
  <1>4. Good([s EXCEPT !.gun[g] = r])
    BY <1>1, <1>2, QuietGun, QuietGood
  <1> QED
    BY <1>3, <1>4

\* start_complete keeps it.
LEMMA StartCompleteFact ==
    ASSUME Good(Now), NEW g \in Guns, StartComplete(g)
    PROVE  CanLeaveGood
  <1> DEFINE s == Now
             u == [s EXCEPT !.sess[g].reason = "fault"]
             ok == HandleEvent(s, g, "START_COMPLETE_OK")
             fail == HandleEvent(u, g, "START_COMPLETE_FAIL")
             yes == TRUE
             no == FALSE
  <1>1. \/ Become([ok EXCEPT !.gun[g].startOk = yes])
        \/ Become([fail EXCEPT !.gun[g].startOk = no])
    BY DEF StartComplete
  <1>2. Good(s) /\ yes \in BOOLEAN /\ no \in BOOLEAN
    OBVIOUS
  <1> HIDE DEF s, yes, no
  <1>3. Good(ok)
    BY <1>2, HandleEventFact
  <1>4. Quiet(s, u)
    BY <1>2, GoodOthers, ReasonNoted
  <1> HIDE DEF u
  <1>5. Good(fail)
    BY <1>2, <1>4, QuietEvent
  <1> HIDE DEF ok, fail
  <1>6. Good([ok EXCEPT !.gun[g].startOk = yes]) /\ Good([fail EXCEPT !.gun[g].startOk = no])
    BY <1>2, <1>3, <1>5, StartOkFact
  <1> QED
    BY <1>1, <1>6 DEF CanLeaveGood

\* stop_complete keeps it.
LEMMA StopCompleteFact ==
    ASSUME Good(Now), NEW g \in Guns, StopComplete(g)
    PROVE  CanLeaveGood
  <1> DEFINE s == Now
  <1>1. PICK end \in EndReasons :
           Become(HandleEvent(
               [s EXCEPT !.sess[g].reason = IF s.gun[g].startOk /\ end # "none"
                                            THEN end ELSE s.sess[g].reason],
               g, "STOP_COMPLETE"))
    BY NowFact DEF StopComplete
  <1>2. Good(s)
    OBVIOUS
  <1> HIDE DEF s
  <1>3. s \in Data /\ s.sess[g] \in SessRec
    BY <1>2, GoodOthers, Parts
  <1> DEFINE b == IF s.gun[g].startOk /\ end # "none" THEN end ELSE s.sess[g].reason
  <1>4. b \in Reasons
    BY <1>3, InputAssumption DEF SessRec
  <1>5. Become(HandleEvent([s EXCEPT !.sess[g].reason = b], g, "STOP_COMPLETE"))
    BY <1>1
  <1> HIDE DEF b
  <1>6. Quiet(s, [s EXCEPT !.sess[g].reason = b])
    BY <1>3, <1>4, ReasonFact
  <1>7. Good(HandleEvent([s EXCEPT !.sess[g].reason = b], g, "STOP_COMPLETE"))
    BY <1>2, <1>6, QuietEvent
  <1> QED
    BY <1>5, <1>7 DEF CanLeaveGood

\* The six link reports keep it.
LEMMA LinkStepsFact ==
    ASSUME Good(Now), NEW g \in Guns,
           \/ PileOnline(g) \/ PileOffline(g) \/ MeterOnline(g) \/ MeterOffline(g)
           \/ PlatformOnline(g) \/ PlatformOffline(g)
    PROVE  CanLeaveGood
  <1>1. \A l \in Links : /\ Good(NoteOnline(Now, g, l))
                         /\ Good(NoteOffline(Now, g, l))
                         /\ Good([Now EXCEPT !.link[g][l] = Cleared])
    BY NoteOnlineFact, NoteOfflineFact, ClearedGood
  <1>2. \E l \in Links : \/ Become(NoteOnline(Now, g, l))
                         \/ Become(NoteOffline(Now, g, l))
                         \/ Become([Now EXCEPT !.link[g][l] = Cleared])
    BY LinkNames DEF PileOnline, PileOffline, MeterOnline, MeterOffline,
                     PlatformOnline, PlatformOffline
  <1> QED
    BY <1>1, <1>2 DEF CanLeaveGood

\* A meter packet keeps it.
LEMMA MeterDataStep ==
    ASSUME Good(Now), NEW g \in Guns, MeterData(g)
    PROVE  CanLeaveGood
  <1>1. PICK kwh \in Readings, volt \in Voltages : Become(HandleMeterData(Now, g, kwh, volt))
    BY DEF MeterData
  <1>2. volt \in {"low", "normal"}
    BY InputAssumption
  <1> DEFINE s == Now
  <1>3. Good(s)
    OBVIOUS
  <1> HIDE DEF s
  <1>4. Good(HandleMeterData(s, g, kwh, volt))
    BY <1>2, <1>3, GoodOthers, MeterDataFact, QuietGood
  <1> QED
    BY <1>1, <1>4 DEF CanLeaveGood, s

\* An iteration of the main loop on a gun keeps it.
LEMMA PollStep ==
    ASSUME Good(Now), NEW g \in Guns, Poll(g)
    PROVE  CanLeaveGood
  <1>1. PICK due : Become(PollGun(Now, g, due))
    BY DEF Poll
  <1>2. Good(PollGun(Now, g, due))
    BY PollGunFact
  <1> QED
    BY <1>1, <1>2 DEF CanLeaveGood

\* The first assignments of a yx packet keep it.
LEMMA YxSeenFact ==
    ASSUME NEW s, Good(s), NEW g \in Guns, NEW p \in YxPacket
    PROVE  Good([s EXCEPT !.gun[g] = [@ EXCEPT !.yxSeen = TRUE, !.conn = p.conn]])
  <1> DEFINE r == [s.gun[g] EXCEPT !.yxSeen = TRUE, !.conn = p.conn]
  <1>1. s \in Data /\ s.gun[g] \in GunRec
    BY GoodOthers, Parts
  <1>2. r \in GunRec /\ r.state = s.gun[g].state
    BY <1>1 DEF GunRec, YxPacket
  <1>3. [s EXCEPT !.gun[g] = r]
          = [s EXCEPT !.gun[g] = [@ EXCEPT !.yxSeen = TRUE, !.conn = p.conn]]
    OBVIOUS
  <1> HIDE DEF r
  <1>4. Good([s EXCEPT !.gun[g] = r])
    BY <1>1, <1>2, QuietGun, QuietGood
  <1> QED
    BY <1>3, <1>4

\* Noting that the vehicle left while stopping keeps it.
LEMMA GoneFact ==
    ASSUME NEW s, Good(s), NEW g \in Guns
    PROVE  Good([s EXCEPT !.gun[g].gone = TRUE])
  <1> DEFINE r == [s.gun[g] EXCEPT !.gone = TRUE]
  <1>1. s \in Data /\ s.gun[g] \in GunRec
    BY GoodOthers, Parts
  <1>2. r \in GunRec /\ r.state = s.gun[g].state
    BY <1>1 DEF GunRec
  <1>3. [s EXCEPT !.gun[g] = r] = [s EXCEPT !.gun[g].gone = TRUE]
    OBVIOUS
  <1> HIDE DEF r
  <1>4. Good([s EXCEPT !.gun[g] = r])
    BY <1>1, <1>2, QuietGun, QuietGood
  <1> QED
    BY <1>3, <1>4

\* The three reactions to a yx packet keep it.
LEMMA YxPartsFact ==
    ASSUME NEW s, Good(s), NEW g \in Guns, NEW p
    PROVE  /\ Good(YxRecover(s, g, p))
           /\ Good(YxWork(s, g, p))
           /\ Good(YxConnect(s, g, p))
  <1>1. Good(YxRecover(s, g, p))
    BY LinkNames, ClearedGood, NoteOnlineFact DEF YxRecover
  <1>2. Good(YxWork(s, g, p))
    BY HandleEventFact DEF YxWork
  <1>3. Good(YxConnect(s, g, p))
    BY HandleEventFact, GoneFact DEF YxConnect
  <1> QED
    BY <1>1, <1>2, <1>3

\* A yx packet keeps it.
LEMMA YxStep ==
    ASSUME Good(Now), NEW g \in Guns, Yx(g)
    PROVE  CanLeaveGood
  <1> DEFINE s == Now
             seen(p) == [s EXCEPT !.gun[g] = [@ EXCEPT !.yxSeen = TRUE, !.conn = p.conn]]
             t(p) == YxConnect(YxWork(YxRecover(seen(p), g, p), g, p), g, p)
  <1>1. PICK p \in YxPackets :
           Become(IF p.total THEN HandleEvent(t(p), g, "TOTAL_FAULT") ELSE t(p))
    BY DEF Yx, YxFault
  <1>2. Good(s) /\ p \in YxPacket
    BY InputAssumption
  <1> HIDE DEF s
  <1>3. Good(seen(p))
    BY <1>2, YxSeenFact
  <1> HIDE DEF seen
  <1>4. Good(t(p))
    <2>1. Good(YxRecover(seen(p), g, p))
      BY <1>3, YxPartsFact
    <2>2. Good(YxWork(YxRecover(seen(p), g, p), g, p))
      BY <2>1, YxPartsFact
    <2> QED
      BY <2>2, YxPartsFact
  <1> HIDE DEF t
  <1>5. Good(HandleEvent(t(p), g, "TOTAL_FAULT"))
    BY <1>4, HandleEventFact
  <1> QED
    BY <1>1, <1>4, <1>5 DEF CanLeaveGood

\* The RF field's state does not matter to it.
LEMMA RfFact ==
    ASSUME NEW s, Good(s), NEW b \in BOOLEAN
    PROVE  Good([s EXCEPT !.reader.rf = b])
  <1> DEFINE r == [s.reader EXCEPT !.rf = b]
             t == [s EXCEPT !.reader = r]
  <1>1. s \in Data /\ s.reader \in ReaderRec
    BY DEF Good, Sound, Data
  <1>2. /\ r \in ReaderRec
        /\ r.phase = s.reader.phase /\ r.gun = s.reader.gun /\ r.auto = s.reader.auto
    BY <1>1 DEF ReaderRec
  <1>3. t = [s EXCEPT !.reader.rf = b]
    OBVIOUS
  <1> HIDE DEF r
  <1>4. t \in Data /\ t.reader = r /\ t.gun = s.gun /\ t.link = s.link
    BY <1>1, <1>2 DEF Data
  <1> HIDE DEF t
  <1>5. Good(t)
    BY <1>2, <1>4 DEF Good, Sound, AutoAllowed, AutoSole, IsAutoWaiting, IsSolePrepare,
                      LinksServe, InService, LinkUp
  <1> QED
    BY <1>3, <1>5

\* The reader's reports keep it.
LEMMA ReaderStep ==
    ASSUME Good(Now), RfOpened \/ RfClosed \/ CardOpFailed
    PROVE  CanLeaveGood
  <1> DEFINE s == Now
             yes == TRUE
             no == FALSE
             keep == s.reader.rf /\ reader.phase # "wait_auto_rf_close"
             opened == [s EXCEPT !.reader.rf = yes]
             closed == [s EXCEPT !.reader.rf = no]
             kept == [s EXCEPT !.reader.rf = keep]
  <1>1. \/ Become(opened)
        \/ Become(closed)
        \/ Become(ResetCardReaderState(closed))
        \/ Become(ResetCardReaderState(kept))
    BY NowFact DEF RfOpened, RfClosed, CardOpFailed
  <1>2. Good(s) /\ yes \in BOOLEAN /\ no \in BOOLEAN /\ keep \in BOOLEAN
    OBVIOUS
  <1> HIDE DEF s, yes, no, keep
  <1>3. Good(opened) /\ Good(closed) /\ Good(kept)
    BY <1>2, RfFact
  <1> HIDE DEF opened, closed, kept
  <1>4. Good(ResetCardReaderState(closed)) /\ Good(ResetCardReaderState(kept))
    BY <1>3, ResetReaderGood
  <1> QED
    BY <1>1, <1>3, <1>4 DEF CanLeaveGood

\* A card presented to start keeps it.
LEMMA SwipeStartFact ==
    ASSUME Good(Now), NEW c \in Cards, SwipeToStart(c)
    PROVE  CanLeaveGood
  <1> DEFINE s == Now
             g == s.reader.gun
             d == [s.card[g] EXCEPT !.no = c]
             t == [s EXCEPT !.card[g] = d]
  <1>1. t = [s EXCEPT !.card[g].no = c]
    OBVIOUS
  <1>2. /\ Good(s)
        /\ Become(t) \/ (s.sess[g].issued < MaxOrder /\ Become(BeginOfflineCardCharge(t, g)))
    BY <1>1, NowFact DEF SwipeToStart, CanOpenOrder
  <1> HIDE DEF s
  <1>3. s \in Data /\ g \in Guns
    BY <1>2 DEF Good, Sound, Data, ReaderRec
  <1> HIDE DEF g
  <1>4. s.card[g] \in CardRec
    BY <1>3, Parts
  <1>5. d \in CardRec
    BY <1>4 DEF CardRec
  <1> HIDE DEF d
  <1>6. Good(t)
    BY <1>2, <1>3, <1>5, QuietCard, QuietGood
  <1>7. t.sess = s.sess
    BY <1>3 DEF Data
  <1> HIDE DEF t
  <1>8. s.sess[g].issued < MaxOrder => Good(BeginOfflineCardCharge(t, g))
    BY <1>3, <1>6, <1>7, BeginCardFact
  <1> QED
    BY <1>2, <1>6, <1>8 DEF CanLeaveGood

\* A card presented to stop keeps it.
LEMMA SwipeStopFact ==
    ASSUME Good(Now), NEW c \in Cards, SwipeToStop(c)
    PROVE  CanLeaveGood
  <1>1. PICK g \in Guns :
           Become(HandleEvent([Now EXCEPT !.sess[g].reason = "normal",
                                          !.card[g].swiped = TRUE], g, "STOP_CMD"))
    BY DEF SwipeToStop
  <1> DEFINE s == Now
             t == [s EXCEPT !.sess[g].reason = "normal"]
             d == [t.card[g] EXCEPT !.swiped = TRUE]
             u == [t EXCEPT !.card[g] = d]
  <1>2. Good(s) /\ Become(HandleEvent(u, g, "STOP_CMD"))
    BY <1>1, NowFact DEF Now
  <1> HIDE DEF s
  <1>3. Quiet(s, t)
    BY <1>2, GoodOthers, ReasonNoted
  <1> HIDE DEF t
  <1>4. t \in Data
    BY <1>3 DEF Quiet
  <1>5. d \in CardRec
    <2>1. t.card[g] \in CardRec
      BY <1>4, Parts
    <2> QED
      BY <2>1 DEF CardRec
  <1> HIDE DEF d
  <1>6. Quiet(t, u)
    BY <1>4, <1>5, QuietCard
  <1> HIDE DEF u
  <1>7. Good(HandleEvent(u, g, "STOP_CMD"))
    BY <1>2, <1>3, <1>6, QuietTrans, QuietEvent
  <1> QED
    BY <1>2, <1>7 DEF CanLeaveGood

\* The periodic reconciliation of the reader keeps it.
LEMMA PollReaderStep ==
    ASSUME Good(Now), PollReader
    PROVE  CanLeaveGood
  <1> DEFINE s == Now
             t == ReconcileAutoCardWaiting(s)
  <1>1. Good(s) /\ Become(t)
    BY DEF PollReader
  <1> HIDE DEF s
  <1>2. Sound(t) /\ AutoSole(t) /\ t.gun = s.gun /\ t.link = s.link
    BY <1>1, ReconcileFact DEF Good
  <1> HIDE DEF t
  <1>3. Good(t)
    BY <1>1, <1>2 DEF Good, LinksServe, InService, LinkUp
  <1> QED
    BY <1>1, <1>3 DEF CanLeaveGood
-----------------------------------------------------------------------------
(* The invariant.                                                          *)

\* All three properties together are inductive: TypeOK alone is not, since a
\* helper is only typed on typed data; AutoWaitSole needs AutoAllowed, which says
\* why the main loop never meets a reader that waits by itself with the switch
\* off; NoServiceOnDeadLink needs no more, but it is the data of one step that
\* carries all three.
IInv == Good(Now)

\* The invariant holds at the start.
LEMMA InitGood == Init => IInv
  <1> SUFFICES ASSUME Init PROVE Good(Now)
    BY DEF IInv
  <1>1. Now = InitialData
    BY DEF Init, Now, InitialData
  <1> DEFINE s == InitialData
  <1>2. s \in Data
    BY InitialType
  <1>3. ~s.reader.auto /\ \A g \in Guns : s.gun[g].state = "IDLE"
    BY DEF InitialData
  <1> HIDE DEF s
  <1>4. Good(s)
    BY <1>2, <1>3 DEF Good, Sound, AutoAllowed, AutoSole, IsAutoWaiting, LinksServe,
                      InService
  <1> QED
    BY <1>1, <1>4 DEF s

\* A step that leaves good data behind keeps the invariant.
LEMMA BecomeGood == CanLeaveGood => IInv'
  <1> SUFFICES ASSUME CanLeaveGood PROVE IInv'
    OBVIOUS
  <1>1. PICK s : Good(s) /\ Become(s)
    BY DEF CanLeaveGood
  <1>2. s \in Data
    BY <1>1 DEF Good, Sound
  <1>3. Now' = s
    BY <1>1, <1>2 DEF Become, Now, Data
  <1>4. Good(Now')
    BY <1>1, <1>3
  <1> QED
    BY <1>4 DEF IInv

\* Every step keeps the invariant.
LEMMA StepGood == IInv /\ [Next]_vars => IInv'
  <1> SUFFICES ASSUME IInv, [Next]_vars PROVE IInv'
    OBVIOUS
  <1>0. Good(Now)
    BY DEF IInv
  <1>1. CASE Next
    <2>1. ASSUME NEW g \in Guns, OnGun(g)
          PROVE  CanLeaveGood
      BY <1>0, <2>1, StartsFact, EventsFact, RequestFact, StartCompleteFact,
         StopCompleteFact, LinkStepsFact, YxStep, MeterDataStep, PollStep DEF OnGun
    <2>2. CASE RfOpened \/ RfClosed \/ CardOpFailed
      BY <1>0, <2>2, ReaderStep, BecomeGood
    <2>3. CASE CardInfo
      BY <1>0, <2>3, SwipeStartFact, SwipeStopFact, BecomeGood DEF CardInfo
    <2>4. CASE PollReader
      BY <1>0, <2>4, PollReaderStep, BecomeGood
    <2>5. CASE \E g \in Guns : OnGun(g)
      BY <2>1, <2>5, BecomeGood
    <2> QED
      BY <1>1, <2>2, <2>3, <2>4, <2>5 DEF Next
  <1>2. CASE UNCHANGED vars
    <2>1. Now' = Now
      BY <1>2 DEF vars, Now
    <2>2. Good(Now')
      BY <1>0, <2>1
    <2> QED
      BY <2>2 DEF IInv
  <1> QED
    BY <1>1, <1>2

\* The inductive invariant holds of every reachable state.
LEMMA Invariance == Spec => []IInv
  <1>1. Init => IInv
    BY InitGood
  <1>2. IInv /\ [Next]_vars => IInv'
    BY StepGood
  <1> QED
    BY <1>1, <1>2, PTL DEF Spec

\* Every handler and every iteration of the main loop keeps the data of the
\* process within its types: no order number, meter count or reader phase that
\* the code could not hold.
THEOREM TypeCorrect == Spec => []TypeOK
  <1>1. IInv => TypeOK
    BY DEF IInv, Good, Sound, TypeOK
  <1> QED
    BY <1>1, Invariance, PTL

\* The shared reader never waits on its own account for one gun while another is
\* in PREPARE too: every transition reconciles it (reconcileAutoCardWaiting).
THEOREM ReaderWaitsForSole == Spec => []AutoWaitSole
  <1>1. IInv => AutoWaitSole
    BY NowFact DEF IInv, Good, AutoSole, AutoWaitSole
  <1> QED
    BY <1>1, Invariance, PTL

\* No gun is in PREPARE, STARTING or CHARGING while its meter or pile is
\* confirmed offline, for any number of guns and any order of reports, timers
\* and recoveries.
THEOREM ServiceNeedsLinks == Spec => []NoServiceOnDeadLink
  <1>1. IInv => NoServiceOnDeadLink
    BY NowFact DEF IInv, Good, LinksServe, InService, LinkUp, NoServiceOnDeadLink
  <1> QED
    BY <1>1, Invariance, PTL

=============================================================================
