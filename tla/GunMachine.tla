----------------------------- MODULE GunMachine -----------------------------
(***************************************************************************)
(* The charge state machine of tcu_logic as pure operators on its data.    *)
(*                                                                         *)
(* Every helper of charge_logic_process.cpp takes the process data, a      *)
(* record "s", and returns the data it leaves behind; a handler of the     *)
(* process is a composition of helpers, and module ChargeLogic makes one   *)
(* action of each handler.  The fields of a GunState are spread over five  *)
(* functions of the gun: "gun" (the state machine proper), "sess" (the     *)
(* charging session and its order), "meter" (metering and fee), "card"     *)
(* (the local key card) and "link" (the three watched links).              *)
(***************************************************************************)
EXTENDS Naturals

CONSTANTS
    GunCount,        \* ChargeLogic/gun_count, or the count of the pile file
    CardAutoWait,    \* ChargeLogic/card_auto_wait_enabled
    CardFeeFallback, \* ChargeLogic/card_fee_model_fallback_enabled, with a
                     \* valid model in the fee database
    StopMargin,      \* ChargeLogic/precharge_stop_margin
    Cards,           \* card numbers that may be presented to the reader
    Whitelist,       \* ChargeLogic/card_whitelist
    NoCard,          \* the empty card number
    MaxOrder,        \* bound: orders opened per gun
    MaxReading       \* bound: meter readings, in whole kWh at one yuan each

ASSUME GunAssumption == GunCount \in Nat \ {0}
ASSUME SwitchAssumption == CardAutoWait \in BOOLEAN /\ CardFeeFallback \in BOOLEAN
ASSUME CardAssumption == Whitelist \subseteq Cards /\ NoCard \notin Cards
ASSUME BoundAssumption == MaxOrder \in Nat /\ MaxReading \in Nat /\ StopMargin \in Nat

Guns == 0 .. GunCount - 1

\* Guns 2k and 2k+1 charge one vehicle together when both are flagged.
Peer(g) == IF g % 2 = 0 THEN g + 1 ELSE g - 1
HasPeer(g) == Peer(g) \in Guns

States == {"IDLE", "PREPARE", "STARTING", "CHARGING", "STOPPING", "STOPPED", "ERROR"}
Links == {"meter", "platform", "pile"}
Orders == 0 .. MaxOrder  \* 0 is the empty trade number
Readings == 0 .. MaxReading

\* The amount of a start command and whether it carries a fee model.
StartData == [merge : BOOLEAN, precharge : Readings, model : BOOLEAN]

-----------------------------------------------------------------------------
(* The data of the process.                                                *)

GunRec == [state : States,
           conn : BOOLEAN,      \* lastVehicleConnectStatus
           yxSeen : BOOLEAN,    \* hasPileYxTime
           retried : BOOLEAN,   \* startingRetrySent
           startOk : BOOLEAN,   \* startSuccessFlag
           stopSeen : BOOLEAN,  \* stopCompleteSeen
           gone : BOOLEAN,      \* vehicleDisconnectedDuringStopping
           sent : {"none", "start_charge", "stop_charge"}] \* last pile command

\* A stop reason: 0, that of a normal end, which has a number of its own (the BMS has
\* charged up to its target, a card has been presented), or that of a fault.
Reasons == {"none", "normal", "fault"}

SessRec == [armed : BOOLEAN,    \* pendingStart
            basis : BOOLEAN,    \* hasAuthBasis
            merge : BOOLEAN,    \* mergeChargeFlag # 0
            order : Orders,     \* tradeNo
            issued : Orders,    \* orders opened on this gun so far
            lastCmd : Orders,   \* order whose data lastStartCmdData holds
            precharge : Readings,
            tcuStop : BOOLEAN,  \* tcuStopReqSent
            reason : Reasons]   \* stopReason

MeterRec == [known : BOOLEAN,   \* hasMeterValue
             value : Readings,  \* lastMeterValue
             stable : 0 .. 3,   \* meterStableCount, of which only >= 3 is used
             volt : {"none", "low", "normal"},
             voltSeen : BOOLEAN, \* chargingMeterVoltageNormalSeen
             ready : BOOLEAN,   \* feeInitialized
             based : BOOLEAN,   \* feeHasEnergyBase
             last : Readings,   \* feeLastEnergyKwh
             total : Nat]       \* feeTotalEnergyKwh, and the amount due for it

\* What of a card start request outlives it: its merge flag and its fee model.
AskRec == [merge : BOOLEAN, model : BOOLEAN]
NoAsk == [merge |-> FALSE, model |-> FALSE]

CardRec == [active : BOOLEAN,   \* offlineCardChargeActive
            no : Cards \cup {NoCard},
            swiped : BOOLEAN,   \* offlineCardStopBySwipeTriggered
            ask : AskRec]       \* pendingCardStartAuthData

LinkRec == [fault : BOOLEAN, latched : BOOLEAN, pending : BOOLEAN]

ReaderRec == [phase : {"idle", "wait_start_card", "wait_auto_rf_close"},
              gun : Guns, auto : BOOLEAN, rf : BOOLEAN]

\* Trade records handed to the logger for an order: how many, and the energy and
\* the card number of the last.
Booking == [count : 0 .. 2, kwh : Nat, card : Cards \cup {NoCard}]

Data == [gun : [Guns -> GunRec], sess : [Guns -> SessRec],
         meter : [Guns -> MeterRec], card : [Guns -> CardRec],
         link : [Guns -> [Links -> LinkRec]], reader : ReaderRec,
         ledger : [Guns -> [Orders -> Booking]]]

\* What the process holds before its first message: all links count as down.
InitialData ==
    [gun |-> [g \in Guns |-> [state |-> "IDLE", conn |-> FALSE, yxSeen |-> FALSE,
                              retried |-> FALSE, startOk |-> FALSE,
                              stopSeen |-> FALSE, gone |-> FALSE, sent |-> "none"]],
     sess |-> [g \in Guns |-> [armed |-> FALSE, basis |-> FALSE, merge |-> FALSE,
                               order |-> 0, issued |-> 0, lastCmd |-> 0,
                               precharge |-> 0, tcuStop |-> FALSE, reason |-> "none"]],
     meter |-> [g \in Guns |-> [known |-> FALSE, value |-> 0, stable |-> 0,
                                volt |-> "none", voltSeen |-> FALSE, ready |-> FALSE,
                                based |-> FALSE, last |-> 0, total |-> 0]],
     card |-> [g \in Guns |-> [active |-> FALSE, no |-> NoCard,
                               swiped |-> FALSE, ask |-> NoAsk]],
     link |-> [g \in Guns |-> [l \in Links |->
                 [fault |-> TRUE, latched |-> FALSE, pending |-> FALSE]]],
     reader |-> [phase |-> "idle", gun |-> 0, auto |-> FALSE, rf |-> FALSE],
     ledger |-> [g \in Guns |-> [o \in Orders |-> [count |-> 0, kwh |-> 0, card |-> NoCard]]]]

-----------------------------------------------------------------------------
(* The shared card reader.                                                 *)

IsCardReaderBusy(s) == s.reader.phase # "idle"
HasOfflineCardChargingSession(s) == \E g \in Guns : s.card[g].active
IsSolePrepare(s, g) == \A h \in Guns : s.gun[h].state = "PREPARE" <=> h = g
IsAutoWaiting(s) == s.reader.phase = "wait_start_card" /\ s.reader.auto

IsLocalCardSessionActive(s, g) ==
    s.card[g].active \/ (s.reader.gun = g /\ s.reader.phase = "wait_start_card")

ResetCardReaderState(s) ==
    [s EXCEPT !.reader = [phase |-> "idle", gun |-> 0, auto |-> FALSE, rf |-> @.rf]]

\* Opens the RF field if it is not open and waits for a card for gun g.
StartOfflineCardFlow(s, g, auto, ask) ==
    IF s.gun[g].state # "PREPARE" \/ IsCardReaderBusy(s) THEN s
    ELSE [s EXCEPT !.reader = [phase |-> "wait_start_card", gun |-> g,
                               auto |-> auto, rf |-> TRUE],
                   !.card[g].ask = ask]

\* Mutant: the wait goes on as if it had been requested.
CancelAutoOnly(s) == [s EXCEPT !.reader.auto = FALSE]

CancelAutoCardWaiting(s) ==
    IF s.reader.rf
    THEN [s EXCEPT !.reader.auto = FALSE, !.reader.phase = "wait_auto_rf_close"]
    ELSE ResetCardReaderState(s)

\* The reader waits by itself exactly for the only gun in PREPARE.
ReconcileAutoCardWaiting(s) ==
    IF ~CardAutoWait THEN s
    ELSE IF IsAutoWaiting(s)
    THEN IF IsSolePrepare(s, s.reader.gun) THEN s ELSE CancelAutoCardWaiting(s)
    ELSE IF \/ IsCardReaderBusy(s)
            \/ HasOfflineCardChargingSession(s)
            \/ ~ \E g \in Guns : IsSolePrepare(s, g)
    THEN s
    ELSE StartOfflineCardFlow(s, CHOOSE g \in Guns : IsSolePrepare(s, g), TRUE, NoAsk)
-----------------------------------------------------------------------------
(* Transitions.                                                            *)

\* The assignments transitionTo makes before it reports the change.
Move(s, g, to) ==
    [s EXCEPT !.gun[g] = [@ EXCEPT !.state = to,
                                   !.retried = FALSE,
                                   !.startOk =
                                       \/ to = "CHARGING"
                                       \/ s.gun[g].startOk /\ to \notin {"STARTING", "IDLE"},
                                   !.gone = s.gun[g].gone /\ to # "IDLE"],
              !.meter[g].voltSeen = @ /\ to \notin {"CHARGING", "IDLE"}]

\* Mutant: the order outlives its session.
ResetFeeOnly(s, g) ==
    [s EXCEPT !.meter[g] = [@ EXCEPT !.stable = 0, !.voltSeen = FALSE, !.ready = FALSE,
                                     !.based = FALSE, !.last = 0, !.total = 0]]

\* Back in IDLE nothing of the session is left, but for the key card's part.
ResetChargeSessionState(s, g) ==
    [s EXCEPT !.gun[g] = [@ EXCEPT !.retried = FALSE, !.startOk = FALSE,
                                   !.stopSeen = FALSE, !.gone = FALSE],
              !.sess[g] = [armed |-> FALSE, basis |-> FALSE, merge |-> FALSE,
                           order |-> 0, issued |-> @.issued, lastCmd |-> 0,
                           precharge |-> 0, tcuStop |-> FALSE, reason |-> "none"],
              !.meter[g] = [@ EXCEPT !.stable = 0, !.voltSeen = FALSE,
                                     !.ready = FALSE, !.based = FALSE,
                                     !.last = 0, !.total = 0],
              !.card[g].ask = NoAsk]

\* Hands the trade record of the gun's order to the logger (two are enough to
\* tell a double booking).
LogTradeRecordOnStopped(s, g) ==
    LET o == s.sess[g].order
    IN  [s EXCEPT !.ledger[g][o] = [count |-> IF @.count < 2 THEN @.count + 1 ELSE 2,
                                    kwh |-> s.meter[g].total,
                                    card |-> s.card[g].no]]

\* The key card session ends with the record; there is no settlement on the card.
PrepareOfflineCardSettlement(s, g) ==
    IF s.card[g].active
    THEN [s EXCEPT !.card[g] = [active |-> FALSE, no |-> NoCard,
                                swiped |-> FALSE, ask |-> NoAsk]]
    ELSE s

\* Mutant: the card session is closed before its record is written.
SettleBeforeRecord(s, g) ==
    LogTradeRecordOnStopped(PrepareOfflineCardSettlement(s, g), g)

CloseSession(s, g) == PrepareOfflineCardSettlement(LogTradeRecordOnStopped(s, g), g)

\* A gun unplugged while it was stopping goes on to IDLE within the same call.
LeaveIfGone(s, g) ==
    IF s.gun[g].gone
    THEN ReconcileAutoCardWaiting(ResetChargeSessionState(Move(s, g, "IDLE"), g))
    ELSE s

\* What belongs to being in the new state.
Enter(s, g, to) ==
    CASE to = "STOPPED" -> LeaveIfGone(CloseSession(s, g), g)
      [] to = "IDLE" -> ResetChargeSessionState(s, g)
      [] OTHER -> s

\* Mutant: the reader hears of a new state only from the main loop.
TransitionUnreconciled(s, g, to) ==
    IF s.gun[g].state = to THEN s ELSE Enter(Move(s, g, to), g, to)

TransitionTo(s, g, to) ==
    IF s.gun[g].state = to THEN s
    ELSE ReconcileAutoCardWaiting(Enter(Move(s, g, to), g, to))

\* STOPPING with a fresh settlement window, and stop_charge to the pile.
Halt(s, g) ==
    [TransitionTo(s, g, "STOPPING") EXCEPT
        !.gun[g] = [@ EXCEPT !.gone = FALSE, !.stopSeen = FALSE, !.sent = "stop_charge"],
        !.meter[g].stable = 0]

MergedPair(s, g) == s.sess[g].merge /\ HasPeer(g) /\ s.sess[Peer(g)].merge

\* Mutant: a peer that is still starting is overlooked.
HaltChargingPeer(s, g) ==
    IF MergedPair(s, g) /\ s.gun[Peer(g)].state = "CHARGING" THEN Halt(s, Peer(g)) ELSE s

\* A merged pair stops together.
HaltPeer(s, g) ==
    IF MergedPair(s, g) /\ s.gun[Peer(g)].state \notin {"IDLE", "STOPPING", "STOPPED"}
    THEN Halt(s, Peer(g)) ELSE s

EnterStopping(s, g) == HaltPeer(Halt(s, g), g)

-----------------------------------------------------------------------------
(* handleEvent, one operator per state of the gun.                         *)

Disarm(s, g) == [s EXCEPT !.sess[g] = [@ EXCEPT !.armed = FALSE, !.lastCmd = 0]]

\* Mutant: start data that is already there is not replaced.
SendFirstStart(s, g) ==
    IF s.sess[g].armed
    THEN [s EXCEPT !.sess[g] = [@ EXCEPT !.armed = FALSE,
                                         !.lastCmd = IF s.sess[g].lastCmd = 0
                                                     THEN s.sess[g].order
                                                     ELSE s.sess[g].lastCmd],
                   !.gun[g] = [@ EXCEPT !.sent = "start_charge", !.retried = FALSE]]
    ELSE s

\* start_charge goes to the pile with the data the armed start left.
SendArmedStart(s, g) ==
    IF s.sess[g].armed
    THEN [s EXCEPT !.sess[g] = [@ EXCEPT !.armed = FALSE,
                                             !.lastCmd = s.sess[g].order],
                   !.gun[g] = [@ EXCEPT !.sent = "start_charge", !.retried = FALSE]]
    ELSE s

OnIdle(s, g, e) ==
    CASE e = "VEHICLE_CONNECTED" ->
           TransitionTo(s, g, IF s.link[g]["meter"].fault \/ s.link[g]["pile"].fault
                              THEN "ERROR" ELSE "PREPARE")
      [] e \in {"TOTAL_FAULT", "DEVICE_ERR"} -> TransitionTo(s, g, "ERROR")
      [] OTHER -> s

OnPrepare(s, g, e) ==
    CASE e = "AUTH_OK" -> TransitionTo(SendArmedStart(s, g), g, "STARTING")
      [] e = "AUTH_FAIL" -> Disarm(s, g)
      [] e \in {"VEHICLE_DISCONNECTED", "RESET_ERROR"} ->
           TransitionTo(Disarm(s, g), g, "IDLE")
      [] e \in {"TOTAL_FAULT", "DEVICE_ERR"} -> TransitionTo(s, g, "ERROR")
      [] OTHER -> s

OnStarting(s, g, e) ==
    CASE e = "START_COMPLETE_OK" ->
           TransitionTo([s EXCEPT !.sess[g].tcuStop = FALSE], g, "CHARGING")
      [] e \in {"START_COMPLETE_FAIL", "TOTAL_FAULT", "DEVICE_ERR", "STOP_CMD"} ->
           EnterStopping(s, g)
      [] e = "RESET_ERROR" -> TransitionTo(s, g, "IDLE")
      [] OTHER -> s

\* Mutant: a fault leaves the session for ERROR at once.
FailCharging(s, g, e) ==
    IF e \in {"TOTAL_FAULT", "DEVICE_ERR"} THEN TransitionTo(s, g, "ERROR")
    ELSE IF e = "STOP_COMPLETE"
    THEN [EnterStopping(s, g) EXCEPT !.gun[g].stopSeen = TRUE]
    ELSE IF e \in {"STOP_CMD", "WORKSTATUS_ZERO"} THEN EnterStopping(s, g) ELSE s

OnCharging(s, g, e) ==
    CASE e = "STOP_COMPLETE" -> [EnterStopping(s, g) EXCEPT !.gun[g].stopSeen = TRUE]
      [] e \in {"STOP_CMD", "WORKSTATUS_ZERO", "TOTAL_FAULT", "DEVICE_ERR"} ->
           EnterStopping(s, g)
      [] OTHER -> s

\* Mutants: a second stop restarts the settlement, a reset breaks it off.
RestopStopping(s, g, e) ==
    CASE e = "STOP_COMPLETE" -> [s EXCEPT !.gun[g].stopSeen = TRUE]
      [] e = "STOP_CMD" -> EnterStopping(s, g)
      [] e = "METER_STALE" -> TransitionTo(s, g, "STOPPED")
      [] OTHER -> s

ResetStopping(s, g, e) ==
    CASE e = "STOP_COMPLETE" -> [s EXCEPT !.gun[g].stopSeen = TRUE]
      [] e = "RESET_ERROR" -> TransitionTo(s, g, "IDLE")
      [] e = "METER_STALE" -> TransitionTo(s, g, "STOPPED")
      [] OTHER -> s

OnStopping(s, g, e) ==
    CASE e = "STOP_COMPLETE" -> [s EXCEPT !.gun[g].stopSeen = TRUE]
      [] e = "METER_STALE" -> TransitionTo(s, g, "STOPPED")
      [] OTHER -> s

OnStopped(s, g, e) ==
    CASE e = "VEHICLE_DISCONNECTED" -> TransitionTo(s, g, "IDLE")
      [] e \in {"TOTAL_FAULT", "DEVICE_ERR"} -> TransitionTo(s, g, "ERROR")
      [] OTHER -> s

OnError(s, g, e) == IF e = "RESET_ERROR" THEN TransitionTo(s, g, "IDLE") ELSE s

HandleEvent(s, g, e) ==
    CASE s.gun[g].state = "IDLE" -> OnIdle(s, g, e)
      [] s.gun[g].state = "PREPARE" -> OnPrepare(s, g, e)
      [] s.gun[g].state = "STARTING" -> OnStarting(s, g, e)
      [] s.gun[g].state = "CHARGING" -> OnCharging(s, g, e)
      [] s.gun[g].state = "STOPPING" -> OnStopping(s, g, e)
      [] s.gun[g].state = "STOPPED" -> OnStopped(s, g, e)
      [] OTHER -> OnError(s, g, e)

=============================================================================
