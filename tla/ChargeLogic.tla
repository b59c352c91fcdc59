----------------------------- MODULE ChargeLogic -----------------------------
(***************************************************************************)
(* The process tcu_logic: one action per message handler and one for each  *)
(* iteration of its main loop on a gun.  A handler that refuses a message  *)
(* only publishes a reject event, which is not state, so its action is     *)
(* disabled there.                                                         *)
(***************************************************************************)
EXTENDS ChargeSession

CONSTANTS
    Inputs,      \* bound: the kinds of message the surroundings send
    StartCmds,   \* bound: contents of start commands
    YxPackets,   \* bound: contents of the pile's yx packets
    EndReasons,  \* bound: what the ends of charging that the pile reports are judged as
    Voltages     \* bound: voltages in meter packets

InputKinds == {"hmi_start", "plat_start", "auth_result", "stop_charge", "reset_error",
               "request_card_start", "yx", "start_complete", "stop_complete",
               "deviceErr_on", "deviceErr_off", "meter_online", "meter_offline",
               "platform_online", "platform_offline", "pile_online", "pile_offline",
               "meter_data", "card_event", "card_info"}

YxPacket == [work : BOOLEAN, conn : BOOLEAN, total : BOOLEAN, other : BOOLEAN]

ASSUME InputAssumption ==
    /\ Inputs \subseteq InputKinds
    /\ StartCmds \subseteq StartData
    /\ YxPackets \subseteq YxPacket
    /\ EndReasons \subseteq Reasons
    /\ Voltages \subseteq {"low", "normal"}

VARIABLES gun, sess, meter, card, link, reader, ledger

vars == <<gun, sess, meter, card, link, reader, ledger>>

Now == [gun |-> gun, sess |-> sess, meter |-> meter, card |-> card,
        link |-> link, reader |-> reader, ledger |-> ledger]

\* The step that leaves the data s behind.
Become(s) ==
    /\ gun' = s.gun
    /\ sess' = s.sess
    /\ meter' = s.meter
    /\ card' = s.card
    /\ link' = s.link
    /\ reader' = s.reader
    /\ ledger' = s.ledger

Init ==
    /\ gun = InitialData.gun
    /\ sess = InitialData.sess
    /\ meter = InitialData.meter
    /\ card = InitialData.card
    /\ link = InitialData.link
    /\ reader = InitialData.reader
    /\ ledger = InitialData.ledger

CanOpenOrder(g) == sess[g].issued < MaxOrder

-----------------------------------------------------------------------------
(* Commands of the HMI and of the platform.                                *)

\* The HMI's start needs no further authorisation.
HmiStart(g) ==
    /\ "hmi_start" \in Inputs
    /\ gun[g].state = "PREPARE"
    /\ CanOpenOrder(g)
    /\ \E c \in StartCmds : Become(DispatchArmedStart(ArmPendingStart(Now, g, c), g))

\* A merged platform start waits armed until its peer is armed as well.
PlatformStart(g) ==
    /\ "plat_start" \in Inputs
    /\ gun[g].state = "PREPARE"
    /\ CanOpenOrder(g)
    /\ \E c \in StartCmds :
          LET armed == ArmPendingStart(Now, g, c)
          IN  IF c.merge
              THEN HasPeer(g) /\ Become(TryDispatchMergePendingStart(armed, g))
              ELSE Become(DispatchArmedStart(armed, g))

AuthResult(g) ==
    /\ "auth_result" \in Inputs
    /\ \E e \in {"AUTH_OK", "AUTH_FAIL"} : Become(HandleEvent(Now, g, e))

StopCharge(g) ==
    /\ "stop_charge" \in Inputs
    /\ Become(HandleEvent(Now, g, "STOP_CMD"))

ResetError(g) ==
    /\ "reset_error" \in Inputs
    /\ Become(HandleEvent(Now, g, "RESET_ERROR"))

RequestCardStart(g) ==
    /\ "request_card_start" \in Inputs
    /\ \E ask \in AskRec : Become(StartOfflineCardFlow(Now, g, FALSE, ask))

-----------------------------------------------------------------------------
(* Events and telemetry of the pile controller.                            *)

\* A failed start comes with its fail code, which is a fault; 0 is the code of a success.
StartComplete(g) ==
    /\ "start_complete" \in Inputs
    /\ \/ Become([HandleEvent(Now, g, "START_COMPLETE_OK") EXCEPT !.gun[g].startOk = TRUE])
       \/ Become([HandleEvent([Now EXCEPT !.sess[g].reason = "fault"], g,
                              "START_COMPLETE_FAIL") EXCEPT !.gun[g].startOk = FALSE])

\* Mutant: the end is noted whatever it is and whatever has been noted.
StopCompleteOverwrites(g) ==
    /\ "stop_complete" \in Inputs
    /\ \E end \in EndReasons :
          Become(HandleEvent(
              [Now EXCEPT !.sess[g].reason = IF gun[g].startOk THEN end ELSE @],
              g, "STOP_COMPLETE"))

\* The end takes the place of the reason noted before unless its own number is 0.
StopComplete(g) ==
    /\ "stop_complete" \in Inputs
    /\ \E end \in EndReasons :
          Become(HandleEvent(
              [Now EXCEPT !.sess[g].reason =
                              IF gun[g].startOk /\ end # "none" THEN end ELSE @],
              g, "STOP_COMPLETE"))

DeviceErrOn(g) ==
    /\ "deviceErr_on" \in Inputs
    /\ Become(HandleEvent(Now, g, "DEVICE_ERR"))

DeviceErrOff(g) ==
    /\ "deviceErr_off" \in Inputs
    /\ Become(HandleEvent(Now, g, "RESET_ERROR"))

PileOnline(g) == "pile_online" \in Inputs /\ Become(NoteOnline(Now, g, "pile"))
PileOffline(g) == "pile_offline" \in Inputs /\ Become(NoteOffline(Now, g, "pile"))

\* A packet without fault lets a gun in ERROR go.
YxRecover(s, g, p) ==
    IF p.total \/ p.other THEN [s EXCEPT !.link[g]["pile"] = Cleared]
    ELSE NoteOnline(s, g, "pile")

YxWork(s, g, p) == IF p.work THEN s ELSE
    IF s.gun[g].state = "CHARGING" THEN HandleEvent(s, g, "WORKSTATUS_ZERO") ELSE s

YxConnect(s, g, p) ==
    CASE s.gun[g].state = "IDLE" /\ p.conn /\ ~p.total ->
           HandleEvent(s, g, "VEHICLE_CONNECTED")
      [] s.gun[g].state \in {"PREPARE", "STOPPED"} /\ ~p.conn ->
           HandleEvent(s, g, "VEHICLE_DISCONNECTED")
      [] s.gun[g].state = "STOPPING" /\ ~p.conn -> [s EXCEPT !.gun[g].gone = TRUE]
      [] OTHER -> s

YxFault(s, g, p) == IF p.total THEN HandleEvent(s, g, "TOTAL_FAULT") ELSE s

Yx(g) ==
    /\ "yx" \in Inputs
    /\ \E p \in YxPackets :
          LET seen == [Now EXCEPT !.gun[g] = [@ EXCEPT !.yxSeen = TRUE, !.conn = p.conn]]
          IN  Become(YxFault(YxConnect(YxWork(YxRecover(seen, g, p), g, p), g, p), g, p))

-----------------------------------------------------------------------------
(* The meter and the platform link.                                        *)

MeterData(g) ==
    /\ "meter_data" \in Inputs
    /\ \E kwh \in Readings, volt \in Voltages :
          /\ kwh >= meter[g].value  \* an energy register does not run back
          /\ Become(HandleMeterData(Now, g, kwh, volt))

MeterOnline(g) == "meter_online" \in Inputs /\ Become(NoteOnline(Now, g, "meter"))
MeterOffline(g) == "meter_offline" \in Inputs /\ Become(NoteOffline(Now, g, "meter"))

PlatformOnline(g) ==
    "platform_online" \in Inputs /\ Become(NoteOnline(Now, g, "platform"))

PlatformOffline(g) ==
    /\ "platform_offline" \in Inputs
    /\ Become(IF IsLocalCardSessionActive(Now, g)
              THEN [Now EXCEPT !.link[g]["platform"] = Cleared]
              ELSE NoteOffline(Now, g, "platform"))

-----------------------------------------------------------------------------
(* The card reader, which all guns share.                                  *)

RfOpened ==
    /\ "card_event" \in Inputs
    /\ Become([Now EXCEPT !.reader.rf = TRUE])

RfClosed ==
    /\ "card_event" \in Inputs
    /\ LET closed == [Now EXCEPT !.reader.rf = FALSE]
       IN  Become(IF reader.phase = "wait_auto_rf_close"
                  THEN ResetCardReaderState(closed) ELSE closed)

CardOpFailed ==
    /\ "card_event" \in Inputs
    /\ \/ Become(ResetCardReaderState([Now EXCEPT !.reader.rf = FALSE]))  \* open_rf
       \/ Become(ResetCardReaderState(                                    \* close_rf
              [Now EXCEPT !.reader.rf = @ /\ reader.phase # "wait_auto_rf_close"]))

\* The first charging card session the presented number may stop.
MayStop(g, c) ==
    /\ gun[g].state = "CHARGING"
    /\ card[g].active
    /\ ~card[g].swiped
    /\ card[g].no \in {NoCard, c}

SwipeToStart(c) ==
    LET g == reader.gun
        t == [Now EXCEPT !.card[g].no = c]
    IN  IF c \in Whitelist
        THEN CanOpenOrder(g) /\ Become(BeginOfflineCardCharge(t, g))
        ELSE Become(t)

SwipeToStop(c) ==
    \E g \in Guns :
        /\ MayStop(g, c)
        /\ \A h \in Guns : MayStop(h, c) => g <= h
        /\ Become(HandleEvent([Now EXCEPT !.sess[g].reason = "normal",
                                          !.card[g].swiped = TRUE], g, "STOP_CMD"))

CardInfo ==
    /\ "card_info" \in Inputs
    /\ \E c \in Cards :
          IF reader.phase = "wait_start_card" THEN SwipeToStart(c) ELSE SwipeToStop(c)

-----------------------------------------------------------------------------
(* The main loop.                                                          *)

Poll(g) == \E due \in Expired(Now, g) : Become(PollGun(Now, g, due))

PollReader == Become(ReconcileAutoCardWaiting(Now))

OnGun(g) ==
    \/ HmiStart(g) \/ PlatformStart(g) \/ AuthResult(g) \/ StopCharge(g)
    \/ ResetError(g) \/ RequestCardStart(g)
    \/ StartComplete(g) \/ StopComplete(g) \/ DeviceErrOn(g) \/ DeviceErrOff(g)
    \/ PileOnline(g) \/ PileOffline(g) \/ Yx(g)
    \/ MeterData(g) \/ MeterOnline(g) \/ MeterOffline(g)
    \/ PlatformOnline(g) \/ PlatformOffline(g)
    \/ Poll(g)

Next == \/ \E g \in Guns : OnGun(g)
        \/ RfOpened \/ RfClosed \/ CardOpFailed \/ CardInfo
        \/ PollReader

Spec == Init /\ [][Next]_vars

\* The iterations that find the limit of STARTING, or of STOPPING, passed.
StartingExpires(g) ==
    gun[g].state = "STARTING" /\ \E due \in Expired(Now, g) :
        "starting_60s" \in due /\ Become(PollGun(Now, g, due))

StoppingExpires(g) ==
    gun[g].state = "STOPPING" /\ \E due \in Expired(Now, g) :
        "stopping_30s" \in due /\ Become(PollGun(Now, g, due))

\* An iteration that finds just these limits passed changes something.
PollActs(g, due) == PollGun(Now, g, due) # Now

\* The loop runs every 10 ms on every gun, whatever limits have passed, and
\* steady_clock passes the limit of a state the gun stays in; no other limit ever
\* has to pass.  Each conjunct is a weak fairness condition with the states that
\* enable the action spelled out.
Fairness ==
    \A g \in Guns :
        /\ []<>(~PollActs(g, {})) \/ []<><<Poll(g)>>_vars
        /\ \/ []<>(gun[g].state # "STARTING" \/ ~PollActs(g, {"starting_30s", "starting_60s"}))
           \/ []<><<StartingExpires(g)>>_vars
        /\ \/ []<>(gun[g].state # "STOPPING" \/ ~PollActs(g, {"stopping_30s"}))
           \/ []<><<StoppingExpires(g)>>_vars

FairSpec == Spec /\ Fairness

-----------------------------------------------------------------------------
(* Properties.                                                             *)

\* The data of the process keeps its types.
TypeOK == Now \in Data

\* The shared reader waits on its own account only while exactly one gun is in
\* PREPARE, and for that gun (reconcileAutoCardWaiting): otherwise a card would
\* start a vehicle its owner is not standing at.
AutoWaitSole == IsAutoWaiting(Now) => IsSolePrepare(Now, reader.gun)

\* No gun is offered to a driver or delivers energy while its meter or its pile
\* is confirmed offline, whatever order the reports, timeouts and recoveries of
\* the three links come in.
NoServiceOnDeadLink ==
    \A g \in Guns :
        gun[g].state \in {"PREPARE", "STARTING", "CHARGING"} =>
            ~link[g]["meter"].fault /\ ~link[g]["pile"].fault

\* Energy billed to a session that is no longer metered has been handed to the
\* logger in full: the record of the gun's order holds the gun's total.
EnergyIsBooked ==
    \A g \in Guns :
        (meter[g].total > 0 /\ gun[g].state \notin {"CHARGING", "STOPPING"}) =>
            /\ ledger[g][sess[g].order].count > 0
            /\ ledger[g][sess[g].order].kwh = meter[g].total

\* A gun's running total is forgotten only after its record was booked.
EnergyNeverDropped ==
    [][\A g \in Guns :
          meter'[g].total < meter[g].total =>
              /\ ledger'[g][sess[g].order].count > 0
              /\ ledger'[g][sess[g].order].kwh = meter[g].total]_vars

\* One order, one trade record.
BookedOnce == \A g \in Guns, o \in Orders : ledger[g][o].count <= 1

\* A session that delivered energy leaves through the settlement: CHARGING only
\* to STOPPING, STOPPING only to STOPPED, or to IDLE when the vehicle is gone.
SettlementUninterrupted ==
    [][\A g \in Guns :
          /\ gun[g].state = "CHARGING" => gun'[g].state \in {"CHARGING", "STOPPING"}
          /\ gun[g].state = "STOPPING" =>
                \/ gun'[g].state \in {"STOPPING", "STOPPED"}
                \/ gun'[g].state = "IDLE" /\ gun[g].gone]_vars

\* A stop that has been given a reason has one on its record: no end the pile reports
\* afterwards, no retry, fault or reset takes the order's reason back to 0.
ReasonKept ==
    [][\A g \in Guns :
          (sess[g].reason # "none" /\ sess'[g].order = sess[g].order /\ sess[g].order # 0) =>
              sess'[g].reason # "none"]_vars

\* When one gun of a merged pair starts to stop, the other does not go on
\* drawing power (enterStopping).
MergeStopsTogether ==
    [][\A g \in Guns :
          (/\ HasPeer(g)
           /\ sess[g].merge
           /\ sess[Peer(g)].merge
           /\ gun[g].state # "STOPPING"
           /\ gun'[g].state = "STOPPING") =>
              gun'[Peer(g)].state \notin {"STARTING", "CHARGING"}]_vars

\* Once the pile has reported its stop the logic does not ask it to stop again.
StopCompleteRemembered ==
    [][\A g \in Guns :
          (gun[g].state = "STOPPING" /\ gun'[g].state = "STOPPING" /\ gun[g].stopSeen) =>
              gun'[g].stopSeen]_vars

\* A free gun carries nothing of the session before, unless a key card was
\* taken for it.
IdleIsClean ==
    \A g \in Guns :
        (gun[g].state = "IDLE" /\ ~card[g].active) =>
            /\ ~sess[g].armed /\ ~sess[g].basis /\ ~sess[g].merge
            /\ sess[g].order = 0 /\ sess[g].lastCmd = 0
            /\ meter[g].total = 0 /\ ~meter[g].ready

\* An order opens only on a gun in PREPARE, the one state in which a start is
\* accepted ("start_only_allowed_in_prepare"): never over a session under way.
OrderOpensInPrepare ==
    [][\A g \in Guns :
          sess'[g].issued # sess[g].issued => gun[g].state = "PREPARE"]_vars

\* The record of a key card session names the whitelisted card that opened it.
RecordNamesCard ==
    [][\A g \in Guns : \A o \in Orders :
          (ledger'[g][o].count > ledger[g][o].count /\ card[g].active) =>
              ledger'[g][o].card = card[g].no /\ card[g].no \in Whitelist]_vars

\* A merged pair draws power together or not at all.
MergedInLockstep ==
    \A g \in Guns :
        (sess[g].merge /\ gun[g].state \in {"STARTING", "CHARGING"}) =>
            /\ HasPeer(g)
            /\ sess[Peer(g)].merge
            /\ gun[Peer(g)].state \in {"STARTING", "CHARGING"}

\* The start command that is repeated after 30 s is never that of an earlier
\* order of the gun, whichever way the gun came back to PREPARE.
RetryRepeatsOrder ==
    \A g \in Guns :
        gun[g].state = "STARTING" => sess[g].lastCmd \in {0, sess[g].order}

\* While a key card charges, the platform link is not confirmed down, not even
\* by a window that its offline report opened before the card was presented.
PlatformSparesCard ==
    [][\A g \in Guns :
          (card[g].active /\ ~link[g]["platform"].latched) =>
              ~link'[g]["platform"].latched]_vars

\* A start ends: with the pile's answer, with a fault or with the 60 s limit.
StartingEnds == \A g \in Guns : gun[g].state = "STARTING" ~> gun[g].state # "STARTING"

\* A gun that has run up the prepaid amount is stopped.
PrepaidStops ==
    \A g \in Guns :
        (/\ gun[g].state = "CHARGING"
         /\ sess[g].precharge > 0
         /\ meter[g].total + StopMargin >= sess[g].precharge
         /\ meter[g].total > 0) ~> gun[g].state # "CHARGING"

\* Every order that is being stopped gets its trade record.
StoppingIsBooked ==
    \A g \in Guns : \A o \in Orders :
        (gun[g].state = "STOPPING" /\ sess[g].order = o) ~> ledger[g][o].count > 0

-----------------------------------------------------------------------------
(* Statements of the documents and comments that the code does not keep.   *)

\* CURRENT_STATUS.md: a session leaves nothing to the next one; in particular
\* an order that has its record is not charged on and booked again.
RealOrderBookedOnce ==
    \A g \in Guns : \A o \in Orders \ {0} : ledger[g][o].count <= 1

\* handlePileEvent: a normal end does not cover the fault that an order is being
\* stopped for, here the loss of a link.
FaultKept ==
    [][\A g \in Guns :
          (/\ gun[g].state = "STOPPING"
           /\ \E l \in Links : link[g][l].latched
           /\ sess[g].reason = "fault"
           /\ sess'[g].order = sess[g].order) => sess'[g].reason = "fault"]_vars

=============================================================================
