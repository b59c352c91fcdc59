---------------------------- MODULE ChargeSession ----------------------------
(***************************************************************************)
(* What tcu_logic does around the state machine of GunMachine: opening an  *)
(* order, the fee the meter runs up on it, and the checks of one iteration *)
(* of the main loop on one gun (ChargeLogicProcess::doRun).                *)
(***************************************************************************)
EXTENDS GunMachine

Least(a, b) == IF a < b THEN a ELSE b

-----------------------------------------------------------------------------
(* Opening an order.                                                       *)

\* A merged pair that was promised different amounts settles on the smaller.
SyncMergePrechargeAmount(s, g) ==
    LET p == Peer(g)
        least == Least(s.sess[g].precharge, s.sess[p].precharge)
    IN  IF /\ MergedPair(s, g)
           /\ s.sess[p].basis
           /\ s.sess[g].precharge > 0
           /\ s.sess[p].precharge > 0
        THEN [s EXCEPT !.sess[g].precharge = least, !.sess[p].precharge = least]
        ELSE s

\* Mutant: a trade number that is still there is used again.
ReuseOrder(s, g, c) ==
    SyncMergePrechargeAmount(
        [s EXCEPT !.sess[g] = [@ EXCEPT !.basis = TRUE, !.merge = c.merge,
                                        !.order = IF s.sess[g].order = 0
                                                  THEN s.sess[g].issued + 1
                                                  ELSE s.sess[g].order,
                                        !.issued = s.sess[g].issued + 1,
                                        !.precharge = c.precharge,
                                        !.tcuStop = FALSE, !.reason = "none"],
                  !.meter[g] = [@ EXCEPT !.stable = 0, !.ready = c.model,
                                         !.based = FALSE, !.last = 0, !.total = 0]],
        g)

\* Every accepted start opens the next order of its gun, from a clean fee.
UpdateAuthBasis(s, g, c) ==
    SyncMergePrechargeAmount(
        [s EXCEPT !.sess[g] = [@ EXCEPT !.basis = TRUE, !.merge = c.merge,
                                        !.order = s.sess[g].issued + 1,
                                        !.issued = s.sess[g].issued + 1,
                                        !.precharge = c.precharge,
                                        !.tcuStop = FALSE, !.reason = "none"],
                  !.meter[g] = [@ EXCEPT !.stable = 0, !.ready = c.model,
                                         !.based = FALSE, !.last = 0, !.total = 0]],
        g)

ArmPendingStart(s, g, c) == [UpdateAuthBasis(s, g, c) EXCEPT !.sess[g].armed = TRUE]

\* handleEvent ignores START_CMD in every state; AUTH_OK starts the gun.
DispatchArmedStart(s, g) == HandleEvent(s, g, "AUTH_OK")

IsMergeReady(s, g) == s.sess[g].merge /\ s.sess[g].armed /\ s.sess[g].basis

\* Mutant: only the gun whose start came last is dispatched.
DispatchLastOnly(s, g) ==
    IF IsMergeReady(s, g) /\ HasPeer(g) /\ IsMergeReady(s, Peer(g))
    THEN DispatchArmedStart(s, g) ELSE s

\* The second of two merged platform starts dispatches both.
TryDispatchMergePendingStart(s, g) ==
    LET p == Peer(g)
        synced == SyncMergePrechargeAmount(SyncMergePrechargeAmount(s, g), p)
    IN  IF /\ IsMergeReady(s, g)
           /\ HasPeer(g)
           /\ s.gun[p].state = "PREPARE"
           /\ IsMergeReady(s, p)
        THEN DispatchArmedStart(DispatchArmedStart(synced, g), p)
        ELSE s

\* A whitelisted card starts the gun the reader was told to wait for.
BeginOfflineCardCharge(s, g) ==
    LET data == [merge |-> s.card[g].ask.merge, precharge |-> 0,
                 model |-> \/ CardFeeFallback
                           \/ s.card[g].ask.model
                           \/ s.meter[g].ready]
        opened == ArmPendingStart([s EXCEPT !.card[g] = [@ EXCEPT !.active = TRUE,
                                                                  !.swiped = FALSE]],
                                  g, data)
    IN  DispatchArmedStart(
            ResetCardReaderState([opened EXCEPT !.card[g].ask = NoAsk]), g)

-----------------------------------------------------------------------------
(* Metering and the fee, at one yuan per kWh in every price segment.       *)

\* Mutant: the count of equal readings is not limited.
CountReading(m, kwh) ==
    [m EXCEPT !.known = TRUE,
              !.value = kwh,
              !.stable = IF ~m.known \/ kwh # m.value THEN 0 ELSE @ + 1]

\* A reading is stable when it repeats; three repeats end the settlement.
TakeReading(m, kwh) ==
    [m EXCEPT !.known = TRUE,
              !.value = kwh,
              !.stable = IF ~m.known \/ kwh # m.value THEN 0 ELSE Least(@ + 1, 3)]

TakeVoltage(m, volt, charging) ==
    [m EXCEPT !.volt = volt, !.voltSeen = @ \/ (charging /\ volt = "normal")]

\* The first reading of a session is its base, later ones add what they grow by.
BillReading(m, kwh) ==
    IF ~m.ready THEN m
    ELSE IF ~m.based THEN [m EXCEPT !.based = TRUE, !.last = kwh]
    ELSE [m EXCEPT !.last = kwh,
                   !.total = IF kwh > m.last THEN @ + (kwh - m.last) ELSE @]

\* Mutant: the meter runs on after the record.
BillInEveryState(s, g, kwh, volt) ==
    LET read == TakeVoltage(TakeReading(s.meter[g], kwh), volt,
                            s.gun[g].state = "CHARGING")
    IN  [s EXCEPT !.meter[g] = BillReading(read, kwh)]

HandleMeterData(s, g, kwh, volt) ==
    LET st == s.gun[g].state
        read == TakeVoltage(TakeReading(s.meter[g], kwh), volt, st = "CHARGING")
    IN  [s EXCEPT !.meter[g] = IF st \in {"CHARGING", "STOPPING"}
                               THEN BillReading(read, kwh) ELSE read]

GetEffectivePrechargeAmount(s, g) ==
    LET own == s.sess[g].precharge
        p == Peer(g)
    IN  IF MergedPair(s, g) /\ s.sess[p].basis /\ s.sess[p].precharge > 0
        THEN IF own = 0 THEN s.sess[p].precharge ELSE Least(own, s.sess[p].precharge)
        ELSE own

GetEffectiveTotalAmount(s, g) ==
    s.meter[g].total +
        (IF MergedPair(s, g) THEN s.meter[Peer(g)].total ELSE 0)

\* Some energy was billed to the gun, or to the peer it is merged with.
HasBilled(s, g) ==
    \/ s.meter[g].total > 0
    \/ s.sess[g].merge /\ HasPeer(g) /\ s.meter[Peer(g)].total > 0

RequestStop(s, g) ==
    IF s.sess[g].tcuStop THEN s
    ELSE HandleEvent([s EXCEPT !.sess[g].tcuStop = TRUE], g, "STOP_CMD")

\* Mutant: the prepaid amount may be used up without a stop.
StopAbovePrecharge(s, g) ==
    IF /\ s.sess[g].basis
       /\ GetEffectivePrechargeAmount(s, g) > 0
       /\ GetEffectiveTotalAmount(s, g) + StopMargin > GetEffectivePrechargeAmount(s, g)
    THEN RequestStop(s, g) ELSE s

RequestPeerStop(s, g) ==
    IF s.sess[g].merge /\ HasPeer(g) THEN RequestStop(s, Peer(g)) ELSE s

\* The lower gun of a merged pair decides for both.
MaybeTriggerTcuStopByPrecharge(s, g) ==
    LET due == GetEffectivePrechargeAmount(s, g)
    IN  IF /\ (s.sess[g].merge /\ HasPeer(g)) => g < Peer(g)
           /\ ~s.sess[g].tcuStop
           /\ s.sess[g].basis
           /\ due > 0
           /\ HasBilled(s, g)
           /\ GetEffectiveTotalAmount(s, g) + StopMargin >= due
        THEN RequestPeerStop(RequestStop(s, g), g)
        ELSE s

-----------------------------------------------------------------------------
(* The watched links.                                                      *)

Cleared == [fault |-> FALSE, latched |-> FALSE, pending |-> FALSE]

\* An offline report opens the window at whose end the fault is confirmed.
NoteOffline(s, g, l) ==
    IF s.link[g][l].latched THEN s ELSE [s EXCEPT !.link[g][l].pending = TRUE]

\* Mutant: a link that is back lets the gun go whatever the others are.
ReleaseOnAnyLink(s, g, l) ==
    LET t == [s EXCEPT !.link[g][l] = Cleared]
    IN  IF t.gun[g].state = "ERROR"
        THEN TransitionTo(t, g, IF t.gun[g].conn THEN "PREPARE" ELSE "IDLE")
        ELSE t

\* A link that is back lets a gun in ERROR go, if the other links are up too.
NoteOnline(s, g, l) ==
    LET t == [s EXCEPT !.link[g][l] = Cleared]
    IN  IF t.gun[g].state = "ERROR" /\ \A k \in Links : ~t.link[g][k].fault
        THEN TransitionTo(t, g, IF t.gun[g].conn THEN "PREPARE" ELSE "IDLE")
        ELSE t

LatchFault(s, g, l) ==
    [s EXCEPT !.link[g][l] = [fault |-> TRUE, latched |-> TRUE, pending |-> FALSE]]

\* A running session is stopped with the link as its reason, a settling one is
\* left alone, and any other gun goes to ERROR.
ConfirmOffline(s, g, l) ==
    LET t == LatchFault(s, g, l)
    IN  IF s.gun[g].state = "STOPPING" THEN t
        ELSE HandleEvent([t EXCEPT !.sess[g].reason =
                             IF s.gun[g].state \in {"STARTING", "CHARGING"} THEN "fault" ELSE @],
                         g, "DEVICE_ERR")

-----------------------------------------------------------------------------
(* One iteration of the main loop on one gun.  "due" names the timers that *)
(* have run out by then; the checks come in the order of the code, which   *)
(* leaves the gun at the first that acts on it.                            *)

Timers == {"meter", "platform", "yx", "pile", "low_voltage",
           "starting_30s", "starting_60s", "stopping_30s"}

\* The timers that are running; the clock may have passed any of them, but not
\* the later limit of STARTING before the earlier one.
Running(s, g) ==
    {l \in Links : s.link[g][l].pending /\ ~s.link[g][l].latched}
        \cup (IF s.gun[g].yxSeen /\ ~s.link[g]["pile"].latched THEN {"yx"} ELSE {})
        \cup (CASE s.gun[g].state = "CHARGING" -> {"low_voltage"}
                [] s.gun[g].state = "STARTING" -> {"starting_30s", "starting_60s"}
                [] s.gun[g].state = "STOPPING" -> {"stopping_30s"}
                [] OTHER -> {})

Expired(s, g) ==
    {due \in SUBSET Running(s, g) :
        "starting_60s" \in due => "starting_30s" \in due}

\* Mutants: a start, and a settlement, without a limit.
RetryOnly(s, g, due) ==
    IF "starting_30s" \in due /\ ~s.gun[g].retried
    THEN [s EXCEPT !.gun[g] = [@ EXCEPT !.retried = TRUE, !.sent = "start_charge"]]
    ELSE s

AwaitStableMeter(s, g, due) ==
    IF s.meter[g].known /\ s.meter[g].stable >= 3
    THEN HandleEvent(s, g, "METER_STALE") ELSE s

\* STARTING: repeat start_charge once after 30 s, give up after 60 s.
PollStarting(s, g, due) ==
    LET retried == IF "starting_30s" \in due /\ ~s.gun[g].retried
                   THEN [s EXCEPT !.gun[g] = [@ EXCEPT !.retried = TRUE,
                                                       !.sent = "start_charge"]]
                   ELSE s
    IN  IF "starting_60s" \in due
        THEN HandleEvent([retried EXCEPT !.sess[g].reason = "fault"], g, "STOP_CMD")
        ELSE retried

\* STOPPING: settled when the meter stands still or after 30 s.
PollStopping(s, g, due) ==
    IF (s.meter[g].known /\ s.meter[g].stable >= 3) \/ "stopping_30s" \in due
    THEN HandleEvent(s, g, "METER_STALE") ELSE s

\* CHARGING: a meter that never saw voltage.
MaybeTriggerMeteringAbnormal(s, g, due) ==
    IF /\ s.gun[g].state = "CHARGING"
       /\ "low_voltage" \in due
       /\ s.meter[g].volt = "low"
       /\ ~s.meter[g].voltSeen
    THEN HandleEvent([s EXCEPT !.sess[g].reason = "fault"], g, "DEVICE_ERR")
    ELSE s

PollCharging(s, g, due) ==
    MaybeTriggerMeteringAbnormal(MaybeTriggerTcuStopByPrecharge(s, g), g, due)

PollSession(s, g, due) ==
    CASE s.gun[g].state = "CHARGING" -> PollCharging(s, g, due)
      [] s.gun[g].state = "STARTING" -> PollStarting(s, g, due)
      [] s.gun[g].state = "STOPPING" -> PollStopping(s, g, due)
      [] OTHER -> s

\* The checks of the links pass on the data and whether the iteration is over:
\* a confirmation that acts on the state machine ends it.
Confirm(i, g, l) ==
    [data |-> ConfirmOffline(i.data, g, l),
     over |-> i.data.gun[g].state \notin {"STOPPING", "ERROR"}]

MaybeConfirmMeterOfflineFault(i, g, due) ==
    IF "meter" \in due THEN Confirm(i, g, "meter") ELSE i

\* Mutant: a window opened before the card was presented still runs out.
ConfirmPlatformAlways(i, g, due) ==
    IF ~i.over /\ "platform" \in due THEN Confirm(i, g, "platform") ELSE i

\* A local key card needs no platform: its link is taken as up.
MaybeConfirmPlatformOfflineFault(i, g, due) ==
    IF i.over THEN i
    ELSE IF IsLocalCardSessionActive(i.data, g)
    THEN [i EXCEPT !.data.link[g]["platform"] = Cleared]
    ELSE IF "platform" \in due THEN Confirm(i, g, "platform") ELSE i

MaybeConfirmPileYxTimeoutFault(i, g, due) ==
    IF ~i.over /\ "yx" \in due THEN Confirm(i, g, "pile") ELSE i

MaybeConfirmPileOfflineFault(i, g, due) ==
    IF ~i.over /\ "pile" \in due /\ ~i.data.link[g]["pile"].latched
    THEN Confirm(i, g, "pile") ELSE i

CheckLinks(s, g, due) ==
    MaybeConfirmPileOfflineFault(
        MaybeConfirmPileYxTimeoutFault(
            MaybeConfirmPlatformOfflineFault(
                MaybeConfirmMeterOfflineFault([data |-> s, over |-> FALSE], g, due),
                g, due),
            g, due),
        g, due)

FinishIteration(i, g, due) == IF i.over THEN i.data ELSE PollSession(i.data, g, due)

PollGun(s, g, due) == FinishIteration(CheckLinks(s, g, due), g, due)

=============================================================================
