----------------------------- MODULE LogicThreads ------------------------------
(***************************************************************************)
(* The two threads of tcu_logic on the state of one gun                    *)
(* (src/core/tcu_logic/charge_logic_process.cpp): the MQTT client's thread *)
(* handles messages, the main loop handles the time limits, and no lock    *)
(* keeps them apart.  ChargeLogic takes each handler and each iteration as *)
(* one step; here a step ends where a handler reads or writes what the     *)
(* other thread uses, so at the switch of handleEvent, at the test and the *)
(* assignment of transitionTo (a log message and an MQTT message go out    *)
(* after it) and at the trade record.                                      *)
(*                                                                         *)
(* A thread is the list of what it has still to do.  One gun that is       *)
(* started alone by the platform, with its links online; otherFault of a   *)
(* packet stands with totalFault.                                          *)
(***************************************************************************)
EXTENDS Naturals, Sequences

CONSTANT OrderLimit     \* bound: orders that are opened

VARIABLES
    state,      \* gs.state
    order,      \* gs.tradeNo: the number of the order, 0 when it is empty
    opened,     \* orders opened so far
    recorded,   \* orders a trade record names, 0 for a record without an order
    yx,         \* gs.lastWorkStatus, lastVehicleConnectStatus and lastTotalFault
    stable,     \* gs.meterStableCount, 3 standing for more
    gone,       \* gs.vehicleDisconnectedDuringStopping
    since,      \* gs.stoppingEnterTime: not set, less than 30 s ago or longer
    asked,      \* gs.tcuStopReqSent
    todo        \* what each thread has still to do in its handler or iteration

sessionVars == <<order, opened, recorded>>
gunVars == <<yx, stable, gone, since, asked>>
vars == <<state, sessionVars, gunVars, todo>>

States == {"IDLE", "PREPARE", "STARTING", "CHARGING", "STOPPING", "STOPPED", "ERROR"}
Threads == {"mqtt", "loop"}
Orders == 0 .. OrderLimit

Events == {"connected", "disconnected", "fault", "start", "authorised", "ok", "fail", "stop",
           "zero", "complete", "stale", "reset"}
Tests == {"recover", "work", "connect", "faulty", "clear", "record", "gone", "wipe"}
Steps == ({"event"} \X Events) \cup ({"become", "set"} \X States) \cup ({"do"} \X Tests)

TypeOK ==
    /\ state \in States
    /\ order \in Orders /\ opened \in Orders
    /\ recorded \subseteq Orders
    /\ yx \in [work : BOOLEAN, plugged : BOOLEAN, fault : BOOLEAN]
    /\ stable \in 0 .. 3
    /\ gone \in BOOLEAN /\ asked \in BOOLEAN
    /\ since \in {"unset", "now", "long"}
    /\ todo \in [Threads -> Seq(Steps)]

Init ==
    /\ state = "IDLE"
    /\ order = 0 /\ opened = 0 /\ recorded = {}
    /\ yx = [work |-> FALSE, plugged |-> FALSE, fault |-> FALSE]
    /\ stable = 0
    /\ gone = FALSE /\ since = "unset" /\ asked = FALSE
    /\ todo = [t \in Threads |-> <<>>]

-----------------------------------------------------------------------------
(* Steps of a handler.                                                     *)

Event(e) == <<"event", e>>
Become(s) == <<"become", s>>
Do(test) == <<"do", test>>

Doing(t, step) == todo[t] # <<>> /\ Head(todo[t]) = step

\* The thread goes on, with these steps before the rest.
GoOn(t, steps) == todo' = [todo EXCEPT ![t] = steps \o Tail(@)]

\* enterStopping: the transition, then what belongs to the settlement.
EnterStopping == <<Become("STOPPING"), Do("clear")>>

\* The switch of handleEvent.
Reaction(e) ==
    CASE state = "IDLE" /\ e = "connected" -> <<Become("PREPARE")>>
      [] state \in {"IDLE", "PREPARE", "STOPPED"} /\ e = "fault" -> <<Become("ERROR")>>
      [] state = "PREPARE" /\ e = "start" -> <<Become("PREPARE")>>
      [] state = "PREPARE" /\ e = "authorised" -> <<Become("STARTING")>>
      [] state \in {"PREPARE", "STOPPED"} /\ e = "disconnected" -> <<Become("IDLE")>>
      [] state \in {"PREPARE", "STARTING", "ERROR"} /\ e = "reset" -> <<Become("IDLE")>>
      [] state = "STARTING" /\ e = "ok" -> <<Become("CHARGING")>>
      [] state = "STARTING" /\ e \in {"fail", "fault", "stop"} -> EnterStopping
      [] state = "CHARGING" /\ e \in {"complete", "stop", "zero", "fault"} -> EnterStopping
      [] state = "STOPPING" /\ e = "stale" -> <<Become("STOPPED")>>
      [] OTHER -> <<>>

HandleEvent(t, e) ==
    /\ Doing(t, Event(e))
    /\ GoOn(t, Reaction(e))
    /\ asked' = (asked /\ ~(state = "STARTING" /\ e = "ok"))
    /\ UNCHANGED <<state, sessionVars, yx, stable, gone, since>>

\* transitionTo returns when the state is there already.
TestState(t, s) ==
    /\ Doing(t, Become(s))
    /\ GoOn(t, IF state = s THEN <<>> ELSE << <<"set", s>> >>)
    /\ UNCHANGED <<state, sessionVars, gunVars>>

\* What transitionTo does after its messages.
AfterSet(s) ==
    CASE s = "STOPPED" -> <<Do("record"), Do("gone")>>
      [] s = "IDLE" -> <<Do("wipe")>>
      [] OTHER -> <<>>

SetState(t, s) ==
    /\ Doing(t, <<"set", s>>)
    /\ state' = s
    /\ gone' = (gone /\ s # "IDLE")
    /\ GoOn(t, AfterSet(s))
    /\ UNCHANGED <<sessionVars, yx, stable, since, asked>>

\* enterStopping after the transition.
ClearSettlement(t) ==
    /\ Doing(t, Do("clear"))
    /\ gone' = FALSE /\ stable' = 0 /\ since' = "now"
    /\ GoOn(t, <<>>)
    /\ UNCHANGED <<state, sessionVars, yx, asked>>

LogTradeRecordOnStopped(t) ==
    /\ Doing(t, Do("record"))
    /\ recorded' = recorded \cup {order}
    /\ GoOn(t, <<>>)
    /\ UNCHANGED <<state, order, opened, gunVars>>

\* A vehicle that has left during the settlement takes the gun to IDLE at once.
TestGone(t) ==
    /\ Doing(t, Do("gone"))
    /\ GoOn(t, IF gone THEN <<Event("disconnected")>> ELSE <<>>)
    /\ UNCHANGED <<state, sessionVars, gunVars>>

ResetChargeSessionState(t) ==
    /\ Doing(t, Do("wipe"))
    /\ order' = 0 /\ stable' = 0
    /\ gone' = FALSE /\ since' = "unset" /\ asked' = FALSE
    /\ GoOn(t, <<>>)
    /\ UNCHANGED <<state, opened, recorded, yx>>

-----------------------------------------------------------------------------
(* The MQTT thread.                                                        *)

Free == todo["mqtt"] = <<>>
Handle(steps) == todo' = [todo EXCEPT !["mqtt"] = steps]

\* A start of the platform opens an order (updateAuthBasis) and is authorised at once.
PlatformStart ==
    /\ Free
    /\ state = "PREPARE"
    /\ opened < OrderLimit
    /\ opened' = opened + 1 /\ order' = opened + 1
    /\ stable' = 0 /\ asked' = FALSE
    /\ Handle(<<Event("start"), Event("authorised")>>)
    /\ UNCHANGED <<state, recorded, yx, gone, since>>

\* Messages that are no more than an event of the state machine: start_complete,
\* stop_charge, stop_complete, deviceErr_on, deviceErr_off and reset_error.
Message(e) ==
    /\ Free
    /\ e \in {"ok", "fail", "stop", "complete", "fault", "reset"}
    /\ Handle(<<Event(e)>>)
    /\ UNCHANGED <<state, sessionVars, gunVars>>

\* A reading that is new or the same again.
MeterData ==
    /\ Free
    /\ stable' \in {0, IF stable < 3 THEN stable + 1 ELSE 3}
    /\ UNCHANGED <<state, sessionVars, yx, gone, since, asked, todo>>

Yx(packet) ==
    /\ Free
    /\ yx' = packet
    /\ Handle(<<Do("recover"), Do("work"), Do("connect"), Do("faulty")>>)
    /\ UNCHANGED <<state, sessionVars, stable, gone, since, asked>>

Recover ==
    /\ Doing("mqtt", Do("recover"))
    /\ GoOn("mqtt", IF state = "ERROR" /\ ~yx.fault
                    THEN <<Become(IF yx.plugged THEN "PREPARE" ELSE "IDLE")>> ELSE <<>>)
    /\ UNCHANGED <<state, sessionVars, gunVars>>

WorkStatus ==
    /\ Doing("mqtt", Do("work"))
    /\ GoOn("mqtt", IF state = "CHARGING" /\ ~yx.work THEN <<Event("zero")>> ELSE <<>>)
    /\ UNCHANGED <<state, sessionVars, gunVars>>

ConnectStatus ==
    /\ Doing("mqtt", Do("connect"))
    /\ gone' = (gone \/ (state = "STOPPING" /\ ~yx.plugged))
    /\ GoOn("mqtt",
            IF state = "IDLE" /\ yx.plugged /\ ~yx.fault THEN <<Event("connected")>>
            ELSE IF state \in {"PREPARE", "STOPPED"} /\ ~yx.plugged
                 THEN <<Event("disconnected")>> ELSE <<>>)
    /\ UNCHANGED <<state, sessionVars, yx, stable, since, asked>>

TotalFault ==
    /\ Doing("mqtt", Do("faulty"))
    /\ GoOn("mqtt", IF yx.fault THEN <<Event("fault")>> ELSE <<>>)
    /\ UNCHANGED <<state, sessionVars, gunVars>>

-----------------------------------------------------------------------------
(* The main loop.                                                          *)

Raise(e) == todo["loop"] = <<>> /\ todo' = [todo EXCEPT !["loop"] = <<Event(e)>>]

\* 60 s in STARTING.
StartingExpires ==
    /\ state = "STARTING"
    /\ Raise("stop")
    /\ UNCHANGED <<state, sessionVars, gunVars>>

\* The prepaid amount of the order is used up.
PrechargeReached ==
    /\ state = "CHARGING" /\ order # 0 /\ ~asked
    /\ asked' = TRUE
    /\ Raise("stop")
    /\ UNCHANGED <<state, sessionVars, yx, stable, gone, since>>

MeterStable ==
    /\ state = "STOPPING" /\ stable >= 3
    /\ Raise("stale")
    /\ UNCHANGED <<state, sessionVars, gunVars>>

\* 30 s go by, far longer than a handler or an iteration takes.
SettlementAges ==
    /\ since = "now"
    /\ \A t \in Threads : todo[t] = <<>>
    /\ since' = "long"
    /\ UNCHANGED <<state, sessionVars, yx, stable, gone, asked, todo>>

\* 30 s since gs.stoppingEnterTime, the one of an earlier settlement included.
StoppingExpires ==
    /\ state = "STOPPING" /\ since = "long"
    /\ Raise("stale")
    /\ UNCHANGED <<state, sessionVars, gunVars>>

-----------------------------------------------------------------------------
Handler(t) ==
    \/ \E e \in Events : HandleEvent(t, e)
    \/ \E s \in States : TestState(t, s) \/ SetState(t, s)
    \/ ClearSettlement(t) \/ LogTradeRecordOnStopped(t) \/ TestGone(t)
    \/ ResetChargeSessionState(t)

MqttThread ==
    \/ PlatformStart \/ MeterData
    \/ \E e \in Events : Message(e)
    \/ \E packet \in [work : BOOLEAN, plugged : BOOLEAN, fault : BOOLEAN] : Yx(packet)
    \/ Recover \/ WorkStatus \/ ConnectStatus \/ TotalFault

MainLoop ==
    \/ StartingExpires \/ PrechargeReached
    \/ SettlementAges \/ MeterStable \/ StoppingExpires

Next == MqttThread \/ MainLoop \/ \E t \in Threads : Handler(t)

Spec == Init /\ [][Next]_vars

-----------------------------------------------------------------------------
(* Properties.                                                             *)

\* A gun that reaches STOPPED has its order recorded: a trade record is written on
\* STOPPING -> STOPPED and has the number of the order, so that no record is without one.
RecordNamesOrder == 0 \notin recorded

=============================================================================
