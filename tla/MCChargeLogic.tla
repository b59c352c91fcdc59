---------------------------- MODULE MCChargeLogic ----------------------------
(* Constants of the model-checking runs of ChargeLogic.                     *)
EXTENDS ChargeLogic

OnlineKinds == {"meter_online", "platform_online"}
PileKinds == {"yx", "start_complete", "stop_complete"}

\* One gun, all links, faults and recoveries, with starts and stops.
LinkInputs == OnlineKinds \cup PileKinds \cup
    {"meter_offline", "platform_offline", "pile_offline", "pile_online",
     "deviceErr_on", "deviceErr_off", "plat_start", "stop_charge", "reset_error"}

\* The same with authorisation results of the platform.
AuthInputs == LinkInputs \cup {"auth_result"}

\* Two guns that the platform starts as a pair or a card starts one by one.
GunsInputs ==
    {"meter_online", "yx", "start_complete", "plat_start", "stop_charge",
     "card_event", "card_info"}

\* One gun and its meter.
FeeInputs == OnlineKinds \cup PileKinds \cup
    {"plat_start", "hmi_start", "stop_charge", "deviceErr_on", "deviceErr_off",
     "meter_data"}

\* One gun and its meter, started by the platform or by a key card the HMI asked for.
LocalInputs ==
    {"yx", "start_complete", "meter_online", "platform_online", "platform_offline",
     "plat_start", "stop_charge", "meter_data", "request_card_start", "card_info"}

PlainStart == {[merge |-> FALSE, precharge |-> 0, model |-> TRUE]}
MergeStart == {[merge |-> TRUE, precharge |-> 0, model |-> TRUE]}
DuePaid == [merge : {FALSE}, precharge : {1}, model : {TRUE}]
PaidStart == [merge : {FALSE}, precharge : {0, 1}, model : {TRUE}]

Packet(work, conn, total) == [work |-> work, conn |-> conn, total |-> total, other |-> FALSE]

\* A plugged gun at work, a plugged gun idle, an empty gun, and a fault.
QuietPackets == {Packet(TRUE, TRUE, FALSE), Packet(FALSE, TRUE, FALSE),
                 Packet(FALSE, FALSE, FALSE)}
FaultPackets == QuietPackets \cup {Packet(TRUE, TRUE, TRUE), Packet(FALSE, FALSE, TRUE)}
PlugPackets == {Packet(TRUE, TRUE, FALSE), Packet(TRUE, FALSE, FALSE)}

\* Ends of charging without a reason of their own, those without a fault, and all.
PlainEnd == {"none"}
NormalEnd == {"none", "normal"}
AnyEnd == Reasons

NoVoltage == {"normal"}
AnyVoltage == {"low", "normal"}

=============================================================================
