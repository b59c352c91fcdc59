-------------------------- MODULE MCRecordDelivery ---------------------------
(* Constants and starts of the model-checking run of RecordDelivery.        *)
EXTENDS RecordDelivery

CONSTANTS r1, r2, r3, g1

\* Power on: the driver has to log in, one record is to be made, and of the others
\* nothing is left.  Faults may come.
ColdStart ==
    /\ Init
    /\ booked = Records \ {r1}
    /\ kept = {}
    /\ accepted = {}

\* Three records are left in the database, the oldest of which the platform refuses, and
\* the driver is online.  A query does not return them all, and no more faults come.
Backlog ==
    /\ tcp = "up"
    /\ login = "online"
    /\ after = "check"
    /\ queried = FALSE
    /\ saw = FALSE
    /\ awaiting = {}
    /\ beats = 0
    /\ reported = FALSE
    /\ onlineEvent = TRUE
    /\ told = "online"
    /\ lastEvent = "setConfig"
    /\ asks = NoAsks
    /\ replayed = TRUE
    /\ faults = MaxFaults
    /\ DeliveryInit
    /\ booked = Records
    /\ row = [r \in Records |-> CASE r = r2 -> 1 [] r = r3 -> 2 [] r = r1 -> 3]
    /\ accepted = {}

StartsSpec ==
    (ColdStart \/ Backlog) /\ [][Next]_vars /\ ProcessFairness /\ SurroundingsFairness

OneGun == [r \in Records |-> g1]

=============================================================================
