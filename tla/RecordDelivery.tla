--------------------------- MODULE RecordDelivery ----------------------------
(***************************************************************************)
(* The way of a trade record.  tcu_logic books it into the logger's queue  *)
(* and hands it to the YKC1.6 driver, which uploads it and resends it; the *)
(* platform's answer goes through the queue to the logger, which marks the *)
(* record.  What is not marked the logger gives back to tcu_logic when it  *)
(* is asked, and tcu_logic hands it to the driver again, one record of a   *)
(* gun at a time and never while that gun charges.  Any process may crash, *)
(* the connection may die and the queue may lose what does not fit.        *)
(***************************************************************************)
EXTENDS PlatformLink, Sequences

CONSTANTS
    Guns,
    GunOf,         \* the gun of a record
    Local,         \* records with a trade number of the pile, which the frame abridges
    Refused,       \* records the platform never accepts
    NoRecord,
    QueueLimit,    \* messages the logger's queue holds
    BufferLimit,   \* records tcu_logic buffers of a gun
    QueryLimit,    \* records the logger gives back at a time
    MaxRetry       \* resends of an upload before the final one

ASSUME DeliveryAssumption ==
    /\ IsFiniteSet(Records)
    /\ GunOf \in [Records -> Guns]
    /\ Local \subseteq Records
    /\ Refused \subseteq Records
    /\ NoRecord \notin Records
    /\ QueueLimit \in Nat \ {0}
    /\ BufferLimit \in Nat \ {0}
    /\ QueryLimit \in Nat \ {0}
    /\ MaxRetry \in Nat

VARIABLES
    \* tcu_logic
    busy,        \* guns in STARTING or CHARGING
    booked,      \* records it has made
    buffer,      \* m_unconfirmedRecordBuffer
    \* the logger
    queue,       \* its message queue, which the kernel keeps
    row,         \* the id of the record's row in the database, 0 without one
    confirmed,   \* records with the confirmation flag set
    found,       \* unconfirmed records on their way to tcu_logic
    \* the driver
    events,      \* update_record events on their way to the driver
    retained,    \* the last event of a gun, which the broker keeps
    uploads,     \* m_pendingTradeRecordUploads: resends so far, or none pending
    \* the platform
    wire,        \* records on the connection
    answers,     \* its answers on the connection
    accepted     \* records it has accepted

logicVars == <<busy, booked, buffer>>
loggerVars == <<queue, row, confirmed, found>>
driverVars == <<events, retained, uploads>>
platformVars == <<wire, answers, accepted>>
vars == <<linkVars, faults, logicVars, loggerVars, driverVars, platformVars>>

Trade(r) == [kind |-> "trade", rec |-> r]
Cfm(r) == [kind |-> "cfm", rec |-> r]
Query == [kind |-> "query", rec |-> NoRecord]
Messages == [kind : {"trade", "cfm"}, rec : Records] \cup {Cfm(NoRecord), Query}
Answers == [rec : Records, ok : BOOLEAN]

NotPending == MaxRetry + 1
pending == {r \in Records : uploads[r] # NotPending}
kept == {r \in Records : row[r] # 0}
Unconfirmed == kept \ confirmed

TypeOK ==
    /\ LinkTypeOK
    /\ busy \subseteq Guns
    /\ booked \subseteq Records
    /\ buffer \in [Guns -> Seq(Records)]
    /\ queue \in Seq(Messages)
    /\ row \in [Records -> Nat]
    /\ confirmed \subseteq Records
    /\ found \subseteq Records
    /\ events \subseteq Records
    /\ retained \in [Guns -> Records \cup {NoRecord}]
    /\ uploads \in [Records -> 0..NotPending]
    /\ wire \subseteq Records
    /\ answers \subseteq Answers
    /\ accepted \subseteq Records

\* Earlier runs have left records behind: lost ones, stored ones, accepted ones, and
\* those that are settled.
Leftovers ==
    /\ booked \in SUBSET Records
    /\ row \in [Records -> 0..Cardinality(Records)]
    /\ kept \subseteq booked
    /\ {row[r] : r \in kept} = 1..Cardinality(kept)
    /\ accepted \in SUBSET (booked \ Refused)
    /\ confirmed \in SUBSET (kept \cap accepted)

\* tcu_logic asks the logger as it starts.
DeliveryInit ==
    /\ busy = {}
    /\ Leftovers
    /\ buffer = [g \in Guns |-> <<>>]
    /\ queue = <<Query>>
    /\ found = {}
    /\ events = {}
    /\ retained = [g \in Guns |-> NoRecord]
    /\ uploads = [r \in Records |-> NotPending]
    /\ wire = {}
    /\ answers = {}

Init == LinkInit /\ DeliveryInit

-----------------------------------------------------------------------------
(* Messages between the processes.                                         *)

\* A full queue drops what is sent to it.
Send(m) == queue' = IF Len(queue) < QueueLimit THEN Append(queue, m) ELSE queue

\* publishUpdateRecordEvent; the broker keeps the gun's last event.
Publish(r) ==
    /\ events' = events \cup {r}
    /\ retained' = [retained EXCEPT ![GunOf[r]] = r]

-----------------------------------------------------------------------------
(* tcu_logic.                                                              *)

\* A session begins; its state change is the gun's last event from then on.
StartSession(g) ==
    /\ g \notin busy
    /\ \E r \in Records \ booked : GunOf[r] = g
    /\ busy' = busy \cup {g}
    /\ retained' = [retained EXCEPT ![g] = NoRecord]
    /\ NoFault
    /\ UNCHANGED <<linkVars, booked, buffer, loggerVars, events, uploads, platformVars>>

\* A session ends: the record goes to the logger and then to the driver.
LogTradeRecordOnStopped(r) ==
    /\ r \notin booked
    /\ GunOf[r] \in busy
    /\ busy' = busy \ {GunOf[r]}
    /\ booked' = booked \cup {r}
    /\ Send(Trade(r))
    /\ Publish(r)
    /\ NoFault
    /\ UNCHANGED <<linkVars, buffer, row, confirmed, found, uploads, platformVars>>

\* Once an hour, which is long after what the last query found has been handed on to the
\* driver, unless the gun charges all the while.
HourlyQuery ==
    /\ \A i \in 1..Len(queue) : queue[i] # Query
    /\ found = {}
    /\ \A g \in Guns \ busy : buffer[g] = <<>>
    /\ events = {}
    /\ Send(Query)
    /\ NoFault
    /\ UNCHANGED <<linkVars, logicVars, row, confirmed, found, driverVars, platformVars>>

\* Rows arrive in the order of their ids; the buffer gives up its oldest record.
BufferUnconfirmed(r) ==
    /\ r \in found
    /\ \A q \in found : GunOf[q] = GunOf[r] => row[r] <= row[q]
    /\ found' = found \ {r}
    /\ LET b == buffer[GunOf[r]]
           room == IF Len(b) < BufferLimit THEN b ELSE Tail(b)
       IN  buffer' = [buffer EXCEPT ![GunOf[r]] = Append(room, r)]
    /\ NoFault
    /\ UNCHANGED <<linkVars, busy, booked, queue, row, confirmed, driverVars, platformVars>>

\* Every 10 s the oldest record of each gun that does not charge.
ReplayBufferedUnconfirmedRecords(g) ==
    /\ g \notin busy
    /\ buffer[g] # <<>>
    /\ buffer' = [buffer EXCEPT ![g] = Tail(@)]
    /\ Publish(Head(buffer[g]))
    /\ NoFault
    /\ UNCHANGED <<linkVars, busy, booked, loggerVars, uploads, platformVars>>

\* A restart of tcu_logic: the buffer is lost, and so is a session under way, which
\* the model lets begin again.
LogicRestart ==
    /\ Fault
    /\ busy' = {}
    /\ buffer' = [g \in Guns |-> <<>>]
    /\ found' = {}
    /\ Send(Query)
    /\ Restarted
    /\ UNCHANGED <<booked, row, confirmed, driverVars, platformVars>>

-----------------------------------------------------------------------------
(* The logger.                                                             *)

\* Mutant: the query stops one row short of its limit.
FirstUnconfirmedButOne ==
    {r \in Unconfirmed :
        Cardinality({q \in Unconfirmed : row[q] < row[r]}) < QueryLimit - 1}

\* Mutant: the query does not look at the confirmation flag.
FirstRows == {r \in kept : Cardinality({q \in kept : row[q] < row[r]}) < QueryLimit}

\* The rows the query returns: the oldest QueryLimit of those that are not confirmed.
FirstUnconfirmed ==
    {r \in Unconfirmed :
        Cardinality({q \in Unconfirmed : row[q] < row[r]}) < QueryLimit}

\* A confirmation of a number the database does not know changes nothing.
Confirm(r) == confirmed' = confirmed \cup ({r} \cap kept)

LogMessage ==
    /\ queue # <<>>
    /\ queue' = Tail(queue)
    /\ CASE Head(queue).kind = "trade" ->
              /\ row' = [row EXCEPT ![Head(queue).rec] = Cardinality(kept) + 1]
              /\ UNCHANGED <<confirmed, found>>
         [] Head(queue).kind = "cfm" -> Confirm(Head(queue).rec) /\ UNCHANGED <<row, found>>
         [] Head(queue).kind = "query" ->
              /\ found' = found \cup FirstUnconfirmed
              /\ UNCHANGED <<row, confirmed>>
    /\ NoFault
    /\ UNCHANGED <<linkVars, logicVars, driverVars, platformVars>>

\* The logger crashes between taking a message and the end of its statement, or the
\* statement fails: nobody looks at its result.
LoseMessage ==
    /\ queue # <<>>
    /\ Fault
    /\ queue' = Tail(queue)
    /\ UNCHANGED <<linkVars, logicVars, row, confirmed, found, driverVars, platformVars>>

-----------------------------------------------------------------------------
(* The driver.  A send on a dead connection may fail or vanish.            *)

\* sendPlatformFrame with a record: whether it is sent, and what is then on the way.
SendFrame(r, sent) ==
    /\ tcp = "up" => sent
    /\ tcp = "down" => ~sent
    /\ wire' = IF tcp = "up" THEN wire \cup {r} ELSE wire

TrackOfflineReplayTradeIfNeeded(r) ==
    IF login = "replay"
    THEN saw' = TRUE /\ awaiting' = awaiting \cup {r}
    ELSE UNCHANGED <<saw, awaiting>>

KeepLogin == UNCHANGED <<tcp, login, after, queried, beats, reported, onlineEvent,
                         told, lastEvent, asks, replayed>>

\* An update_record event: sent and tracked, whatever the login has come to.
HandleUpdateRecord(r) ==
    /\ r \in events
    /\ events' = events \ {r}
    /\ \E sent \in BOOLEAN :
          /\ SendFrame(r, sent)
          /\ IF sent
             THEN /\ uploads' = [uploads EXCEPT ![r] = 0]
                  /\ TrackOfflineReplayTradeIfNeeded(r)
             ELSE UNCHANGED <<uploads, saw, awaiting>>
    /\ NoFault
    /\ KeepLogin
    /\ UNCHANGED <<logicVars, loggerVars, retained, answers, accepted>>

UnderWay(r) == r \in wire \/ \E a \in answers : a.rec = r

\* A platform that has the record and does not answer in time is at fault.
Due(r) ==
    /\ login \in {"online", "replay"}
    /\ r \in pending
    /\ SendFrame(r, TRUE)

\* 30 s after the last send.
ResendUpload(r) ==
    /\ Due(r)
    /\ uploads[r] < MaxRetry
    /\ IF UnderWay(r) THEN Fault ELSE NoFault
    /\ uploads' = [uploads EXCEPT ![r] = @ + 1]
    /\ UNCHANGED <<linkVars, logicVars, loggerVars, events, retained, answers, accepted>>

\* 300 s after the first send, after which the driver gives up: regularly after the
\* last resend, and at once for an upload that has outlived a long outage.
FinalResend(r) ==
    /\ Due(r)
    /\ IF UnderWay(r) \/ uploads[r] < MaxRetry THEN Fault ELSE NoFault
    /\ uploads' = [uploads EXCEPT ![r] = NotPending]
    /\ UNCHANGED <<linkVars, logicVars, loggerVars, events, retained, answers, accepted>>

\* The answer names the number in the frame; the pile's own number of a local record
\* is known only while the upload is pending.
OriginalTradeNo(r) == IF r \in pending \/ r \notin Local THEN r ELSE NoRecord

\* Mutant: the flag in the answer is not looked at.
ConfirmWhateverAnswered(a) ==
    /\ a \in answers
    /\ answers' = answers \ {a}
    /\ LET r == OriginalTradeNo(a.rec)
       IN  /\ uploads' = [q \in Records |-> IF q = r THEN NotPending ELSE uploads[q]]
           /\ Send(Cfm(r))
           /\ awaiting' = awaiting \ {r}
    /\ NoFault
    /\ KeepLogin
    /\ UNCHANGED <<saw, logicVars, row, confirmed, found, events, retained, wire, accepted>>

\* 0x40: a refusal ends the upload as well.
RecordConfirm(a) ==
    /\ a \in answers
    /\ answers' = answers \ {a}
    /\ LET r == OriginalTradeNo(a.rec)
       IN  /\ uploads' = [q \in Records |-> IF q = r THEN NotPending ELSE uploads[q]]
           /\ IF a.ok
              THEN Send(Cfm(r)) /\ awaiting' = awaiting \ {r}
              ELSE UNCHANGED <<queue, awaiting>>
    /\ NoFault
    /\ KeepLogin
    /\ UNCHANGED <<saw, logicVars, row, confirmed, found, events, retained, wire, accepted>>

\* A restart of the driver: it publishes its configuration, and the broker gives it the
\* last event of each gun again.
DriverRestart ==
    /\ Fault
    /\ ClosePlatformTcp
    /\ reported' = FALSE
    /\ onlineEvent' = FALSE
    /\ lastEvent' = "setConfig"
    /\ events' = {retained[g] : g \in Guns} \ {NoRecord}
    /\ uploads' = [r \in Records |-> NotPending]
    /\ wire' = {}
    /\ answers' = {}
    /\ UNCHANGED <<told, logicVars, loggerVars, retained, accepted>>

-----------------------------------------------------------------------------
(* The platform.                                                           *)

\* It may refuse a record once that it accepts later.
PlatformAnswers(r) ==
    /\ r \in wire
    /\ wire' = wire \ {r}
    /\ \/ /\ r \notin Refused
          /\ accepted' = accepted \cup {r}
          /\ answers' = answers \cup {[rec |-> r, ok |-> TRUE]}
          /\ NoFault
       \/ /\ UNCHANGED accepted
          /\ answers' = answers \cup {[rec |-> r, ok |-> FALSE]}
          /\ IF r \in Refused THEN NoFault ELSE Fault
    /\ UNCHANGED <<linkVars, logicVars, loggerVars, driverVars>>

-----------------------------------------------------------------------------
(* The link.  What is on a connection is lost with it.                     *)

Frames ==
    /\ wire' = IF tcp' = "up" THEN wire ELSE {}
    /\ answers' = IF tcp' = "up" THEN answers ELSE {}
    /\ UNCHANGED <<accepted, logicVars, loggerVars, driverVars>>

Link(A) == A /\ Frames

AskForOfflineRecords ==
    /\ OfflineReplayQuery
    /\ Send(Query)
    /\ UNCHANGED <<logicVars, row, confirmed, found, driverVars, platformVars>>

LinkNext ==
    \/ Link(ConnectPlatformTcp) \/ Link(PlatformVanishes) \/ Link(CloseDeadTcp)
    \/ Link(StartLogin) \/ Link(Request) \/ Link(Heartbeat) \/ Link(HeartbeatTimeout)
    \/ Link(EndOfflineReplay) \/ AskForOfflineRecords \/ Link(PublishSetConfig)
    \/ Link(LoginAck) \/ Link(FeeModelCheckAck) \/ Link(FeeModelAck) \/ Link(HeartbeatAck)

Next ==
    \/ LinkNext
    \/ \E g \in Guns : StartSession(g) \/ ReplayBufferedUnconfirmedRecords(g)
    \/ \E r \in Records :
          \/ LogTradeRecordOnStopped(r) \/ BufferUnconfirmed(r)
          \/ HandleUpdateRecord(r) \/ ResendUpload(r) \/ FinalResend(r)
          \/ PlatformAnswers(r)
    \/ \E a \in answers : RecordConfirm(a)
    \/ HourlyQuery \/ LogMessage \/ LoseMessage \/ LogicRestart \/ DriverRestart

Spec == Init /\ [][Next]_vars

-----------------------------------------------------------------------------
(* Fairness.                                                               *)

\* The loops of the three processes and the timeouts of the kernel's TCP.
ProcessFairness ==
    /\ WF_vars(Link(StartLogin)) /\ WF_vars(Link(Request)) /\ WF_vars(Link(CloseDeadTcp))
    /\ WF_vars(Link(Heartbeat)) /\ WF_vars(Link(HeartbeatTimeout))
    /\ WF_vars(AskForOfflineRecords) /\ WF_vars(Link(EndOfflineReplay))
    /\ WF_vars(HourlyQuery) /\ WF_vars(LogMessage)
    /\ \A g \in Guns : WF_vars(ReplayBufferedUnconfirmedRecords(g))
    /\ \A r \in Records :
          /\ WF_vars(BufferUnconfirmed(r)) /\ WF_vars(HandleUpdateRecord(r))
          /\ WF_vars(ResendUpload(r)) /\ WF_vars(FinalResend(r))

\* A platform that can be reached answers, and a session ends.
SurroundingsFairness ==
    /\ WF_vars(Link(ConnectPlatformTcp)) /\ WF_vars(Link(LoginAck))
    /\ WF_vars(Link(FeeModelCheckAck)) /\ WF_vars(Link(FeeModelAck))
    /\ WF_vars(Link(HeartbeatAck))
    /\ \A r \in Records : WF_vars(PlatformAnswers(r))
    /\ \A a \in Answers : WF_vars(RecordConfirm(a))
    /\ \A g \in Guns : WF_vars(\E r \in Records : GunOf[r] = g /\ LogTradeRecordOnStopped(r))

FairSpec == Spec /\ ProcessFairness /\ SurroundingsFairness

-----------------------------------------------------------------------------
(* Properties.                                                             *)

\* The ledger this is an implementation of.
Ledger == INSTANCE RecordLedger WITH kept <- kept, settled <- confirmed

\* Across crashes, lost messages, lost connections and refusals, every step of the
\* processes is a step of the ledger or none: a record is marked only when the database
\* has it and the platform has accepted it, and no mark or row is lost.
ImplementsLedger == Ledger!Spec

\* A record in the database is marked in the end, unless the platform refuses it: what a
\* crash, a full queue or buffer or a dead connection has lost is asked for again every
\* hour.  Refused records do not keep the others back as long as a query has room for
\* more than them; once they fill it, the records after them are never asked for.
KeptIsSettled == Cardinality(Refused) < QueryLimit => Ledger!KeptIsSettled

\* A marked record is in the end left alone: no query, buffer or retained event goes on
\* sending it to the platform.
SettledIsLeftAlone == \A r \in Records : <>[](r \in confirmed => r \notin wire)

\* While the driver is ONLINE, no report that tcu_logic goes by says that the platform is
\* offline, neither an older one nor one the broker has kept: a relogin after a timeout
\* reports itself, whichever process restarts in between.  That tcu_logic is told at all
\* after a restart of its own is not so: setConfig may have displaced the report.
NoStaleOffline == login = "online" => told # "offline"

\* No connection comes to ONLINE without having asked for the offline records first,
\* whatever late or garbled answers of the login arrive.
OnlineMeansReplayed == login \in {"model", "online"} => replayed

\* The driver always comes back to ONLINE: no state of the login or of the replay keeps it.
ReturnsOnline == []<>(login = "online")

=============================================================================
