------------------------- MODULE RecordDeliveryProofs ------------------------
(***************************************************************************)
(* For every set of records and guns, every limit and every number of      *)
(* faults: RecordDelivery implements RecordLedger, the driver is ONLINE    *)
(* only after it has asked for the offline records, no report says then    *)
(* that the platform is offline, and everything keeps its type.            *)
(***************************************************************************)
EXTENDS RecordDelivery, FiniteSetTheorems, SequenceTheorems, TLAPS

-----------------------------------------------------------------------------
(* The link.                                                               *)

\* What OnlineMeansReplayed rests on: whoever holds a query that went out on this
\* connection, or has an answer about the fee model to come, is past the replay.  And what
\* NoStaleOffline rests on: the flag that online has been reported is given up with the
\* report of the opposite, which no restart brings back once the flag is set again.
LinkInv ==
    /\ login \in {"model", "online"} => replayed
    /\ queried => replayed
    /\ asks["model"] > 0 => replayed
    /\ asks \in [Kinds -> Nat]
    /\ login = "online" => onlineEvent
    /\ onlineEvent => told # "offline" /\ lastEvent # "offline"
    /\ after \in {"check", "model", "online"}

\* The invariant of the link holds at the start.
LEMMA LinkInvInit == Init => LinkInv
  BY DEF Init, LinkInit, LinkInv, NoAsks, Kinds

\* Every action of the link keeps it.
LEMMA LinkInvStep == LinkInv /\ [Next]_vars => LinkInv'
<1> SUFFICES ASSUME LinkInv, [Next]_vars
             PROVE  LinkInv'
  OBVIOUS
<1> USE DEF LinkInv
<1>1. ASSUME UNCHANGED linkVars PROVE LinkInv'
  BY <1>1 DEF linkVars
<1>2. ASSUME LinkNext PROVE LinkInv'
  <2> USE DEF Kinds, Link, KeepEvents, KeepReplay, ReplayLeadsTo, ResetOfflineReplayState
  <2>1. CASE ConnectPlatformTcp
    BY <2>1 DEF ConnectPlatformTcp
  <2>2. CASE PlatformVanishes
    BY <2>2 DEF PlatformVanishes, NoAsks
  <2>3. CASE CloseDeadTcp
    BY <2>3 DEF CloseDeadTcp, ClosePlatformTcp, NoAsks
  <2>4. CASE StartLogin
    BY <2>4 DEF StartLogin
  <2>5. CASE Request
    BY <2>5 DEF Request, Ask
  <2>6. CASE Heartbeat
    BY <2>6 DEF Heartbeat, Ask
  <2>7. CASE HeartbeatTimeout
    BY <2>7 DEF HeartbeatTimeout, ClosePlatformTcp, NoAsks, Report
  <2>8. CASE EndOfflineReplay
    BY <2>8 DEF EndOfflineReplay, EnterAfterOfflineReplayState,
                MarkPlatformOnlineAfterFeeModel, Report
  <2>9. CASE AskForOfflineRecords
    BY <2>9 DEF AskForOfflineRecords, OfflineReplayQuery
  <2>10. CASE LoginAck
    BY <2>10 DEF LoginAck, Answered
  <2>11. CASE FeeModelCheckAck
    BY <2>11 DEF FeeModelCheckAck, Answered
  <2>12. CASE FeeModelAck
    <3>1. replayed /\ asks' \in [Kinds -> Nat]
      BY <2>12 DEF FeeModelAck, Answered
    <3>2. CASE MarkPlatformOnlineAfterFeeModel
      BY <3>1, <3>2 DEF MarkPlatformOnlineAfterFeeModel, Report
    <3>3. CASE KeepReplay /\ KeepEvents /\ UNCHANGED <<tcp, login, beats, replayed>>
      BY <3>1, <3>3
    <3> QED
      BY <2>12, <3>2, <3>3 DEF FeeModelAck
  <2>13. CASE HeartbeatAck
    BY <2>13 DEF HeartbeatAck, Answered
  <2>14. CASE PublishSetConfig
    BY <2>14 DEF PublishSetConfig
  <2> QED
    BY <1>2, <2>1, <2>2, <2>3, <2>4, <2>5, <2>6, <2>7, <2>8, <2>9, <2>10, <2>11, <2>12,
       <2>13, <2>14 DEF LinkNext
<1>3. ASSUME NEW r \in Records, HandleUpdateRecord(r) PROVE LinkInv'
  BY <1>3 DEF HandleUpdateRecord, KeepLogin
<1>4. ASSUME NEW a \in answers, RecordConfirm(a) PROVE LinkInv'
  BY <1>4 DEF RecordConfirm, KeepLogin
<1>5. CASE DriverRestart
  BY <1>5 DEF DriverRestart, ClosePlatformTcp, ResetOfflineReplayState, ReplayLeadsTo,
              NoAsks, Kinds
<1>6. CASE \E g \in Guns : StartSession(g) \/ ReplayBufferedUnconfirmedRecords(g)
  BY <1>1, <1>6 DEF StartSession, ReplayBufferedUnconfirmedRecords
<1>7. CASE \E r \in Records : \/ LogTradeRecordOnStopped(r) \/ BufferUnconfirmed(r)
                              \/ ResendUpload(r) \/ FinalResend(r) \/ PlatformAnswers(r)
  BY <1>1, <1>7 DEF LogTradeRecordOnStopped, BufferUnconfirmed, ResendUpload, FinalResend,
                    PlatformAnswers
<1>8. CASE HourlyQuery \/ LogMessage \/ LoseMessage
  BY <1>1, <1>8 DEF HourlyQuery, LogMessage, LoseMessage
<1>10. CASE LogicRestart
  BY <1>10 DEF LogicRestart, Restarted
<1>9. CASE UNCHANGED vars
  BY <1>1, <1>9 DEF vars
<1> QED
  BY <1>2, <1>3, <1>4, <1>5, <1>6, <1>7, <1>8, <1>9, <1>10 DEF Next

\* No connection, in whatever order late answers come, is ONLINE before the offline
\* records have been asked for on it.
THEOREM OnlineAfterReplay == Spec => []OnlineMeansReplayed
<1>1. LinkInv => OnlineMeansReplayed
  BY DEF LinkInv, OnlineMeansReplayed
<1> QED
  BY <1>1, LinkInvInit, LinkInvStep, PTL DEF Spec

\* While the driver is ONLINE, no report of the link that tcu_logic goes by says that the
\* platform is offline, through every timeout, relogin and restart of either process.
THEOREM NoOfflineWhileOnline == Spec => []NoStaleOffline
<1>1. LinkInv => NoStaleOffline
  BY DEF LinkInv, NoStaleOffline
<1> QED
  BY <1>1, LinkInvInit, LinkInvStep, PTL DEF Spec

-----------------------------------------------------------------------------
(* The records.                                                            *)

\* Messages in the logger's queue that something has happened for.
Justified == {Trade(r) : r \in booked} \cup {Cfm(r) : r \in accepted}
                \cup {Cfm(NoRecord), Query}

\* Where records and confirmations come from: what is stored or under way has been
\* booked, and every confirmation and positive answer has its acceptance.
Origins ==
    /\ booked \subseteq Records
    /\ kept \subseteq booked
    /\ found \subseteq booked
    /\ events \subseteq booked
    /\ wire \subseteq booked
    /\ buffer \in [Guns -> Seq(booked)]
    /\ retained \in [Guns -> booked \cup {NoRecord}]
    /\ queue \in Seq(Justified)
    /\ \A a \in answers : a.ok => a.rec \in accepted
    /\ row \in [Records -> Nat]
    /\ uploads \in [Records -> Nat]
    /\ pending \subseteq booked

deliveryVars == <<logicVars, loggerVars, driverVars, platformVars>>

\* Whether the queue is full or not, it holds what it held and what is sent.
LEMMA SendFact ==
  ASSUME NEW J, queue \in Seq(J), NEW m \in J, Send(m)
  PROVE  queue' \in Seq(J)
  BY DEF Send

\* The message the logger takes has been justified.
LEMMA HeadFact ==
  ASSUME queue \in Seq(Justified), queue # <<>>
  PROVE  /\ Tail(queue) \in Seq(Justified)
         /\ Head(queue).kind = "trade" => Head(queue).rec \in booked
         /\ Head(queue).kind = "cfm" => Head(queue).rec \in accepted \cup {NoRecord}
         /\ Head(queue).kind \in {"trade", "cfm", "query"}
<1>1. Head(queue) \in Justified /\ Tail(queue) \in Seq(Justified)
  OBVIOUS
<1> QED
  BY <1>1 DEF Justified, Trade, Cfm, Query

\* The next row has an id of its own.
LEMMA NextIdFact == Cardinality(kept) + 1 \in Nat \ {0}
<1>1. IsFiniteSet(kept)
  BY DeliveryAssumption, FS_Subset DEF kept
<1> QED
  BY <1>1, FS_CardinalityType

\* The ledger's variables, as the processes keep them.
LedgerSame == booked' = booked /\ kept' = kept /\ accepted' = accepted /\ confirmed' = confirmed

\* The processes start with what earlier runs have left.
LEMMA OriginsInit == Init => Origins
<1> SUFFICES ASSUME Init PROVE Origins
  OBVIOUS
<1>1. pending = {} /\ uploads \in [Records -> Nat]
  BY DeliveryAssumption DEF Init, DeliveryInit, pending, NotPending
<1>4. /\ booked \subseteq Records
      /\ kept \subseteq booked
      /\ row \in [Records -> 0..Cardinality(Records)]
  BY DEF Init, DeliveryInit, Leftovers
<1>5. row \in [Records -> Nat]
  BY <1>4, DeliveryAssumption, FS_CardinalityType
<1>2. queue \in Seq(Justified)
  BY DEF Init, DeliveryInit, Justified
<1>3. buffer \in [Guns -> Seq(booked)]
  BY DEF Init, DeliveryInit
<1> QED
  BY <1>1, <1>2, <1>3, <1>4, <1>5 DEF Init, DeliveryInit, Origins

\* What a step of the processes has to show: the origins hold on, and the ledger stands
\* still or makes a step of its own.
Simulates == Origins' /\ [Ledger!Next]_(Ledger!vars)

\* A step that leaves the records alone.
LEMMA SameFact ==
  ASSUME Origins, UNCHANGED deliveryVars
  PROVE  Simulates
<1>1. LedgerSame /\ pending' = pending
  BY DEF deliveryVars, logicVars, loggerVars, driverVars, platformVars, kept, pending,
         LedgerSame
<1>2. UNCHANGED Justified
  BY DEF deliveryVars, logicVars, platformVars, Justified
<1> QED
  BY <1>1, <1>2 DEF Origins, Simulates, LedgerSame, Ledger!vars, deliveryVars, logicVars,
                    loggerVars, driverVars, platformVars

\* A step that moves copies and messages about, and neither books, stores, accepts nor
\* confirms.
LEMMA MoveFact ==
  ASSUME Origins, UNCHANGED <<booked, row, confirmed, accepted>>,
         found' \subseteq booked, events' \subseteq booked, wire' \subseteq booked,
         buffer' \in [Guns -> Seq(booked)], retained' \in [Guns -> booked \cup {NoRecord}],
         queue' \in Seq(Justified), \A a \in answers' : a.ok => a.rec \in accepted,
         uploads' \in [Records -> Nat], pending' \subseteq booked
  PROVE  Simulates
<1>1. LedgerSame
  BY DEF kept, LedgerSame
<1>2. UNCHANGED Justified
  BY DEF Justified
<1> QED
  BY <1>1, <1>2 DEF Origins, Simulates, LedgerSame, Ledger!vars

\* A session's end books its record.
LEMMA BookFact ==
  ASSUME Origins, NEW r \in Records, LogTradeRecordOnStopped(r)
  PROVE  Simulates
<1> USE DEF LogTradeRecordOnStopped, Origins, loggerVars, driverVars, platformVars
<1>1. kept' = kept /\ pending' = pending
  BY DEF kept, pending
<1>2. booked \subseteq booked' /\ booked' \subseteq Records /\ r \in booked'
  OBVIOUS
<1>3. Justified \subseteq Justified' /\ Trade(r) \in Justified'
  BY DEF Justified
<1>4. queue' \in Seq(Justified')
  BY <1>3, SendFact, SeqMonotonic
<1>5. buffer' \in [Guns -> Seq(booked')]
  BY <1>2, SeqMonotonic
<1>6. retained' \in [Guns -> booked' \cup {NoRecord}]
  BY <1>2, DeliveryAssumption DEF Publish
<1>7. events' \subseteq booked'
  BY <1>2 DEF Publish
<1>8. Origins'
  BY <1>1, <1>2, <1>4, <1>5, <1>6, <1>7
<1>9. Ledger!Book(r)
  BY <1>1 DEF Ledger!Book
<1> QED
  BY <1>8, <1>9 DEF Simulates, Ledger!Next

\* The logger stores, marks, or looks up what is not marked.
LEMMA LogFact ==
  ASSUME Origins, LogMessage
  PROVE  Simulates
<1> USE DEF LogMessage, Origins
<1>1. /\ UNCHANGED <<booked, accepted, wire, answers, events, retained, buffer, uploads>>
      /\ pending' = pending
      /\ queue # <<>>
      /\ queue' = Tail(queue)
  BY DEF logicVars, driverVars, platformVars, pending
<1>2. /\ Tail(queue) \in Seq(Justified)
      /\ Head(queue).kind = "trade" => Head(queue).rec \in booked
      /\ Head(queue).kind = "cfm" => Head(queue).rec \in accepted \cup {NoRecord}
      /\ Head(queue).kind \in {"trade", "cfm", "query"}
  BY <1>1, HeadFact
<1>3. UNCHANGED Justified
  BY <1>1 DEF Justified
<1>4. CASE Head(queue).kind = "trade"
  <2> DEFINE r == Head(queue).rec
  <2>1. /\ r \in booked
        /\ row' = [row EXCEPT ![r] = Cardinality(kept) + 1]
        /\ UNCHANGED <<confirmed, found>>
    BY <1>2, <1>4
  <2> HIDE DEF r
  <2>2. row' \in [Records -> Nat] /\ kept' = kept \cup {r}
    BY <2>1, NextIdFact DEF kept
  <2>3. Origins'
    BY <1>1, <1>2, <1>3, <2>1, <2>2
  <2>4. CASE r \in kept
    BY <1>1, <2>1, <2>2, <2>3, <2>4 DEF Simulates, Ledger!vars
  <2>5. CASE r \notin kept
    <3>1. Ledger!Keep(r)
      BY <1>1, <2>1, <2>2, <2>5 DEF Ledger!Keep
    <3> QED
      BY <2>1, <2>3, <3>1 DEF Simulates, Ledger!Next
  <2> QED
    BY <2>4, <2>5
<1>5. CASE Head(queue).kind = "cfm"
  <2> DEFINE r == Head(queue).rec
  <2>1. /\ r \in accepted \cup {NoRecord}
        /\ confirmed' = confirmed \cup ({r} \cap kept)
        /\ UNCHANGED <<row, found>>
    BY <1>2, <1>5 DEF Confirm
  <2> HIDE DEF r
  <2>2. kept' = kept
    BY <2>1 DEF kept
  <2>3. Origins'
    BY <1>1, <1>2, <1>3, <2>1, <2>2
  <2>4. CASE r \in kept \ confirmed
    <3>1. r \in Records /\ r \in accepted
      BY <2>1, <2>4, DeliveryAssumption DEF kept
    <3>2. Ledger!Settle(r)
      BY <1>1, <2>1, <2>2, <2>4, <3>1 DEF Ledger!Settle
    <3> QED
      BY <2>3, <3>1, <3>2 DEF Simulates, Ledger!Next
  <2>5. CASE r \notin kept \ confirmed
    BY <1>1, <2>1, <2>2, <2>3, <2>5 DEF Simulates, Ledger!vars
  <2> QED
    BY <2>4, <2>5
<1>6. CASE Head(queue).kind = "query"
  <2>1. UNCHANGED <<row, confirmed>> /\ found' \subseteq booked
    BY <1>2, <1>6 DEF FirstUnconfirmed, Unconfirmed
  <2> QED
    BY <1>1, <1>2, <2>1, MoveFact
<1> QED
  BY <1>2, <1>4, <1>5, <1>6

\* The platform accepts a record that has been booked, or refuses it.
LEMMA AnswerFact ==
  ASSUME Origins, NEW r \in Records, PlatformAnswers(r)
  PROVE  Simulates
<1> USE DEF PlatformAnswers, Origins
<1>1. /\ UNCHANGED <<booked, row, confirmed, found, queue, buffer, events, retained, uploads>>
      /\ pending' = pending
      /\ wire' = wire \ {r}
      /\ r \in booked
  BY DEF logicVars, loggerVars, driverVars, pending
<1>2. kept' = kept
  BY <1>1 DEF kept
<1>3. CASE /\ r \notin Refused
           /\ accepted' = accepted \cup {r}
           /\ answers' = answers \cup {[rec |-> r, ok |-> TRUE]}
  <2>1. Justified \subseteq Justified'
    BY <1>1, <1>3 DEF Justified
  <2>2. queue' \in Seq(Justified')
    BY <1>1, <2>1, SeqMonotonic
  <2>3. Origins'
    BY <1>1, <1>2, <1>3, <2>2
  <2>4. CASE r \in accepted
    BY <1>1, <1>2, <1>3, <2>3, <2>4 DEF Simulates, Ledger!vars
  <2>5. CASE r \notin accepted
    <3>1. Ledger!Accept(r)
      BY <1>1, <1>2, <1>3, <2>5 DEF Ledger!Accept
    <3> QED
      BY <2>3, <3>1 DEF Simulates, Ledger!Next
  <2> QED
    BY <2>4, <2>5
<1>4. CASE /\ UNCHANGED accepted
           /\ answers' = answers \cup {[rec |-> r, ok |-> FALSE]}
  BY <1>1, <1>4, MoveFact
<1> QED
  BY <1>3, <1>4

\* The driver passes on the answers it gets.
LEMMA ConfirmFact ==
  ASSUME Origins, NEW a \in answers, RecordConfirm(a)
  PROVE  Simulates
<1> USE DEF RecordConfirm, Origins
<1>1. /\ UNCHANGED <<booked, row, confirmed, found, buffer, events, retained, wire, accepted>>
      /\ answers' = answers \ {a}
      /\ uploads' = [q \in Records |-> IF q = OriginalTradeNo(a.rec) THEN NotPending
                                                                     ELSE uploads[q]]
  BY DEF logicVars
<1> HIDE DEF RecordConfirm
<1>2. uploads' \in [Records -> Nat] /\ pending' \subseteq booked
  BY <1>1, DeliveryAssumption DEF pending, NotPending
<1>3. CASE a.ok
  <2>1. Cfm(OriginalTradeNo(a.rec)) \in Justified
    BY <1>3 DEF OriginalTradeNo, Justified
  <2>2. Send(Cfm(OriginalTradeNo(a.rec)))
    BY <1>3 DEF RecordConfirm
  <2>3. queue' \in Seq(Justified)
    BY <2>1, <2>2, SendFact
  <2> QED
    BY <1>1, <1>2, <2>3, MoveFact
<1>4. CASE ~a.ok
  BY <1>1, <1>2, <1>4, MoveFact DEF RecordConfirm
<1> QED
  BY <1>3, <1>4

\* The handlers of tcu_logic and of the driver only hand records on.
LEMMA HandOnFact ==
  ASSUME Origins, NEW r \in Records,
         BufferUnconfirmed(r) \/ HandleUpdateRecord(r) \/ ResendUpload(r) \/ FinalResend(r)
  PROVE  Simulates
<1> USE DEF Origins
<1>1. CASE BufferUnconfirmed(r)
  <2> DEFINE b == buffer[GunOf[r]]
             room == IF Len(b) < BufferLimit THEN b ELSE Tail(b)
  <2>1. r \in booked /\ GunOf[r] \in Guns
    BY <1>1, DeliveryAssumption DEF BufferUnconfirmed
  <2>2. b \in Seq(booked)
    BY <2>1
  <2>3. room \in Seq(booked)
    <3>1. CASE Len(b) < BufferLimit
      BY <2>2, <3>1
    <3>2. CASE ~(Len(b) < BufferLimit)
      <4>1. b # <<>>
        BY <3>2, DeliveryAssumption
      <4> QED
        BY <2>2, <3>2, <4>1
    <3> QED
      BY <3>1, <3>2
  <2>4. buffer' = [buffer EXCEPT ![GunOf[r]] = Append(room, r)]
    BY <1>1 DEF BufferUnconfirmed
  <2> HIDE DEF room
  <2>5. Append(room, r) \in Seq(booked)
    BY <2>1, <2>3
  <2>6. buffer' \in [Guns -> Seq(booked)]
    BY <2>1, <2>4, <2>5
  <2> QED
    BY <1>1, <2>6, MoveFact DEF BufferUnconfirmed, driverVars, platformVars, pending
<1>2. CASE HandleUpdateRecord(r)
  <2>1. uploads' \in [Records -> Nat] /\ pending' \subseteq booked
    BY <1>2 DEF HandleUpdateRecord, pending
  <2> QED
    BY <1>2, <2>1, MoveFact DEF HandleUpdateRecord, SendFrame, logicVars, loggerVars
<1>3. CASE ResendUpload(r) \/ FinalResend(r)
  <2>1. r \in pending
    BY <1>3 DEF ResendUpload, FinalResend, Due
  <2>2. PICK n \in Nat : uploads' = [uploads EXCEPT ![r] = n]
    BY <1>3, DeliveryAssumption DEF ResendUpload, FinalResend, NotPending
  <2>3. uploads' \in [Records -> Nat] /\ pending' \subseteq booked
    BY <2>1, <2>2 DEF pending, NotPending
  <2> QED
    BY <1>3, <2>1, <2>3, MoveFact DEF ResendUpload, FinalResend, Due, SendFrame, logicVars,
                                      loggerVars
<1> QED
  BY <1>1, <1>2, <1>3

\* tcu_logic's own steps, its crash included.
LEMMA LogicFact ==
  ASSUME Origins,
         \/ \E g \in Guns : StartSession(g) \/ ReplayBufferedUnconfirmedRecords(g)
         \/ HourlyQuery \/ LogicRestart
  PROVE  Simulates
<1> USE DEF Origins
<1>1. Query \in Justified
  BY DEF Justified
<1>2. CASE \E g \in Guns : StartSession(g)
  BY <1>2, MoveFact DEF StartSession, loggerVars, platformVars, pending
<1>3. CASE \E g \in Guns : ReplayBufferedUnconfirmedRecords(g)
  <2>1. PICK g \in Guns : ReplayBufferedUnconfirmedRecords(g)
    BY <1>3
  <2> DEFINE r == Head(buffer[g])
  <2>2. r \in booked /\ Tail(buffer[g]) \in Seq(booked)
    BY <2>1 DEF ReplayBufferedUnconfirmedRecords
  <2> HIDE DEF r
  <2>3. buffer' \in [Guns -> Seq(booked)]
    BY <2>1, <2>2 DEF ReplayBufferedUnconfirmedRecords
  <2>4. events' = events \cup {r} /\ retained' = [retained EXCEPT ![GunOf[r]] = r]
    BY <2>1 DEF ReplayBufferedUnconfirmedRecords, Publish, r
  <2> QED
    BY <2>1, <2>2, <2>3, <2>4, MoveFact
    DEF ReplayBufferedUnconfirmedRecords, loggerVars, platformVars, pending
<1>4. CASE HourlyQuery
  <2>1. queue' \in Seq(Justified)
    BY <1>1, <1>4, SendFact DEF HourlyQuery
  <2> QED
    BY <1>4, <2>1, MoveFact DEF HourlyQuery, logicVars, driverVars, platformVars, pending
<1>5. CASE LogicRestart
  <2>1. queue' \in Seq(Justified)
    BY <1>1, <1>5, SendFact DEF LogicRestart
  <2> QED
    BY <1>5, <2>1, MoveFact DEF LogicRestart, driverVars, platformVars, pending
<1> QED
  BY <1>2, <1>3, <1>4, <1>5

\* Lost messages, the driver's restart, and the link, which takes what is on it along.
LEMMA LinkFact ==
  ASSUME Origins, LoseMessage \/ DriverRestart \/ LinkNext
  PROVE  Simulates
<1> USE DEF Origins
<1>1. CASE LoseMessage
  BY <1>1, MoveFact DEF LoseMessage, logicVars, driverVars, platformVars, pending
<1>2. CASE DriverRestart
  <2>1. {retained[g] : g \in Guns} \ {NoRecord} \subseteq booked
    OBVIOUS
  <2>2. uploads' \in [Records -> Nat] /\ pending' = {}
    BY <1>2, DeliveryAssumption DEF DriverRestart, pending, NotPending
  <2> QED
    BY <1>2, <2>1, <2>2, MoveFact DEF DriverRestart, logicVars, loggerVars
<1>3. CASE AskForOfflineRecords
  <2>1. Query \in Justified
    BY DEF Justified
  <2>2. queue' \in Seq(Justified)
    BY <1>3, <2>1, SendFact DEF AskForOfflineRecords
  <2> QED
    BY <1>3, <2>2, MoveFact
    DEF AskForOfflineRecords, logicVars, driverVars, platformVars, pending
<1>4. CASE Frames
  BY <1>4, MoveFact DEF Frames, logicVars, loggerVars, driverVars, pending
<1>5. LinkNext => AskForOfflineRecords \/ Frames
  BY DEF LinkNext, Link
<1> QED
  BY <1>1, <1>2, <1>3, <1>4, <1>5

\* Every step of the processes is one of the ledger or none.
LEMMA StepSimulates == Origins /\ [Next]_vars => Simulates
<1> SUFFICES ASSUME Origins, [Next]_vars
             PROVE  Simulates
  OBVIOUS
<1>1. CASE UNCHANGED vars
  BY <1>1, SameFact DEF vars, deliveryVars
<1>2. CASE LinkNext \/ LoseMessage \/ DriverRestart
  BY <1>2, LinkFact
<1>3. CASE \/ \E g \in Guns : StartSession(g) \/ ReplayBufferedUnconfirmedRecords(g)
           \/ HourlyQuery \/ LogicRestart
  BY <1>3, LogicFact
<1>4. CASE LogMessage
  BY <1>4, LogFact
<1>5. CASE \E a \in answers : RecordConfirm(a)
  BY <1>5, ConfirmFact
<1>6. CASE \E r \in Records : LogTradeRecordOnStopped(r)
  BY <1>6, BookFact
<1>7. CASE \E r \in Records : PlatformAnswers(r)
  BY <1>7, AnswerFact
<1>8. CASE \E r \in Records : \/ BufferUnconfirmed(r) \/ HandleUpdateRecord(r)
                              \/ ResendUpload(r) \/ FinalResend(r)
  BY <1>8, HandOnFact
<1> QED
  BY <1>1, <1>2, <1>3, <1>4, <1>5, <1>6, <1>7, <1>8 DEF Next

\* The processes implement the ledger: whatever crashes, drops out or comes twice, a
\* record is marked as settled only if the pile has stored it and the platform has
\* accepted it, and nothing that is stored, accepted or settled is taken back.
THEOREM DeliveryImplementsLedger == Spec => ImplementsLedger
<1>1. Init => Ledger!Init
  BY DEF Init, DeliveryInit, Leftovers, Ledger!Init
<1>2. Origins /\ [Next]_vars => Origins' /\ [Ledger!Next]_(Ledger!vars)
  BY StepSimulates DEF Simulates
<1> QED
  BY <1>1, <1>2, OriginsInit, PTL DEF Spec, ImplementsLedger, Ledger!Spec


-----------------------------------------------------------------------------
(* The types.                                                              *)

\* A request that goes out is counted within its bound, and so is its answer.
LEMMA AskFact ==
  ASSUME asks \in [Kinds -> 0..MaxAsks], NEW k \in Kinds, Ask(k) \/ Answered(k)
  PROVE  asks' \in [Kinds -> 0..MaxAsks]
<1>1. CASE Ask(k)
  BY <1>1, LinkAssumption DEF Ask
<1>2. CASE Answered(k)
  BY <1>2, LinkAssumption DEF Answered
<1> QED
  BY <1>1, <1>2

\* No request is under way on a new connection.
LEMMA NoAsksFact == NoAsks \in [Kinds -> 0..MaxAsks]
  BY LinkAssumption DEF NoAsks

\* Both counters start in their ranges.
LEMMA ZeroFact == 0 \in 0..HeartbeatLimit /\ 0 \in 0..MaxFaults
  BY LinkAssumption

\* The faults stay within their bound.
LEMMA FaultFact ==
  ASSUME faults \in 0..MaxFaults, Fault \/ NoFault
  PROVE  faults' \in 0..MaxFaults
  BY LinkAssumption DEF Fault, NoFault

\* Every action of the link keeps the types of the link.
LEMMA LinkTypeStep ==
  ASSUME LinkTypeOK, LinkNext
  PROVE  LinkTypeOK'
<1> USE DEF LinkTypeOK
<1>1. /\ 0 \in 0..HeartbeatLimit
      /\ \A n \in 0..HeartbeatLimit : n < HeartbeatLimit => n + 1 \in 0..HeartbeatLimit
  BY LinkAssumption
<1> USE NoAsksFact, FaultFact DEF Kinds, Logins, Link, KeepEvents, KeepReplay, ReplayLeadsTo,
        ResetOfflineReplayState
<1>2. CASE ConnectPlatformTcp
  BY <1>1, <1>2 DEF ConnectPlatformTcp
<1>3. CASE PlatformVanishes
  BY <1>3 DEF PlatformVanishes
<1>4. CASE CloseDeadTcp
  BY <1>1, <1>4 DEF CloseDeadTcp, ClosePlatformTcp
<1>5. CASE StartLogin
  BY <1>5 DEF StartLogin
<1>6. CASE Request
  <2>1. \E k \in Kinds : Ask(k)
    BY <1>6 DEF Request
  <2> QED
    BY <1>6, <2>1, AskFact DEF Request
<1>7. CASE Heartbeat
  BY <1>1, <1>7, AskFact DEF Heartbeat
<1>8. CASE HeartbeatTimeout
  BY <1>1, <1>8 DEF HeartbeatTimeout, ClosePlatformTcp, Report, Reports
<1>9. CASE EndOfflineReplay
  BY <1>1, <1>9 DEF EndOfflineReplay, EnterAfterOfflineReplayState,
                    MarkPlatformOnlineAfterFeeModel, Report, Reports
<1>10. CASE AskForOfflineRecords
  BY <1>10 DEF AskForOfflineRecords, OfflineReplayQuery
<1>11. CASE LoginAck
  <2>1. asks' \in [Kinds -> 0..MaxAsks]
    BY <1>11, AskFact DEF LoginAck
  <2>2. faults' \in 0..MaxFaults
    BY <1>11 DEF LoginAck
  <2>3. /\ login' \in Logins
        /\ after' \in {"check", "model", "online"}
        /\ queried' \in BOOLEAN
        /\ saw' \in BOOLEAN
        /\ awaiting' \subseteq Records
    BY <1>11 DEF LoginAck
  <2>4. UNCHANGED <<tcp, beats, replayed, reported, onlineEvent, told, lastEvent>>
    BY <1>11 DEF LoginAck
  <2> QED
    BY <2>1, <2>2, <2>3, <2>4
<1>12. CASE FeeModelCheckAck
  <2>1. asks' \in [Kinds -> 0..MaxAsks]
    BY <1>12, AskFact DEF FeeModelCheckAck
  <2>2. faults' \in 0..MaxFaults
    BY <1>12 DEF FeeModelCheckAck
  <2>3. /\ login' \in Logins
        /\ after' \in {"check", "model", "online"}
        /\ queried' \in BOOLEAN
        /\ saw' \in BOOLEAN
        /\ awaiting' \subseteq Records
    BY <1>12 DEF FeeModelCheckAck
  <2>4. UNCHANGED <<tcp, beats, replayed, reported, onlineEvent, told, lastEvent>>
    BY <1>12 DEF FeeModelCheckAck
  <2> QED
    BY <2>1, <2>2, <2>3, <2>4
<1>13. CASE FeeModelAck
  <2>1. asks' \in [Kinds -> 0..MaxAsks]
    BY <1>13, AskFact DEF FeeModelAck
  <2>2. CASE MarkPlatformOnlineAfterFeeModel /\ NoFault
    BY <1>1, <2>1, <2>2 DEF MarkPlatformOnlineAfterFeeModel, Report, Reports
  <2>3. CASE /\ KeepReplay /\ KeepEvents /\ Fault
             /\ UNCHANGED <<tcp, login, beats, replayed>>
    BY <2>1, <2>3
  <2> QED
    BY <1>13, <2>2, <2>3 DEF FeeModelAck
<1>14. CASE HeartbeatAck
  <2>1. asks' \in [Kinds -> 0..MaxAsks]
    BY <1>14, AskFact DEF HeartbeatAck
  <2> QED
    BY <1>1, <1>14, <2>1 DEF HeartbeatAck
<1>15. CASE PublishSetConfig
  BY <1>15 DEF PublishSetConfig
<1> QED
  BY <1>2, <1>3, <1>4, <1>5, <1>6, <1>7, <1>8, <1>9, <1>10, <1>11, <1>12, <1>13, <1>14, <1>15
  DEF LinkNext

\* Every action of the processes keeps the types of the processes.
LEMMA DeliveryTypeStep ==
  ASSUME TypeOK, Next, LinkTypeOK'
  PROVE  TypeOK'
<1> USE DEF TypeOK
<1>1. \A m \in Messages : m.kind = "trade" => m.rec \in Records
  BY DEF Messages, Cfm, Query
<1>2. Query \in Messages /\ \A r \in Records : Trade(r) \in Messages
  BY DEF Messages, Trade
<1>3. \A r \in Records \cup {NoRecord} : Cfm(r) \in Messages
  BY DEF Messages, Cfm
<1>4. \A r \in Records : GunOf[r] \in Guns
  BY DeliveryAssumption
<1>5. /\ NotPending \in 0..NotPending /\ 0 \in 0..NotPending
      /\ \A n \in 0..NotPending : n < MaxRetry => n + 1 \in 0..NotPending
  BY DeliveryAssumption DEF NotPending
<1>6. CASE LinkNext
  <2>1. queue' \in Seq(Messages)
    <3>1. CASE AskForOfflineRecords
      BY <1>2, <3>1, SendFact DEF AskForOfflineRecords
    <3>2. CASE Frames
      BY <3>2 DEF Frames, loggerVars
    <3> QED
      BY <1>6, <3>1, <3>2 DEF LinkNext, Link
  <2>2. CASE AskForOfflineRecords
    BY <2>1, <2>2 DEF AskForOfflineRecords, logicVars, driverVars, platformVars
  <2>3. CASE Frames
    BY <2>1, <2>3 DEF Frames, logicVars, loggerVars, driverVars
  <2> QED
    BY <1>6, <2>2, <2>3 DEF LinkNext, Link
<1>7. ASSUME NEW g \in Guns, StartSession(g)
      PROVE  TypeOK'
  BY <1>7 DEF StartSession, loggerVars, platformVars
<1>8. ASSUME NEW g \in Guns, ReplayBufferedUnconfirmedRecords(g)
      PROVE  TypeOK'
  <2>1. Head(buffer[g]) \in Records /\ Tail(buffer[g]) \in Seq(Records)
    BY <1>8 DEF ReplayBufferedUnconfirmedRecords
  <2>2. buffer' \in [Guns -> Seq(Records)]
    BY <1>8, <2>1 DEF ReplayBufferedUnconfirmedRecords
  <2>3. events' \subseteq Records /\ retained' \in [Guns -> Records \cup {NoRecord}]
    BY <1>8, <2>1 DEF ReplayBufferedUnconfirmedRecords, Publish
  <2> QED
    BY <1>8, <2>2, <2>3 DEF ReplayBufferedUnconfirmedRecords, loggerVars, platformVars
<1>9. ASSUME NEW r \in Records, LogTradeRecordOnStopped(r)
      PROVE  TypeOK'
  <2>1. queue' \in Seq(Messages)
    BY <1>2, <1>9, SendFact DEF LogTradeRecordOnStopped
  <2>2. events' \subseteq Records /\ retained' \in [Guns -> Records \cup {NoRecord}]
    BY <1>9 DEF LogTradeRecordOnStopped, Publish
  <2> QED
    BY <1>9, <2>1, <2>2 DEF LogTradeRecordOnStopped, platformVars
<1>10. ASSUME NEW r \in Records, BufferUnconfirmed(r)
       PROVE  TypeOK'
  <2> DEFINE b == buffer[GunOf[r]]
             room == IF Len(b) < BufferLimit THEN b ELSE Tail(b)
  <2>1. b \in Seq(Records)
    BY <1>4
  <2>2. room \in Seq(Records)
    <3>1. CASE ~(Len(b) < BufferLimit)
      <4>1. b # <<>>
        BY <3>1, DeliveryAssumption
      <4> QED
        BY <2>1, <3>1, <4>1
    <3> QED
      BY <2>1, <3>1
  <2>3. buffer' = [buffer EXCEPT ![GunOf[r]] = Append(room, r)]
    BY <1>10 DEF BufferUnconfirmed
  <2> HIDE DEF room
  <2>4. buffer' \in [Guns -> Seq(Records)]
    BY <1>4, <2>2, <2>3
  <2> QED
    BY <1>10, <2>4 DEF BufferUnconfirmed, driverVars, platformVars
<1>11. ASSUME NEW r \in Records, HandleUpdateRecord(r)
       PROVE  TypeOK'
  BY <1>5, <1>11 DEF HandleUpdateRecord, SendFrame, logicVars, loggerVars
<1>12. ASSUME NEW r \in Records, ResendUpload(r) \/ FinalResend(r)
       PROVE  TypeOK'
  BY <1>5, <1>12 DEF ResendUpload, FinalResend, Due, SendFrame, logicVars, loggerVars
<1>13. ASSUME NEW r \in Records, PlatformAnswers(r)
       PROVE  TypeOK'
  <2>1. accepted' \subseteq Records /\ wire' \subseteq Records
    BY <1>13 DEF PlatformAnswers
  <2>2. [rec |-> r, ok |-> TRUE] \in Answers /\ [rec |-> r, ok |-> FALSE] \in Answers
    BY DEF Answers
  <2>3. answers' \subseteq Answers
    BY <1>13, <2>2 DEF PlatformAnswers
  <2> QED
    BY <1>13, <2>1, <2>3 DEF PlatformAnswers, logicVars, loggerVars, driverVars
<1>14. ASSUME NEW a \in answers, RecordConfirm(a)
       PROVE  TypeOK'
  <2>1. OriginalTradeNo(a.rec) \in Records \cup {NoRecord}
    BY DEF OriginalTradeNo, Answers, pending
  <2>2. queue' \in Seq(Messages)
    BY <1>3, <1>14, <2>1, SendFact DEF RecordConfirm
  <2> QED
    BY <1>5, <1>14, <2>2 DEF RecordConfirm, logicVars
<1>15. CASE HourlyQuery
  <2>1. queue' \in Seq(Messages)
    BY <1>2, <1>15, SendFact DEF HourlyQuery
  <2> QED
    BY <1>15, <2>1 DEF HourlyQuery, logicVars, driverVars, platformVars
<1>16. CASE LogMessage
  <2>1. Head(queue) \in Messages /\ Tail(queue) \in Seq(Messages)
    BY <1>16 DEF LogMessage
  <2> DEFINE m == Head(queue)
  <2>2. m.kind \in {"trade", "cfm", "query"}
    BY <2>1 DEF Messages, Cfm, Query
  <2>3. /\ m.kind = "trade" => /\ row' = [row EXCEPT ![m.rec] = Cardinality(kept) + 1]
                               /\ UNCHANGED <<confirmed, found>>
        /\ m.kind = "cfm" => Confirm(m.rec) /\ UNCHANGED <<row, found>>
        /\ m.kind = "query" => /\ found' = found \cup FirstUnconfirmed
                               /\ UNCHANGED <<row, confirmed>>
    BY <1>16 DEF LogMessage
  <2>4. m.kind = "trade" => m.rec \in Records
    BY <1>1, <2>1
  <2> HIDE DEF m
  <2>5. row' \in [Records -> Nat] /\ confirmed' \subseteq Records /\ found' \subseteq Records
    <3>1. kept \subseteq Records /\ FirstUnconfirmed \subseteq Records
      BY DEF kept, Unconfirmed, FirstUnconfirmed
    <3> QED
      BY <2>2, <2>3, <2>4, <3>1, NextIdFact DEF Confirm
  <2> QED
    BY <1>16, <2>1, <2>5 DEF LogMessage, logicVars, driverVars, platformVars
<1>17. CASE LoseMessage
  <2>1. Tail(queue) \in Seq(Messages)
    BY <1>17 DEF LoseMessage
  <2> QED
    BY <1>17, <2>1 DEF LoseMessage, logicVars, driverVars, platformVars
<1>18. CASE LogicRestart
  <2>1. queue' \in Seq(Messages)
    BY <1>2, <1>18, SendFact DEF LogicRestart
  <2> QED
    BY <1>18, <2>1 DEF LogicRestart, driverVars, platformVars
<1>19. CASE DriverRestart
  BY <1>5, <1>19 DEF DriverRestart, logicVars, loggerVars
<1> QED
  BY <1>6, <1>7, <1>8, <1>9, <1>10, <1>11, <1>12, <1>13, <1>14, <1>15, <1>16, <1>17, <1>18,
     <1>19 DEF Next

\* What is no action of the link leaves the types of the link alone: the tracked records
\* are records, and the driver's restart closes the connection.
LEMMA OtherTypeStep ==
  ASSUME TypeOK, Next, ~LinkNext
  PROVE  LinkTypeOK'
<1> USE FaultFact DEF TypeOK, LinkTypeOK
<1>1. CASE DriverRestart
  BY <1>1, NoAsksFact, ZeroFact
  DEF DriverRestart, ClosePlatformTcp, ResetOfflineReplayState, ReplayLeadsTo, Logins
<1>2. CASE \E r \in Records : HandleUpdateRecord(r)
  <2>1. PICK r \in Records : HandleUpdateRecord(r)
    BY <1>2
  <2>2. saw' \in BOOLEAN /\ awaiting' \subseteq Records
    BY <2>1 DEF HandleUpdateRecord, TrackOfflineReplayTradeIfNeeded
  <2> QED
    BY <2>1, <2>2 DEF HandleUpdateRecord, KeepLogin
<1>3. CASE \E a \in answers : RecordConfirm(a)
  BY <1>3 DEF RecordConfirm, KeepLogin
<1>4. CASE \E g \in Guns : StartSession(g) \/ ReplayBufferedUnconfirmedRecords(g)
  BY <1>4 DEF StartSession, ReplayBufferedUnconfirmedRecords, linkVars
<1>5. CASE \E r \in Records : \/ LogTradeRecordOnStopped(r) \/ BufferUnconfirmed(r)
                              \/ ResendUpload(r) \/ FinalResend(r) \/ PlatformAnswers(r)
  BY <1>5 DEF LogTradeRecordOnStopped, BufferUnconfirmed, ResendUpload, FinalResend,
              PlatformAnswers, linkVars
<1>6. CASE HourlyQuery \/ LogMessage \/ LoseMessage
  BY <1>6 DEF HourlyQuery, LogMessage, LoseMessage, linkVars
<1>7. CASE LogicRestart
  BY <1>7 DEF LogicRestart, Restarted
<1> QED
  BY <1>1, <1>2, <1>3, <1>4, <1>5, <1>6, <1>7 DEF Next

\* Everything the three processes, the broker, the queue and the platform hold keeps its
\* type: rows and resends stay numbers, the buffers and the queue sequences of records and
\* messages, whatever is lost, restarted or answered twice.
THEOREM DeliveryTyped == Spec => []TypeOK
<1>1. Init => TypeOK
  <2> SUFFICES ASSUME Init PROVE TypeOK
    OBVIOUS
  <2>1. LinkTypeOK
    BY NoAsksFact, ZeroFact DEF Init, LinkInit, LinkTypeOK, Logins
  <2>2. Query \in Messages
    BY DEF Messages
  <2>3. <<Query>> \in Seq(Messages)
    BY <2>2
  <2>4. NotPending \in 0..NotPending
    BY DeliveryAssumption DEF NotPending
  <2>5. /\ booked \subseteq Records /\ accepted \subseteq Records
        /\ kept \subseteq Records /\ confirmed \subseteq Records
        /\ row \in [Records -> 0..Cardinality(Records)]
    BY DEF Init, DeliveryInit, Leftovers
  <2>6. row \in [Records -> Nat]
    BY <2>5, DeliveryAssumption, FS_CardinalityType
  <2> QED
    BY <2>1, <2>3, <2>4, <2>5, <2>6 DEF Init, DeliveryInit, TypeOK
<1>2. TypeOK /\ [Next]_vars => TypeOK'
  <2>1. TypeOK /\ Next => TypeOK'
    BY LinkTypeStep, OtherTypeStep, DeliveryTypeStep DEF TypeOK
  <2>2. TypeOK /\ UNCHANGED vars => TypeOK'
    BY DEF TypeOK, LinkTypeOK, vars, linkVars, logicVars, loggerVars, driverVars, platformVars
  <2> QED
    BY <2>1, <2>2
<1> QED
  BY <1>1, <1>2, PTL DEF Spec

=============================================================================
