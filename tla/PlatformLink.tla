----------------------------- MODULE PlatformLink ----------------------------
(***************************************************************************)
(* The link of the YKC1.6 driver to the platform: one TCP connection, the  *)
(* login that ends with the replay of offline records and ONLINE, the      *)
(* heartbeats, and the platform_online and platform_offline events for     *)
(* tcu_logic.  Every action is one visit of maintainPlatformTcp, one frame *)
(* that arrives, or one thing that happens to the connection.              *)
(***************************************************************************)
EXTENDS Naturals, FiniteSets

CONSTANTS
    Records,          \* trade records
    HeartbeatLimit,   \* heartbeats without an answer that make a timeout
    MaxAsks,          \* bound: requests of one kind that are under way
    MaxFaults         \* bound: faults of the surroundings

ASSUME LinkAssumption ==
    /\ HeartbeatLimit \in Nat \ {0}
    /\ MaxAsks \in Nat \ {0}
    /\ MaxFaults \in Nat

VARIABLES
    tcp,          \* "down", "up", or "dead": open, but nobody answers any more
    login,        \* m_loginState
    after,        \* m_afterOfflineReplayState
    queried,      \* m_offlineReplayRequested
    saw,          \* m_offlineReplaySawRecord
    awaiting,     \* m_offlineReplayPendingTrades
    beats,        \* m_heartbeatCounter
    reported,     \* m_platformOfflineTimeoutReported
    onlineEvent,  \* m_platformOnlineEventActive
    told,         \* the last report of the link that tcu_logic has had since it started
    lastEvent,    \* the last message on the topic of these reports: the broker keeps it
    asks,         \* requests of this connection that the platform has to answer
    replayed,     \* history: this connection has asked for the offline records
    faults        \* faults so far

linkVars == <<tcp, login, after, queried, saw, awaiting, beats, reported,
              onlineEvent, told, lastEvent, asks, replayed>>

Logins == {"idle", "auth", "check", "replay", "model", "online"}
Kinds == {"login", "check", "model", "beat"}

\* platform_online and platform_offline.
Reports == {"online", "offline"}

LinkTypeOK ==
    /\ tcp \in {"down", "up", "dead"}
    /\ login \in Logins
    /\ after \in {"check", "model", "online"}
    /\ queried \in BOOLEAN
    /\ saw \in BOOLEAN
    /\ awaiting \subseteq Records
    /\ beats \in 0..HeartbeatLimit
    /\ reported \in BOOLEAN
    /\ onlineEvent \in BOOLEAN
    /\ told \in Reports \cup {"nothing"}
    /\ lastEvent \in Reports \cup {"setConfig"}
    /\ asks \in [Kinds -> 0..MaxAsks]
    /\ replayed \in BOOLEAN
    /\ faults \in 0..MaxFaults

NoAsks == [k \in Kinds |-> 0]

LinkInit ==
    /\ tcp = "down"
    /\ login = "idle"
    /\ after = "check"
    /\ queried = FALSE
    /\ saw = FALSE
    /\ awaiting = {}
    /\ beats = 0
    /\ reported = FALSE
    /\ onlineEvent = FALSE
    /\ told = "nothing"
    /\ lastEvent = "setConfig"
    /\ asks = NoAsks
    /\ replayed = FALSE
    /\ faults = 0

\* A fault takes one off the budget.
Fault == faults < MaxFaults /\ faults' = faults + 1
NoFault == faults' = faults

-----------------------------------------------------------------------------
(* Parts of actions, named for the functions of the driver.                *)

\* The replay starts afresh and leads to next when it is over.
ReplayLeadsTo(next) ==
    /\ after' = next
    /\ queried' = FALSE
    /\ saw' = FALSE
    /\ awaiting' = {}

ResetOfflineReplayState == ReplayLeadsTo("check")
KeepReplay == UNCHANGED <<after, queried, saw, awaiting>>
KeepEvents == UNCHANGED <<reported, onlineEvent, told, lastEvent>>

\* publishPlatformLinkEvent: tcu_logic gets the report, and the broker keeps it.
Report(event) ==
    /\ told' = event
    /\ lastEvent' = event

ClosePlatformTcp ==
    /\ tcp' = "down"
    /\ login' = "idle"
    /\ beats' = 0
    /\ asks' = NoAsks
    /\ replayed' = FALSE
    /\ ResetOfflineReplayState

MarkPlatformOnlineAfterFeeModel ==
    /\ login' = "online"
    /\ ResetOfflineReplayState
    /\ beats' = 0
    /\ onlineEvent' = TRUE
    /\ IF onlineEvent THEN UNCHANGED <<told, lastEvent>> ELSE Report("online")
    /\ reported' = (reported /\ onlineEvent)
    /\ UNCHANGED <<tcp, replayed>>

\* A request goes out; nobody will answer it on a dead connection.
Ask(k) ==
    asks' = IF tcp = "up" /\ asks[k] < MaxAsks THEN [asks EXCEPT ![k] = @ + 1] ELSE asks

\* An answer to a request comes in.
Answered(k) ==
    /\ asks[k] > 0
    /\ asks' = [asks EXCEPT ![k] = @ - 1]

-----------------------------------------------------------------------------
(* The connection.  A platform that vanishes leaves it open and dead until *)
(* an operation on the socket fails or the heartbeats run out.             *)

ConnectPlatformTcp ==
    /\ tcp = "down"
    /\ tcp' = "up"
    /\ login' = "idle"
    /\ beats' = 0
    /\ ResetOfflineReplayState
    /\ NoFault
    /\ KeepEvents
    /\ UNCHANGED <<asks, replayed>>

PlatformVanishes ==
    /\ tcp = "up"
    /\ Fault
    /\ tcp' = "dead"
    /\ asks' = NoAsks
    /\ KeepReplay
    /\ KeepEvents
    /\ UNCHANGED <<login, beats, replayed>>

CloseDeadTcp ==
    /\ tcp = "dead"
    /\ ClosePlatformTcp
    /\ NoFault
    /\ KeepEvents

-----------------------------------------------------------------------------
(* The topic plat/<gun>/event, which the reports share with setConfig.     *)

\* Every 30 s: the retained configuration takes the place of the retained report;
\* tcu_logic does not look at it.
PublishSetConfig ==
    /\ lastEvent' = "setConfig"
    /\ NoFault
    /\ KeepReplay
    /\ UNCHANGED <<tcp, login, beats, reported, onlineEvent, told, asks, replayed>>

\* A tcu_logic that starts takes the platform for offline.  The broker gives it what it
\* has kept, which is dropped if it comes before the guns are set up.
Restarted ==
    /\ told' \in {"nothing"} \cup ({lastEvent} \cap Reports)
    /\ UNCHANGED <<tcp, login, after, queried, saw, awaiting, beats, reported, onlineEvent,
                   lastEvent, asks, replayed>>

-----------------------------------------------------------------------------
(* driveLoginStateMachine.                                                 *)

StartLogin ==
    /\ tcp # "down"
    /\ login = "idle"
    /\ login' = "auth"
    /\ ResetOfflineReplayState
    /\ NoFault
    /\ KeepEvents
    /\ UNCHANGED <<tcp, beats, asks, replayed>>

\* The request of the login state, again after login_retry_sec.
Request ==
    /\ \/ login = "auth" /\ Ask("login")
       \/ login = "check" /\ Ask("check")
       \/ login = "model" /\ Ask("model")
    /\ NoFault
    /\ KeepReplay
    /\ KeepEvents
    /\ UNCHANGED <<tcp, login, beats, replayed>>

\* Mutant: the timeout leaves the flag that the platform has been reported online.
TimeoutKeepsFlag ==
    /\ login = "online"
    /\ beats + 1 >= HeartbeatLimit
    /\ ~reported
    /\ IF tcp = "up" THEN Fault ELSE NoFault
    /\ reported' = TRUE
    /\ Report("offline")
    /\ ClosePlatformTcp
    /\ UNCHANGED onlineEvent

\* The heartbeat that goes out as the last of HeartbeatLimit without an answer.  A
\* platform that is there and lets them run out is at fault.
HeartbeatTimeout ==
    /\ login = "online"
    /\ beats + 1 >= HeartbeatLimit
    /\ ~reported
    /\ IF tcp = "up" THEN Fault ELSE NoFault
    /\ reported' = TRUE
    /\ onlineEvent' = FALSE
    /\ Report("offline")
    /\ ClosePlatformTcp

\* Mutant: the heartbeats are counted on past the limit.
HeartbeatUncapped ==
    /\ login = "online"
    /\ beats' = beats + 1
    /\ Ask("beat")
    /\ NoFault
    /\ KeepReplay
    /\ KeepEvents
    /\ UNCHANGED <<tcp, login, replayed>>

Heartbeat ==
    /\ login = "online"
    /\ beats + 1 >= HeartbeatLimit => reported
    /\ beats' = IF beats < HeartbeatLimit THEN beats + 1 ELSE beats
    /\ Ask("beat")
    /\ NoFault
    /\ KeepReplay
    /\ KeepEvents
    /\ UNCHANGED <<tcp, login, replayed>>

\* The replay asks the logger once for the records that are not confirmed.
OfflineReplayQuery ==
    /\ login = "replay"
    /\ ~queried
    /\ queried' = TRUE
    /\ replayed' = TRUE
    /\ NoFault
    /\ KeepEvents
    /\ UNCHANGED <<tcp, login, after, saw, awaiting, beats, asks>>

\* Mutant: the target is read after the reset that forgets it.
EnterWhatResetLeaves ==
    /\ login' = "check"
    /\ ResetOfflineReplayState
    /\ KeepEvents
    /\ UNCHANGED <<tcp, beats, replayed>>

\* Where the replay leads to when it is over.
EnterAfterOfflineReplayState ==
    IF after = "online"
    THEN MarkPlatformOnlineAfterFeeModel
    ELSE /\ login' = after
         /\ ResetOfflineReplayState
         /\ KeepEvents
         /\ UNCHANGED <<tcp, beats, replayed>>

\* Mutant: the replay is left before the records have been asked for.
EndReplayUnasked ==
    /\ login = "replay"
    /\ NoFault
    /\ EnterAfterOfflineReplayState
    /\ UNCHANGED asks

\* The replay ends when all records it saw are confirmed, and after 15 s without
\* a record or 30 s without a confirmation.
EndOfflineReplay ==
    /\ login = "replay"
    /\ queried
    /\ NoFault
    /\ EnterAfterOfflineReplayState
    /\ UNCHANGED asks

-----------------------------------------------------------------------------
(* Frames of the platform.                                                 *)

LoginAck ==
    /\ Answered("login")
    /\ KeepEvents
    /\ UNCHANGED <<tcp, beats, replayed>>
    /\ \/ /\ login = "auth"
          /\ login' = "check"
          /\ ResetOfflineReplayState
          /\ NoFault
       \/ login = "auth" /\ login' = "idle" /\ KeepReplay /\ Fault
       \/ login # "auth" /\ UNCHANGED login /\ KeepReplay /\ NoFault

\* In whatever state the driver is; a garbled answer leads back to the check.
FeeModelCheckAck ==
    /\ Answered("check")
    /\ KeepEvents
    /\ UNCHANGED <<tcp, beats, replayed>>
    /\ \/ /\ login' = "replay"
          /\ \E next \in {"online", "model"} : ReplayLeadsTo(next)
          /\ NoFault
       \/ login' = "check" /\ KeepReplay /\ Fault

\* In whatever state the driver is; a garbled answer is ignored.
FeeModelAck ==
    /\ Answered("model")
    /\ \/ MarkPlatformOnlineAfterFeeModel /\ NoFault
       \/ KeepReplay /\ KeepEvents /\ Fault /\ UNCHANGED <<tcp, login, beats, replayed>>

HeartbeatAck ==
    /\ Answered("beat")
    /\ beats' = 0
    /\ NoFault
    /\ KeepReplay
    /\ KeepEvents
    /\ UNCHANGED <<tcp, login, replayed>>

=============================================================================
