# A verification project for the YKC16 charging pile controller (TCU)

TLA+ models of the program under `src/core/`, model-checked with TLC and proved
about with TLAPS. The code is the reference: every definition names the lines it
models in `PROJECT.json` ("map"), and this file says what is modelled, what the
runs show and what the theorems establish.

## 1. The system

A charging pile is run by a set of processes. They exchange MQTT messages on
topics `tcu/<module>/<gun>/{cmd,event,data}` and SysV queues (heartbeats to the
daemon, records to the logger).

| component | state it keeps | operations | properties that make it correct |
|---|---|---|---|
| `tcu_logic` (`charge_logic_process.cpp`) | per gun: state machine IDLE, PREPARE, STARTING, CHARGING, STOPPING, STOPPED, ERROR; order and authorisation; fee; three watched links; the key card reader shared by all guns | handlers of HMI, platform, pile, meter and card messages on the MQTT thread; a main loop of 10 ms with all the time limits | a session leaves only through its settlement; energy billed is recorded once; merged guns act together; no service on a dead link; the reader starts the right gun |
| plug-and-charge (same file) | vehicle id and authorisation flags per gun | vehicle id, platform result, 30 s limit | one answer to the pile per request; a pair is authorised together |
| trade record delivery (`tcu_logic`, `logger`) | buffers of unconfirmed records, the logger's queue and database | store, query, replay, confirm | a stored record is confirmed in the end, and only after the platform took it |
| YKC1.6 driver (`comm/YunKuaiChongV1.6`) | connection, login, replay of offline records, pending uploads | login, heartbeat, upload, resend, confirmation | it comes back to ONLINE, not before the replay, and says so |
| pile controller (`pile_controller/CAN2CCU`) | flags and data of what was received, retries, handshake, assembly of long frames | commands, task thread, receive thread, main loop | commands reach the CCU; a completion is published before it is forgotten; no start before the handshake |
| card process (`card/`) | command queue, RF state | open/close RF, read | every command is answered once |
| meter process (`meter/`) | online flag and last reading per gun | poll | online/offline reports alternate |
| daemon (`daemon/`) | pids, watchdogs, restart counts, update state | monitor, restart, update, rollback check | a dead process is restarted; an update ends in DONE or a rollback |
| update engine (`update/update_handle/`) | installed files, backups, status file | update, rollback | a failed update is on record and can be undone |
| uploader (`uploader/`) | watermark, pending packages | export, upload, apply manifest | every row is uploaded at least once |
| base libraries, other platform drivers, HMIs, tools | - | I/O, encoding, display | - |

`tcu_logic` sends a record to the logger and to the driver; the driver's
confirmation goes to the logger, and what stays unconfirmed comes back to
`tcu_logic`. The driver tells `tcu_logic` when the platform is online, the pile
controller when a start or a stop is complete. The daemon starts them all,
restarts what hangs or exits, and runs the update engine, with which it shares
the status file.

`PROJECT.json` lists all components with their status, and under "hazards" what
is hard to test in them: messages of six senders in any order; time limits that
race late answers; link faults that are confirmed after a window and recover in
any order; two guns that charge one vehicle; one reader for all guns; crashes
between booking and confirming a record; handlers and threads that share state
without a lock; a power cut between removing a file and copying the new one.

## 2. The plan

| | modules | what | state |
|---|---|---|---|
| 1 | `GunMachine`, `ChargeSession`, `ChargeLogic`, `MCChargeLogic` | the state machine of a gun; orders, starts, metering, prepaid amounts, links, the checks of one iteration; the process with one action per handler and iteration | done |
| 2 | `ChargeLogicProofs`, `SettlementProofs`, `ReasonProofs`, `SessionProofs` | inductive invariants and 16 theorems about sessions, links, the reader, orders, records, cards and pairs: all safety properties of `ChargeLogic` | done |
| 3 | `LogicThreads` | the two threads of `tcu_logic` on one gun, at the steps where they meet | done |
| 4 | `RecordLedger`, `PlatformLink`, `RecordDelivery`, `MCRecordDelivery`, `RecordDeliveryProofs` | what the delivery of records promises; the driver's link; the delivery that implements the promise; proofs | done |
| 5 | `UpdateHandler`, `Supervisor`, `MCSupervisor`, `SupervisorProofs` | the update handler; the daemon that runs it; proofs | done |
| 6 | `PileController`, `MCPileController`, `PileControllerProofs` | the four threads of the CAN controller; proofs | done |
| 7 | `PlugAndCharge` | the vehicle id, authorisation and result exchange of a gun and of a pair, composed with `ChargeSession` | open |
| 8 | `Billing` | the split of a reading over price segments against a reference sum | open |
| 9 | `Uploader`, `UploaderProofs` | the rounds of the uploader against the logger's changes, crashes and power cuts; proofs | done |
| 10 | `CardProcess`, `MeterLink` | the remaining processes | open |
| 11 | a charging session | an abstract charging session that `ChargeLogic` implements | open |

`ChargeLogic` extends `ChargeSession`, which extends `GunMachine`.
`RecordDelivery` extends `PlatformLink`: the driver's link is one of its
components, and `LinkNext` composes the actions of the link with what they do to
the frames under way. `Supervisor` extends `UpdateHandler` and schedules its
actions. `RecordDelivery` instantiates `RecordLedger`.

## 3. How the models correspond to the code

### tcu_logic: `GunMachine`, `ChargeSession`, `ChargeLogic`

The data of `tcu_logic` is one record `Now`. Each helper of the code is an
operator that takes the data and returns the data it leaves behind, so that a
handler with the calls it makes, a nested `handleEvent` or a peer's transition
included, is one atomic step `Become(...)`. A handler that refuses a message
only publishes a reject event; its action is disabled there.

| code | model |
|---|---|
| `m_gunStates[g].state`, flags of the machine | `gun[g]` |
| `hasAuthBasis`, `tradeNo`, `pendingStart`, `lastStartCmdData`, `prechargeAmount`, `stopReason`, ... | `sess[g]` |
| meter value, `meterStableCount`, voltage, `fee*` | `meter[g]` |
| `offlineCard*`, `pendingCardStartAuthData` | `card[g]` |
| `{meter,platform,pile}Offline{FaultActive,EventLatched,PendingTime}` | `link[g][l].{fault,latched,pending}` |
| `m_cardReader` | `reader` |
| records sent to the logger | `ledger[g][order]` |
| `onMqttMessage` and the handlers below it | `OnGun(g)`, `RfOpened`, `RfClosed`, `CardOpFailed`, `CardInfo` |
| one iteration of `doRun` on gun g | `Poll(g)` |
| the reconciliation at the end of `doRun` | `PollReader` |

Time. A limit is a timer that runs from the moment its start time is set; the
clock may have passed any set of the running limits when an iteration begins
(`Expired`), only not the 60 s limit of STARTING before its 30 s one. This
covers every relative speed of the limits, and more than a real clock allows;
a safety property that holds here holds for the durations in the code. The
durations themselves do not enter, and the comments of the code disagree with
some of them: the settlement limit is 30 s (`charge_logic_process.cpp:577`) where
a comment (571) and `STATE_MACHINE.md:41` say 15 s, and the confirmation windows
are 10 s (2119) where comments (1136, 1352, 1392) say 30 s.

Data. A trade number is the count of the gun's orders; a stop reason is 0, that of a
normal end, which the fault tables give a number of its own (the BMS's 0x2A), or that
of a fault (`Reasons`), and `EndReasons` bounds what the ends the pile reports are
judged as; meter readings are whole kWh at one yuan in every segment; a voltage is
low or normal; the payload of a start is whether it is merged, its prepaid
amount and whether it brings a fee model. The stable count is kept up to 3, of
which only `>= 3` is used.

Assumptions about the surroundings, each visible in the model:

- a meter register does not run backwards (guard of `MeterData`);
- a failed `start_complete` carries its fail code (`StartComplete`);
- a yx packet carries all four status fields (`YxPacket`);
- the reader answers: RF reports and cards may come at any time, in any order;
- platform starts flagged as merged go to guns that have a peer.

Every handler and every iteration is one step here, although two threads run
them. `LogicThreads` is about what that leaves out.

### tcu_logic: `LogicThreads`

`onMqttMessage` runs on mosquitto's thread (`mosquitto_loop_start`), `doRun` on
the main one, and no lock protects `m_gunStates`. Each thread is the list of what
it has still to do (`todo`): a step ends where it reads or writes what the other
uses, so at the switch of `handleEvent` (`HandleEvent`), at the test and at the
assignment of `transitionTo` (`TestState`, `SetState`), at the trade record, at
the reset and at the assignments of `enterStopping` after its transition. The
gun is started alone by the platform and its links are online; the fee is left
out, and a trade record is the order it names. 30 s in STOPPING are longer than
any handler (`SettlementAges`).

### Record delivery: `PlatformLink`, `RecordDelivery`

| code | model |
|---|---|
| `m_loginState`, `m_afterOfflineReplayState`, `m_offlineReplay*` | `login`, `after`, `queried`, `saw`, `awaiting` |
| `m_heartbeatCounter`, `m_platformOfflineTimeoutReported`, `m_platformOnlineEventActive` | `beats`, `reported`, `onlineEvent` |
| `platform_online` / `platform_offline`: what `tcu_logic` has had of them since it started; the retained message on their topic, which is `setConfig` within 30 s | `told`; `lastEvent` |
| `m_unconfirmedRecordBuffer`, gun states STARTING and CHARGING | `buffer`, `busy` |
| SysV queue of the logger; rows of `trade_record` and their flag | `queue`; `row`, `confirmed` |
| retained `update_record` events | `events`, `retained` |
| `m_pendingTradeRecordUploads` | `uploads` |
| connection; what the platform has taken | `wire`, `answers`; `accepted` |
| crash of a process | `LogicRestart`, `LoseMessage`, `DriverRestart` |

Assumptions: the switch `offlineRunMode` is off; records are valid; an hour is
longer than handing on what a query found (guard of `HourlyQuery`); a reconnection to the broker is part
of `DriverRestart`; the driver's two threads run one at a time
(`m_pendingTradeRecordUploads` has no mutex, and a data race on a `std::map` has
no outcomes to list). Late answers and heartbeats that run out on a live
connection count as faults. `LOGIN_REQ_TIME_SYNC` is never entered by the code.

### Daemon and update engine: `UpdateHandler`, `Supervisor`

A handler process is a slot of `job`, with the step it is at: the status file is
opened, the package verified, the backup directory made and packed, then each
file removed and copied (`RemoveOld`, `CopyNew`), then `Succeed` or
`FailInstall`; its window is closed later. A file is a version or `Missing`.
`backup` is the newest backup directory, the only one a rollback looks at.

The daemon's monitor thread and main thread interleave. What happens under
`m_externalMutex` is one step; the sleeps and the tests of `m_isUpdating`,
`m_watchdogEnabled` and `m_rollbackCheckEnabled` lie between steps. `monitor`
says where the monitor thread is in its round, `toStart` what `startAllProcesses`
has still to start, `main` where `performUpdate` waits. A child is what its entry
in `m_externalPids` knows of it; an exit that a `waitpid` elsewhere has taken is
"reaped".

Assumptions: the 15 s wait of `performUpdate` is longer than starting up to
seven processes and than `performRollback` (guard `Waited`); `watchdog_timeout`
(30 s) and the run of a handler with its window are longer than those 15 s
(guards of `WatchdogExpires` and `HandlerWorks`); a power cut restarts the whole
board, the daemon is not restarted alone; forking a business process succeeds;
the five minutes are only judged with the watchdog on; a process that hangs does
not feed. The steps of writing DONE and removing the status file are one, and so
are the flags and `stopAllProcesses` of `performUpdate`.

`overlapped` is history: a handler was started while another was at work, or
while an accepted update waited. The code lets this happen (section 4), and the
properties of a single handler are stated where it did not.

### Pile controller: `PileController`

| code | model |
|---|---|
| `m_status...Valid`, `m_status...CompleteData` | `valid`, `data` |
| `m_longFrameContexts` | `context`, one of a kind |
| `m_startChargeRetry` and its like | `retry` |
| `m_versionOk`, `m_chargeParamOk`, `m_commTimeoutActive` | `shake`, `timeout` |
| MQTT thread, `taskThread`, `receiveThread`, main loop | `call`, `task`, `rx` and `ending`, `clearing` |
| the CCU and the bus, as the code counts on them | `owes`, `unheard`, `number`, `next`, `acked`, `bus` |

A step ends where a thread gives up a lock or reads a flag another thread may
change: the command is written and its retry armed in two steps, the receive
thread decodes and then tests the flags one by one, and ends a resending after the
test, under the lock; the main loop publishes and then clears. `tcu_logic` may repeat
any command at any time, and does so with `stop_charge` every 2 s, while the former one
is still being resent; only a power adjustment clears the flag of the last answer first
(`setPowerAdjustData`). `unheard` is history: the commands of which the CCU has not
heard, written when nothing was left of the answers to earlier ones of the kind. Of a
repeat that overtakes an answer nothing can be said: that answer ends its resending.

Assumptions: one gun; the CCU answers what it hears, a copy or several, repeats a
completion until it is acknowledged, and makes the next one of the kind a session
later, when the main loop (10 ms) has long dealt with the last; frames of two
messages do not join into one with a right checksum; a break of the bus without a
communication timeout is shorter than the 5 s of the resending; no process
crashes. Telemetry, vehicle id and authorisation, output values and the
publication of online and offline are not modelled. The run lets commands and
completions take turns (`TakingTurns`: two kinds of commands together before the first
completion, starts alone before the second) and adjusts power after the handshake
(`AdjustedInCharge`); the theorems do neither.

### Uploader: `Uploader`

| code | model |
|---|---|
| rows of a table of the logger, its AUTOINCREMENT counter, rotated files | `rows`, `lastSeq`, `file` |
| the table's watermark in `upload_state.json` | `mark` |
| `pending/`: at most one package, since `createPackage` only runs when it is empty (616) | `pending` |
| where `runOnce` is, and whether it made the package itself; `toTime` and `toSeq` | `at`, `fresh`; `to` |
| what the server has stored | `received` |
| files written and renamed but not synced; files a power cut left without content | `unsynced`; `torn` |

The last row of an export is found by one statement and the range copied by
others, with the logger in between. `late` is history: rows logged at or below a
point that was exported before they came, to which the code promises nothing
(section 4). The time of a row may be any: faults bring their own `occur_time`,
and the platform sets the clock.

Assumptions: one table stands for all (when one of them cannot be read no package
is made); `max_retry_per_round` is positive; every row has a time; the server
takes packages of any size; a rename survives a power cut, the content of the
file need not; a torn package is short, so never over the limit.

## 4. Runs

Bounds are the CONSTANTS of the cfg and guards of the modules, each named
"bound" where it is declared. No symmetry is used: guns, slots and records are
few, and the lower gun of a pair decides for both. Each run would be worth
little if the case it is about never came up: `PROJECT.json` gives for each
property a plausible bug ("mutants", defined next to the code they change and
marked `Mutant`) under which the same run fails.

| run | module | instance | shows |
|---|---|---|---|
| `Session` | `MCChargeLogic` | 1 gun, 2 orders, all links and faults, every kind of end, stray authorisation results (360,000 states) | `NoServiceOnDeadLink`, `RetryRepeatsOrder`, `SettlementUninterrupted`, `ReasonKept`, `StopCompleteRemembered` |
| `Fee` | `MCChargeLogic` | 1 gun, 2 orders, readings 0..2, low and normal voltage (406,000) | `TypeOK`, `EnergyIsBooked`, `EnergyNeverDropped`, `BookedOnce`, `IdleIsClean` |
| `Settle` | `MCChargeLogic` | 1 gun, 1 order of the platform or of a card, readings 0..1, fair (74,000) | `StartingEnds`, `StoppingIsBooked`, `PrepaidStops`, `PlatformSparesCard` |
| `Guns` | `MCChargeLogic` | 2 guns: started as a pair by the platform, or by the reader with automatic waiting and one whitelisted card of two (1.4 million) | `AutoWaitSole`, `OrderOpensInPrepare`, `RecordNamesCard`, `MergedInLockstep`, `MergeStopsTogether` |
| `Delivery` | `MCRecordDelivery` | 3 records of one gun, the oldest refused for ever, one with a local number; 2 starts: at power on, one record to be made and 1 fault anywhere, and online, all three left in a database that is queried two at a time into a buffer of one; fair (150,858) | `TypeOK`, `ImplementsLedger`, `KeptIsSettled`, `SettledIsLeftAlone`, `NoStaleOffline`, `OnlineMeansReplayed`, `ReturnsOnline` |
| `Update` | `MCSupervisor` | 1 file, 1 new version, 2 business processes, 1 restart, 2 faults, up to 3 handlers, fair (200,344) | `TypeOK`, `InstallIsRecorded`, `RollbackRestores`, `ComesBack`, `UpdateEnds`, `JudgementEnds` |
| `Pile` | `MCPileController` | starts, power adjustments and their repeats, 2 completions of 2 frames, 2 resends, 2 faults, fair (about 560,000) | `TypeOK`, `AckedIsPublished`, `CompletionGetsThrough`, `CommandReaches`, `ResendsAreMade`, `StartAfterHandshake` |
| `Upload` | `Uploader` | rows but the `late` ones, 2 times, 2 rows a file, 1 rotation, 2 faults, a limit of 1 row, fair (110,343) | `NothingSkipped`, `EveryRowArrives` |
| `FaultCovered`, `Rebooked`, `FailedUpdate`, `LostRecord` | `MCChargeLogic` twice, `MCSupervisor`, `LogicThreads` | expect a violation, see below | |

Why the bounds are enough. The faults of the guns depend on each other only
through a merged pair and the reader, so one gun is enough for a session, and two
are the smallest pair and the smallest competition for the reader. Two orders
are needed wherever something may survive from one to the next. One record with
a fault anywhere is enough for what a fault can do to it. Of the three left records a
query returns two, the refused one first, so that the last must come up when the second
is settled, and the buffer of one drops what does not fit. `KeptIsSettled` holds while
fewer records are refused than a query returns (100 in the code, below). `HeartbeatLimit` (3 in the code) and `MaxRetry` are counters that
are only compared with their limit. Two processes are the least for a pass of
the daemon that restarts one and judges another, two faults for a power cut
during the recovery from the first; a mix of versions needs two files
(`FailedUpdate`). Two frames have a first and a last, and two completions a stale
context of the former one; two commands are the least for an answer to the wrong one,
and two resends for two lost frames. Beyond what the cfgs state, the daemon's properties
have also held with two files and two processes (543,000 states), the two safety
properties of the files with two new versions (2.3 million), and `AckedIsPublished`
without turns (6 million), and the properties of pairs with confirmed faults of
the meter of either gun and with reports of the pile (302,304). For the uploader,
two rows of one time and two times are the least for both halves of the
watermark's comparison, one rotation for numbers that start again, a limit of
one row for packages on either side of it, and two faults for a crash on top of
a torn file.

`MergedInLockstep` and `MergeStopsTogether` are checked where the platform alone
starts the guns. An HMI start or an authorisation result dispatches one gun of a
pair by itself (handleLogicCmd does not look at the peer), so the pair is then
not in lockstep; that the pair stops together however it was started is a theorem
(`PairStopsTogether`). `OrderOpensInPrepare` is checked where the reader waits by
itself, `BookedOnce` where no authorisation result comes without a start: each is
violated elsewhere (below).

`ImplementsLedger` is the refinement: `RecordDelivery` instantiates
`RecordLedger` with `kept` (the records that have a row) and `settled` (those
whose flag is set), and `Ledger!Spec` is the property. The ledger's own liveness,
`Ledger!KeptIsSettled`, is checked next to it.

### Statements of the documents that the code does not keep

Four runs expect a violation; `PROJECT.json` ("findings") quotes the lines.

| run | statement | what the code does |
|---|---|---|
| `LostRecord` | the record written on STOPPING -> STOPPED has the numbers of the order | a reset on the MQTT thread wipes the session while the main loop is about to stop it, or an unplugged vehicle while the main loop is about to record it; the record has a made-up number and no energy |
| `FaultCovered` | a normal end does not cover a fault already noted (comment at 1067) | the normal ends have reasons of their own, which replace the fault (1069): a session that a silent pile has stopped is recorded as one that ended normally |
| `Rebooked` | nothing survives from one session to the next | STOPPED, ERROR, PREPARE skips the reset; the old order can be charged on and recorded again |
| `FailedUpdate` | the handler returns 0 for a success | it returns 0 after a failed update as well; the daemon records DONE over a mix of versions |

Seen while modelling, without a run of their own.

`tcu_logic`:

- a failed `start_complete` replaces the reason as well (1052);
- after a restart it takes the platform for offline
  (`charge_logic_process.h:220`), and is told of a platform that is online only if
  `platform_online` is still the retained message of the topic; the driver publishes
  its `setConfig` there, retained, every 30 s (7784, from 979), which `tcu_logic`
  ignores. It then waits for the next login of the driver. `NoStaleOffline` therefore
  says no more than that what it has been told is not out of date;
- 100 records the platform refuses fill every query (`LIMIT` 100 by id,
  `database_manager.cpp:996`), and no later record is ever uploaded again;
- a reset or `deviceErr_off` takes STARTING to IDLE, and no `stop_charge` follows
  the `start_charge` (`STATE_MACHINE.md:32-38` knows CHARGING and STOPPING only);
- a card that comes after the gun has moved on opens an order in any state
  (1545), where `ARCHITECTURE.md:39` accepts starts in PREPARE only;
- a refused card's number is written on the next ordinary order (1921, 4464);
- with the threads of `LogicThreads`, the main loop may find an old
  `meterStableCount` before `enterStopping` has cleared it and end the settlement
  at once (4479-4483 against 572), and a fault between STOPPED and the record
  lets a new order be opened, in whose name the record of the old one is written;
- `STATE_MACHINE.md:50` lets only IDLE and PREPARE go to ERROR, but STOPPED does
  as well (4248); the comment at 4141 keeps a plugged gun out of PREPARE while
  the platform is down, but that condition is commented out (4142);
  `STATE_MACHINE.md:26-29` asks for a start command and an authorisation, but an
  authorisation result alone takes a gun to STARTING (4154-4196).

The driver (`comm_process.cpp`):

- `closePlatformTcp` (3126) raises no `platform_offline`, and only heartbeats in
  ONLINE do: a connection that closes and cannot be reopened is never reported;
- the final resend of a record forgets the upload (2596-2602), so that the
  platform's consent to it finds no original number, which the document
  `云快充V1.6关键业务帧落实检查结果.md:78` counts on; the hourly query repairs it;
- the replay before ONLINE ends with the first confirmed record, while
  `tcu_logic` hands out one in 10 s; after an outage of more than 5 minutes the
  final resend follows the first retry at once (2576).

The daemon and the update handler:

- `m_isUpdating` is cleared (584) before the processes are started and the
  handler's pid is forgotten (600), and `performRollback` sets it late (1196): two
  handlers can be at work at once, which `UpdateHandler`'s `overlapped` marks;
- a failed `startUpdateProcess` leaves UPDATING in the file (1038, 1041), and the
  next boot rolls back a healthy version;
- an interrupted rollback cannot be repeated, since its own backup is empty and
  the newest; an update interrupted before its backup rolls back to the version
  before the last; a bare backup directory blocks a rollback;
- business processes run while a rollback after a power cut replaces files, and
  are then started a second time (588); the first copies have no entry and keep
  feeding the watchdog;
- five restarts in one pass, of 5 s each with the mutex held, make healthy
  processes late; an exit that the rollback check's or the watchdog's `waitpid`
  takes is recovered by the watchdog only;
- a PID fault does trigger a rollback, 30 s later through the watchdog, where the
  comment at 822 says it does not.

The pile controller (`can_pile_controller.cpp`):

- flags of the last handshake are not cleared by a communication timeout, so the
  next handshake is taken as answered at once (408-440) and a lost parameter
  frame is then not repeated;
- the main loop leaves the flag of a power response to the next adjustment, and only
  power adjustments clear it before they go out: a start or a stop that is repeated
  while the answer to the former one is outstanding or flagged is no longer resent when
  that answer is seen;
- the retries of a start go on when a stop is issued, for up to 5 s; a first
  write that fails is neither repeated nor reported;
- the acknowledgement of a completion precedes its publication, so that a crash
  in between loses it; the time limits of `tcu_logic` cover that.

The uploader (`tcu_uploader_process.cpp`):

- `README.md:37` of the uploader says that the composite watermark keeps rows from
  being missed when the ids start again after a cleanup or a rotation; a row that
  comes after a rotation within the second of the last exported row, or with an
  earlier time (a late `occur_time`, a clock set back), lies below the watermark
  and is never uploaded, and neither is one that is rotated away before the daily
  export;
- nothing is synced before its rename (260, 748): the server stores a torn package,
  whose checksum is right, but its manifest cannot be read, so it stays in
  `pending/` and no further row is exported; a torn `upload_state.json` has the same
  effect;
- a package between the server's 100 MB (`upload2web/server/app/main.py:14`) and the
  `max_pending_mb` of 200 (469) is refused in every round and never dropped;
- `README.md:15` lets the limit delete old packages in favour of new ones; with one
  package in `pending/` it deletes the only one, whose rows are then exported again.

### Fairness

`ChargeLogic`: weak fairness of three conditions per gun. `Poll(g)`: the main
loop visits every gun every 10 ms and depends on no message; if an iteration that
finds no limit passed would change something, an iteration that does so comes.
`StartingExpires(g)` and `StoppingExpires(g)`: `steady_clock` advances while a
gun stays in STARTING or STOPPING. No other limit ever has to pass (a pile that
goes on sending yx packets keeps its two minutes from running out), and no pile,
meter, platform or card has to answer. So `StartingEnds` and `StoppingIsBooked`
lean neither on an answer of the pile nor on a meter that stands still, and
`PrepaidStops` on no link fault. The conjuncts of `Fairness` have the form of WF
with the enabling states written out as `PollActs` instead of ENABLED, which TLC
evaluates slowly for an action of this size.

`RecordDelivery`: weak fairness of the loops of the three processes
(`ProcessFairness`), and of a platform that can be connected to and answers, and
of sessions that end (`SurroundingsFairness`). Nothing of faults, of crashes or of
a platform that accepts: a refused record is one it never accepts.

`Supervisor`: the monitor thread, the waiting update and every handler go on, a
watchdog that is not fed runs out, and five minutes pass; an operator closes the
window of a failed update. Nothing of requests or faults.

`PileController`: the threads go on and time passes; strong fairness of
`FrameArrives` and `Publish`, because a message the CCU repeats is lost only so
often and the main loop comes round again. Nothing of commands, answers,
completions or faults.

`Uploader`: the rounds go on; strong fairness of `Copy` and `Accepted`, because a
table that is read in round after round is once not locked, and a server that is
asked in round after round takes a package in the end. Nothing of the logger, of
faults or of the kernel.

## 5. Proofs

All theorems are about `Spec`, without fairness, for every value of the constants
within the named assumptions, which are as weak as the code's types (at least one
gun, process, file and slot; bounds and limits are naturals; inputs are of the
listed kinds). TLC evaluates them in the runs.

### `ChargeLogicProofs`

- `TypeCorrect`: `Spec => []TypeOK`.
- `ReaderWaitsForSole`: `Spec => []AutoWaitSole`. A reader that waits on its own
  account waits for the only gun in PREPARE.
- `ServiceNeedsLinks`: `Spec => []NoServiceOnDeadLink`.

The argument. The inductive invariant is `IInv == Good(Now)`, where `Good` is
stated on the data, not on the variables, because a handler passes through data
that is never a state of the process: `Good(s)` says that `s` is typed, that the
reader waits by itself only if the switch allows it (without it, a reader left
from before would be judged by a reconciliation that never runs), that
`AutoWaitSole` holds of `s`, and that `NoServiceOnDeadLink` does. The type part
alone is not inductive for the reader, and the link part needs all guns: the
confirmation of one gun's link may stop its peer.

The proof follows the code bottom-up. `Quiet(s, t)` is what most helpers do:
change the data but no state, no link and not the reader. `Moves(s, t, g, S)` is
what a transition does, and `Stops(s, t, g)` what `enterStopping` does, which may
take the peer along. There is one lemma per operator, then one per action that
shows `CanLeaveGood` (the step leaves good data behind), and `StepGood` puts the
actions together. `ReconcileFact` is where the reader is settled: whatever it
finds, it leaves `AutoSole`. `NoteOnlineFact` and `ConfirmFact` are where the
links are: a gun leaves ERROR only with all three links up, and a confirmed
fault takes a gun out of service in the same step.

### `SettlementProofs`, `ReasonProofs`, `SessionProofs`

Most of these are properties of steps, not of states. Each module states a relation between the data
before and after that composes, goes through the same operators bottom-up, and
concludes that a handler satisfies it because each of its calls does.

- `SettlementKept`: `Spec => SettlementUninterrupted`, and `StopReportKept`:
  `Spec => StopCompleteRemembered`. `Descends(s, t)`: what charges charges on or
  starts to stop, what stops goes on stopping and remembers the report. Only the
  end of a settlement (`Ends`) and the return to PREPARE or IDLE of a gun at rest
  fall outside; the lemmas about them need the handler's test of the state.
- `ReasonStays`: `Spec => ReasonKept`: a reason never goes back to 0 while its order
  stays, whatever ends the pile reports (that it may be replaced by another reason is
  the run `FaultCovered`). `Keeps(s, t)`: the order stays and its reason
  with it, or the order goes, or it is replaced by one not issued before. That a
  new order's number is new needs `Ordered`, which makes `OrderInv == IInv /\
  Ordered(Now)` the invariant: without it a handler that clears an order and opens
  another in one step could come back to the old number without the reason.
- `IdleClean`: `Spec => []IdleIsClean`, `EnergyBooked`: `Spec => []EnergyIsBooked`, and
  `OrdersOpenInPrepare`: `Spec => OrderOpensInPrepare`. `Tidies(s, t, S)`: a gun whose
  session was clean, or booked, before is so after, and only the guns in `S` open an
  order. It composes, and a handler satisfies it whatever state it finds the gun in,
  but for the start of a session (`ArmTidy`): that needs a gun that is not free, or
  whose card session has begun. `TidyInv` adds `WaitsAuto`, that the reader waits only
  on its own account: with `AutoSole` its gun is then in PREPARE when a card comes.
  That is why the third theorem assumes that the HMI asks for no card; where it does,
  a card may be presented after the gun has left PREPARE, and the code does not look.
- `PairStopsTogether`: `Spec => MergeStopsTogether`, however the pair was started.
  `Paired(s, t)`: a gun that starts to stop takes its merged peer out of service,
  no gun begins to draw power, none loses its merge flag while it draws. Starts do
  not satisfy it; they stop no gun (`NoStops`), so that the two cover all steps.
  `PairedTrans` is the heart: a stop in the second half of a handler finds the
  pair as it was before the first half, or a peer that no longer draws.
- `OneRecordPerOrder`: `Spec => []BookedOnce`, `RetryIsOfTheOrder`:
  `Spec => []RetryRepeatsOrder`, `PairsInLockstep`: `Spec => []MergedInLockstep`,
  `RecordsNameCards`: `Spec => RecordNamesCard`, `NoEnergyDropped`:
  `Spec => EnergyNeverDropped`, and `CardNeedsNoPlatform`: `Spec => PlatformSparesCard`,
  all from one invariant, `HeldInv`.

`HeldInv` adds four parts to `TidyInv`. `GunsHeld(s)`: the repeated command is of the
order under way unless the order's own has still to be sent; a card in use is on the
whitelist; no order has two records, and the order of a gun in STARTING, CHARGING or
STOPPING and those not yet issued have none, nor has, for a pair in step, that of an
armed start. `ReaderFree(s)`: the reader waits for no
start card on a gun that has one (without it a second card could replace the number
the record will name). `Locked(s)`: the guns of a pair draw together, and what brings
one of them there finds the other. Most calls satisfy `Heeds(s, t)`: they keep the
first two parts, the orders' as long as no gun of a pair is taken into a settlement it
has no session for (`Steady`, which the whole step satisfies because its pair was
`Locked`), and spare every gun (`Spares`): they book nothing, keep its card and
its energy, and leave it in service. What does not, the end of a settlement that books
the record, the start of a session and the return to IDLE, is in the lemmas about those
operators, which need the state the handler has tested. `NextHolds` and `StepSpares`
put the actions together: the first for the invariant, the second for the properties
of steps.

Four of the six need an assumption on the inputs, because the code violates the
property without it (each is seen by TLC when the input is added to the run):

- `RetryIsOfTheOrder`, `RecordsNameCards` and `NoEnergyDropped` assume that the HMI asks
  for no card. Such a card may come when its gun has left PREPARE, and opens an order
  over the one under way.
- `OneRecordPerOrder` assumes that no authorisation result comes alone (it charges a
  recorded order again: run `Rebooked`), and then (`Orderly`) that no guns are merged,
  or that only the platform merges them and nothing resets a gun. A pair of which the
  HMI or a card has started one gun stops with the other in PREPARE, and that one's
  order, which may be on record already, is recorded with it. A reset leaves a start
  armed on a gun whose order the pair's stop then records, and the peer's next start
  dispatches it again.
- `PairsInLockstep` assumes that the platform alone starts guns (an HMI start of a pair
  dispatches one gun) and that no reset takes one gun of a pair from STARTING to IDLE.

`CardNeedsNoPlatform` assumes nothing.

### `RecordDeliveryProofs`

- `OnlineAfterReplay`: `Spec => []OnlineMeansReplayed`, and `NoOfflineWhileOnline`:
  `Spec => []NoStaleOffline`. Both follow from `LinkInv`, which adds how late
  answers are kept out: a fee model is asked for only after the replay, the
  replay's query is recorded, and the flag of the online event is set while the
  driver is ONLINE and rules out that the last report, the retained one or the one
  `tcu_logic` has had, is of an offline platform. Any number of requests may be
  under way, where the run has one of a kind.
- `DeliveryTyped`: `Spec => []TypeOK`, for every number of records, guns, frames under
  way and faults: the counters stay within their limits and no record appears in a
  place it cannot be in.
- `DeliveryImplementsLedger`: `Spec => ImplementsLedger`. The invariant `Origins`
  says where everything comes from: whatever is stored, found, buffered, retained
  or on the wire is of a booked record, and a confirmation in the queue or on the
  wire is of one the platform has accepted. There is one lemma per action; each
  step is a step of the ledger or leaves its variables alone.

### `SupervisorProofs`

- `SupervisorTyped`: `Spec => []TypeOK`, with `TodoOK` (a handler has nothing to
  do that its package does not hold) to make it inductive.
- `InstallRecorded`: `Spec => []InstallIsRecorded`, from `OneInv`: as long as no
  two handlers have overlapped, at most one is at work, an accepted update finds
  none, and no judgement is under way that could change the status file.
- `RollbackIsFaithful`: `Spec => RollbackRestores`, from `RollInv`: a backup
  that can be rolled back to holds what the last update replaced, a rollback works
  from just that, and while a lone handler installs, the files it has dealt with
  are those of its package.

### `PileControllerProofs`

- `ControllerTyped`: `Spec => []TypeOK`.
- `AcknowledgedPublished`: `Spec => []AckedIsPublished`, from `CompletionInv`: a
  flagged completion carries the data of the CCU's last one, the flag the main
  loop clears is of one it has published, and what is acknowledged is published
  or still flagged. It needs no turns.
- `StartNeedsHandshake`: `Spec => StartAfterHandshake`, from `HandshakeInv` and
  the lemma `FlagsStay`.
- `UnheardIsResent`: `Spec => ResendsAreMade`, from `UnheardInv`: of a command counted
  as unheard no answer is due, flagged or seen, so that what ends resendings ends that
  of another one.

### `UploaderProofs`

- `UploaderTyped`: `Spec => []TypeOK`, which includes that `pending/` holds at most
  one package.
- `WatermarkSkipsNothing`: `Spec => []NothingSkipped`, for every number of rows,
  times, rotations and faults. Rows in `late` are excepted. The watermark moves long after the rows were read,
  so `UploadInv` says it of the package first (`PackageInv`): it holds every row up
  to its own watermark that is not stored yet, and it is only applied once what
  it holds is stored. Rows that are logged meanwhile at or below that point are
  the ones in `late`; those that are deleted leave the statement.

Every invariant and every action property of a passing run is stated by a theorem.
Only model-checked, on the instances above, are the liveness properties, since liveness
under fairness is beyond the proof system here (`StartingEnds`, `StoppingIsBooked`,
`PrepaidStops`, `KeptIsSettled`, `ReturnsOnline`, `SettledIsLeftAlone`, `ComesBack`,
`UpdateEnds`, `JudgementEnds`, `CompletionGetsThrough`, `CommandReaches`,
`EveryRowArrives`), and the four runs that expect a violation, among them all of
`LogicThreads`, which has no theorem.

## 6. What is not modelled

- `tcu_logic`: plug-and-charge and V2G, the price segments, telemetry and the
  publication of events. Settlement on the card itself is not there because the
  code cannot reach it: `offlineCardSettlementPending` is never set, and the
  reader phases after `WAIT_AUTO_RF_CLOSE` are never entered. A restart of
  `tcu_logic` is `Init` again for a session, which is not persisted; what it does
  to records is `LogicRestart` of `RecordDelivery`.
- The driver: remote start and stop, charge information, the contents of fee
  models, plug-and-charge frames and the encoding of frames. The drivers of other
  operators have the same interface to `tcu_logic`; this one stands for them.
- The logger: log entries and fee models on the same queue, backups.
- The daemon: the status report, its own stop, a business process that cannot be
  forked. The update engine: unpacking and checksums beyond success and failure,
  older backups, the display.
- The pile controller: see the assumptions of section 3; its variants (virtual
  VIN, 4C, shared memory).
- The uploader: several tables in one package, the device id and its cache, the
  configuration, the watchdog thread.
- The card process and the meter process (open points of the plan), and the components that are I/O, display, tools or third-party code;
  "components" in `PROJECT.json` gives the reason for each. Vendored libraries
  make up most of the lines under `src/`.
