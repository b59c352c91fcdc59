---------------------------- MODULE PileController -----------------------------
(***************************************************************************)
(* The pile controller of one gun (src/core/pile_controller/CAN2CCU)       *)
(* between tcu_logic and the charge control module (CCU) on the CAN bus.   *)
(* Its four threads share the flags of what has been received: the MQTT    *)
(* thread sends commands, the task thread supervises the heartbeat, shakes *)
(* hands and resends, the receive thread puts long messages together,      *)
(* stops the resending and acknowledges, and the main loop publishes.      *)
(* Steps end where a thread gives up a lock or reads what another thread   *)
(* may change.  The CCU and the bus are modelled as far as the code counts *)
(* on them: the CCU answers what it hears, and repeats a completion (the   *)
(* long message that ends a start or a stop) until it is acknowledged.     *)
(***************************************************************************)
EXTENDS Integers, Sequences, Functions

CONSTANTS
    Tests,            \* the flags the receive thread tests after a frame, in order
    FrameCount,       \* frames of a completion
    Resends,          \* resends of a command before its time is up
    CompletionLimit,  \* bound: completions of a kind
    FaultLimit        \* bound: frames lost, failed writes and breaks of the bus

Commands == Range(Tests) \cap {"start", "stop", "power"}
Completions == Range(Tests) \cap {"startDone", "stopDone"}
Requests == Commands \cup {"version", "param"}

ASSUME TestsAssumption ==
    Tests \in Seq({"start", "stop", "power", "startDone", "stopDone"})
ASSUME FrameAssumption == FrameCount \in Nat /\ FrameCount > 1
ASSUME ControllerAssumption == {Resends, CompletionLimit, FaultLimit} \subseteq Nat

VARIABLES
    valid,      \* the m_...Valid flags of the protocol
    data,       \* number of the completion in m_status...CompleteData
    context,    \* m_longFrameContexts
    retry,      \* m_...Retry: 0 inactive, else one more than the resends left
    shake,      \* m_versionOk and m_chargeParamOk
    timeout,    \* m_commTimeoutActive
    heard,      \* a heartbeat of the CCU in the last 3 s
    call,       \* MQTT thread: the command it is in and how far
    task,       \* task thread: where it is in a pass
    rx,         \* receive thread: the test it is at, 0 when it receives
    ending,     \* receive thread: the command whose resending it ends next
    clearing,   \* main loop: the flag it has acted upon and clears next
    published,  \* number of the last completion published
    owes,       \* CCU: requests it has heard and not answered
    unheard,    \* CCU: commands it has not heard that were written when nothing was left
                \* of the answers to earlier ones of the kind, but for those given up in a
                \* communication timeout
    number,     \* CCU: number of its last completion
    next,       \* CCU: the frame of it that goes out next
    acked,      \* CCU: the completion has been acknowledged
    bus,        \* "up", or "down": nothing gets through
    faults      \* faults so far

protocolVars == <<valid, data, context>>
controllerVars == <<retry, shake, timeout, heard>>
threadVars == <<call, task, rx, ending, clearing>>
ccuVars == <<owes, unheard, number, next, acked>>
vars == <<protocolVars, controllerVars, threadVars, published, ccuVars, bus, faults>>

Numbers == 0 .. CompletionLimit

\* A partly received message: its frames so far, the messages they are of, and whether
\* packet_timeout has passed since the last of them.
Contexts == [frames : 0 .. FrameCount, of : SUBSET Numbers, stale : BOOLEAN]
NoContext == [frames |-> 0, of |-> {}, stale |-> FALSE]

NoCall == <<"none", "none">>
Calls == {NoCall} \cup ({"send", "activate"} \X Commands)

TypeOK ==
    /\ valid \subseteq Requests \cup Completions
    /\ data \in [Completions -> Numbers]
    /\ context \in [Completions -> Contexts]
    /\ retry \in [Commands -> 0 .. Resends + 1]
    /\ shake \in [version : BOOLEAN, param : BOOLEAN]
    /\ timeout \in BOOLEAN
    /\ heard \in BOOLEAN
    /\ call \in Calls
    /\ task \in {"pass", "drop", "reset"}
    /\ rx \in 0 .. Len(Tests)
    /\ ending \in Commands \cup {"none"}
    /\ clearing \in Range(Tests) \cup {"none"}
    /\ published \in [Completions -> Numbers]
    /\ owes \subseteq Requests
    /\ unheard \subseteq Commands
    /\ number \in [Completions -> Numbers]
    /\ next \in [Completions -> 1 .. FrameCount]
    /\ acked \in [Completions -> BOOLEAN]
    /\ bus \in {"up", "down"}
    /\ faults \in 0 .. FaultLimit

Init ==
    /\ valid = {}
    /\ data = [k \in Completions |-> 0]
    /\ context = [k \in Completions |-> NoContext]
    /\ retry = [c \in Commands |-> 0]
    /\ shake = [version |-> FALSE, param |-> FALSE]
    /\ timeout = FALSE
    /\ heard = FALSE
    /\ call = NoCall
    /\ task = "pass"
    /\ rx = 0
    /\ ending = "none"
    /\ clearing = "none"
    /\ published = [k \in Completions |-> 0]
    /\ owes = {}
    /\ unheard = {}
    /\ number = [k \in Completions |-> 0]
    /\ next = [k \in Completions |-> 1]
    /\ acked = [k \in Completions |-> TRUE]
    /\ bus = "up"
    /\ faults = 0

-----------------------------------------------------------------------------
(* The bus.                                                                *)

\* A frame on a bus that is up gets through, or is lost by a fault.
GetsThrough == bus = "up" /\ faults' = faults
IsLost ==
    \/ bus = "down" /\ faults' = faults
    \/ bus = "up" /\ faults < FaultLimit /\ faults' = faults + 1

\* A command or a request is written to the bus; the CCU may hear it.
Write(c, missed) ==
    \/ /\ GetsThrough
       /\ owes' = owes \cup {c}
       /\ unheard' = missed \ {c}
    \/ /\ IsLost
       /\ owes' = owes
       /\ unheard' = missed

-----------------------------------------------------------------------------
(* The MQTT thread: startCharge, stopCharge and powerAdjust.  tcu_logic    *)
(* may send any of them at any time, and does repeat one that is still     *)
(* being resent: a stop every 2 s.                                         *)

\* A start is refused before the handshake.  setPowerAdjustData clears the flag of the
\* last answer; a start and a stop leave theirs to the main loop.
Call(c) ==
    /\ call = NoCall
    /\ c = "start" => shake.version /\ shake.param
    /\ valid' = valid \ ({c} \cap {"power"})
    /\ call' = <<"send", c>>
    /\ UNCHANGED <<data, context, controllerVars, task, rx, ending, clearing, published,
                   ccuVars, bus, faults>>

\* Something is left of the answer to an earlier command of the kind: it is still to
\* come, flagged, or has been seen.
AnswerLeft(c) == c \in owes \cup valid \cup {ending}

SendFirst(c) ==
    /\ call = <<"send", c>>
    /\ Write(c, IF AnswerLeft(c) THEN unheard ELSE unheard \cup {c})
    /\ call' = <<"activate", c>>
    /\ UNCHANGED <<protocolVars, controllerVars, task, rx, ending, clearing, published,
                   number, next, acked, bus>>

\* The write fails: the command is given up, but not an earlier one that is being resent.
SendFails(c) ==
    /\ call = <<"send", c>>
    /\ IsLost
    /\ call' = NoCall
    /\ UNCHANGED <<protocolVars, controllerVars, task, rx, ending, clearing, published,
                   ccuVars, bus>>

\* The retry is armed, or armed anew, under a lock of its own, when an answer may be there
\* already.
ActivateRetry(c) ==
    /\ call = <<"activate", c>>
    /\ retry' = [retry EXCEPT ![c] = Resends + 1]
    /\ call' = NoCall
    /\ UNCHANGED <<protocolVars, shake, timeout, heard, task, rx, ending, clearing,
                   published, ccuVars, bus, faults>>

-----------------------------------------------------------------------------
(* The task thread.                                                        *)

\* No heartbeat for 3 s, noticed once: the handshake is void.
NoticeTimeout ==
    /\ task = "pass"
    /\ ~heard /\ ~timeout
    /\ timeout' = TRUE
    /\ shake' = [version |-> FALSE, param |-> FALSE]
    /\ task' = "drop"
    /\ UNCHANGED <<protocolVars, retry, heard, call, rx, ending, clearing, published,
                   ccuVars, bus, faults>>

DropRetries ==
    /\ task = "drop"
    /\ retry' = [c \in Commands |-> 0]
    /\ unheard' = {}
    /\ task' = "reset"
    /\ UNCHANGED <<protocolVars, shake, timeout, heard, call, rx, ending, clearing,
                   published, owes, number, next, acked, bus, faults>>

ResetAllLongFrameContexts ==
    /\ task = "reset"
    /\ context' = [k \in Completions |-> NoContext]
    /\ task' = "pass"
    /\ UNCHANGED <<valid, data, controllerVars, call, rx, ending, clearing, published,
                   ccuVars, bus, faults>>

\* Mutant: the handshake counts as done again.
RecoveryRestores ==
    /\ task = "pass"
    /\ heard /\ timeout
    /\ timeout' = FALSE
    /\ shake' = [version |-> TRUE, param |-> TRUE]
    /\ UNCHANGED <<protocolVars, retry, heard, threadVars, published, ccuVars, bus,
                   faults>>

NoticeRecovery ==
    /\ task = "pass"
    /\ heard /\ timeout
    /\ timeout' = FALSE
    /\ UNCHANGED <<protocolVars, retry, shake, heard, threadVars, published, ccuVars, bus,
                   faults>>

\* What the handshake asks for next.
Wanted == IF ~shake.version THEN "version" ELSE IF ~shake.param THEN "param" ELSE "none"

\* Every 500 ms.  The request that goes out when the flag of an earlier answer is set is
\* left out: its answer sets what is set.
AskHandshake ==
    /\ task = "pass"
    /\ Wanted \notin valid \cup {"none"}
    /\ Write(Wanted, unheard)
    /\ UNCHANGED <<protocolVars, controllerVars, threadVars, published, number, next,
                   acked, bus>>

\* The flag of the answer is never cleared: after a timeout that of the last handshake
\* will do.
TakeHandshake ==
    /\ task = "pass"
    /\ Wanted \in valid
    /\ shake' = [shake EXCEPT ![Wanted] = TRUE]
    /\ UNCHANGED <<protocolVars, retry, timeout, heard, threadVars, published, ccuVars,
                   bus, faults>>

\* Every 250 ms; a break of the bus that is no timeout is shorter than the 5 s, so that
\* resends are left after it.
Resend(c) ==
    /\ task = "pass"
    /\ retry[c] > 1
    /\ Write(c, unheard)
    /\ retry' = [retry EXCEPT ![c] = IF bus = "up" THEN @ - 1 ELSE @]
    /\ UNCHANGED <<protocolVars, shake, timeout, heard, threadVars, published, number,
                   next, acked, bus>>

\* 5 s after the command, which may all have been in a timeout.
GiveUp(c) ==
    /\ task = "pass"
    /\ retry[c] = 1 \/ (retry[c] > 1 /\ timeout)
    /\ retry' = [retry EXCEPT ![c] = 0]
    /\ unheard' = IF timeout THEN unheard \ {c} ELSE unheard
    /\ UNCHANGED <<protocolVars, shake, timeout, heard, threadVars, published, owes,
                   number, next, acked, bus, faults>>

-----------------------------------------------------------------------------
(* The receive thread.                                                     *)

Receives == rx = 0 /\ bus = "up"

HeartbeatArrives ==
    /\ Receives
    /\ heard' = TRUE
    /\ rx' = IF Tests = <<>> THEN 0 ELSE 1
    /\ UNCHANGED <<protocolVars, retry, shake, timeout, call, task, ending, clearing,
                   published, ccuVars, bus, faults>>

\* The CCU may have heard several copies of a command and answer again.
ResponseArrives(c) ==
    /\ Receives
    /\ c \in owes
    /\ owes' = owes \ {c} \/ (c \in Commands /\ owes' = owes)
    /\ valid' = valid \cup {c}
    /\ rx' = IF Tests = <<>> THEN 0 ELSE 1
    /\ UNCHANGED <<data, context, controllerVars, call, task, ending, clearing, published,
                   unheard, number, next, acked, bus, faults>>

\* A completion arrives frame by frame, then again until it is acknowledged.
Sending(k) == number[k] > 0 /\ (~acked[k] \/ next[k] > 1)

NextFrame(k) == IF next[k] = FrameCount THEN 1 ELSE next[k] + 1

\* processLongFrame: a first frame starts over, the others come in sequence.
Fits(k) == next[k] = 1 \/ (context[k].frames > 0 /\ next[k] = context[k].frames + 1)

\* What the frame is put together with.
Parts(k) == {number[k]} \cup (IF next[k] = 1 THEN {} ELSE context[k].of)

\* A frame after packet_timeout is lost with its context, the first of a message too.
Joins(k) == ~context[k].stale /\ Fits(k)

\* The last frame; the checksum finds out frames of two messages.
Complete(k) == Joins(k) /\ next[k] = FrameCount /\ Parts(k) = {number[k]}

\* Mutant: a context that has timed out is not given up.
ContextStaysStale(k) ==
    IF context[k].stale THEN context[k]
    ELSE IF Joins(k) /\ next[k] < FrameCount
         THEN [frames |-> next[k], of |-> Parts(k), stale |-> FALSE]
         ELSE NoContext

\* A frame that does not join, and the last one, end the context.
ContextAfter(k) ==
    IF Joins(k) /\ next[k] < FrameCount
    THEN [frames |-> next[k], of |-> Parts(k), stale |-> FALSE]
    ELSE NoContext

\* decodeStartCompleteFrame and decodeStopCompleteFrame.
FrameArrives(k) ==
    /\ Receives
    /\ Sending(k)
    /\ next' = [next EXCEPT ![k] = NextFrame(k)]
    /\ context' = [context EXCEPT ![k] = ContextAfter(k)]
    /\ IF Complete(k)
       THEN /\ valid' = valid \cup {k}
            /\ data' = [data EXCEPT ![k] = IF Parts(k) = {number[k]} THEN number[k] ELSE 0]
            /\ rx' = 1
       ELSE UNCHANGED <<valid, data, rx>>
    /\ UNCHANGED <<controllerVars, call, task, ending, clearing, published, owes, unheard,
                   number, acked, bus, faults>>

\* Mutant: the tests go on after the last.
RxPastEnd == rx + 1

RxNext == IF rx = Len(Tests) THEN 0 ELSE rx + 1

\* Mutant: any frame that is decoded counts as the answer.
SeeWhateverDecoded(c) ==
    /\ rx > 0 /\ Tests[rx] = c /\ ending = "none"
    /\ ending' = c
    /\ UNCHANGED <<protocolVars, controllerVars, call, task, rx, clearing, published,
                   ccuVars, bus, faults>>

\* The flag is tested without a lock: the command has been answered.
SeeAnswer(c) ==
    /\ rx > 0 /\ Tests[rx] = c /\ ending = "none"
    /\ c \in valid
    /\ ending' = c
    /\ UNCHANGED <<protocolVars, controllerVars, call, task, rx, clearing, published,
                   ccuVars, bus, faults>>

\* It has not, or the main loop has cleared the flag before.
SeeNoAnswer(c) ==
    /\ rx > 0 /\ Tests[rx] = c /\ ending = "none"
    /\ c \notin valid
    /\ rx' = RxNext
    /\ UNCHANGED <<protocolVars, controllerVars, call, task, ending, clearing, published,
                   ccuVars, bus, faults>>

\* Mutant: the resending of every command is ended.
StopEveryRetry(c) ==
    /\ ending = c
    /\ retry' = [d \in Commands |-> 0]
    /\ ending' = "none"
    /\ rx' = RxNext
    /\ UNCHANGED <<protocolVars, shake, timeout, heard, call, task, clearing, published,
                   ccuVars, bus, faults>>

\* The resending is ended under the lock, that of a command armed since the test as well.
StopRetry(c) ==
    /\ ending = c
    /\ retry' = [retry EXCEPT ![c] = 0]
    /\ ending' = "none"
    /\ rx' = RxNext
    /\ UNCHANGED <<protocolVars, shake, timeout, heard, call, task, clearing, published,
                   ccuVars, bus, faults>>

\* Mutant: a completion is acknowledged whether its flag is set or not.
AcknowledgeAnything(k) ==
    /\ rx > 0 /\ Tests[rx] = k
    /\ rx' = RxNext
    /\ \/ GetsThrough /\ acked' = [acked EXCEPT ![k] = TRUE]
       \/ IsLost /\ acked' = acked
    /\ UNCHANGED <<protocolVars, controllerVars, call, task, ending, clearing, published,
                   owes, unheard, number, next, bus>>

\* The acknowledgement is sent once for every frame that finds the flag set.
Acknowledge(k) ==
    /\ rx > 0 /\ Tests[rx] = k
    /\ rx' = RxNext
    /\ \/ k \in valid /\ GetsThrough /\ acked' = [acked EXCEPT ![k] = TRUE]
       \/ k \in valid /\ IsLost /\ acked' = acked
       \/ k \notin valid /\ acked' = acked /\ faults' = faults
    /\ UNCHANGED <<protocolVars, controllerVars, call, task, ending, clearing, published,
                   owes, unheard, number, next, bus>>

-----------------------------------------------------------------------------
(* The main loop: updateStatusFromController, which takes no lock.         *)

\* The data are taken and published, then the flag is cleared; that of a power
\* adjustment is left to the next adjustment.
Publish(k) ==
    /\ clearing = "none"
    /\ k \in valid /\ k # "power"
    /\ published' = IF k \in Completions THEN [published EXCEPT ![k] = data[k]]
                                         ELSE published
    /\ clearing' = k
    /\ UNCHANGED <<protocolVars, controllerVars, call, task, rx, ending, ccuVars, bus,
                   faults>>

ClearFlag ==
    /\ clearing # "none"
    /\ valid' = valid \ {clearing}
    /\ clearing' = "none"
    /\ UNCHANGED <<data, context, controllerVars, call, task, rx, ending, published,
                   ccuVars, bus, faults>>

-----------------------------------------------------------------------------
(* The CCU, the bus and time.                                              *)

\* A start or a stop is over.  The next of the kind is a session away: the main loop,
\* which comes by every 10 ms, has dealt with the last one.
CcuCompletes(k) ==
    /\ acked[k] /\ next[k] = 1
    /\ number[k] < CompletionLimit
    /\ k \notin valid /\ clearing # k
    /\ number' = [number EXCEPT ![k] = @ + 1]
    /\ acked' = [acked EXCEPT ![k] = FALSE]
    /\ UNCHANGED <<protocolVars, controllerVars, threadVars, published, owes, unheard,
                   next, bus, faults>>

ResponseIsLost(c) ==
    /\ c \in owes
    /\ IsLost
    /\ owes' = owes \ {c}
    /\ UNCHANGED <<protocolVars, controllerVars, threadVars, published, unheard, number,
                   next, acked, bus>>

FrameIsLost(k) ==
    /\ Sending(k)
    /\ IsLost
    /\ next' = [next EXCEPT ![k] = NextFrame(k)]
    /\ UNCHANGED <<protocolVars, controllerVars, threadVars, published, owes, unheard,
                   number, acked, bus>>

\* packet_timeout passes: not while frames come in.
PacketTimeout(k) ==
    /\ context[k].frames > 0 /\ ~context[k].stale
    /\ Sending(k) => bus = "down"
    /\ context' = [context EXCEPT ![k].stale = TRUE]
    /\ UNCHANGED <<valid, data, controllerVars, threadVars, published, ccuVars, bus,
                   faults>>

BusBreaks ==
    /\ bus = "up"
    /\ faults < FaultLimit /\ faults' = faults + 1
    /\ bus' = "down"
    /\ UNCHANGED <<protocolVars, controllerVars, threadVars, published, ccuVars>>

BusHeals ==
    /\ bus = "down"
    /\ bus' = "up"
    /\ UNCHANGED <<protocolVars, controllerVars, threadVars, published, ccuVars, faults>>

\* 3 s pass without a heartbeat.
HeartbeatsMissing ==
    /\ heard /\ bus = "down"
    /\ heard' = FALSE
    /\ UNCHANGED <<protocolVars, retry, shake, timeout, threadVars, published, ccuVars,
                   bus, faults>>

-----------------------------------------------------------------------------
MqttThread(c) == Call(c) \/ SendFirst(c) \/ SendFails(c) \/ ActivateRetry(c)

TaskThread ==
    \/ NoticeTimeout \/ DropRetries \/ ResetAllLongFrameContexts \/ NoticeRecovery
    \/ AskHandshake \/ TakeHandshake
    \/ \E c \in Commands : Resend(c) \/ GiveUp(c)

ReceiveThread ==
    \/ HeartbeatArrives
    \/ \E c \in Requests : ResponseArrives(c)
    \/ \E k \in Completions : FrameArrives(k) \/ Acknowledge(k)
    \/ \E c \in Commands : SeeAnswer(c) \/ SeeNoAnswer(c) \/ StopRetry(c)

MainLoop == ClearFlag \/ \E k \in Range(Tests) : Publish(k)

Surroundings ==
    \/ \E k \in Completions : CcuCompletes(k) \/ FrameIsLost(k) \/ PacketTimeout(k)
    \/ \E c \in Requests : ResponseIsLost(c)
    \/ BusBreaks \/ BusHeals \/ HeartbeatsMissing

Next ==
    \/ \E c \in Commands : MqttThread(c)
    \/ TaskThread \/ ReceiveThread \/ MainLoop \/ Surroundings

Spec == Init /\ [][Next]_vars

(***************************************************************************)
(* The loops of the threads run and time passes.  The main loop visits     *)
(* every flag in every pass, and the socket hands out what has come in in  *)
(* order: what they can do again and again they do in the end (SF).        *)
(* Nothing is assumed of commands, answers, completions and faults.        *)
(***************************************************************************)
Fairness ==
    /\ \A c \in Commands :
          /\ WF_vars(ActivateRetry(c)) /\ WF_vars(Resend(c)) /\ WF_vars(GiveUp(c))
          /\ WF_vars(SeeAnswer(c)) /\ WF_vars(SeeNoAnswer(c)) /\ WF_vars(StopRetry(c))
    /\ \A k \in Completions :
          SF_vars(FrameArrives(k)) /\ WF_vars(Acknowledge(k)) /\ SF_vars(Publish(k))
    /\ WF_vars(ClearFlag)
    /\ WF_vars(NoticeTimeout) /\ WF_vars(DropRetries)
    /\ WF_vars(ResetAllLongFrameContexts)
    /\ WF_vars(HeartbeatsMissing)

FairSpec == Spec /\ Fairness

-----------------------------------------------------------------------------
(* Properties.                                                             *)

\* What the CCU takes as acknowledged, and so sends no more, has been published to
\* tcu_logic or is still flagged for the main loop; the receive thread acknowledges while
\* the main loop publishes and clears, and copies go on coming in.
AckedIsPublished ==
    \A k \in Completions :
        acked[k] => \/ published[k] = number[k]
                    \/ k \in valid /\ data[k] = number[k]

\* A completion is published in the end, whatever frames are lost and whatever is left of
\* older messages in the contexts, unless the bus is down.
CompletionGetsThrough ==
    \A k \in Completions :
        ~acked[k] ~> (published[k] = number[k] \/ bus = "down")

\* A command written when nothing is left of the answers to earlier ones of its kind
\* reaches the CCU in the end, even if frames are lost: no answer to a command of another
\* kind, no other frame, no repeat and no late test of a flag ends its resending.  A
\* communication timeout may.  (Of a repeat that overtakes an answer nothing is said: the
\* answer to the earlier one ends its resending too.)
CommandReaches == \A c \in Commands : c \in unheard ~> c \notin unheard

\* As long as the CCU has not heard such a command, the resends that are left are made:
\* nothing the receive thread decodes or has seen, and no other command, ends them.
ResendsAreMade ==
    [][\A c \in Commands :
          c \in unheard \cap unheard' /\ retry[c] > 1 => retry'[c] > 0]_vars

\* No start is written to a CCU that has not answered both requests of the handshake
\* since the controller came up: the flags are tested by one thread and set and reset by
\* another, around breaks of the bus.
StartAfterHandshake ==
    [][call[1] = "send" /\ call[2] = "start" /\ call'[1] = "activate"
          => {"version", "param"} \subseteq valid]_vars

=============================================================================
