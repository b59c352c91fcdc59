------------------------- MODULE PileControllerProofs --------------------------
(***************************************************************************)
(* For every list of tests, every length of a message and every number of  *)
(* faults: the controller keeps its data typed, what the CCU takes as      *)
(* acknowledged is published or still flagged, a command the CCU has not   *)
(* heard is resent while resends are left, and no start is written before  *)
(* the handshake.  No turns are taken here.                                *)
(***************************************************************************)
EXTENDS PileController, TLAPS

-----------------------------------------------------------------------------
(* The constants.                                                          *)

Kinds == {"start", "stop", "power", "startDone", "stopDone"}

\* Every test of the receive thread is for one of the five flags.
LEMMA TestsAreKinds ==
    /\ Range(Tests) \subseteq Kinds
    /\ Len(Tests) \in Nat
    /\ \A i \in 1 .. Len(Tests) : Tests[i] \in Range(Tests)
  BY TestsAssumption DEF Range, Kinds

\* What the sets of commands, requests and completions consist of.
LEMMA KindsOfFlags ==
    /\ Commands \subseteq {"start", "stop", "power"}
    /\ Completions \subseteq {"startDone", "stopDone"}
    /\ Commands \cap Completions = {}
    /\ Requests \cap Completions = {}
    /\ Commands \subseteq Requests
    /\ "version" \in Requests /\ "param" \in Requests
    /\ Range(Tests) \subseteq Commands \cup Completions
    /\ "version" \notin Range(Tests) /\ "param" \notin Range(Tests)
    /\ "none" \notin Requests \cup Completions
  BY TestsAreKinds DEF Commands, Completions, Requests, Kinds

\* The bounds are numbers.
LEMMA BoundsAreNaturals ==
    Resends \in Nat /\ CompletionLimit \in Nat /\ FaultLimit \in Nat
  BY ControllerAssumption

-----------------------------------------------------------------------------
(* Typing.                                                                 *)

\* A write to the bus keeps what it changes typed.
LEMMA WriteTyped ==
    ASSUME TypeOK, NEW c \in Requests, NEW missed \in SUBSET Commands, Write(c, missed)
    PROVE  /\ owes' \subseteq Requests
           /\ unheard' \subseteq Commands
           /\ faults' \in 0 .. FaultLimit
  BY BoundsAreNaturals DEF TypeOK, Write, GetsThrough, IsLost

\* A fault is counted within its bound.
LEMMA FaultTyped ==
    ASSUME TypeOK, IsLost \/ GetsThrough
    PROVE  faults' \in 0 .. FaultLimit
  BY BoundsAreNaturals DEF TypeOK, GetsThrough, IsLost

\* The receive thread goes from one test to the next, or back to receive.
LEMMA RxTyped ==
    ASSUME rx \in 0 .. Len(Tests)
    PROVE  RxNext \in 0 .. Len(Tests)
  BY TestsAreKinds DEF RxNext

\* A frame leaves a context of the right shape.
LEMMA ContextTyped ==
    ASSUME TypeOK, NEW k \in Completions
    PROVE  ContextAfter(k) \in Contexts
<1>1. NoContext \in Contexts
  BY FrameAssumption, BoundsAreNaturals DEF NoContext, Contexts, Numbers
<1>2. Parts(k) \in SUBSET Numbers
  BY DEF TypeOK, Parts, Contexts
<1>3. next[k] \in 0 .. FrameCount
  BY FrameAssumption DEF TypeOK
<1>4. [frames |-> next[k], of |-> Parts(k), stale |-> FALSE] \in Contexts
  BY <1>2, <1>3 DEF Contexts
<1> QED
  BY <1>1, <1>4 DEF ContextAfter

\* The state is typed at the start.
LEMMA TypeInit == Init => TypeOK
<1> SUFFICES ASSUME Init PROVE TypeOK
  OBVIOUS
<1>1. NoContext \in Contexts /\ 0 \in Numbers
  BY FrameAssumption, BoundsAreNaturals DEF NoContext, Contexts, Numbers
<1>2. 1 \in 1 .. FrameCount /\ 0 \in 0 .. Resends + 1 /\ 0 \in 0 .. FaultLimit
  BY FrameAssumption, BoundsAreNaturals
<1>3. 0 \in 0 .. Len(Tests)
  BY TestsAreKinds
<1>4. shake \in [version : BOOLEAN, param : BOOLEAN] /\ call \in Calls
  BY DEF Init, Calls
<1> QED
  BY <1>1, <1>2, <1>3, <1>4 DEF Init, TypeOK

\* The MQTT thread keeps the state typed.
LEMMA MqttThreadTyped ==
    ASSUME TypeOK, NEW c \in Commands, MqttThread(c)
    PROVE  TypeOK'
<1> USE DEF protocolVars, controllerVars, ccuVars, Calls, NoCall
<1>1. CASE Call(c)
  BY <1>1 DEF Call, TypeOK
<1>2. CASE SendFirst(c)
  <2> DEFINE missed == IF AnswerLeft(c) THEN unheard ELSE unheard \cup {c}
  <2>1. c \in Requests /\ missed \in SUBSET Commands /\ Write(c, missed)
    BY <1>2, KindsOfFlags DEF SendFirst, TypeOK
  <2> HIDE DEF missed
  <2>2. /\ owes' \subseteq Requests
        /\ unheard' \subseteq Commands
        /\ faults' \in 0 .. FaultLimit
    BY <2>1, WriteTyped
  <2> QED
    BY <1>2, <2>2 DEF SendFirst, TypeOK
<1>3. CASE SendFails(c)
  BY <1>3, FaultTyped DEF SendFails, TypeOK
<1>4. CASE ActivateRetry(c)
  BY <1>4, BoundsAreNaturals DEF ActivateRetry, TypeOK
<1> QED
  BY <1>1, <1>2, <1>3, <1>4 DEF MqttThread

\* The task thread keeps the state typed.
LEMMA TaskThreadTyped ==
    ASSUME TypeOK, TaskThread
    PROVE  TypeOK'
<1> USE DEF protocolVars, controllerVars, threadVars, ccuVars
<1>1. CASE NoticeTimeout
  BY <1>1 DEF NoticeTimeout, TypeOK
<1>2. CASE DropRetries
  BY <1>2, BoundsAreNaturals DEF DropRetries, TypeOK
<1>3. CASE ResetAllLongFrameContexts
  <2>1. NoContext \in Contexts
    BY FrameAssumption DEF NoContext, Contexts
  <2> QED
    BY <1>3, <2>1 DEF ResetAllLongFrameContexts, TypeOK
<1>4. CASE NoticeRecovery
  BY <1>4 DEF NoticeRecovery, TypeOK
<1>5. CASE AskHandshake
  <2>1. Wanted \in Requests /\ unheard \in SUBSET Commands
    BY <1>5, KindsOfFlags DEF AskHandshake, Wanted, TypeOK
  <2>2. /\ owes' \subseteq Requests
        /\ unheard' \subseteq Commands
        /\ faults' \in 0 .. FaultLimit
    BY <1>5, <2>1, WriteTyped DEF AskHandshake
  <2> QED
    BY <1>5, <2>2 DEF AskHandshake, TypeOK
<1>6. CASE TakeHandshake
  <2>1. Wanted = "version" \/ Wanted = "param"
    BY <1>6, KindsOfFlags DEF TakeHandshake, Wanted, TypeOK
  <2>2. shake' \in [version : BOOLEAN, param : BOOLEAN]
    BY <1>6, <2>1 DEF TakeHandshake, TypeOK
  <2> QED
    BY <1>6, <2>2 DEF TakeHandshake, TypeOK
<1>7. ASSUME NEW c \in Commands, Resend(c) PROVE TypeOK'
  <2>1. c \in Requests /\ unheard \in SUBSET Commands
    BY KindsOfFlags DEF TypeOK
  <2>2. /\ owes' \subseteq Requests
        /\ unheard' \subseteq Commands
        /\ faults' \in 0 .. FaultLimit
    BY <1>7, <2>1, WriteTyped DEF Resend
  <2>3. retry' \in [Commands -> 0 .. Resends + 1]
    BY <1>7, BoundsAreNaturals DEF Resend, TypeOK
  <2> QED
    BY <1>7, <2>2, <2>3 DEF Resend, TypeOK
<1>8. ASSUME NEW c \in Commands, GiveUp(c) PROVE TypeOK'
  BY <1>8, BoundsAreNaturals DEF GiveUp, TypeOK
<1> QED
  BY <1>1, <1>2, <1>3, <1>4, <1>5, <1>6, <1>7, <1>8 DEF TaskThread

\* The receive thread keeps the state typed.
LEMMA ReceiveThreadTyped ==
    ASSUME TypeOK, ReceiveThread
    PROVE  TypeOK'
<1> USE DEF protocolVars, controllerVars, ccuVars
<1>1. ASSUME rx' = IF Tests = <<>> THEN 0 ELSE 1 PROVE rx' \in 0 .. Len(Tests)
  BY <1>1, TestsAreKinds, TestsAssumption
<1>2. CASE HeartbeatArrives
  BY <1>1, <1>2 DEF HeartbeatArrives, TypeOK
<1>3. ASSUME NEW c \in Requests, ResponseArrives(c) PROVE TypeOK'
  BY <1>1, <1>3 DEF ResponseArrives, TypeOK
<1>4. ASSUME NEW k \in Completions, FrameArrives(k) PROVE TypeOK'
  <2>1. ContextAfter(k) \in Contexts
    BY ContextTyped
  <2>2. NextFrame(k) \in 1 .. FrameCount
    BY FrameAssumption DEF NextFrame, TypeOK
  <2>3. 1 \in 0 .. Len(Tests)
    BY TestsAssumption DEF Completions, Range
  <2>4. number[k] \in Numbers /\ 0 \in Numbers
    BY BoundsAreNaturals DEF TypeOK, Numbers
  <2>5. /\ valid' \subseteq Requests \cup Completions
        /\ data' \in [Completions -> Numbers]
        /\ rx' \in 0 .. Len(Tests)
    BY <1>4, <2>3, <2>4 DEF FrameArrives, TypeOK
  <2> QED
    BY <1>4, <2>1, <2>2, <2>5 DEF FrameArrives, TypeOK
<1>5. ASSUME NEW k \in Completions, Acknowledge(k) PROVE TypeOK'
  <2>1. rx' \in 0 .. Len(Tests)
    BY <1>5, RxTyped DEF Acknowledge, TypeOK
  <2>2. faults' \in 0 .. FaultLimit
    BY <1>5, FaultTyped DEF Acknowledge, TypeOK
  <2> QED
    BY <1>5, <2>1, <2>2 DEF Acknowledge, TypeOK
<1>6. ASSUME NEW c \in Commands, SeeAnswer(c) PROVE TypeOK'
  BY <1>6 DEF SeeAnswer, TypeOK
<1>7. ASSUME NEW c \in Commands, SeeNoAnswer(c) PROVE TypeOK'
  <2>1. rx' \in 0 .. Len(Tests)
    BY <1>7, RxTyped DEF SeeNoAnswer, TypeOK
  <2> QED
    BY <1>7, <2>1 DEF SeeNoAnswer, TypeOK
<1>8. ASSUME NEW c \in Commands, StopRetry(c) PROVE TypeOK'
  <2>1. rx' \in 0 .. Len(Tests)
    BY <1>8, RxTyped DEF StopRetry, TypeOK
  <2> QED
    BY <1>8, <2>1, BoundsAreNaturals DEF StopRetry, TypeOK
<1> QED
  BY <1>2, <1>3, <1>4, <1>5, <1>6, <1>7, <1>8 DEF ReceiveThread

\* The main loop keeps the state typed.
LEMMA MainLoopTyped ==
    ASSUME TypeOK, MainLoop
    PROVE  TypeOK'
<1> USE DEF protocolVars, controllerVars, ccuVars
<1>1. CASE ClearFlag
  BY <1>1 DEF ClearFlag, TypeOK
<1>2. ASSUME NEW k \in Range(Tests), Publish(k) PROVE TypeOK'
  BY <1>2 DEF Publish, TypeOK
<1> QED
  BY <1>1, <1>2 DEF MainLoop

\* The CCU, the bus and time keep the state typed.
LEMMA SurroundingsTyped ==
    ASSUME TypeOK, Surroundings
    PROVE  TypeOK'
<1> USE DEF protocolVars, controllerVars, threadVars, ccuVars
<1>1. ASSUME NEW k \in Completions, CcuCompletes(k) PROVE TypeOK'
  BY <1>1, BoundsAreNaturals DEF CcuCompletes, TypeOK, Numbers
<1>2. ASSUME NEW k \in Completions, FrameIsLost(k) PROVE TypeOK'
  <2>1. NextFrame(k) \in 1 .. FrameCount
    BY FrameAssumption DEF NextFrame, TypeOK
  <2> QED
    BY <1>2, <2>1, FaultTyped DEF FrameIsLost, TypeOK
<1>3. ASSUME NEW k \in Completions, PacketTimeout(k) PROVE TypeOK'
  <2>1. context' \in [Completions -> Contexts]
    BY <1>3 DEF PacketTimeout, TypeOK, Contexts
  <2> QED
    BY <1>3, <2>1 DEF PacketTimeout, TypeOK
<1>4. ASSUME NEW c \in Requests, ResponseIsLost(c) PROVE TypeOK'
  BY <1>4, FaultTyped DEF ResponseIsLost, TypeOK
<1>5. CASE BusBreaks
  BY <1>5, BoundsAreNaturals DEF BusBreaks, TypeOK
<1>6. CASE BusHeals
  BY <1>6 DEF BusHeals, TypeOK
<1>7. CASE HeartbeatsMissing
  BY <1>7 DEF HeartbeatsMissing, TypeOK
<1> QED
  BY <1>1, <1>2, <1>3, <1>4, <1>5, <1>6, <1>7 DEF Surroundings

\* Every step keeps the state typed.
LEMMA TypeStep == TypeOK /\ [Next]_vars => TypeOK'
<1> SUFFICES ASSUME TypeOK, [Next]_vars PROVE TypeOK'
  OBVIOUS
<1>1. CASE UNCHANGED vars
  BY <1>1 DEF vars, protocolVars, controllerVars, threadVars, ccuVars, TypeOK
<1>2. CASE Next
  BY <1>2, MqttThreadTyped, TaskThreadTyped, ReceiveThreadTyped, MainLoopTyped,
     SurroundingsTyped DEF Next
<1> QED
  BY <1>1, <1>2

\* The four threads keep the controller's data typed, and the receive thread is at one of
\* its tests.
THEOREM ControllerTyped == Spec => []TypeOK
  BY TypeInit, TypeStep, PTL DEF Spec

-----------------------------------------------------------------------------
(* Completions.                                                            *)

\* What AckedIsPublished rests on: the data of a flagged completion are those of the CCU's
\* last, and the main loop clears a flag when it has published just these.
CompletionInv ==
    \A k \in Completions :
        /\ k \in valid => data[k] = number[k]
        /\ clearing = k => published[k] = number[k]
        /\ acked[k] => published[k] = number[k] \/ k \in valid

\* The invariant of the completions holds at the start.
LEMMA CompletionInit == Init => CompletionInv
  BY KindsOfFlags DEF Init, CompletionInv

\* Every step keeps it.
LEMMA CompletionStep == TypeOK /\ CompletionInv /\ [Next]_vars => CompletionInv'
<1> SUFFICES ASSUME TypeOK, CompletionInv, [Next]_vars
             PROVE  CompletionInv'
  OBVIOUS
<1> USE KindsOfFlags
<1> USE DEF CompletionInv, protocolVars, controllerVars, threadVars, ccuVars
<1>1. CASE UNCHANGED vars
  BY <1>1 DEF vars
<1>2. ASSUME NEW c \in Commands, MqttThread(c) PROVE CompletionInv'
  BY <1>2 DEF MqttThread, Call, SendFirst, SendFails, ActivateRetry
<1>3. CASE TaskThread
  BY <1>3 DEF TaskThread, NoticeTimeout, DropRetries, ResetAllLongFrameContexts,
              NoticeRecovery, AskHandshake, TakeHandshake, Resend, GiveUp
<1>4. CASE HeartbeatArrives
  BY <1>4 DEF HeartbeatArrives
<1>5. ASSUME NEW c \in Requests, ResponseArrives(c) PROVE CompletionInv'
  BY <1>5 DEF ResponseArrives
<1>6. ASSUME NEW k \in Completions, FrameArrives(k) PROVE CompletionInv'
  <2>1. CASE Complete(k)
    <3>1. valid' = valid \cup {k} /\ data' = [data EXCEPT ![k] = number[k]]
      BY <1>6, <2>1 DEF FrameArrives, Complete
    <3> QED
      BY <1>6, <3>1 DEF FrameArrives, TypeOK
  <2>2. CASE ~Complete(k)
    BY <1>6, <2>2 DEF FrameArrives
  <2> QED
    BY <2>1, <2>2
<1>7. ASSUME NEW k \in Completions, Acknowledge(k) PROVE CompletionInv'
  <2>1. \/ k \in valid /\ acked' = [acked EXCEPT ![k] = TRUE]
        \/ acked' = acked
    BY <1>7 DEF Acknowledge
  <2> QED
    BY <1>7, <2>1 DEF Acknowledge, TypeOK
<1>8. ASSUME NEW c \in Commands, SeeAnswer(c) \/ SeeNoAnswer(c) \/ StopRetry(c)
      PROVE  CompletionInv'
  BY <1>8 DEF SeeAnswer, SeeNoAnswer, StopRetry
<1>9. CASE ClearFlag
  BY <1>9 DEF ClearFlag
<1>10. ASSUME NEW k \in Range(Tests), Publish(k) PROVE CompletionInv'
  BY <1>10 DEF Publish, TypeOK
<1>11. ASSUME NEW k \in Completions, CcuCompletes(k) PROVE CompletionInv'
  BY <1>11 DEF CcuCompletes, TypeOK
<1>12. ASSUME NEW k \in Completions, FrameIsLost(k) \/ PacketTimeout(k)
       PROVE  CompletionInv'
  BY <1>12 DEF FrameIsLost, PacketTimeout
<1>13. ASSUME NEW c \in Requests, ResponseIsLost(c) PROVE CompletionInv'
  BY <1>13 DEF ResponseIsLost
<1>14. CASE BusBreaks \/ BusHeals \/ HeartbeatsMissing
  BY <1>14 DEF BusBreaks, BusHeals, HeartbeatsMissing
<1> QED
  BY <1>1, <1>2, <1>3, <1>4, <1>5, <1>6, <1>7, <1>8, <1>9, <1>10, <1>11, <1>12, <1>13,
     <1>14 DEF Next, ReceiveThread, MainLoop, Surroundings

\* What the CCU sends no more has been published to tcu_logic, or is flagged for the main
\* loop with its data unharmed, whatever order the threads take.
THEOREM AcknowledgedPublished == Spec => []AckedIsPublished
<1>1. TypeOK /\ CompletionInv => AckedIsPublished
  BY DEF CompletionInv, AckedIsPublished
<1> QED
  BY <1>1, TypeInit, TypeStep, CompletionInit, CompletionStep, PTL DEF Spec

-----------------------------------------------------------------------------
(* The handshake.                                                          *)

\* What StartAfterHandshake rests on: both halves of the handshake rest on an answer whose
\* flag nobody clears, and a start that has passed the test rests on both.
HandshakeInv ==
    /\ shake["version"] => "version" \in valid
    /\ shake["param"] => "param" \in valid
    /\ call = <<"send", "start">> => "version" \in valid /\ "param" \in valid

\* No flag of the handshake is ever cleared.
LEMMA FlagsStay ==
    ASSUME TypeOK, [Next]_vars
    PROVE  {"version", "param"} \cap valid \subseteq valid'
<1> USE KindsOfFlags
<1> USE DEF protocolVars, controllerVars, threadVars, ccuVars
<1>1. CASE UNCHANGED vars
  BY <1>1 DEF vars
<1>2. ASSUME NEW c \in Commands, MqttThread(c)
      PROVE  valid \subseteq valid' \cup {"power"}
  BY <1>2 DEF MqttThread, Call, SendFirst, SendFails, ActivateRetry
<1>3. ASSUME TaskThread PROVE valid' = valid
  BY <1>3 DEF TaskThread, NoticeTimeout, DropRetries, ResetAllLongFrameContexts,
              NoticeRecovery, AskHandshake, TakeHandshake, Resend, GiveUp
<1>4. ASSUME ReceiveThread PROVE valid \subseteq valid'
  BY <1>4 DEF ReceiveThread, HeartbeatArrives, ResponseArrives, FrameArrives, Acknowledge,
              SeeAnswer, SeeNoAnswer, StopRetry
<1>5. ASSUME MainLoop PROVE valid' = valid \/ valid' = valid \ {clearing}
  BY <1>5 DEF MainLoop, ClearFlag, Publish
<1>6. clearing # "version" /\ clearing # "param"
  BY DEF TypeOK
<1>7. ASSUME Surroundings PROVE valid' = valid
  BY <1>7 DEF Surroundings, CcuCompletes, FrameIsLost, PacketTimeout, ResponseIsLost,
              BusBreaks, BusHeals, HeartbeatsMissing
<1> QED
  BY <1>1, <1>2, <1>3, <1>4, <1>5, <1>6, <1>7 DEF Next

\* The invariant of the handshake holds at the start.
LEMMA HandshakeInit == Init => HandshakeInv
  BY DEF Init, HandshakeInv, NoCall

\* Every step keeps it.
LEMMA HandshakeStep == TypeOK /\ HandshakeInv /\ [Next]_vars => HandshakeInv'
<1> SUFFICES ASSUME TypeOK, HandshakeInv, [Next]_vars
             PROVE  HandshakeInv'
  OBVIOUS
<1> USE KindsOfFlags, FlagsStay
<1> USE DEF HandshakeInv, protocolVars, controllerVars, threadVars, ccuVars
<1>1. CASE UNCHANGED vars
  BY <1>1 DEF vars
<1>2. ASSUME NEW c \in Commands, MqttThread(c) PROVE HandshakeInv'
  BY <1>2 DEF MqttThread, Call, SendFirst, SendFails, ActivateRetry, NoCall
<1>3. CASE NoticeTimeout
  BY <1>3 DEF NoticeTimeout
<1>4. CASE TakeHandshake
  <2>1. Wanted = "version" \/ Wanted = "param"
    BY <1>4 DEF TakeHandshake, Wanted, TypeOK
  <2>2. CASE Wanted = "version"
    BY <1>4, <2>2 DEF TakeHandshake, TypeOK
  <2>3. CASE Wanted = "param"
    BY <1>4, <2>3 DEF TakeHandshake, TypeOK
  <2> QED
    BY <2>1, <2>2, <2>3
<1>5. CASE \/ DropRetries \/ ResetAllLongFrameContexts \/ NoticeRecovery \/ AskHandshake
           \/ \E c \in Commands : Resend(c) \/ GiveUp(c)
  BY <1>5 DEF DropRetries, ResetAllLongFrameContexts, NoticeRecovery, AskHandshake,
              Resend, GiveUp
<1>6. CASE ReceiveThread
  BY <1>6 DEF ReceiveThread, HeartbeatArrives, ResponseArrives, FrameArrives, Acknowledge,
              SeeAnswer, SeeNoAnswer, StopRetry
<1>7. CASE MainLoop
  BY <1>7 DEF MainLoop, ClearFlag, Publish
<1>8. CASE Surroundings
  BY <1>8 DEF Surroundings, CcuCompletes, FrameIsLost, PacketTimeout, ResponseIsLost,
              BusBreaks, BusHeals, HeartbeatsMissing
<1> QED
  BY <1>1, <1>2, <1>3, <1>4, <1>5, <1>6, <1>7, <1>8 DEF Next, TaskThread

\* A start is written only to a CCU that has answered both requests of the handshake,
\* wherever a break of the bus falls between the test and the write.
THEOREM StartNeedsHandshake == Spec => StartAfterHandshake
<1>1. TypeOK /\ HandshakeInv /\ [Next]_vars
      => [call[1] = "send" /\ call[2] = "start" /\ call'[1] = "activate"
             => {"version", "param"} \subseteq valid]_vars
  BY DEF TypeOK, HandshakeInv, Calls, NoCall
<1> QED
  BY <1>1, TypeInit, TypeStep, HandshakeInit, HandshakeStep, PTL
     DEF Spec, StartAfterHandshake

-----------------------------------------------------------------------------
(* Commands.                                                               *)

\* What ResendsAreMade rests on: of a command counted as unheard no answer is due, flagged
\* or seen.
UnheardInv == \A c \in unheard : ~AnswerLeft(c)

\* A write keeps the invariant: the CCU owes an answer to what it has heard.
LEMMA WriteUnheard ==
    ASSUME UnheardInv, NEW c, Write(c, unheard), valid' = valid, ending' = ending
    PROVE  UnheardInv'
  BY DEF UnheardInv, AnswerLeft, Write

\* The invariant of the commands holds at the start.
LEMMA UnheardInit == Init => UnheardInv
  BY DEF Init, UnheardInv

\* Every step keeps it.
LEMMA UnheardStep == TypeOK /\ UnheardInv /\ [Next]_vars => UnheardInv'
<1> SUFFICES ASSUME TypeOK, UnheardInv, [Next]_vars
             PROVE  UnheardInv'
  OBVIOUS
<1> USE KindsOfFlags
<1> USE DEF UnheardInv, AnswerLeft, protocolVars, controllerVars, threadVars, ccuVars
<1>1. CASE UNCHANGED vars
  BY <1>1 DEF vars
<1>2. ASSUME NEW c \in Commands, MqttThread(c) PROVE UnheardInv'
  <2>1. CASE SendFirst(c)
    BY <2>1 DEF SendFirst, Write
  <2> QED
    BY <1>2, <2>1 DEF MqttThread, Call, SendFails, ActivateRetry
<1>3. CASE TaskThread
  <2>1. CASE AskHandshake
    BY <2>1, WriteUnheard DEF AskHandshake
  <2>2. ASSUME NEW c \in Commands, Resend(c) PROVE UnheardInv'
    BY <2>2, WriteUnheard DEF Resend
  <2>3. ASSUME NEW c \in Commands, GiveUp(c) PROVE UnheardInv'
    BY <2>3 DEF GiveUp
  <2> QED
    BY <1>3, <2>1, <2>2, <2>3
       DEF TaskThread, NoticeTimeout, DropRetries, ResetAllLongFrameContexts,
           NoticeRecovery, TakeHandshake
<1>4. CASE ReceiveThread
  <2>1. ASSUME NEW k \in Completions, FrameArrives(k) PROVE UnheardInv'
    <3>1. /\ valid' \subseteq valid \cup {k} /\ k \notin Commands
          /\ owes' = owes /\ unheard' = unheard /\ ending' = ending
      BY <2>1 DEF FrameArrives
    <3> QED
      BY <3>1 DEF TypeOK
  <2>2. ASSUME NEW k \in Completions, Acknowledge(k) PROVE UnheardInv'
    BY <2>2 DEF Acknowledge
  <2>3. ASSUME NEW c \in Requests, ResponseArrives(c) PROVE UnheardInv'
    BY <2>3 DEF ResponseArrives
  <2>4. ASSUME NEW c \in Commands, SeeAnswer(c) \/ SeeNoAnswer(c) \/ StopRetry(c)
        PROVE  UnheardInv'
    BY <2>4 DEF SeeAnswer, SeeNoAnswer, StopRetry, TypeOK
  <2>5. CASE HeartbeatArrives
    BY <2>5 DEF HeartbeatArrives
  <2> QED
    BY <1>4, <2>1, <2>2, <2>3, <2>4, <2>5 DEF ReceiveThread
<1>5. CASE MainLoop
  BY <1>5 DEF MainLoop, ClearFlag, Publish
<1>6. CASE Surroundings
  BY <1>6 DEF Surroundings, CcuCompletes, FrameIsLost, PacketTimeout, ResponseIsLost,
              BusBreaks, BusHeals, HeartbeatsMissing
<1> QED
  BY <1>1, <1>2, <1>3, <1>4, <1>5, <1>6 DEF Next

\* A step that ends the resending of a command leaves it counted as unheard only when its
\* resends are used up.
LEMMA ResendStep ==
    ASSUME TypeOK, UnheardInv, [Next]_vars,
           NEW c \in Commands, c \in unheard, c \in unheard', retry[c] > 1
    PROVE  retry'[c] > 0
<1> USE BoundsAreNaturals
<1> USE DEF protocolVars, controllerVars, threadVars, ccuVars
<1>1. retry \in [Commands -> 0 .. Resends + 1]
  BY DEF TypeOK
<1>2. CASE retry' = retry
  BY <1>1, <1>2
<1>3. ASSUME NEW d \in Commands, ActivateRetry(d) PROVE retry'[c] > 0
  BY <1>1, <1>3 DEF ActivateRetry
<1>4. ASSUME NEW d \in Commands, Resend(d) PROVE retry'[c] > 0
  BY <1>1, <1>4 DEF Resend
<1>5. ASSUME NEW d \in Commands, GiveUp(d) PROVE retry'[c] > 0
  BY <1>1, <1>5 DEF GiveUp
<1>6. ASSUME NEW d \in Commands, StopRetry(d) PROVE retry'[c] > 0
  BY <1>1, <1>6 DEF StopRetry, UnheardInv, AnswerLeft
<1>7. ~DropRetries
  BY DEF DropRetries
<1>8. \/ retry' = retry
      \/ \E d \in Commands : ActivateRetry(d) \/ Resend(d) \/ GiveUp(d) \/ StopRetry(d)
  <2>1. CASE UNCHANGED vars
    BY <2>1 DEF vars
  <2>2. ASSUME NEW d \in Commands, MqttThread(d) PROVE retry' = retry \/ ActivateRetry(d)
    BY <2>2 DEF MqttThread, Call, SendFirst, SendFails
  <2>3. CASE TaskThread
    BY <2>3, <1>7 DEF TaskThread, NoticeTimeout, ResetAllLongFrameContexts,
                      NoticeRecovery, AskHandshake, TakeHandshake
  <2>4. CASE ReceiveThread
    BY <2>4 DEF ReceiveThread, HeartbeatArrives, ResponseArrives, FrameArrives,
                Acknowledge, SeeAnswer, SeeNoAnswer
  <2>5. CASE MainLoop
    BY <2>5 DEF MainLoop, ClearFlag, Publish
  <2>6. CASE Surroundings
    BY <2>6 DEF Surroundings, CcuCompletes, FrameIsLost, PacketTimeout, ResponseIsLost,
                BusBreaks, BusHeals, HeartbeatsMissing
  <2> QED
    BY <2>1, <2>2, <2>3, <2>4, <2>5, <2>6 DEF Next
<1> QED
  BY <1>2, <1>3, <1>4, <1>5, <1>6, <1>8

\* Whatever the receive thread decodes or has seen, and whatever is commanded besides, a
\* command the CCU has not heard is resent while resends are left.
THEOREM UnheardIsResent == Spec => ResendsAreMade
<1>1. TypeOK /\ UnheardInv /\ [Next]_vars
      => [\A c \in Commands :
             c \in unheard \cap unheard' /\ retry[c] > 1 => retry'[c] > 0]_vars
  BY ResendStep
<1> QED
  BY <1>1, TypeInit, TypeStep, UnheardInit, UnheardStep, PTL DEF Spec, ResendsAreMade

=============================================================================
