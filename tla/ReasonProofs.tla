----------------------------- MODULE ReasonProofs -----------------------------
(***************************************************************************)
(* Proofs that a stop that has a reason keeps one with its order, that a   *)
(* free gun is clean, that energy that no longer runs up is on record, and *)
(* that orders open in PREPARE, for every number of guns.  The lemmas      *)
(* follow the definitions of GunMachine, ChargeSession and ChargeLogic     *)
(* with a relation between the data before and after that composes,        *)
(* "Keeps" in the first part and "Tidies" in the second: every handler     *)
(* keeps the reason, or is tidy, because each of its calls is.             *)
(***************************************************************************)
EXTENDS ChargeLogicProofs

\* From session record o to q the order stays, and with it that it has a reason, or goes, or
\* is replaced by one that was not issued before.
Follows(o, q) ==
    /\ q.issued >= o.issued
    /\ \/ q.order = o.order /\ (o.reason # "none" => q.reason # "none")
       \/ q.order = 0
       \/ o.issued < q.order /\ q.order <= q.issued

Keeps(s, t) ==
    /\ Sound(t)
    /\ \A h \in Guns : Follows(s.sess[h], t.sess[h])

\* No gun has an order it was not issued: what makes a new order's number new.
Ordered(s) == \A g \in Guns : s.sess[g].order <= s.sess[g].issued

\* Typed session records have numbers.
LEMMA SessNumbers ==
    ASSUME NEW s, Sound(s), NEW g \in Guns
    PROVE  /\ s \in Data
           /\ s.sess[g] \in SessRec
           /\ s.sess[g].issued \in Nat
           /\ s.sess[g].order \in Nat
  <1>1. s \in Data /\ s.sess[g] \in SessRec
    BY Parts DEF Sound
  <1> QED
    BY <1>1, BoundAssumption DEF SessRec, Orders

\* Data with the same session records keeps the reasons.
LEMMA SameSess ==
    ASSUME NEW s, Sound(s), NEW t, Sound(t), t.sess = s.sess
    PROVE  Keeps(s, t)
  BY SessNumbers DEF Keeps, Follows

\* Steps that keep the reasons compose.
LEMMA KeepsTrans ==
    ASSUME NEW s, Sound(s), NEW t, NEW u, Keeps(s, t), Keeps(t, u)
    PROVE  Keeps(s, u)
  <1> SUFFICES ASSUME NEW h \in Guns PROVE Follows(s.sess[h], u.sess[h])
    BY DEF Keeps
  <1>1. /\ s.sess[h].issued \in Nat /\ s.sess[h].order \in Nat
        /\ t.sess[h].issued \in Nat /\ t.sess[h].order \in Nat
        /\ u.sess[h].issued \in Nat /\ u.sess[h].order \in Nat
    BY SessNumbers DEF Keeps
  <1>2. Follows(s.sess[h], t.sess[h]) /\ Follows(t.sess[h], u.sess[h])
    BY DEF Keeps
  <1> QED
    BY <1>1, <1>2 DEF Follows

\* A new session record for one gun keeps the reasons if it follows the old one,
\* and changes of other parts at the same time do not matter.
LEMMA OneSess ==
    ASSUME NEW s, Sound(s), NEW t, Sound(t), NEW g \in Guns, NEW o,
           t.sess = [s.sess EXCEPT ![g] = o], Follows(s.sess[g], o)
    PROVE  Keeps(s, t)
  <1> SUFFICES ASSUME NEW h \in Guns PROVE Follows(s.sess[h], t.sess[h])
    BY DEF Keeps
  <1>1. s \in Data /\ s.sess[h].issued \in Nat /\ s.sess[h].order \in Nat
    BY SessNumbers
  <1>2. CASE h = g
    BY <1>1, <1>2 DEF Data
  <1>3. CASE h # g
    BY <1>1, <1>3 DEF Data, Follows
  <1> QED
    BY <1>2, <1>3

\* A record that follows: the same order, with no reason taken back.
LEMMA SameOrder ==
    ASSUME NEW o \in SessRec, NEW q, q.order = o.order, q.issued = o.issued,
           o.reason # "none" => q.reason # "none"
    PROVE  Follows(o, q)
  <1>1. o.issued \in Nat
    BY BoundAssumption DEF SessRec, Orders
  <1> QED
    BY <1>1 DEF Follows

-----------------------------------------------------------------------------
(* The reader and the transitions.                                         *)

\* The reader's part of the machine leaves the sessions alone.
LEMMA ReaderSess ==
    ASSUME NEW s \in Data
    PROVE  /\ ResetCardReaderState(s).sess = s.sess
           /\ CancelAutoCardWaiting(s).sess = s.sess
           /\ \A g, auto, ask : StartOfflineCardFlow(s, g, auto, ask).sess = s.sess
           /\ ReconcileAutoCardWaiting(s).sess = s.sess
  <1>1. ResetCardReaderState(s).sess = s.sess
    BY DEF ResetCardReaderState, Data
  <1>2. CancelAutoCardWaiting(s).sess = s.sess
    BY <1>1 DEF CancelAutoCardWaiting, Data
  <1>3. \A g, auto, ask : StartOfflineCardFlow(s, g, auto, ask).sess = s.sess
    BY DEF StartOfflineCardFlow, Data
  <1>4. ReconcileAutoCardWaiting(s).sess = s.sess
    BY <1>2, <1>3 DEF ReconcileAutoCardWaiting
  <1> QED
    BY <1>1, <1>2, <1>3, <1>4

\* Reconciling the reader keeps the reasons.
LEMMA ReconcileKeeps ==
    ASSUME NEW s, Sound(s)
    PROVE  Keeps(s, ReconcileAutoCardWaiting(s))
  <1>1. Sound(ReconcileAutoCardWaiting(s))
    BY ReconcileFact
  <1>2. ReconcileAutoCardWaiting(s).sess = s.sess
    BY ReaderSess DEF Sound
  <1> QED
    BY <1>1, <1>2, SameSess

\* The assignments of transitionTo keep them.
LEMMA MoveKeeps ==
    ASSUME NEW s, Sound(s), NEW g \in Guns, NEW to \in States
    PROVE  Keeps(s, Move(s, g, to))
  <1>1. Sound(Move(s, g, to))
    BY MovePuts DEF Puts
  <1>2. Move(s, g, to).sess = s.sess
    BY DEF Move, Sound, Data
  <1> QED
    BY <1>1, <1>2, SameSess

\* resetChargeSessionState drops the order with its reason.
LEMMA ResetKeeps ==
    ASSUME NEW s, Sound(s), NEW g \in Guns
    PROVE  Keeps(s, ResetChargeSessionState(s, g))
  <1> DEFINE o == [armed |-> FALSE, basis |-> FALSE, merge |-> FALSE,
                   order |-> 0, issued |-> s.sess[g].issued, lastCmd |-> 0,
                   precharge |-> 0, tcuStop |-> FALSE, reason |-> "none"]
             t == ResetChargeSessionState(s, g)
  <1>1. s \in Data /\ s.sess[g].issued \in Nat
    BY SessNumbers
  <1>2. Sound(t)
    BY <1>1, ResetFact, QuietSound
  <1>3. t.sess = [s.sess EXCEPT ![g] = o]
    BY <1>1 DEF ResetChargeSessionState, Data
  <1>4. Follows(s.sess[g], o)
    BY <1>1 DEF Follows
  <1> HIDE DEF o, t
  <1>5. Keeps(s, t)
    BY <1>2, <1>3, <1>4, OneSess
  <1> QED
    BY <1>5 DEF t

\* Closing a session books it and keeps the reason.
LEMMA CloseKeeps ==
    ASSUME NEW s, Sound(s), NEW g \in Guns
    PROVE  Keeps(s, CloseSession(s, g))
  <1> DEFINE t == LogTradeRecordOnStopped(s, g)
             u == PrepareOfflineCardSettlement(t, g)
  <1>1. s \in Data /\ t \in Data
    BY LogFact DEF Sound, Quiet
  <1>2. t.sess = s.sess
    BY <1>1 DEF LogTradeRecordOnStopped, Data
  <1>3. u = CloseSession(s, g)
    BY DEF CloseSession
  <1> HIDE DEF t
  <1>4. u.sess = t.sess
    BY <1>1 DEF PrepareOfflineCardSettlement, Data
  <1>5. Sound(CloseSession(s, g))
    BY <1>1, CloseFact, QuietSound
  <1> QED
    BY <1>2, <1>3, <1>4, <1>5, SameSess

\* Leaving for IDLE, and what belongs to a new state, keep the reasons.
LEMMA EnterKeeps ==
    ASSUME NEW s, Sound(s), NEW g \in Guns, NEW to \in States
    PROVE  Keeps(s, Enter(s, g, to))
  <1> DEFINE c == CloseSession(s, g)
             u == Move(c, g, "IDLE")
             v == ResetChargeSessionState(u, g)
             w == ReconcileAutoCardWaiting(v)
             e == Enter(s, g, to)
  <1>1. e \in {c, w, ResetChargeSessionState(s, g), s}
    BY DEF Enter, LeaveIfGone
  <1>2. "IDLE" \in States
    BY DEF States
  <1>3. Keeps(s, c)
    BY CloseKeeps
  <1> HIDE DEF c
  <1>4. Keeps(c, u)
    BY <1>2, <1>3, MoveKeeps DEF Keeps
  <1> HIDE DEF u
  <1>5. Keeps(u, v)
    BY <1>4, ResetKeeps DEF Keeps
  <1> HIDE DEF v
  <1>6. Keeps(v, w)
    BY <1>5, ReconcileKeeps DEF Keeps
  <1> HIDE DEF w, e
  <1>7. Keeps(s, u)
    BY <1>3, <1>4, KeepsTrans
  <1>8. Keeps(s, v)
    BY <1>5, <1>7, KeepsTrans
  <1>9. Keeps(s, w)
    BY <1>6, <1>8, KeepsTrans
  <1>10. Keeps(s, e)
    BY <1>1, <1>3, <1>9, ResetKeeps, SameSess
  <1> QED
    BY <1>10 DEF e

\* transitionTo keeps the reasons.
LEMMA TransitionKeeps ==
    ASSUME NEW s, Sound(s), NEW g \in Guns, NEW to \in States
    PROVE  Keeps(s, TransitionTo(s, g, to))
  <1> DEFINE u == Move(s, g, to)
             v == Enter(u, g, to)
             w == ReconcileAutoCardWaiting(v)
             t == TransitionTo(s, g, to)
  <1>1. t = IF s.gun[g].state = to THEN s ELSE w
    BY DEF TransitionTo
  <1>2. Keeps(s, u)
    BY MoveKeeps
  <1> HIDE DEF u
  <1>3. Keeps(u, v)
    BY <1>2, EnterKeeps DEF Keeps
  <1> HIDE DEF v
  <1>4. Keeps(v, w)
    BY <1>3, ReconcileKeeps DEF Keeps
  <1> HIDE DEF w, t
  <1>5. Keeps(s, v)
    BY <1>2, <1>3, KeepsTrans
  <1>6. Keeps(s, w)
    BY <1>4, <1>5, KeepsTrans
  <1>7. Keeps(s, t)
    BY <1>1, <1>6, SameSess
  <1> QED
    BY <1>7 DEF t

\* So does the first half of enterStopping.
LEMMA HaltKeeps ==
    ASSUME NEW s, Sound(s), NEW g \in Guns
    PROVE  Keeps(s, Halt(s, g))
  <1> DEFINE u == TransitionTo(s, g, "STOPPING")
             t == Halt(s, g)
  <1>1. Keeps(s, u)
    BY TransitionKeeps DEF States
  <1>2. t = [u EXCEPT !.gun[g] = [u.gun[g] EXCEPT !.gone = FALSE, !.stopSeen = FALSE,
                                                  !.sent = "stop_charge"],
                      !.meter[g].stable = 0]
    BY DEF Halt
  <1>3. Sound(t)
    BY HaltFact DEF Moves
  <1> HIDE DEF u, t
  <1>4. t.sess = u.sess
    BY <1>1, <1>2 DEF Keeps, Sound, Data
  <1>5. Keeps(u, t)
    BY <1>1, <1>3, <1>4, SameSess DEF Keeps
  <1>6. Keeps(s, t)
    BY <1>1, <1>5, KeepsTrans
  <1> QED
    BY <1>6 DEF t

\* And the whole of it, with the peer.
LEMMA EnterStoppingKeeps ==
    ASSUME NEW s, Sound(s), NEW g \in Guns
    PROVE  Keeps(s, EnterStopping(s, g))
  <1> DEFINE u == Halt(s, g)
             v == Halt(u, Peer(g))
             t == EnterStopping(s, g)
  <1>1. Keeps(s, u)
    BY HaltKeeps
  <1>2. t = u \/ (Peer(g) \in Guns /\ t = v)
    BY DEF EnterStopping, HaltPeer, MergedPair, HasPeer
  <1> HIDE DEF u, t
  <1>3. Peer(g) \in Guns => Keeps(u, v)
    BY <1>1, HaltKeeps DEF Keeps
  <1> HIDE DEF v
  <1>4. Keeps(s, t)
    BY <1>1, <1>2, <1>3, KeepsTrans
  <1> QED
    BY <1>4 DEF t

-----------------------------------------------------------------------------
(* handleEvent.                                                            *)

\* Disarming a start, or sending it, keeps the reasons.
LEMMA DisarmKeeps ==
    ASSUME NEW s, Sound(s), NEW g \in Guns
    PROVE  Keeps(s, Disarm(s, g)) /\ Keeps(s, SendArmedStart(s, g))
  <1> DEFINE o == [s.sess[g] EXCEPT !.armed = FALSE, !.lastCmd = 0]
             q == [s.sess[g] EXCEPT !.armed = FALSE, !.lastCmd = s.sess[g].order]
             d == Disarm(s, g)
             a == SendArmedStart(s, g)
  <1>1. s \in Data /\ s.sess[g] \in SessRec
    BY SessNumbers
  <1>2. Sound(d) /\ Sound(a)
    BY <1>1, DisarmFact, SendFact, QuietSound
  <1>3. d.sess = [s.sess EXCEPT ![g] = o]
    BY <1>1 DEF Disarm, Data
  <1>4. a.sess = s.sess \/ a.sess = [s.sess EXCEPT ![g] = q]
    BY <1>1 DEF SendArmedStart, Data
  <1>5. /\ o.order = s.sess[g].order
        /\ o.issued = s.sess[g].issued
        /\ o.reason = s.sess[g].reason
        /\ q.order = s.sess[g].order
        /\ q.issued = s.sess[g].issued
        /\ q.reason = s.sess[g].reason
    BY <1>1 DEF SessRec
  <1> HIDE DEF o, q, d, a
  <1>6. Follows(s.sess[g], o) /\ Follows(s.sess[g], q)
    BY <1>1, <1>5, SameOrder
  <1>7. Keeps(s, d)
    BY <1>2, <1>3, <1>6, OneSess
  <1>8. Keeps(s, a)
    BY <1>2, <1>4, <1>6, OneSess, SameSess
  <1> QED
    BY <1>7, <1>8 DEF d, a

\* Noting a stop of the logic's own, or withdrawing it, keeps them.
LEMMA TcuStopKeeps ==
    ASSUME NEW s, Sound(s), NEW g \in Guns, NEW b \in BOOLEAN
    PROVE  Keeps(s, [s EXCEPT !.sess[g].tcuStop = b])
  <1> DEFINE o == [s.sess[g] EXCEPT !.tcuStop = b]
             t == [s EXCEPT !.sess[g].tcuStop = b]
  <1>1. s \in Data /\ s.sess[g] \in SessRec
    BY SessNumbers
  <1>2. Sound(t)
    BY <1>1, TcuStopFact, QuietSound
  <1>3. t.sess = [s.sess EXCEPT ![g] = o]
    BY <1>1 DEF Data
  <1>4. o.order = s.sess[g].order /\ o.issued = s.sess[g].issued
        /\ o.reason = s.sess[g].reason
    BY <1>1 DEF SessRec
  <1> HIDE DEF o, t
  <1>5. Follows(s.sess[g], o)
    BY <1>1, <1>4, SameOrder
  <1>6. Keeps(s, t)
    BY <1>2, <1>3, <1>5, OneSess
  <1> QED
    BY <1>6 DEF t

\* Noting a reason keeps it.
LEMMA ReasonKeeps ==
    ASSUME NEW s, Sound(s), NEW g \in Guns, NEW b \in Reasons,
           s.sess[g].reason # "none" => b # "none"
    PROVE  Keeps(s, [s EXCEPT !.sess[g].reason = b])
  <1> DEFINE o == [s.sess[g] EXCEPT !.reason = b]
             t == [s EXCEPT !.sess[g].reason = b]
  <1>1. s \in Data /\ s.sess[g] \in SessRec
    BY SessNumbers
  <1>2. Sound(t)
    BY <1>1, ReasonFact, QuietSound
  <1>3. t.sess = [s.sess EXCEPT ![g] = o]
    BY <1>1 DEF Data
  <1>4. o.order = s.sess[g].order /\ o.issued = s.sess[g].issued /\ o.reason = b
    BY <1>1 DEF SessRec
  <1> HIDE DEF o, t
  <1>5. Follows(s.sess[g], o)
    BY <1>1, <1>4, SameOrder
  <1>6. Keeps(s, t)
    BY <1>2, <1>3, <1>5, OneSess
  <1> QED
    BY <1>6 DEF t

\* A gun's own flags do not matter to the reasons.
LEMMA FlagKeeps ==
    ASSUME NEW s, Sound(s), NEW g \in Guns, NEW r \in GunRec, r.state = s.gun[g].state
    PROVE  Keeps(s, [s EXCEPT !.gun[g] = r])
  <1> DEFINE t == [s EXCEPT !.gun[g] = r]
  <1>1. s \in Data
    BY DEF Sound
  <1>2. Sound(t)
    BY <1>1, QuietGun, QuietSound
  <1>3. t.sess = s.sess
    BY <1>1 DEF Data
  <1> HIDE DEF t
  <1>4. Keeps(s, t)
    BY <1>2, <1>3, SameSess
  <1> QED
    BY <1>4 DEF t

\* stopCompleteSeen, for one.
LEMMA StopSeenKeeps ==
    ASSUME NEW s, Sound(s), NEW g \in Guns
    PROVE  Keeps(s, [s EXCEPT !.gun[g].stopSeen = TRUE])
  <1> DEFINE r == [s.gun[g] EXCEPT !.stopSeen = TRUE]
  <1>1. r \in GunRec /\ r.state = s.gun[g].state
    BY Parts DEF Sound, GunRec
  <1>2. [s EXCEPT !.gun[g] = r] = [s EXCEPT !.gun[g].stopSeen = TRUE]
    OBVIOUS
  <1> HIDE DEF r
  <1>3. Keeps(s, [s EXCEPT !.gun[g] = r])
    BY <1>1, FlagKeeps
  <1> QED
    BY <1>2, <1>3

\* Every state keeps the reasons under every event.
LEMMA StatesKeep ==
    ASSUME NEW s, Sound(s), NEW g \in Guns, NEW e
    PROVE  /\ Keeps(s, OnIdle(s, g, e))
           /\ Keeps(s, OnPrepare(s, g, e))
           /\ Keeps(s, OnStarting(s, g, e))
           /\ Keeps(s, OnCharging(s, g, e))
           /\ Keeps(s, OnStopping(s, g, e))
           /\ Keeps(s, OnStopped(s, g, e))
           /\ Keeps(s, OnError(s, g, e))
  <1> DEFINE d == Disarm(s, g)
             a == SendArmedStart(s, g)
             no == FALSE
             c == [s EXCEPT !.sess[g].tcuStop = no]
             x == EnterStopping(s, g)
             y == [x EXCEPT !.gun[g].stopSeen = TRUE]
  <1>0. no \in BOOLEAN
    OBVIOUS
  <1>1. \A to \in States : Keeps(s, TransitionTo(s, g, to))
    BY TransitionKeeps
  <1>2. /\ "PREPARE" \in States /\ "ERROR" \in States /\ "IDLE" \in States
        /\ "STOPPED" \in States /\ "STARTING" \in States /\ "CHARGING" \in States
    BY DEF States
  <1>3. Keeps(s, s)
    BY SameSess
  <1>4. Keeps(s, [s EXCEPT !.gun[g].stopSeen = TRUE])
    BY StopSeenKeeps
  <1>5. Keeps(s, OnIdle(s, g, e))
    BY <1>1, <1>2, <1>3 DEF OnIdle
  <1>6. Keeps(s, OnStopping(s, g, e))
    BY <1>1, <1>2, <1>3, <1>4 DEF OnStopping
  <1>7. Keeps(s, OnStopped(s, g, e)) /\ Keeps(s, OnError(s, g, e))
    BY <1>1, <1>2, <1>3 DEF OnStopped, OnError
  <1>8. \/ OnPrepare(s, g, e) = TransitionTo(a, g, "STARTING")
        \/ OnPrepare(s, g, e) = d
        \/ OnPrepare(s, g, e) = TransitionTo(d, g, "IDLE")
        \/ OnPrepare(s, g, e) = TransitionTo(s, g, "ERROR")
        \/ OnPrepare(s, g, e) = s
    BY DEF OnPrepare
  <1>9. \/ OnStarting(s, g, e) = TransitionTo(c, g, "CHARGING")
        \/ OnStarting(s, g, e) = x
        \/ OnStarting(s, g, e) = TransitionTo(s, g, "IDLE")
        \/ OnStarting(s, g, e) = s
    BY DEF OnStarting
  <1>10. OnCharging(s, g, e) \in {y, x, s}
    BY DEF OnCharging
  <1>11. Keeps(s, d) /\ Keeps(s, a)
    BY DisarmKeeps
  <1> HIDE DEF no
  <1>12. Keeps(s, c)
    BY <1>0, TcuStopKeeps
  <1>13. Keeps(s, x)
    BY EnterStoppingKeeps
  <1> HIDE DEF d, a, c, x
  <1>14. Keeps(x, y)
    BY <1>13, StopSeenKeeps DEF Keeps
  <1> HIDE DEF y
  <1>15. /\ Keeps(a, TransitionTo(a, g, "STARTING"))
         /\ Keeps(d, TransitionTo(d, g, "IDLE"))
         /\ Keeps(c, TransitionTo(c, g, "CHARGING"))
    BY <1>2, <1>11, <1>12, TransitionKeeps DEF Keeps
  <1>16. /\ Keeps(s, TransitionTo(a, g, "STARTING"))
         /\ Keeps(s, TransitionTo(d, g, "IDLE"))
         /\ Keeps(s, TransitionTo(c, g, "CHARGING"))
         /\ Keeps(s, y)
    BY <1>11, <1>12, <1>13, <1>14, <1>15, KeepsTrans
  <1>17. Keeps(s, OnPrepare(s, g, e))
    BY <1>1, <1>2, <1>3, <1>8, <1>11, <1>16
  <1>18. Keeps(s, OnStarting(s, g, e))
    BY <1>1, <1>2, <1>3, <1>9, <1>13, <1>16
  <1>19. Keeps(s, OnCharging(s, g, e))
    BY <1>3, <1>10, <1>13, <1>16
  <1> QED
    BY <1>5, <1>6, <1>7, <1>17, <1>18, <1>19

\* The state machine keeps the reasons.
LEMMA EventKeeps ==
    ASSUME NEW s, Sound(s), NEW g \in Guns, NEW e
    PROVE  Keeps(s, HandleEvent(s, g, e))
  BY StatesKeep DEF HandleEvent

\* So does an event after a change that keeps them.
LEMMA KeepsThenEvent ==
    ASSUME NEW s, Sound(s), NEW t, Keeps(s, t), NEW g \in Guns, NEW e
    PROVE  Keeps(s, HandleEvent(t, g, e))
  <1>1. Keeps(t, HandleEvent(t, g, e))
    BY EventKeeps DEF Keeps
  <1> QED
    BY <1>1, KeepsTrans

-----------------------------------------------------------------------------
(* Orders and starts.                                                      *)

\* Setting the prepaid amount keeps the reasons.
LEMMA PrechargeKeeps ==
    ASSUME NEW s, Sound(s), NEW g \in Guns, NEW x \in Readings
    PROVE  Keeps(s, [s EXCEPT !.sess[g].precharge = x])
  <1> DEFINE o == [s.sess[g] EXCEPT !.precharge = x]
             t == [s EXCEPT !.sess[g].precharge = x]
  <1>1. s \in Data /\ s.sess[g] \in SessRec
    BY SessNumbers
  <1>2. Sound(t)
    BY <1>1, PrechargeFact, QuietSound
  <1>3. t.sess = [s.sess EXCEPT ![g] = o]
    BY <1>1 DEF Data
  <1>4. o.order = s.sess[g].order /\ o.issued = s.sess[g].issued
        /\ o.reason = s.sess[g].reason
    BY <1>1 DEF SessRec
  <1> HIDE DEF o, t
  <1>5. Follows(s.sess[g], o)
    BY <1>1, <1>4, SameOrder
  <1>6. Keeps(s, t)
    BY <1>2, <1>3, <1>5, OneSess
  <1> QED
    BY <1>6 DEF t

\* Settling a pair on the smaller amount keeps them.
LEMMA SyncKeeps ==
    ASSUME NEW s, Sound(s), NEW g \in Guns
    PROVE  Keeps(s, SyncMergePrechargeAmount(s, g))
  <1> DEFINE p == Peer(g)
             x == Least(s.sess[g].precharge, s.sess[p].precharge)
             t == [s EXCEPT !.sess[g].precharge = x]
             u == [t EXCEPT !.sess[p].precharge = x]
             r == SyncMergePrechargeAmount(s, g)
  <1>1. r = s \/ (p \in Guns /\ r = u)
    BY DEF SyncMergePrechargeAmount, MergedPair, HasPeer
  <1>2. CASE r = s
    BY <1>2, SameSess
  <1>3. CASE p \in Guns /\ r = u
    <2>1. x \in Readings
      BY <1>3, SessNumbers DEF SessRec, Least
    <2> HIDE DEF x, p
    <2>2. Keeps(s, t)
      BY <2>1, PrechargeKeeps
    <2> HIDE DEF t
    <2>3. Keeps(t, u)
      BY <1>3, <2>1, <2>2, PrechargeKeeps DEF Keeps
    <2> HIDE DEF u, r
    <2>4. Keeps(s, r)
      BY <1>3, <2>2, <2>3, KeepsTrans
    <2> QED
      BY <2>4 DEF r
  <1> QED
    BY <1>1, <1>2, <1>3

\* A new order has a number its gun was not issued yet, and no reason: the old
\* order's went with it.
LEMMA ArmKeeps ==
    ASSUME NEW s, Sound(s), NEW g \in Guns, NEW c \in StartData,
           s.sess[g].issued < MaxOrder
    PROVE  Keeps(s, ArmPendingStart(s, g, c))
  <1> DEFINE o == [s.sess[g] EXCEPT !.basis = TRUE, !.merge = c.merge,
                                    !.order = s.sess[g].issued + 1,
                                    !.issued = s.sess[g].issued + 1,
                                    !.precharge = c.precharge,
                                    !.tcuStop = FALSE, !.reason = "none"]
             m == [s.meter[g] EXCEPT !.stable = 0, !.ready = c.model, !.based = FALSE,
                                     !.last = 0, !.total = 0]
             t == [s EXCEPT !.sess[g] = o, !.meter[g] = m]
             u == SyncMergePrechargeAmount(t, g)
             b == [u.sess[g] EXCEPT !.armed = TRUE]
             v == ArmPendingStart(s, g, c)
  <1>1. v = [u EXCEPT !.sess[g] = b]
    BY DEF ArmPendingStart, UpdateAuthBasis
  <1>2. /\ s \in Data /\ s.sess[g] \in SessRec /\ s.meter[g] \in MeterRec
        /\ s.sess[g].issued \in Nat
    BY SessNumbers, Parts
  <1>3. Sound(v)
    BY <1>2, ArmFact, QuietSound
  <1>4. o \in SessRec
    <2>1. s.sess[g].issued + 1 \in Orders
      BY <1>2, BoundAssumption DEF SessRec, Orders
    <2> QED
      BY <1>2, <2>1 DEF SessRec, StartData, Reasons
  <1>5. m \in MeterRec
    <2>1. 0 \in 0 .. 3 /\ 0 \in Readings /\ 0 \in Nat /\ c.model \in BOOLEAN
      BY BoundAssumption DEF Readings, StartData
    <2> QED
      BY <1>2, <2>1 DEF MeterRec
  <1>6. o.order = s.sess[g].issued + 1 /\ o.issued = s.sess[g].issued + 1
    BY <1>2 DEF SessRec
  <1> HIDE DEF o, m, v
  <1>7. Follows(s.sess[g], o)
    BY <1>2, <1>6 DEF Follows
  <1>8. Sound(t)
    BY <1>2, <1>4, <1>5, QuietSessMeter, QuietSound
  <1>9. t.sess = [s.sess EXCEPT ![g] = o]
    BY <1>2 DEF Data
  <1> HIDE DEF t
  <1>10. Keeps(s, t)
    BY <1>7, <1>8, <1>9, OneSess
  <1>11. Keeps(t, u)
    BY <1>8, SyncKeeps
  <1> HIDE DEF u
  <1>12. /\ u \in Data /\ u.sess[g] \in SessRec /\ Sound(u)
    BY <1>11, SessNumbers DEF Keeps
  <1>13. b.order = u.sess[g].order /\ b.issued = u.sess[g].issued
         /\ b.reason = u.sess[g].reason
    BY <1>12 DEF SessRec
  <1> HIDE DEF b
  <1>14. v.sess = [u.sess EXCEPT ![g] = b]
    BY <1>1, <1>12 DEF Data
  <1>15. Keeps(u, v)
    BY <1>3, <1>12, <1>13, <1>14, SameOrder, OneSess
  <1>16. Keeps(s, u)
    BY <1>10, <1>11, KeepsTrans
  <1>17. Keeps(s, v)
    BY <1>15, <1>16, KeepsTrans
  <1> QED
    BY <1>17 DEF v

\* Dispatching a merged pair keeps the reasons.
LEMMA TryDispatchKeeps ==
    ASSUME NEW s, Sound(s), NEW g \in Guns
    PROVE  Keeps(s, TryDispatchMergePendingStart(s, g))
  <1> DEFINE p == Peer(g)
             t == SyncMergePrechargeAmount(s, g)
             u == SyncMergePrechargeAmount(t, p)
             v == HandleEvent(u, g, "AUTH_OK")
             w == HandleEvent(v, p, "AUTH_OK")
             r == TryDispatchMergePendingStart(s, g)
  <1>1. r = s \/ (p \in Guns /\ r = w)
    BY DEF TryDispatchMergePendingStart, DispatchArmedStart, HasPeer
  <1>2. Keeps(s, t)
    BY SyncKeeps
  <1> HIDE DEF t, p, r
  <1>3. p \in Guns => Keeps(t, u)
    BY <1>2, SyncKeeps DEF Keeps
  <1> HIDE DEF u
  <1>4. p \in Guns => Keeps(s, u)
    BY <1>2, <1>3, KeepsTrans
  <1>5. p \in Guns => Keeps(s, v)
    BY <1>4, KeepsThenEvent
  <1> HIDE DEF v
  <1>6. p \in Guns => Keeps(s, w)
    BY <1>5, KeepsThenEvent
  <1> HIDE DEF w
  <1>7. Keeps(s, r)
    BY <1>1, <1>6, SameSess
  <1> QED
    BY <1>7 DEF r

\* A new card record keeps the reasons.
LEMMA CardKeeps ==
    ASSUME NEW s, Sound(s), NEW g \in Guns, NEW c \in CardRec
    PROVE  Keeps(s, [s EXCEPT !.card[g] = c])
  <1>1. Sound([s EXCEPT !.card[g] = c])
    BY QuietCard, QuietSound DEF Sound
  <1>2. [s EXCEPT !.card[g] = c].sess = s.sess
    BY DEF Sound, Data
  <1> QED
    BY <1>1, <1>2, SameSess

\* The idle reader keeps them.
LEMMA ResetReaderKeeps ==
    ASSUME NEW s, Sound(s)
    PROVE  Keeps(s, ResetCardReaderState(s))
  <1>1. ResetCardReaderState(s).sess = s.sess
    BY ReaderSess DEF Sound
  <1>2. Sound(ResetCardReaderState(s))
    BY ResetReaderFact DEF Sound, AutoAllowed
  <1> QED
    BY <1>1, <1>2, SameSess

\* A card start keeps them, in whatever state it finds the gun.
LEMMA BeginCardKeeps ==
    ASSUME NEW s, Sound(s), NEW g \in Guns, s.sess[g].issued < MaxOrder
    PROVE  Keeps(s, BeginOfflineCardCharge(s, g))
  <1> DEFINE data == [merge |-> s.card[g].ask.merge, precharge |-> 0,
                      model |-> \/ CardFeeFallback
                                \/ s.card[g].ask.model
                                \/ s.meter[g].ready]
             c == [s.card[g] EXCEPT !.active = TRUE, !.swiped = FALSE]
             t == [s EXCEPT !.card[g] = c]
             u == ArmPendingStart(t, g, data)
             d == [u.card[g] EXCEPT !.ask = NoAsk]
             v == [u EXCEPT !.card[g] = d]
             w == ResetCardReaderState(v)
  <1>1. s \in Data /\ s.card[g] \in CardRec /\ s.meter[g] \in MeterRec
    BY Parts DEF Sound
  <1>2. data \in StartData
    <2>1. s.card[g].ask.merge \in BOOLEAN /\ s.card[g].ask.model \in BOOLEAN
      BY <1>1 DEF CardRec, AskRec
    <2>2. 0 \in Readings
      BY BoundAssumption DEF Readings
    <2> QED
      BY <1>1, <2>1, <2>2, SwitchAssumption DEF StartData, MeterRec
  <1>3. c \in CardRec
    BY <1>1 DEF CardRec
  <1>4. BeginOfflineCardCharge(s, g) = HandleEvent(w, g, "AUTH_OK")
    BY DEF BeginOfflineCardCharge, DispatchArmedStart
  <1> HIDE DEF c, data
  <1>5. Keeps(s, t) /\ t.sess = s.sess
    BY <1>1, <1>3, CardKeeps DEF Data
  <1> HIDE DEF t
  <1>6. Keeps(t, u)
    BY <1>2, <1>5, ArmKeeps DEF Keeps
  <1> HIDE DEF u
  <1>7. u.card[g] \in CardRec
    BY <1>6, Parts DEF Keeps, Sound
  <1>8. d \in CardRec
    BY <1>7 DEF CardRec, NoAsk, AskRec
  <1> HIDE DEF d
  <1>9. Keeps(u, v)
    BY <1>6, <1>8, CardKeeps DEF Keeps
  <1> HIDE DEF v
  <1>10. Keeps(v, w)
    BY <1>9, ResetReaderKeeps DEF Keeps
  <1> HIDE DEF w
  <1>11. Keeps(s, u)
    BY <1>5, <1>6, KeepsTrans
  <1>12. Keeps(s, v)
    BY <1>9, <1>11, KeepsTrans
  <1>13. Keeps(s, w)
    BY <1>10, <1>12, KeepsTrans
  <1>14. Keeps(s, HandleEvent(w, g, "AUTH_OK"))
    BY <1>13, KeepsThenEvent
  <1> QED
    BY <1>4, <1>14

-----------------------------------------------------------------------------
(* The stop at the prepaid amount, and the links.                          *)

\* A stop of the logic's own keeps the reasons.
LEMMA RequestStopKeeps ==
    ASSUME NEW s, Sound(s), NEW g \in Guns
    PROVE  Keeps(s, RequestStop(s, g))
  <1> DEFINE yes == TRUE
             u == [s EXCEPT !.sess[g].tcuStop = yes]
  <1>1. yes \in BOOLEAN
    OBVIOUS
  <1>2. RequestStop(s, g) = s \/ RequestStop(s, g) = HandleEvent(u, g, "STOP_CMD")
    BY DEF RequestStop
  <1> HIDE DEF yes
  <1>3. Keeps(s, u)
    BY <1>1, TcuStopKeeps
  <1> HIDE DEF u
  <1>4. Keeps(s, HandleEvent(u, g, "STOP_CMD"))
    BY <1>3, KeepsThenEvent
  <1> QED
    BY <1>2, <1>4, SameSess

\* So does the stop at the prepaid amount.
LEMMA PrepaidKeeps ==
    ASSUME NEW s, Sound(s), NEW g \in Guns
    PROVE  Keeps(s, MaybeTriggerTcuStopByPrecharge(s, g))
  <1> DEFINE t == RequestStop(s, g)
             u == RequestStop(t, Peer(g))
             r == MaybeTriggerTcuStopByPrecharge(s, g)
  <1>1. Keeps(s, t)
    BY RequestStopKeeps
  <1>2. r = s \/ r = t \/ (Peer(g) \in Guns /\ r = u)
    BY DEF MaybeTriggerTcuStopByPrecharge, RequestPeerStop, HasPeer
  <1> HIDE DEF t, r
  <1>3. Peer(g) \in Guns => Keeps(t, u)
    BY <1>1, RequestStopKeeps DEF Keeps
  <1> HIDE DEF u
  <1>4. Keeps(s, r)
    BY <1>1, <1>2, <1>3, SameSess, KeepsTrans
  <1> QED
    BY <1>4 DEF r

\* A new link record keeps the reasons.
LEMMA LinkKeeps ==
    ASSUME NEW s, Sound(s), NEW g \in Guns, NEW l \in Links, NEW r \in LinkRec
    PROVE  Keeps(s, WithLink(s, g, l, r))
  <1> DEFINE t == WithLink(s, g, l, r)
  <1>1. t \in Data /\ t.reader = s.reader
    BY LinkFact DEF Sound
  <1>2. t.sess = s.sess
    BY DEF WithLink, Sound, Data
  <1> HIDE DEF t
  <1>3. Keeps(s, t)
    BY <1>1, <1>2, SameSess DEF Sound, AutoAllowed
  <1> QED
    BY <1>3 DEF t

\* A link's reports keep them.
LEMMA LinkReportsKeep ==
    ASSUME NEW s, Sound(s), NEW g \in Guns, NEW l \in Links
    PROVE  /\ Keeps(s, NoteOffline(s, g, l))
           /\ Keeps(s, NoteOnline(s, g, l))
           /\ Keeps(s, [s EXCEPT !.link[g][l] = Cleared])
  <1> DEFINE r == [s.link[g][l] EXCEPT !.pending = TRUE]
             x == WithLink(s, g, l, r)
             t == WithLink(s, g, l, Cleared)
             n == NoteOnline(s, g, l)
  <1>1. s.link[g][l] \in LinkRec
    BY Parts DEF Sound
  <1>2. r \in LinkRec /\ Cleared \in LinkRec
    BY <1>1 DEF LinkRec, Cleared
  <1>3. NoteOffline(s, g, l) = s \/ NoteOffline(s, g, l) = x
    BY DEF NoteOffline, WithLink
  <1>4. [s EXCEPT !.link[g][l] = Cleared] = t
    BY DEF WithLink
  <1>5. n = t \/ \E to \in {"PREPARE", "IDLE"} : n = TransitionTo(t, g, to)
    BY <1>4 DEF NoteOnline
  <1> HIDE DEF r
  <1>6. Keeps(s, x) /\ Keeps(s, t)
    BY <1>2, LinkKeeps
  <1> HIDE DEF x, t, n
  <1>7. {"PREPARE", "IDLE"} \subseteq States
    BY DEF States
  <1>8. \A to \in States : Keeps(t, TransitionTo(t, g, to))
    BY <1>6, TransitionKeeps DEF Keeps
  <1>9. Keeps(s, n)
    BY <1>5, <1>6, <1>7, <1>8, KeepsTrans
  <1> QED
    BY <1>3, <1>4, <1>6, <1>9, SameSess DEF n

\* A confirmed fault adds a reason and takes none back.
LEMMA ConfirmKeeps ==
    ASSUME NEW s, Sound(s), NEW g \in Guns, NEW l \in Links
    PROVE  Keeps(s, ConfirmOffline(s, g, l))
  <1> DEFINE r == [fault |-> TRUE, latched |-> TRUE, pending |-> FALSE]
             t == LatchFault(s, g, l)
             st == s.gun[g].state
             b == IF st \in {"STARTING", "CHARGING"} THEN "fault"
                  ELSE t.sess[g].reason
             u == [t EXCEPT !.sess[g].reason = b]
             c == ConfirmOffline(s, g, l)
  <1>1. r \in LinkRec
    BY DEF LinkRec
  <1>2. t = WithLink(s, g, l, r)
    BY DEF LatchFault, WithLink
  <1>3. c = t \/ c = HandleEvent(u, g, "DEVICE_ERR")
    BY DEF ConfirmOffline
  <1> HIDE DEF r, t, c
  <1>4. Keeps(s, t)
    BY <1>1, <1>2, LinkKeeps
  <1>5. b \in Reasons /\ (t.sess[g].reason # "none" => b # "none")
    BY <1>4, SessNumbers DEF Keeps, SessRec, Reasons
  <1> HIDE DEF b
  <1>6. Keeps(t, u)
    BY <1>4, <1>5, ReasonKeeps DEF Keeps
  <1> HIDE DEF u
  <1>7. Keeps(s, u)
    BY <1>4, <1>6, KeepsTrans
  <1>8. Keeps(s, HandleEvent(u, g, "DEVICE_ERR"))
    BY <1>7, KeepsThenEvent
  <1>9. Keeps(s, c)
    BY <1>3, <1>4, <1>8
  <1> QED
    BY <1>9 DEF c

-----------------------------------------------------------------------------
(* One iteration of the main loop on a gun.                                *)

\* What a check of the links passes on.
KeptBy(s, i) == i = [data |-> i.data, over |-> i.over] /\ Keeps(s, i.data)

\* Each of the four checks keeps the reasons.
LEMMA ChecksKeep ==
    ASSUME NEW s, Sound(s), NEW i, KeptBy(s, i), NEW g \in Guns, NEW due
    PROVE  /\ KeptBy(s, MaybeConfirmMeterOfflineFault(i, g, due))
           /\ KeptBy(s, MaybeConfirmPlatformOfflineFault(i, g, due))
           /\ KeptBy(s, MaybeConfirmPileYxTimeoutFault(i, g, due))
           /\ KeptBy(s, MaybeConfirmPileOfflineFault(i, g, due))
  <1>1. /\ KeptBy(s, Confirm(i, g, "meter"))
        /\ KeptBy(s, Confirm(i, g, "platform"))
        /\ KeptBy(s, Confirm(i, g, "pile"))
    <2>1. ASSUME NEW l \in Links
          PROVE  KeptBy(s, Confirm(i, g, l))
      <3> DEFINE c == ConfirmOffline(i.data, g, l)
                 o == i.data.gun[g].state \notin {"STOPPING", "ERROR"}
      <3>1. Confirm(i, g, l) = [data |-> c, over |-> o]
        BY DEF Confirm
      <3>2. Keeps(i.data, c)
        BY ConfirmKeeps DEF KeptBy, Keeps
      <3> HIDE DEF c, o
      <3>3. Keeps(s, c)
        BY <3>2, KeepsTrans DEF KeptBy
      <3> QED
        BY <3>1, <3>3 DEF KeptBy
    <2> QED
      BY <2>1, LinkNames
  <1>2. KeptBy(s, [i EXCEPT !.data.link[g]["platform"] = Cleared])
    <2> DEFINE x == i.data
               t == [x EXCEPT !.link[g]["platform"] = Cleared]
    <2>1. Keeps(s, x) /\ i = [data |-> x, over |-> i.over]
      BY DEF KeptBy
    <2>2. [i EXCEPT !.data.link[g]["platform"] = Cleared] = [data |-> t, over |-> i.over]
      BY <2>1
    <2> HIDE DEF x
    <2>3. Keeps(x, t)
      BY <2>1, LinkNames, LinkReportsKeep DEF Keeps
    <2> HIDE DEF t
    <2>4. Keeps(s, t)
      BY <2>1, <2>3, KeepsTrans
    <2>5. KeptBy(s, [data |-> t, over |-> i.over])
      BY <2>4 DEF KeptBy
    <2> QED
      BY <2>2, <2>5
  <1>3. KeptBy(s, MaybeConfirmMeterOfflineFault(i, g, due))
    BY <1>1 DEF MaybeConfirmMeterOfflineFault
  <1>4. KeptBy(s, MaybeConfirmPlatformOfflineFault(i, g, due))
    BY <1>1, <1>2 DEF MaybeConfirmPlatformOfflineFault
  <1>5. KeptBy(s, MaybeConfirmPileYxTimeoutFault(i, g, due))
    BY <1>1 DEF MaybeConfirmPileYxTimeoutFault
  <1>6. KeptBy(s, MaybeConfirmPileOfflineFault(i, g, due))
    BY <1>1 DEF MaybeConfirmPileOfflineFault
  <1> QED
    BY <1>3, <1>4, <1>5, <1>6

\* So do the four together.
LEMMA CheckLinksKeep ==
    ASSUME NEW s, Sound(s), NEW g \in Guns, NEW due
    PROVE  Keeps(s, CheckLinks(s, g, due).data)
  <1> DEFINE a == [data |-> s, over |-> FALSE]
             b == MaybeConfirmMeterOfflineFault(a, g, due)
             c == MaybeConfirmPlatformOfflineFault(b, g, due)
             d == MaybeConfirmPileYxTimeoutFault(c, g, due)
             e == MaybeConfirmPileOfflineFault(d, g, due)
  <1>1. KeptBy(s, a)
    BY SameSess DEF KeptBy
  <1>2. CheckLinks(s, g, due) = e
    BY DEF CheckLinks
  <1> HIDE DEF a
  <1>3. KeptBy(s, b)
    BY <1>1, ChecksKeep
  <1> HIDE DEF b
  <1>4. KeptBy(s, c)
    BY <1>3, ChecksKeep
  <1> HIDE DEF c
  <1>5. KeptBy(s, d)
    BY <1>4, ChecksKeep
  <1> HIDE DEF d
  <1>6. KeptBy(s, e)
    BY <1>5, ChecksKeep
  <1> QED
    BY <1>2, <1>6 DEF KeptBy

\* An event with a reason of its own adds it.
LEMMA ReasonThenEvent ==
    ASSUME NEW s, Sound(s), NEW g \in Guns, NEW e
    PROVE  Keeps(s, HandleEvent([s EXCEPT !.sess[g].reason = "fault"], g, e))
  <1> DEFINE yes == "fault"
             u == [s EXCEPT !.sess[g].reason = yes]
  <1>1. yes \in Reasons /\ yes # "none"
    BY DEF Reasons
  <1>2. u = [s EXCEPT !.sess[g].reason = "fault"]
    OBVIOUS
  <1> HIDE DEF yes
  <1>3. Keeps(s, u)
    BY <1>1, ReasonKeeps
  <1> HIDE DEF u
  <1>4. Keeps(s, HandleEvent(u, g, e))
    BY <1>3, KeepsThenEvent
  <1> QED
    BY <1>2, <1>4

\* The limits of STARTING keep the reasons.
LEMMA PollStartingKeeps ==
    ASSUME NEW s, Sound(s), NEW g \in Guns, NEW due
    PROVE  Keeps(s, PollStarting(s, g, due))
  <1> DEFINE r == [s.gun[g] EXCEPT !.retried = TRUE, !.sent = "start_charge"]
             again == [s EXCEPT !.gun[g] = r]
             t == IF "starting_30s" \in due /\ ~s.gun[g].retried THEN again ELSE s
             u == HandleEvent([t EXCEPT !.sess[g].reason = "fault"], g, "STOP_CMD")
  <1>1. r \in GunRec /\ r.state = s.gun[g].state
    BY Parts DEF Sound, GunRec
  <1>2. PollStarting(s, g, due) = IF "starting_60s" \in due THEN u ELSE t
    BY DEF PollStarting
  <1> HIDE DEF r
  <1>3. Keeps(s, again)
    BY <1>1, FlagKeeps
  <1> HIDE DEF again
  <1>4. Keeps(s, t)
    BY <1>3, SameSess
  <1> HIDE DEF t
  <1>5. Keeps(t, u)
    BY <1>4, ReasonThenEvent DEF Keeps
  <1> HIDE DEF u
  <1>6. Keeps(s, u)
    BY <1>4, <1>5, KeepsTrans
  <1> QED
    BY <1>2, <1>4, <1>6

\* So do the checks of CHARGING.
LEMMA PollChargingKeeps ==
    ASSUME NEW s, Sound(s), NEW g \in Guns, NEW due
    PROVE  Keeps(s, PollCharging(s, g, due))
  <1> DEFINE t == MaybeTriggerTcuStopByPrecharge(s, g)
             u == HandleEvent([t EXCEPT !.sess[g].reason = "fault"], g, "DEVICE_ERR")
             p == PollCharging(s, g, due)
  <1>1. Keeps(s, t)
    BY PrepaidKeeps
  <1>2. p = t \/ p = u
    BY DEF PollCharging, MaybeTriggerMeteringAbnormal
  <1> HIDE DEF t, p
  <1>3. Keeps(t, u)
    BY <1>1, ReasonThenEvent DEF Keeps
  <1> HIDE DEF u
  <1>4. Keeps(s, p)
    BY <1>1, <1>2, <1>3, KeepsTrans
  <1> QED
    BY <1>4 DEF p

\* So does the iteration.
LEMMA PollGunKeeps ==
    ASSUME NEW s, Sound(s), NEW g \in Guns, NEW due
    PROVE  Keeps(s, PollGun(s, g, due))
  <1> DEFINE x == CheckLinks(s, g, due).data
             q == PollSession(x, g, due)
             p == PollGun(s, g, due)
  <1>1. p = x \/ p = q
    BY DEF PollGun, FinishIteration
  <1>2. Keeps(s, x)
    BY CheckLinksKeep
  <1> HIDE DEF x, p
  <1>3. Sound(x)
    BY <1>2 DEF Keeps
  <1>4. Keeps(x, PollStopping(x, g, due))
    BY <1>3, EventKeeps, SameSess DEF PollStopping
  <1>5. Keeps(x, q)
    BY <1>3, <1>4, PollChargingKeeps, PollStartingKeeps, SameSess DEF PollSession
  <1> HIDE DEF q
  <1>6. Keeps(s, p)
    BY <1>1, <1>2, <1>5, KeepsTrans
  <1> QED
    BY <1>6 DEF p

-----------------------------------------------------------------------------
(* The actions: each leaves data behind that keeps the reasons.            *)

CanKeep == \E t : Become(t) /\ Keeps(Now, t)

\* The starts of the HMI and of the platform.
LEMMA StartsKeep ==
    ASSUME Sound(Now), NEW g \in Guns, HmiStart(g) \/ PlatformStart(g)
    PROVE  CanKeep
  <1> DEFINE s == Now
  <1>1. PICK c \in StartCmds :
           LET armed == ArmPendingStart(s, g, c)
           IN  \/ Become(HandleEvent(armed, g, "AUTH_OK"))
               \/ Become(TryDispatchMergePendingStart(armed, g))
    BY DEF HmiStart, PlatformStart, DispatchArmedStart
  <1>2. c \in StartData
    BY InputAssumption
  <1>3. Sound(s) /\ s.sess[g].issued < MaxOrder
    BY NowFact DEF HmiStart, PlatformStart, CanOpenOrder
  <1> HIDE DEF s
  <1> DEFINE armed == ArmPendingStart(s, g, c)
             x == HandleEvent(armed, g, "AUTH_OK")
             y == TryDispatchMergePendingStart(armed, g)
  <1>4. Become(x) \/ Become(y)
    BY <1>1
  <1>5. Keeps(s, armed)
    BY <1>2, <1>3, ArmKeeps
  <1> HIDE DEF armed
  <1>6. Keeps(s, x)
    BY <1>3, <1>5, KeepsThenEvent
  <1>7. Keeps(armed, y)
    BY <1>5, TryDispatchKeeps DEF Keeps
  <1> HIDE DEF x, y
  <1>8. Keeps(s, y)
    BY <1>3, <1>5, <1>7, KeepsTrans
  <1> QED
    BY <1>4, <1>6, <1>8 DEF CanKeep, s

\* The handlers that only pass an event to the state machine, and the main loop.
LEMMA EventsKeep ==
    ASSUME Sound(Now), NEW g \in Guns,
           \/ AuthResult(g) \/ StopCharge(g) \/ ResetError(g)
           \/ DeviceErrOn(g) \/ DeviceErrOff(g) \/ Poll(g)
    PROVE  CanKeep
  <1>1. \/ \E e : Become(HandleEvent(Now, g, e))
        \/ \E due : Become(PollGun(Now, g, due))
    BY DEF AuthResult, StopCharge, ResetError, DeviceErrOn, DeviceErrOff, Poll
  <1>2. \A e : Keeps(Now, HandleEvent(Now, g, e))
    BY EventKeeps
  <1>3. \A due : Keeps(Now, PollGun(Now, g, due))
    BY PollGunKeeps
  <1> QED
    BY <1>1, <1>2, <1>3 DEF CanKeep

\* Noting the outcome of a start keeps the reasons.
LEMMA StartOkKeeps ==
    ASSUME NEW s, Sound(s), NEW g \in Guns, NEW b \in BOOLEAN
    PROVE  Keeps(s, [s EXCEPT !.gun[g].startOk = b])
  <1> DEFINE r == [s.gun[g] EXCEPT !.startOk = b]
  <1>1. r \in GunRec /\ r.state = s.gun[g].state
    BY Parts DEF Sound, GunRec
  <1>2. [s EXCEPT !.gun[g] = r] = [s EXCEPT !.gun[g].startOk = b]
    OBVIOUS
  <1> HIDE DEF r
  <1>3. Keeps(s, [s EXCEPT !.gun[g] = r])
    BY <1>1, FlagKeeps
  <1> QED
    BY <1>2, <1>3

\* start_complete: a failed start adds its reason.
LEMMA StartCompleteKeeps ==
    ASSUME Sound(Now), NEW g \in Guns, StartComplete(g)
    PROVE  CanKeep
  <1> DEFINE s == Now
             ok == HandleEvent(s, g, "START_COMPLETE_OK")
             fail == HandleEvent([s EXCEPT !.sess[g].reason = "fault"], g,
                                 "START_COMPLETE_FAIL")
             yes == TRUE
             no == FALSE
             x == [ok EXCEPT !.gun[g].startOk = yes]
             y == [fail EXCEPT !.gun[g].startOk = no]
  <1>1. Become(x) \/ Become(y)
    BY DEF StartComplete
  <1>2. Sound(s) /\ yes \in BOOLEAN /\ no \in BOOLEAN
    OBVIOUS
  <1> HIDE DEF s, yes, no
  <1>3. Keeps(s, ok) /\ Keeps(s, fail)
    BY <1>2, EventKeeps, ReasonThenEvent
  <1> HIDE DEF ok, fail
  <1>4. Keeps(ok, x) /\ Keeps(fail, y)
    BY <1>2, <1>3, StartOkKeeps DEF Keeps
  <1> HIDE DEF x, y
  <1>5. Keeps(s, x) /\ Keeps(s, y)
    BY <1>2, <1>3, <1>4, KeepsTrans
  <1> QED
    BY <1>1, <1>5 DEF CanKeep, s

\* stop_complete: an end without a number of its own leaves the reason noted before.
LEMMA StopCompleteKeeps ==
    ASSUME Sound(Now), NEW g \in Guns, StopComplete(g)
    PROVE  CanKeep
  <1> DEFINE s == Now
  <1>1. PICK end \in EndReasons :
           Become(HandleEvent(
               [s EXCEPT !.sess[g].reason = IF s.gun[g].startOk /\ end # "none"
                                            THEN end ELSE s.sess[g].reason],
               g, "STOP_COMPLETE"))
    BY NowFact DEF StopComplete
  <1>2. Sound(s)
    OBVIOUS
  <1> HIDE DEF s
  <1> DEFINE b == IF s.gun[g].startOk /\ end # "none" THEN end ELSE s.sess[g].reason
             u == [s EXCEPT !.sess[g].reason = b]
             t == HandleEvent(u, g, "STOP_COMPLETE")
  <1>3. b \in Reasons /\ (s.sess[g].reason # "none" => b # "none")
    BY <1>2, SessNumbers, InputAssumption DEF SessRec
  <1>4. Become(t)
    BY <1>1
  <1> HIDE DEF b
  <1>5. Keeps(s, u)
    BY <1>2, <1>3, ReasonKeeps
  <1> HIDE DEF u
  <1>6. Keeps(s, t)
    BY <1>2, <1>5, KeepsThenEvent
  <1> QED
    BY <1>4, <1>6 DEF CanKeep, s

\* The six link reports.
LEMMA LinkStepsKeep ==
    ASSUME Sound(Now), NEW g \in Guns,
           \/ PileOnline(g) \/ PileOffline(g) \/ MeterOnline(g) \/ MeterOffline(g)
           \/ PlatformOnline(g) \/ PlatformOffline(g)
    PROVE  CanKeep
  <1>1. \A l \in Links : /\ Keeps(Now, NoteOnline(Now, g, l))
                         /\ Keeps(Now, NoteOffline(Now, g, l))
                         /\ Keeps(Now, [Now EXCEPT !.link[g][l] = Cleared])
    BY LinkReportsKeep
  <1>2. \E l \in Links : \/ Become(NoteOnline(Now, g, l))
                         \/ Become(NoteOffline(Now, g, l))
                         \/ Become([Now EXCEPT !.link[g][l] = Cleared])
    BY LinkNames DEF PileOnline, PileOffline, MeterOnline, MeterOffline,
                     PlatformOnline, PlatformOffline
  <1> QED
    BY <1>1, <1>2 DEF CanKeep

\* A request to wait for a card, and a meter packet.
LEMMA OtherStepsKeep ==
    ASSUME Good(Now), NEW g \in Guns, RequestCardStart(g) \/ MeterData(g)
    PROVE  CanKeep
  <1> DEFINE s == Now
  <1>1. Good(s) /\ Sound(s) /\ s \in Data
    BY GoodOthers
  <1>2. CASE RequestCardStart(g)
    <2>1. PICK ask \in AskRec : Become(StartOfflineCardFlow(s, g, FALSE, ask))
      BY <1>2 DEF RequestCardStart
    <2> HIDE DEF s
    <2>2. StartOfflineCardFlow(s, g, FALSE, ask).sess = s.sess
      BY <1>1 DEF StartOfflineCardFlow, Data
    <2>3. Sound(StartOfflineCardFlow(s, g, FALSE, ask))
      BY <1>1, StartFlowGood DEF Good
    <2> QED
      BY <1>1, <2>1, <2>2, <2>3, SameSess DEF CanKeep, s
  <1>3. CASE MeterData(g)
    <2>1. PICK kwh \in Readings, volt \in Voltages : Become(HandleMeterData(s, g, kwh, volt))
      BY <1>3 DEF MeterData
    <2>2. volt \in {"low", "normal"}
      BY InputAssumption
    <2> HIDE DEF s
    <2>3. HandleMeterData(s, g, kwh, volt).sess = s.sess
      BY <1>1 DEF HandleMeterData, Data
    <2>4. Sound(HandleMeterData(s, g, kwh, volt))
      BY <1>1, <2>2, MeterDataFact, QuietSound
    <2> QED
      BY <1>1, <2>1, <2>3, <2>4, SameSess DEF CanKeep, s
  <1> QED
    BY <1>2, <1>3

\* The three reactions to a yx packet.
LEMMA YxPartsKeep ==
    ASSUME NEW s, Sound(s), NEW g \in Guns, NEW p
    PROVE  /\ Keeps(s, YxRecover(s, g, p))
           /\ Keeps(s, YxWork(s, g, p))
           /\ Keeps(s, YxConnect(s, g, p))
  <1>1. Keeps(s, YxRecover(s, g, p))
    BY LinkNames, LinkReportsKeep DEF YxRecover
  <1>2. Keeps(s, YxWork(s, g, p))
    BY EventKeeps, SameSess DEF YxWork
  <1>3. Keeps(s, [s EXCEPT !.gun[g].gone = TRUE])
    <2> DEFINE r == [s.gun[g] EXCEPT !.gone = TRUE]
    <2>1. r \in GunRec /\ r.state = s.gun[g].state
      BY Parts DEF Sound, GunRec
    <2>2. [s EXCEPT !.gun[g] = r] = [s EXCEPT !.gun[g].gone = TRUE]
      OBVIOUS
    <2> HIDE DEF r
    <2>3. Keeps(s, [s EXCEPT !.gun[g] = r])
      BY <2>1, FlagKeeps
    <2> QED
      BY <2>2, <2>3
  <1>4. Keeps(s, YxConnect(s, g, p))
    BY <1>3, EventKeeps, SameSess DEF YxConnect
  <1> QED
    BY <1>1, <1>2, <1>4

\* A yx packet.
LEMMA YxKeeps ==
    ASSUME Sound(Now), NEW g \in Guns, Yx(g)
    PROVE  CanKeep
  <1> DEFINE s == Now
             r(p) == [s.gun[g] EXCEPT !.yxSeen = TRUE, !.conn = p.conn]
             seen(p) == [s EXCEPT !.gun[g] = r(p)]
             a(p) == YxRecover(seen(p), g, p)
             b(p) == YxWork(a(p), g, p)
             c(p) == YxConnect(b(p), g, p)
             d(p) == YxFault(c(p), g, p)
  <1>1. PICK p \in YxPackets : Become(d(p))
    BY DEF Yx
  <1>2. Sound(s) /\ p \in YxPacket /\ s \in Data
    BY InputAssumption DEF Sound
  <1> HIDE DEF s
  <1>3. r(p) \in GunRec /\ r(p).state = s.gun[g].state
    BY <1>2, Parts DEF GunRec, YxPacket
  <1> HIDE DEF r
  <1>4. Keeps(s, seen(p))
    BY <1>2, <1>3, FlagKeeps
  <1> HIDE DEF seen
  <1>5. Keeps(seen(p), a(p))
    BY <1>4, YxPartsKeep DEF Keeps
  <1> HIDE DEF a
  <1>6. Keeps(a(p), b(p))
    BY <1>5, YxPartsKeep DEF Keeps
  <1> HIDE DEF b
  <1>7. Keeps(b(p), c(p))
    BY <1>6, YxPartsKeep DEF Keeps
  <1> HIDE DEF c
  <1>8. Keeps(c(p), d(p))
    <2>1. Sound(c(p))
      BY <1>7 DEF Keeps
    <2> QED
      BY <2>1, EventKeeps, SameSess DEF YxFault
  <1> HIDE DEF d
  <1>9. Keeps(s, a(p))
    BY <1>2, <1>4, <1>5, KeepsTrans
  <1>10. Keeps(s, b(p))
    BY <1>2, <1>6, <1>9, KeepsTrans
  <1>11. Keeps(s, c(p))
    BY <1>2, <1>7, <1>10, KeepsTrans
  <1>12. Keeps(s, d(p))
    BY <1>2, <1>8, <1>11, KeepsTrans
  <1> QED
    BY <1>1, <1>12 DEF CanKeep, s

\* The reader's reports and its reconciliation.
LEMMA ReaderKeeps ==
    ASSUME Good(Now), RfOpened \/ RfClosed \/ CardOpFailed \/ PollReader
    PROVE  CanKeep
  <1> DEFINE s == Now
             x(b) == [s EXCEPT !.reader.rf = b]
             yes == TRUE
             no == FALSE
             keep == s.reader.rf /\ reader.phase # "wait_auto_rf_close"
  <1>1. \/ Become(x(yes))
        \/ Become(x(no))
        \/ Become(ResetCardReaderState(x(no)))
        \/ Become(ResetCardReaderState(x(keep)))
        \/ Become(ReconcileAutoCardWaiting(s))
    BY NowFact DEF RfOpened, RfClosed, CardOpFailed, PollReader
  <1>2. /\ Good(s) /\ Sound(s) /\ s \in Data
        /\ yes \in BOOLEAN /\ no \in BOOLEAN /\ keep \in BOOLEAN
    <2>1. yes \in BOOLEAN /\ no \in BOOLEAN /\ keep \in BOOLEAN
      OBVIOUS
    <2> QED
      BY <2>1 DEF Good, Sound
  <1> HIDE DEF s, yes, no, keep
  <1>3. ASSUME NEW b \in BOOLEAN
        PROVE  Keeps(s, x(b)) /\ Keeps(s, ResetCardReaderState(x(b)))
    <2>1. Sound(x(b))
      BY <1>2, RfFact DEF Good
    <2>2. x(b).sess = s.sess
      BY <1>2 DEF Data
    <2> HIDE DEF x
    <2>3. Keeps(s, x(b))
      BY <1>2, <2>1, <2>2, SameSess
    <2>4. Keeps(x(b), ResetCardReaderState(x(b)))
      BY <2>1, ResetReaderKeeps
    <2> QED
      BY <1>2, <2>3, <2>4, KeepsTrans
  <1>4. Keeps(s, ReconcileAutoCardWaiting(s))
    BY <1>2, ReconcileKeeps
  <1> HIDE DEF x
  <1>5. \E t : Become(t) /\ Keeps(s, t)
    BY <1>1, <1>2, <1>3, <1>4
  <1> QED
    BY <1>5 DEF CanKeep, s

\* A card presented to start.
LEMMA SwipeStartKeeps ==
    ASSUME Sound(Now), NEW c \in Cards, SwipeToStart(c)
    PROVE  CanKeep
  <1> DEFINE s == Now
             g == s.reader.gun
             d == [s.card[g] EXCEPT !.no = c]
             t == [s EXCEPT !.card[g] = d]
             u == BeginOfflineCardCharge(t, g)
  <1>1. t = [s EXCEPT !.card[g].no = c]
    OBVIOUS
  <1>2. Sound(s) /\ (Become(t) \/ (s.sess[g].issued < MaxOrder /\ Become(u)))
    BY <1>1, NowFact DEF SwipeToStart, CanOpenOrder
  <1> HIDE DEF s
  <1>3. s \in Data /\ g \in Guns
    BY <1>2 DEF Sound, Data, ReaderRec
  <1> HIDE DEF g
  <1>4. d \in CardRec
    BY <1>3, Parts DEF CardRec
  <1> HIDE DEF d
  <1>5. Keeps(s, t) /\ t.sess = s.sess
    BY <1>2, <1>3, <1>4, CardKeeps DEF Data
  <1> HIDE DEF t
  <1>6. s.sess[g].issued < MaxOrder => Keeps(t, u)
    BY <1>3, <1>5, BeginCardKeeps DEF Keeps
  <1> HIDE DEF u
  <1>7. s.sess[g].issued < MaxOrder => Keeps(s, u)
    BY <1>2, <1>5, <1>6, KeepsTrans
  <1> QED
    BY <1>2, <1>5, <1>7 DEF CanKeep, s

\* A card presented to stop.
LEMMA SwipeStopKeeps ==
    ASSUME Sound(Now), NEW c \in Cards, SwipeToStop(c)
    PROVE  CanKeep
  <1>1. PICK g \in Guns :
           Become(HandleEvent([Now EXCEPT !.sess[g].reason = "normal",
                                          !.card[g].swiped = TRUE], g, "STOP_CMD"))
    BY DEF SwipeToStop
  <1> DEFINE s == Now
             yes == "normal"
             t == [s EXCEPT !.sess[g].reason = yes]
             d == [t.card[g] EXCEPT !.swiped = TRUE]
             u == [t EXCEPT !.card[g] = d]
             v == HandleEvent(u, g, "STOP_CMD")
  <1>2. Sound(s) /\ Become(v) /\ yes \in Reasons /\ yes # "none"
    BY <1>1, NowFact DEF Now, Reasons
  <1> HIDE DEF s, yes
  <1>3. Keeps(s, t)
    BY <1>2, ReasonKeeps
  <1> HIDE DEF t
  <1>4. d \in CardRec
    <2>1. t.card[g] \in CardRec
      BY <1>3, Parts DEF Keeps, Sound
    <2> QED
      BY <2>1 DEF CardRec
  <1> HIDE DEF d
  <1>5. Keeps(t, u)
    BY <1>3, <1>4, CardKeeps DEF Keeps
  <1> HIDE DEF u
  <1>6. Keeps(s, u)
    BY <1>2, <1>3, <1>5, KeepsTrans
  <1>7. Keeps(s, v)
    BY <1>2, <1>6, KeepsThenEvent
  <1> HIDE DEF v
  <1> QED
    BY <1>2, <1>7 DEF CanKeep, s

-----------------------------------------------------------------------------
(* The theorem.                                                            *)

\* Every step of the process keeps the reasons.
LEMMA NextKeeps ==
    ASSUME IInv, Next
    PROVE  CanKeep
  <1>1. Good(Now) /\ Sound(Now)
    BY DEF IInv, Good
  <1>2. ASSUME NEW g \in Guns, OnGun(g)
        PROVE  CanKeep
    BY <1>1, <1>2, StartsKeep, EventsKeep, StartCompleteKeeps, StopCompleteKeeps,
       LinkStepsKeep, OtherStepsKeep, YxKeeps DEF OnGun
  <1> QED
    BY <1>1, <1>2, ReaderKeeps, SwipeStartKeeps, SwipeStopKeeps DEF Next, CardInfo

\* No gun ever has an order it was not issued, and every step follows: the
\* numbering is what rules out that a new order passes for the old one.
OrderInv == IInv /\ Ordered(Now)

\* The numbering is kept, and the records of a step follow those before it.
LEMMA StepKeeps ==
    ASSUME OrderInv, [Next]_vars
    PROVE  OrderInv' /\ \A g \in Guns : Follows(sess[g], sess'[g])
  <1>1. IInv /\ Ordered(Now) /\ Sound(Now) /\ IInv' /\ Sound(Now)'
    BY StepGood DEF OrderInv, IInv, Good
  <1>2. \A g \in Guns : Follows(sess[g], sess'[g])
    <2>1. CASE Next
      <3>1. PICK t : Become(t) /\ Keeps(Now, t)
        BY <1>1, <2>1, NextKeeps DEF CanKeep
      <3> QED
        BY <3>1, NowFact DEF Become, Keeps
    <2>2. CASE UNCHANGED vars
      <3>1. \A g \in Guns : Follows(Now.sess[g], Now.sess[g])
        BY <1>1, SameSess DEF Keeps
      <3> QED
        BY <2>2, <3>1, NowFact DEF vars
    <2> QED
      BY <2>1, <2>2
  <1>3. \A g \in Guns : sess'[g].order <= sess'[g].issued
    <2> SUFFICES ASSUME NEW g \in Guns PROVE sess'[g].order <= sess'[g].issued
      OBVIOUS
    <2>1. /\ sess[g].issued \in Nat /\ sess[g].order \in Nat
          /\ sess[g].order <= sess[g].issued
      BY <1>1, SessNumbers, NowFact DEF Ordered
    <2>2. sess'[g].issued \in Nat /\ sess'[g].order \in Nat
      <3> DEFINE n == Now'
      <3>1. Sound(n) /\ n.sess = sess'
        BY <1>1 DEF Now
      <3> HIDE DEF n
      <3> QED
        BY <3>1, SessNumbers
    <2> QED
      BY <1>2, <2>1, <2>2 DEF Follows
  <1> QED
    BY <1>1, <1>2, <1>3 DEF OrderInv, Ordered, Now

\* A stop that has been given a reason keeps one with its order, whatever messages come
\* after it: a later stop_complete, a second fault or a stop of the peer may put another
\* in its place, never none, and a new order never has the number of the old.
THEOREM ReasonStays == Spec => ReasonKept
  <1>1. Init => OrderInv
    BY InitGood DEF OrderInv, Ordered, Init, Now, InitialData
  <1>2. OrderInv /\ [Next]_vars => OrderInv'
    BY StepKeeps
  <1>3. OrderInv /\ [Next]_vars =>
          [\A g \in Guns :
             (sess[g].reason # "none" /\ sess'[g].order = sess[g].order /\ sess[g].order # 0) =>
                 sess'[g].reason # "none"]_vars
    <2> SUFFICES ASSUME OrderInv, [Next]_vars, NEW g \in Guns,
                        sess[g].reason # "none", sess'[g].order = sess[g].order,
                        sess[g].order # 0
                 PROVE  sess'[g].reason # "none"
      OBVIOUS
    <2>1. Follows(sess[g], sess'[g])
      BY StepKeeps
    <2>2. /\ sess[g].issued \in Nat /\ sess[g].order \in Nat
          /\ sess[g].order <= sess[g].issued
      BY SessNumbers, NowFact DEF OrderInv, Ordered, IInv, Good
    <2> QED
      BY <2>1, <2>2 DEF Follows
  <1> QED
    BY <1>1, <1>2, <1>3, PTL DEF Spec, ReasonKept

-----------------------------------------------------------------------------
(* What a session leaves behind: IdleIsClean, EnergyIsBooked and           *)
(* OrderOpensInPrepare.                                                    *)

\* IdleIsClean and EnergyIsBooked on the data of a gun.
CleanGun(s, h) ==
    (s.gun[h].state = "IDLE" /\ ~s.card[h].active) =>
        /\ ~s.sess[h].armed /\ ~s.sess[h].basis /\ ~s.sess[h].merge
        /\ s.sess[h].order = 0 /\ s.sess[h].lastCmd = 0
        /\ s.meter[h].total = 0 /\ ~s.meter[h].ready

BookedGun(s, h) ==
    (s.meter[h].total > 0 /\ s.gun[h].state \notin {"CHARGING", "STOPPING"}) =>
        /\ s.ledger[h][s.sess[h].order].count > 0
        /\ s.ledger[h][s.sess[h].order].kwh = s.meter[h].total

\* Where the HMI asks for no card the reader waits on its own account.
WaitsAuto(s) ==
    "request_card_start" \in Inputs \/ (s.reader.phase = "wait_start_card" => s.reader.auto)

\* From s to t nothing is left behind that was not before, and only the guns in S open
\* an order.
Tidies(s, t, S) ==
    /\ Sound(t)
    /\ WaitsAuto(s) => WaitsAuto(t)
    /\ \A h \in Guns :
          /\ h \in S \/ t.sess[h].issued = s.sess[h].issued
          /\ CleanGun(s, h) => CleanGun(t, h)
          /\ BookedGun(s, h) => BookedGun(t, h)

\* From s to t a gun changes nothing of this.
Alike(s, t, h) ==
    /\ t.gun[h].state = s.gun[h].state
    /\ t.sess[h].armed = s.sess[h].armed
    /\ t.sess[h].basis = s.sess[h].basis
    /\ t.sess[h].merge = s.sess[h].merge
    /\ t.sess[h].order = s.sess[h].order
    /\ t.sess[h].issued = s.sess[h].issued
    /\ t.sess[h].lastCmd = s.sess[h].lastCmd
    /\ t.meter[h].total = s.meter[h].total
    /\ t.meter[h].ready = s.meter[h].ready
    /\ t.card[h].active = s.card[h].active
    /\ t.ledger[h] = s.ledger[h]

\* What changes nothing of a gun keeps its part.
LEMMA AlikeTidy ==
    ASSUME NEW s, NEW t, NEW h, Alike(s, t, h)
    PROVE  /\ t.sess[h].issued = s.sess[h].issued
           /\ CleanGun(s, h) => CleanGun(t, h)
           /\ BookedGun(s, h) => BookedGun(t, h)
  BY DEF Alike, CleanGun, BookedGun

\* A step that changes at most gun g is tidy if it is for g.
LEMMA OneTidy ==
    ASSUME NEW s, NEW t, Sound(t), WaitsAuto(s) => WaitsAuto(t), NEW g \in Guns, NEW S,
           \A h \in Guns \ {g} : Alike(s, t, h),
           g \in S \/ t.sess[g].issued = s.sess[g].issued,
           CleanGun(s, g) => CleanGun(t, g),
           BookedGun(s, g) => BookedGun(t, g)
    PROVE  Tidies(s, t, S)
  <1>1. \A h \in Guns \ {g} : /\ t.sess[h].issued = s.sess[h].issued
                              /\ CleanGun(s, h) => CleanGun(t, h)
                              /\ BookedGun(s, h) => BookedGun(t, h)
    BY AlikeTidy
  <1> QED
    BY <1>1 DEF Tidies

\* A step that changes nothing of any gun is tidy.
LEMMA AllTidy ==
    ASSUME NEW s, NEW t, Sound(t), WaitsAuto(s) => WaitsAuto(t),
           \A h \in Guns : Alike(s, t, h)
    PROVE  Tidies(s, t, {})
  BY AlikeTidy DEF Tidies

\* Doing nothing is tidy.
LEMMA SameTidy ==
    ASSUME NEW s, Sound(s)
    PROVE  Tidies(s, s, {})
  BY DEF Tidies

\* Tidy steps compose.
LEMMA TidyTrans ==
    ASSUME NEW s, NEW t, NEW u, NEW S, Tidies(s, t, S), Tidies(t, u, {})
    PROVE  Tidies(s, u, S)
  <1> SUFFICES ASSUME NEW h \in Guns
               PROVE  /\ h \in S \/ u.sess[h].issued = s.sess[h].issued
                      /\ CleanGun(s, h) => CleanGun(u, h)
                      /\ BookedGun(s, h) => BookedGun(u, h)
    BY DEF Tidies
  <1> QED
    BY DEF Tidies

-----------------------------------------------------------------------------
(* The reader and the transitions.                                         *)

\* The reader's part of the machine changes nothing else but what it asks for.
LEMMA ReaderAlike ==
    ASSUME NEW s \in Data, NEW h \in Guns
    PROVE  /\ Alike(s, ResetCardReaderState(s), h)
           /\ Alike(s, CancelAutoCardWaiting(s), h)
           /\ \A g \in Guns : \A auto, ask : Alike(s, StartOfflineCardFlow(s, g, auto, ask), h)
           /\ Alike(s, ReconcileAutoCardWaiting(s), h)
  <1>0. Alike(s, s, h)
    BY DEF Alike
  <1>1. Alike(s, ResetCardReaderState(s), h)
    BY DEF ResetCardReaderState, Data, Alike
  <1>2. Alike(s, CancelAutoCardWaiting(s), h)
    <2> DEFINE t == [s EXCEPT !.reader.auto = FALSE, !.reader.phase = "wait_auto_rf_close"]
    <2>1. Alike(s, t, h)
      BY DEF Data, Alike
    <2> HIDE DEF t
    <2>2. CancelAutoCardWaiting(s) \in {t, ResetCardReaderState(s)}
      BY DEF CancelAutoCardWaiting, t
    <2> QED
      BY <1>1, <2>1, <2>2
  <1>3. ASSUME NEW g \in Guns, NEW auto, NEW ask
        PROVE  Alike(s, StartOfflineCardFlow(s, g, auto, ask), h)
    <2> DEFINE c == [s.card[g] EXCEPT !.ask = ask]
               r == [phase |-> "wait_start_card", gun |-> g, auto |-> auto, rf |-> TRUE]
               t == [s EXCEPT !.reader = r, !.card[g] = c]
    <2>1. c.active = s.card[g].active
      BY Parts DEF CardRec
    <2>2. StartOfflineCardFlow(s, g, auto, ask) \in {s, t}
      BY DEF StartOfflineCardFlow
    <2> HIDE DEF c, r
    <2>3. t.card = [s.card EXCEPT ![g] = c] /\ s.card \in [Guns -> CardRec]
      BY DEF Data
    <2>4. t.card[h].active = s.card[h].active
      BY <2>1, <2>3
    <2>5. Alike(s, t, h)
      BY <2>4 DEF Data, Alike
    <2> HIDE DEF t
    <2> QED
      BY <1>0, <2>2, <2>5
  <1>4. Alike(s, ReconcileAutoCardWaiting(s), h)
    <2>1. (\E g \in Guns : IsSolePrepare(s, g)) =>
             (CHOOSE g \in Guns : IsSolePrepare(s, g)) \in Guns
      OBVIOUS
    <2> QED
      BY <1>0, <1>2, <1>3, <2>1 DEF ReconcileAutoCardWaiting
  <1> QED
    BY <1>1, <1>2, <1>3, <1>4

\* A reader that stops waiting, or begins to by itself, waits on its own account.
LEMMA ReaderWaits ==
    ASSUME NEW s \in Data
    PROVE  /\ WaitsAuto(ResetCardReaderState(s))
           /\ WaitsAuto(CancelAutoCardWaiting(s))
           /\ \A g, ask : WaitsAuto(s) => WaitsAuto(StartOfflineCardFlow(s, g, TRUE, ask))
           /\ WaitsAuto(s) => WaitsAuto(ReconcileAutoCardWaiting(s))
  <1>1. WaitsAuto(ResetCardReaderState(s))
    BY DEF ResetCardReaderState, Data, WaitsAuto
  <1>2. WaitsAuto(CancelAutoCardWaiting(s))
    BY <1>1 DEF CancelAutoCardWaiting, Data, ReaderRec, WaitsAuto
  <1>3. ASSUME NEW g, NEW ask, WaitsAuto(s)
        PROVE  WaitsAuto(StartOfflineCardFlow(s, g, TRUE, ask))
    BY <1>3 DEF StartOfflineCardFlow, Data, WaitsAuto
  <1>4. WaitsAuto(s) => WaitsAuto(ReconcileAutoCardWaiting(s))
    BY <1>2, <1>3 DEF ReconcileAutoCardWaiting
  <1> QED
    BY <1>1, <1>2, <1>3, <1>4

\* Reconciling the reader is tidy, and so is resetting it.
LEMMA ReconcileTidy ==
    ASSUME NEW s, Sound(s)
    PROVE  /\ Tidies(s, ReconcileAutoCardWaiting(s), {})
           /\ Tidies(s, ResetCardReaderState(s), {})
  <1>1. s \in Data
    BY DEF Sound
  <1>2. Sound(ReconcileAutoCardWaiting(s)) /\ Sound(ResetCardReaderState(s))
    BY ReconcileKeeps, ResetReaderKeeps DEF Keeps
  <1> QED
    BY <1>1, <1>2, ReaderAlike, ReaderWaits, AllTidy

\* What the assignments of transitionTo change.
LEMMA MoveAlike ==
    ASSUME NEW s, Sound(s), NEW g \in Guns, NEW to \in States
    PROVE  LET t == Move(s, g, to)
           IN  /\ Sound(t)
               /\ t.reader = s.reader
               /\ \A h \in Guns \ {g} : Alike(s, t, h)
               /\ t.gun[g].state = to
               /\ t.sess = s.sess
               /\ t.card = s.card
               /\ t.ledger = s.ledger
               /\ t.meter[g].total = s.meter[g].total
               /\ t.meter[g].ready = s.meter[g].ready
  <1> DEFINE r == [s.gun[g] EXCEPT
                     !.state = to,
                     !.retried = FALSE,
                     !.startOk = \/ to = "CHARGING"
                                 \/ s.gun[g].startOk /\ to \notin {"STARTING", "IDLE"},
                     !.gone = s.gun[g].gone /\ to # "IDLE"]
             m == [s.meter[g] EXCEPT !.voltSeen = s.meter[g].voltSeen
                                                  /\ to \notin {"CHARGING", "IDLE"}]
             t == Move(s, g, to)
  <1>1. s \in Data /\ s.meter[g] \in MeterRec /\ s.gun[g] \in GunRec
    BY Parts DEF Sound
  <1>2. m.total = s.meter[g].total /\ m.ready = s.meter[g].ready /\ r.state = to
    BY <1>1 DEF MeterRec, GunRec
  <1>3. t = [s EXCEPT !.gun[g] = r, !.meter[g] = m]
    BY DEF Move
  <1>4. Sound(t)
    BY MoveKeeps DEF Keeps
  <1> HIDE DEF r, m, t
  <1>5. /\ t.reader = s.reader /\ t.sess = s.sess /\ t.card = s.card /\ t.ledger = s.ledger
        /\ t.gun = [s.gun EXCEPT ![g] = r] /\ t.meter = [s.meter EXCEPT ![g] = m]
        /\ s.gun \in [Guns -> GunRec] /\ s.meter \in [Guns -> MeterRec]
    BY <1>1, <1>3 DEF Data
  <1>6. \A h \in Guns \ {g} : Alike(s, t, h)
    BY <1>5 DEF Alike
  <1>7. t.gun[g] = r /\ t.meter[g] = m
    BY <1>5
  <1>8. /\ Sound(t) /\ t.reader = s.reader /\ \A h \in Guns \ {g} : Alike(s, t, h)
        /\ t.gun[g].state = to /\ t.sess = s.sess /\ t.card = s.card /\ t.ledger = s.ledger
        /\ t.meter[g].total = s.meter[g].total /\ t.meter[g].ready = s.meter[g].ready
    BY <1>2, <1>4, <1>5, <1>6, <1>7
  <1> QED
    BY <1>8 DEF t

\* A gun that does not draw power, and is not to be free, may go to any state; one that
\* does only on.
LEMMA MoveTidy ==
    ASSUME NEW s, Sound(s), NEW g \in Guns, NEW to \in States \ {"IDLE"},
           s.gun[g].state \in {"CHARGING", "STOPPING"} => to \in {"CHARGING", "STOPPING"}
    PROVE  Tidies(s, Move(s, g, to), {})
  <1> DEFINE t == Move(s, g, to)
  <1>1. /\ Sound(t) /\ t.reader = s.reader /\ \A h \in Guns \ {g} : Alike(s, t, h)
        /\ t.gun[g].state = to /\ t.sess = s.sess /\ t.card = s.card /\ t.ledger = s.ledger
        /\ t.meter[g].total = s.meter[g].total /\ t.meter[g].ready = s.meter[g].ready
    BY MoveAlike
  <1> HIDE DEF t
  <1>2. CleanGun(t, g)
    BY <1>1 DEF CleanGun
  <1>3. BookedGun(s, g) => BookedGun(t, g)
    BY <1>1 DEF BookedGun
  <1>4. Tidies(s, t, {})
    BY <1>1, <1>2, <1>3, OneTidy DEF WaitsAuto
  <1> QED
    BY <1>4 DEF t

\* resetChargeSessionState leaves nothing of the session.
LEMMA ResetTidy ==
    ASSUME NEW s, Sound(s), NEW g \in Guns
    PROVE  /\ Tidies(s, ResetChargeSessionState(s, g), {})
           /\ CleanGun(ResetChargeSessionState(s, g), g)
  <1> DEFINE r == [s.gun[g] EXCEPT !.retried = FALSE, !.startOk = FALSE,
                                   !.stopSeen = FALSE, !.gone = FALSE]
             o == [armed |-> FALSE, basis |-> FALSE, merge |-> FALSE,
                   order |-> 0, issued |-> s.sess[g].issued, lastCmd |-> 0,
                   precharge |-> 0, tcuStop |-> FALSE, reason |-> "none"]
             m == [s.meter[g] EXCEPT !.stable = 0, !.voltSeen = FALSE, !.ready = FALSE,
                                     !.based = FALSE, !.last = 0, !.total = 0]
             c == [s.card[g] EXCEPT !.ask = NoAsk]
             t == ResetChargeSessionState(s, g)
  <1>1. s \in Data /\ s.meter[g] \in MeterRec
    BY Parts DEF Sound
  <1>2. t = [s EXCEPT !.gun[g] = r, !.sess[g] = o, !.meter[g] = m, !.card[g] = c]
    BY DEF ResetChargeSessionState
  <1>3. Sound(t)
    BY ResetKeeps DEF Keeps
  <1>4. m.total = 0 /\ ~m.ready
    BY <1>1 DEF MeterRec
  <1>5. /\ ~o.armed /\ ~o.basis /\ ~o.merge /\ o.order = 0 /\ o.lastCmd = 0
        /\ o.issued = s.sess[g].issued
    OBVIOUS
  <1> HIDE DEF r, o, m, c, t
  <1>6. /\ t.reader = s.reader /\ t.ledger = s.ledger
        /\ t.gun = [s.gun EXCEPT ![g] = r] /\ t.meter = [s.meter EXCEPT ![g] = m]
        /\ t.sess = [s.sess EXCEPT ![g] = o] /\ t.card = [s.card EXCEPT ![g] = c]
        /\ s.gun \in [Guns -> GunRec] /\ s.meter \in [Guns -> MeterRec]
        /\ s.sess \in [Guns -> SessRec] /\ s.card \in [Guns -> CardRec]
    BY <1>1, <1>2 DEF Data
  <1>7. \A h \in Guns \ {g} : Alike(s, t, h)
    BY <1>6 DEF Alike
  <1>8. t.meter[g] = m /\ t.sess[g] = o
    BY <1>6
  <1>9. CleanGun(t, g)
    BY <1>4, <1>5, <1>8 DEF CleanGun
  <1>10. BookedGun(t, g)
    BY <1>4, <1>8 DEF BookedGun
  <1>11. Tidies(s, t, {})
    BY <1>3, <1>5, <1>6, <1>7, <1>8, <1>9, <1>10, OneTidy DEF WaitsAuto
  <1> QED
    BY <1>9, <1>11 DEF t

\* So a gun may go to IDLE from any state.
LEMMA IdleTidy ==
    ASSUME NEW s, Sound(s), NEW g \in Guns
    PROVE  Tidies(s, ResetChargeSessionState(Move(s, g, "IDLE"), g), {})
  <1> DEFINE u == Move(s, g, "IDLE")
             t == ResetChargeSessionState(u, g)
  <1>1. /\ Sound(u) /\ u.reader = s.reader /\ \A h \in Guns \ {g} : Alike(s, u, h)
        /\ u.gun[g].state = "IDLE" /\ u.sess = s.sess
        /\ u.meter[g].total = s.meter[g].total
    BY MoveAlike DEF States
  <1> HIDE DEF u
  <1>2. Tidies(u, t, {}) /\ CleanGun(t, g)
    BY <1>1, ResetTidy
  <1>3. BookedGun(t, g)
    <2>1. t.meter[g].total = 0
      <3> DEFINE m == [u.meter[g] EXCEPT !.stable = 0, !.voltSeen = FALSE, !.ready = FALSE,
                                         !.based = FALSE, !.last = 0, !.total = 0]
      <3>1. u \in Data /\ u.meter[g] \in MeterRec
        BY <1>1, Parts DEF Sound
      <3>2. m.total = 0
        BY <3>1 DEF MeterRec
      <3>3. t.meter = [u.meter EXCEPT ![g] = m]
        BY <3>1 DEF ResetChargeSessionState, Data
      <3> HIDE DEF m, t
      <3> QED
        BY <3>1, <3>2, <3>3 DEF Data
    <2> QED
      BY <2>1 DEF BookedGun
  <1> HIDE DEF t
  <1>4. \A h \in Guns \ {g} : /\ t.sess[h].issued = s.sess[h].issued
                              /\ CleanGun(s, h) => CleanGun(t, h)
                              /\ BookedGun(s, h) => BookedGun(t, h)
    BY <1>1, <1>2, AlikeTidy DEF Tidies
  <1>5. Sound(t) /\ (WaitsAuto(s) => WaitsAuto(t)) /\ t.sess[g].issued = s.sess[g].issued
    BY <1>1, <1>2 DEF Tidies, WaitsAuto
  <1>6. Tidies(s, t, {})
    BY <1>2, <1>3, <1>4, <1>5 DEF Tidies
  <1> QED
    BY <1>6 DEF t, u

\* The record of a gun that has stopped holds its total.
LEMMA StopTidy ==
    ASSUME NEW s, Sound(s), NEW g \in Guns
    PROVE  Tidies(s, CloseSession(Move(s, g, "STOPPED"), g), {})
  <1> DEFINE u == Move(s, g, "STOPPED")
             k == u.sess[g].order
             b == u.ledger[g][k]
             n == IF b.count < 2 THEN b.count + 1 ELSE 2
             e == [count |-> n, kwh |-> u.meter[g].total, card |-> u.card[g].no]
             l == [u.ledger[g] EXCEPT ![k] = e]
             v == LogTradeRecordOnStopped(u, g)
             t == CloseSession(u, g)
  <1>1. /\ Sound(u) /\ u.reader = s.reader /\ \A h \in Guns \ {g} : Alike(s, u, h)
        /\ u.gun[g].state = "STOPPED" /\ u.sess = s.sess
        /\ u.meter[g].total = s.meter[g].total
    BY MoveAlike DEF States
  <1> HIDE DEF u
  <1>2. u \in Data /\ k \in Orders /\ u.ledger[g] \in [Orders -> Booking]
    BY <1>1, Parts DEF Sound, SessRec
  <1>3. n > 0
    <2>1. b.count \in 0 .. 2
      BY <1>2 DEF Booking
    <2> QED
      BY <2>1
  <1>4. v = [u EXCEPT !.ledger[g] = l]
    BY DEF LogTradeRecordOnStopped
  <1>5. l[k].count > 0 /\ l[k].kwh = u.meter[g].total
    BY <1>2, <1>3
  <1>6. Sound(t)
    BY <1>1, CloseKeeps DEF Keeps
  <1>7. t = PrepareOfflineCardSettlement(v, g)
    BY DEF CloseSession
  <1> HIDE DEF l, v, t
  <1>8. /\ v.gun = u.gun /\ v.sess = u.sess /\ v.meter = u.meter /\ v.card = u.card
        /\ v.reader = u.reader /\ v.ledger = [u.ledger EXCEPT ![g] = l] /\ v \in Data
    <2>1. v \in Data
      BY <1>2, LogFact DEF Quiet, v
    <2> QED
      BY <1>2, <1>4, <2>1 DEF Data
  <1>9. /\ t.gun = u.gun /\ t.sess = u.sess /\ t.meter = u.meter
        /\ t.reader = u.reader /\ t.ledger = v.ledger
        /\ \A h \in Guns \ {g} : t.card[h].active = u.card[h].active
    <2> DEFINE c == [active |-> FALSE, no |-> NoCard, swiped |-> FALSE, ask |-> NoAsk]
    <2>1. t = v \/ t = [v EXCEPT !.card[g] = c]
      BY <1>7 DEF PrepareOfflineCardSettlement
    <2> HIDE DEF c
    <2> QED
      BY <1>8, <2>1 DEF Data
  <1>10. t.ledger[g] = l /\ \A h \in Guns \ {g} : t.ledger[h] = u.ledger[h]
    BY <1>2, <1>8, <1>9 DEF Data
  <1>11. \A h \in Guns \ {g} : Alike(s, t, h)
    BY <1>1, <1>9, <1>10 DEF Alike
  <1>12. CleanGun(t, g)
    BY <1>1, <1>9 DEF CleanGun
  <1>13. BookedGun(t, g)
    BY <1>5, <1>9, <1>10 DEF BookedGun
  <1>14. Tidies(s, t, {})
    BY <1>1, <1>6, <1>9, <1>11, <1>12, <1>13, OneTidy DEF WaitsAuto
  <1> QED
    BY <1>14 DEF t, u

\* transitionTo is tidy, but for a gun that draws power and is told to do without its
\* settlement.
LEMMA TransitionTidy ==
    ASSUME NEW s, Sound(s), NEW g \in Guns, NEW to \in States,
           \/ s.gun[g].state \notin {"CHARGING", "STOPPING"}
           \/ to \in {"CHARGING", "STOPPING", "STOPPED", "IDLE"}
    PROVE  Tidies(s, TransitionTo(s, g, to), {})
  <1> DEFINE u == Move(s, g, to)
             v == Enter(u, g, to)
             t == TransitionTo(s, g, to)
  <1>1. CASE s.gun[g].state = to
    BY <1>1, SameTidy DEF TransitionTo
  <1>2. CASE s.gun[g].state # to
    <2>1. Tidies(s, v, {})
      <3>1. CASE to = "STOPPED"
        <4> DEFINE c == CloseSession(u, g)
                   w == ResetChargeSessionState(Move(c, g, "IDLE"), g)
        <4>1. v = c \/ v = ReconcileAutoCardWaiting(w)
          BY <3>1 DEF Enter, LeaveIfGone
        <4>2. Tidies(s, c, {})
          BY <3>1, StopTidy
        <4> HIDE DEF c, u, v
        <4>3. Tidies(c, w, {})
          BY <4>2, IdleTidy DEF Tidies
        <4> HIDE DEF w
        <4>4. Tidies(w, ReconcileAutoCardWaiting(w), {})
          BY <4>3, ReconcileTidy DEF Tidies
        <4>5. Tidies(s, w, {})
          BY <4>2, <4>3, TidyTrans
        <4> QED
          BY <4>1, <4>2, <4>4, <4>5, TidyTrans
      <3>2. CASE to = "IDLE"
        BY <3>2, IdleTidy DEF Enter
      <3>3. CASE to \notin {"STOPPED", "IDLE"}
        <4>1. v = u
          BY <3>3 DEF Enter
        <4>2. Tidies(s, u, {})
          BY <3>3, MoveTidy
        <4> QED
          BY <4>1, <4>2
      <3> QED
        BY <3>1, <3>2, <3>3
    <2>2. t = ReconcileAutoCardWaiting(v)
      BY <1>2 DEF TransitionTo
    <2> HIDE DEF u, v, t
    <2>3. Tidies(v, t, {})
      BY <2>1, <2>2, ReconcileTidy DEF Tidies
    <2>4. Tidies(s, t, {})
      BY <2>1, <2>3, TidyTrans
    <2> QED
      BY <2>4 DEF t
  <1> QED
    BY <1>1, <1>2

\* So does the first half of enterStopping.
LEMMA HaltTidy ==
    ASSUME NEW s, Sound(s), NEW g \in Guns
    PROVE  Tidies(s, Halt(s, g), {})
  <1> DEFINE u == TransitionTo(s, g, "STOPPING")
             r == [u.gun[g] EXCEPT !.gone = FALSE, !.stopSeen = FALSE, !.sent = "stop_charge"]
             m == [u.meter[g] EXCEPT !.stable = 0]
             t == Halt(s, g)
  <1>1. Tidies(s, u, {})
    BY TransitionTidy DEF States
  <1>2. t = [u EXCEPT !.gun[g] = r, !.meter[g] = m]
    BY DEF Halt
  <1>3. Sound(t)
    BY HaltKeeps DEF Keeps
  <1> HIDE DEF u, t
  <1>4. Sound(u) /\ u \in Data /\ u.gun[g] \in GunRec /\ u.meter[g] \in MeterRec
    BY <1>1, Parts DEF Tidies, Sound
  <1>5. r.state = u.gun[g].state /\ m.total = u.meter[g].total /\ m.ready = u.meter[g].ready
    BY <1>4 DEF GunRec, MeterRec
  <1> HIDE DEF r, m
  <1>6. /\ t.reader = u.reader /\ t.ledger = u.ledger /\ t.card = u.card /\ t.sess = u.sess
        /\ t.gun = [u.gun EXCEPT ![g] = r] /\ t.meter = [u.meter EXCEPT ![g] = m]
        /\ u.gun \in [Guns -> GunRec] /\ u.meter \in [Guns -> MeterRec]
    BY <1>2, <1>4 DEF Data
  <1>7. \A h \in Guns : Alike(u, t, h)
    BY <1>5, <1>6 DEF Alike
  <1>8. Tidies(u, t, {})
    BY <1>3, <1>6, <1>7, AllTidy DEF WaitsAuto
  <1>9. Tidies(s, t, {})
    BY <1>1, <1>8, TidyTrans
  <1> QED
    BY <1>9 DEF t

\* And the whole of it, with the peer.
LEMMA EnterStoppingTidy ==
    ASSUME NEW s, Sound(s), NEW g \in Guns
    PROVE  Tidies(s, EnterStopping(s, g), {})
  <1> DEFINE u == Halt(s, g)
             v == Halt(u, Peer(g))
             t == EnterStopping(s, g)
  <1>1. Tidies(s, u, {})
    BY HaltTidy
  <1>2. t = u \/ (Peer(g) \in Guns /\ t = v)
    BY DEF EnterStopping, HaltPeer, MergedPair, HasPeer
  <1> HIDE DEF u, t
  <1>3. Peer(g) \in Guns => Tidies(u, v, {})
    BY <1>1, HaltTidy DEF Tidies
  <1> HIDE DEF v
  <1>4. Tidies(s, t, {})
    BY <1>1, <1>2, <1>3, TidyTrans
  <1> QED
    BY <1>4 DEF t

-----------------------------------------------------------------------------
(* handleEvent.                                                            *)

\* Disarming a start, or sending it, is tidy.
LEMMA DisarmTidy ==
    ASSUME NEW s, Sound(s), NEW g \in Guns
    PROVE  Tidies(s, Disarm(s, g), {}) /\ Tidies(s, SendArmedStart(s, g), {})
  <1> DEFINE o == [s.sess[g] EXCEPT !.armed = FALSE, !.lastCmd = 0]
             q == [s.sess[g] EXCEPT !.armed = FALSE, !.lastCmd = s.sess[g].order]
             r == [s.gun[g] EXCEPT !.sent = "start_charge", !.retried = FALSE]
             d == Disarm(s, g)
             a == SendArmedStart(s, g)
             x == [s EXCEPT !.sess[g] = q, !.gun[g] = r]
  <1>1. s \in Data /\ s.sess[g] \in SessRec /\ s.gun[g] \in GunRec
    BY SessNumbers, Parts
  <1>2. Sound(d) /\ Sound(a)
    BY DisarmKeeps DEF Keeps
  <1>3. d = [s EXCEPT !.sess[g] = o]
    BY DEF Disarm
  <1>4. a = s \/ (s.sess[g].armed /\ a = x)
    BY DEF SendArmedStart
  <1>5. /\ ~o.armed /\ o.basis = s.sess[g].basis /\ o.merge = s.sess[g].merge
        /\ o.order = s.sess[g].order /\ o.issued = s.sess[g].issued /\ o.lastCmd = 0
        /\ q.order = s.sess[g].order /\ q.issued = s.sess[g].issued
        /\ r.state = s.gun[g].state
    BY <1>1 DEF SessRec, GunRec
  <1> HIDE DEF o, q, r, d, a, x
  <1>6. Tidies(s, d, {})
    <2>1. /\ d.reader = s.reader /\ d.gun = s.gun /\ d.meter = s.meter /\ d.card = s.card
          /\ d.ledger = s.ledger /\ d.sess = [s.sess EXCEPT ![g] = o]
          /\ s.sess \in [Guns -> SessRec]
      BY <1>1, <1>3 DEF Data
    <2>2. \A h \in Guns \ {g} : Alike(s, d, h)
      BY <2>1 DEF Alike
    <2>3. d.sess[g] = o
      BY <2>1
    <2>4. CleanGun(s, g) => CleanGun(d, g)
      BY <1>5, <2>1, <2>3 DEF CleanGun
    <2>5. BookedGun(s, g) => BookedGun(d, g)
      BY <1>5, <2>1, <2>3 DEF BookedGun
    <2> QED
      BY <1>2, <1>5, <2>1, <2>2, <2>3, <2>4, <2>5, OneTidy DEF WaitsAuto
  <1>7. ASSUME s.sess[g].armed, a = x PROVE Tidies(s, a, {})
    <2>1. /\ a.reader = s.reader /\ a.gun = [s.gun EXCEPT ![g] = r] /\ a.meter = s.meter
          /\ a.card = s.card /\ a.ledger = s.ledger /\ a.sess = [s.sess EXCEPT ![g] = q]
          /\ s.sess \in [Guns -> SessRec] /\ s.gun \in [Guns -> GunRec]
      BY <1>1, <1>7 DEF Data, x
    <2>2. \A h \in Guns \ {g} : Alike(s, a, h)
      BY <2>1 DEF Alike
    <2>3. a.sess[g] = q /\ a.gun[g] = r
      BY <2>1
    <2>4. CleanGun(s, g) => CleanGun(a, g)
      BY <1>5, <1>7, <2>1, <2>3 DEF CleanGun
    <2>5. BookedGun(s, g) => BookedGun(a, g)
      BY <1>5, <2>1, <2>3 DEF BookedGun
    <2> QED
      BY <1>2, <1>5, <2>1, <2>2, <2>3, <2>4, <2>5, OneTidy DEF WaitsAuto
  <1>8. Tidies(s, a, {})
    BY <1>4, <1>7, SameTidy
  <1> QED
    BY <1>6, <1>8 DEF d, a

\* A session record that says the same of the order is tidy.
LEMMA SessTidy ==
    ASSUME NEW s, Sound(s), NEW g \in Guns, NEW o \in SessRec,
           o.armed = s.sess[g].armed, o.basis = s.sess[g].basis,
           o.merge = s.sess[g].merge, o.order = s.sess[g].order,
           o.issued = s.sess[g].issued, o.lastCmd = s.sess[g].lastCmd
    PROVE  Tidies(s, [s EXCEPT !.sess[g] = o], {})
  <1> DEFINE t == [s EXCEPT !.sess[g] = o]
  <1>1. s \in Data
    BY DEF Sound
  <1>2. Sound(t)
    BY <1>1, QuietSess, QuietSound
  <1>3. /\ t.reader = s.reader /\ t.gun = s.gun /\ t.meter = s.meter /\ t.card = s.card
        /\ t.ledger = s.ledger /\ t.sess = [s.sess EXCEPT ![g] = o]
        /\ s.sess \in [Guns -> SessRec]
    BY <1>1 DEF Data
  <1> HIDE DEF t
  <1>4. \A h \in Guns : Alike(s, t, h)
    BY <1>3 DEF Alike
  <1>5. Tidies(s, t, {})
    BY <1>2, <1>3, <1>4, AllTidy DEF WaitsAuto
  <1> QED
    BY <1>5 DEF t

\* Noting a stop of the logic's own, a reason or a prepaid amount is tidy.
LEMMA NoteTidy ==
    ASSUME NEW s, Sound(s), NEW g \in Guns
    PROVE  /\ \A b \in BOOLEAN : Tidies(s, [s EXCEPT !.sess[g].tcuStop = b], {})
           /\ \A r \in Reasons : Tidies(s, [s EXCEPT !.sess[g].reason = r], {})
           /\ \A x \in Readings : Tidies(s, [s EXCEPT !.sess[g].precharge = x], {})
  <1>1. s.sess[g] \in SessRec
    BY SessNumbers
  <1>2. ASSUME NEW b \in BOOLEAN, NEW r \in Reasons
        PROVE  /\ Tidies(s, [s EXCEPT !.sess[g].tcuStop = b], {})
               /\ Tidies(s, [s EXCEPT !.sess[g].reason = r], {})
    <2> DEFINE o == [s.sess[g] EXCEPT !.tcuStop = b]
               q == [s.sess[g] EXCEPT !.reason = r]
    <2>1. /\ o \in SessRec /\ o.armed = s.sess[g].armed /\ o.basis = s.sess[g].basis
          /\ o.merge = s.sess[g].merge /\ o.order = s.sess[g].order
          /\ o.issued = s.sess[g].issued /\ o.lastCmd = s.sess[g].lastCmd
      BY <1>1 DEF SessRec
    <2>2. /\ q \in SessRec /\ q.armed = s.sess[g].armed /\ q.basis = s.sess[g].basis
          /\ q.merge = s.sess[g].merge /\ q.order = s.sess[g].order
          /\ q.issued = s.sess[g].issued /\ q.lastCmd = s.sess[g].lastCmd
      BY <1>1 DEF SessRec
    <2>3. /\ [s EXCEPT !.sess[g].tcuStop = b] = [s EXCEPT !.sess[g] = o]
          /\ [s EXCEPT !.sess[g].reason = r] = [s EXCEPT !.sess[g] = q]
      OBVIOUS
    <2> HIDE DEF o, q
    <2> QED
      BY <2>1, <2>2, <2>3, SessTidy
  <1>3. ASSUME NEW x \in Readings
        PROVE  Tidies(s, [s EXCEPT !.sess[g].precharge = x], {})
    <2> DEFINE o == [s.sess[g] EXCEPT !.precharge = x]
    <2>1. /\ o \in SessRec /\ o.armed = s.sess[g].armed /\ o.basis = s.sess[g].basis
          /\ o.merge = s.sess[g].merge /\ o.order = s.sess[g].order
          /\ o.issued = s.sess[g].issued /\ o.lastCmd = s.sess[g].lastCmd
      BY <1>1 DEF SessRec
    <2>2. [s EXCEPT !.sess[g].precharge = x] = [s EXCEPT !.sess[g] = o]
      OBVIOUS
    <2> HIDE DEF o
    <2> QED
      BY <2>1, <2>2, SessTidy
  <1>4. TRUE \in BOOLEAN /\ "none" \in Reasons
    BY DEF Reasons
  <1> QED
    BY <1>2, <1>3, <1>4

\* A gun's own flags say nothing of the session.
LEMMA FlagTidy ==
    ASSUME NEW s, Sound(s), NEW g \in Guns, NEW r \in GunRec, r.state = s.gun[g].state
    PROVE  Tidies(s, [s EXCEPT !.gun[g] = r], {})
  <1> DEFINE t == [s EXCEPT !.gun[g] = r]
  <1>1. s \in Data
    BY DEF Sound
  <1>2. Sound(t)
    BY <1>1, FlagKeeps DEF Keeps
  <1>3. /\ t.reader = s.reader /\ t.sess = s.sess /\ t.meter = s.meter /\ t.card = s.card
        /\ t.ledger = s.ledger /\ t.gun = [s.gun EXCEPT ![g] = r]
        /\ s.gun \in [Guns -> GunRec]
    BY <1>1 DEF Data
  <1> HIDE DEF t
  <1>4. \A h \in Guns : Alike(s, t, h)
    BY <1>3 DEF Alike
  <1>5. Tidies(s, t, {})
    BY <1>2, <1>3, <1>4, AllTidy DEF WaitsAuto
  <1> QED
    BY <1>5 DEF t

\* stopCompleteSeen, startSuccessFlag and the unplugged vehicle, for three.
LEMMA FlagsTidy ==
    ASSUME NEW s, Sound(s), NEW g \in Guns
    PROVE  /\ Tidies(s, [s EXCEPT !.gun[g].stopSeen = TRUE], {})
           /\ \A b \in BOOLEAN : Tidies(s, [s EXCEPT !.gun[g].startOk = b], {})
           /\ Tidies(s, [s EXCEPT !.gun[g].gone = TRUE], {})
  <1>1. s.gun[g] \in GunRec
    BY Parts DEF Sound
  <1>2. Tidies(s, [s EXCEPT !.gun[g].stopSeen = TRUE], {})
    <2> DEFINE r == [s.gun[g] EXCEPT !.stopSeen = TRUE]
    <2>1. r \in GunRec /\ r.state = s.gun[g].state
      BY <1>1 DEF GunRec
    <2>2. [s EXCEPT !.gun[g] = r] = [s EXCEPT !.gun[g].stopSeen = TRUE]
      OBVIOUS
    <2> HIDE DEF r
    <2>3. Tidies(s, [s EXCEPT !.gun[g] = r], {})
      BY <2>1, FlagTidy
    <2> QED
      BY <2>2, <2>3
  <1>3. ASSUME NEW b \in BOOLEAN PROVE Tidies(s, [s EXCEPT !.gun[g].startOk = b], {})
    <2> DEFINE r == [s.gun[g] EXCEPT !.startOk = b]
    <2>1. r \in GunRec /\ r.state = s.gun[g].state
      BY <1>1 DEF GunRec
    <2>2. [s EXCEPT !.gun[g] = r] = [s EXCEPT !.gun[g].startOk = b]
      OBVIOUS
    <2> HIDE DEF r
    <2>3. Tidies(s, [s EXCEPT !.gun[g] = r], {})
      BY <2>1, FlagTidy
    <2> QED
      BY <2>2, <2>3
  <1>4. Tidies(s, [s EXCEPT !.gun[g].gone = TRUE], {})
    <2> DEFINE r == [s.gun[g] EXCEPT !.gone = TRUE]
    <2>1. r \in GunRec /\ r.state = s.gun[g].state
      BY <1>1 DEF GunRec
    <2>2. [s EXCEPT !.gun[g] = r] = [s EXCEPT !.gun[g].gone = TRUE]
      OBVIOUS
    <2> HIDE DEF r
    <2>3. Tidies(s, [s EXCEPT !.gun[g] = r], {})
      BY <2>1, FlagTidy
    <2> QED
      BY <2>2, <2>3
  <1> QED
    BY <1>2, <1>3, <1>4

\* Every state is tidy under every event.
LEMMA EventTidy ==
    ASSUME NEW s, Sound(s), NEW g \in Guns, NEW e
    PROVE  Tidies(s, HandleEvent(s, g, e), {})
  <1> DEFINE st == s.gun[g].state
             h == HandleEvent(s, g, e)
  <1>0. st \in States /\ s \in Data
    BY Parts DEF Sound, GunRec
  <1>1. Tidies(s, s, {})
    BY SameTidy
  <1>2. /\ "PREPARE" \in States /\ "ERROR" \in States /\ "IDLE" \in States
        /\ "STOPPED" \in States /\ "STARTING" \in States /\ "CHARGING" \in States
    BY DEF States
  <1>3. CASE st \in {"IDLE", "STOPPED", "ERROR"}
    <2>1. h = s \/ \E to \in {"PREPARE", "ERROR", "IDLE"} : h = TransitionTo(s, g, to)
      BY <1>3 DEF HandleEvent, OnIdle, OnStopped, OnError
    <2>2. \A to \in {"PREPARE", "ERROR", "IDLE"} : Tidies(s, TransitionTo(s, g, to), {})
      BY <1>2, <1>3, TransitionTidy
    <2> QED
      BY <1>1, <2>1, <2>2
  <1>4. CASE st = "PREPARE"
    <2> DEFINE d == Disarm(s, g)
               a == SendArmedStart(s, g)
    <2>1. \/ h = TransitionTo(a, g, "STARTING")
          \/ h = d
          \/ h = TransitionTo(d, g, "IDLE")
          \/ h = TransitionTo(s, g, "ERROR")
          \/ h = s
      BY <1>4 DEF HandleEvent, OnPrepare
    <2>2. Tidies(s, d, {}) /\ Tidies(s, a, {})
      BY DisarmTidy
    <2>3. a.gun[g].state = st
      BY <1>0, SendFact DEF Quiet
    <2> HIDE DEF d, a, h
    <2>4. Tidies(a, TransitionTo(a, g, "STARTING"), {})
      BY <1>2, <1>4, <2>2, <2>3, TransitionTidy DEF Tidies
    <2>5. Tidies(d, TransitionTo(d, g, "IDLE"), {})
      BY <1>2, <2>2, TransitionTidy DEF Tidies
    <2>6. Tidies(s, TransitionTo(s, g, "ERROR"), {})
      BY <1>2, <1>4, TransitionTidy
    <2>7. Tidies(s, h, {})
      BY <1>1, <2>1, <2>2, <2>4, <2>5, <2>6, TidyTrans
    <2> QED
      BY <2>7 DEF h
  <1>5. CASE st \in {"STARTING", "CHARGING"}
    <2> DEFINE no == FALSE
               c == [s EXCEPT !.sess[g].tcuStop = no]
               x == EnterStopping(s, g)
               y == [x EXCEPT !.gun[g].stopSeen = TRUE]
    <2>1. \/ h = TransitionTo(c, g, "CHARGING")
          \/ h \in {x, y, s}
          \/ h = TransitionTo(s, g, "IDLE")
      BY <1>5 DEF HandleEvent, OnStarting, OnCharging
    <2>2. no \in BOOLEAN
      OBVIOUS
    <2> HIDE DEF no, h
    <2>3. Tidies(s, c, {})
      BY <2>2, NoteTidy
    <2>4. Tidies(s, x, {})
      BY EnterStoppingTidy
    <2> HIDE DEF c, x
    <2>5. Tidies(c, TransitionTo(c, g, "CHARGING"), {})
      BY <1>2, <2>3, TransitionTidy DEF Tidies
    <2>6. Tidies(x, y, {})
      BY <2>4, FlagsTidy DEF Tidies
    <2>7. Tidies(s, TransitionTo(s, g, "IDLE"), {})
      BY <1>2, TransitionTidy
    <2> HIDE DEF y
    <2>8. Tidies(s, h, {})
      BY <1>1, <2>1, <2>3, <2>4, <2>5, <2>6, <2>7, TidyTrans
    <2> QED
      BY <2>8 DEF h
  <1>6. CASE st = "STOPPING"
    <2>1. \/ h = [s EXCEPT !.gun[g].stopSeen = TRUE]
          \/ h = TransitionTo(s, g, "STOPPED")
          \/ h = s
      BY <1>6 DEF HandleEvent, OnStopping
    <2>2. Tidies(s, TransitionTo(s, g, "STOPPED"), {})
      BY <1>2, TransitionTidy
    <2>3. Tidies(s, [s EXCEPT !.gun[g].stopSeen = TRUE], {})
      BY FlagsTidy
    <2> HIDE DEF h
    <2>4. Tidies(s, h, {})
      BY <1>1, <2>1, <2>2, <2>3
    <2> QED
      BY <2>4 DEF h
  <1> QED
    BY <1>0, <1>3, <1>4, <1>5, <1>6 DEF States

\* So is an event after a tidy change.
LEMMA TidyThenEvent ==
    ASSUME NEW s, NEW t, NEW S, Tidies(s, t, S), NEW g \in Guns, NEW e
    PROVE  Tidies(s, HandleEvent(t, g, e), S)
  <1>1. Tidies(t, HandleEvent(t, g, e), {})
    BY EventTidy DEF Tidies
  <1> QED
    BY <1>1, TidyTrans

-----------------------------------------------------------------------------
(* Orders and starts.                                                      *)

\* Settling a pair on the smaller amount is tidy.
LEMMA SyncTidy ==
    ASSUME NEW s, Sound(s), NEW g \in Guns
    PROVE  Tidies(s, SyncMergePrechargeAmount(s, g), {})
  <1> DEFINE p == Peer(g)
             x == Least(s.sess[g].precharge, s.sess[p].precharge)
             t == [s EXCEPT !.sess[g].precharge = x]
             u == [t EXCEPT !.sess[p].precharge = x]
             r == SyncMergePrechargeAmount(s, g)
  <1>1. r = s \/ (p \in Guns /\ r = u)
    BY DEF SyncMergePrechargeAmount, MergedPair, HasPeer
  <1>2. CASE r = s
    BY <1>2, SameTidy
  <1>3. CASE p \in Guns /\ r = u
    <2>1. x \in Readings
      BY <1>3, SessNumbers DEF SessRec, Least
    <2> HIDE DEF x, p
    <2>2. Tidies(s, t, {})
      BY <2>1, NoteTidy
    <2> HIDE DEF t
    <2>3. Tidies(t, u, {})
      BY <1>3, <2>1, <2>2, NoteTidy DEF Tidies
    <2> HIDE DEF u, r
    <2>4. Tidies(s, r, {})
      BY <1>3, <2>2, <2>3, TidyTrans
    <2> QED
      BY <2>4 DEF r
  <1> QED
    BY <1>1, <1>2, <1>3

\* An accepted start opens an order, and leaves nothing behind on a gun that is not
\* free or has a card.
LEMMA ArmTidy ==
    ASSUME NEW s, Sound(s), NEW g \in Guns, NEW c \in StartData,
           s.sess[g].issued < MaxOrder,
           s.gun[g].state # "IDLE" \/ s.card[g].active
    PROVE  Tidies(s, ArmPendingStart(s, g, c), {g})
  <1> DEFINE o == [s.sess[g] EXCEPT !.basis = TRUE, !.merge = c.merge,
                                    !.order = s.sess[g].issued + 1,
                                    !.issued = s.sess[g].issued + 1,
                                    !.precharge = c.precharge,
                                    !.tcuStop = FALSE, !.reason = "none"]
             m == [s.meter[g] EXCEPT !.stable = 0, !.ready = c.model, !.based = FALSE,
                                     !.last = 0, !.total = 0]
             t == [s EXCEPT !.sess[g] = o, !.meter[g] = m]
             u == SyncMergePrechargeAmount(t, g)
             b == [u.sess[g] EXCEPT !.armed = TRUE]
             v == ArmPendingStart(s, g, c)
  <1>1. v = [u EXCEPT !.sess[g] = b]
    BY DEF ArmPendingStart, UpdateAuthBasis
  <1>2. /\ s \in Data /\ s.sess[g] \in SessRec /\ s.meter[g] \in MeterRec
        /\ s.sess[g].issued \in Nat
    BY SessNumbers, Parts
  <1>3. Sound(v)
    BY <1>2, ArmFact, QuietSound
  <1>4. o \in SessRec
    <2>1. s.sess[g].issued + 1 \in Orders
      BY <1>2, BoundAssumption DEF SessRec, Orders
    <2> QED
      BY <1>2, <2>1 DEF SessRec, StartData, Reasons
  <1>5. m \in MeterRec /\ m.total = 0
    <2>1. 0 \in 0 .. 3 /\ 0 \in Readings /\ 0 \in Nat /\ c.model \in BOOLEAN
      BY BoundAssumption DEF Readings, StartData
    <2> QED
      BY <1>2, <2>1 DEF MeterRec
  <1> HIDE DEF o, m, v
  <1>6. Sound(t)
    BY <1>2, <1>4, <1>5, QuietSessMeter, QuietSound
  <1>7. Tidies(s, t, {g})
    <2>1. /\ t.reader = s.reader /\ t.gun = s.gun /\ t.card = s.card /\ t.ledger = s.ledger
          /\ t.sess = [s.sess EXCEPT ![g] = o] /\ t.meter = [s.meter EXCEPT ![g] = m]
          /\ s.sess \in [Guns -> SessRec] /\ s.meter \in [Guns -> MeterRec]
      BY <1>2 DEF Data
    <2> HIDE DEF t
    <2>2. \A h \in Guns \ {g} : Alike(s, t, h)
      BY <2>1 DEF Alike
    <2>3. t.meter[g] = m
      BY <2>1
    <2>4. CleanGun(t, g)
      BY <2>1 DEF CleanGun
    <2>5. BookedGun(t, g)
      BY <1>5, <2>3 DEF BookedGun
    <2> QED
      BY <1>6, <2>1, <2>2, <2>4, <2>5, OneTidy DEF WaitsAuto
  <1>8. t.gun = s.gun /\ t.card = s.card
    BY <1>2 DEF Data
  <1> HIDE DEF t
  <1>9. Tidies(t, u, {})
    BY <1>6, SyncTidy
  <1>10. u.gun[g].state = s.gun[g].state /\ u.card[g].active = s.card[g].active
    <2>1. u.gun = t.gun /\ u.card = t.card
      BY <1>6 DEF SyncMergePrechargeAmount, Sound, Data
    <2> QED
      BY <1>8, <2>1
  <1> HIDE DEF u
  <1>11. u \in Data /\ u.sess[g] \in SessRec /\ Sound(u)
    BY <1>9, SessNumbers DEF Tidies
  <1>12. /\ b.order = u.sess[g].order /\ b.issued = u.sess[g].issued
    BY <1>11 DEF SessRec
  <1> HIDE DEF b
  <1>13. Tidies(u, v, {})
    <2>1. /\ v.reader = u.reader /\ v.gun = u.gun /\ v.card = u.card /\ v.ledger = u.ledger
          /\ v.sess = [u.sess EXCEPT ![g] = b] /\ v.meter = u.meter
          /\ u.sess \in [Guns -> SessRec]
      BY <1>1, <1>11 DEF Data
    <2>2. \A h \in Guns \ {g} : Alike(u, v, h)
      BY <2>1 DEF Alike
    <2>3. v.sess[g] = b
      BY <2>1
    <2>4. CleanGun(v, g)
      BY <1>10, <2>1 DEF CleanGun
    <2>5. BookedGun(u, g) => BookedGun(v, g)
      BY <1>12, <2>1, <2>3 DEF BookedGun
    <2> QED
      BY <1>3, <1>12, <2>1, <2>2, <2>3, <2>4, <2>5, OneTidy DEF WaitsAuto
  <1>14. Tidies(s, v, {g})
    BY <1>7, <1>9, <1>13, TidyTrans
  <1> QED
    BY <1>14 DEF v

\* Dispatching a merged pair is tidy.
LEMMA TryDispatchTidy ==
    ASSUME NEW s, Sound(s), NEW g \in Guns
    PROVE  Tidies(s, TryDispatchMergePendingStart(s, g), {})
  <1> DEFINE p == Peer(g)
             t == SyncMergePrechargeAmount(s, g)
             u == SyncMergePrechargeAmount(t, p)
             v == HandleEvent(u, g, "AUTH_OK")
             w == HandleEvent(v, p, "AUTH_OK")
             r == TryDispatchMergePendingStart(s, g)
  <1>1. r = s \/ (p \in Guns /\ r = w)
    BY DEF TryDispatchMergePendingStart, DispatchArmedStart, HasPeer
  <1>2. Tidies(s, t, {})
    BY SyncTidy
  <1> HIDE DEF t, p, r
  <1>3. p \in Guns => Tidies(t, u, {})
    BY <1>2, SyncTidy DEF Tidies
  <1> HIDE DEF u
  <1>4. p \in Guns => Tidies(s, u, {})
    BY <1>2, <1>3, TidyTrans
  <1>5. p \in Guns => Tidies(s, v, {})
    BY <1>4, TidyThenEvent
  <1> HIDE DEF v
  <1>6. p \in Guns => Tidies(s, w, {})
    BY <1>5, TidyThenEvent
  <1> HIDE DEF w
  <1>7. Tidies(s, r, {})
    BY <1>1, <1>6, SameTidy
  <1> QED
    BY <1>7 DEF r

\* A new card record is tidy where the card session stays as it is, or begins.
LEMMA CardTidy ==
    ASSUME NEW s, Sound(s), NEW g \in Guns, NEW c \in CardRec,
           c.active \/ c.active = s.card[g].active
    PROVE  Tidies(s, [s EXCEPT !.card[g] = c], {})
  <1> DEFINE t == [s EXCEPT !.card[g] = c]
  <1>1. s \in Data
    BY DEF Sound
  <1>2. Sound(t)
    BY <1>1, CardKeeps DEF Keeps
  <1>3. /\ t.reader = s.reader /\ t.sess = s.sess /\ t.meter = s.meter /\ t.gun = s.gun
        /\ t.ledger = s.ledger /\ t.card = [s.card EXCEPT ![g] = c]
        /\ s.card \in [Guns -> CardRec]
    BY <1>1 DEF Data
  <1> HIDE DEF t
  <1>4. \A h \in Guns \ {g} : Alike(s, t, h)
    BY <1>3 DEF Alike
  <1>5. t.card[g] = c
    BY <1>3
  <1>6. /\ CleanGun(s, g) => CleanGun(t, g)
        /\ BookedGun(s, g) => BookedGun(t, g)
    BY <1>3, <1>5 DEF CleanGun, BookedGun
  <1>7. Tidies(s, t, {})
    BY <1>2, <1>3, <1>4, <1>6, OneTidy DEF WaitsAuto
  <1> QED
    BY <1>7 DEF t

\* A card start is tidy but for the order it opens, in whatever state it finds the gun.
LEMMA BeginCardTidy ==
    ASSUME NEW s, Sound(s), NEW g \in Guns, s.sess[g].issued < MaxOrder
    PROVE  Tidies(s, BeginOfflineCardCharge(s, g), {g})
  <1> DEFINE data == [merge |-> s.card[g].ask.merge, precharge |-> 0,
                      model |-> \/ CardFeeFallback
                                \/ s.card[g].ask.model
                                \/ s.meter[g].ready]
             c == [s.card[g] EXCEPT !.active = TRUE, !.swiped = FALSE]
             t == [s EXCEPT !.card[g] = c]
             u == ArmPendingStart(t, g, data)
             d == [u.card[g] EXCEPT !.ask = NoAsk]
             v == [u EXCEPT !.card[g] = d]
             w == ResetCardReaderState(v)
  <1>1. s \in Data /\ s.card[g] \in CardRec /\ s.meter[g] \in MeterRec
    BY Parts DEF Sound
  <1>2. data \in StartData
    <2>1. s.card[g].ask.merge \in BOOLEAN /\ s.card[g].ask.model \in BOOLEAN
      BY <1>1 DEF CardRec, AskRec
    <2>2. 0 \in Readings
      BY BoundAssumption DEF Readings
    <2> QED
      BY <1>1, <2>1, <2>2, SwitchAssumption DEF StartData, MeterRec
  <1>3. c \in CardRec /\ c.active
    BY <1>1 DEF CardRec
  <1>4. BeginOfflineCardCharge(s, g) = HandleEvent(w, g, "AUTH_OK")
    BY DEF BeginOfflineCardCharge, DispatchArmedStart
  <1> HIDE DEF c, data
  <1>5. Tidies(s, t, {}) /\ t.sess = s.sess /\ t.card[g] = c
    BY <1>1, <1>3, CardTidy DEF Data
  <1> HIDE DEF t
  <1>6. Tidies(t, u, {g})
    BY <1>2, <1>3, <1>5, ArmTidy DEF Tidies
  <1> HIDE DEF u
  <1>7. u.card[g] \in CardRec
    BY <1>6, Parts DEF Tidies, Sound
  <1>8. d \in CardRec /\ d.active = u.card[g].active
    BY <1>7 DEF CardRec, NoAsk, AskRec
  <1> HIDE DEF d
  <1>9. Tidies(u, v, {})
    BY <1>6, <1>8, CardTidy DEF Tidies
  <1> HIDE DEF v
  <1>10. Tidies(v, w, {})
    BY <1>9, ReconcileTidy DEF Tidies
  <1> HIDE DEF w
  <1>11. Tidies(s, u, {g})
    BY <1>5, <1>6 DEF Tidies
  <1>12. Tidies(s, HandleEvent(w, g, "AUTH_OK"), {g})
    BY <1>9, <1>10, <1>11, TidyTrans, TidyThenEvent
  <1> QED
    BY <1>4, <1>12

-----------------------------------------------------------------------------
(* Metering, the stop at the prepaid amount, and the links.                *)

\* A reading is billed to a gun that draws power, whose total is not yet on record.
LEMMA MeterDataTidy ==
    ASSUME NEW s, Sound(s), NEW g \in Guns, NEW kwh \in Readings,
           NEW volt \in {"low", "normal"}
    PROVE  Tidies(s, HandleMeterData(s, g, kwh, volt), {})
  <1> DEFINE st == s.gun[g].state
             taken == TakeReading(s.meter[g], kwh)
             read == TakeVoltage(taken, volt, st = "CHARGING")
             m == IF st \in {"CHARGING", "STOPPING"} THEN BillReading(read, kwh) ELSE read
             t == HandleMeterData(s, g, kwh, volt)
  <1>1. s \in Data /\ s.meter[g] \in MeterRec
    BY Parts DEF Sound
  <1>2. Sound(t)
    BY <1>1, MeterDataFact, QuietSound
  <1>3. taken \in MeterRec /\ read \in MeterRec
    BY <1>1, TakeReadingFact, TakeVoltageFact
  <1>4. read.total = s.meter[g].total /\ read.ready = s.meter[g].ready
    BY <1>1, <1>3 DEF TakeReading, TakeVoltage, MeterRec
  <1>5. t = [s EXCEPT !.meter[g] = m]
    BY DEF HandleMeterData
  <1>6. st \notin {"CHARGING", "STOPPING"} => m = read
    OBVIOUS
  <1> HIDE DEF taken, read, m, t
  <1>7. /\ t.reader = s.reader /\ t.sess = s.sess /\ t.card = s.card /\ t.gun = s.gun
        /\ t.ledger = s.ledger /\ t.meter = [s.meter EXCEPT ![g] = m]
        /\ s.meter \in [Guns -> MeterRec]
    BY <1>1, <1>5 DEF Data
  <1>8. \A h \in Guns \ {g} : Alike(s, t, h)
    BY <1>7 DEF Alike
  <1>9. t.meter[g] = m
    BY <1>7
  <1>10. /\ CleanGun(s, g) => CleanGun(t, g)
         /\ BookedGun(s, g) => BookedGun(t, g)
    BY <1>4, <1>6, <1>7, <1>9 DEF CleanGun, BookedGun
  <1>11. Tidies(s, t, {})
    BY <1>2, <1>7, <1>8, <1>10, OneTidy DEF WaitsAuto
  <1> QED
    BY <1>11 DEF t

\* A stop of the logic's own is tidy.
LEMMA RequestStopTidy ==
    ASSUME NEW s, Sound(s), NEW g \in Guns
    PROVE  Tidies(s, RequestStop(s, g), {})
  <1> DEFINE yes == TRUE
             u == [s EXCEPT !.sess[g].tcuStop = yes]
  <1>1. yes \in BOOLEAN
    OBVIOUS
  <1>2. RequestStop(s, g) = s \/ RequestStop(s, g) = HandleEvent(u, g, "STOP_CMD")
    BY DEF RequestStop
  <1> HIDE DEF yes
  <1>3. Tidies(s, u, {})
    BY <1>1, NoteTidy
  <1> HIDE DEF u
  <1>4. Tidies(s, HandleEvent(u, g, "STOP_CMD"), {})
    BY <1>3, TidyThenEvent
  <1> QED
    BY <1>2, <1>4, SameTidy

\* So is the stop at the prepaid amount.
LEMMA PrepaidTidy ==
    ASSUME NEW s, Sound(s), NEW g \in Guns
    PROVE  Tidies(s, MaybeTriggerTcuStopByPrecharge(s, g), {})
  <1> DEFINE t == RequestStop(s, g)
             u == RequestStop(t, Peer(g))
             r == MaybeTriggerTcuStopByPrecharge(s, g)
  <1>1. Tidies(s, t, {})
    BY RequestStopTidy
  <1>2. r = s \/ r = t \/ (Peer(g) \in Guns /\ r = u)
    BY DEF MaybeTriggerTcuStopByPrecharge, RequestPeerStop, HasPeer
  <1> HIDE DEF t, r
  <1>3. Peer(g) \in Guns => Tidies(t, u, {})
    BY <1>1, RequestStopTidy DEF Tidies
  <1> HIDE DEF u
  <1>4. Tidies(s, r, {})
    BY <1>1, <1>2, <1>3, SameTidy, TidyTrans
  <1> QED
    BY <1>4 DEF r

\* A new link record is tidy.
LEMMA LinkTidy ==
    ASSUME NEW s, Sound(s), NEW g \in Guns, NEW l \in Links, NEW r \in LinkRec
    PROVE  Tidies(s, WithLink(s, g, l, r), {})
  <1> DEFINE t == WithLink(s, g, l, r)
  <1>1. Sound(t)
    BY LinkKeeps DEF Keeps
  <1>2. /\ t.reader = s.reader /\ t.sess = s.sess /\ t.card = s.card /\ t.gun = s.gun
        /\ t.ledger = s.ledger /\ t.meter = s.meter
    BY DEF WithLink, Sound, Data
  <1> HIDE DEF t
  <1>3. \A h \in Guns : Alike(s, t, h)
    BY <1>2 DEF Alike
  <1>4. Tidies(s, t, {})
    BY <1>1, <1>2, <1>3, AllTidy DEF WaitsAuto
  <1> QED
    BY <1>4 DEF t

\* A link's reports are tidy.
LEMMA LinkReportsTidy ==
    ASSUME NEW s, Sound(s), NEW g \in Guns, NEW l \in Links
    PROVE  /\ Tidies(s, NoteOffline(s, g, l), {})
           /\ Tidies(s, NoteOnline(s, g, l), {})
           /\ Tidies(s, [s EXCEPT !.link[g][l] = Cleared], {})
  <1> DEFINE r == [s.link[g][l] EXCEPT !.pending = TRUE]
             x == WithLink(s, g, l, r)
             t == WithLink(s, g, l, Cleared)
             n == NoteOnline(s, g, l)
  <1>1. s.link[g][l] \in LinkRec /\ s \in Data
    BY Parts DEF Sound
  <1>2. r \in LinkRec /\ Cleared \in LinkRec
    BY <1>1 DEF LinkRec, Cleared
  <1>3. NoteOffline(s, g, l) = s \/ NoteOffline(s, g, l) = x
    BY DEF NoteOffline, WithLink
  <1>4. [s EXCEPT !.link[g][l] = Cleared] = t
    BY DEF WithLink
  <1>5. n = t \/ (t.gun[g].state = "ERROR"
                   /\ \E to \in {"PREPARE", "IDLE"} : n = TransitionTo(t, g, to))
    BY <1>4 DEF NoteOnline
  <1> HIDE DEF r
  <1>6. Tidies(s, x, {}) /\ Tidies(s, t, {})
    BY <1>2, LinkTidy
  <1> HIDE DEF x, t, n
  <1>7. {"PREPARE", "IDLE"} \subseteq States
    BY DEF States
  <1>8. t.gun[g].state = "ERROR" =>
          \A to \in {"PREPARE", "IDLE"} : Tidies(t, TransitionTo(t, g, to), {})
    BY <1>6, <1>7, TransitionTidy DEF Tidies
  <1>9. Tidies(s, n, {})
    BY <1>5, <1>6, <1>8, TidyTrans
  <1> QED
    BY <1>3, <1>4, <1>6, <1>9, SameTidy DEF n

\* So is a confirmed fault.
LEMMA ConfirmTidy ==
    ASSUME NEW s, Sound(s), NEW g \in Guns, NEW l \in Links
    PROVE  Tidies(s, ConfirmOffline(s, g, l), {})
  <1> DEFINE r == [fault |-> TRUE, latched |-> TRUE, pending |-> FALSE]
             t == LatchFault(s, g, l)
             b == IF s.gun[g].state \in {"STARTING", "CHARGING"} THEN "fault"
                  ELSE t.sess[g].reason
             u == [t EXCEPT !.sess[g].reason = b]
             c == ConfirmOffline(s, g, l)
  <1>1. r \in LinkRec
    BY DEF LinkRec
  <1>2. t = WithLink(s, g, l, r)
    BY DEF LatchFault, WithLink
  <1>3. c = t \/ c = HandleEvent(u, g, "DEVICE_ERR")
    BY DEF ConfirmOffline
  <1> HIDE DEF r, t, c
  <1>4. Tidies(s, t, {})
    BY <1>1, <1>2, LinkTidy
  <1>5. b \in Reasons
    BY <1>4, SessNumbers DEF Tidies, SessRec, Reasons
  <1> HIDE DEF b
  <1>6. Tidies(t, u, {})
    <2>1. Sound(t)
      BY <1>4 DEF Tidies
    <2> QED
      BY <1>5, <2>1, NoteTidy
  <1> HIDE DEF u
  <1>7. Tidies(s, u, {})
    BY <1>4, <1>6, TidyTrans
  <1>8. Tidies(s, c, {})
    BY <1>3, <1>4, <1>7, TidyThenEvent
  <1> QED
    BY <1>8 DEF c


-----------------------------------------------------------------------------
(* One iteration of the main loop on a gun.                                *)

\* What a check of the links passes on.
TidyBy(s, i) == i = [data |-> i.data, over |-> i.over] /\ Tidies(s, i.data, {})

\* Each of the four checks is tidy.
LEMMA ChecksTidy ==
    ASSUME NEW s, NEW i, TidyBy(s, i), NEW g \in Guns, NEW due
    PROVE  /\ TidyBy(s, MaybeConfirmMeterOfflineFault(i, g, due))
           /\ TidyBy(s, MaybeConfirmPlatformOfflineFault(i, g, due))
           /\ TidyBy(s, MaybeConfirmPileYxTimeoutFault(i, g, due))
           /\ TidyBy(s, MaybeConfirmPileOfflineFault(i, g, due))
  <1>1. /\ TidyBy(s, Confirm(i, g, "meter"))
        /\ TidyBy(s, Confirm(i, g, "platform"))
        /\ TidyBy(s, Confirm(i, g, "pile"))
    <2>1. ASSUME NEW l \in Links
          PROVE  TidyBy(s, Confirm(i, g, l))
      <3> DEFINE c == ConfirmOffline(i.data, g, l)
                 o == i.data.gun[g].state \notin {"STOPPING", "ERROR"}
      <3>1. Confirm(i, g, l) = [data |-> c, over |-> o]
        BY DEF Confirm
      <3>2. Tidies(i.data, c, {})
        BY ConfirmTidy DEF TidyBy, Tidies
      <3> HIDE DEF c, o
      <3>3. Tidies(s, c, {})
        BY <3>2, TidyTrans DEF TidyBy
      <3> QED
        BY <3>1, <3>3 DEF TidyBy
    <2> QED
      BY <2>1, LinkNames
  <1>2. TidyBy(s, [i EXCEPT !.data.link[g]["platform"] = Cleared])
    <2> DEFINE x == i.data
               t == [x EXCEPT !.link[g]["platform"] = Cleared]
    <2>1. Tidies(s, x, {}) /\ i = [data |-> x, over |-> i.over]
      BY DEF TidyBy
    <2>2. [i EXCEPT !.data.link[g]["platform"] = Cleared] = [data |-> t, over |-> i.over]
      BY <2>1
    <2> HIDE DEF x
    <2>3. Sound(x)
      BY <2>1 DEF Tidies
    <2>4. Tidies(x, t, {})
      BY <2>3, LinkNames, LinkReportsTidy
    <2> HIDE DEF t
    <2>5. Tidies(s, t, {})
      BY <2>1, <2>4, TidyTrans
    <2>6. TidyBy(s, [data |-> t, over |-> i.over])
      BY <2>5 DEF TidyBy
    <2> QED
      BY <2>2, <2>6
  <1>3. TidyBy(s, MaybeConfirmMeterOfflineFault(i, g, due))
    BY <1>1 DEF MaybeConfirmMeterOfflineFault
  <1>4. TidyBy(s, MaybeConfirmPlatformOfflineFault(i, g, due))
    BY <1>1, <1>2 DEF MaybeConfirmPlatformOfflineFault
  <1>5. TidyBy(s, MaybeConfirmPileYxTimeoutFault(i, g, due))
    BY <1>1 DEF MaybeConfirmPileYxTimeoutFault
  <1>6. TidyBy(s, MaybeConfirmPileOfflineFault(i, g, due))
    BY <1>1 DEF MaybeConfirmPileOfflineFault
  <1> QED
    BY <1>3, <1>4, <1>5, <1>6

\* So are the four together.
LEMMA CheckLinksTidy ==
    ASSUME NEW s, Sound(s), NEW g \in Guns, NEW due
    PROVE  Tidies(s, CheckLinks(s, g, due).data, {})
  <1> DEFINE a == [data |-> s, over |-> FALSE]
             b == MaybeConfirmMeterOfflineFault(a, g, due)
             c == MaybeConfirmPlatformOfflineFault(b, g, due)
             d == MaybeConfirmPileYxTimeoutFault(c, g, due)
             e == MaybeConfirmPileOfflineFault(d, g, due)
  <1>1. TidyBy(s, a)
    BY SameTidy DEF TidyBy
  <1>2. CheckLinks(s, g, due) = e
    BY DEF CheckLinks
  <1> HIDE DEF a
  <1>3. TidyBy(s, b)
    BY <1>1, ChecksTidy
  <1> HIDE DEF b
  <1>4. TidyBy(s, c)
    BY <1>3, ChecksTidy
  <1> HIDE DEF c
  <1>5. TidyBy(s, d)
    BY <1>4, ChecksTidy
  <1> HIDE DEF d
  <1>6. TidyBy(s, e)
    BY <1>5, ChecksTidy
  <1> QED
    BY <1>2, <1>6 DEF TidyBy

\* An event with a reason of its own is tidy.
LEMMA ReasonEventTidy ==
    ASSUME NEW s, Sound(s), NEW g \in Guns, NEW e
    PROVE  Tidies(s, HandleEvent([s EXCEPT !.sess[g].reason = "fault"], g, e), {})
  <1> DEFINE yes == "fault"
             u == [s EXCEPT !.sess[g].reason = yes]
  <1>1. yes \in Reasons
    BY DEF Reasons
  <1>2. u = [s EXCEPT !.sess[g].reason = "fault"]
    OBVIOUS
  <1> HIDE DEF yes
  <1>3. Tidies(s, u, {})
    BY <1>1, NoteTidy
  <1> HIDE DEF u
  <1>4. Tidies(s, HandleEvent(u, g, e), {})
    BY <1>3, TidyThenEvent
  <1> QED
    BY <1>2, <1>4

\* The limits of STARTING are tidy.
LEMMA PollStartingTidy ==
    ASSUME NEW s, Sound(s), NEW g \in Guns, NEW due
    PROVE  Tidies(s, PollStarting(s, g, due), {})
  <1> DEFINE r == [s.gun[g] EXCEPT !.retried = TRUE, !.sent = "start_charge"]
             again == [s EXCEPT !.gun[g] = r]
             t == IF "starting_30s" \in due /\ ~s.gun[g].retried THEN again ELSE s
             u == HandleEvent([t EXCEPT !.sess[g].reason = "fault"], g, "STOP_CMD")
  <1>1. r \in GunRec /\ r.state = s.gun[g].state
    BY Parts DEF Sound, GunRec
  <1>2. PollStarting(s, g, due) = IF "starting_60s" \in due THEN u ELSE t
    BY DEF PollStarting
  <1> HIDE DEF r
  <1>3. Tidies(s, again, {})
    BY <1>1, FlagTidy
  <1> HIDE DEF again
  <1>4. Tidies(s, t, {})
    BY <1>3, SameTidy
  <1> HIDE DEF t
  <1>5. Tidies(t, u, {})
    BY <1>4, ReasonEventTidy DEF Tidies
  <1> HIDE DEF u
  <1>6. Tidies(s, u, {})
    BY <1>4, <1>5, TidyTrans
  <1> QED
    BY <1>2, <1>4, <1>6

\* So are the checks of CHARGING.
LEMMA PollChargingTidy ==
    ASSUME NEW s, Sound(s), NEW g \in Guns, NEW due
    PROVE  Tidies(s, PollCharging(s, g, due), {})
  <1> DEFINE t == MaybeTriggerTcuStopByPrecharge(s, g)
             u == HandleEvent([t EXCEPT !.sess[g].reason = "fault"], g, "DEVICE_ERR")
             p == PollCharging(s, g, due)
  <1>1. Tidies(s, t, {})
    BY PrepaidTidy
  <1>2. p = t \/ p = u
    BY DEF PollCharging, MaybeTriggerMeteringAbnormal
  <1> HIDE DEF t, p
  <1>3. Tidies(t, u, {})
    BY <1>1, ReasonEventTidy DEF Tidies
  <1> HIDE DEF u
  <1>4. Tidies(s, p, {})
    BY <1>1, <1>2, <1>3, TidyTrans
  <1> QED
    BY <1>4 DEF p

\* So is the iteration.
LEMMA PollGunTidy ==
    ASSUME NEW s, Sound(s), NEW g \in Guns, NEW due
    PROVE  Tidies(s, PollGun(s, g, due), {})
  <1> DEFINE x == CheckLinks(s, g, due).data
             q == PollSession(x, g, due)
             p == PollGun(s, g, due)
  <1>1. p = x \/ p = q
    BY DEF PollGun, FinishIteration
  <1>2. Tidies(s, x, {})
    BY CheckLinksTidy
  <1> HIDE DEF x, p
  <1>3. Sound(x)
    BY <1>2 DEF Tidies
  <1>4. Tidies(x, PollStopping(x, g, due), {})
    BY <1>3, EventTidy, SameTidy DEF PollStopping
  <1>5. Tidies(x, q, {})
    BY <1>3, <1>4, PollChargingTidy, PollStartingTidy, SameTidy DEF PollSession
  <1> HIDE DEF q
  <1>6. Tidies(s, p, {})
    BY <1>1, <1>2, <1>5, TidyTrans
  <1> QED
    BY <1>6 DEF p


-----------------------------------------------------------------------------
(* The actions: each leaves tidy data behind.                              *)

\* The guns on which this step may open an order.
MayOpen ==
    {g \in Guns : gun[g].state = "PREPARE" \/ "request_card_start" \in Inputs}

CanTidy == \E t : Become(t) /\ Tidies(Now, t, MayOpen)

\* A step that opens an order on fewer guns than it may is tidy.
LEMMA TidyMore ==
    ASSUME NEW s, NEW t, NEW S, NEW T, S \subseteq T, Tidies(s, t, S)
    PROVE  Tidies(s, t, T)
  BY DEF Tidies

\* The starts of the HMI and of the platform.
LEMMA StartsTidy ==
    ASSUME Sound(Now), NEW g \in Guns, HmiStart(g) \/ PlatformStart(g)
    PROVE  CanTidy
  <1> DEFINE s == Now
  <1>1. PICK c \in StartCmds :
           LET armed == ArmPendingStart(s, g, c)
           IN  \/ Become(HandleEvent(armed, g, "AUTH_OK"))
               \/ Become(TryDispatchMergePendingStart(armed, g))
    BY DEF HmiStart, PlatformStart, DispatchArmedStart
  <1>2. c \in StartData
    BY InputAssumption
  <1>3. /\ Sound(s) /\ s.sess[g].issued < MaxOrder /\ s.gun[g].state # "IDLE"
        /\ {g} \subseteq MayOpen
    BY NowFact DEF HmiStart, PlatformStart, CanOpenOrder, MayOpen
  <1> HIDE DEF s
  <1> DEFINE armed == ArmPendingStart(s, g, c)
             x == HandleEvent(armed, g, "AUTH_OK")
             y == TryDispatchMergePendingStart(armed, g)
  <1>4. Become(x) \/ Become(y)
    BY <1>1
  <1>5. Tidies(s, armed, {g})
    BY <1>2, <1>3, ArmTidy
  <1> HIDE DEF armed
  <1>6. Tidies(s, x, {g})
    BY <1>5, TidyThenEvent
  <1>7. Tidies(armed, y, {})
    BY <1>5, TryDispatchTidy DEF Tidies
  <1> HIDE DEF x, y
  <1>8. Tidies(s, y, {g})
    BY <1>5, <1>7, TidyTrans
  <1>9. Tidies(s, x, MayOpen) /\ Tidies(s, y, MayOpen)
    BY <1>3, <1>6, <1>8, TidyMore
  <1> QED
    BY <1>4, <1>9 DEF CanTidy, s

\* A step after which no order is open that was not before.
LEMMA OpensNone ==
    ASSUME NEW t, Become(t), Tidies(Now, t, {})
    PROVE  CanTidy
  <1>1. Tidies(Now, t, MayOpen)
    BY TidyMore
  <1> QED
    BY <1>1 DEF CanTidy

\* The handlers that only pass an event to the state machine, and the main loop.
LEMMA EventsTidy ==
    ASSUME Sound(Now), NEW g \in Guns,
           \/ AuthResult(g) \/ StopCharge(g) \/ ResetError(g)
           \/ DeviceErrOn(g) \/ DeviceErrOff(g) \/ Poll(g)
    PROVE  CanTidy
  <1>1. \/ \E e : Become(HandleEvent(Now, g, e))
        \/ \E due : Become(PollGun(Now, g, due))
    BY DEF AuthResult, StopCharge, ResetError, DeviceErrOn, DeviceErrOff, Poll
  <1>2. \A e : Tidies(Now, HandleEvent(Now, g, e), {})
    BY EventTidy
  <1>3. \A due : Tidies(Now, PollGun(Now, g, due), {})
    BY PollGunTidy
  <1> QED
    BY <1>1, <1>2, <1>3, OpensNone

\* start_complete.
LEMMA StartCompleteTidy ==
    ASSUME Sound(Now), NEW g \in Guns, StartComplete(g)
    PROVE  CanTidy
  <1> DEFINE s == Now
             ok == HandleEvent(s, g, "START_COMPLETE_OK")
             fail == HandleEvent([s EXCEPT !.sess[g].reason = "fault"], g,
                                 "START_COMPLETE_FAIL")
             yes == TRUE
             no == FALSE
             x == [ok EXCEPT !.gun[g].startOk = yes]
             y == [fail EXCEPT !.gun[g].startOk = no]
  <1>1. Become(x) \/ Become(y)
    BY DEF StartComplete
  <1>2. Sound(s) /\ yes \in BOOLEAN /\ no \in BOOLEAN
    OBVIOUS
  <1> HIDE DEF s, yes, no
  <1>3. Tidies(s, ok, {}) /\ Tidies(s, fail, {})
    BY <1>2, EventTidy, ReasonEventTidy
  <1> HIDE DEF ok, fail
  <1>4. Tidies(ok, x, {}) /\ Tidies(fail, y, {})
    <2>1. Sound(ok) /\ Sound(fail)
      BY <1>3 DEF Tidies
    <2> QED
      BY <1>2, <2>1, FlagsTidy
  <1> HIDE DEF x, y
  <1>5. Tidies(s, x, {}) /\ Tidies(s, y, {})
    BY <1>3, <1>4, TidyTrans
  <1> QED
    BY <1>1, <1>5, OpensNone DEF s

\* stop_complete.
LEMMA StopCompleteTidy ==
    ASSUME Sound(Now), NEW g \in Guns, StopComplete(g)
    PROVE  CanTidy
  <1> DEFINE s == Now
  <1>1. PICK end \in EndReasons :
           Become(HandleEvent(
               [s EXCEPT !.sess[g].reason = IF s.gun[g].startOk /\ end # "none"
                                            THEN end ELSE s.sess[g].reason],
               g, "STOP_COMPLETE"))
    BY NowFact DEF StopComplete
  <1>2. Sound(s)
    OBVIOUS
  <1> HIDE DEF s
  <1> DEFINE b == IF s.gun[g].startOk /\ end # "none" THEN end ELSE s.sess[g].reason
             u == [s EXCEPT !.sess[g].reason = b]
             t == HandleEvent(u, g, "STOP_COMPLETE")
  <1>3. b \in Reasons
    BY <1>2, SessNumbers, InputAssumption DEF SessRec
  <1>4. Become(t)
    BY <1>1
  <1> HIDE DEF b
  <1>5. Tidies(s, u, {})
    BY <1>2, <1>3, NoteTidy
  <1> HIDE DEF u
  <1>6. Tidies(s, t, {})
    BY <1>5, TidyThenEvent
  <1> HIDE DEF t
  <1> QED
    BY <1>4, <1>6, OpensNone DEF s

\* The six link reports.
LEMMA LinkStepsTidy ==
    ASSUME Sound(Now), NEW g \in Guns,
           \/ PileOnline(g) \/ PileOffline(g) \/ MeterOnline(g) \/ MeterOffline(g)
           \/ PlatformOnline(g) \/ PlatformOffline(g)
    PROVE  CanTidy
  <1>1. \A l \in Links : /\ Tidies(Now, NoteOnline(Now, g, l), {})
                         /\ Tidies(Now, NoteOffline(Now, g, l), {})
                         /\ Tidies(Now, [Now EXCEPT !.link[g][l] = Cleared], {})
    BY LinkReportsTidy
  <1>2. \E l \in Links : \/ Become(NoteOnline(Now, g, l))
                         \/ Become(NoteOffline(Now, g, l))
                         \/ Become([Now EXCEPT !.link[g][l] = Cleared])
    BY LinkNames DEF PileOnline, PileOffline, MeterOnline, MeterOffline,
                     PlatformOnline, PlatformOffline
  <1> QED
    BY <1>1, <1>2, OpensNone

\* A request to wait for a card, and a meter packet.
LEMMA OtherStepsTidy ==
    ASSUME Good(Now), NEW g \in Guns, RequestCardStart(g) \/ MeterData(g)
    PROVE  CanTidy
  <1> DEFINE s == Now
  <1>1. Good(s) /\ Sound(s) /\ s \in Data
    BY GoodOthers
  <1>2. CASE RequestCardStart(g)
    <2>1. /\ "request_card_start" \in Inputs
          /\ \E ask \in AskRec : Become(StartOfflineCardFlow(s, g, FALSE, ask))
      BY <1>2 DEF RequestCardStart
    <2>2. PICK ask \in AskRec : Become(StartOfflineCardFlow(s, g, FALSE, ask))
      BY <2>1
    <2> HIDE DEF s
    <2> DEFINE t == StartOfflineCardFlow(s, g, FALSE, ask)
    <2>3. Sound(t)
      BY <1>1, StartFlowGood DEF Good
    <2>4. \A h \in Guns : Alike(s, t, h)
      BY <1>1, ReaderAlike
    <2> HIDE DEF t
    <2>5. Tidies(s, t, {})
      BY <2>1, <2>3, <2>4, AllTidy DEF WaitsAuto
    <2> QED
      BY <2>2, <2>5, OpensNone DEF s, t
  <1>3. CASE MeterData(g)
    <2>1. PICK kwh \in Readings, volt \in Voltages : Become(HandleMeterData(s, g, kwh, volt))
      BY <1>3 DEF MeterData
    <2>2. volt \in {"low", "normal"}
      BY InputAssumption
    <2>3. Tidies(s, HandleMeterData(s, g, kwh, volt), {})
      BY <1>1, <2>2, MeterDataTidy
    <2> QED
      BY <2>1, <2>3, OpensNone
  <1> QED
    BY <1>2, <1>3

\* The three reactions to a yx packet.
LEMMA YxPartsTidy ==
    ASSUME NEW s, Sound(s), NEW g \in Guns, NEW p
    PROVE  /\ Tidies(s, YxRecover(s, g, p), {})
           /\ Tidies(s, YxWork(s, g, p), {})
           /\ Tidies(s, YxConnect(s, g, p), {})
  <1>1. Tidies(s, YxRecover(s, g, p), {})
    BY LinkNames, LinkReportsTidy DEF YxRecover
  <1>2. Tidies(s, YxWork(s, g, p), {})
    BY EventTidy, SameTidy DEF YxWork
  <1>3. Tidies(s, YxConnect(s, g, p), {})
    BY FlagsTidy, EventTidy, SameTidy DEF YxConnect
  <1> QED
    BY <1>1, <1>2, <1>3

\* A yx packet.
LEMMA YxTidy ==
    ASSUME Sound(Now), NEW g \in Guns, Yx(g)
    PROVE  CanTidy
  <1> DEFINE s == Now
             r(p) == [s.gun[g] EXCEPT !.yxSeen = TRUE, !.conn = p.conn]
             seen(p) == [s EXCEPT !.gun[g] = r(p)]
             a(p) == YxRecover(seen(p), g, p)
             b(p) == YxWork(a(p), g, p)
             c(p) == YxConnect(b(p), g, p)
             d(p) == YxFault(c(p), g, p)
  <1>1. PICK p \in YxPackets : Become(d(p))
    BY DEF Yx
  <1>2. Sound(s) /\ p \in YxPacket /\ s \in Data
    BY InputAssumption DEF Sound
  <1> HIDE DEF s
  <1>3. r(p) \in GunRec /\ r(p).state = s.gun[g].state
    BY <1>2, Parts DEF GunRec, YxPacket
  <1> HIDE DEF r
  <1>4. Tidies(s, seen(p), {})
    BY <1>2, <1>3, FlagTidy
  <1> HIDE DEF seen
  <1>5. Tidies(seen(p), a(p), {})
    BY <1>4, YxPartsTidy DEF Tidies
  <1> HIDE DEF a
  <1>6. Tidies(a(p), b(p), {})
    BY <1>5, YxPartsTidy DEF Tidies
  <1> HIDE DEF b
  <1>7. Tidies(b(p), c(p), {})
    BY <1>6, YxPartsTidy DEF Tidies
  <1> HIDE DEF c
  <1>8. Tidies(c(p), d(p), {})
    <2>1. Sound(c(p))
      BY <1>7 DEF Tidies
    <2> QED
      BY <2>1, EventTidy, SameTidy DEF YxFault
  <1> HIDE DEF d
  <1>9. Tidies(s, d(p), {})
    BY <1>4, <1>5, <1>6, <1>7, <1>8, TidyTrans
  <1> QED
    BY <1>1, <1>9, OpensNone DEF s

\* The reader's reports and its reconciliation.
LEMMA ReaderTidy ==
    ASSUME Good(Now), RfOpened \/ RfClosed \/ CardOpFailed \/ PollReader
    PROVE  CanTidy
  <1> DEFINE s == Now
             x(b) == [s EXCEPT !.reader.rf = b]
             yes == TRUE
             no == FALSE
             keep == s.reader.rf /\ reader.phase # "wait_auto_rf_close"
  <1>1. \/ Become(x(yes))
        \/ Become(x(no))
        \/ Become(ResetCardReaderState(x(no)))
        \/ Become(ResetCardReaderState(x(keep)))
        \/ Become(ReconcileAutoCardWaiting(s))
    BY NowFact DEF RfOpened, RfClosed, CardOpFailed, PollReader
  <1>2. /\ Good(s) /\ Sound(s) /\ s \in Data
        /\ yes \in BOOLEAN /\ no \in BOOLEAN /\ keep \in BOOLEAN
    <2>1. yes \in BOOLEAN /\ no \in BOOLEAN /\ keep \in BOOLEAN
      OBVIOUS
    <2> QED
      BY <2>1 DEF Good, Sound
  <1> HIDE DEF s, yes, no, keep
  <1>3. ASSUME NEW b \in BOOLEAN
        PROVE  Tidies(s, x(b), {}) /\ Tidies(s, ResetCardReaderState(x(b)), {})
    <2>1. Sound(x(b))
      BY <1>2, RfFact DEF Good
    <2>2. /\ x(b).reader.phase = s.reader.phase /\ x(b).reader.auto = s.reader.auto
          /\ x(b).gun = s.gun /\ x(b).sess = s.sess /\ x(b).meter = s.meter
          /\ x(b).card = s.card /\ x(b).ledger = s.ledger
      BY <1>2 DEF Data, ReaderRec
    <2> HIDE DEF x
    <2>3. \A h \in Guns : Alike(s, x(b), h)
      BY <2>2 DEF Alike
    <2>4. Tidies(s, x(b), {})
      BY <2>1, <2>2, <2>3, AllTidy DEF WaitsAuto
    <2>5. Tidies(x(b), ResetCardReaderState(x(b)), {})
      BY <2>1, ReconcileTidy
    <2> QED
      BY <2>4, <2>5, TidyTrans
  <1>4. Tidies(s, ReconcileAutoCardWaiting(s), {})
    BY <1>2, ReconcileTidy
  <1> HIDE DEF x
  <1>5. \E t : Become(t) /\ Tidies(s, t, {})
    BY <1>1, <1>2, <1>3, <1>4
  <1> QED
    BY <1>5, OpensNone DEF s

\* A card presented to start: the reader waits for a gun in PREPARE, unless the HMI
\* asked for the card.
LEMMA SwipeStartTidy ==
    ASSUME Good(Now), WaitsAuto(Now), reader.phase = "wait_start_card",
           NEW c \in Cards, SwipeToStart(c)
    PROVE  CanTidy
  <1> DEFINE s == Now
             g == s.reader.gun
             d == [s.card[g] EXCEPT !.no = c]
             t == [s EXCEPT !.card[g] = d]
             u == BeginOfflineCardCharge(t, g)
  <1>1. t = [s EXCEPT !.card[g].no = c]
    OBVIOUS
  <1>2. Sound(s) /\ (Become(t) \/ (s.sess[g].issued < MaxOrder /\ Become(u)))
    BY <1>1, NowFact DEF SwipeToStart, CanOpenOrder, Good
  <1>3. {g} \subseteq MayOpen
    <2>1. g \in Guns /\ s.reader = reader /\ s.gun = gun
      BY <1>2, NowFact DEF Sound, Data, ReaderRec
    <2>2. "request_card_start" \in Inputs \/ gun[g].state = "PREPARE"
      BY <2>1 DEF Good, AutoSole, WaitsAuto, IsAutoWaiting, IsSolePrepare
    <2> QED
      BY <2>1, <2>2 DEF MayOpen
  <1> HIDE DEF s
  <1>4. s \in Data /\ g \in Guns
    BY <1>2 DEF Sound, Data, ReaderRec
  <1> HIDE DEF g
  <1>5. d \in CardRec /\ d.active = s.card[g].active
    BY <1>4, Parts DEF CardRec
  <1> HIDE DEF d
  <1>6. Tidies(s, t, {}) /\ t.sess = s.sess
    BY <1>2, <1>4, <1>5, CardTidy DEF Data
  <1> HIDE DEF t
  <1>7. s.sess[g].issued < MaxOrder => Tidies(t, u, {g})
    BY <1>4, <1>6, BeginCardTidy DEF Tidies
  <1> HIDE DEF u
  <1>8. s.sess[g].issued < MaxOrder => Tidies(s, u, {g})
    BY <1>6, <1>7 DEF Tidies
  <1>9. s.sess[g].issued < MaxOrder => Tidies(s, u, MayOpen)
    BY <1>3, <1>8, TidyMore
  <1>10. Tidies(s, t, MayOpen)
    BY <1>6, TidyMore
  <1> QED
    BY <1>2, <1>9, <1>10 DEF CanTidy, s

\* A card presented to stop.
LEMMA SwipeStopTidy ==
    ASSUME Sound(Now), NEW c \in Cards, SwipeToStop(c)
    PROVE  CanTidy
  <1>1. PICK g \in Guns :
           Become(HandleEvent([Now EXCEPT !.sess[g].reason = "normal",
                                          !.card[g].swiped = TRUE], g, "STOP_CMD"))
    BY DEF SwipeToStop
  <1> DEFINE s == Now
             yes == "normal"
             t == [s EXCEPT !.sess[g].reason = yes]
             d == [t.card[g] EXCEPT !.swiped = TRUE]
             u == [t EXCEPT !.card[g] = d]
             v == HandleEvent(u, g, "STOP_CMD")
  <1>2. Sound(s) /\ Become(v) /\ yes \in Reasons
    BY <1>1, NowFact DEF Now, Reasons
  <1> HIDE DEF s, yes
  <1>3. Tidies(s, t, {})
    BY <1>2, NoteTidy
  <1> HIDE DEF t
  <1>4. d \in CardRec /\ d.active = t.card[g].active
    <2>1. t.card[g] \in CardRec
      BY <1>3, Parts DEF Tidies, Sound
    <2> QED
      BY <2>1 DEF CardRec
  <1> HIDE DEF d
  <1>5. Tidies(t, u, {})
    BY <1>3, <1>4, CardTidy DEF Tidies
  <1> HIDE DEF u
  <1>6. Tidies(s, v, {})
    BY <1>3, <1>5, TidyTrans, TidyThenEvent
  <1> HIDE DEF v
  <1> QED
    BY <1>2, <1>6, OpensNone DEF s


-----------------------------------------------------------------------------
(* The theorems.                                                           *)

\* Every step of the process is tidy.
LEMMA NextTidy ==
    ASSUME IInv, WaitsAuto(Now), Next
    PROVE  CanTidy
  <1>1. Good(Now) /\ Sound(Now)
    BY DEF IInv, Good
  <1>2. ASSUME NEW g \in Guns, OnGun(g)
        PROVE  CanTidy
    BY <1>1, <1>2, StartsTidy, EventsTidy, StartCompleteTidy, StopCompleteTidy,
       LinkStepsTidy, OtherStepsTidy, YxTidy DEF OnGun
  <1> QED
    BY <1>1, <1>2, ReaderTidy, SwipeStartTidy, SwipeStopTidy DEF Next, CardInfo

\* A free gun is clean, a total that no longer runs is on record, and the reader waits
\* for a card on its own account unless one was asked for: the last is what keeps a
\* card from opening an order on a gun that has left PREPARE.
TidyInv ==
    /\ IInv
    /\ WaitsAuto(Now)
    /\ \A g \in Guns : CleanGun(Now, g) /\ BookedGun(Now, g)

\* It holds at the start.
LEMMA InitTidy == Init => TidyInv
  <1> SUFFICES ASSUME Init PROVE TidyInv
    OBVIOUS
  <1>1. IInv
    BY InitGood
  <1>2. WaitsAuto(Now)
    BY DEF WaitsAuto, Now, Init, InitialData
  <1>3. \A g \in Guns : CleanGun(Now, g) /\ BookedGun(Now, g)
    BY DEF CleanGun, BookedGun, Now, Init, InitialData
  <1> QED
    BY <1>1, <1>2, <1>3 DEF TidyInv

\* Every step keeps it, and opens an order only where it may.
LEMMA StepTidy ==
    ASSUME TidyInv, [Next]_vars
    PROVE  /\ TidyInv'
           /\ \A g \in Guns : sess'[g].issued # sess[g].issued => g \in MayOpen
  <1>1. IInv /\ IInv'
    BY StepGood DEF TidyInv
  <1>2. CASE Next
    <2>1. PICK t : Become(t) /\ Tidies(Now, t, MayOpen)
      BY <1>2, NextTidy DEF TidyInv, CanTidy
    <2>2. WaitsAuto(t) /\ \A g \in Guns : CleanGun(t, g) /\ BookedGun(t, g)
      BY <2>1 DEF Tidies, TidyInv
    <2>3. \A g \in Guns : sess'[g].issued # sess[g].issued => g \in MayOpen
      BY <2>1, NowFact DEF Tidies, Become
    <2>4. WaitsAuto(Now)'
      BY <2>1, <2>2 DEF WaitsAuto, Become, Now
    <2>5. \A g \in Guns : CleanGun(Now, g)' /\ BookedGun(Now, g)'
      BY <2>1, <2>2 DEF CleanGun, BookedGun, Become, Now
    <2> QED
      BY <1>1, <2>3, <2>4, <2>5 DEF TidyInv
  <1>3. CASE UNCHANGED vars
    <2>1. Now' = Now /\ sess' = sess
      BY <1>3 DEF vars, Now
    <2>2. WaitsAuto(Now)' /\ \A g \in Guns : CleanGun(Now, g)' /\ BookedGun(Now, g)'
      BY <2>1 DEF TidyInv, WaitsAuto, CleanGun, BookedGun
    <2> QED
      BY <1>1, <2>1, <2>2 DEF TidyInv
  <1> QED
    BY <1>2, <1>3

\* Back in IDLE nothing of a session is left for the next driver: no start that is
\* still armed, no authorisation, no trade number, no energy, whichever of the ways
\* out the session took (resetChargeSessionState).
THEOREM IdleClean == Spec => []IdleIsClean
  <1>1. TidyInv => IdleIsClean
    BY NowFact DEF TidyInv, CleanGun, IdleIsClean
  <1> QED
    BY <1>1, InitTidy, StepTidy, PTL DEF Spec

\* Energy billed to a session is in the hands of the logger from the moment its meter
\* counts no more, however the session ended (logTradeRecordOnStopped).
THEOREM EnergyBooked == Spec => []EnergyIsBooked
  <1>1. TidyInv => EnergyIsBooked
    BY NowFact DEF TidyInv, BookedGun, EnergyIsBooked
  <1> QED
    BY <1>1, InitTidy, StepTidy, PTL DEF Spec

\* Without cards asked for by the HMI an order opens only on a gun in PREPARE: the
\* reader's own wait ends when its gun leaves PREPARE (reconcileAutoCardWaiting).
THEOREM OrdersOpenInPrepare ==
    ASSUME "request_card_start" \notin Inputs
    PROVE  Spec => OrderOpensInPrepare
  <1>1. TidyInv /\ [Next]_vars =>
          [\A g \in Guns :
             sess'[g].issued # sess[g].issued => gun[g].state = "PREPARE"]_vars
    BY StepTidy DEF MayOpen
  <1> QED
    BY <1>1, InitTidy, StepTidy, PTL DEF Spec, OrderOpensInPrepare

=============================================================================
