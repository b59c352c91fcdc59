--------------------------- MODULE SettlementProofs ---------------------------
(***************************************************************************)
(* Proofs of what no step of ChargeLogic does to a session under way, for  *)
(* every number of guns.  Module ChargeLogicProofs shows that every helper *)
(* leaves good data behind; here the lemmas follow the same definitions    *)
(* with a relation between the data before and after, "Descends", that     *)
(* composes, so that a handler descends because each of its calls does.    *)
(***************************************************************************)
EXTENDS ChargeLogicProofs

\* From r to q a gun that charges charges on or starts to stop, and a gun that
\* stops goes on stopping and remembers the pile's report.
Drops(r, q) ==
    /\ r.state = "CHARGING" => q.state \in {"CHARGING", "STOPPING"}
    /\ r.state = "STOPPING" => q.state = "STOPPING" /\ (r.stopSeen => q.stopSeen)

Descends(s, t) == \A h \in Guns : Drops(s.gun[h], t.gun[h])

\* The end of a settlement: the one way out of STOPPING.
Ends(r, q) ==
    r.state = "STOPPING" /\ (q.state = "STOPPED" \/ (q.state = "IDLE" /\ r.gone))

Settles(s, t) ==
    \A h \in Guns : Drops(s.gun[h], t.gun[h]) \/ Ends(s.gun[h], t.gun[h])

\* From s to t only the record of gun g changes, if any.
Only(s, t, g) ==
    /\ Sound(t)
    /\ \A h \in Guns \ {g} : t.gun[h] = s.gun[h]

\* Neither charging nor stopping.
AtRest(s, g) == s.gun[g].state \notin {"CHARGING", "STOPPING"}

\* Data whose guns are the same descends.
LEMMA SameGuns ==
    ASSUME NEW s, NEW t, t.gun = s.gun
    PROVE  Descends(s, t)
  BY DEF Descends, Drops

\* Steps that descend compose.
LEMMA DescendsTrans ==
    ASSUME NEW s, NEW t, NEW u, Descends(s, t), Descends(t, u)
    PROVE  Descends(s, u)
  <1> SUFFICES ASSUME NEW h \in Guns PROVE Drops(s.gun[h], u.gun[h])
    BY DEF Descends
  <1>1. Drops(s.gun[h], t.gun[h]) /\ Drops(t.gun[h], u.gun[h])
    BY DEF Descends
  <1> QED
    BY <1>1 DEF Drops

\* What changes one gun at rest descends.
LEMMA OnlyDescends ==
    ASSUME NEW s, NEW t, NEW g \in Guns, Only(s, t, g), AtRest(s, g)
    PROVE  Descends(s, t)
  BY DEF Only, AtRest, Descends, Drops

\* New records outside "gun" leave the guns alone.
LEMMA OtherRecords ==
    ASSUME NEW s \in Data, NEW g \in Guns, NEW o, NEW m, NEW c
    PROVE  /\ [s EXCEPT !.sess[g] = o].gun = s.gun
           /\ [s EXCEPT !.sess[g] = o, !.meter[g] = m].gun = s.gun
           /\ [s EXCEPT !.meter[g] = m].gun = s.gun
           /\ [s EXCEPT !.card[g] = c].gun = s.gun
           /\ [s EXCEPT !.ledger[g] = c].gun = s.gun
           /\ [s EXCEPT !.link[g] = c].gun = s.gun
           /\ [s EXCEPT !.reader = c].gun = s.gun
  BY DEF Data

\* A new gun record that keeps the state and what was seen of the stop descends.
LEMMA GunRecord ==
    ASSUME NEW s \in Data, NEW g \in Guns, NEW r,
           r.state = s.gun[g].state, s.gun[g].stopSeen => r.stopSeen
    PROVE  Descends(s, [s EXCEPT !.gun[g] = r])
  <1> DEFINE t == [s EXCEPT !.gun[g] = r]
  <1>1. t.gun = [s.gun EXCEPT ![g] = r]
    BY DEF Data
  <1> HIDE DEF t
  <1>2. Descends(s, t)
    BY <1>1 DEF Descends, Drops, Data
  <1> QED
    BY <1>2 DEF t

-----------------------------------------------------------------------------
(* Transitions.                                                            *)

\* The assignments of transitionTo touch one gun's record, and keep "gone" on the
\* way to any state but IDLE.
LEMMA MoveOnly ==
    ASSUME NEW s, Sound(s), NEW g \in Guns, NEW to \in States
    PROVE  /\ Only(s, Move(s, g, to), g)
           /\ Move(s, g, to).gun[g].state = to
           /\ to # "IDLE" => Move(s, g, to).gun[g].gone = s.gun[g].gone
  <1> DEFINE r == [s.gun[g] EXCEPT
                     !.state = to,
                     !.retried = FALSE,
                     !.startOk = \/ to = "CHARGING"
                                 \/ s.gun[g].startOk /\ to \notin {"STARTING", "IDLE"},
                     !.gone = s.gun[g].gone /\ to # "IDLE"]
             m == [s.meter[g] EXCEPT !.voltSeen = s.meter[g].voltSeen
                                                  /\ to \notin {"CHARGING", "IDLE"}]
             t == Move(s, g, to)
  <1>1. s \in Data /\ s.gun[g] \in GunRec
    BY Parts DEF Sound
  <1>2. r.state = to /\ (to # "IDLE" => r.gone = s.gun[g].gone)
    BY <1>1 DEF GunRec
  <1>3. t = [s EXCEPT !.gun[g] = r, !.meter[g] = m]
    BY DEF Move
  <1>4. Sound(t)
    BY MovePuts DEF Puts
  <1> HIDE DEF r, m, t
  <1>5. t.gun = [s.gun EXCEPT ![g] = r]
    BY <1>1, <1>3 DEF Data
  <1>6. Only(s, t, g) /\ t.gun[g] = r
    BY <1>1, <1>4, <1>5 DEF Only, Data
  <1> QED
    BY <1>2, <1>6 DEF t

\* resetChargeSessionState touches one gun's record.
LEMMA ResetOnly ==
    ASSUME NEW s, Sound(s), NEW g \in Guns
    PROVE  /\ Only(s, ResetChargeSessionState(s, g), g)
           /\ ResetChargeSessionState(s, g).gun[g].state = s.gun[g].state
  <1> DEFINE t == ResetChargeSessionState(s, g)
             r == [s.gun[g] EXCEPT !.retried = FALSE, !.startOk = FALSE,
                                   !.stopSeen = FALSE, !.gone = FALSE]
  <1>1. s \in Data
    BY DEF Sound
  <1>2. Sound(t) /\ t.gun[g].state = s.gun[g].state
    BY <1>1, ResetFact, QuietSound DEF Quiet
  <1>3. t.gun = [s.gun EXCEPT ![g] = r]
    BY <1>1 DEF Data, ResetChargeSessionState
  <1> HIDE DEF r, t
  <1>4. Only(s, t, g)
    BY <1>1, <1>2, <1>3 DEF Only, Data
  <1> QED
    BY <1>2, <1>4 DEF t

\* Closing a session leaves the guns alone.
LEMMA CloseGuns ==
    ASSUME NEW s, Sound(s), NEW g \in Guns
    PROVE  Sound(CloseSession(s, g)) /\ CloseSession(s, g).gun = s.gun
  <1> DEFINE t == LogTradeRecordOnStopped(s, g)
             u == PrepareOfflineCardSettlement(t, g)
  <1>1. s \in Data /\ Quiet(s, t) /\ t \in Data
    BY LogFact DEF Sound, Quiet
  <1>2. t.gun = s.gun
    BY <1>1 DEF LogTradeRecordOnStopped, Data
  <1>3. u = CloseSession(s, g)
    BY DEF CloseSession
  <1> HIDE DEF t
  <1>4. u.gun = t.gun
    BY <1>1 DEF PrepareOfflineCardSettlement, Data
  <1>5. Sound(CloseSession(s, g))
    BY <1>1, CloseFact, QuietSound
  <1> QED
    BY <1>2, <1>3, <1>4, <1>5

\* Changes of one gun compose.
LEMMA OnlyTrans ==
    ASSUME NEW s, NEW t, NEW u, NEW g \in Guns, Only(s, t, g), Only(t, u, g)
    PROVE  Only(s, u, g)
  BY DEF Only

\* Reconciling the reader leaves the guns alone.
LEMMA ReconcileOnly ==
    ASSUME NEW s, Sound(s), NEW g \in Guns
    PROVE  /\ Only(s, ReconcileAutoCardWaiting(s), g)
           /\ ReconcileAutoCardWaiting(s).gun = s.gun
  BY ReconcileFact DEF Only

\* A settled gun whose vehicle is gone goes on to IDLE; no other gun is touched.
LEMMA LeaveOnly ==
    ASSUME NEW s, Sound(s), NEW g \in Guns
    PROVE  LET t == LeaveIfGone(s, g)
           IN  /\ Only(s, t, g)
               /\ t = s \/ (s.gun[g].gone /\ t.gun[g].state = "IDLE")
  <1> DEFINE u == Move(s, g, "IDLE")
             v == ResetChargeSessionState(u, g)
             w == ReconcileAutoCardWaiting(v)
             t == LeaveIfGone(s, g)
  <1>1. t = IF s.gun[g].gone THEN w ELSE s
    BY DEF LeaveIfGone
  <1>2. "IDLE" \in States
    BY DEF States
  <1>3. Only(s, u, g) /\ u.gun[g].state = "IDLE"
    BY <1>2, MoveOnly
  <1> HIDE DEF u
  <1>4. Only(u, v, g) /\ v.gun[g].state = "IDLE"
    BY <1>3, ResetOnly DEF Only
  <1> HIDE DEF v
  <1>5. Only(v, w, g) /\ w.gun = v.gun
    BY <1>4, ReconcileOnly DEF Only
  <1> HIDE DEF w, t
  <1>6. Only(s, w, g) /\ w.gun[g].state = "IDLE"
    BY <1>3, <1>4, <1>5, OnlyTrans
  <1>7. Only(s, t, g) /\ (t = s \/ (s.gun[g].gone /\ t.gun[g].state = "IDLE"))
    BY <1>1, <1>6 DEF Only
  <1> QED
    BY <1>7 DEF t

\* transitionTo touches no other gun, and takes its gun to STOPPED, or on to IDLE
\* when the vehicle is gone.
LEMMA TransitionOnly ==
    ASSUME NEW s, Sound(s), NEW g \in Guns, NEW to \in States
    PROVE  LET t == TransitionTo(s, g, to)
           IN  /\ Only(s, t, g)
               /\ to = "STOPPED" => \/ t.gun[g].state = "STOPPED"
                                    \/ t.gun[g].state = "IDLE" /\ s.gun[g].gone
  <1> DEFINE u == Move(s, g, to)
             v == Enter(u, g, to)
             w == ReconcileAutoCardWaiting(v)
             c == CloseSession(u, g)
             t == TransitionTo(s, g, to)
             Stopped(x) == \/ x.gun[g].state = "STOPPED"
                           \/ x.gun[g].state = "IDLE" /\ s.gun[g].gone
  <1>1. t = IF s.gun[g].state = to THEN s ELSE w
    BY DEF TransitionTo
  <1>2. /\ Only(s, u, g)
        /\ u.gun[g].state = to
        /\ to # "IDLE" => u.gun[g].gone = s.gun[g].gone
    BY MoveOnly
  <1>3. /\ to = "STOPPED" => v = LeaveIfGone(c, g)
        /\ to = "IDLE" => v = ResetChargeSessionState(u, g)
        /\ to \notin {"STOPPED", "IDLE"} => v = u
    BY DEF Enter
  <1> HIDE DEF u
  <1>4. Sound(u)
    BY <1>2 DEF Only
  <1>5. Only(u, v, g) /\ (to = "STOPPED" => Stopped(v))
    <2>1. CASE to = "STOPPED"
      <3>1. Sound(c) /\ c.gun = u.gun
        BY <1>4, CloseGuns
      <3> HIDE DEF c, v
      <3>2. /\ Only(c, v, g)
            /\ v = c \/ (c.gun[g].gone /\ v.gun[g].state = "IDLE")
        BY <1>3, <2>1, <3>1, LeaveOnly
      <3> QED
        BY <1>2, <2>1, <3>1, <3>2 DEF Only
    <2>2. CASE to = "IDLE"
      BY <1>3, <1>4, <2>2, ResetOnly
    <2>3. CASE to \notin {"STOPPED", "IDLE"}
      <3>1. v = u
        BY <1>3, <2>3
      <3> HIDE DEF v
      <3> QED
        BY <1>4, <2>3, <3>1 DEF Only
    <2> QED
      BY <2>1, <2>2, <2>3
  <1> HIDE DEF v
  <1>6. Only(v, w, g) /\ w.gun = v.gun
    BY <1>5, ReconcileOnly DEF Only
  <1> HIDE DEF w, t
  <1>7. Only(s, w, g) /\ (to = "STOPPED" => Stopped(w))
    BY <1>2, <1>5, <1>6, OnlyTrans
  <1>8. Only(s, t, g) /\ (to = "STOPPED" => Stopped(t))
    BY <1>1, <1>7 DEF Only
  <1> QED
    BY <1>8 DEF t

\* transitionTo descends for a gun at rest.
LEMMA TransitionDescends ==
    ASSUME NEW s, Sound(s), NEW g \in Guns, NEW to \in States, AtRest(s, g)
    PROVE  Descends(s, TransitionTo(s, g, to))
  BY TransitionOnly, OnlyDescends

\* Asking a gun that is not stopping yet to stop descends.
LEMMA HaltDescends ==
    ASSUME NEW s, Sound(s), NEW g \in Guns, s.gun[g].state # "STOPPING"
    PROVE  /\ Descends(s, Halt(s, g))
           /\ Only(s, Halt(s, g), g)
  <1> DEFINE u == TransitionTo(s, g, "STOPPING")
             r == [u.gun[g] EXCEPT !.gone = FALSE, !.stopSeen = FALSE,
                                   !.sent = "stop_charge"]
             m == [u.meter[g] EXCEPT !.stable = 0]
             t == Halt(s, g)
  <1>1. "STOPPING" \in States
    BY DEF States
  <1>2. Only(s, u, g) /\ u \in Data
    BY <1>1, TransitionOnly DEF Only, Sound
  <1>3. t = [u EXCEPT !.gun[g] = r, !.meter[g] = m]
    BY DEF Halt
  <1>4. Sound(t) /\ t.gun[g].state = "STOPPING"
    BY HaltFact DEF Moves
  <1> HIDE DEF u, r, m, t
  <1>5. t.gun = [u.gun EXCEPT ![g] = r]
    BY <1>2, <1>3 DEF Data
  <1>6. Only(s, t, g)
    BY <1>2, <1>4, <1>5 DEF Only, Data
  <1>7. Descends(s, t)
    BY <1>4, <1>6 DEF Only, Descends, Drops
  <1> QED
    BY <1>6, <1>7 DEF t

\* enterStopping descends for a gun that is not stopping yet: a peer that stops
\* already is left alone.
LEMMA EnterStoppingDescends ==
    ASSUME NEW s, Sound(s), NEW g \in Guns, s.gun[g].state # "STOPPING"
    PROVE  Descends(s, EnterStopping(s, g))
  <1> DEFINE u == Halt(s, g)
             v == Halt(u, Peer(g))
             t == EnterStopping(s, g)
  <1>1. Descends(s, u) /\ Sound(u)
    BY HaltDescends DEF Only
  <1>2. \/ t = u
        \/ Peer(g) \in Guns /\ u.gun[Peer(g)].state # "STOPPING" /\ t = v
    BY DEF EnterStopping, HaltPeer, MergedPair, HasPeer
  <1> HIDE DEF u, t
  <1>3. CASE t = u
    BY <1>1, <1>3 DEF t
  <1>4. CASE Peer(g) \in Guns /\ u.gun[Peer(g)].state # "STOPPING" /\ t = v
    <2>1. Descends(u, v)
      BY <1>1, <1>4, HaltDescends
    <2>2. Descends(s, t)
      BY <1>1, <1>4, <2>1, DescendsTrans
    <2> QED
      BY <2>2 DEF t
  <1> QED
    BY <1>2, <1>3, <1>4

-----------------------------------------------------------------------------
(* handleEvent.                                                            *)

\* Disarming a start, or sending it, changes no gun's state; a gun at rest descends.
LEMMA DisarmDescends ==
    ASSUME NEW s, Sound(s), NEW g \in Guns, AtRest(s, g)
    PROVE  LET d == Disarm(s, g)
               a == SendArmedStart(s, g)
           IN  /\ Sound(d) /\ Descends(s, d) /\ AtRest(d, g)
               /\ Sound(a) /\ Descends(s, a) /\ AtRest(a, g)
  <1> DEFINE d == Disarm(s, g)
             a == SendArmedStart(s, g)
             r == [s.gun[g] EXCEPT !.sent = "start_charge", !.retried = FALSE]
  <1>1. s \in Data
    BY DEF Sound
  <1>2. Quiet(s, d) /\ Quiet(s, a)
    BY <1>1, DisarmFact, SendFact
  <1>3. d.gun = s.gun
    BY <1>1 DEF Disarm, Data
  <1>4. \A h \in Guns \ {g} : a.gun[h] = s.gun[h]
    BY <1>1 DEF SendArmedStart, Data
  <1> HIDE DEF d, a
  <1>5. Sound(d) /\ Sound(a)
    BY <1>2, QuietSound
  <1>6. AtRest(d, g) /\ AtRest(a, g)
    BY <1>2 DEF AtRest, Quiet
  <1>7. Descends(s, d)
    BY <1>3, SameGuns
  <1>8. Descends(s, a)
    BY <1>4, <1>5, OnlyDescends DEF Only
  <1> QED
    BY <1>5, <1>6, <1>7, <1>8 DEF d, a

\* Remembering the pile's stop_complete descends.
LEMMA StopSeenDescends ==
    ASSUME NEW s \in Data, NEW g \in Guns
    PROVE  Descends(s, [s EXCEPT !.gun[g].stopSeen = TRUE])
  <1> DEFINE r == [s.gun[g] EXCEPT !.stopSeen = TRUE]
  <1>1. s.gun[g] \in GunRec
    BY Parts
  <1>2. r.state = s.gun[g].state /\ r.stopSeen
    BY <1>1 DEF GunRec
  <1>3. [s EXCEPT !.gun[g] = r] = [s EXCEPT !.gun[g].stopSeen = TRUE]
    OBVIOUS
  <1> HIDE DEF r
  <1>4. Descends(s, [s EXCEPT !.gun[g] = r])
    BY <1>1, <1>2, GunRecord
  <1> QED
    BY <1>3, <1>4

\* A gun leaves IDLE, STOPPED or ERROR only from rest.
LEMMA RestEvents ==
    ASSUME NEW s, Sound(s), NEW g \in Guns, NEW e, AtRest(s, g)
    PROVE  /\ Descends(s, OnIdle(s, g, e))
           /\ Descends(s, OnStopped(s, g, e))
           /\ Descends(s, OnError(s, g, e))
  <1>1. \A to \in States : Descends(s, TransitionTo(s, g, to))
    BY TransitionDescends
  <1>2. Descends(s, s)
    BY SameGuns
  <1>3. {"PREPARE", "ERROR", "IDLE"} \subseteq States
    BY DEF States
  <1> QED
    BY <1>1, <1>2, <1>3 DEF OnIdle, OnStopped, OnError

\* A gun in PREPARE descends under every event.
LEMMA PrepareDescends ==
    ASSUME NEW s, Sound(s), NEW g \in Guns, NEW e, AtRest(s, g)
    PROVE  Descends(s, OnPrepare(s, g, e))
  <1> DEFINE d == Disarm(s, g)
             a == SendArmedStart(s, g)
  <1>1. /\ Sound(d) /\ Descends(s, d) /\ AtRest(d, g)
        /\ Sound(a) /\ Descends(s, a) /\ AtRest(a, g)
    BY DisarmDescends
  <1>2. {"STARTING", "ERROR", "IDLE"} \subseteq States
    BY DEF States
  <1>3. \/ OnPrepare(s, g, e) = TransitionTo(a, g, "STARTING")
        \/ OnPrepare(s, g, e) = d
        \/ OnPrepare(s, g, e) = TransitionTo(d, g, "IDLE")
        \/ OnPrepare(s, g, e) = TransitionTo(s, g, "ERROR")
        \/ OnPrepare(s, g, e) = s
    BY DEF OnPrepare
  <1> HIDE DEF d, a
  <1>4. /\ Descends(s, TransitionTo(a, g, "STARTING"))
        /\ Descends(s, TransitionTo(d, g, "IDLE"))
        /\ Descends(s, TransitionTo(s, g, "ERROR"))
    BY <1>1, <1>2, TransitionDescends, DescendsTrans
  <1> QED
    BY <1>1, <1>3, <1>4, SameGuns

\* A gun in STARTING descends under every event.
LEMMA StartingDescends ==
    ASSUME NEW s, Sound(s), NEW g \in Guns, NEW e, s.gun[g].state = "STARTING"
    PROVE  Descends(s, OnStarting(s, g, e))
  <1> DEFINE t == [s EXCEPT !.sess[g].tcuStop = FALSE]
             u == [s EXCEPT !.sess[g] = [s.sess[g] EXCEPT !.tcuStop = FALSE]]
             no == FALSE
  <1>1. s \in Data /\ no \in BOOLEAN
    BY DEF Sound
  <1>2. t = [s EXCEPT !.sess[g].tcuStop = no] /\ t = u
    OBVIOUS
  <1>3. {"CHARGING", "IDLE"} \subseteq States
    BY DEF States
  <1>4. \/ OnStarting(s, g, e) = TransitionTo(t, g, "CHARGING")
        \/ OnStarting(s, g, e) = EnterStopping(s, g)
        \/ OnStarting(s, g, e) = TransitionTo(s, g, "IDLE")
        \/ OnStarting(s, g, e) = s
    BY DEF OnStarting
  <1>5. u.gun = s.gun
    BY <1>1, OtherRecords
  <1> HIDE DEF t, u, no
  <1>6. Sound(t)
    BY <1>1, <1>2, TcuStopFact, QuietSound
  <1>7. Descends(s, t) /\ AtRest(t, g) /\ AtRest(s, g)
    BY <1>2, <1>5, SameGuns DEF AtRest
  <1>8. Descends(t, TransitionTo(t, g, "CHARGING"))
    BY <1>3, <1>6, <1>7, TransitionDescends
  <1>9. Descends(s, TransitionTo(t, g, "CHARGING"))
    BY <1>7, <1>8, DescendsTrans
  <1>10. Descends(s, TransitionTo(s, g, "IDLE")) /\ Descends(s, EnterStopping(s, g))
    BY <1>3, <1>7, TransitionDescends, EnterStoppingDescends
  <1> QED
    BY <1>4, <1>9, <1>10, SameGuns

\* A gun in CHARGING descends under every event.
LEMMA ChargingDescends ==
    ASSUME NEW s, Sound(s), NEW g \in Guns, NEW e, s.gun[g].state = "CHARGING"
    PROVE  Descends(s, OnCharging(s, g, e))
  <1> DEFINE t == EnterStopping(s, g)
             u == [t EXCEPT !.gun[g].stopSeen = TRUE]
  <1>1. Descends(s, t) /\ t \in Data
    BY EnterStoppingDescends, EnterStoppingFact DEF Stops, Sound
  <1>2. OnCharging(s, g, e) \in {t, u, s}
    BY DEF OnCharging
  <1> HIDE DEF t
  <1>3. Descends(t, u)
    BY <1>1, StopSeenDescends
  <1>4. Descends(s, u)
    BY <1>1, <1>3, DescendsTrans
  <1> HIDE DEF u
  <1> QED
    BY <1>1, <1>2, <1>4, SameGuns

\* In STOPPING every event but the end of the settlement descends.
LEMMA StoppingDescends ==
    ASSUME NEW s, Sound(s), NEW g \in Guns, NEW e, e # "METER_STALE"
    PROVE  Descends(s, OnStopping(s, g, e))
  <1>1. Descends(s, [s EXCEPT !.gun[g].stopSeen = TRUE]) /\ Descends(s, s)
    BY StopSeenDescends, SameGuns DEF Sound
  <1>2. \/ OnStopping(s, g, e) = [s EXCEPT !.gun[g].stopSeen = TRUE]
        \/ OnStopping(s, g, e) = s
    BY DEF OnStopping
  <1> QED
    BY <1>1, <1>2

\* So does the state machine as a whole.
LEMMA EventDescends ==
    ASSUME NEW s, Sound(s), NEW g \in Guns, NEW e, e # "METER_STALE"
    PROVE  Descends(s, HandleEvent(s, g, e))
  <1>1. CASE s.gun[g].state = "CHARGING"
    BY <1>1, ChargingDescends DEF HandleEvent
  <1>2. CASE s.gun[g].state = "STARTING"
    BY <1>2, StartingDescends DEF HandleEvent
  <1>3. CASE s.gun[g].state = "STOPPING"
    BY <1>3, StoppingDescends DEF HandleEvent
  <1>4. CASE s.gun[g].state \notin {"CHARGING", "STARTING", "STOPPING"}
    <2>1. AtRest(s, g)
      BY <1>4 DEF AtRest
    <2> QED
      BY <1>4, <2>1, RestEvents, PrepareDescends DEF HandleEvent
  <1> QED
    BY <1>1, <1>2, <1>3, <1>4

\* The end of the settlement ends it: STOPPED, or IDLE when the vehicle is gone.
LEMMA StaleSettles ==
    ASSUME NEW s, Sound(s), NEW g \in Guns, s.gun[g].state = "STOPPING"
    PROVE  Settles(s, HandleEvent(s, g, "METER_STALE"))
  <1> DEFINE t == HandleEvent(s, g, "METER_STALE")
  <1>1. t = TransitionTo(s, g, "STOPPED")
    BY DEF HandleEvent, OnStopping
  <1>2. "STOPPED" \in States
    BY DEF States
  <1>3. /\ Only(s, t, g)
        /\ t.gun[g].state = "STOPPED" \/ (t.gun[g].state = "IDLE" /\ s.gun[g].gone)
    BY <1>1, <1>2, TransitionOnly
  <1> HIDE DEF t
  <1>4. Settles(s, t)
    BY <1>3 DEF Only, Settles, Ends, Drops
  <1> QED
    BY <1>4 DEF t

\* An event after a change that leaves the guns alone descends.
LEMMA ThenEvent ==
    ASSUME NEW s, NEW t, Sound(s), Quiet(s, t), t.gun = s.gun,
           NEW g \in Guns, NEW e, e # "METER_STALE"
    PROVE  Descends(s, HandleEvent(t, g, e))
  <1>1. Sound(t) /\ Descends(s, t)
    BY QuietSound, SameGuns
  <1>2. Descends(t, HandleEvent(t, g, e))
    BY <1>1, EventDescends
  <1> QED
    BY <1>1, <1>2, DescendsTrans

-----------------------------------------------------------------------------
(* Orders and starts.                                                      *)

\* Settling a pair on the smaller amount leaves the guns alone.
LEMMA SyncGuns ==
    ASSUME NEW s \in Data, NEW g \in Guns
    PROVE  SyncMergePrechargeAmount(s, g).gun = s.gun
  BY DEF SyncMergePrechargeAmount, Data

\* Opening an order and arming its start leave the guns alone.
LEMMA ArmGuns ==
    ASSUME NEW s \in Data, NEW g \in Guns, NEW c \in StartData,
           s.sess[g].issued < MaxOrder
    PROVE  ArmPendingStart(s, g, c).gun = s.gun
  <1> DEFINE o == [s.sess[g] EXCEPT !.basis = TRUE, !.merge = c.merge,
                                    !.order = s.sess[g].issued + 1,
                                    !.issued = s.sess[g].issued + 1,
                                    !.precharge = c.precharge,
                                    !.tcuStop = FALSE, !.reason = "none"]
             m == [s.meter[g] EXCEPT !.stable = 0, !.ready = c.model, !.based = FALSE,
                                     !.last = 0, !.total = 0]
             t == [s EXCEPT !.sess[g] = o, !.meter[g] = m]
             u == UpdateAuthBasis(s, g, c)
             a == [u.sess[g] EXCEPT !.armed = TRUE]
  <1>1. u = SyncMergePrechargeAmount(t, g)
    BY DEF UpdateAuthBasis
  <1>2. ArmPendingStart(s, g, c) = [u EXCEPT !.sess[g] = a]
    BY DEF ArmPendingStart
  <1>3. Quiet(s, u)
    BY UpdateAuthFact
  <1>4. s.sess[g] \in SessRec /\ s.meter[g] \in MeterRec
    BY Parts
  <1>5. o \in SessRec
    <2>1. s.sess[g].issued + 1 \in Orders
      BY <1>4, BoundAssumption DEF SessRec, Orders
    <2> QED
      BY <1>4, <2>1 DEF SessRec, StartData, Reasons
  <1>6. m \in MeterRec
    <2>1. 0 \in 0 .. 3 /\ 0 \in Readings /\ 0 \in Nat /\ c.model \in BOOLEAN
      BY BoundAssumption DEF Readings, StartData
    <2> QED
      BY <1>4, <2>1 DEF MeterRec
  <1> HIDE DEF o, m, u, a
  <1>7. t \in Data /\ t.gun = s.gun
    <2>1. Quiet(s, t)
      BY <1>5, <1>6, QuietSessMeter
    <2>2. t.gun = s.gun
      BY OtherRecords
    <2> QED
      BY <2>1, <2>2 DEF Quiet
  <1> HIDE DEF t
  <1>8. u.gun = s.gun
    BY <1>1, <1>7, SyncGuns
  <1>9. [u EXCEPT !.sess[g] = a].gun = u.gun
    BY <1>3, OtherRecords DEF Quiet
  <1> QED
    BY <1>2, <1>8, <1>9

\* Dispatching an armed start descends.
LEMMA DispatchDescends ==
    ASSUME NEW s, Sound(s), NEW g \in Guns
    PROVE  Descends(s, DispatchArmedStart(s, g))
  BY EventDescends DEF DispatchArmedStart

\* Dispatching a merged pair descends.
LEMMA TryDispatchDescends ==
    ASSUME NEW s, Good(s), NEW g \in Guns
    PROVE  Descends(s, TryDispatchMergePendingStart(s, g))
  <1> DEFINE p == Peer(g)
             t == SyncMergePrechargeAmount(s, g)
             u == SyncMergePrechargeAmount(t, p)
             v == DispatchArmedStart(u, g)
             w == DispatchArmedStart(v, p)
             r == TryDispatchMergePendingStart(s, g)
  <1>1. r = s \/ (HasPeer(g) /\ r = w)
    BY DEF TryDispatchMergePendingStart
  <1>2. CASE r = s
    BY <1>2, SameGuns
  <1>3. CASE HasPeer(g) /\ r = w
    <2>1. p \in Guns
      BY <1>3 DEF HasPeer
    <2>2. Good(t) /\ t.gun = s.gun
      BY GoodOthers, SyncFact, QuietGood, SyncGuns
    <2> HIDE DEF t, p
    <2>3. Good(u) /\ u.gun = t.gun
      BY <2>1, <2>2, GoodOthers, SyncFact, QuietGood, SyncGuns
    <2> HIDE DEF u
    <2>4. Descends(s, u)
      BY <2>2, <2>3, SameGuns
    <2>5. Good(v) /\ Descends(u, v)
      BY <2>3, DispatchFact, DispatchDescends DEF Good
    <2> HIDE DEF v
    <2>6. Descends(v, w)
      BY <2>1, <2>5, DispatchDescends DEF Good
    <2> HIDE DEF w, r
    <2>7. Descends(s, w)
      BY <2>4, <2>5, <2>6, DescendsTrans
    <2>8. Descends(s, r)
      BY <1>3, <2>7 DEF p, t, u, v, w
    <2> QED
      BY <2>8 DEF r
  <1> QED
    BY <1>1, <1>2, <1>3

\* A card start descends, in whatever state it finds the gun.
LEMMA BeginCardDescends ==
    ASSUME NEW s, Good(s), NEW g \in Guns, s.sess[g].issued < MaxOrder
    PROVE  Descends(s, BeginOfflineCardCharge(s, g))
  <1> DEFINE data == [merge |-> s.card[g].ask.merge, precharge |-> 0,
                      model |-> \/ CardFeeFallback
                                \/ s.card[g].ask.model
                                \/ s.meter[g].ready]
             c == [s.card[g] EXCEPT !.active = TRUE, !.swiped = FALSE]
             t == [s EXCEPT !.card[g] = c]
             u == ArmPendingStart(t, g, data)
             d == [u.card[g] EXCEPT !.ask = NoAsk]
             v == [u EXCEPT !.card[g] = d]
             w == ResetCardReaderState(v)
  <1>1. s \in Data /\ s.card[g] \in CardRec /\ s.meter[g] \in MeterRec
    BY GoodOthers, Parts
  <1>2. data \in StartData
    <2>1. s.card[g].ask.merge \in BOOLEAN /\ s.card[g].ask.model \in BOOLEAN
      BY <1>1 DEF CardRec, AskRec
    <2>2. 0 \in Readings
      BY BoundAssumption DEF Readings
    <2> QED
      BY <1>1, <2>1, <2>2, SwitchAssumption DEF StartData, MeterRec
  <1>3. c \in CardRec
    BY <1>1 DEF CardRec
  <1>4. BeginOfflineCardCharge(s, g) = DispatchArmedStart(w, g)
    BY DEF BeginOfflineCardCharge
  <1> HIDE DEF c, data
  <1>5. Quiet(s, t) /\ t.gun = s.gun
    BY <1>1, <1>3, QuietCard, OtherRecords
  <1>6. t.sess = s.sess
    BY <1>1 DEF Data
  <1> HIDE DEF t
  <1>7. Quiet(t, u) /\ u \in Data /\ u.gun = t.gun
    BY <1>2, <1>5, <1>6, ArmFact, ArmGuns DEF Quiet
  <1> HIDE DEF u
  <1>8. u.card[g] \in CardRec
    BY <1>7, Parts
  <1>9. d \in CardRec
    BY <1>8 DEF CardRec, NoAsk, AskRec
  <1> HIDE DEF d
  <1>10. Quiet(u, v) /\ v.gun = u.gun
    BY <1>7, <1>9, QuietCard, OtherRecords
  <1> HIDE DEF v
  <1>11. Good(v)
    BY <1>5, <1>7, <1>10, QuietGood
  <1>12. Good(w) /\ w.gun = v.gun
    BY <1>11, GoodOthers, ResetReaderGood, ResetReaderFact
  <1> HIDE DEF w
  <1>13. Descends(s, w) /\ Descends(w, DispatchArmedStart(w, g))
    BY <1>5, <1>7, <1>10, <1>12, SameGuns, DispatchDescends DEF Good
  <1> QED
    BY <1>4, <1>13, DescendsTrans

-----------------------------------------------------------------------------
(* The stop at the prepaid amount, and the links.                          *)

\* A stop of the logic's own descends.
LEMMA RequestStopDescends ==
    ASSUME NEW s, Good(s), NEW g \in Guns
    PROVE  Descends(s, RequestStop(s, g))
  <1> DEFINE u == [s EXCEPT !.sess[g] = [s.sess[g] EXCEPT !.tcuStop = TRUE]]
  <1>1. Sound(s) /\ s \in Data
    BY GoodOthers
  <1>2. u.gun = s.gun
    BY <1>1, OtherRecords
  <1>3. u = [s EXCEPT !.sess[g].tcuStop = TRUE]
    OBVIOUS
  <1>4. Quiet(s, u)
    BY <1>1, <1>3, TcuStopTrue
  <1>5. RequestStop(s, g) = s \/ RequestStop(s, g) = HandleEvent(u, g, "STOP_CMD")
    BY <1>3 DEF RequestStop
  <1> HIDE DEF u
  <1>6. Descends(s, HandleEvent(u, g, "STOP_CMD"))
    BY <1>1, <1>2, <1>4, ThenEvent
  <1> QED
    BY <1>5, <1>6, SameGuns

\* So does the stop at the prepaid amount, for a pair as for one gun.
LEMMA PrepaidDescends ==
    ASSUME NEW s, Good(s), NEW g \in Guns
    PROVE  Descends(s, MaybeTriggerTcuStopByPrecharge(s, g))
  <1> DEFINE t == RequestStop(s, g)
             u == RequestStop(t, Peer(g))
             r == MaybeTriggerTcuStopByPrecharge(s, g)
  <1>1. Good(t) /\ Descends(s, t)
    BY RequestStopFact, RequestStopDescends
  <1>2. r = s \/ r = t \/ (HasPeer(g) /\ r = u)
    BY DEF MaybeTriggerTcuStopByPrecharge, RequestPeerStop
  <1> HIDE DEF t, r
  <1>3. HasPeer(g) => Descends(t, u)
    BY <1>1, RequestStopDescends DEF HasPeer
  <1> HIDE DEF u
  <1>4. Descends(s, r)
    BY <1>1, <1>2, <1>3, SameGuns, DescendsTrans
  <1> QED
    BY <1>4 DEF r

\* A link's report descends.
LEMMA LinkDescends ==
    ASSUME NEW s, Good(s), NEW g \in Guns, NEW l \in Links
    PROVE  /\ Descends(s, NoteOffline(s, g, l))
           /\ Descends(s, NoteOnline(s, g, l))
           /\ Descends(s, [s EXCEPT !.link[g][l] = Cleared])
  <1> DEFINE t == [s EXCEPT !.link[g][l] = Cleared]
             n == NoteOnline(s, g, l)
  <1>1. s \in Data
    BY GoodOthers
  <1>2. NoteOffline(s, g, l).gun = s.gun /\ t.gun = s.gun
    BY <1>1 DEF NoteOffline, Data
  <1>3. Good(t)
    BY ClearedGood
  <1>4. \/ n = t
        \/ t.gun[g].state = "ERROR" /\ \E to \in {"PREPARE", "IDLE"} : n = TransitionTo(t, g, to)
    BY DEF NoteOnline
  <1> HIDE DEF t, n
  <1>5. {"PREPARE", "IDLE"} \subseteq States
    BY DEF States
  <1>6. t.gun[g].state = "ERROR" => \A to \in States : Descends(t, TransitionTo(t, g, to))
    BY <1>3, TransitionDescends DEF AtRest, Good
  <1>7. Descends(s, t)
    BY <1>2, SameGuns
  <1>8. Descends(s, n)
    BY <1>4, <1>5, <1>6, <1>7, DescendsTrans
  <1> QED
    BY <1>2, <1>7, <1>8, SameGuns DEF t, n

\* A confirmed fault descends, and changes no gun when it finds this one stopping
\* or in ERROR.
LEMMA ConfirmDescends ==
    ASSUME NEW s, Good(s), NEW g \in Guns, NEW l \in Links
    PROVE  /\ Descends(s, ConfirmOffline(s, g, l))
           /\ s.gun[g].state \in {"STOPPING", "ERROR"} =>
                ConfirmOffline(s, g, l).gun = s.gun
  <1> DEFINE r == [fault |-> TRUE, latched |-> TRUE, pending |-> FALSE]
             t == LatchFault(s, g, l)
             st == s.gun[g].state
             b == IF st \in {"STARTING", "CHARGING"} THEN "fault"
                  ELSE t.sess[g].reason
             u == [t EXCEPT !.sess[g] = [t.sess[g] EXCEPT !.reason = b]]
             c == ConfirmOffline(s, g, l)
  <1>1. r \in LinkRec
    BY DEF LinkRec
  <1>2. t = WithLink(s, g, l, r)
    BY DEF LatchFault, WithLink
  <1>3. c = IF st = "STOPPING" THEN t ELSE HandleEvent(u, g, "DEVICE_ERR")
    BY DEF ConfirmOffline
  <1> HIDE DEF r, t, c
  <1>4. Sound(t) /\ t \in Data /\ t.gun = s.gun
    BY <1>1, <1>2, LinkOthers
  <1>5. u.gun = t.gun
    BY <1>4, OtherRecords
  <1>6. Quiet(t, u)
    <2>1. b \in Reasons
      BY <1>4, Parts DEF SessRec, Reasons
    <2> HIDE DEF b
    <2>2. u = [t EXCEPT !.sess[g].reason = b]
      OBVIOUS
    <2> HIDE DEF u
    <2> QED
      BY <1>4, <2>1, <2>2, ReasonFact
  <1> HIDE DEF u
  <1>7. Descends(t, HandleEvent(u, g, "DEVICE_ERR"))
    BY <1>4, <1>5, <1>6, ThenEvent
  <1>8. Descends(s, t)
    BY <1>4, SameGuns
  <1>9. Descends(s, c)
    BY <1>3, <1>7, <1>8, DescendsTrans
  <1>10. st = "ERROR" => HandleEvent(u, g, "DEVICE_ERR") = u
    BY <1>4, <1>5 DEF HandleEvent, OnError
  <1>11. st \in {"STOPPING", "ERROR"} => c.gun = s.gun
    BY <1>3, <1>4, <1>5, <1>10
  <1> QED
    BY <1>9, <1>11 DEF c

-----------------------------------------------------------------------------
(* One iteration of the main loop on a gun.                                *)

\* What a check of the links passes on: the guns as the iteration found them, as
\* long as it goes on.
Passed(s, i) ==
    /\ Checked(i)
    /\ Descends(s, i.data)
    /\ ~i.over => i.data.gun = s.gun

\* A confirmation that lets the iteration go on changed no gun.
LEMMA ConfirmPasses ==
    ASSUME NEW s, NEW i, Passed(s, i), NEW g \in Guns, NEW l \in Links
    PROVE  ~i.over => Passed(s, Confirm(i, g, l))
  <1> DEFINE c == ConfirmOffline(i.data, g, l)
             k == Confirm(i, g, l)
  <1>1. k = [data |-> c, over |-> i.data.gun[g].state \notin {"STOPPING", "ERROR"}]
    BY DEF Confirm
  <1>2. Good(c)
    BY ConfirmFact DEF Passed, Checked
  <1>3. /\ Descends(i.data, c)
        /\ i.data.gun[g].state \in {"STOPPING", "ERROR"} => c.gun = i.data.gun
    BY ConfirmDescends DEF Passed, Checked
  <1> HIDE DEF c, k
  <1>4. Descends(s, c)
    BY <1>3, DescendsTrans DEF Passed
  <1>5. ~i.over => Passed(s, k)
    BY <1>1, <1>2, <1>3, <1>4 DEF Passed, Checked
  <1> QED
    BY <1>5 DEF k

\* Each of the four checks passes the guns on.
LEMMA ChecksPass ==
    ASSUME NEW s, NEW i, Passed(s, i), NEW g \in Guns, NEW due
    PROVE  /\ ~i.over => Passed(s, MaybeConfirmMeterOfflineFault(i, g, due))
           /\ Passed(s, MaybeConfirmPlatformOfflineFault(i, g, due))
           /\ Passed(s, MaybeConfirmPileYxTimeoutFault(i, g, due))
           /\ Passed(s, MaybeConfirmPileOfflineFault(i, g, due))
  <1>1. ~i.over => /\ Passed(s, Confirm(i, g, "meter"))
                   /\ Passed(s, Confirm(i, g, "platform"))
                   /\ Passed(s, Confirm(i, g, "pile"))
    BY ConfirmPasses, LinkNames
  <1>2. Passed(s, [i EXCEPT !.data.link[g]["platform"] = Cleared])
    <2> DEFINE x == i.data
               t == [x EXCEPT !.link[g]["platform"] = Cleared]
    <2>1. Good(x) /\ i = [data |-> x, over |-> i.over] /\ Descends(s, x)
          /\ (~i.over => x.gun = s.gun)
      BY DEF Passed, Checked
    <2>2. [i EXCEPT !.data.link[g]["platform"] = Cleared] = [data |-> t, over |-> i.over]
      BY <2>1
    <2> HIDE DEF x
    <2>3. Good(t) /\ x \in Data
      BY <2>1, LinkNames, ClearedGood, GoodOthers
    <2>4. t.gun = x.gun
      BY <2>3 DEF Data
    <2> HIDE DEF t
    <2>5. Descends(s, t)
      BY <2>1, <2>4, SameGuns, DescendsTrans
    <2>6. Passed(s, [data |-> t, over |-> i.over])
      BY <2>1, <2>3, <2>4, <2>5 DEF Passed, Checked
    <2> QED
      BY <2>2, <2>6
  <1>3. ~i.over => Passed(s, MaybeConfirmMeterOfflineFault(i, g, due))
    BY <1>1 DEF MaybeConfirmMeterOfflineFault
  <1>4. Passed(s, MaybeConfirmPlatformOfflineFault(i, g, due))
    BY <1>1, <1>2 DEF MaybeConfirmPlatformOfflineFault
  <1>5. Passed(s, MaybeConfirmPileYxTimeoutFault(i, g, due))
    BY <1>1 DEF MaybeConfirmPileYxTimeoutFault
  <1>6. Passed(s, MaybeConfirmPileOfflineFault(i, g, due))
    BY <1>1 DEF MaybeConfirmPileOfflineFault
  <1> QED
    BY <1>3, <1>4, <1>5, <1>6

\* So do the four together.
LEMMA CheckLinksPass ==
    ASSUME NEW s, Good(s), NEW g \in Guns, NEW due
    PROVE  Passed(s, CheckLinks(s, g, due))
  <1> DEFINE a == [data |-> s, over |-> FALSE]
             b == MaybeConfirmMeterOfflineFault(a, g, due)
             c == MaybeConfirmPlatformOfflineFault(b, g, due)
             d == MaybeConfirmPileYxTimeoutFault(c, g, due)
             e == MaybeConfirmPileOfflineFault(d, g, due)
  <1>1. Passed(s, a) /\ ~a.over
    BY SameGuns DEF Passed, Checked
  <1>2. CheckLinks(s, g, due) = e
    BY DEF CheckLinks
  <1> HIDE DEF a
  <1>3. Passed(s, b)
    BY <1>1, ChecksPass
  <1> HIDE DEF b
  <1>4. Passed(s, c)
    BY <1>3, ChecksPass
  <1> HIDE DEF c
  <1>5. Passed(s, d)
    BY <1>4, ChecksPass
  <1> HIDE DEF d
  <1>6. Passed(s, e)
    BY <1>5, ChecksPass
  <1> QED
    BY <1>2, <1>6

\* The limits of STARTING descend.
LEMMA PollStartingDescends ==
    ASSUME NEW s, Good(s), NEW g \in Guns, NEW due
    PROVE  Descends(s, PollStarting(s, g, due))
  <1> DEFINE r == [s.gun[g] EXCEPT !.retried = TRUE, !.sent = "start_charge"]
             again == [s EXCEPT !.gun[g] = r]
             t == IF "starting_30s" \in due /\ ~s.gun[g].retried THEN again ELSE s
             u == [t EXCEPT !.sess[g] = [t.sess[g] EXCEPT !.reason = "fault"]]
  <1>1. s \in Data /\ s.gun[g] \in GunRec
    BY GoodOthers, Parts
  <1>2. /\ r \in GunRec
        /\ r.state = s.gun[g].state
        /\ r.stopSeen = s.gun[g].stopSeen
    BY <1>1 DEF GunRec
  <1>3. u = [t EXCEPT !.sess[g].reason = "fault"]
    OBVIOUS
  <1>4. PollStarting(s, g, due) = IF "starting_60s" \in due
                                  THEN HandleEvent(u, g, "STOP_CMD") ELSE t
    BY <1>3 DEF PollStarting
  <1> HIDE DEF r
  <1>5. Good(again) /\ Descends(s, again)
    BY <1>1, <1>2, QuietGun, QuietGood, GunRecord
  <1> HIDE DEF again
  <1>6. Good(t) /\ Descends(s, t)
    BY <1>5, SameGuns
  <1> HIDE DEF t
  <1>7. u.gun = t.gun
    BY <1>6, GoodOthers, OtherRecords
  <1> HIDE DEF u
  <1>8. Quiet(t, u)
    BY <1>3, <1>6, GoodOthers, ReasonNoted
  <1>9. Descends(t, HandleEvent(u, g, "STOP_CMD"))
    BY <1>6, <1>7, <1>8, ThenEvent DEF Good
  <1>10. Descends(s, HandleEvent(u, g, "STOP_CMD"))
    BY <1>6, <1>9, DescendsTrans
  <1> QED
    BY <1>4, <1>6, <1>10

\* So do the checks of CHARGING.
LEMMA PollChargingDescends ==
    ASSUME NEW s, Good(s), NEW g \in Guns, NEW due
    PROVE  Descends(s, PollCharging(s, g, due))
  <1> DEFINE t == MaybeTriggerTcuStopByPrecharge(s, g)
             u == [t EXCEPT !.sess[g] = [t.sess[g] EXCEPT !.reason = "fault"]]
             p == PollCharging(s, g, due)
  <1>1. Good(t) /\ Descends(s, t)
    BY PrepaidFact, PrepaidDescends
  <1>2. u = [t EXCEPT !.sess[g].reason = "fault"]
    OBVIOUS
  <1>3. p = t \/ p = HandleEvent(u, g, "DEVICE_ERR")
    BY <1>2 DEF PollCharging, MaybeTriggerMeteringAbnormal
  <1> HIDE DEF t, p
  <1>4. u.gun = t.gun
    BY <1>1, GoodOthers, OtherRecords
  <1> HIDE DEF u
  <1>5. Quiet(t, u)
    BY <1>1, <1>2, GoodOthers, ReasonNoted
  <1>6. Descends(t, HandleEvent(u, g, "DEVICE_ERR"))
    BY <1>1, <1>4, <1>5, ThenEvent DEF Good
  <1>7. Descends(s, p)
    BY <1>1, <1>3, <1>6, DescendsTrans
  <1> QED
    BY <1>7 DEF p

\* A step that descends settles.
LEMMA DescendsSettles ==
    ASSUME NEW s, NEW t, Descends(s, t)
    PROVE  Settles(s, t)
  BY DEF Descends, Settles

\* One iteration on a gun ends a settlement only at its end.
LEMMA PollSettles ==
    ASSUME NEW s, Good(s), NEW g \in Guns, NEW due
    PROVE  Settles(s, PollGun(s, g, due))
  <1> DEFINE i == CheckLinks(s, g, due)
             x == i.data
             q == PollSession(x, g, due)
             p == PollGun(s, g, due)
             stale == HandleEvent(x, g, "METER_STALE")
  <1>1. p = IF i.over THEN x ELSE q
    BY DEF PollGun, FinishIteration
  <1>2. Good(x) /\ Descends(s, x) /\ (~i.over => x.gun = s.gun)
    BY CheckLinksPass DEF Passed, Checked
  <1>3. \/ q = PollCharging(x, g, due)
        \/ q = PollStarting(x, g, due)
        \/ x.gun[g].state = "STOPPING" /\ q = stale
        \/ q = x
    BY DEF PollSession, PollStopping
  <1> HIDE DEF i, p
  <1>4. x.gun[g].state = "STOPPING" => Settles(x, stale)
    BY <1>2, StaleSettles DEF Good
  <1>5. Settles(x, PollCharging(x, g, due)) /\ Settles(x, PollStarting(x, g, due))
    BY <1>2, PollChargingDescends, PollStartingDescends, DescendsSettles
  <1> HIDE DEF x, q, stale
  <1>6. Settles(x, q)
    BY <1>3, <1>4, <1>5, SameGuns, DescendsSettles
  <1>7. CASE i.over
    BY <1>1, <1>2, <1>7, DescendsSettles DEF p
  <1>8. CASE ~i.over
    <2>1. Settles(s, q)
      BY <1>2, <1>6, <1>8 DEF Settles
    <2> QED
      BY <1>1, <1>8, <2>1 DEF p
  <1> QED
    BY <1>7, <1>8

-----------------------------------------------------------------------------
(* The actions: each settles no gun but at its end.                        *)

CanSettle == \E t : Become(t) /\ Settles(Now, t)

\* A step to data that descends, or holds the same guns, settles.
LEMMA BecomeSettles ==
    ASSUME NEW t, Become(t), Descends(Now, t) \/ t.gun = Now.gun
    PROVE  CanSettle
  BY SameGuns, DescendsSettles DEF CanSettle

\* The starts of the HMI and of the platform.
LEMMA StartsSettle ==
    ASSUME Good(Now), NEW g \in Guns, HmiStart(g) \/ PlatformStart(g)
    PROVE  CanSettle
  <1> DEFINE s == Now
  <1>1. PICK c \in StartCmds :
           LET armed == ArmPendingStart(s, g, c)
           IN  \/ Become(DispatchArmedStart(armed, g))
               \/ Become(TryDispatchMergePendingStart(armed, g))
    BY DEF HmiStart, PlatformStart
  <1>2. c \in StartData
    BY InputAssumption
  <1>3. Good(s) /\ s.sess[g].issued < MaxOrder
    BY NowFact DEF HmiStart, PlatformStart, CanOpenOrder
  <1> HIDE DEF s
  <1> DEFINE armed == ArmPendingStart(s, g, c)
             x == DispatchArmedStart(armed, g)
             y == TryDispatchMergePendingStart(armed, g)
  <1>4. Become(x) \/ Become(y)
    BY <1>1
  <1>5. Quiet(s, armed) /\ armed.gun = s.gun
    BY <1>2, <1>3, GoodOthers, ArmFact, ArmGuns
  <1> HIDE DEF armed
  <1>6. Good(armed) /\ Descends(s, armed)
    BY <1>3, <1>5, QuietGood, SameGuns
  <1>7. Descends(armed, x) /\ Descends(armed, y)
    BY <1>6, DispatchDescends, TryDispatchDescends DEF Good
  <1> HIDE DEF x, y
  <1>8. Descends(s, x) /\ Descends(s, y)
    BY <1>6, <1>7, DescendsTrans
  <1> QED
    BY <1>4, <1>8, BecomeSettles DEF s

\* The handlers that only pass an event to the state machine.
LEMMA EventsSettle ==
    ASSUME Good(Now), NEW g \in Guns,
           AuthResult(g) \/ StopCharge(g) \/ ResetError(g) \/ DeviceErrOn(g) \/ DeviceErrOff(g)
    PROVE  CanSettle
  <1>1. PICK e \in {"AUTH_OK", "AUTH_FAIL", "STOP_CMD", "RESET_ERROR", "DEVICE_ERR"} :
           Become(HandleEvent(Now, g, e))
    BY DEF AuthResult, StopCharge, ResetError, DeviceErrOn, DeviceErrOff
  <1>2. Sound(Now) /\ e # "METER_STALE"
    BY DEF Good
  <1>3. Descends(Now, HandleEvent(Now, g, e))
    BY <1>2, EventDescends
  <1> QED
    BY <1>1, <1>3, BecomeSettles

\* The outcome of a start.
LEMMA StartOkDescends ==
    ASSUME NEW s \in Data, NEW g \in Guns, NEW b
    PROVE  Descends(s, [s EXCEPT !.gun[g].startOk = b])
  <1> DEFINE r == [s.gun[g] EXCEPT !.startOk = b]
  <1>1. s.gun[g] \in GunRec
    BY Parts
  <1>2. r.state = s.gun[g].state /\ r.stopSeen = s.gun[g].stopSeen
    BY <1>1 DEF GunRec
  <1>3. [s EXCEPT !.gun[g] = r] = [s EXCEPT !.gun[g].startOk = b]
    OBVIOUS
  <1> HIDE DEF r
  <1>4. Descends(s, [s EXCEPT !.gun[g] = r])
    BY <1>2, GunRecord
  <1> QED
    BY <1>3, <1>4

\* start_complete.
LEMMA StartCompleteSettles ==
    ASSUME Good(Now), NEW g \in Guns, StartComplete(g)
    PROVE  CanSettle
  <1> DEFINE s == Now
             u == [s EXCEPT !.sess[g] = [s.sess[g] EXCEPT !.reason = "fault"]]
             ok == HandleEvent(s, g, "START_COMPLETE_OK")
             fail == HandleEvent(u, g, "START_COMPLETE_FAIL")
             yes == [ok EXCEPT !.gun[g].startOk = TRUE]
             no == [fail EXCEPT !.gun[g].startOk = FALSE]
  <1>0. u = [s EXCEPT !.sess[g].reason = "fault"]
    OBVIOUS
  <1>1. Become(yes) \/ Become(no)
    BY <1>0 DEF StartComplete
  <1>2. Good(s) /\ Sound(s) /\ s \in Data
    BY GoodOthers
  <1> HIDE DEF s
  <1>3. u.gun = s.gun
    BY <1>2, OtherRecords
  <1> HIDE DEF u
  <1>4. Quiet(s, u)
    BY <1>0, <1>2, ReasonNoted
  <1>5. ok \in Data /\ fail \in Data
    BY <1>2, <1>4, HandleEventFact, QuietEvent DEF Good, Sound
  <1>6. Descends(s, ok) /\ Descends(s, fail)
    BY <1>2, <1>3, <1>4, EventDescends, ThenEvent
  <1> HIDE DEF ok, fail
  <1>7. Descends(ok, yes) /\ Descends(fail, no)
    BY <1>5, StartOkDescends
  <1> HIDE DEF yes, no
  <1>8. Descends(s, yes) /\ Descends(s, no)
    BY <1>6, <1>7, DescendsTrans
  <1> QED
    BY <1>1, <1>8, BecomeSettles DEF s

\* stop_complete.
LEMMA StopCompleteSettles ==
    ASSUME Good(Now), NEW g \in Guns, StopComplete(g)
    PROVE  CanSettle
  <1> DEFINE s == Now
  <1>1. PICK end \in EndReasons :
           Become(HandleEvent(
               [s EXCEPT !.sess[g].reason = IF s.gun[g].startOk /\ end # "none"
                                            THEN end ELSE s.sess[g].reason],
               g, "STOP_COMPLETE"))
    BY NowFact DEF StopComplete
  <1>2. Good(s) /\ Sound(s) /\ s \in Data
    BY GoodOthers
  <1> HIDE DEF s
  <1> DEFINE b == IF s.gun[g].startOk /\ end # "none" THEN end ELSE s.sess[g].reason
             u == [s EXCEPT !.sess[g] = [s.sess[g] EXCEPT !.reason = b]]
             t == HandleEvent(u, g, "STOP_COMPLETE")
  <1>3. b \in Reasons
    BY <1>2, Parts, InputAssumption DEF SessRec
  <1> HIDE DEF b
  <1>4. u = [s EXCEPT !.sess[g].reason = b]
    OBVIOUS
  <1>5. Become(t)
    BY <1>1, <1>4 DEF b
  <1>6. u.gun = s.gun
    BY <1>2, OtherRecords
  <1> HIDE DEF u
  <1>7. Quiet(s, u)
    BY <1>2, <1>3, <1>4, ReasonFact
  <1>8. Descends(s, t)
    BY <1>2, <1>6, <1>7, ThenEvent
  <1> QED
    BY <1>5, <1>8, BecomeSettles DEF s

\* The six link reports.
LEMMA LinkStepsSettle ==
    ASSUME Good(Now), NEW g \in Guns,
           \/ PileOnline(g) \/ PileOffline(g) \/ MeterOnline(g) \/ MeterOffline(g)
           \/ PlatformOnline(g) \/ PlatformOffline(g)
    PROVE  CanSettle
  <1>1. \A l \in Links : /\ Descends(Now, NoteOnline(Now, g, l))
                         /\ Descends(Now, NoteOffline(Now, g, l))
                         /\ Descends(Now, [Now EXCEPT !.link[g][l] = Cleared])
    BY LinkDescends
  <1>2. \E l \in Links : \/ Become(NoteOnline(Now, g, l))
                         \/ Become(NoteOffline(Now, g, l))
                         \/ Become([Now EXCEPT !.link[g][l] = Cleared])
    BY LinkNames DEF PileOnline, PileOffline, MeterOnline, MeterOffline,
                     PlatformOnline, PlatformOffline
  <1> QED
    BY <1>1, <1>2, BecomeSettles

\* A request to wait for a card, and a meter packet, change no gun.
LEMMA OtherStepsSettle ==
    ASSUME Good(Now), NEW g \in Guns, RequestCardStart(g) \/ MeterData(g)
    PROVE  CanSettle
  <1> DEFINE s == Now
  <1>1. s \in Data
    BY GoodOthers
  <1>2. CASE RequestCardStart(g)
    <2>1. PICK ask \in AskRec : Become(StartOfflineCardFlow(s, g, FALSE, ask))
      BY <1>2 DEF RequestCardStart
    <2> HIDE DEF s
    <2>2. StartOfflineCardFlow(s, g, FALSE, ask).gun = s.gun
      BY <1>1 DEF StartOfflineCardFlow, Data
    <2> QED
      BY <2>1, <2>2, BecomeSettles DEF s
  <1>3. CASE MeterData(g)
    <2>1. PICK kwh \in Readings, volt \in Voltages : Become(HandleMeterData(s, g, kwh, volt))
      BY <1>3 DEF MeterData
    <2> HIDE DEF s
    <2>2. HandleMeterData(s, g, kwh, volt).gun = s.gun
      BY <1>1 DEF HandleMeterData, Data
    <2> QED
      BY <2>1, <2>2, BecomeSettles DEF s
  <1> QED
    BY <1>2, <1>3

\* An iteration of the main loop on a gun.
LEMMA PollStepSettles ==
    ASSUME Good(Now), NEW g \in Guns, Poll(g)
    PROVE  CanSettle
  <1>1. PICK due : Become(PollGun(Now, g, due))
    BY DEF Poll
  <1>2. Settles(Now, PollGun(Now, g, due))
    BY PollSettles
  <1> QED
    BY <1>1, <1>2 DEF CanSettle

\* The three reactions to a yx packet.
LEMMA YxPartsDescend ==
    ASSUME NEW s, Good(s), NEW g \in Guns, NEW p
    PROVE  /\ Descends(s, YxRecover(s, g, p))
           /\ Descends(s, YxWork(s, g, p))
           /\ Descends(s, YxConnect(s, g, p))
  <1>0. s \in Data /\ Sound(s) /\ Descends(s, s)
    BY GoodOthers, SameGuns
  <1>1. Descends(s, YxRecover(s, g, p))
    BY LinkNames, LinkDescends DEF YxRecover
  <1>2. Descends(s, YxWork(s, g, p))
    BY <1>0, EventDescends DEF YxWork
  <1>3. Descends(s, [s EXCEPT !.gun[g].gone = TRUE])
    <2> DEFINE r == [s.gun[g] EXCEPT !.gone = TRUE]
    <2>1. r.state = s.gun[g].state /\ r.stopSeen = s.gun[g].stopSeen
      BY <1>0, Parts DEF GunRec
    <2>2. [s EXCEPT !.gun[g] = r] = [s EXCEPT !.gun[g].gone = TRUE]
      OBVIOUS
    <2> HIDE DEF r
    <2>3. Descends(s, [s EXCEPT !.gun[g] = r])
      BY <1>0, <2>1, GunRecord
    <2> QED
      BY <2>2, <2>3
  <1>4. Descends(s, YxConnect(s, g, p))
    BY <1>0, <1>3, EventDescends DEF YxConnect
  <1> QED
    BY <1>1, <1>2, <1>4

\* A yx packet.
LEMMA YxSettles ==
    ASSUME Good(Now), NEW g \in Guns, Yx(g)
    PROVE  CanSettle
  <1> DEFINE s == Now
             r(p) == [s.gun[g] EXCEPT !.yxSeen = TRUE, !.conn = p.conn]
             seen(p) == [s EXCEPT !.gun[g] = r(p)]
             a(p) == YxRecover(seen(p), g, p)
             b(p) == YxWork(a(p), g, p)
             c(p) == YxConnect(b(p), g, p)
             d(p) == YxFault(c(p), g, p)
  <1>1. PICK p \in YxPackets : Become(d(p))
    BY DEF Yx
  <1>2. Good(s) /\ p \in YxPacket /\ s \in Data
    BY InputAssumption, GoodOthers
  <1> HIDE DEF s
  <1>3. /\ r(p) \in GunRec
        /\ r(p).state = s.gun[g].state
        /\ r(p).stopSeen = s.gun[g].stopSeen
    BY <1>2, Parts DEF GunRec, YxPacket
  <1> HIDE DEF r
  <1>4. Good(seen(p)) /\ Descends(s, seen(p))
    BY <1>2, <1>3, QuietGun, QuietGood, GunRecord
  <1> HIDE DEF seen
  <1>5. Good(a(p)) /\ Descends(seen(p), a(p))
    BY <1>4, YxPartsFact, YxPartsDescend
  <1> HIDE DEF a
  <1>6. Good(b(p)) /\ Descends(a(p), b(p))
    BY <1>5, YxPartsFact, YxPartsDescend
  <1> HIDE DEF b
  <1>7. Good(c(p)) /\ Descends(b(p), c(p))
    BY <1>6, YxPartsFact, YxPartsDescend
  <1> HIDE DEF c
  <1>8. Descends(c(p), d(p))
    BY <1>7, EventDescends, SameGuns DEF YxFault, Good
  <1> HIDE DEF d
  <1>9. Descends(s, a(p))
    BY <1>4, <1>5, DescendsTrans
  <1>10. Descends(s, b(p))
    BY <1>6, <1>9, DescendsTrans
  <1>11. Descends(s, c(p))
    BY <1>7, <1>10, DescendsTrans
  <1>12. Descends(s, d(p))
    BY <1>8, <1>11, DescendsTrans
  <1> QED
    BY <1>1, <1>12, BecomeSettles DEF s

\* The reader's reports and its reconciliation change no gun.
LEMMA ReaderSettles ==
    ASSUME Good(Now), RfOpened \/ RfClosed \/ CardOpFailed \/ PollReader
    PROVE  CanSettle
  <1> DEFINE s == Now
             Set(v) == [s EXCEPT !.reader = v]
  <1>1. \/ \E v : Become(Set(v)) \/ Become(ResetCardReaderState(Set(v)))
        \/ Become(ReconcileAutoCardWaiting(s))
    <2>1. ASSUME NEW b
          PROVE  [s EXCEPT !.reader.rf = b] = Set([s.reader EXCEPT !.rf = b])
      OBVIOUS
    <2>2. [s EXCEPT !.reader.rf = @ /\ reader.phase # "wait_auto_rf_close"]
            = Set([s.reader EXCEPT !.rf = @ /\ reader.phase # "wait_auto_rf_close"])
      OBVIOUS
    <2> HIDE DEF Set
    <2> QED
      BY <2>1, <2>2 DEF RfOpened, RfClosed, CardOpFailed, PollReader
  <1>2. Sound(s) /\ s \in Data
    BY DEF Good, Sound
  <1> HIDE DEF s
  <1>3. \A v : Set(v).gun = s.gun /\ ResetCardReaderState(Set(v)).gun = s.gun
    BY <1>2 DEF ResetCardReaderState, Data
  <1>4. ReconcileAutoCardWaiting(s).gun = s.gun
    BY <1>2, ReconcileFact
  <1> HIDE DEF Set
  <1> QED
    BY <1>1, <1>3, <1>4, BecomeSettles DEF s

\* A card presented to start.
LEMMA SwipeStartSettles ==
    ASSUME Good(Now), NEW c \in Cards, SwipeToStart(c)
    PROVE  CanSettle
  <1> DEFINE s == Now
             g == s.reader.gun
             d == [s.card[g] EXCEPT !.no = c]
             t == [s EXCEPT !.card[g] = d]
             u == BeginOfflineCardCharge(t, g)
  <1>1. t = [s EXCEPT !.card[g].no = c]
    OBVIOUS
  <1>2. Good(s) /\ (Become(t) \/ (s.sess[g].issued < MaxOrder /\ Become(u)))
    BY <1>1, NowFact DEF SwipeToStart, CanOpenOrder
  <1> HIDE DEF s
  <1>3. s \in Data /\ g \in Guns
    BY <1>2 DEF Good, Sound, Data, ReaderRec
  <1> HIDE DEF g
  <1>4. d \in CardRec
    BY <1>3, Parts DEF CardRec
  <1> HIDE DEF d
  <1>5. Good(t) /\ t.gun = s.gun
    BY <1>2, <1>3, <1>4, QuietCard, QuietGood, OtherRecords
  <1>6. t.sess = s.sess
    BY <1>3 DEF Data
  <1> HIDE DEF t
  <1>7. s.sess[g].issued < MaxOrder => Descends(t, u)
    BY <1>3, <1>5, <1>6, BeginCardDescends
  <1> HIDE DEF u
  <1>8. s.sess[g].issued < MaxOrder => Descends(s, u)
    BY <1>5, <1>7, SameGuns, DescendsTrans
  <1> QED
    BY <1>2, <1>5, <1>8, BecomeSettles DEF s

\* A card presented to stop.
LEMMA SwipeStopSettles ==
    ASSUME Good(Now), NEW c \in Cards, SwipeToStop(c)
    PROVE  CanSettle
  <1>1. PICK g \in Guns :
           Become(HandleEvent([Now EXCEPT !.sess[g].reason = "normal",
                                          !.card[g].swiped = TRUE], g, "STOP_CMD"))
    BY DEF SwipeToStop
  <1> DEFINE s == Now
             t == [s EXCEPT !.sess[g].reason = "normal"]
             d == [t.card[g] EXCEPT !.swiped = TRUE]
             u == [t EXCEPT !.card[g] = d]
             v == HandleEvent(u, g, "STOP_CMD")
  <1>2. Good(s) /\ Become(v)
    BY <1>1, NowFact DEF Now
  <1> HIDE DEF s
  <1>3. Quiet(s, t) /\ s \in Data
    BY <1>2, GoodOthers, ReasonNoted
  <1>4. t.gun = s.gun
    BY <1>3 DEF Data
  <1> HIDE DEF t
  <1>5. t \in Data
    BY <1>3 DEF Quiet
  <1>6. d \in CardRec
    <2>1. t.card[g] \in CardRec
      BY <1>5, Parts
    <2> QED
      BY <2>1 DEF CardRec
  <1> HIDE DEF d
  <1>7. Quiet(t, u) /\ u.gun = t.gun
    BY <1>5, <1>6, QuietCard, OtherRecords
  <1> HIDE DEF u
  <1>8. Quiet(s, u)
    BY <1>3, <1>7, QuietTrans
  <1>9. Descends(s, v)
    BY <1>2, <1>4, <1>7, <1>8, ThenEvent DEF Good
  <1> HIDE DEF v
  <1> QED
    BY <1>2, <1>9, BecomeSettles DEF s

-----------------------------------------------------------------------------
(* The theorems.                                                           *)

\* What every step does to the guns.
SettlesNow ==
    \A h \in Guns : Drops(gun[h], gun'[h]) \/ Ends(gun[h], gun'[h])

\* Every step settles no gun but at the end of its settlement.
LEMMA StepSettles == IInv /\ [Next]_vars => SettlesNow
  <1> SUFFICES ASSUME IInv, [Next]_vars PROVE SettlesNow
    OBVIOUS
  <1>0. Good(Now)
    BY DEF IInv
  <1>1. CASE Next
    <2>1. ASSUME NEW g \in Guns, OnGun(g)
          PROVE  CanSettle
      BY <1>0, <2>1, StartsSettle, EventsSettle, StartCompleteSettles, StopCompleteSettles,
         LinkStepsSettle, OtherStepsSettle, YxSettles, PollStepSettles DEF OnGun
    <2>2. CanSettle
      BY <1>0, <1>1, <2>1, ReaderSettles, SwipeStartSettles, SwipeStopSettles
         DEF Next, CardInfo
    <2>3. PICK t : Become(t) /\ Settles(Now, t)
      BY <2>2 DEF CanSettle
    <2> QED
      BY <2>3, NowFact DEF Become, Settles, SettlesNow
  <1>2. CASE UNCHANGED vars
    BY <1>2 DEF vars, SettlesNow, Drops
  <1> QED
    BY <1>1, <1>2

\* No message, timer or fault takes a gun out of CHARGING but into STOPPING, or out
\* of STOPPING but at the end of its settlement, for any number of guns and any
\* order of messages: no session that delivered energy goes unsettled.
THEOREM SettlementKept == Spec => SettlementUninterrupted
  <1>1. IInv /\ [Next]_vars =>
          [\A g \in Guns :
             /\ gun[g].state = "CHARGING" => gun'[g].state \in {"CHARGING", "STOPPING"}
             /\ gun[g].state = "STOPPING" =>
                   \/ gun'[g].state \in {"STOPPING", "STOPPED"}
                   \/ gun'[g].state = "IDLE" /\ gun[g].gone]_vars
    BY StepSettles DEF SettlesNow, Drops, Ends
  <1> QED
    BY <1>1, Invariance, PTL DEF Spec, SettlementUninterrupted

\* The report of a stop the pile has given is not forgotten while the gun settles,
\* whichever handler runs and whatever a merged peer does (stopCompleteSeen).
THEOREM StopReportKept == Spec => StopCompleteRemembered
  <1>1. IInv /\ [Next]_vars =>
          [\A g \in Guns :
             (gun[g].state = "STOPPING" /\ gun'[g].state = "STOPPING" /\ gun[g].stopSeen) =>
                 gun'[g].stopSeen]_vars
    BY StepSettles DEF SettlesNow, Drops, Ends
  <1> QED
    BY <1>1, Invariance, PTL DEF Spec, StopCompleteRemembered

=============================================================================
