---------------------------- MODULE SessionProofs ----------------------------
(***************************************************************************)
(* Proofs about what holds across the orders of a gun and between guns,    *)
(* for every number of guns and every order of messages.  The first part   *)
(* is about merged pairs that stop, the second about orders, their records *)
(* and their cards.  Both state a relation between the data before and     *)
(* after that composes: a handler satisfies it because each of its calls   *)
(* does.                                                                   *)
(***************************************************************************)
EXTENDS ReasonProofs

-----------------------------------------------------------------------------
(* Merged pairs: MergeStopsTogether.  A step either stops no gun (the      *)
(* starts), or is "Paired".                                                *)

Drawing == {"STARTING", "CHARGING"}

\* The gun, or the peer it is merged with, draws power.
DrewPower(s, g) ==
    \/ s.gun[g].state \in Drawing
    \/ MergedPair(s, g) /\ s.gun[Peer(g)].state \in Drawing

\* From s to t a gun that starts to stop takes its merged peer out of service; no gun
\* begins to draw power; a gun loses its merge flag only out of service, and gains
\* none; and a gun starts to stop only if it, or its merged peer, was drawing power.
Paired(s, t) ==
    /\ Sound(t)
    /\ \A g \in Guns :
          LET stops == s.gun[g].state # "STOPPING" /\ t.gun[g].state = "STOPPING"
          IN  /\ MergedPair(s, g) /\ stops => t.gun[Peer(g)].state \notin Drawing
              /\ t.gun[g].state \in Drawing => s.gun[g].state \in Drawing
              /\ s.sess[g].merge => t.sess[g].merge \/ t.gun[g].state \notin Drawing
              /\ t.sess[g].merge => s.sess[g].merge
              /\ stops => DrewPower(s, g)

\* From s to t no gun starts to stop.
NoStops(s, t) ==
    \A g \in Guns : t.gun[g].state = "STOPPING" => s.gun[g].state = "STOPPING"

SameMerges(s, t) == \A g \in Guns : t.sess[g].merge = s.sess[g].merge

\* The peer of a gun's peer is the gun (getMergePeerGun).
LEMMA PeerPeer ==
    ASSUME NEW g \in Guns, HasPeer(g)
    PROVE  Peer(Peer(g)) = g /\ Peer(g) \in Guns /\ Peer(g) # g
  BY GunAssumption DEF Peer, HasPeer, Guns

\* Paired steps compose.
LEMMA PairedTrans ==
    ASSUME NEW s, NEW t, NEW u, Paired(s, t), Paired(t, u)
    PROVE  Paired(s, u)
  <1> SUFFICES ASSUME NEW g \in Guns
               PROVE  LET stops == /\ s.gun[g].state # "STOPPING"
                                   /\ u.gun[g].state = "STOPPING"
                      IN  /\ MergedPair(s, g) /\ stops => u.gun[Peer(g)].state \notin Drawing
                          /\ u.gun[g].state \in Drawing => s.gun[g].state \in Drawing
                          /\ s.sess[g].merge => u.sess[g].merge \/ u.gun[g].state \notin Drawing
                          /\ u.sess[g].merge => s.sess[g].merge
                          /\ stops => DrewPower(s, g)
    BY DEF Paired
  <1>1. /\ u.gun[g].state \in Drawing => s.gun[g].state \in Drawing
        /\ s.sess[g].merge => u.sess[g].merge \/ u.gun[g].state \notin Drawing
        /\ u.sess[g].merge => s.sess[g].merge
    BY DEF Paired
  <1>2. ASSUME MergedPair(s, g), s.gun[g].state # "STOPPING", u.gun[g].state = "STOPPING",
               u.gun[Peer(g)].state \in Drawing
        PROVE  FALSE
    <2>1. /\ HasPeer(g) /\ Peer(g) \in Guns
          /\ s.sess[g].merge /\ s.sess[Peer(g)].merge
      BY <1>2 DEF MergedPair, HasPeer
    <2>2. t.gun[Peer(g)].state \in Drawing /\ t.sess[Peer(g)].merge
      BY <1>2, <2>1 DEF Paired
    <2>3. t.gun[g].state # "STOPPING"
      BY <1>2, <2>2 DEF Paired
    <2>4. t.sess[g].merge
      BY <1>2, <2>1, <2>3 DEF Paired, DrewPower, MergedPair
    <2>5. MergedPair(t, g)
      BY <2>1, <2>2, <2>4 DEF MergedPair
    <2> QED
      BY <1>2, <2>3, <2>5 DEF Paired
  <1>3. ASSUME s.gun[g].state # "STOPPING", u.gun[g].state = "STOPPING"
        PROVE  DrewPower(s, g)
    <2>1. CASE t.gun[g].state = "STOPPING"
      BY <1>3, <2>1 DEF Paired
    <2>2. CASE t.gun[g].state # "STOPPING"
      <3>1. DrewPower(t, g)
        BY <1>3, <2>2 DEF Paired
      <3> QED
        BY <3>1 DEF Paired, DrewPower, MergedPair, HasPeer
    <2> QED
      BY <2>1, <2>2
  <1> QED
    BY <1>1, <1>2, <1>3

\* A paired step leaves sound data behind.
LEMMA PairedSound ==
    ASSUME NEW s, NEW t, Paired(s, t)
    PROVE  Sound(t)
  BY DEF Paired

\* A step that changes no gun's state and no merge flag is paired.
LEMMA CalmPaired ==
    ASSUME NEW s, NEW t, Sound(t), SameMerges(s, t),
           \A g \in Guns : t.gun[g].state = s.gun[g].state
    PROVE  Paired(s, t)
  BY DEF Paired, SameMerges

\* The same sessions have the same merge flags.
LEMMA SessPaired ==
    ASSUME NEW s, NEW t, Quiet(s, t), Sound(s), t.sess = s.sess
    PROVE  Paired(s, t)
  BY CalmPaired, QuietSound DEF SameMerges, Quiet

\* Doing nothing is paired.
LEMMA PairedRefl ==
    ASSUME NEW s, Sound(s)
    PROVE  Paired(s, s)
  BY CalmPaired DEF SameMerges

\* A new session record with the same merge flag is paired.
LEMMA RecordPaired ==
    ASSUME NEW s, Sound(s), NEW t, Quiet(s, t), NEW g \in Guns, NEW o,
           t.sess = [s.sess EXCEPT ![g] = o], o.merge = s.sess[g].merge
    PROVE  Paired(s, t)
  <1>1. s \in Data /\ Sound(t) /\ \A h \in Guns : t.gun[h].state = s.gun[h].state
    BY QuietSound DEF Sound, Quiet
  <1>2. SameMerges(s, t)
    BY <1>1 DEF SameMerges, Data
  <1> QED
    BY <1>1, <1>2, CalmPaired

-----------------------------------------------------------------------------
(* Transitions.                                                            *)

\* From s to t the sessions stay, or that of gun g is left unmerged in IDLE.
Unmerges(s, t, g) ==
    \A h \in Guns :
        \/ t.sess[h].merge = s.sess[h].merge
        \/ h = g /\ ~t.sess[h].merge /\ t.gun[h].state = "IDLE"

\* resetChargeSessionState unmerges a gun in IDLE.
LEMMA ResetUnmerges ==
    ASSUME NEW s, Sound(s), NEW g \in Guns, s.gun[g].state = "IDLE"
    PROVE  Unmerges(s, ResetChargeSessionState(s, g), g)
  <1> DEFINE o == [armed |-> FALSE, basis |-> FALSE, merge |-> FALSE,
                   order |-> 0, issued |-> s.sess[g].issued, lastCmd |-> 0,
                   precharge |-> 0, tcuStop |-> FALSE, reason |-> "none"]
             t == ResetChargeSessionState(s, g)
  <1>1. s \in Data
    BY DEF Sound
  <1>2. t.gun[g].state = "IDLE"
    BY <1>1, ResetFact DEF Quiet
  <1>3. t.sess = [s.sess EXCEPT ![g] = o]
    BY <1>1 DEF ResetChargeSessionState, Data
  <1>4. ~o.merge
    OBVIOUS
  <1> HIDE DEF o, t
  <1>5. Unmerges(s, t, g)
    BY <1>1, <1>2, <1>3, <1>4 DEF Unmerges, Data
  <1> QED
    BY <1>5 DEF t

\* The assignments of transitionTo leave the sessions alone.
LEMMA MoveSess ==
    ASSUME NEW s, Sound(s), NEW g \in Guns, NEW to \in States
    PROVE  /\ Sound(Move(s, g, to))
           /\ Move(s, g, to).sess = s.sess
           /\ Move(s, g, to).gun[g].state = to
  <1>1. Sound(Move(s, g, to)) /\ Move(s, g, to).gun[g].state = to
    BY MovePuts DEF Puts
  <1>2. Move(s, g, to).sess = s.sess
    BY DEF Move, Sound, Data
  <1> QED
    BY <1>1, <1>2

\* So does closing a session.
LEMMA CloseSess ==
    ASSUME NEW s, Sound(s), NEW g \in Guns
    PROVE  Sound(CloseSession(s, g)) /\ CloseSession(s, g).sess = s.sess
  <1> DEFINE t == LogTradeRecordOnStopped(s, g)
             u == PrepareOfflineCardSettlement(t, g)
  <1>1. s \in Data /\ t \in Data
    BY LogFact DEF Sound, Quiet
  <1>2. t.sess = s.sess
    BY <1>1 DEF LogTradeRecordOnStopped, Data
  <1>3. u = CloseSession(s, g)
    BY DEF CloseSession
  <1> HIDE DEF t
  <1>4. u.sess = t.sess
    BY <1>1 DEF PrepareOfflineCardSettlement, Data
  <1>5. Sound(CloseSession(s, g))
    BY <1>1, CloseFact, QuietSound
  <1> QED
    BY <1>2, <1>3, <1>4, <1>5

\* Reconciling the reader after it changes neither sessions nor guns.
LEMMA ReconcileUnmerges ==
    ASSUME NEW s, NEW t, Sound(t), NEW g \in Guns, Unmerges(s, t, g)
    PROVE  Unmerges(s, ReconcileAutoCardWaiting(t), g)
  <1> DEFINE u == ReconcileAutoCardWaiting(t)
  <1>1. u.gun = t.gun /\ u.sess = t.sess
    BY ReconcileFact, ReaderSess DEF Sound
  <1> HIDE DEF u
  <1>2. Unmerges(s, u, g)
    BY <1>1 DEF Unmerges
  <1> QED
    BY <1>2 DEF u

\* What belongs to a new state unmerges its gun only in IDLE.
LEMMA EnterUnmerges ==
    ASSUME NEW s, Sound(s), NEW g \in Guns, NEW to \in States, s.gun[g].state = to
    PROVE  Unmerges(s, Enter(s, g, to), g)
  <1> DEFINE c == CloseSession(s, g)
             u == Move(c, g, "IDLE")
             v == ResetChargeSessionState(u, g)
             w == ReconcileAutoCardWaiting(v)
             e == Enter(s, g, to)
  <1>1. e \in {c, w, s} \/ (to = "IDLE" /\ e = ResetChargeSessionState(s, g))
    BY DEF Enter, LeaveIfGone
  <1>2. "IDLE" \in States
    BY DEF States
  <1>3. Sound(c) /\ c.sess = s.sess
    BY CloseSess
  <1> HIDE DEF c
  <1>4. Sound(u) /\ u.sess = c.sess /\ u.gun[g].state = "IDLE"
    BY <1>2, <1>3, MoveSess
  <1> HIDE DEF u
  <1>5. Unmerges(u, v, g) /\ Sound(v)
    BY <1>4, ResetUnmerges, ResetKeeps DEF Keeps
  <1> HIDE DEF v
  <1>6. Unmerges(s, v, g)
    BY <1>3, <1>4, <1>5 DEF Unmerges
  <1>7. Unmerges(s, w, g)
    BY <1>5, <1>6, ReconcileUnmerges
  <1>8. Unmerges(s, c, g) /\ Unmerges(s, s, g)
    BY <1>3 DEF Unmerges
  <1> HIDE DEF w, e
  <1>9. Unmerges(s, e, g)
    BY <1>1, <1>7, <1>8, ResetUnmerges
  <1> QED
    BY <1>9 DEF e

\* transitionTo unmerges its gun only in IDLE.
LEMMA TransitionUnmerges ==
    ASSUME NEW s, Sound(s), NEW g \in Guns, NEW to \in States
    PROVE  Unmerges(s, TransitionTo(s, g, to), g)
  <1> DEFINE u == Move(s, g, to)
             v == Enter(u, g, to)
             w == ReconcileAutoCardWaiting(v)
             t == TransitionTo(s, g, to)
  <1>1. t = IF s.gun[g].state = to THEN s ELSE w
    BY DEF TransitionTo
  <1>2. Sound(u) /\ u.sess = s.sess /\ u.gun[g].state = to
    BY MoveSess
  <1> HIDE DEF u
  <1>3. Unmerges(u, v, g) /\ Sound(v)
    BY <1>2, EnterUnmerges, EnterKeeps DEF Keeps
  <1> HIDE DEF v
  <1>4. Unmerges(s, v, g)
    BY <1>2, <1>3 DEF Unmerges
  <1>5. Unmerges(s, w, g)
    BY <1>3, <1>4, ReconcileUnmerges
  <1> HIDE DEF w, t
  <1>6. Unmerges(s, t, g)
    BY <1>1, <1>5 DEF Unmerges
  <1> QED
    BY <1>6 DEF t

\* A transition that neither stops its gun nor makes it draw power is paired; one
\* among the states that draw power is too.
LEMMA TransitionPaired ==
    ASSUME NEW s, Sound(s), NEW g \in Guns, NEW to \in States \ {"STOPPING"},
           to \in Drawing => s.gun[g].state \in Drawing
    PROVE  Paired(s, TransitionTo(s, g, to))
  <1> DEFINE t == TransitionTo(s, g, to)
  <1>1. Unmerges(s, t, g) /\ Moves(s, t, g, Reached(to))
    BY TransitionUnmerges, TransitionFact
  <1> HIDE DEF t
  <1>2. /\ t.gun[g].state # "STOPPING"
        /\ t.gun[g].state \in Drawing => s.gun[g].state \in Drawing
    BY <1>1 DEF Moves, Reached, Drawing
  <1>3. Paired(s, t)
    BY <1>1, <1>2 DEF Moves, Unmerges, Paired, Drawing
  <1> QED
    BY <1>3 DEF t

\* The first half of enterStopping stops its gun, and leaves all else alone.
LEMMA HaltSess ==
    ASSUME NEW s, Sound(s), NEW g \in Guns
    PROVE  LET t == Halt(s, g)
           IN  /\ Sound(t)
               /\ t.gun[g].state = "STOPPING"
               /\ \A h \in Guns \ {g} : t.gun[h].state = s.gun[h].state
               /\ SameMerges(s, t)
  <1> DEFINE u == TransitionTo(s, g, "STOPPING")
             t == Halt(s, g)
  <1>1. "STOPPING" \in States
    BY DEF States
  <1>2. Unmerges(s, u, g) /\ Sound(u)
    BY <1>1, TransitionUnmerges, TransitionKeeps DEF Keeps
  <1>3. u.gun[g].state = "STOPPING"
    <2>1. Reached("STOPPING") = {"STOPPING"}
      BY DEF Reached
    <2>2. Moves(s, u, g, {"STOPPING"})
      BY <1>1, <2>1, TransitionFact
    <2> QED
      BY <2>2 DEF Moves
  <1>4. t = [u EXCEPT !.gun[g] = [u.gun[g] EXCEPT !.gone = FALSE, !.stopSeen = FALSE,
                                                  !.sent = "stop_charge"],
                      !.meter[g].stable = 0]
    BY DEF Halt
  <1>5. Moves(s, t, g, {"STOPPING"})
    BY HaltFact
  <1> HIDE DEF u, t
  <1>6. t.sess = u.sess
    BY <1>2, <1>4 DEF Sound, Data
  <1>7. SameMerges(s, t)
    BY <1>2, <1>3, <1>6 DEF Unmerges, SameMerges
  <1> QED
    BY <1>5, <1>7 DEF Moves, t

\* enterStopping of a gun that draws power stops its merged peer as well, unless
\* the peer draws no power.
LEMMA EnterStoppingPaired ==
    ASSUME NEW s, Sound(s), NEW g \in Guns, s.gun[g].state \in Drawing
    PROVE  Paired(s, EnterStopping(s, g))
  <1> DEFINE p == Peer(g)
             u == Halt(s, g)
             v == Halt(u, p)
             t == EnterStopping(s, g)
  <1>1. t = IF MergedPair(u, g) /\ u.gun[p].state \notin {"IDLE", "STOPPING", "STOPPED"}
            THEN v ELSE u
    BY DEF EnterStopping, HaltPeer
  <1>2. /\ Sound(u)
        /\ u.gun[g].state = "STOPPING"
        /\ \A h \in Guns \ {g} : u.gun[h].state = s.gun[h].state
        /\ SameMerges(s, u)
    BY HaltSess
  <1> HIDE DEF u, t
  <1>3. CASE t = u /\ (MergedPair(u, g) => u.gun[p].state \in {"IDLE", "STOPPING", "STOPPED"})
    <2>1. MergedPair(s, g) => u.gun[p].state \notin Drawing
      BY <1>2, <1>3 DEF MergedPair, SameMerges, HasPeer, Drawing
    <2>2. Paired(s, u)
      BY <1>2, <2>1 DEF Paired, DrewPower, SameMerges, Drawing
    <2> QED
      BY <1>3, <2>2 DEF t
  <1>4. CASE t = v /\ MergedPair(u, g)
    <2>1. HasPeer(g) /\ u.sess[p].merge
      BY <1>4 DEF MergedPair
    <2>2. Peer(p) = g /\ p \in Guns /\ p # g
      BY <2>1, PeerPeer
    <2> HIDE DEF p
    <2>3. /\ Sound(v)
          /\ v.gun[p].state = "STOPPING"
          /\ \A h \in Guns \ {p} : v.gun[h].state = u.gun[h].state
          /\ SameMerges(u, v)
      BY <1>2, <2>2, HaltSess
    <2> HIDE DEF v
    <2>4. SameMerges(s, v) /\ s.sess[p].merge
      BY <1>2, <2>1, <2>2, <2>3 DEF SameMerges
    <2>5. v.gun[g].state = "STOPPING"
      BY <1>2, <2>2, <2>3
    <2>6. \A h \in Guns \ {g, p} : v.gun[h].state = s.gun[h].state
      BY <1>2, <2>3
    <2>7. Peer(g) = p
      BY DEF p
    <2>9. s.sess[g].merge
      BY <1>2, <1>4 DEF MergedPair, SameMerges
    <2>8. Paired(s, v)
      <3> SUFFICES ASSUME NEW h \in Guns
                   PROVE  LET stops == /\ s.gun[h].state # "STOPPING"
                                       /\ v.gun[h].state = "STOPPING"
                          IN  /\ MergedPair(s, h) /\ stops =>
                                   v.gun[Peer(h)].state \notin Drawing
                              /\ v.gun[h].state \in Drawing => s.gun[h].state \in Drawing
                              /\ s.sess[h].merge => \/ v.sess[h].merge
                                                    \/ v.gun[h].state \notin Drawing
                              /\ v.sess[h].merge => s.sess[h].merge
                              /\ stops => DrewPower(s, h)
        BY <2>3 DEF Paired
      <3>1. v.sess[h].merge = s.sess[h].merge
        BY <2>4 DEF SameMerges
      <3>2. CASE h = g
        BY <2>3, <2>5, <2>7, <3>1, <3>2 DEF Drawing, DrewPower
      <3>3. CASE h = p
        <4>1. MergedPair(s, p) /\ s.gun[Peer(p)].state \in Drawing
          BY <1>2, <2>1, <2>2, <2>4, <2>9 DEF MergedPair, HasPeer
        <4> QED
          BY <2>2, <2>3, <2>4, <2>5, <3>1, <3>3, <4>1 DEF Drawing, DrewPower
      <3>4. CASE h \notin {g, p}
        BY <2>6, <3>1, <3>4
      <3> QED
        BY <3>2, <3>3, <3>4
    <2> QED
      BY <1>4, <2>8 DEF t
  <1> QED
    BY <1>1, <1>3, <1>4

-----------------------------------------------------------------------------
(* handleEvent.                                                            *)

\* A gun's own flags do not matter.
LEMMA FlagPaired ==
    ASSUME NEW s, Sound(s), NEW g \in Guns, NEW r \in GunRec, r.state = s.gun[g].state
    PROVE  Paired(s, [s EXCEPT !.gun[g] = r])
  <1> DEFINE t == [s EXCEPT !.gun[g] = r]
  <1>1. s \in Data
    BY DEF Sound
  <1>2. Quiet(s, t)
    BY <1>1, QuietGun
  <1>3. t.sess = s.sess
    BY <1>1 DEF Data
  <1> HIDE DEF t
  <1>4. Paired(s, t)
    BY <1>2, <1>3, SessPaired
  <1> QED
    BY <1>4 DEF t

\* stopCompleteSeen, for one, and vehicleDisconnected.
LEMMA FlagsPaired ==
    ASSUME NEW s, Sound(s), NEW g \in Guns
    PROVE  /\ Paired(s, [s EXCEPT !.gun[g].stopSeen = TRUE])
           /\ Paired(s, [s EXCEPT !.gun[g].gone = TRUE])
  <1> DEFINE r == [s.gun[g] EXCEPT !.stopSeen = TRUE]
             q == [s.gun[g] EXCEPT !.gone = TRUE]
  <1>1. s.gun[g] \in GunRec
    BY Parts DEF Sound
  <1>2. /\ r \in GunRec /\ r.state = s.gun[g].state
        /\ q \in GunRec /\ q.state = s.gun[g].state
    BY <1>1 DEF GunRec
  <1>3. /\ [s EXCEPT !.gun[g] = r] = [s EXCEPT !.gun[g].stopSeen = TRUE]
        /\ [s EXCEPT !.gun[g] = q] = [s EXCEPT !.gun[g].gone = TRUE]
    OBVIOUS
  <1> HIDE DEF r, q
  <1>4. Paired(s, [s EXCEPT !.gun[g] = r]) /\ Paired(s, [s EXCEPT !.gun[g] = q])
    BY <1>2, FlagPaired
  <1> QED
    BY <1>3, <1>4

\* Noting a stop of the logic's own, or a reason, is paired.
LEMMA NotesPaired ==
    ASSUME NEW s, Sound(s), NEW g \in Guns
    PROVE  /\ \A b \in BOOLEAN : Paired(s, [s EXCEPT !.sess[g].tcuStop = b])
           /\ \A r \in Reasons : Paired(s, [s EXCEPT !.sess[g].reason = r])
  <1>1. s \in Data /\ s.sess[g] \in SessRec
    BY SessNumbers
  <1>2. ASSUME NEW b \in BOOLEAN
        PROVE  Paired(s, [s EXCEPT !.sess[g].tcuStop = b])
    <2> DEFINE o == [s.sess[g] EXCEPT !.tcuStop = b]
               t == [s EXCEPT !.sess[g].tcuStop = b]
    <2>1. Quiet(s, t)
      BY <1>1, TcuStopFact
    <2>2. t.sess = [s.sess EXCEPT ![g] = o]
      BY <1>1 DEF Data
    <2>3. o.merge = s.sess[g].merge
      BY <1>1 DEF SessRec
    <2> HIDE DEF o, t
    <2>4. Paired(s, t)
      BY <2>1, <2>2, <2>3, RecordPaired
    <2> QED
      BY <2>4 DEF t
  <1>3. ASSUME NEW r \in Reasons
        PROVE  Paired(s, [s EXCEPT !.sess[g].reason = r])
    <2> DEFINE o == [s.sess[g] EXCEPT !.reason = r]
               t == [s EXCEPT !.sess[g].reason = r]
    <2>1. Quiet(s, t)
      BY <1>1, ReasonFact
    <2>2. t.sess = [s.sess EXCEPT ![g] = o]
      BY <1>1 DEF Data
    <2>3. o.merge = s.sess[g].merge
      BY <1>1 DEF SessRec
    <2> HIDE DEF o, t
    <2>4. Paired(s, t)
      BY <2>1, <2>2, <2>3, RecordPaired
    <2> QED
      BY <2>4 DEF t
  <1> QED
    BY <1>2, <1>3

\* Withdrawing an armed start is paired.
LEMMA DisarmPaired ==
    ASSUME NEW s, Sound(s), NEW g \in Guns
    PROVE  Paired(s, Disarm(s, g))
  <1> DEFINE o == [s.sess[g] EXCEPT !.armed = FALSE, !.lastCmd = 0]
             t == Disarm(s, g)
  <1>1. s \in Data /\ s.sess[g] \in SessRec
    BY SessNumbers
  <1>2. Quiet(s, t)
    BY <1>1, DisarmFact
  <1>3. t.sess = [s.sess EXCEPT ![g] = o]
    BY <1>1 DEF Disarm, Data
  <1>4. o.merge = s.sess[g].merge
    BY <1>1 DEF SessRec
  <1> HIDE DEF o, t
  <1>5. Paired(s, t)
    BY <1>2, <1>3, <1>4, RecordPaired
  <1> QED
    BY <1>5 DEF t

\* Out of service, a gun is paired under every event but an authorisation.
LEMMA RestPaired ==
    ASSUME NEW s, Sound(s), NEW g \in Guns, NEW e, e # "AUTH_OK"
    PROVE  /\ Paired(s, OnIdle(s, g, e))
           /\ Paired(s, OnPrepare(s, g, e))
           /\ Paired(s, OnStopping(s, g, e))
           /\ Paired(s, OnStopped(s, g, e))
           /\ Paired(s, OnError(s, g, e))
  <1> DEFINE d == Disarm(s, g)
             i == TransitionTo(d, g, "IDLE")
  <1>1. {"IDLE", "PREPARE", "ERROR", "STOPPED"} \subseteq (States \ {"STOPPING"}) \ Drawing
    BY DEF States, Drawing
  <1>2. \A to \in {"IDLE", "PREPARE", "ERROR", "STOPPED"} :
          Paired(s, TransitionTo(s, g, to))
    BY <1>1, TransitionPaired
  <1>3. Paired(s, s) /\ Paired(s, [s EXCEPT !.gun[g].stopSeen = TRUE])
    BY PairedRefl, FlagsPaired
  <1>4. Paired(s, d)
    BY DisarmPaired
  <1>5. OnPrepare(s, g, e) \in {d, i, TransitionTo(s, g, "ERROR"), s}
    BY DEF OnPrepare
  <1> HIDE DEF d
  <1>6. Paired(d, i)
    BY <1>1, <1>4, TransitionPaired DEF Paired
  <1> HIDE DEF i
  <1>7. Paired(s, i)
    BY <1>4, <1>6, PairedTrans
  <1>8. Paired(s, OnPrepare(s, g, e))
    BY <1>2, <1>3, <1>4, <1>5, <1>7
  <1>9. Paired(s, OnIdle(s, g, e))
    BY <1>2, <1>3 DEF OnIdle
  <1>10. Paired(s, OnStopping(s, g, e))
    BY <1>2, <1>3 DEF OnStopping
  <1>11. Paired(s, OnStopped(s, g, e)) /\ Paired(s, OnError(s, g, e))
    BY <1>2, <1>3 DEF OnStopped, OnError
  <1> QED
    BY <1>8, <1>9, <1>10, <1>11

\* So is a gun that draws power, under every event.
LEMMA DrawingPaired ==
    ASSUME NEW s, Sound(s), NEW g \in Guns, s.gun[g].state \in Drawing, NEW e
    PROVE  Paired(s, OnStarting(s, g, e)) /\ Paired(s, OnCharging(s, g, e))
  <1> DEFINE no == FALSE
             c == [s EXCEPT !.sess[g].tcuStop = no]
             d == TransitionTo(c, g, "CHARGING")
             x == EnterStopping(s, g)
             y == [x EXCEPT !.gun[g].stopSeen = TRUE]
  <1>1. OnStarting(s, g, e) \in {d, x, TransitionTo(s, g, "IDLE"), s}
    BY DEF OnStarting
  <1>2. OnCharging(s, g, e) \in {y, x, s}
    BY DEF OnCharging
  <1>3. /\ no \in BOOLEAN
        /\ {"CHARGING", "IDLE"} \subseteq States \ {"STOPPING"}
        /\ "IDLE" \notin Drawing
    BY DEF States, Drawing
  <1> HIDE DEF no
  <1>4. Paired(s, c)
    BY <1>3, NotesPaired
  <1>5. c.gun[g].state = s.gun[g].state
    BY DEF Sound, Data
  <1>6. Paired(s, x)
    BY EnterStoppingPaired
  <1> HIDE DEF c, x
  <1>7. Paired(c, d)
    BY <1>3, <1>4, <1>5, TransitionPaired DEF Paired
  <1>8. Paired(x, y)
    BY <1>6, FlagsPaired, PairedSound
  <1> HIDE DEF d, y
  <1>9. Paired(s, d) /\ Paired(s, y)
    BY <1>4, <1>6, <1>7, <1>8, PairedTrans
  <1>10. Paired(s, TransitionTo(s, g, "IDLE"))
    BY <1>3, TransitionPaired
  <1> QED
    BY <1>1, <1>2, <1>6, <1>9, <1>10, PairedRefl

\* The state machine is paired, but for an authorisation.
LEMMA EventPaired ==
    ASSUME NEW s, Sound(s), NEW g \in Guns, NEW e, e # "AUTH_OK"
    PROVE  Paired(s, HandleEvent(s, g, e))
  BY RestPaired, DrawingPaired DEF HandleEvent, Drawing

\* So is an event after a paired change.
LEMMA PairedThenEvent ==
    ASSUME NEW s, NEW t, Paired(s, t), NEW g \in Guns, NEW e, e # "AUTH_OK"
    PROVE  Paired(s, HandleEvent(t, g, e))
  <1>1. Paired(t, HandleEvent(t, g, e))
    BY EventPaired, PairedSound
  <1> QED
    BY <1>1, PairedTrans

\* An event with a reason of its own.
LEMMA PairedReasonEvent ==
    ASSUME NEW s, Sound(s), NEW g \in Guns, NEW e, e # "AUTH_OK"
    PROVE  Paired(s, HandleEvent([s EXCEPT !.sess[g].reason = "fault"], g, e))
  <1> DEFINE yes == "fault"
             u == [s EXCEPT !.sess[g].reason = yes]
  <1>1. yes \in Reasons
    BY DEF Reasons
  <1>2. u = [s EXCEPT !.sess[g].reason = "fault"]
    OBVIOUS
  <1> HIDE DEF yes
  <1>3. Paired(s, u)
    BY <1>1, NotesPaired
  <1> HIDE DEF u
  <1>4. Paired(s, HandleEvent(u, g, e))
    BY <1>3, PairedThenEvent
  <1> QED
    BY <1>2, <1>4

-----------------------------------------------------------------------------
(* The stop at the prepaid amount, and the links.                          *)

\* A stop of the logic's own is paired.
LEMMA RequestStopPaired ==
    ASSUME NEW s, Sound(s), NEW g \in Guns
    PROVE  Paired(s, RequestStop(s, g))
  <1> DEFINE yes == TRUE
             u == [s EXCEPT !.sess[g].tcuStop = yes]
  <1>1. yes \in BOOLEAN
    OBVIOUS
  <1>2. RequestStop(s, g) = s \/ RequestStop(s, g) = HandleEvent(u, g, "STOP_CMD")
    BY DEF RequestStop
  <1> HIDE DEF yes
  <1>3. Paired(s, u)
    BY <1>1, NotesPaired
  <1> HIDE DEF u
  <1>4. Paired(s, HandleEvent(u, g, "STOP_CMD"))
    BY <1>3, PairedThenEvent
  <1> QED
    BY <1>2, <1>4, PairedRefl

\* So is the stop at the prepaid amount, which asks for both guns' stop.
LEMMA PrepaidPaired ==
    ASSUME NEW s, Sound(s), NEW g \in Guns
    PROVE  Paired(s, MaybeTriggerTcuStopByPrecharge(s, g))
  <1> DEFINE t == RequestStop(s, g)
             u == RequestStop(t, Peer(g))
             r == MaybeTriggerTcuStopByPrecharge(s, g)
  <1>1. Paired(s, t)
    BY RequestStopPaired
  <1>2. r = s \/ r = t \/ (Peer(g) \in Guns /\ r = u)
    BY DEF MaybeTriggerTcuStopByPrecharge, RequestPeerStop, HasPeer
  <1> HIDE DEF t, r
  <1>3. Peer(g) \in Guns => Paired(t, u)
    BY <1>1, RequestStopPaired, PairedSound
  <1> HIDE DEF u
  <1>4. Paired(s, r)
    BY <1>1, <1>2, <1>3, PairedRefl, PairedTrans
  <1> QED
    BY <1>4 DEF r

\* A new link record is paired.
LEMMA LinkPaired ==
    ASSUME NEW s, Sound(s), NEW g \in Guns, NEW l \in Links, NEW r \in LinkRec
    PROVE  Paired(s, WithLink(s, g, l, r))
  <1> DEFINE t == WithLink(s, g, l, r)
  <1>1. t \in Data /\ t.reader = s.reader
    BY LinkFact DEF Sound
  <1>2. t.sess = s.sess /\ t.gun = s.gun
    BY DEF WithLink, Sound, Data
  <1> HIDE DEF t
  <1>3. Paired(s, t)
    BY <1>1, <1>2, CalmPaired DEF Sound, AutoAllowed, SameMerges
  <1> QED
    BY <1>3 DEF t

\* So are a link's reports.
LEMMA LinkReportsPaired ==
    ASSUME NEW s, Sound(s), NEW g \in Guns, NEW l \in Links
    PROVE  /\ Paired(s, NoteOffline(s, g, l))
           /\ Paired(s, NoteOnline(s, g, l))
           /\ Paired(s, [s EXCEPT !.link[g][l] = Cleared])
  <1> DEFINE r == [s.link[g][l] EXCEPT !.pending = TRUE]
             x == WithLink(s, g, l, r)
             t == WithLink(s, g, l, Cleared)
             n == NoteOnline(s, g, l)
  <1>1. s.link[g][l] \in LinkRec
    BY Parts DEF Sound
  <1>2. r \in LinkRec /\ Cleared \in LinkRec
    BY <1>1 DEF LinkRec, Cleared
  <1>3. NoteOffline(s, g, l) = s \/ NoteOffline(s, g, l) = x
    BY DEF NoteOffline, WithLink
  <1>4. [s EXCEPT !.link[g][l] = Cleared] = t
    BY DEF WithLink
  <1>5. n = t \/ \E to \in {"PREPARE", "IDLE"} : n = TransitionTo(t, g, to)
    BY <1>4 DEF NoteOnline
  <1> HIDE DEF r
  <1>6. Paired(s, x) /\ Paired(s, t)
    BY <1>2, LinkPaired
  <1> HIDE DEF x, t, n
  <1>7. {"PREPARE", "IDLE"} \subseteq (States \ {"STOPPING"}) \ Drawing
    BY DEF States, Drawing
  <1>8. \A to \in {"PREPARE", "IDLE"} : Paired(t, TransitionTo(t, g, to))
    BY <1>6, <1>7, TransitionPaired DEF Paired
  <1>9. Paired(s, n)
    BY <1>5, <1>6, <1>8, PairedTrans
  <1> QED
    BY <1>3, <1>4, <1>6, <1>9, PairedRefl DEF n

\* So is a confirmed fault: it stops a merged pair as a whole.
LEMMA ConfirmPaired ==
    ASSUME NEW s, Sound(s), NEW g \in Guns, NEW l \in Links
    PROVE  Paired(s, ConfirmOffline(s, g, l))
  <1> DEFINE r == [fault |-> TRUE, latched |-> TRUE, pending |-> FALSE]
             t == LatchFault(s, g, l)
             st == s.gun[g].state
             b == IF st \in {"STARTING", "CHARGING"} THEN "fault"
                  ELSE t.sess[g].reason
             u == [t EXCEPT !.sess[g].reason = b]
             c == ConfirmOffline(s, g, l)
  <1>1. r \in LinkRec
    BY DEF LinkRec
  <1>2. t = WithLink(s, g, l, r)
    BY DEF LatchFault, WithLink
  <1>3. c = t \/ c = HandleEvent(u, g, "DEVICE_ERR")
    BY DEF ConfirmOffline
  <1> HIDE DEF r, t, c
  <1>4. Paired(s, t)
    BY <1>1, <1>2, LinkPaired
  <1>5. b \in Reasons
    BY <1>4, SessNumbers DEF Paired, SessRec, Reasons
  <1> HIDE DEF b
  <1>6. Paired(t, u)
    BY <1>4, <1>5, NotesPaired, PairedSound
  <1> HIDE DEF u
  <1>7. Paired(s, u)
    BY <1>4, <1>6, PairedTrans
  <1>8. Paired(s, HandleEvent(u, g, "DEVICE_ERR"))
    BY <1>7, PairedThenEvent
  <1>9. Paired(s, c)
    BY <1>3, <1>4, <1>8
  <1> QED
    BY <1>9 DEF c

-----------------------------------------------------------------------------
(* One iteration of the main loop on a gun.                                *)

\* What a check of the links passes on.
PairedBy(s, i) == i = [data |-> i.data, over |-> i.over] /\ Paired(s, i.data)

\* Each of the four checks is paired.
LEMMA ChecksPaired ==
    ASSUME NEW s, Sound(s), NEW i, PairedBy(s, i), NEW g \in Guns, NEW due
    PROVE  /\ PairedBy(s, MaybeConfirmMeterOfflineFault(i, g, due))
           /\ PairedBy(s, MaybeConfirmPlatformOfflineFault(i, g, due))
           /\ PairedBy(s, MaybeConfirmPileYxTimeoutFault(i, g, due))
           /\ PairedBy(s, MaybeConfirmPileOfflineFault(i, g, due))
  <1>1. /\ PairedBy(s, Confirm(i, g, "meter"))
        /\ PairedBy(s, Confirm(i, g, "platform"))
        /\ PairedBy(s, Confirm(i, g, "pile"))
    <2>1. ASSUME NEW l \in Links
          PROVE  PairedBy(s, Confirm(i, g, l))
      <3> DEFINE c == ConfirmOffline(i.data, g, l)
                 o == i.data.gun[g].state \notin {"STOPPING", "ERROR"}
      <3>1. Confirm(i, g, l) = [data |-> c, over |-> o]
        BY DEF Confirm
      <3>2. Paired(i.data, c)
        BY ConfirmPaired DEF PairedBy, Paired
      <3> HIDE DEF c, o
      <3>3. Paired(s, c)
        BY <3>2, PairedTrans DEF PairedBy
      <3> QED
        BY <3>1, <3>3 DEF PairedBy
    <2> QED
      BY <2>1, LinkNames
  <1>2. PairedBy(s, [i EXCEPT !.data.link[g]["platform"] = Cleared])
    <2> DEFINE x == i.data
               t == [x EXCEPT !.link[g]["platform"] = Cleared]
    <2>1. Paired(s, x) /\ i = [data |-> x, over |-> i.over]
      BY DEF PairedBy
    <2>2. [i EXCEPT !.data.link[g]["platform"] = Cleared] = [data |-> t, over |-> i.over]
      BY <2>1
    <2> HIDE DEF x
    <2>3. Paired(x, t)
      BY <2>1, LinkNames, LinkReportsPaired, PairedSound
    <2> HIDE DEF t
    <2>4. Paired(s, t)
      BY <2>1, <2>3, PairedTrans
    <2>5. PairedBy(s, [data |-> t, over |-> i.over])
      BY <2>4 DEF PairedBy
    <2> QED
      BY <2>2, <2>5
  <1>3. PairedBy(s, MaybeConfirmMeterOfflineFault(i, g, due))
    BY <1>1 DEF MaybeConfirmMeterOfflineFault
  <1>4. PairedBy(s, MaybeConfirmPlatformOfflineFault(i, g, due))
    BY <1>1, <1>2 DEF MaybeConfirmPlatformOfflineFault
  <1>5. PairedBy(s, MaybeConfirmPileYxTimeoutFault(i, g, due))
    BY <1>1 DEF MaybeConfirmPileYxTimeoutFault
  <1>6. PairedBy(s, MaybeConfirmPileOfflineFault(i, g, due))
    BY <1>1 DEF MaybeConfirmPileOfflineFault
  <1> QED
    BY <1>3, <1>4, <1>5, <1>6

\* So are the four together.
LEMMA CheckLinksPaired ==
    ASSUME NEW s, Sound(s), NEW g \in Guns, NEW due
    PROVE  Paired(s, CheckLinks(s, g, due).data)
  <1> DEFINE a == [data |-> s, over |-> FALSE]
             b == MaybeConfirmMeterOfflineFault(a, g, due)
             c == MaybeConfirmPlatformOfflineFault(b, g, due)
             d == MaybeConfirmPileYxTimeoutFault(c, g, due)
             e == MaybeConfirmPileOfflineFault(d, g, due)
  <1>1. PairedBy(s, a)
    BY PairedRefl DEF PairedBy
  <1>2. CheckLinks(s, g, due) = e
    BY DEF CheckLinks
  <1> HIDE DEF a
  <1>3. PairedBy(s, b)
    BY <1>1, ChecksPaired
  <1> HIDE DEF b
  <1>4. PairedBy(s, c)
    BY <1>3, ChecksPaired
  <1> HIDE DEF c
  <1>5. PairedBy(s, d)
    BY <1>4, ChecksPaired
  <1> HIDE DEF d
  <1>6. PairedBy(s, e)
    BY <1>5, ChecksPaired
  <1> QED
    BY <1>2, <1>6 DEF PairedBy

\* The limits of STARTING are paired.
LEMMA PollStartingPaired ==
    ASSUME NEW s, Sound(s), NEW g \in Guns, NEW due
    PROVE  Paired(s, PollStarting(s, g, due))
  <1> DEFINE r == [s.gun[g] EXCEPT !.retried = TRUE, !.sent = "start_charge"]
             again == [s EXCEPT !.gun[g] = r]
             t == IF "starting_30s" \in due /\ ~s.gun[g].retried THEN again ELSE s
             u == HandleEvent([t EXCEPT !.sess[g].reason = "fault"], g, "STOP_CMD")
  <1>1. r \in GunRec /\ r.state = s.gun[g].state
    BY Parts DEF Sound, GunRec
  <1>2. PollStarting(s, g, due) = IF "starting_60s" \in due THEN u ELSE t
    BY DEF PollStarting
  <1> HIDE DEF r
  <1>3. Paired(s, again)
    BY <1>1, FlagPaired
  <1> HIDE DEF again
  <1>4. Paired(s, t)
    BY <1>3, PairedRefl
  <1> HIDE DEF t
  <1>5. Paired(t, u)
    BY <1>4, PairedSound, PairedReasonEvent
  <1> HIDE DEF u
  <1>6. Paired(s, u)
    BY <1>4, <1>5, PairedTrans
  <1> QED
    BY <1>2, <1>4, <1>6

\* So are the checks of CHARGING.
LEMMA PollChargingPaired ==
    ASSUME NEW s, Sound(s), NEW g \in Guns, NEW due
    PROVE  Paired(s, PollCharging(s, g, due))
  <1> DEFINE t == MaybeTriggerTcuStopByPrecharge(s, g)
             u == HandleEvent([t EXCEPT !.sess[g].reason = "fault"], g, "DEVICE_ERR")
             p == PollCharging(s, g, due)
  <1>1. Paired(s, t)
    BY PrepaidPaired
  <1>2. p = t \/ p = u
    BY DEF PollCharging, MaybeTriggerMeteringAbnormal
  <1> HIDE DEF t, p
  <1>3. Paired(t, u)
    BY <1>1, PairedReasonEvent, PairedSound
  <1> HIDE DEF u
  <1>4. Paired(s, p)
    BY <1>1, <1>2, <1>3, PairedTrans
  <1> QED
    BY <1>4 DEF p

\* So is the iteration.
LEMMA PollGunPaired ==
    ASSUME NEW s, Sound(s), NEW g \in Guns, NEW due
    PROVE  Paired(s, PollGun(s, g, due))
  <1> DEFINE x == CheckLinks(s, g, due).data
             q == PollSession(x, g, due)
             p == PollGun(s, g, due)
  <1>1. p = x \/ p = q
    BY DEF PollGun, FinishIteration
  <1>2. Paired(s, x)
    BY CheckLinksPaired
  <1> HIDE DEF x, p
  <1>3. Sound(x)
    BY <1>2 DEF Paired
  <1>4. Paired(x, PollStopping(x, g, due))
    BY <1>3, EventPaired, PairedRefl DEF PollStopping
  <1>5. Paired(x, q)
    BY <1>3, <1>4, PollChargingPaired, PollStartingPaired, PairedRefl DEF PollSession
  <1> HIDE DEF q
  <1>6. Paired(s, p)
    BY <1>1, <1>2, <1>5, PairedTrans
  <1> QED
    BY <1>6 DEF p

-----------------------------------------------------------------------------
(* The starts, which stop no gun.                                          *)

\* Steps that stop no gun compose, and changes that move no gun are among them.
LEMMA StopsTrans ==
    /\ \A s, t, u : NoStops(s, t) /\ NoStops(t, u) => NoStops(s, u)
    /\ \A s, t : (\A g \in Guns : t.gun[g].state = s.gun[g].state) => NoStops(s, t)
  BY DEF NoStops

\* An authorisation stops no gun, whatever state the gun is in.
LEMMA AuthStopsNone ==
    ASSUME NEW s, Sound(s), NEW g \in Guns
    PROVE  NoStops(s, HandleEvent(s, g, "AUTH_OK"))
  <1> DEFINE a == SendArmedStart(s, g)
             t == TransitionTo(a, g, "STARTING")
  <1>1. HandleEvent(s, g, "AUTH_OK") \in {t, s}
    BY DEF HandleEvent, OnIdle, OnPrepare, OnStarting, OnCharging, OnStopping,
           OnStopped, OnError
  <1>2. "STARTING" \in States /\ Reached("STARTING") = {"STARTING"}
    BY DEF States, Reached
  <1>3. Quiet(s, a) /\ Sound(a)
    BY SendFact, QuietSound DEF Sound
  <1> HIDE DEF a
  <1>4. Moves(a, t, g, {"STARTING"})
    BY <1>2, <1>3, TransitionFact
  <1> HIDE DEF t
  <1>5. NoStops(s, t)
    BY <1>3, <1>4 DEF Moves, Quiet, NoStops
  <1> QED
    BY <1>1, <1>5, StopsTrans

\* A start in two halves: the order opens, then the gun is dispatched.
LEMMA StartStopsNone ==
    ASSUME NEW s, Sound(s), NEW t, Quiet(s, t), NEW g \in Guns
    PROVE  /\ NoStops(s, HandleEvent(t, g, "AUTH_OK"))
           /\ Sound(HandleEvent(t, g, "AUTH_OK"))
  <1> DEFINE u == HandleEvent(t, g, "AUTH_OK")
  <1>1. NoStops(s, t) /\ Sound(t)
    BY StopsTrans, QuietSound DEF Quiet
  <1>2. NoStops(t, u) /\ Sound(u)
    BY <1>1, AuthStopsNone, EventKeeps DEF Keeps
  <1> HIDE DEF u
  <1>3. NoStops(s, u)
    BY <1>1, <1>2, StopsTrans
  <1> QED
    BY <1>2, <1>3 DEF u

\* Dispatching a merged pair stops no gun.
LEMMA TryDispatchStopsNone ==
    ASSUME NEW s, Sound(s), NEW g \in Guns
    PROVE  NoStops(s, TryDispatchMergePendingStart(s, g))
  <1> DEFINE p == Peer(g)
             t == SyncMergePrechargeAmount(s, g)
             u == SyncMergePrechargeAmount(t, p)
             v == HandleEvent(u, g, "AUTH_OK")
             w == HandleEvent(v, p, "AUTH_OK")
             r == TryDispatchMergePendingStart(s, g)
  <1>1. r = s \/ (p \in Guns /\ r = w)
    BY DEF TryDispatchMergePendingStart, DispatchArmedStart, HasPeer
  <1>2. Quiet(s, t) /\ t \in Data
    BY SyncFact DEF Sound, Quiet
  <1> HIDE DEF t, p, r
  <1>3. p \in Guns => Quiet(t, u)
    BY <1>2, SyncFact
  <1> HIDE DEF u
  <1>4. p \in Guns => Quiet(s, u)
    BY <1>2, <1>3, QuietTrans
  <1>5. p \in Guns => NoStops(s, v) /\ Sound(v)
    BY <1>4, StartStopsNone
  <1> HIDE DEF v
  <1>6. p \in Guns => NoStops(v, w)
    BY <1>5, AuthStopsNone
  <1> HIDE DEF w
  <1>7. NoStops(s, r)
    BY <1>1, <1>5, <1>6, StopsTrans
  <1> QED
    BY <1>7 DEF r

\* A card start stops none, in whatever state it finds the gun.
LEMMA BeginCardStopsNone ==
    ASSUME NEW s, Sound(s), NEW g \in Guns, s.sess[g].issued < MaxOrder
    PROVE  NoStops(s, BeginOfflineCardCharge(s, g))
  <1> DEFINE data == [merge |-> s.card[g].ask.merge, precharge |-> 0,
                      model |-> \/ CardFeeFallback
                                \/ s.card[g].ask.model
                                \/ s.meter[g].ready]
             c == [s.card[g] EXCEPT !.active = TRUE, !.swiped = FALSE]
             t == [s EXCEPT !.card[g] = c]
             u == ArmPendingStart(t, g, data)
             d == [u.card[g] EXCEPT !.ask = NoAsk]
             v == [u EXCEPT !.card[g] = d]
             w == ResetCardReaderState(v)
  <1>1. s \in Data /\ s.card[g] \in CardRec /\ s.meter[g] \in MeterRec
    BY Parts DEF Sound
  <1>2. data \in StartData
    <2>1. s.card[g].ask.merge \in BOOLEAN /\ s.card[g].ask.model \in BOOLEAN
      BY <1>1 DEF CardRec, AskRec
    <2>2. 0 \in Readings
      BY BoundAssumption DEF Readings
    <2> QED
      BY <1>1, <2>1, <2>2, SwitchAssumption DEF StartData, MeterRec
  <1>3. c \in CardRec
    BY <1>1 DEF CardRec
  <1>4. BeginOfflineCardCharge(s, g) = HandleEvent(w, g, "AUTH_OK")
    BY DEF BeginOfflineCardCharge, DispatchArmedStart
  <1> HIDE DEF c, data
  <1>5. Quiet(s, t) /\ t.sess = s.sess
    BY <1>1, <1>3, QuietCard DEF Data
  <1> HIDE DEF t
  <1>6. Quiet(t, u) /\ u \in Data
    BY <1>2, <1>5, ArmFact DEF Quiet
  <1> HIDE DEF u
  <1>7. u.card[g] \in CardRec
    BY <1>6, Parts
  <1>8. d \in CardRec
    BY <1>7 DEF CardRec, NoAsk, AskRec
  <1> HIDE DEF d
  <1>9. Quiet(u, v)
    BY <1>6, <1>8, QuietCard
  <1> HIDE DEF v
  <1>10. Quiet(s, v)
    BY <1>5, <1>6, <1>9, QuietTrans
  <1>11. Sound(v) /\ NoStops(s, v)
    BY <1>10, QuietSound, StopsTrans DEF Quiet
  <1>12. Sound(w)
    BY <1>11, ResetReaderKeeps DEF Keeps
  <1>13. w.gun = v.gun
    BY <1>11 DEF ResetCardReaderState, Sound, Data
  <1> HIDE DEF w
  <1>14. NoStops(s, w)
    BY <1>11, <1>13, StopsTrans
  <1>15. NoStops(s, HandleEvent(w, g, "AUTH_OK"))
    BY <1>12, <1>14, AuthStopsNone, StopsTrans
  <1> QED
    BY <1>4, <1>15

-----------------------------------------------------------------------------
(* The actions: each leaves data behind that stops guns in pairs.          *)

CanPair == \E t : Become(t) /\ (Paired(Now, t) \/ NoStops(Now, t))

\* The starts of the HMI and of the platform.
LEMMA StartsPair ==
    ASSUME Sound(Now), NEW g \in Guns, HmiStart(g) \/ PlatformStart(g)
    PROVE  CanPair
  <1> DEFINE s == Now
  <1>1. PICK c \in StartCmds :
           LET armed == ArmPendingStart(s, g, c)
           IN  \/ Become(HandleEvent(armed, g, "AUTH_OK"))
               \/ Become(TryDispatchMergePendingStart(armed, g))
    BY DEF HmiStart, PlatformStart, DispatchArmedStart
  <1>2. c \in StartData
    BY InputAssumption
  <1>3. Sound(s) /\ s \in Data /\ s.sess[g].issued < MaxOrder
    BY NowFact DEF HmiStart, PlatformStart, CanOpenOrder, Sound
  <1> HIDE DEF s
  <1> DEFINE armed == ArmPendingStart(s, g, c)
             x == HandleEvent(armed, g, "AUTH_OK")
             y == TryDispatchMergePendingStart(armed, g)
  <1>4. Become(x) \/ Become(y)
    BY <1>1
  <1>5. Quiet(s, armed)
    BY <1>2, <1>3, ArmFact
  <1> HIDE DEF armed
  <1>6. Sound(armed) /\ NoStops(s, armed)
    BY <1>3, <1>5, QuietSound, StopsTrans DEF Quiet
  <1>7. NoStops(s, x)
    BY <1>3, <1>5, StartStopsNone
  <1>8. NoStops(armed, y)
    BY <1>6, TryDispatchStopsNone
  <1> HIDE DEF x, y
  <1>9. NoStops(s, y)
    BY <1>6, <1>8, StopsTrans
  <1> QED
    BY <1>4, <1>7, <1>9 DEF CanPair, s

\* The handlers that only pass an event to the state machine, and the main loop.
LEMMA EventsPair ==
    ASSUME Sound(Now), NEW g \in Guns,
           \/ AuthResult(g) \/ StopCharge(g) \/ ResetError(g)
           \/ DeviceErrOn(g) \/ DeviceErrOff(g) \/ Poll(g)
    PROVE  CanPair
  <1>1. \/ \E e : Become(HandleEvent(Now, g, e))
        \/ \E due : Become(PollGun(Now, g, due))
    BY DEF AuthResult, StopCharge, ResetError, DeviceErrOn, DeviceErrOff, Poll
  <1>2. \A e : Paired(Now, HandleEvent(Now, g, e)) \/ NoStops(Now, HandleEvent(Now, g, e))
    BY EventPaired, AuthStopsNone
  <1>3. \A due : Paired(Now, PollGun(Now, g, due))
    BY PollGunPaired
  <1> QED
    BY <1>1, <1>2, <1>3 DEF CanPair

\* Noting the outcome of a start.
LEMMA StartOkPaired ==
    ASSUME NEW s, Sound(s), NEW g \in Guns, NEW b \in BOOLEAN
    PROVE  Paired(s, [s EXCEPT !.gun[g].startOk = b])
  <1> DEFINE r == [s.gun[g] EXCEPT !.startOk = b]
  <1>1. r \in GunRec /\ r.state = s.gun[g].state
    BY Parts DEF Sound, GunRec
  <1>2. [s EXCEPT !.gun[g] = r] = [s EXCEPT !.gun[g].startOk = b]
    OBVIOUS
  <1> HIDE DEF r
  <1>3. Paired(s, [s EXCEPT !.gun[g] = r])
    BY <1>1, FlagPaired
  <1> QED
    BY <1>2, <1>3

\* start_complete: a failed start of one gun stops the other.
LEMMA StartCompletePairs ==
    ASSUME Sound(Now), NEW g \in Guns, StartComplete(g)
    PROVE  CanPair
  <1> DEFINE s == Now
             ok == HandleEvent(s, g, "START_COMPLETE_OK")
             fail == HandleEvent([s EXCEPT !.sess[g].reason = "fault"], g,
                                 "START_COMPLETE_FAIL")
             yes == TRUE
             no == FALSE
             x == [ok EXCEPT !.gun[g].startOk = yes]
             y == [fail EXCEPT !.gun[g].startOk = no]
  <1>1. Become(x) \/ Become(y)
    BY DEF StartComplete
  <1>2. Sound(s) /\ yes \in BOOLEAN /\ no \in BOOLEAN
    OBVIOUS
  <1> HIDE DEF s, yes, no
  <1>3. Paired(s, ok) /\ Paired(s, fail)
    BY <1>2, EventPaired, PairedReasonEvent
  <1> HIDE DEF ok, fail
  <1>4. Paired(ok, x) /\ Paired(fail, y)
    BY <1>2, <1>3, StartOkPaired, PairedSound
  <1> HIDE DEF x, y
  <1>5. Paired(s, x) /\ Paired(s, y)
    BY <1>3, <1>4, PairedTrans
  <1> QED
    BY <1>1, <1>5 DEF CanPair, s

\* stop_complete.
LEMMA StopCompletePairs ==
    ASSUME Sound(Now), NEW g \in Guns, StopComplete(g)
    PROVE  CanPair
  <1> DEFINE s == Now
  <1>1. PICK end \in EndReasons :
           Become(HandleEvent(
               [s EXCEPT !.sess[g].reason = IF s.gun[g].startOk /\ end # "none"
                                            THEN end ELSE s.sess[g].reason],
               g, "STOP_COMPLETE"))
    BY NowFact DEF StopComplete
  <1>2. Sound(s)
    OBVIOUS
  <1> HIDE DEF s
  <1> DEFINE b == IF s.gun[g].startOk /\ end # "none" THEN end ELSE s.sess[g].reason
             u == [s EXCEPT !.sess[g].reason = b]
             t == HandleEvent(u, g, "STOP_COMPLETE")
  <1>3. b \in Reasons
    BY <1>2, SessNumbers, InputAssumption DEF SessRec
  <1>4. Become(t)
    BY <1>1
  <1> HIDE DEF b
  <1>5. Paired(s, u)
    BY <1>2, <1>3, NotesPaired
  <1> HIDE DEF u
  <1>6. Paired(s, t)
    BY <1>5, PairedThenEvent
  <1> QED
    BY <1>4, <1>6 DEF CanPair, s

\* The six link reports.
LEMMA LinkStepsPair ==
    ASSUME Sound(Now), NEW g \in Guns,
           \/ PileOnline(g) \/ PileOffline(g) \/ MeterOnline(g) \/ MeterOffline(g)
           \/ PlatformOnline(g) \/ PlatformOffline(g)
    PROVE  CanPair
  <1>1. \A l \in Links : /\ Paired(Now, NoteOnline(Now, g, l))
                         /\ Paired(Now, NoteOffline(Now, g, l))
                         /\ Paired(Now, [Now EXCEPT !.link[g][l] = Cleared])
    BY LinkReportsPaired
  <1>2. \E l \in Links : \/ Become(NoteOnline(Now, g, l))
                         \/ Become(NoteOffline(Now, g, l))
                         \/ Become([Now EXCEPT !.link[g][l] = Cleared])
    BY LinkNames DEF PileOnline, PileOffline, MeterOnline, MeterOffline,
                     PlatformOnline, PlatformOffline
  <1> QED
    BY <1>1, <1>2 DEF CanPair

\* A request to wait for a card and a meter packet move no gun.
LEMMA OtherStepsPair ==
    ASSUME Sound(Now), NEW g \in Guns, RequestCardStart(g) \/ MeterData(g)
    PROVE  CanPair
  <1> DEFINE s == Now
  <1>1. s \in Data
    BY DEF Sound
  <1>2. CASE RequestCardStart(g)
    <2>1. PICK ask \in AskRec : Become(StartOfflineCardFlow(s, g, FALSE, ask))
      BY <1>2 DEF RequestCardStart
    <2> HIDE DEF s
    <2> DEFINE t == StartOfflineCardFlow(s, g, FALSE, ask)
    <2>2. t.gun = s.gun
      BY <1>1 DEF StartOfflineCardFlow, Data
    <2> HIDE DEF t
    <2>3. NoStops(s, t)
      BY <2>2, StopsTrans
    <2> QED
      BY <2>1, <2>3 DEF CanPair, s, t
  <1>3. CASE MeterData(g)
    <2>1. PICK kwh \in Readings, volt \in Voltages : Become(HandleMeterData(s, g, kwh, volt))
      BY <1>3 DEF MeterData
    <2> HIDE DEF s
    <2> DEFINE t == HandleMeterData(s, g, kwh, volt)
    <2>2. t.gun = s.gun
      BY <1>1 DEF HandleMeterData, Data
    <2> HIDE DEF t
    <2>3. NoStops(s, t)
      BY <2>2, StopsTrans
    <2> QED
      BY <2>1, <2>3 DEF CanPair, s, t
  <1> QED
    BY <1>2, <1>3

\* The three reactions to a yx packet.
LEMMA YxPartsPaired ==
    ASSUME NEW s, Sound(s), NEW g \in Guns, NEW p
    PROVE  /\ Paired(s, YxRecover(s, g, p))
           /\ Paired(s, YxWork(s, g, p))
           /\ Paired(s, YxConnect(s, g, p))
           /\ Paired(s, YxFault(s, g, p))
  <1>1. Paired(s, YxRecover(s, g, p))
    BY LinkNames, LinkReportsPaired DEF YxRecover
  <1>2. Paired(s, YxWork(s, g, p)) /\ Paired(s, YxFault(s, g, p))
    BY EventPaired, PairedRefl DEF YxWork, YxFault
  <1>3. Paired(s, YxConnect(s, g, p))
    BY FlagsPaired, EventPaired, PairedRefl DEF YxConnect
  <1> QED
    BY <1>1, <1>2, <1>3

\* A yx packet: each reaction finds what the one before left.
LEMMA YxPairs ==
    ASSUME Sound(Now), NEW g \in Guns, Yx(g)
    PROVE  CanPair
  <1> DEFINE s == Now
             r(p) == [s.gun[g] EXCEPT !.yxSeen = TRUE, !.conn = p.conn]
             seen(p) == [s EXCEPT !.gun[g] = r(p)]
             a(p) == YxRecover(seen(p), g, p)
             b(p) == YxWork(a(p), g, p)
             c(p) == YxConnect(b(p), g, p)
             d(p) == YxFault(c(p), g, p)
  <1>1. PICK p \in YxPackets : Become(d(p))
    BY DEF Yx
  <1>2. Sound(s) /\ p \in YxPacket /\ s \in Data
    BY InputAssumption DEF Sound
  <1> HIDE DEF s
  <1>3. r(p) \in GunRec /\ r(p).state = s.gun[g].state
    BY <1>2, Parts DEF GunRec, YxPacket
  <1> HIDE DEF r
  <1>4. Paired(s, seen(p))
    BY <1>2, <1>3, FlagPaired
  <1> HIDE DEF seen
  <1>5. Paired(seen(p), a(p))
    BY <1>4, YxPartsPaired, PairedSound
  <1> HIDE DEF a
  <1>6. Paired(a(p), b(p))
    BY <1>5, YxPartsPaired, PairedSound
  <1> HIDE DEF b
  <1>7. Paired(b(p), c(p))
    BY <1>6, YxPartsPaired, PairedSound
  <1> HIDE DEF c
  <1>8. Paired(c(p), d(p))
    BY <1>7, YxPartsPaired, PairedSound
  <1> HIDE DEF d
  <1>9. Paired(s, b(p))
    BY <1>4, <1>5, <1>6, PairedTrans
  <1>10. Paired(s, d(p))
    BY <1>7, <1>8, <1>9, PairedTrans
  <1> QED
    BY <1>1, <1>10 DEF CanPair, s

\* The reader's reports and its reconciliation move no gun.
LEMMA ReaderPairs ==
    ASSUME Sound(Now), RfOpened \/ RfClosed \/ CardOpFailed \/ PollReader
    PROVE  CanPair
  <1> DEFINE s == Now
             x(b) == [s EXCEPT !.reader.rf = b]
             keep == s.reader.rf /\ reader.phase # "wait_auto_rf_close"
  <1>1. \E t : /\ Become(t)
               /\ \/ \E b : t = x(b) \/ t = ResetCardReaderState(x(b))
                  \/ t = ReconcileAutoCardWaiting(s)
    <2>1. \/ Become(x(TRUE))
          \/ Become(x(FALSE))
          \/ Become(ResetCardReaderState(x(FALSE)))
          \/ Become(ResetCardReaderState(x(keep)))
          \/ Become(ReconcileAutoCardWaiting(s))
      BY NowFact DEF RfOpened, RfClosed, CardOpFailed, PollReader
    <2> HIDE DEF x, keep, s
    <2> QED
      BY <2>1
  <1>2. Sound(s) /\ s \in Data
    BY DEF Sound
  <1> HIDE DEF s
  <1>3. \A b : x(b).gun = s.gun /\ ResetCardReaderState(x(b)).gun = s.gun
    BY <1>2 DEF ResetCardReaderState, Data
  <1>4. ReconcileAutoCardWaiting(s).gun = s.gun
    BY <1>2, ReconcileFact
  <1> HIDE DEF x
  <1>5. \E t : Become(t) /\ t.gun = s.gun
    BY <1>1, <1>3, <1>4
  <1>6. \E t : Become(t) /\ NoStops(s, t)
    BY <1>5, StopsTrans
  <1> QED
    BY <1>6 DEF CanPair, s

\* A card presented to start.
LEMMA SwipeStartPairs ==
    ASSUME Sound(Now), NEW c \in Cards, SwipeToStart(c)
    PROVE  CanPair
  <1> DEFINE s == Now
             g == s.reader.gun
             d == [s.card[g] EXCEPT !.no = c]
             t == [s EXCEPT !.card[g] = d]
             u == BeginOfflineCardCharge(t, g)
  <1>1. t = [s EXCEPT !.card[g].no = c]
    OBVIOUS
  <1>2. Sound(s) /\ (Become(t) \/ (s.sess[g].issued < MaxOrder /\ Become(u)))
    BY <1>1, NowFact DEF SwipeToStart, CanOpenOrder
  <1> HIDE DEF s
  <1>3. s \in Data /\ g \in Guns
    BY <1>2 DEF Sound, Data, ReaderRec
  <1> HIDE DEF g
  <1>4. d \in CardRec
    BY <1>3, Parts DEF CardRec
  <1> HIDE DEF d
  <1>5. Quiet(s, t) /\ Sound(t) /\ t.sess = s.sess
    BY <1>2, <1>3, <1>4, QuietCard, QuietSound DEF Data
  <1> HIDE DEF t
  <1>6. NoStops(s, t)
    BY <1>5, StopsTrans DEF Quiet
  <1>7. s.sess[g].issued < MaxOrder => NoStops(t, u)
    BY <1>3, <1>5, BeginCardStopsNone
  <1> HIDE DEF u
  <1>8. s.sess[g].issued < MaxOrder => NoStops(s, u)
    BY <1>6, <1>7, StopsTrans
  <1> QED
    BY <1>2, <1>6, <1>8 DEF CanPair, s

\* A card presented to stop.
LEMMA SwipeStopPairs ==
    ASSUME Sound(Now), NEW c \in Cards, SwipeToStop(c)
    PROVE  CanPair
  <1>1. PICK g \in Guns :
           Become(HandleEvent([Now EXCEPT !.sess[g].reason = "normal",
                                          !.card[g].swiped = TRUE], g, "STOP_CMD"))
    BY DEF SwipeToStop
  <1> DEFINE s == Now
             yes == "normal"
             t == [s EXCEPT !.sess[g].reason = yes]
             d == [t.card[g] EXCEPT !.swiped = TRUE]
             u == [t EXCEPT !.card[g] = d]
             v == HandleEvent(u, g, "STOP_CMD")
  <1>2. Sound(s) /\ Become(v) /\ yes \in Reasons
    BY <1>1, NowFact DEF Now, Reasons
  <1> HIDE DEF s, yes
  <1>3. Paired(s, t)
    BY <1>2, NotesPaired
  <1> HIDE DEF t
  <1>4. Sound(t) /\ t \in Data
    BY <1>3, PairedSound DEF Sound
  <1>5. d \in CardRec
    <2>1. t.card[g] \in CardRec
      BY <1>4, Parts
    <2> QED
      BY <2>1 DEF CardRec
  <1> HIDE DEF d
  <1>6. Quiet(t, u) /\ u.sess = t.sess
    BY <1>4, <1>5, QuietCard DEF Data
  <1> HIDE DEF u
  <1>7. Paired(t, u)
    BY <1>4, <1>6, SessPaired
  <1>8. Paired(s, u)
    BY <1>3, <1>7, PairedTrans
  <1>9. Paired(s, v)
    BY <1>8, PairedThenEvent
  <1> HIDE DEF v
  <1> QED
    BY <1>2, <1>9 DEF CanPair, s

-----------------------------------------------------------------------------
(* The theorem.                                                            *)

\* Every step of the process stops guns in pairs, or stops none.
LEMMA NextPairs ==
    ASSUME IInv, Next
    PROVE  CanPair
  <1>1. Sound(Now)
    BY DEF IInv, Good
  <1>2. ASSUME NEW g \in Guns, OnGun(g)
        PROVE  CanPair
    BY <1>1, <1>2, StartsPair, EventsPair, StartCompletePairs, StopCompletePairs,
       LinkStepsPair, OtherStepsPair, YxPairs DEF OnGun
  <1> QED
    BY <1>1, <1>2, ReaderPairs, SwipeStartPairs, SwipeStopPairs DEF Next, CardInfo

\* When one gun of a merged pair starts to stop, whether by a message for it, by a
\* fault, by a timer or by the amount, the other draws no power after the same step,
\* however the pair was started and whatever state its other gun was in.
THEOREM PairStopsTogether == Spec => MergeStopsTogether
  <1>1. IInv /\ [Next]_vars =>
          [\A g \in Guns :
             (/\ HasPeer(g)
              /\ sess[g].merge
              /\ sess[Peer(g)].merge
              /\ gun[g].state # "STOPPING"
              /\ gun'[g].state = "STOPPING") =>
                 gun'[Peer(g)].state \notin {"STARTING", "CHARGING"}]_vars
    <2> SUFFICES ASSUME IInv, Next, NEW g \in Guns,
                        HasPeer(g), sess[g].merge, sess[Peer(g)].merge,
                        gun[g].state # "STOPPING", gun'[g].state = "STOPPING"
                 PROVE  gun'[Peer(g)].state \notin {"STARTING", "CHARGING"}
      BY DEF vars
    <2>1. PICK t : Become(t) /\ (Paired(Now, t) \/ NoStops(Now, t))
      BY NextPairs DEF CanPair
    <2>2. gun' = t.gun
      BY <2>1 DEF Become
    <2>3. MergedPair(Now, g)
      BY NowFact DEF MergedPair
    <2> QED
      BY <2>1, <2>2, <2>3, NowFact DEF Paired, NoStops, Drawing
  <1> QED
    BY <1>1, Invariance, PTL DEF Spec, MergeStopsTogether



-----------------------------------------------------------------------------
(* Orders, their records and their cards: RetryRepeatsOrder, BookedOnce,   *)
(* RecordNamesCard, EnergyNeverDropped, PlatformSparesCard and             *)
(* MergedInLockstep.                                                       *)

\* The HMI may ask for a card, on a gun that may have left PREPARE when it comes.
Asked == "request_card_start" \in Inputs

\* Every start opens an order and no two guns are merged.
Alone ==
    /\ "auth_result" \notin Inputs
    /\ GunCount = 1 \/ (~Asked /\ \A c \in StartCmds : ~c.merge)

\* Only the platform starts merged guns, and nothing resets one of them.
InStep ==
    Inputs \cap {"hmi_start", "auth_result", "request_card_start",
                 "reset_error", "deviceErr_off"} = {}

\* Every start opens an order, and guns are merged at most by the platform.
Orderly == Alone \/ InStep

\* The states of an order that is not yet on record.
Served == {"STARTING", "CHARGING", "STOPPING"}

Unbooked(s, h) == Orderly => s.ledger[h][s.sess[h].order].count = 0

\* A start command that is sent is that of the order, and a repeated one is too.
OrderGun(s, h) ==
    \/ Asked
    \/ /\ s.sess[h].armed \/ s.sess[h].lastCmd \in {0, s.sess[h].order}
       /\ s.gun[h].state = "STARTING" => ~s.sess[h].armed

\* No start waits for a card, and the card of a session is on the whitelist.
CardGun(s, h) ==
    \/ Asked
    \/ s.card[h].ask = NoAsk /\ (s.card[h].active => s.card[h].no \in Whitelist)

\* No order has two records, and the orders to come, the one under way and the one
\* that is armed have none.
OnceGun(s, h) ==
    /\ Alone => GunCount = 1 \/ ~s.sess[h].merge
    /\ InStep /\ s.sess[h].armed => s.gun[h].state \notin Served /\ Unbooked(s, h)
    /\ Orderly =>
        /\ s.sess[h].order <= s.sess[h].issued
        /\ \A o \in Orders : /\ s.ledger[h][o].count <= 1
                             /\ o > s.sess[h].issued => s.ledger[h][o].count = 0
        /\ s.gun[h].state \in Served => Unbooked(s, h)

GunHeld(s, h) == OrderGun(s, h) /\ CardGun(s, h) /\ OnceGun(s, h)
GunsHeld(s) == \A h \in Guns : GunHeld(s, h)

\* The reader waits for no card on a gun that has one.
ReaderFree(s) ==
    Asked \/ (s.reader.phase = "wait_start_card" => ~s.card[s.reader.gun].active)

\* From s to t gun h books nothing, keeps its key card and its energy, is spared a fault
\* of the platform's link while it has a card, and is not taken out of a pair's start.
Spares(s, t, h) ==
    /\ t.ledger[h] = s.ledger[h]
    /\ s.card[h].active => t.card[h].active
    /\ t.link[h]["platform"].latched => s.link[h]["platform"].latched \/ ~s.card[h].active
    /\ \/ Asked
       \/ s.gun[h].state \in {"CHARGING", "STOPPING"} =>
             /\ t.gun[h].state \in {"CHARGING", "STOPPING"}
             /\ s.meter[h].total <= t.meter[h].total
    /\ InStep => (s.gun[h].state \in Served => t.gun[h].state \in Served)

\* From s to t no gun of a pair that keeps step gets into a session past its start.
Steady(s, t) ==
    InStep =>
        \A h \in Guns : t.gun[h].state \in {"CHARGING", "STOPPING"} =>
                          s.gun[h].state \in Served

Guards(s, t) ==
    /\ Sound(s) /\ Sound(t)
    /\ GunsHeld(s) /\ Steady(s, t) => GunsHeld(t)
    /\ \A h \in Guns : Spares(s, t, h)

Heeds(s, t) == Guards(s, t) /\ (ReaderFree(s) => ReaderFree(t))

\* From s to t nothing of this changes for a gun.
Same(s, t, h) ==
    /\ t.gun[h].state = s.gun[h].state
    /\ t.sess[h].armed = s.sess[h].armed
    /\ t.sess[h].merge = s.sess[h].merge
    /\ t.sess[h].order = s.sess[h].order
    /\ t.sess[h].issued = s.sess[h].issued
    /\ t.sess[h].lastCmd = s.sess[h].lastCmd
    /\ t.meter[h].total = s.meter[h].total
    /\ t.card[h] = s.card[h]
    /\ t.link[h]["platform"] = s.link[h]["platform"]
    /\ t.ledger[h] = s.ledger[h]

\* The numbers of a gun.
LEMMA Counts ==
    ASSUME NEW s, Sound(s), NEW h \in Guns
    PROVE  /\ s.meter[h].total \in Nat
           /\ s.sess[h].order \in Orders /\ s.sess[h].issued \in Orders
           /\ \A o \in Orders : s.ledger[h][o].count \in 0 .. 2
           /\ Orders \subseteq Nat
  <1>1. /\ s.meter[h] \in MeterRec /\ s.sess[h] \in SessRec
        /\ s.ledger[h] \in [Orders -> Booking]
    BY Parts DEF Sound
  <1>2. Orders \subseteq Nat
    BY BoundAssumption DEF Orders
  <1> QED
    BY <1>1, <1>2 DEF MeterRec, SessRec, Booking

\* What changes nothing of a gun holds its part and spares it.
LEMMA SameHeld ==
    ASSUME NEW s, Sound(s), NEW t, NEW h \in Guns, Same(s, t, h)
    PROVE  (GunHeld(s, h) => GunHeld(t, h)) /\ Spares(s, t, h)
  <1>1. s.meter[h].total <= t.meter[h].total
    BY Counts DEF Same
  <1>2. Spares(s, t, h)
    BY <1>1 DEF Same, Spares
  <1>3. GunHeld(s, h) => GunHeld(t, h)
    <2>1. OrderGun(s, h) => OrderGun(t, h)
      BY DEF OrderGun, Same
    <2>2. CardGun(s, h) => CardGun(t, h)
      BY DEF CardGun, Same
    <2>3. OnceGun(s, h) => OnceGun(t, h)
      BY DEF OnceGun, Unbooked, Same
    <2> QED
      BY <2>1, <2>2, <2>3 DEF GunHeld
  <1> QED
    BY <1>2, <1>3

\* A step that changes at most gun g guards the others.
LEMMA OneGuards ==
    ASSUME NEW s, Sound(s), NEW t, Sound(t), NEW g \in Guns,
           \A h \in Guns \ {g} : Same(s, t, h),
           GunsHeld(s) /\ Steady(s, t) => GunHeld(t, g), Spares(s, t, g)
    PROVE  Guards(s, t)
  <1>1. \A h \in Guns \ {g} : (GunHeld(s, h) => GunHeld(t, h)) /\ Spares(s, t, h)
    BY SameHeld
  <1> QED
    BY <1>1 DEF Guards, GunsHeld

\* A step that changes nothing of any gun guards them all.
LEMMA AllGuards ==
    ASSUME NEW s, Sound(s), NEW t, Sound(t), \A h \in Guns : Same(s, t, h)
    PROVE  Guards(s, t)
  <1>1. \A h \in Guns : (GunHeld(s, h) => GunHeld(t, h)) /\ Spares(s, t, h)
    BY SameHeld
  <1> QED
    BY <1>1 DEF Guards, GunsHeld

\* Where the reader stays, and no gun gets a card, it is as free as before.
LEMMA StaysFree ==
    ASSUME NEW s, Sound(s), NEW t, t.reader = s.reader,
           \A h \in Guns : t.card[h].active => s.card[h].active
    PROVE  ReaderFree(s) => ReaderFree(t)
  <1>1. s.reader.gun \in Guns
    BY DEF Sound, Data, ReaderRec
  <1> QED
    BY <1>1 DEF ReaderFree

\* A reader that waits for no card to start with is free.
LEMMA NoWaitFree ==
    ASSUME NEW t, t.reader.phase # "wait_start_card"
    PROVE  ReaderFree(t)
  BY DEF ReaderFree

\* Doing nothing heeds.
LEMMA SameHeeds ==
    ASSUME NEW s, Sound(s)
    PROVE  Heeds(s, s)
  <1>1. \A h \in Guns : Same(s, s, h)
    BY DEF Same
  <1> QED
    BY <1>1, AllGuards DEF Heeds

\* Where no gun moves, none gets into a session.
LEMMA SteadyRefl ==
    ASSUME NEW s, NEW t, \A h \in Guns : t.gun[h].state = s.gun[h].state
    PROVE  Steady(s, t)
  BY DEF Steady, Served

\* Steps that guard compose.
LEMMA GuardsTrans ==
    ASSUME NEW s, NEW t, NEW u, Guards(s, t), Guards(t, u)
    PROVE  Guards(s, u)
  <1>1. ASSUME NEW h \in Guns PROVE Spares(s, u, h)
    <2>1. Spares(s, t, h) /\ Spares(t, u, h)
      BY DEF Guards
    <2>2. s.meter[h].total \in Nat /\ t.meter[h].total \in Nat /\ u.meter[h].total \in Nat
      BY Counts DEF Guards
    <2> QED
      BY <2>1, <2>2 DEF Spares
  <1>2. Steady(s, u) => Steady(s, t) /\ Steady(t, u)
    <2> SUFFICES ASSUME Steady(s, u), InStep, NEW h \in Guns
                 PROVE  /\ t.gun[h].state \in {"CHARGING", "STOPPING"} =>
                              s.gun[h].state \in Served
                        /\ u.gun[h].state \in {"CHARGING", "STOPPING"} =>
                              t.gun[h].state \in Served
      BY DEF Steady
    <2>1. Spares(s, t, h) /\ Spares(t, u, h)
      BY DEF Guards
    <2>2. ~Asked
      BY DEF InStep, Asked
    <2> QED
      BY <2>1, <2>2 DEF Spares, Steady
  <1> QED
    BY <1>1, <1>2 DEF Guards

\* So do steps that heed.
LEMMA HeedsTrans ==
    ASSUME NEW s, NEW t, NEW u, Heeds(s, t), Heeds(t, u)
    PROVE  Heeds(s, u)
  BY GuardsTrans DEF Heeds

\* Data that a step comes from and leads to is sound.
LEMMA HeedsSound ==
    ASSUME NEW s, NEW t, Heeds(s, t)
    PROVE  Sound(s) /\ Sound(t)
  BY DEF Heeds, Guards

-----------------------------------------------------------------------------
(* The reader and the transitions.                                         *)

\* The reader's part of the machine changes nothing of a gun.
LEMMA ReaderSame ==
    ASSUME NEW s \in Data, NEW h \in Guns
    PROVE  /\ Same(s, ResetCardReaderState(s), h)
           /\ Same(s, CancelAutoCardWaiting(s), h)
  <1>1. Same(s, ResetCardReaderState(s), h)
    BY DEF ResetCardReaderState, Data, Same
  <1> DEFINE t == [s EXCEPT !.reader.auto = FALSE, !.reader.phase = "wait_auto_rf_close"]
  <1>2. Same(s, t, h)
    BY DEF Data, Same
  <1> HIDE DEF t
  <1>3. CancelAutoCardWaiting(s) \in {t, ResetCardReaderState(s)}
    BY DEF CancelAutoCardWaiting, t
  <1> QED
    BY <1>1, <1>2, <1>3

\* Nor does a wait for a card, but for what was asked for.
LEMMA StartFlowGuards ==
    ASSUME NEW s, Sound(s), NEW g \in Guns, NEW auto, NEW ask, ask = NoAsk \/ Asked,
           Sound(StartOfflineCardFlow(s, g, auto, ask))
    PROVE  Guards(s, StartOfflineCardFlow(s, g, auto, ask))
  <1> DEFINE c == [s.card[g] EXCEPT !.ask = ask]
             r == [phase |-> "wait_start_card", gun |-> g, auto |-> auto, rf |-> TRUE]
             x == [s EXCEPT !.reader = r, !.card[g] = c]
             t == StartOfflineCardFlow(s, g, auto, ask)
  <1>1. s \in Data
    BY DEF Sound
  <1>2. c.active = s.card[g].active /\ c.no = s.card[g].no /\ c.ask = ask
    BY <1>1, Parts DEF CardRec
  <1>3. t = s \/ t = x
    BY DEF StartOfflineCardFlow
  <1>4. Guards(s, s)
    BY SameHeeds DEF Heeds
  <1> HIDE DEF c, r
  <1>5. /\ x.gun = s.gun /\ x.sess = s.sess /\ x.meter = s.meter /\ x.link = s.link
        /\ x.ledger = s.ledger /\ x.card = [s.card EXCEPT ![g] = c]
        /\ s.card \in [Guns -> CardRec]
    BY <1>1 DEF Data
  <1> HIDE DEF x, t
  <1>6. \A h \in Guns \ {g} : Same(s, x, h)
    BY <1>5 DEF Same
  <1>7. x.card[g] = c
    BY <1>5
  <1>8. GunsHeld(s) => GunHeld(x, g)
    <2>1. GunsHeld(s) => GunHeld(s, g)
      BY DEF GunsHeld
    <2>2. OrderGun(s, g) => OrderGun(x, g)
      BY <1>5 DEF OrderGun
    <2>3. OnceGun(s, g) => OnceGun(x, g)
      BY <1>5 DEF OnceGun, Unbooked
    <2>4. CardGun(s, g) => CardGun(x, g)
      BY <1>2, <1>7 DEF CardGun
    <2> QED
      BY <2>1, <2>2, <2>3, <2>4 DEF GunHeld
  <1>9. Spares(s, x, g)
    <2>1. s.meter[g].total <= x.meter[g].total
      BY <1>5, Counts
    <2> QED
      BY <1>2, <1>5, <1>7, <2>1 DEF Spares
  <1>10. t = x => Guards(s, x)
    BY <1>6, <1>8, <1>9, OneGuards DEF t
  <1>11. Guards(s, t)
    BY <1>3, <1>4, <1>10
  <1> QED
    BY <1>11 DEF t

\* Reconciling the reader heeds: its own wait begins only while no gun has a card.
LEMMA ReconcileHeeds ==
    ASSUME NEW s, Sound(s)
    PROVE  /\ Heeds(s, ReconcileAutoCardWaiting(s))
           /\ Heeds(s, ResetCardReaderState(s))
  <1> DEFINE c == CancelAutoCardWaiting(s)
             z == ResetCardReaderState(s)
             f(g) == StartOfflineCardFlow(s, g, TRUE, NoAsk)
             t == ReconcileAutoCardWaiting(s)
  <1>1. Sound(t) /\ Sound(z) /\ s \in Data
    BY ReconcileKeeps, ResetReaderKeeps DEF Keeps, Sound
  <1>2. \/ t = s
        \/ t = c
        \/ (~HasOfflineCardChargingSession(s) /\ \E g \in Guns : t = f(g))
    <2>1. (\E g \in Guns : IsSolePrepare(s, g)) =>
             (CHOOSE g \in Guns : IsSolePrepare(s, g)) \in Guns
      OBVIOUS
    <2> QED
      BY <2>1 DEF ReconcileAutoCardWaiting
  <1>3. ReaderFree(z) /\ ReaderFree(c)
    <2>1. z.reader.phase = "idle"
      BY <1>1, ResetReaderFact
    <2>2. c.reader.phase # "wait_start_card"
      <3>1. s.reader.rf => c.reader.phase = "wait_auto_rf_close"
        BY <1>1 DEF CancelAutoCardWaiting, Data, ReaderRec
      <3>2. ~s.reader.rf => c = z
        BY DEF CancelAutoCardWaiting
      <3> QED
        BY <2>1, <3>1, <3>2
    <2> QED
      BY <2>1, <2>2, NoWaitFree
  <1>4. Heeds(s, z)
    <2>1. \A h \in Guns : Same(s, z, h)
      BY <1>1, ReaderSame
    <2> HIDE DEF z
    <2> QED
      BY <1>1, <1>3, <2>1, AllGuards DEF Heeds
  <1>5. t = c => Heeds(s, t)
    <2>1. \A h \in Guns : Same(s, c, h)
      BY <1>1, ReaderSame
    <2> HIDE DEF c, t
    <2> QED
      BY <1>1, <1>3, <2>1, AllGuards DEF Heeds
  <1>6. ASSUME ~HasOfflineCardChargingSession(s), NEW g \in Guns, t = f(g)
        PROVE  Heeds(s, t)
    <2>1. Sound(f(g))
      BY <1>1, <1>6
    <2>2. Guards(s, f(g))
      BY <2>1, StartFlowGuards
    <2>3. \A h \in Guns : ~f(g).card[h].active
      <3>1. \A h \in Guns : f(g).card[h].active = s.card[h].active
        <4>1. \A h \in Guns : Alike(s, f(g), h)
          BY <1>1, ReaderAlike
        <4> QED
          BY <4>1 DEF Alike
      <3> QED
        BY <1>6, <3>1 DEF HasOfflineCardChargingSession
    <2>4. f(g).reader.gun \in Guns
      BY <2>1 DEF Sound, Data, ReaderRec
    <2> HIDE DEF t, f
    <2>5. ReaderFree(f(g))
      BY <2>3, <2>4 DEF ReaderFree
    <2> QED
      BY <1>6, <2>2, <2>5 DEF Heeds
  <1>7. Heeds(s, t)
    BY <1>2, <1>5, <1>6, SameHeeds
  <1> QED
    BY <1>4, <1>7

\* Where a gun may move: out of a session only to its settlement, into one only with an
\* order that has no record (or, of a pair in step, as Steady allows), and into STARTING
\* only with its start sent.
MayMove(s, g, to) ==
    /\ to \in States \ {"STOPPED"}
    /\ s.gun[g].state \in {"CHARGING", "STOPPING"} => to \in {"CHARGING", "STOPPING"}
    /\ InStep => (s.gun[g].state = "STARTING" => to \in Served)
    /\ to = "STARTING" => Asked \/ ~s.sess[g].armed
    /\ to \in Served => \/ GunsHeld(s) => Unbooked(s, g)
                        \/ InStep /\ to # "STARTING"

\* What the assignments of transitionTo change.
LEMMA MoveSame ==
    ASSUME NEW s, Sound(s), NEW g \in Guns, NEW to \in States
    PROVE  LET t == Move(s, g, to)
           IN  /\ Sound(t)
               /\ t.reader = s.reader /\ t.link = s.link /\ t.sess = s.sess
               /\ t.card = s.card /\ t.ledger = s.ledger
               /\ \A h \in Guns \ {g} : Same(s, t, h)
               /\ t.gun[g].state = to
               /\ t.meter[g].total = s.meter[g].total
  <1> DEFINE t == Move(s, g, to)
  <1>1. /\ Sound(t) /\ t.reader = s.reader /\ t.sess = s.sess /\ t.card = s.card
        /\ t.ledger = s.ledger /\ t.gun[g].state = to
        /\ t.meter[g].total = s.meter[g].total
        /\ \A h \in Guns \ {g} : Alike(s, t, h)
    BY MoveAlike
  <1>2. t.link = s.link
    BY MoveFact DEF Sound
  <1> HIDE DEF t
  <1>3. \A h \in Guns \ {g} : Same(s, t, h)
    BY <1>1, <1>2 DEF Alike, Same
  <1> QED
    BY <1>1, <1>2, <1>3 DEF t

\* They heed where the gun may move.
LEMMA MoveHeeds ==
    ASSUME NEW s, Sound(s), NEW g \in Guns, NEW to, MayMove(s, g, to)
    PROVE  Heeds(s, Move(s, g, to))
  <1> DEFINE t == Move(s, g, to)
  <1>1. to \in States
    BY DEF MayMove
  <1>2. /\ Sound(t) /\ t.reader = s.reader /\ t.link = s.link /\ t.sess = s.sess
        /\ t.card = s.card /\ t.ledger = s.ledger /\ t.gun[g].state = to
        /\ t.meter[g].total = s.meter[g].total
        /\ \A h \in Guns \ {g} : Same(s, t, h)
    BY <1>1, MoveSame
  <1> HIDE DEF t
  <1>3. Spares(s, t, g)
    <2>1. s.meter[g].total <= t.meter[g].total
      BY <1>2, Counts
    <2>2. s.gun[g].state \in {"CHARGING", "STOPPING"} =>
             t.gun[g].state \in {"CHARGING", "STOPPING"}
      BY <1>2 DEF MayMove
    <2>3. InStep => (s.gun[g].state \in Served => t.gun[g].state \in Served)
      BY <1>2 DEF MayMove, Served
    <2> QED
      BY <1>2, <2>1, <2>2, <2>3 DEF Spares
  <1>4. ASSUME GunsHeld(s), Steady(s, t) PROVE GunHeld(t, g)
    <2>1. OrderGun(s, g) /\ CardGun(s, g) /\ OnceGun(s, g)
      BY <1>4 DEF GunsHeld, GunHeld
    <2>2. OrderGun(t, g)
      BY <1>2, <2>1 DEF OrderGun, MayMove
    <2>3. CardGun(t, g)
      BY <1>2, <2>1 DEF CardGun
    <2>4. InStep /\ to \in {"CHARGING", "STOPPING"} => s.gun[g].state \in Served
      BY <1>2, <1>4 DEF Steady
    <2>5. t.gun[g].state \in Served => Unbooked(t, g)
      <3>1. s.gun[g].state \in Served => Unbooked(s, g)
        BY <2>1 DEF OnceGun, Unbooked
      <3>2. to \in Served => Unbooked(s, g)
        BY <1>4, <2>4, <3>1 DEF MayMove, Served
      <3> QED
        BY <1>2, <3>2 DEF Unbooked
    <2>6. InStep /\ t.sess[g].armed => t.gun[g].state \notin Served /\ Unbooked(t, g)
      <3> SUFFICES ASSUME InStep, s.sess[g].armed
                   PROVE  t.gun[g].state \notin Served /\ Unbooked(t, g)
        BY <1>2
      <3>1. s.gun[g].state \notin Served /\ Unbooked(s, g)
        BY <2>1 DEF OnceGun
      <3>2. to \notin Served
        BY <2>4, <3>1 DEF MayMove, Served, InStep, Asked
      <3> QED
        BY <1>2, <3>1, <3>2 DEF Unbooked
    <2>7. OnceGun(t, g)
      BY <1>2, <2>1, <2>5, <2>6 DEF OnceGun
    <2> QED
      BY <2>2, <2>3, <2>7 DEF GunHeld
  <1>5. Guards(s, t)
    BY <1>2, <1>3, <1>4, OneGuards
  <1>6. Heeds(s, t)
    BY <1>2, <1>5, StaysFree DEF Heeds
  <1> QED
    BY <1>6 DEF t

\* resetChargeSessionState keeps a gun in IDLE that has no start, and no order, to hold.
LEMMA ResetSame ==
    ASSUME NEW s, Sound(s), NEW g \in Guns
    PROVE  LET t == ResetChargeSessionState(s, g)
           IN  /\ Sound(t)
               /\ t.reader = s.reader /\ t.link = s.link /\ t.ledger = s.ledger
               /\ \A h \in Guns \ {g} : Same(s, t, h)
               /\ t.gun[g].state = s.gun[g].state
               /\ ~t.sess[g].armed /\ ~t.sess[g].merge
               /\ t.sess[g].order = 0 /\ t.sess[g].lastCmd = 0
               /\ t.sess[g].issued = s.sess[g].issued
               /\ t.card[g].active = s.card[g].active /\ t.card[g].no = s.card[g].no
               /\ t.card[g].ask = NoAsk
               /\ \A h \in Guns : t.card[h].active = s.card[h].active
  <1> DEFINE no == FALSE
             r == [s.gun[g] EXCEPT !.retried = no, !.startOk = no,
                                   !.stopSeen = no, !.gone = no]
             o == [armed |-> FALSE, basis |-> FALSE, merge |-> FALSE,
                   order |-> 0, issued |-> s.sess[g].issued, lastCmd |-> 0,
                   precharge |-> 0, tcuStop |-> FALSE, reason |-> "none"]
             m == [s.meter[g] EXCEPT !.stable = 0, !.voltSeen = no, !.ready = no,
                                     !.based = no, !.last = 0, !.total = 0]
             c == [s.card[g] EXCEPT !.ask = NoAsk]
             t == ResetChargeSessionState(s, g)
  <1>1. s \in Data /\ s.card[g] \in CardRec /\ s.gun[g] \in GunRec
    BY Parts DEF Sound
  <1>2. t = [s EXCEPT !.gun[g] = r, !.sess[g] = o, !.meter[g] = m, !.card[g] = c]
    BY DEF ResetChargeSessionState
  <1>3. Sound(t)
    BY ResetKeeps DEF Keeps
  <1>4. /\ r.state = s.gun[g].state /\ c.active = s.card[g].active /\ c.no = s.card[g].no
        /\ c.ask = NoAsk
    BY <1>1 DEF GunRec, CardRec
  <1>5. /\ ~o.armed /\ ~o.merge /\ o.order = 0 /\ o.lastCmd = 0
        /\ o.issued = s.sess[g].issued
    OBVIOUS
  <1> HIDE DEF r, o, m, c, t
  <1>6. /\ t.reader = s.reader /\ t.ledger = s.ledger /\ t.link = s.link
        /\ t.gun = [s.gun EXCEPT ![g] = r] /\ t.meter = [s.meter EXCEPT ![g] = m]
        /\ t.sess = [s.sess EXCEPT ![g] = o] /\ t.card = [s.card EXCEPT ![g] = c]
        /\ s.gun \in [Guns -> GunRec] /\ s.meter \in [Guns -> MeterRec]
        /\ s.sess \in [Guns -> SessRec] /\ s.card \in [Guns -> CardRec]
    BY <1>1, <1>2 DEF Data
  <1>7. \A h \in Guns \ {g} : Same(s, t, h)
    BY <1>6 DEF Same
  <1>8. t.gun[g] = r /\ t.sess[g] = o /\ t.card[g] = c
    BY <1>6
  <1>9. \A h \in Guns : t.card[h].active = s.card[h].active
    BY <1>4, <1>7, <1>8 DEF Same
  <1> QED
    BY <1>3, <1>4, <1>5, <1>6, <1>7, <1>8, <1>9 DEF t

\* So it holds a gun that is in no session.
LEMMA ResetHeeds ==
    ASSUME NEW s, Sound(s), NEW g \in Guns, s.gun[g].state = "IDLE"
    PROVE  Heeds(s, ResetChargeSessionState(s, g))
  <1> DEFINE t == ResetChargeSessionState(s, g)
  <1>1. /\ Sound(t)
        /\ t.reader = s.reader /\ t.link = s.link /\ t.ledger = s.ledger
        /\ \A h \in Guns \ {g} : Same(s, t, h)
        /\ t.gun[g].state = s.gun[g].state
        /\ ~t.sess[g].armed /\ ~t.sess[g].merge
        /\ t.sess[g].order = 0 /\ t.sess[g].lastCmd = 0
        /\ t.sess[g].issued = s.sess[g].issued
        /\ t.card[g].active = s.card[g].active /\ t.card[g].no = s.card[g].no
        /\ t.card[g].ask = NoAsk
        /\ \A h \in Guns : t.card[h].active = s.card[h].active
    BY ResetSame
  <1> HIDE DEF t
  <1>2. Spares(s, t, g)
    BY <1>1 DEF Spares, Served
  <1>3. ASSUME GunsHeld(s) PROVE GunHeld(t, g)
    <2>1. CardGun(s, g) /\ OnceGun(s, g)
      BY <1>3 DEF GunsHeld, GunHeld
    <2>2. OrderGun(t, g)
      BY <1>1 DEF OrderGun
    <2>3. CardGun(t, g)
      BY <1>1, <2>1 DEF CardGun
    <2>4. t.sess[g].order <= t.sess[g].issued
      BY <1>1, Counts
    <2>5. OnceGun(t, g)
      BY <1>1, <2>1, <2>4 DEF OnceGun, Served
    <2> QED
      BY <2>2, <2>3, <2>5 DEF GunHeld
  <1>4. Guards(s, t)
    BY <1>1, <1>2, <1>3, OneGuards
  <1>5. Heeds(s, t)
    BY <1>1, <1>4, StaysFree DEF Heeds
  <1> QED
    BY <1>5 DEF t

\* transitionTo heeds where its gun may move.
LEMMA TransitionHeeds ==
    ASSUME NEW s, Sound(s), NEW g \in Guns, NEW to, MayMove(s, g, to)
    PROVE  Heeds(s, TransitionTo(s, g, to))
  <1> DEFINE u == Move(s, g, to)
             v == Enter(u, g, to)
             t == TransitionTo(s, g, to)
  <1>1. to \in States /\ to # "STOPPED"
    BY DEF MayMove
  <1>2. Heeds(s, u) /\ u.gun[g].state = to
    BY <1>1, MoveHeeds, MoveSame
  <1>3. t = s \/ t = ReconcileAutoCardWaiting(v)
    BY DEF TransitionTo
  <1>4. v = u \/ (to = "IDLE" /\ v = ResetChargeSessionState(u, g))
    BY <1>1 DEF Enter
  <1> HIDE DEF u, v, t
  <1>5. to = "IDLE" => Heeds(u, ResetChargeSessionState(u, g))
    BY <1>2, HeedsSound, ResetHeeds
  <1>6. Heeds(s, v)
    BY <1>2, <1>4, <1>5, HeedsTrans
  <1>7. Heeds(v, ReconcileAutoCardWaiting(v))
    BY <1>6, HeedsSound, ReconcileHeeds
  <1>8. Heeds(s, t)
    BY <1>3, <1>6, <1>7, HeedsTrans, SameHeeds
  <1> QED
    BY <1>8 DEF t

\* The first half of enterStopping heeds, of an order that has no record or of a pair.
LEMMA HaltHeeds ==
    ASSUME NEW s, Sound(s), NEW g \in Guns, (GunsHeld(s) => Unbooked(s, g)) \/ InStep
    PROVE  Heeds(s, Halt(s, g))
  <1> DEFINE u == TransitionTo(s, g, "STOPPING")
             no == FALSE
             r == [u.gun[g] EXCEPT !.gone = no, !.stopSeen = no, !.sent = "stop_charge"]
             m == [u.meter[g] EXCEPT !.stable = 0]
             t == Halt(s, g)
  <1>1. MayMove(s, g, "STOPPING")
    BY DEF MayMove, States, Served
  <1>2. Heeds(s, u)
    BY <1>1, TransitionHeeds
  <1>3. t = [u EXCEPT !.gun[g] = r, !.meter[g] = m]
    BY DEF Halt
  <1>4. Sound(t)
    BY HaltKeeps DEF Keeps
  <1> HIDE DEF u, t
  <1>5. Sound(u) /\ u \in Data /\ u.gun[g] \in GunRec /\ u.meter[g] \in MeterRec
    BY <1>2, HeedsSound, Parts DEF Sound
  <1>6. r.state = u.gun[g].state /\ m.total = u.meter[g].total
    BY <1>5 DEF GunRec, MeterRec
  <1> HIDE DEF r, m
  <1>7. /\ t.reader = u.reader /\ t.ledger = u.ledger /\ t.card = u.card /\ t.sess = u.sess
        /\ t.link = u.link
        /\ t.gun = [u.gun EXCEPT ![g] = r] /\ t.meter = [u.meter EXCEPT ![g] = m]
        /\ u.gun \in [Guns -> GunRec] /\ u.meter \in [Guns -> MeterRec]
    BY <1>3, <1>5 DEF Data
  <1>8. \A h \in Guns : Same(u, t, h)
    BY <1>6, <1>7 DEF Same
  <1>9. Guards(u, t)
    BY <1>4, <1>5, <1>8, AllGuards
  <1>10. Heeds(u, t)
    BY <1>5, <1>7, <1>9, StaysFree DEF Heeds
  <1>11. Heeds(s, t)
    BY <1>2, <1>10, HeedsTrans
  <1> QED
    BY <1>11 DEF t

\* And the whole of it, which stops a peer only of a pair.
LEMMA EnterStoppingHeeds ==
    ASSUME NEW s, Sound(s), NEW g \in Guns, s.gun[g].state \in Served
    PROVE  Heeds(s, EnterStopping(s, g))
  <1> DEFINE u == Halt(s, g)
             v == Halt(u, Peer(g))
             t == EnterStopping(s, g)
  <1>1. GunsHeld(s) => Unbooked(s, g)
    BY DEF GunsHeld, GunHeld, OnceGun, Unbooked
  <1>2. Heeds(s, u)
    BY <1>1, HaltHeeds
  <1>3. t = u \/ (MergedPair(u, g) /\ t = v)
    BY DEF EnterStopping, HaltPeer
  <1> HIDE DEF u, t
  <1>4. MergedPair(u, g) => Peer(g) \in Guns /\ (GunsHeld(u) => ~Alone)
    <2> SUFFICES ASSUME MergedPair(u, g)
                 PROVE  Peer(g) \in Guns /\ (GunsHeld(u) => ~Alone)
      OBVIOUS
    <2>1. HasPeer(g) /\ u.sess[g].merge
      BY DEF MergedPair
    <2>2. Peer(g) \in Guns /\ Peer(g) # g
      BY <2>1, PeerPeer
    <2>3. GunCount # 1
      BY <2>2 DEF Guns
    <2> QED
      BY <2>1, <2>2, <2>3 DEF GunsHeld, GunHeld, OnceGun
  <1>5. MergedPair(u, g) => Heeds(u, v)
    BY <1>2, <1>4, HeedsSound, HaltHeeds DEF Unbooked, Orderly
  <1> HIDE DEF v
  <1>6. Heeds(s, t)
    BY <1>2, <1>3, <1>5, HeedsTrans
  <1> QED
    BY <1>6 DEF t

-----------------------------------------------------------------------------
(* handleEvent.                                                            *)

\* A new session record that holds the same order heeds.
LEMMA RecordHeeds ==
    ASSUME NEW s, Sound(s), NEW t, Sound(t), NEW g \in Guns, NEW o,
           t.reader = s.reader, t.link = s.link, t.ledger = s.ledger, t.card = s.card,
           t.meter = s.meter, \A h \in Guns : t.gun[h].state = s.gun[h].state,
           t.sess = [s.sess EXCEPT ![g] = o],
           o.merge = s.sess[g].merge, o.order = s.sess[g].order,
           o.issued = s.sess[g].issued, o.armed => s.sess[g].armed,
           OrderGun(s, g) => \/ Asked
                             \/ /\ o.armed \/ o.lastCmd \in {0, o.order}
                                /\ s.gun[g].state = "STARTING" => ~o.armed
    PROVE  Heeds(s, t)
  <1>1. s.sess \in [Guns -> SessRec]
    BY DEF Sound, Data
  <1>2. \A h \in Guns \ {g} : Same(s, t, h)
    BY <1>1 DEF Same
  <1>3. t.sess[g] = o
    BY <1>1
  <1>4. Spares(s, t, g)
    BY Counts DEF Spares
  <1>5. ASSUME GunsHeld(s) PROVE GunHeld(t, g)
    <2>1. OrderGun(s, g) /\ CardGun(s, g) /\ OnceGun(s, g)
      BY <1>5 DEF GunsHeld, GunHeld
    <2>2. OrderGun(t, g)
      BY <1>3, <2>1 DEF OrderGun
    <2>3. CardGun(t, g)
      BY <2>1 DEF CardGun
    <2>4. OnceGun(t, g)
      BY <1>3, <2>1 DEF OnceGun, Unbooked
    <2> QED
      BY <2>2, <2>3, <2>4 DEF GunHeld
  <1>6. Guards(s, t)
    BY <1>2, <1>4, <1>5, OneGuards
  <1> QED
    BY <1>6, StaysFree DEF Heeds

\* Disarming a start heeds; sending it leaves none armed.
LEMMA DisarmHeeds ==
    ASSUME NEW s, Sound(s), NEW g \in Guns
    PROVE  /\ Heeds(s, Disarm(s, g))
           /\ Heeds(s, SendArmedStart(s, g))
           /\ ~SendArmedStart(s, g).sess[g].armed
           /\ SendArmedStart(s, g).sess[g].order = s.sess[g].order
           /\ SendArmedStart(s, g).ledger = s.ledger
           /\ SendArmedStart(s, g).gun[g].state = s.gun[g].state
           /\ Disarm(s, g).gun[g].state = s.gun[g].state
  <1> DEFINE no == FALSE
             o == [s.sess[g] EXCEPT !.armed = no, !.lastCmd = 0]
             q == [s.sess[g] EXCEPT !.armed = no, !.lastCmd = s.sess[g].order]
             r == [s.gun[g] EXCEPT !.sent = "start_charge", !.retried = no]
             d == Disarm(s, g)
             a == SendArmedStart(s, g)
             x == [s EXCEPT !.sess[g] = q, !.gun[g] = r]
  <1>1. s \in Data /\ s.sess[g] \in SessRec /\ s.gun[g] \in GunRec
    BY SessNumbers, Parts
  <1>2. Sound(d) /\ Sound(a)
    BY DisarmKeeps DEF Keeps
  <1>3. d = [s EXCEPT !.sess[g] = o]
    BY DEF Disarm
  <1>4. IF s.sess[g].armed THEN a = x ELSE a = s
    BY DEF SendArmedStart
  <1>5. /\ ~o.armed /\ o.merge = s.sess[g].merge /\ o.order = s.sess[g].order
        /\ o.issued = s.sess[g].issued /\ o.lastCmd = 0
        /\ ~q.armed /\ q.merge = s.sess[g].merge /\ q.order = s.sess[g].order
        /\ q.issued = s.sess[g].issued /\ q.lastCmd = s.sess[g].order
        /\ r.state = s.gun[g].state
    BY <1>1 DEF SessRec, GunRec
  <1> HIDE DEF o, q, r, d, a, x
  <1>6. Heeds(s, d) /\ d.gun[g].state = s.gun[g].state
    <2>1. /\ d.reader = s.reader /\ d.link = s.link /\ d.gun = s.gun /\ d.meter = s.meter
          /\ d.card = s.card /\ d.ledger = s.ledger /\ d.sess = [s.sess EXCEPT ![g] = o]
      BY <1>1, <1>3 DEF Data
    <2> QED
      BY <1>2, <1>5, <2>1, RecordHeeds
  <1>7. ASSUME a = x
        PROVE  /\ Heeds(s, a) /\ ~a.sess[g].armed /\ a.sess[g].order = s.sess[g].order
               /\ a.ledger = s.ledger /\ a.gun[g].state = s.gun[g].state
    <2>1. /\ a.reader = s.reader /\ a.link = s.link /\ a.gun = [s.gun EXCEPT ![g] = r]
          /\ a.meter = s.meter /\ a.card = s.card /\ a.ledger = s.ledger
          /\ a.sess = [s.sess EXCEPT ![g] = q]
          /\ s.sess \in [Guns -> SessRec] /\ s.gun \in [Guns -> GunRec]
      BY <1>1, <1>7 DEF Data, x
    <2>2. \A h \in Guns : a.gun[h].state = s.gun[h].state
      BY <1>5, <2>1
    <2>3. Heeds(s, a)
      BY <1>2, <1>5, <2>1, <2>2, RecordHeeds
    <2>4. a.sess[g] = q
      BY <2>1
    <2> QED
      BY <1>5, <2>1, <2>2, <2>3, <2>4
  <1>8. /\ Heeds(s, a) /\ ~a.sess[g].armed /\ a.sess[g].order = s.sess[g].order
        /\ a.ledger = s.ledger /\ a.gun[g].state = s.gun[g].state
    BY <1>4, <1>7, SameHeeds
  <1> QED
    BY <1>6, <1>8 DEF d, a

\* Noting a stop of the logic's own, a reason or a prepaid amount heeds.
LEMMA NoteHeeds ==
    ASSUME NEW s, Sound(s), NEW g \in Guns
    PROVE  /\ \A b \in BOOLEAN : Heeds(s, [s EXCEPT !.sess[g].tcuStop = b])
           /\ \A r \in Reasons : Heeds(s, [s EXCEPT !.sess[g].reason = r])
           /\ \A x \in Readings : Heeds(s, [s EXCEPT !.sess[g].precharge = x])
  <1>1. s.sess[g] \in SessRec /\ s \in Data
    BY SessNumbers
  <1>2. ASSUME NEW o, NEW t, t = [s EXCEPT !.sess[g] = o], Sound(t),
               o.armed = s.sess[g].armed, o.lastCmd = s.sess[g].lastCmd,
               o.merge = s.sess[g].merge, o.order = s.sess[g].order,
               o.issued = s.sess[g].issued
        PROVE  Heeds(s, t)
    <2>1. /\ t.reader = s.reader /\ t.link = s.link /\ t.gun = s.gun /\ t.meter = s.meter
          /\ t.card = s.card /\ t.ledger = s.ledger /\ t.sess = [s.sess EXCEPT ![g] = o]
      BY <1>1, <1>2 DEF Data
    <2>2. OrderGun(s, g) => \/ Asked
                            \/ /\ o.armed \/ o.lastCmd \in {0, o.order}
                               /\ s.gun[g].state = "STARTING" => ~o.armed
      BY <1>2 DEF OrderGun
    <2>3. \A h \in Guns : t.gun[h].state = s.gun[h].state
      BY <2>1
    <2>4. /\ Sound(t) /\ o.merge = s.sess[g].merge /\ o.order = s.sess[g].order
          /\ o.issued = s.sess[g].issued /\ (o.armed => s.sess[g].armed)
      BY <1>2
    <2> QED
      BY <2>1, <2>2, <2>3, <2>4, RecordHeeds
  <1>3. ASSUME NEW b \in BOOLEAN, NEW r \in Reasons
        PROVE  /\ Heeds(s, [s EXCEPT !.sess[g].tcuStop = b])
               /\ Heeds(s, [s EXCEPT !.sess[g].reason = r])
    <2> DEFINE o == [s.sess[g] EXCEPT !.tcuStop = b]
               q == [s.sess[g] EXCEPT !.reason = r]
               t == [s EXCEPT !.sess[g] = o]
               u == [s EXCEPT !.sess[g] = q]
    <2>1. /\ o.armed = s.sess[g].armed /\ o.lastCmd = s.sess[g].lastCmd
          /\ o.merge = s.sess[g].merge /\ o.order = s.sess[g].order
          /\ o.issued = s.sess[g].issued
          /\ q.armed = s.sess[g].armed /\ q.lastCmd = s.sess[g].lastCmd
          /\ q.merge = s.sess[g].merge /\ q.order = s.sess[g].order
          /\ q.issued = s.sess[g].issued
      BY <1>1 DEF SessRec
    <2>2. [s EXCEPT !.sess[g].tcuStop = b] = t /\ [s EXCEPT !.sess[g].reason = r] = u
      OBVIOUS
    <2>3. Sound(t) /\ Sound(u)
      BY <2>2, NoteTidy DEF Tidies
    <2> HIDE DEF o, q
    <2>4. Heeds(s, t) /\ Heeds(s, u)
      BY <1>2, <2>1, <2>3
    <2> QED
      BY <2>2, <2>4
  <1>4. ASSUME NEW x \in Readings
        PROVE  Heeds(s, [s EXCEPT !.sess[g].precharge = x])
    <2> DEFINE o == [s.sess[g] EXCEPT !.precharge = x]
               t == [s EXCEPT !.sess[g] = o]
    <2>1. /\ o.armed = s.sess[g].armed /\ o.lastCmd = s.sess[g].lastCmd
          /\ o.merge = s.sess[g].merge /\ o.order = s.sess[g].order
          /\ o.issued = s.sess[g].issued
      BY <1>1 DEF SessRec
    <2>2. [s EXCEPT !.sess[g].precharge = x] = t
      OBVIOUS
    <2>3. Sound(t)
      BY <2>2, NoteTidy DEF Tidies
    <2> HIDE DEF o
    <2>4. Heeds(s, t)
      BY <1>2, <2>1, <2>3
    <2> QED
      BY <2>2, <2>4
  <1>5. TRUE \in BOOLEAN /\ "none" \in Reasons
    BY DEF Reasons
  <1> QED
    BY <1>3, <1>4, <1>5

\* A gun's own flags do not matter.
LEMMA FlagHeeds ==
    ASSUME NEW s, Sound(s), NEW g \in Guns, NEW r \in GunRec, r.state = s.gun[g].state
    PROVE  Heeds(s, [s EXCEPT !.gun[g] = r])
  <1> DEFINE t == [s EXCEPT !.gun[g] = r]
  <1>1. s \in Data
    BY DEF Sound
  <1>2. Sound(t)
    BY FlagKeeps DEF Keeps
  <1>3. /\ t.reader = s.reader /\ t.sess = s.sess /\ t.meter = s.meter /\ t.card = s.card
        /\ t.link = s.link /\ t.ledger = s.ledger /\ t.gun = [s.gun EXCEPT ![g] = r]
        /\ s.gun \in [Guns -> GunRec]
    BY <1>1 DEF Data
  <1> HIDE DEF t
  <1>4. \A h \in Guns : Same(s, t, h)
    BY <1>3 DEF Same
  <1>5. Heeds(s, t)
    BY <1>2, <1>3, <1>4, AllGuards, StaysFree DEF Heeds
  <1> QED
    BY <1>5 DEF t

\* stopCompleteSeen, startSuccessFlag and the unplugged vehicle, for three.
LEMMA FlagsHeed ==
    ASSUME NEW s, Sound(s), NEW g \in Guns
    PROVE  /\ Heeds(s, [s EXCEPT !.gun[g].stopSeen = TRUE])
           /\ \A b \in BOOLEAN : Heeds(s, [s EXCEPT !.gun[g].startOk = b])
           /\ Heeds(s, [s EXCEPT !.gun[g].gone = TRUE])
  <1>1. s.gun[g] \in GunRec
    BY Parts DEF Sound
  <1>2. ASSUME NEW b \in BOOLEAN PROVE Heeds(s, [s EXCEPT !.gun[g].startOk = b])
    <2> DEFINE r == [s.gun[g] EXCEPT !.startOk = b]
    <2>1. r \in GunRec /\ r.state = s.gun[g].state
      BY <1>1 DEF GunRec
    <2>2. [s EXCEPT !.gun[g] = r] = [s EXCEPT !.gun[g].startOk = b]
      OBVIOUS
    <2> HIDE DEF r
    <2>3. Heeds(s, [s EXCEPT !.gun[g] = r])
      BY <2>1, FlagHeeds
    <2> QED
      BY <2>2, <2>3
  <1> DEFINE x == [s.gun[g] EXCEPT !.stopSeen = TRUE]
             y == [s.gun[g] EXCEPT !.gone = TRUE]
  <1>3. x \in GunRec /\ x.state = s.gun[g].state /\ y \in GunRec /\ y.state = s.gun[g].state
    BY <1>1 DEF GunRec
  <1>4. /\ [s EXCEPT !.gun[g] = x] = [s EXCEPT !.gun[g].stopSeen = TRUE]
        /\ [s EXCEPT !.gun[g] = y] = [s EXCEPT !.gun[g].gone = TRUE]
    OBVIOUS
  <1> HIDE DEF x, y
  <1>5. Heeds(s, [s EXCEPT !.gun[g] = x]) /\ Heeds(s, [s EXCEPT !.gun[g] = y])
    BY <1>3, FlagHeeds
  <1> QED
    BY <1>2, <1>4, <1>5

\* The events a gun may take here: all but the end of its settlement, an authorisation
\* of an order that has its record, and a reset.
MayTake(s, g, e) ==
    /\ e = "METER_STALE" => s.gun[g].state # "STOPPING"
    /\ e = "AUTH_OK" => Unbooked(s, g)
    /\ e = "RESET_ERROR" => ~InStep

\* Events of a gun that is not in a session heed.
LEMMA RestHeeds ==
    ASSUME NEW s, Sound(s), NEW g \in Guns, NEW e, MayTake(s, g, e),
           s.gun[g].state \in {"IDLE", "PREPARE", "STOPPED", "ERROR"}
    PROVE  Heeds(s, HandleEvent(s, g, e))
  <1> DEFINE st == s.gun[g].state
             h == HandleEvent(s, g, e)
             d == Disarm(s, g)
             a == SendArmedStart(s, g)
  <1>1. \/ h = s
        \/ h = d
        \/ \E to \in {"PREPARE", "ERROR", "IDLE"} : h = TransitionTo(s, g, to)
        \/ h = TransitionTo(d, g, "IDLE")
        \/ e = "AUTH_OK" /\ h = TransitionTo(a, g, "STARTING")
    BY DEF HandleEvent, OnIdle, OnPrepare, OnStopped, OnError
  <1>2. /\ Heeds(s, d) /\ Heeds(s, a) /\ ~a.sess[g].armed
        /\ a.sess[g].order = s.sess[g].order /\ a.ledger = s.ledger
        /\ a.gun[g].state = st /\ d.gun[g].state = st
    BY DisarmHeeds
  <1> HIDE DEF d, a, h
  <1>3. \A to \in {"PREPARE", "ERROR", "IDLE"} : MayMove(s, g, to) /\ MayMove(d, g, to)
    BY <1>2 DEF MayMove, States, Served
  <1>4. \A to \in {"PREPARE", "ERROR", "IDLE"} :
           Heeds(s, TransitionTo(s, g, to)) /\ Heeds(d, TransitionTo(d, g, to))
    BY <1>2, <1>3, HeedsSound, TransitionHeeds
  <1>5. ASSUME e = "AUTH_OK" PROVE Heeds(s, TransitionTo(a, g, "STARTING"))
    <2>1. Unbooked(a, g)
      BY <1>2, <1>5 DEF MayTake, Unbooked
    <2>2. MayMove(a, g, "STARTING")
      BY <1>2, <2>1 DEF MayMove, States, Served
    <2>3. Heeds(a, TransitionTo(a, g, "STARTING"))
      BY <1>2, <2>2, HeedsSound, TransitionHeeds
    <2> QED
      BY <1>2, <2>3, HeedsTrans
  <1>6. Heeds(s, h)
    BY <1>1, <1>2, <1>4, <1>5, SameHeeds, HeedsTrans
  <1> QED
    BY <1>6 DEF h

\* So do those of a gun in one.
LEMMA ServedHeeds ==
    ASSUME NEW s, Sound(s), NEW g \in Guns, NEW e, MayTake(s, g, e),
           s.gun[g].state \in Served
    PROVE  Heeds(s, HandleEvent(s, g, e))
  <1> DEFINE st == s.gun[g].state
             h == HandleEvent(s, g, e)
             no == FALSE
             c == [s EXCEPT !.sess[g].tcuStop = no]
             x == EnterStopping(s, g)
             y == [x EXCEPT !.gun[g].stopSeen = TRUE]
             z == [s EXCEPT !.gun[g].stopSeen = TRUE]
  <1>1. \/ h = s
        \/ st \in {"STARTING", "CHARGING"} /\ h \in {x, y}
        \/ st = "STOPPING" /\ h = z
        \/ st = "STARTING" /\ h = TransitionTo(c, g, "CHARGING")
        \/ st = "STARTING" /\ ~InStep /\ h = TransitionTo(s, g, "IDLE")
    BY DEF HandleEvent, OnStarting, OnCharging, OnStopping, Served, MayTake
  <1>2. /\ s \in Data /\ s.sess[g] \in SessRec /\ no \in BOOLEAN
    BY SessNumbers
  <1>3. /\ c.gun[g].state = st /\ c.ledger = s.ledger /\ c.sess[g].order = s.sess[g].order
    BY <1>2 DEF Data, SessRec
  <1> HIDE DEF no, h
  <1>4. Heeds(s, c) /\ Heeds(s, z)
    BY <1>2, NoteHeeds, FlagsHeed
  <1>5. Heeds(s, x)
    BY EnterStoppingHeeds
  <1> HIDE DEF x, z
  <1>6. Heeds(x, y)
    BY <1>5, HeedsSound, FlagsHeed
  <1> HIDE DEF y
  <1>7. Heeds(s, y)
    BY <1>5, <1>6, HeedsTrans
  <1>8. st = "STARTING" => Heeds(c, TransitionTo(c, g, "CHARGING"))
    <2> SUFFICES ASSUME st = "STARTING" PROVE Heeds(c, TransitionTo(c, g, "CHARGING"))
      OBVIOUS
    <2>1. GunsHeld(c) => Unbooked(c, g)
      BY <1>3 DEF GunsHeld, GunHeld, OnceGun, Unbooked, Served
    <2> HIDE DEF c
    <2>2. MayMove(c, g, "CHARGING")
      BY <1>3, <2>1 DEF MayMove, States, Served
    <2> QED
      BY <1>4, <2>2, HeedsSound, TransitionHeeds
  <1> HIDE DEF c
  <1>9. st = "STARTING" /\ ~InStep => Heeds(s, TransitionTo(s, g, "IDLE"))
    <2>1. st = "STARTING" /\ ~InStep => MayMove(s, g, "IDLE")
      BY DEF MayMove, States, Served
    <2> QED
      BY <2>1, TransitionHeeds
  <1>10. Heeds(s, h)
    BY <1>1, <1>4, <1>5, <1>7, <1>8, <1>9, SameHeeds, HeedsTrans
  <1> QED
    BY <1>10 DEF h

\* The state machine heeds every event a gun may take here.
LEMMA EventHeeds ==
    ASSUME NEW s, Sound(s), NEW g \in Guns, NEW e, MayTake(s, g, e)
    PROVE  Heeds(s, HandleEvent(s, g, e))
  <1>1. s.gun[g].state \in States
    BY Parts DEF Sound, GunRec
  <1> QED
    BY <1>1, RestHeeds, ServedHeeds DEF States, Served

\* The events that are for every gun at any time.
Plain(e) == e \notin {"METER_STALE", "AUTH_OK", "RESET_ERROR"}

\* Such an event, handled where the data is sound, leaves the orders what they promise.
LEMMA PlainHeeds ==
    ASSUME NEW s, Sound(s), NEW g \in Guns, NEW e, Plain(e)
    PROVE  Heeds(s, HandleEvent(s, g, e))
  BY EventHeeds DEF MayTake, Plain

\* So is an event after a change that heeds.
LEMMA HeedsThenEvent ==
    ASSUME NEW s, NEW t, Heeds(s, t), NEW g \in Guns, NEW e, Plain(e)
    PROVE  Heeds(s, HandleEvent(t, g, e))
  <1>1. Heeds(t, HandleEvent(t, g, e))
    BY HeedsSound, PlainHeeds
  <1> QED
    BY <1>1, HeedsTrans

\* An event with a reason of its own.
LEMMA ReasonEventHeeds ==
    ASSUME NEW s, Sound(s), NEW g \in Guns, NEW e, Plain(e)
    PROVE  Heeds(s, HandleEvent([s EXCEPT !.sess[g].reason = "fault"], g, e))
  <1> DEFINE yes == "fault"
             u == [s EXCEPT !.sess[g].reason = yes]
  <1>1. yes \in Reasons
    BY DEF Reasons
  <1>2. u = [s EXCEPT !.sess[g].reason = "fault"]
    OBVIOUS
  <1> HIDE DEF yes
  <1>3. Heeds(s, u)
    BY <1>1, NoteHeeds
  <1> HIDE DEF u
  <1>4. Heeds(s, HandleEvent(u, g, e))
    BY <1>3, HeedsThenEvent
  <1> QED
    BY <1>2, <1>4

-----------------------------------------------------------------------------
(* The stop at the prepaid amount, the links and the meter.                *)

\* A stop of the logic's own heeds.
LEMMA RequestStopHeeds ==
    ASSUME NEW s, Sound(s), NEW g \in Guns
    PROVE  Heeds(s, RequestStop(s, g))
  <1> DEFINE yes == TRUE
             u == [s EXCEPT !.sess[g].tcuStop = yes]
  <1>1. yes \in BOOLEAN
    OBVIOUS
  <1>2. RequestStop(s, g) = s \/ RequestStop(s, g) = HandleEvent(u, g, "STOP_CMD")
    BY DEF RequestStop
  <1> HIDE DEF yes
  <1>3. Heeds(s, u)
    BY <1>1, NoteHeeds
  <1> HIDE DEF u
  <1>4. Heeds(s, HandleEvent(u, g, "STOP_CMD"))
    BY <1>3, HeedsThenEvent DEF Plain
  <1> QED
    BY <1>2, <1>4, SameHeeds

\* So does the stop at the prepaid amount, which asks for both guns' stop.
LEMMA PrepaidHeeds ==
    ASSUME NEW s, Sound(s), NEW g \in Guns
    PROVE  Heeds(s, MaybeTriggerTcuStopByPrecharge(s, g))
  <1> DEFINE t == RequestStop(s, g)
             u == RequestStop(t, Peer(g))
             r == MaybeTriggerTcuStopByPrecharge(s, g)
  <1>1. Heeds(s, t)
    BY RequestStopHeeds
  <1>2. r = s \/ r = t \/ (Peer(g) \in Guns /\ r = u)
    BY DEF MaybeTriggerTcuStopByPrecharge, RequestPeerStop, HasPeer
  <1> HIDE DEF t, r
  <1>3. Peer(g) \in Guns => Heeds(t, u)
    BY <1>1, HeedsSound, RequestStopHeeds
  <1> HIDE DEF u
  <1>4. Heeds(s, r)
    BY <1>1, <1>2, <1>3, SameHeeds, HeedsTrans
  <1> QED
    BY <1>4 DEF r

\* A new link record heeds, but for the platform's on a gun with a card.
LEMMA LinkHeeds ==
    ASSUME NEW s, Sound(s), NEW g \in Guns, NEW l \in Links, NEW r \in LinkRec,
           r.latched => \/ l # "platform"
                        \/ s.link[g][l].latched
                        \/ ~s.card[g].active
    PROVE  Heeds(s, WithLink(s, g, l, r))
  <1> DEFINE t == WithLink(s, g, l, r)
  <1>1. Sound(t) /\ s \in Data
    BY LinkKeeps DEF Keeps, Sound
  <1>2. /\ t.reader = s.reader /\ t.sess = s.sess /\ t.card = s.card /\ t.gun = s.gun
        /\ t.ledger = s.ledger /\ t.meter = s.meter
    BY <1>1 DEF WithLink, Data
  <1>3. /\ \A h \in Guns \ {g} : t.link[h] = s.link[h]
        /\ t.link[g][l] = r
        /\ \A k \in Links \ {l} : t.link[g][k] = s.link[g][k]
    BY <1>1, LinkFact
  <1> HIDE DEF t
  <1>4. \A h \in Guns \ {g} : Same(s, t, h)
    BY <1>2, <1>3 DEF Same
  <1>5. Spares(s, t, g)
    <2>1. t.link[g]["platform"].latched => s.link[g]["platform"].latched \/ ~s.card[g].active
      BY <1>3, LinkNames
    <2> QED
      BY <1>2, <2>1, Counts DEF Spares
  <1>6. GunHeld(s, g) => GunHeld(t, g)
    BY <1>2 DEF GunHeld, OrderGun, CardGun, OnceGun, Unbooked
  <1>7. Guards(s, t)
    BY <1>1, <1>4, <1>5, <1>6, OneGuards DEF GunsHeld
  <1>8. Heeds(s, t)
    BY <1>2, <1>7, StaysFree DEF Heeds
  <1> QED
    BY <1>8 DEF t

\* A link's reports heed.
LEMMA LinkReportsHeed ==
    ASSUME NEW s, Sound(s), NEW g \in Guns, NEW l \in Links
    PROVE  /\ Heeds(s, NoteOffline(s, g, l))
           /\ Heeds(s, NoteOnline(s, g, l))
           /\ Heeds(s, [s EXCEPT !.link[g][l] = Cleared])
  <1> DEFINE r == [s.link[g][l] EXCEPT !.pending = TRUE]
             x == WithLink(s, g, l, r)
             t == WithLink(s, g, l, Cleared)
             n == NoteOnline(s, g, l)
  <1>1. s.link[g][l] \in LinkRec /\ s \in Data
    BY Parts DEF Sound
  <1>2. /\ r \in LinkRec /\ Cleared \in LinkRec
        /\ r.latched = s.link[g][l].latched /\ ~Cleared.latched
    BY <1>1 DEF LinkRec, Cleared
  <1>3. NoteOffline(s, g, l) = s \/ NoteOffline(s, g, l) = x
    BY DEF NoteOffline, WithLink
  <1>4. [s EXCEPT !.link[g][l] = Cleared] = t
    BY DEF WithLink
  <1>5. n = t \/ (t.gun[g].state = "ERROR"
                   /\ \E to \in {"PREPARE", "IDLE"} : n = TransitionTo(t, g, to))
    BY <1>4 DEF NoteOnline
  <1> HIDE DEF r
  <1>6. Heeds(s, x) /\ Heeds(s, t)
    BY <1>2, LinkHeeds
  <1> HIDE DEF x, t, n
  <1>7. t.gun[g].state = "ERROR" => \A to \in {"PREPARE", "IDLE"} : MayMove(t, g, to)
    BY DEF MayMove, States, Served
  <1>8. t.gun[g].state = "ERROR" =>
          \A to \in {"PREPARE", "IDLE"} : Heeds(t, TransitionTo(t, g, to))
    BY <1>6, <1>7, HeedsSound, TransitionHeeds
  <1>9. Heeds(s, n)
    BY <1>5, <1>6, <1>8, HeedsTrans
  <1> QED
    BY <1>3, <1>4, <1>6, <1>9, SameHeeds DEF n

\* So does a confirmed fault, of the platform's link only on a gun without a card.
LEMMA ConfirmHeeds ==
    ASSUME NEW s, Sound(s), NEW g \in Guns, NEW l \in Links,
           l = "platform" => ~s.card[g].active
    PROVE  Heeds(s, ConfirmOffline(s, g, l))
  <1> DEFINE r == [fault |-> TRUE, latched |-> TRUE, pending |-> FALSE]
             t == LatchFault(s, g, l)
             b == IF s.gun[g].state \in {"STARTING", "CHARGING"} THEN "fault"
                  ELSE t.sess[g].reason
             u == [t EXCEPT !.sess[g].reason = b]
             c == ConfirmOffline(s, g, l)
  <1>1. r \in LinkRec
    BY DEF LinkRec
  <1>2. t = WithLink(s, g, l, r)
    BY DEF LatchFault, WithLink
  <1>3. c = t \/ c = HandleEvent(u, g, "DEVICE_ERR")
    BY DEF ConfirmOffline
  <1> HIDE DEF r, t, c
  <1>4. Heeds(s, t)
    BY <1>1, <1>2, LinkHeeds
  <1>5. Sound(t) /\ b \in Reasons
    BY <1>4, HeedsSound, SessNumbers DEF SessRec, Reasons
  <1> HIDE DEF b
  <1>6. Heeds(t, u)
    BY <1>5, NoteHeeds
  <1> HIDE DEF u
  <1>7. Heeds(s, u)
    BY <1>4, <1>6, HeedsTrans
  <1>8. Heeds(s, c)
    BY <1>3, <1>4, <1>7, HeedsThenEvent DEF Plain
  <1> QED
    BY <1>8 DEF c

\* A reading is billed to a gun that draws power, whose total only grows.
LEMMA MeterDataHeeds ==
    ASSUME NEW s, Sound(s), NEW g \in Guns, NEW kwh \in Readings,
           NEW volt \in {"low", "normal"}
    PROVE  Heeds(s, HandleMeterData(s, g, kwh, volt))
  <1> DEFINE st == s.gun[g].state
             taken == TakeReading(s.meter[g], kwh)
             read == TakeVoltage(taken, volt, st = "CHARGING")
             m == IF st \in {"CHARGING", "STOPPING"} THEN BillReading(read, kwh) ELSE read
             t == HandleMeterData(s, g, kwh, volt)
  <1>1. s \in Data /\ s.meter[g] \in MeterRec
    BY Parts DEF Sound
  <1>2. Sound(t)
    BY <1>1, MeterDataFact, QuietSound
  <1>3. taken \in MeterRec /\ read \in MeterRec
    BY <1>1, TakeReadingFact, TakeVoltageFact
  <1>4. read.total = s.meter[g].total
    BY <1>1, <1>3 DEF TakeReading, TakeVoltage, MeterRec
  <1>5. s.meter[g].total <= m.total
    <2>1. read.total \in Nat /\ BillReading(read, kwh).total >= read.total
      BY <1>3, BillFact DEF MeterRec
    <2>2. BillReading(read, kwh).total \in Nat
      BY <1>3, BillFact DEF MeterRec
    <2> QED
      BY <1>4, <2>1, <2>2
  <1>6. t = [s EXCEPT !.meter[g] = m]
    BY DEF HandleMeterData
  <1> HIDE DEF taken, read, m, t
  <1>7. /\ t.reader = s.reader /\ t.sess = s.sess /\ t.card = s.card /\ t.gun = s.gun
        /\ t.ledger = s.ledger /\ t.link = s.link /\ t.meter = [s.meter EXCEPT ![g] = m]
        /\ s.meter \in [Guns -> MeterRec]
    BY <1>1, <1>6 DEF Data
  <1>8. \A h \in Guns \ {g} : Same(s, t, h)
    BY <1>7 DEF Same
  <1>9. Spares(s, t, g)
    <2>1. t.meter[g] = m
      BY <1>7
    <2> QED
      BY <1>5, <1>7, <2>1 DEF Spares
  <1>10. GunHeld(s, g) => GunHeld(t, g)
    BY <1>7 DEF GunHeld, OrderGun, CardGun, OnceGun, Unbooked
  <1>11. Guards(s, t)
    BY <1>2, <1>8, <1>9, <1>10, OneGuards DEF GunsHeld
  <1>12. Heeds(s, t)
    BY <1>7, <1>11, StaysFree DEF Heeds
  <1> QED
    BY <1>12 DEF t

-----------------------------------------------------------------------------
(* The end of a settlement, and one iteration of the main loop on a gun.   *)

\* The gun's record: the energy it delivered and the card that opened it.
Records(s, t, g) ==
    LET o == s.sess[g].order
    IN  /\ t.ledger[g][o].count > 0
        /\ t.ledger[g][o].kwh = s.meter[g].total
        /\ t.ledger[g][o].card = s.card[g].no
        /\ \A p \in Orders \ {o} : t.ledger[g][p] = s.ledger[g][p]

\* From s to t gun g, which was stopping, has its order recorded.
Settled(s, t, g) ==
    /\ Sound(s) /\ Sound(t)
    /\ GunsHeld(s) /\ Steady(s, t) => GunsHeld(t)
    /\ ReaderFree(s) => ReaderFree(t)
    /\ \A h \in Guns \ {g} : Spares(s, t, h)
    /\ s.gun[g].state = "STOPPING"
    /\ t.link[g]["platform"].latched => s.link[g]["platform"].latched \/ ~s.card[g].active
    /\ Records(s, t, g)

\* Closing a session records it and ends its card's part.
LEMMA CloseRecords ==
    ASSUME NEW s, Sound(s), NEW g \in Guns, s.gun[g].state = "STOPPING"
    PROVE  LET t == CloseSession(Move(s, g, "STOPPED"), g)
           IN  /\ Sound(t)
               /\ GunsHeld(s) => GunsHeld(t)
               /\ ReaderFree(s) => ReaderFree(t)
               /\ \A h \in Guns \ {g} : Spares(s, t, h)
               /\ t.gun[g].state = "STOPPED"
               /\ Records(s, t, g)
  <1> DEFINE u == Move(s, g, "STOPPED")
             k == s.sess[g].order
             b == s.ledger[g][k]
             n == IF b.count < 2 THEN b.count + 1 ELSE 2
             e == [count |-> n, kwh |-> s.meter[g].total, card |-> s.card[g].no]
             l == [s.ledger[g] EXCEPT ![k] = e]
             v == LogTradeRecordOnStopped(u, g)
             c == [active |-> FALSE, no |-> NoCard, swiped |-> FALSE, ask |-> NoAsk]
             t == CloseSession(u, g)
  <1>1. /\ Sound(u) /\ u.reader = s.reader /\ u.link = s.link /\ u.sess = s.sess
        /\ u.card = s.card /\ u.ledger = s.ledger /\ u.gun[g].state = "STOPPED"
        /\ u.meter[g].total = s.meter[g].total
        /\ \A h \in Guns \ {g} : Same(s, u, h)
    BY MoveSame DEF States
  <1> HIDE DEF u
  <1>2. /\ s \in Data /\ u \in Data /\ k \in Orders /\ s.ledger[g] \in [Orders -> Booking]
        /\ s.card \in [Guns -> CardRec]
    BY <1>1, Parts DEF Sound, SessRec, Data
  <1>3. v = [u EXCEPT !.ledger[g] = l]
    BY <1>1 DEF LogTradeRecordOnStopped
  <1>4. /\ n > 0 /\ b.count \in 0 .. 2 /\ (b.count = 0 => n = 1)
        /\ e.count = n /\ e.kwh = s.meter[g].total /\ e.card = s.card[g].no
    <2>1. b.count \in 0 .. 2
      BY <1>2 DEF Booking
    <2> QED
      BY <2>1
  <1>5. Sound(t) /\ v \in Data
    BY <1>1, <1>2, CloseKeeps, LogFact DEF Keeps, Quiet
  <1>6. t = v \/ t = [v EXCEPT !.card[g] = c]
    BY DEF CloseSession, PrepareOfflineCardSettlement
  <1>7. ~c.active /\ c.ask = NoAsk
    OBVIOUS
  <1> HIDE DEF n, e, c, v, t
  <1>8. l[k] = e /\ \A p \in Orders \ {k} : l[p] = s.ledger[g][p]
    BY <1>2
  <1> HIDE DEF l
  <1>9. /\ v.gun = u.gun /\ v.sess = u.sess /\ v.meter = u.meter /\ v.card = u.card
        /\ v.reader = u.reader /\ v.link = u.link /\ v.ledger = [u.ledger EXCEPT ![g] = l]
    BY <1>2, <1>3 DEF Data
  <1>10. /\ t.gun = u.gun /\ t.sess = s.sess /\ t.meter = u.meter /\ t.reader = s.reader
         /\ t.link = s.link /\ t.ledger = [s.ledger EXCEPT ![g] = l]
         /\ t.card[g] \in {s.card[g], c}
         /\ \A h \in Guns \ {g} : t.card[h] = s.card[h]
    <2>1. /\ t.gun = v.gun /\ t.sess = v.sess /\ t.meter = v.meter /\ t.reader = v.reader
          /\ t.link = v.link /\ t.ledger = v.ledger
      BY <1>5, <1>6 DEF Data
    <2>2. t.card[g] \in {v.card[g], c} /\ \A h \in Guns \ {g} : t.card[h] = v.card[h]
      <3>1. CASE t = v
        BY <3>1
      <3>2. CASE t = [v EXCEPT !.card[g] = c]
        <4>1. v.card \in [Guns -> CardRec]
          BY <1>1, <1>2, <1>9
        <4>2. t.card = [v.card EXCEPT ![g] = c]
          BY <1>5, <3>2 DEF Data
        <4> QED
          BY <4>1, <4>2
      <3> QED
        BY <1>6, <3>1, <3>2
    <2> QED
      BY <1>1, <1>9, <2>1, <2>2
  <1>11. t.ledger[g] = l /\ \A h \in Guns \ {g} : t.ledger[h] = s.ledger[h]
    BY <1>2, <1>10 DEF Data
  <1>12. \A h \in Guns \ {g} : Same(s, t, h)
    BY <1>1, <1>10, <1>11 DEF Same
  <1>13. Records(s, t, g)
    BY <1>4, <1>8, <1>11 DEF Records
  <1>14. ASSUME GunsHeld(s) PROVE GunsHeld(t)
    <2>1. OrderGun(s, g) /\ CardGun(s, g) /\ OnceGun(s, g)
      BY <1>14 DEF GunsHeld, GunHeld
    <2>2. OrderGun(t, g)
      BY <1>1, <1>10, <2>1 DEF OrderGun
    <2>3. CardGun(t, g)
      BY <1>7, <1>10, <2>1 DEF CardGun
    <2>4. OnceGun(t, g)
      <3>1. Orderly => b.count = 0
        BY <2>1 DEF OnceGun, Unbooked, Served
      <3>2. ASSUME Orderly, NEW o \in Orders
            PROVE  /\ t.ledger[g][o].count <= 1
                   /\ o > t.sess[g].issued => t.ledger[g][o].count = 0
        <4>1. CASE o = k
          <5>1. t.ledger[g][o].count = 1
            BY <1>4, <1>8, <1>11, <3>1, <3>2, <4>1
          <5>2. ~(o > t.sess[g].issued)
            <6>1. k <= t.sess[g].issued /\ k \in Nat /\ t.sess[g].issued \in Nat
              BY <1>10, <2>1, <3>2, SessNumbers DEF OnceGun
            <6> QED
              BY <4>1, <6>1
          <5> QED
            BY <5>1, <5>2
        <4>2. CASE o # k
          <5>1. t.ledger[g][o] = s.ledger[g][o]
            BY <1>8, <1>11, <4>2
          <5> QED
            BY <1>10, <2>1, <3>2, <5>1 DEF OnceGun
        <4> QED
          BY <4>1, <4>2
      <3>3. t.gun[g].state \notin Served
        BY <1>1, <1>10 DEF Served
      <3>4. InStep => ~t.sess[g].armed
        BY <1>10, <2>1 DEF OnceGun, Served
      <3> QED
        BY <1>10, <2>1, <3>2, <3>3, <3>4 DEF OnceGun
    <2>5. GunHeld(t, g)
      BY <2>2, <2>3, <2>4 DEF GunHeld
    <2>6. \A h \in Guns \ {g} : GunHeld(t, h)
      BY <1>12, <1>14, SameHeld DEF GunsHeld
    <2> QED
      BY <2>5, <2>6 DEF GunsHeld
  <1>15. \A h \in Guns \ {g} : Spares(s, t, h)
    BY <1>12, SameHeld
  <1>16. \A h \in Guns : t.card[h].active => s.card[h].active
    BY <1>7, <1>10
  <1>17. ReaderFree(s) => ReaderFree(t)
    BY <1>10, <1>16, StaysFree
  <1>18. t.gun[g].state = "STOPPED"
    BY <1>1, <1>10
  <1> QED
    BY <1>5, <1>13, <1>14, <1>15, <1>17, <1>18 DEF t, u

\* The end of the settlement: STOPPED, or on to IDLE when the vehicle is gone.
LEMMA StaleRecords ==
    ASSUME NEW s, Sound(s), NEW g \in Guns, s.gun[g].state = "STOPPING"
    PROVE  Settled(s, HandleEvent(s, g, "METER_STALE"), g)
  <1> DEFINE u == CloseSession(Move(s, g, "STOPPED"), g)
             x == Move(u, g, "IDLE")
             y == ResetChargeSessionState(x, g)
             v == LeaveIfGone(u, g)
             t == TransitionTo(s, g, "STOPPED")
  <1>1. HandleEvent(s, g, "METER_STALE") = t
    BY DEF HandleEvent, OnStopping
  <1>2. t = ReconcileAutoCardWaiting(v)
    BY DEF TransitionTo, Enter
  <1>3. v = u \/ v = ReconcileAutoCardWaiting(y)
    BY DEF LeaveIfGone
  <1>4. t.link = s.link /\ t.gun[g].state \in {"STOPPED", "IDLE"}
    BY TransitionFact DEF States, Moves, Reached
  <1>5. /\ Sound(u) /\ (GunsHeld(s) => GunsHeld(u)) /\ (ReaderFree(s) => ReaderFree(u))
        /\ (\A h \in Guns \ {g} : Spares(s, u, h))
        /\ u.gun[g].state = "STOPPED"
        /\ Records(s, u, g)
    BY CloseRecords
  <1> HIDE DEF u
  <1>6. Heeds(u, x) /\ x.gun[g].state = "IDLE"
    <2>1. MayMove(u, g, "IDLE") /\ "IDLE" \in States
      BY <1>5 DEF MayMove, States, Served
    <2> QED
      BY <1>5, <2>1, MoveHeeds, MoveSame
  <1> HIDE DEF x
  <1>7. Heeds(x, y)
    BY <1>6, HeedsSound, ResetHeeds
  <1> HIDE DEF y
  <1>8. Heeds(y, ReconcileAutoCardWaiting(y))
    BY <1>7, HeedsSound, ReconcileHeeds
  <1>9. Heeds(u, v)
    BY <1>3, <1>5, <1>6, <1>7, <1>8, SameHeeds, HeedsTrans
  <1> HIDE DEF v, t
  <1>10. Heeds(v, t)
    BY <1>2, <1>9, HeedsSound, ReconcileHeeds
  <1>11. Heeds(u, t)
    BY <1>9, <1>10, HeedsTrans
  <1>12. \A h \in Guns \ {g} : Spares(s, t, h)
    <2> SUFFICES ASSUME NEW h \in Guns \ {g} PROVE Spares(s, t, h)
      OBVIOUS
    <2>1. Spares(s, u, h) /\ Spares(u, t, h)
      BY <1>5, <1>11 DEF Heeds, Guards
    <2>2. s.meter[h].total \in Nat /\ u.meter[h].total \in Nat /\ t.meter[h].total \in Nat
      BY <1>5, <1>11, HeedsSound, Counts
    <2> QED
      BY <2>1, <2>2 DEF Spares
  <1>13. Records(s, t, g)
    <2>1. t.ledger[g] = u.ledger[g]
      BY <1>11 DEF Heeds, Guards, Spares
    <2> QED
      BY <1>5, <2>1 DEF Records
  <1>14. Steady(s, t) => Steady(u, t)
    <2> SUFFICES ASSUME Steady(s, t), InStep, NEW h \in Guns,
                        t.gun[h].state \in {"CHARGING", "STOPPING"}
                 PROVE  u.gun[h].state \in Served
      BY DEF Steady
    <2>1. h # g
      BY <1>4
    <2>2. s.gun[h].state \in Served
      BY DEF Steady
    <2> QED
      BY <1>5, <2>1, <2>2 DEF Spares
  <1>15. Settled(s, t, g)
    BY <1>4, <1>5, <1>11, <1>12, <1>13, <1>14 DEF Settled, Heeds, Guards
  <1> QED
    BY <1>1, <1>15 DEF t

\* From s to t only the links change.
OnlyLinks(s, t) ==
    /\ t.gun = s.gun /\ t.sess = s.sess /\ t.meter = s.meter /\ t.card = s.card
    /\ t.ledger = s.ledger

\* What a check of the links passes on: no more than new links, as long as the
\* iteration goes on.
HeedsBy(s, i) ==
    /\ i = [data |-> i.data, over |-> i.over]
    /\ Heeds(s, i.data)
    /\ ~i.over => OnlyLinks(s, i.data)

\* A confirmation changes only links where the gun is stopping or in ERROR.
LEMMA ConfirmOnlyLinks ==
    ASSUME NEW s, Sound(s), NEW g \in Guns, NEW l \in Links,
           s.gun[g].state \in {"STOPPING", "ERROR"}
    PROVE  OnlyLinks(s, ConfirmOffline(s, g, l))
  <1> DEFINE r == [fault |-> TRUE, latched |-> TRUE, pending |-> FALSE]
             t == LatchFault(s, g, l)
             b == IF s.gun[g].state \in {"STARTING", "CHARGING"} THEN "fault"
                  ELSE t.sess[g].reason
             u == [t EXCEPT !.sess[g].reason = b]
             c == ConfirmOffline(s, g, l)
  <1>1. s \in Data /\ s.sess \in [Guns -> SessRec] /\ s.sess[g] \in SessRec
    BY Parts DEF Sound, Data
  <1>2. /\ t.gun = s.gun /\ t.sess = s.sess /\ t.meter = s.meter /\ t.card = s.card
        /\ t.ledger = s.ledger
    BY <1>1 DEF LatchFault, Data
  <1>3. t \in Data
    <2>1. t = WithLink(s, g, l, r) /\ r \in LinkRec
      BY DEF LatchFault, WithLink, LinkRec
    <2> QED
      BY <1>1, <2>1, LinkFact
  <1>4. c = t \/ (s.gun[g].state = "ERROR" /\ c = HandleEvent(u, g, "DEVICE_ERR"))
    BY DEF ConfirmOffline
  <1> HIDE DEF t, c
  <1>5. s.gun[g].state = "ERROR" =>
          /\ u.gun = s.gun /\ u.sess = s.sess /\ u.meter = s.meter /\ u.card = s.card
          /\ u.ledger = s.ledger
    <2> SUFFICES ASSUME s.gun[g].state = "ERROR"
                 PROVE  /\ u.gun = s.gun /\ u.sess = s.sess /\ u.meter = s.meter
                        /\ u.card = s.card /\ u.ledger = s.ledger
      OBVIOUS
    <2>1. b = s.sess[g].reason /\ s.sess[g].reason \in Reasons
      BY <1>1, <1>2 DEF SessRec
    <2>2. [s.sess[g] EXCEPT !.reason = b] = s.sess[g]
      BY <1>1, <2>1 DEF SessRec
    <2> HIDE DEF b
    <2>3. u.sess = [s.sess EXCEPT ![g] = [s.sess[g] EXCEPT !.reason = b]]
      BY <1>2, <1>3 DEF Data
    <2>4. u.sess = s.sess
      BY <1>1, <2>2, <2>3
    <2> QED
      BY <1>2, <1>3, <2>4 DEF Data
  <1> HIDE DEF u
  <1>6. s.gun[g].state = "ERROR" => HandleEvent(u, g, "DEVICE_ERR") = u
    BY <1>5 DEF HandleEvent, OnError
  <1>7. OnlyLinks(s, c)
    BY <1>2, <1>4, <1>5, <1>6 DEF OnlyLinks
  <1> QED
    BY <1>7 DEF c

\* A confirmation keeps to what a check passes on.
LEMMA ConfirmPasses ==
    ASSUME NEW s, NEW i, HeedsBy(s, i), ~i.over, NEW g \in Guns, NEW l \in Links,
           l = "platform" => ~i.data.card[g].active
    PROVE  HeedsBy(s, Confirm(i, g, l))
  <1> DEFINE x == i.data
             c == ConfirmOffline(x, g, l)
             o == x.gun[g].state \notin {"STOPPING", "ERROR"}
  <1>1. Confirm(i, g, l) = [data |-> c, over |-> o]
    BY DEF Confirm
  <1>2. Heeds(s, x) /\ OnlyLinks(s, x) /\ (l = "platform" => ~x.card[g].active)
    BY DEF HeedsBy
  <1>3. ~o => x.gun[g].state \in {"STOPPING", "ERROR"}
    OBVIOUS
  <1> HIDE DEF x, o
  <1>4. Sound(x)
    BY <1>2, HeedsSound
  <1>5. Heeds(x, c)
    BY <1>2, <1>4, ConfirmHeeds
  <1>6. ~o => OnlyLinks(x, c)
    BY <1>3, <1>4, ConfirmOnlyLinks
  <1> HIDE DEF c
  <1>7. Heeds(s, c)
    BY <1>2, <1>5, HeedsTrans
  <1>8. ~o => OnlyLinks(s, c)
    BY <1>2, <1>6 DEF OnlyLinks
  <1> QED
    BY <1>1, <1>7, <1>8 DEF HeedsBy

\* The first check passes on what it should, and so do the others.
LEMMA ChecksHeed ==
    ASSUME NEW s, NEW i, HeedsBy(s, i), NEW g \in Guns, NEW due
    PROVE  /\ ~i.over => HeedsBy(s, MaybeConfirmMeterOfflineFault(i, g, due))
           /\ HeedsBy(s, MaybeConfirmPlatformOfflineFault(i, g, due))
           /\ HeedsBy(s, MaybeConfirmPileYxTimeoutFault(i, g, due))
           /\ HeedsBy(s, MaybeConfirmPileOfflineFault(i, g, due))
  <1>1. ~i.over => HeedsBy(s, Confirm(i, g, "meter")) /\ HeedsBy(s, Confirm(i, g, "pile"))
    BY LinkNames, ConfirmPasses
  <1>2. ~i.over /\ ~i.data.card[g].active => HeedsBy(s, Confirm(i, g, "platform"))
    BY LinkNames, ConfirmPasses
  <1>3. ~i.over => HeedsBy(s, [i EXCEPT !.data.link[g]["platform"] = Cleared])
    <2> SUFFICES ASSUME ~i.over
                 PROVE  HeedsBy(s, [i EXCEPT !.data.link[g]["platform"] = Cleared])
      OBVIOUS
    <2> DEFINE x == i.data
               t == [x EXCEPT !.link[g]["platform"] = Cleared]
    <2>1. Heeds(s, x) /\ OnlyLinks(s, x) /\ i = [data |-> x, over |-> i.over]
      BY DEF HeedsBy
    <2>2. [i EXCEPT !.data.link[g]["platform"] = Cleared] = [data |-> t, over |-> i.over]
      BY <2>1
    <2> HIDE DEF x
    <2>3. Sound(x)
      BY <2>1, HeedsSound
    <2>4. Heeds(x, t)
      BY <2>3, LinkNames, LinkReportsHeed
    <2>5. OnlyLinks(x, t)
      BY <2>3 DEF OnlyLinks, Sound, Data
    <2> HIDE DEF t
    <2>6. Heeds(s, t) /\ OnlyLinks(s, t)
      BY <2>1, <2>4, <2>5, HeedsTrans DEF OnlyLinks
    <2>7. HeedsBy(s, [data |-> t, over |-> i.over])
      BY <2>6 DEF HeedsBy
    <2> QED
      BY <2>2, <2>7
  <1>4. ~i.over => HeedsBy(s, MaybeConfirmMeterOfflineFault(i, g, due))
    BY <1>1 DEF MaybeConfirmMeterOfflineFault
  <1>5. HeedsBy(s, MaybeConfirmPlatformOfflineFault(i, g, due))
    BY <1>2, <1>3 DEF MaybeConfirmPlatformOfflineFault, IsLocalCardSessionActive
  <1>6. HeedsBy(s, MaybeConfirmPileYxTimeoutFault(i, g, due))
    BY <1>1 DEF MaybeConfirmPileYxTimeoutFault
  <1>7. HeedsBy(s, MaybeConfirmPileOfflineFault(i, g, due))
    BY <1>1 DEF MaybeConfirmPileOfflineFault
  <1> QED
    BY <1>4, <1>5, <1>6, <1>7

\* So do the four together.
LEMMA CheckLinksHeed ==
    ASSUME NEW s, Sound(s), NEW g \in Guns, NEW due
    PROVE  HeedsBy(s, CheckLinks(s, g, due))
  <1> DEFINE a == [data |-> s, over |-> FALSE]
             b == MaybeConfirmMeterOfflineFault(a, g, due)
             c == MaybeConfirmPlatformOfflineFault(b, g, due)
             d == MaybeConfirmPileYxTimeoutFault(c, g, due)
             e == MaybeConfirmPileOfflineFault(d, g, due)
  <1>1. HeedsBy(s, a) /\ ~a.over
    BY SameHeeds DEF HeedsBy, OnlyLinks
  <1>2. CheckLinks(s, g, due) = e
    BY DEF CheckLinks
  <1> HIDE DEF a
  <1>3. HeedsBy(s, b)
    BY <1>1, ChecksHeed
  <1> HIDE DEF b
  <1>4. HeedsBy(s, c)
    BY <1>3, ChecksHeed
  <1> HIDE DEF c
  <1>5. HeedsBy(s, d)
    BY <1>4, ChecksHeed
  <1> HIDE DEF d
  <1>6. HeedsBy(s, e)
    BY <1>5, ChecksHeed
  <1> QED
    BY <1>2, <1>6

\* The limits of STARTING heed.
LEMMA PollStartingHeeds ==
    ASSUME NEW s, Sound(s), NEW g \in Guns, NEW due
    PROVE  Heeds(s, PollStarting(s, g, due))
  <1> DEFINE r == [s.gun[g] EXCEPT !.retried = TRUE, !.sent = "start_charge"]
             again == [s EXCEPT !.gun[g] = r]
             t == IF "starting_30s" \in due /\ ~s.gun[g].retried THEN again ELSE s
             u == HandleEvent([t EXCEPT !.sess[g].reason = "fault"], g, "STOP_CMD")
  <1>1. r \in GunRec /\ r.state = s.gun[g].state
    BY Parts DEF Sound, GunRec
  <1>2. PollStarting(s, g, due) = IF "starting_60s" \in due THEN u ELSE t
    BY DEF PollStarting
  <1> HIDE DEF r
  <1>3. Heeds(s, again)
    BY <1>1, FlagHeeds
  <1> HIDE DEF again
  <1>4. Heeds(s, t)
    BY <1>3, SameHeeds
  <1> HIDE DEF t
  <1>5. Plain("STOP_CMD")
    BY DEF Plain
  <1>6. Heeds(t, u)
    BY <1>4, <1>5, HeedsSound, ReasonEventHeeds
  <1> HIDE DEF u
  <1>7. Heeds(s, u)
    BY <1>4, <1>6, HeedsTrans
  <1> QED
    BY <1>2, <1>4, <1>7

\* So do the checks of CHARGING.
LEMMA PollChargingHeeds ==
    ASSUME NEW s, Sound(s), NEW g \in Guns, NEW due
    PROVE  Heeds(s, PollCharging(s, g, due))
  <1> DEFINE t == MaybeTriggerTcuStopByPrecharge(s, g)
             u == HandleEvent([t EXCEPT !.sess[g].reason = "fault"], g, "DEVICE_ERR")
             p == PollCharging(s, g, due)
  <1>1. Heeds(s, t)
    BY PrepaidHeeds
  <1>2. p = t \/ p = u
    BY DEF PollCharging, MaybeTriggerMeteringAbnormal
  <1> HIDE DEF t, p
  <1>3. Plain("DEVICE_ERR")
    BY DEF Plain
  <1>4. Heeds(t, u)
    BY <1>1, <1>3, HeedsSound, ReasonEventHeeds
  <1> HIDE DEF u
  <1>5. Heeds(s, p)
    BY <1>1, <1>2, <1>4, HeedsTrans
  <1> QED
    BY <1>5 DEF p

\* A record made after the links were checked is that of the data before.
LEMMA SettledAfterLinks ==
    ASSUME NEW s, NEW x, Heeds(s, x), OnlyLinks(s, x), NEW g \in Guns, NEW t, Settled(x, t, g)
    PROVE  Settled(s, t, g)
  <1>1. \A h \in Guns \ {g} : Spares(s, t, h)
    <2> SUFFICES ASSUME NEW h \in Guns \ {g} PROVE Spares(s, t, h)
      OBVIOUS
    <2>1. Spares(s, x, h) /\ Spares(x, t, h)
      BY DEF Heeds, Guards, Settled
    <2> QED
      BY <2>1 DEF Spares, OnlyLinks
  <1>2. x.link[g]["platform"].latched => s.link[g]["platform"].latched \/ ~s.card[g].active
    BY DEF Heeds, Guards, Spares
  <1>3. Records(s, t, g)
    BY DEF Settled, Records, OnlyLinks
  <1>4. Steady(s, x) /\ (Steady(s, t) => Steady(x, t))
    BY DEF OnlyLinks, Steady, Served
  <1> QED
    BY <1>1, <1>2, <1>3, <1>4 DEF Settled, Heeds, Guards, OnlyLinks

\* The iteration heeds, or it records its gun's order.
LEMMA PollGunHeeds ==
    ASSUME NEW s, Sound(s), NEW g \in Guns, NEW due
    PROVE  Heeds(s, PollGun(s, g, due)) \/ Settled(s, PollGun(s, g, due), g)
  <1> DEFINE i == CheckLinks(s, g, due)
             x == i.data
             q == PollSession(x, g, due)
             p == PollGun(s, g, due)
  <1>1. p = IF i.over THEN x ELSE q
    BY DEF PollGun, FinishIteration
  <1>2. Heeds(s, x) /\ (~i.over => OnlyLinks(s, x))
    BY CheckLinksHeed DEF HeedsBy
  <1> HIDE DEF i, x, p
  <1>3. Sound(x)
    BY <1>2, HeedsSound
  <1>4. Heeds(x, q) \/ Settled(x, q, g)
    <2>1. CASE x.gun[g].state = "STOPPING"
      BY <1>3, <2>1, StaleRecords, SameHeeds DEF PollSession, PollStopping
    <2>2. CASE x.gun[g].state # "STOPPING"
      BY <1>3, <2>2, PollChargingHeeds, PollStartingHeeds, SameHeeds DEF PollSession
    <2> QED
      BY <2>1, <2>2
  <1> HIDE DEF q
  <1>5. CASE i.over
    BY <1>1, <1>2, <1>5 DEF p
  <1>6. CASE ~i.over /\ Heeds(x, q)
    BY <1>1, <1>2, <1>6, HeedsTrans DEF p
  <1>7. CASE ~i.over /\ Settled(x, q, g)
    BY <1>1, <1>2, <1>7, SettledAfterLinks DEF p
  <1> QED
    BY <1>4, <1>5, <1>6, <1>7

-----------------------------------------------------------------------------
(* Orders and starts.                                                      *)

\* A new amount changes nothing else.
LEMMA PrechargeSame ==
    ASSUME NEW s, Sound(s), NEW g \in Guns, NEW x \in Readings
    PROVE  LET t == [s EXCEPT !.sess[g].precharge = x]
           IN  /\ Sound(t)
               /\ t.reader = s.reader /\ t.card = s.card /\ t.gun = s.gun
               /\ \A h \in Guns : Same(s, t, h)
  <1> DEFINE o == [s.sess[g] EXCEPT !.precharge = x]
             t == [s EXCEPT !.sess[g].precharge = x]
  <1>1. s \in Data /\ s.sess[g] \in SessRec /\ s.sess \in [Guns -> SessRec]
    BY SessNumbers DEF Sound, Data
  <1>2. Sound(t)
    BY <1>1, PrechargeFact, QuietSound
  <1>3. /\ t.sess = [s.sess EXCEPT ![g] = o]
        /\ t.reader = s.reader /\ t.card = s.card /\ t.gun = s.gun /\ t.link = s.link
        /\ t.meter = s.meter /\ t.ledger = s.ledger
    BY <1>1 DEF Data
  <1>4. /\ o.armed = s.sess[g].armed /\ o.merge = s.sess[g].merge
        /\ o.order = s.sess[g].order /\ o.issued = s.sess[g].issued
        /\ o.lastCmd = s.sess[g].lastCmd
    BY <1>1 DEF SessRec
  <1> HIDE DEF o, t
  <1>5. \A h \in Guns : Same(s, t, h)
    BY <1>1, <1>3, <1>4 DEF Same
  <1> QED
    BY <1>2, <1>3, <1>5 DEF t

\* Nor does settling a pair on the smaller amount.
LEMMA SyncSame ==
    ASSUME NEW s, Sound(s), NEW g \in Guns
    PROVE  LET t == SyncMergePrechargeAmount(s, g)
           IN  /\ Sound(t)
               /\ t.reader = s.reader /\ t.card = s.card /\ t.gun = s.gun
               /\ \A h \in Guns : Same(s, t, h)
  <1> DEFINE p == Peer(g)
             x == Least(s.sess[g].precharge, s.sess[p].precharge)
             t == [s EXCEPT !.sess[g].precharge = x]
             u == [t EXCEPT !.sess[p].precharge = x]
             r == SyncMergePrechargeAmount(s, g)
  <1>1. r = s \/ (p \in Guns /\ r = u)
    BY DEF SyncMergePrechargeAmount, MergedPair, HasPeer
  <1>2. CASE r = s
    BY <1>2 DEF Same
  <1>3. CASE p \in Guns /\ r = u
    <2>1. x \in Readings
      BY <1>3, SessNumbers DEF SessRec, Least
    <2> HIDE DEF x, p
    <2>2. /\ Sound(t)
          /\ t.reader = s.reader /\ t.card = s.card /\ t.gun = s.gun
          /\ \A h \in Guns : Same(s, t, h)
      BY <2>1, PrechargeSame
    <2> HIDE DEF t
    <2>3. /\ Sound(u)
          /\ u.reader = t.reader /\ u.card = t.card /\ u.gun = t.gun
          /\ \A h \in Guns : Same(t, u, h)
      BY <1>3, <2>1, <2>2, PrechargeSame
    <2> HIDE DEF u, r
    <2> QED
      BY <1>3, <2>2, <2>3 DEF r, Same
  <1> QED
    BY <1>1, <1>2, <1>3

\* So it heeds.
LEMMA SyncHeeds ==
    ASSUME NEW s, Sound(s), NEW g \in Guns
    PROVE  Heeds(s, SyncMergePrechargeAmount(s, g))
  <1> DEFINE t == SyncMergePrechargeAmount(s, g)
  <1>1. /\ Sound(t)
        /\ t.reader = s.reader /\ t.card = s.card
        /\ \A h \in Guns : Same(s, t, h)
    BY SyncSame
  <1> HIDE DEF t
  <1>2. Heeds(s, t)
    BY <1>1, AllGuards, StaysFree DEF Heeds
  <1> QED
    BY <1>2 DEF t

\* What an accepted start changes: its gun's session, which has the next order.
LEMMA ArmSame ==
    ASSUME NEW s, Sound(s), NEW g \in Guns, NEW c \in StartData,
           s.sess[g].issued < MaxOrder
    PROVE  LET t == ArmPendingStart(s, g, c)
           IN  /\ Sound(t)
               /\ t.reader = s.reader /\ t.card = s.card
               /\ \A h \in Guns \ {g} : Same(s, t, h)
               /\ t.gun[g].state = s.gun[g].state
               /\ t.link[g] = s.link[g] /\ t.ledger[g] = s.ledger[g]
               /\ t.sess[g].armed /\ t.sess[g].merge = c.merge
               /\ t.sess[g].order = s.sess[g].issued + 1
               /\ t.sess[g].issued = s.sess[g].issued + 1
  <1> DEFINE o == [s.sess[g] EXCEPT !.basis = TRUE, !.merge = c.merge,
                                    !.order = s.sess[g].issued + 1,
                                    !.issued = s.sess[g].issued + 1,
                                    !.precharge = c.precharge,
                                    !.tcuStop = FALSE, !.reason = "none"]
             m == [s.meter[g] EXCEPT !.stable = 0, !.ready = c.model, !.based = FALSE,
                                     !.last = 0, !.total = 0]
             t == [s EXCEPT !.sess[g] = o, !.meter[g] = m]
             u == SyncMergePrechargeAmount(t, g)
             b == [u.sess[g] EXCEPT !.armed = TRUE]
             v == ArmPendingStart(s, g, c)
  <1>1. v = [u EXCEPT !.sess[g] = b]
    BY DEF ArmPendingStart, UpdateAuthBasis
  <1>2. /\ s \in Data /\ s.sess[g] \in SessRec /\ s.meter[g] \in MeterRec
        /\ s.sess[g].issued \in Nat
    BY SessNumbers, Parts
  <1>3. Sound(v) /\ v.link = s.link
    BY <1>2, ArmFact, QuietSound DEF Quiet
  <1>4. o \in SessRec
    <2>1. s.sess[g].issued + 1 \in Orders
      BY <1>2, BoundAssumption DEF SessRec, Orders
    <2> QED
      BY <1>2, <2>1 DEF SessRec, StartData, Reasons
  <1>5. m \in MeterRec
    <2>1. 0 \in 0 .. 3 /\ 0 \in Readings /\ 0 \in Nat /\ c.model \in BOOLEAN
      BY BoundAssumption DEF Readings, StartData
    <2> QED
      BY <1>2, <2>1 DEF MeterRec
  <1>6. /\ o.merge = c.merge
        /\ o.order = s.sess[g].issued + 1 /\ o.issued = s.sess[g].issued + 1
    BY <1>2 DEF SessRec
  <1> HIDE DEF o, m, v
  <1>7. Sound(t)
    BY <1>2, <1>4, <1>5, QuietSessMeter, QuietSound
  <1>8. /\ t.reader = s.reader /\ t.gun = s.gun /\ t.card = s.card /\ t.ledger = s.ledger
        /\ t.link = s.link
        /\ t.sess = [s.sess EXCEPT ![g] = o] /\ t.meter = [s.meter EXCEPT ![g] = m]
        /\ s.sess \in [Guns -> SessRec] /\ s.meter \in [Guns -> MeterRec]
    BY <1>2 DEF Data
  <1> HIDE DEF t
  <1>9. \A h \in Guns \ {g} : Same(s, t, h)
    BY <1>8 DEF Same
  <1>10. t.sess[g] = o
    BY <1>8
  <1>11. /\ Sound(u)
         /\ u.reader = t.reader /\ u.card = t.card /\ u.gun = t.gun
         /\ \A h \in Guns : Same(t, u, h)
    BY <1>7, SyncSame
  <1> HIDE DEF u
  <1>12. u \in Data /\ u.sess[g] \in SessRec
    BY <1>11, SessNumbers
  <1>13. /\ b.armed /\ b.merge = u.sess[g].merge
         /\ b.order = u.sess[g].order /\ b.issued = u.sess[g].issued
    BY <1>12 DEF SessRec
  <1> HIDE DEF b
  <1>14. /\ v.reader = u.reader /\ v.gun = u.gun /\ v.card = u.card /\ v.ledger = u.ledger
         /\ v.link = u.link /\ v.sess = [u.sess EXCEPT ![g] = b] /\ v.meter = u.meter
         /\ u.sess \in [Guns -> SessRec]
    BY <1>1, <1>12 DEF Data
  <1>15. \A h \in Guns \ {g} : Same(u, v, h)
    BY <1>14 DEF Same
  <1>16. \A h \in Guns \ {g} : Same(s, v, h)
    BY <1>9, <1>11, <1>15 DEF Same
  <1>17. /\ v.sess[g].armed /\ v.sess[g].merge = c.merge
         /\ v.sess[g].order = s.sess[g].issued + 1
         /\ v.sess[g].issued = s.sess[g].issued + 1
    BY <1>6, <1>10, <1>11, <1>13, <1>14 DEF Same
  <1>18. v.gun[g].state = s.gun[g].state /\ v.ledger[g] = s.ledger[g]
    BY <1>8, <1>11, <1>14 DEF Same
  <1> QED
    BY <1>3, <1>8, <1>11, <1>14, <1>16, <1>17, <1>18 DEF v

\* An accepted start heeds, and its order has no record.
LEMMA ArmHeeds ==
    ASSUME NEW s, Sound(s), NEW g \in Guns, NEW c \in StartData,
           s.sess[g].issued < MaxOrder,
           Asked \/ s.gun[g].state = "PREPARE",
           Alone => GunCount = 1 \/ ~c.merge
    PROVE  LET t == ArmPendingStart(s, g, c)
           IN  /\ Heeds(s, t)
               /\ GunsHeld(s) => Unbooked(t, g)
  <1> DEFINE t == ArmPendingStart(s, g, c)
  <1>1. /\ Sound(t)
        /\ t.reader = s.reader /\ t.card = s.card
        /\ \A h \in Guns \ {g} : Same(s, t, h)
        /\ t.gun[g].state = s.gun[g].state
        /\ t.link[g] = s.link[g] /\ t.ledger[g] = s.ledger[g]
        /\ t.sess[g].armed /\ t.sess[g].merge = c.merge
        /\ t.sess[g].order = s.sess[g].issued + 1
        /\ t.sess[g].issued = s.sess[g].issued + 1
    BY ArmSame
  <1> HIDE DEF t
  <1>2. /\ s.sess[g].issued \in Nat /\ Orders \subseteq Nat
        /\ t.sess[g].order \in Orders
    BY <1>1, Counts
  <1>3. GunsHeld(s) => Unbooked(t, g)
    <2>1. t.sess[g].order > s.sess[g].issued
      BY <1>1, <1>2
    <2> QED
      BY <1>1, <1>2, <2>1 DEF GunsHeld, GunHeld, OnceGun, Unbooked
  <1>4. GunsHeld(s) => GunHeld(t, g)
    <2> SUFFICES ASSUME GunsHeld(s) PROVE GunHeld(t, g)
      OBVIOUS
    <2>1. CardGun(s, g) /\ OnceGun(s, g)
      BY DEF GunsHeld, GunHeld
    <2>2. OrderGun(t, g)
      BY <1>1 DEF OrderGun
    <2>3. CardGun(t, g)
      BY <1>1, <2>1 DEF CardGun
    <2>4. ASSUME Orderly, NEW k \in Orders
          PROVE  /\ t.ledger[g][k].count <= 1
                 /\ k > t.sess[g].issued => t.ledger[g][k].count = 0
      <3>1. k > t.sess[g].issued => k > s.sess[g].issued
        BY <1>1, <1>2
      <3> QED
        BY <1>1, <2>1, <2>4, <3>1 DEF OnceGun
    <2>5. t.sess[g].order <= t.sess[g].issued
      BY <1>1, <1>2
    <2>6. InStep => t.gun[g].state \notin Served
      BY <1>1 DEF Served, InStep, Asked
    <2>7. OnceGun(t, g)
      BY <1>1, <1>3, <2>4, <2>5, <2>6 DEF OnceGun
    <2> QED
      BY <2>2, <2>3, <2>7 DEF GunHeld
  <1>5. Spares(s, t, g)
    BY <1>1 DEF Spares, Served
  <1>6. Guards(s, t)
    BY <1>1, <1>4, <1>5, OneGuards
  <1>7. Heeds(s, t)
    BY <1>1, <1>6, StaysFree DEF Heeds
  <1> QED
    BY <1>3, <1>7 DEF t

\* A new card record guards: it begins a session only of a card on the whitelist.
LEMMA CardGuards ==
    ASSUME NEW s, Sound(s), NEW g \in Guns, NEW c \in CardRec,
           s.card[g].active => c.active,
           CardGun(s, g) => \/ Asked
                            \/ c.ask = NoAsk /\ (c.active => c.no \in Whitelist)
    PROVE  LET t == [s EXCEPT !.card[g] = c]
           IN  /\ Guards(s, t)
               /\ t.reader = s.reader /\ t.sess = s.sess /\ t.gun = s.gun
               /\ t.ledger = s.ledger /\ t.card[g] = c
               /\ \A h \in Guns \ {g} : t.card[h] = s.card[h]
  <1> DEFINE t == [s EXCEPT !.card[g] = c]
  <1>1. s \in Data
    BY DEF Sound
  <1>2. Sound(t)
    BY <1>1, QuietCard, QuietSound
  <1>3. /\ t.reader = s.reader /\ t.sess = s.sess /\ t.meter = s.meter /\ t.gun = s.gun
        /\ t.ledger = s.ledger /\ t.link = s.link /\ t.card = [s.card EXCEPT ![g] = c]
        /\ s.card \in [Guns -> CardRec]
    BY <1>1 DEF Data
  <1> HIDE DEF t
  <1>4. t.card[g] = c /\ \A h \in Guns \ {g} : t.card[h] = s.card[h]
    BY <1>3
  <1>5. \A h \in Guns \ {g} : Same(s, t, h)
    BY <1>3, <1>4 DEF Same
  <1>6. GunsHeld(s) => GunHeld(t, g)
    <2> SUFFICES ASSUME GunsHeld(s) PROVE GunHeld(t, g)
      OBVIOUS
    <2>1. OrderGun(s, g) /\ CardGun(s, g) /\ OnceGun(s, g)
      BY DEF GunsHeld, GunHeld
    <2>2. OrderGun(t, g)
      BY <1>3, <2>1 DEF OrderGun
    <2>3. CardGun(t, g)
      BY <1>4, <2>1 DEF CardGun
    <2>4. OnceGun(t, g)
      BY <1>3, <2>1 DEF OnceGun, Unbooked
    <2> QED
      BY <2>2, <2>3, <2>4 DEF GunHeld
  <1>7. Spares(s, t, g)
    <2>1. s.meter[g].total \in Nat
      BY Counts
    <2> QED
      BY <1>3, <1>4, <2>1 DEF Spares
  <1>8. Guards(s, t)
    BY <1>2, <1>5, <1>6, <1>7, OneGuards
  <1> QED
    BY <1>3, <1>4, <1>8 DEF t

\* An authorisation takes a gun from PREPARE to STARTING, and touches no other gun.
LEMMA AuthStarts ==
    ASSUME NEW s, Sound(s), NEW g \in Guns, s.gun[g].state = "PREPARE"
    PROVE  LET t == HandleEvent(s, g, "AUTH_OK")
           IN  /\ Sound(t)
               /\ t.gun[g].state = "STARTING"
               /\ \A h \in Guns \ {g} : t.gun[h].state = s.gun[h].state
               /\ \A h \in Guns \ {g} : t.sess[h] = s.sess[h]
               /\ SameMerges(s, t)
  <1> DEFINE u == SendArmedStart(s, g)
             w == TransitionTo(u, g, "STARTING")
             t == HandleEvent(s, g, "AUTH_OK")
             o == [s.sess[g] EXCEPT !.armed = FALSE, !.lastCmd = s.sess[g].order]
  <1>1. t = w
    BY DEF HandleEvent, OnPrepare
  <1>2. Quiet(s, u) /\ Sound(u) /\ s \in Data
    BY SendFact, QuietSound DEF Sound
  <1>3. SameMerges(s, u) /\ \A h \in Guns \ {g} : u.sess[h] = s.sess[h]
    <2>1. u.sess = s.sess \/ u.sess = [s.sess EXCEPT ![g] = o]
      BY <1>2 DEF SendArmedStart, Data
    <2>2. o.merge = s.sess[g].merge /\ s.sess \in [Guns -> SessRec]
      BY <1>2, SessNumbers DEF SessRec, Data
    <2> HIDE DEF o, u
    <2> QED
      BY <2>1, <2>2 DEF SameMerges
  <1> HIDE DEF u
  <1>4. "STARTING" \in States /\ Reached("STARTING") = {"STARTING"}
    BY DEF States, Reached
  <1>5. Moves(u, w, g, {"STARTING"})
    BY <1>2, <1>4, TransitionFact
  <1>6. w.sess = u.sess
    <2> DEFINE v == Move(u, g, "STARTING")
    <2>1. w = u \/ w = ReconcileAutoCardWaiting(v)
      BY DEF TransitionTo, Enter
    <2>2. Sound(v) /\ v.sess = u.sess
      BY <1>2, <1>4, MoveSess
    <2> HIDE DEF v, w
    <2> QED
      BY <2>1, <2>2, ReaderSess DEF Sound
  <1> HIDE DEF w, t
  <1>7. SameMerges(s, w) /\ \A h \in Guns \ {g} : w.sess[h] = s.sess[h]
    BY <1>3, <1>6 DEF SameMerges
  <1> QED
    BY <1>1, <1>2, <1>5, <1>7 DEF t, Moves, Quiet

\* Dispatching a merged pair heeds: the orders of both starts have no record.
LEMMA TryDispatchHeeds ==
    ASSUME NEW s, Sound(s), GunsHeld(s), NEW g \in Guns, s.gun[g].state = "PREPARE"
    PROVE  Heeds(s, TryDispatchMergePendingStart(s, g))
  <1> DEFINE p == Peer(g)
             t == SyncMergePrechargeAmount(s, g)
             u == SyncMergePrechargeAmount(t, p)
             v == HandleEvent(u, g, "AUTH_OK")
             w == HandleEvent(v, p, "AUTH_OK")
             r == TryDispatchMergePendingStart(s, g)
  <1>1. \/ r = s
        \/ /\ HasPeer(g) /\ r = w /\ s.sess[g].merge
           /\ s.sess[g].armed /\ s.sess[p].armed
    BY DEF TryDispatchMergePendingStart, DispatchArmedStart, IsMergeReady
  <1> SUFFICES ASSUME HasPeer(g), s.sess[g].merge, s.sess[g].armed, s.sess[p].armed
               PROVE  Heeds(s, w)
    BY <1>1, SameHeeds DEF r
  <1>2. p \in Guns /\ p # g
    BY PeerPeer
  <1> HIDE DEF p
  <1>3. Unbooked(s, g) /\ Unbooked(s, p)
    <2>1. GunCount # 1
      BY <1>2 DEF Guns
    <2>2. ~Alone
      BY <2>1 DEF GunsHeld, GunHeld, OnceGun
    <2>3. InStep => Unbooked(s, g) /\ Unbooked(s, p)
      BY <1>2 DEF GunsHeld, GunHeld, OnceGun
    <2> QED
      BY <2>2, <2>3 DEF Unbooked, Orderly
  <1>4. Heeds(s, t) /\ Sound(t) /\ \A h \in Guns : Same(s, t, h)
    BY SyncHeeds, SyncSame
  <1> HIDE DEF t
  <1>5. Heeds(t, u) /\ Sound(u) /\ \A h \in Guns : Same(t, u, h)
    BY <1>2, <1>4, SyncHeeds, SyncSame
  <1> HIDE DEF u
  <1>6. Unbooked(u, g) /\ Unbooked(u, p) /\ u.gun[g].state = "PREPARE"
    BY <1>2, <1>3, <1>4, <1>5 DEF Same, Unbooked
  <1>7. Heeds(u, v) /\ v.sess[p] = u.sess[p]
    <2>1. MayTake(u, g, "AUTH_OK")
      BY <1>6 DEF MayTake
    <2> QED
      BY <1>2, <1>5, <1>6, <2>1, EventHeeds, AuthStarts
  <1> HIDE DEF v
  <1>8. Heeds(v, w)
    <2>1. v.ledger[p] = u.ledger[p]
      BY <1>2, <1>7 DEF Heeds, Guards, Spares
    <2>2. MayTake(v, p, "AUTH_OK")
      BY <1>6, <1>7, <2>1 DEF MayTake, Unbooked
    <2> QED
      BY <1>2, <1>7, <2>2, EventHeeds, HeedsSound
  <1> HIDE DEF w
  <1> QED
    BY <1>4, <1>5, <1>7, <1>8, HeedsTrans

\* So does a card start, of a card on the whitelist.
LEMMA BeginCardHeeds ==
    ASSUME NEW s, Sound(s), GunsHeld(s), NEW g \in Guns, s.sess[g].issued < MaxOrder,
           Asked \/ s.gun[g].state = "PREPARE",
           s.card[g].no \in Whitelist
    PROVE  Heeds(s, BeginOfflineCardCharge(s, g))
  <1> DEFINE data == [merge |-> s.card[g].ask.merge, precharge |-> 0,
                      model |-> \/ CardFeeFallback
                                \/ s.card[g].ask.model
                                \/ s.meter[g].ready]
             c == [s.card[g] EXCEPT !.active = TRUE, !.swiped = FALSE]
             t == [s EXCEPT !.card[g] = c]
             u == ArmPendingStart(t, g, data)
             d == [u.card[g] EXCEPT !.ask = NoAsk]
             v == [u EXCEPT !.card[g] = d]
             w == ResetCardReaderState(v)
  <1>1. s \in Data /\ s.card[g] \in CardRec /\ s.meter[g] \in MeterRec
    BY Parts DEF Sound
  <1>2. data \in StartData
    <2>1. s.card[g].ask.merge \in BOOLEAN /\ s.card[g].ask.model \in BOOLEAN
      BY <1>1 DEF CardRec, AskRec
    <2>2. 0 \in Readings
      BY BoundAssumption DEF Readings
    <2> QED
      BY <1>1, <2>1, <2>2, SwitchAssumption DEF StartData, MeterRec
  <1>3. Alone => GunCount = 1 \/ ~data.merge
    BY DEF Alone, GunsHeld, GunHeld, CardGun, NoAsk
  <1>4. c \in CardRec /\ c.active /\ c.no = s.card[g].no /\ c.ask = s.card[g].ask
    BY <1>1 DEF CardRec
  <1>5. BeginOfflineCardCharge(s, g) = HandleEvent(w, g, "AUTH_OK")
    BY DEF BeginOfflineCardCharge, DispatchArmedStart
  <1> HIDE DEF c, data
  <1>6. /\ Guards(s, t)
        /\ t.reader = s.reader /\ t.sess = s.sess /\ t.gun = s.gun
        /\ t.ledger = s.ledger /\ t.card[g] = c
    BY <1>1, <1>4, CardGuards DEF CardGun
  <1> HIDE DEF t
  <1>7. Heeds(t, u) /\ Unbooked(u, g)
    <2>1. Steady(s, t)
      BY <1>6, SteadyRefl
    <2>2. Sound(t) /\ GunsHeld(t)
      BY <1>6, <2>1 DEF Guards
    <2> QED
      BY <1>2, <1>3, <1>6, <2>2, ArmHeeds
  <1> HIDE DEF u
  <1>8. u.card[g] \in CardRec /\ Sound(u)
    BY <1>7, HeedsSound, Parts DEF Sound
  <1>9. d \in CardRec /\ d.active = u.card[g].active /\ d.no = u.card[g].no /\ d.ask = NoAsk
    BY <1>8 DEF CardRec, NoAsk, AskRec
  <1> HIDE DEF d
  <1>10. /\ Guards(u, v) /\ v.sess = u.sess /\ v.ledger = u.ledger
    BY <1>8, <1>9, CardGuards DEF CardGun
  <1> HIDE DEF v
  <1>11. Heeds(v, w) /\ ReaderFree(w)
    <2>1. Sound(v)
      BY <1>10 DEF Guards
    <2>2. w.reader.phase = "idle"
      BY <2>1, ResetReaderFact DEF Sound
    <2> QED
      BY <2>1, <2>2, ReconcileHeeds, NoWaitFree
  <1>12. w.sess = v.sess /\ w.ledger = v.ledger
    BY <1>10 DEF ResetCardReaderState, Guards, Sound, Data
  <1> HIDE DEF w
  <1>13. Guards(s, w)
    BY <1>6, <1>7, <1>10, <1>11, GuardsTrans DEF Heeds
  <1>14. Heeds(s, w)
    BY <1>11, <1>13 DEF Heeds
  <1>15. MayTake(w, g, "AUTH_OK")
    BY <1>7, <1>10, <1>12 DEF MayTake, Unbooked
  <1>16. Heeds(w, HandleEvent(w, g, "AUTH_OK"))
    BY <1>14, <1>15, HeedsSound, EventHeeds
  <1>17. Heeds(s, HandleEvent(w, g, "AUTH_OK"))
    BY <1>14, <1>16, HeedsTrans
  <1> QED
    BY <1>5, <1>17

-----------------------------------------------------------------------------
(* The guns of a pair draw power together.                                 *)

Together(s, h) == s.sess[h].merge /\ s.gun[h].state \in Drawing

Locked(s) ==
    InStep => \A h \in Guns : Together(s, h) => HasPeer(h) /\ Together(s, Peer(h))

\* A paired step keeps them together: what leaves service without its peer is no pair's,
\* and what it takes into its settlement with its peer was drawing power with it.
LEMMA PairedLocked ==
    ASSUME NEW s, NEW t, Paired(s, t),
           Heeds(s, t) \/ \E g \in Guns : Settled(s, t, g),
           Locked(s)
    PROVE  Locked(t) /\ Steady(s, t)
  <1>0. Steady(s, t)
    <2> SUFFICES ASSUME InStep, NEW h \in Guns,
                        t.gun[h].state \in {"CHARGING", "STOPPING"},
                        s.gun[h].state \notin Served
                 PROVE  FALSE
      BY DEF Steady
    <2>1. t.gun[h].state = "STOPPING" /\ s.gun[h].state # "STOPPING"
      BY DEF Paired, Drawing, Served
    <2>2. MergedPair(s, h) /\ s.gun[Peer(h)].state \in Drawing
      BY <2>1 DEF Paired, DrewPower, Drawing, Served
    <2>3. HasPeer(h) /\ Peer(Peer(h)) = h /\ Peer(h) \in Guns
      BY <2>2, PeerPeer DEF MergedPair
    <2>4. Together(s, Peer(h))
      BY <2>2 DEF MergedPair, Together
    <2>5. Together(s, h)
      BY <2>3, <2>4 DEF Locked
    <2> QED
      BY <2>5 DEF Together, Drawing, Served
  <1> SUFFICES ASSUME InStep, NEW h \in Guns, Together(t, h)
               PROVE  HasPeer(h) /\ Together(t, Peer(h))
    BY <1>0 DEF Locked
  <1> DEFINE p == Peer(h)
  <1>1. Together(s, h)
    BY DEF Together, Paired
  <1>2. HasPeer(h) /\ Together(s, p)
    BY <1>1 DEF Locked
  <1>3. Peer(p) = h /\ p \in Guns
    BY <1>2, PeerPeer
  <1> HIDE DEF p
  <1>4. Spares(s, t, p)
    <2>1. CASE Heeds(s, t)
      BY <1>3, <2>1 DEF Heeds, Guards
    <2>2. ASSUME NEW g \in Guns, Settled(s, t, g)
          PROVE  Spares(s, t, p)
      BY <1>2, <1>3, <2>2 DEF Settled, Together, Drawing
    <2> QED
      BY <2>1, <2>2
  <1>5. t.gun[p].state \in Served
    BY <1>2, <1>4 DEF Spares, Together, Drawing, Served
  <1>6. t.gun[p].state # "STOPPING"
    <2> SUFFICES ASSUME t.gun[p].state = "STOPPING" PROVE FALSE
      OBVIOUS
    <2>1. MergedPair(s, p)
      BY <1>1, <1>2, <1>3 DEF MergedPair, HasPeer, Together
    <2>2. s.gun[p].state # "STOPPING"
      BY <1>2 DEF Together, Drawing
    <2>3. t.gun[h].state \notin Drawing
      BY <1>3, <2>1, <2>2 DEF Paired
    <2> QED
      BY <2>3 DEF Together
  <1>7. t.gun[p].state \in Drawing
    BY <1>5, <1>6 DEF Served, Drawing
  <1>8. t.sess[p].merge
    BY <1>2, <1>3, <1>7 DEF Paired, Together
  <1> QED
    BY <1>2, <1>7, <1>8 DEF Together, p

\* So does a step on a gun that draws no power, before or after it with a peer.
LEMMA LoneLocked ==
    ASSUME NEW s, NEW t, NEW g \in Guns,
           \A h \in Guns \ {g} : /\ t.gun[h].state = s.gun[h].state
                                 /\ t.sess[h].merge = s.sess[h].merge,
           ~Together(s, g), ~Together(t, g), Locked(s)
    PROVE  Locked(t)
  <1> SUFFICES ASSUME InStep, NEW h \in Guns, Together(t, h)
               PROVE  HasPeer(h) /\ Together(t, Peer(h))
    BY DEF Locked
  <1>1. Together(s, h) /\ h # g
    BY DEF Together
  <1>2. HasPeer(h) /\ Together(s, Peer(h))
    BY <1>1 DEF Locked
  <1>3. Peer(h) \in Guns \ {g}
    BY <1>2 DEF HasPeer
  <1> QED
    BY <1>2, <1>3 DEF Together

\* So does a step that moves and merges no gun.
LEMMA CalmLocked ==
    ASSUME NEW s, NEW t, Locked(s),
           \A h \in Guns : /\ t.gun[h].state = s.gun[h].state
                           /\ t.sess[h].merge = s.sess[h].merge
    PROVE  Locked(t) /\ Steady(s, t)
  BY SteadyRefl DEF Locked, Together, HasPeer

\* A start of one gun alone keeps the pairs together.
LEMMA LoneStartLocked ==
    ASSUME NEW s, Sound(s), NEW g \in Guns, s.gun[g].state = "PREPARE",
           NEW c \in StartData, s.sess[g].issued < MaxOrder, Locked(s)
    PROVE  LET t == ArmPendingStart(s, g, c)
           IN  /\ Locked(t) /\ Steady(s, t)
               /\ ~c.merge => /\ Locked(HandleEvent(t, g, "AUTH_OK"))
                              /\ Steady(s, HandleEvent(t, g, "AUTH_OK"))
  <1> DEFINE t == ArmPendingStart(s, g, c)
             u == HandleEvent(t, g, "AUTH_OK")
  <1>1. /\ Sound(t)
        /\ \A h \in Guns \ {g} : Same(s, t, h)
        /\ t.gun[g].state = s.gun[g].state
        /\ t.sess[g].merge = c.merge
    BY ArmSame
  <1> HIDE DEF t
  <1>2. ~Together(s, g) /\ ~Together(t, g)
    BY <1>1 DEF Together, Drawing
  <1>3. Locked(t) /\ Steady(s, t)
    BY <1>1, <1>2, LoneLocked, SteadyRefl DEF Same
  <1>4. /\ u.gun[g].state = "STARTING"
        /\ \A h \in Guns \ {g} : u.gun[h].state = t.gun[h].state
        /\ SameMerges(t, u)
    BY <1>1, AuthStarts
  <1> HIDE DEF u
  <1>5. ~c.merge => ~Together(u, g)
    BY <1>1, <1>4 DEF Together, SameMerges
  <1>6. ~c.merge => Locked(u)
    BY <1>2, <1>3, <1>4, <1>5, LoneLocked DEF SameMerges
  <1>7. Steady(s, u)
    BY <1>1, <1>4 DEF Steady, Same, Served
  <1> QED
    BY <1>3, <1>6, <1>7 DEF t, u

\* The second of two merged starts takes both guns of the pair to STARTING.
LEMMA TryDispatchLocked ==
    ASSUME NEW s, Sound(s), NEW g \in Guns, s.gun[g].state = "PREPARE", Locked(s)
    PROVE  /\ Locked(TryDispatchMergePendingStart(s, g))
           /\ Steady(s, TryDispatchMergePendingStart(s, g))
  <1> DEFINE p == Peer(g)
             t == SyncMergePrechargeAmount(s, g)
             u == SyncMergePrechargeAmount(t, p)
             v == HandleEvent(u, g, "AUTH_OK")
             w == HandleEvent(v, p, "AUTH_OK")
             r == TryDispatchMergePendingStart(s, g)
  <1>1. \/ r = s
        \/ /\ HasPeer(g) /\ r = w /\ s.gun[p].state = "PREPARE"
           /\ s.sess[g].merge /\ s.sess[p].merge
    BY DEF TryDispatchMergePendingStart, DispatchArmedStart, IsMergeReady
  <1> SUFFICES ASSUME HasPeer(g), s.gun[p].state = "PREPARE",
                      s.sess[g].merge, s.sess[p].merge
               PROVE  Locked(w) /\ Steady(s, w)
    BY <1>1, SteadyRefl DEF r
  <1>2. Peer(p) = g /\ p \in Guns /\ p # g /\ Peer(g) = p
    BY PeerPeer
  <1>3. Sound(t) /\ \A h \in Guns : Same(s, t, h)
    BY SyncSame
  <1> HIDE DEF t, p
  <1>4. Sound(u) /\ \A h \in Guns : Same(t, u, h)
    BY <1>2, <1>3, SyncSame
  <1> HIDE DEF u
  <1>5. u.gun[g].state = "PREPARE" /\ u.gun[p].state = "PREPARE"
    BY <1>2, <1>3, <1>4 DEF Same
  <1>6. /\ Sound(v)
        /\ v.gun[g].state = "STARTING"
        /\ \A h \in Guns \ {g} : v.gun[h].state = u.gun[h].state
        /\ SameMerges(u, v)
    BY <1>4, <1>5, AuthStarts
  <1> HIDE DEF v
  <1>7. /\ w.gun[p].state = "STARTING"
        /\ \A h \in Guns \ {p} : w.gun[h].state = v.gun[h].state
        /\ SameMerges(v, w)
    BY <1>2, <1>5, <1>6, AuthStarts
  <1> HIDE DEF w
  <1>8. \A h \in Guns : w.sess[h].merge = s.sess[h].merge
    BY <1>3, <1>4, <1>6, <1>7 DEF Same, SameMerges
  <1>9. w.gun[g].state = "STARTING" /\ w.gun[p].state = "STARTING"
    BY <1>2, <1>6, <1>7
  <1>10. \A h \in Guns \ {g, p} : w.gun[h].state = s.gun[h].state
    BY <1>3, <1>4, <1>6, <1>7 DEF Same
  <1>11. Together(w, g) /\ Together(w, p) /\ Steady(s, w)
    BY <1>2, <1>8, <1>9, <1>10 DEF Together, Drawing, Steady, Served
  <1> SUFFICES ASSUME InStep, NEW h \in Guns, Together(w, h)
               PROVE  HasPeer(h) /\ Together(w, Peer(h))
    BY <1>11 DEF Locked
  <1>12. CASE h \in {g, p}
    BY <1>2, <1>11, <1>12 DEF HasPeer
  <1>13. CASE h \notin {g, p}
    <2>1. Together(s, h)
      BY <1>8, <1>10, <1>13 DEF Together
    <2>2. HasPeer(h) /\ Together(s, Peer(h))
      BY <2>1 DEF Locked
    <2>3. Peer(h) \in Guns /\ Peer(h) \notin {g, p}
      BY <1>2, <2>2 DEF HasPeer, Together, Drawing
    <2> QED
      BY <1>8, <1>10, <2>2, <2>3 DEF Together
  <1> QED
    BY <1>12, <1>13

\* A card start, which no request merges, starts its gun alone.
LEMMA BeginCardLocked ==
    ASSUME NEW s, Sound(s), GunsHeld(s), NEW g \in Guns, s.sess[g].issued < MaxOrder,
           Asked \/ s.gun[g].state = "PREPARE", Locked(s)
    PROVE  Locked(BeginOfflineCardCharge(s, g)) /\ Steady(s, BeginOfflineCardCharge(s, g))
  <1> SUFFICES ASSUME InStep
               PROVE  /\ Locked(BeginOfflineCardCharge(s, g))
                      /\ Steady(s, BeginOfflineCardCharge(s, g))
    BY DEF Locked, Steady
  <1> DEFINE data == [merge |-> s.card[g].ask.merge, precharge |-> 0,
                      model |-> \/ CardFeeFallback
                                \/ s.card[g].ask.model
                                \/ s.meter[g].ready]
             c == [s.card[g] EXCEPT !.active = TRUE, !.swiped = FALSE]
             t == [s EXCEPT !.card[g] = c]
             u == ArmPendingStart(t, g, data)
             d == [u.card[g] EXCEPT !.ask = NoAsk]
             v == [u EXCEPT !.card[g] = d]
             w == ResetCardReaderState(v)
             x == HandleEvent(w, g, "AUTH_OK")
  <1>1. ~Asked
    BY DEF InStep, Asked
  <1>2. s \in Data /\ s.card[g] \in CardRec /\ s.meter[g] \in MeterRec
    BY Parts DEF Sound
  <1>3. data \in StartData /\ ~data.merge
    <2>1. s.card[g].ask = NoAsk
      BY <1>1 DEF GunsHeld, GunHeld, CardGun
    <2>2. s.card[g].ask.merge = FALSE /\ s.card[g].ask.model \in BOOLEAN
      BY <2>1 DEF NoAsk
    <2>3. 0 \in Readings
      BY BoundAssumption DEF Readings
    <2> QED
      BY <1>2, <2>2, <2>3, SwitchAssumption DEF StartData, MeterRec
  <1>4. c \in CardRec
    BY <1>2 DEF CardRec
  <1>5. BeginOfflineCardCharge(s, g) = x
    BY DEF BeginOfflineCardCharge, DispatchArmedStart
  <1> HIDE DEF c, data
  <1>6. Sound(t) /\ t.sess = s.sess /\ t.gun = s.gun
    BY <1>2, <1>4, CardKeeps DEF Keeps, Data
  <1> HIDE DEF t
  <1>7. Locked(t)
    BY <1>6, CalmLocked
  <1>8. /\ Sound(u) /\ Locked(u) /\ u.gun[g].state = "PREPARE" /\ ~u.sess[g].merge
        /\ \A h \in Guns \ {g} : u.gun[h].state = t.gun[h].state
    BY <1>1, <1>3, <1>6, <1>7, LoneStartLocked, ArmSame DEF Same
  <1> HIDE DEF u
  <1>9. u \in Data /\ u.card[g] \in CardRec
    BY <1>8, Parts DEF Sound
  <1>10. d \in CardRec
    BY <1>9 DEF CardRec, NoAsk, AskRec
  <1> HIDE DEF d
  <1>11. Sound(v) /\ v.sess = u.sess /\ v.gun = u.gun
    BY <1>8, <1>9, <1>10, CardKeeps DEF Keeps, Data
  <1> HIDE DEF v
  <1>12. Sound(w) /\ w.sess = v.sess /\ w.gun = v.gun
    BY <1>11, ResetReaderKeeps DEF Keeps, ResetCardReaderState, Sound, Data
  <1> HIDE DEF w
  <1>13. Locked(w)
    BY <1>8, <1>11, <1>12, CalmLocked
  <1>14. /\ x.gun[g].state = "STARTING"
         /\ \A h \in Guns \ {g} : x.gun[h].state = w.gun[h].state
         /\ SameMerges(w, x)
    BY <1>8, <1>11, <1>12, AuthStarts
  <1> HIDE DEF x
  <1>15. ~Together(w, g) /\ ~Together(x, g)
    BY <1>8, <1>11, <1>12, <1>14 DEF Together, SameMerges
  <1>16. Locked(x)
    BY <1>13, <1>14, <1>15, LoneLocked DEF SameMerges
  <1>17. Steady(s, x)
    BY <1>6, <1>8, <1>11, <1>12, <1>14 DEF Steady, Served
  <1> QED
    BY <1>5, <1>16, <1>17

-----------------------------------------------------------------------------
(* The actions.                                                            *)

CanHold ==
    \E t : /\ Become(t)
           /\ Locked(Now) => Locked(t) /\ Steady(Now, t)
           /\ Heeds(Now, t) \/ \E g \in Guns : Settled(Now, t, g)

\* A paired step that heeds holds.
LEMMA HoldsBy ==
    ASSUME NEW t, Become(t), Paired(Now, t), Heeds(Now, t)
    PROVE  CanHold
  BY PairedLocked DEF CanHold

\* The starts of the HMI and of the platform.
LEMMA StartsHold ==
    ASSUME Sound(Now), GunsHeld(Now), NEW g \in Guns, HmiStart(g) \/ PlatformStart(g)
    PROVE  CanHold
  <1> DEFINE s == Now
  <1>1. PICK c \in StartCmds :
           LET armed == ArmPendingStart(s, g, c)
           IN  \/ Become(HandleEvent(armed, g, "AUTH_OK")) /\ (InStep => ~c.merge)
               \/ /\ Become(TryDispatchMergePendingStart(armed, g))
                  /\ c.merge /\ HasPeer(g)
    BY DEF HmiStart, PlatformStart, DispatchArmedStart, InStep
  <1>2. c \in StartData
    BY InputAssumption
  <1>3. /\ Sound(s) /\ s.sess[g].issued < MaxOrder /\ s.gun[g].state = "PREPARE"
        /\ GunsHeld(s)
    BY NowFact DEF HmiStart, PlatformStart, CanOpenOrder
  <1> HIDE DEF s
  <1> DEFINE armed == ArmPendingStart(s, g, c)
             x == HandleEvent(armed, g, "AUTH_OK")
             y == TryDispatchMergePendingStart(armed, g)
  <1>4. \/ Become(x) /\ (InStep => ~c.merge)
        \/ Become(y)
    BY <1>1
  <1>5. Alone => GunCount = 1 \/ ~c.merge
    BY DEF Alone
  <1>6. Heeds(s, armed) /\ Unbooked(armed, g)
    BY <1>2, <1>3, <1>5, ArmHeeds
  <1>7. /\ Locked(s) => Locked(armed)
        /\ ~c.merge /\ Locked(s) => Locked(x) /\ Steady(s, x)
    BY <1>2, <1>3, LoneStartLocked
  <1>8. armed.gun[g].state = "PREPARE" /\ \A h \in Guns : armed.gun[h].state = s.gun[h].state
    BY <1>2, <1>3, ArmSame DEF Same
  <1> HIDE DEF armed
  <1>9. Sound(armed) /\ GunsHeld(armed)
    BY <1>3, <1>6, <1>8, HeedsSound, SteadyRefl DEF Heeds, Guards
  <1>10. Heeds(armed, x)
    BY <1>6, <1>9, EventHeeds DEF MayTake
  <1>11. Heeds(armed, y) /\ (Locked(armed) => Locked(y) /\ Steady(armed, y))
    BY <1>8, <1>9, TryDispatchHeeds, TryDispatchLocked
  <1> HIDE DEF x, y
  <1>12. Heeds(s, x) /\ Heeds(s, y)
    BY <1>6, <1>10, <1>11, HeedsTrans
  <1>13. Locked(s) => Locked(y) /\ Steady(s, y)
    BY <1>7, <1>8, <1>11 DEF Steady
  <1>14. (InStep => ~c.merge) /\ Locked(s) => Locked(x) /\ Steady(s, x)
    BY <1>7 DEF Locked, Steady
  <1> QED
    BY <1>4, <1>12, <1>13, <1>14 DEF CanHold, s

\* The handlers that only pass an event to the state machine, and the main loop.
LEMMA EventsHold ==
    ASSUME Sound(Now), NEW g \in Guns,
           \/ AuthResult(g) \/ StopCharge(g) \/ ResetError(g)
           \/ DeviceErrOn(g) \/ DeviceErrOff(g) \/ Poll(g)
    PROVE  CanHold
  <1> DEFINE s == Now
             ev(e) == HandleEvent(s, g, e)
  <1>1. CASE AuthResult(g)
    <2>1. PICK e \in {"AUTH_OK", "AUTH_FAIL"} : "auth_result" \in Inputs /\ Become(ev(e))
      BY <1>1 DEF AuthResult
    <2>2. ~Alone /\ ~InStep
      BY <2>1 DEF Alone, InStep
    <2>3. MayTake(s, g, e)
      BY <2>1, <2>2 DEF MayTake, Unbooked, Orderly
    <2>4. Heeds(s, ev(e)) /\ Locked(ev(e)) /\ Steady(s, ev(e))
      BY <2>2, <2>3, EventHeeds DEF Locked, Steady
    <2> QED
      BY <2>1, <2>4 DEF CanHold
  <1>2. CASE ResetError(g) \/ DeviceErrOff(g)
    <2>1. Become(ev("RESET_ERROR")) /\ ~InStep
      BY <1>2 DEF ResetError, DeviceErrOff, InStep
    <2>2. MayTake(s, g, "RESET_ERROR")
      BY <2>1 DEF MayTake
    <2>3. /\ Heeds(s, ev("RESET_ERROR"))
          /\ Locked(ev("RESET_ERROR")) /\ Steady(s, ev("RESET_ERROR"))
      BY <2>1, <2>2, EventHeeds DEF Locked, Steady
    <2> QED
      BY <2>1, <2>3 DEF CanHold
  <1>3. CASE StopCharge(g) \/ DeviceErrOn(g)
    <2>1. PICK e \in {"STOP_CMD", "DEVICE_ERR"} : Become(ev(e))
      BY <1>3 DEF StopCharge, DeviceErrOn
    <2>2. Paired(s, ev(e)) /\ Heeds(s, ev(e))
      BY EventPaired, PlainHeeds DEF Plain
    <2> QED
      BY <2>1, <2>2, HoldsBy
  <1>4. CASE Poll(g)
    <2>1. PICK due \in Expired(s, g) : Become(PollGun(s, g, due))
      BY <1>4 DEF Poll
    <2> DEFINE t == PollGun(s, g, due)
    <2>2. Paired(s, t) /\ (Heeds(s, t) \/ Settled(s, t, g))
      BY PollGunPaired, PollGunHeeds
    <2> HIDE DEF t
    <2>3. Locked(s) => Locked(t) /\ Steady(s, t)
      BY <2>2, PairedLocked
    <2> QED
      BY <2>1, <2>2, <2>3 DEF CanHold, t
  <1> QED
    BY <1>1, <1>2, <1>3, <1>4

\* start_complete.
LEMMA StartCompleteHolds ==
    ASSUME Sound(Now), NEW g \in Guns, StartComplete(g)
    PROVE  CanHold
  <1> DEFINE s == Now
             ok == HandleEvent(s, g, "START_COMPLETE_OK")
             fail == HandleEvent([s EXCEPT !.sess[g].reason = "fault"], g,
                                 "START_COMPLETE_FAIL")
             yes == TRUE
             no == FALSE
             x == [ok EXCEPT !.gun[g].startOk = yes]
             y == [fail EXCEPT !.gun[g].startOk = no]
  <1>1. Become(x) \/ Become(y)
    BY DEF StartComplete
  <1>2. Sound(s) /\ yes \in BOOLEAN /\ no \in BOOLEAN
    OBVIOUS
  <1>3. Plain("START_COMPLETE_OK") /\ Plain("START_COMPLETE_FAIL")
    BY DEF Plain
  <1> HIDE DEF s, yes, no
  <1>4. Heeds(s, ok) /\ Heeds(s, fail) /\ Paired(s, ok) /\ Paired(s, fail)
    BY <1>2, <1>3, PlainHeeds, ReasonEventHeeds, EventPaired, PairedReasonEvent
  <1> HIDE DEF ok, fail
  <1>5. Heeds(ok, x) /\ Heeds(fail, y) /\ Paired(ok, x) /\ Paired(fail, y)
    <2>1. Sound(ok) /\ Sound(fail)
      BY <1>4, HeedsSound
    <2> QED
      BY <1>2, <2>1, FlagsHeed, StartOkPaired
  <1> HIDE DEF x, y
  <1>6. Heeds(s, x) /\ Heeds(s, y) /\ Paired(s, x) /\ Paired(s, y)
    BY <1>4, <1>5, HeedsTrans, PairedTrans
  <1> QED
    BY <1>1, <1>6, HoldsBy DEF s

\* stop_complete.
LEMMA StopCompleteHolds ==
    ASSUME Sound(Now), NEW g \in Guns, StopComplete(g)
    PROVE  CanHold
  <1> DEFINE s == Now
  <1>1. PICK end \in EndReasons :
           Become(HandleEvent(
               [s EXCEPT !.sess[g].reason = IF s.gun[g].startOk /\ end # "none"
                                            THEN end ELSE s.sess[g].reason],
               g, "STOP_COMPLETE"))
    BY NowFact DEF StopComplete
  <1>2. Sound(s)
    OBVIOUS
  <1> HIDE DEF s
  <1> DEFINE b == IF s.gun[g].startOk /\ end # "none" THEN end ELSE s.sess[g].reason
             u == [s EXCEPT !.sess[g].reason = b]
             t == HandleEvent(u, g, "STOP_COMPLETE")
  <1>3. b \in Reasons
    BY <1>2, SessNumbers, InputAssumption DEF SessRec
  <1>4. Become(t) /\ Plain("STOP_COMPLETE")
    BY <1>1 DEF Plain
  <1> HIDE DEF b
  <1>5. Heeds(s, u) /\ Paired(s, u)
    BY <1>2, <1>3, NoteHeeds, NotesPaired
  <1> HIDE DEF u
  <1>6. Heeds(s, t) /\ Paired(s, t)
    BY <1>4, <1>5, HeedsThenEvent, PairedThenEvent
  <1> HIDE DEF t
  <1> QED
    BY <1>4, <1>6, HoldsBy DEF s

\* The six link reports.
LEMMA LinkStepsHold ==
    ASSUME Sound(Now), NEW g \in Guns,
           \/ PileOnline(g) \/ PileOffline(g) \/ MeterOnline(g) \/ MeterOffline(g)
           \/ PlatformOnline(g) \/ PlatformOffline(g)
    PROVE  CanHold
  <1> DEFINE x(l) == NoteOnline(Now, g, l)
             y(l) == NoteOffline(Now, g, l)
             z(l) == [Now EXCEPT !.link[g][l] = Cleared]
  <1>1. \A l \in Links : /\ Heeds(Now, x(l)) /\ Paired(Now, x(l))
                         /\ Heeds(Now, y(l)) /\ Paired(Now, y(l))
                         /\ Heeds(Now, z(l)) /\ Paired(Now, z(l))
    BY LinkReportsHeed, LinkReportsPaired
  <1>2. \E l \in Links : Become(x(l)) \/ Become(y(l)) \/ Become(z(l))
    BY LinkNames DEF PileOnline, PileOffline, MeterOnline, MeterOffline,
                     PlatformOnline, PlatformOffline
  <1> HIDE DEF x, y, z
  <1> QED
    BY <1>1, <1>2, HoldsBy

\* A request to wait for a card, and a meter packet.
LEMMA OtherStepsHold ==
    ASSUME Good(Now), NEW g \in Guns, RequestCardStart(g) \/ MeterData(g)
    PROVE  CanHold
  <1> DEFINE s == Now
  <1>1. Good(s) /\ Sound(s) /\ s \in Data
    BY GoodOthers
  <1>2. CASE RequestCardStart(g)
    <2>1. Asked /\ \E ask \in AskRec : Become(StartOfflineCardFlow(s, g, FALSE, ask))
      BY <1>2 DEF RequestCardStart, Asked
    <2>2. PICK ask \in AskRec : Become(StartOfflineCardFlow(s, g, FALSE, ask))
      BY <2>1
    <2> HIDE DEF s
    <2> DEFINE t == StartOfflineCardFlow(s, g, FALSE, ask)
    <2>3. Sound(t)
      BY <1>1, StartFlowGood DEF Good
    <2>4. Guards(s, t)
      BY <1>1, <2>1, <2>3, StartFlowGuards
    <2> HIDE DEF t
    <2>5. Heeds(s, t) /\ Locked(t) /\ Steady(s, t)
      BY <2>1, <2>4 DEF Heeds, ReaderFree, Locked, Steady, InStep, Asked
    <2> QED
      BY <2>2, <2>5 DEF CanHold, s, t
  <1>3. CASE MeterData(g)
    <2>1. PICK kwh \in Readings, volt \in Voltages : Become(HandleMeterData(s, g, kwh, volt))
      BY <1>3 DEF MeterData
    <2>2. volt \in {"low", "normal"}
      BY InputAssumption
    <2> HIDE DEF s
    <2> DEFINE t == HandleMeterData(s, g, kwh, volt)
    <2>3. Heeds(s, t)
      BY <1>1, <2>2, MeterDataHeeds
    <2>4. t.gun = s.gun /\ t.sess = s.sess
      BY <1>1 DEF HandleMeterData, Data
    <2> HIDE DEF t
    <2>5. Locked(s) => Locked(t) /\ Steady(s, t)
      BY <2>4, CalmLocked
    <2> QED
      BY <2>1, <2>3, <2>5 DEF CanHold, s, t
  <1> QED
    BY <1>2, <1>3

\* The three reactions to a yx packet.
LEMMA YxPartsHeed ==
    ASSUME NEW s, Sound(s), NEW g \in Guns, NEW p
    PROVE  /\ Heeds(s, YxRecover(s, g, p))
           /\ Heeds(s, YxWork(s, g, p))
           /\ Heeds(s, YxConnect(s, g, p))
           /\ Heeds(s, YxFault(s, g, p))
  <1>1. /\ Plain("WORKSTATUS_ZERO") /\ Plain("TOTAL_FAULT")
        /\ Plain("VEHICLE_CONNECTED") /\ Plain("VEHICLE_DISCONNECTED")
    BY DEF Plain
  <1>2. Heeds(s, YxRecover(s, g, p))
    BY LinkNames, LinkReportsHeed DEF YxRecover
  <1>3. Heeds(s, YxWork(s, g, p)) /\ Heeds(s, YxFault(s, g, p))
    BY <1>1, PlainHeeds, SameHeeds DEF YxWork, YxFault
  <1>4. Heeds(s, YxConnect(s, g, p))
    BY <1>1, FlagsHeed, PlainHeeds, SameHeeds DEF YxConnect
  <1> QED
    BY <1>2, <1>3, <1>4

\* A yx packet.
LEMMA YxHolds ==
    ASSUME Sound(Now), NEW g \in Guns, Yx(g)
    PROVE  CanHold
  <1> DEFINE s == Now
             r(p) == [s.gun[g] EXCEPT !.yxSeen = TRUE, !.conn = p.conn]
             seen(p) == [s EXCEPT !.gun[g] = r(p)]
             a(p) == YxRecover(seen(p), g, p)
             b(p) == YxWork(a(p), g, p)
             c(p) == YxConnect(b(p), g, p)
             d(p) == YxFault(c(p), g, p)
  <1>1. PICK p \in YxPackets : Become(d(p))
    BY DEF Yx
  <1>2. Sound(s) /\ p \in YxPacket /\ s \in Data
    BY InputAssumption DEF Sound
  <1> HIDE DEF s
  <1>3. r(p) \in GunRec /\ r(p).state = s.gun[g].state
    BY <1>2, Parts DEF GunRec, YxPacket
  <1> HIDE DEF r
  <1>4. Heeds(s, seen(p)) /\ Paired(s, seen(p))
    BY <1>2, <1>3, FlagHeeds, FlagPaired
  <1> HIDE DEF seen
  <1>5. Heeds(seen(p), a(p)) /\ Paired(seen(p), a(p))
    BY <1>4, YxPartsHeed, YxPartsPaired, HeedsSound
  <1> HIDE DEF a
  <1>6. Heeds(a(p), b(p)) /\ Paired(a(p), b(p))
    BY <1>5, YxPartsHeed, YxPartsPaired, HeedsSound
  <1> HIDE DEF b
  <1>7. Heeds(b(p), c(p)) /\ Paired(b(p), c(p))
    BY <1>6, YxPartsHeed, YxPartsPaired, HeedsSound
  <1> HIDE DEF c
  <1>8. Heeds(c(p), d(p)) /\ Paired(c(p), d(p))
    BY <1>7, YxPartsHeed, YxPartsPaired, HeedsSound
  <1> HIDE DEF d
  <1>9. Heeds(s, b(p)) /\ Paired(s, b(p))
    BY <1>4, <1>5, <1>6, HeedsTrans, PairedTrans
  <1>10. Heeds(s, d(p)) /\ Paired(s, d(p))
    BY <1>7, <1>8, <1>9, HeedsTrans, PairedTrans
  <1> QED
    BY <1>1, <1>10, HoldsBy DEF s

\* The reader's reports and its reconciliation.
LEMMA ReaderHolds ==
    ASSUME Good(Now), RfOpened \/ RfClosed \/ CardOpFailed \/ PollReader
    PROVE  CanHold
  <1> DEFINE s == Now
             x(b) == [s EXCEPT !.reader.rf = b]
             yes == TRUE
             no == FALSE
             keep == s.reader.rf /\ reader.phase # "wait_auto_rf_close"
  <1>1. \/ Become(x(yes))
        \/ Become(x(no))
        \/ Become(ResetCardReaderState(x(no)))
        \/ Become(ResetCardReaderState(x(keep)))
        \/ Become(ReconcileAutoCardWaiting(s))
    BY NowFact DEF RfOpened, RfClosed, CardOpFailed, PollReader
  <1>2. /\ Good(s) /\ Sound(s) /\ s \in Data
        /\ yes \in BOOLEAN /\ no \in BOOLEAN /\ keep \in BOOLEAN
    <2>1. yes \in BOOLEAN /\ no \in BOOLEAN /\ keep \in BOOLEAN
      OBVIOUS
    <2> QED
      BY <2>1 DEF Good, Sound
  <1> HIDE DEF s, yes, no, keep
  <1>3. ASSUME NEW b \in BOOLEAN
        PROVE  /\ Heeds(s, x(b)) /\ Heeds(s, ResetCardReaderState(x(b)))
               /\ x(b).gun = s.gun /\ x(b).sess = s.sess
               /\ ResetCardReaderState(x(b)).gun = s.gun
               /\ ResetCardReaderState(x(b)).sess = s.sess
    <2>1. Sound(x(b))
      BY <1>2, RfFact DEF Good
    <2>2. /\ x(b).reader.phase = s.reader.phase /\ x(b).reader.gun = s.reader.gun
          /\ x(b).gun = s.gun /\ x(b).sess = s.sess /\ x(b).meter = s.meter
          /\ x(b).card = s.card /\ x(b).ledger = s.ledger /\ x(b).link = s.link
      BY <1>2 DEF Data, ReaderRec
    <2> HIDE DEF x
    <2>3. \A h \in Guns : Same(s, x(b), h)
      BY <2>2 DEF Same
    <2>4. Heeds(s, x(b))
      BY <1>2, <2>1, <2>2, <2>3, AllGuards DEF Heeds, ReaderFree
    <2>5. Heeds(x(b), ResetCardReaderState(x(b)))
      BY <2>1, ReconcileHeeds
    <2>6. /\ ResetCardReaderState(x(b)).gun = x(b).gun
          /\ ResetCardReaderState(x(b)).sess = x(b).sess
      BY <2>1 DEF ResetCardReaderState, Sound, Data
    <2> QED
      BY <2>2, <2>4, <2>5, <2>6, HeedsTrans
  <1>4. /\ Heeds(s, ReconcileAutoCardWaiting(s))
        /\ ReconcileAutoCardWaiting(s).gun = s.gun
        /\ ReconcileAutoCardWaiting(s).sess = s.sess
    BY <1>2, ReconcileHeeds, ReconcileFact, ReaderSess
  <1> HIDE DEF x
  <1>5. \E t : Become(t) /\ Heeds(s, t) /\ t.gun = s.gun /\ t.sess = s.sess
    BY <1>1, <1>2, <1>3, <1>4
  <1>6. \E t : Become(t) /\ Heeds(s, t) /\ (Locked(s) => Locked(t) /\ Steady(s, t))
    BY <1>5, CalmLocked
  <1> QED
    BY <1>6 DEF CanHold, s

\* A card presented to start: the reader waits for a gun in PREPARE that has no card,
\* unless the HMI asked for one.
LEMMA SwipeStartHolds ==
    ASSUME Good(Now), WaitsAuto(Now), GunsHeld(Now), ReaderFree(Now),
           reader.phase = "wait_start_card", NEW c \in Cards, SwipeToStart(c)
    PROVE  CanHold
  <1> DEFINE s == Now
             g == s.reader.gun
             d == [s.card[g] EXCEPT !.no = c]
             t == [s EXCEPT !.card[g] = d]
             u == BeginOfflineCardCharge(t, g)
  <1>1. t = [s EXCEPT !.card[g].no = c]
    OBVIOUS
  <1>2. /\ Sound(s) /\ GunsHeld(s)
        /\ \/ Become(t)
           \/ s.sess[g].issued < MaxOrder /\ c \in Whitelist /\ Become(u)
    BY <1>1, NowFact DEF SwipeToStart, CanOpenOrder, Good
  <1>3. Asked \/ (s.gun[g].state = "PREPARE" /\ ~s.card[g].active)
    <2>1. g \in Guns /\ s.reader = reader /\ s.gun = gun
      BY <1>2, NowFact DEF Sound, Data, ReaderRec
    <2>2. Asked \/ s.gun[g].state = "PREPARE"
      BY <2>1 DEF Good, AutoSole, WaitsAuto, IsAutoWaiting, IsSolePrepare, Asked
    <2> QED
      BY <2>1, <2>2 DEF ReaderFree
  <1> HIDE DEF s
  <1>4. s \in Data /\ g \in Guns
    BY <1>2 DEF Sound, Data, ReaderRec
  <1> HIDE DEF g
  <1>5. d \in CardRec /\ d.active = s.card[g].active /\ d.no = c /\ d.ask = s.card[g].ask
    BY <1>4, Parts DEF CardRec
  <1> HIDE DEF d
  <1>6. /\ Guards(s, t)
        /\ t.reader = s.reader /\ t.sess = s.sess /\ t.gun = s.gun
        /\ t.card[g] = d
        /\ \A h \in Guns \ {g} : t.card[h] = s.card[h]
    BY <1>2, <1>3, <1>4, <1>5, CardGuards DEF CardGun
  <1> HIDE DEF t
  <1>7. Heeds(s, t) /\ GunsHeld(t) /\ Sound(t)
    <2>1. \A h \in Guns : t.card[h].active => s.card[h].active
      BY <1>5, <1>6
    <2> QED
      BY <1>2, <1>6, <2>1, SteadyRefl, StaysFree DEF Heeds, Guards
  <1>8. Locked(s) => Locked(t) /\ Steady(s, t)
    BY <1>6, CalmLocked
  <1>9. s.sess[g].issued < MaxOrder /\ c \in Whitelist =>
          Heeds(t, u) /\ (Locked(t) => Locked(u) /\ Steady(t, u))
    BY <1>3, <1>4, <1>5, <1>6, <1>7, BeginCardHeeds, BeginCardLocked
  <1> HIDE DEF u
  <1>10. s.sess[g].issued < MaxOrder /\ c \in Whitelist =>
           Heeds(s, u) /\ (Locked(s) => Locked(u) /\ Steady(s, u))
    BY <1>6, <1>7, <1>8, <1>9, HeedsTrans DEF Steady
  <1> QED
    BY <1>2, <1>7, <1>8, <1>10 DEF CanHold, s

\* A card presented to stop.
LEMMA SwipeStopHolds ==
    ASSUME Sound(Now), NEW c \in Cards, SwipeToStop(c)
    PROVE  CanHold
  <1>1. PICK g \in Guns :
           Become(HandleEvent([Now EXCEPT !.sess[g].reason = "normal",
                                          !.card[g].swiped = TRUE], g, "STOP_CMD"))
    BY DEF SwipeToStop
  <1> DEFINE s == Now
             yes == "normal"
             t == [s EXCEPT !.sess[g].reason = yes]
             d == [t.card[g] EXCEPT !.swiped = TRUE]
             u == [t EXCEPT !.card[g] = d]
             v == HandleEvent(u, g, "STOP_CMD")
  <1>2. Sound(s) /\ Become(v) /\ yes \in Reasons
    BY <1>1, NowFact DEF Now, Reasons
  <1> HIDE DEF s, yes
  <1>3. Heeds(s, t) /\ Paired(s, t)
    BY <1>2, NoteHeeds, NotesPaired
  <1> HIDE DEF t
  <1>4. t \in Data /\ Sound(t)
    BY <1>3, HeedsSound DEF Sound
  <1>5. /\ d \in CardRec /\ d.active = t.card[g].active /\ d.no = t.card[g].no
        /\ d.ask = t.card[g].ask
    <2>1. t.card[g] \in CardRec
      BY <1>4, Parts
    <2> QED
      BY <2>1 DEF CardRec
  <1> HIDE DEF d
  <1>6. /\ Guards(t, u)
        /\ u.reader = t.reader /\ u.sess = t.sess /\ u.gun = t.gun
        /\ u.card[g] = d
        /\ \A h \in Guns \ {g} : u.card[h] = t.card[h]
    BY <1>4, <1>5, CardGuards DEF CardGun
  <1> HIDE DEF u
  <1>7. Heeds(t, u)
    <2>1. \A h \in Guns : u.card[h].active => t.card[h].active
      BY <1>5, <1>6
    <2> QED
      BY <1>4, <1>6, <2>1, StaysFree DEF Heeds
  <1>8. Paired(t, u)
    BY <1>6, CalmPaired DEF Guards, SameMerges
  <1>9. Heeds(s, u) /\ Paired(s, u) /\ Plain("STOP_CMD")
    BY <1>3, <1>7, <1>8, HeedsTrans, PairedTrans DEF Plain
  <1>10. Heeds(s, v) /\ Paired(s, v)
    BY <1>9, HeedsThenEvent, PairedThenEvent
  <1> HIDE DEF v
  <1> QED
    BY <1>2, <1>10, HoldsBy DEF s

-----------------------------------------------------------------------------
(* The theorems.                                                           *)

\* What is needed to tell a step that books an order from one that books none: the
\* orders and the cards of the guns, a reader that waits for no second card, and pairs
\* that are together.
HeldInv ==
    /\ TidyInv
    /\ GunsHeld(Now)
    /\ ReaderFree(Now)
    /\ Locked(Now)

\* Every step of the process heeds, or records one gun's order.
LEMMA NextHolds ==
    ASSUME HeldInv, Next
    PROVE  CanHold
  <1>1. /\ Good(Now) /\ Sound(Now) /\ WaitsAuto(Now) /\ GunsHeld(Now) /\ ReaderFree(Now)
    BY DEF HeldInv, TidyInv, IInv, Good
  <1>2. ASSUME NEW g \in Guns, OnGun(g)
        PROVE  CanHold
    BY <1>1, <1>2, StartsHold, EventsHold, StartCompleteHolds, StopCompleteHolds,
       LinkStepsHold, OtherStepsHold, YxHolds DEF OnGun
  <1> QED
    BY <1>1, <1>2, ReaderHolds, SwipeStartHolds, SwipeStopHolds DEF Next, CardInfo

\* The invariant holds at the start.
LEMMA InitHeld == Init => HeldInv
  <1> SUFFICES ASSUME Init PROVE HeldInv
    OBVIOUS
  <1>1. TidyInv
    BY InitTidy
  <1>2. /\ \A h \in Guns : /\ gun[h].state = "IDLE" /\ ~card[h].active /\ card[h].ask = NoAsk
                           /\ ~sess[h].merge /\ ~sess[h].armed /\ sess[h].lastCmd = 0
                           /\ sess[h].order = 0 /\ sess[h].issued = 0
                           /\ \A o \in Orders : ledger[h][o].count = 0
        /\ reader.phase = "idle"
    BY DEF Init, InitialData
  <1>3. GunsHeld(Now)
    <2> SUFFICES ASSUME NEW h \in Guns PROVE GunHeld(Now, h)
      BY DEF GunsHeld
    <2> QED
      BY <1>2, NowFact DEF GunHeld, OrderGun, CardGun, OnceGun, Served
  <1>4. ReaderFree(Now)
    BY <1>2, NowFact DEF ReaderFree
  <1>5. Locked(Now)
    BY <1>2, NowFact DEF Locked, Together
  <1> QED
    BY <1>1, <1>3, <1>4, <1>5 DEF HeldInv

\* Every step keeps it.
LEMMA StepHeld ==
    ASSUME HeldInv, [Next]_vars
    PROVE  HeldInv'
  <1>1. TidyInv'
    BY StepTidy DEF HeldInv
  <1>2. CASE Next
    <2>1. PICK t : Become(t) /\ Locked(t) /\ GunsHeld(t) /\ ReaderFree(t)
      BY <1>2, NextHolds DEF HeldInv, CanHold, Heeds, Guards, Settled
    <2>2. GunsHeld(Now)'
      BY <2>1 DEF GunsHeld, GunHeld, OrderGun, CardGun, OnceGun, Unbooked, Become, Now
    <2>3. ReaderFree(Now)'
      BY <2>1 DEF ReaderFree, Become, Now
    <2>4. Locked(Now)'
      BY <2>1 DEF Locked, Together, Become, Now
    <2> QED
      BY <1>1, <2>2, <2>3, <2>4 DEF HeldInv
  <1>3. CASE UNCHANGED vars
    <2>1. Now' = Now
      BY <1>3 DEF vars, Now
    <2>2. GunsHeld(Now)'
      BY <2>1 DEF HeldInv, GunsHeld, GunHeld, OrderGun, CardGun, OnceGun, Unbooked
    <2>3. ReaderFree(Now)'
      BY <2>1 DEF HeldInv, ReaderFree
    <2>4. Locked(Now)'
      BY <2>1 DEF HeldInv, Locked, Together
    <2> QED
      BY <1>1, <2>2, <2>3, <2>4 DEF HeldInv
  <1> QED
    BY <1>2, <1>3

\* What a step does to one gun: it spares it, or records its order.
LEMMA StepSpares ==
    ASSUME HeldInv, Next, NEW g \in Guns
    PROVE  \E t : /\ Become(t) /\ Sound(t)
                  /\ \/ Spares(Now, t, g)
                     \/ /\ Records(Now, t, g)
                        /\ t.link[g]["platform"].latched =>
                             link[g]["platform"].latched \/ ~card[g].active
  <1>1. PICK t : Become(t) /\ (Heeds(Now, t) \/ \E h \in Guns : Settled(Now, t, h))
    BY NextHolds DEF CanHold
  <1>2. CASE Heeds(Now, t)
    BY <1>1, <1>2 DEF Heeds, Guards
  <1>3. ASSUME NEW h \in Guns, Settled(Now, t, h)
        PROVE  /\ Sound(t)
               /\ \/ Spares(Now, t, g)
                  \/ /\ Records(Now, t, g)
                     /\ t.link[g]["platform"].latched =>
                          link[g]["platform"].latched \/ ~card[g].active
    BY <1>3, NowFact DEF Settled
  <1> QED
    BY <1>1, <1>2, <1>3

\* While only guns in PREPARE are started by a card, the start command that is repeated
\* after 30 s is that of the order under way: the one of an order before is replaced or
\* forgotten wherever a gun comes back to PREPARE.
THEOREM RetryIsOfTheOrder ==
    ASSUME "request_card_start" \notin Inputs
    PROVE  Spec => []RetryRepeatsOrder
  <1>1. HeldInv => RetryRepeatsOrder
    BY NowFact DEF HeldInv, GunsHeld, GunHeld, OrderGun, Asked, RetryRepeatsOrder
  <1> QED
    BY <1>1, InitHeld, StepHeld, PTL DEF Spec

\* One order, one trade record, when every start opens an order, and guns are merged
\* only by the platform and then not reset: however a session ends, its order is
\* recorded once, and an order that is armed or under way has no record.
THEOREM OneRecordPerOrder ==
    ASSUME Orderly
    PROVE  Spec => []BookedOnce
  <1>1. HeldInv => BookedOnce
    BY NowFact DEF HeldInv, GunsHeld, GunHeld, OnceGun, BookedOnce
  <1> QED
    BY <1>1, InitHeld, StepHeld, PTL DEF Spec

\* The guns of a pair the platform started draw power together or not at all, as long as
\* no reset takes one of them out of STARTING (enterStopping).
THEOREM PairsInLockstep ==
    ASSUME InStep
    PROVE  Spec => []MergedInLockstep
  <1>1. HeldInv => MergedInLockstep
    BY NowFact DEF HeldInv, Locked, Together, Drawing, MergedInLockstep
  <1> QED
    BY <1>1, InitHeld, StepHeld, PTL DEF Spec

\* The record of a session that a card opened names that card, and it is one of the
\* whitelist: no card is taken for a gun that has one, and none is forgotten before
\* its record.
THEOREM RecordsNameCards ==
    ASSUME "request_card_start" \notin Inputs
    PROVE  Spec => RecordNamesCard
  <1>1. HeldInv /\ [Next]_vars =>
          [\A g \in Guns : \A o \in Orders :
             (ledger'[g][o].count > ledger[g][o].count /\ card[g].active) =>
                 ledger'[g][o].card = card[g].no /\ card[g].no \in Whitelist]_vars
    <2> SUFFICES ASSUME HeldInv, Next, NEW g \in Guns, NEW o \in Orders,
                        ledger'[g][o].count > ledger[g][o].count, card[g].active
                 PROVE  ledger'[g][o].card = card[g].no /\ card[g].no \in Whitelist
      BY DEF vars
    <2>1. card[g].no \in Whitelist
      BY NowFact DEF HeldInv, GunsHeld, GunHeld, CardGun, Asked
    <2>2. PICK t : Become(t) /\ (Spares(Now, t, g) \/ Records(Now, t, g))
      BY StepSpares
    <2>3. ledger' = t.ledger
      BY <2>2 DEF Become
    <2>4. ledger[g][o].count \in Nat
      <3>1. Sound(Now)
        BY DEF HeldInv, TidyInv, IInv, Good
      <3>2. Now.ledger[g][o].count \in 0 .. 2
        BY <3>1, Counts
      <3> QED
        BY <3>2, NowFact
    <2>5. ledger'[g][o] # ledger[g][o]
      BY <2>4
    <2>6. Records(Now, t, g)
      BY <2>2, <2>3, <2>5, NowFact DEF Spares
    <2> QED
      BY <2>1, <2>3, <2>5, <2>6, NowFact DEF Records
  <1> QED
    BY <1>1, InitHeld, StepHeld, PTL DEF Spec, RecordNamesCard

\* A running total is forgotten only after its record was booked, with all of it: the
\* total of a session grows until the step that books it, and what sets it back later
\* finds it on record.
THEOREM NoEnergyDropped ==
    ASSUME "request_card_start" \notin Inputs
    PROVE  Spec => EnergyNeverDropped
  <1>1. HeldInv /\ [Next]_vars =>
          [\A g \in Guns :
             meter'[g].total < meter[g].total =>
                 /\ ledger'[g][sess[g].order].count > 0
                 /\ ledger'[g][sess[g].order].kwh = meter[g].total]_vars
    <2> SUFFICES ASSUME HeldInv, Next, NEW g \in Guns,
                        meter'[g].total < meter[g].total
                 PROVE  /\ ledger'[g][sess[g].order].count > 0
                        /\ ledger'[g][sess[g].order].kwh = meter[g].total
      BY DEF vars
    <2>1. PICK t : Become(t) /\ Sound(t) /\ (Spares(Now, t, g) \/ Records(Now, t, g))
      BY StepSpares
    <2>2. ledger' = t.ledger /\ meter' = t.meter
      BY <2>1 DEF Become
    <2>3. CASE Records(Now, t, g)
      BY <2>2, <2>3, NowFact DEF Records
    <2>4. CASE Spares(Now, t, g)
      <3>1. meter[g].total \in Nat /\ t.meter[g].total \in Nat
        <4>1. Sound(Now)
          BY DEF HeldInv, TidyInv, IInv, Good
        <4> QED
          BY <2>1, <4>1, Counts, NowFact
      <3>2. meter[g].total > 0 /\ ~(meter[g].total <= t.meter[g].total)
        BY <2>2, <3>1
      <3>3. gun[g].state \notin {"CHARGING", "STOPPING"}
        BY <2>4, <3>2, NowFact DEF Spares, Asked
      <3>4. /\ ledger[g][sess[g].order].count > 0
            /\ ledger[g][sess[g].order].kwh = meter[g].total
        BY <3>2, <3>3, NowFact DEF HeldInv, TidyInv, BookedGun
      <3> QED
        BY <2>2, <2>4, <3>4, NowFact DEF Spares
    <2> QED
      BY <2>1, <2>3, <2>4
  <1> QED
    BY <1>1, InitHeld, StepHeld, PTL DEF Spec, EnergyNeverDropped

\* While a key card charges, no fault of the platform's link is confirmed on its gun,
\* whatever reports came before the card (maybeConfirmPlatformOfflineFault).
THEOREM CardNeedsNoPlatform == Spec => PlatformSparesCard
  <1>1. HeldInv /\ [Next]_vars =>
          [\A g \in Guns :
             (card[g].active /\ ~link[g]["platform"].latched) =>
                 ~link'[g]["platform"].latched]_vars
    <2> SUFFICES ASSUME HeldInv, Next, NEW g \in Guns,
                        card[g].active, ~link[g]["platform"].latched,
                        link'[g]["platform"].latched
                 PROVE  FALSE
      BY DEF vars
    <2>1. PICK t : /\ Become(t)
                   /\ \/ Spares(Now, t, g)
                      \/ /\ Records(Now, t, g)
                         /\ t.link[g]["platform"].latched =>
                              link[g]["platform"].latched \/ ~card[g].active
      BY StepSpares
    <2>2. link' = t.link
      BY <2>1 DEF Become
    <2> QED
      BY <2>1, <2>2, NowFact DEF Spares
  <1> QED
    BY <1>1, InitHeld, StepHeld, PTL DEF Spec, PlatformSparesCard

=============================================================================
