--------------------------- MODULE UploaderProofs ---------------------------
(***************************************************************************)
(* Proofs about Uploader, for every number of rows, times, rotations and   *)
(* faults and every limit: the data keeps its types, and the watermark     *)
(* passes no row the server has not stored.                                *)
(***************************************************************************)
EXTENDS Uploader, TLAPS

\* A package whose watermark is about to be forgotten is not torn: what makes the
\* types inductive.
TypeInv == TypeOK /\ (at = "unlink" => "package" \notin torn)

\* The rows up to m that were not logged too late are in S.
UpTo(m, S) == \A r \in rows \ late : ~Above(r, m) => r \in S

\* A package holds all that its watermark would pass and that is not stored yet; and
\* it is applied only when what it holds is stored.
PackageInv ==
    /\ \A p \in pending : UpTo(p.to, p.rows \cup received)
    /\ at = "apply" => \A p \in pending : "package" \notin torn => p.rows \subseteq received

UploadInv == TypeInv /\ NothingSkipped /\ PackageInv

\* The watermark of a row is one.
LEMMA RowMark ==
    ASSUME NEW r \in Row
    PROVE  [time |-> r.time, seq |-> r.seq] \in Mark
  BY UploaderAssumption DEF Row, Mark

\* No data, no package, nothing received.
LEMMA InitUpload == Init => UploadInv
  <1> SUFFICES ASSUME Init PROVE UploadInv
    OBVIOUS
  <1>1. 0 \in 0..MaxTime /\ 0 \in 0..MaxSeq /\ 0 \in 0..MaxFile /\ 0 \in 0..MaxFaults
    BY UploaderAssumption
  <1>2. Start \in Mark
    BY <1>1 DEF Start, Mark
  <1>3. TypeInv
    BY <1>1, <1>2 DEF Init, TypeInv, TypeOK
  <1> QED
    BY <1>3 DEF Init, UploadInv, NothingSkipped, PackageInv

\* The logger's actions and the faults keep the types.
LEMMA OthersTyped ==
    ASSUME TypeInv,
           \/ \E t \in 1..MaxTime : Log(t) \/ CleanupBefore(t)
           \/ Rotate \/ Crash \/ PowerCut \/ WriteBack
    PROVE  TypeInv'
  <1> USE UploaderAssumption DEF TypeInv, TypeOK, tableVars, diskVars, roundVars
  <1>1. ASSUME NEW t \in 1..MaxTime, Log(t) PROVE TypeInv'
    <2> DEFINE row == [time |-> t, seq |-> lastSeq + 1, file |-> file]
    <2>1. row \in Row /\ lastSeq' \in 0..MaxSeq
      BY <1>1 DEF Log, Row
    <2>2. rows' = rows \cup {row} /\ late' \in {late, late \cup {row}}
      BY <1>1 DEF Log
    <2> QED
      BY <1>1, <2>1, <2>2 DEF Log
  <1>2. ASSUME NEW t \in 1..MaxTime, CleanupBefore(t) PROVE TypeInv'
    BY <1>2 DEF CleanupBefore
  <1>3. ASSUME Rotate PROVE TypeInv'
    BY <1>3 DEF Rotate
  <1>4. ASSUME Crash PROVE TypeInv'
    BY <1>4 DEF Crash, Goto
  <1>5. ASSUME PowerCut PROVE TypeInv'
    BY <1>5 DEF PowerCut, Goto
  <1>6. ASSUME WriteBack PROVE TypeInv'
    BY <1>6 DEF WriteBack
  <1> QED
    BY <1>1, <1>2, <1>3, <1>4, <1>5, <1>6

\* The steps of a round keep the types.
LEMMA RoundTyped ==
    ASSUME TypeInv, Round
    PROVE  TypeInv'
  <1> USE UploaderAssumption DEF TypeInv, TypeOK, tableVars, diskVars, roundVars, Goto
  <1>1. ASSUME StartRound PROVE TypeInv'
    <2>1. pending' \subseteq pending
      BY <1>1 DEF StartRound
    <2>2. "package" \in torn /\ pending # {} => pending' # {}
      BY <1>1 DEF StartRound, TooLarge
    <2> QED
      BY <1>1, <2>1, <2>2 DEF StartRound
  <1>2. ASSUME FindTo PROVE TypeInv'
    <2>1. to' \in Mark
      BY <1>2, RowMark DEF FindTo
    <2>2. at = "find" /\ at' \in {"idle", "copy"}
      BY <1>2 DEF FindTo
    <2> QED
      BY <1>2, <2>1, <2>2 DEF FindTo
  <1>3. ASSUME Copy PROVE TypeInv'
    <2> DEFINE range == {r \in rows : Above(r, mark) /\ ~Above(r, to)}
    <2>1. CASE range = {}
      BY <1>3, <2>1 DEF Copy
    <2>2. CASE range # {}
      <3>1. [to |-> to, rows |-> range] \in Package
        BY DEF Package
      <3>2. pending' = {[to |-> to, rows |-> range]} /\ at' = "upload"
        BY <1>3, <2>2 DEF Copy
      <3> QED
        BY <1>3, <2>2, <3>1, <3>2 DEF Copy, Files
    <2> QED
      BY <2>1, <2>2
  <1>4. ASSUME CopyFails \/ Refused PROVE TypeInv'
    BY <1>4 DEF CopyFails, Refused
  <1>5. ASSUME Accepted \/ AnswerLost PROVE TypeInv'
    <2>1. \A p \in pending : Taken(p) \subseteq Row
      BY DEF Taken, Package
    <2> QED
      BY <1>5, <2>1 DEF Accepted, AnswerLost
  <1>6. ASSUME ApplyManifest PROVE TypeInv'
    <2>1. \A p \in pending : MarkOf(p) \in Mark
      BY DEF MarkOf, Package
    <2> QED
      BY <1>6, <2>1 DEF ApplyManifest, Readable, Files
  <1>7. ASSUME Unlink PROVE TypeInv'
    BY <1>7 DEF Unlink
  <1> QED
    BY <1>1, <1>2, <1>3, <1>4, <1>5, <1>6, <1>7 DEF Round

\* Every step keeps the types.
LEMMA NextTyped == TypeInv /\ [Next]_vars => TypeInv'
  <1> SUFFICES ASSUME TypeInv, [Next]_vars PROVE TypeInv'
    OBVIOUS
  <1>1. CASE UNCHANGED vars
    BY <1>1 DEF vars, TypeInv, TypeOK
  <1>2. CASE Next
    BY <1>2, RoundTyped, OthersTyped DEF Next
  <1> QED
    BY <1>1, <1>2

\* What is logged is above the watermark and every package, or late; what is taken
\* out of the table is promised to no one.
LEMMA LoggerSkipsNothing ==
    ASSUME UploadInv,
           (\E t \in 1..MaxTime : Log(t) \/ CleanupBefore(t)) \/ Rotate
    PROVE  NothingSkipped' /\ PackageInv'
  <1> USE DEF UploadInv, NothingSkipped, PackageInv, UpTo, diskVars, roundVars, Above
  <1>1. ASSUME NEW t \in 1..MaxTime, Log(t) PROVE NothingSkipped' /\ PackageInv'
    <2> DEFINE row == [time |-> t, seq |-> lastSeq + 1, file |-> file]
    <2>1. UNCHANGED <<mark, pending, at, torn, received>> /\ rows' = rows \cup {row}
      BY <1>1 DEF Log
    <2>2. /\ late \subseteq late'
          /\ row \in rows' \ late' => /\ Above(row, mark)
                                      /\ \A p \in pending : Above(row, p.to)
      BY <1>1 DEF Log
    <2> QED
      BY <2>1, <2>2
  <1>2. ASSUME (\E t \in 1..MaxTime : CleanupBefore(t)) \/ Rotate
        PROVE  NothingSkipped' /\ PackageInv'
    <2>1. UNCHANGED <<mark, pending, at, torn, received, late>> /\ rows' \subseteq rows
      BY <1>2 DEF CleanupBefore, Rotate
    <2> QED
      BY <2>1
  <1> QED
    BY <1>1, <1>2

\* A round skips nothing.
LEMMA RoundSkipsNothing ==
    ASSUME UploadInv, Round
    PROVE  NothingSkipped' /\ PackageInv'
  <1> USE DEF UploadInv, NothingSkipped, PackageInv, UpTo, tableVars, diskVars, Goto
  <1>1. ASSUME StartRound PROVE NothingSkipped' /\ PackageInv'
    <2>1. pending' \subseteq pending /\ at' # "apply" /\ UNCHANGED <<rows, late, mark, received>>
      BY <1>1 DEF StartRound
    <2> QED
      BY <2>1 DEF Above
  <1>2. ASSUME FindTo \/ CopyFails \/ Refused PROVE NothingSkipped' /\ PackageInv'
    <2>1. at' # "apply" /\ UNCHANGED <<rows, late, mark, pending, received>>
      BY <1>2 DEF FindTo, CopyFails, Refused
    <2> QED
      BY <2>1 DEF Above
  <1>3. ASSUME Copy PROVE NothingSkipped' /\ PackageInv'
    <2> DEFINE range == {r \in rows : Above(r, mark) /\ ~Above(r, to)}
    <2>1. at' # "apply" /\ UNCHANGED <<rows, late, mark, received>>
      BY <1>3 DEF Copy
    <2>2. NothingSkipped'
      BY <2>1 DEF Above
    <2>3. \A r \in rows \ late : ~Above(r, to) => r \in range \cup received
      OBVIOUS
    <2>4. ASSUME NEW p \in pending'
          PROVE  \A r \in (rows \ late)' : ~Above(r, p.to) => r \in p.rows \cup received'
      <3>1. CASE range = {}
        BY <1>3, <2>1, <3>1 DEF Copy
      <3>2. CASE range # {}
        <4>1. p.to = to /\ p.rows = range
          BY <1>3, <3>2 DEF Copy
        <4> QED
          BY <2>1, <2>3, <4>1
      <3> QED
        BY <3>1, <3>2
    <2> QED
      BY <2>1, <2>2, <2>4 DEF Above
  <1>4. ASSUME Accepted \/ AnswerLost PROVE NothingSkipped' /\ PackageInv'
    <2>1. /\ UNCHANGED <<rows, late, mark, pending, torn>>
          /\ received \subseteq received'
      BY <1>4 DEF Accepted, AnswerLost
    <2>2. "package" \notin torn => \A p \in pending : p.rows \subseteq received'
      BY <1>4 DEF Accepted, AnswerLost, Taken, TypeInv, TypeOK
    <2> QED
      BY <2>1, <2>2 DEF Above
  <1>5. ASSUME ApplyManifest PROVE NothingSkipped' /\ PackageInv'
    <2>1. UNCHANGED <<rows, late, pending, received>> /\ at' # "apply" /\ at = "apply"
      BY <1>5 DEF ApplyManifest
    <2>2. PackageInv'
      BY <2>1 DEF Above
    <2>3. PICK p \in pending :
              mark' = mark \/ (mark' = p.to /\ p.rows \subseteq received)
      BY <1>5, <2>1 DEF ApplyManifest, MarkOf, Readable
    <2>4. NothingSkipped'
      BY <2>1, <2>3 DEF Above
    <2> QED
      BY <2>2, <2>4
  <1>6. ASSUME Unlink PROVE NothingSkipped' /\ PackageInv'
    <2>1. pending' = {} /\ UNCHANGED <<rows, late, mark, received>>
      BY <1>6 DEF Unlink
    <2> QED
      BY <2>1 DEF Above
  <1> QED
    BY <1>1, <1>2, <1>3, <1>4, <1>5, <1>6 DEF Round

\* A fault ends the round, and a torn package is worth nothing.
LEMMA FaultSkipsNothing ==
    ASSUME UploadInv, Crash \/ PowerCut \/ WriteBack
    PROVE  NothingSkipped' /\ PackageInv'
  <1>1. /\ UNCHANGED <<rows, late, mark, pending, received>>
        /\ at' = "idle" \/ (at' = at /\ torn' = torn)
    BY DEF Crash, PowerCut, WriteBack, Goto, tableVars, diskVars, roundVars
  <1> QED
    BY <1>1 DEF UploadInv, NothingSkipped, PackageInv, UpTo, Above

\* The invariant is inductive.
LEMMA StepUpload == UploadInv /\ [Next]_vars => UploadInv'
  <1> SUFFICES ASSUME UploadInv, [Next]_vars PROVE UploadInv'
    OBVIOUS
  <1>1. TypeInv'
    BY NextTyped DEF UploadInv
  <1>2. CASE UNCHANGED vars
    BY <1>1, <1>2 DEF vars, UploadInv, NothingSkipped, PackageInv, UpTo, Above
  <1>3. CASE Next
    BY <1>1, <1>3, LoggerSkipsNothing, RoundSkipsNothing, FaultSkipsNothing DEF Next, UploadInv
  <1> QED
    BY <1>2, <1>3

\* Logger, uploader and faults keep the data of the uploader typed, with at most one
\* package in pending/ (listPendingFiles before createPackage).
THEOREM UploaderTyped == Spec => []TypeOK
  <1>1. UploadInv => TypeOK
    BY DEF UploadInv, TypeInv
  <1> QED
    BY <1>1, InitUpload, StepUpload, PTL DEF Spec

\* The watermark passes no row the server has not stored.
THEOREM WatermarkSkipsNothing == Spec => []NothingSkipped
  <1>1. UploadInv => NothingSkipped
    BY DEF UploadInv
  <1> QED
    BY <1>1, InitUpload, StepUpload, PTL DEF Spec

=============================================================================
