------------------------------ MODULE Uploader ------------------------------
(***************************************************************************)
(* tcu_uploader: it copies the new rows of a table of the logger into a    *)
(* package, uploads the package, and moves the table's watermark once the  *)
(* server has taken it.  The rows change under it, the answer may get      *)
(* lost, the process may be killed between any two steps, and a power cut  *)
(* may leave a file that was just written torn.                            *)
(***************************************************************************)
EXTENDS Naturals, FiniteSets

CONSTANTS
    MaxTime,       \* bound: the latest time a row can have
    MaxSeq,        \* bound: rows logged to one database file
    MaxFile,       \* bound: rotations of the database
    MaxFaults,     \* bound: crashes and power cuts
    PendingLimit   \* max_pending_mb, in rows

ASSUME UploaderAssumption ==
    {MaxTime, MaxSeq, MaxFile, MaxFaults, PendingLimit} \subseteq Nat

VARIABLES
    rows,       \* the table
    lastSeq,    \* the AUTOINCREMENT counter of the table
    file,       \* which database file this is, counted by rotations
    mark,       \* the watermark in upload_state.json
    pending,    \* the packages in pending/
    at,         \* where runOnce is
    fresh,      \* the package was made in this round
    to,         \* toTime and toSeq of the export under way
    received,   \* the rows the server has stored
    unsynced,   \* files written and not yet on the flash
    torn,       \* files a power cut has left without their content
    faults,     \* crashes and power cuts so far
    late        \* history: rows logged below a point already exported

vars == <<rows, lastSeq, file, mark, pending, at, fresh, to, received, unsynced, torn,
          faults, late>>

Row == [time : 1..MaxTime, seq : 1..MaxSeq, file : 0..MaxFile]
Mark == [time : 0..MaxTime, seq : 0..MaxSeq]
Package == [to : Mark, rows : SUBSET Row]
Files == {"package", "state"}

\* The watermark of a table that has none yet: empty strings.
Start == [time |-> 0, seq |-> 0]

Init ==
    /\ rows = {} /\ lastSeq = 0 /\ file = 0 /\ late = {}
    /\ mark = Start /\ pending = {}
    /\ at = "idle" /\ fresh = FALSE /\ to = Start
    /\ received = {}
    /\ unsynced = {} /\ torn = {} /\ faults = 0

\* whereSql: the row comes after the watermark.
Above(r, m) == r.time > m.time \/ (r.time = m.time /\ r.seq > m.seq)

Goto(place) == at' = place

tableVars == <<rows, lastSeq, file, late>>
diskVars == <<mark, pending, unsynced, torn>>
roundVars == <<at, fresh, to>>

-----------------------------------------------------------------------------
(* The logger, another process.                                            *)

\* A row comes in.  Its time may be any: fault records bring their own, and the
\* clock is set by the platform.
Log(t) ==
    LET row == [time |-> t, seq |-> lastSeq + 1, file |-> file]
        passed == \E m \in {mark} \cup {p.to : p \in pending} : ~Above(row, m)
    IN  /\ lastSeq < MaxSeq
        /\ rows' = rows \cup {row}
        /\ lastSeq' = lastSeq + 1
        /\ late' = IF passed THEN late \cup {row} ELSE late
        /\ UNCHANGED <<file, diskVars, roundVars, received, faults>>

\* Telemetry is kept for a while only.
CleanupBefore(t) ==
    /\ rows' = {r \in rows : r.time >= t}
    /\ UNCHANGED <<lastSeq, file, late, diskVars, roundVars, received, faults>>

\* The main database is moved to the backups and started anew.
Rotate ==
    /\ file < MaxFile
    /\ rows' = {} /\ lastSeq' = 0 /\ file' = file + 1
    /\ UNCHANGED <<late, diskVars, roundVars, received, faults>>

-----------------------------------------------------------------------------
(* A round of the uploader.                                                *)

\* enforcePendingLimit.  What is torn is short.
TooLarge(p) == "package" \notin torn /\ Cardinality(p.rows) > PendingLimit

\* A round begins: a package over the limit goes, one that is left is sent again.
StartRound ==
    /\ at = "idle"
    /\ pending' = {p \in pending : ~TooLarge(p)}
    /\ unsynced' = IF pending' = {} THEN unsynced \ {"package"} ELSE unsynced
    /\ fresh' = FALSE
    /\ Goto(IF pending' = {} THEN "find" ELSE "upload")
    /\ UNCHANGED <<tableVars, mark, to, received, torn, faults>>

\* exportTableByWatermark, first statement: the last row above the watermark.
FindTo ==
    LET new == {r \in rows : Above(r, mark)}
    IN  /\ at = "find"
        /\ IF "state" \in torn \/ new = {}
           THEN Goto("idle") /\ UNCHANGED to
           ELSE \E last \in new :
                   /\ \A r \in new : ~Above(r, last)
                   /\ to' = [time |-> last.time, seq |-> last.seq]
                   /\ Goto("copy")
        /\ UNCHANGED <<tableVars, diskVars, fresh, received, faults>>

\* exportTableByWatermark, later statements, and the end of createPackage: what lies
\* between the watermark and the row found is packed and moved to pending/.
Copy ==
    LET range == {r \in rows : Above(r, mark) /\ ~Above(r, to)}
    IN  /\ at = "copy"
        /\ IF range = {}
           THEN Goto("idle") /\ UNCHANGED <<pending, fresh, unsynced>>
           ELSE /\ pending' = {[to |-> to, rows |-> range]}
                /\ unsynced' = unsynced \cup {"package"}
                /\ fresh' = TRUE
                /\ Goto("upload")
        /\ UNCHANGED <<tableVars, mark, to, received, torn, faults>>

\* A statement meets a lock of the logger, or the flash is full.
CopyFails ==
    /\ at = "copy"
    /\ Goto("idle")
    /\ UNCHANGED <<tableVars, diskVars, fresh, to, received, faults>>

\* What the server stores of a package: it compares the checksum of what arrives and
\* does not look inside.
Taken(p) == IF "package" \in torn THEN {} ELSE p.rows

\* The three ends of uploadPackage: code 0; stored, but no answer in time; refused or
\* not reached.
Accepted ==
    /\ at = "upload"
    /\ \E p \in pending : received' = received \cup Taken(p)
    /\ Goto("apply")
    /\ UNCHANGED <<tableVars, diskVars, fresh, to, faults>>

AnswerLost ==
    /\ at = "upload"
    /\ \E p \in pending : received' = received \cup Taken(p)
    /\ Goto("idle")
    /\ UNCHANGED <<tableVars, diskVars, fresh, to, faults>>

Refused ==
    /\ at = "upload"
    /\ Goto("idle")
    /\ UNCHANGED <<tableVars, diskVars, fresh, to, received, faults>>

\* Mutant: a manifest that does not move the watermark counts as an error.
ReadableOnce(p) == torn = {} /\ Above(p.to, mark)

\* applyManifestFromPackage can read the manifest and the state file.
Readable(p) == torn = {}

\* Mutant: the watermark is set to the newest row of the table.
MarkNewest(p) ==
    LET last == CHOOSE r \in rows : \A q \in rows : ~Above(q, r)
    IN  IF rows = {} THEN p.to ELSE [time |-> last.time, seq |-> last.seq]

\* The watermark the manifest asks for.
MarkOf(p) == p.to

\* The watermark moves, or the package stays.
ApplyManifest ==
    /\ at = "apply"
    /\ \E p \in pending :
          IF Readable(p)
          THEN /\ mark' = MarkOf(p)
               /\ unsynced' = unsynced \cup {"state"}
               /\ Goto("unlink")
          ELSE Goto("idle") /\ UNCHANGED <<mark, unsynced>>
    /\ UNCHANGED <<tableVars, pending, torn, fresh, to, received, faults>>

\* After an old package the round goes on to the new rows.
Unlink ==
    /\ at = "unlink"
    /\ pending' = {}
    /\ unsynced' = unsynced \ {"package"}
    /\ Goto(IF fresh THEN "idle" ELSE "find")
    /\ UNCHANGED <<tableVars, mark, torn, fresh, to, received, faults>>

-----------------------------------------------------------------------------
(* Faults.                                                                 *)

\* The process ends and the daemon starts it again: what is staged is lost.
Crash ==
    /\ faults < MaxFaults
    /\ faults' = faults + 1
    /\ Goto("idle")
    /\ UNCHANGED <<tableVars, diskVars, fresh, to, received>>

\* No file is synced before its rename: a power cut may leave it without content.
PowerCut ==
    /\ faults < MaxFaults
    /\ faults' = faults + 1
    /\ \E lost \in SUBSET unsynced : torn' = torn \cup lost
    /\ unsynced' = {}
    /\ Goto("idle")
    /\ UNCHANGED <<tableVars, mark, pending, fresh, to, received>>

\* The kernel writes back.
WriteBack ==
    /\ unsynced # {}
    /\ unsynced' = {}
    /\ UNCHANGED <<tableVars, mark, pending, torn, roundVars, received, faults>>

Round == StartRound \/ FindTo \/ Copy \/ CopyFails
         \/ Accepted \/ AnswerLost \/ Refused \/ ApplyManifest \/ Unlink

Next ==
    \/ \E t \in 1..MaxTime : Log(t) \/ CleanupBefore(t)
    \/ Rotate
    \/ Round
    \/ Crash \/ PowerCut \/ WriteBack

Spec == Init /\ [][Next]_vars

\* The rounds go on, a table that is read again and again is once not locked, and a
\* server that is asked again and again takes a package in the end.  Nothing of the
\* logger, of faults or of the kernel.
FairSpec == Spec /\ WF_vars(Round) /\ SF_vars(Copy) /\ SF_vars(Accepted)

-----------------------------------------------------------------------------
(* Properties.                                                             *)

\* The data keeps its types, pending/ holds at most one package, and only a package
\* that is there can be sent, applied or torn.
TypeOK ==
    /\ rows \subseteq Row /\ late \subseteq Row /\ received \subseteq Row
    /\ lastSeq \in 0..MaxSeq /\ file \in 0..MaxFile
    /\ mark \in Mark /\ to \in Mark
    /\ pending \subseteq Package
    /\ \A p, q \in pending : p = q
    /\ at \in {"idle", "find", "copy", "upload", "apply", "unlink"}
    /\ fresh \in BOOLEAN
    /\ unsynced \subseteq Files /\ torn \subseteq Files
    /\ faults \in 0..MaxFaults
    /\ at \in {"find", "copy"} => pending = {}
    /\ at \in {"upload", "apply", "unlink"} => pending # {}
    /\ "package" \in unsynced \cup torn => pending # {}

\* The watermark passes no row the server has not stored, whatever is logged, cleaned
\* up, lost or cut short meanwhile: a row of the table at or below it is stored,
\* unless it was logged below a point that was exported before it came
\* (exportTableByWatermark, applyManifestToState).
NothingSkipped == \A r \in rows \ late : ~Above(r, mark) => r \in received

\* A row that stays in the table reaches the server in the end, through lost answers,
\* refusals, packages over the limit and crashes, unless a power cut has torn a
\* file (runOnce).
EveryRowArrives ==
    \A r \in Row : r \in rows \ late ~> (r \in received \/ r \notin rows \/ torn # {})

=============================================================================
