-------------------------- MODULE RunArchiveProofs --------------------------
(***************************************************************************)
(* Proofs about the archive of a run, for any number of scanners and of    *)
(* messages, any retention and any number of scanners that stop half way.  *)
(* ArchInv says what a scanner at each statement may rely on: what SQL,    *)
(* Redis and the object store have by then, and which part of the queue    *)
(* RetireRun has emptied under the marker.                                 *)
(***************************************************************************)
EXTENDS RunArchive, TLAPS

PCs == {"idle", "finalize", "archive", "put", "locate", "snapshot", "record", "retire", "stream",
        "dead", "delay", "expire", "confirm"}
ProcState == [pc : PCs, archivedAt : Time, todo : SUBSET Messages]
Copy == [present : BOOLEAN, archived : Time, expires : Time]
RunRow == [finished : BOOLEAN, archived : Time, hotExpires : Time]
Places == InQueue \cup {"dispatcher", "gone"}

\* The keys go, or are told to go, when object and locator are there.
HistoryRecorded == object = "report" /\ sql.finished /\ sql.archived # 0
Reached ==
    /\ hot.archived <= clock /\ sql.archived <= clock
    /\ hot.expires # 0 \/ ~hot.present => HistoryRecorded

\* What the scanner m has behind it.
Behind(m, h, s) ==
    /\ m.archivedAt <= clock
    /\ m.pc \notin {"idle", "finalize"} => s.finished
    /\ m.pc = "snapshot" => h.archived # 0
    /\ m.pc = "record" => m.archivedAt # 0
    /\ m.pc \in {"retire", "stream", "dead", "delay", "expire", "confirm"} => s.archived # 0
Progress == \A p \in Scanners : Behind(proc[p], hot, sql)

\* What RetireRun of the scanner m, watched as w, has taken from the queue q.
Emptied(m, w, q) ==
    /\ m.pc \in {"dead", "delay"} => \A i \in Messages : q[i] \notin {"stream", "leased"}
    /\ m.pc = "delay" => \A i \in Messages : q[i] # "dead" /\ (q[i] = "delay" => i \in m.todo)
    /\ w = "done" => \A i \in Messages : q[i] \notin InQueue
Cleared == \A p \in Scanners : watch[p] # "no" => Retired /\ Emptied(proc[p], watch[p], queue)

ArchInv == ArchiveTypeOK /\ Reached /\ Progress /\ Cleared

-----------------------------------------------------------------------------
LEMMA ArchiveTypes ==
    ASSUME ArchiveTypeOK
    PROVE  /\ clock \in Nat /\ clock > 0 /\ clock <= MaxTime /\ marker \in Time /\ hot \in Copy
           /\ sql \in RunRow /\ object \in {"none", "report"}
           /\ queue \in [Messages -> Places] /\ proc \in [Scanners -> ProcState]
           /\ watch \in [Scanners -> {"no", "scan", "done"}] /\ faults \in 0..MaxFaults
BY ArchiveAssumption DEF ArchiveAssumption, ArchiveTypeOK, Copy, RunRow, Places, ProcState, PCs

LEMMA TypesOfParts ==
    ASSUME clock \in 1..MaxTime, marker \in Time, hot \in Copy, sql \in RunRow,
           object \in {"none", "report"}, queue \in [Messages -> Places],
           proc \in [Scanners -> ProcState], watch \in [Scanners -> {"no", "scan", "done"}],
           faults \in 0..MaxFaults
    PROVE  ArchiveTypeOK
BY DEF ArchiveTypeOK, Copy, RunRow, Places, ProcState, PCs

LEMMA TimesAre ==
    /\ 0 \in Time /\ Time \subseteq Nat
    /\ \A n \in Nat : n <= MaxTime + HotRetention => n \in Time
BY ArchiveAssumption DEF ArchiveAssumption, Time

LEMMA ArchInit == Init => ArchInv
<1> SUFFICES ASSUME Init PROVE ArchInv
   OBVIOUS
<1>1. Idle \in ProcState /\ Idle.pc = "idle" /\ Idle.archivedAt = 0
   BY TimesAre DEF Idle, ProcState, PCs
<1>2. /\ hot = [present |-> TRUE, archived |-> 0, expires |-> 0] /\ hot \in Copy
      /\ sql = [finished |-> FALSE, archived |-> 0, hotExpires |-> 0] /\ sql \in RunRow
      /\ clock = 1 /\ marker = 0 /\ marker \in Time /\ object = "none"
   BY TimesAre DEF Init, Copy, RunRow
<1>3. /\ queue \in [Messages -> Places] /\ proc = [p \in Scanners |-> Idle]
      /\ watch = [p \in Scanners |-> "no"] /\ faults = 0
   BY DEF Init, Places, InQueue
<1>4. clock \in 1..MaxTime /\ faults \in 0..MaxFaults
   BY <1>2, <1>3, ArchiveAssumption DEF ArchiveAssumption
<1>5. ArchiveTypeOK
   BY <1>1, <1>2, <1>3, <1>4, TypesOfParts
<1>6. Reached
   BY <1>2 DEF Reached
<1>7. Progress /\ Cleared
   BY <1>1, <1>2, <1>3 DEF Progress, Behind, Cleared
<1> QED BY <1>5, <1>6, <1>7 DEF ArchInv

LEMMA ScannerMoves ==
    ASSUME ArchiveTypeOK, NEW p \in Scanners, NEW m \in ProcState, proc' = [proc EXCEPT ![p] = m]
    PROVE  /\ proc' \in [Scanners -> ProcState] /\ proc'[p] = m
           /\ \A q \in Scanners : q # p => proc'[q] = proc[q]
<1>1. proc \in [Scanners -> ProcState]
   BY ArchiveTypes
<1> QED BY <1>1

LEMMA GotoIs ==
    ASSUME ArchiveTypeOK, NEW p \in Scanners, NEW c \in PCs, Goto(p, c)
    PROVE  \E m \in ProcState : /\ proc' = [proc EXCEPT ![p] = m] /\ m.pc = c
                                /\ m.archivedAt = proc[p].archivedAt /\ m.todo = proc[p].todo
<1> DEFINE m == [proc[p] EXCEPT !.pc = c]
<1>1. proc \in [Scanners -> ProcState] /\ proc[p] \in ProcState
   BY ArchiveTypes
<1>2. /\ m \in ProcState /\ m.pc = c /\ m.archivedAt = proc[p].archivedAt
      /\ m.todo = proc[p].todo
   BY <1>1 DEF ProcState
<1>3. proc' = [proc EXCEPT ![p] = m]
   BY <1>1 DEF Goto
<1> HIDE DEF m
<1> QED BY <1>2, <1>3

LEMMA StopIs ==
    ASSUME NEW p \in Scanners, Stop(p)
    PROVE  \E m \in ProcState : /\ proc' = [proc EXCEPT ![p] = m] /\ m.pc = "idle"
                                /\ m.archivedAt = 0
<1>1. Idle \in ProcState /\ Idle.pc = "idle" /\ Idle.archivedAt = 0
   BY TimesAre DEF Idle, ProcState, PCs
<1> QED BY <1>1 DEF Stop

\* Progress after a step of one scanner: SQL and Redis only gain.
LEMMA ProgressKept ==
    ASSUME ArchInv, UNCHANGED clock, NEW p \in Scanners, NEW m \in ProcState,
           proc' = [proc EXCEPT ![p] = m], Behind(m, hot', sql'),
           hot.archived # 0 => hot'.archived # 0, sql.finished => sql'.finished,
           sql.archived # 0 => sql'.archived # 0
    PROVE  Progress'
<1>1. /\ proc'[p] = m /\ \A q \in Scanners : q # p => proc'[q] = proc[q]
   BY ScannerMoves DEF ArchInv
<1>2. ASSUME NEW q \in Scanners PROVE Behind(proc'[q], hot', sql')
   BY <1>1 DEF ArchInv, Progress, Behind
<1> QED BY <1>2 DEF Progress, Behind

\* A step of one scanner that leaves the queue and the marker alone.
LEMMA RecordStepKeepsInv ==
    ASSUME ArchInv, UNCHANGED <<clock, queue, marker, watch>>,
           NEW p \in Scanners, NEW m \in ProcState, proc' = [proc EXCEPT ![p] = m],
           m.pc \notin {"dead", "delay"}, Behind(m, hot', sql'),
           hot' \in Copy, sql' \in RunRow, object' \in {"none", "report"}, faults' \in 0..MaxFaults,
           Reached',
           hot.archived # 0 => hot'.archived # 0, sql.finished => sql'.finished,
           sql.archived # 0 => sql'.archived # 0
    PROVE  ArchInv'
<1>1. /\ proc' \in [Scanners -> ProcState] /\ proc'[p] = m
      /\ \A q \in Scanners : q # p => proc'[q] = proc[q]
   BY ScannerMoves DEF ArchInv
<1>2. ArchiveTypeOK'
   BY <1>1 DEF ArchInv, ArchiveTypeOK, Copy, RunRow, ProcState, PCs
<1>3. Progress'
   BY ProgressKept
<1>4. Cleared'
   BY <1>1 DEF ArchInv, Cleared, Emptied, Retired
<1> QED BY <1>2, <1>3, <1>4 DEF ArchInv

\* The same, of a step that only reads.
LEMMA ReadStepKeepsInv ==
    ASSUME ArchInv, UNCHANGED <<clock, hot, object, sql, queue, marker, watch>>,
           faults' \in 0..MaxFaults, NEW p \in Scanners, NEW m \in ProcState,
           proc' = [proc EXCEPT ![p] = m], m.pc \notin {"dead", "delay"}, Behind(m, hot, sql)
    PROVE  ArchInv'
<1>1. Reached'
   BY DEF ArchInv, Reached, HistoryRecorded
<1>2. /\ hot' \in Copy /\ sql' \in RunRow /\ object' \in {"none", "report"}
      /\ Behind(m, hot', sql')
   BY ArchiveTypes DEF ArchInv
<1> QED BY <1>1, <1>2, RecordStepKeepsInv

LEMMA StopKeepsInv ==
    ASSUME ArchInv, UNCHANGED <<clock, hot, object, sql, queue, marker, watch>>,
           faults' \in 0..MaxFaults, NEW p \in Scanners, Stop(p)
    PROVE  ArchInv'
<1>1. PICK m \in ProcState : /\ proc' = [proc EXCEPT ![p] = m] /\ m.pc = "idle"
                             /\ m.archivedAt = 0
   BY StopIs
<1>2. Behind(m, hot, sql)
   BY <1>1, ArchiveTypes DEF ArchInv, Behind
<1> QED BY <1>1, <1>2, ReadStepKeepsInv

-----------------------------------------------------------------------------
(* Recovery, finalization and the object.                                  *)
LEMMA ScanKeepsInv == ASSUME ArchInv, NEW p \in Scanners, Scan(p) PROVE ArchInv'
<1>1. UNCHANGED <<clock, hot, object, sql, queue, marker, watch>> /\ faults' \in 0..MaxFaults
   BY ArchiveTypes DEF Scan, ArchInv
<1>2. proc[p].archivedAt <= clock
   BY DEF ArchInv, Progress, Behind
<1>3. CASE Goto(p, "finalize")
   <2>1. "finalize" \in PCs
      BY DEF PCs
   <2>2. PICK m \in ProcState : /\ proc' = [proc EXCEPT ![p] = m] /\ m.pc = "finalize"
                                /\ m.archivedAt = proc[p].archivedAt
      BY <1>3, <2>1, GotoIs DEF ArchInv
   <2>3. Behind(m, hot, sql)
      BY <1>2, <2>2 DEF Behind
   <2> QED BY <1>1, <2>2, <2>3, ReadStepKeepsInv
<1>4. CASE /\ sql.finished /\ sql.archived # 0
           /\ proc' = [proc EXCEPT ![p] = [Idle EXCEPT !.pc = "retire", !.archivedAt = sql.archived]]
   <2> DEFINE m == [Idle EXCEPT !.pc = "retire", !.archivedAt = sql.archived]
   <2>1. sql.archived \in Time /\ sql.archived <= clock
      BY ArchiveTypes DEF ArchInv, RunRow, Reached
   <2>2. m \in ProcState /\ m.pc = "retire" /\ m.archivedAt = sql.archived
      BY <2>1 DEF Idle, ProcState, PCs
   <2>3. proc' = [proc EXCEPT ![p] = m]
      BY <1>4
   <2> HIDE DEF m
   <2>4. Behind(m, hot, sql)
      BY <1>4, <2>1, <2>2 DEF Behind
   <2> QED BY <1>1, <2>2, <2>3, <2>4, ReadStepKeepsInv
<1> QED BY <1>3, <1>4 DEF Scan

LEMMA FinalizeKeepsInv == ASSUME ArchInv, NEW p \in Scanners, FinalizeRun(p) PROVE ArchInv'
<1>1. UNCHANGED <<clock, hot, object, queue, marker, watch>> /\ faults' \in 0..MaxFaults
   BY ArchiveTypes DEF FinalizeRun, ArchInv
<1>2. CASE Stop(p) /\ UNCHANGED sql
   BY <1>1, <1>2, StopKeepsInv
<1>3. CASE sql' = [sql EXCEPT !.finished = TRUE] /\ Goto(p, "archive")
   <2>1. "archive" \in PCs
      BY DEF PCs
   <2>2. PICK m \in ProcState : /\ proc' = [proc EXCEPT ![p] = m] /\ m.pc = "archive"
                                /\ m.archivedAt = proc[p].archivedAt
      BY <1>3, <2>1, GotoIs DEF ArchInv
   <2>3. sql \in RunRow /\ hot \in Copy
      BY ArchiveTypes DEF ArchInv
   <2>4. /\ sql' \in RunRow /\ sql'.finished /\ sql'.archived = sql.archived
      BY <1>3, <2>3 DEF RunRow
   <2>5. Behind(m, hot', sql')
      BY <2>2, <2>4 DEF ArchInv, Progress, Behind
   <2>6. Reached'
      BY <1>1, <2>4 DEF ArchInv, Reached, HistoryRecorded
   <2>7. hot' \in Copy /\ object' \in {"none", "report"}
      BY <1>1, ArchiveTypes DEF ArchInv
   <2> QED BY <1>1, <2>2, <2>4, <2>5, <2>6, <2>7, RecordStepKeepsInv
<1> QED BY <1>2, <1>3 DEF FinalizeRun

LEMMA ArchiveRunKeepsInv == ASSUME ArchInv, NEW p \in Scanners, ArchiveRun(p) PROVE ArchInv'
<1>1. /\ UNCHANGED <<clock, hot, object, sql, queue, marker, watch>> /\ faults' \in 0..MaxFaults
      /\ proc[p].pc = "archive"
   BY ArchiveTypes DEF ArchiveRun, ArchInv, At
<1>2. proc[p].archivedAt <= clock /\ sql.finished
   BY <1>1 DEF ArchInv, Progress, Behind
<1>3. CASE Stop(p)
   BY <1>1, <1>3, StopKeepsInv
<1>4. ASSUME NEW c \in {"put", "snapshot"}, Goto(p, c), c = "snapshot" => hot.archived # 0
      PROVE  ArchInv'
   <2>1. c \in PCs
      BY DEF PCs
   <2>2. PICK m \in ProcState : /\ proc' = [proc EXCEPT ![p] = m] /\ m.pc = c
                                /\ m.archivedAt = proc[p].archivedAt
      BY <1>4, <2>1, GotoIs DEF ArchInv
   <2>3. Behind(m, hot, sql)
      BY <1>2, <1>4, <2>2 DEF Behind
   <2> QED BY <1>1, <2>2, <2>3, ReadStepKeepsInv
<1> QED BY <1>3, <1>4 DEF ArchiveRun

LEMMA PutReportKeepsInv == ASSUME ArchInv, NEW p \in Scanners, PutReport(p) PROVE ArchInv'
<1>1. /\ UNCHANGED <<clock, hot, sql, queue, marker, watch>> /\ faults' \in 0..MaxFaults
      /\ proc[p].pc = "put" /\ object' = "report" /\ Goto(p, "locate") /\ "locate" \in PCs
   BY ArchiveTypes DEF PutReport, ArchInv, At, PCs
<1>2. PICK m \in ProcState : /\ proc' = [proc EXCEPT ![p] = m] /\ m.pc = "locate"
                             /\ m.archivedAt = proc[p].archivedAt
   BY <1>1, GotoIs DEF ArchInv
<1>3. proc[p].archivedAt <= clock /\ sql.finished
   BY <1>1 DEF ArchInv, Progress, Behind
<1>4. Behind(m, hot', sql') /\ hot' \in Copy /\ sql' \in RunRow
   BY <1>1, <1>2, <1>3, ArchiveTypes DEF ArchInv, Behind
<1>5. Reached'
   BY <1>1 DEF ArchInv, Reached, HistoryRecorded
<1> QED BY <1>1, <1>2, <1>4, <1>5, RecordStepKeepsInv

LEMMA PutFailsKeepsInv == ASSUME ArchInv, NEW p \in Scanners, PutFails(p) PROVE ArchInv'
<1>1. /\ UNCHANGED <<clock, hot, sql, queue, marker, watch>> /\ Stop(p)
      /\ object' \in {object, "report"} /\ faults < MaxFaults /\ faults' = faults + 1
   BY DEF PutFails
<1>2. faults' \in 0..MaxFaults
   <2>1. faults \in 0..MaxFaults /\ MaxFaults \in Nat
      BY ArchiveTypes, ArchiveAssumption DEF ArchInv, ArchiveAssumption
   <2> QED BY <1>1, <2>1
<1>3. PICK m \in ProcState : /\ proc' = [proc EXCEPT ![p] = m] /\ m.pc = "idle"
                             /\ m.archivedAt = 0
   BY <1>1, StopIs
<1>4. Behind(m, hot', sql') /\ hot' \in Copy /\ sql' \in RunRow /\ object' \in {"none", "report"}
   BY <1>1, <1>3, ArchiveTypes DEF ArchInv, Behind
<1>5. Reached'
   BY <1>1 DEF ArchInv, Reached, HistoryRecorded
<1> QED BY <1>1, <1>2, <1>3, <1>4, <1>5, RecordStepKeepsInv

LEMMA LocateKeepsInv == ASSUME ArchInv, NEW p \in Scanners, Locate(p) PROVE ArchInv'
<1>1. /\ UNCHANGED <<clock, object, sql, queue, marker, watch>> /\ faults' \in 0..MaxFaults
      /\ proc[p].pc = "locate"
   BY ArchiveTypes DEF Locate, ArchInv, At
<1>2. CASE Stop(p) /\ UNCHANGED hot
   BY <1>1, <1>2, StopKeepsInv
<1>3. CASE hot' = [hot EXCEPT !.archived = clock] /\ Goto(p, "snapshot")
   <2>1. "snapshot" \in PCs
      BY DEF PCs
   <2>2. PICK m \in ProcState : /\ proc' = [proc EXCEPT ![p] = m] /\ m.pc = "snapshot"
                                /\ m.archivedAt = proc[p].archivedAt
      BY <1>3, <2>1, GotoIs DEF ArchInv
   <2>3. hot \in Copy /\ sql \in RunRow /\ clock \in Time /\ clock \in Nat /\ clock # 0
      BY ArchiveTypes, TimesAre, ArchiveAssumption DEF ArchInv, ArchiveAssumption
   <2>4. /\ hot' \in Copy /\ hot'.archived = clock /\ hot'.expires = hot.expires
         /\ hot'.present = hot.present
      BY <1>3, <2>3 DEF Copy
   <2>5. proc[p].archivedAt <= clock /\ sql.finished
      BY <1>1 DEF ArchInv, Progress, Behind
   <2>6. Behind(m, hot', sql')
      BY <1>1, <2>2, <2>3, <2>4, <2>5 DEF Behind
   <2>7. Reached'
      BY <1>1, <2>3, <2>4 DEF ArchInv, Reached, HistoryRecorded
   <2>8. sql' \in RunRow /\ object' \in {"none", "report"}
      BY <1>1, ArchiveTypes DEF ArchInv
   <2> QED BY <1>1, <2>2, <2>3, <2>4, <2>6, <2>7, <2>8, RecordStepKeepsInv
<1> QED BY <1>2, <1>3 DEF Locate

LEMMA SnapshotKeepsInv == ASSUME ArchInv, NEW p \in Scanners, Snapshot(p) PROVE ArchInv'
<1>1. /\ UNCHANGED <<clock, hot, object, sql, queue, marker, watch>> /\ faults' \in 0..MaxFaults
      /\ proc[p].pc = "snapshot"
   BY ArchiveTypes DEF Snapshot, ArchInv, At
<1>2. CASE Stop(p)
   BY <1>1, <1>2, StopKeepsInv
<1>3. CASE proc' = [proc EXCEPT ![p].pc = "record", ![p].archivedAt = hot.archived]
   <2> DEFINE m == [proc[p] EXCEPT !.pc = "record", !.archivedAt = hot.archived]
   <2>1. /\ proc \in [Scanners -> ProcState] /\ proc[p] \in ProcState
         /\ hot.archived \in Time /\ hot.archived <= clock
         /\ hot.archived # 0 /\ sql.finished
      BY <1>1, ArchiveTypes DEF ArchInv, Copy, Reached, Progress, Behind
   <2>2. m \in ProcState /\ m.pc = "record" /\ m.archivedAt = hot.archived
      BY <2>1 DEF ProcState, PCs
   <2>3. proc' = [proc EXCEPT ![p] = m]
      BY <1>3, <2>1
   <2> HIDE DEF m
   <2>4. Behind(m, hot, sql)
      BY <2>1, <2>2 DEF Behind
   <2> QED BY <1>1, <2>2, <2>3, <2>4, ReadStepKeepsInv
<1> QED BY <1>2, <1>3 DEF Snapshot

LEMMA RecordKeepsInv == ASSUME ArchInv, NEW p \in Scanners, RecordArchivedRun(p) PROVE ArchInv'
<1>1. /\ UNCHANGED <<clock, hot, object, queue, marker, watch>> /\ faults' \in 0..MaxFaults
      /\ proc[p].pc = "record" /\ sql' = [sql EXCEPT !.archived = proc[p].archivedAt]
      /\ Goto(p, "retire") /\ "retire" \in PCs
   BY ArchiveTypes DEF RecordArchivedRun, ArchInv, At, PCs
<1>2. PICK m \in ProcState : /\ proc' = [proc EXCEPT ![p] = m] /\ m.pc = "retire"
                             /\ m.archivedAt = proc[p].archivedAt
   BY <1>1, GotoIs DEF ArchInv
<1>3. /\ proc[p].archivedAt <= clock /\ proc[p].archivedAt # 0 /\ sql.finished
      /\ sql \in RunRow /\ proc[p] \in ProcState /\ proc[p].archivedAt \in Time
   BY <1>1, ArchiveTypes DEF ArchInv, Progress, Behind, ProcState
<1>4. /\ sql' \in RunRow /\ sql'.archived = proc[p].archivedAt /\ sql'.finished = sql.finished
   BY <1>1, <1>3 DEF RunRow
<1>5. Behind(m, hot', sql') /\ hot' \in Copy /\ object' \in {"none", "report"}
   BY <1>1, <1>2, <1>3, <1>4, ArchiveTypes DEF ArchInv, Behind
<1>6. Reached'
   BY <1>1, <1>3, <1>4 DEF ArchInv, Reached, HistoryRecorded
<1> QED BY <1>1, <1>2, <1>3, <1>4, <1>5, <1>6, RecordStepKeepsInv

-----------------------------------------------------------------------------
(* The expiry of the keys.                                                 *)
LEMMA ExpiresAtIs ==
    ASSUME ArchInv, NEW p \in Scanners
    PROVE  ExpiresAt(p) \in Time /\ ExpiresAt(p) # 0
<1>1. /\ proc[p].archivedAt \in Nat /\ clock \in Nat /\ clock <= MaxTime
      /\ proc[p].archivedAt <= clock
   BY ArchiveTypes, TimesAre DEF ArchInv, Progress, Behind, ProcState
<1>2. MaxTime \in Nat /\ HotRetention \in Nat /\ HotRetention # 0
   BY ArchiveAssumption DEF ArchiveAssumption
<1>3. /\ ExpiresAt(p) \in Nat /\ ExpiresAt(p) <= MaxTime + HotRetention /\ ExpiresAt(p) # 0
   BY <1>1, <1>2 DEF ExpiresAt
<1> QED BY <1>3, TimesAre

LEMMA ExpireKeepsInv == ASSUME ArchInv, NEW p \in Scanners, ExpireArchivedRun(p) PROVE ArchInv'
<1>1. /\ UNCHANGED <<clock, object, sql, queue, marker, watch>> /\ faults' \in 0..MaxFaults
      /\ proc[p].pc = "expire" /\ object = "report" /\ "confirm" \in PCs
   BY ArchiveTypes DEF ExpireArchivedRun, ArchInv, At, PCs
<1>2. proc[p].archivedAt <= clock /\ sql.finished /\ sql.archived # 0
   BY <1>1 DEF ArchInv, Progress, Behind
<1>3. CASE Stop(p) /\ UNCHANGED hot
   BY <1>1, <1>3, StopKeepsInv
<1>4. ASSUME Goto(p, "confirm"), hot' \in Copy, hot'.archived = hot.archived
      PROVE  ArchInv'
   <2>1. PICK m \in ProcState : /\ proc' = [proc EXCEPT ![p] = m] /\ m.pc = "confirm"
                                /\ m.archivedAt = proc[p].archivedAt
      BY <1>1, <1>4, GotoIs DEF ArchInv
   <2>2. Behind(m, hot', sql')
      BY <1>1, <1>2, <2>1 DEF Behind
   <2>3. Reached'
      BY <1>1, <1>2, <1>4 DEF ArchInv, Reached, HistoryRecorded
   <2>4. sql' \in RunRow /\ object' \in {"none", "report"}
      BY <1>1, ArchiveTypes DEF ArchInv
   <2> QED BY <1>1, <1>4, <2>1, <2>2, <2>3, <2>4, RecordStepKeepsInv
<1>5. CASE UNCHANGED hot /\ Goto(p, "confirm")
   BY <1>4, <1>5, ArchiveTypes DEF ArchInv
<1>6. CASE /\ Goto(p, "confirm") /\ hot' = Kept([hot EXCEPT !.expires = ExpiresAt(p)], clock)
   <2>1. hot \in Copy /\ ExpiresAt(p) \in Time
      BY ExpiresAtIs, ArchiveTypes DEF ArchInv
   <2> DEFINE copy == [hot EXCEPT !.expires = ExpiresAt(p)]
   <2>2. copy \in Copy /\ copy.archived = hot.archived
      BY <2>1 DEF Copy
   <2> HIDE DEF copy
   <2>3. hot' = Kept(copy, clock)
      BY <1>6 DEF copy
   <2>4. hot' \in Copy /\ hot'.archived = copy.archived
      BY <2>2, <2>3 DEF Kept, Copy
   <2> QED BY <1>4, <1>6, <2>2, <2>4
<1> QED BY <1>3, <1>5, <1>6 DEF ExpireArchivedRun

LEMMA ConfirmKeepsInv == ASSUME ArchInv, NEW p \in Scanners, RecordHotExpiry(p) PROVE ArchInv'
<1>1. /\ UNCHANGED <<clock, hot, object, queue, marker, watch>> /\ faults' \in 0..MaxFaults
      /\ sql' = [sql EXCEPT !.hotExpires = ExpiresAt(p)] /\ Stop(p)
   BY ArchiveTypes DEF RecordHotExpiry, ArchInv
<1>2. PICK m \in ProcState : /\ proc' = [proc EXCEPT ![p] = m] /\ m.pc = "idle"
                             /\ m.archivedAt = 0
   BY <1>1, StopIs
<1>3. sql \in RunRow /\ ExpiresAt(p) \in Time
   BY ExpiresAtIs, ArchiveTypes DEF ArchInv
<1>4. sql' \in RunRow /\ sql'.archived = sql.archived /\ sql'.finished = sql.finished
   BY <1>1, <1>3 DEF RunRow
<1>5. Behind(m, hot', sql') /\ hot' \in Copy /\ object' \in {"none", "report"}
   BY <1>1, <1>2, ArchiveTypes DEF ArchInv, Behind
<1>6. Reached'
   BY <1>1, <1>4 DEF ArchInv, Reached, HistoryRecorded
<1> QED BY <1>1, <1>2, <1>4, <1>5, <1>6, RecordStepKeepsInv

LEMMA ScannerCrashKeepsInv == ASSUME ArchInv, NEW p \in Scanners, Crash(p) PROVE ArchInv'
<1>1. /\ UNCHANGED <<clock, hot, object, sql, queue, marker, watch>> /\ Stop(p)
      /\ faults < MaxFaults /\ faults' = faults + 1
   BY DEF Crash
<1>2. faults' \in 0..MaxFaults
   <2>1. faults \in 0..MaxFaults /\ MaxFaults \in Nat
      BY ArchiveTypes, ArchiveAssumption DEF ArchInv, ArchiveAssumption
   <2> QED BY <1>1, <2>1
<1> QED BY <1>1, <1>2, StopKeepsInv

-----------------------------------------------------------------------------
(* The marker and the queue.                                               *)
\* What may happen to the messages of a retired run.
Shrinks(q, r) ==
    \A i \in Messages : r[i] \in {q[i], "gone"} \/ {q[i], r[i]} \subseteq {"stream", "leased"}

LEMMA EmptiedStays ==
    ASSUME NEW m, NEW w, NEW q, NEW r, Emptied(m, w, q), Shrinks(q, r)
    PROVE  Emptied(m, w, r)
BY DEF Emptied, Shrinks, InQueue

\* A step of RetireRun after its marker.
LEMMA RetireStepKeepsInv ==
    ASSUME ArchInv, UNCHANGED <<clock, hot, object, sql, marker, faults>>,
           queue' \in [Messages -> Places], Shrinks(queue, queue'),
           NEW p \in Scanners, NEW m \in ProcState, proc' = [proc EXCEPT ![p] = m],
           Behind(m, hot, sql),
           NEW w \in {"no", "scan", "done"}, watch' = [watch EXCEPT ![p] = w],
           w # "no" => watch[p] # "no" /\ Emptied(m, w, queue')
    PROVE  ArchInv'
<1>1. /\ proc' \in [Scanners -> ProcState] /\ proc'[p] = m
      /\ \A q \in Scanners : q # p => proc'[q] = proc[q]
   BY ScannerMoves DEF ArchInv
<1>2. /\ watch' \in [Scanners -> {"no", "scan", "done"}] /\ watch'[p] = w
      /\ \A q \in Scanners : q # p => watch'[q] = watch[q]
   BY ArchiveTypes DEF ArchInv
<1>3. ArchiveTypeOK'
   BY <1>1, <1>2 DEF ArchInv, ArchiveTypeOK, ProcState, PCs, Places
<1>4. Reached'
   BY DEF ArchInv, Reached, HistoryRecorded
<1>5. Progress'
   <2>1. Behind(m, hot', sql')
      OBVIOUS
   <2> QED BY <2>1, ProgressKept
<1>6. Cleared'
   <2> SUFFICES ASSUME NEW q \in Scanners, watch'[q] # "no"
                PROVE  Retired /\ Emptied(proc'[q], watch'[q], queue')
      BY DEF Cleared, Retired, Emptied
   <2>1. CASE q = p
      BY <1>1, <1>2, <2>1 DEF ArchInv, Cleared
   <2>2. CASE q # p
      <3>1. watch[q] # "no" /\ proc'[q] = proc[q] /\ watch'[q] = watch[q]
         BY <1>1, <1>2, <2>2
      <3>2. Retired /\ Emptied(proc[q], watch[q], queue)
         BY <3>1 DEF ArchInv, Cleared
      <3> QED BY <3>1, <3>2, EmptiedStays
   <2> QED BY <2>1, <2>2
<1> QED BY <1>3, <1>4, <1>5, <1>6 DEF ArchInv

LEMMA MessageMoves ==
    ASSUME ArchInv, NEW i \in Messages, NEW place \in Places, queue' = [queue EXCEPT ![i] = place]
    PROVE  /\ queue' \in [Messages -> Places] /\ queue'[i] = place
           /\ \A j \in Messages : j # i => queue'[j] = queue[j]
<1>1. queue \in [Messages -> Places]
   BY ArchiveTypes DEF ArchInv
<1> QED BY <1>1

LEMMA WatchKept ==
    ASSUME ArchInv, NEW p \in Scanners, UNCHANGED watch
    PROVE  watch[p] \in {"no", "scan", "done"} /\ watch' = [watch EXCEPT ![p] = watch[p]]
<1>1. watch \in [Scanners -> {"no", "scan", "done"}]
   BY ArchiveTypes DEF ArchInv
<1> QED BY <1>1

LEMMA EntriesKeepInv ==
    ASSUME ArchInv, NEW p \in Scanners, NEW c, NEW places, NEW d,
           \/ c = "stream" /\ places = {"stream", "leased"} /\ d = "dead"
           \/ c = "dead" /\ places = {"dead"} /\ d = "delay",
           RetireEntries(p, c, places, d)
    PROVE  ArchInv'
<1>1. UNCHANGED <<clock, hot, object, sql, marker, faults>> /\ proc[p].pc = c
   BY DEF RetireEntries, At
<1>2. /\ Behind(proc[p], hot, sql) /\ proc[p] \in ProcState /\ proc \in [Scanners -> ProcState]
      /\ watch[p] # "no" => Emptied(proc[p], watch[p], queue)
   BY ArchiveTypes DEF ArchInv, Progress, Cleared
<1>3. watch[p] \in {"no", "scan", "done"} /\ watch' = [watch EXCEPT ![p] = watch[p]]
   <2>1. UNCHANGED watch
      BY DEF RetireEntries
   <2> QED BY <2>1, WatchKept
<1>4. CASE /\ UNCHANGED proc
           /\ \E i \in Messages : queue[i] \in places /\ queue' = [queue EXCEPT ![i] = "gone"]
   <2>1. PICK i \in Messages : queue' = [queue EXCEPT ![i] = "gone"]
      BY <1>4
   <2>2. /\ queue' \in [Messages -> Places] /\ queue'[i] = "gone"
         /\ \A j \in Messages : j # i => queue'[j] = queue[j]
      BY <2>1, MessageMoves DEF Places
   <2>3. Shrinks(queue, queue')
      BY <2>2 DEF Shrinks
   <2>4. proc' = [proc EXCEPT ![p] = proc[p]]
      BY <1>2, <1>4
   <2>5. watch[p] # "no" => Emptied(proc[p], watch[p], queue')
      BY <1>2, <2>3, EmptiedStays
   <2> QED BY <1>1, <1>2, <1>3, <2>2, <2>3, <2>4, <2>5, RetireStepKeepsInv
<1>5. CASE /\ \A i \in Messages : queue[i] \notin places
           /\ UNCHANGED queue
           /\ proc' = [proc EXCEPT ![p].pc = d, ![p].todo = {i \in Messages : queue[i] = "delay"}]
   <2> DEFINE todo == {i \in Messages : queue[i] = "delay"}
              m == [proc[p] EXCEPT !.pc = d, !.todo = todo]
   <2>1. /\ m \in ProcState /\ m.pc = d /\ m.todo = todo /\ m.archivedAt = proc[p].archivedAt
      BY <1>2 DEF ProcState, PCs
   <2>2. proc' = [proc EXCEPT ![p] = m]
      BY <1>2, <1>5
   <2> HIDE DEF m
   <2>3. Behind(m, hot, sql)
      BY <1>1, <1>2, <2>1 DEF Behind
   <2>4. watch[p] # "no" => Emptied(m, watch[p], queue')
      BY <1>1, <1>2, <1>5, <2>1 DEF Emptied
   <2>5. queue' \in [Messages -> Places] /\ Shrinks(queue, queue')
      BY <1>5, ArchiveTypes DEF ArchInv, Shrinks
   <2> QED BY <1>1, <1>3, <2>1, <2>2, <2>3, <2>4, <2>5, RetireStepKeepsInv
<1> QED BY <1>4, <1>5 DEF RetireEntries

LEMMA DelayedKeepsInv == ASSUME ArchInv, NEW p \in Scanners, RetireDelayed(p) PROVE ArchInv'
<1>1. UNCHANGED <<clock, hot, object, sql, marker, faults>> /\ proc[p].pc = "delay"
   BY DEF RetireDelayed, At
<1>2. /\ Behind(proc[p], hot, sql) /\ proc[p] \in ProcState /\ proc \in [Scanners -> ProcState]
      /\ watch[p] # "no" => Emptied(proc[p], watch[p], queue)
      /\ watch \in [Scanners -> {"no", "scan", "done"}] /\ queue \in [Messages -> Places]
   BY ArchiveTypes DEF ArchInv, Progress, Cleared
<1>3. ASSUME NEW i \in proc[p].todo, UNCHANGED watch,
             queue' = [queue EXCEPT ![i] = IF @ = "delay" THEN "gone" ELSE @],
             proc' = [proc EXCEPT ![p].todo = @ \ {i}]
      PROVE  ArchInv'
   <2> DEFINE m == [proc[p] EXCEPT !.todo = @ \ {i}]
   <2>1. /\ m \in ProcState /\ m.pc = "delay" /\ m.todo = proc[p].todo \ {i}
         /\ m.archivedAt = proc[p].archivedAt /\ i \in Messages
      BY <1>1, <1>2 DEF ProcState
   <2>2. proc' = [proc EXCEPT ![p] = m]
      BY <1>2, <1>3
   <2> HIDE DEF m
   <2>3. Behind(m, hot, sql)
      BY <1>1, <1>2, <2>1 DEF Behind
   <2>4. /\ queue' \in [Messages -> Places] /\ queue'[i] \in {queue[i], "gone"}
         /\ queue'[i] # "delay"
         /\ \A j \in Messages : j # i => queue'[j] = queue[j]
      BY <1>2, <1>3, <2>1 DEF Places
   <2>5. Shrinks(queue, queue')
      BY <2>4 DEF Shrinks
   <2>6. watch[p] # "no" => Emptied(m, watch[p], queue')
      <3>1. watch[p] # "no" => Emptied(proc[p], watch[p], queue')
         BY <1>2, <2>5, EmptiedStays
      <3> QED BY <1>1, <2>1, <2>4, <3>1 DEF Emptied
   <2>7. watch[p] \in {"no", "scan", "done"} /\ watch' = [watch EXCEPT ![p] = watch[p]]
      BY <1>3, WatchKept
   <2> QED BY <1>1, <2>1, <2>2, <2>3, <2>4, <2>5, <2>6, <2>7, RetireStepKeepsInv
<1>4. CASE /\ proc[p].todo = {} /\ Goto(p, "expire") /\ UNCHANGED queue
           /\ watch' = [watch EXCEPT ![p] = IF @ = "scan" THEN "done" ELSE @]
   <2> DEFINE w == IF watch[p] = "scan" THEN "done" ELSE watch[p]
   <2>1. "expire" \in PCs /\ w \in {"no", "scan", "done"} /\ watch' = [watch EXCEPT ![p] = w]
      BY <1>2, <1>4 DEF PCs
   <2>2. PICK m \in ProcState : /\ proc' = [proc EXCEPT ![p] = m] /\ m.pc = "expire"
                                /\ m.archivedAt = proc[p].archivedAt
      BY <1>4, <2>1, GotoIs DEF ArchInv
   <2>3. Behind(m, hot, sql)
      BY <1>1, <1>2, <2>2 DEF Behind
   <2>4. w # "no" => watch[p] # "no" /\ Emptied(m, w, queue)
      BY <1>1, <1>2, <1>4, <2>2 DEF Emptied, InQueue
   <2>5. Shrinks(queue, queue') /\ queue' \in [Messages -> Places] /\ queue' = queue
      BY <1>2, <1>4 DEF Shrinks
   <2> HIDE DEF w
   <2> QED BY <1>1, <2>1, <2>2, <2>3, <2>4, <2>5, RetireStepKeepsInv
<1> QED BY <1>3, <1>4 DEF RetireDelayed

\* ZADD: the marker is on, or the archive is so old that it has lapsed already.
LEMMA MarkKeepsInv == ASSUME ArchInv, NEW p \in Scanners, RetireMark(p) PROVE ArchInv'
<1>1. /\ UNCHANGED <<clock, hot, object, sql, queue, faults>> /\ Goto(p, "stream")
      /\ proc[p].pc = "retire" /\ "stream" \in PCs
      /\ marker' = IF ExpiresAt(p) > clock THEN ExpiresAt(p) ELSE 0
      /\ watch' = IF marker' > clock THEN [watch EXCEPT ![p] = "scan"] ELSE Unwatched
   BY DEF RetireMark, At, PCs
<1>2. PICK m \in ProcState : /\ proc' = [proc EXCEPT ![p] = m] /\ m.pc = "stream"
                             /\ m.archivedAt = proc[p].archivedAt
   BY <1>1, GotoIs DEF ArchInv
<1>3. /\ proc' \in [Scanners -> ProcState] /\ proc'[p] = m
      /\ \A q \in Scanners : q # p => proc'[q] = proc[q]
   BY <1>2, ScannerMoves DEF ArchInv
<1>4. marker' \in Time
   BY <1>1, ExpiresAtIs, TimesAre
<1>5. watch \in [Scanners -> {"no", "scan", "done"}]
   BY ArchiveTypes DEF ArchInv
<1>6. watch' \in [Scanners -> {"no", "scan", "done"}]
   BY <1>1, <1>5 DEF Unwatched
<1>7. ArchiveTypeOK'
   BY <1>1, <1>3, <1>4, <1>6 DEF ArchInv, ArchiveTypeOK, ProcState, PCs
<1>8. Reached'
   BY <1>1 DEF ArchInv, Reached, HistoryRecorded
<1>9. Progress'
   <2>1. Behind(m, hot', sql')
      BY <1>1, <1>2 DEF ArchInv, Progress, Behind
   <2> QED BY <1>1, <1>2, <2>1, ProgressKept
<1>10. Cleared'
   <2>1. CASE ~(marker' > clock)
      BY <1>1, <2>1 DEF Cleared, Unwatched
   <2>2. CASE marker' > clock
      <3> SUFFICES ASSUME NEW q \in Scanners, watch'[q] # "no"
                   PROVE  Emptied(proc'[q], watch'[q], queue)
         BY <1>1, <2>2 DEF Cleared, Retired, Emptied
      <3>1. watch'[p] = "scan" /\ (q # p => watch'[q] = watch[q])
         BY <1>1, <1>5, <2>2
      <3>2. CASE q = p
         BY <1>2, <1>3, <3>1, <3>2 DEF Emptied
      <3>3. CASE q # p
         BY <1>3, <3>1, <3>3 DEF ArchInv, Cleared
      <3> QED BY <3>2, <3>3
   <2> QED BY <2>1, <2>2
<1> QED BY <1>7, <1>8, <1>9, <1>10 DEF ArchInv

\* Dispatchers, workers and the promotion of delayed tasks.
LEMMA QueueStepKeepsInv == ASSUME ArchInv, NEW i \in Messages, QueueStep(i) PROVE ArchInv'
<1>1. UNCHANGED <<clock, hot, object, sql, marker, proc, watch, faults>>
   BY DEF QueueStep
<1>2. PICK place \in Places : /\ queue' = [queue EXCEPT ![i] = place]
                              /\ Retired => \/ place = "gone"
                                            \/ {queue[i], place} \subseteq {"stream", "leased"}
   <2>1. Enqueue(i) \/ Dequeue(i) \/ Reclaim(i) \/ Ack(i) \/ Nack(i) \/ PromoteDue(i)
      BY DEF QueueStep
   <2>2. {"gone", "stream", "leased", "delay", "dead"} \subseteq Places
      BY DEF Places, InQueue
   <2>3. CASE Retired
      <3>1. \/ queue' = [queue EXCEPT ![i] = "gone"]
            \/ queue[i] = "stream" /\ queue' = [queue EXCEPT ![i] = "leased"]
            \/ queue[i] = "leased" /\ queue' = [queue EXCEPT ![i] = "stream"]
         BY <2>1, <2>3 DEF Enqueue, Dequeue, Reclaim, Ack, Nack, PromoteDue, Move
      <3> QED BY <2>2, <3>1
   <2>4. CASE ~Retired
      <3>1. \E place \in {"gone", "stream", "leased", "delay", "dead"} :
               queue' = [queue EXCEPT ![i] = place]
         BY <2>1, <2>4 DEF Enqueue, Dequeue, Reclaim, Ack, Nack, PromoteDue, Move
      <3> QED BY <2>2, <2>4, <3>1
   <2> QED BY <2>3, <2>4
<1>3. /\ queue' \in [Messages -> Places] /\ queue'[i] = place
      /\ \A j \in Messages : j # i => queue'[j] = queue[j]
   BY <1>2, MessageMoves
<1>4. ArchiveTypeOK'
   BY <1>1, <1>3 DEF ArchInv, ArchiveTypeOK, Places
<1>5. Reached' /\ Progress'
   BY <1>1 DEF ArchInv, Reached, HistoryRecorded, Progress, Behind
<1>6. Cleared'
   <2> SUFFICES ASSUME NEW q \in Scanners, watch[q] # "no"
                PROVE  Retired /\ Emptied(proc[q], watch[q], queue')
      BY <1>1 DEF Cleared, Retired, Emptied
   <2>1. Retired /\ Emptied(proc[q], watch[q], queue)
      BY DEF ArchInv, Cleared
   <2>2. Shrinks(queue, queue')
      BY <1>2, <1>3, <2>1 DEF Shrinks
   <2> QED BY <2>1, <2>2, EmptiedStays
<1> QED BY <1>4, <1>5, <1>6 DEF ArchInv

LEMMA TickKeepsInv == ASSUME ArchInv, Tick PROVE ArchInv'
<1>1. /\ clock < MaxTime /\ clock' = clock + 1 /\ hot' = Kept(hot, clock + 1)
      /\ watch' = IF marker > clock + 1 THEN watch ELSE Unwatched
      /\ UNCHANGED <<object, sql, queue, marker, proc, faults>>
   BY DEF Tick
<1>2. /\ clock \in Nat /\ clock > 0 /\ MaxTime \in Nat /\ hot \in Copy /\ sql \in RunRow
      /\ watch \in [Scanners -> {"no", "scan", "done"}] /\ Time \subseteq Nat
   BY ArchiveTypes, ArchiveAssumption, TimesAre DEF ArchInv, ArchiveAssumption
<1>3. clock' \in 1..MaxTime /\ clock' >= clock
   BY <1>1, <1>2
<1>4. /\ hot' \in Copy /\ hot'.archived = hot.archived /\ hot'.expires = hot.expires
      /\ ~hot'.present => ~hot.present \/ hot.expires # 0
   BY <1>1, <1>2 DEF Kept, Copy
<1>5. watch' \in [Scanners -> {"no", "scan", "done"}]
   BY <1>1, <1>2 DEF Unwatched
<1>6. ArchiveTypeOK'
   BY <1>1, <1>3, <1>4, <1>5 DEF ArchInv, ArchiveTypeOK, Copy
<1>7. Reached'
   <2>1. hot.archived \in Nat /\ sql.archived \in Nat
      BY <1>2 DEF Copy, RunRow
   <2>2. hot'.archived <= clock' /\ sql'.archived <= clock'
      BY <1>1, <1>2, <1>4, <2>1 DEF ArchInv, Reached
   <2> QED BY <1>1, <1>4, <2>2 DEF ArchInv, Reached, HistoryRecorded
<1>8. Progress'
   <2> SUFFICES ASSUME NEW p \in Scanners PROVE Behind(proc[p], hot, sql)'
      BY DEF Progress
   <2>1. proc[p].archivedAt \in Nat /\ Behind(proc[p], hot, sql)
      BY <1>2, ArchiveTypes DEF ArchInv, ProcState, Progress
   <2>2. proc[p].archivedAt <= clock'
      BY <1>1, <1>2, <2>1 DEF Behind
   <2> QED BY <1>1, <1>4, <2>1, <2>2 DEF Behind
<1>9. Cleared'
   BY <1>1 DEF ArchInv, Cleared, Emptied, Retired, Unwatched
<1> QED BY <1>6, <1>7, <1>8, <1>9 DEF ArchInv

-----------------------------------------------------------------------------
LEMMA ScannerStepKeepsInv == ASSUME ArchInv, NEW p \in Scanners, ScannerStep(p) PROVE ArchInv'
<1>1. CASE Scan(p) \/ FinalizeRun(p) \/ ArchiveRun(p) \/ PutReport(p) \/ Locate(p)
   BY <1>1, ScanKeepsInv, FinalizeKeepsInv, ArchiveRunKeepsInv, PutReportKeepsInv, LocateKeepsInv
<1>2. CASE Snapshot(p) \/ RecordArchivedRun(p) \/ RetireMark(p) \/ RetireDelayed(p)
   BY <1>2, SnapshotKeepsInv, RecordKeepsInv, MarkKeepsInv, DelayedKeepsInv
<1>3. CASE ExpireArchivedRun(p) \/ RecordHotExpiry(p)
   BY <1>3, ExpireKeepsInv, ConfirmKeepsInv
<1>4. CASE RetireEntries(p, "stream", {"stream", "leased"}, "dead")
   BY <1>4, EntriesKeepInv
<1>5. CASE RetireEntries(p, "dead", {"dead"}, "delay")
   BY <1>5, EntriesKeepInv
<1> QED BY <1>1, <1>2, <1>3, <1>4, <1>5 DEF ScannerStep

LEMMA ArchNext == ArchInv /\ [Next]_vars => ArchInv'
<1> SUFFICES ASSUME ArchInv, [Next]_vars PROVE ArchInv'
   OBVIOUS
<1>1. CASE \E p \in Scanners : ScannerStep(p) \/ PutFails(p) \/ Crash(p)
   BY <1>1, ScannerStepKeepsInv, PutFailsKeepsInv, ScannerCrashKeepsInv
<1>2. CASE \E i \in Messages : QueueStep(i)
   BY <1>2, QueueStepKeepsInv
<1>3. CASE Tick
   BY <1>3, TickKeepsInv
<1>4. CASE UNCHANGED vars
   BY <1>4 DEF vars, ArchInv, ArchiveTypeOK, Reached, HistoryRecorded, Progress, Behind, Cleared,
      Emptied, Retired
<1> QED BY <1>1, <1>2, <1>3, <1>4 DEF Next

LEMMA ArchInvariance == Spec => []ArchInv
BY ArchInit, ArchNext, PTL DEF Spec

\* Every copy, row, message and scanner is of its type; no time leaves its range.
THEOREM ArchiveTypeCorrect == Spec => []ArchiveTypeOK
<1>1. ArchInv => ArchiveTypeOK
   BY DEF ArchInv
<1> QED BY <1>1, ArchInvariance, PTL

\* ExpireArchivedRun: the Redis copy goes only when the report is stored and the
\* SQL row leads to it, whichever scanners stop, repeat or overtake each other.
THEOREM NothingIsForgotten == Spec => []HistoryIsKept
<1>1. ArchInv => HistoryIsKept
   BY DEF ArchInv, Reached, HistoryRecorded, HistoryIsKept
<1> QED BY <1>1, ArchInvariance, PTL

\* RetireRun: under its marker no message of the run comes back, from dispatchers,
\* redeliveries, retries or the delayed set.
THEOREM RetiredStaysQuiet == Spec => []RetiredIsQuiet
<1>1. ArchInv => RetiredIsQuiet
   BY DEF ArchInv, Cleared, Emptied, RetiredIsQuiet
<1> QED BY <1>1, ArchInvariance, PTL
=============================================================================
