----------------------------- MODULE RunArchive -----------------------------
(***************************************************************************)
(* What happens to one run after its terminal status: the durable scanners *)
(* finalize it in SQL, write its report to object storage, record the      *)
(* locator in Redis and in SQL, retire its queue entries, let the Redis    *)
(* keys expire and confirm that in SQL.  Every step may be the last one of *)
(* its process; another scan takes over from what is recorded.             *)
(*                                                                         *)
(* A terminal run does not change (RunStore, TerminalIsFinal), so every    *)
(* report of it is the same and the object is either there or not.         *)
(***************************************************************************)
EXTENDS Integers, FiniteSets

CONSTANTS Scanners, Messages,
          HotRetention,   \* ArchivePolicy.HotRetention, in ticks
          ArchiveBy,      \* bound: time at which no archiver is between read and locator
          MaxTime,        \* bound of the clock
          MaxFaults       \* bound: scanners that stop half way

ASSUME ArchiveAssumption ==
    /\ HotRetention \in Nat \ {0} /\ ArchiveBy \in Nat \ {0} /\ MaxFaults \in Nat
    /\ MaxTime \in Nat /\ MaxTime > ArchiveBy + HotRetention

VARIABLES clock,
          hot,       \* keys of the run in Redis: archived_at and their expiry, 0 if unset
          object,    \* "none" or "report"
          sql,       \* the row: finished_at, archived_at, hot_expires_at
          queue,     \* where the TaskBus has each message of the run
          marker,    \* score of the run in retired_runs, 0 if it is not a member
          proc,      \* the scanners
          watch,     \* history: RetireRun of a scanner under one unbroken marker
          faults

vars == <<clock, hot, object, sql, queue, marker, proc, watch, faults>>

Time == 0..(MaxTime + HotRetention)
InQueue == {"stream", "leased", "delay", "dead"}
\* archivedAt: of the snapshot in hand, 0 if it has none.  todo: of ZSCAN.
Idle == [pc |-> "idle", archivedAt |-> 0, todo |-> {}]

ArchiveTypeOK ==
    /\ clock \in 1..MaxTime /\ marker \in Time
    /\ hot \in [present : BOOLEAN, archived : Time, expires : Time]
    /\ object \in {"none", "report"}
    /\ sql \in [finished : BOOLEAN, archived : Time, hotExpires : Time]
    /\ queue \in [Messages -> InQueue \cup {"dispatcher", "gone"}]
    /\ proc \in [Scanners -> [pc : {"idle", "finalize", "archive", "put", "locate", "snapshot",
          "record", "retire", "stream", "dead", "delay", "expire", "confirm"},
          archivedAt : Time, todo : SUBSET Messages]]
    /\ watch \in [Scanners -> {"no", "scan", "done"}] /\ faults \in 0..MaxFaults

\* The run has just ended; dispatchers and workers may still have its messages.
Init ==
    /\ clock = 1
    /\ hot = [present |-> TRUE, archived |-> 0, expires |-> 0]
    /\ object = "none"
    /\ sql = [finished |-> FALSE, archived |-> 0, hotExpires |-> 0]
    /\ queue \in [Messages -> {"dispatcher", "stream", "leased", "delay"}]
    /\ marker = 0 /\ watch = [p \in Scanners |-> "no"] /\ faults = 0
    /\ proc = [p \in Scanners |-> Idle]

-----------------------------------------------------------------------------
At(p, pc) == proc[p].pc = pc
Goto(p, pc) == proc' = [proc EXCEPT ![p].pc = pc]
Stop(p) == proc' = [proc EXCEPT ![p] = Idle]
ExpiresAt(p) == proc[p].archivedAt + HotRetention
Retired == marker > clock
Unwatched == [p \in Scanners |-> "no"]
\* EXPIREAT with a time that has passed deletes the keys.
Kept(copy, now) == [copy EXCEPT !.present = @ /\ (copy.expires = 0 \/ now < copy.expires)]

Located == ~sql.finished \/ sql.archived = 0 \/ sql.hotExpires = 0

\* scan: RecoverRun finds the terminal run, or the keys are gone and
\* RecoverArchivedRun takes the snapshot from SQL and the object.
Scan(p) ==
    /\ At(p, "idle") /\ Located
    /\ \/ hot.present /\ Goto(p, "finalize")
       \/ /\ ~hot.present /\ sql.finished /\ sql.archived # 0 /\ object = "report"
          /\ proc' = [proc EXCEPT ![p] = [Idle EXCEPT !.pc = "retire", !.archivedAt = sql.archived]]
    /\ UNCHANGED <<clock, hot, object, sql, queue, marker, watch, faults>>

\* sessions.FinalizeRun (ServiceSession has its steps); it reads Redis too.
FinalizeRun(p) ==
    /\ At(p, "finalize")
    /\ IF hot.present THEN sql' = [sql EXCEPT !.finished = TRUE] /\ Goto(p, "archive")
                      ELSE Stop(p) /\ UNCHANGED sql
    /\ UNCHANGED <<clock, hot, object, queue, marker, watch, faults>>

\* ArchiveRun reads the run.  With a locator it only verifies the object.
ArchiveRun(p) ==
    /\ At(p, "archive")
    /\ \/ hot.present /\ hot.archived = 0 /\ Goto(p, "put")
       \/ hot.present /\ hot.archived # 0 /\ object = "report" /\ Goto(p, "snapshot")
       \/ ~(hot.present /\ (hot.archived # 0 => object = "report")) /\ Stop(p)
    /\ UNCHANGED <<clock, hot, object, sql, queue, marker, watch, faults>>

\* Put and the read back.  An error may come before or after the object is there.
PutReport(p) ==
    /\ At(p, "put")
    /\ object' = "report" /\ Goto(p, "locate")
    /\ UNCHANGED <<clock, hot, sql, queue, marker, watch, faults>>

PutFails(p) ==
    /\ At(p, "put") /\ faults < MaxFaults
    /\ faults' = faults + 1
    /\ object' \in {object, "report"} /\ Stop(p)
    /\ UNCHANGED <<clock, hot, sql, queue, marker, watch>>

\* The transaction on the state key compares version and event number, not
\* archived_at: a second archiver writes a later time.  HSET keeps a TTL.
Locate(p) ==
    /\ At(p, "locate")
    /\ IF hot.present THEN hot' = [hot EXCEPT !.archived = clock] /\ Goto(p, "snapshot")
                      ELSE Stop(p) /\ UNCHANGED hot
    /\ UNCHANGED <<clock, object, sql, queue, marker, watch, faults>>

\* Mutant: schedules the expiry before SQL has the locator.
Snapshot_SkipsRecord(p) ==
    /\ At(p, "snapshot")
    /\ IF hot.present THEN proc' = [proc EXCEPT ![p].pc = "retire", ![p].archivedAt = hot.archived]
                      ELSE Stop(p)
    /\ UNCHANGED <<clock, hot, object, sql, queue, marker, watch, faults>>

\* archive: Get of the run with its locator.
Snapshot(p) ==
    /\ At(p, "snapshot")
    /\ IF hot.present THEN proc' = [proc EXCEPT ![p].pc = "record", ![p].archivedAt = hot.archived]
                      ELSE Stop(p)
    /\ UNCHANGED <<clock, hot, object, sql, queue, marker, watch, faults>>

\* Mutant: confirms the expiry together with the locator.
RecordArchivedRun_Early(p) ==
    /\ At(p, "record") /\ sql.finished
    /\ sql' = [sql EXCEPT !.archived = proc[p].archivedAt, !.hotExpires = ExpiresAt(p)]
    /\ Goto(p, "retire")
    /\ UNCHANGED <<clock, hot, object, queue, marker, watch, faults>>

\* RecordArchivedRun and markArchive: the same key may be recorded again.
RecordArchivedRun(p) ==
    /\ At(p, "record") /\ sql.finished
    /\ sql' = [sql EXCEPT !.archived = proc[p].archivedAt]
    /\ Goto(p, "retire")
    /\ UNCHANGED <<clock, hot, object, queue, marker, watch, faults>>

-----------------------------------------------------------------------------
(* scheduleExpiry: RetireRun, ExpireArchivedRun, RecordHotExpiry.          *)

\* ZADD of the marker, then ZREMRANGEBYSCORE of those that lapsed.
RetireMark(p) ==
    /\ At(p, "retire") /\ object = "report"
    /\ marker' = IF ExpiresAt(p) > clock THEN ExpiresAt(p) ELSE 0
    /\ watch' = IF marker' > clock THEN [watch EXCEPT ![p] = "scan"] ELSE Unwatched
    /\ Goto(p, "stream")
    /\ UNCHANGED <<clock, hot, object, sql, queue, faults>>

\* XRANGE of the stream, then of the dead letters: entries go one by one, the
\* last range is empty.
RetireEntries(p, pc, places, next) ==
    /\ At(p, pc)
    /\ \/ \E m \in Messages : queue[m] \in places /\ queue' = [queue EXCEPT ![m] = "gone"]
          /\ UNCHANGED proc
       \/ /\ \A m \in Messages : queue[m] \notin places
          /\ UNCHANGED queue
          /\ proc' = [proc EXCEPT ![p].pc = next, ![p].todo = {m \in Messages : queue[m] = "delay"}]
    /\ UNCHANGED <<clock, hot, object, sql, marker, watch, faults>>

\* ZSCAN of the delay set: what is added during the scan may be missed.
RetireDelayed(p) ==
    /\ At(p, "delay")
    /\ \/ \E m \in proc[p].todo :
            /\ queue' = [queue EXCEPT ![m] = IF @ = "delay" THEN "gone" ELSE @]
            /\ proc' = [proc EXCEPT ![p].todo = @ \ {m}]
            /\ UNCHANGED watch
       \/ proc[p].todo = {} /\ Goto(p, "expire") /\ UNCHANGED queue
          /\ watch' = [watch EXCEPT ![p] = IF @ = "scan" THEN "done" ELSE @]
    /\ UNCHANGED <<clock, hot, object, sql, marker, faults>>

ExpireArchivedRun(p) ==
    /\ At(p, "expire") /\ object = "report"
    /\ \/ ~hot.present /\ clock >= ExpiresAt(p) /\ Goto(p, "confirm") /\ UNCHANGED hot
       \/ ~hot.present /\ clock < ExpiresAt(p) /\ Stop(p) /\ UNCHANGED hot
       \/ hot.present /\ hot.archived # 0 /\ ExpiresAt(p) > hot.archived /\ Goto(p, "confirm")
          /\ hot' = Kept([hot EXCEPT !.expires = ExpiresAt(p)], clock)
       \/ hot.present /\ ~(hot.archived # 0 /\ ExpiresAt(p) > hot.archived) /\ Stop(p) /\ UNCHANGED hot
    /\ UNCHANGED <<clock, object, sql, queue, marker, watch, faults>>

RecordHotExpiry(p) ==
    /\ At(p, "confirm") /\ sql.finished /\ sql.archived # 0
    /\ sql' = [sql EXCEPT !.hotExpires = ExpiresAt(p)]
    /\ Stop(p)
    /\ UNCHANGED <<clock, hot, object, queue, marker, watch, faults>>

Crash(p) ==
    /\ ~At(p, "idle") /\ faults < MaxFaults
    /\ faults' = faults + 1 /\ Stop(p)
    /\ UNCHANGED <<clock, hot, object, sql, queue, marker, watch>>

-----------------------------------------------------------------------------
(* The TaskBus under the marker.  A dispatcher that read the outbox before *)
(* the run ended still enqueues; workers still hold deliveries.            *)
Move(m, place) == queue' = [queue EXCEPT ![m] = place]

Enqueue(m) ==
    /\ queue[m] = "dispatcher"
    /\ IF Retired THEN Move(m, "gone") ELSE \E place \in {"stream", "delay"} : Move(m, place)
Dequeue(m) == queue[m] = "stream" /\ Move(m, "leased")
Reclaim(m) == queue[m] = "leased" /\ Move(m, "stream")
Ack(m) == queue[m] = "leased" /\ Move(m, "gone")

Nack(m) ==
    /\ queue[m] = "leased"
    /\ IF Retired THEN Move(m, "gone") ELSE \E place \in {"stream", "delay", "dead"} : Move(m, place)

\* Mutant: promotes whatever is due.
PromoteDue_Unmarked(m) == queue[m] = "delay" /\ Move(m, "stream")

PromoteDue(m) == queue[m] = "delay" /\ Move(m, IF Retired THEN "gone" ELSE "stream")

QueueStep(m) ==
    /\ Enqueue(m) \/ Dequeue(m) \/ Reclaim(m) \/ Ack(m) \/ Nack(m) \/ PromoteDue(m)
    /\ UNCHANGED <<clock, hot, object, sql, marker, proc, watch, faults>>

-----------------------------------------------------------------------------
Tick ==
    /\ clock < MaxTime
    /\ clock >= ArchiveBy => hot.archived # 0 /\ \A p \in Scanners : proc[p].pc \notin {"put", "locate"}
    /\ clock' = clock + 1
    /\ hot' = Kept(hot, clock + 1)
    /\ watch' = IF marker > clock + 1 THEN watch ELSE Unwatched
    /\ UNCHANGED <<object, sql, queue, marker, proc, faults>>

ScannerStep(p) ==
    \/ Scan(p) \/ FinalizeRun(p) \/ ArchiveRun(p) \/ PutReport(p) \/ Locate(p) \/ Snapshot(p)
    \/ RecordArchivedRun(p) \/ RetireMark(p)
    \/ RetireEntries(p, "stream", {"stream", "leased"}, "dead") \/ RetireEntries(p, "dead", {"dead"}, "delay")
    \/ RetireDelayed(p) \/ ExpireArchivedRun(p) \/ RecordHotExpiry(p)

Next ==
    \/ \E p \in Scanners : ScannerStep(p) \/ PutFails(p) \/ Crash(p)
    \/ \E m \in Messages : QueueStep(m)
    \/ Tick

Spec == Init /\ [][Next]_vars
\* The scan loop repeats and time passes.
FairSpec == Spec /\ WF_vars(Tick) /\ \A p \in Scanners : WF_vars(ScannerStep(p))

-----------------------------------------------------------------------------
\* ArchiveRun, ExpireArchivedRun: the Redis copy is dropped only when the
\* report is in the object store and the SQL row leads to it, so that
\* invocationSnapshot always finds the run somewhere.
HistoryIsKept ==
    ~hot.present => object = "report" /\ sql.finished /\ sql.archived # 0

\* RetireRun: from its end until its marker lapses no message of the run is in
\* the stream, delayed, dead or being worked on, whatever dispatchers, workers
\* and the promotion of delayed tasks do meanwhile.
RetiredIsQuiet ==
    (\E p \in Scanners : watch[p] = "done") => \A m \in Messages : queue[m] \notin InQueue

\* Whatever stops between object, locator, SQL, expiry and confirmation, the
\* run is confirmed as expired in the end, and then its keys really go:
\* RecordHotExpiry ends the scanning of the row, nobody would free them later.
EventuallyConfirmed ==
    <>[](sql.hotExpires # 0 /\ (~hot.present \/ hot.expires # 0))
=============================================================================
