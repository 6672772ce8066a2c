--------------------------- MODULE ServiceSession ---------------------------
(***************************************************************************)
(* Sessions of a plugin's service actor and their invocations: the SQL     *)
(* rows of agent_session, the request handlers, the executors of the local *)
(* mode, and for the durable mode the admission anchor, the scanner's      *)
(* ListUnfinishedRuns and FinalizeRun.                                     *)
(*                                                                         *)
(* WithSession locks the session row, so what runs under it is one action. *)
(* The durable run is represented by its status in Redis; AgentRun models  *)
(* how it gets there.  Several terminal statuses that are not "completed"  *)
(* are treated alike by this code; "failed" stands for them.               *)
(***************************************************************************)
EXTENDS Integers, FiniteSets, FiniteSetsExt

CONSTANTS Sessions, Invocations,
          Layouts,        \* which session the invocations (idempotency keys) belong to
          Modes,          \* modes of the deployed processes: "local", "durable"
          Handlers,       \* request goroutines
          Scanners,       \* worker services
          MaxRevision,    \* bound: revisions in all at which users still write
          MaxFaults       \* bound: handlers and scanners that stop half way

ASSUME SessionAssumption ==
    /\ Layouts \subseteq [Invocations -> Sessions]
    /\ Modes \subseteq {"local", "durable"}
    /\ Handlers \cap Scanners = {} /\ "user" \notin Invocations
    /\ MaxRevision \in Nat /\ MaxFaults \in Nat

VARIABLES session,    \* ServiceSession rows
          sessionOf,  \* session_id of the invocations, chosen by the caller
          inv,        \* ServiceInvocation rows
          messages,   \* ServiceMessage rows, per session
          run,        \* status of the run in Redis
          executor,   \* goroutines of the local mode
          proc,       \* handlers and scanners
          exposed,    \* history: invocations whose completion a reader was told of
          faults

vars == <<session, sessionOf, inv, messages, run, executor, proc, exposed, faults>>
Processes == Handlers \cup Scanners

Active == {"accepted", "running", "cancelling"}
RunTerminal == {"completed", "failed", "cancelled"}
NoRow == [mode |-> "none", admission |-> "", status |-> "", finished |-> FALSE,
          cancel |-> FALSE, past |-> FALSE]
\* i: the invocation in hand.  admission, finished: of the row as it was read.
\* pend, rows: what ListUnfinishedRuns still has to admit, and to return.
\* then: where FinalizeRun returns to.
Idle == [pc |-> "idle", i |-> {}, admission |-> "", finished |-> FALSE,
         pend |-> {}, rows |-> {}, then |-> "idle"]

SessionTypeOK ==
    /\ session \in [Sessions -> [status : {"active", "archived", "deleted"}, rev : Nat]]
    /\ sessionOf \in Layouts
    /\ inv \in [Invocations ->
         [mode : {"none", "local", "durable"}, admission : {"", "pending_create", "admitted"},
          status : {"", "succeeded"} \cup Active \cup RunTerminal,
          finished : BOOLEAN, cancel : BOOLEAN, past : BOOLEAN]]
    /\ messages \in [Sessions -> SUBSET [seq : Nat, by : Invocations \cup {"user"}]]
    /\ run \in [Invocations -> {"absent", "accepted", "planning"} \cup RunTerminal]
    /\ executor \in [Invocations -> {"none", "running", "succeeded", "failed"}]
    /\ proc \in [Processes ->
         [pc : {"idle", "admit", "mark", "submit", "get", "fin_read", "fin", "expose",
                "scan", "scan_mark"},
          i : SUBSET Invocations, admission : {"", "pending_create", "admitted"},
          finished : BOOLEAN, pend : SUBSET Invocations, rows : SUBSET Invocations,
          then : {"idle", "expose", "scan"}]]
    /\ exposed \subseteq Invocations /\ faults \in 0..MaxFaults

Init ==
    /\ session = [s \in Sessions |-> [status |-> "active", rev |-> 1]]
    /\ sessionOf \in Layouts
    /\ inv = [i \in Invocations |-> NoRow]
    /\ messages = [s \in Sessions |-> {}]
    /\ run = [i \in Invocations |-> "absent"]
    /\ executor = [i \in Invocations |-> "none"]
    /\ proc = [p \in Processes |-> Idle]
    /\ exposed = {} /\ faults = 0

-----------------------------------------------------------------------------
At(p, pc) == proc[p].pc = pc
Of(p, i) == proc[p].i = {i}
Goto(p, pc) == proc' = [proc EXCEPT ![p].pc = pc]
Stop(p) == proc' = [proc EXCEPT ![p] = Idle]
Rest == UNCHANGED <<sessionOf, exposed, faults>>

\* ExpireInvocations: only rows of the local mode.
ExpireInvocations(s) ==
    [i \in Invocations |->
       IF sessionOf[i] = s /\ inv[i].mode = "local" /\ inv[i].status \in Active /\ inv[i].past
       THEN [inv[i] EXCEPT !.status = "failed", !.finished = TRUE] ELSE inv[i]]
ActiveInvocations(rows, s) == {i \in Invocations : sessionOf[i] = s /\ rows[i].status \in Active}
Deadlined(i) == inv[i].past

\* InsertMessage and SaveSession with the next revision.
Answer(s, i) ==
    /\ session' = [session EXCEPT ![s].rev = @ + 1]
    /\ messages' = [messages EXCEPT ![s] = @ \cup {[seq |-> session[s].rev + 1, by |-> i]}]

-----------------------------------------------------------------------------
(* Session operations.                                                     *)
\* A session nobody invokes is left alone.
UserWrites(s) ==
    LET used == {sessionOf[i] : i \in Invocations} IN
    s \in used /\ MapThenSumSet(LAMBDA u : session[u].rev, used) < MaxRevision

Append(s) ==
    /\ session[s].status = "active" /\ UserWrites(s)
    /\ Answer(s, "user")
    /\ UNCHANGED <<inv, run, executor, proc>> /\ Rest

Mutate(s, operation) ==
    LET rows == ExpireInvocations(s) IN
    /\ session[s].status # "deleted" /\ UserWrites(s)
    /\ ActiveInvocations(rows, s) = {}
    /\ operation = "rename" => session[s].status = "active"
    /\ session' = [session EXCEPT ![s].rev = @ + 1,
         ![s].status = CASE operation = "rename" -> @ [] operation = "archive" -> "archived"
                         [] operation = "delete" -> "deleted"]
    /\ inv' = rows
    /\ UNCHANGED <<messages, run, executor, proc>> /\ Rest

-----------------------------------------------------------------------------
(* Invoke.  The transaction finds the row of the key or inserts it.        *)
\* Mutant: the active invocations of the session are not asked for.
Insertable_NoCount(rows, i) == session[sessionOf[i]].status = "active"

Insertable(rows, i) ==
    /\ session[sessionOf[i]].status = "active"
    /\ ActiveInvocations(rows, sessionOf[i]) = {}

Invoke(h, i, mode) ==
    LET rows == ExpireInvocations(sessionOf[i]) IN
    /\ At(h, "idle") /\ session[sessionOf[i]].status # "deleted"
    /\ UNCHANGED <<session, messages, run>> /\ Rest
    /\ \/ /\ rows[i].mode = mode
          /\ inv' = rows /\ UNCHANGED executor
       \/ /\ rows[i].mode = "none" /\ Insertable(rows, i)
          /\ inv' = [rows EXCEPT ![i] =
               [NoRow EXCEPT !.mode = mode,
                  !.status = IF mode = "durable" THEN "accepted" ELSE "running",
                  !.admission = IF mode = "durable" THEN "pending_create" ELSE ""]]
          /\ executor' = IF mode = "local" THEN [executor EXCEPT ![i] = "running"] ELSE executor
    /\ proc' = IF mode = "local" THEN proc
               ELSE [proc EXCEPT ![h] = [Idle EXCEPT !.pc = "admit", !.i = {i},
                       !.admission = inv'[i].admission, !.finished = inv'[i].finished]]

\* admitDurable, up to Create.  The row is the one the transaction returned.
AdmitDurable(h, i) ==
    /\ At(h, "admit") /\ Of(h, i)
    /\ UNCHANGED <<session, inv, messages, executor>> /\ Rest
    /\ \/ proc[h].admission = "admitted" /\ Goto(h, "submit") /\ UNCHANGED run
       \/ proc[h].admission = "pending_create" /\ Deadlined(i) /\ Stop(h) /\ UNCHANGED run
       \/ /\ proc[h].admission = "pending_create" /\ ~Deadlined(i)
          /\ IF run[i] = "absent" THEN run' = [run EXCEPT ![i] = "accepted"] ELSE UNCHANGED run
          /\ IF run'[i] = "accepted" THEN Goto(h, "mark") ELSE Stop(h)

\* MarkInvocationAdmitted, or the row is already marked.
MarkInvocationAdmitted(h, i) ==
    /\ At(h, "mark") /\ Of(h, i)
    /\ inv' = [inv EXCEPT ![i].admission = "admitted"]
    /\ Goto(h, "submit")
    /\ UNCHANGED <<session, messages, run, executor>> /\ Rest

\* submitPlanning: StartPlanning on an accepted run; otherwise it only dispatches.
SubmitPlanning(h, i) ==
    /\ At(h, "submit") /\ Of(h, i)
    /\ run' = IF ~proc[h].finished /\ run[i] = "accepted" /\ ~Deadlined(i)
              THEN [run EXCEPT ![i] = "planning"] ELSE run
    /\ Stop(h)
    /\ UNCHANGED <<session, inv, messages, executor>> /\ Rest

-----------------------------------------------------------------------------
(* The run.  Workers end it; a cancellation needs an admitted row.         *)
RunEnds(i) ==
    /\ run[i] = "planning"
    /\ \E status \in {"completed", "failed"} : run' = [run EXCEPT ![i] = status]
    /\ UNCHANGED <<session, inv, messages, executor, proc>> /\ Rest

CancelDurable(i) ==
    /\ inv[i].admission = "admitted" /\ session[sessionOf[i]].status # "deleted"
    /\ run[i] \in {"accepted", "planning"}
    /\ run' = [run EXCEPT ![i] = "cancelled"]
    /\ UNCHANGED <<session, inv, messages, executor, proc>> /\ Rest

Deadline(i) ==
    /\ inv[i].mode # "none" /\ ~inv[i].past
    /\ inv' = [inv EXCEPT ![i].past = TRUE]
    /\ UNCHANGED <<session, messages, run, executor, proc>> /\ Rest

-----------------------------------------------------------------------------
(* GetInvocation of a durable row: the row, then Redis, then FinalizeRun.  *)
GetRow(h, i) ==
    /\ At(h, "idle") /\ inv[i].admission = "admitted" /\ session[sessionOf[i]].status # "deleted"
    /\ proc' = [proc EXCEPT ![h] = [Idle EXCEPT !.pc = "get", !.i = {i}, !.finished = inv[i].finished]]
    /\ UNCHANGED <<session, inv, messages, run, executor>> /\ Rest

\* Mutant: exposes the terminal status without finalizing first.
GetRun_NoFinalize(h, i) ==
    /\ At(h, "get") /\ Of(h, i)
    /\ IF run[i] \in RunTerminal THEN Goto(h, "expose") ELSE Stop(h)
    /\ UNCHANGED <<session, inv, messages, run, executor>> /\ Rest

GetRun(h, i) ==
    /\ At(h, "get") /\ Of(h, i)
    /\ \/ run[i] \notin RunTerminal /\ Stop(h)
       \/ run[i] \in RunTerminal /\ proc[h].finished /\ Goto(h, "expose")
       \/ /\ run[i] \in RunTerminal /\ ~proc[h].finished
          /\ proc' = [proc EXCEPT ![h].pc = "fin_read", ![h].then = "expose"]
    /\ UNCHANGED <<session, inv, messages, run, executor>> /\ Rest

Expose(h, i) ==
    /\ At(h, "expose") /\ Of(h, i)
    /\ exposed' = IF run[i] = "completed" THEN exposed \cup {i} ELSE exposed
    /\ Stop(h)
    /\ UNCHANGED <<session, sessionOf, inv, messages, run, executor, faults>>

\* FinalizeRun: the checks on anchor and run, then the transaction.
FinalizeRead(p, i) ==
    /\ At(p, "fin_read") /\ Of(p, i)
    /\ \/ inv[i].admission = "admitted" /\ run[i] \in RunTerminal /\ ~inv[i].finished /\ Goto(p, "fin")
       \/ inv[i].admission = "admitted" /\ run[i] \in RunTerminal /\ inv[i].finished
          /\ Goto(p, proc[p].then)
       \/ ~(inv[i].admission = "admitted" /\ run[i] \in RunTerminal)
          /\ IF proc[p].then = "scan" THEN Goto(p, "scan") ELSE Stop(p)
    /\ UNCHANGED <<session, inv, messages, run, executor>> /\ Rest

\* Mutant: does not look at FinishedAt again under the lock.
FinalizeCommit_NoRecheck(p, i) ==
    LET s == sessionOf[i] IN
    /\ At(p, "fin") /\ Of(p, i) /\ Goto(p, proc[p].then)
    /\ IF run[i] = "completed" /\ session[s].status # "deleted" THEN Answer(s, i)
       ELSE UNCHANGED <<session, messages>>
    /\ inv' = [inv EXCEPT ![i].status = run[i], ![i].finished = TRUE]
    /\ UNCHANGED <<run, executor>> /\ Rest

FinalizeCommit(p, i) ==
    LET s == sessionOf[i] IN
    /\ At(p, "fin") /\ Of(p, i) /\ Goto(p, proc[p].then)
    /\ UNCHANGED <<run, executor>> /\ Rest
    /\ \/ inv[i].finished /\ UNCHANGED <<session, inv, messages>>
       \/ /\ ~inv[i].finished
          /\ IF run[i] = "completed" /\ session[s].status # "deleted" THEN Answer(s, i)
             ELSE UNCHANGED <<session, messages>>
          /\ inv' = [inv EXCEPT ![i].status = run[i], ![i].finished = TRUE]

-----------------------------------------------------------------------------
(* The scanner: ListUnfinishedRuns admits what is pending, and only if it  *)
(* gets through all of it the rows are recovered and finalized.            *)
Scan(p) ==
    LET rows == {i \in Invocations : inv[i].admission # "" /\ ~inv[i].finished} IN
    /\ At(p, "idle") /\ rows # {}
    /\ proc' = [proc EXCEPT ![p] = [Idle EXCEPT !.pc = "scan", !.rows = rows,
                  !.pend = {i \in rows : inv[i].admission = "pending_create"}]]
    /\ UNCHANGED <<session, inv, messages, run, executor>> /\ Rest

\* WithSession: the row is read again, RecoverAdmission creates the run.
ScanAdmit(p, i) ==
    /\ At(p, "scan") /\ i \in proc[p].pend
    /\ UNCHANGED <<session, inv, messages, executor>> /\ Rest
    /\ \/ /\ inv[i].admission # "pending_create" /\ UNCHANGED run
          /\ proc' = [proc EXCEPT ![p].pend = @ \ {i}]
       \/ /\ inv[i].admission = "pending_create"
          /\ run' = IF run[i] # "absent" THEN run
                    ELSE [run EXCEPT ![i] = IF Deadlined(i) THEN "failed" ELSE "accepted"]
          /\ IF run'[i] \in {"accepted", "failed"}
             THEN proc' = [proc EXCEPT ![p].pc = "scan_mark", ![p].i = {i}]
             ELSE Stop(p)

\* No row updated: the whole scan returns an error.
ScanMark(p, i) ==
    /\ At(p, "scan_mark") /\ Of(p, i)
    /\ \/ /\ inv[i].admission = "pending_create"
          /\ inv' = [inv EXCEPT ![i].admission = "admitted"]
          /\ proc' = [proc EXCEPT ![p].pc = "scan", ![p].pend = @ \ {i}]
       \/ inv[i].admission # "pending_create" /\ Stop(p) /\ UNCHANGED inv
    /\ UNCHANGED <<session, messages, run, executor>> /\ Rest

\* Mutant: a run that nobody submitted is left to the request that admitted it.
ScanRow_NoSubmit(p, i) ==
    /\ At(p, "scan") /\ proc[p].pend = {} /\ i \in proc[p].rows
    /\ run' = CASE run[i] = "planning" /\ Deadlined(i) -> [run EXCEPT ![i] = "failed"]
                [] OTHER -> run
    /\ proc' = [proc EXCEPT ![p].rows = @ \ {i}, ![p].i = {i}, ![p].then = "scan",
                            ![p].pc = IF run'[i] \in RunTerminal THEN "fin_read" ELSE "scan"]
    /\ UNCHANGED <<session, inv, messages, executor>> /\ Rest

\* RecoverRun of one row: a missing submission or the deadline, then FinalizeRun.
ScanRow(p, i) ==
    /\ At(p, "scan") /\ proc[p].pend = {} /\ i \in proc[p].rows
    /\ run' = CASE run[i] \in {"accepted", "planning"} /\ Deadlined(i) -> [run EXCEPT ![i] = "failed"]
                [] run[i] = "accepted" /\ ~Deadlined(i) -> [run EXCEPT ![i] = "planning"]
                [] OTHER -> run
    /\ proc' = [proc EXCEPT ![p].rows = @ \ {i}, ![p].i = {i}, ![p].then = "scan",
                            ![p].pc = IF run'[i] \in RunTerminal THEN "fin_read" ELSE "scan"]
    /\ UNCHANGED <<session, inv, messages, executor>> /\ Rest

ScanDone(p) ==
    /\ At(p, "scan") /\ proc[p].pend = {} /\ proc[p].rows = {} /\ Stop(p)
    /\ UNCHANGED <<session, inv, messages, run, executor>> /\ Rest

-----------------------------------------------------------------------------
(* The local mode: one goroutine per invocation.                           *)
Executed(i) ==
    /\ executor[i] = "running"
    /\ \E result \in {"succeeded", "failed"} :
         /\ result = "succeeded" => ~Deadlined(i)
         /\ executor' = [executor EXCEPT ![i] = result]
    /\ UNCHANGED <<session, inv, messages, run, proc>> /\ Rest

\* Mutant: commits its result whatever happened to the row meanwhile.
ExecuteFinish_Late(i) ==
    /\ executor[i] \in {"succeeded", "failed"}
    /\ executor' = [executor EXCEPT ![i] = "none"]
    /\ inv' = [inv EXCEPT ![i].status = executor[i], ![i].finished = TRUE]
    /\ IF executor[i] = "succeeded" THEN Answer(sessionOf[i], i) ELSE UNCHANGED <<session, messages>>
    /\ UNCHANGED <<run, proc>> /\ Rest

ExecuteFinish(i) ==
    LET status == IF inv[i].cancel THEN "cancelled" ELSE executor[i] IN
    /\ executor[i] \in {"succeeded", "failed"}
    /\ executor' = [executor EXCEPT ![i] = "none"]
    /\ UNCHANGED <<run, proc>> /\ Rest
    /\ \/ inv[i].status \notin Active /\ UNCHANGED <<session, inv, messages>>
       \/ /\ inv[i].status \in Active
          /\ inv' = [inv EXCEPT ![i].status = status, ![i].finished = TRUE]
          /\ IF status = "succeeded" THEN Answer(sessionOf[i], i) ELSE UNCHANGED <<session, messages>>

\* The process exits, or the last transaction fails: nobody retries.
ExecutorLost(i) ==
    /\ executor[i] # "none"
    /\ executor' = [executor EXCEPT ![i] = "none"]
    /\ UNCHANGED <<session, inv, messages, run, proc>> /\ Rest

CancelInvocation(i) ==
    /\ inv[i].mode = "local" /\ inv[i].status = "running"
    /\ inv' = [inv EXCEPT ![i].status = "cancelling", ![i].cancel = TRUE]
    /\ UNCHANGED <<session, messages, run, executor, proc>> /\ Rest

\* GetInvocation of a local row past its deadline.
ExpireOnRead(i) ==
    /\ inv[i].mode = "local" /\ inv[i].status \in Active /\ Deadlined(i)
    /\ inv' = [inv EXCEPT ![i].status = "failed", ![i].finished = TRUE]
    /\ UNCHANGED <<session, messages, run, executor, proc>> /\ Rest

-----------------------------------------------------------------------------
\* A handler or scanner dies, or an SQL or Redis error makes it return.
Crash(p) ==
    /\ ~At(p, "idle") /\ faults < MaxFaults
    /\ faults' = faults + 1 /\ Stop(p)
    /\ UNCHANGED <<session, sessionOf, inv, messages, run, executor, exposed>>

HandlerStep(h, i) ==
    \/ AdmitDurable(h, i) \/ MarkInvocationAdmitted(h, i) \/ SubmitPlanning(h, i)
    \/ GetRow(h, i) \/ GetRun(h, i) \/ Expose(h, i)
    \/ FinalizeRead(h, i) \/ FinalizeCommit(h, i)

ScannerStep(p) ==
    \/ Scan(p) \/ ScanDone(p)
    \/ \E i \in Invocations : ScanAdmit(p, i) \/ ScanMark(p, i) \/ ScanRow(p, i)
                              \/ FinalizeRead(p, i) \/ FinalizeCommit(p, i)

LocalStep(i) ==
    Executed(i) \/ ExecuteFinish(i) \/ ExecutorLost(i) \/ CancelInvocation(i) \/ ExpireOnRead(i)

Next ==
    \/ \E s \in Sessions : Append(s) \/ \E op \in {"rename", "archive", "delete"} : Mutate(s, op)
    \/ \E h \in Handlers, i \in Invocations :
         HandlerStep(h, i) \/ \E mode \in Modes : Invoke(h, i, mode)
    \/ \E i \in Invocations : RunEnds(i) \/ CancelDurable(i) \/ Deadline(i) \/ LocalStep(i)
    \/ \E p \in Scanners : ScannerStep(p)
    \/ \E p \in Processes : Crash(p)

Spec == Init /\ [][Next]_vars
\* The scanner repeats and deadlines pass.  Nothing is asked of handlers.
FairSpec ==
    Spec /\ \A p \in Scanners : WF_vars(ScannerStep(p)) /\ \A i \in Invocations : WF_vars(Deadline(i))

-----------------------------------------------------------------------------
AnswersOf(i) == {m \in messages[sessionOf[i]] : m.by = i}

\* Invoke: a session runs one invocation at a time, whatever is retried,
\* cancelled, expired or crashed, and a deleted session runs none.
OneActiveInvocation ==
    \A s \in Sessions :
        /\ Cardinality(ActiveInvocations(inv, s)) <= 1
        /\ session[s].status = "deleted" => ActiveInvocations(inv, s) = {}

\* FinalizeRun and execute: an invocation that succeeded has exactly one
\* assistant message, every other one has none, and positions are not reused.
OneAnswer ==
    /\ \A i \in Invocations :
         Cardinality(AnswersOf(i)) = IF inv[i].finished /\ inv[i].status \in {"completed", "succeeded"}
                                     THEN 1 ELSE 0
    /\ \A s \in Sessions : \A m, n \in messages[s] :
         (m.seq = n.seq => m = n) /\ m.seq <= session[s].rev

\* GetInvocation: a completion is shown only after its message is committed.
CompletionHasMessage == \A i \in exposed : AnswersOf(i) # {}

\* A late executor, an expiry, a cancellation or a second finalizer does not
\* change what a finished invocation says.
FinishedIsFinal ==
    [][\A i \in Invocations : inv[i].finished =>
         inv'[i].finished /\ inv'[i].status = inv[i].status]_vars

\* ListUnfinishedRuns: the scan is all or nothing and races with requests that
\* mark rows themselves; still every durable invocation is finished.
EventuallyFinished ==
    \A i \in Invocations : inv[i].mode = "durable" ~> inv[i].finished
=============================================================================
