------------------------ MODULE ServiceSessionProofs ------------------------
(***************************************************************************)
(* Proofs about sessions and invocations, for any number of them, of       *)
(* request handlers, of worker services and of steps they stop half way.   *)
(* SessInv relates what the SQL rows, the run in Redis and a process that  *)
(* read one before the other say of an invocation.                         *)
(***************************************************************************)
EXTENDS ServiceSession, TLAPS, FiniteSetTheorems

SessionRow == [status : {"active", "archived", "deleted"}, rev : Nat]
Row == [mode : {"none", "local", "durable"}, admission : {"", "pending_create", "admitted"},
        status : {"", "succeeded"} \cup Active \cup RunTerminal,
        finished : BOOLEAN, cancel : BOOLEAN, past : BOOLEAN]
Message == [seq : Nat, by : Invocations \cup {"user"}]
RunStatus == {"absent", "accepted", "planning"} \cup RunTerminal
Result == {"none", "running", "succeeded", "failed"}
ProcState == [pc : {"idle", "admit", "mark", "submit", "get", "fin_read", "fin", "expose",
                    "scan", "scan_mark"},
              i : SUBSET Invocations, admission : {"", "pending_create", "admitted"},
              finished : BOOLEAN, pend : SUBSET Invocations, rows : SUBSET Invocations,
              then : {"idle", "expose", "scan"}]

Ended == {"succeeded"} \cup RunTerminal

\* A row x, the run r of its key and the goroutine e that executes it.
Consistent(x, r, e) ==
    /\ x.mode = "none" => x = NoRow
    /\ x.mode # "none" => x.status # ""
    /\ x.admission # "" <=> x.mode = "durable"
    /\ x.finished <=> x.status \in Ended
    /\ x.mode = "durable" /\ x.finished => r = x.status
    /\ e # "none" => x.mode = "local"

RowsConsistent == \A i \in Invocations : Consistent(inv[i], run[i], executor[i])

\* What the process m has read of its invocation is still so: handlers work on
\* durable rows, a terminal run stays, and only a finished row is exposed.
StillTrue(m, rows, runs) ==
    \A i \in Invocations : m.i = {i} =>
        /\ m.pc \in {"admit", "mark", "get", "fin", "expose"} => rows[i].mode = "durable"
        /\ m.pc = "get" /\ m.finished => rows[i].finished
        /\ m.pc \in {"fin", "expose"} => runs[i] \in RunTerminal
        /\ m.pc = "expose" => rows[i].finished

ReadsHold == \A p \in Processes : StillTrue(proc[p], inv, run)

OneRuns ==
    \A i \in Invocations : inv[i].status \in Active =>
        /\ session[sessionOf[i]].status # "deleted"
        /\ \A j \in Invocations :
             j # i /\ sessionOf[j] = sessionOf[i] => inv[j].status \notin Active

Succeeded(x) == x.finished /\ x.status \in {"completed", "succeeded"}

Answered ==
    \A i \in Invocations :
        /\ Succeeded(inv[i]) => \E m : AnswersOf(i) = {m}
        /\ ~Succeeded(inv[i]) => AnswersOf(i) = {}

Numbered ==
    \A s \in Sessions : \A m, n \in messages[s] :
        (m.seq = n.seq => m = n) /\ m.seq <= session[s].rev

Shown == \A i \in exposed : Succeeded(inv[i])

SessInv ==
    /\ SessionTypeOK /\ RowsConsistent /\ ReadsHold /\ OneRuns
    /\ Answered /\ Numbered /\ Shown

\* What is finished stays as it is; a row keeps its mode.
Settled ==
    \A i \in Invocations :
        /\ inv[i].finished => inv'[i].finished /\ inv'[i].status = inv[i].status
        /\ inv[i].mode = "durable" => inv'[i].mode = "durable"
RunsOnward == \A i \in Invocations : run[i] \in RunTerminal => run'[i] = run[i]

-----------------------------------------------------------------------------
LEMMA SessionTypes ==
    ASSUME SessionTypeOK
    PROVE  /\ session \in [Sessions -> SessionRow] /\ sessionOf \in [Invocations -> Sessions]
           /\ inv \in [Invocations -> Row] /\ messages \in [Sessions -> SUBSET Message]
           /\ run \in [Invocations -> RunStatus] /\ executor \in [Invocations -> Result]
           /\ proc \in [Processes -> ProcState]
BY SessionAssumption DEF SessionAssumption, SessionTypeOK, SessionRow, Row, Message, RunStatus,
   Result, ProcState

LEMMA SessInit == Init => SessInv
<1> SUFFICES ASSUME Init PROVE SessInv
   OBVIOUS
<1>1. SessionTypeOK
   <2>1. NoRow \in Row
      BY DEF NoRow, Row
   <2>2. Idle \in ProcState
      BY DEF Idle, ProcState
   <2>3. sessionOf \in Layouts /\ exposed \subseteq Invocations /\ faults \in 0..MaxFaults
      BY SessionAssumption DEF Init, SessionAssumption
   <2>4. inv \in [Invocations -> Row] /\ proc \in [Processes -> ProcState]
      BY <2>1, <2>2 DEF Init
   <2>5. /\ session \in [Sessions -> SessionRow] /\ messages \in [Sessions -> SUBSET Message]
         /\ run \in [Invocations -> RunStatus] /\ executor \in [Invocations -> Result]
      BY DEF Init, SessionRow, RunStatus, Result
   <2> QED BY <2>3, <2>4, <2>5
       DEF SessionTypeOK, SessionRow, Row, Message, RunStatus, Result, ProcState
<1>2. \A i \in Invocations : inv[i] = NoRow /\ AnswersOf(i) = {} /\ executor[i] = "none"
   <2>1. sessionOf \in [Invocations -> Sessions]
      BY <1>1, SessionTypes
   <2> QED BY <2>1 DEF Init, AnswersOf
<1>3. /\ NoRow.mode = "none" /\ NoRow.admission = "" /\ NoRow.status = ""
      /\ NoRow.finished = FALSE
   BY DEF NoRow
<1>4. RowsConsistent
   BY <1>2, <1>3 DEF RowsConsistent, Consistent, Ended, RunTerminal
<1>5. ReadsHold
   BY DEF Init, ReadsHold, StillTrue, Idle
<1>6. OneRuns /\ Answered
   BY <1>2, <1>3 DEF OneRuns, Active, Answered, Succeeded
<1>7. Numbered /\ Shown
   BY DEF Init, Numbered, Shown
<1> QED BY <1>1, <1>4, <1>5, <1>6, <1>7 DEF SessInv

-----------------------------------------------------------------------------
\* Processes: what they have read stays true when rows and runs only move on.
LEMMA ReadsStay ==
    ASSUME SessInv, Settled, RunsOnward, UNCHANGED proc
    PROVE  ReadsHold'
BY DEF SessInv, Settled, RunsOnward, ReadsHold, StillTrue

LEMMA ProcMoves ==
    ASSUME SessInv, Settled, RunsOnward, NEW p \in Processes, NEW m \in ProcState,
           proc' = [proc EXCEPT ![p] = m], StillTrue(m, inv', run')
    PROVE  proc' \in [Processes -> ProcState] /\ ReadsHold'
<1>1. proc \in [Processes -> ProcState]
   BY SessionTypes DEF SessInv
<1>2. /\ proc' \in [Processes -> ProcState] /\ proc'[p] = m
      /\ \A q \in Processes : q # p => proc'[q] = proc[q]
   BY <1>1
<1>3. ASSUME NEW q \in Processes, q # p PROVE StillTrue(proc'[q], inv', run')
   BY <1>2, <1>3 DEF SessInv, Settled, RunsOnward, ReadsHold, StillTrue
<1> QED BY <1>2, <1>3 DEF ReadsHold

LEMMA RowMoves ==
    ASSUME SessionTypeOK, NEW i \in Invocations, NEW x \in Row, inv' = [inv EXCEPT ![i] = x]
    PROVE  /\ inv' \in [Invocations -> Row] /\ inv'[i] = x
           /\ \A j \in Invocations : j # i => inv'[j] = inv[j]
<1>1. inv \in [Invocations -> Row]
   BY SessionTypes
<1> QED BY <1>1

-----------------------------------------------------------------------------
\* A step that changes no SQL row: runs move on, processes read.
LEMMA ReadStepKeepsInv ==
    ASSUME SessInv, UNCHANGED <<session, sessionOf, inv, messages>>,
           run' \in [Invocations -> RunStatus], RunsOnward,
           executor' \in [Invocations -> Result],
           \A i \in Invocations : executor'[i] # "none" => executor[i] # "none",
           proc' \in [Processes -> ProcState], ReadsHold',
           exposed' \subseteq Invocations, \A i \in exposed' : Succeeded(inv[i]),
           faults' \in 0..MaxFaults
    PROVE  SessInv' /\ Settled
<1>1. SessionTypeOK'
   BY DEF SessInv, SessionTypeOK, RunStatus, Result, ProcState
<1>2. RowsConsistent'
   <2> SUFFICES ASSUME NEW i \in Invocations PROVE Consistent(inv'[i], run'[i], executor'[i])
      BY DEF RowsConsistent
   <2>1. Consistent(inv[i], run[i], executor[i]) /\ run[i] \in RunStatus
      BY SessionTypes DEF SessInv, RowsConsistent
   <2>2. inv[i].mode = "durable" /\ inv[i].finished => run[i] \in RunTerminal
      BY <2>1 DEF Consistent, Ended, RunStatus, RunTerminal
   <2> QED BY <2>1, <2>2 DEF Consistent, RunsOnward
<1>3. OneRuns' /\ Answered' /\ Numbered' /\ Shown'
   BY DEF SessInv, OneRuns, Answered, AnswersOf, Numbered, Shown
<1> QED BY <1>1, <1>2, <1>3 DEF SessInv, Settled

\* The common case: no row, no goroutine of the local mode, nothing exposed.
LEMMA ProcStepKeepsInv ==
    ASSUME SessInv, UNCHANGED <<session, inv, messages, executor>>, Rest,
           run' \in [Invocations -> RunStatus], RunsOnward,
           proc' \in [Processes -> ProcState], ReadsHold'
    PROVE  SessInv' /\ Settled
BY ReadStepKeepsInv, SessionTypes DEF SessInv, SessionTypeOK, Shown, Rest

\* A step that changes rows and lets nothing succeed.
LEMMA RowStepKeepsInv ==
    ASSUME SessInv, UNCHANGED <<sessionOf, messages, run, exposed, faults>>,
           session' \in [Sessions -> SessionRow],
           \A s \in Sessions : session'[s].rev >= session[s].rev,
           inv' \in [Invocations -> Row], executor' \in [Invocations -> Result],
           RowsConsistent', Settled,
           \A i \in Invocations : Succeeded(inv'[i]) => Succeeded(inv[i]),
           proc' \in [Processes -> ProcState], ReadsHold', OneRuns'
    PROVE  SessInv' /\ Settled
<1>1. SessionTypeOK'
   BY DEF SessInv, SessionTypeOK, SessionRow, Row, Result, ProcState
<1>2. \A i \in Invocations : Succeeded(inv'[i]) <=> Succeeded(inv[i])
   BY DEF Settled, Succeeded
<1>3. Answered'
   BY <1>2 DEF SessInv, Answered, AnswersOf
<1>4. Numbered'
   <2> SUFFICES ASSUME NEW s \in Sessions, NEW m \in messages[s], NEW n \in messages[s]
                PROVE  (m.seq = n.seq => m = n) /\ m.seq <= session'[s].rev
      BY DEF Numbered
   <2>1. /\ session[s] \in SessionRow /\ session'[s] \in SessionRow /\ m \in Message
         /\ session'[s].rev >= session[s].rev
      BY SessionTypes DEF SessInv
   <2>2. (m.seq = n.seq => m = n) /\ m.seq <= session[s].rev
      BY DEF SessInv, Numbered
   <2> QED BY <2>1, <2>2 DEF SessionRow, Message
<1>5. Shown'
   BY <1>2 DEF SessInv, SessionTypeOK, Shown
<1> QED BY <1>1, <1>3, <1>4, <1>5 DEF SessInv

\* InsertMessage: the message gets a position of its own.
LEMMA AnswerIs ==
    ASSUME SessInv, NEW s \in Sessions, NEW b \in Invocations \cup {"user"}, Answer(s, b),
           UNCHANGED sessionOf
    PROVE  /\ session' \in [Sessions -> SessionRow]
           /\ \A t \in Sessions : session'[t].status = session[t].status
           /\ messages' \in [Sessions -> SUBSET Message] /\ Numbered'
           /\ \A i \in Invocations : i # b => AnswersOf(i)' = AnswersOf(i)
           /\ \A i \in Invocations :
                i = b /\ sessionOf[i] = s /\ AnswersOf(i) = {} => \E m : AnswersOf(i)' = {m}
<1> DEFINE n == [seq |-> session[s].rev + 1, by |-> b]
           x == [session[s] EXCEPT !.rev = @ + 1]
<1>1. /\ session \in [Sessions -> SessionRow] /\ messages \in [Sessions -> SUBSET Message]
      /\ sessionOf \in [Invocations -> Sessions]
   BY SessionTypes DEF SessInv
<1>2. session[s] \in SessionRow /\ session[s].rev \in Nat
   BY <1>1 DEF SessionRow
<1>3. x \in SessionRow /\ x.rev = session[s].rev + 1 /\ x.status = session[s].status
   BY <1>2 DEF SessionRow
<1>4. n \in Message /\ n.seq = session[s].rev + 1 /\ n.by = b
   BY <1>2 DEF Message
<1>5. session' = [session EXCEPT ![s] = x] /\ messages' = [messages EXCEPT ![s] = @ \cup {n}]
   BY <1>1 DEF Answer
<1> HIDE DEF n, x
<1>6. /\ session' \in [Sessions -> SessionRow] /\ session'[s] = x
      /\ \A t \in Sessions : t # s => session'[t] = session[t]
   BY <1>1, <1>3, <1>5
<1>7. /\ messages' \in [Sessions -> SUBSET Message] /\ messages'[s] = messages[s] \cup {n}
      /\ \A t \in Sessions : t # s => messages'[t] = messages[t]
   BY <1>1, <1>4, <1>5
<1>8. \A m \in messages[s] : m \in Message /\ m.seq <= session[s].rev
   BY <1>1 DEF SessInv, Numbered
<1>9. \A m \in messages[s] : m.seq \in Nat /\ m.seq < n.seq /\ m.seq <= x.rev
   BY <1>2, <1>3, <1>4, <1>8 DEF Message
<1>10. Numbered'
   <2> SUFFICES ASSUME NEW t \in Sessions, NEW m \in messages'[t], NEW l \in messages'[t]
                PROVE  (m.seq = l.seq => m = l) /\ m.seq <= session'[t].rev
      BY DEF Numbered
   <2>1. CASE t # s
      BY <1>6, <1>7, <2>1 DEF SessInv, Numbered
   <2>2. CASE t = s
      <3>1. m \in messages[s] \cup {n} /\ l \in messages[s] \cup {n}
         BY <1>7, <2>2
      <3>2. m.seq <= x.rev
         BY <1>2, <1>3, <1>4, <1>9, <3>1
      <3>3. m.seq = l.seq => m = l
         <4>1. CASE m \in messages[s] /\ l \in messages[s]
            BY <4>1 DEF SessInv, Numbered
         <4>2. CASE m = n /\ l \in messages[s]
            BY <1>2, <1>4, <1>9, <4>2
         <4>3. CASE m \in messages[s] /\ l = n
            BY <1>2, <1>4, <1>9, <4>3
         <4> QED BY <3>1, <4>1, <4>2, <4>3
      <3> QED BY <1>6, <2>2, <3>2, <3>3
   <2> QED BY <2>1, <2>2
<1>11. ASSUME NEW i \in Invocations, i # b PROVE AnswersOf(i)' = AnswersOf(i)
   <2>1. CASE sessionOf[i] # s
      BY <1>1, <1>7, <2>1 DEF AnswersOf
   <2>2. CASE sessionOf[i] = s
      <3>1. messages'[sessionOf[i]] = messages[sessionOf[i]] \cup {n}
         BY <1>7, <2>2
      <3> QED BY <1>4, <1>11, <3>1 DEF AnswersOf
   <2> QED BY <2>1, <2>2
<1>12. ASSUME NEW i \in Invocations, i = b, sessionOf[i] = s, AnswersOf(i) = {}
       PROVE  AnswersOf(i)' = {n}
   <2>1. messages'[sessionOf[i]] = messages[sessionOf[i]] \cup {n}
      BY <1>7, <1>12
   <2> QED BY <1>4, <1>12, <2>1 DEF AnswersOf
<1> QED BY <1>3, <1>6, <1>7, <1>10, <1>11, <1>12

-----------------------------------------------------------------------------
\* A session in which no more is active than before.
LEMMA FewerActive ==
    ASSUME SessInv, UNCHANGED sessionOf,
           \A i \in Invocations : inv'[i].status \in Active => inv[i].status \in Active,
           \A s \in Sessions : session'[s].status = session[s].status
    PROVE  OneRuns'
<1>1. sessionOf \in [Invocations -> Sessions]
   BY SessionTypes DEF SessInv
<1> QED BY <1>1 DEF SessInv, OneRuns

\* An invocation succeeds and its message is inserted in the same transaction.
LEMMA AnswerStepKeepsInv ==
    ASSUME SessInv, NEW i \in Invocations, Answer(sessionOf[i], i),
           UNCHANGED <<sessionOf, run, exposed, faults>>,
           inv' \in [Invocations -> Row], executor' \in [Invocations -> Result],
           RowsConsistent', Settled, ~Succeeded(inv[i]), Succeeded(inv'[i]),
           \A j \in Invocations : j # i => inv'[j] = inv[j],
           inv'[i].status \notin Active,
           proc' \in [Processes -> ProcState], ReadsHold'
    PROVE  SessInv' /\ Settled
<1>1. sessionOf[i] \in Sessions
   BY SessionTypes DEF SessInv
<1>2. AnswersOf(i) = {}
   BY DEF SessInv, Answered
<1>3. /\ session' \in [Sessions -> SessionRow]
      /\ \A t \in Sessions : session'[t].status = session[t].status
      /\ messages' \in [Sessions -> SUBSET Message] /\ Numbered'
      /\ \A j \in Invocations : j # i => AnswersOf(j)' = AnswersOf(j)
      /\ \E m : AnswersOf(i)' = {m}
   BY <1>1, <1>2, AnswerIs
<1>4. SessionTypeOK'
   BY <1>3 DEF SessInv, SessionTypeOK, SessionRow, Row, Message, Result, ProcState
<1>5. OneRuns'
   BY <1>3, FewerActive
<1>6. Answered'
   <2> SUFFICES ASSUME NEW j \in Invocations
                PROVE  /\ Succeeded(inv'[j]) => \E m : AnswersOf(j)' = {m}
                       /\ ~Succeeded(inv'[j]) => AnswersOf(j)' = {}
      BY DEF Answered, Succeeded
   <2>1. CASE j = i
      BY <1>3, <2>1
   <2>2. CASE j # i
      BY <1>3, <2>2 DEF SessInv, Answered
   <2> QED BY <2>1, <2>2
<1>7. Shown'
   <2>1. \A j \in Invocations : Succeeded(inv[j]) => Succeeded(inv'[j])
      BY DEF Settled, Succeeded
   <2> QED BY <2>1 DEF SessInv, SessionTypeOK, Shown
<1> QED BY <1>3, <1>4, <1>5, <1>6, <1>7 DEF SessInv

-----------------------------------------------------------------------------
(* The user's operations.                                                  *)
\* ExpireInvocations: each row is kept, or fails when it was active and local.
LEMMA ExpiredRows ==
    ASSUME SessInv, NEW s \in Sessions
    PROVE  /\ ExpireInvocations(s) \in [Invocations -> Row]
           /\ \A i \in Invocations :
                \/ ExpireInvocations(s)[i] = inv[i]
                \/ /\ inv[i].mode = "local" /\ inv[i].status \in Active
                   /\ ExpireInvocations(s)[i] =
                        [inv[i] EXCEPT !.status = "failed", !.finished = TRUE]
<1>1. inv \in [Invocations -> Row]
   BY SessionTypes DEF SessInv
<1>2. \A i \in Invocations :
         inv[i] \in Row /\ [inv[i] EXCEPT !.status = "failed", !.finished = TRUE] \in Row
   BY <1>1 DEF Row, RunTerminal
<1> QED BY <1>2 DEF ExpireInvocations

LEMMA ExpiredIs ==
    ASSUME SessInv, NEW s \in Sessions, NEW i \in Invocations, NEW x,
           x = ExpireInvocations(s)[i]
    PROVE  /\ x \in Row /\ Consistent(x, run[i], executor[i]) /\ x.mode = inv[i].mode
           /\ x.mode = "none" => x = NoRow
           /\ inv[i].finished => x.finished /\ x.status = inv[i].status
           /\ Succeeded(x) => Succeeded(inv[i])
           /\ x.status \in Active => x = inv[i]
<1>1. inv[i] \in Row /\ Consistent(inv[i], run[i], executor[i])
   BY SessionTypes DEF SessInv, RowsConsistent
<1>2. CASE x = inv[i]
   BY <1>1, <1>2 DEF Consistent
<1>3. CASE /\ inv[i].mode = "local" /\ inv[i].status \in Active
           /\ x = [inv[i] EXCEPT !.status = "failed", !.finished = TRUE]
   <2>1. /\ x \in Row /\ x.mode = "local" /\ x.status = "failed" /\ x.finished
         /\ x.admission = inv[i].admission
      BY <1>1, <1>3 DEF Row, RunTerminal
   <2>2. ~inv[i].finished
      BY <1>1, <1>3 DEF Consistent, Active, Ended, RunTerminal
   <2> QED BY <1>1, <1>3, <2>1, <2>2 DEF Consistent, Active, Ended, RunTerminal, Succeeded
<1> QED BY <1>2, <1>3, ExpiredRows

LEMMA AppendKeepsInv ==
    ASSUME SessInv, NEW s \in Sessions, Append(s)
    PROVE  SessInv' /\ Settled
<1>1. Answer(s, "user") /\ UNCHANGED <<inv, run, executor, proc>> /\ Rest
   BY DEF Append
<1>2. UNCHANGED sessionOf /\ "user" \notin Invocations
   BY <1>1, SessionAssumption DEF Rest, SessionAssumption
<1>3. /\ session' \in [Sessions -> SessionRow]
      /\ \A t \in Sessions : session'[t].status = session[t].status
      /\ messages' \in [Sessions -> SUBSET Message] /\ Numbered'
      /\ \A j \in Invocations : AnswersOf(j)' = AnswersOf(j)
   <2>1. \A j \in Invocations : j # "user"
      BY <1>2
   <2> QED BY <1>1, <1>2, <2>1, AnswerIs
<1>4. Settled /\ RunsOnward
   BY <1>1 DEF Settled, RunsOnward
<1>5. SessionTypeOK'
   BY <1>1, <1>3 DEF Rest, SessInv, SessionTypeOK, SessionRow, Message
<1>6. OneRuns'
   BY <1>1, <1>2, <1>3, FewerActive
<1>7. ReadsHold'
   BY <1>1, <1>4, ReadsStay
<1>8. RowsConsistent' /\ Shown'
   BY <1>1 DEF Rest, SessInv, RowsConsistent, Shown
<1>9. Answered'
   BY <1>1, <1>3 DEF SessInv, Answered
<1> QED BY <1>3, <1>4, <1>5, <1>6, <1>7, <1>8, <1>9 DEF SessInv

LEMMA MutateKeepsInv ==
    ASSUME SessInv, NEW s \in Sessions, NEW op \in {"rename", "archive", "delete"}, Mutate(s, op)
    PROVE  SessInv' /\ Settled
<1> DEFINE x == session'[s]
<1>1. /\ session' = [session EXCEPT ![s].rev = @ + 1,
           ![s].status = CASE op = "rename" -> @ [] op = "archive" -> "archived"
                           [] op = "delete" -> "deleted"]
      /\ inv' = ExpireInvocations(s) /\ ActiveInvocations(inv', s) = {}
      /\ UNCHANGED <<messages, run, executor, proc, sessionOf, exposed, faults>>
   BY DEF Mutate, Rest
<1>2. /\ session \in [Sessions -> SessionRow] /\ inv' \in [Invocations -> Row]
      /\ sessionOf \in [Invocations -> Sessions] /\ executor \in [Invocations -> Result]
      /\ proc \in [Processes -> ProcState]
   BY <1>1, SessionTypes, ExpiredRows DEF SessInv
<1>3. session[s] \in SessionRow /\ session[s].rev \in Nat
   BY <1>2 DEF SessionRow
<1>4. x \in SessionRow /\ x.rev = session[s].rev + 1
   <2> DEFINE st == CASE op = "rename" -> session[s].status [] op = "archive" -> "archived"
                      [] op = "delete" -> "deleted"
   <2>1. x = [session[s] EXCEPT !.rev = @ + 1, !.status = st]
      BY <1>1, <1>2
   <2>2. st \in {"active", "archived", "deleted"}
      BY <1>3 DEF SessionRow
   <2> HIDE DEF st, x
   <2>3. x = [status |-> st, rev |-> session[s].rev + 1]
      BY <1>3, <2>1 DEF SessionRow
   <2> QED BY <1>3, <2>2, <2>3 DEF SessionRow
<1>5. \A t \in Sessions : t # s => session'[t] = session[t]
   BY <1>1, <1>2
<1>6. session' \in [Sessions -> SessionRow]
   BY <1>1, <1>2, <1>4, <1>5
<1>7. \A t \in Sessions : session'[t].rev >= session[t].rev
   <2> SUFFICES ASSUME NEW t \in Sessions PROVE session'[t].rev >= session[t].rev
      OBVIOUS
   <2>1. session[t].rev \in Nat
      BY <1>2 DEF SessionRow
   <2>2. CASE t = s
      BY <1>3, <1>4, <2>2
   <2>3. CASE t # s
      BY <1>5, <2>1, <2>3
   <2> QED BY <2>2, <2>3
<1> HIDE DEF x
<1>8. ASSUME NEW i \in Invocations
      PROVE  /\ Consistent(inv'[i], run[i], executor[i]) /\ inv'[i].mode = inv[i].mode
             /\ inv[i].finished => inv'[i].finished /\ inv'[i].status = inv[i].status
             /\ Succeeded(inv'[i]) => Succeeded(inv[i])
             /\ inv'[i].status \in Active => inv'[i] = inv[i]
   BY <1>1, ExpiredIs
<1>9. RowsConsistent' /\ Settled /\ RunsOnward
   BY <1>1, <1>8 DEF RowsConsistent, Settled, RunsOnward
<1>10. ReadsHold'
   BY <1>1, <1>9, ReadsStay
<1>11. OneRuns'
   <2> SUFFICES ASSUME NEW i \in Invocations, inv'[i].status \in Active
                PROVE  /\ session'[sessionOf[i]].status # "deleted"
                       /\ \A j \in Invocations :
                            j # i /\ sessionOf[j] = sessionOf[i] => inv'[j].status \notin Active
      BY <1>1 DEF OneRuns
   <2>1. inv[i].status \in Active /\ sessionOf[i] \in Sessions
      BY <1>2, <1>8
   <2>2. sessionOf[i] # s
      BY <1>1 DEF ActiveInvocations
   <2>3. session'[sessionOf[i]] = session[sessionOf[i]]
      BY <1>5, <2>1, <2>2
   <2>4. \A j \in Invocations : inv'[j].status \in Active => inv[j].status \in Active
      BY <1>8
   <2> QED BY <2>1, <2>3, <2>4 DEF SessInv, OneRuns
<1> QED BY <1>1, <1>2, <1>6, <1>7, <1>8, <1>9, <1>10, <1>11, RowStepKeepsInv

\* Invoke: the transaction leaves the rows as ExpireInvocations does, but for a
\* row it may insert.
LEMMA InvokeKeepsInv ==
    ASSUME SessInv, NEW h \in Handlers, NEW i \in Invocations, NEW mode \in Modes,
           Invoke(h, i, mode)
    PROVE  SessInv' /\ Settled
<1> DEFINE s == sessionOf[i]
           rows == ExpireInvocations(s)
           x == [NoRow EXCEPT !.mode = mode,
                   !.status = IF mode = "durable" THEN "accepted" ELSE "running",
                   !.admission = IF mode = "durable" THEN "pending_create" ELSE ""]
           m == [Idle EXCEPT !.pc = "admit", !.i = {i},
                   !.admission = inv'[i].admission, !.finished = inv'[i].finished]
<1>1. /\ UNCHANGED <<session, messages, run, sessionOf, exposed, faults>>
      /\ proc' = IF mode = "local" THEN proc ELSE [proc EXCEPT ![h] = m]
      /\ \/ rows[i].mode = mode /\ inv' = rows /\ UNCHANGED executor
         \/ /\ rows[i].mode = "none" /\ Insertable(rows, i) /\ inv' = [rows EXCEPT ![i] = x]
            /\ executor' = IF mode = "local" THEN [executor EXCEPT ![i] = "running"] ELSE executor
   BY DEF Invoke, Rest
<1>2. /\ s \in Sessions /\ sessionOf \in [Invocations -> Sessions]
      /\ session \in [Sessions -> SessionRow] /\ executor \in [Invocations -> Result]
      /\ proc \in [Processes -> ProcState]
   BY SessionTypes DEF SessInv
<1>3. mode \in {"local", "durable"} /\ h \in Processes
   BY SessionAssumption DEF SessionAssumption, Processes
<1> HIDE DEF s
<1>4. rows \in [Invocations -> Row]
   BY <1>2, ExpiredRows
<1>5. ASSUME NEW j \in Invocations
      PROVE  /\ Consistent(rows[j], run[j], executor[j]) /\ rows[j].mode = inv[j].mode
             /\ rows[j].mode = "none" => rows[j] = NoRow
             /\ inv[j].finished => rows[j].finished /\ rows[j].status = inv[j].status
             /\ Succeeded(rows[j]) => Succeeded(inv[j])
             /\ rows[j].status \in Active => rows[j] = inv[j]
   BY <1>2, ExpiredIs
<1> HIDE DEF rows
<1>6. /\ x \in Row /\ x.mode = mode /\ x.status \in Active /\ x.status # "" /\ x.finished = FALSE
      /\ x.admission # "" <=> mode = "durable"
   BY <1>3 DEF NoRow, Row, Active
<1>7. NoRow.mode = "none" /\ NoRow.finished = FALSE
   BY DEF NoRow
<1> HIDE DEF x
<1>8. CASE rows[i].mode = mode /\ inv' = rows /\ UNCHANGED executor
   <2>1. RowsConsistent' /\ Settled /\ RunsOnward
      BY <1>1, <1>5, <1>8 DEF RowsConsistent, Settled, RunsOnward
   <2>2. \A j \in Invocations : inv'[j].status \in Active => inv[j].status \in Active
      BY <1>5, <1>8
   <2>3. OneRuns'
      BY <1>1, <2>2, FewerActive
   <2>4. proc' \in [Processes -> ProcState] /\ ReadsHold'
      <3>1. CASE mode = "local"
         BY <1>1, <1>2, <2>1, <3>1, ReadsStay
      <3>2. CASE mode = "durable"
         <4>1. inv'[i] \in Row /\ inv'[i].mode = "durable"
            BY <1>4, <1>8, <3>2
         <4>2. m \in ProcState /\ m.pc = "admit" /\ m.i = {i}
            BY <4>1 DEF Idle, ProcState, Row
         <4> HIDE DEF m
         <4>3. StillTrue(m, inv', run')
            BY <4>1, <4>2 DEF StillTrue
         <4>4. proc' = [proc EXCEPT ![h] = m]
            BY <1>1, <3>2
         <4> QED BY <1>3, <2>1, <4>2, <4>3, <4>4, ProcMoves
      <3> QED BY <1>3, <3>1, <3>2
   <2>5. /\ \A t \in Sessions : session'[t].rev >= session[t].rev
         /\ session' \in [Sessions -> SessionRow]
      BY <1>1, <1>2 DEF SessionRow
   <2>6. \A j \in Invocations : Succeeded(inv'[j]) => Succeeded(inv[j])
      BY <1>5, <1>8
   <2> QED BY <1>1, <1>2, <1>4, <1>8, <2>1, <2>3, <2>4, <2>5, <2>6, RowStepKeepsInv
<1>9. CASE /\ rows[i].mode = "none" /\ Insertable(rows, i) /\ inv' = [rows EXCEPT ![i] = x]
           /\ executor' = IF mode = "local" THEN [executor EXCEPT ![i] = "running"] ELSE executor
   <2>1. /\ inv' \in [Invocations -> Row] /\ inv'[i] = x
         /\ \A j \in Invocations : j # i => inv'[j] = rows[j]
      BY <1>4, <1>6, <1>9
   <2>2. /\ executor' \in [Invocations -> Result]
         /\ \A j \in Invocations : j # i => executor'[j] = executor[j]
         /\ executor'[i] # "none" => mode = "local" \/ executor[i] # "none"
      BY <1>2, <1>9 DEF Result
   <2>3. inv[i].mode = "none" /\ ~inv[i].finished /\ executor[i] = "none"
      BY <1>5, <1>7, <1>9 DEF Consistent
   <2>4. RowsConsistent'
      <3>1. Consistent(inv'[i], run'[i], executor'[i])
         BY <1>3, <1>6, <2>1, <2>2, <2>3 DEF Consistent, Active, Ended, RunTerminal
      <3> QED BY <1>1, <1>5, <2>1, <2>2, <3>1 DEF RowsConsistent
   <2>5. Settled /\ RunsOnward
      BY <1>1, <1>5, <2>1, <2>3 DEF Settled, RunsOnward
   <2>6. OneRuns'
      <3>1. /\ session[s].status = "active"
            /\ \A j \in Invocations : sessionOf[j] = s => rows[j].status \notin Active
         BY <1>9 DEF Insertable, ActiveInvocations, s
      <3> SUFFICES ASSUME NEW k \in Invocations, inv'[k].status \in Active
                   PROVE  /\ session[sessionOf[k]].status # "deleted"
                          /\ \A j \in Invocations :
                               j # k /\ sessionOf[j] = sessionOf[k] => inv'[j].status \notin Active
         BY <1>1 DEF OneRuns
      <3>2. CASE k = i
         BY <2>1, <3>1, <3>2 DEF s
      <3>3. CASE k # i
         <4>1. inv'[k] = rows[k] /\ rows[k].status \in Active /\ sessionOf[k] # s
            BY <2>1, <3>1, <3>3
         <4>2. inv[k].status \in Active
            BY <1>5, <4>1
         <4>3. \A j \in Invocations : j # i /\ inv'[j].status \in Active => inv[j].status \in Active
            BY <1>5, <2>1
         <4>4. \A j \in Invocations : sessionOf[j] = sessionOf[k] => j # i
            BY <4>1 DEF s
         <4> QED BY <4>2, <4>3, <4>4 DEF SessInv, OneRuns
      <3> QED BY <3>2, <3>3
   <2>7. \A j \in Invocations : Succeeded(inv'[j]) => Succeeded(inv[j])
      BY <1>5, <1>6, <2>1 DEF Succeeded
   <2>8. proc' \in [Processes -> ProcState] /\ ReadsHold'
      <3>1. CASE mode = "local"
         BY <1>1, <1>2, <2>5, <3>1, ReadsStay
      <3>2. CASE mode = "durable"
         <4>1. inv'[i] \in Row /\ inv'[i].mode = "durable"
            BY <1>6, <2>1, <3>2
         <4>2. m \in ProcState /\ m.pc = "admit" /\ m.i = {i}
            BY <4>1 DEF Idle, ProcState, Row
         <4> HIDE DEF m
         <4>3. StillTrue(m, inv', run')
            BY <4>1, <4>2 DEF StillTrue
         <4>4. proc' = [proc EXCEPT ![h] = m]
            BY <1>1, <3>2
         <4> QED BY <1>3, <2>5, <4>2, <4>3, <4>4, ProcMoves
      <3> QED BY <1>3, <3>1, <3>2
   <2>9. /\ \A t \in Sessions : session'[t].rev >= session[t].rev
         /\ session' \in [Sessions -> SessionRow]
      BY <1>1, <1>2 DEF SessionRow
   <2> QED BY <1>1, <2>1, <2>2, <2>4, <2>5, <2>6, <2>7, <2>8, <2>9, RowStepKeepsInv
<1> HIDE DEF m
<1> QED BY <1>1, <1>8, <1>9

-----------------------------------------------------------------------------
(* Processes that go on with the invocation in hand, or stop.              *)
LEMMA MovesOn ==
    ASSUME SessInv, Settled, RunsOnward, NEW p \in Processes, NEW i \in Invocations, Of(p, i),
           NEW c \in {"idle", "mark", "submit", "fin_read", "fin", "expose", "scan"}, Goto(p, c),
           c \in {"mark", "fin", "expose"} => inv'[i].mode = "durable",
           c \in {"fin", "expose"} => run'[i] \in RunTerminal,
           c = "expose" => inv'[i].finished
    PROVE  proc' \in [Processes -> ProcState] /\ ReadsHold'
<1> DEFINE m == [proc[p] EXCEPT !.pc = c]
<1>1. proc \in [Processes -> ProcState]
   BY SessionTypes DEF SessInv
<1>2. proc[p] \in ProcState /\ proc[p].i = {i}
   BY <1>1 DEF Of
<1>3. m \in ProcState /\ m.pc = c /\ m.i = {i}
   BY <1>2 DEF ProcState
<1>4. proc' = [proc EXCEPT ![p] = m]
   BY <1>1 DEF Goto
<1> HIDE DEF m
<1>5. StillTrue(m, inv', run')
   <2> SUFFICES ASSUME NEW j \in Invocations, m.i = {j}
                PROVE  /\ m.pc \in {"admit", "mark", "get", "fin", "expose"} => inv'[j].mode = "durable"
                       /\ m.pc = "get" /\ m.finished => inv'[j].finished
                       /\ m.pc \in {"fin", "expose"} => run'[j] \in RunTerminal
                       /\ m.pc = "expose" => inv'[j].finished
      BY DEF StillTrue
   <2>1. j = i
      BY <1>3
   <2> QED BY <1>3, <2>1
<1> QED BY <1>3, <1>4, <1>5, ProcMoves

LEMMA MovesOff ==
    ASSUME SessInv, Settled, RunsOnward, NEW p \in Processes, Stop(p)
    PROVE  proc' \in [Processes -> ProcState] /\ ReadsHold'
<1>1. Idle \in ProcState /\ Idle.i = {} /\ Idle.pc = "idle"
   BY DEF Idle, ProcState
<1>2. StillTrue(Idle, inv', run')
   BY <1>1 DEF StillTrue
<1>3. proc' = [proc EXCEPT ![p] = Idle]
   BY DEF Stop
<1> QED BY <1>1, <1>2, <1>3, ProcMoves

\* A scanner in its scan: what it has read of the rows asks for nothing.
LEMMA ScanMoves ==
    ASSUME SessInv, Settled, RunsOnward, NEW p \in Processes, NEW m \in ProcState,
           proc' = [proc EXCEPT ![p] = m], m.pc \in {"scan", "scan_mark", "fin_read"}
    PROVE  proc' \in [Processes -> ProcState] /\ ReadsHold'
<1>1. StillTrue(m, inv', run')
   BY DEF StillTrue
<1> QED BY <1>1, ProcMoves

LEMMA RunMoves ==
    ASSUME SessInv, NEW i \in Invocations, NEW c \in RunStatus, run[i] \notin RunTerminal,
           run' = [run EXCEPT ![i] = c]
    PROVE  run' \in [Invocations -> RunStatus] /\ run'[i] = c /\ RunsOnward
<1>1. run \in [Invocations -> RunStatus]
   BY SessionTypes DEF SessInv
<1> QED BY <1>1 DEF RunsOnward

LEMMA RunStays ==
    ASSUME SessInv, UNCHANGED run
    PROVE  run' \in [Invocations -> RunStatus] /\ RunsOnward
BY SessionTypes DEF SessInv, RunsOnward

LEMMA RowsStay ==
    ASSUME UNCHANGED inv
    PROVE  Settled
BY DEF Settled

\* What a process in hand of a row knows of it.
LEMMA InHand ==
    ASSUME SessInv, NEW p \in Processes, NEW i \in Invocations, Of(p, i)
    PROVE  /\ proc[p].pc \in {"admit", "mark", "get", "fin", "expose"} => inv[i].mode = "durable"
           /\ proc[p].pc = "get" /\ proc[p].finished => inv[i].finished
           /\ proc[p].pc \in {"fin", "expose"} => run[i] \in RunTerminal
           /\ proc[p].pc = "expose" => inv[i].finished
           /\ proc[p] \in ProcState /\ inv[i] \in Row /\ run[i] \in RunStatus
           /\ Consistent(inv[i], run[i], executor[i])
BY SessionTypes DEF SessInv, ReadsHold, StillTrue, Of, RowsConsistent

-----------------------------------------------------------------------------
(* The steps of handlers that change no row.                               *)
LEMMA AdmitKeepsInv ==
    ASSUME SessInv, NEW h \in Processes, NEW i \in Invocations, AdmitDurable(h, i)
    PROVE  SessInv' /\ Settled
<1>1. /\ Of(h, i) /\ UNCHANGED <<session, inv, messages, executor>> /\ Rest
      /\ inv[i].mode = "durable" /\ run[i] \in RunStatus
   BY InHand DEF AdmitDurable, At
<1>2. Settled
   BY <1>1, RowsStay
<1>3. run' \in [Invocations -> RunStatus] /\ RunsOnward
   <2>1. CASE UNCHANGED run
      BY <2>1, RunStays
   <2>2. CASE run[i] = "absent" /\ run' = [run EXCEPT ![i] = "accepted"]
      <3>1. run[i] \notin RunTerminal /\ "accepted" \in RunStatus
         BY <2>2 DEF RunTerminal, RunStatus
      <3> QED BY <2>2, <3>1, RunMoves
   <2> QED BY <2>1, <2>2 DEF AdmitDurable
<1>4. proc' \in [Processes -> ProcState] /\ ReadsHold'
   <2>1. CASE Stop(h)
      BY <1>2, <1>3, <2>1, MovesOff
   <2>2. CASE Goto(h, "submit")
      BY <1>1, <1>2, <1>3, <2>2, MovesOn
   <2>3. CASE Goto(h, "mark")
      BY <1>1, <1>2, <1>3, <2>3, MovesOn
   <2> QED BY <2>1, <2>2, <2>3 DEF AdmitDurable
<1> QED BY <1>1, <1>3, <1>4, ProcStepKeepsInv

LEMMA SubmitKeepsInv ==
    ASSUME SessInv, NEW h \in Processes, NEW i \in Invocations, SubmitPlanning(h, i)
    PROVE  SessInv' /\ Settled
<1>1. Stop(h) /\ UNCHANGED <<session, inv, messages, executor>> /\ Rest
   BY DEF SubmitPlanning
<1>2. Settled
   BY <1>1, RowsStay
<1>3. run' \in [Invocations -> RunStatus] /\ RunsOnward
   <2>1. CASE UNCHANGED run
      BY <2>1, RunStays
   <2>2. CASE run[i] = "accepted" /\ run' = [run EXCEPT ![i] = "planning"]
      <3>1. run[i] \notin RunTerminal /\ "planning" \in RunStatus
         BY <2>2 DEF RunTerminal, RunStatus
      <3> QED BY <2>2, <3>1, RunMoves
   <2> QED BY <2>1, <2>2 DEF SubmitPlanning
<1>4. proc' \in [Processes -> ProcState] /\ ReadsHold'
   BY <1>1, <1>2, <1>3, MovesOff
<1> QED BY <1>1, <1>3, <1>4, ProcStepKeepsInv

LEMMA GetRowKeepsInv ==
    ASSUME SessInv, NEW h \in Processes, NEW i \in Invocations, GetRow(h, i)
    PROVE  SessInv' /\ Settled
<1> DEFINE m == [Idle EXCEPT !.pc = "get", !.i = {i}, !.finished = inv[i].finished]
<1>1. /\ proc' = [proc EXCEPT ![h] = m] /\ inv[i].admission = "admitted"
      /\ UNCHANGED <<session, inv, messages, run, executor>> /\ Rest
   BY DEF GetRow
<1>2. Settled /\ RunsOnward /\ run' \in [Invocations -> RunStatus]
   BY <1>1, RowsStay, RunStays
<1>3. inv[i] \in Row /\ inv[i].mode = "durable"
   BY <1>1, SessionTypes DEF SessInv, RowsConsistent, Consistent
<1>4. m \in ProcState /\ m.pc = "get" /\ m.i = {i} /\ m.finished = inv[i].finished
   BY <1>3 DEF Idle, ProcState, Row
<1> HIDE DEF m
<1>5. StillTrue(m, inv', run')
   <2> SUFFICES ASSUME NEW j \in Invocations, m.i = {j}
                PROVE  inv'[j].mode = "durable" /\ (m.finished => inv'[j].finished)
      BY <1>4 DEF StillTrue
   <2>1. j = i
      BY <1>4
   <2> QED BY <1>1, <1>3, <1>4, <2>1
<1>6. proc' \in [Processes -> ProcState] /\ ReadsHold'
   BY <1>1, <1>2, <1>4, <1>5, ProcMoves
<1> QED BY <1>1, <1>2, <1>6, ProcStepKeepsInv

LEMMA GetRunKeepsInv ==
    ASSUME SessInv, NEW h \in Processes, NEW i \in Invocations, GetRun(h, i)
    PROVE  SessInv' /\ Settled
<1>1. /\ Of(h, i) /\ At(h, "get") /\ UNCHANGED <<session, inv, messages, run, executor>> /\ Rest
   BY DEF GetRun
<1>2. Settled /\ RunsOnward /\ run' \in [Invocations -> RunStatus]
   BY <1>1, RowsStay, RunStays
<1>3. /\ inv[i].mode = "durable" /\ proc[h] \in ProcState
      /\ proc[h].finished => inv[i].finished
   BY <1>1, InHand DEF At
<1>4. proc' \in [Processes -> ProcState] /\ ReadsHold'
   <2>1. CASE Stop(h)
      BY <1>2, <2>1, MovesOff
   <2>2. CASE run[i] \in RunTerminal /\ proc[h].finished /\ Goto(h, "expose")
      BY <1>1, <1>2, <1>3, <2>2, MovesOn
   <2>3. CASE proc' = [proc EXCEPT ![h].pc = "fin_read", ![h].then = "expose"]
      <3> DEFINE m == [proc[h] EXCEPT !.pc = "fin_read", !.then = "expose"]
      <3>1. m \in ProcState /\ m.pc = "fin_read"
         BY <1>3 DEF ProcState
      <3>2. proc \in [Processes -> ProcState]
         BY SessionTypes DEF SessInv
      <3>3. proc' = [proc EXCEPT ![h] = m]
         BY <2>3, <3>2
      <3> HIDE DEF m
      <3> QED BY <1>2, <3>1, <3>3, ScanMoves
   <2> QED BY <2>1, <2>2, <2>3 DEF GetRun
<1> QED BY <1>1, <1>2, <1>4, ProcStepKeepsInv

LEMMA ExposeKeepsInv ==
    ASSUME SessInv, NEW h \in Processes, NEW i \in Invocations, Expose(h, i)
    PROVE  SessInv' /\ Settled
<1>1. /\ Of(h, i) /\ At(h, "expose") /\ Stop(h)
      /\ exposed' = IF run[i] = "completed" THEN exposed \cup {i} ELSE exposed
      /\ UNCHANGED <<session, sessionOf, inv, messages, run, executor, faults>>
   BY DEF Expose
<1>2. Settled /\ RunsOnward /\ run' \in [Invocations -> RunStatus]
   BY <1>1, RowsStay, RunStays
<1>3. run[i] = "completed" => Succeeded(inv[i])
   <2>1. inv[i].mode = "durable" /\ inv[i].finished /\ Consistent(inv[i], run[i], executor[i])
      BY <1>1, InHand DEF At
   <2> QED BY <2>1 DEF Consistent, Succeeded
<1>4. proc' \in [Processes -> ProcState] /\ ReadsHold'
   BY <1>1, <1>2, MovesOff
<1>5. exposed' \subseteq Invocations /\ \A j \in exposed' : Succeeded(inv[j])
   BY <1>1, <1>3 DEF SessInv, SessionTypeOK, Shown
<1>6. faults' \in 0..MaxFaults /\ executor' \in [Invocations -> Result]
   BY <1>1, SessionTypes DEF SessInv, SessionTypeOK
<1> QED BY <1>1, <1>2, <1>4, <1>5, <1>6, ReadStepKeepsInv

LEMMA FinalizeReadKeepsInv ==
    ASSUME SessInv, NEW p \in Processes, NEW i \in Invocations, FinalizeRead(p, i)
    PROVE  SessInv' /\ Settled
<1>1. Of(p, i) /\ UNCHANGED <<session, inv, messages, run, executor>> /\ Rest
   BY DEF FinalizeRead
<1>2. Settled /\ RunsOnward /\ run' \in [Invocations -> RunStatus]
   BY <1>1, RowsStay, RunStays
<1>3. proc[p] \in ProcState /\ Consistent(inv[i], run[i], executor[i])
   BY <1>1, InHand
<1>4. inv[i].admission = "admitted" => inv[i].mode = "durable"
   BY <1>3 DEF Consistent
<1>5. proc[p].then \in {"idle", "expose", "scan"}
   BY <1>3 DEF ProcState
<1>6. proc' \in [Processes -> ProcState] /\ ReadsHold'
   <2>1. CASE Stop(p)
      BY <1>2, <2>1, MovesOff
   <2>2. CASE Goto(p, "scan")
      BY <1>1, <1>2, <2>2, MovesOn
   <2>3. CASE inv[i].admission = "admitted" /\ run[i] \in RunTerminal /\ Goto(p, "fin")
      BY <1>1, <1>2, <1>4, <2>3, MovesOn
   <2>4. CASE /\ inv[i].admission = "admitted" /\ run[i] \in RunTerminal /\ inv[i].finished
              /\ Goto(p, proc[p].then)
      <3> DEFINE c == proc[p].then
      <3>1. c \in {"idle", "mark", "submit", "fin_read", "fin", "expose", "scan"} /\ Goto(p, c)
         BY <1>5, <2>4
      <3> HIDE DEF c
      <3> QED BY <1>1, <1>2, <1>4, <2>4, <3>1, MovesOn
   <2> QED BY <2>1, <2>2, <2>3, <2>4 DEF FinalizeRead
<1> QED BY <1>1, <1>2, <1>6, ProcStepKeepsInv

-----------------------------------------------------------------------------
(* Steps that change one row.                                              *)
LEMMA RowChange ==
    ASSUME SessInv, NEW i \in Invocations, NEW x \in Row, inv' = [inv EXCEPT ![i] = x],
           UNCHANGED run, executor' \in [Invocations -> Result],
           \A j \in Invocations : executor'[j] # "none" => executor[j] # "none",
           Consistent(x, run[i], executor'[i]),
           inv[i].finished => x.finished /\ x.status = inv[i].status,
           inv[i].mode = "durable" => x.mode = "durable"
    PROVE  /\ inv' \in [Invocations -> Row] /\ inv'[i] = x
           /\ \A j \in Invocations : j # i => inv'[j] = inv[j]
           /\ RowsConsistent' /\ Settled /\ RunsOnward /\ run' \in [Invocations -> RunStatus]
<1>1. /\ inv' \in [Invocations -> Row] /\ inv'[i] = x
      /\ \A j \in Invocations : j # i => inv'[j] = inv[j]
   BY RowMoves DEF SessInv
<1>2. RowsConsistent'
   <2> SUFFICES ASSUME NEW j \in Invocations PROVE Consistent(inv'[j], run[j], executor'[j])
      BY DEF RowsConsistent
   <2>1. CASE j = i
      BY <1>1, <2>1
   <2>2. CASE j # i
      BY <1>1, <2>2 DEF SessInv, RowsConsistent, Consistent
   <2> QED BY <2>1, <2>2
<1>3. Settled
   BY <1>1 DEF Settled
<1> QED BY <1>1, <1>2, <1>3, RunStays

LEMMA RowChangeKeepsInv ==
    ASSUME SessInv, NEW i \in Invocations, NEW x \in Row, inv' = [inv EXCEPT ![i] = x],
           UNCHANGED <<session, messages, run>>, Rest, executor' \in [Invocations -> Result],
           \A j \in Invocations : executor'[j] # "none" => executor[j] # "none",
           Consistent(x, run[i], executor'[i]),
           inv[i].finished => x.finished /\ x.status = inv[i].status,
           inv[i].mode = "durable" => x.mode = "durable",
           Succeeded(x) => Succeeded(inv[i]),
           x.status \in Active => inv[i].status \in Active,
           proc' \in [Processes -> ProcState], ReadsHold'
    PROVE  SessInv' /\ Settled
<1>1. /\ inv' \in [Invocations -> Row] /\ inv'[i] = x
      /\ \A j \in Invocations : j # i => inv'[j] = inv[j]
      /\ RowsConsistent' /\ Settled
   BY RowChange
<1>2. \A j \in Invocations : inv'[j].status \in Active => inv[j].status \in Active
   BY <1>1
<1>3. UNCHANGED <<sessionOf, exposed, faults>>
   BY DEF Rest
<1>4. OneRuns'
   BY <1>2, <1>3, FewerActive
<1>5. \A j \in Invocations : Succeeded(inv'[j]) => Succeeded(inv[j])
   BY <1>1
<1>6. /\ session' \in [Sessions -> SessionRow]
      /\ \A s \in Sessions : session'[s].rev >= session[s].rev
   BY SessionTypes DEF SessInv, SessionRow
<1> QED BY <1>1, <1>3, <1>4, <1>5, <1>6, RowStepKeepsInv

\* MarkInvocationAdmitted, by the request or by the scanner, changes no more.
LEMMA AdmittedRow ==
    ASSUME SessInv, NEW i \in Invocations, NEW x, inv[i].mode = "durable",
           x = [inv[i] EXCEPT !.admission = "admitted"]
    PROVE  /\ x \in Row /\ Consistent(x, run[i], executor[i]) /\ x.mode = inv[i].mode
           /\ x.finished = inv[i].finished /\ x.status = inv[i].status
           /\ (Succeeded(x) => Succeeded(inv[i]))
<1>1. inv[i] \in Row /\ Consistent(inv[i], run[i], executor[i])
   BY SessionTypes DEF SessInv, RowsConsistent
<1>2. /\ x \in Row /\ x.mode = inv[i].mode /\ x.admission = "admitted"
      /\ x.finished = inv[i].finished /\ x.status = inv[i].status
   BY <1>1 DEF Row
<1> QED BY <1>1, <1>2 DEF Consistent, Succeeded

LEMMA MarkKeepsInv ==
    ASSUME SessInv, NEW h \in Processes, NEW i \in Invocations, MarkInvocationAdmitted(h, i)
    PROVE  SessInv' /\ Settled
<1> DEFINE x == [inv[i] EXCEPT !.admission = "admitted"]
<1>1. /\ Of(h, i) /\ Goto(h, "submit") /\ UNCHANGED <<session, messages, run, executor>> /\ Rest
      /\ inv' = [inv EXCEPT ![i].admission = "admitted"] /\ inv[i].mode = "durable"
   BY InHand DEF MarkInvocationAdmitted, At
<1>2. inv' = [inv EXCEPT ![i] = x] /\ executor' \in [Invocations -> Result]
   BY <1>1, SessionTypes DEF SessInv
<1>3. /\ x \in Row /\ Consistent(x, run[i], executor[i]) /\ x.mode = inv[i].mode
      /\ x.finished = inv[i].finished /\ x.status = inv[i].status
      /\ (Succeeded(x) => Succeeded(inv[i]))
   BY <1>1, AdmittedRow
<1> HIDE DEF x
<1>4. Settled /\ RunsOnward
   BY <1>1, <1>2, <1>3, RowChange
<1>5. proc' \in [Processes -> ProcState] /\ ReadsHold'
   BY <1>1, <1>4, MovesOn
<1> QED BY <1>1, <1>2, <1>3, <1>5, RowChangeKeepsInv

LEMMA DeadlineKeepsInv ==
    ASSUME SessInv, NEW i \in Invocations, Deadline(i)
    PROVE  SessInv' /\ Settled
<1> DEFINE x == [inv[i] EXCEPT !.past = TRUE]
<1>1. /\ inv[i].mode # "none" /\ inv' = [inv EXCEPT ![i].past = TRUE]
      /\ UNCHANGED <<session, messages, run, executor, proc>> /\ Rest
   BY DEF Deadline
<1>2. /\ inv[i] \in Row /\ Consistent(inv[i], run[i], executor[i])
      /\ inv' = [inv EXCEPT ![i] = x] /\ executor' \in [Invocations -> Result]
   BY <1>1, SessionTypes DEF SessInv, RowsConsistent
<1>3. /\ x \in Row /\ x.mode = inv[i].mode /\ x.admission = inv[i].admission
      /\ x.finished = inv[i].finished /\ x.status = inv[i].status
   BY <1>2 DEF Row
<1>4. Consistent(x, run[i], executor[i]) /\ (Succeeded(x) => Succeeded(inv[i]))
   BY <1>1, <1>2, <1>3 DEF Consistent, Succeeded
<1> HIDE DEF x
<1>5. Settled /\ RunsOnward
   BY <1>1, <1>2, <1>3, <1>4, RowChange
<1>6. proc' \in [Processes -> ProcState] /\ ReadsHold'
   BY <1>1, <1>5, ReadsStay, SessionTypes DEF SessInv
<1> QED BY <1>1, <1>2, <1>3, <1>4, <1>6, RowChangeKeepsInv

\* FinalizeRun's transaction.
LEMMA FinalizeCommitKeepsInv ==
    ASSUME SessInv, NEW p \in Processes, NEW i \in Invocations, FinalizeCommit(p, i)
    PROVE  SessInv' /\ Settled
<1> DEFINE s == sessionOf[i]
           c == proc[p].then
           x == [inv[i] EXCEPT !.status = run[i], !.finished = TRUE]
<1>1. /\ Of(p, i) /\ Goto(p, c) /\ UNCHANGED <<run, executor>> /\ Rest
      /\ proc[p] \in ProcState /\ inv[i] \in Row /\ inv[i].mode = "durable"
      /\ run[i] \in RunTerminal /\ Consistent(inv[i], run[i], executor[i])
   BY InHand DEF FinalizeCommit, At
<1>2. c \in {"idle", "mark", "submit", "fin_read", "fin", "expose", "scan"} /\ c # "mark" /\ c # "fin"
   BY <1>1 DEF ProcState
<1> HIDE DEF c
<1>3. CASE inv[i].finished /\ UNCHANGED <<session, inv, messages>>
   <2>1. Settled /\ RunsOnward /\ run' \in [Invocations -> RunStatus]
      BY <1>1, <1>3, RowsStay, RunStays
   <2>2. proc' \in [Processes -> ProcState] /\ ReadsHold'
      BY <1>1, <1>2, <1>3, <2>1, MovesOn
   <2> QED BY <1>1, <1>3, <2>1, <2>2, ProcStepKeepsInv
<1>4. CASE /\ ~inv[i].finished
           /\ IF run[i] = "completed" /\ session[s].status # "deleted" THEN Answer(s, i)
              ELSE UNCHANGED <<session, messages>>
           /\ inv' = [inv EXCEPT ![i].status = run[i], ![i].finished = TRUE]
   <2>1. inv' = [inv EXCEPT ![i] = x] /\ executor' \in [Invocations -> Result]
      BY <1>1, <1>4, SessionTypes DEF SessInv
   <2>2. /\ x \in Row /\ x.mode = "durable" /\ x.status = run[i] /\ x.finished
         /\ x.admission = inv[i].admission
      BY <1>1 DEF Row
   <2>3. /\ Consistent(x, run[i], executor[i]) /\ x.status \notin Active
         /\ (Succeeded(x) <=> run[i] = "completed")
      BY <1>1, <2>2 DEF Consistent, Ended, RunTerminal, Active, Succeeded
   <2> HIDE DEF x
   <2>4. /\ inv' \in [Invocations -> Row] /\ inv'[i] = x
         /\ \A j \in Invocations : j # i => inv'[j] = inv[j]
         /\ RowsConsistent' /\ Settled /\ RunsOnward
      BY <1>1, <1>4, <2>1, <2>2, <2>3, RowChange
   <2>5. proc' \in [Processes -> ProcState] /\ ReadsHold'
      BY <1>1, <1>2, <2>2, <2>4, MovesOn
   <2>6. CASE run[i] # "completed"
      <3>1. ~Succeeded(x) /\ UNCHANGED <<session, messages>>
         BY <1>4, <2>3, <2>6
      <3> QED BY <1>1, <1>4, <2>1, <2>2, <2>3, <2>5, <3>1, RowChangeKeepsInv
   <2>7. CASE run[i] = "completed"
      <3>1. inv[i].status \in Active
         BY <1>1, <1>4 DEF Consistent, Row, Ended, Active, RunTerminal
      <3>2. session[s].status # "deleted"
         BY <3>1 DEF SessInv, OneRuns
      <3>3. Answer(sessionOf[i], i) /\ ~Succeeded(inv[i]) /\ Succeeded(inv'[i])
         BY <1>4, <2>3, <2>4, <2>7, <3>2 DEF Succeeded
      <3>4. UNCHANGED <<sessionOf, run, exposed, faults>>
         BY <1>1 DEF Rest
      <3> QED BY <2>1, <2>3, <2>4, <2>5, <3>3, <3>4, AnswerStepKeepsInv
   <2> QED BY <2>6, <2>7
<1> HIDE DEF x, s
<1> QED BY <1>3, <1>4 DEF FinalizeCommit, c, x, s

-----------------------------------------------------------------------------
(* The scanner.                                                            *)
LEMMA ScanKeepsInv ==
    ASSUME SessInv, NEW p \in Processes, Scan(p)
    PROVE  SessInv' /\ Settled
<1> DEFINE rows == {i \in Invocations : inv[i].admission # "" /\ ~inv[i].finished}
           m == [Idle EXCEPT !.pc = "scan", !.rows = rows,
                   !.pend = {i \in rows : inv[i].admission = "pending_create"}]
<1>1. proc' = [proc EXCEPT ![p] = m] /\ UNCHANGED <<session, inv, messages, run, executor>> /\ Rest
   BY DEF Scan
<1>2. m \in ProcState /\ m.pc = "scan"
   BY DEF Idle, ProcState
<1> HIDE DEF m
<1>3. Settled /\ RunsOnward /\ run' \in [Invocations -> RunStatus]
   BY <1>1, RowsStay, RunStays
<1>4. proc' \in [Processes -> ProcState] /\ ReadsHold'
   BY <1>1, <1>2, <1>3, ScanMoves
<1> QED BY <1>1, <1>3, <1>4, ProcStepKeepsInv

LEMMA ScanDoneKeepsInv ==
    ASSUME SessInv, NEW p \in Processes, ScanDone(p)
    PROVE  SessInv' /\ Settled
<1>1. Stop(p) /\ UNCHANGED <<session, inv, messages, run, executor>> /\ Rest
   BY DEF ScanDone
<1>2. Settled /\ RunsOnward /\ run' \in [Invocations -> RunStatus]
   BY <1>1, RowsStay, RunStays
<1>3. proc' \in [Processes -> ProcState] /\ ReadsHold'
   BY <1>1, <1>2, MovesOff
<1> QED BY <1>1, <1>2, <1>3, ProcStepKeepsInv

LEMMA ScanAdmitKeepsInv ==
    ASSUME SessInv, NEW p \in Processes, NEW i \in Invocations, ScanAdmit(p, i)
    PROVE  SessInv' /\ Settled
<1>1. /\ At(p, "scan") /\ UNCHANGED <<session, inv, messages, executor>> /\ Rest
      /\ proc \in [Processes -> ProcState] /\ proc[p] \in ProcState
   BY SessionTypes DEF ScanAdmit, SessInv
<1>2. Settled
   BY <1>1, RowsStay
<1>3. run' \in [Invocations -> RunStatus] /\ RunsOnward
   <2>1. CASE UNCHANGED run
      BY <2>1, RunStays
   <2>2. CASE /\ run[i] = "absent"
              /\ run' = [run EXCEPT ![i] = IF Deadlined(i) THEN "failed" ELSE "accepted"]
      <3> DEFINE c == IF Deadlined(i) THEN "failed" ELSE "accepted"
      <3>1. run[i] \notin RunTerminal /\ c \in RunStatus
         BY <2>2 DEF RunTerminal, RunStatus
      <3>2. run' = [run EXCEPT ![i] = c]
         BY <2>2
      <3> HIDE DEF c
      <3> QED BY <3>1, <3>2, RunMoves
   <2> QED BY <2>1, <2>2 DEF ScanAdmit
<1>4. proc' \in [Processes -> ProcState] /\ ReadsHold'
   <2>1. CASE Stop(p)
      BY <1>2, <1>3, <2>1, MovesOff
   <2>2. CASE proc' = [proc EXCEPT ![p].pend = @ \ {i}]
      <3> DEFINE m == [proc[p] EXCEPT !.pend = @ \ {i}]
      <3>1. m \in ProcState /\ m.pc = "scan"
         BY <1>1 DEF ProcState, At
      <3>2. proc' = [proc EXCEPT ![p] = m]
         BY <1>1, <2>2
      <3> HIDE DEF m
      <3> QED BY <1>2, <1>3, <3>1, <3>2, ScanMoves
   <2>3. CASE proc' = [proc EXCEPT ![p].pc = "scan_mark", ![p].i = {i}]
      <3> DEFINE m == [proc[p] EXCEPT !.pc = "scan_mark", !.i = {i}]
      <3>1. m \in ProcState /\ m.pc = "scan_mark"
         BY <1>1 DEF ProcState
      <3>2. proc' = [proc EXCEPT ![p] = m]
         BY <1>1, <2>3
      <3> HIDE DEF m
      <3> QED BY <1>2, <1>3, <3>1, <3>2, ScanMoves
   <2> QED BY <2>1, <2>2, <2>3 DEF ScanAdmit
<1> QED BY <1>1, <1>3, <1>4, ProcStepKeepsInv

LEMMA ScanMarkKeepsInv ==
    ASSUME SessInv, NEW p \in Processes, NEW i \in Invocations, ScanMark(p, i)
    PROVE  SessInv' /\ Settled
<1>1. /\ UNCHANGED <<session, messages, run, executor>> /\ Rest
      /\ proc \in [Processes -> ProcState] /\ proc[p] \in ProcState
   BY SessionTypes DEF ScanMark, SessInv
<1>2. CASE Stop(p) /\ UNCHANGED inv
   <2>1. Settled /\ RunsOnward /\ run' \in [Invocations -> RunStatus]
      BY <1>1, <1>2, RowsStay, RunStays
   <2>2. proc' \in [Processes -> ProcState] /\ ReadsHold'
      BY <1>2, <2>1, MovesOff
   <2> QED BY <1>1, <1>2, <2>1, <2>2, ProcStepKeepsInv
<1>3. CASE /\ inv[i].admission = "pending_create"
           /\ inv' = [inv EXCEPT ![i].admission = "admitted"]
           /\ proc' = [proc EXCEPT ![p].pc = "scan", ![p].pend = @ \ {i}]
   <2> DEFINE x == [inv[i] EXCEPT !.admission = "admitted"]
              m == [proc[p] EXCEPT !.pc = "scan", !.pend = @ \ {i}]
   <2>1. /\ inv' = [inv EXCEPT ![i] = x] /\ executor' \in [Invocations -> Result]
         /\ inv[i].mode = "durable"
      BY <1>1, <1>3, SessionTypes DEF SessInv, RowsConsistent, Consistent
   <2>2. /\ x \in Row /\ Consistent(x, run[i], executor[i]) /\ x.mode = inv[i].mode
         /\ x.finished = inv[i].finished /\ x.status = inv[i].status
         /\ (Succeeded(x) => Succeeded(inv[i]))
      BY <2>1, AdmittedRow
   <2>3. m \in ProcState /\ m.pc = "scan"
      BY <1>1 DEF ProcState
   <2>4. proc' = [proc EXCEPT ![p] = m]
      BY <1>1, <1>3
   <2> HIDE DEF x, m
   <2>5. Settled /\ RunsOnward
      BY <1>1, <2>1, <2>2, RowChange
   <2>6. proc' \in [Processes -> ProcState] /\ ReadsHold'
      BY <2>3, <2>4, <2>5, ScanMoves
   <2> QED BY <1>1, <2>1, <2>2, <2>6, RowChangeKeepsInv
<1> QED BY <1>2, <1>3 DEF ScanMark

LEMMA ScanRowKeepsInv ==
    ASSUME SessInv, NEW p \in Processes, NEW i \in Invocations, ScanRow(p, i)
    PROVE  SessInv' /\ Settled
<1> DEFINE c == IF run'[i] \in RunTerminal THEN "fin_read" ELSE "scan"
           m == [proc[p] EXCEPT !.rows = @ \ {i}, !.i = {i}, !.then = "scan", !.pc = c]
<1>1. /\ proc' = [proc EXCEPT ![p].rows = @ \ {i}, ![p].i = {i}, ![p].then = "scan", ![p].pc = c]
      /\ UNCHANGED <<session, inv, messages, executor>> /\ Rest
      /\ proc \in [Processes -> ProcState] /\ proc[p] \in ProcState
   BY SessionTypes DEF ScanRow, SessInv
<1>2. c \in {"scan", "fin_read"}
   OBVIOUS
<1> HIDE DEF c
<1>3. m \in ProcState /\ m.pc = c
   BY <1>1, <1>2 DEF ProcState
<1>4. proc' = [proc EXCEPT ![p] = m]
   BY <1>1
<1> HIDE DEF m
<1>5. Settled
   BY <1>1, RowsStay
<1>6. run' \in [Invocations -> RunStatus] /\ RunsOnward
   <2>1. run' = CASE run[i] \in {"accepted", "planning"} /\ Deadlined(i) -> [run EXCEPT ![i] = "failed"]
                  [] run[i] = "accepted" /\ ~Deadlined(i) -> [run EXCEPT ![i] = "planning"]
                  [] OTHER -> run
      BY DEF ScanRow
   <2>2. CASE run[i] \in {"accepted", "planning"} /\ Deadlined(i)
      <3>1. /\ run' = [run EXCEPT ![i] = "failed"] /\ run[i] \notin RunTerminal
            /\ "failed" \in RunStatus
         BY <2>1, <2>2 DEF RunTerminal, RunStatus
      <3> QED BY <3>1, RunMoves
   <2>3. CASE run[i] = "accepted" /\ ~Deadlined(i)
      <3>1. /\ run' = [run EXCEPT ![i] = "planning"] /\ run[i] \notin RunTerminal
            /\ "planning" \in RunStatus
         BY <2>1, <2>3 DEF RunTerminal, RunStatus
      <3> QED BY <3>1, RunMoves
   <2>4. CASE /\ ~(run[i] \in {"accepted", "planning"} /\ Deadlined(i))
              /\ ~(run[i] = "accepted" /\ ~Deadlined(i))
      <3>1. UNCHANGED run
         BY <2>1, <2>4
      <3> QED BY <3>1, RunStays
   <2> QED BY <2>2, <2>3, <2>4
<1>7. proc' \in [Processes -> ProcState] /\ ReadsHold'
   BY <1>2, <1>3, <1>4, <1>5, <1>6, ScanMoves
<1> QED BY <1>1, <1>6, <1>7, ProcStepKeepsInv

-----------------------------------------------------------------------------
(* Runs that end or are cancelled, and processes that die.                 *)
LEMMA RunStepKeepsInv ==
    ASSUME SessInv, NEW i \in Invocations, RunEnds(i) \/ CancelDurable(i)
    PROVE  SessInv' /\ Settled
<1>1. /\ run[i] \in {"accepted", "planning"}
      /\ \E c \in RunTerminal : run' = [run EXCEPT ![i] = c]
      /\ UNCHANGED <<session, inv, messages, executor, proc>> /\ Rest
   BY DEF RunEnds, CancelDurable, RunTerminal
<1>2. run' \in [Invocations -> RunStatus] /\ RunsOnward
   <2>1. PICK c \in RunTerminal : run' = [run EXCEPT ![i] = c]
      BY <1>1
   <2>2. c \in RunStatus /\ run[i] \notin RunTerminal
      BY <1>1 DEF RunStatus, RunTerminal
   <2> QED BY <2>1, <2>2, RunMoves
<1>3. Settled
   BY <1>1, RowsStay
<1>4. proc' \in [Processes -> ProcState] /\ ReadsHold'
   BY <1>1, <1>2, <1>3, ReadsStay, SessionTypes DEF SessInv
<1> QED BY <1>1, <1>2, <1>4, ProcStepKeepsInv

LEMMA ProcessCrashKeepsInv ==
    ASSUME SessInv, NEW p \in Processes, Crash(p)
    PROVE  SessInv' /\ Settled
<1>1. /\ Stop(p) /\ faults < MaxFaults /\ faults' = faults + 1
      /\ UNCHANGED <<session, sessionOf, inv, messages, run, executor, exposed>>
   BY DEF Crash
<1>2. Settled /\ RunsOnward /\ run' \in [Invocations -> RunStatus]
   BY <1>1, RowsStay, RunStays
<1>3. proc' \in [Processes -> ProcState] /\ ReadsHold'
   BY <1>1, <1>2, MovesOff
<1>4. faults' \in 0..MaxFaults
   <2>1. faults \in 0..MaxFaults /\ MaxFaults \in Nat
      BY SessionAssumption DEF SessionAssumption, SessInv, SessionTypeOK
   <2> QED BY <1>1, <2>1
<1>5. /\ exposed' \subseteq Invocations /\ \A j \in exposed' : Succeeded(inv[j])
      /\ executor' \in [Invocations -> Result]
   BY <1>1, SessionTypes DEF SessInv, SessionTypeOK, Shown
<1> QED BY <1>1, <1>2, <1>3, <1>4, <1>5, ReadStepKeepsInv

-----------------------------------------------------------------------------
(* The local mode.                                                         *)
LEMMA ExecutorMoves ==
    ASSUME SessInv, NEW i \in Invocations, NEW e \in Result, executor[i] # "none",
           executor' = [executor EXCEPT ![i] = e]
    PROVE  /\ executor' \in [Invocations -> Result] /\ executor'[i] = e
           /\ \A j \in Invocations : executor'[j] # "none" => executor[j] # "none"
<1>1. executor \in [Invocations -> Result]
   BY SessionTypes DEF SessInv
<1> QED BY <1>1

LEMMA ExecutorStepKeepsInv ==
    ASSUME SessInv, NEW i \in Invocations, Executed(i) \/ ExecutorLost(i)
    PROVE  SessInv' /\ Settled
<1>1. /\ executor[i] # "none" /\ \E e \in Result : executor' = [executor EXCEPT ![i] = e]
      /\ UNCHANGED <<session, inv, messages, run, proc>> /\ Rest
   BY DEF Executed, ExecutorLost, Result
<1>2. /\ executor' \in [Invocations -> Result]
      /\ \A j \in Invocations : executor'[j] # "none" => executor[j] # "none"
   <2>1. PICK e \in Result : executor' = [executor EXCEPT ![i] = e]
      BY <1>1
   <2> QED BY <1>1, <2>1, ExecutorMoves
<1>3. Settled /\ RunsOnward /\ run' \in [Invocations -> RunStatus]
   BY <1>1, RowsStay, RunStays
<1>4. proc' \in [Processes -> ProcState] /\ ReadsHold'
   BY <1>1, <1>3, ReadsStay, SessionTypes DEF SessInv
<1>5. /\ exposed' \subseteq Invocations /\ \A j \in exposed' : Succeeded(inv[j])
      /\ faults' \in 0..MaxFaults /\ UNCHANGED sessionOf
   BY <1>1 DEF SessInv, SessionTypeOK, Shown, Rest
<1> QED BY <1>1, <1>2, <1>3, <1>4, <1>5, ReadStepKeepsInv

\* A local row that ends or is to be cancelled.
LEMMA LocalRow ==
    ASSUME SessInv, NEW i \in Invocations, inv[i].mode = "local", inv[i].status \in Active,
           NEW st \in {"succeeded", "failed", "cancelled"}, NEW x,
           x = [inv[i] EXCEPT !.status = st, !.finished = TRUE], NEW e \in Result
    PROVE  /\ x \in Row /\ Consistent(x, run[i], e) /\ x.status \notin Active
           /\ x.mode = "local" /\ ~inv[i].finished
           /\ Succeeded(x) <=> st = "succeeded"
<1>1. inv[i] \in Row /\ Consistent(inv[i], run[i], executor[i])
   BY SessionTypes DEF SessInv, RowsConsistent
<1>2. /\ x \in Row /\ x.mode = "local" /\ x.status = st /\ x.finished = TRUE
      /\ x.admission = inv[i].admission
   BY <1>1 DEF Row, RunTerminal
<1>3. ~inv[i].finished
   BY <1>1 DEF Consistent, Active, Ended, RunTerminal
<1> QED BY <1>1, <1>2, <1>3 DEF Consistent, Active, Ended, RunTerminal, Succeeded

LEMMA ExecuteFinishKeepsInv ==
    ASSUME SessInv, NEW i \in Invocations, ExecuteFinish(i)
    PROVE  SessInv' /\ Settled
<1> DEFINE st == IF inv[i].cancel THEN "cancelled" ELSE executor[i]
           x == [inv[i] EXCEPT !.status = st, !.finished = TRUE]
<1>1. /\ executor[i] \in {"succeeded", "failed"} /\ executor' = [executor EXCEPT ![i] = "none"]
      /\ UNCHANGED <<run, proc>> /\ Rest /\ UNCHANGED <<sessionOf, run, exposed, faults>>
      /\ "none" \in Result
   BY DEF ExecuteFinish, Rest, Result
<1>2. /\ executor' \in [Invocations -> Result] /\ executor'[i] = "none"
      /\ \A j \in Invocations : executor'[j] # "none" => executor[j] # "none"
   BY <1>1, ExecutorMoves
<1>3. CASE UNCHANGED <<session, inv, messages>>
   <2>1. Settled /\ RunsOnward /\ run' \in [Invocations -> RunStatus]
      BY <1>1, <1>3, RowsStay, RunStays
   <2>2. proc' \in [Processes -> ProcState] /\ ReadsHold'
      BY <1>1, <2>1, ReadsStay, SessionTypes DEF SessInv
   <2>3. /\ exposed' \subseteq Invocations /\ \A j \in exposed' : Succeeded(inv[j])
         /\ faults' \in 0..MaxFaults
      BY <1>1 DEF SessInv, SessionTypeOK, Shown
   <2> QED BY <1>1, <1>2, <1>3, <2>1, <2>2, <2>3, ReadStepKeepsInv
<1>4. CASE /\ inv[i].status \in Active
           /\ inv' = [inv EXCEPT ![i].status = st, ![i].finished = TRUE]
           /\ IF st = "succeeded" THEN Answer(sessionOf[i], i) ELSE UNCHANGED <<session, messages>>
   <2>1. inv' = [inv EXCEPT ![i] = x]
      BY <1>4, SessionTypes DEF SessInv
   <2>2. st \in {"succeeded", "failed", "cancelled"} /\ inv[i].mode = "local"
      BY <1>1 DEF SessInv, RowsConsistent, Consistent
   <2> HIDE DEF st
   <2>3. /\ x \in Row /\ Consistent(x, run[i], executor'[i]) /\ x.status \notin Active
         /\ x.mode = "local" /\ ~inv[i].finished /\ (Succeeded(x) <=> st = "succeeded")
      BY <1>1, <1>2, <1>4, <2>2, LocalRow
   <2> HIDE DEF x
   <2>4. /\ inv' \in [Invocations -> Row] /\ inv'[i] = x
         /\ \A j \in Invocations : j # i => inv'[j] = inv[j]
         /\ RowsConsistent' /\ Settled /\ RunsOnward
      BY <1>1, <1>2, <2>1, <2>2, <2>3, RowChange
   <2>5. proc' \in [Processes -> ProcState] /\ ReadsHold'
      BY <1>1, <2>4, ReadsStay, SessionTypes DEF SessInv
   <2>6. CASE st # "succeeded"
      <3>1. ~Succeeded(x) /\ UNCHANGED <<session, messages>>
         BY <1>4, <2>3, <2>6
      <3> QED BY <1>1, <1>2, <2>1, <2>2, <2>3, <2>5, <3>1, RowChangeKeepsInv
   <2>7. CASE st = "succeeded"
      <3>1. Answer(sessionOf[i], i) /\ ~Succeeded(inv[i]) /\ Succeeded(inv'[i])
         BY <1>4, <2>3, <2>4, <2>7 DEF Succeeded
      <3> QED BY <1>1, <1>2, <2>3, <2>4, <2>5, <3>1, AnswerStepKeepsInv
   <2> QED BY <2>6, <2>7
<1> HIDE DEF st, x
<1> QED BY <1>3, <1>4 DEF ExecuteFinish, st, x

LEMMA ExpireOnReadKeepsInv ==
    ASSUME SessInv, NEW i \in Invocations, ExpireOnRead(i)
    PROVE  SessInv' /\ Settled
<1> DEFINE x == [inv[i] EXCEPT !.status = "failed", !.finished = TRUE]
<1>1. /\ inv[i].mode = "local" /\ inv[i].status \in Active
      /\ inv' = [inv EXCEPT ![i].status = "failed", ![i].finished = TRUE]
      /\ UNCHANGED <<session, messages, run, executor, proc>> /\ Rest
   BY DEF ExpireOnRead
<1>2. /\ inv' = [inv EXCEPT ![i] = x] /\ executor' \in [Invocations -> Result]
      /\ executor[i] \in Result
   BY <1>1, SessionTypes DEF SessInv
<1>3. /\ x \in Row /\ Consistent(x, run[i], executor[i]) /\ x.status \notin Active
      /\ x.mode = "local" /\ ~inv[i].finished /\ ~Succeeded(x)
   BY <1>1, <1>2, LocalRow
<1> HIDE DEF x
<1>4. Settled /\ RunsOnward
   BY <1>1, <1>2, <1>3, RowChange
<1>5. proc' \in [Processes -> ProcState] /\ ReadsHold'
   BY <1>1, <1>4, ReadsStay, SessionTypes DEF SessInv
<1> QED BY <1>1, <1>2, <1>3, <1>5, RowChangeKeepsInv

LEMMA CancelInvocationKeepsInv ==
    ASSUME SessInv, NEW i \in Invocations, CancelInvocation(i)
    PROVE  SessInv' /\ Settled
<1> DEFINE x == [inv[i] EXCEPT !.status = "cancelling", !.cancel = TRUE]
<1>1. /\ inv[i].mode = "local" /\ inv[i].status = "running"
      /\ inv' = [inv EXCEPT ![i].status = "cancelling", ![i].cancel = TRUE]
      /\ UNCHANGED <<session, messages, run, executor, proc>> /\ Rest
   BY DEF CancelInvocation
<1>2. /\ inv' = [inv EXCEPT ![i] = x] /\ executor' \in [Invocations -> Result]
      /\ inv[i] \in Row /\ Consistent(inv[i], run[i], executor[i])
   BY <1>1, SessionTypes DEF SessInv, RowsConsistent
<1>3. /\ x \in Row /\ x.mode = "local" /\ x.status = "cancelling" /\ x.finished = inv[i].finished
      /\ x.admission = inv[i].admission
   BY <1>1, <1>2 DEF Row, Active
<1>4. /\ ~inv[i].finished /\ Consistent(x, run[i], executor[i]) /\ ~Succeeded(x)
      /\ inv[i].status \in Active
   BY <1>1, <1>2, <1>3 DEF Consistent, Ended, RunTerminal, Succeeded, Active
<1> HIDE DEF x
<1>5. Settled /\ RunsOnward
   BY <1>1, <1>2, <1>3, <1>4, RowChange
<1>6. proc' \in [Processes -> ProcState] /\ ReadsHold'
   BY <1>1, <1>5, ReadsStay, SessionTypes DEF SessInv
<1> QED BY <1>1, <1>2, <1>3, <1>4, <1>6, RowChangeKeepsInv

-----------------------------------------------------------------------------
LEMMA HandlerStepKeepsInv ==
    ASSUME SessInv, NEW h \in Processes, NEW i \in Invocations, HandlerStep(h, i)
    PROVE  SessInv' /\ Settled
BY AdmitKeepsInv, MarkKeepsInv, SubmitKeepsInv, GetRowKeepsInv, GetRunKeepsInv, ExposeKeepsInv,
   FinalizeReadKeepsInv, FinalizeCommitKeepsInv DEF HandlerStep

LEMMA ScannerStepKeepsInv ==
    ASSUME SessInv, NEW p \in Processes, ScannerStep(p)
    PROVE  SessInv' /\ Settled
<1>1. CASE Scan(p) \/ ScanDone(p)
   BY <1>1, ScanKeepsInv, ScanDoneKeepsInv
<1>2. ASSUME NEW i \in Invocations, ScanAdmit(p, i) \/ ScanMark(p, i) \/ ScanRow(p, i)
      PROVE  SessInv' /\ Settled
   BY <1>2, ScanAdmitKeepsInv, ScanMarkKeepsInv, ScanRowKeepsInv
<1>3. ASSUME NEW i \in Invocations, FinalizeRead(p, i) \/ FinalizeCommit(p, i)
      PROVE  SessInv' /\ Settled
   BY <1>3, FinalizeReadKeepsInv, FinalizeCommitKeepsInv
<1> QED BY <1>1, <1>2, <1>3 DEF ScannerStep

LEMMA LocalStepKeepsInv ==
    ASSUME SessInv, NEW i \in Invocations, LocalStep(i)
    PROVE  SessInv' /\ Settled
BY ExecutorStepKeepsInv, ExecuteFinishKeepsInv, CancelInvocationKeepsInv, ExpireOnReadKeepsInv
   DEF LocalStep

LEMMA SessNext == SessInv /\ [Next]_vars => SessInv' /\ Settled
<1> SUFFICES ASSUME SessInv, [Next]_vars PROVE SessInv' /\ Settled
   OBVIOUS
<1>1. CASE \E s \in Sessions :
             Append(s) \/ \E op \in {"rename", "archive", "delete"} : Mutate(s, op)
   BY <1>1, AppendKeepsInv, MutateKeepsInv
<1>2. CASE \E h \in Handlers, i \in Invocations :
             HandlerStep(h, i) \/ \E mode \in Modes : Invoke(h, i, mode)
   <2>1. Handlers \subseteq Processes
      BY DEF Processes
   <2> QED BY <1>2, <2>1, HandlerStepKeepsInv, InvokeKeepsInv
<1>3. CASE \E i \in Invocations : RunEnds(i) \/ CancelDurable(i) \/ Deadline(i) \/ LocalStep(i)
   BY <1>3, RunStepKeepsInv, DeadlineKeepsInv, LocalStepKeepsInv
<1>4. CASE \E p \in Scanners : ScannerStep(p)
   <2>1. Scanners \subseteq Processes
      BY DEF Processes
   <2> QED BY <1>4, <2>1, ScannerStepKeepsInv
<1>5. CASE \E p \in Processes : Crash(p)
   BY <1>5, ProcessCrashKeepsInv
<1>6. CASE UNCHANGED vars
   <2>1. UNCHANGED <<session, sessionOf, inv, messages, run, executor, proc, exposed, faults>>
      BY <1>6 DEF vars
   <2>2. Settled
      BY <2>1, RowsStay
   <2>3. SessionTypeOK'
      BY <2>1 DEF SessInv, SessionTypeOK
   <2>4. RowsConsistent' /\ ReadsHold' /\ OneRuns'
      BY <2>1 DEF SessInv, RowsConsistent, ReadsHold, OneRuns
   <2>5. Answered' /\ Numbered' /\ Shown'
      BY <2>1 DEF SessInv, Answered, AnswersOf, Numbered, Shown
   <2> QED BY <2>2, <2>3, <2>4, <2>5 DEF SessInv
<1> QED BY <1>1, <1>2, <1>3, <1>4, <1>5, <1>6 DEF Next

LEMMA SessInvariance == Spec => []SessInv
BY SessInit, SessNext, PTL DEF Spec

\* Every row, run and process is of its type.
THEOREM SessionTypeCorrect == Spec => []SessionTypeOK
<1>1. SessInv => SessionTypeOK
   BY DEF SessInv
<1> QED BY <1>1, SessInvariance, PTL

\* Invoke and Mutate: no session runs two
\* invocations and a deleted one runs none, whatever is retried or stops half way.
THEOREM OneIsActive == Spec => []OneActiveInvocation
<1>1. SessInv => OneActiveInvocation
   <2> SUFFICES ASSUME SessInv, NEW s \in Sessions
                PROVE  /\ Cardinality(ActiveInvocations(inv, s)) <= 1
                       /\ session[s].status = "deleted" => ActiveInvocations(inv, s) = {}
      BY DEF OneActiveInvocation
   <2>1. CASE ActiveInvocations(inv, s) = {}
      BY <2>1, FS_EmptySet
   <2>2. CASE ActiveInvocations(inv, s) # {}
      <3>1. PICK i \in Invocations : sessionOf[i] = s /\ inv[i].status \in Active
         BY <2>2 DEF ActiveInvocations
      <3>2. ActiveInvocations(inv, s) = {i}
         BY <3>1 DEF SessInv, OneRuns, ActiveInvocations
      <3>3. Cardinality(ActiveInvocations(inv, s)) = 1
         BY <3>2, FS_Singleton
      <3>4. session[s].status # "deleted"
         BY <3>1 DEF SessInv, OneRuns
      <3> QED BY <3>3, <3>4
   <2> QED BY <2>1, <2>2
<1> QED BY <1>1, SessInvariance, PTL

\* FinalizeRun and execute: a success has one assistant message, whoever commits
\* it and however often it is tried, and nothing else has any.
THEOREM AnsweredOnce == Spec => []OneAnswer
<1>1. SessInv => OneAnswer
   <2> SUFFICES ASSUME SessInv PROVE OneAnswer
      OBVIOUS
   <2>1. ASSUME NEW i \in Invocations
         PROVE  Cardinality(AnswersOf(i)) = IF Succeeded(inv[i]) THEN 1 ELSE 0
      <3>1. CASE Succeeded(inv[i])
         <4>1. PICK m : AnswersOf(i) = {m}
            BY <3>1 DEF SessInv, Answered
         <4>2. Cardinality(AnswersOf(i)) = 1
            BY <4>1, FS_Singleton
         <4> QED BY <3>1, <4>2
      <3>2. CASE ~Succeeded(inv[i])
         <4>1. AnswersOf(i) = {}
            BY <3>2 DEF SessInv, Answered
         <4> QED BY <3>2, <4>1, FS_EmptySet
      <3> QED BY <3>1, <3>2
   <2> QED BY <2>1 DEF OneAnswer, Succeeded, SessInv, Numbered
<1> QED BY <1>1, SessInvariance, PTL

\* GetInvocation: a completion that a reader was told of has its message.
THEOREM ShownIsAnswered == Spec => []CompletionHasMessage
<1>1. SessInv => CompletionHasMessage
   <2> SUFFICES ASSUME SessInv, NEW i \in exposed PROVE AnswersOf(i) # {}
      BY DEF CompletionHasMessage
   <2>1. i \in Invocations /\ Succeeded(inv[i])
      BY DEF SessInv, SessionTypeOK, Shown
   <2>2. PICK m : AnswersOf(i) = {m}
      BY <2>1 DEF SessInv, Answered
   <2> QED BY <2>2
<1> QED BY <1>1, SessInvariance, PTL

\* Late executors, expiries, cancellations and second finalizers do not change
\* what a finished invocation says.
THEOREM FinishedStays == Spec => FinishedIsFinal
<1>1. SessInv /\ [Next]_vars =>
         [\A i \in Invocations : inv[i].finished =>
            inv'[i].finished /\ inv'[i].status = inv[i].status]_vars
   BY SessNext DEF Settled
<1> QED BY <1>1, SessInvariance, PTL DEF Spec, FinishedIsFinal
=============================================================================
