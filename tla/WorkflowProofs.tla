--------------------------- MODULE WorkflowProofs ---------------------------
(***************************************************************************)
(* Proofs about one workflow instance, for any set of runners, reviewers   *)
(* and definitions, any batch size and any number of aborted drains and    *)
(* operator actions: a record is executed once at most, a step behind an   *)
(* approval waits for it, and a join is never lost between its branches.   *)
(***************************************************************************)
EXTENDS Workflow, TLAPS, SequenceTheorems, WellFoundedInduction

\* What an actor holds at each step of its work.
WorkShape ==
    \A a \in Actors :
        LET x == actor[a]
        IN  /\ x.pc \in {"check", "exec", "result", "route"} => x.batch # {}
            /\ x.pc = "enqueue" => x.todo # <<>>
            /\ x.pc = "instance" => x.set # <<>>

\* A record is executed by the actor in whose batch it is, and by nobody else:
\* the records of a batch are in no other one, they are no longer queued, and
\* only the one the actor is at has perhaps been executed.
RunsInv ==
    /\ \A r \in DOMAIN recs : recs[r].runs <= 1 /\ (recs[r].state = "queued" => recs[r].runs = 0)
    /\ \A a \in Actors : \A r \in actor[a].batch :
          /\ recs[r].state # "queued"
          /\ r # Current(a) \/ actor[a].pc \in {"check", "exec"} => recs[r].runs = 0
    /\ \A a, b \in Actors : a # b => actor[a].batch \cap actor[b].batch = {}

\* Somebody has approved a review whose approved route is s.
WasApproved(s) == \E t \in DOMAIN tasks : Approved[tasks[t].step] = s /\ "approve" \in tasks[t].acts

\* What a reviewer knows of the task it decides, and where the next steps come from.
ReviewOf(a) ==
    LET x == actor[a]
    IN  /\ x.pc \in {"decide", "apply", "finish"} => x.task \in DOMAIN tasks /\ x.act # "none"
        /\ x.pc \in {"apply", "finish"} /\ x.act = "approve" => "approve" \in tasks[x.task].acts
        /\ x.pc = "finish" => x.rec \in DOMAIN recs /\ recs[x.rec].step = tasks[x.task].step
        /\ \A s \in Range(x.todo) : s \in Gated => WasApproved(s)

ReviewInv ==
    /\ \A t \in DOMAIN tasks : \E r \in DOMAIN recs : recs[r].step = tasks[t].step
    /\ \A a \in Actors : ReviewOf(a)
    /\ ApprovedBeforePublish

\* Actor a is at record h and will still enqueue s, or fail h.
Carries(a, h, s) ==
    LET x == actor[a]
    IN  /\ x.batch # {} /\ h = Current(a)
        /\ \/ x.pc = "route"
           \/ x.pc = "enqueue" /\ s \in Range(x.todo)
           \/ x.pc = "result" /\ x.res = "failed"

\* Record r leads to s, which should be queued and is not.
Missing(r, s) ==
    /\ recs[r].state = "completed" /\ recs[r].step \notin Reviews
    /\ s \in Range(NextOf[recs[r].step]) /\ Joined(s) /\ DependenciesCompleted(s)
    /\ Latest(s) = 0

\* The records that carry s to its place: the one that leads to it and those
\* that it waited for.
Sources(r, s) == {r} \cup {Latest(d) : d \in DependsOn[s]}

JoinInv ==
    aborts = 0 =>
        \A r \in DOMAIN recs, s \in Steps :
            Missing(r, s) => \E a \in Actors : \E h \in Sources(r, s) : Carries(a, h, s)

WorkflowInv == WorkflowTypeOK /\ WorkShape /\ RunsInv /\ ReviewInv /\ JoinInv

-----------------------------------------------------------------------------
\* Min of FiniteSetsExt is the smallest element of a set of numbers.
LEMMA SmallestOf ==
    ASSUME NEW S \in SUBSET Nat, S # {}
    PROVE  Min(S) \in S /\ \A x \in S : Min(S) <= x
<1> DEFINE R == {ss \in Nat \X Nat : ss[1] < ss[2]}
<1>1. IsWellFoundedOn(R, Nat)
   BY NatLessThanWellFounded DEF OpToRel
<1>2. \E x \in S : \A y \in S : ~ (<<y, x>> \in R)
   <2> HIDE DEF R
   <2> QED BY <1>1, WFMin, Zenon
<1>3. PICK x \in S : \A y \in S : ~ (<<y, x>> \in R)
   BY <1>2
<1>4. ASSUME NEW y \in S PROVE x <= y
   <2>1. x \in Nat /\ y \in Nat
      BY <1>3
   <2>2. ~ (<<y, x>> \in R)
      BY <1>3
   <2>3. <<y, x>> \in Nat \X Nat /\ <<y, x>>[1] = y /\ <<y, x>>[2] = x
      BY <2>1
   <2>4. ~ (y < x)
      BY <2>2, <2>3
   <2> HIDE DEF R
   <2> QED BY <2>1, <2>4
<1> QED BY <1>3, <1>4 DEF Min

\* Max of FiniteSetsExt is the largest element of a set of bounded numbers.
LEMMA LargestOf ==
    ASSUME NEW n \in Nat, NEW S \in SUBSET (1..n), S # {}
    PROVE  Max(S) \in S /\ \A x \in S : x <= Max(S)
<1> DEFINE T == {n - x : x \in S}
<1>1. T \in SUBSET Nat /\ T # {}
   <2>1. \A x \in S : x \in Nat /\ n - x \in Nat
      OBVIOUS
   <2> QED BY <2>1
<1>2. Min(T) \in T /\ \A y \in T : Min(T) <= y
   <2> HIDE DEF T
   <2> QED BY <1>1, SmallestOf
<1>3. PICK x \in S : Min(T) = n - x
   BY <1>2
<1>4. \A y \in S : n - x <= n - y
   BY <1>2, <1>3
<1>5. \A y \in S : y <= x
   BY <1>4
<1> HIDE DEF T
<1> QED BY <1>5 DEF Max

\* The definition an instance runs.
LEMMA TheSetup ==
    ASSUME setup \in Setups
    PROVE  /\ SetupOK(setup)
           /\ setup.start \in Steps /\ Reviews \subseteq Steps
           /\ NextOf \in [Steps -> Seq(Steps)] /\ DependsOn \in [Steps -> SUBSET Steps]
           /\ \A v \in Reviews : Approved[v] \in Steps /\ Rejected[v] \in Steps
           /\ setup.maxRecords \in Nat /\ setup.maxControls \in Nat /\ setup.maxAborts \in Nat
<1>1. SetupOK(setup)
   BY WorkflowAssumption DEF WorkflowAssumption
<1>2. setup.start \in Steps /\ Reviews \subseteq Steps /\ DOMAIN Rejected = Reviews
   BY <1>1 DEF SetupOK, Steps, Reviews, Rejected
<1>3. NextOf \in [Steps -> Seq(Steps)] /\ DependsOn \in [Steps -> SUBSET Steps]
   BY <1>1 DEF SetupOK, Steps, NextOf, DependsOn
<1>4. \A v \in Reviews : Approved[v] \in Steps /\ Rejected[v] \in Steps
   BY <1>1, <1>2 DEF SetupOK, Steps, Reviews, Approved, Rejected, Range
<1>5. setup.maxRecords \in Nat /\ setup.maxControls \in Nat /\ setup.maxAborts \in Nat
   BY <1>1 DEF SetupOK
<1> QED BY <1>1, <1>2, <1>3, <1>4, <1>5

\* The first element of a sequence and the others.
LEMMA HeadAndTail ==
    ASSUME NEW S, NEW q \in Seq(S), q # <<>>
    PROVE  /\ Head(q) \in S /\ Tail(q) \in Seq(S)
           /\ Range(q) = {Head(q)} \cup Range(Tail(q))
<1>1. /\ Head(q) \in S /\ Tail(q) \in Seq(S)
      /\ Len(Tail(q)) = Len(q) - 1
      /\ \A i \in 1..Len(Tail(q)) : Tail(q)[i] = q[i + 1]
   BY HeadTailProperties
<1>2. Len(q) \in Nat /\ Len(q) > 0 /\ DOMAIN q = 1..Len(q) /\ Head(q) = q[1]
   BY LenProperties, EmptySeq
<1>3. DOMAIN Tail(q) = 1..Len(Tail(q))
   BY <1>1
<1>4. Range(q) \subseteq {Head(q)} \cup Range(Tail(q))
   <2> SUFFICES ASSUME NEW i \in 1..Len(q) PROVE q[i] \in {Head(q)} \cup Range(Tail(q))
      BY <1>2 DEF Range
   <2>1. CASE i = 1
      BY <2>1, <1>2
   <2>2. CASE i # 1
      <3>1. i - 1 \in 1..Len(Tail(q)) /\ Tail(q)[i - 1] = q[i]
         BY <2>2, <1>1, <1>2
      <3> QED BY <3>1, <1>3 DEF Range
   <2> QED BY <2>1, <2>2
<1>5. Range(Tail(q)) \subseteq Range(q)
   <2> SUFFICES ASSUME NEW i \in 1..Len(Tail(q)) PROVE Tail(q)[i] \in Range(q)
      BY <1>3 DEF Range
   <2>1. i + 1 \in DOMAIN q /\ Tail(q)[i] = q[i + 1]
      BY <1>1, <1>2
   <2> QED BY <2>1 DEF Range
<1>6. Head(q) \in Range(q)
   BY <1>2 DEF Range
<1> QED BY <1>1, <1>4, <1>5, <1>6

\* The next steps of a step are steps.
LEMMA NextAreSteps ==
    ASSUME setup \in Setups, NEW d \in Steps
    PROVE  NextOf[d] \in Seq(Steps) /\ Range(NextOf[d]) \subseteq Steps
<1>1. NextOf[d] \in Seq(Steps)
   BY TheSetup
<1> QED BY <1>1, RangeOfSeq

\* Records, tasks and actors, one by one.
LEMMA TypesOf ==
    ASSUME WorkflowTypeOK
    PROVE  /\ setup \in Setups /\ Len(recs) \in Nat /\ DOMAIN recs = 1..Len(recs)
           /\ \A r \in DOMAIN recs : recs[r] \in StepRecord
           /\ DOMAIN tasks = 1..Len(tasks) /\ Len(tasks) \in Nat
           /\ \A t \in DOMAIN tasks : tasks[t] \in ReviewTask
           /\ \A a \in Actors : actor[a] \in Work /\ actor[a].batch \subseteq DOMAIN recs
BY LenProperties, ElementOfSeq DEF WorkflowTypeOK

\* The record an actor is at is one of its batch.
LEMMA CurrentIs ==
    ASSUME WorkflowTypeOK, NEW a \in Actors, actor[a].batch # {}
    PROVE  Current(a) \in actor[a].batch /\ Current(a) \in DOMAIN recs
<1>1. actor[a].batch \subseteq DOMAIN recs /\ DOMAIN recs = 1..Len(recs) /\ Len(recs) \in Nat
   BY TypesOf
<1>2. actor[a].batch \in SUBSET Nat
   BY <1>1
<1>3. Min(actor[a].batch) \in actor[a].batch
   BY <1>2, SmallestOf
<1> QED BY <1>1, <1>3 DEF Current

\* FindLatestByStep.
LEMMA LatestIs ==
    ASSUME WorkflowTypeOK, NEW s
    PROVE  /\ Latest(s) = 0 <=> \A r \in DOMAIN recs : recs[r].step # s
           /\ Latest(s) # 0 => Latest(s) \in DOMAIN recs /\ recs[Latest(s)].step = s
           /\ \A r \in DOMAIN recs : recs[r].step = s => r <= Latest(s)
<1> DEFINE found == {r \in DOMAIN recs : recs[r].step = s}
<1>1. Len(recs) \in Nat /\ DOMAIN recs = 1..Len(recs)
   BY TypesOf
<1>2. Latest(s) = IF found = {} THEN 0 ELSE Max(found)
   BY DEF Latest
<1>3. CASE found = {}
   BY <1>1, <1>2, <1>3
<1>4. CASE found # {}
   <2>1. found \in SUBSET (1..Len(recs))
      BY <1>1
   <2>2. Max(found) \in found /\ \A x \in found : x <= Max(found)
      <3> HIDE DEF found
      <3> QED BY <1>1, <1>4, <2>1, LargestOf
   <2>3. Max(found) # 0
      BY <2>2, <1>1
   <2> QED BY <1>2, <1>4, <2>2, <2>3
<1> QED BY <1>3, <1>4

\* An actor with nothing to do.
LEMMA NoWorkIs ==
    /\ NoWork \in Work /\ NoWork.pc = "idle" /\ NoWork.batch = {} /\ NoWork.todo = <<>>
    /\ NoWork.set = <<>> /\ NoWork.res = "none" /\ NoWork.act = "none" /\ Range(NoWork.todo) = {}
<1>1. <<>> \in Seq(Steps) /\ <<>> \in Seq(States)
   BY EmptySeq
<1>2. NoWork \in Work
   BY <1>1 DEF NoWork, Work
<1>3. Range(<<>>) = {}
   BY DEF Range
<1> QED BY <1>2, <1>3 DEF NoWork

\* What an actor goes on with after a record.
LEMMA AfterRecordIs ==
    ASSUME WorkflowTypeOK, NEW a \in Actors
    PROVE  LET m == AfterRecord(a)
           IN  /\ m \in Work /\ m.todo = <<>>
               /\ m.batch = actor[a].batch \ {Current(a)}
               /\ m.pc \in {"idle", "lease", "check", "list"}
               /\ m.batch # {} <=> m.pc = "check"
<1> DEFINE x == actor[a]
           rest == x.batch \ {Current(a)}
           stop == x.stop \/ x.res \in {"waiting", "failed", "compensating"}
           place == IF rest # {} THEN "check"
                    ELSE IF a \in Runners THEN "idle"
                    ELSE IF stop THEN "list" ELSE "lease"
<1>1. x \in Work
   BY TypesOf
<1>2. rest \in SUBSET (Nat \ {0}) /\ stop \in BOOLEAN
   BY <1>1 DEF Work
<1>3. AfterRecord(a) = [NoWork EXCEPT !.batch = rest, !.stop = stop, !.pc = place]
   BY DEF AfterRecord
<1>4. place \in {"idle", "lease", "check", "list"} /\ (rest # {} <=> place = "check")
   OBVIOUS
<1> HIDE DEF rest, stop, place
<1>5. /\ AfterRecord(a) \in Work /\ AfterRecord(a).todo = <<>>
      /\ AfterRecord(a).batch = rest /\ AfterRecord(a).pc = place
   <2>1. <<>> \in Seq(Steps) /\ <<>> \in Seq(States)
      BY EmptySeq
   <2>2. AfterRecord(a) = [pc |-> place, batch |-> rest, todo |-> <<>>, set |-> <<>>,
                           res |-> "none", stop |-> stop, task |-> 0, act |-> "none", rec |-> 0]
      BY <1>3 DEF NoWork
   <2> QED BY <1>2, <1>4, <2>1, <2>2 DEF Work
<1> QED BY <1>4, <1>5 DEF rest

LEMMA EnqueuingIs ==
    ASSUME NEW x \in Work, NEW todo \in Seq(Steps)
    PROVE  LET m == Enqueuing(x, todo)
           IN  /\ m \in Work /\ m.todo = todo /\ m.batch = x.batch
               /\ m.pc \in {"enqueue", "lease", "list"}
               /\ m.pc = "enqueue" <=> todo # <<>>
<1> DEFINE place == IF todo # <<>> THEN "enqueue" ELSE IF x.batch = {} THEN "lease" ELSE "list"
<1>1. place \in {"enqueue", "lease", "list"} /\ (place = "enqueue" <=> todo # <<>>)
   OBVIOUS
<1>2. Enqueuing(x, todo) = [x EXCEPT !.todo = todo, !.pc = place]
   BY DEF Enqueuing
<1> HIDE DEF place
<1> QED BY <1>1, <1>2 DEF Work

-----------------------------------------------------------------------------
\* What an action does to the actors: a is now m, the others are as they were.
Moves(a, m) ==
    /\ actor' = [actor EXCEPT ![a] = m]
    /\ actor' \in [Actors -> Work] /\ actor'[a] = m
    /\ \A b \in Actors : b # a => actor'[b] = actor[b]

LEMMA MoveIs ==
    ASSUME WorkflowTypeOK, NEW a \in Actors, NEW m \in Work, SetActor(a, m)
    PROVE  Moves(a, m)
BY DEF WorkflowTypeOK, SetActor, Moves

\* The records keep their steps, and who asked for them.
SameSteps ==
    /\ Len(recs') = Len(recs) /\ DOMAIN recs' = DOMAIN recs
    /\ \A r \in DOMAIN recs : recs'[r].step = recs[r].step /\ recs'[r].manual = recs[r].manual

\* Record r, and no other, is now in the given state.
Settled(r, state) ==
    /\ recs' \in Seq(StepRecord) /\ SameSteps
    /\ \A q \in DOMAIN recs : recs'[q].runs = recs[q].runs
    /\ recs'[r].state = state
    /\ \A q \in DOMAIN recs : q # r => recs'[q].state = recs[q].state

RecordStates == {"queued", "in_progress", "waiting", "completed", "failed"}

LEMMA SetStateIs ==
    ASSUME WorkflowTypeOK, NEW r \in DOMAIN recs, NEW state \in RecordStates, SetState(r, state)
    PROVE  Settled(r, state)
<1> DEFINE e == [recs[r] EXCEPT !.state = state]
<1>1. /\ recs \in Seq(StepRecord) /\ r \in 1..Len(recs) /\ recs[r] \in StepRecord
      /\ DOMAIN recs = 1..Len(recs) /\ Len(recs) \in Nat
   BY TypesOf DEF WorkflowTypeOK
<1>2. /\ e \in StepRecord /\ e.state = state /\ e.step = recs[r].step
      /\ e.runs = recs[r].runs /\ e.manual = recs[r].manual
   BY <1>1 DEF StepRecord, RecordStates
<1>3. recs' = [recs EXCEPT ![r] = e]
   BY DEF SetState
<1> HIDE DEF e
<1>4. /\ recs' \in Seq(StepRecord) /\ Len(recs') = Len(recs)
      /\ \A q \in 1..Len(recs) : recs'[q] = IF q = r THEN e ELSE recs[q]
   BY <1>1, <1>2, <1>3, ExceptSeq
<1>5. DOMAIN recs' = DOMAIN recs
   BY <1>1, <1>3
<1> QED BY <1>1, <1>2, <1>4, <1>5 DEF Settled, SameSteps

\* Record n is new, the others are as they were.
Appended(n) ==
    /\ n \in StepRecord /\ recs' \in Seq(StepRecord)
    /\ Len(recs') = Len(recs) + 1 /\ DOMAIN recs' = 1..(Len(recs) + 1)
    /\ recs'[Len(recs) + 1] = n /\ \A q \in DOMAIN recs : recs'[q] = recs[q]

LEMMA AppendIs ==
    ASSUME WorkflowTypeOK, NEW s \in Steps, NEW manual \in BOOLEAN,
           recs' = Append(recs, NewRecord(s, manual))
    PROVE  Appended(NewRecord(s, manual))
<1>1. /\ recs \in Seq(StepRecord) /\ DOMAIN recs = 1..Len(recs) /\ Len(recs) \in Nat
   BY TypesOf DEF WorkflowTypeOK
<1>2. NewRecord(s, manual) \in StepRecord
   BY DEF NewRecord, StepRecord
<1> DEFINE n == NewRecord(s, manual)
<1> HIDE DEF n
<1>3. n \in StepRecord /\ recs' = Append(recs, n)
   BY <1>2 DEF n
<1>4. /\ recs' \in Seq(StepRecord) /\ Len(recs') = Len(recs) + 1
      /\ \A q \in 1..Len(recs) : recs'[q] = recs[q]
      /\ recs'[Len(recs) + 1] = n
   BY <1>1, <1>3, AppendProperties
<1>5. DOMAIN recs' = 1..(Len(recs) + 1)
   BY <1>4, LenProperties
<1>6. Appended(n)
   BY <1>1, <1>3, <1>4, <1>5 DEF Appended
<1> QED BY <1>6 DEF n

-----------------------------------------------------------------------------
\* A step of actor a keeps the types of what it leaves alone.
LEMMA TypeKept ==
    ASSUME WorkflowTypeOK, setup' = setup, inst' \in States, NEW a \in Actors,
           recs' \in Seq(StepRecord), DOMAIN recs \subseteq DOMAIN recs', tasks' \in Seq(ReviewTask),
           Moves(a, actor'[a]), actor'[a].batch \subseteq DOMAIN recs',
           retrying' = retrying, controls' = controls,
           aborts' \in 0..setup.maxAborts
    PROVE  WorkflowTypeOK'
<1>1. /\ Steps' = Steps /\ Reviews' = Reviews /\ StepRecord' = StepRecord
      /\ ReviewTask' = ReviewTask /\ Work' = Work
   BY DEF Steps, Reviews, StepRecord, ReviewTask, Work
<1>2. \A b \in Actors : actor'[b].batch \subseteq DOMAIN recs'
   <2> SUFFICES ASSUME NEW b \in Actors, b # a PROVE actor'[b].batch \subseteq DOMAIN recs'
      OBVIOUS
   <2>1. actor'[b] = actor[b] /\ actor[b].batch \subseteq DOMAIN recs
      BY DEF Moves, WorkflowTypeOK
   <2> QED BY <2>1
<1>3. actor' \in [Actors -> Work]
   BY DEF Moves
<1> QED BY <1>1, <1>2, <1>3 DEF WorkflowTypeOK

\* A runner with the batch it has leased.
Leased(due) == [NoWork EXCEPT !.pc = "check", !.batch = due]

LEMMA LeasedIs ==
    ASSUME NEW due \in SUBSET (Nat \ {0})
    PROVE  /\ Leased(due) \in Work /\ Leased(due).pc = "check"
           /\ Leased(due).batch = due /\ Leased(due).todo = <<>>
<1>1. Leased(due) = [NoWork EXCEPT !.pc = "check", !.batch = due]
   BY DEF Leased
<1>2. Leased(due) = [pc |-> "check", batch |-> due, todo |-> <<>>, set |-> <<>>, res |-> "none",
                     stop |-> FALSE, task |-> 0, act |-> "none", rec |-> 0]
   BY <1>1 DEF NoWork
<1> DEFINE no == FALSE
<1>3. Leased(due) = [pc |-> "check", batch |-> due, todo |-> <<>>, set |-> <<>>, res |-> "none",
                     stop |-> no, task |-> 0, act |-> "none", rec |-> 0]
   BY <1>2
<1>4. <<>> \in Seq(Steps) /\ <<>> \in Seq(States) /\ no \in BOOLEAN
   BY EmptySeq
<1> HIDE DEF no
<1> QED BY <1>3, <1>4 DEF Work

\* What leaseQueuedSteps does.
LEMMA LeaseIs ==
    ASSUME WorkflowTypeOK, NEW a \in Actors, LeaseQueuedSteps(a)
    PROVE  /\ UNCHANGED <<setup, inst, tasks, retrying, controls, aborts>>
           /\ actor[a].pc \in {"idle", "lease"} /\ Moves(a, actor'[a])
           /\ actor'[a].pc = "check" /\ actor'[a].batch # {} /\ actor'[a].todo = <<>>
           /\ \A r \in actor'[a].batch : r \in DOMAIN recs /\ recs[r].state = "queued"
           /\ recs' \in Seq(StepRecord) /\ SameSteps
           /\ \A r \in DOMAIN recs : /\ recs'[r].runs = recs[r].runs
                                     /\ recs'[r].state = IF r \in actor'[a].batch THEN "in_progress"
                                                         ELSE recs[r].state
           /\ WorkflowTypeOK'
<1> DEFINE due == {r \in Queued : Cardinality({q \in Queued : q < r}) < BatchSize}
           m == Leased(due)
           new(i) == IF i \in due THEN [recs[i] EXCEPT !.state = "in_progress"] ELSE recs[i]
<1>1. /\ UNCHANGED <<setup, inst, tasks, retrying, controls, aborts>>
      /\ actor[a].pc \in {"idle", "lease"} /\ due # {}
      /\ recs' = [i \in DOMAIN recs |-> new(i)] /\ SetActor(a, m)
   BY DEF LeaseQueuedSteps, Leased
<1>2. due \subseteq Queued
   OBVIOUS
<1>3. /\ Len(recs) \in Nat /\ DOMAIN recs = 1..Len(recs)
      /\ \A r \in DOMAIN recs : recs[r] \in StepRecord
   BY TypesOf
<1>4. \A r \in due : r \in DOMAIN recs /\ recs[r].state = "queued"
   BY <1>2 DEF Queued
<1> HIDE DEF due
<1>5. /\ m \in Work /\ m.pc = "check" /\ m.batch = due /\ m.todo = <<>>
   <2>1. due \in SUBSET (Nat \ {0})
      BY <1>3, <1>4
   <2> QED BY <2>1, LeasedIs
<1>6. \A i \in DOMAIN recs : /\ new(i) \in StepRecord
                             /\ new(i).step = recs[i].step /\ new(i).manual = recs[i].manual
                             /\ new(i).runs = recs[i].runs
                             /\ new(i).state = IF i \in due THEN "in_progress" ELSE recs[i].state
   BY <1>3 DEF StepRecord
<1> HIDE DEF m, new
<1>7. Moves(a, m) /\ actor'[a] = m
   BY <1>1, <1>5, MoveIs DEF Moves
<1>8. recs' = [i \in 1..Len(recs) |-> new(i)] /\ \A i \in 1..Len(recs) : new(i) \in StepRecord
   BY <1>1, <1>3, <1>6
<1>9. recs' \in Seq(StepRecord)
   BY <1>3, <1>8, IsASeq
<1>10. DOMAIN recs' = DOMAIN recs /\ \A i \in DOMAIN recs : recs'[i] = new(i)
   BY <1>1
<1>11. Len(recs') = Len(recs)
   BY <1>3, <1>9, <1>10, LenProperties
<1>12. SameSteps
   BY <1>6, <1>10, <1>11 DEF SameSteps
<1>13. WorkflowTypeOK'
   <2>1. /\ inst' \in States /\ tasks' \in Seq(ReviewTask) /\ aborts' \in 0..setup.maxAborts
         /\ setup' = setup /\ retrying' = retrying /\ controls' = controls
      BY <1>1 DEF WorkflowTypeOK
   <2>2. actor'[a].batch \subseteq DOMAIN recs' /\ Moves(a, actor'[a])
      BY <1>4, <1>5, <1>7, <1>10
   <2> QED BY <2>1, <2>2, <1>9, <1>10, TypeKept
<1> QED BY <1>1, <1>4, <1>5, <1>6, <1>7, <1>9, <1>10, <1>12, <1>13

\* A step of actor a that touches no record and no task.
OnlyActor(a) ==
    /\ UNCHANGED <<setup, recs, tasks, retrying, controls>>
    /\ inst' \in States /\ aborts' \in 0..setup.maxAborts /\ Moves(a, actor'[a])

LEMMA OnlyActorTypes ==
    ASSUME WorkflowTypeOK, NEW a \in Actors, OnlyActor(a), actor'[a].batch \subseteq actor[a].batch
    PROVE  WorkflowTypeOK'
<1>1. /\ UNCHANGED <<setup, recs, tasks, retrying, controls>>
      /\ inst' \in States /\ aborts' \in 0..setup.maxAborts /\ Moves(a, actor'[a])
   BY DEF OnlyActor
<1>2. /\ recs' \in Seq(StepRecord) /\ tasks' \in Seq(ReviewTask) /\ DOMAIN recs' = DOMAIN recs
      /\ actor'[a].batch \subseteq DOMAIN recs'
   BY <1>1 DEF WorkflowTypeOK
<1> QED BY <1>1, <1>2, TypeKept

\* A drain that finds nothing to lease.
LEMMA NothingDueIs ==
    ASSUME WorkflowTypeOK, NEW a \in Actors, NothingDue(a)
    PROVE  /\ OnlyActor(a) /\ aborts' = aborts /\ actor[a].pc = "lease"
           /\ actor'[a].pc = "list" /\ actor'[a].batch = {} /\ actor'[a].todo = <<>>
           /\ WorkflowTypeOK'
<1> DEFINE m == [NoWork EXCEPT !.pc = "list"]
<1>1. /\ actor[a].pc = "lease" /\ SetActor(a, m)
      /\ UNCHANGED <<setup, inst, recs, tasks, retrying, controls, aborts>>
   BY DEF NothingDue
<1>2. m \in Work /\ m.pc = "list" /\ m.batch = {} /\ m.todo = <<>>
   BY NoWorkIs DEF Work
<1> HIDE DEF m
<1>3. Moves(a, m) /\ actor'[a] = m
   BY <1>1, <1>2, MoveIs DEF Moves
<1>4. OnlyActor(a)
   BY <1>1, <1>3 DEF OnlyActor, WorkflowTypeOK
<1>5. WorkflowTypeOK'
   BY <1>2, <1>3, <1>4, OnlyActorTypes
<1> QED BY <1>1, <1>2, <1>3, <1>4, <1>5

\* The beginning of runLeasedStep.
LEMMA CheckIs ==
    ASSUME WorkflowTypeOK, NEW a \in Actors, CheckInstance(a)
    PROVE  /\ OnlyActor(a) /\ aborts' = aborts /\ actor[a].pc = "check"
           /\ \/ actor'[a] = AfterRecord(a)
              \/ /\ actor'[a].pc = "exec" /\ actor'[a].batch = actor[a].batch
                 /\ actor'[a].todo = actor[a].todo
           /\ WorkflowTypeOK'
<1> DEFINE m == [actor[a] EXCEPT !.pc = "exec"]
           n == IF inst \in {"canceled", "suspended"} THEN AfterRecord(a) ELSE m
<1>1. /\ actor[a].pc = "check" /\ SetActor(a, n)
      /\ UNCHANGED <<setup, inst, recs, tasks, retrying, controls, aborts>>
   BY DEF CheckInstance
<1>2. actor[a] \in Work
   BY TypesOf
<1>3. m \in Work /\ m.pc = "exec" /\ m.batch = actor[a].batch /\ m.todo = actor[a].todo
   BY <1>2 DEF Work
<1>4. AfterRecord(a) \in Work /\ AfterRecord(a).batch \subseteq actor[a].batch
   BY AfterRecordIs
<1> HIDE DEF m
<1>5. n \in Work /\ n \in {AfterRecord(a), m}
   BY <1>3, <1>4
<1> HIDE DEF n
<1>6. Moves(a, n) /\ actor'[a] = n
   BY <1>1, <1>5, MoveIs DEF Moves
<1>7. OnlyActor(a)
   BY <1>1, <1>6 DEF OnlyActor, WorkflowTypeOK
<1>8. WorkflowTypeOK'
   BY <1>3, <1>4, <1>5, <1>6, <1>7, OnlyActorTypes
<1> QED BY <1>1, <1>3, <1>5, <1>6, <1>7, <1>8

\* router.NextSteps, and a decision without a route.
LEMMA NextStepsIs ==
    ASSUME WorkflowTypeOK, WorkShape, NEW a \in Actors, NextSteps(a)
    PROVE  LET d == recs[Current(a)].step
           IN  /\ OnlyActor(a) /\ aborts' = aborts /\ actor[a].pc = "route"
               /\ d \in Steps /\ actor'[a].batch = actor[a].batch
               /\ \/ /\ actor'[a].todo = NextOf[d]
                     /\ actor'[a].pc \in {"enqueue", "lease", "list"}
                     /\ actor'[a].pc = "enqueue" <=> NextOf[d] # <<>>
                  \/ /\ actor'[a].pc = "result" /\ actor'[a].res = "failed"
                     /\ actor'[a].todo = actor[a].todo
               /\ WorkflowTypeOK'
<1> DEFINE d == recs[Current(a)].step
           m == Enqueuing(actor[a], NextOf[d])
           n == [actor[a] EXCEPT !.pc = "result", !.res = "failed"]
<1>1. /\ actor[a].pc = "route" /\ (SetActor(a, m) \/ SetActor(a, n))
      /\ UNCHANGED <<setup, inst, recs, tasks, retrying, controls, aborts>>
   BY DEF NextSteps
<1>2. actor[a] \in Work /\ actor[a].batch # {} /\ setup \in Setups
   BY <1>1, TypesOf DEF WorkShape
<1>3. d \in Steps
   <2>1. recs[Current(a)] \in StepRecord
      BY <1>2, CurrentIs, TypesOf
   <2> QED BY <2>1 DEF StepRecord
<1>4. NextOf[d] \in Seq(Steps)
   BY <1>2, <1>3, NextAreSteps
<1>5. /\ m \in Work /\ m.todo = NextOf[d] /\ m.batch = actor[a].batch
      /\ m.pc \in {"enqueue", "lease", "list"} /\ (m.pc = "enqueue" <=> NextOf[d] # <<>>)
   <2> HIDE DEF d
   <2> QED BY <1>2, <1>4, EnqueuingIs
<1>6. /\ n \in Work /\ n.pc = "result" /\ n.res = "failed" /\ n.batch = actor[a].batch
      /\ n.todo = actor[a].todo
   BY <1>2 DEF Work
<1> HIDE DEF m, n, d
<1>7. /\ actor'[a] \in {m, n} /\ Moves(a, actor'[a])
   BY <1>1, <1>5, <1>6, MoveIs DEF Moves
<1>8. OnlyActor(a)
   BY <1>1, <1>7 DEF OnlyActor, WorkflowTypeOK
<1>9. WorkflowTypeOK'
   BY <1>5, <1>6, <1>7, <1>8, OnlyActorTypes
<1>10. \/ /\ actor'[a].todo = NextOf[d] /\ actor'[a].pc \in {"enqueue", "lease", "list"}
          /\ actor'[a].pc = "enqueue" <=> NextOf[d] # <<>>
       \/ /\ actor'[a].pc = "result" /\ actor'[a].res = "failed" /\ actor'[a].todo = actor[a].todo
   BY <1>5, <1>6, <1>7
<1>11. actor'[a].batch = actor[a].batch
   BY <1>5, <1>6, <1>7
<1> QED BY <1>1, <1>3, <1>8, <1>9, <1>10, <1>11 DEF d

\* convergeInstanceState reads the records ...
LEMMA ListIs ==
    ASSUME WorkflowTypeOK, NEW a \in Actors, ListRecords(a)
    PROVE  /\ OnlyActor(a) /\ aborts' = aborts /\ actor[a].pc = "list"
           /\ actor'[a].pc = "instance" /\ actor'[a].set # <<>>
           /\ actor'[a].batch = actor[a].batch /\ actor'[a].todo = actor[a].todo
           /\ WorkflowTypeOK'
<1> DEFINE v == <<Verdict>>
           m == [actor[a] EXCEPT !.pc = "instance", !.set = v]
<1>1. /\ actor[a].pc = "list" /\ SetActor(a, m)
      /\ UNCHANGED <<setup, inst, recs, tasks, retrying, controls, aborts>>
   BY DEF ListRecords
<1>2. actor[a] \in Work
   BY TypesOf
<1>3. v \in Seq(States) /\ v # <<>>
   <2>1. Verdict \in States
      BY DEF Verdict, States
   <2> QED BY <2>1
<1> HIDE DEF v
<1>4. /\ m \in Work /\ m.pc = "instance" /\ m.set # <<>>
      /\ m.batch = actor[a].batch /\ m.todo = actor[a].todo
   BY <1>2, <1>3 DEF Work
<1> HIDE DEF m
<1>5. Moves(a, m) /\ actor'[a] = m
   BY <1>1, <1>4, MoveIs DEF Moves
<1>6. OnlyActor(a)
   BY <1>1, <1>5 DEF OnlyActor, WorkflowTypeOK
<1>7. WorkflowTypeOK'
   BY <1>4, <1>5, <1>6, OnlyActorTypes
<1> QED BY <1>1, <1>4, <1>5, <1>6, <1>7

\* ... and the instance is written.
LEMMA WriteIs ==
    ASSUME WorkflowTypeOK, WorkShape, NEW a \in Actors, WriteInstance(a)
    PROVE  /\ OnlyActor(a) /\ aborts' = aborts /\ actor[a].pc = "instance"
           /\ \/ actor'[a] = AfterRecord(a)
              \/ actor'[a] = NoWork
              \/ /\ actor'[a].pc = "instance" /\ actor'[a].set # <<>>
                 /\ actor'[a].batch = actor[a].batch /\ actor'[a].todo = actor[a].todo
           /\ WorkflowTypeOK'
<1> DEFINE x == actor[a]
           rest == Tail(x.set)
           m == [x EXCEPT !.set = rest]
           n == IF Len(x.set) > 1 THEN m ELSE IF x.batch = {} THEN NoWork ELSE AfterRecord(a)
<1>1. /\ x.pc = "instance" /\ SetActor(a, n) /\ inst' = Head(x.set)
      /\ UNCHANGED <<setup, recs, tasks, retrying, controls, aborts>>
   BY DEF WriteInstance
<1>2. x \in Work /\ x.set # <<>>
   BY <1>1, TypesOf DEF WorkShape
<1>3. /\ x.set \in Seq(States) /\ Head(x.set) \in States /\ rest \in Seq(States)
      /\ Len(x.set) > 1 => rest # <<>>
   <2>1. x.set \in Seq(States)
      BY <1>2 DEF Work
   <2>2. Len(x.set) \in Nat
      BY <2>1
   <2>3. Head(x.set) \in States /\ rest \in Seq(States) /\ Len(rest) = Len(x.set) - 1
      BY <1>2, <2>1, HeadTailProperties
   <2>4. Len(x.set) > 1 => rest # <<>>
      <3>1. rest = <<>> => Len(rest) = 0
         <4> HIDE DEF rest
         <4> QED BY EmptySeq
      <3> HIDE DEF rest
      <3> QED BY <2>2, <2>3, <3>1
   <2> QED BY <2>1, <2>3, <2>4
<1> HIDE DEF rest
<1>4. /\ m \in Work /\ m.pc = x.pc /\ m.set = rest /\ m.batch = x.batch /\ m.todo = x.todo
   BY <1>2, <1>3 DEF Work
<1>5. AfterRecord(a) \in Work /\ AfterRecord(a).batch \subseteq x.batch /\ NoWork \in Work
      /\ NoWork.batch = {}
   BY AfterRecordIs, NoWorkIs
<1> HIDE DEF m
<1>6. n \in Work /\ (n \in {NoWork, AfterRecord(a)} \/ (n = m /\ rest # <<>>))
   BY <1>3, <1>4, <1>5
<1> HIDE DEF n, x
<1>7. Moves(a, n) /\ actor'[a] = n
   BY <1>1, <1>6, MoveIs DEF Moves
<1>8. OnlyActor(a)
   BY <1>1, <1>3, <1>7 DEF OnlyActor, WorkflowTypeOK
<1>9. WorkflowTypeOK'
   <2>1. n.batch \subseteq x.batch
      BY <1>4, <1>5, <1>6
   <2> QED BY <2>1, <1>7, <1>8, OnlyActorTypes DEF x
<1> QED BY <1>1, <1>4, <1>6, <1>7, <1>8, <1>9 DEF x

\* A reviewer reads a pending task.
LEMMA ActIs ==
    ASSUME WorkflowTypeOK, NEW a \in Actors, NEW t \in DOMAIN tasks, NEW action \in ReviewActions,
           ActHumanReviewTask(a, t, action)
    PROVE  /\ OnlyActor(a) /\ aborts' = aborts /\ actor[a].pc = "idle"
           /\ actor'[a].pc = "decide" /\ actor'[a].batch = {} /\ actor'[a].todo = <<>>
           /\ actor'[a].task = t /\ actor'[a].act = action
           /\ WorkflowTypeOK'
<1> DEFINE m == [NoWork EXCEPT !.pc = "decide", !.task = t, !.act = action]
<1>1. /\ actor[a].pc = "idle" /\ SetActor(a, m)
      /\ UNCHANGED <<setup, inst, recs, tasks, retrying, controls, aborts>>
   BY DEF ActHumanReviewTask
<1>2. t \in Nat
   BY TypesOf
<1>3. /\ m \in Work /\ m.pc = "decide" /\ m.batch = {} /\ m.todo = <<>>
      /\ m.task = t /\ m.act = action
   BY <1>2, NoWorkIs DEF Work
<1> HIDE DEF m
<1>4. Moves(a, m) /\ actor'[a] = m
   BY <1>1, <1>3, MoveIs DEF Moves
<1>5. OnlyActor(a)
   BY <1>1, <1>4 DEF OnlyActor, WorkflowTypeOK
<1>6. WorkflowTypeOK'
   BY <1>3, <1>4, <1>5, OnlyActorTypes
<1> QED BY <1>1, <1>3, <1>4, <1>5, <1>6

\* The decided task's step has a record; if the latest one waits, it is finished next.
LEMMA FindIs ==
    ASSUME WorkflowTypeOK, NEW a \in Actors, FindReviewStep(a), actor[a].task \in DOMAIN tasks,
           \E r \in DOMAIN recs : recs[r].step = tasks[actor[a].task].step
    PROVE  /\ OnlyActor(a) /\ aborts' = aborts /\ actor[a].pc = "apply"
           /\ \/ actor'[a] = NoWork
              \/ /\ actor'[a].pc = "finish" /\ actor'[a].batch = actor[a].batch
                 /\ actor'[a].todo = actor[a].todo /\ actor'[a].task = actor[a].task
                 /\ actor'[a].act = actor[a].act
                 /\ actor'[a].rec \in DOMAIN recs
                 /\ recs[actor'[a].rec].step = tasks[actor[a].task].step
           /\ WorkflowTypeOK'
<1> DEFINE s == tasks[actor[a].task].step
           r == Latest(s)
           m == [actor[a] EXCEPT !.pc = "finish", !.rec = r]
           n == IF recs[r].state = "waiting" THEN m ELSE NoWork
<1>1. /\ actor[a].pc = "apply" /\ SetActor(a, n)
      /\ UNCHANGED <<setup, inst, recs, tasks, retrying, controls, aborts>>
   BY DEF FindReviewStep
<1>2. actor[a] \in Work
   BY TypesOf
<1>3. r \in DOMAIN recs /\ recs[r].step = s
   <2> HIDE DEF s
   <2>1. \E q \in DOMAIN recs : recs[q].step = s
      BY DEF s
   <2> QED BY <2>1, LatestIs
<1>4. r \in Nat
   BY <1>3, TypesOf
<1> HIDE DEF r
<1>5. /\ m \in Work /\ m.pc = "finish" /\ m.rec = r /\ m.batch = actor[a].batch
      /\ m.todo = actor[a].todo /\ m.task = actor[a].task /\ m.act = actor[a].act
   BY <1>2, <1>4 DEF Work
<1> HIDE DEF m
<1>6. n \in Work /\ n \in {m, NoWork}
   BY <1>5, NoWorkIs
<1> HIDE DEF n
<1>7. Moves(a, n) /\ actor'[a] = n
   BY <1>1, <1>6, MoveIs DEF Moves
<1>8. OnlyActor(a)
   BY <1>1, <1>7 DEF OnlyActor, WorkflowTypeOK
<1>9. WorkflowTypeOK'
   <2>1. n.batch \subseteq actor[a].batch
      BY <1>5, <1>6, NoWorkIs
   <2> QED BY <2>1, <1>7, <1>8, OnlyActorTypes
<1> QED BY <1>1, <1>3, <1>5, <1>6, <1>7, <1>8, <1>9

\* A drain or a request that stops.
LEMMA AbortIs ==
    ASSUME WorkflowTypeOK, NEW a \in Actors, Abort(a)
    PROVE  OnlyActor(a) /\ aborts' # 0 /\ actor'[a] = NoWork /\ WorkflowTypeOK'
<1>1. /\ aborts < setup.maxAborts /\ aborts' = aborts + 1 /\ SetActor(a, NoWork)
      /\ UNCHANGED <<setup, inst, recs, tasks, retrying, controls>>
   BY DEF Abort
<1>2. aborts \in 0..setup.maxAborts /\ setup.maxAborts \in Nat
   BY TheSetup DEF WorkflowTypeOK
<1>3. aborts' \in 0..setup.maxAborts /\ aborts' # 0
   BY <1>1, <1>2
<1>4. Moves(a, NoWork) /\ actor'[a] = NoWork
   BY <1>1, MoveIs, NoWorkIs DEF Moves
<1>5. OnlyActor(a)
   BY <1>1, <1>3, <1>4 DEF OnlyActor, WorkflowTypeOK
<1>6. WorkflowTypeOK'
   BY <1>4, <1>5, OnlyActorTypes, NoWorkIs
<1> QED BY <1>3, <1>4, <1>5, <1>6

\* Tasks are only added, and decided: their steps stay, and their actions grow.
TasksGrow ==
    /\ tasks' \in Seq(ReviewTask) /\ DOMAIN tasks \subseteq DOMAIN tasks'
    /\ \A t \in DOMAIN tasks : tasks'[t].step = tasks[t].step /\ tasks[t].acts \subseteq tasks'[t].acts

\* What running the adapter of a record does: the record counts one execution more,
\* and a human.review step may have opened a task for its step.
LEMMA ExecuteIs ==
    ASSUME WorkflowTypeOK, WorkShape, NEW a \in Actors, Execute(a)
    PROVE  LET h == Current(a)
           IN  /\ UNCHANGED <<setup, inst, retrying, controls, aborts>>
               /\ actor[a].pc = "exec" /\ h \in DOMAIN recs /\ h \in actor[a].batch
               /\ Moves(a, actor'[a]) /\ actor'[a].pc = "result"
               /\ actor'[a].batch = actor[a].batch /\ actor'[a].todo = actor[a].todo
               /\ recs' \in Seq(StepRecord) /\ SameSteps
               /\ \A q \in DOMAIN recs : /\ recs'[q].state = recs[q].state
                                         /\ recs'[q].runs = IF q = h THEN recs[q].runs + 1 ELSE recs[q].runs
               /\ TasksGrow
               /\ \A t \in DOMAIN tasks' \ DOMAIN tasks : tasks'[t].step = recs[h].step
               /\ WorkflowTypeOK'
<1> DEFINE h == Current(a)
           s == recs[h].step
           e == [recs[h] EXCEPT !.runs = @ + 1]
           m(res) == [actor[a] EXCEPT !.pc = "result", !.res = res]
           task == [step |-> s, status |-> "pending", acts |-> {}]
<1>1. /\ actor[a].pc = "exec" /\ UNCHANGED <<setup, inst, retrying, controls, aborts>>
      /\ recs' = [recs EXCEPT ![h] = e]
      /\ \E res \in {"waiting", "compensating", "succeeded", "failed"} : SetActor(a, m(res))
      /\ tasks' = tasks \/ (s \in Reviews /\ tasks' = Append(tasks, task))
   BY Zenon DEF Execute
<1>2. /\ actor[a] \in Work /\ actor[a].batch # {}
      /\ recs \in Seq(StepRecord) /\ tasks \in Seq(ReviewTask)
      /\ DOMAIN recs = 1..Len(recs) /\ Len(recs) \in Nat
      /\ DOMAIN tasks = 1..Len(tasks) /\ Len(tasks) \in Nat
   BY <1>1, TypesOf DEF WorkShape, WorkflowTypeOK
<1>3. h \in actor[a].batch /\ h \in DOMAIN recs /\ recs[h] \in StepRecord
   BY <1>2, CurrentIs, TypesOf
<1>4. e \in StepRecord /\ e.state = recs[h].state /\ e.step = recs[h].step
      /\ e.manual = recs[h].manual /\ e.runs = recs[h].runs + 1
   BY <1>3 DEF StepRecord
<1> HIDE DEF e, h
<1>5. /\ recs' \in Seq(StepRecord) /\ Len(recs') = Len(recs)
      /\ \A q \in 1..Len(recs) : recs'[q] = IF q = h THEN e ELSE recs[q]
   BY <1>1, <1>2, <1>3, <1>4, ExceptSeq
<1>6. DOMAIN recs' = DOMAIN recs /\ \A q \in DOMAIN recs : recs'[q] = IF q = h THEN e ELSE recs[q]
   BY <1>1, <1>2, <1>5
<1>7. SameSteps
   BY <1>4, <1>5, <1>6 DEF SameSteps
<1>8. \A res \in {"waiting", "compensating", "succeeded", "failed"} :
         /\ m(res) \in Work /\ m(res).pc = "result" /\ m(res).batch = actor[a].batch
         /\ m(res).todo = actor[a].todo
   BY <1>2 DEF Work
<1> HIDE DEF m
<1>9. /\ Moves(a, actor'[a]) /\ actor'[a].pc = "result"
      /\ actor'[a].batch = actor[a].batch /\ actor'[a].todo = actor[a].todo
   BY <1>1, <1>8, MoveIs DEF Moves
<1>10. TasksGrow /\ \A t \in DOMAIN tasks' \ DOMAIN tasks : tasks'[t].step = s
   <2>1. CASE tasks' = tasks
      BY <2>1, <1>2 DEF TasksGrow
   <2>2. CASE s \in Reviews /\ tasks' = Append(tasks, task)
      <3>1. task \in ReviewTask /\ task.step = s
         <4> HIDE DEF s
         <4> QED BY <2>2 DEF ReviewTask
      <3> HIDE DEF task
      <3>2. /\ tasks' \in Seq(ReviewTask) /\ Len(tasks') = Len(tasks) + 1
            /\ \A t \in 1..Len(tasks) : tasks'[t] = tasks[t]
            /\ tasks'[Len(tasks) + 1] = task
         BY <1>2, <2>2, <3>1, AppendProperties
      <3>3. DOMAIN tasks' = 1..(Len(tasks) + 1)
         BY <3>2, LenProperties
      <3> HIDE DEF s
      <3>4. \A t \in DOMAIN tasks' \ DOMAIN tasks : t = Len(tasks) + 1
         BY <1>2, <3>3
      <3> QED BY <1>2, <3>1, <3>2, <3>3, <3>4 DEF TasksGrow
   <2> QED BY <1>1, <2>1, <2>2
<1>11. WorkflowTypeOK'
   <2>1. /\ inst' \in States /\ aborts' \in 0..setup.maxAborts
         /\ setup' = setup /\ retrying' = retrying /\ controls' = controls
      BY <1>1 DEF WorkflowTypeOK
   <2>2. actor'[a].batch \subseteq DOMAIN recs' /\ tasks' \in Seq(ReviewTask)
      BY <1>6, <1>9, <1>10, TypesOf DEF TasksGrow
   <2> QED BY <2>1, <2>2, <1>5, <1>6, <1>9, TypeKept
<1>12. \A q \in DOMAIN recs : /\ recs'[q].state = recs[q].state
                              /\ recs'[q].runs = IF q = h THEN recs[q].runs + 1 ELSE recs[q].runs
   BY <1>4, <1>6
<1> QED BY <1>1, <1>3, <1>5, <1>7, <1>9, <1>10, <1>11, <1>12 DEF h

\* completeStep, markStepWaiting, failStep and markInstanceCompensating.
LEMMA UpdateIs ==
    ASSUME WorkflowTypeOK, WorkShape, NEW a \in Actors, UpdateStep(a)
    PROVE  LET h == Current(a)
           IN  /\ UNCHANGED <<setup, inst, tasks, retrying, controls, aborts>>
               /\ actor[a].pc = "result" /\ h \in DOMAIN recs /\ h \in actor[a].batch
               /\ Moves(a, actor'[a])
               /\ actor'[a].batch = actor[a].batch /\ actor'[a].todo = actor[a].todo
               /\ \/ Settled(h, "completed") /\ actor[a].res = "succeeded" /\ actor'[a].pc = "route"
                  \/ /\ Settled(h, "waiting") \/ Settled(h, "failed")
                     /\ actor'[a].pc = "instance" /\ actor'[a].set # <<>>
               /\ WorkflowTypeOK'
<1> DEFINE h == Current(a)
           x == actor[a]
           m(set) == [x EXCEPT !.pc = "instance", !.set = set]
           n == [x EXCEPT !.pc = "route"]
           Sets == {<<"waiting">>, <<"failed">>, <<"failed", "compensating">>}
<1>1. /\ x.pc = "result" /\ UNCHANGED <<setup, inst, tasks, retrying, controls, aborts>>
      /\ \/ /\ SetState(h, "waiting") \/ SetState(h, "failed")
            /\ \E set \in Sets : SetActor(a, m(set))
         \/ x.res = "succeeded" /\ SetState(h, "completed") /\ SetActor(a, n)
   BY Zenon DEF UpdateStep
<1>2. x \in Work /\ x.batch # {}
   BY <1>1, TypesOf DEF WorkShape
<1>3. h \in x.batch /\ h \in DOMAIN recs
   BY <1>2, CurrentIs
<1>4. Sets \subseteq Seq(States) /\ <<>> \notin Sets
   BY DEF States
<1> HIDE DEF Sets
<1>5. /\ n \in Work /\ n.pc = "route" /\ n.batch = x.batch /\ n.todo = x.todo
   BY <1>2 DEF Work
<1>6. \A set \in Sets : /\ m(set) \in Work /\ m(set).pc = "instance" /\ m(set).set # <<>>
                        /\ m(set).batch = x.batch /\ m(set).todo = x.todo
   BY <1>2, <1>4 DEF Work
<1> HIDE DEF m, n, h, x
<1>7. \/ /\ Settled(h, "waiting") \/ Settled(h, "failed")
         /\ \E set \in Sets : SetActor(a, m(set))
      \/ x.res = "succeeded" /\ Settled(h, "completed") /\ SetActor(a, n)
   BY <1>1, <1>3, SetStateIs DEF RecordStates
<1>8. /\ Moves(a, actor'[a]) /\ actor'[a].batch = x.batch /\ actor'[a].todo = x.todo
      /\ \/ Settled(h, "completed") /\ x.res = "succeeded" /\ actor'[a].pc = "route"
         \/ /\ Settled(h, "waiting") \/ Settled(h, "failed")
            /\ actor'[a].pc = "instance" /\ actor'[a].set # <<>>
   BY <1>5, <1>6, <1>7, MoveIs DEF Moves
<1>9. recs' \in Seq(StepRecord) /\ DOMAIN recs' = DOMAIN recs
   BY <1>8 DEF Settled, SameSteps
<1>10. WorkflowTypeOK'
   <2>1. /\ inst' \in States /\ aborts' \in 0..setup.maxAborts /\ tasks' \in Seq(ReviewTask)
         /\ setup' = setup /\ retrying' = retrying /\ controls' = controls
      BY <1>1 DEF WorkflowTypeOK
   <2>2. actor'[a].batch \subseteq DOMAIN recs'
      BY <1>8, <1>9, TypesOf DEF x
   <2> QED BY <2>1, <2>2, <1>8, <1>9, TypeKept
<1> QED BY <1>1, <1>3, <1>8, <1>10 DEF x, h

\* One next step is appended, when its dependencies are complete, or passed over.
LEMMA EnqueueIs ==
    ASSUME WorkflowTypeOK, WorkShape, NEW a \in Actors, EnqueueNextSteps(a)
    PROVE  LET s == Head(actor[a].todo)
           IN  /\ UNCHANGED <<setup, inst, tasks, retrying, controls, aborts>>
               /\ actor[a].pc = "enqueue" /\ s \in Steps
               /\ IF DependenciesCompleted(s) THEN Appended(NewRecord(s, FALSE)) ELSE recs' = recs
               /\ Moves(a, actor'[a]) /\ actor'[a].batch = actor[a].batch
               /\ Range(actor[a].todo) = {s} \cup Range(actor'[a].todo)
               /\ actor'[a].pc \in {"enqueue", "lease", "list"}
               /\ actor'[a].pc = "enqueue" <=> actor'[a].todo # <<>>
               /\ WorkflowTypeOK'
<1> DEFINE s == Head(actor[a].todo)
           rest == Tail(actor[a].todo)
           m == Enqueuing(actor[a], rest)
<1>1. /\ actor[a].pc = "enqueue" /\ UNCHANGED <<setup, inst, tasks, retrying, controls, aborts>>
      /\ recs' = IF DependenciesCompleted(s) THEN Append(recs, NewRecord(s, FALSE)) ELSE recs
      /\ SetActor(a, m)
   BY DEF EnqueueNextSteps
<1>2. actor[a] \in Work /\ actor[a].todo # <<>> /\ actor[a].todo \in Seq(Steps)
   BY <1>1, TypesOf DEF WorkShape, Work
<1>3. s \in Steps /\ rest \in Seq(Steps) /\ Range(actor[a].todo) = {s} \cup Range(rest)
   BY <1>2, HeadAndTail
<1> HIDE DEF rest
<1>4. /\ m \in Work /\ m.todo = rest /\ m.batch = actor[a].batch
      /\ m.pc \in {"enqueue", "lease", "list"} /\ (m.pc = "enqueue" <=> rest # <<>>)
   BY <1>2, <1>3, EnqueuingIs
<1> HIDE DEF m, s
<1>5. Moves(a, m) /\ actor'[a] = m
   BY <1>1, <1>4, MoveIs DEF Moves
<1>6. IF DependenciesCompleted(s) THEN Appended(NewRecord(s, FALSE)) ELSE recs' = recs
   BY <1>1, <1>3, AppendIs
<1>7. recs' \in Seq(StepRecord) /\ DOMAIN recs \subseteq DOMAIN recs'
   <2>1. recs \in Seq(StepRecord) /\ DOMAIN recs = 1..Len(recs) /\ Len(recs) \in Nat
      BY TypesOf DEF WorkflowTypeOK
   <2>2. CASE recs' = recs
      BY <2>1, <2>2
   <2>3. CASE Appended(NewRecord(s, FALSE))
      <3>1. recs' \in Seq(StepRecord) /\ DOMAIN recs' = 1..(Len(recs) + 1)
         BY <2>3 DEF Appended
      <3> QED BY <2>1, <3>1
   <2> QED BY <1>6, <2>2, <2>3
<1>8. WorkflowTypeOK'
   <2>1. /\ inst' \in States /\ aborts' \in 0..setup.maxAborts /\ tasks' \in Seq(ReviewTask)
         /\ setup' = setup /\ retrying' = retrying /\ controls' = controls
      BY <1>1 DEF WorkflowTypeOK
   <2>2. actor'[a].batch \subseteq DOMAIN recs'
      BY <1>4, <1>5, <1>7, TypesOf
   <2> QED BY <2>1, <2>2, <1>5, <1>7, TypeKept
<1> QED BY <1>1, <1>3, <1>4, <1>5, <1>6, <1>8 DEF s

\* A reviewer's decision is written to the task.
LEMMA DecideIs ==
    ASSUME WorkflowTypeOK, NEW a \in Actors, UpdateDecision(a),
           actor[a].task \in DOMAIN tasks, actor[a].act # "none"
    PROVE  /\ UNCHANGED <<setup, inst, recs, retrying, controls, aborts>>
           /\ actor[a].pc = "decide" /\ Moves(a, actor'[a]) /\ actor'[a].pc = "apply"
           /\ actor'[a].batch = actor[a].batch /\ actor'[a].todo = actor[a].todo
           /\ actor'[a].task = actor[a].task /\ actor'[a].act = actor[a].act
           /\ TasksGrow /\ DOMAIN tasks' = DOMAIN tasks
           /\ actor[a].act \in tasks'[actor[a].task].acts
           /\ WorkflowTypeOK'
<1> DEFINE t == actor[a].task
           status == StatusFor[actor[a].act]
           e == [tasks[t] EXCEPT !.status = status, !.acts = @ \cup {actor[a].act}]
           m == [actor[a] EXCEPT !.pc = "apply"]
<1>1. /\ actor[a].pc = "decide" /\ SetActor(a, m)
      /\ UNCHANGED <<setup, inst, recs, retrying, controls, aborts>>
      /\ tasks' = [tasks EXCEPT ![t].status = status, ![t].acts = @ \cup {actor[a].act}]
   BY DEF UpdateDecision
<1>2. /\ actor[a] \in Work /\ tasks \in Seq(ReviewTask) /\ tasks[t] \in ReviewTask
      /\ DOMAIN tasks = 1..Len(tasks) /\ Len(tasks) \in Nat
   BY TypesOf DEF WorkflowTypeOK
<1>3. tasks' = [tasks EXCEPT ![t] = e]
   BY <1>1, <1>2
<1>4. actor[a].act \in ReviewActions
   BY <1>2 DEF Work
<1>5. status \in {"pending", "approved", "rejected", "canceled"}
   BY <1>4 DEF ReviewActions, StatusFor
<1> HIDE DEF status
<1>6. e \in ReviewTask /\ e.step = tasks[t].step /\ e.acts = tasks[t].acts \cup {actor[a].act}
   BY <1>2, <1>4, <1>5 DEF ReviewTask
<1>7. /\ m \in Work /\ m.pc = "apply" /\ m.batch = actor[a].batch /\ m.todo = actor[a].todo
      /\ m.task = actor[a].task /\ m.act = actor[a].act
   BY <1>2 DEF Work
<1> HIDE DEF e, m
<1>8. /\ tasks' \in Seq(ReviewTask)
      /\ \A q \in 1..Len(tasks) : tasks'[q] = IF q = t THEN e ELSE tasks[q]
   BY <1>2, <1>3, <1>6, ExceptSeq
<1>9. DOMAIN tasks' = DOMAIN tasks
   BY <1>3
<1>10. TasksGrow /\ actor[a].act \in tasks'[t].acts
   BY <1>2, <1>6, <1>8, <1>9 DEF TasksGrow
<1>11. Moves(a, m) /\ actor'[a] = m
   BY <1>1, <1>7, MoveIs DEF Moves
<1>12. WorkflowTypeOK'
   <2>1. /\ inst' \in States /\ aborts' \in 0..setup.maxAborts /\ recs' \in Seq(StepRecord)
         /\ setup' = setup /\ retrying' = retrying /\ controls' = controls /\ DOMAIN recs' = DOMAIN recs
      BY <1>1 DEF WorkflowTypeOK
   <2>2. actor'[a].batch \subseteq DOMAIN recs'
      BY <1>7, <1>11, <2>1, TypesOf
   <2> QED BY <2>1, <2>2, <1>8, <1>9, <1>11, TypeKept
<1> QED BY <1>1, <1>7, <1>9, <1>10, <1>11, <1>12

\* The waiting record is completed and its route enqueued, or it fails.
LEMMA ApplyIs ==
    ASSUME WorkflowTypeOK, NEW a \in Actors, ApplyDecision(a),
           actor[a].act # "none", actor[a].rec \in DOMAIN recs, recs[actor[a].rec].step \in Reviews
    PROVE  LET x == actor[a]
               s == recs[x.rec].step
           IN  /\ UNCHANGED <<setup, inst, tasks, retrying, controls, aborts>>
               /\ x.pc = "finish" /\ Moves(a, actor'[a]) /\ actor'[a].batch = {}
               /\ \/ /\ Settled(x.rec, "failed")
                     /\ actor'[a].pc = "instance" /\ actor'[a].set # <<>> /\ actor'[a].todo = <<>>
                  \/ /\ Settled(x.rec, "completed")
                     /\ actor'[a].pc = "enqueue" /\ actor'[a].todo # <<>>
                     /\ Range(actor'[a].todo)
                           = {IF x.act = "approve" THEN Approved[s] ELSE Rejected[s]}
               /\ WorkflowTypeOK'
<1> DEFINE x == actor[a]
           s == recs[x.rec].step
           next == IF x.act = "approve" THEN Approved[s] ELSE Rejected[s]
           set == <<"failed">>
           todo == <<next>>
           m == [NoWork EXCEPT !.pc = "instance", !.set = set]
           n == Enqueuing(NoWork, todo)
<1>1. /\ x.pc = "finish" /\ UNCHANGED <<setup, inst, tasks, retrying, controls, aborts>>
      /\ \/ SetState(x.rec, "failed") /\ SetActor(a, m)
         \/ SetState(x.rec, "completed") /\ SetActor(a, n)
   BY Zenon DEF ApplyDecision
<1>2. next \in Steps
   BY TypesOf, TheSetup
<1> HIDE DEF next
<1>3. set \in Seq(States) /\ set # <<>>
   BY DEF States
<1>4. todo \in Seq(Steps) /\ todo # <<>> /\ Range(todo) = {next}
   <2>1. todo \in Seq(Steps) /\ todo # <<>> /\ DOMAIN todo = {1} /\ todo[1] = next
      BY <1>2
   <2> QED BY <2>1 DEF Range
<1> HIDE DEF set, todo
<1>5. /\ m \in Work /\ m.pc = "instance" /\ m.set # <<>> /\ m.batch = {} /\ m.todo = <<>>
   BY <1>3, NoWorkIs DEF Work
<1>6. n \in Work /\ n.pc = "enqueue" /\ n.todo = todo /\ n.batch = {}
   BY <1>4, NoWorkIs, EnqueuingIs
<1> HIDE DEF m, n, x
<1>7. \/ Settled(x.rec, "failed") /\ SetActor(a, m)
      \/ Settled(x.rec, "completed") /\ SetActor(a, n)
   BY <1>1, SetStateIs DEF x, RecordStates
<1>8. /\ Moves(a, actor'[a]) /\ actor'[a].batch = {}
      /\ \/ /\ Settled(x.rec, "failed")
            /\ actor'[a].pc = "instance" /\ actor'[a].set # <<>> /\ actor'[a].todo = <<>>
         \/ /\ Settled(x.rec, "completed")
            /\ actor'[a].pc = "enqueue" /\ actor'[a].todo # <<>> /\ Range(actor'[a].todo) = {next}
   BY <1>4, <1>5, <1>6, <1>7, MoveIs DEF Moves
<1>9. recs' \in Seq(StepRecord) /\ DOMAIN recs' = DOMAIN recs
   BY <1>8 DEF Settled, SameSteps
<1>10. WorkflowTypeOK'
   <2>1. /\ inst' \in States /\ aborts' \in 0..setup.maxAborts /\ tasks' \in Seq(ReviewTask)
         /\ setup' = setup /\ retrying' = retrying /\ controls' = controls
      BY <1>1 DEF WorkflowTypeOK
   <2> QED BY <2>1, <1>8, <1>9, TypeKept
<1> QED BY <1>1, <1>8, <1>10 DEF x, next

\* ControlInstance: at most a record is added, for a step the operator names.
LEMMA OperateIs ==
    ASSUME WorkflowTypeOK, Operate
    PROVE  /\ UNCHANGED <<setup, tasks, actor, aborts>>
           /\ recs' = recs \/ \E s \in Steps : Appended(NewRecord(s, TRUE))
           /\ WorkflowTypeOK'
<1> DEFINE Counted == controls < setup.maxControls /\ controls' = controls + 1
           Retries(s) == /\ recs' = Append(recs, NewRecord(s, TRUE)) /\ Counted
                         /\ retrying' = TRUE /\ inst' = inst
           Leaves == /\ recs' = recs /\ inst' \in States
                     /\ \/ Counted /\ retrying' = retrying
                        \/ controls' = controls /\ retrying' = FALSE
<1>1. UNCHANGED <<setup, tasks, actor, aborts>> /\ (Leaves \/ \E s \in Steps : Retries(s))
   <2>1. CASE PauseInstance
      BY <2>1 DEF PauseInstance, Control, States
   <2>2. CASE ResumeInstance
      BY <2>2 DEF ResumeInstance, Control, States
   <2>3. CASE CancelInstance
      BY <2>3 DEF CancelInstance, Control, States
   <2>4. CASE RetryRunning
      BY <2>4 DEF RetryRunning, States
   <2>5. ASSUME NEW s \in Steps, ManualRetryStep(s)
         PROVE  UNCHANGED <<setup, tasks, actor, aborts>> /\ Retries(s)
      BY <2>5 DEF ManualRetryStep, Control
   <2>6. ASSUME NEW s \in Steps, ManualTriggerCompensation(s)
         PROVE  UNCHANGED <<setup, tasks, actor, aborts>> /\ Leaves
      BY <2>6 DEF ManualTriggerCompensation, Control, States
   <2> QED BY <2>1, <2>2, <2>3, <2>4, <2>5, <2>6 DEF Operate
<1>2. Counted => controls' \in 0..setup.maxControls
   <2>1. controls \in 0..setup.maxControls /\ setup.maxControls \in Nat
      BY TheSetup DEF WorkflowTypeOK
   <2> QED BY <2>1
<1>3. recs' = recs \/ \E s \in Steps : Appended(NewRecord(s, TRUE))
   BY <1>1, AppendIs
<1>4. recs' \in Seq(StepRecord) /\ DOMAIN recs \subseteq DOMAIN recs'
   <2>1. recs \in Seq(StepRecord) /\ DOMAIN recs = 1..Len(recs) /\ Len(recs) \in Nat
      BY TypesOf DEF WorkflowTypeOK
   <2>2. ASSUME NEW s \in Steps, Appended(NewRecord(s, TRUE))
         PROVE  recs' \in Seq(StepRecord) /\ DOMAIN recs \subseteq DOMAIN recs'
      <3>1. recs' \in Seq(StepRecord) /\ DOMAIN recs' = 1..(Len(recs) + 1)
         BY <2>2 DEF Appended
      <3> QED BY <2>1, <3>1
   <2> QED BY <1>3, <2>1, <2>2
<1>5. /\ controls' \in 0..setup.maxControls /\ retrying' \in BOOLEAN /\ inst' \in States
   <2>1. controls \in 0..setup.maxControls /\ retrying \in BOOLEAN /\ inst \in States
      BY DEF WorkflowTypeOK
   <2>2. CASE Leaves
      BY <1>2, <2>1, <2>2
   <2>3. ASSUME NEW s \in Steps, Retries(s)
         PROVE  controls' \in 0..setup.maxControls /\ retrying' \in BOOLEAN /\ inst' \in States
      BY <1>2, <2>1, <2>3
   <2> QED BY <1>1, <2>2, <2>3
<1>6. WorkflowTypeOK'
   <2>1. /\ Steps' = Steps /\ Reviews' = Reviews /\ StepRecord' = StepRecord
         /\ ReviewTask' = ReviewTask /\ Work' = Work
      BY <1>1 DEF Steps, Reviews, StepRecord, ReviewTask, Work
   <2>2. \A b \in Actors : actor'[b].batch \subseteq DOMAIN recs'
      BY <1>1, <1>4 DEF WorkflowTypeOK
   <2>3. /\ setup' \in Setups /\ tasks' \in Seq(ReviewTask) /\ actor' \in [Actors -> Work]
         /\ aborts' \in 0..setup.maxAborts /\ setup' = setup
      BY <1>1 DEF WorkflowTypeOK
   <2> QED BY <1>4, <1>5, <2>1, <2>2, <2>3 DEF WorkflowTypeOK
<1> QED BY <1>1, <1>3, <1>6

-----------------------------------------------------------------------------
\* What the actors hold at each step.
LEMMA ShapeKept ==
    ASSUME WorkShape, NEW a \in Actors, Moves(a, actor'[a]),
           actor'[a].pc \in {"check", "exec", "result", "route"} => actor'[a].batch # {},
           actor'[a].pc = "enqueue" => actor'[a].todo # <<>>,
           actor'[a].pc = "instance" => actor'[a].set # <<>>
    PROVE  WorkShape'
<1> SUFFICES ASSUME NEW b \in Actors
             PROVE  LET x == actor'[b]
                    IN  /\ x.pc \in {"check", "exec", "result", "route"} => x.batch # {}
                        /\ x.pc = "enqueue" => x.todo # <<>>
                        /\ x.pc = "instance" => x.set # <<>>
   BY DEF WorkShape
<1>1. CASE b = a
   BY <1>1
<1>2. CASE b # a
   <2>1. actor'[b] = actor[b]
      BY <1>2 DEF Moves
   <2> QED BY <2>1 DEF WorkShape
<1> QED BY <1>1, <1>2

LEMMA ShapeInit ==
    ASSUME Init
    PROVE  WorkflowTypeOK /\ WorkShape
<1>1. /\ setup \in Setups /\ inst = "running" /\ recs = <<NewRecord(setup.start, FALSE)>>
      /\ tasks = <<>> /\ actor = [a \in Actors |-> NoWork]
      /\ retrying = FALSE /\ controls = 0 /\ aborts = 0
   BY DEF Init
<1>2. setup.start \in Steps /\ setup.maxControls \in Nat /\ setup.maxAborts \in Nat
   BY <1>1, TheSetup
<1>3. recs \in Seq(StepRecord)
   <2> DEFINE n == NewRecord(setup.start, FALSE)
   <2>1. n \in StepRecord
      BY <1>2 DEF NewRecord, StepRecord
   <2>2. recs = <<n>>
      BY <1>1
   <2> HIDE DEF n
   <2> QED BY <2>1, <2>2
<1>4. tasks \in Seq(ReviewTask)
   BY <1>1
<1>5. actor \in [Actors -> Work] /\ \A a \in Actors : actor[a] = NoWork
   BY <1>1, NoWorkIs
<1>6. \A a \in Actors : actor[a].batch = {} /\ actor[a].pc = "idle"
   BY <1>5, NoWorkIs
<1>7. /\ inst \in States /\ retrying \in BOOLEAN /\ controls \in 0..setup.maxControls
      /\ aborts \in 0..setup.maxAborts
   <2>1. inst \in States
      BY <1>1 DEF States
   <2>2. retrying \in BOOLEAN
      BY <1>1
   <2>3. controls \in 0..setup.maxControls /\ aborts \in 0..setup.maxAborts
      BY <1>1, <1>2
   <2> QED BY <2>1, <2>2, <2>3
<1>8. \A a \in Actors : actor[a].batch \subseteq DOMAIN recs
   BY <1>6
<1> QED BY <1>1, <1>3, <1>4, <1>5, <1>6, <1>7, <1>8 DEF WorkflowTypeOK, WorkShape

-----------------------------------------------------------------------------
\* What keeps the leases: no execution, nothing queued again, and no batch that grows.
Lighter(b) ==
    \/ actor'[b].batch = {}
    \/ actor'[b].batch = actor[b].batch \ {Current(b)}
    \/ /\ actor'[b].batch = actor[b].batch
       /\ actor'[b].pc \in {"check", "exec"} => actor[b].pc \in {"check", "exec"}

LEMMA RunsKept ==
    ASSUME WorkflowTypeOK, RunsInv,
           \A r \in DOMAIN recs : /\ r \in DOMAIN recs' /\ recs'[r].runs = recs[r].runs
                                  /\ recs'[r].state = "queued" => recs[r].state = "queued",
           \A r \in DOMAIN recs' : r \notin DOMAIN recs => recs'[r].runs = 0,
           \A b \in Actors : Lighter(b)
    PROVE  RunsInv'
<1>1. \A r \in DOMAIN recs' : recs'[r].runs <= 1 /\ (recs'[r].state = "queued" => recs'[r].runs = 0)
   BY DEF RunsInv
<1>2. \A b \in Actors : actor'[b].batch \subseteq actor[b].batch
   BY DEF Lighter
<1>3. ASSUME NEW b \in Actors, NEW r \in actor'[b].batch
      PROVE  /\ recs'[r].state # "queued"
             /\ r # Current(b)' \/ actor'[b].pc \in {"check", "exec"} => recs'[r].runs = 0
   <2>1. r \in actor[b].batch /\ r \in DOMAIN recs
      BY <1>2, <1>3, TypesOf
   <2>2. recs[r].state # "queued" /\ recs'[r].state # "queued" /\ recs'[r].runs = recs[r].runs
      BY <2>1 DEF RunsInv
   <2>3. r # Current(b) \/ actor[b].pc \in {"check", "exec"} => recs[r].runs = 0
      BY <2>1 DEF RunsInv
   <2>4. CASE actor'[b].batch = actor[b].batch \ {Current(b)}
      BY <2>2, <2>3, <2>4
   <2>5. CASE /\ actor'[b].batch = actor[b].batch
              /\ actor'[b].pc \in {"check", "exec"} => actor[b].pc \in {"check", "exec"}
      <3>1. Current(b)' = Current(b)
         BY <2>5 DEF Current
      <3> QED BY <2>2, <2>3, <2>5, <3>1
   <2> QED BY <2>4, <2>5 DEF Lighter
<1>4. \A b, c \in Actors : b # c => actor'[b].batch \cap actor'[c].batch = {}
   BY <1>2 DEF RunsInv
<1> QED BY <1>1, <1>3, <1>4 DEF RunsInv

\* The leases of the others, when only a has moved.
LEMMA OthersLighter ==
    ASSUME NEW a \in Actors, Moves(a, actor'[a]), Lighter(a)
    PROVE  \A b \in Actors : Lighter(b)
BY DEF Moves, Lighter

\* Leasing: the records of the new batch have never been executed, and belonged
\* to nobody.
LEMMA LeaseRuns ==
    ASSUME WorkflowTypeOK, RunsInv, NEW a \in Actors, LeaseQueuedSteps(a)
    PROVE  RunsInv'
<1> DEFINE due == actor'[a].batch
<1>1. /\ Moves(a, actor'[a]) /\ actor'[a].pc = "check"
      /\ \A r \in due : r \in DOMAIN recs /\ recs[r].state = "queued"
      /\ DOMAIN recs' = DOMAIN recs
      /\ \A r \in DOMAIN recs : /\ recs'[r].runs = recs[r].runs
                                /\ recs'[r].state = IF r \in due THEN "in_progress"
                                                    ELSE recs[r].state
   BY LeaseIs DEF SameSteps
<1>2. \A r \in DOMAIN recs' : recs'[r].runs <= 1 /\ (recs'[r].state = "queued" => recs'[r].runs = 0)
   BY <1>1 DEF RunsInv
<1>3. \A b \in Actors : b # a => actor'[b] = actor[b] /\ Current(b)' = Current(b)
   BY <1>1 DEF Moves, Current
<1>4. \A r \in due : recs'[r].state # "queued" /\ recs'[r].runs = 0
   BY <1>1 DEF RunsInv
<1>5. ASSUME NEW b \in Actors, b # a, NEW r \in actor[b].batch
      PROVE  /\ recs'[r].state # "queued" /\ r \notin due
             /\ r # Current(b) \/ actor[b].pc \in {"check", "exec"} => recs'[r].runs = 0
   <2>1. r \in DOMAIN recs /\ recs[r].state # "queued"
      BY <1>5, TypesOf DEF RunsInv
   <2>2. r # Current(b) \/ actor[b].pc \in {"check", "exec"} => recs[r].runs = 0
      BY <1>5 DEF RunsInv
   <2> QED BY <1>1, <2>1, <2>2
<1> HIDE DEF due
<1>6. \A b \in Actors : \A r \in actor'[b].batch :
         /\ recs'[r].state # "queued"
         /\ r # Current(b)' \/ actor'[b].pc \in {"check", "exec"} => recs'[r].runs = 0
   <2> SUFFICES ASSUME NEW b \in Actors, NEW r \in actor'[b].batch
                PROVE  /\ recs'[r].state # "queued"
                       /\ r # Current(b)' \/ actor'[b].pc \in {"check", "exec"} => recs'[r].runs = 0
      OBVIOUS
   <2>1. CASE b = a
      BY <2>1, <1>4 DEF due
   <2>2. CASE b # a
      BY <2>2, <1>3, <1>5
   <2> QED BY <2>1, <2>2
<1>7. \A b, c \in Actors : b # c => actor'[b].batch \cap actor'[c].batch = {}
   <2>1. \A b \in Actors : b # a => actor'[b].batch \cap due = {}
      BY <1>3, <1>5
   <2>2. \A b, c \in Actors : b # a /\ c # a /\ b # c => actor'[b].batch \cap actor'[c].batch = {}
      BY <1>3 DEF RunsInv
   <2> QED BY <2>1, <2>2 DEF due
<1> QED BY <1>2, <1>6, <1>7 DEF RunsInv

\* Executing: the record the actor is at has never been executed.
LEMMA ExecuteRuns ==
    ASSUME WorkflowTypeOK, WorkShape, RunsInv, NEW a \in Actors, Execute(a)
    PROVE  RunsInv'
<1> DEFINE h == Current(a)
<1>1. /\ actor[a].pc = "exec" /\ h \in DOMAIN recs /\ h \in actor[a].batch
      /\ Moves(a, actor'[a]) /\ actor'[a].pc = "result" /\ actor'[a].batch = actor[a].batch
      /\ DOMAIN recs' = DOMAIN recs
      /\ \A q \in DOMAIN recs : /\ recs'[q].state = recs[q].state
                                /\ recs'[q].runs = IF q = h THEN recs[q].runs + 1 ELSE recs[q].runs
   BY ExecuteIs DEF SameSteps
<1>2. recs[h].runs = 0 /\ recs[h].state # "queued"
   BY <1>1 DEF RunsInv
<1>3. \A b \in Actors : actor'[b].batch = actor[b].batch /\ Current(b)' = Current(b)
   <2>1. \A b \in Actors : actor'[b].batch = actor[b].batch
      BY <1>1 DEF Moves
   <2> QED BY <2>1 DEF Current
<1> HIDE DEF h
<1>4. \A r \in DOMAIN recs' : recs'[r].runs <= 1 /\ (recs'[r].state = "queued" => recs'[r].runs = 0)
   BY <1>1, <1>2 DEF RunsInv
<1>5. ASSUME NEW b \in Actors, NEW r \in actor[b].batch
      PROVE  /\ recs'[r].state # "queued"
             /\ r # Current(b) \/ actor'[b].pc \in {"check", "exec"} => recs'[r].runs = 0
   <2>1. r \in DOMAIN recs /\ recs[r].state # "queued"
      BY <1>5, TypesOf DEF RunsInv
   <2>2. r # Current(b) \/ actor[b].pc \in {"check", "exec"} => recs[r].runs = 0
      BY <1>5 DEF RunsInv
   <2>3. CASE b = a
      BY <2>1, <2>2, <2>3, <1>1 DEF h
   <2>4. CASE b # a
      <3>1. actor'[b] = actor[b]
         BY <2>4, <1>1 DEF Moves
      <3>2. r # h
         BY <2>4, <1>1, <1>5 DEF RunsInv
      <3> QED BY <2>1, <2>2, <3>1, <3>2, <1>1
   <2> QED BY <2>3, <2>4
<1> QED BY <1>3, <1>4, <1>5 DEF RunsInv

-----------------------------------------------------------------------------
\* The records stay, with their steps and who asked for them.
RecordsGrow ==
    \A r \in DOMAIN recs : /\ r \in DOMAIN recs' /\ recs'[r].step = recs[r].step
                           /\ recs'[r].manual = recs[r].manual

\* An approval stays.
LEMMA ApprovalsStay ==
    ASSUME setup' = setup, TasksGrow, NEW s, WasApproved(s)
    PROVE  WasApproved(s)'
BY DEF WasApproved, TasksGrow, Approved

\* What keeps the review gate: new tasks are of steps that have records, new records
\* of gated steps come after an approval or from the operator.
LEMMA ReviewKept ==
    ASSUME WorkflowTypeOK, ReviewInv, setup' = setup, TasksGrow, RecordsGrow,
           \A t \in DOMAIN tasks' \ DOMAIN tasks :
              \E r \in DOMAIN recs : recs[r].step = tasks'[t].step,
           \A r \in DOMAIN recs' \ DOMAIN recs :
              recs'[r].manual \/ (recs'[r].step \in Gated => WasApproved(recs'[r].step)),
           \A b \in Actors : actor'[b] = actor[b] \/ ReviewOf(b)'
    PROVE  ReviewInv'
<1>1. Gated' = Gated /\ Reviews' = Reviews /\ Approved' = Approved
   BY DEF Gated, Reviews, Approved, Rejected, Steps, NextOf
<1>2. \A t \in DOMAIN tasks' : \E r \in DOMAIN recs' : recs'[r].step = tasks'[t].step
   <2> SUFFICES ASSUME NEW t \in DOMAIN tasks'
                PROVE  \E r \in DOMAIN recs' : recs'[r].step = tasks'[t].step
      OBVIOUS
   <2>1. \E r \in DOMAIN recs : recs[r].step = tasks'[t].step
      BY DEF ReviewInv, TasksGrow
   <2> QED BY <2>1 DEF RecordsGrow
<1>3. ASSUME NEW b \in Actors, actor'[b] = actor[b]
      PROVE  ReviewOf(b)'
   <2>1. ReviewOf(b)
      BY DEF ReviewInv
   <2>2. actor[b].pc \in {"decide", "apply", "finish"} =>
            /\ actor[b].task \in DOMAIN tasks' /\ actor[b].act # "none"
            /\ tasks'[actor[b].task].step = tasks[actor[b].task].step
            /\ tasks[actor[b].task].acts \subseteq tasks'[actor[b].task].acts
      BY <2>1 DEF ReviewOf, TasksGrow
   <2>3. actor[b].pc = "finish" =>
            actor[b].rec \in DOMAIN recs' /\ recs'[actor[b].rec].step = recs[actor[b].rec].step
      BY <2>1 DEF ReviewOf, RecordsGrow
   <2>4. \A s \in Range(actor[b].todo) : s \in Gated => WasApproved(s)'
      BY <2>1, ApprovalsStay DEF ReviewOf
   <2>5. \A s \in Range(actor'[b].todo) : s \in Gated' => WasApproved(s)'
      BY <1>1, <1>3, <2>4
   <2>6. /\ actor'[b].pc \in {"decide", "apply", "finish"} =>
               actor'[b].task \in DOMAIN tasks' /\ actor'[b].act # "none"
         /\ actor'[b].pc \in {"apply", "finish"} /\ actor'[b].act = "approve" =>
               "approve" \in tasks'[actor'[b].task].acts
         /\ actor'[b].pc = "finish" =>
               actor'[b].rec \in DOMAIN recs' /\ recs'[actor'[b].rec].step = tasks'[actor'[b].task].step
      BY <1>3, <2>1, <2>2, <2>3 DEF ReviewOf
   <2> QED BY <2>5, <2>6 DEF ReviewOf
<1>4. ApprovedBeforePublish'
   <2>1. ASSUME NEW r \in DOMAIN recs', NEW s \in Gated, recs'[r].step = s, ~recs'[r].manual
         PROVE  WasApproved(s)'
      <3>1. CASE r \in DOMAIN recs
         <4>1. recs[r].step = s /\ ~recs[r].manual
            BY <2>1, <3>1 DEF RecordsGrow
         <4>2. WasApproved(s)
            BY <3>1, <4>1 DEF ReviewInv, ApprovedBeforePublish, WasApproved
         <4> QED BY <4>2, ApprovalsStay
      <3>2. CASE r \notin DOMAIN recs
         <4>1. WasApproved(s)
            BY <2>1, <3>2
         <4> QED BY <4>1, ApprovalsStay
      <3> QED BY <3>1, <3>2
   <2> QED BY <1>1, <2>1 DEF ApprovedBeforePublish, WasApproved
<1> QED BY <1>2, <1>3, <1>4 DEF ReviewInv

\* An actor that decides nothing, and whose next steps may be enqueued.
LEMMA ReviewOfDrain ==
    ASSUME setup' = setup, TasksGrow, NEW a \in Actors,
           actor'[a].pc \notin {"decide", "apply", "finish"},
           \A s \in Range(actor'[a].todo) : s \in Gated => WasApproved(s)
    PROVE  ReviewOf(a)'
<1>1. Gated' = Gated
   BY DEF Gated, Reviews, Approved, Rejected, Steps, NextOf
<1>2. \A s \in Range(actor'[a].todo) : s \in Gated' => WasApproved(s)'
   BY <1>1, ApprovalsStay
<1> QED BY <1>2 DEF ReviewOf

\* The tasks and the records are the same ones.
LEMMA NothingNew ==
    ASSUME WorkflowTypeOK
    PROVE  /\ tasks' = tasks => TasksGrow
           /\ recs' = recs => SameSteps
           /\ SameSteps => RecordsGrow
           /\ \A n : Appended(n) => RecordsGrow
<1>1. /\ tasks \in Seq(ReviewTask) /\ DOMAIN recs = 1..Len(recs) /\ Len(recs) \in Nat
   BY TypesOf DEF WorkflowTypeOK
<1>2. tasks' = tasks => TasksGrow
   BY <1>1 DEF TasksGrow
<1>3. (recs' = recs => SameSteps) /\ (SameSteps => RecordsGrow)
   BY DEF SameSteps, RecordsGrow
<1>4. ASSUME NEW n, Appended(n) PROVE RecordsGrow
   <2>1. DOMAIN recs' = 1..(Len(recs) + 1) /\ \A q \in DOMAIN recs : recs'[q] = recs[q]
      BY <1>4 DEF Appended
   <2> QED BY <1>1, <2>1 DEF RecordsGrow
<1> QED BY <1>2, <1>3, <1>4

-----------------------------------------------------------------------------
\* The latest record of a step, before and after.
LEMMA LatestSame ==
    ASSUME SameSteps, NEW s
    PROVE  Latest(s)' = Latest(s)
<1>1. {r \in DOMAIN recs' : recs'[r].step = s} = {r \in DOMAIN recs : recs[r].step = s}
   BY DEF SameSteps
<1> QED BY <1>1 DEF Latest

LEMMA LatestAppended ==
    ASSUME WorkflowTypeOK, NEW n, Appended(n), NEW s
    PROVE  Latest(s)' = IF n.step = s THEN Len(recs) + 1 ELSE Latest(s)
<1> DEFINE before == {r \in DOMAIN recs : recs[r].step = s}
           after == {r \in DOMAIN recs' : recs'[r].step = s}
<1>1. /\ Len(recs) \in Nat /\ DOMAIN recs = 1..Len(recs) /\ DOMAIN recs' = 1..(Len(recs) + 1)
      /\ recs'[Len(recs) + 1] = n /\ \A q \in DOMAIN recs : recs'[q] = recs[q]
   BY TypesOf DEF Appended
<1>2. /\ Latest(s) = IF before = {} THEN 0 ELSE Max(before)
      /\ Latest(s)' = IF after = {} THEN 0 ELSE Max(after)
   BY DEF Latest
<1>3. CASE n.step = s
   <2>1. after \in SUBSET (1..(Len(recs) + 1)) /\ Len(recs) + 1 \in after
      BY <1>1, <1>3
   <2> HIDE DEF after
   <2>2. Max(after) \in after /\ \A x \in after : x <= Max(after)
      <3>1. Len(recs) + 1 \in Nat /\ after # {}
         BY <1>1, <2>1
      <3> QED BY <2>1, <3>1, LargestOf
   <2> DEFINE m == Max(after)
   <2>3. m = Len(recs) + 1
      <3>1. m \in 1..(Len(recs) + 1) /\ Len(recs) + 1 <= m
         BY <2>1, <2>2
      <3> HIDE DEF m
      <3> QED BY <1>1, <3>1
   <2> QED BY <1>2, <1>3, <2>1, <2>3
<1>4. CASE n.step # s
   <2>1. after = before
      BY <1>1, <1>4
   <2> HIDE DEF before, after
   <2> QED BY <1>2, <1>4, <2>1
<1> QED BY <1>3, <1>4

\* A step that is missing after records changed state was missing before, unless
\* one of its sources completed just now.
LEMMA MissingBack ==
    ASSUME WorkflowTypeOK, setup' = setup, SameSteps, NEW r \in DOMAIN recs', NEW s \in Steps,
           Missing(r, s)',
           \A q \in Sources(r, s)' : recs'[q].state = "completed" => recs[q].state = "completed"
    PROVE  r \in DOMAIN recs /\ Missing(r, s) /\ Sources(r, s)' = Sources(r, s)
<1>1. /\ NextOf' = NextOf /\ DependsOn' = DependsOn /\ Reviews' = Reviews
   BY DEF NextOf, DependsOn, Reviews
<1>2. r \in DOMAIN recs /\ recs'[r].step = recs[r].step
   BY DEF SameSteps
<1>3. Latest(s)' = Latest(s) /\ \A d \in DependsOn[s] : Latest(d)' = Latest(d)
   BY LatestSame
<1>4. Sources(r, s)' = {r} \cup {Latest(d)' : d \in DependsOn[s]}
   BY <1>1 DEF Sources
<1>5. Sources(r, s)' = Sources(r, s)
   BY <1>3, <1>4 DEF Sources
<1>6. /\ recs'[r].state = "completed" /\ recs[r].step \notin Reviews
      /\ s \in Range(NextOf[recs[r].step]) /\ Joined(s) /\ Latest(s) = 0
      /\ \A d \in DependsOn[s] : Latest(d) # 0 /\ recs'[Latest(d)].state = "completed"
   BY <1>1, <1>2, <1>3 DEF Missing, Joined, DependenciesCompleted
<1>7. r \in Sources(r, s)' /\ \A d \in DependsOn[s] : Latest(d) \in Sources(r, s)'
   BY <1>5 DEF Sources
<1>8. recs[r].state = "completed" /\ \A d \in DependsOn[s] : recs[Latest(d)].state = "completed"
   BY <1>6, <1>7
<1> QED BY <1>2, <1>5, <1>6, <1>8 DEF Missing, DependenciesCompleted

\* A step that is missing after a record was added was missing before, and is
\* not the step of that record.
LEMMA MissingBackAdded ==
    ASSUME WorkflowTypeOK, setup' = setup, NEW n, Appended(n), n.state = "queued",
           NEW r \in DOMAIN recs', NEW s \in Steps, Missing(r, s)'
    PROVE  /\ r \in DOMAIN recs /\ Missing(r, s) /\ Sources(r, s)' = Sources(r, s)
           /\ s # n.step
<1>1. /\ NextOf' = NextOf /\ DependsOn' = DependsOn /\ Reviews' = Reviews
   BY DEF NextOf, DependsOn, Reviews
<1>2. /\ Len(recs) \in Nat /\ DOMAIN recs = 1..Len(recs) /\ DOMAIN recs' = 1..(Len(recs) + 1)
      /\ recs'[Len(recs) + 1] = n /\ \A q \in DOMAIN recs : recs'[q] = recs[q]
   BY TypesOf DEF Appended
<1>3. /\ recs'[r].state = "completed" /\ recs'[r].step \notin Reviews
      /\ s \in Range(NextOf[recs'[r].step]) /\ Joined(s) /\ Latest(s)' = 0
      /\ \A d \in DependsOn[s] : Latest(d)' # 0 /\ recs'[Latest(d)'].state = "completed"
   BY <1>1 DEF Missing, Joined, DependenciesCompleted
<1>4. r \in DOMAIN recs /\ recs'[r] = recs[r]
   BY <1>2, <1>3
<1>5. s # n.step /\ Latest(s) = 0
   <2>1. Latest(s)' = IF n.step = s THEN Len(recs) + 1 ELSE Latest(s)
      BY LatestAppended
   <2> QED BY <1>2, <1>3, <2>1
<1>6. ASSUME NEW d \in DependsOn[s]
      PROVE  Latest(d)' = Latest(d) /\ Latest(d) \in DOMAIN recs
   <2>1. Latest(d)' = IF n.step = d THEN Len(recs) + 1 ELSE Latest(d)
      BY LatestAppended
   <2>2. n.step # d
      BY <1>2, <1>3, <2>1
   <2>3. Latest(d)' = Latest(d)
      BY <2>1, <2>2
   <2>4. Latest(d) # 0
      BY <1>3, <2>3
   <2> QED BY <2>3, <2>4, LatestIs
<1>7. Sources(r, s)' = {r} \cup {Latest(d)' : d \in DependsOn[s]}
   BY <1>1 DEF Sources
<1>8. Sources(r, s)' = Sources(r, s)
   BY <1>6, <1>7 DEF Sources
<1>9. \A d \in DependsOn[s] : Latest(d) # 0 /\ recs[Latest(d)].state = "completed"
   BY <1>2, <1>3, <1>6
<1> QED BY <1>3, <1>4, <1>5, <1>8, <1>9 DEF Missing, DependenciesCompleted

\* A join is kept when a step that is missing afterwards is carried by a, or was
\* missing before and a still carries it if it did.
LEMMA JoinKept ==
    ASSUME JoinInv, setup' = setup, aborts' = 0 => aborts = 0, NEW a \in Actors, Moves(a, actor'[a]),
           \A r \in DOMAIN recs', s \in Steps : Missing(r, s)' =>
              \/ \E h \in Sources(r, s)' : Carries(a, h, s)'
              \/ /\ r \in DOMAIN recs /\ Missing(r, s) /\ Sources(r, s)' = Sources(r, s)
                 /\ \A h \in Sources(r, s) : Carries(a, h, s) => Carries(a, h, s)'
    PROVE  JoinInv'
<1>1. Steps' = Steps
   BY DEF Steps
<1>2. SUFFICES ASSUME aborts = 0, NEW r \in DOMAIN recs', NEW s \in Steps, Missing(r, s)'
               PROVE  \E b \in Actors : \E h \in Sources(r, s)' : Carries(b, h, s)'
   BY <1>1 DEF JoinInv
<1>3. CASE \E h \in Sources(r, s)' : Carries(a, h, s)'
   BY <1>3
<1>4. CASE /\ r \in DOMAIN recs /\ Missing(r, s) /\ Sources(r, s)' = Sources(r, s)
           /\ \A h \in Sources(r, s) : Carries(a, h, s) => Carries(a, h, s)'
   <2>1. PICK b \in Actors, h \in Sources(r, s) : Carries(b, h, s)
      BY <1>2, <1>4 DEF JoinInv
   <2>2. CASE b = a
      BY <1>4, <2>1, <2>2
   <2>3. CASE b # a
      <3>1. actor'[b] = actor[b]
         BY <2>3 DEF Moves
      <3>2. Carries(b, h, s)'
         BY <2>1, <3>1 DEF Carries, Current
      <3> QED BY <1>4, <2>1, <3>2
   <2> QED BY <2>2, <2>3
<1> QED BY <1>2, <1>3, <1>4

\* A join is kept by a step that completes no record, of an actor that carries nothing.
LEMMA JoinIdle ==
    ASSUME WorkflowTypeOK, JoinInv, setup' = setup, aborts' = aborts, SameSteps,
           \A r \in DOMAIN recs : recs'[r].state = "completed" => recs[r].state = "completed",
           NEW a \in Actors, Moves(a, actor'[a]), actor[a].pc \notin {"route", "enqueue", "result"}
    PROVE  JoinInv'
<1>1. \A h, s : ~ Carries(a, h, s)
   BY DEF Carries
<1>2. ASSUME NEW r \in DOMAIN recs', NEW s \in Steps, Missing(r, s)'
      PROVE  r \in DOMAIN recs /\ Missing(r, s) /\ Sources(r, s)' = Sources(r, s)
   <2>1. \A q \in Sources(r, s)' : q \in DOMAIN recs
      <3> SUFFICES ASSUME NEW q \in Sources(r, s)' PROVE q \in DOMAIN recs
         OBVIOUS
      <3>1. CASE q = r
         BY <1>2, <3>1 DEF SameSteps
      <3>2. ASSUME NEW d \in DependsOn[s], q = Latest(d)' PROVE q \in DOMAIN recs
         <4>1. Latest(d)' = Latest(d)
            BY LatestSame
         <4>2. Latest(d)' # 0
            BY <1>2 DEF Missing, DependenciesCompleted, DependsOn
         <4> QED BY <3>2, <4>1, <4>2, LatestIs
      <3> QED BY <3>1, <3>2 DEF Sources, DependsOn
   <2> QED BY <1>2, <2>1, MissingBack
<1> QED BY <1>1, <1>2, JoinKept

-----------------------------------------------------------------------------
\* A step of an actor that carries no join, and touches no record and no task.
LEMMA OnlyActorKept ==
    ASSUME WorkflowInv, WorkflowTypeOK', NEW a \in Actors, OnlyActor(a), aborts' = aborts,
           actor[a].pc \notin {"route", "enqueue", "result"}, Lighter(a), ReviewOf(a)',
           actor'[a].pc \in {"check", "exec", "result", "route"} => actor'[a].batch # {},
           actor'[a].pc = "enqueue" => actor'[a].todo # <<>>,
           actor'[a].pc = "instance" => actor'[a].set # <<>>
    PROVE  WorkflowInv'
<1>1. /\ WorkflowTypeOK /\ WorkShape /\ RunsInv /\ ReviewInv /\ JoinInv
   BY DEF WorkflowInv
<1>2. setup' = setup /\ recs' = recs /\ tasks' = tasks /\ Moves(a, actor'[a])
   BY DEF OnlyActor
<1>3. TasksGrow /\ SameSteps /\ RecordsGrow
   BY <1>1, <1>2, NothingNew
<1>4. WorkShape'
   BY <1>1, <1>2, ShapeKept
<1>5. RunsInv'
   <2>1. \A b \in Actors : Lighter(b)
      BY <1>2, OthersLighter
   <2> QED BY <1>1, <1>2, <2>1, RunsKept
<1>6. ReviewInv'
   <2>1. \A b \in Actors : actor'[b] = actor[b] \/ ReviewOf(b)'
      BY <1>2 DEF Moves
   <2> QED BY <1>1, <1>2, <1>3, <2>1, ReviewKept
<1>7. JoinInv'
   BY <1>1, <1>2, <1>3, JoinIdle
<1> QED BY <1>4, <1>5, <1>6, <1>7 DEF WorkflowInv

\* The same for a step after which nothing new is to be enqueued.
LEMMA DrainKept ==
    ASSUME WorkflowInv, WorkflowTypeOK', NEW a \in Actors, OnlyActor(a), aborts' = aborts,
           actor[a].pc \notin {"route", "enqueue", "result"}, Lighter(a),
           actor'[a].pc \in {"idle", "lease", "check", "exec", "list", "instance"},
           actor'[a].pc \in {"check", "exec"} => actor'[a].batch # {},
           actor'[a].pc = "instance" => actor'[a].set # <<>>,
           actor'[a].todo = actor[a].todo \/ actor'[a].todo = <<>>
    PROVE  WorkflowInv'
<1>1. \A s \in Range(actor'[a].todo) : s \in Gated => WasApproved(s)
   <2>1. Range(<<>>) = {}
      BY DEF Range
   <2>2. \A s \in Range(actor[a].todo) : s \in Gated => WasApproved(s)
      BY DEF WorkflowInv, ReviewInv, ReviewOf
   <2> QED BY <2>1, <2>2
<1>2. setup' = setup /\ TasksGrow
   BY NothingNew DEF OnlyActor, WorkflowInv
<1>3. ReviewOf(a)'
   BY <1>1, <1>2, ReviewOfDrain
<1> QED BY <1>3, OnlyActorKept

LEMMA NothingDueKept ==
    ASSUME WorkflowInv, NEW a \in Actors, NothingDue(a)
    PROVE  WorkflowInv'
<1>1. /\ OnlyActor(a) /\ aborts' = aborts /\ actor[a].pc = "lease"
      /\ actor'[a].pc = "list" /\ actor'[a].batch = {} /\ actor'[a].todo = <<>>
      /\ WorkflowTypeOK'
   BY NothingDueIs DEF WorkflowInv
<1>2. Lighter(a)
   BY <1>1 DEF Lighter
<1> QED BY <1>1, <1>2, DrainKept

LEMMA CheckKept ==
    ASSUME WorkflowInv, NEW a \in Actors, CheckInstance(a)
    PROVE  WorkflowInv'
<1>1. /\ OnlyActor(a) /\ aborts' = aborts /\ actor[a].pc = "check"
      /\ \/ actor'[a] = AfterRecord(a)
         \/ /\ actor'[a].pc = "exec" /\ actor'[a].batch = actor[a].batch
            /\ actor'[a].todo = actor[a].todo
      /\ WorkflowTypeOK' /\ actor[a].batch # {}
   BY CheckIs DEF WorkflowInv, WorkShape
<1>2. /\ AfterRecord(a).todo = <<>> /\ AfterRecord(a).batch = actor[a].batch \ {Current(a)}
      /\ AfterRecord(a).pc \in {"idle", "lease", "check", "list"}
      /\ AfterRecord(a).batch # {} <=> AfterRecord(a).pc = "check"
   BY AfterRecordIs DEF WorkflowInv
<1>3. Lighter(a)
   BY <1>1, <1>2 DEF Lighter
<1> QED BY <1>1, <1>2, <1>3, DrainKept

LEMMA ListKept ==
    ASSUME WorkflowInv, NEW a \in Actors, ListRecords(a)
    PROVE  WorkflowInv'
<1>1. /\ OnlyActor(a) /\ aborts' = aborts /\ actor[a].pc = "list"
      /\ actor'[a].pc = "instance" /\ actor'[a].set # <<>>
      /\ actor'[a].batch = actor[a].batch /\ actor'[a].todo = actor[a].todo
      /\ WorkflowTypeOK'
   BY ListIs DEF WorkflowInv
<1>2. Lighter(a)
   BY <1>1 DEF Lighter
<1> QED BY <1>1, <1>2, DrainKept

LEMMA WriteKept ==
    ASSUME WorkflowInv, NEW a \in Actors, WriteInstance(a)
    PROVE  WorkflowInv'
<1>1. /\ OnlyActor(a) /\ aborts' = aborts /\ actor[a].pc = "instance"
      /\ \/ actor'[a] = AfterRecord(a)
         \/ actor'[a] = NoWork
         \/ /\ actor'[a].pc = "instance" /\ actor'[a].set # <<>>
            /\ actor'[a].batch = actor[a].batch /\ actor'[a].todo = actor[a].todo
      /\ WorkflowTypeOK'
   BY WriteIs DEF WorkflowInv
<1>2. /\ AfterRecord(a).todo = <<>> /\ AfterRecord(a).batch = actor[a].batch \ {Current(a)}
      /\ AfterRecord(a).pc \in {"idle", "lease", "check", "list"}
      /\ AfterRecord(a).batch # {} <=> AfterRecord(a).pc = "check"
      /\ NoWork.pc = "idle" /\ NoWork.batch = {} /\ NoWork.todo = <<>>
   BY AfterRecordIs, NoWorkIs DEF WorkflowInv
<1>3. Lighter(a)
   BY <1>1, <1>2 DEF Lighter
<1> QED BY <1>1, <1>2, <1>3, DrainKept

LEMMA ActKept ==
    ASSUME WorkflowInv, NEW a \in Actors, Review(a)
    PROVE  WorkflowInv'
<1>1. PICK t \in DOMAIN tasks, action \in ReviewActions : ActHumanReviewTask(a, t, action)
   BY DEF Review
<1>2. /\ OnlyActor(a) /\ aborts' = aborts /\ actor[a].pc = "idle"
      /\ actor'[a].pc = "decide" /\ actor'[a].batch = {} /\ actor'[a].todo = <<>>
      /\ actor'[a].task = t /\ actor'[a].act = action /\ WorkflowTypeOK'
   BY <1>1, ActIs DEF WorkflowInv
<1>3. Range(actor'[a].todo) = {}
   BY <1>2 DEF Range
<1>4. action # "none" /\ tasks' = tasks
   BY <1>2 DEF ReviewActions, OnlyActor
<1>5. ReviewOf(a)'
   BY <1>2, <1>3, <1>4 DEF ReviewOf
<1>6. Lighter(a)
   BY <1>2 DEF Lighter
<1> QED BY <1>2, <1>5, <1>6, OnlyActorKept

LEMMA FindKept ==
    ASSUME WorkflowInv, NEW a \in Actors, FindReviewStep(a)
    PROVE  WorkflowInv'
<1>1. actor[a].pc = "apply"
   BY DEF FindReviewStep
<1>2. ReviewOf(a)
   BY DEF WorkflowInv, ReviewInv
<1>3. /\ actor[a].task \in DOMAIN tasks /\ actor[a].act # "none"
      /\ actor[a].act = "approve" => "approve" \in tasks[actor[a].task].acts
      /\ \E r \in DOMAIN recs : recs[r].step = tasks[actor[a].task].step
   BY <1>1, <1>2 DEF WorkflowInv, ReviewInv, ReviewOf
<1>4. /\ OnlyActor(a) /\ aborts' = aborts
      /\ \/ actor'[a] = NoWork
         \/ /\ actor'[a].pc = "finish" /\ actor'[a].batch = actor[a].batch
            /\ actor'[a].todo = actor[a].todo /\ actor'[a].task = actor[a].task
            /\ actor'[a].act = actor[a].act /\ actor'[a].rec \in DOMAIN recs
            /\ recs[actor'[a].rec].step = tasks[actor[a].task].step
      /\ WorkflowTypeOK'
   BY <1>3, FindIs DEF WorkflowInv
<1>5. CASE actor'[a] = NoWork
   <2>1. Lighter(a)
      BY <1>5, NoWorkIs DEF Lighter
   <2> QED BY <1>1, <1>4, <1>5, <2>1, NoWorkIs, DrainKept
<1>6. CASE /\ actor'[a].pc = "finish" /\ actor'[a].batch = actor[a].batch
           /\ actor'[a].todo = actor[a].todo /\ actor'[a].task = actor[a].task
           /\ actor'[a].act = actor[a].act /\ actor'[a].rec \in DOMAIN recs
           /\ recs[actor'[a].rec].step = tasks[actor[a].task].step
   <2>1. recs' = recs /\ tasks' = tasks /\ setup' = setup /\ Gated' = Gated
      BY <1>4 DEF OnlyActor, Gated, Reviews, Approved, Rejected, Steps, NextOf
   <2>2. \A s : WasApproved(s) => WasApproved(s)'
      BY <2>1 DEF WasApproved, Approved
   <2>3. \A s \in Range(actor'[a].todo) : s \in Gated' => WasApproved(s)'
      BY <1>2, <1>6, <2>1, <2>2 DEF ReviewOf
   <2>4. ReviewOf(a)'
      BY <1>3, <1>6, <2>1, <2>3 DEF ReviewOf
   <2>5. Lighter(a)
      BY <1>6 DEF Lighter
   <2> QED BY <1>1, <1>4, <1>6, <2>4, <2>5, OnlyActorKept
<1> QED BY <1>4, <1>5, <1>6

LEMMA LeaseKept ==
    ASSUME WorkflowInv, NEW a \in Actors, LeaseQueuedSteps(a)
    PROVE  WorkflowInv'
<1>1. /\ WorkflowTypeOK /\ WorkShape /\ RunsInv /\ ReviewInv /\ JoinInv
   BY DEF WorkflowInv
<1>2. /\ UNCHANGED <<setup, inst, tasks, retrying, controls, aborts>>
      /\ actor[a].pc \in {"idle", "lease"} /\ Moves(a, actor'[a])
      /\ actor'[a].pc = "check" /\ actor'[a].batch # {} /\ actor'[a].todo = <<>>
      /\ recs' \in Seq(StepRecord) /\ SameSteps
      /\ \A r \in DOMAIN recs : recs'[r].state = IF r \in actor'[a].batch THEN "in_progress"
                                                 ELSE recs[r].state
      /\ WorkflowTypeOK'
   BY <1>1, LeaseIs
<1>3. TasksGrow /\ RecordsGrow
   BY <1>1, <1>2, NothingNew
<1>4. WorkShape'
   BY <1>1, <1>2, ShapeKept
<1>5. RunsInv'
   BY <1>1, LeaseRuns
<1>6. ReviewInv'
   <2>1. Range(actor'[a].todo) = {}
      BY <1>2 DEF Range
   <2>2. ReviewOf(a)'
      BY <1>2, <1>3, <2>1, ReviewOfDrain
   <2>3. \A b \in Actors : actor'[b] = actor[b] \/ ReviewOf(b)'
      BY <1>2, <2>2 DEF Moves
   <2>4. DOMAIN recs' = DOMAIN recs /\ tasks' = tasks
      BY <1>2 DEF SameSteps
   <2> QED BY <1>1, <1>2, <1>3, <2>3, <2>4, ReviewKept
<1>7. JoinInv'
   <2>1. \A r \in DOMAIN recs : recs'[r].state = "completed" => recs[r].state = "completed"
      BY <1>2
   <2> QED BY <1>1, <1>2, <2>1, JoinIdle
<1> QED BY <1>2, <1>4, <1>5, <1>6, <1>7 DEF WorkflowInv

LEMMA ExecuteKept ==
    ASSUME WorkflowInv, NEW a \in Actors, Execute(a)
    PROVE  WorkflowInv'
<1> DEFINE h == Current(a)
<1>1. /\ WorkflowTypeOK /\ WorkShape /\ RunsInv /\ ReviewInv /\ JoinInv
   BY DEF WorkflowInv
<1>2. /\ UNCHANGED <<setup, inst, retrying, controls, aborts>>
      /\ actor[a].pc = "exec" /\ h \in DOMAIN recs /\ h \in actor[a].batch
      /\ Moves(a, actor'[a]) /\ actor'[a].pc = "result"
      /\ actor'[a].batch = actor[a].batch /\ actor'[a].todo = actor[a].todo
      /\ SameSteps /\ \A q \in DOMAIN recs : recs'[q].state = recs[q].state
      /\ TasksGrow
      /\ \A t \in DOMAIN tasks' \ DOMAIN tasks : tasks'[t].step = recs[h].step
      /\ WorkflowTypeOK'
   BY <1>1, ExecuteIs
<1>3. RecordsGrow /\ DOMAIN recs' = DOMAIN recs
   BY <1>1, <1>2, NothingNew DEF SameSteps
<1>4. WorkShape'
   BY <1>1, <1>2, ShapeKept
<1>5. RunsInv'
   BY <1>1, ExecuteRuns
<1>6. ReviewInv'
   <2>1. \A s \in Range(actor'[a].todo) : s \in Gated => WasApproved(s)
      BY <1>1, <1>2 DEF ReviewInv, ReviewOf
   <2>2. ReviewOf(a)'
      BY <1>2, <2>1, ReviewOfDrain
   <2>3. \A b \in Actors : actor'[b] = actor[b] \/ ReviewOf(b)'
      BY <1>2, <2>2 DEF Moves
   <2>4. \A t \in DOMAIN tasks' \ DOMAIN tasks :
            \E r \in DOMAIN recs : recs[r].step = tasks'[t].step
      BY <1>2
   <2> QED BY <1>1, <1>2, <1>3, <2>3, <2>4, ReviewKept
<1>7. JoinInv'
   BY <1>1, <1>2, JoinIdle
<1> QED BY <1>2, <1>4, <1>5, <1>6, <1>7 DEF WorkflowInv

\* A record that completes is carried, with all it leads to, by who completed it;
\* a record that waits or fails is no source of a missing step.
LEMMA UpdateKept ==
    ASSUME WorkflowInv, NEW a \in Actors, UpdateStep(a)
    PROVE  WorkflowInv'
<1> DEFINE h == Current(a)
<1>1. /\ WorkflowTypeOK /\ WorkShape /\ RunsInv /\ ReviewInv /\ JoinInv
   BY DEF WorkflowInv
<1>2. /\ UNCHANGED <<setup, inst, tasks, retrying, controls, aborts>>
      /\ actor[a].pc = "result" /\ h \in DOMAIN recs /\ h \in actor[a].batch
      /\ Moves(a, actor'[a])
      /\ actor'[a].batch = actor[a].batch /\ actor'[a].todo = actor[a].todo
      /\ WorkflowTypeOK'
   BY <1>1, UpdateIs
<1>3. \/ Settled(h, "completed") /\ actor[a].res = "succeeded" /\ actor'[a].pc = "route"
      \/ /\ Settled(h, "waiting") \/ Settled(h, "failed")
         /\ actor'[a].pc = "instance" /\ actor'[a].set # <<>>
   BY <1>1, UpdateIs
<1>4. /\ SameSteps /\ DOMAIN recs' = DOMAIN recs
      /\ \A q \in DOMAIN recs : recs'[q].runs = recs[q].runs
      /\ \A q \in DOMAIN recs : q # h => recs'[q].state = recs[q].state
      /\ recs'[h].state \in {"completed", "waiting", "failed"}
   BY <1>3 DEF Settled, SameSteps
<1>5. TasksGrow /\ RecordsGrow
   BY <1>1, <1>2, <1>4, NothingNew
<1>6. WorkShape'
   BY <1>1, <1>2, <1>3, ShapeKept
<1>7. RunsInv'
   <2>1. \A r \in DOMAIN recs : /\ r \in DOMAIN recs' /\ recs'[r].runs = recs[r].runs
                                /\ recs'[r].state = "queued" => recs[r].state = "queued"
      BY <1>4
   <2>2. Lighter(a)
      BY <1>2, <1>3 DEF Lighter
   <2>3. \A b \in Actors : Lighter(b)
      BY <1>2, <2>2, OthersLighter
   <2> QED BY <1>1, <1>4, <2>1, <2>3, RunsKept
<1>8. ReviewInv'
   <2>1. \A s \in Range(actor'[a].todo) : s \in Gated => WasApproved(s)
      BY <1>1, <1>2 DEF ReviewInv, ReviewOf
   <2>2. ReviewOf(a)'
      BY <1>2, <1>3, <1>5, <2>1, ReviewOfDrain
   <2>3. \A b \in Actors : actor'[b] = actor[b] \/ ReviewOf(b)'
      BY <1>2, <2>2 DEF Moves
   <2> QED BY <1>1, <1>2, <1>4, <1>5, <2>3, ReviewKept
<1>9. JoinInv'
   <2>1. ASSUME NEW r \in DOMAIN recs', NEW s \in Steps, Missing(r, s)'
         PROVE  \/ \E q \in Sources(r, s)' : Carries(a, q, s)'
                \/ /\ r \in DOMAIN recs /\ Missing(r, s) /\ Sources(r, s)' = Sources(r, s)
                   /\ \A q \in Sources(r, s) : Carries(a, q, s) => Carries(a, q, s)'
      <3>1. \A q \in Sources(r, s)' : q \in DOMAIN recs /\ recs'[q].state = "completed"
         <4>1. r \in DOMAIN recs /\ recs'[r].state = "completed"
            BY <2>1, <1>4 DEF Missing
         <4>2. ASSUME NEW d \in DependsOn[s]
               PROVE  Latest(d)' \in DOMAIN recs /\ recs'[Latest(d)'].state = "completed"
            <5>1. Latest(d)' = Latest(d)
               BY <1>4, LatestSame
            <5>2. Latest(d)' # 0 /\ recs'[Latest(d)'].state = "completed"
               BY <2>1, <1>2 DEF Missing, DependenciesCompleted, DependsOn
            <5> QED BY <1>1, <5>1, <5>2, LatestIs
         <4>3. Sources(r, s)' = {r} \cup {Latest(d)' : d \in DependsOn[s]}
            BY <1>2 DEF Sources, DependsOn
         <4> QED BY <4>1, <4>2, <4>3
      <3>2. CASE h \in Sources(r, s)'
         <4>1. recs'[h].state = "completed"
            BY <3>1, <3>2
         <4>2. actor'[a].pc = "route"
            BY <1>3, <4>1 DEF Settled
         <4>3. ASSUME NEW q \in Sources(r, s)', q = h PROVE Carries(a, q, s)'
            <5>1. Current(a)' = h
               BY <1>2 DEF Current
            <5> QED BY <1>2, <4>2, <4>3, <5>1 DEF Carries
         <4> QED BY <3>2, <4>3
      <3>3. CASE h \notin Sources(r, s)'
         <4>1. \A q \in Sources(r, s)' : recs'[q].state = "completed" => recs[q].state = "completed"
            BY <1>4, <3>1, <3>3
         <4>2. r \in DOMAIN recs /\ Missing(r, s) /\ Sources(r, s)' = Sources(r, s)
            BY <1>1, <1>2, <1>4, <2>1, <4>1, MissingBack
         <4>3. \A q \in Sources(r, s) : ~ Carries(a, q, s)
            BY <3>3, <4>2 DEF Carries
         <4> QED BY <4>2, <4>3
      <3> QED BY <3>2, <3>3
   <2> QED BY <1>1, <1>2, <2>1, JoinKept
<1> QED BY <1>2, <1>6, <1>7, <1>8, <1>9 DEF WorkflowInv

\* Each source of a missing step leads to it.
LEMMA SourcesLead ==
    ASSUME WorkflowTypeOK, NEW r \in DOMAIN recs, NEW s, Missing(r, s)
    PROVE  \A q \in Sources(r, s) : q \in DOMAIN recs /\ s \in Range(NextOf[recs[q].step])
<1> SUFFICES ASSUME NEW q \in Sources(r, s)
             PROVE  q \in DOMAIN recs /\ s \in Range(NextOf[recs[q].step])
   OBVIOUS
<1>1. CASE q = r
   BY <1>1 DEF Missing
<1>2. ASSUME NEW d \in DependsOn[s], q = Latest(d)
      PROVE  q \in DOMAIN recs /\ s \in Range(NextOf[recs[q].step])
   <2>1. q # 0 /\ s \in Range(NextOf[d])
      BY <1>2 DEF Missing, DependenciesCompleted, Joined
   <2>2. q \in DOMAIN recs /\ recs[q].step = d
      BY <1>2, <2>1, LatestIs
   <2> QED BY <2>1, <2>2
<1> QED BY <1>1, <1>2 DEF Sources

\* Nothing is missing that was not, when the records are the same.
LEMMA MissingSame ==
    ASSUME WorkflowTypeOK, setup' = setup, recs' = recs,
           NEW r \in DOMAIN recs', NEW s \in Steps, Missing(r, s)'
    PROVE  r \in DOMAIN recs /\ Missing(r, s) /\ Sources(r, s)' = Sources(r, s)
<1>1. SameSteps
   BY NothingNew
<1> QED BY <1>1, MissingBack

\* The steps that a completed record leads to are what its actor enqueues.
LEMMA NextStepsKept ==
    ASSUME WorkflowInv, NEW a \in Actors, NextSteps(a)
    PROVE  WorkflowInv'
<1> DEFINE d == recs[Current(a)].step
<1>1. /\ WorkflowTypeOK /\ WorkShape /\ RunsInv /\ ReviewInv /\ JoinInv
   BY DEF WorkflowInv
<1>2. /\ OnlyActor(a) /\ aborts' = aborts /\ actor[a].pc = "route"
      /\ d \in Steps /\ actor'[a].batch = actor[a].batch
      /\ \/ /\ actor'[a].todo = NextOf[d]
            /\ actor'[a].pc \in {"enqueue", "lease", "list"}
            /\ actor'[a].pc = "enqueue" <=> NextOf[d] # <<>>
         \/ /\ actor'[a].pc = "result" /\ actor'[a].res = "failed"
            /\ actor'[a].todo = actor[a].todo
      /\ WorkflowTypeOK' /\ actor[a].batch # {}
   BY <1>1, NextStepsIs DEF WorkShape
<1> HIDE DEF d
<1>3. setup' = setup /\ recs' = recs /\ tasks' = tasks /\ Moves(a, actor'[a])
   BY <1>2 DEF OnlyActor
<1>4. TasksGrow /\ SameSteps /\ RecordsGrow
   BY <1>1, <1>3, NothingNew
<1>5. WorkShape'
   BY <1>1, <1>2, <1>3, ShapeKept
<1>6. RunsInv'
   <2>1. Lighter(a)
      BY <1>2 DEF Lighter
   <2>2. \A b \in Actors : Lighter(b)
      BY <1>3, <2>1, OthersLighter
   <2> QED BY <1>1, <1>3, <2>2, RunsKept
<1>7. ReviewInv'
   <2>1. \A s \in Range(actor'[a].todo) : s \in Gated => WasApproved(s)
      BY <1>1, <1>2 DEF ReviewInv, ReviewOf, Gated
   <2>2. ReviewOf(a)'
      BY <1>2, <1>3, <1>4, <2>1, ReviewOfDrain
   <2>3. \A b \in Actors : actor'[b] = actor[b] \/ ReviewOf(b)'
      BY <1>3, <2>2 DEF Moves
   <2> QED BY <1>1, <1>3, <1>4, <2>3, ReviewKept
<1>8. JoinInv'
   <2>1. ASSUME NEW r \in DOMAIN recs', NEW s \in Steps, Missing(r, s)'
         PROVE  /\ r \in DOMAIN recs /\ Missing(r, s) /\ Sources(r, s)' = Sources(r, s)
                /\ \A q \in Sources(r, s) : Carries(a, q, s) => Carries(a, q, s)'
      <3>1. r \in DOMAIN recs /\ Missing(r, s) /\ Sources(r, s)' = Sources(r, s)
         BY <1>1, <1>3, <2>1, MissingSame
      <3>2. ASSUME NEW q \in Sources(r, s), Carries(a, q, s)
            PROVE  Carries(a, q, s)'
         <4>1. q = Current(a) /\ Current(a)' = Current(a)
            BY <1>2, <3>2 DEF Carries, Current
         <4>2. s \in Range(NextOf[d])
            BY <1>1, <3>1, <4>1, SourcesLead DEF d
         <4>3. NextOf[d] # <<>>
            <5>1. Range(<<>>) = {}
               BY DEF Range
            <5> QED BY <4>2, <5>1
         <4> QED BY <1>2, <4>1, <4>2, <4>3 DEF Carries
      <3> QED BY <3>1, <3>2
   <2> QED BY <1>1, <1>2, <1>3, <2>1, JoinKept
<1> QED BY <1>2, <1>5, <1>6, <1>7, <1>8 DEF WorkflowInv

\* A step that is passed over has a dependency that is not complete: it is not
\* missing now, and whoever completes the dependency carries it then.
LEMMA EnqueueKept ==
    ASSUME WorkflowInv, NEW a \in Actors, EnqueueNextSteps(a)
    PROVE  WorkflowInv'
<1> DEFINE s0 == Head(actor[a].todo)
           n == NewRecord(s0, FALSE)
<1>1. /\ WorkflowTypeOK /\ WorkShape /\ RunsInv /\ ReviewInv /\ JoinInv
   BY DEF WorkflowInv
<1>2. /\ UNCHANGED <<setup, inst, tasks, retrying, controls, aborts>>
      /\ actor[a].pc = "enqueue" /\ s0 \in Steps
      /\ IF DependenciesCompleted(s0) THEN Appended(n) ELSE recs' = recs
      /\ Moves(a, actor'[a]) /\ actor'[a].batch = actor[a].batch
      /\ Range(actor[a].todo) = {s0} \cup Range(actor'[a].todo)
      /\ actor'[a].pc \in {"enqueue", "lease", "list"}
      /\ actor'[a].pc = "enqueue" <=> actor'[a].todo # <<>>
      /\ WorkflowTypeOK'
   BY <1>1, EnqueueIs
<1>3. n.step = s0 /\ n.state = "queued" /\ n.runs = 0
   BY DEF NewRecord
<1> HIDE DEF s0, n
<1>4. TasksGrow /\ RecordsGrow
   BY <1>1, <1>2, NothingNew
<1>5. /\ \A r \in DOMAIN recs : r \in DOMAIN recs' /\ recs'[r] = recs[r]
      /\ \A r \in DOMAIN recs' : r \notin DOMAIN recs => recs'[r] = n
   <2>1. CASE Appended(n)
      <3>1. /\ Len(recs) \in Nat /\ DOMAIN recs = 1..Len(recs) /\ DOMAIN recs' = 1..(Len(recs) + 1)
            /\ recs'[Len(recs) + 1] = n /\ \A q \in DOMAIN recs : recs'[q] = recs[q]
         BY <1>1, <2>1, TypesOf DEF Appended
      <3>2. \A r \in DOMAIN recs' : r \notin DOMAIN recs => r = Len(recs) + 1
         BY <3>1
      <3> QED BY <3>1, <3>2
   <2>2. CASE recs' = recs
      BY <2>2
   <2> QED BY <1>2, <2>1, <2>2
<1>6. WorkShape'
   BY <1>1, <1>2, ShapeKept
<1>7. RunsInv'
   <2>1. Lighter(a)
      BY <1>2 DEF Lighter
   <2>2. \A b \in Actors : Lighter(b)
      BY <1>2, <2>1, OthersLighter
   <2>3. \A r \in DOMAIN recs : /\ r \in DOMAIN recs' /\ recs'[r].runs = recs[r].runs
                                /\ recs'[r].state = "queued" => recs[r].state = "queued"
      BY <1>5
   <2>4. \A r \in DOMAIN recs' : r \notin DOMAIN recs => recs'[r].runs = 0
      BY <1>3, <1>5
   <2> QED BY <1>1, <2>2, <2>3, <2>4, RunsKept
<1>8. ReviewInv'
   <2>1. \A s \in Range(actor[a].todo) : s \in Gated => WasApproved(s)
      BY <1>1 DEF ReviewInv, ReviewOf
   <2>2. ReviewOf(a)'
      BY <1>2, <1>4, <2>1, ReviewOfDrain
   <2>3. \A b \in Actors : actor'[b] = actor[b] \/ ReviewOf(b)'
      BY <1>2, <2>2 DEF Moves
   <2>4. \A r \in DOMAIN recs' \ DOMAIN recs :
            recs'[r].manual \/ (recs'[r].step \in Gated => WasApproved(recs'[r].step))
      BY <1>2, <1>3, <1>5, <2>1
   <2> QED BY <1>1, <1>2, <1>4, <2>3, <2>4, ReviewKept
<1>9. JoinInv'
   <2>1. ASSUME NEW r \in DOMAIN recs', NEW s \in Steps, Missing(r, s)'
         PROVE  /\ r \in DOMAIN recs /\ Missing(r, s) /\ Sources(r, s)' = Sources(r, s)
                /\ \A q \in Sources(r, s) : Carries(a, q, s) => Carries(a, q, s)'
      <3>1. r \in DOMAIN recs /\ Missing(r, s) /\ Sources(r, s)' = Sources(r, s) /\ s # s0
         <4>1. CASE DependenciesCompleted(s0)
            <5>1. Appended(n)
               BY <1>2, <4>1
            <5> QED BY <1>1, <1>2, <1>3, <2>1, <5>1, MissingBackAdded
         <4>2. CASE ~ DependenciesCompleted(s0)
            <5>1. r \in DOMAIN recs /\ Missing(r, s) /\ Sources(r, s)' = Sources(r, s)
               BY <1>1, <1>2, <2>1, <4>2, MissingSame
            <5> QED BY <4>2, <5>1 DEF Missing
         <4> QED BY <4>1, <4>2
      <3>2. ASSUME NEW q \in Sources(r, s), Carries(a, q, s)
            PROVE  Carries(a, q, s)'
         <4>1. q = Current(a) /\ Current(a)' = Current(a) /\ actor[a].batch # {}
            BY <1>2, <3>2 DEF Carries, Current
         <4>2. s \in Range(actor[a].todo)
            BY <1>2, <3>2 DEF Carries
         <4>3. s \in Range(actor'[a].todo)
            BY <1>2, <3>1, <4>2
         <4>4. actor'[a].todo # <<>>
            <5>1. Range(<<>>) = {}
               BY DEF Range
            <5> QED BY <4>3, <5>1
         <4> QED BY <1>2, <4>1, <4>3, <4>4 DEF Carries
      <3> QED BY <3>1, <3>2
   <2> QED BY <1>1, <1>2, <2>1, JoinKept
<1> QED BY <1>2, <1>6, <1>7, <1>8, <1>9 DEF WorkflowInv

\* A decision that is written is one of the actions of its task.
LEMMA DecideKept ==
    ASSUME WorkflowInv, NEW a \in Actors, UpdateDecision(a)
    PROVE  WorkflowInv'
<1>1. /\ WorkflowTypeOK /\ WorkShape /\ RunsInv /\ ReviewInv /\ JoinInv
   BY DEF WorkflowInv
<1>2. actor[a].pc = "decide"
   BY DEF UpdateDecision
<1>3. actor[a].task \in DOMAIN tasks /\ actor[a].act # "none"
   BY <1>1, <1>2 DEF ReviewInv, ReviewOf
<1>4. /\ UNCHANGED <<setup, inst, recs, retrying, controls, aborts>>
      /\ Moves(a, actor'[a]) /\ actor'[a].pc = "apply"
      /\ actor'[a].batch = actor[a].batch /\ actor'[a].todo = actor[a].todo
      /\ actor'[a].task = actor[a].task /\ actor'[a].act = actor[a].act
      /\ TasksGrow /\ DOMAIN tasks' = DOMAIN tasks
      /\ actor[a].act \in tasks'[actor[a].task].acts
      /\ WorkflowTypeOK'
   BY <1>1, <1>3, DecideIs
<1>5. SameSteps /\ RecordsGrow
   BY <1>1, <1>4, NothingNew
<1>6. WorkShape'
   BY <1>1, <1>4, ShapeKept
<1>7. RunsInv'
   <2>1. Lighter(a)
      BY <1>4 DEF Lighter
   <2>2. \A b \in Actors : Lighter(b)
      BY <1>4, <2>1, OthersLighter
   <2> QED BY <1>1, <1>4, <2>2, RunsKept
<1>8. ReviewInv'
   <2>1. Gated' = Gated
      BY <1>4 DEF Gated, Reviews, Approved, Rejected, Steps, NextOf
   <2>2. \A s : WasApproved(s) => WasApproved(s)'
      BY <1>4, ApprovalsStay
   <2>3. \A s \in Range(actor'[a].todo) : s \in Gated' => WasApproved(s)'
      BY <1>1, <1>4, <2>1, <2>2 DEF ReviewInv, ReviewOf
   <2>4. ReviewOf(a)'
      BY <1>3, <1>4, <2>3 DEF ReviewOf
   <2>5. \A b \in Actors : actor'[b] = actor[b] \/ ReviewOf(b)'
      BY <1>4, <2>4 DEF Moves
   <2> QED BY <1>1, <1>4, <1>5, <2>5, ReviewKept
<1>9. JoinInv'
   BY <1>1, <1>2, <1>4, <1>5, JoinIdle
<1> QED BY <1>4, <1>6, <1>7, <1>8, <1>9 DEF WorkflowInv

\* A review that is finished was approved, or takes a route that is not behind an
\* approval; it is no source of a missing step, as nothing joins on a human.review.
LEMMA ApplyKept ==
    ASSUME WorkflowInv, NEW a \in Actors, ApplyDecision(a)
    PROVE  WorkflowInv'
<1> DEFINE h == actor[a].rec
           t == actor[a].task
           v == recs[h].step
<1>1. /\ WorkflowTypeOK /\ WorkShape /\ RunsInv /\ ReviewInv /\ JoinInv
   BY DEF WorkflowInv
<1>2. actor[a].pc = "finish"
   BY DEF ApplyDecision
<1>3. /\ t \in DOMAIN tasks /\ actor[a].act # "none" /\ h \in DOMAIN recs /\ v = tasks[t].step
      /\ actor[a].act = "approve" => "approve" \in tasks[t].acts
   BY <1>1, <1>2 DEF ReviewInv, ReviewOf
<1>4. v \in Reviews
   <2>1. tasks[t] \in ReviewTask
      BY <1>1, <1>3, TypesOf
   <2> QED BY <1>3, <2>1 DEF ReviewTask
<1>5. /\ UNCHANGED <<setup, inst, tasks, retrying, controls, aborts>>
      /\ Moves(a, actor'[a]) /\ actor'[a].batch = {}
      /\ \/ /\ Settled(h, "failed")
            /\ actor'[a].pc = "instance" /\ actor'[a].set # <<>> /\ actor'[a].todo = <<>>
         \/ /\ Settled(h, "completed")
            /\ actor'[a].pc = "enqueue" /\ actor'[a].todo # <<>>
            /\ Range(actor'[a].todo)
                  = {IF actor[a].act = "approve" THEN Approved[v] ELSE Rejected[v]}
      /\ WorkflowTypeOK'
   BY <1>1, <1>3, <1>4, ApplyIs
<1> HIDE DEF h, t, v
<1>6. /\ SameSteps /\ DOMAIN recs' = DOMAIN recs
      /\ \A q \in DOMAIN recs : recs'[q].runs = recs[q].runs
      /\ \A q \in DOMAIN recs : q # h => recs'[q].state = recs[q].state
      /\ recs'[h].state \in {"completed", "failed"}
   BY <1>5 DEF Settled, SameSteps
<1>7. TasksGrow /\ RecordsGrow
   BY <1>1, <1>5, <1>6, NothingNew
<1>8. WorkShape'
   BY <1>1, <1>5, ShapeKept
<1>9. RunsInv'
   <2>1. Lighter(a)
      BY <1>5 DEF Lighter
   <2>2. \A b \in Actors : Lighter(b)
      BY <1>5, <2>1, OthersLighter
   <2>3. \A r \in DOMAIN recs : /\ r \in DOMAIN recs' /\ recs'[r].runs = recs[r].runs
                                /\ recs'[r].state = "queued" => recs[r].state = "queued"
      BY <1>6
   <2> QED BY <1>1, <1>6, <2>2, <2>3, RunsKept
<1>10. ReviewInv'
   <2>1. Approved[v] \in Gated /\ actor[a].act = "approve" => WasApproved(Approved[v])
      BY <1>3 DEF WasApproved
   <2>2. Rejected[v] \notin Gated
      <3>1. v \in DOMAIN Rejected
         BY <1>1, <1>4, TypesOf, TheSetup DEF SetupOK, Reviews, Rejected
      <3>2. Rejected[v] \in Range(Rejected)
         BY <3>1 DEF Range
      <3> QED BY <3>2 DEF Gated
   <2>3. Range(<<>>) = {}
      BY DEF Range
   <2>4. \A s \in Range(actor'[a].todo) : s \in Gated => WasApproved(s)
      BY <1>5, <2>1, <2>2, <2>3
   <2>5. ReviewOf(a)'
      BY <1>5, <1>7, <2>4, ReviewOfDrain
   <2>6. \A b \in Actors : actor'[b] = actor[b] \/ ReviewOf(b)'
      BY <1>5, <2>5 DEF Moves
   <2> QED BY <1>1, <1>5, <1>6, <1>7, <2>6, ReviewKept
<1>11. JoinInv'
   <2>1. ASSUME NEW r \in DOMAIN recs', NEW s \in Steps, Missing(r, s)'
         PROVE  r \in DOMAIN recs /\ Missing(r, s) /\ Sources(r, s)' = Sources(r, s)
      <3>1. /\ NextOf' = NextOf /\ DependsOn' = DependsOn /\ Reviews' = Reviews
         BY <1>5 DEF NextOf, DependsOn, Reviews
      <3>2. \A q \in Sources(r, s)' : q \in DOMAIN recs /\ recs[q].step \notin Reviews
         <4>1. r \in DOMAIN recs /\ recs[r].step \notin Reviews
            BY <2>1, <1>6, <3>1 DEF Missing, SameSteps
         <4>2. ASSUME NEW d \in DependsOn[s]
               PROVE  Latest(d)' \in DOMAIN recs /\ recs[Latest(d)'].step \notin Reviews
            <5>1. Latest(d)' = Latest(d)
               BY <1>6, LatestSame
            <5>2. Latest(d)' # 0 /\ d \notin Reviews
               BY <2>1, <3>1 DEF Missing, DependenciesCompleted, Joined
            <5> QED BY <1>1, <5>1, <5>2, LatestIs
         <4>3. Sources(r, s)' = {r} \cup {Latest(d)' : d \in DependsOn[s]}
            BY <3>1 DEF Sources
         <4> QED BY <4>1, <4>2, <4>3
      <3>3. h \notin Sources(r, s)'
         BY <1>4, <3>2 DEF v
      <3>4. \A q \in Sources(r, s)' : recs'[q].state = "completed" => recs[q].state = "completed"
         BY <1>6, <3>2, <3>3
      <3> QED BY <1>1, <1>5, <1>6, <2>1, <3>4, MissingBack
   <2>2. \A q, s : ~ Carries(a, q, s)
      BY <1>2 DEF Carries
   <2> QED BY <1>1, <1>5, <2>1, <2>2, JoinKept
<1> QED BY <1>5, <1>8, <1>9, <1>10, <1>11 DEF WorkflowInv

\* A drain that stops lets go of its records; nothing is promised of joins after that.
LEMMA AbortKept ==
    ASSUME WorkflowInv, NEW a \in Actors, Abort(a)
    PROVE  WorkflowInv'
<1>1. /\ WorkflowTypeOK /\ WorkShape /\ RunsInv /\ ReviewInv /\ JoinInv
   BY DEF WorkflowInv
<1>2. OnlyActor(a) /\ aborts' # 0 /\ actor'[a] = NoWork /\ WorkflowTypeOK'
   BY <1>1, AbortIs
<1>3. setup' = setup /\ recs' = recs /\ tasks' = tasks /\ Moves(a, actor'[a])
   BY <1>2 DEF OnlyActor
<1>4. actor'[a].pc = "idle" /\ actor'[a].batch = {} /\ Range(actor'[a].todo) = {}
   BY <1>2, NoWorkIs
<1>5. TasksGrow /\ RecordsGrow
   BY <1>1, <1>3, NothingNew
<1>6. WorkShape'
   BY <1>1, <1>3, <1>4, ShapeKept
<1>7. RunsInv'
   <2>1. Lighter(a)
      BY <1>4 DEF Lighter
   <2>2. \A b \in Actors : Lighter(b)
      BY <1>3, <2>1, OthersLighter
   <2> QED BY <1>1, <1>3, <2>2, RunsKept
<1>8. ReviewInv'
   <2>1. ReviewOf(a)'
      BY <1>3, <1>4, <1>5, ReviewOfDrain
   <2>2. \A b \in Actors : actor'[b] = actor[b] \/ ReviewOf(b)'
      BY <1>3, <2>1 DEF Moves
   <2> QED BY <1>1, <1>3, <1>5, <2>2, ReviewKept
<1>9. JoinInv'
   BY <1>2 DEF JoinInv
<1> QED BY <1>2, <1>6, <1>7, <1>8, <1>9 DEF WorkflowInv

\* The operator moves no actor: what it queues is marked as its own, and a join it
\* disturbs by queueing a dependency again waits for that dependency.
LEMMA OperateKept ==
    ASSUME WorkflowInv, Operate
    PROVE  WorkflowInv'
<1>1. /\ WorkflowTypeOK /\ WorkShape /\ RunsInv /\ ReviewInv /\ JoinInv
   BY DEF WorkflowInv
<1>2. /\ UNCHANGED <<setup, tasks, actor, aborts>>
      /\ recs' = recs \/ \E s \in Steps : Appended(NewRecord(s, TRUE))
      /\ WorkflowTypeOK'
   BY <1>1, OperateIs
<1>3. TasksGrow /\ RecordsGrow
   BY <1>1, <1>2, NothingNew
<1>4. /\ \A r \in DOMAIN recs : r \in DOMAIN recs' /\ recs'[r] = recs[r]
      /\ \A r \in DOMAIN recs' : r \notin DOMAIN recs => recs'[r].manual /\ recs'[r].runs = 0
   <2>1. CASE recs' = recs
      BY <2>1
   <2>2. ASSUME NEW s \in Steps, Appended(NewRecord(s, TRUE))
         PROVE  /\ \A r \in DOMAIN recs : r \in DOMAIN recs' /\ recs'[r] = recs[r]
                /\ \A r \in DOMAIN recs' : r \notin DOMAIN recs => recs'[r].manual /\ recs'[r].runs = 0
      <3> DEFINE n == NewRecord(s, TRUE)
      <3>1. n.manual /\ n.runs = 0
         BY DEF NewRecord
      <3> HIDE DEF n
      <3>2. /\ Len(recs) \in Nat /\ DOMAIN recs = 1..Len(recs) /\ DOMAIN recs' = 1..(Len(recs) + 1)
            /\ recs'[Len(recs) + 1] = n /\ \A q \in DOMAIN recs : recs'[q] = recs[q]
         BY <1>1, <2>2, TypesOf DEF Appended, n
      <3>3. \A r \in DOMAIN recs' : r \notin DOMAIN recs => r = Len(recs) + 1
         BY <3>2
      <3> QED BY <3>1, <3>2, <3>3
   <2> QED BY <1>2, <2>1, <2>2
<1>5. WorkShape'
   BY <1>1, <1>2 DEF WorkShape
<1>6. RunsInv'
   <2>1. \A b \in Actors : Lighter(b)
      BY <1>2 DEF Lighter
   <2> QED BY <1>1, <1>4, <2>1, RunsKept
<1>7. ReviewInv'
   <2>1. \A b \in Actors : actor'[b] = actor[b]
      BY <1>2
   <2> QED BY <1>1, <1>2, <1>3, <1>4, <2>1, ReviewKept
<1>8. JoinInv'
   <2>1. ASSUME NEW r \in DOMAIN recs', NEW s \in Steps, Missing(r, s)'
         PROVE  r \in DOMAIN recs /\ Missing(r, s) /\ Sources(r, s)' = Sources(r, s)
      <3>1. CASE recs' = recs
         BY <1>1, <1>2, <2>1, <3>1, MissingSame
      <3>2. ASSUME NEW d \in Steps, Appended(NewRecord(d, TRUE))
            PROVE  r \in DOMAIN recs /\ Missing(r, s) /\ Sources(r, s)' = Sources(r, s)
         <4> DEFINE n == NewRecord(d, TRUE)
         <4>1. n.state = "queued" /\ Appended(n)
            BY <3>2 DEF NewRecord
         <4> HIDE DEF n
         <4> QED BY <1>1, <1>2, <2>1, <4>1, MissingBackAdded
      <3> QED BY <1>2, <3>1, <3>2
   <2>2. \A b \in Actors : \A h, s : Carries(b, h, s)' = Carries(b, h, s)
      BY <1>2 DEF Carries, Current
   <2>3. Steps' = Steps
      BY <1>2 DEF Steps
   <2>4. ASSUME aborts = 0, NEW r \in DOMAIN recs', NEW s \in Steps, Missing(r, s)'
         PROVE  \E b \in Actors : \E h \in Sources(r, s)' : Carries(b, h, s)'
      <3>1. r \in DOMAIN recs /\ Missing(r, s) /\ Sources(r, s)' = Sources(r, s)
         BY <2>1, <2>4
      <3>2. \E b \in Actors : \E h \in Sources(r, s) : Carries(b, h, s)
         BY <1>1, <2>4, <3>1 DEF JoinInv
      <3> QED BY <2>2, <3>1, <3>2
   <2> QED BY <1>2, <2>3, <2>4 DEF JoinInv
<1> QED BY <1>2, <1>5, <1>6, <1>7, <1>8 DEF WorkflowInv

-----------------------------------------------------------------------------
\* A new instance has one queued record, of the start step.
LEMMA InitInv ==
    ASSUME Init
    PROVE  WorkflowInv
<1> DEFINE n == NewRecord(setup.start, FALSE)
<1>1. WorkflowTypeOK /\ WorkShape
   BY ShapeInit
<1>2. /\ n.step = setup.start /\ n.state = "queued" /\ n.runs = 0
   BY DEF NewRecord
<1>3. recs = <<n>> /\ tasks = <<>> /\ \A a \in Actors : actor[a] = NoWork
   BY DEF Init
<1> HIDE DEF n
<1>4. DOMAIN recs = {1} /\ recs[1] = n /\ DOMAIN tasks = {}
   BY <1>3
<1>5. \A a \in Actors : actor[a].pc = "idle" /\ actor[a].batch = {} /\ Range(actor[a].todo) = {}
   BY <1>3, NoWorkIs
<1>6. RunsInv
   BY <1>2, <1>4, <1>5 DEF RunsInv
<1>7. ReviewInv
   <2>1. \A a \in Actors : ReviewOf(a)
      BY <1>5 DEF ReviewOf
   <2>2. ApprovedBeforePublish
      BY <1>2, <1>4 DEF ApprovedBeforePublish, Gated
   <2> QED BY <1>4, <2>1, <2>2 DEF ReviewInv
<1>8. JoinInv
   BY <1>2, <1>4 DEF JoinInv, Missing
<1> QED BY <1>1, <1>6, <1>7, <1>8 DEF WorkflowInv

LEMMA NextInv ==
    ASSUME WorkflowInv, [Next]_vars
    PROVE  WorkflowInv'
<1>1. ASSUME NEW a \in Actors, RunStep(a)
      PROVE  WorkflowInv'
   BY <1>1, LeaseKept, NothingDueKept, CheckKept, ExecuteKept, UpdateKept, NextStepsKept,
      EnqueueKept, ListKept, WriteKept DEF RunStep
<1>2. ASSUME NEW a \in Actors, ReviewStep(a)
      PROVE  WorkflowInv'
   BY <1>2, DecideKept, FindKept, ApplyKept DEF ReviewStep
<1>3. CASE UNCHANGED vars
   <2>1. /\ setup' = setup /\ inst' = inst /\ recs' = recs /\ tasks' = tasks /\ actor' = actor
         /\ retrying' = retrying /\ controls' = controls /\ aborts' = aborts
      BY <1>3 DEF vars
   <2>2. WorkflowTypeOK' /\ WorkShape'
      BY <2>1 DEF WorkflowInv, WorkflowTypeOK, WorkShape, Steps, Reviews, StepRecord, ReviewTask, Work
   <2>3. RunsInv'
      BY <2>1 DEF WorkflowInv, RunsInv, Current
   <2>4. ReviewInv'
      <3>1. \A b \in Actors : actor'[b] = actor[b]
         BY <2>1
      <3>2. TasksGrow /\ RecordsGrow
         BY <2>1, NothingNew DEF WorkflowInv
      <3> QED BY <2>1, <3>1, <3>2, ReviewKept DEF WorkflowInv
   <2>5. JoinInv'
      <3>1. /\ Steps' = Steps /\ NextOf' = NextOf /\ DependsOn' = DependsOn /\ Reviews' = Reviews
         BY <2>1 DEF Steps, NextOf, DependsOn, Reviews
      <3>2. \A s : Latest(s)' = Latest(s)
         BY <2>1 DEF Latest
      <3>3. \A r, s : Missing(r, s)' = Missing(r, s)
         BY <2>1, <3>1, <3>2 DEF Missing, Joined, DependenciesCompleted
      <3>4. \A r, s : Sources(r, s)' = Sources(r, s)
         BY <3>1, <3>2 DEF Sources
      <3>5. \A b, h, s : Carries(b, h, s)' = Carries(b, h, s)
         BY <2>1 DEF Carries, Current
      <3>6. ASSUME aborts = 0, NEW r \in DOMAIN recs, NEW s \in Steps, Missing(r, s)'
            PROVE  \E b \in Actors : \E h \in Sources(r, s)' : Carries(b, h, s)'
         <4>1. PICK b \in Actors, h \in Sources(r, s) : Carries(b, h, s)
            BY <3>3, <3>6 DEF WorkflowInv, JoinInv
         <4> QED BY <3>4, <3>5, <4>1
      <3> QED BY <2>1, <3>1, <3>6 DEF JoinInv
   <2> QED BY <2>2, <2>3, <2>4, <2>5 DEF WorkflowInv
<1> QED BY <1>1, <1>2, <1>3, ActKept, AbortKept, OperateKept DEF Next

LEMMA WorkflowInvariant == Spec => []WorkflowInv
BY InitInv, NextInv, PTL DEF Spec

-----------------------------------------------------------------------------
\* Types: every record, task and actor is one the definition allows, a batch
\* only holds records that exist, and the bounds hold.
THEOREM WorkflowTypeCorrect == Spec => []WorkflowTypeOK
BY WorkflowInvariant, PTL DEF WorkflowInv

\* Leases: leaseQueuedSteps hands a queued record to one drain, and no record is
\* queued again, so that a step record is executed once at most, however many
\* runners and reviewers drain the instance and wherever they stop.
THEOREM RunsOnce == Spec => []StepRunsOnce
<1>1. RunsInv => StepRunsOnce
   BY DEF RunsInv, StepRunsOnce
<1> QED BY <1>1, WorkflowInvariant, PTL DEF WorkflowInv

\* Review gate: applyHumanReviewDecision enqueues the approved route of an approval
\* only, so that a step behind approvals is queued after one of them, whoever else
\* decides, drains or controls the instance meanwhile.
THEOREM ApprovedFirst == Spec => []ApprovedBeforePublish
<1>1. ReviewInv => ApprovedBeforePublish
   BY DEF ReviewInv
<1> QED BY <1>1, WorkflowInvariant, PTL DEF WorkflowInv

\* Joins: the drain that completes the last of the branches enqueues the step that
\* depends on all of them, so that no join is lost while no drain stops half way.
THEOREM NoneLost == Spec => []NoStepLost
<1>1. WorkflowInv => NoStepLost
   <2> SUFFICES ASSUME WorkflowInv, Quiescent, aborts = 0, NEW r \in DOMAIN recs,
                       recs[r].state = "completed", recs[r].step \notin Reviews,
                       NEW s \in Range(NextOf[recs[r].step]),
                       Joined(s), DependenciesCompleted(s)
                PROVE  Latest(s) # 0
      BY DEF NoStepLost
   <2>1. s \in Steps
      <3>1. recs[r] \in StepRecord /\ setup \in Setups
         BY TypesOf DEF WorkflowInv
      <3>2. recs[r].step \in Steps
         BY <3>1 DEF StepRecord
      <3> QED BY <3>1, <3>2, NextAreSteps
   <2>2. \A a \in Actors : \A h : ~ Carries(a, h, s)
      BY DEF Quiescent, Carries
   <2>3. ~ Missing(r, s)
      BY <2>1, <2>2 DEF WorkflowInv, JoinInv
   <2> QED BY <2>3 DEF Missing
<1> QED BY <1>1, WorkflowInvariant, PTL
=============================================================================
