----------------------- MODULE RuntimeSchedulerProofs -----------------------
(***************************************************************************)
(* Proofs about the runtime scheduler, for any number of dispatchers and   *)
(* callers and any set of schedules.  What the fence is for is SchedInv:   *)
(* who has read the row, or is about to commit, holds the fence, so the    *)
(* status it read and the times that fired are still the ones of the row.  *)
(***************************************************************************)
EXTENDS RuntimeScheduler, TLAPS, WellFoundedInduction

\* Min of FiniteSetsExt is the smallest element of a set of numbers.
LEMMA SmallestOf ==
    ASSUME NEW S \in SUBSET Nat, S # {}
    PROVE  Min(S) \in S /\ \A x \in S : Min(S) <= x
<1> DEFINE R == {ss \in Nat \X Nat : ss[1] < ss[2]}
<1>1. IsWellFoundedOn(R, Nat)
   BY NatLessThanWellFounded DEF OpToRel
<1>2. \E x \in S : \A y \in S : ~ (<<y, x>> \in R)
   <2> HIDE DEF R
   <2> QED BY <1>1, WFMin, Zenon
<1>3. PICK x \in S : \A y \in S : ~ (<<y, x>> \in R)
   BY <1>2
<1>4. ASSUME NEW y \in S PROVE x <= y
   <2>1. x \in Nat /\ y \in Nat
      BY <1>3
   <2>2. ~ (<<y, x>> \in R)
      BY <1>3
   <2>3. <<y, x>> \in Nat \X Nat /\ <<y, x>>[1] = y /\ <<y, x>>[2] = x
      BY <2>1
   <2>4. ~ (y < x)
      BY <2>2, <2>3
   <2> HIDE DEF R
   <2> QED BY <2>1, <2>4
<1> QED BY <1>3, <1>4 DEF Min

\* computeNextRun: the time of a recurring schedule is later than the one it was
\* asked for, and a once schedule has always a time.
LEMMA NextRunIsLater ==
    ASSUME NEW s \in Schedules, NEW t \in Nat
    PROVE  /\ \A next \in NextRun(s, t) : next \in Nat /\ (s.type # "once" => t < next)
           /\ s.type = "once" => NextRun(s, t) # {}
<1>1. s \in [type : Types, expr : SUBSET (1..(MaxTime + Horizon))] /\ s.expr # {}
   BY SchedulerAssumption DEF SchedulerAssumption, Types
<1>2. s.type \in Types /\ s.expr \in SUBSET (1..(MaxTime + Horizon))
   BY <1>1
<1>3. \A x \in s.expr : x \in Nat /\ 1 <= x
   BY <1>2, SchedulerAssumption DEF SchedulerAssumption
<1>4. CASE s.type = "once"
   BY <1>1, <1>3, <1>4 DEF NextRun
<1>5. CASE s.type = "interval"
   <2>1. NextRun(s, t) = {t + p : p \in s.expr}
      BY <1>5 DEF NextRun
   <2> QED BY <1>3, <1>5, <2>1
<1>6. CASE s.type = "cron"
   <2> DEFINE found == {x \in s.expr : t < x /\ x <= t + Horizon}
   <2>1. NextRun(s, t) = IF found = {} THEN {} ELSE {Min(found)}
      BY <1>6 DEF NextRun
   <2>2. found \in SUBSET Nat
      BY <1>3
   <2>3. ASSUME found # {} PROVE Min(found) \in found
      <3> HIDE DEF found
      <3> QED BY <2>2, <2>3, SmallestOf
   <2>4. \A next \in NextRun(s, t) : next \in found
      <3> HIDE DEF found
      <3> QED BY <2>1, <2>3
   <2> QED BY <1>3, <1>6, <2>4
<1> QED BY <1>2, <1>4, <1>5, <1>6 DEF Types

-----------------------------------------------------------------------------
Recurring == {r \in runs : r.source \in {"interval", "cron"}}

\* WithJobFence: who works on the job in a session holds the lock, and who holds
\* it has a session.
Fenced ==
    \A a \in Actors :
        /\ actor[a].pc \in {"read", "commit"} => fence = a
        /\ actor[a].pc \in {"idle", "wait"} => fence # a

Created ==
    /\ job.status = "none" =>
          job.rev = 0 /\ runs = {} /\ \A a \in Actors : actor[a].pc = "idle"
    /\ job.status # "none" => job.rev # 0

\* The revision of the row passes the one of every run made from it.
Numbered == \A r \in runs : r.rev < job.rev

OwnRevision ==
    \A a \in Actors : actor[a].pc = "publish" =>
        /\ actor[a].seen < job.rev
        /\ \A b \in Actors : b # a /\ actor[b].pc = "publish" => actor[b].seen # actor[a].seen

Past == (\A a \in Actors : actor[a].at <= now) /\ \A r \in Recurring : r.slot <= now

\* What a call read under the fence holds until it commits.
ReadUnderFence ==
    \A a \in Actors : actor[a].pc = "commit" /\ actor[a].op \notin {"dispatch", "delete"} =>
        /\ job.status \notin {"completed", "deleted"}
        /\ \A r \in Recurring : r.slot <= actor[a].at

\* The next time of a recurring schedule is later than the times that fired.
NextIsLater ==
    \A r \in Recurring :
        r.hasNext /\ job.schedule.type # "once" /\ job.next # 0 => r.slot < job.next

OnceCompletes == \A r \in runs : r.type = "once" => job.status \in {"completed", "deleted"}

SchedInv ==
    /\ SchedulerTypeOK /\ Fenced /\ Created /\ Numbered /\ OwnRevision /\ Past
    /\ ReadUnderFence /\ NextIsLater /\ OnceCompletes
    /\ SlotFiredOnce /\ OnceRunsOnce /\ PublicationIsFenced

ActorState == [op : Ops \cup {"none"}, at : 0..MaxTime, seen : 0..MaxRevision,
               pc : {"idle", "wait", "read", "commit", "publish", "release"}]

LEMMA SchedInit == Init => SchedInv
<1> SUFFICES ASSUME Init PROVE SchedInv
   OBVIOUS
<1>1. SchedulerTypeOK
   BY SchedulerAssumption DEF Init, SchedulerTypeOK, SchedulerAssumption, Jobs, Runs, NoOp, Ops, Types
<1>2. \A a \in Actors : actor[a] = NoOp /\ fence # a
   BY SchedulerAssumption DEF Init, SchedulerAssumption
<1>3. runs = {} /\ job.rev = 0 /\ job.status = "none" /\ now = 0
   BY DEF Init
<1> QED
   BY <1>1, <1>2, <1>3 DEF SchedInv, Fenced, Created, Numbered, OwnRevision, Past, ReadUnderFence,
      NextIsLater, OnceCompletes, SlotFiredOnce, OnceRunsOnce, PublicationIsFenced, Recurring, NoOp

-----------------------------------------------------------------------------
LEMMA ActorMoves ==
    ASSUME SchedulerTypeOK, NEW a \in Actors, NEW m \in ActorState,
           actor' = [actor EXCEPT ![a] = m]
    PROVE  /\ actor' \in [Actors -> ActorState] /\ actor'[a] = m
           /\ \A b \in Actors : b # a => actor'[b] = actor[b]
BY DEF SchedulerTypeOK, ActorState

\* Move(a, pc) as a change of the whole entry.
LEMMA MoveIs ==
    ASSUME SchedulerTypeOK, NEW a \in Actors,
           NEW pc \in {"idle", "wait", "read", "commit", "publish", "release"}, Move(a, pc)
    PROVE  \E m \in ActorState :
              /\ actor' = [actor EXCEPT ![a] = m]
              /\ m.pc = pc /\ m.op = actor[a].op /\ m.at = actor[a].at /\ m.seen = actor[a].seen
<1> DEFINE m == [actor[a] EXCEPT !.pc = pc]
<1>1. actor[a] \in ActorState
   BY DEF SchedulerTypeOK, ActorState
<1>2. m \in ActorState /\ m.pc = pc /\ m.op = actor[a].op /\ m.at = actor[a].at /\ m.seen = actor[a].seen
   BY <1>1 DEF ActorState
<1>3. actor' = [actor EXCEPT ![a] = m]
   BY DEF Move, SchedulerTypeOK
<1> HIDE DEF m
<1> QED BY <1>2, <1>3

\* A step of one actor that touches neither the row nor the runs, and that
\* leaves the actor outside the session, or publishing as it was.
LEMMA ActorStepKeepsInv ==
    ASSUME SchedInv, NEW a \in Actors, NEW m \in ActorState,
           actor' = [actor EXCEPT ![a] = m],
           m.at <= now,
           m.pc \in {"idle", "wait", "release"} \/ (actor[a].pc = "publish" /\ m = actor[a]),
           m.pc # "idle" => job.status # "none",
           m.pc \in {"idle", "wait"} => fence' # a,
           fence' = fence \/ (fence = a /\ fence' = "none"),
           UNCHANGED <<job, runs, now>>, calls' \in 0..MaxCalls, faults' \in 0..MaxFaults
    PROVE  SchedInv'
<1>1. SchedulerTypeOK
   BY DEF SchedInv
<1>2. /\ actor' \in [Actors -> ActorState] /\ actor'[a] = m
      /\ \A b \in Actors : b # a => actor'[b] = actor[b]
   BY <1>1, ActorMoves
<1>3. a # "none" /\ \A b \in Actors : b # "none"
   BY SchedulerAssumption DEF SchedulerAssumption
<1>4. SchedulerTypeOK'
   BY <1>1, <1>2 DEF SchedulerTypeOK, ActorState
<1>5. Fenced'
   BY <1>2, <1>3 DEF SchedInv, Fenced
<1>6. (Created /\ Numbered /\ Past)'
   BY <1>2 DEF SchedInv, Created, Numbered, Past, Recurring
<1>7. OwnRevision'
   BY <1>2 DEF SchedInv, OwnRevision
<1>8. ReadUnderFence'
   BY <1>2 DEF SchedInv, ReadUnderFence, Recurring
<1>9. (NextIsLater /\ OnceCompletes /\ SlotFiredOnce /\ OnceRunsOnce)'
   BY DEF SchedInv, NextIsLater, OnceCompletes, SlotFiredOnce, OnceRunsOnce, Recurring
<1>10. PublicationIsFenced'
   BY <1>2, <1>3 DEF SchedInv, PublicationIsFenced
<1> QED BY <1>4, <1>5, <1>6, <1>7, <1>8, <1>9, <1>10 DEF SchedInv

LEMMA QuietMoveKeepsInv ==
    ASSUME SchedInv, NEW a \in Actors, actor[a].pc # "idle", Move(a, "release"),
           fence' = fence \/ (fence = a /\ fence' = "none"),
           UNCHANGED <<job, runs, now>>, calls' \in 0..MaxCalls, faults' \in 0..MaxFaults
    PROVE  SchedInv'
<1>1. SchedulerTypeOK
   BY DEF SchedInv
<1>2. PICK m \in ActorState :
         /\ actor' = [actor EXCEPT ![a] = m]
         /\ m.pc = "release" /\ m.at = actor[a].at
   BY <1>1, MoveIs
<1>3. m.at <= now /\ job.status # "none"
   BY <1>2 DEF SchedInv, Past, Created
<1> QED BY <1>2, <1>3, ActorStepKeepsInv

LEMMA ForgetKeepsInv ==
    ASSUME SchedInv, NEW a \in Actors, actor' = [actor EXCEPT ![a] = NoOp],
           fence' = IF fence = a THEN "none" ELSE fence,
           UNCHANGED <<job, runs, now>>, calls' \in 0..MaxCalls, faults' \in 0..MaxFaults
    PROVE  SchedInv'
<1>1. NoOp \in ActorState /\ NoOp.pc = "idle" /\ NoOp.at <= now
   BY SchedulerAssumption DEF NoOp, ActorState, SchedInv, SchedulerTypeOK, SchedulerAssumption
<1>2. fence' # a /\ (fence' = fence \/ (fence = a /\ fence' = "none"))
   BY SchedulerAssumption DEF SchedulerAssumption
<1> QED BY <1>1, <1>2, ActorStepKeepsInv

LEMMA ListDueKeepsInv ==
    ASSUME SchedInv, NEW d \in Dispatchers, ListDue(d)
    PROVE  SchedInv'
<1> DEFINE m == [op |-> "dispatch", pc |-> "wait", at |-> now, seen |-> 0]
<1>1. d \in Actors
   BY DEF Actors
<1>2. m \in ActorState /\ m.at <= now /\ m.pc = "wait"
   BY SchedulerAssumption DEF ActorState, Ops, SchedInv, SchedulerTypeOK, SchedulerAssumption
<1>3. actor' = [actor EXCEPT ![d] = m] /\ job.status # "none" /\ fence' # d
   BY <1>1 DEF ListDue, SchedInv, Fenced
<1>4. UNCHANGED <<job, runs, now, fence>> /\ calls' \in 0..MaxCalls /\ faults' \in 0..MaxFaults
   BY DEF ListDue, SchedInv, SchedulerTypeOK
<1> HIDE DEF m
<1> QED BY <1>1, <1>2, <1>3, <1>4, ActorStepKeepsInv

LEMMA CallKeepsInv ==
    ASSUME SchedInv, NEW c \in Callers, NEW op \in Ops \ {"dispatch"}, NEW p \in 0..MaxRevision,
           Call(c, op, p)
    PROVE  SchedInv'
<1> DEFINE m == [op |-> op, pc |-> "wait", at |-> 0, seen |-> p]
<1>1. c \in Actors
   BY DEF Actors
<1>2. m \in ActorState /\ m.at <= now /\ m.pc = "wait"
   BY SchedulerAssumption DEF ActorState, Ops, SchedInv, SchedulerTypeOK, SchedulerAssumption
<1>3. actor' = [actor EXCEPT ![c] = m] /\ job.status # "none" /\ fence' # c
   BY <1>1 DEF Call, SchedInv, Fenced
<1>4. UNCHANGED <<job, runs, now, fence>> /\ calls' \in 0..MaxCalls /\ faults' \in 0..MaxFaults
   BY SchedulerAssumption DEF Call, SchedInv, SchedulerTypeOK, SchedulerAssumption
<1> HIDE DEF m
<1> QED BY <1>1, <1>2, <1>3, <1>4, ActorStepKeepsInv

LEMMA SessionLostKeepsInv ==
    ASSUME SchedInv, NEW a \in Actors, SessionLost(a)
    PROVE  SchedInv'
<1>1. /\ UNCHANGED <<job, runs, now>> /\ calls' \in 0..MaxCalls /\ faults' \in 0..MaxFaults
      /\ fence = a /\ fence' = "none"
   BY SchedulerAssumption DEF SessionLost, SchedInv, SchedulerTypeOK, SchedulerAssumption
<1>2. SchedulerTypeOK /\ Created /\ actor[a].at <= now
   BY DEF SchedInv, Past
<1>3. CASE actor[a].pc = "publish"
   <2>1. actor[a] \in ActorState
      BY <1>2 DEF SchedulerTypeOK, ActorState
   <2>2. actor' = [actor EXCEPT ![a].pc = "publish"]
      BY <1>3 DEF SessionLost, Move
   <2>3. [actor[a] EXCEPT !.pc = "publish"] = actor[a]
      BY <1>3, <2>1 DEF ActorState
   <2>4. actor' = [actor EXCEPT ![a] = actor[a]]
      BY <2>2, <2>3
   <2>5. job.status # "none"
      BY <1>2, <1>3 DEF Created
   <2> QED BY <1>1, <1>2, <1>3, <2>1, <2>4, <2>5, ActorStepKeepsInv
<1>4. CASE actor[a].pc # "publish"
   <2>1. Move(a, "release") /\ actor[a].pc # "idle"
      BY <1>1, <1>4 DEF SessionLost, SchedInv, Fenced
   <2> QED BY <1>1, <1>4, <2>1, QuietMoveKeepsInv
<1> QED BY <1>3, <1>4

-----------------------------------------------------------------------------
\* The lock of a session that has begun.
LEMMA OneSession ==
    ASSUME SchedInv, NEW a \in Actors, actor[a].pc \in {"read", "commit"}
    PROVE  fence = a /\ \A b \in Actors : b # a => actor[b].pc \notin {"read", "commit"}
BY DEF SchedInv, Fenced

LEMMA TakeFenceKeepsInv ==
    ASSUME SchedInv, NEW a \in Actors, TakeFence(a)
    PROVE  SchedInv'
<1> DEFINE pc == IF actor[a].op \in {"dispatch", "delete"} THEN "commit" ELSE "read"
<1>1. SchedulerTypeOK
   BY DEF SchedInv
<1>2. pc \in {"read", "commit"} /\ (pc = "commit" => actor[a].op \in {"dispatch", "delete"})
   OBVIOUS
<1>3. Move(a, pc)
   BY DEF TakeFence
<1> HIDE DEF pc
<1>4. PICK m \in ActorState :
         /\ actor' = [actor EXCEPT ![a] = m]
         /\ m.pc = pc /\ m.op = actor[a].op /\ m.at = actor[a].at /\ m.seen = actor[a].seen
   BY <1>1, <1>2, <1>3, MoveIs
<1>5. /\ actor' \in [Actors -> ActorState] /\ actor'[a] = m
      /\ \A b \in Actors : b # a => actor'[b] = actor[b]
   BY <1>1, <1>4, ActorMoves
<1>6. /\ fence = "none" /\ fence' = a /\ UNCHANGED <<job, runs, now, calls, faults>>
      /\ actor[a].pc = "wait"
   BY DEF TakeFence
<1>7. \A b \in Actors : b # "none"
   BY SchedulerAssumption DEF SchedulerAssumption
<1>8. SchedulerTypeOK'
   BY <1>1, <1>5, <1>6 DEF SchedulerTypeOK, ActorState
<1>9. Fenced'
   BY <1>2, <1>4, <1>5, <1>6, <1>7 DEF SchedInv, Fenced
<1>10. (Created /\ Numbered /\ Past)'
   BY <1>4, <1>5, <1>6 DEF SchedInv, Created, Numbered, Past, Recurring
<1>11. OwnRevision'
   BY <1>2, <1>4, <1>5, <1>6 DEF SchedInv, OwnRevision
<1>12. ReadUnderFence'
   BY <1>2, <1>4, <1>5, <1>6 DEF SchedInv, ReadUnderFence, Recurring
<1>13. (NextIsLater /\ OnceCompletes /\ SlotFiredOnce /\ OnceRunsOnce)'
   BY <1>6 DEF SchedInv, NextIsLater, OnceCompletes, SlotFiredOnce, OnceRunsOnce, Recurring
<1>14. PublicationIsFenced'
   BY <1>2, <1>4, <1>5, <1>6 DEF SchedInv, PublicationIsFenced
<1> QED BY <1>8, <1>9, <1>10, <1>11, <1>12, <1>13, <1>14 DEF SchedInv

LEMMA ReadJobKeepsInv ==
    ASSUME SchedInv, NEW a \in Actors, ReadJob(a)
    PROVE  SchedInv'
<1> DEFINE pc == IF Mutable(actor[a].op) THEN "commit" ELSE "release"
           m == [actor[a] EXCEPT !.pc = pc, !.seen = job.rev, !.at = now]
<1>1. SchedulerTypeOK
   BY DEF SchedInv
<1>2. /\ pc \in {"commit", "release"}
      /\ pc = "commit" => job.status \notin {"completed", "deleted"}
   BY DEF Mutable
<1>3. actor' = [actor EXCEPT ![a].pc = pc, ![a].seen = job.rev, ![a].at = now]
   BY DEF ReadJob
<1> HIDE DEF pc
<1>4. actor[a] \in ActorState /\ job.rev \in 0..MaxRevision /\ now \in 0..MaxTime
   BY <1>1 DEF SchedulerTypeOK, ActorState, Jobs
<1>5. m \in ActorState /\ m.pc = pc /\ m.at = now
   BY <1>2, <1>4 DEF ActorState
<1>6. actor' = [actor EXCEPT ![a] = m]
   BY <1>1, <1>3 DEF SchedulerTypeOK
<1> HIDE DEF m
<1>7. /\ actor' \in [Actors -> ActorState] /\ actor'[a] = m
      /\ \A b \in Actors : b # a => actor'[b] = actor[b]
   BY <1>1, <1>5, <1>6, ActorMoves
<1>8. actor[a].pc = "read" /\ UNCHANGED <<job, runs, fence, now, calls, faults>>
   BY DEF ReadJob
<1>9. fence = a /\ \A b \in Actors : b # a => actor[b].pc \notin {"read", "commit"}
   BY <1>8, OneSession
<1>10. SchedulerTypeOK'
   BY <1>1, <1>7, <1>8 DEF SchedulerTypeOK, ActorState
<1>11. Fenced'
   BY <1>2, <1>5, <1>7, <1>8, <1>9 DEF SchedInv, Fenced
<1>12. (Created /\ Numbered)'
   BY <1>7, <1>8 DEF SchedInv, Created, Numbered
<1>13. Past'
   BY <1>4, <1>5, <1>7, <1>8 DEF SchedInv, Past, Recurring
<1>14. OwnRevision'
   BY <1>2, <1>5, <1>7, <1>8 DEF SchedInv, OwnRevision
<1>15. ReadUnderFence'
   BY <1>2, <1>5, <1>7, <1>8, <1>9 DEF SchedInv, ReadUnderFence, Past, Recurring
<1>16. (NextIsLater /\ OnceCompletes /\ SlotFiredOnce /\ OnceRunsOnce)'
   BY <1>8 DEF SchedInv, NextIsLater, OnceCompletes, SlotFiredOnce, OnceRunsOnce, Recurring
<1>17. PublicationIsFenced'
   BY <1>2, <1>5, <1>7, <1>8 DEF SchedInv, PublicationIsFenced
<1> QED BY <1>10, <1>11, <1>12, <1>13, <1>14, <1>15, <1>16, <1>17 DEF SchedInv

\* A transaction that changes the row and makes no run.
LEMMA RowChangeKeepsInv ==
    ASSUME SchedInv, NEW a \in Actors, actor[a].pc = "commit", Move(a, "release"),
           job' \in Jobs, job'.rev = job.rev + 1, job'.status # "none",
           job'.status \in {"completed", "deleted"} => job'.next = 0,
           job.status \in {"completed", "deleted"} => job'.status \in {"completed", "deleted"},
           \A r \in Recurring :
               r.hasNext /\ job'.schedule.type # "once" /\ job'.next # 0 => r.slot < job'.next,
           UNCHANGED <<runs, fence, now, calls, faults>>
    PROVE  SchedInv'
<1>1. SchedulerTypeOK
   BY DEF SchedInv
<1>2. PICK m \in ActorState :
         /\ actor' = [actor EXCEPT ![a] = m]
         /\ m.pc = "release" /\ m.at = actor[a].at
   BY <1>1, MoveIs
<1>3. /\ actor' \in [Actors -> ActorState] /\ actor'[a] = m
      /\ \A b \in Actors : b # a => actor'[b] = actor[b]
   BY <1>1, <1>2, ActorMoves
<1>4. fence = a /\ \A b \in Actors : b # a => actor[b].pc \notin {"read", "commit"}
   BY OneSession
<1>5. job.rev \in Nat /\ \A r \in runs : r.rev \in Nat
   BY <1>1, SchedulerAssumption DEF SchedulerTypeOK, Jobs, Runs, SchedulerAssumption
<1>6. \A b \in Actors : actor[b].seen \in Nat
   BY <1>1, SchedulerAssumption DEF SchedulerTypeOK, SchedulerAssumption
<1>7. SchedulerTypeOK'
   BY <1>1, <1>3 DEF SchedulerTypeOK, ActorState
<1>8. Fenced'
   BY <1>2, <1>3, <1>4 DEF SchedInv, Fenced
<1>9. (Created /\ Numbered)'
   BY <1>3, <1>5 DEF SchedInv, Created, Numbered
<1>10. Past'
   BY <1>2, <1>3 DEF SchedInv, Past, Recurring
<1>11. OwnRevision'
   BY <1>2, <1>3, <1>5, <1>6 DEF SchedInv, OwnRevision
<1>12. ReadUnderFence'
   BY <1>2, <1>3, <1>4 DEF SchedInv, ReadUnderFence
<1>13. NextIsLater'
   BY DEF NextIsLater, Recurring
<1>14. (OnceCompletes /\ SlotFiredOnce /\ OnceRunsOnce)'
   BY DEF SchedInv, OnceCompletes, SlotFiredOnce, OnceRunsOnce
<1>15. PublicationIsFenced'
   BY <1>2, <1>3, <1>4 DEF PublicationIsFenced
<1> QED BY <1>7, <1>8, <1>9, <1>10, <1>11, <1>12, <1>13, <1>14, <1>15 DEF SchedInv

\* The row after a transaction.
LEMMA RowWith ==
    ASSUME job \in Jobs, NEW st \in {"none", "active", "paused", "completed", "deleted"},
           NEW next \in Nat, NEW rev \in 0..MaxRevision,
           job' = [job EXCEPT !.status = st, !.next = next, !.rev = rev]
    PROVE  /\ job' \in Jobs /\ job'.status = st /\ job'.next = next /\ job'.rev = rev
           /\ job'.schedule = job.schedule
<1> DEFINE Statuses == {"none", "active", "paused", "completed", "deleted"}
           Revisions == 0..MaxRevision
<1>1. Jobs = [status : Statuses, rev : Revisions, next : Nat, schedule : Schedules]
   BY DEF Jobs
<1>2. st \in Statuses /\ rev \in Revisions
   OBVIOUS
<1> HIDE DEF Statuses, Revisions
<1> QED BY <1>1, <1>2

LEMMA RowWithSchedule ==
    ASSUME job \in Jobs, NEW s \in Schedules, NEW next \in Nat, NEW rev \in 0..MaxRevision,
           job' = [job EXCEPT !.schedule = s, !.next = next, !.rev = rev]
    PROVE  /\ job' \in Jobs /\ job'.status = job.status /\ job'.next = next /\ job'.rev = rev
           /\ job'.schedule = s
<1> DEFINE Revisions == 0..MaxRevision
<1>1. Jobs = [status : {"none", "active", "paused", "completed", "deleted"},
              rev : Revisions, next : Nat, schedule : Schedules]
   BY DEF Jobs
<1>2. rev \in Revisions
   OBVIOUS
<1> HIDE DEF Revisions
<1> QED BY <1>1, <1>2

LEMMA NextRevision ==
    ASSUME job \in Jobs, job.rev < MaxRevision
    PROVE  job.rev + 1 \in 0..MaxRevision
BY SchedulerAssumption DEF Jobs, SchedulerAssumption

LEMMA PauseJobKeepsInv ==
    ASSUME SchedInv, NEW a \in Actors, PauseJob(a)
    PROVE  SchedInv'
<1>1. /\ actor[a].pc = "commit" /\ actor[a].op = "pause" /\ job.rev < MaxRevision
      /\ Move(a, "release") /\ UNCHANGED <<runs, fence, now, calls, faults>>
      /\ job' = [job EXCEPT !.status = "paused", !.next = job.next, !.rev = job.rev + 1]
   BY DEF PauseJob, Busy, Commit
<1>2. job.status \notin {"completed", "deleted"} /\ job \in Jobs
   BY <1>1 DEF SchedInv, ReadUnderFence, SchedulerTypeOK
<1>3. /\ job' \in Jobs /\ job'.status = "paused" /\ job'.next = job.next
      /\ job'.rev = job.rev + 1 /\ job'.schedule = job.schedule
   <2>1. job.next \in Nat
      BY <1>2 DEF Jobs
   <2>2. job.rev + 1 \in 0..MaxRevision
      BY <1>1, <1>2, NextRevision
   <2> QED BY <1>1, <1>2, <2>1, <2>2, RowWith
<1>4. \A r \in Recurring :
         r.hasNext /\ job'.schedule.type # "once" /\ job'.next # 0 => r.slot < job'.next
   BY <1>3 DEF SchedInv, NextIsLater
<1> QED BY <1>1, <1>2, <1>3, <1>4, RowChangeKeepsInv

\* A next time that was computed from the time the fence was taken at.
LEMMA LaterThanFired ==
    ASSUME SchedInv, NEW a \in Actors, actor[a].pc = "commit",
           actor[a].op \notin {"dispatch", "delete"},
           NEW s \in Schedules, NEW next \in NextRun(s, actor[a].at)
    PROVE  /\ next \in Nat
           /\ s.type # "once" => actor[a].at < next /\ \A r \in Recurring : r.slot < next
<1>1. actor[a].at \in Nat
   BY SchedulerAssumption DEF SchedInv, SchedulerTypeOK, SchedulerAssumption
<1>2. next \in Nat /\ (s.type # "once" => actor[a].at < next)
   BY <1>1, NextRunIsLater
<1>3. \A r \in Recurring : r.slot \in Nat /\ r.slot <= actor[a].at
   BY DEF SchedInv, ReadUnderFence, SchedulerTypeOK, Runs, Recurring
<1> QED BY <1>1, <1>2, <1>3

LEMMA ResumeJobKeepsInv ==
    ASSUME SchedInv, NEW a \in Actors, ResumeJob(a)
    PROVE  SchedInv'
<1>1. PICK next \in NextRun(job.schedule, actor[a].at) :
         job' = [job EXCEPT !.status = "active", !.next = next, !.rev = job.rev + 1]
   BY DEF ResumeJob, Commit
<1>2. /\ actor[a].pc = "commit" /\ actor[a].op = "resume" /\ job.rev < MaxRevision
      /\ Move(a, "release") /\ UNCHANGED <<runs, fence, now, calls, faults>>
   BY DEF ResumeJob, Busy
<1>3. job.status \notin {"completed", "deleted"} /\ job \in Jobs /\ job.schedule \in Schedules
   BY <1>2 DEF SchedInv, ReadUnderFence, SchedulerTypeOK, Jobs
<1>4. /\ next \in Nat
      /\ job.schedule.type # "once" => \A r \in Recurring : r.slot < next
   BY <1>2, <1>3, LaterThanFired
<1>5. /\ job' \in Jobs /\ job'.status = "active" /\ job'.next = next
      /\ job'.rev = job.rev + 1 /\ job'.schedule = job.schedule
   <2>1. job.rev + 1 \in 0..MaxRevision
      BY <1>2, <1>3, NextRevision
   <2> QED BY <1>1, <1>3, <1>4, <2>1, RowWith
<1>6. \A r \in Recurring :
         r.hasNext /\ job'.schedule.type # "once" /\ job'.next # 0 => r.slot < job'.next
   BY <1>4, <1>5
<1> QED BY <1>2, <1>3, <1>5, <1>6, RowChangeKeepsInv

LEMMA UpdateJobKeepsInv ==
    ASSUME SchedInv, NEW a \in Actors, NEW s \in Schedules, UpdateJob(a, s)
    PROVE  SchedInv'
<1>1. PICK next \in NextRun(s, actor[a].at) :
         job' = [job EXCEPT !.schedule = s, !.next = next, !.rev = job.rev + 1]
   BY DEF UpdateJob
<1>2. /\ actor[a].pc = "commit" /\ actor[a].op = "update" /\ job.rev < MaxRevision
      /\ Move(a, "release") /\ UNCHANGED <<runs, fence, now, calls, faults>>
   BY DEF UpdateJob, Busy
<1>3. job.status \notin {"completed", "deleted"} /\ job \in Jobs
   BY <1>2 DEF SchedInv, ReadUnderFence, SchedulerTypeOK
<1>4. next \in Nat /\ (s.type # "once" => \A r \in Recurring : r.slot < next)
   BY <1>2, LaterThanFired
<1>5. /\ job' \in Jobs /\ job'.status = job.status /\ job'.next = next
      /\ job'.rev = job.rev + 1 /\ job'.schedule = s
   <2>1. job.rev + 1 \in 0..MaxRevision
      BY <1>2, <1>3, NextRevision
   <2> QED BY <1>1, <1>3, <1>4, <2>1, RowWithSchedule
<1>6. \A r \in Recurring :
         r.hasNext /\ job'.schedule.type # "once" /\ job'.next # 0 => r.slot < job'.next
   BY <1>4, <1>5
<1>7. job'.status # "none"
   BY <1>2, <1>5 DEF SchedInv, Created
<1> QED BY <1>2, <1>3, <1>5, <1>6, <1>7, RowChangeKeepsInv

LEMMA DeleteJobKeepsInv ==
    ASSUME SchedInv, NEW a \in Actors, DeleteJob(a)
    PROVE  SchedInv'
<1>1. /\ actor[a].pc = "commit" /\ job.rev < MaxRevision
      /\ Move(a, "release") /\ UNCHANGED <<runs, fence, now, calls, faults>>
      /\ job' = [job EXCEPT !.status = "deleted", !.next = 0, !.rev = job.rev + 1]
   BY DEF DeleteJob, Busy, Commit
<1>2. job \in Jobs
   BY DEF SchedInv, SchedulerTypeOK
<1>3. /\ job' \in Jobs /\ job'.status = "deleted" /\ job'.next = 0
      /\ job'.rev = job.rev + 1 /\ job'.schedule = job.schedule
   <2>1. job.rev + 1 \in 0..MaxRevision
      BY <1>1, <1>2, NextRevision
   <2> QED BY <1>1, <1>2, <2>1, RowWith
<1> QED BY <1>1, <1>3, RowChangeKeepsInv

LEMMA CreateJobKeepsInv ==
    ASSUME SchedInv, CreateJob
    PROVE  SchedInv'
<1>1. PICK next \in NextRun(job.schedule, now) :
         job' = [job EXCEPT !.status = "active", !.next = next, !.rev = 1]
   BY DEF CreateJob
<1>2. /\ job.status = "none" /\ UNCHANGED <<runs, fence, actor, now, calls, faults>>
      /\ runs = {} /\ \A a \in Actors : actor[a].pc = "idle"
   BY DEF CreateJob, SchedInv, Created
<1>3. SchedulerTypeOK /\ job \in Jobs /\ now \in Nat /\ job.schedule \in Schedules
   BY SchedulerAssumption DEF SchedInv, SchedulerTypeOK, Jobs, SchedulerAssumption
<1>4. next \in Nat
   BY <1>3, NextRunIsLater
<1>5. job' \in Jobs /\ job'.status = "active" /\ job'.rev = 1
   <2>1. 1 \in 0..MaxRevision
      BY SchedulerAssumption DEF SchedulerAssumption
   <2> QED BY <1>1, <1>3, <1>4, <2>1, RowWith
<1>6. SchedulerTypeOK'
   BY <1>2, <1>3, <1>5 DEF SchedulerTypeOK
<1> QED
   BY <1>2, <1>5, <1>6 DEF SchedInv, Fenced, Created, Numbered, OwnRevision, Past,
      ReadUnderFence, NextIsLater, OnceCompletes, SlotFiredOnce, OnceRunsOnce,
      PublicationIsFenced, Recurring

LEMMA TickKeepsInv ==
    ASSUME SchedInv, Tick
    PROVE  SchedInv'
<1>1. now < MaxTime /\ now' = now + 1 /\ UNCHANGED <<job, runs, fence, actor, calls, faults>>
   BY DEF Tick
<1>2. SchedulerTypeOK /\ now \in 0..MaxTime
   BY DEF SchedInv, SchedulerTypeOK
<1>3. SchedulerTypeOK'
   BY <1>1, <1>2, SchedulerAssumption DEF SchedulerTypeOK, SchedulerAssumption
<1>4. Past'
   <2>1. \A a \in Actors : actor[a].at \in Int /\ actor[a].at <= now
      BY <1>2 DEF SchedInv, Past, SchedulerTypeOK
   <2>2. \A r \in Recurring : r.slot \in Int /\ r.slot <= now
      BY <1>2 DEF SchedInv, Past, SchedulerTypeOK, Runs, Recurring
   <2>3. now \in Int /\ now < now'
      BY <1>1, <1>2
   <2>4. now' \in Int
      BY <1>1, <1>2
   <2>5. \A a \in Actors : actor[a].at <= now'
      BY <2>1, <2>3, <2>4
   <2>6. \A r \in Recurring : r.slot <= now'
      BY <2>2, <2>3, <2>4
   <2> QED BY <1>1, <2>5, <2>6 DEF Past, Recurring
<1> QED
   BY <1>1, <1>3, <1>4 DEF SchedInv, Fenced, Created, Numbered, OwnRevision,
      ReadUnderFence, NextIsLater, OnceCompletes, SlotFiredOnce, OnceRunsOnce,
      PublicationIsFenced, Recurring

\* The rows of the runs after a publication: the same but for the mark.
LEMMA PublishedRuns ==
    ASSUME SchedulerTypeOK, NEW a \in Actors, Publish(a)
    PROVE  /\ runs' \subseteq Runs
           /\ \A q \in runs' : \E r \in runs :
                 /\ q.rev = r.rev /\ q.slot = r.slot /\ q.source = r.source
                 /\ q.type = r.type /\ q.hasNext = r.hasNext
           /\ \A r \in runs : r.rev # actor[a].seen => r \in runs'
<1> DEFINE Q(r) == [r EXCEPT !.published = r.published \/ r.rev = actor[a].seen]
<1>1. runs' = {Q(r) : r \in runs}
   BY DEF Publish
<1>2. ASSUME NEW r \in runs
      PROVE  /\ Q(r) \in Runs /\ Q(r).rev = r.rev /\ Q(r).slot = r.slot
             /\ Q(r).source = r.source /\ Q(r).type = r.type /\ Q(r).hasNext = r.hasNext
             /\ r.rev # actor[a].seen => Q(r) = r
   <2>1. r \in Runs
      BY DEF SchedulerTypeOK
   <2> DEFINE b == r.published \/ r.rev = actor[a].seen
   <2>2. b \in BOOLEAN
      OBVIOUS
   <2>3. r.rev # actor[a].seen => b = r.published
      BY <2>1 DEF Runs
   <2> HIDE DEF b
   <2>4. Q(r) = [r EXCEPT !.published = b]
      BY DEF b
   <2> HIDE DEF Q
   <2> QED BY <2>1, <2>2, <2>3, <2>4 DEF Runs
<1> HIDE DEF Q
<1>3. runs' \subseteq Runs
   BY <1>1, <1>2
<1>4. ASSUME NEW q \in runs'
      PROVE \E r \in runs : /\ q.rev = r.rev /\ q.slot = r.slot /\ q.source = r.source
                            /\ q.type = r.type /\ q.hasNext = r.hasNext
   <2>1. PICK r \in runs : q = Q(r)
      BY <1>1
   <2> QED BY <1>2, <2>1
<1>5. ASSUME NEW r \in runs, r.rev # actor[a].seen PROVE r \in runs'
   BY <1>1, <1>2, <1>5
<1> QED BY <1>3, <1>4, <1>5

LEMMA PublishKeepsInv ==
    ASSUME SchedInv, NEW a \in Actors, Publish(a)
    PROVE  SchedInv'
<1>1. SchedulerTypeOK
   BY DEF SchedInv
<1>2. actor[a].pc = "publish" /\ Move(a, "release") /\ UNCHANGED <<job, fence, now, calls, faults>>
   BY DEF Publish
<1>3. PICK m \in ActorState :
         /\ actor' = [actor EXCEPT ![a] = m]
         /\ m.pc = "release" /\ m.at = actor[a].at
   BY <1>1, <1>2, MoveIs
<1>4. /\ actor' \in [Actors -> ActorState] /\ actor'[a] = m
      /\ \A b \in Actors : b # a => actor'[b] = actor[b]
   BY <1>1, <1>3, ActorMoves
<1>5. /\ runs' \subseteq Runs
      /\ \A q \in runs' : \E r \in runs :
            /\ q.rev = r.rev /\ q.slot = r.slot /\ q.source = r.source
            /\ q.type = r.type /\ q.hasNext = r.hasNext
      /\ \A r \in runs : r.rev # actor[a].seen => r \in runs'
   BY <1>1, PublishedRuns
<1>6. SchedulerTypeOK'
   BY <1>1, <1>2, <1>4, <1>5 DEF SchedulerTypeOK, ActorState
<1>7. Fenced'
   BY <1>2, <1>3, <1>4 DEF SchedInv, Fenced
<1>8. Created'
   BY <1>2, <1>4, <1>5 DEF SchedInv, Created
<1>9. Numbered'
   BY <1>2, <1>5 DEF SchedInv, Numbered
<1>10. OwnRevision'
   BY <1>2, <1>3, <1>4 DEF SchedInv, OwnRevision
<1>11. Past'
   BY <1>2, <1>3, <1>4, <1>5 DEF SchedInv, Past, Recurring
<1>12. ReadUnderFence'
   BY <1>2, <1>3, <1>4, <1>5 DEF SchedInv, ReadUnderFence, Recurring
<1>13. NextIsLater'
   BY <1>2, <1>5 DEF SchedInv, NextIsLater, Recurring
<1>14. OnceCompletes'
   BY <1>2, <1>5 DEF SchedInv, OnceCompletes
<1>15. SlotFiredOnce'
   BY <1>5 DEF SchedInv, SlotFiredOnce
<1>16. OnceRunsOnce'
   BY <1>5 DEF SchedInv, OnceRunsOnce
<1>17. PublicationIsFenced'
   <2> SUFFICES ASSUME NEW b \in Actors, actor'[b].pc = "publish", fence' = b
                PROVE  /\ job'.rev = actor'[b].seen + 1
                       /\ \E r \in runs' : r.rev = actor'[b].seen /\ ~r.published
      BY DEF PublicationIsFenced
   <2>1. b # a /\ actor'[b] = actor[b]
      BY <1>3, <1>4
   <2>2. actor[b].pc = "publish" /\ fence = b
      BY <1>2, <2>1
   <2>3. job.rev = actor[b].seen + 1
      BY <2>2 DEF SchedInv, PublicationIsFenced
   <2>4. PICK r \in runs : r.rev = actor[b].seen /\ ~r.published
      BY <2>2 DEF SchedInv, PublicationIsFenced
   <2>5. actor[b].seen # actor[a].seen
      BY <1>2, <2>1, <2>2 DEF SchedInv, OwnRevision
   <2>6. r \in runs'
      BY <1>5, <2>4, <2>5
   <2> QED BY <1>2, <2>1, <2>3, <2>4, <2>6
<1> QED
   BY <1>6, <1>7, <1>8, <1>9, <1>10, <1>11, <1>12, <1>13, <1>14, <1>15, <1>16, <1>17 DEF SchedInv

\* A transaction that makes a run of an active job.
LEMMA RunMadeKeepsInv ==
    ASSUME SchedInv, NEW a \in Actors, actor[a].pc = "commit", job.status = "active",
           NEW source \in Types \cup {"manual"}, MakeRun(a, source),
           source # "manual" => source = job.schedule.type /\ job.next # 0 /\ job.next <= actor[a].at,
           job' \in Jobs, job'.rev = job.rev + 1, job'.status # "none",
           job'.status \in {"completed", "deleted"} => job'.next = 0,
           job.schedule.type = "once" => job'.status = "completed",
           \A r \in Recurring' :
               r.hasNext /\ job'.schedule.type # "once" /\ job'.next # 0 => r.slot < job'.next,
           UNCHANGED <<fence, now, calls, faults>>
    PROVE  SchedInv'
<1> DEFINE hasNext == NextRun(job.schedule, actor[a].at) # {}
           n == [rev |-> job.rev, slot |-> job.next, source |-> source, type |-> job.schedule.type,
                 hasNext |-> hasNext, published |-> FALSE]
           m == [actor[a] EXCEPT !.pc = "publish", !.seen = job.rev]
<1>1. SchedulerTypeOK
   BY DEF SchedInv
<1>2. /\ job.rev \in 1..MaxRevision /\ job.next \in Nat /\ job.schedule.type \in Types
      /\ \A r \in runs : r.rev \in Nat
   <2>1. job \in Jobs /\ job.rev # 0
      BY <1>1 DEF SchedulerTypeOK, SchedInv, Created
   <2>2. job.rev \in 0..MaxRevision /\ job.next \in Nat /\ job.schedule \in Schedules
      BY <2>1 DEF Jobs
   <2>3. job.schedule.type \in Types
      BY <2>2, SchedulerAssumption DEF SchedulerAssumption, Types
   <2>4. \A r \in runs : r.rev \in Nat
      BY <1>1 DEF SchedulerTypeOK, Runs
   <2> QED BY <2>1, <2>2, <2>3, <2>4
<1>3. runs' = runs \cup {n} /\ actor' = [actor EXCEPT ![a].pc = "publish", ![a].seen = job.rev]
   BY DEF MakeRun
<1>4. hasNext \in BOOLEAN
   OBVIOUS
<1> HIDE DEF hasNext
<1>5. /\ n \in Runs /\ n.rev = job.rev /\ n.slot = job.next /\ n.source = source
      /\ n.type = job.schedule.type /\ n.published = FALSE
   BY <1>2, <1>4 DEF Runs
<1> HIDE DEF n
<1>6. /\ actor[a] \in ActorState /\ job.rev \in 0..MaxRevision
   BY <1>1, <1>2 DEF SchedulerTypeOK, ActorState
<1>7. m \in ActorState /\ m.pc = "publish" /\ m.at = actor[a].at /\ m.seen = job.rev
   BY <1>6 DEF ActorState
<1>8. actor' = [actor EXCEPT ![a] = m]
   BY <1>1, <1>3 DEF SchedulerTypeOK
<1> HIDE DEF m
<1>9. /\ actor' \in [Actors -> ActorState] /\ actor'[a] = m
      /\ \A b \in Actors : b # a => actor'[b] = actor[b]
   BY <1>1, <1>7, <1>8, ActorMoves
<1>10. fence = a /\ \A b \in Actors : b # a => actor[b].pc \notin {"read", "commit"}
   BY OneSession
<1>11. \A b \in Actors : actor[b].seen \in Nat
   BY <1>1 DEF SchedulerTypeOK
<1>12. SchedulerTypeOK'
   BY <1>1, <1>3, <1>5, <1>9 DEF SchedulerTypeOK, ActorState
<1>13. Fenced'
   BY <1>7, <1>9, <1>10 DEF SchedInv, Fenced
<1>14. Created'
   BY <1>2 DEF Created
<1>15. Numbered'
   BY <1>2, <1>3, <1>5 DEF SchedInv, Numbered
<1>16. OwnRevision'
   BY <1>2, <1>7, <1>9, <1>11 DEF SchedInv, OwnRevision
<1>17. Past'
   <2>1. \A b \in Actors : actor'[b].at <= now'
      BY <1>7, <1>9 DEF SchedInv, Past
   <2>2. actor[a].at \in Nat /\ now \in Nat /\ actor[a].at <= now
      BY <1>1 DEF SchedInv, Past, SchedulerTypeOK
   <2>3. ASSUME NEW r \in Recurring' PROVE r.slot <= now'
      <3>1. CASE r \in runs
         BY <2>3, <3>1 DEF SchedInv, Past, Recurring
      <3>2. CASE r = n
         <4>1. source # "manual"
            BY <1>5, <2>3, <3>2 DEF Recurring
         <4> QED BY <1>2, <1>5, <2>2, <3>2, <4>1
      <3> QED BY <1>3, <2>3, <3>1, <3>2 DEF Recurring
   <2> QED BY <2>1, <2>3 DEF Past
<1>18. ReadUnderFence'
   BY <1>7, <1>9, <1>10 DEF ReadUnderFence
<1>19. NextIsLater'
   BY DEF NextIsLater
<1>20. \A r \in runs : r.type # "once"
   BY DEF SchedInv, OnceCompletes
<1>21. OnceCompletes'
   BY <1>3, <1>5, <1>20 DEF OnceCompletes
<1>22. SlotFiredOnce'
   <2> SUFFICES ASSUME NEW r \in runs', NEW s \in runs',
                       {r.source, s.source} \subseteq {"interval", "cron"},
                       r.slot = s.slot, r.rev < s.rev
                PROVE  ~r.hasNext
      BY DEF SlotFiredOnce
   <2>1. CASE r \in runs /\ s \in runs
      BY <2>1 DEF SchedInv, SlotFiredOnce
   <2>2. CASE r \in runs /\ s = n
      <3>1. r \in Recurring /\ r.slot = job.next /\ r.slot \in Nat
         BY <1>2, <1>5, <2>2 DEF Recurring
      <3>2. job.schedule.type # "once" /\ job.next # 0
         BY <1>5, <2>2
      <3> QED BY <1>2, <3>1, <3>2 DEF SchedInv, NextIsLater
   <2>3. CASE r = n
      <3>1. s.rev <= job.rev
         BY <1>2, <1>3, <1>5 DEF SchedInv, Numbered
      <3>2. s.rev \in Nat
         BY <1>2, <1>3, <1>5
      <3> QED BY <1>2, <1>5, <2>3, <3>1, <3>2
   <2> QED BY <1>3, <2>1, <2>2, <2>3
<1>23. OnceRunsOnce'
   BY <1>2, <1>3, <1>5, <1>20 DEF SchedInv, Numbered, OnceRunsOnce
<1>24. PublicationIsFenced'
   <2>1. n \in runs' /\ n.rev = actor'[a].seen /\ ~n.published /\ job'.rev = actor'[a].seen + 1
      BY <1>3, <1>5, <1>7, <1>9
   <2>2. fence' = a
      BY <1>10
   <2> QED BY <2>1, <2>2 DEF PublicationIsFenced
<1> QED
   BY <1>12, <1>13, <1>14, <1>15, <1>16, <1>17, <1>18, <1>19, <1>21, <1>22, <1>23, <1>24 DEF SchedInv

LEMMA AfterIs ==
    ASSUME job \in Jobs, job.rev < MaxRevision, job.status = "active",
           NEW a, NEW next \in Nat, After(a, next)
    PROVE  /\ job' \in Jobs /\ job'.rev = job.rev + 1 /\ job'.schedule = job.schedule
           /\ job.schedule.type = "once" => job'.status = "completed" /\ job'.next = 0
           /\ job.schedule.type # "once" => job'.status = "active" /\ job'.next = next
<1>1. job.rev + 1 \in 0..MaxRevision
   BY NextRevision
<1>2. CASE job.schedule.type = "once"
   <2>1. job' = [job EXCEPT !.status = "completed", !.next = 0, !.rev = job.rev + 1]
      BY <1>2 DEF After, Commit
   <2> QED BY <1>1, <1>2, <2>1, RowWith
<1>3. CASE job.schedule.type # "once"
   <2>1. job' = [job EXCEPT !.status = "active", !.next = next, !.rev = job.rev + 1]
      BY <1>3 DEF After, Commit
   <2> QED BY <1>1, <1>3, <2>1, RowWith
<1> QED BY <1>2, <1>3

\* The recurring runs after a run was made.
LEMMA RecurringAfter ==
    ASSUME NEW a, NEW source, MakeRun(a, source), NEW r \in Recurring'
    PROVE  \/ r \in Recurring
           \/ /\ source \in {"interval", "cron"} /\ r.slot = job.next
              /\ r.hasNext = (NextRun(job.schedule, actor[a].at) # {})
<1> DEFINE hasNext == NextRun(job.schedule, actor[a].at) # {}
           n == [rev |-> job.rev, slot |-> job.next, source |-> source, type |-> job.schedule.type,
                 hasNext |-> hasNext, published |-> FALSE]
<1>1. runs' = runs \cup {n} /\ r \in runs' /\ r.source \in {"interval", "cron"}
   BY DEF MakeRun, Recurring
<1> HIDE DEF hasNext
<1>2. n.source = source /\ n.slot = job.next /\ n.hasNext = hasNext
   OBVIOUS
<1> HIDE DEF n
<1>3. CASE r \in runs
   BY <1>1, <1>3 DEF Recurring
<1>4. CASE r = n
   <2>1. source \in {"interval", "cron"} /\ r.slot = job.next /\ r.hasNext = hasNext
      BY <1>1, <1>2, <1>4
   <2> QED BY <2>1 DEF hasNext
<1> QED BY <1>1, <1>3, <1>4

LEMMA TriggerJobKeepsInv ==
    ASSUME SchedInv, NEW a \in Actors, TriggerJob(a)
    PROVE  SchedInv'
<1>1. PICK next \in NextRun(job.schedule, actor[a].at) : After(a, next)
   BY DEF TriggerJob
<1>2. /\ actor[a].pc = "commit" /\ actor[a].op = "trigger" /\ job.rev < MaxRevision
      /\ job.status = "active" /\ MakeRun(a, "manual") /\ UNCHANGED <<fence, now, calls, faults>>
   BY DEF TriggerJob, Busy
<1>3. job \in Jobs /\ job.schedule \in Schedules
   BY DEF SchedInv, SchedulerTypeOK, Jobs
<1>4. next \in Nat /\ (job.schedule.type # "once" => \A r \in Recurring : r.slot < next)
   BY <1>2, <1>3, LaterThanFired
<1>5. /\ job' \in Jobs /\ job'.rev = job.rev + 1 /\ job'.schedule = job.schedule
      /\ job.schedule.type = "once" => job'.status = "completed" /\ job'.next = 0
      /\ job.schedule.type # "once" => job'.status = "active" /\ job'.next = next
   BY <1>1, <1>2, <1>3, <1>4, AfterIs
<1>6. ASSUME NEW r \in Recurring', job'.schedule.type # "once" PROVE r.slot < job'.next
   <2>1. r \in Recurring
      BY <1>2, RecurringAfter
   <2> QED BY <1>4, <1>5, <1>6, <2>1
<1>7. job'.status # "none" /\ (job'.status \in {"completed", "deleted"} => job'.next = 0)
   BY <1>5
<1> QED BY <1>2, <1>5, <1>6, <1>7, RunMadeKeepsInv

LEMMA DispatchDueJobKeepsInv ==
    ASSUME SchedInv, NEW a \in Actors, DispatchDueJob(a)
    PROVE  SchedInv'
<1> DEFINE Times == NextRun(job.schedule, actor[a].at)
           source == job.schedule.type
<1>1. /\ actor[a].pc = "commit" /\ actor[a].op = "dispatch" /\ job.rev < MaxRevision
      /\ job.status = "active" /\ job.next # 0 /\ job.next <= actor[a].at
      /\ MakeRun(a, source) /\ UNCHANGED <<fence, now, calls, faults>>
   BY DEF DispatchDueJob, Busy, Due
<1>2. /\ job \in Jobs /\ job.schedule \in Schedules /\ actor[a].at \in Nat /\ job.next \in Nat
      /\ source \in Types
   <2>1. job \in Jobs /\ actor[a].at \in Nat
      BY SchedulerAssumption DEF SchedInv, SchedulerTypeOK, SchedulerAssumption
   <2>2. job.schedule \in Schedules /\ job.next \in Nat
      BY <2>1 DEF Jobs
   <2>3. source \in Types
      BY <2>2, SchedulerAssumption DEF SchedulerAssumption, Types
   <2> QED BY <2>1, <2>2, <2>3
<1>3. /\ \A next \in Times : next \in Nat /\ (source # "once" => actor[a].at < next)
      /\ source = "once" => Times # {}
   BY <1>2, NextRunIsLater
<1>4. CASE Times = {}
   <2>1. job' = [job EXCEPT !.status = "active", !.next = job.next, !.rev = job.rev + 1]
      BY <1>1, <1>4 DEF DispatchDueJob, Commit
   <2>2. job.rev + 1 \in 0..MaxRevision
      BY <1>1, <1>2, NextRevision
   <2>3. /\ job' \in Jobs /\ job'.rev = job.rev + 1 /\ job'.schedule = job.schedule
         /\ job'.status = "active" /\ job'.next = job.next
      BY <1>2, <2>1, <2>2, RowWith
   <2>4. source # "once"
      BY <1>3, <1>4
   <2>5. ASSUME NEW r \in Recurring', r.hasNext, job'.next # 0 PROVE r.slot < job'.next
      <3>1. r \in Recurring
         BY <1>1, <1>4, <2>5, RecurringAfter
      <3> QED BY <2>3, <2>4, <2>5, <3>1 DEF SchedInv, NextIsLater
   <2> QED BY <1>1, <1>2, <2>3, <2>4, <2>5, RunMadeKeepsInv
<1>5. CASE Times # {}
   <2>1. PICK next \in Times : After(a, next)
      BY <1>5 DEF DispatchDueJob
   <2>2. next \in Nat /\ (source # "once" => actor[a].at < next)
      BY <1>3
   <2>3. /\ job' \in Jobs /\ job'.rev = job.rev + 1 /\ job'.schedule = job.schedule
         /\ source = "once" => job'.status = "completed" /\ job'.next = 0
         /\ source # "once" => job'.status = "active" /\ job'.next = next
      BY <1>1, <1>2, <2>1, <2>2, AfterIs
   <2>4. ASSUME NEW r \in Recurring', r.hasNext, source # "once" PROVE r.slot < job'.next
      <3>1. r.slot \in Nat /\ r.slot <= job.next
         <4>1. CASE r \in Recurring
            BY <1>1, <1>2, <2>4, <4>1 DEF SchedInv, NextIsLater, SchedulerTypeOK, Runs, Recurring
         <4>2. CASE r.slot = job.next
            BY <1>2, <4>2
         <4> QED BY <1>1, <4>1, <4>2, RecurringAfter
      <3> QED BY <1>1, <1>2, <2>2, <2>3, <2>4, <3>1
   <2>5. job'.status # "none" /\ (job'.status \in {"completed", "deleted"} => job'.next = 0)
      BY <2>3
   <2>6. \A r \in Recurring' :
            r.hasNext /\ job'.schedule.type # "once" /\ job'.next # 0 => r.slot < job'.next
      BY <2>3, <2>4
   <2> QED BY <1>1, <1>2, <2>3, <2>5, <2>6, RunMadeKeepsInv
<1> QED BY <1>4, <1>5

-----------------------------------------------------------------------------
LEMMA StepKeepsInv ==
    ASSUME SchedInv, NEW a \in Actors, Step(a)
    PROVE  SchedInv'
<1>1. calls \in 0..MaxCalls /\ faults \in 0..MaxFaults
   BY DEF SchedInv, SchedulerTypeOK
<1>2. CASE TakeFence(a)
   BY <1>2, TakeFenceKeepsInv
<1>3. CASE ReadJob(a)
   BY <1>3, ReadJobKeepsInv
<1>4. CASE ReleaseFence(a)
   BY <1>1, <1>4, ForgetKeepsInv DEF ReleaseFence
<1>5. CASE Publish(a)
   BY <1>5, PublishKeepsInv
<1>6. CASE PauseJob(a)
   BY <1>6, PauseJobKeepsInv
<1>7. CASE ResumeJob(a)
   BY <1>7, ResumeJobKeepsInv
<1>8. CASE \E s \in Schedules : UpdateJob(a, s)
   BY <1>8, UpdateJobKeepsInv
<1>9. CASE TriggerJob(a)
   BY <1>9, TriggerJobKeepsInv
<1>10. CASE Rejected(a) \/ NotDue(a) \/ NotDeleted(a)
   BY <1>1, <1>10, QuietMoveKeepsInv DEF Rejected, NotDue, NotDeleted
<1>11. CASE DispatchDueJob(a)
   BY <1>11, DispatchDueJobKeepsInv
<1>12. CASE DeleteJob(a)
   BY <1>12, DeleteJobKeepsInv
<1> QED
   BY <1>2, <1>3, <1>4, <1>5, <1>6, <1>7, <1>8, <1>9, <1>10, <1>11, <1>12 DEF Step

LEMMA SchedNext == SchedInv /\ [Next]_vars => SchedInv'
<1> SUFFICES ASSUME SchedInv, [Next]_vars PROVE SchedInv'
   OBVIOUS
<1>1. CASE CreateJob
   BY <1>1, CreateJobKeepsInv
<1>2. CASE Tick
   BY <1>2, TickKeepsInv
<1>3. CASE \E d \in Dispatchers : ListDue(d)
   BY <1>3, ListDueKeepsInv
<1>4. CASE \E c \in Callers, op \in Ops \ {"dispatch"}, p \in 0..MaxRevision : Call(c, op, p)
   BY <1>4, CallKeepsInv
<1>5. ASSUME NEW a \in Actors, Step(a) PROVE SchedInv'
   BY <1>5, StepKeepsInv
<1>6. ASSUME NEW a \in Actors, SessionLost(a) PROVE SchedInv'
   BY <1>6, SessionLostKeepsInv
<1>7. ASSUME NEW a \in Actors, Crash(a) PROVE SchedInv'
   <2>1. calls' \in 0..MaxCalls /\ faults' \in 0..MaxFaults
      BY <1>7, SchedulerAssumption DEF Crash, SchedInv, SchedulerTypeOK, SchedulerAssumption
   <2> QED BY <1>7, <2>1, ForgetKeepsInv DEF Crash
<1>8. CASE UNCHANGED vars
   BY <1>8 DEF vars, SchedInv, SchedulerTypeOK, Fenced, Created, Numbered, OwnRevision, Past,
      ReadUnderFence, NextIsLater, OnceCompletes, SlotFiredOnce, OnceRunsOnce,
      PublicationIsFenced, Recurring
<1> QED BY <1>1, <1>2, <1>3, <1>4, <1>5, <1>6, <1>7, <1>8 DEF Next

LEMMA SchedInvariance == Spec => []SchedInv
BY SchedInit, SchedNext, PTL DEF Spec

\* Every row, run and call has its type, and the job that ended has no next time.
THEOREM SchedulerTypeCorrect == Spec => []SchedulerTypeOK
<1>1. SchedInv => SchedulerTypeOK
   BY DEF SchedInv
<1> QED BY <1>1, SchedInvariance, PTL

\* dispatchDueJobLocked: a time of a recurring schedule fires once, for any number
\* of dispatchers, callers, lost sessions and crashes, and any cron expression.
THEOREM FiresOnce == Spec => []SlotFiredOnce
<1>1. SchedInv => SlotFiredOnce
   BY DEF SchedInv
<1> QED BY <1>1, SchedInvariance, PTL

\* nextAfterDispatch: after the run of a once schedule the job makes no other run.
THEOREM OnceIsLast == Spec => []OnceRunsOnce
<1>1. SchedInv => OnceRunsOnce
   BY DEF SchedInv
<1> QED BY <1>1, SchedInvariance, PTL

\* WithJobFence: nobody changes the job between the commit of a run and the
\* publication of its events, unless the session was lost.
THEOREM FencePublishes == Spec => []PublicationIsFenced
<1>1. SchedInv => PublicationIsFenced
   BY DEF SchedInv
<1> QED BY <1>1, SchedInvariance, PTL
=============================================================================
