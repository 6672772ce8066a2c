------------------------- MODULE EventDeliveryProofs -------------------------
(***************************************************************************)
(* Proofs about the delivery of an event, for any number of subscribers,   *)
(* streams, publishers and retries.                                        *)
(*                                                                         *)
(* The argument is one of tokens.  What leads to an attempt whose envelope *)
(* is known (an item that waits in the queue or in a batch, a delivery     *)
(* with its subscriber, an answer that still has to schedule the next      *)
(* attempt or to push the dead letter) is a token of the subscriber.  As   *)
(* long as no two pollers read the same range there is at most one, it is  *)
(* at the newest attempt, and it ends in an acknowledgement, a dead letter *)
(* silence or in an error of a poll.  When they do, the newest attempt     *)
(* still has a token.  A late write of "pending" (PollRevert) makes no     *)
(* token: either the attempt is still active, or "overtaken" is noted.     *)
(***************************************************************************)
EXTENDS EventDelivery, TLAPS, FiniteSetTheorems, WellFoundedInduction

Made(a) == row[a].status # "none"
RowOf(i) == <<i.sub, i.no>>

\* An item that is in the queue or in a batch.
Waits(i) == i \in queue \/ \E p \in Pollers : i \in poller[p].batch

\* The tokens: an item that leads to a row with an envelope, and an answer on its
\* way, with the attempt that it is about.
Live(i) == i.known /\ row[RowOf(i)].env
Holds(o) == o.stage \in {"out", "next", "schedule", "dead"}
Reach(o) == IF o.stage = "schedule" THEN o.no + 1 ELSE o.no

\* Ids is finite, so there is a number that is not in it.
Finite == /\ IsFiniteSet(queue) /\ IsFiniteSet(out)
          /\ \A p \in Pollers : IsFiniteSet(poller[p].batch)

\* Nothing exists before the event is published.
Unborn ==
    env = "none" =>
        /\ queue = {} /\ out = {} /\ faults = {}
        /\ \A p \in Pollers : poller[p].pc = "idle"
        /\ \A b \in Publishers : publisher[b].todo = {} /\ ~publisher[b].known
        /\ \A a \in Attempts : ~Made(a) /\ dlq[a] = 0

IdleIsEmpty == \A p \in Pollers : poller[p].pc = "idle" => poller[p].batch = {}

\* One publisher has the UUID of the envelope row, and it starts each chain.
Publication ==
    /\ \A b, c \in Publishers : publisher[b].known /\ publisher[c].known => b = c
    /\ \A b \in Publishers : publisher[b].known =>
           \A s \in publisher[b].todo, n \in Nos : ~row[<<s, n>>].env

RowsRooted ==
    \A a \in Attempts : /\ ~Made(a) => ~row[a].env
                        /\ Made(a) => Made(<<a[1], 1>>)
ItemsRooted ==
    \A i \in Item : Waits(i) => Made(<<i.sub, 1>>) /\ (i.known => Made(RowOf(i)))
OutsRooted ==
    \A o \in out : /\ row[Of(o)].env
                   /\ o.stage \in {"next", "schedule"} => o.no < MaxRetry
                   /\ o.stage = "dead" => o.no = MaxRetry
DeadRooted == \A a \in Attempts : dlq[a] # 0 => Made(a)
NextRooted == \A o \in out : o.stage = "schedule" => Made(<<o.sub, o.no + 1>>)

\* Without a second Publish every UUID of the envelope is that of its row.
Original ==
    "republish" \notin faults =>
        /\ \A a \in Attempts : Made(a) => row[a].env
        /\ \A i \in Item : Waits(i) => i.env
        /\ \A b \in Publishers : publisher[b].todo # {} => publisher[b].known

\* The chain of a subscriber whose first row another publisher made is barren.
Barren ==
    "race" \notin faults =>
        \A i \in Item : Waits(i) /\ ~i.known /\ i.env => \A n \in Nos : ~row[<<i.sub, n>>].env

\* A token is in one place, and a subscriber has one.
Apart ==
    "race" \notin faults =>
        \A p \in Pollers, i \in Item : i \in poller[p].batch /\ Live(i) =>
            /\ \A q \in Pollers : i \in poller[q].batch => p = q
            /\ poller[p].pc # "range" => i \notin queue
Alone ==
    "race" \notin faults =>
        /\ \A i, j \in Item : Waits(i) /\ Waits(j) /\ Live(i) /\ Live(j) /\ i.sub = j.sub => i = j
        /\ \A i \in Item, o \in out : Waits(i) /\ Live(i) /\ Holds(o) => i.sub # o.sub
        /\ \A o, r \in out : Holds(o) /\ Holds(r) /\ o.sub = r.sub => o = r

\* It is at the newest attempt.
Last ==
    "race" \notin faults =>
        /\ \A i \in Item, n \in Nos : Waits(i) /\ Live(i) /\ n > i.no => ~Made(<<i.sub, n>>)
        /\ \A o \in out, n \in Nos : Holds(o) /\ n > Reach(o) => ~Made(<<o.sub, n>>)
        /\ \A o \in out : o.stage = "schedule" => o.known /\ row[<<o.sub, o.no + 1>>].env

\* A dead letter ends the chain.
Ended ==
    "race" \notin faults =>
        \A a \in Attempts : dlq[a] # 0 =>
            /\ dlq[a] = 1
            /\ \A i \in Item : Waits(i) /\ Live(i) => i.sub # a[1]
            /\ \A o \in out : Holds(o) => o.sub # a[1]
            /\ \A n \in Nos : n > a[2] => ~Made(<<a[1], n>>)

Exhausted ==
    \A a \in Attempts : row[a].status = "failed" /\ a[2] = MaxRetry =>
        dlq[a] # 0 \/ \E o \in out : o.stage = "dead" /\ Of(o) = a

\* Who will deliver an attempt.
Responsible(a) ==
    \/ \E i \in Item : Waits(i) /\ a \in Found(i)
    \/ \E o \in out : \/ o.stage = "out" /\ Of(o) = a
                      \/ o.stage = "schedule" /\ <<o.sub, o.no + 1>> = a
Awaited(a) ==
    /\ faults \subseteq {"race"} /\ row[a].status \in ActiveStatuses
    /\ faults = {} \/ Newest(a)
Kept == \A a \in Attempts : Awaited(a) => Responsible(a)

\* The row that a poller still has to make pending was found with its envelope.
AtMade == \A p \in Pollers : \A a \in poller[p].at : row[a].env

Typed == DeliveryTypeOK /\ Finite
Rooted == RowsRooted /\ ItemsRooted /\ OutsRooted /\ DeadRooted /\ NextRooted
Tokens == Barren /\ Apart /\ Alone /\ Last /\ Ended
DeliveryInv ==
    /\ Typed /\ Unborn /\ IdleIsEmpty /\ Publication /\ Rooted /\ Original /\ Tokens
    /\ Exhausted /\ Kept

-----------------------------------------------------------------------------
\* Min of FiniteSetsExt is the smallest element of a set of numbers.
LEMMA SmallestOf ==
    ASSUME NEW S \in SUBSET Nat, S # {}
    PROVE  Min(S) \in S /\ \A x \in S : Min(S) <= x
<1> DEFINE R == {ss \in Nat \X Nat : ss[1] < ss[2]}
<1>1. IsWellFoundedOn(R, Nat)
   BY NatLessThanWellFounded DEF OpToRel
<1>2. \E x \in S : \A y \in S : ~ (<<y, x>> \in R)
   <2> HIDE DEF R
   <2> QED BY <1>1, WFMin, Zenon
<1>3. PICK x \in S : \A y \in S : ~ (<<y, x>> \in R)
   BY <1>2
<1>4. ASSUME NEW y \in S PROVE x <= y
   <2>1. x \in Nat /\ y \in Nat
      BY <1>3
   <2>2. ~ (<<y, x>> \in R)
      BY <1>3
   <2>3. <<y, x>> \in Nat \X Nat /\ <<y, x>>[1] = y /\ <<y, x>>[2] = x
      BY <2>1
   <2>4. ~ (y < x)
      BY <2>2, <2>3
   <2> HIDE DEF R
   <2> QED BY <2>1, <2>4
<1> QED BY <1>3, <1>4 DEF Min

\* Max, of a set of numbers up to n.
LEMMA LargestOf ==
    ASSUME NEW n \in Nat, NEW S \in SUBSET (1..n), S # {}
    PROVE  Max(S) \in S /\ \A x \in S : x <= Max(S)
<1> DEFINE T == {n - x : x \in S}
<1>1. T \in SUBSET Nat /\ T # {}
   <2>1. \A x \in S : x \in Nat /\ n - x \in Nat
      OBVIOUS
   <2> QED BY <2>1
<1>2. Min(T) \in T /\ \A y \in T : Min(T) <= y
   <2> HIDE DEF T
   <2> QED BY <1>1, SmallestOf
<1>3. PICK x \in S : Min(T) = n - x
   BY <1>2
<1>4. \A y \in S : n - x <= n - y
   BY <1>2, <1>3
<1>5. \A y \in S : y <= x
   BY <1>4
<1> HIDE DEF T
<1> QED BY <1>5 DEF Max

\* The number of a new member of the queue.
LEMMA FreshIsNat ==
    ASSUME DeliveryTypeOK, Finite
    PROVE  FreshId \in Nat
<1> DEFINE IdsOf(S) == {i.id : i \in S}
<1>1. ASSUME NEW S \in (SUBSET Item) \cup (SUBSET Out), IsFiniteSet(S)
      PROVE  IsFiniteSet(IdsOf(S))
   <2> DEFINE f == [i \in S |-> i.id]
   <2>1. f \in Surjection(S, IdsOf(S))
      BY DEF Surjection
   <2> HIDE DEF f
   <2> QED BY <1>1, <2>1, FS_Surjection
<1> DEFINE Batches == {IdsOf(poller[p].batch) : p \in Pollers}
<1>2. IsFiniteSet(Batches)
   <2> DEFINE f == [p \in Pollers |-> IdsOf(poller[p].batch)]
   <2>1. f \in Surjection(Pollers, Batches)
      BY DEF Surjection
   <2> HIDE DEF f, Batches
   <2> QED BY <2>1, FS_Surjection, DeliveryAssumption DEF DeliveryAssumption
<1>3. \A T \in Batches : IsFiniteSet(T)
   <2> SUFFICES ASSUME NEW p \in Pollers PROVE IsFiniteSet(IdsOf(poller[p].batch))
      OBVIOUS
   <2>1. poller[p].batch \in SUBSET Item /\ IsFiniteSet(poller[p].batch)
      BY DEF DeliveryTypeOK, Finite
   <2> HIDE DEF IdsOf
   <2> QED BY <1>1, <2>1
<1>4. IsFiniteSet(UNION Batches)
   <2> HIDE DEF Batches
   <2> QED BY <1>2, <1>3, FS_UNION
<1>5. IsFiniteSet(IdsOf(queue)) /\ IsFiniteSet(IdsOf(out))
   <2> HIDE DEF IdsOf
   <2> QED BY <1>1 DEF DeliveryTypeOK, Finite
<1>6. Ids = (IdsOf(queue) \cup IdsOf(out)) \cup UNION Batches
   BY Zenon DEF Ids
<1>7. IsFiniteSet(Ids)
   <2> HIDE DEF Batches, IdsOf
   <2>1. IsFiniteSet(IdsOf(queue) \cup IdsOf(out))
      BY <1>5, FS_Union
   <2> QED BY <1>4, <1>6, <2>1, FS_Union
<1> DEFINE k == Cardinality(Ids)
<1>8. k \in Nat
   BY <1>7, FS_CardinalityType
<1>9. (0..k) \ Ids # {}
   <2>1. SUFFICES ASSUME (0..k) \subseteq Ids PROVE FALSE
      OBVIOUS
   <2>2. Cardinality(0..k) = k + 1
      <3> HIDE DEF k
      <3> QED BY <1>8, FS_Interval
   <2>3. Cardinality(0..k) <= k
      BY <1>7, <2>1, FS_Subset
   <2> HIDE DEF k
   <2> QED BY <1>8, <2>2, <2>3
<1>10. (0..k) \ Ids \in SUBSET Nat
   BY <1>8
<1>11. Min((0..k) \ Ids) \in Nat
   <2> HIDE DEF k
   <2> QED BY <1>9, <1>10, SmallestOf
<1> QED BY <1>11 DEF FreshId

-----------------------------------------------------------------------------
(* What the helpers do.                                                    *)
Rows == [Attempts -> [status : Statuses, env : BOOLEAN]]
PollerState == [pc : {"idle", "range", "batch", "revert", "release"}, batch : SUBSET Item,
                at : SUBSET Attempts]
AnyFault == {"republish", "race", "silence", "error", "overtaken"}

LEMMA AttemptPair ==
    ASSUME NEW s \in Subscribers, NEW n \in Nos
    PROVE  <<s, n>> \in Attempts /\ <<s, n>>[1] = s /\ <<s, n>>[2] = n
BY DEF Attempts

LEMMA AttemptParts ==
    ASSUME NEW a \in Attempts
    PROVE  /\ a[1] \in Subscribers /\ a[2] \in Nos /\ a[2] \in Nat /\ a = <<a[1], a[2]>>
           /\ MaxRetry \in Nat /\ 1 \in Nos /\ <<a[1], 1>> \in Attempts
BY DeliveryAssumption DEF Attempts, Nos, DeliveryAssumption

LEMMA SetRowIs ==
    ASSUME DeliveryTypeOK, NEW a \in Attempts, NEW status \in Statuses, SetRow(a, status)
    PROVE  /\ row' \in Rows
           /\ row'[a].status = status /\ row'[a].env = row[a].env
           /\ \A b \in Attempts : b # a => row'[b] = row[b]
<1> DEFINE m == [row[a] EXCEPT !.status = status]
<1>1. row \in [Attempts -> [status : Statuses, env : BOOLEAN]]
   BY DEF DeliveryTypeOK
<1>2. m \in [status : Statuses, env : BOOLEAN] /\ m.status = status /\ m.env = row[a].env
   BY <1>1
<1>3. row' = [row EXCEPT ![a] = m]
   BY DEF SetRow
<1> HIDE DEF m
<1> QED BY <1>1, <1>2, <1>3 DEF Rows

LEMMA UpsertIs ==
    ASSUME DeliveryTypeOK, NEW a \in Attempts, NEW e \in BOOLEAN, UpsertAttempt(a, e)
    PROVE  /\ row' \in Rows
           /\ row'[a].status = "pending"
           /\ row'[a].env = (IF Inserted(a) THEN e ELSE row[a].env)
           /\ \A b \in Attempts : b # a => row'[b] = row[b]
<1> DEFINE m == [status |-> "pending", env |-> IF Inserted(a) THEN e ELSE row[a].env]
<1>1. row \in [Attempts -> [status : Statuses, env : BOOLEAN]]
   BY DEF DeliveryTypeOK
<1>2. /\ m \in [status : Statuses, env : BOOLEAN] /\ m.status = "pending"
      /\ m.env = (IF Inserted(a) THEN e ELSE row[a].env)
   <2>1. row[a].env \in BOOLEAN
      BY <1>1
   <2>2. (IF Inserted(a) THEN e ELSE row[a].env) \in BOOLEAN
      BY <2>1, Zenon
   <2> QED BY <2>2 DEF Statuses
<1>3. row' = [row EXCEPT ![a] = m]
   BY DEF UpsertAttempt
<1> HIDE DEF m
<1> QED BY <1>1, <1>2, <1>3 DEF Rows

LEMMA ScheduleIs ==
    ASSUME Typed, NEW a \in Attempts, NEW known \in BOOLEAN, NEW e \in BOOLEAN,
           Schedule(a, known, e)
    PROVE  /\ queue' \subseteq Item /\ IsFiniteSet(queue')
           /\ \E j \in Item : /\ j.sub = a[1] /\ j.no = a[2] /\ j.known = known /\ j.env = e
                              /\ RowOf(j) = a /\ queue' = queue \cup {j}
<1> DEFINE j == ItemOf(a, known, e)
<1>1. FreshId \in Nat
   BY FreshIsNat DEF Typed
<1>2. j \in Item /\ j.sub = a[1] /\ j.no = a[2] /\ j.known = known /\ j.env = e
   BY <1>1, AttemptParts DEF ItemOf, Item
<1>3. queue' = queue \cup {j}
   BY DEF Schedule
<1>4. RowOf(j) = a
   <2> HIDE DEF j
   <2> QED BY <1>2, AttemptParts DEF RowOf
<1> HIDE DEF j
<1>5. queue \subseteq Item /\ IsFiniteSet(queue)
   BY DEF Typed, DeliveryTypeOK, Finite
<1>6. IsFiniteSet(queue')
   BY <1>3, <1>5, FS_AddElement
<1> QED BY <1>2, <1>3, <1>4, <1>5, <1>6

LEMMA ContinueIs ==
    ASSUME Typed, NEW p \in Pollers, NEW batch \in SUBSET Item, IsFiniteSet(batch), Continue(p, batch)
    PROVE  /\ poller' \in [Pollers -> PollerState]
           /\ poller'[p].batch = batch /\ poller'[p].pc \in {"idle", "batch"} /\ poller'[p].at = {}
           /\ poller'[p].pc = "idle" => batch = {}
           /\ \A q \in Pollers : q # p => poller'[q] = poller[q]
           /\ \A q \in Pollers : IsFiniteSet(poller'[q].batch)
<1> DEFINE m == IF batch = {} THEN Idle ELSE [pc |-> "batch", batch |-> batch, at |-> {}]
<1>1. poller \in [Pollers -> PollerState]
   BY DEF Typed, DeliveryTypeOK, PollerState
<1>2. /\ m \in PollerState /\ m.batch = batch /\ m.pc \in {"idle", "batch"} /\ m.at = {}
      /\ m.pc = "idle" => batch = {}
   <2>1. CASE batch = {}
      BY <2>1 DEF PollerState, Idle
   <2>2. CASE batch # {}
      BY <2>2 DEF PollerState
   <2> QED BY <2>1, <2>2
<1>3. poller' = [poller EXCEPT ![p] = m]
   BY DEF Continue
<1> HIDE DEF m
<1>4. /\ poller' \in [Pollers -> PollerState] /\ poller'[p] = m
      /\ \A q \in Pollers : q # p => poller'[q] = poller[q]
   BY <1>1, <1>2, <1>3
<1>5. \A q \in Pollers : IsFiniteSet(poller'[q].batch)
   BY <1>2, <1>4 DEF Typed, Finite
<1> QED BY <1>2, <1>4, <1>5

LEMMA BatchLeft ==
    ASSUME Typed, NEW p \in Pollers, NEW i \in poller[p].batch
    PROVE  /\ i \in Item /\ poller[p].batch \ {i} \in SUBSET Item
           /\ IsFiniteSet(poller[p].batch \ {i})
<1>1. poller[p].batch \subseteq Item /\ IsFiniteSet(poller[p].batch)
   BY DEF Typed, DeliveryTypeOK, Finite
<1> QED BY <1>1, FS_RemoveElement

LEMMA RestIs ==
    ASSUME Typed, IdleIsEmpty, NEW p \in Pollers, NEW i \in poller[p].batch,
           poller[p].pc = "batch", Rest(p, i)
    PROVE  /\ i \in Item
           /\ poller' \in [Pollers -> PollerState]
           /\ poller'[p].batch = poller[p].batch \ {i}
           /\ \A q \in Pollers : q # p => poller'[q] = poller[q]
           /\ \A q \in Pollers : poller'[q].pc = "idle" => poller'[q].batch = {}
           /\ \A q \in Pollers : poller'[q].pc # "range" => poller[q].pc # "range"
           /\ \A q \in Pollers : IsFiniteSet(poller'[q].batch)
           /\ \A q \in Pollers : poller'[q].at \subseteq poller[q].at
<1>1. /\ poller' \in [Pollers -> PollerState]
      /\ poller'[p].batch = poller[p].batch \ {i} /\ poller'[p].at = {}
      /\ poller'[p].pc = "idle" => poller'[p].batch = {}
      /\ \A q \in Pollers : q # p => poller'[q] = poller[q]
      /\ \A q \in Pollers : IsFiniteSet(poller'[q].batch)
   BY BatchLeft, ContinueIs DEF Rest
<1>2. \A q \in Pollers : poller[q].pc = "idle" => poller[q].batch = {}
   BY DEF IdleIsEmpty
<1> QED BY <1>1, <1>2, BatchLeft

\* The answer o goes on as r.
Goes(o, r) == o \in out /\ r \in Out /\ out' = (out \ {o}) \cup {r}

LEMMA GoesIs ==
    ASSUME Typed, NEW o, NEW r, Goes(o, r)
    PROVE  out' \subseteq Out /\ IsFiniteSet(out')
<1>1. IsFiniteSet(out) /\ out \subseteq Out
   BY DEF Typed, DeliveryTypeOK, Finite
<1>2. IsFiniteSet(out \ {o})
   BY <1>1, FS_RemoveElement
<1>3. IsFiniteSet((out \ {o}) \cup {r})
   BY <1>2, FS_AddElement
<1> QED BY <1>1, <1>3 DEF Goes

LEMMA MoveIs ==
    ASSUME Typed, NEW o \in out, NEW stage \in Stages, Move(o, stage)
    PROVE  \E r \in Out : /\ Goes(o, r) /\ r.sub = o.sub /\ r.no = o.no /\ r.stage = stage
                          /\ r.known = o.known /\ o \in Out
<1> DEFINE r == [o EXCEPT !.stage = stage]
<1>1. o \in Out
   BY DEF Typed, DeliveryTypeOK
<1>2. r \in Out /\ r.sub = o.sub /\ r.no = o.no /\ r.stage = stage /\ r.known = o.known
   BY <1>1 DEF Out
<1>3. out' = (out \ {o}) \cup {r}
   BY DEF Move
<1> HIDE DEF r
<1> QED BY <1>1, <1>2, <1>3 DEF Goes

LEMMA OutParts ==
    ASSUME Typed, NEW o \in out
    PROVE  /\ o \in Out /\ o.sub \in Subscribers /\ o.no \in Nos /\ o.stage \in Stages
           /\ Of(o) \in Attempts /\ Of(o)[1] = o.sub /\ Of(o)[2] = o.no
BY AttemptPair DEF Typed, DeliveryTypeOK, Out, Of

LEMMA ItemParts ==
    ASSUME NEW i \in Item
    PROVE  /\ i.sub \in Subscribers /\ i.no \in Nos /\ i.known \in BOOLEAN /\ i.env \in BOOLEAN
           /\ RowOf(i) \in Attempts /\ RowOf(i)[1] = i.sub /\ RowOf(i)[2] = i.no
BY AttemptPair DEF Item, RowOf

LEMMA FoundIs ==
    ASSUME NEW i \in Item, NEW a \in Found(i)
    PROVE  /\ a \in Attempts /\ a[1] = i.sub /\ \A b \in Found(i) : b = a
           /\ i.known => a = RowOf(i)
           /\ ~i.known => /\ i.env /\ row[a].env /\ Made(a)
                          /\ \A n \in Nos : Made(<<i.sub, n>>) /\ row[<<i.sub, n>>].env => n <= a[2]
<1> DEFINE newest == {n \in Nos : row[<<i.sub, n>>].status # "none" /\ row[<<i.sub, n>>].env}
<1>1. CASE i.known
   BY <1>1, ItemParts DEF Found, RowOf
<1>2. CASE ~i.known
   <2> \A b \in Found(i) : b = a
      BY <1>2 DEF Found
   <2>1. i.env /\ newest # {} /\ a = <<i.sub, Max(newest)>>
      BY <1>2 DEF Found
   <2>2. newest \in SUBSET (1..MaxRetry) /\ MaxRetry \in Nat
      BY DeliveryAssumption DEF DeliveryAssumption, Nos
   <2>3. Max(newest) \in newest /\ \A n \in newest : n <= Max(newest)
      <3> HIDE DEF newest
      <3> QED BY <2>1, <2>2, LargestOf
   <2>4. a \in Attempts /\ a[1] = i.sub /\ a[2] = Max(newest)
      BY <2>1, <2>3, ItemParts, AttemptPair
   <2> QED BY <1>2, <2>1, <2>3, <2>4 DEF Made
<1> QED BY <1>1, <1>2, ItemParts

\* The fallback lookup finds an attempt that no later one has followed.
LEMMA NewestIsFound ==
    ASSUME NEW i \in Item, i.env, NEW a \in Attempts, a[1] = i.sub,
           Made(a)', row'[a].env, Newest(a)'
    PROVE  i.known \/ a \in Found(i)'
<1> SUFFICES ASSUME ~i.known PROVE a \in Found(i)'
   OBVIOUS
<1> DEFINE newest == {n \in Nos : row'[<<i.sub, n>>].status # "none" /\ row'[<<i.sub, n>>].env}
<1>1. a[2] \in newest /\ a = <<i.sub, a[2]>>
   BY AttemptParts DEF Made
<1>2. newest \in SUBSET (1..MaxRetry) /\ MaxRetry \in Nat
   BY DeliveryAssumption DEF DeliveryAssumption, Nos
<1>3. Max(newest) \in newest /\ \A n \in newest : n <= Max(newest)
   <2> HIDE DEF newest
   <2> QED BY <1>1, <1>2, LargestOf
<1>4. \A n \in newest : ~ (n > a[2])
   BY DEF Newest
<1>5. Max(newest) = a[2]
   <2>1. Max(newest) \in Nat /\ a[2] \in Nat
      <3>1. newest \subseteq Nat
         BY <1>2
      <3> HIDE DEF newest
      <3> QED BY <1>3, <3>1, AttemptParts
   <2>2. a[2] <= Max(newest) /\ ~ (Max(newest) > a[2])
      BY <1>1, <1>3, <1>4
   <2> HIDE DEF newest
   <2> QED BY <2>1, <2>2
<1>6. Found(i)' = {<<i.sub, Max(newest)>>}
   BY <1>1 DEF Found
<1> QED BY <1>1, <1>5, <1>6

LEMMA ReleaseIs ==
    ASSUME Typed, NEW a \in Attempts, ReleaseLease(a)
    PROVE  /\ instance' \in [Attempts -> {"none", "held", "extended"}]
           /\ counter' \in [Subscribers -> 0..1]
<1>1. /\ instance \in [Attempts -> {"none", "held", "extended"}]
      /\ counter \in [Subscribers -> 0..1] /\ a[1] \in Subscribers
   BY AttemptParts DEF Typed, DeliveryTypeOK
<1> QED BY <1>1 DEF ReleaseLease

LEMMA AcquireIs ==
    ASSUME Typed, NEW a \in Attempts, AcquireLease(a)
    PROVE  /\ instance' \in [Attempts -> {"none", "held", "extended"}]
           /\ counter' \in [Subscribers -> 0..1]
<1>1. /\ instance \in [Attempts -> {"none", "held", "extended"}]
      /\ counter \in [Subscribers -> 0..1] /\ a[1] \in Subscribers
   BY AttemptParts DEF Typed, DeliveryTypeOK
<1> QED BY <1>1 DEF AcquireLease

LEMMA BrieflyIs ==
    ASSUME Typed, NEW a \in Attempts, LeaseBriefly(a)
    PROVE  /\ instance' \in [Attempts -> {"none", "held", "extended"}]
           /\ counter' \in [Subscribers -> 0..1]
<1>1. /\ instance \in [Attempts -> {"none", "held", "extended"}]
      /\ counter \in [Subscribers -> 0..1]
   BY DEF Typed, DeliveryTypeOK
<1> QED BY <1>1, ReleaseIs DEF LeaseBriefly

-----------------------------------------------------------------------------
(* Types.                                                                  *)
LEMMA TypedParts ==
    ASSUME env' \in Statuses, row' \in Rows, queue' \subseteq Item, IsFiniteSet(queue'),
           out' \subseteq Out, IsFiniteSet(out'),
           instance' \in [Attempts -> {"none", "held", "extended"}],
           counter' \in [Subscribers -> 0..1], dlq' \in [Attempts -> Nat],
           poller' \in [Pollers -> PollerState],
           \A p \in Pollers : IsFiniteSet(poller'[p].batch),
           \A p \in Pollers : poller'[p].pc = "idle" => poller'[p].batch = {},
           publisher' \in [Publishers -> [todo : SUBSET Subscribers, known : BOOLEAN]],
           faults' \subseteq AnyFault, setup' \in Setups
    PROVE  Typed' /\ IdleIsEmpty'
<1>1. DeliveryTypeOK'
   BY DEF DeliveryTypeOK, Rows, PollerState, AnyFault
<1>2. Finite'
   BY DEF Finite
<1>3. IdleIsEmpty'
   BY DEF IdleIsEmpty
<1> QED BY <1>1, <1>2, <1>3 DEF Typed

LEMMA TypedNow ==
    ASSUME Typed, IdleIsEmpty
    PROVE  /\ env \in Statuses /\ row \in Rows /\ queue \subseteq Item /\ IsFiniteSet(queue)
           /\ out \subseteq Out /\ IsFiniteSet(out)
           /\ instance \in [Attempts -> {"none", "held", "extended"}]
           /\ counter \in [Subscribers -> 0..1] /\ dlq \in [Attempts -> Nat]
           /\ poller \in [Pollers -> PollerState]
           /\ \A p \in Pollers : IsFiniteSet(poller[p].batch)
           /\ \A p \in Pollers : poller[p].pc = "idle" => poller[p].batch = {}
           /\ publisher \in [Publishers -> [todo : SUBSET Subscribers, known : BOOLEAN]]
           /\ faults \subseteq AnyFault /\ setup \in Setups
BY DEF Typed, DeliveryTypeOK, Finite, IdleIsEmpty, Rows, PollerState, AnyFault

LEMMA FaultIs ==
    ASSUME Typed, NEW kind \in AnyFault, Fault(kind)
    PROVE  faults' = faults \cup {kind} /\ faults' \subseteq AnyFault
BY DEF Fault, Typed, DeliveryTypeOK, AnyFault

\* PublishEnvelope: the first one has the UUID of the row.
LEMMA PublishEnvelopeIs ==
    ASSUME Typed, IdleIsEmpty, NEW b \in Publishers, PublishEnvelope(b)
    PROVE  /\ Typed' /\ IdleIsEmpty'
           /\ row' = row /\ queue' = queue /\ dlq' = dlq /\ poller' = poller /\ out' = out
           /\ env' = "pending"
           /\ faults' = faults \/ faults' = faults \cup {"republish"}
           /\ env # "none" => "republish" \in faults'
           /\ publisher'[b].known = (env = "none")
           /\ \A c \in Publishers : c # b => publisher'[c] = publisher[c]
<1> DEFINE m == [todo |-> setup.subs, known |-> env = "none"]
<1>1. setup.subs \subseteq Subscribers
   BY DeliveryAssumption, TypedNow DEF DeliveryAssumption, SetupOK
<1>2. m \in [todo : SUBSET Subscribers, known : BOOLEAN] /\ m.known = (env = "none")
   BY <1>1
<1>3. publisher' = [publisher EXCEPT ![b] = m]
   BY DEF PublishEnvelope
<1> HIDE DEF m
<1>4. /\ publisher' \in [Publishers -> [todo : SUBSET Subscribers, known : BOOLEAN]]
      /\ publisher'[b] = m
      /\ \A c \in Publishers : c # b => publisher'[c] = publisher[c]
   BY <1>2, <1>3, TypedNow
<1>5. /\ faults' = faults \/ faults' = faults \cup {"republish"}
      /\ faults' \subseteq AnyFault
      /\ env # "none" => "republish" \in faults'
   <2>1. CASE env = "none"
      BY <2>1, TypedNow DEF PublishEnvelope
   <2>2. CASE env # "none"
      <3>1. Fault("republish")
         BY <2>2 DEF PublishEnvelope
      <3> QED BY <3>1, FaultIs DEF AnyFault
   <2> QED BY <2>1, <2>2
<1>6. /\ UNCHANGED <<row, queue, instance, counter, dlq, poller, out, setup>>
      /\ env' = "pending" /\ env' \in Statuses
   BY DEF PublishEnvelope, Statuses
<1>7. Typed' /\ IdleIsEmpty'
   BY <1>4, <1>5, <1>6, TypedNow, TypedParts
<1> QED BY <1>2, <1>4, <1>5, <1>6, <1>7

LEMMA PublishAttemptIs ==
    ASSUME Typed, IdleIsEmpty, NEW b \in Publishers, NEW s \in Subscribers, PublishAttempt(b, s)
    PROVE  /\ Typed' /\ IdleIsEmpty'
           /\ UNCHANGED <<env, dlq, poller, out, faults>>
           /\ s \in publisher[b].todo
           /\ \E a \in Attempts, j \in Item :
                 /\ a = <<s, 1>> /\ a[1] = s /\ a[2] = 1
                 /\ row'[a].status = "pending"
                 /\ row'[a].env = (IF Made(a) THEN row[a].env ELSE publisher[b].known)
                 /\ \A c \in Attempts : c # a => row'[c] = row[c]
                 /\ j.sub = s /\ j.known = ~Made(a) /\ j.env = publisher[b].known
                 /\ RowOf(j) = a /\ queue' = queue \cup {j}
           /\ publisher'[b].known = publisher[b].known
           /\ publisher'[b].todo = publisher[b].todo \ {s}
           /\ \A c \in Publishers : c # b => publisher'[c] = publisher[c]
<1> DEFINE a == <<s, 1>>
<1>1. a \in Attempts /\ a[1] = s /\ a[2] = 1
   BY AttemptPair, DeliveryAssumption DEF Nos, DeliveryAssumption
<1>2. publisher[b].known \in BOOLEAN /\ publisher[b].todo \subseteq Subscribers
   BY TypedNow
<1>3. /\ row' \in Rows /\ row'[a].status = "pending"
      /\ row'[a].env = (IF Made(a) THEN row[a].env ELSE publisher[b].known)
      /\ \A c \in Attempts : c # a => row'[c] = row[c]
   <2>1. UpsertAttempt(a, publisher[b].known)
      BY DEF PublishAttempt
   <2> HIDE DEF a
   <2> QED BY <1>1, <1>2, <2>1, UpsertIs DEF Typed, Inserted, Made
<1>4. Inserted(a) \in BOOLEAN /\ Inserted(a) = ~Made(a)
   BY DEF Inserted, Made
<1>5. /\ queue' \subseteq Item /\ IsFiniteSet(queue')
      /\ \E j \in Item : /\ j.sub = s /\ j.known = ~Made(a) /\ j.env = publisher[b].known
                         /\ RowOf(j) = a /\ queue' = queue \cup {j}
   <2>1. Schedule(a, Inserted(a), publisher[b].known)
      BY DEF PublishAttempt
   <2> HIDE DEF a
   <2> QED BY <1>1, <1>2, <1>4, <2>1, ScheduleIs
<1>6. /\ publisher' \in [Publishers -> [todo : SUBSET Subscribers, known : BOOLEAN]]
      /\ publisher'[b].known = publisher[b].known
      /\ publisher'[b].todo = publisher[b].todo \ {s}
      /\ \A c \in Publishers : c # b => publisher'[c] = publisher[c]
   <2> DEFINE m == [publisher[b] EXCEPT !.todo = @ \ {s}]
   <2>1. /\ m \in [todo : SUBSET Subscribers, known : BOOLEAN] /\ m.known = publisher[b].known
         /\ m.todo = publisher[b].todo \ {s}
      <3>1. publisher[b] \in [todo : SUBSET Subscribers, known : BOOLEAN]
         BY TypedNow
      <3> QED BY <3>1
   <2>2. publisher' = [publisher EXCEPT ![b] = m]
      BY DEF PublishAttempt
   <2> HIDE DEF m
   <2> QED BY <2>1, <2>2, TypedNow
<1>7. UNCHANGED <<env, instance, counter, dlq, poller, out, setup, faults>> /\ s \in publisher[b].todo
   BY DEF PublishAttempt
<1>10. a = <<s, 1>>
   OBVIOUS
<1> HIDE DEF a
<1>8. Typed' /\ IdleIsEmpty'
   BY <1>3, <1>5, <1>6, <1>7, TypedNow, TypedParts
<1>9. PICK j \in Item : /\ j.sub = s /\ j.known = ~Made(a) /\ j.env = publisher[b].known
                        /\ RowOf(j) = a /\ queue' = queue \cup {j}
   BY <1>5
<1> QED BY <1>1, <1>3, <1>6, <1>7, <1>8, <1>9, <1>10

LEMMA PopRangeIs ==
    ASSUME Typed, IdleIsEmpty, NEW p \in Pollers, NEW batch \in SUBSET queue, PopRange(p, batch)
    PROVE  /\ Typed' /\ IdleIsEmpty'
           /\ UNCHANGED <<env, row, queue, dlq, publisher, out>>
           /\ batch # {}
           /\ \/ faults' = faults /\ batch \cap InBatches = {}
              \/ faults' = faults \cup {"race"}
           /\ poller[p].pc = "idle" /\ poller[p].batch = {}
           /\ poller'[p].batch = batch /\ poller'[p].pc = "range"
           /\ \A q \in Pollers : q # p => poller'[q] = poller[q]
<1> DEFINE m == [pc |-> "range", batch |-> batch, at |-> {}]
<1>1. m \in PollerState /\ m.batch = batch /\ m.pc = "range"
   BY TypedNow DEF PollerState
<1>2. poller' = [poller EXCEPT ![p] = m]
   BY DEF PopRange
<1> HIDE DEF m
<1>3. /\ poller' \in [Pollers -> PollerState] /\ poller'[p] = m
      /\ \A q \in Pollers : q # p => poller'[q] = poller[q]
   BY <1>1, <1>2, TypedNow
<1>4. IsFiniteSet(batch)
   BY TypedNow, FS_Subset
<1>5. \A q \in Pollers : IsFiniteSet(poller'[q].batch)
   BY <1>1, <1>3, <1>4, TypedNow
<1>6. /\ \/ faults' = faults /\ batch \cap InBatches = {}
         \/ faults' = faults \cup {"race"}
      /\ faults' \subseteq AnyFault
   <2>1. CASE batch \cap InBatches = {}
      BY <2>1, TypedNow DEF PopRange
   <2>2. CASE batch \cap InBatches # {}
      <3>1. Fault("race")
         BY <2>2 DEF PopRange
      <3> QED BY <3>1, FaultIs DEF AnyFault
   <2> QED BY <2>1, <2>2
<1>7. /\ UNCHANGED <<env, row, queue, instance, counter, dlq, publisher, out, setup>>
      /\ poller[p].pc = "idle" /\ batch # {}
   BY DEF PopRange
<1>8. \A q \in Pollers : poller'[q].pc = "idle" => poller'[q].batch = {}
   BY <1>1, <1>3, TypedNow
<1>9. Typed' /\ IdleIsEmpty'
   BY <1>3, <1>5, <1>6, <1>7, <1>8, TypedNow, TypedParts
<1> QED BY <1>1, <1>3, <1>6, <1>7, <1>9, TypedNow

LEMMA PopRemoveIs ==
    ASSUME Typed, IdleIsEmpty, NEW p \in Pollers, PopRemove(p)
    PROVE  /\ Typed' /\ IdleIsEmpty'
           /\ UNCHANGED <<env, row, dlq, publisher, out, faults>>
           /\ queue' = queue \ poller[p].batch
           /\ poller[p].pc = "range"
           /\ poller'[p].batch = poller[p].batch /\ poller'[p].pc = "batch"
           /\ \A q \in Pollers : q # p => poller'[q] = poller[q]
<1> DEFINE m == [poller[p] EXCEPT !.pc = "batch"]
<1>1. m \in PollerState /\ m.batch = poller[p].batch /\ m.pc = "batch"
   <2>1. poller[p] \in PollerState
      BY TypedNow
   <2> QED BY <2>1 DEF PollerState
<1>2. poller' = [poller EXCEPT ![p] = m]
   BY DEF PopRemove
<1> HIDE DEF m
<1>3. /\ poller' \in [Pollers -> PollerState] /\ poller'[p] = m
      /\ \A q \in Pollers : q # p => poller'[q] = poller[q]
   BY <1>1, <1>2, TypedNow
<1>4. \A q \in Pollers : IsFiniteSet(poller'[q].batch)
   BY <1>1, <1>3, TypedNow
<1>5. /\ UNCHANGED <<env, row, instance, counter, dlq, publisher, out, setup, faults>>
      /\ poller[p].pc = "range" /\ queue' = queue \ poller[p].batch
   BY DEF PopRemove
<1>6. IsFiniteSet(queue') /\ queue' \subseteq Item
   BY <1>5, TypedNow, FS_Difference
<1>7. \A q \in Pollers : poller'[q].pc = "idle" => poller'[q].batch = {}
   BY <1>1, <1>3, TypedNow
<1>8. Typed' /\ IdleIsEmpty'
   BY <1>3, <1>4, <1>5, <1>6, <1>7, TypedNow, TypedParts
<1> QED BY <1>1, <1>3, <1>5, <1>8

\* What a poller, a row update and a new queue item do to the state.
Took(p, i) ==
    /\ i \in Item /\ poller[p].pc = "batch" /\ i \in poller[p].batch
    /\ poller'[p].batch = poller[p].batch \ {i}
    /\ \A q \in Pollers : q # p => poller'[q] = poller[q]
    /\ \A q \in Pollers : poller'[q].pc # "range" => poller[q].pc # "range"
RowSet(a, status) ==
    /\ row'[a].status = status /\ row'[a].env = row[a].env
    /\ \A b \in Attempts : b # a => row'[b] = row[b]
Queues(j, a) == j \in Item /\ RowOf(j) = a /\ j.sub = a[1] /\ j.no = a[2] /\ queue' = queue \cup {j}

LEMMA PollSkipIs ==
    ASSUME Typed, IdleIsEmpty, NEW p \in Pollers, NEW i \in poller[p].batch, PollSkip(p, i)
    PROVE  /\ Typed' /\ IdleIsEmpty' /\ Took(p, i)
           /\ UNCHANGED <<env, row, queue, dlq, publisher, out, faults>>
           /\ \A a \in Found(i) : ~row[a].env
<1>1. /\ poller[p].pc = "batch" /\ Rest(p, i) /\ \A a \in Found(i) : ~row[a].env
      /\ UNCHANGED <<env, row, queue, instance, counter, dlq, publisher, out, setup, faults>>
   BY DEF PollSkip
<1>2. Typed' /\ IdleIsEmpty'
   BY <1>1, RestIs, TypedNow, TypedParts
<1> QED BY <1>1, <1>2, RestIs DEF Took

LEMMA PollRescheduleIs ==
    ASSUME Typed, IdleIsEmpty, NEW p \in Pollers, NEW i \in poller[p].batch, PollReschedule(p, i)
    PROVE  /\ Typed' /\ IdleIsEmpty' /\ Took(p, i)
           /\ UNCHANGED <<env, row, dlq, publisher, out, faults>>
           /\ \E a \in Found(i) : /\ a \in Attempts /\ row[a].env
                                  /\ \E j \in Item : j.known /\ j.env /\ Queues(j, a)
<1>1. /\ poller[p].pc = "batch" /\ Rest(p, i)
      /\ UNCHANGED <<env, row, instance, counter, dlq, publisher, out, setup, faults>>
      /\ \E a \in Found(i) : row[a].env /\ Schedule(a, TRUE, TRUE)
   BY DEF PollReschedule
<1>2. PICK a \in Found(i) : row[a].env /\ Schedule(a, TRUE, TRUE)
   BY <1>1
<1>3. i \in Item /\ a \in Attempts
   BY <1>1, RestIs, FoundIs
<1>4. queue' \subseteq Item /\ IsFiniteSet(queue')
   BY <1>2, <1>3, ScheduleIs
<1>5. \E j \in Item : j.known /\ j.env /\ Queues(j, a)
   BY <1>2, <1>3, ScheduleIs DEF Queues
<1>6. Typed' /\ IdleIsEmpty'
   BY <1>1, <1>4, RestIs, TypedNow, TypedParts
<1> QED BY <1>1, <1>2, <1>3, <1>5, <1>6, RestIs DEF Took

LEMMA PollDeliverIs ==
    ASSUME Typed, IdleIsEmpty, NEW p \in Pollers, NEW i \in poller[p].batch, PollDeliver(p, i)
    PROVE  /\ Typed' /\ IdleIsEmpty' /\ Took(p, i)
           /\ UNCHANGED <<env, queue, dlq, publisher, faults>>
           /\ \E a \in Found(i) :
                 /\ a \in Attempts /\ row[a].env /\ RowSet(a, "delivering")
                 /\ \E o \in Out : /\ Of(o) = a /\ o.sub = a[1] /\ o.no = a[2] /\ o.stage = "out"
                                   /\ out' = out \cup {o}
<1>1. PICK a \in Found(i) :
         /\ Leased(p, i, a) /\ AcquireLease(a) /\ SetRow(a, "delivering")
         /\ out' = out \cup {[id |-> FreshId, sub |-> a[1], no |-> a[2], stage |-> "out",
                              active |-> FALSE, known |-> TRUE, worker |-> setup.filter[p] = "any"]}
   BY DEF PollDeliver
<1>2. UNCHANGED <<env, queue, dlq, publisher, setup, faults>>
   BY DEF PollDeliver
<1>3. poller[p].pc = "batch" /\ Rest(p, i) /\ row[a].env
   BY <1>1 DEF Leased, PollDeliver
<1>4. i \in Item /\ a \in Attempts /\ DeliveryTypeOK /\ "delivering" \in Statuses
   BY <1>3, RestIs, FoundIs DEF Typed, Statuses
<1>5. row' \in Rows /\ RowSet(a, "delivering")
   BY <1>1, <1>4, SetRowIs DEF RowSet
<1> DEFINE o == [id |-> FreshId, sub |-> a[1], no |-> a[2], stage |-> "out",
                 active |-> FALSE, known |-> TRUE, worker |-> setup.filter[p] = "any"]
<1>6. o \in Out /\ o.sub = a[1] /\ o.no = a[2] /\ o.stage = "out" /\ out' = out \cup {o}
   BY <1>1, <1>4, FreshIsNat, AttemptParts DEF Typed, Out, Stages
<1> HIDE DEF o
<1>7. Of(o) = a
   BY <1>4, <1>6, AttemptParts DEF Of
<1>8. out' \subseteq Out /\ IsFiniteSet(out')
   BY <1>6, TypedNow, FS_AddElement
<1>9. /\ instance' \in [Attempts -> {"none", "held", "extended"}]
      /\ counter' \in [Subscribers -> 0..1]
   BY <1>1, <1>4, AcquireIs
<1>10. Typed' /\ IdleIsEmpty'
   BY <1>2, <1>3, <1>5, <1>8, <1>9, RestIs, TypedNow, TypedParts
<1> QED BY <1>2, <1>3, <1>4, <1>5, <1>6, <1>7, <1>10, RestIs DEF Took

LEMMA PollOtherTopicIs ==
    ASSUME Typed, IdleIsEmpty, NEW p \in Pollers, NEW i \in poller[p].batch, PollOtherTopic(p, i)
    PROVE  /\ Typed' /\ IdleIsEmpty' /\ Took(p, i)
           /\ UNCHANGED <<env, dlq, publisher, out, faults>>
           /\ \E a \in Found(i) : /\ a \in Attempts /\ row[a].env /\ RowSet(a, "delivering")
                                  /\ poller'[p].at = {a}
                                  /\ \E j \in Item : j.known /\ j.env /\ Queues(j, a)
<1>1. PICK a \in Found(i) :
         /\ Leased(p, i, a) /\ AcquireLease(a) /\ SetRow(a, "delivering") /\ Schedule(a, TRUE, TRUE)
         /\ poller' = [poller EXCEPT ![p] = [pc |-> "revert", batch |-> @.batch \ {i}, at |-> {a}]]
   BY DEF PollOtherTopic
<1>2. UNCHANGED <<env, dlq, publisher, out, setup, faults>>
   BY DEF PollOtherTopic
<1>3. poller[p].pc = "batch" /\ row[a].env
   BY <1>1 DEF Leased
<1>4. i \in Item /\ a \in Attempts /\ DeliveryTypeOK /\ "delivering" \in Statuses
   BY <1>3, BatchLeft, FoundIs DEF Typed, Statuses
<1>5. row' \in Rows /\ RowSet(a, "delivering")
   BY <1>1, <1>4, SetRowIs DEF RowSet
<1>6. queue' \subseteq Item /\ IsFiniteSet(queue')
   BY <1>1, <1>4, ScheduleIs
<1>7. \E j \in Item : j.known /\ j.env /\ Queues(j, a)
   BY <1>1, <1>4, ScheduleIs DEF Queues
<1>8. /\ instance' \in [Attempts -> {"none", "held", "extended"}]
      /\ counter' \in [Subscribers -> 0..1]
   BY <1>1, <1>4, AcquireIs
<1> DEFINE m == [pc |-> "revert", batch |-> poller[p].batch \ {i}, at |-> {a}]
<1>9. /\ m \in PollerState /\ m.pc = "revert" /\ m.batch = poller[p].batch \ {i} /\ m.at = {a}
      /\ poller' = [poller EXCEPT ![p] = m]
   BY <1>1, <1>4, BatchLeft DEF PollerState
<1> HIDE DEF m
<1>10. /\ poller' \in [Pollers -> PollerState] /\ poller'[p] = m
       /\ \A q \in Pollers : q # p => poller'[q] = poller[q]
   BY <1>9, TypedNow
<1>11. /\ \A q \in Pollers : IsFiniteSet(poller'[q].batch)
       /\ \A q \in Pollers : poller'[q].pc = "idle" => poller'[q].batch = {}
   <2>1. IsFiniteSet(m.batch) /\ m.pc # "idle"
      BY <1>9, BatchLeft
   <2> QED BY <1>10, <2>1, TypedNow
<1>12. Typed' /\ IdleIsEmpty'
   BY <1>2, <1>5, <1>6, <1>8, <1>10, <1>11, TypedNow, TypedParts
<1>13. Took(p, i) /\ poller'[p].at = {a}
   BY <1>3, <1>4, <1>9, <1>10 DEF Took
<1> QED BY <1>2, <1>3, <1>4, <1>5, <1>7, <1>12, <1>13

\* A poller p that goes on with its batch, and no longer reads.
Steps(p) ==
    /\ poller'[p].batch = poller[p].batch /\ poller'[p].at \subseteq poller[p].at
    /\ poller[p].pc # "range" /\ \A q \in Pollers : q # p => poller'[q] = poller[q]

\* The late write of "pending".
LEMMA PollRevertIs ==
    ASSUME Typed, IdleIsEmpty, NEW p \in Pollers, PollRevert(p)
    PROVE  /\ Typed' /\ IdleIsEmpty' /\ Steps(p) /\ poller[p].pc # "idle"
           /\ UNCHANGED <<env, queue, dlq, publisher, out>> /\ faults \subseteq faults'
           /\ \E a \in poller[p].at :
                 /\ a \in Attempts /\ RowSet(a, "pending")
                 /\ row[a].status \notin ActiveStatuses => "overtaken" \in faults'
<1>1. PICK a \in poller[p].at :
         /\ SetRow(a, "pending")
         /\ faults' = IF row[a].status \in ActiveStatuses THEN faults ELSE faults \cup {"overtaken"}
   BY DEF PollRevert
<1>2. /\ UNCHANGED <<env, queue, instance, counter, dlq, publisher, out, setup>>
      /\ poller[p].pc = "revert" /\ poller' = [poller EXCEPT ![p].pc = "release"]
   BY DEF PollRevert
<1>3. a \in Attempts /\ DeliveryTypeOK /\ "pending" \in Statuses
   BY DEF Typed, DeliveryTypeOK, Statuses
<1>4. row' \in Rows /\ RowSet(a, "pending")
   BY <1>1, <1>3, SetRowIs DEF RowSet
<1>5. faults' \subseteq AnyFault
   BY <1>1, TypedNow DEF AnyFault
<1> DEFINE m == [poller[p] EXCEPT !.pc = "release"]
<1>6. /\ m \in PollerState /\ m.pc = "release" /\ m.batch = poller[p].batch /\ m.at = poller[p].at
      /\ poller' = [poller EXCEPT ![p] = m]
   <2>1. poller[p] \in PollerState
      BY TypedNow
   <2> QED BY <1>2, <2>1 DEF PollerState
<1> HIDE DEF m
<1>7. /\ poller' \in [Pollers -> PollerState] /\ poller'[p] = m
      /\ \A q \in Pollers : q # p => poller'[q] = poller[q]
   BY <1>6, TypedNow
<1>8. /\ \A q \in Pollers : IsFiniteSet(poller'[q].batch)
      /\ \A q \in Pollers : poller'[q].pc = "idle" => poller'[q].batch = {}
   BY <1>6, <1>7, TypedNow
<1>9. Typed' /\ IdleIsEmpty'
   BY <1>2, <1>4, <1>5, <1>7, <1>8, TypedNow, TypedParts
<1>10. Steps(p)
   BY <1>2, <1>6, <1>7 DEF Steps
<1> QED BY <1>1, <1>2, <1>3, <1>4, <1>9, <1>10

LEMMA PollReleaseIs ==
    ASSUME Typed, IdleIsEmpty, NEW p \in Pollers, PollRelease(p)
    PROVE  /\ Typed' /\ IdleIsEmpty' /\ Steps(p) /\ poller[p].pc # "idle"
           /\ UNCHANGED <<env, row, queue, dlq, publisher, out, faults>>
<1>1. /\ UNCHANGED <<env, row, queue, dlq, publisher, out, setup, faults>>
      /\ poller[p].pc = "release" /\ Continue(p, poller[p].batch)
      /\ \E a \in poller[p].at : ReleaseLease(a)
   BY DEF PollRelease
<1>2. PICK a \in poller[p].at : ReleaseLease(a)
   BY <1>1
<1>3. a \in Attempts
   BY DEF Typed, DeliveryTypeOK
<1>4. /\ instance' \in [Attempts -> {"none", "held", "extended"}]
      /\ counter' \in [Subscribers -> 0..1]
   BY <1>2, <1>3, ReleaseIs
<1>5. poller[p].batch \in SUBSET Item /\ IsFiniteSet(poller[p].batch)
   BY DEF Typed, DeliveryTypeOK, Finite
<1>6. /\ poller' \in [Pollers -> PollerState]
      /\ poller'[p].batch = poller[p].batch /\ poller'[p].at = {}
      /\ poller'[p].pc = "idle" => poller'[p].batch = {}
      /\ \A q \in Pollers : q # p => poller'[q] = poller[q]
      /\ \A q \in Pollers : IsFiniteSet(poller'[q].batch)
   BY <1>1, <1>5, ContinueIs
<1>7. \A q \in Pollers : poller'[q].pc = "idle" => poller'[q].batch = {}
   BY <1>6, TypedNow
<1>8. Typed' /\ IdleIsEmpty'
   BY <1>1, <1>4, <1>6, <1>7, TypedNow, TypedParts
<1> QED BY <1>1, <1>6, <1>8 DEF Steps

\* A poll that fails loses items of its batch and deliveries, never an answer.
Drops(p) ==
    /\ \A q \in Pollers : /\ poller'[q].batch \subseteq poller[q].batch
                          /\ poller'[q].at \subseteq poller[q].at
                          /\ poller'[q].pc # "range" => poller[q].pc # "range" \/ poller'[q].batch = {}
    /\ out' \subseteq out /\ \A o \in out : o.stage # "out" => o \in out'

LEMMA PollFailsIs ==
    ASSUME Typed, IdleIsEmpty, NEW p \in Pollers, PollFails(p)
    PROVE  /\ Typed' /\ IdleIsEmpty' /\ Drops(p) /\ poller[p].pc # "idle"
           /\ UNCHANGED <<env, row, queue, dlq, publisher>> /\ faults' = faults \cup {"error"}
<1>1. /\ UNCHANGED <<env, row, queue, dlq, publisher, setup>>
      /\ poller[p].pc # "idle" /\ Fault("error") /\ poller' = [poller EXCEPT ![p] = Idle]
   BY DEF PollFails
<1>2. PICK lost \in SUBSET {o \in out : o.stage = "out"} : out' = out \ lost
   BY DEF PollFails
<1>3. out' \subseteq Out /\ IsFiniteSet(out')
   BY <1>2, TypedNow, FS_Difference
<1>4. /\ instance' \in [Attempts -> {"none", "held", "extended"}]
      /\ counter' \in [Subscribers -> 0..1]
   <2>1. CASE UNCHANGED <<instance, counter>>
      BY <2>1, TypedNow
   <2>2. CASE \E i \in poller[p].batch : \E a \in Found(i) : AcquireLease(a)
      <3>1. PICK i \in poller[p].batch : \E a \in Found(i) : AcquireLease(a)
         BY <2>2
      <3>2. PICK a \in Found(i) : AcquireLease(a)
         BY <3>1
      <3> QED BY <3>2, BatchLeft, FoundIs, AcquireIs
   <2> QED BY <2>1, <2>2 DEF PollFails
<1>5. Idle \in PollerState /\ Idle.pc = "idle" /\ Idle.batch = {} /\ Idle.at = {}
   BY DEF Idle, PollerState
<1>6. /\ poller' \in [Pollers -> PollerState] /\ poller'[p] = Idle
      /\ \A q \in Pollers : q # p => poller'[q] = poller[q]
   BY <1>1, <1>5, TypedNow
<1>7. /\ \A q \in Pollers : IsFiniteSet(poller'[q].batch)
      /\ \A q \in Pollers : poller'[q].pc = "idle" => poller'[q].batch = {}
   BY <1>5, <1>6, TypedNow, FS_EmptySet
<1>8. "error" \in AnyFault
   BY DEF AnyFault
<1>9. Typed' /\ IdleIsEmpty'
   BY <1>1, <1>3, <1>4, <1>6, <1>7, <1>8, FaultIs, TypedNow, TypedParts
<1>10. Drops(p)
   BY <1>2, <1>5, <1>6 DEF Drops
<1> QED BY <1>1, <1>8, <1>9, <1>10, FaultIs

LEMMA PollLosesIs ==
    ASSUME Typed, IdleIsEmpty, NEW p \in Pollers, NEW i \in poller[p].batch, PollLoses(p, i)
    PROVE  /\ Typed' /\ IdleIsEmpty' /\ Drops(p) /\ poller[p].pc # "idle"
           /\ UNCHANGED <<env, row, queue, dlq, publisher>> /\ faults' = faults \cup {"error"}
<1>1. /\ UNCHANGED <<env, row, queue, instance, counter, dlq, publisher, out, setup>>
      /\ poller[p].pc = "batch" /\ Fault("error") /\ Rest(p, i) /\ "error" \in AnyFault
   BY DEF PollLoses, AnyFault
<1>2. Typed' /\ IdleIsEmpty'
   BY <1>1, FaultIs, RestIs, TypedNow, TypedParts
<1>3. Drops(p)
   <2>1. \A q \in Pollers : poller'[q].batch \subseteq poller[q].batch
      BY <1>1, RestIs
   <2> QED BY <1>1, <2>1, RestIs DEF Drops
<1> QED BY <1>1, <1>2, <1>3, FaultIs

\* One more dead letter of an attempt.
Buries(a) == /\ dlq'[a] = dlq[a] + 1
             /\ \A b \in Attempts : b # a => dlq'[b] = dlq[b]

LEMMA PollIncompatibleIs ==
    ASSUME Typed, IdleIsEmpty, NEW p \in Pollers, NEW i \in poller[p].batch, PollIncompatible(p, i)
    PROVE  /\ Typed' /\ IdleIsEmpty' /\ Took(p, i)
           /\ UNCHANGED <<queue, publisher, out, faults>> /\ env' = "failed"
           /\ \E a \in Found(i) : /\ a \in Attempts /\ row[a].env /\ RowSet(a, "failed")
                                  /\ Buries(a)
<1>1. PICK a \in Found(i) : /\ Leased(p, i, a) /\ LeaseBriefly(a)
                            /\ SetRow(a, "failed") /\ env' = "failed"
                            /\ dlq' = [dlq EXCEPT ![a] = @ + 1]
   BY DEF PollIncompatible
<1>2. UNCHANGED <<queue, publisher, out, setup, faults>>
   BY DEF PollIncompatible
<1>3. poller[p].pc = "batch" /\ Rest(p, i) /\ row[a].env
   BY <1>1 DEF Leased, PollIncompatible
<1>4. /\ i \in Item /\ a \in Attempts /\ DeliveryTypeOK /\ "failed" \in Statuses
      /\ env' \in Statuses
   BY <1>1, <1>3, RestIs, FoundIs DEF Typed, Statuses
<1>5. row' \in Rows /\ RowSet(a, "failed")
   BY <1>1, <1>4, SetRowIs DEF RowSet
<1>6. dlq' \in [Attempts -> Nat] /\ Buries(a)
   BY <1>1, <1>4, TypedNow DEF Buries
<1>7. /\ instance' \in [Attempts -> {"none", "held", "extended"}]
      /\ counter' \in [Subscribers -> 0..1]
   BY <1>1, <1>4, BrieflyIs
<1>8. Typed' /\ IdleIsEmpty'
   BY <1>2, <1>3, <1>4, <1>5, <1>6, <1>7, RestIs, TypedNow, TypedParts
<1> QED BY <1>1, <1>2, <1>3, <1>4, <1>5, <1>6, <1>8, RestIs DEF Took

Moves(o, r, stage) ==
    o \in Out /\ Goes(o, r) /\ r.sub = o.sub /\ r.no = o.no /\ r.stage = stage
Leaves(o) == o \in out /\ out' = out \ {o}

LEMMA AckIs ==
    ASSUME Typed, IdleIsEmpty, NEW o \in out, Ack(o)
    PROVE  /\ Typed' /\ IdleIsEmpty'
           /\ UNCHANGED <<env, queue, dlq, poller, publisher, faults>>
           /\ o.stage = "out" /\ RowSet(Of(o), "succeeded")
           /\ \E r \in Out : Moves(o, r, "count")
<1>1. /\ UNCHANGED <<env, queue, instance, counter, dlq, poller, publisher, setup, faults>>
      /\ o.stage = "out" /\ SetRow(Of(o), "succeeded") /\ Move(o, "count")
   BY DEF Ack
<1>2. row' \in Rows /\ RowSet(Of(o), "succeeded")
   BY <1>1, OutParts, SetRowIs DEF RowSet, Statuses, Typed
<1>3. PICK r \in Out : Moves(o, r, "count")
   BY <1>1, MoveIs DEF Moves, Stages
<1>4. out' \subseteq Out /\ IsFiniteSet(out')
   BY <1>3, GoesIs DEF Moves
<1>5. Typed' /\ IdleIsEmpty'
   BY <1>1, <1>2, <1>4, TypedNow, TypedParts
<1> QED BY <1>1, <1>2, <1>3, <1>5

LEMMA CountActiveAttemptsIs ==
    ASSUME Typed, IdleIsEmpty, NEW o \in out, CountActiveAttempts(o)
    PROVE  /\ Typed' /\ IdleIsEmpty'
           /\ UNCHANGED <<env, row, queue, dlq, poller, publisher, faults>>
           /\ o.stage = "count" /\ \E r \in Out : Moves(o, r, "ack_env")
<1> DEFINE active == \E a \in Attempts : row[a].env /\ row[a].status \in ActiveStatuses
           r == [o EXCEPT !.stage = "ack_env", !.active = active]
<1>1. /\ UNCHANGED <<env, row, queue, instance, counter, dlq, poller, publisher, setup, faults>>
      /\ o.stage = "count" /\ out' = (out \ {o}) \cup {r}
   BY DEF CountActiveAttempts
<1>2. o \in Out
   BY OutParts
<1>3. active \in BOOLEAN
   OBVIOUS
<1> HIDE DEF active
<1>4. r \in Out /\ r.sub = o.sub /\ r.no = o.no /\ r.stage = "ack_env"
   BY <1>2, <1>3 DEF Out, Stages
<1> HIDE DEF r
<1>5. Moves(o, r, "ack_env")
   BY <1>1, <1>2, <1>4 DEF Moves, Goes
<1>6. out' \subseteq Out /\ IsFiniteSet(out')
   BY <1>5, GoesIs DEF Moves
<1>7. Typed' /\ IdleIsEmpty'
   BY <1>1, <1>6, TypedNow, TypedParts
<1> QED BY <1>1, <1>4, <1>5, <1>7

LEMMA AckEnvelopeIs ==
    ASSUME Typed, IdleIsEmpty, NEW o \in out, AckEnvelope(o)
    PROVE  /\ Typed' /\ IdleIsEmpty'
           /\ UNCHANGED <<row, queue, dlq, poller, publisher, faults>>
           /\ env' # "none" /\ o.stage = "ack_env" /\ Leaves(o)
<1>1. /\ UNCHANGED <<row, queue, dlq, poller, publisher, setup, faults>>
      /\ o.stage = "ack_env" /\ ReleaseLease(Of(o)) /\ Leaves(o)
      /\ env' \in {"delivering", "succeeded"}
   BY DEF AckEnvelope, Answered, Leaves
<1>2. out' \subseteq Out /\ IsFiniteSet(out')
   BY <1>1, TypedNow, FS_RemoveElement DEF Leaves
<1>3. env' \in Statuses
   BY <1>1 DEF Statuses
<1>4. Typed' /\ IdleIsEmpty'
   BY <1>1, <1>2, <1>3, OutParts, ReleaseIs, TypedNow, TypedParts
<1> QED BY <1>1, <1>4

LEMMA NackIs ==
    ASSUME Typed, IdleIsEmpty, NEW o \in out, Nack(o)
    PROVE  /\ Typed' /\ IdleIsEmpty'
           /\ UNCHANGED <<env, queue, dlq, poller, publisher, faults>>
           /\ o.stage = "out" /\ RowSet(Of(o), "failed")
           /\ \E r \in Out : \/ o.no = MaxRetry /\ Moves(o, r, "dead")
                             \/ o.no < MaxRetry /\ Moves(o, r, "next")
<1>1. /\ UNCHANGED <<env, queue, dlq, poller, publisher, setup, faults>>
      /\ o.stage = "out" /\ SetRow(Of(o), "failed") /\ ReleaseLease(Of(o))
      /\ Move(o, IF o.no + 1 > MaxRetry THEN "dead" ELSE "next")
   BY DEF Nack
<1>2. row' \in Rows /\ RowSet(Of(o), "failed")
   BY <1>1, OutParts, SetRowIs DEF RowSet, Statuses, Typed
<1>3. o.no \in Nat /\ MaxRetry \in Nat /\ o.no <= MaxRetry
   BY OutParts, DeliveryAssumption DEF DeliveryAssumption, Nos
<1>4. \E r \in Out : \/ o.no = MaxRetry /\ Moves(o, r, "dead")
                     \/ o.no < MaxRetry /\ Moves(o, r, "next")
   <2>1. CASE o.no + 1 > MaxRetry
      <3>1. Move(o, "dead") /\ o.no = MaxRetry
         BY <1>1, <1>3, <2>1
      <3> QED BY <3>1, MoveIs DEF Moves, Stages
   <2>2. CASE ~ (o.no + 1 > MaxRetry)
      <3>1. Move(o, "next") /\ o.no < MaxRetry
         BY <1>1, <1>3, <2>2
      <3> QED BY <3>1, MoveIs DEF Moves, Stages
   <2> QED BY <2>1, <2>2
<1>5. out' \subseteq Out /\ IsFiniteSet(out')
   BY <1>4, GoesIs DEF Moves
<1>6. Typed' /\ IdleIsEmpty'
   BY <1>1, <1>2, <1>5, OutParts, ReleaseIs, TypedNow, TypedParts
<1> QED BY <1>1, <1>2, <1>4, <1>6

LEMMA NackUpsertIs ==
    ASSUME Typed, IdleIsEmpty, OutsRooted, NEW o \in out, NackUpsert(o)
    PROVE  /\ Typed' /\ IdleIsEmpty'
           /\ UNCHANGED <<env, queue, dlq, poller, publisher, faults>>
           /\ o.stage = "next"
           /\ \E a \in Attempts, r \in Out :
                 /\ a = <<o.sub, o.no + 1>> /\ a[1] = o.sub /\ a[2] = o.no + 1
                 /\ row'[a].status = "pending"
                 /\ row'[a].env = (IF Made(a) THEN row[a].env ELSE TRUE)
                 /\ \A c \in Attempts : c # a => row'[c] = row[c]
                 /\ Moves(o, r, "schedule") /\ r.known = ~Made(a)
<1> DEFINE a == <<o.sub, o.no + 1>>
           r == [o EXCEPT !.stage = "schedule", !.known = Inserted(a)]
<1>1. /\ UNCHANGED <<env, queue, instance, counter, dlq, poller, publisher, setup, faults>>
      /\ o.stage = "next" /\ UpsertAttempt(a, TRUE) /\ out' = (out \ {o}) \cup {r}
   BY DEF NackUpsert
<1>2. o.no \in Nat /\ MaxRetry \in Nat /\ 1 <= o.no /\ o.no < MaxRetry
   BY <1>1, OutParts, DeliveryAssumption DEF DeliveryAssumption, Nos, OutsRooted
<1>3. a \in Attempts /\ a[1] = o.sub /\ a[2] = o.no + 1
   <2>1. o.no + 1 \in Nos
      BY <1>2 DEF Nos
   <2> QED BY <2>1, OutParts, AttemptPair
<1>4. /\ row' \in Rows /\ row'[a].status = "pending"
      /\ row'[a].env = (IF Made(a) THEN row[a].env ELSE TRUE)
      /\ \A c \in Attempts : c # a => row'[c] = row[c]
   <2> HIDE DEF a
   <2> QED BY <1>1, <1>3, UpsertIs DEF Typed, Inserted, Made
<1>5. Inserted(a) \in BOOLEAN /\ Inserted(a) = ~Made(a)
   BY DEF Inserted, Made
<1>6. o \in Out
   BY OutParts
<1>7. r \in Out /\ r.sub = o.sub /\ r.no = o.no /\ r.stage = "schedule" /\ r.known = ~Made(a)
   <2> HIDE DEF a
   <2> QED BY <1>5, <1>6 DEF Out, Stages
<1>8. a = <<o.sub, o.no + 1>>
   OBVIOUS
<1> HIDE DEF a, r
<1>9. Moves(o, r, "schedule")
   BY <1>1, <1>6, <1>7 DEF Moves, Goes
<1>10. out' \subseteq Out /\ IsFiniteSet(out')
   BY <1>9, GoesIs DEF Moves
<1>11. Typed' /\ IdleIsEmpty'
   BY <1>1, <1>4, <1>10, TypedNow, TypedParts
<1> QED BY <1>1, <1>3, <1>4, <1>7, <1>8, <1>9, <1>11

LEMMA NackScheduleIs ==
    ASSUME Typed, IdleIsEmpty, OutsRooted, NEW o \in out, NackSchedule(o)
    PROVE  /\ Typed' /\ IdleIsEmpty'
           /\ UNCHANGED <<env, row, dlq, poller, publisher, faults>>
           /\ o.stage = "schedule" /\ \E r \in Out : Moves(o, r, "retry_env")
           /\ \E a \in Attempts, j \in Item :
                 /\ a = <<o.sub, o.no + 1>> /\ a[1] = o.sub /\ a[2] = o.no + 1
                 /\ j.known = o.known /\ j.env /\ Queues(j, a)
<1> DEFINE a == <<o.sub, o.no + 1>>
<1>1. /\ UNCHANGED <<env, row, instance, counter, dlq, poller, publisher, setup, faults>>
      /\ o.stage = "schedule" /\ Schedule(a, o.known, TRUE) /\ Move(o, "retry_env")
   BY DEF NackSchedule
<1>2. o.no \in Nat /\ MaxRetry \in Nat /\ 1 <= o.no /\ o.no < MaxRetry /\ o.known \in BOOLEAN
   BY <1>1, OutParts, DeliveryAssumption DEF DeliveryAssumption, Nos, OutsRooted, Out
<1>3. a \in Attempts /\ a[1] = o.sub /\ a[2] = o.no + 1
   <2>1. o.no + 1 \in Nos
      BY <1>2 DEF Nos
   <2> QED BY <2>1, OutParts, AttemptPair
<1>4. a = <<o.sub, o.no + 1>>
   OBVIOUS
<1> HIDE DEF a
<1>5. PICK r \in Out : Moves(o, r, "retry_env")
   BY <1>1, MoveIs DEF Moves, Stages
<1>6. out' \subseteq Out /\ IsFiniteSet(out')
   BY <1>5, GoesIs DEF Moves
<1>7. queue' \subseteq Item /\ IsFiniteSet(queue')
   BY <1>1, <1>2, <1>3, ScheduleIs
<1>8. \E j \in Item : j.known = o.known /\ j.env /\ Queues(j, a)
   BY <1>1, <1>2, <1>3, ScheduleIs DEF Queues
<1>9. Typed' /\ IdleIsEmpty'
   BY <1>1, <1>6, <1>7, TypedNow, TypedParts
<1> QED BY <1>1, <1>3, <1>4, <1>5, <1>8, <1>9

LEMMA PushToDLQIs ==
    ASSUME Typed, IdleIsEmpty, NEW o \in out, PushToDLQ(o)
    PROVE  /\ Typed' /\ IdleIsEmpty'
           /\ UNCHANGED <<env, row, queue, poller, publisher, faults>>
           /\ o.stage = "dead" /\ Buries(Of(o)) /\ \E r \in Out : Moves(o, r, "fail_env")
<1>1. /\ UNCHANGED <<env, row, queue, instance, counter, poller, publisher, setup, faults>>
      /\ o.stage = "dead" /\ dlq' = [dlq EXCEPT ![Of(o)] = @ + 1] /\ Move(o, "fail_env")
   BY DEF PushToDLQ
<1>2. dlq' \in [Attempts -> Nat] /\ Buries(Of(o))
   BY <1>1, OutParts, TypedNow DEF Buries
<1>3. PICK r \in Out : Moves(o, r, "fail_env")
   BY <1>1, MoveIs DEF Moves, Stages
<1>4. out' \subseteq Out /\ IsFiniteSet(out')
   BY <1>3, GoesIs DEF Moves
<1>5. Typed' /\ IdleIsEmpty'
   BY <1>1, <1>2, <1>4, TypedNow, TypedParts
<1> QED BY <1>1, <1>2, <1>3, <1>5

LEMMA NackEnvelopeIs ==
    ASSUME Typed, IdleIsEmpty, NEW o \in out, NackEnvelope(o)
    PROVE  /\ Typed' /\ IdleIsEmpty'
           /\ UNCHANGED <<row, queue, dlq, poller, publisher, faults>>
           /\ env' # "none" /\ o.stage \in {"retry_env", "fail_env"} /\ Leaves(o)
<1>1. /\ UNCHANGED <<row, queue, instance, counter, dlq, poller, publisher, setup, faults>>
      /\ o.stage \in {"retry_env", "fail_env"} /\ Leaves(o) /\ env' \in {"pending", "failed"}
   BY DEF NackEnvelope, Answered, Leaves
<1>2. out' \subseteq Out /\ IsFiniteSet(out')
   BY <1>1, TypedNow, FS_RemoveElement DEF Leaves
<1>3. env' \in Statuses
   BY <1>1 DEF Statuses
<1>4. Typed' /\ IdleIsEmpty'
   BY <1>1, <1>2, <1>3, TypedNow, TypedParts
<1> QED BY <1>1, <1>4

LEMMA SilentIs ==
    ASSUME Typed, IdleIsEmpty, NEW o \in out, Silent(o)
    PROVE  /\ Typed' /\ IdleIsEmpty'
           /\ UNCHANGED <<env, row, queue, dlq, poller, publisher>>
           /\ o.stage = "out" /\ Leaves(o) /\ faults' = faults \cup {"silence"}
<1>1. /\ UNCHANGED <<env, row, queue, instance, counter, dlq, poller, publisher, setup>>
      /\ o.stage = "out" /\ Leaves(o) /\ Fault("silence") /\ "silence" \in AnyFault
   BY DEF Silent, Answered, Leaves, AnyFault
<1>2. out' \subseteq Out /\ IsFiniteSet(out')
   BY <1>1, TypedNow, FS_RemoveElement DEF Leaves
<1>3. Typed' /\ IdleIsEmpty'
   BY <1>1, <1>2, FaultIs, TypedNow, TypedParts
<1> QED BY <1>1, <1>3, FaultIs

LEMMA LeaseIs ==
    ASSUME Typed, IdleIsEmpty, LeaseStep
    PROVE  /\ Typed' /\ IdleIsEmpty'
           /\ UNCHANGED <<env, row, queue, dlq, poller, publisher, out, faults>>
<1>1. CASE \E a \in Attempts : LeaseExpires(a)
   <2>1. PICK a \in Attempts : LeaseExpires(a)
      BY <1>1
   <2>2. /\ instance' = [instance EXCEPT ![a] = "none"]
         /\ UNCHANGED <<env, row, queue, counter, dlq, poller, publisher, out, setup, faults>>
      BY <2>1 DEF LeaseExpires
   <2>3. instance' \in [Attempts -> {"none", "held", "extended"}]
      BY <2>2, TypedNow
   <2> QED BY <2>2, <2>3, TypedNow, TypedParts
<1>2. CASE \E s \in Subscribers : CounterExpires(s)
   <2>1. PICK s \in Subscribers : CounterExpires(s)
      BY <1>2
   <2>2. /\ counter' = [counter EXCEPT ![s] = 0]
         /\ UNCHANGED <<env, row, queue, instance, dlq, poller, publisher, out, setup, faults>>
      BY <2>1 DEF CounterExpires
   <2>3. counter' \in [Subscribers -> 0..1]
      BY <2>2, TypedNow
   <2> QED BY <2>2, <2>3, TypedNow, TypedParts
<1> QED BY <1>1, <1>2 DEF LeaseStep

-----------------------------------------------------------------------------
(* Steps that make no row, no item and no token.                           *)
RowsFixed == \A a \in Attempts : (Made(a)' <=> Made(a)) /\ row'[a].env = row[a].env
ItemsFixed ==
    /\ \A j \in Item : j \in queue' => j \in queue
    /\ \A q \in Pollers : /\ \A j \in Item : j \in poller'[q].batch => j \in poller[q].batch
                          /\ poller'[q].pc # "range" => poller[q].pc # "range" \/ poller'[q].batch = {}
OutsFixed == \A o \in out' : o \in out \/ (~Holds(o) /\ \E r \in out : Of(o) = Of(r))
Quiet == RowsFixed /\ ItemsFixed /\ OutsFixed /\ faults \subseteq faults'

LEMMA ItemsStay ==
    ASSUME RowsFixed, ItemsFixed, NEW i \in Item
    PROVE  /\ Waits(i)' => Waits(i)
           /\ Live(i)' = Live(i)
<1>1. Waits(i)' => Waits(i)
   BY DEF ItemsFixed, Waits
<1>2. Live(i)' = Live(i)
   BY ItemParts DEF RowsFixed, Live, RowOf
<1> QED BY <1>1, <1>2

LEMMA NextRootedStays ==
    ASSUME Typed, Rooted, \A a \in Attempts : Made(a) => Made(a)',
           \A o \in out' : o.stage = "schedule" => o \in out \/ Made(<<o.sub, o.no + 1>>)'
    PROVE  NextRooted'
<1>1. ASSUME NEW o \in out, o.stage = "schedule" PROVE Made(<<o.sub, o.no + 1>>)'
   <2>1. o.no < MaxRetry /\ Made(<<o.sub, o.no + 1>>)
      BY <1>1 DEF Rooted, OutsRooted, NextRooted
   <2>2. <<o.sub, o.no + 1>> \in Attempts
      BY <2>1, OutParts, AttemptPair, DeliveryAssumption DEF Nos, DeliveryAssumption
   <2> QED BY <2>1, <2>2
<1> QED BY <1>1 DEF NextRooted, Made

LEMMA QuietRooted ==
    ASSUME Typed, Typed', Rooted, Quiet, \A a \in Attempts : dlq'[a] # 0 => dlq[a] # 0 \/ row[a].env
    PROVE  Rooted'
<1>1. RowsRooted'
   BY AttemptParts DEF Rooted, RowsRooted, Quiet, RowsFixed
<1>2. ItemsRooted'
   <2> SUFFICES ASSUME NEW i \in Item, Waits(i)'
                PROVE  Made(<<i.sub, 1>>)' /\ (i.known => Made(RowOf(i))')
      BY DEF ItemsRooted, RowOf
   <2>1. Waits(i) /\ Made(<<i.sub, 1>>) /\ (i.known => Made(RowOf(i)))
      BY ItemsStay DEF Rooted, ItemsRooted, Quiet
   <2>2. <<i.sub, 1>> \in Attempts /\ RowOf(i) \in Attempts
      BY ItemParts, AttemptParts
   <2> QED BY <2>1, <2>2 DEF Quiet, RowsFixed
<1>3. OutsRooted'
   <2> SUFFICES ASSUME NEW o \in out'
                PROVE  /\ row'[Of(o)].env
                       /\ o.stage \in {"next", "schedule"} => o.no < MaxRetry
                       /\ o.stage = "dead" => o.no = MaxRetry
      BY DEF OutsRooted, Of
   <2>1. CASE o \in out
      BY <2>1, OutParts DEF Quiet, RowsFixed, Rooted, OutsRooted
   <2>2. CASE ~Holds(o) /\ \E r \in out : Of(o) = Of(r)
      BY <2>2, OutParts DEF Quiet, RowsFixed, Rooted, OutsRooted, Holds
   <2> QED BY <2>1, <2>2 DEF Quiet, OutsFixed
<1>4. DeadRooted'
   BY DEF Rooted, DeadRooted, RowsRooted, Quiet, RowsFixed
<1>5. NextRooted'
   BY NextRootedStays DEF Quiet, RowsFixed, OutsFixed, Holds
<1> QED BY <1>1, <1>2, <1>3, <1>4, <1>5 DEF Rooted

\* The next attempt of a handler that is about to schedule it.
LEMMA NextRowStays ==
    ASSUME Typed, Rooted, Tokens, "race" \notin faults,
           \A a \in Attempts : row[a].env => row'[a].env,
           NEW o \in out, o.stage = "schedule"
    PROVE  o.known /\ row'[<<o.sub, o.no + 1>>].env
<1>1. o.no < MaxRetry
   BY DEF Rooted, OutsRooted
<1>2. <<o.sub, o.no + 1>> \in Attempts
   BY <1>1, OutParts, AttemptPair, DeliveryAssumption DEF Nos, DeliveryAssumption
<1> QED BY <1>2 DEF Tokens, Last

LEMMA QuietTokens ==
    ASSUME Typed, Typed', Tokens, Rooted, Quiet
    PROVE  (Barren /\ Apart /\ Alone /\ Last)'
<1>1. CASE "race" \in faults'
   BY <1>1 DEF Barren, Apart, Alone, Last
<1>2. CASE "race" \notin faults'
   <2>1. "race" \notin faults /\ RowsFixed /\ ItemsFixed /\ OutsFixed
      BY <1>2 DEF Quiet
   <2>2. \A i \in Item : (Waits(i)' => Waits(i)) /\ Live(i)' = Live(i)
      BY <2>1, ItemsStay
   <2>3. \A o \in out' : Holds(o) => o \in out
      BY <2>1 DEF OutsFixed
   <2>4. Barren'
      BY <2>1, <2>2, ItemParts, AttemptPair DEF Tokens, Barren, RowsFixed
   <2>5. Apart'
      BY <2>1, <2>2 DEF Tokens, Apart, ItemsFixed
   <2>6. Alone'
      BY <2>1, <2>2, <2>3 DEF Tokens, Alone
   <2>7. Last'
      <3>1. \A i \in Item, n \in Nos : Waits(i)' /\ Live(i)' /\ n > i.no => ~Made(<<i.sub, n>>)'
         BY <2>1, <2>2, ItemParts, AttemptPair DEF Tokens, Last, RowsFixed
      <3>2. \A o \in out', n \in Nos : Holds(o) /\ n > Reach(o) => ~Made(<<o.sub, n>>)'
         BY <2>1, <2>3, OutParts, AttemptPair DEF Tokens, Last, RowsFixed
      <3>3. \A o \in out' : o.stage = "schedule" => o.known /\ row'[<<o.sub, o.no + 1>>].env
         <4>1. \A o \in out' : o.stage = "schedule" => o \in out
            BY <2>3 DEF Holds
         <4> QED BY <2>1, <4>1, NextRowStays DEF RowsFixed
      <3> QED BY <3>1, <3>2, <3>3 DEF Last, Reach, Holds
   <2> QED BY <2>4, <2>5, <2>6, <2>7
<1> QED BY <1>1, <1>2

LEMMA QuietEnded ==
    ASSUME Typed, Typed', Tokens, Quiet, UNCHANGED dlq
    PROVE  Ended'
<1> SUFFICES ASSUME "race" \notin faults', NEW a \in Attempts, dlq'[a] # 0
             PROVE  /\ dlq'[a] = 1
                    /\ \A i \in Item : Waits(i)' /\ Live(i)' => i.sub # a[1]
                    /\ \A o \in out' : Holds(o) => o.sub # a[1]
                    /\ \A n \in Nos : n > a[2] => ~Made(<<a[1], n>>)'
   BY DEF Ended, Holds
<1>1. /\ dlq[a] = 1
      /\ \A i \in Item : Waits(i) /\ Live(i) => i.sub # a[1]
      /\ \A o \in out : Holds(o) => o.sub # a[1]
      /\ \A n \in Nos : n > a[2] => ~Made(<<a[1], n>>)
   BY DEF Tokens, Ended, Quiet
<1>2. \A i \in Item : Waits(i)' /\ Live(i)' => i.sub # a[1]
   BY <1>1, ItemsStay DEF Quiet
<1>3. \A o \in out' : Holds(o) => o.sub # a[1]
   BY <1>1 DEF Quiet, OutsFixed
<1>4. \A n \in Nos : n > a[2] => ~Made(<<a[1], n>>)'
   BY <1>1, AttemptParts, AttemptPair DEF Quiet, RowsFixed
<1> QED BY <1>1, <1>2, <1>3, <1>4

\* The token of its subscriber becomes the dead letter of a.
LEMMA BuryEnded ==
    ASSUME Typed, Typed', Tokens, Quiet, NEW a \in Attempts, Buries(a),
           "race" \notin faults => dlq[a] = 0 /\ \A n \in Nos : n > a[2] => ~Made(<<a[1], n>>),
           "race" \notin faults =>
               /\ \A i \in Item : Waits(i)' /\ Live(i) => i.sub # a[1]
               /\ \A o \in out' : Holds(o) => o.sub # a[1]
    PROVE  Ended'
<1> SUFFICES ASSUME "race" \notin faults', NEW b \in Attempts, dlq'[b] # 0
             PROVE  /\ dlq'[b] = 1
                    /\ \A i \in Item : Waits(i)' /\ Live(i)' => i.sub # b[1]
                    /\ \A o \in out' : Holds(o) => o.sub # b[1]
                    /\ \A n \in Nos : n > b[2] => ~Made(<<b[1], n>>)'
   BY DEF Ended, Holds
<1>1. "race" \notin faults /\ RowsFixed
   BY DEF Quiet
<1>2. \A n \in Nos : Made(<<b[1], n>>)' = Made(<<b[1], n>>)
   BY <1>1, AttemptParts, AttemptPair DEF RowsFixed, Made
<1>3. CASE b = a
   <2>1. dlq'[b] = 1
      BY <1>1, <1>3 DEF Buries
   <2>2. \A i \in Item : Waits(i)' /\ Live(i)' => i.sub # b[1]
      BY <1>1, <1>3, ItemsStay DEF Quiet
   <2> QED BY <1>1, <1>2, <1>3, <2>1, <2>2
<1>4. CASE b # a
   <2>1. dlq'[b] = dlq[b]
      BY <1>4 DEF Buries
   <2>2. /\ dlq[b] = 1
         /\ \A i \in Item : Waits(i) /\ Live(i) => i.sub # b[1]
         /\ \A o \in out : Holds(o) => o.sub # b[1]
         /\ \A n \in Nos : n > b[2] => ~Made(<<b[1], n>>)
      BY <1>1, <2>1 DEF Tokens, Ended
   <2>3. \A i \in Item : Waits(i)' /\ Live(i)' => i.sub # b[1]
      BY <2>2, ItemsStay DEF Quiet
   <2>4. \A o \in out' : Holds(o) => o.sub # b[1]
      BY <2>2 DEF Quiet, OutsFixed
   <2> QED BY <1>2, <2>1, <2>2, <2>3, <2>4
<1> QED BY <1>3, <1>4

LEMMA QuietOriginal ==
    ASSUME Original, Quiet, UNCHANGED publisher
    PROVE  Original'
BY ItemsStay DEF Original, Quiet, RowsFixed

LEMMA QuietPublication ==
    ASSUME Typed, Publication, RowsFixed, UNCHANGED publisher
    PROVE  Publication'
<1>1. \A s \in Subscribers, n \in Nos : row'[<<s, n>>].env = row[<<s, n>>].env
   BY AttemptPair DEF RowsFixed
<1>2. \A b \in Publishers : publisher[b].todo \subseteq Subscribers
   BY DEF Typed, DeliveryTypeOK
<1> QED BY <1>1, <1>2 DEF Publication

-----------------------------------------------------------------------------
(* What a poller does with an item that leads to a row with an envelope:   *)
(* it has the token of the subscriber in hand.                             *)
Taken(i) == i \in queue \/ \E q \in Pollers : i \in poller'[q].batch

LEMMA TokenInHand ==
    ASSUME "race" \notin faults, Tokens, NEW p \in Pollers, NEW i \in Item, Took(p, i),
           NEW a \in Found(i), row[a].env
    PROVE  /\ Live(i) /\ a = RowOf(i) /\ Waits(i) /\ a[1] = i.sub /\ a[2] = i.no
           /\ \A k \in Item : Taken(k) => Waits(k) /\ (Live(k) => k.sub # i.sub)
<1>1. a \in Attempts /\ a[1] = i.sub /\ (i.known => a = RowOf(i)) /\ (~i.known => i.env)
   BY FoundIs
<1>2. Waits(i)
   BY DEF Took, Waits
<1>3. i.known
   <2>1. SUFFICES ASSUME ~i.known PROVE FALSE
      OBVIOUS
   <2>2. \A n \in Nos : ~row[<<i.sub, n>>].env
      BY <1>1, <1>2, <2>1 DEF Tokens, Barren
   <2> QED BY <1>1, <2>2, AttemptParts
<1>4. Live(i) /\ a = RowOf(i)
   BY <1>1, <1>3 DEF Live
<1>5. \A k \in Item : Taken(k) => Waits(k)
   BY DEF Taken, Waits, Took
<1>6. ~Taken(i)
   <2>1. i \notin queue
      BY <1>4 DEF Tokens, Apart, Took
   <2>2. \A q \in Pollers : i \notin poller'[q].batch
      BY <1>4 DEF Tokens, Apart, Took
   <2> QED BY <2>1, <2>2 DEF Taken
<1>7. \A k \in Item : Taken(k) /\ Live(k) => k.sub # i.sub
   BY <1>2, <1>4, <1>5, <1>6 DEF Tokens, Alone
<1> QED BY <1>1, <1>2, <1>4, <1>5, <1>7, ItemParts

\* The token goes back into the queue.
LEMMA RequeueTokens ==
    ASSUME Typed, Typed', Rooted, Tokens, RowsFixed, NEW p \in Pollers, NEW i \in Item, Took(p, i),
           NEW a \in Found(i), row[a].env, NEW j \in Item, j.known, Queues(j, a),
           UNCHANGED <<out, dlq, faults>>
    PROVE  Tokens'
<1>1. CASE "race" \in faults'
   BY <1>1 DEF Tokens, Barren, Apart, Alone, Last, Ended
<1>2. CASE "race" \notin faults'
   <2>1. "race" \notin faults
      BY <1>2
   <2>2. /\ Live(i) /\ a = RowOf(i) /\ Waits(i) /\ a[1] = i.sub /\ a[2] = i.no
         /\ \A k \in Item : Taken(k) => Waits(k) /\ (Live(k) => k.sub # i.sub)
      BY <2>1, TokenInHand
   <2>3. j.sub = i.sub /\ j.no = i.no /\ RowOf(j) = a /\ queue' = queue \cup {j}
      BY <2>2 DEF Queues
   <2>4. \A k \in Item : Live(k)' = Live(k)
      BY ItemParts DEF RowsFixed, Live, RowOf
   <2>5. \A k \in Item : Waits(k)' => k = j \/ Taken(k)
      BY <2>3 DEF Waits, Taken
   <2>6. Barren'
      BY <2>1, <2>2, <2>5, ItemParts, AttemptPair DEF Tokens, Barren, RowsFixed
   <2>7. Apart'
      <3> SUFFICES ASSUME NEW q \in Pollers, NEW k \in Item, k \in poller'[q].batch, Live(k)
                   PROVE  /\ \A r \in Pollers : k \in poller'[r].batch => q = r
                          /\ poller'[q].pc # "range" => k \notin queue'
         BY <2>4 DEF Apart
      <3>1. Taken(k)
         BY DEF Taken
      <3>2. k # j
         BY <2>2, <2>3, <3>1
      <3>3. k \in poller[q].batch /\ \A r \in Pollers : k \in poller'[r].batch => k \in poller[r].batch
         BY DEF Took
      <3>4. /\ \A r \in Pollers : k \in poller[r].batch => q = r
            /\ poller[q].pc # "range" => k \notin queue
         BY <2>1, <3>3 DEF Tokens, Apart
      <3> QED BY <2>3, <3>2, <3>3, <3>4 DEF Took
   <2>8. Alone'
      <3>1. \A k, m \in Item : Waits(k)' /\ Waits(m)' /\ Live(k) /\ Live(m) /\ k.sub = m.sub => k = m
         BY <2>1, <2>2, <2>3, <2>5 DEF Tokens, Alone
      <3>2. \A k \in Item, o \in out : Waits(k)' /\ Live(k) /\ Holds(o) => k.sub # o.sub
         BY <2>1, <2>2, <2>3, <2>5 DEF Tokens, Alone
      <3>3. \A o, r \in out : Holds(o) /\ Holds(r) /\ o.sub = r.sub => o = r
         BY <2>1 DEF Tokens, Alone
      <3>4. out' = out
         OBVIOUS
      <3> QED BY <2>4, <3>1, <3>2, <3>3, <3>4 DEF Alone, Holds
   <2>9. Last'
      <3>1. \A k \in Item, n \in Nos : Waits(k)' /\ Live(k)' /\ n > k.no => ~Made(<<k.sub, n>>)'
         BY <2>1, <2>2, <2>3, <2>4, <2>5, ItemParts, AttemptPair DEF Tokens, Last, RowsFixed
      <3>2. \A o \in out', n \in Nos : Holds(o) /\ n > Reach(o) => ~Made(<<o.sub, n>>)'
         BY <2>1, OutParts, AttemptPair DEF Tokens, Last, RowsFixed
      <3>3. \A o \in out' : o.stage = "schedule" => o.known /\ row'[<<o.sub, o.no + 1>>].env
         <4> SUFFICES ASSUME NEW o \in out, o.stage = "schedule"
                      PROVE  o.known /\ row'[<<o.sub, o.no + 1>>].env
            OBVIOUS
         <4>1. o.no < MaxRetry
            BY DEF Rooted, OutsRooted
         <4>2. <<o.sub, o.no + 1>> \in Attempts
            BY <4>1, OutParts, AttemptPair, DeliveryAssumption DEF Nos, DeliveryAssumption
         <4> QED BY <2>1, <4>2 DEF Tokens, Last, RowsFixed
      <3> QED BY <3>1, <3>2, <3>3 DEF Last, Reach, Holds
   <2>10. Ended'
      <3> SUFFICES ASSUME NEW b \in Attempts, dlq[b] # 0
                   PROVE  /\ dlq[b] = 1
                          /\ \A k \in Item : Waits(k)' /\ Live(k)' => k.sub # b[1]
                          /\ \A o \in out : Holds(o) => o.sub # b[1]
                          /\ \A n \in Nos : n > b[2] => ~Made(<<b[1], n>>)'
         BY DEF Ended, Holds
      <3>1. /\ dlq[b] = 1
            /\ \A k \in Item : Waits(k) /\ Live(k) => k.sub # b[1]
            /\ \A o \in out : Holds(o) => o.sub # b[1]
            /\ \A n \in Nos : n > b[2] => ~Made(<<b[1], n>>)
         BY <2>1 DEF Tokens, Ended
      <3>2. i.sub # b[1]
         BY <2>2, <3>1
      <3>3. \A k \in Item : Waits(k)' /\ Live(k)' => k.sub # b[1]
         BY <2>2, <2>3, <2>4, <2>5, <3>1, <3>2
      <3>4. \A n \in Nos : n > b[2] => ~Made(<<b[1], n>>)'
         BY <3>1, AttemptParts, AttemptPair DEF RowsFixed
      <3> QED BY <2>3, <3>1, <3>2, <3>3, <3>4
   <2> QED BY <2>6, <2>7, <2>8, <2>9, <2>10 DEF Tokens
<1> QED BY <1>1, <1>2

\* It goes to the subscriber.
LEMMA DeliverTokens ==
    ASSUME Typed, Typed', Rooted, Tokens, RowsFixed, NEW p \in Pollers, NEW i \in Item, Took(p, i),
           NEW a \in Found(i), row[a].env,
           NEW o \in Out, o.sub = a[1], o.no = a[2], o.stage = "out", out' = out \cup {o},
           UNCHANGED <<queue, dlq, faults>>
    PROVE  Tokens'
<1>1. CASE "race" \in faults'
   BY <1>1 DEF Tokens, Barren, Apart, Alone, Last, Ended
<1>2. CASE "race" \notin faults'
   <2>1. "race" \notin faults
      BY <1>2
   <2>2. /\ Live(i) /\ a = RowOf(i) /\ Waits(i) /\ a[1] = i.sub /\ a[2] = i.no
         /\ \A k \in Item : Taken(k) => Waits(k) /\ (Live(k) => k.sub # i.sub)
      BY <2>1, TokenInHand
   <2>3. o.sub = i.sub /\ o.no = i.no
      BY <2>2
   <2>4. \A k \in Item : Live(k)' = Live(k)
      BY ItemParts DEF RowsFixed, Live, RowOf
   <2>5. \A k \in Item : Waits(k)' => Taken(k)
      BY DEF Waits, Taken
   <2>6. Barren'
      BY <2>1, <2>2, <2>5, ItemParts, AttemptPair DEF Tokens, Barren, RowsFixed
   <2>7. Apart'
      BY <2>1, <2>4 DEF Tokens, Apart, Took
   <2>8. Alone'
      <3>1. \A k, m \in Item : Waits(k)' /\ Waits(m)' /\ Live(k) /\ Live(m) /\ k.sub = m.sub => k = m
         BY <2>1, <2>2, <2>5 DEF Tokens, Alone
      <3>2. \A k \in Item, r \in out' : Waits(k)' /\ Live(k) /\ Holds(r) => k.sub # r.sub
         BY <2>1, <2>2, <2>3, <2>5 DEF Tokens, Alone
      <3>3. \A r \in out : Holds(r) => r.sub # o.sub
         BY <2>1, <2>2, <2>3 DEF Tokens, Alone
      <3>4. \A q, r \in out' : Holds(q) /\ Holds(r) /\ q.sub = r.sub => q = r
         BY <2>1, <3>3 DEF Tokens, Alone
      <3> QED BY <2>4, <3>1, <3>2, <3>4 DEF Alone, Holds
   <2>9. Last'
      <3>1. \A k \in Item, n \in Nos : Waits(k)' /\ Live(k)' /\ n > k.no => ~Made(<<k.sub, n>>)'
         BY <2>1, <2>2, <2>4, <2>5, ItemParts, AttemptPair DEF Tokens, Last, RowsFixed
      <3>2. \A n \in Nos : n > Reach(o) => ~Made(<<o.sub, n>>)'
         BY <2>1, <2>2, <2>3, ItemParts, AttemptPair DEF Tokens, Last, RowsFixed, Reach
      <3>3. \A r \in out, n \in Nos : Holds(r) /\ n > Reach(r) => ~Made(<<r.sub, n>>)'
         BY <2>1, OutParts, AttemptPair DEF Tokens, Last, RowsFixed
      <3>4. \A r \in out' : r.stage = "schedule" => r.known /\ row'[<<r.sub, r.no + 1>>].env
         <4> SUFFICES ASSUME NEW r \in out, r.stage = "schedule"
                      PROVE  r.known /\ row'[<<r.sub, r.no + 1>>].env
            OBVIOUS
         <4>1. r.no < MaxRetry
            BY DEF Rooted, OutsRooted
         <4>2. <<r.sub, r.no + 1>> \in Attempts
            BY <4>1, OutParts, AttemptPair, DeliveryAssumption DEF Nos, DeliveryAssumption
         <4> QED BY <2>1, <4>2 DEF Tokens, Last, RowsFixed
      <3> QED BY <3>1, <3>2, <3>3, <3>4 DEF Last, Reach, Holds
   <2>10. Ended'
      <3> SUFFICES ASSUME NEW b \in Attempts, dlq[b] # 0
                   PROVE  /\ dlq[b] = 1
                          /\ \A k \in Item : Waits(k)' /\ Live(k)' => k.sub # b[1]
                          /\ \A r \in out' : Holds(r) => r.sub # b[1]
                          /\ \A n \in Nos : n > b[2] => ~Made(<<b[1], n>>)'
         BY DEF Ended, Holds
      <3>1. /\ dlq[b] = 1
            /\ \A k \in Item : Waits(k) /\ Live(k) => k.sub # b[1]
            /\ \A r \in out : Holds(r) => r.sub # b[1]
            /\ \A n \in Nos : n > b[2] => ~Made(<<b[1], n>>)
         BY <2>1 DEF Tokens, Ended
      <3>2. i.sub # b[1]
         BY <2>2, <3>1
      <3>3. \A k \in Item : Waits(k)' /\ Live(k)' => k.sub # b[1]
         BY <2>2, <2>3, <2>4, <2>5, <3>1, <3>2
      <3>4. \A n \in Nos : n > b[2] => ~Made(<<b[1], n>>)'
         BY <3>1, AttemptParts, AttemptPair DEF RowsFixed
      <3> QED BY <2>3, <3>1, <3>2, <3>3, <3>4
   <2> QED BY <2>6, <2>7, <2>8, <2>9, <2>10 DEF Tokens
<1> QED BY <1>1, <1>2

\* It ends in a dead letter.
LEMMA IncompatibleTokens ==
    ASSUME Typed, Typed', Rooted, Tokens, RowsFixed, NEW p \in Pollers, NEW i \in Item, Took(p, i),
           NEW a \in Found(i), row[a].env, Buries(a), UNCHANGED <<queue, out, faults>>
    PROVE  Quiet /\ Tokens'
<1>1. Quiet
   BY DEF Quiet, ItemsFixed, OutsFixed, Took
<1>2. a \in Attempts
   BY FoundIs
<1>3. ASSUME "race" \notin faults
      PROVE  /\ dlq[a] = 0 /\ \A n \in Nos : n > a[2] => ~Made(<<a[1], n>>)
             /\ \A k \in Item : Waits(k)' /\ Live(k) => k.sub # a[1]
             /\ \A o \in out' : Holds(o) => o.sub # a[1]
   <2>1. /\ Live(i) /\ a = RowOf(i) /\ Waits(i) /\ a[1] = i.sub /\ a[2] = i.no
         /\ \A k \in Item : Taken(k) => Waits(k) /\ (Live(k) => k.sub # i.sub)
      BY <1>3, TokenInHand
   <2>2. \A k \in Item : Waits(k)' => Taken(k)
      BY DEF Waits, Taken
   <2>3. dlq[a] = 0
      BY <1>2, <1>3, <2>1 DEF Tokens, Ended
   <2>4. \A n \in Nos : n > a[2] => ~Made(<<a[1], n>>)
      BY <1>3, <2>1 DEF Tokens, Last
   <2>5. \A o \in out : Holds(o) => o.sub # a[1]
      BY <1>3, <2>1 DEF Tokens, Alone
   <2> QED BY <2>1, <2>2, <2>3, <2>4, <2>5
<1>4. Ended'
   BY <1>1, <1>2, <1>3, BuryEnded
<1> QED BY <1>1, <1>4, QuietTokens DEF Tokens

-----------------------------------------------------------------------------
(* Answers: the token stays with the handler until it is scheduled again,  *)
(* or ends.                                                                *)
LEMMA HandlersToken ==
    ASSUME Typed, Tokens, "race" \notin faults, NEW o \in out, Holds(o), NEW r, Goes(o, r)
    PROVE  /\ \A i \in Item : Waits(i) /\ Live(i) => i.sub # o.sub
           /\ \A q \in out' : Holds(q) => q = r \/ (q \in out /\ q.sub # o.sub)
           /\ \A a \in Attempts : a[1] = o.sub => dlq[a] = 0
           /\ \A n \in Nos : n > Reach(o) => ~Made(<<o.sub, n>>)
BY DEF Tokens, Alone, Ended, Last, Goes

LEMMA PushTokens ==
    ASSUME Typed, Typed', Rooted, Tokens, NEW o \in out, o.stage = "dead", Buries(Of(o)),
           NEW r \in Out, Moves(o, r, "fail_env"), UNCHANGED <<row, queue, poller, faults>>
    PROVE  Quiet /\ Tokens'
<1>1. Of(o) \in Attempts /\ Of(o)[1] = o.sub /\ Of(o)[2] = o.no /\ Of(r) = Of(o)
   BY OutParts DEF Moves, Of
<1>2. Quiet
   BY <1>1 DEF Quiet, RowsFixed, ItemsFixed, OutsFixed, Made, Moves, Goes, Holds
<1>3. ASSUME "race" \notin faults
      PROVE  /\ dlq[Of(o)] = 0 /\ \A n \in Nos : n > o.no => ~Made(<<o.sub, n>>)
             /\ \A i \in Item : Waits(i)' /\ Live(i) => i.sub # o.sub
             /\ \A q \in out' : Holds(q) => q.sub # o.sub
   <2>1. Holds(o) /\ Reach(o) = o.no /\ Goes(o, r) /\ ~Holds(r)
      BY DEF Holds, Reach, Moves
   <2>2. \A i \in Item : Waits(i)' => Waits(i)
      BY DEF Waits
   <2> QED BY <1>1, <1>3, <2>1, <2>2, HandlersToken
<1>4. Ended'
   BY <1>1, <1>2, <1>3, BuryEnded
<1> QED BY <1>2, <1>4, QuietTokens DEF Tokens

\* The token stays with the handler; its subscriber's rows may grow.
LEMMA HandlerTokens ==
    ASSUME Typed, Typed', Rooted, Tokens, NEW o \in out, Holds(o), NEW r \in Out, Goes(o, r),
           Holds(r), r.sub = o.sub, UNCHANGED <<queue, poller, dlq, faults>>,
           \A a \in Attempts : Made(a) => row'[a].env = row[a].env,
           \A a \in Attempts : a[1] # o.sub => row'[a].status = row[a].status /\ row'[a].env = row[a].env,
           "race" \notin faults =>
               /\ \A n \in Nos : n > Reach(r) => ~Made(<<o.sub, n>>)'
               /\ r.stage = "schedule" => r.known /\ row'[<<r.sub, r.no + 1>>].env
    PROVE  Tokens'
<1>1. CASE "race" \in faults'
   BY <1>1 DEF Tokens, Barren, Apart, Alone, Last, Ended
<1>2. CASE "race" \notin faults'
   <2>1. "race" \notin faults
      BY <1>2
   <2>2. /\ \A i \in Item : Waits(i) /\ Live(i) => i.sub # o.sub
         /\ \A q \in out' : Holds(q) => q = r \/ (q \in out /\ q.sub # o.sub)
         /\ \A a \in Attempts : a[1] = o.sub => dlq[a] = 0
      BY <2>1, HandlersToken
   <2>3. \A i \in Item : Waits(i)' = Waits(i)
      BY DEF Waits
   <2>4. \A i \in Item : Waits(i) => Live(i)' = Live(i)
      BY ItemParts DEF Live, Rooted, ItemsRooted, RowOf
   <2>5. \A s \in Subscribers, n \in Nos : s # o.sub =>
            Made(<<s, n>>)' = Made(<<s, n>>) /\ row'[<<s, n>>].env = row[<<s, n>>].env
      BY AttemptPair DEF Made
   <2>6. Barren'
      <3> SUFFICES ASSUME NEW i \in Item, Waits(i), ~i.known, i.env, NEW n \in Nos
                   PROVE  ~row'[<<i.sub, n>>].env
         BY <2>3 DEF Barren
      <3>1. \A m \in Nos : ~row[<<i.sub, m>>].env
         BY <2>1 DEF Tokens, Barren
      <3>2. i.sub # o.sub
         BY <3>1, OutParts DEF Rooted, OutsRooted, Of
      <3> QED BY <2>5, <3>1, <3>2, ItemParts
   <2>7. Apart'
      <3> SUFFICES ASSUME NEW p \in Pollers, NEW i \in Item, i \in poller[p].batch, Live(i)'
                   PROVE  /\ \A q \in Pollers : i \in poller[q].batch => p = q
                          /\ poller[p].pc # "range" => i \notin queue
         BY DEF Apart
      <3>1. Live(i)
         BY <2>4 DEF Waits
      <3> QED BY <2>1, <3>1 DEF Tokens, Apart
   <2>8. Alone'
      <3>1. \A i, j \in Item : Waits(i)' /\ Waits(j)' /\ Live(i)' /\ Live(j)' /\ i.sub = j.sub => i = j
         BY <2>1, <2>3, <2>4 DEF Tokens, Alone
      <3>2. \A i \in Item, q \in out' : Waits(i)' /\ Live(i)' /\ Holds(q) => i.sub # q.sub
         BY <2>1, <2>2, <2>3, <2>4 DEF Tokens, Alone
      <3>3. \A q, t \in out' : Holds(q) /\ Holds(t) /\ q.sub = t.sub => q = t
         BY <2>1, <2>2 DEF Tokens, Alone
      <3> QED BY <3>1, <3>2, <3>3 DEF Alone, Holds
   <2>9. Last'
      <3>1. \A i \in Item, n \in Nos : Waits(i)' /\ Live(i)' /\ n > i.no => ~Made(<<i.sub, n>>)'
         BY <2>1, <2>2, <2>3, <2>4, <2>5, ItemParts DEF Tokens, Last
      <3>2. \A q \in out', n \in Nos : Holds(q) /\ n > Reach(q) => ~Made(<<q.sub, n>>)'
         BY <2>1, <2>2, <2>5, OutParts DEF Tokens, Last
      <3>3. \A q \in out' : q.stage = "schedule" => q.known /\ row'[<<q.sub, q.no + 1>>].env
         <4>1. \A a \in Attempts : row[a].env => row'[a].env
            BY DEF Rooted, RowsRooted
         <4>2. \A q \in out' : q.stage = "schedule" => q = r \/ q \in out
            BY <2>2 DEF Holds
         <4> QED BY <2>1, <4>1, <4>2, NextRowStays
      <3> QED BY <3>1, <3>2, <3>3 DEF Last, Reach, Holds
   <2>10. Ended'
      <3> SUFFICES ASSUME NEW b \in Attempts, dlq[b] # 0
                   PROVE  /\ dlq[b] = 1
                          /\ \A i \in Item : Waits(i)' /\ Live(i)' => i.sub # b[1]
                          /\ \A q \in out' : Holds(q) => q.sub # b[1]
                          /\ \A n \in Nos : n > b[2] => ~Made(<<b[1], n>>)'
         BY DEF Ended, Holds
      <3>1. /\ dlq[b] = 1
            /\ \A i \in Item : Waits(i) /\ Live(i) => i.sub # b[1]
            /\ \A q \in out : Holds(q) => q.sub # b[1]
            /\ \A n \in Nos : n > b[2] => ~Made(<<b[1], n>>)
         BY <2>1 DEF Tokens, Ended
      <3>2. b[1] # o.sub /\ b[1] \in Subscribers
         BY <2>2, AttemptParts
      <3>3. \A i \in Item : Waits(i)' /\ Live(i)' => i.sub # b[1]
         BY <2>3, <2>4, <3>1
      <3>4. \A q \in out' : Holds(q) => q.sub # b[1]
         BY <2>2, <3>1, <3>2
      <3>5. \A n \in Nos : n > b[2] => ~Made(<<b[1], n>>)'
         BY <2>5, <3>1, <3>2
      <3> QED BY <3>1, <3>3, <3>4, <3>5
   <2> QED BY <2>6, <2>7, <2>8, <2>9, <2>10 DEF Tokens
<1> QED BY <1>1, <1>2

LEMMA NackTokens ==
    ASSUME Typed, Typed', Rooted, Tokens, NEW o \in out, o.stage = "out", RowSet(Of(o), "failed"),
           RowsFixed, NEW r \in Out, Moves(o, r, "dead") \/ Moves(o, r, "next"),
           UNCHANGED <<queue, poller, dlq, faults>>
    PROVE  Tokens'
<1>1. /\ Goes(o, r) /\ Holds(o) /\ Holds(r) /\ r.sub = o.sub /\ Reach(o) = o.no /\ Reach(r) = o.no
      /\ r.stage # "schedule"
   BY DEF Moves, Holds, Reach
<1>2. \A a \in Attempts : a[1] # o.sub => row'[a].status = row[a].status /\ row'[a].env = row[a].env
   BY OutParts DEF RowSet
<1>3. "race" \notin faults => \A n \in Nos : n > Reach(r) => ~Made(<<o.sub, n>>)'
   BY <1>1, OutParts, AttemptPair DEF Tokens, Last, RowsFixed
<1>4. \A a \in Attempts : row'[a].env = row[a].env
   BY DEF RowsFixed
<1> QED BY <1>1, <1>2, <1>3, <1>4, HandlerTokens

LEMMA NackUpsertTokens ==
    ASSUME Typed, Typed', Rooted, Tokens, NEW o \in out, o.stage = "next",
           NEW a \in Attempts, a = <<o.sub, o.no + 1>>, a[1] = o.sub, a[2] = o.no + 1,
           row'[a].env = (IF Made(a) THEN row[a].env ELSE TRUE),
           \A c \in Attempts : c # a => row'[c] = row[c],
           NEW r \in Out, Moves(o, r, "schedule"), r.known = ~Made(a),
           UNCHANGED <<queue, poller, dlq, faults>>
    PROVE  Tokens'
<1>1. /\ Goes(o, r) /\ Holds(o) /\ Holds(r) /\ r.sub = o.sub /\ r.no = o.no /\ Reach(o) = o.no
      /\ Reach(r) = o.no + 1
   BY DEF Moves, Holds, Reach
<1>2. \A c \in Attempts : c[1] # o.sub => row'[c].status = row[c].status /\ row'[c].env = row[c].env
   OBVIOUS
<1>3. o.no \in Nat /\ a[2] \in Nos
   BY OutParts, AttemptParts, DeliveryAssumption DEF Nos, DeliveryAssumption
<1>4. ASSUME "race" \notin faults
      PROVE  /\ \A n \in Nos : n > Reach(r) => ~Made(<<o.sub, n>>)'
             /\ r.stage = "schedule" => r.known /\ row'[<<r.sub, r.no + 1>>].env
   <2>1. \A n \in Nos : n > o.no => ~Made(<<o.sub, n>>)
      BY <1>1, <1>4 DEF Tokens, Last
   <2>2. ~Made(a)
      BY <1>3, <2>1
   <2>3. ASSUME NEW n \in Nos, n > o.no + 1 PROVE ~Made(<<o.sub, n>>)'
      <3>1. n > o.no /\ n # o.no + 1
         BY <1>3, <2>3, DeliveryAssumption DEF Nos, DeliveryAssumption
      <3>2. <<o.sub, n>> \in Attempts /\ <<o.sub, n>> # a
         BY <3>1, OutParts, AttemptPair
      <3> QED BY <2>1, <3>1, <3>2 DEF Made
   <2> QED BY <1>1, <2>2, <2>3
<1>5. \A c \in Attempts : Made(c) => row'[c].env = row[c].env
   OBVIOUS
<1> QED BY <1>1, <1>2, <1>4, <1>5, HandlerTokens

\* The token goes back into the queue, for the next attempt.
LEMMA NackScheduleTokens ==
    ASSUME Typed, Typed', Rooted, Tokens, NEW o \in out, o.stage = "schedule",
           NEW r \in Out, Moves(o, r, "retry_env"),
           NEW a \in Attempts, a = <<o.sub, o.no + 1>>, a[1] = o.sub, a[2] = o.no + 1,
           NEW j \in Item, j.known = o.known, Queues(j, a),
           UNCHANGED <<row, poller, dlq, faults>>
    PROVE  Tokens'
<1>1. CASE "race" \in faults'
   BY <1>1 DEF Tokens, Barren, Apart, Alone, Last, Ended
<1>2. CASE "race" \notin faults'
   <2>1. "race" \notin faults
      BY <1>2
   <2>2. Goes(o, r) /\ Holds(o) /\ ~Holds(r) /\ Reach(o) = o.no + 1
      BY DEF Moves, Holds, Reach
   <2>3. /\ \A i \in Item : Waits(i) /\ Live(i) => i.sub # o.sub
         /\ \A q \in out' : Holds(q) => q \in out /\ q.sub # o.sub
         /\ \A c \in Attempts : c[1] = o.sub => dlq[c] = 0
         /\ \A n \in Nos : n > o.no + 1 => ~Made(<<o.sub, n>>)
      BY <2>1, <2>2, HandlersToken
   <2>4. j.sub = o.sub /\ j.no = o.no + 1 /\ j.known /\ queue' = queue \cup {j}
      BY <2>1 DEF Queues, Tokens, Last
   <2>5. \A i \in Item : Waits(i)' => i = j \/ Waits(i)
      BY <2>4 DEF Waits
   <2>6. \A i \in Item : Live(i)' = Live(i)
      BY DEF Live
   <2>7. Barren'
      BY <2>1, <2>4, <2>5 DEF Tokens, Barren
   <2>8. Apart'
      <3> SUFFICES ASSUME NEW p \in Pollers, NEW i \in Item, i \in poller[p].batch, Live(i)
                   PROVE  /\ \A q \in Pollers : i \in poller[q].batch => p = q
                          /\ poller[p].pc # "range" => i \notin queue'
         BY <2>6 DEF Apart
      <3>1. i # j
         BY <2>3, <2>4 DEF Waits
      <3> QED BY <2>1, <2>4, <3>1 DEF Tokens, Apart
   <2>9. Alone'
      <3>1. \A i, k \in Item : Waits(i)' /\ Waits(k)' /\ Live(i) /\ Live(k) /\ i.sub = k.sub => i = k
         BY <2>1, <2>3, <2>4, <2>5 DEF Tokens, Alone
      <3>2. \A i \in Item, q \in out' : Waits(i)' /\ Live(i) /\ Holds(q) => i.sub # q.sub
         BY <2>1, <2>3, <2>4, <2>5 DEF Tokens, Alone
      <3>3. \A q, t \in out' : Holds(q) /\ Holds(t) /\ q.sub = t.sub => q = t
         BY <2>1, <2>3 DEF Tokens, Alone
      <3> QED BY <2>6, <3>1, <3>2, <3>3 DEF Alone, Holds
   <2>10. Last'
      <3>1. \A i \in Item, n \in Nos : Waits(i)' /\ Live(i) /\ n > i.no => ~Made(<<i.sub, n>>)
         BY <2>1, <2>3, <2>4, <2>5 DEF Tokens, Last
      <3>2. \A q \in out', n \in Nos : Holds(q) /\ n > Reach(q) => ~Made(<<q.sub, n>>)
         BY <2>1, <2>3 DEF Tokens, Last
      <3>3. \A q \in out' : q.stage = "schedule" => q.known /\ row[<<q.sub, q.no + 1>>].env
         BY <2>1, <2>3 DEF Tokens, Last, Holds
      <3> QED BY <2>6, <3>1, <3>2, <3>3 DEF Last, Reach, Holds, Made
   <2>11. Ended'
      <3> SUFFICES ASSUME NEW b \in Attempts, dlq[b] # 0
                   PROVE  /\ dlq[b] = 1
                          /\ \A i \in Item : Waits(i)' /\ Live(i) => i.sub # b[1]
                          /\ \A q \in out' : Holds(q) => q.sub # b[1]
                          /\ \A n \in Nos : n > b[2] => ~Made(<<b[1], n>>)
         BY <2>6 DEF Ended, Holds, Made
      <3>1. /\ dlq[b] = 1
            /\ \A i \in Item : Waits(i) /\ Live(i) => i.sub # b[1]
            /\ \A q \in out : Holds(q) => q.sub # b[1]
            /\ \A n \in Nos : n > b[2] => ~Made(<<b[1], n>>)
         BY <2>1 DEF Tokens, Ended
      <3>2. b[1] # o.sub
         BY <2>3
      <3> QED BY <2>3, <2>4, <2>5, <3>1, <3>2
   <2> QED BY <2>7, <2>8, <2>9, <2>10, <2>11 DEF Tokens
<1> QED BY <1>1, <1>2

-----------------------------------------------------------------------------
(* Reading and removing a range moves tokens about in the queue.           *)
LEMMA PopRangeTokens ==
    ASSUME Typed, Typed', Rooted, Tokens, IdleIsEmpty, NEW p \in Pollers, NEW batch \in SUBSET queue,
           \/ faults' = faults /\ batch \cap InBatches = {}
           \/ faults' = faults \cup {"race"},
           poller[p].batch = {}, poller'[p].batch = batch, poller'[p].pc = "range",
           \A q \in Pollers : q # p => poller'[q] = poller[q],
           UNCHANGED <<row, queue, dlq, out>>
    PROVE  Tokens'
<1>1. CASE "race" \in faults'
   BY <1>1 DEF Tokens, Barren, Apart, Alone, Last, Ended
<1>2. CASE "race" \notin faults'
   <2>1. "race" \notin faults /\ \A q \in Pollers : batch \cap poller[q].batch = {}
      BY <1>2 DEF InBatches
   <2>2. \A i \in Item : (Waits(i)' => Waits(i)) /\ Live(i)' = Live(i)
      BY DEF Waits, Live
   <2>3. \A a \in Attempts : Made(a)' = Made(a)
      BY DEF Made
   <2>4. Barren'
      BY <2>1, <2>2 DEF Tokens, Barren
   <2>5. Apart'
      <3> SUFFICES ASSUME NEW q \in Pollers, NEW i \in Item, i \in poller'[q].batch, Live(i)
                   PROVE  /\ \A t \in Pollers : i \in poller'[t].batch => q = t
                          /\ poller'[q].pc # "range" => i \notin queue
         BY <2>2 DEF Apart
      <3>1. CASE q = p
         BY <2>1, <3>1
      <3>2. CASE q # p
         BY <2>1, <3>2 DEF Tokens, Apart
      <3> QED BY <3>1, <3>2
   <2>6. Alone'
      BY <2>1, <2>2 DEF Tokens, Alone, Holds
   <2>7. Last'
      BY <2>1, <2>2 DEF Tokens, Last, Reach, Holds, Made
   <2>8. Ended'
      BY <2>1, <2>2 DEF Tokens, Ended, Holds, Made
   <2> QED BY <2>4, <2>5, <2>6, <2>7, <2>8 DEF Tokens
<1> QED BY <1>1, <1>2

LEMMA PopRemoveTokens ==
    ASSUME Typed, Typed', Rooted, Tokens, NEW p \in Pollers, queue' = queue \ poller[p].batch,
           poller'[p].batch = poller[p].batch, poller'[p].pc = "batch",
           \A q \in Pollers : q # p => poller'[q] = poller[q],
           UNCHANGED <<row, dlq, out, faults>>
    PROVE  Tokens'
<1>1. CASE "race" \in faults'
   BY <1>1 DEF Tokens, Barren, Apart, Alone, Last, Ended
<1>2. CASE "race" \notin faults'
   <2>1. "race" \notin faults
      BY <1>2
   <2>2. \A i \in Item : (Waits(i)' => Waits(i)) /\ Live(i)' = Live(i)
      BY DEF Waits, Live
   <2>3. Barren'
      BY <2>1, <2>2 DEF Tokens, Barren
   <2>4. Apart'
      <3> SUFFICES ASSUME NEW q \in Pollers, NEW i \in Item, i \in poller'[q].batch, Live(i)
                   PROVE  /\ \A t \in Pollers : i \in poller'[t].batch => q = t
                          /\ poller'[q].pc # "range" => i \notin queue'
         BY <2>2 DEF Apart
      <3>1. \A t \in Pollers : poller'[t].batch = poller[t].batch
         OBVIOUS
      <3>2. CASE q = p
         BY <2>1, <3>1, <3>2 DEF Tokens, Apart
      <3>3. CASE q # p
         BY <2>1, <3>1, <3>3 DEF Tokens, Apart
      <3> QED BY <3>2, <3>3
   <2>5. Alone'
      BY <2>1, <2>2 DEF Tokens, Alone, Holds
   <2>6. Last'
      BY <2>1, <2>2 DEF Tokens, Last, Reach, Holds, Made
   <2>7. Ended'
      BY <2>1, <2>2 DEF Tokens, Ended, Holds, Made
   <2> QED BY <2>3, <2>4, <2>5, <2>6, <2>7 DEF Tokens
<1> QED BY <1>1, <1>2

-----------------------------------------------------------------------------
(* A publisher starts the chain of a subscriber, or finds it started.      *)
LEMMA Unstarted ==
    ASSUME Typed, Rooted, NEW s \in Subscribers, ~Made(<<s, 1>>)
    PROVE  /\ \A n \in Nos : ~Made(<<s, n>>) /\ dlq[<<s, n>>] = 0
           /\ \A i \in Item : Waits(i) => i.sub # s
           /\ \A o \in out : o.sub # s
<1>1. \A n \in Nos : ~Made(<<s, n>>) /\ ~row[<<s, n>>].env /\ dlq[<<s, n>>] = 0
   BY AttemptPair DEF Rooted, RowsRooted, DeadRooted
<1>2. \A i \in Item : Waits(i) => i.sub # s
   BY DEF Rooted, ItemsRooted
<1>3. \A o \in out : o.sub # s
   BY <1>1, OutParts DEF Rooted, OutsRooted, Of
<1> QED BY <1>1, <1>2, <1>3

LEMMA PublishTokens ==
    ASSUME Typed, Typed', Rooted, Tokens, Publication, NEW b \in Publishers,
           NEW s \in publisher[b].todo, NEW a \in Attempts, NEW j \in Item,
           a = <<s, 1>>, a[1] = s, a[2] = 1,
           row'[a].status = "pending",
           row'[a].env = (IF Made(a) THEN row[a].env ELSE publisher[b].known),
           \A c \in Attempts : c # a => row'[c] = row[c],
           j.sub = s, j.known = ~Made(a), j.env = publisher[b].known, RowOf(j) = a,
           queue' = queue \cup {j}, UNCHANGED <<dlq, poller, out, faults>>
    PROVE  Tokens'
<1>1. CASE "race" \in faults'
   BY <1>1 DEF Tokens, Barren, Apart, Alone, Last, Ended
<1>2. CASE "race" \notin faults'
   <2>1. "race" \notin faults /\ s \in Subscribers
      BY <1>2, AttemptParts
   <2>2. \A i \in Item : Waits(i)' => i = j \/ Waits(i)
      BY DEF Waits
   <2>3. \A i \in Item : Waits(i) => Live(i)' = Live(i)
      BY ItemParts DEF Live, Rooted, ItemsRooted, RowOf
   <2>4. \A c \in Attempts : c # a => Made(c)' = Made(c)
      BY DEF Made
   <2>5. CASE Made(a)
      <3>1. ~Live(j)' /\ \A i \in Item : Waits(i)' /\ Live(i)' => Waits(i) /\ Live(i)
         BY <2>2, <2>3, <2>5 DEF Live
      <3>2. RowsFixed
         BY <2>4, <2>5 DEF RowsFixed, Made
      <3>3. Barren'
         <4>1. \A i \in Item, n \in Nos : row'[<<i.sub, n>>].env = row[<<i.sub, n>>].env
            BY <3>2, ItemParts, AttemptPair DEF RowsFixed
         <4>2. j.env => \A n \in Nos : ~row[<<j.sub, n>>].env
            BY DEF Publication
         <4> QED BY <2>1, <2>2, <4>1, <4>2 DEF Tokens, Barren
      <3>4. Apart'
         <4> SUFFICES ASSUME NEW p \in Pollers, NEW i \in Item, i \in poller[p].batch, Live(i)'
                      PROVE  /\ \A q \in Pollers : i \in poller[q].batch => p = q
                             /\ poller[p].pc # "range" => i \notin queue'
            BY DEF Apart
         <4>1. Live(i) /\ i # j
            BY <2>3, <3>1 DEF Waits
         <4> QED BY <2>1, <4>1 DEF Tokens, Apart
      <3>5. Alone'
         BY <2>1, <3>1 DEF Tokens, Alone, Holds
      <3>6. \A t \in Subscribers, n \in Nos : Made(<<t, n>>)' = Made(<<t, n>>)
         BY <3>2, AttemptPair DEF RowsFixed, Made
      <3>7. Last'
         <4>1. \A i \in Item, n \in Nos : Waits(i)' /\ Live(i)' /\ n > i.no => ~Made(<<i.sub, n>>)'
            BY <2>1, <3>1, <3>6, ItemParts DEF Tokens, Last
         <4>2. \A o \in out, n \in Nos : Holds(o) /\ n > Reach(o) => ~Made(<<o.sub, n>>)'
            BY <2>1, <3>6, OutParts DEF Tokens, Last
         <4>3. \A o \in out : o.stage = "schedule" => o.known /\ row'[<<o.sub, o.no + 1>>].env
            BY <2>1, <3>2, NextRowStays DEF RowsFixed
         <4> QED BY <4>1, <4>2, <4>3 DEF Last, Reach, Holds
      <3>8. Ended'
         <4> SUFFICES ASSUME NEW c \in Attempts, dlq[c] # 0
                      PROVE  /\ dlq[c] = 1
                             /\ \A i \in Item : Waits(i)' /\ Live(i)' => i.sub # c[1]
                             /\ \A o \in out : Holds(o) => o.sub # c[1]
                             /\ \A n \in Nos : n > c[2] => ~Made(<<c[1], n>>)'
            BY DEF Ended, Holds
         <4> QED BY <2>1, <3>1, <3>6, AttemptParts DEF Tokens, Ended
      <3> QED BY <3>3, <3>4, <3>5, <3>7, <3>8 DEF Tokens
   <2>6. CASE ~Made(a)
      <3>1. /\ \A n \in Nos : ~Made(<<s, n>>) /\ dlq[<<s, n>>] = 0
            /\ \A i \in Item : Waits(i) => i.sub # s
            /\ \A o \in out : o.sub # s
         BY <2>1, <2>6, Unstarted
      <3>2. \A t \in Subscribers, n \in Nos : t # s =>
               Made(<<t, n>>)' = Made(<<t, n>>) /\ row'[<<t, n>>].env = row[<<t, n>>].env
         BY AttemptPair DEF Made
      <3>3. \A n \in Nos : n > 1 => ~Made(<<s, n>>)'
         BY <2>1, <2>4, <3>1, AttemptPair
      <3>4. Barren'
         <4> SUFFICES ASSUME NEW i \in Item, Waits(i)', ~i.known, i.env, NEW n \in Nos
                      PROVE  ~row'[<<i.sub, n>>].env
            BY DEF Barren
         <4>1. Waits(i)
            BY <2>2, <2>6
         <4> QED BY <2>1, <3>1, <3>2, <4>1, ItemParts DEF Tokens, Barren
      <3>5. Apart'
         <4> SUFFICES ASSUME NEW p \in Pollers, NEW i \in Item, i \in poller[p].batch, Live(i)'
                      PROVE  /\ \A q \in Pollers : i \in poller[q].batch => p = q
                             /\ poller[p].pc # "range" => i \notin queue'
            BY DEF Apart
         <4>1. Live(i) /\ i # j
            BY <2>3, <3>1 DEF Waits
         <4> QED BY <2>1, <4>1 DEF Tokens, Apart
      <3>6. Alone'
         <4>1. \A i, k \in Item : Waits(i)' /\ Waits(k)' /\ Live(i)' /\ Live(k)' /\ i.sub = k.sub => i = k
            BY <2>1, <2>2, <2>3, <3>1 DEF Tokens, Alone
         <4>2. \A i \in Item, o \in out : Waits(i)' /\ Live(i)' /\ Holds(o) => i.sub # o.sub
            BY <2>1, <2>2, <2>3, <3>1 DEF Tokens, Alone
         <4> QED BY <2>1, <4>1, <4>2 DEF Tokens, Alone, Holds
      <3>7. Last'
         <4>1. \A i \in Item, n \in Nos : Waits(i)' /\ Live(i)' /\ n > i.no => ~Made(<<i.sub, n>>)'
            <5> SUFFICES ASSUME NEW i \in Item, NEW n \in Nos, Waits(i)', Live(i)', n > i.no
                         PROVE  ~Made(<<i.sub, n>>)'
               OBVIOUS
            <5>1. CASE i = j
               BY <3>3, <5>1, ItemParts
            <5>2. CASE Waits(i)
               BY <2>1, <2>3, <3>1, <3>2, <5>2, ItemParts DEF Tokens, Last
            <5> QED BY <2>2, <5>1, <5>2
         <4>2. \A o \in out, n \in Nos : Holds(o) /\ n > Reach(o) => ~Made(<<o.sub, n>>)'
            BY <2>1, <3>1, <3>2, OutParts DEF Tokens, Last
         <4>3. \A o \in out : o.stage = "schedule" => o.known /\ row'[<<o.sub, o.no + 1>>].env
            <5>1. \A c \in Attempts : row[c].env => row'[c].env
               BY <2>6 DEF Rooted, RowsRooted
            <5> QED BY <2>1, <5>1, NextRowStays
         <4> QED BY <4>1, <4>2, <4>3 DEF Last, Reach, Holds
      <3>8. Ended'
         <4> SUFFICES ASSUME NEW c \in Attempts, dlq[c] # 0
                      PROVE  /\ dlq[c] = 1
                             /\ \A i \in Item : Waits(i)' /\ Live(i)' => i.sub # c[1]
                             /\ \A o \in out : Holds(o) => o.sub # c[1]
                             /\ \A n \in Nos : n > c[2] => ~Made(<<c[1], n>>)'
            BY DEF Ended, Holds
         <4>1. c[1] # s
            BY <3>1, AttemptParts
         <4>2. /\ dlq[c] = 1
               /\ \A i \in Item : Waits(i) /\ Live(i) => i.sub # c[1]
               /\ \A o \in out : Holds(o) => o.sub # c[1]
               /\ \A n \in Nos : n > c[2] => ~Made(<<c[1], n>>)
            BY <2>1 DEF Tokens, Ended
         <4>3. \A i \in Item : Waits(i)' /\ Live(i)' => i.sub # c[1]
            BY <2>2, <2>3, <4>1, <4>2
         <4>4. \A n \in Nos : n > c[2] => ~Made(<<c[1], n>>)'
            BY <3>2, <4>1, <4>2, AttemptParts
         <4> QED BY <4>2, <4>3, <4>4
      <3> QED BY <3>4, <3>5, <3>6, <3>7, <3>8 DEF Tokens
   <2> QED BY <2>5, <2>6
<1> QED BY <1>1, <1>2

-----------------------------------------------------------------------------
(* Rows are never deleted, so what is about them stays so.                 *)
OutFits(o) ==
    /\ o.stage \in {"next", "schedule"} => o.no < MaxRetry
    /\ o.stage = "dead" => o.no = MaxRetry

LEMMA FixedRooted ==
    ASSUME Typed, Typed', Rooted, RowsFixed,
           \A j \in Item : Waits(j)' => Waits(j) \/ Made(RowOf(j)),
           \A o \in out' : o \in out \/ (row[Of(o)].env /\ OutFits(o) /\ o.stage # "schedule"),
           UNCHANGED dlq
    PROVE  Rooted'
<1>1. RowsRooted'
   BY AttemptParts DEF Rooted, RowsRooted, RowsFixed
<1>2. ItemsRooted'
   <2> SUFFICES ASSUME NEW i \in Item, Waits(i)'
                PROVE  Made(<<i.sub, 1>>)' /\ (i.known => Made(RowOf(i))')
      BY DEF ItemsRooted, RowOf
   <2>1. Made(<<i.sub, 1>>) /\ (i.known => Made(RowOf(i)))
      <3>1. CASE Waits(i)
         BY <3>1 DEF Rooted, ItemsRooted
      <3>2. CASE Made(RowOf(i))
         BY <3>2, ItemParts DEF Rooted, RowsRooted
      <3> QED BY <3>1, <3>2
   <2>2. <<i.sub, 1>> \in Attempts /\ RowOf(i) \in Attempts
      BY ItemParts, AttemptParts
   <2> QED BY <2>1, <2>2 DEF RowsFixed
<1>3. OutsRooted'
   <2> SUFFICES ASSUME NEW o \in out'
                PROVE  row'[Of(o)].env /\ OutFits(o)
      BY DEF OutsRooted, OutFits, Of
   <2>1. row[Of(o)].env /\ OutFits(o)
      BY DEF Rooted, OutsRooted, OutFits
   <2>2. Of(o) \in Attempts
      BY AttemptPair DEF Typed, DeliveryTypeOK, Out, Of
   <2> QED BY <2>1, <2>2 DEF RowsFixed
<1>4. DeadRooted'
   BY DEF Rooted, DeadRooted, RowsFixed
<1>5. NextRooted'
   BY NextRootedStays DEF RowsFixed
<1> QED BY <1>1, <1>2, <1>3, <1>4, <1>5 DEF Rooted

LEMMA PublishRooted ==
    ASSUME Typed, Typed', Rooted, NEW s \in Subscribers, NEW a \in Attempts, NEW j \in Item,
           NEW e \in BOOLEAN, a = <<s, 1>>, a[1] = s, a[2] = 1,
           row'[a].status = "pending", row'[a].env = (IF Made(a) THEN row[a].env ELSE e),
           \A c \in Attempts : c # a => row'[c] = row[c],
           j.sub = s, RowOf(j) = a, queue' = queue \cup {j}, UNCHANGED <<dlq, poller, out>>
    PROVE  Rooted'
<1>1. Made(a)' /\ \A c \in Attempts : Made(c) => Made(c)' /\ row'[c].env = row[c].env
   BY DEF Made
<1>2. \A c \in Attempts : c # a => Made(c)' = Made(c) /\ row'[c].env = row[c].env
   BY DEF Made
<1>3. RowsRooted'
   <2> SUFFICES ASSUME NEW c \in Attempts
                PROVE  (Made(c)' \/ ~row'[c].env) /\ (Made(c)' => Made(<<c[1], 1>>)')
      BY DEF RowsRooted
   <2>1. CASE c = a
      BY <1>1, <2>1
   <2>2. CASE c # a
      BY <1>1, <1>2, <2>2, AttemptParts DEF Rooted, RowsRooted
   <2> QED BY <2>1, <2>2
<1>4. ItemsRooted'
   <2> SUFFICES ASSUME NEW i \in Item, Waits(i)'
                PROVE  Made(<<i.sub, 1>>)' /\ (i.known => Made(RowOf(i))')
      BY DEF ItemsRooted, RowOf
   <2>1. CASE i = j
      BY <1>1, <2>1
   <2>2. CASE Waits(i)
      BY <1>1, <2>2, ItemParts, AttemptParts DEF Rooted, ItemsRooted
   <2> QED BY <2>1, <2>2 DEF Waits
<1>5. OutsRooted'
   <2>1. \A o \in out : row'[Of(o)].env
      BY <1>1, OutParts DEF Rooted, OutsRooted, RowsRooted
   <2> QED BY <2>1 DEF Rooted, OutsRooted, Of
<1>6. DeadRooted'
   BY <1>1 DEF Rooted, DeadRooted
<1>7. NextRooted'
   BY <1>1, NextRootedStays
<1> QED BY <1>3, <1>4, <1>5, <1>6, <1>7 DEF Rooted

LEMMA NackUpsertRooted ==
    ASSUME Typed, Typed', Rooted, NEW o \in out, o.stage = "next",
           NEW a \in Attempts, a = <<o.sub, o.no + 1>>, a[1] = o.sub,
           row'[a].status = "pending", row'[a].env = (IF Made(a) THEN row[a].env ELSE TRUE),
           \A c \in Attempts : c # a => row'[c] = row[c],
           NEW r \in Out, Moves(o, r, "schedule"), UNCHANGED <<queue, dlq, poller>>
    PROVE  Rooted'
<1>1. Made(a)' /\ \A c \in Attempts : Made(c) => Made(c)' /\ row'[c].env = row[c].env
   BY DEF Made
<1>2. \A c \in Attempts : c # a => Made(c)' = Made(c) /\ row'[c].env = row[c].env
   BY DEF Made
<1>3. Made(<<a[1], 1>>)
   BY OutParts DEF Rooted, OutsRooted, RowsRooted
<1>4. RowsRooted'
   <2> SUFFICES ASSUME NEW c \in Attempts
                PROVE  (Made(c)' \/ ~row'[c].env) /\ (Made(c)' => Made(<<c[1], 1>>)')
      BY DEF RowsRooted
   <2>1. CASE c = a
      BY <1>1, <1>3, <2>1, AttemptParts
   <2>2. CASE c # a
      BY <1>1, <1>2, <2>2, AttemptParts DEF Rooted, RowsRooted
   <2> QED BY <2>1, <2>2
<1>5. ItemsRooted'
   <2> SUFFICES ASSUME NEW i \in Item, Waits(i)
                PROVE  Made(<<i.sub, 1>>)' /\ (i.known => Made(RowOf(i))')
      BY DEF ItemsRooted, RowOf, Waits
   <2> QED BY <1>1, ItemParts, AttemptParts DEF Rooted, ItemsRooted
<1>6. OutsRooted'
   <2> SUFFICES ASSUME NEW q \in out'
                PROVE  row'[Of(q)].env /\ OutFits(q)
      BY DEF OutsRooted, OutFits, Of
   <2>1. \A t \in out : row'[Of(t)].env /\ OutFits(t)
      BY <1>1, OutParts DEF Rooted, OutsRooted, RowsRooted, OutFits
   <2>2. Of(r) = Of(o) /\ OutFits(r)
      BY DEF Moves, Of, OutFits, Rooted, OutsRooted
   <2> QED BY <2>1, <2>2 DEF Moves, Goes
<1>7. DeadRooted'
   BY <1>1 DEF Rooted, DeadRooted
<1>8. NextRooted'
   <2>1. Made(<<r.sub, r.no + 1>>)'
      BY <1>1 DEF Moves
   <2> QED BY <1>1, <2>1, NextRootedStays DEF Moves, Goes
<1> QED BY <1>4, <1>5, <1>6, <1>7, <1>8 DEF Rooted

-----------------------------------------------------------------------------
(* Publications.                                                           *)
LEMMA PublishEnvelopePublication ==
    ASSUME Typed, Typed', Rooted, Unborn, Publication, NEW b \in Publishers,
           publisher'[b].known = (env = "none"),
           \A c \in Publishers : c # b => publisher'[c] = publisher[c],
           UNCHANGED row
    PROVE  Publication'
<1>1. CASE env = "none"
   <2>1. \A a \in Attempts : ~row[a].env
      BY <1>1 DEF Unborn, Rooted, RowsRooted
   <2>2. \A c \in Publishers : publisher'[c].known => c = b
      BY <1>1 DEF Unborn
   <2>3. \A c \in Publishers : publisher'[c].todo \subseteq Subscribers
      BY DEF Typed, DeliveryTypeOK
   <2> QED BY <2>1, <2>2, <2>3, AttemptPair DEF Publication
<1>2. CASE env # "none"
   BY <1>2 DEF Publication
<1> QED BY <1>1, <1>2

LEMMA PublishAttemptPublication ==
    ASSUME Typed, Publication, NEW b \in Publishers, NEW s \in publisher[b].todo,
           NEW a \in Attempts, a = <<s, 1>>, a[1] = s,
           row'[a].env = (IF Made(a) THEN row[a].env ELSE publisher[b].known),
           \A c \in Attempts : c # a => row'[c] = row[c],
           publisher'[b].known = publisher[b].known, publisher'[b].todo = publisher[b].todo \ {s},
           \A c \in Publishers : c # b => publisher'[c] = publisher[c]
    PROVE  Publication'
<1>1. \A c \in Publishers : publisher'[c].known = publisher[c].known
                            /\ publisher'[c].todo \subseteq publisher[c].todo
   OBVIOUS
<1>2. ASSUME NEW c \in Publishers, publisher'[c].known, NEW t \in publisher'[c].todo, NEW n \in Nos
      PROVE  ~row'[<<t, n>>].env
   <2>1. publisher[c].known /\ t \in publisher[c].todo /\ ~row[<<t, n>>].env
      BY <1>1, <1>2 DEF Publication
   <2>2. <<t, n>> \in Attempts
      BY <2>1, AttemptPair DEF Typed, DeliveryTypeOK
   <2>3. CASE <<t, n>> # a
      BY <2>1, <2>2, <2>3
   <2>4. CASE <<t, n>> = a
      <3>1. t = s
         BY <2>4
      <3>2. c # b
         BY <1>2, <3>1
      <3>3. ~publisher[b].known
         BY <2>1, <3>2 DEF Publication
      <3>4. publisher[b].known = FALSE
         BY <3>3 DEF Typed, DeliveryTypeOK
      <3> QED BY <2>1, <2>4, <3>4
   <2> QED BY <2>3, <2>4
<1> QED BY <1>1, <1>2 DEF Publication

LEMMA NackUpsertPublication ==
    ASSUME Typed, Rooted, Publication, NEW o \in out, NEW a \in Attempts, a[1] = o.sub,
           \A c \in Attempts : c # a => row'[c] = row[c], UNCHANGED publisher
    PROVE  Publication'
<1>1. ASSUME NEW c \in Publishers, publisher[c].known, NEW t \in publisher[c].todo, NEW n \in Nos
      PROVE  ~row'[<<t, n>>].env
   <2>1. \A m \in Nos : ~row[<<t, m>>].env
      BY <1>1 DEF Publication
   <2>2. t # o.sub
      BY <2>1, OutParts DEF Rooted, OutsRooted, Of
   <2>3. <<t, n>> \in Attempts /\ <<t, n>> # a
      BY <1>1, <2>2, AttemptPair DEF Typed, DeliveryTypeOK
   <2> QED BY <2>1, <2>3
<1> QED BY <1>1 DEF Publication

-----------------------------------------------------------------------------
(* Without a second Publish there is one UUID of the envelope.             *)
LEMMA FixedOriginal ==
    ASSUME Original, RowsFixed, \A j \in Item : Waits(j)' => Waits(j) \/ j.env,
           faults \subseteq faults', UNCHANGED publisher
    PROVE  Original'
BY DEF Original, RowsFixed

LEMMA PublishEnvelopeOriginal ==
    ASSUME Typed, Unborn, Original, NEW b \in Publishers, env # "none" => "republish" \in faults',
           publisher'[b].known = (env = "none"),
           \A c \in Publishers : c # b => publisher'[c] = publisher[c],
           UNCHANGED <<row, queue, poller>>
    PROVE  Original'
<1> SUFFICES ASSUME "republish" \notin faults'
             PROVE  /\ \A a \in Attempts : Made(a) => row[a].env
                    /\ \A i \in Item : Waits(i) => i.env
                    /\ \A c \in Publishers : publisher'[c].todo # {} => publisher'[c].known
   BY DEF Original, Made, Waits
<1>1. env = "none"
   OBVIOUS
<1>2. \A a \in Attempts : ~Made(a)
   BY <1>1 DEF Unborn
<1>3. "republish" \notin faults
   BY <1>1 DEF Unborn
<1>4. \A c \in Publishers : c # b => publisher'[c].todo = {}
   BY <1>1 DEF Unborn
<1> QED BY <1>1, <1>2, <1>3, <1>4 DEF Original

LEMMA PublishAttemptOriginal ==
    ASSUME Original, NEW b \in Publishers, NEW s \in publisher[b].todo, NEW a \in Attempts,
           NEW j \in Item,
           row'[a].env = (IF Made(a) THEN row[a].env ELSE publisher[b].known),
           \A c \in Attempts : c # a => row'[c] = row[c],
           j.env = publisher[b].known, queue' = queue \cup {j},
           publisher'[b].known = publisher[b].known, publisher'[b].todo = publisher[b].todo \ {s},
           \A c \in Publishers : c # b => publisher'[c] = publisher[c],
           UNCHANGED <<poller, faults>>
    PROVE  Original'
<1> SUFFICES ASSUME "republish" \notin faults
             PROVE  /\ \A c \in Attempts : Made(c)' => row'[c].env
                    /\ \A i \in Item : Waits(i)' => i.env
                    /\ \A c \in Publishers : publisher'[c].todo # {} => publisher'[c].known
   BY DEF Original
<1>1. publisher[b].known
   BY DEF Original
<1>2. \A c \in Attempts : Made(c)' => row'[c].env
   BY <1>1 DEF Original, Made
<1>3. \A i \in Item : Waits(i)' => i = j \/ Waits(i)
   BY DEF Waits
<1> QED BY <1>1, <1>2, <1>3 DEF Original

LEMMA NackUpsertOriginal ==
    ASSUME Original, NEW a \in Attempts, row'[a].env = (IF Made(a) THEN row[a].env ELSE TRUE),
           \A c \in Attempts : c # a => row'[c] = row[c],
           UNCHANGED <<queue, poller, publisher, faults>>
    PROVE  Original'
BY DEF Original, Made, Waits

-----------------------------------------------------------------------------
LEMMA ExhaustedStays ==
    ASSUME Exhausted,
           \A a \in Attempts : row'[a].status = "failed" /\ a[2] = MaxRetry =>
               \/ row[a].status = "failed" \/ dlq'[a] # 0
               \/ \E o \in out' : o.stage = "dead" /\ Of(o) = a,
           \A a \in Attempts : dlq[a] # 0 => dlq'[a] # 0,
           \A o \in out : o.stage = "dead" => o \in out' \/ dlq'[Of(o)] # 0
    PROVE  Exhausted'
BY DEF Exhausted, Of

-----------------------------------------------------------------------------
(* What an item leads to, and who is responsible for an attempt, remains.  *)
LEMMA FoundStays ==
    ASSUME Typed', Rooted', Original', Tokens', NEW i \in Item, Waits(i)', NEW a \in Found(i), Awaited(a)'
    PROVE  a \in Found(i)'
<1>1. a \in Attempts /\ a[1] = i.sub /\ (i.known => a = RowOf(i))
   BY FoundIs
<1>2. CASE i.known
   BY <1>1, <1>2 DEF Found, RowOf
<1>3. CASE ~i.known
   <2>1. Made(a)' /\ "republish" \notin faults'
      BY DEF Awaited, Made, ActiveStatuses
   <2>2. row'[a].env /\ i.env
      BY <1>1, <2>1 DEF Original
   <2>3. CASE Newest(a)'
      BY <1>1, <1>3, <2>1, <2>2, <2>3, NewestIsFound
   <2>4. CASE faults' = {}
      <3>1. \A n \in Nos : ~row'[<<i.sub, n>>].env
         BY <1>3, <2>2, <2>4 DEF Tokens, Barren
      <3> QED BY <1>1, <2>2, <3>1, AttemptParts
   <2> QED BY <2>3, <2>4 DEF Awaited
<1> QED BY <1>2, <1>3

LEMMA ResponsibleStays ==
    ASSUME Typed, Typed', Rooted, Rooted', Original', Tokens', Kept, faults \subseteq faults',
           \A a \in Attempts : Made(a) => Made(a)',
           \A a \in Attempts : Awaited(a)' => row[a].status \in ActiveStatuses \/ Responsible(a)',
           \A i \in Item, a \in Attempts :
               a \in Found(i) /\ Waits(i) /\ ~Waits(i)' /\ Awaited(a)' => Responsible(a)',
           \A o \in out, a \in Attempts :
               /\ \/ o.stage = "out" /\ Of(o) = a
                  \/ o.stage = "schedule" /\ <<o.sub, o.no + 1>> = a
               /\ o \notin out' /\ Awaited(a)'
               => Responsible(a)'
    PROVE  Kept'
<1> SUFFICES ASSUME NEW a \in Attempts, Awaited(a)', row[a].status \in ActiveStatuses
             PROVE  Responsible(a)'
   BY DEF Kept
<1>1. Newest(a)' => Newest(a)
   BY AttemptParts, AttemptPair DEF Newest, Made
<1>2. Awaited(a)
   BY <1>1 DEF Awaited
<1>3. Responsible(a)
   BY <1>2 DEF Kept
<1>4. CASE \E i \in Item : Waits(i) /\ a \in Found(i)
   <2>1. PICK i \in Item : Waits(i) /\ a \in Found(i)
      BY <1>4
   <2>2. CASE Waits(i)'
      <3>1. a \in Found(i)'
         BY <2>1, <2>2, FoundStays
      <3> QED BY <2>2, <3>1 DEF Responsible
   <2>3. CASE ~Waits(i)'
      BY <2>1, <2>3
   <2> QED BY <2>2, <2>3
<1>5. CASE \E o \in out : \/ o.stage = "out" /\ Of(o) = a
                          \/ o.stage = "schedule" /\ <<o.sub, o.no + 1>> = a
   BY <1>5 DEF Responsible, Of
<1> QED BY <1>3, <1>4, <1>5 DEF Responsible

\* An item that is known, or the answer, makes the next one responsible.
LEMMA ItemResponsible ==
    ASSUME NEW j \in Item, Waits(j)', j.known, NEW a, RowOf(j) = a
    PROVE  Responsible(a)'
<1>1. a \in Found(j)'
   BY DEF Found, RowOf
<1> QED BY <1>1 DEF Responsible

-----------------------------------------------------------------------------
(* The actions.                                                            *)
LEMMA InvNow ==
    ASSUME DeliveryInv
    PROVE  /\ Typed /\ Unborn /\ IdleIsEmpty /\ Publication /\ Rooted /\ Original /\ Tokens
           /\ Exhausted /\ Kept /\ DeliveryTypeOK
BY DEF DeliveryInv, Typed

\* Who works on the event works on one that was published.
LEMMA Born ==
    ASSUME Unborn,
           \/ out # {} \/ (\E p \in Pollers : poller[p].pc # "idle") \/ queue # {}
           \/ \E b \in Publishers : publisher[b].todo # {}
    PROVE  env # "none"
BY DEF Unborn

LEMMA RowSetIs ==
    ASSUME NEW a \in Attempts, Made(a), NEW status \in Statuses \ {"none"}, RowSet(a, status)
    PROVE  RowsFixed /\ \A b \in Attempts : b # a => row'[b].status = row[b].status
BY DEF RowSet, RowsFixed, Made

LEMMA PublishEnvelopeInv ==
    ASSUME DeliveryInv, NEW b \in Publishers, PublishEnvelope(b)
    PROVE  DeliveryInv'
<1>1. /\ Typed' /\ IdleIsEmpty'
      /\ row' = row /\ queue' = queue /\ dlq' = dlq /\ poller' = poller /\ out' = out
      /\ env' = "pending"
      /\ faults' = faults \/ faults' = faults \cup {"republish"}
      /\ env # "none" => "republish" \in faults'
      /\ publisher'[b].known = (env = "none")
      /\ \A c \in Publishers : c # b => publisher'[c] = publisher[c]
   BY InvNow, PublishEnvelopeIs
<1>2. Quiet
   BY <1>1 DEF Quiet, RowsFixed, ItemsFixed, OutsFixed, Made
<1>3. Rooted' /\ Tokens'
   BY <1>1, <1>2, InvNow, QuietRooted, QuietTokens, QuietEnded DEF Tokens
<1>4. Publication'
   BY <1>1, InvNow, PublishEnvelopePublication
<1>5. Original'
   BY <1>1, InvNow, PublishEnvelopeOriginal
<1>6. Exhausted'
   BY <1>1, InvNow, ExhaustedStays
<1>7. Kept'
   <2>1. \A i \in Item : Waits(i)' = Waits(i)
      BY <1>1 DEF Waits
   <2>2. \A a \in Attempts : Made(a)' = Made(a)
      BY <1>1 DEF Made
   <2>3. \A a \in Attempts : Awaited(a)' => row[a].status \in ActiveStatuses
      BY <1>1 DEF Awaited
   <2> QED BY <1>1, <1>3, <1>5, <2>1, <2>2, <2>3, InvNow, ResponsibleStays
<1>8. Unborn'
   BY <1>1 DEF Unborn
<1> QED BY <1>1, <1>3, <1>4, <1>5, <1>6, <1>7, <1>8 DEF DeliveryInv

LEMMA PublishAttemptInv ==
    ASSUME DeliveryInv, NEW b \in Publishers, NEW s \in Subscribers, PublishAttempt(b, s)
    PROVE  DeliveryInv'
<1>1. /\ Typed' /\ IdleIsEmpty'
      /\ UNCHANGED <<env, dlq, poller, out, faults>>
      /\ s \in publisher[b].todo
      /\ publisher'[b].known = publisher[b].known
      /\ publisher'[b].todo = publisher[b].todo \ {s}
      /\ \A c \in Publishers : c # b => publisher'[c] = publisher[c]
   BY InvNow, PublishAttemptIs
<1>2. PICK a \in Attempts, j \in Item :
         /\ a = <<s, 1>> /\ a[1] = s /\ a[2] = 1
         /\ row'[a].status = "pending"
         /\ row'[a].env = (IF Made(a) THEN row[a].env ELSE publisher[b].known)
         /\ \A c \in Attempts : c # a => row'[c] = row[c]
         /\ j.sub = s /\ j.known = ~Made(a) /\ j.env = publisher[b].known
         /\ RowOf(j) = a /\ queue' = queue \cup {j}
   BY InvNow, PublishAttemptIs
<1>3. publisher[b].known \in BOOLEAN
   BY InvNow DEF DeliveryTypeOK
<1>4. Rooted'
   BY <1>1, <1>2, <1>3, InvNow, PublishRooted
<1>5. Tokens'
   BY <1>1, <1>2, InvNow, PublishTokens
<1>6. Publication'
   BY <1>1, <1>2, InvNow, PublishAttemptPublication
<1>7. Original'
   BY <1>1, <1>2, InvNow, PublishAttemptOriginal
<1>8. Exhausted'
   <2>1. \A c \in Attempts : row'[c].status = "failed" => row[c].status = "failed"
      BY <1>2
   <2> QED BY <1>1, <2>1, InvNow, ExhaustedStays
<1>9. Kept'
   <2>1. \A i \in Item : Waits(i) => Waits(i)'
      BY <1>1, <1>2 DEF Waits
   <2>2. \A c \in Attempts : Made(c) => Made(c)'
      BY <1>2 DEF Made
   <2>3. Waits(j)'
      BY <1>2 DEF Waits
   <2>4. ASSUME Awaited(a)' PROVE Responsible(a)'
      <3>1. "republish" \notin faults
         BY <1>1, <2>4 DEF Awaited
      <3>2. publisher[b].known
         BY <1>1, <3>1, InvNow DEF Original
      <3>3. ~row[a].env
         BY <1>1, <1>2, <3>2, InvNow, DeliveryAssumption DEF Publication, Nos, DeliveryAssumption
      <3>4. ~Made(a)
         BY <3>1, <3>3, InvNow DEF Original
      <3> QED BY <1>2, <2>3, <3>4, ItemResponsible
   <2>5. \A c \in Attempts : Awaited(c)' => row[c].status \in ActiveStatuses \/ Responsible(c)'
      <3> SUFFICES ASSUME NEW c \in Attempts, Awaited(c)', c # a
                   PROVE  row[c].status \in ActiveStatuses
         BY <2>4
      <3> QED BY <1>2 DEF Awaited
   <2> QED BY <1>1, <1>4, <1>5, <1>7, <2>1, <2>2, <2>5, InvNow, ResponsibleStays
<1>10. Unborn'
   BY <1>1, InvNow, Born DEF Unborn
<1> QED BY <1>1, <1>4, <1>5, <1>6, <1>7, <1>8, <1>9, <1>10 DEF DeliveryInv

LEMMA PopRangeInv ==
    ASSUME DeliveryInv, NEW p \in Pollers, NEW batch \in SUBSET queue, PopRange(p, batch)
    PROVE  DeliveryInv'
<1>1. /\ Typed' /\ IdleIsEmpty'
      /\ UNCHANGED <<env, row, queue, dlq, publisher, out>>
      /\ batch # {}
      /\ \/ faults' = faults /\ batch \cap InBatches = {}
         \/ faults' = faults \cup {"race"}
      /\ poller[p].pc = "idle" /\ poller[p].batch = {}
      /\ poller'[p].batch = batch /\ poller'[p].pc = "range"
      /\ \A q \in Pollers : q # p => poller'[q] = poller[q]
   BY InvNow, PopRangeIs
<1>2. \A i \in Item : Waits(i)' = Waits(i)
   BY <1>1 DEF Waits
<1>3. RowsFixed /\ \A a \in Attempts : Made(a)' = Made(a)
   BY <1>1 DEF RowsFixed, Made
<1>4. Rooted'
   BY <1>1, <1>2, <1>3, InvNow, FixedRooted
<1>5. Tokens'
   BY <1>1, InvNow, PopRangeTokens
<1>6. Publication'
   BY <1>1, <1>3, InvNow, QuietPublication
<1>7. Original'
   BY <1>1, <1>2, <1>3, InvNow, FixedOriginal
<1>8. Exhausted'
   BY <1>1, InvNow, ExhaustedStays
<1>9. Kept'
   <2>1. \A a \in Attempts : Awaited(a)' => row[a].status \in ActiveStatuses
      BY <1>1 DEF Awaited
   <2> QED BY <1>1, <1>2, <1>3, <1>4, <1>5, <1>7, <2>1, InvNow, ResponsibleStays
<1>10. Unborn'
   BY <1>1, InvNow, Born DEF Unborn
<1> QED BY <1>1, <1>4, <1>5, <1>6, <1>7, <1>8, <1>9, <1>10 DEF DeliveryInv

LEMMA PopRemoveInv ==
    ASSUME DeliveryInv, NEW p \in Pollers, PopRemove(p)
    PROVE  DeliveryInv'
<1>1. /\ Typed' /\ IdleIsEmpty'
      /\ UNCHANGED <<env, row, dlq, publisher, out, faults>>
      /\ queue' = queue \ poller[p].batch
      /\ poller[p].pc = "range"
      /\ poller'[p].batch = poller[p].batch /\ poller'[p].pc = "batch"
      /\ \A q \in Pollers : q # p => poller'[q] = poller[q]
   BY InvNow, PopRemoveIs
<1>2. \A i \in Item : Waits(i)' = Waits(i)
   <2>1. \A q \in Pollers : poller'[q].batch = poller[q].batch
      BY <1>1
   <2> QED BY <1>1, <2>1 DEF Waits
<1>3. RowsFixed /\ \A a \in Attempts : Made(a)' = Made(a)
   BY <1>1 DEF RowsFixed, Made
<1>4. Rooted'
   BY <1>1, <1>2, <1>3, InvNow, FixedRooted
<1>5. Tokens'
   BY <1>1, InvNow, PopRemoveTokens
<1>6. Publication'
   BY <1>1, <1>3, InvNow, QuietPublication
<1>7. Original'
   BY <1>1, <1>2, <1>3, InvNow, FixedOriginal
<1>8. Exhausted'
   BY <1>1, InvNow, ExhaustedStays
<1>9. Kept'
   <2>1. \A a \in Attempts : Awaited(a)' => row[a].status \in ActiveStatuses
      BY <1>1 DEF Awaited
   <2> QED BY <1>1, <1>2, <1>3, <1>4, <1>5, <1>7, <2>1, InvNow, ResponsibleStays
<1>10. Unborn'
   BY <1>1, InvNow, Born DEF Unborn
<1> QED BY <1>1, <1>4, <1>5, <1>6, <1>7, <1>8, <1>9, <1>10 DEF DeliveryInv

LEMMA PollSkipInv ==
    ASSUME DeliveryInv, NEW p \in Pollers, NEW i \in poller[p].batch, PollSkip(p, i)
    PROVE  DeliveryInv'
<1>1. /\ Typed' /\ IdleIsEmpty' /\ Took(p, i)
      /\ UNCHANGED <<env, row, queue, dlq, publisher, out, faults>>
      /\ \A a \in Found(i) : ~row[a].env
   BY InvNow, PollSkipIs
<1>2. Quiet /\ RowsFixed /\ ItemsFixed
   BY <1>1 DEF Quiet, RowsFixed, ItemsFixed, OutsFixed, Made, Took
<1>3. Rooted' /\ Tokens'
   BY <1>1, <1>2, InvNow, QuietRooted, QuietTokens, QuietEnded DEF Tokens
<1>4. Publication' /\ Original'
   BY <1>1, <1>2, InvNow, QuietPublication, QuietOriginal
<1>5. Exhausted'
   BY <1>1, InvNow, ExhaustedStays
<1>6. Kept'
   <2>1. \A k \in Item : Waits(k) => Waits(k)' \/ k = i
      BY <1>1 DEF Waits, Took
   <2>2. \A a \in Attempts : Made(a)' = Made(a)
      BY <1>1 DEF Made
   <2>3. \A a \in Attempts : Awaited(a)' => row[a].status \in ActiveStatuses
      BY <1>1 DEF Awaited
   <2>4. \A a \in Attempts : a \in Found(i) => ~Awaited(a)'
      BY <1>1, InvNow DEF Awaited, Original, Made, ActiveStatuses
   <2> QED BY <1>1, <1>3, <1>4, <2>1, <2>2, <2>3, <2>4, InvNow, ResponsibleStays
<1>7. Unborn'
   BY <1>1, InvNow, Born DEF Unborn, Took
<1> QED BY <1>1, <1>3, <1>4, <1>5, <1>6, <1>7 DEF DeliveryInv

LEMMA PollRescheduleInv ==
    ASSUME DeliveryInv, NEW p \in Pollers, NEW i \in poller[p].batch, PollReschedule(p, i)
    PROVE  DeliveryInv'
<1>1. /\ Typed' /\ IdleIsEmpty' /\ Took(p, i) /\ i \in Item
      /\ UNCHANGED <<env, row, dlq, publisher, out, faults>>
   BY InvNow, PollRescheduleIs DEF Took
<1>2. PICK a \in Found(i), j \in Item : a \in Attempts /\ row[a].env /\ j.known /\ j.env /\ Queues(j, a)
   BY InvNow, PollRescheduleIs
<1>3. RowsFixed /\ \A c \in Attempts : Made(c)' = Made(c)
   BY <1>1 DEF RowsFixed, Made
<1>4. Made(a) /\ RowOf(j) = a
   BY <1>2, InvNow DEF Rooted, RowsRooted, Queues
<1>5. /\ \A k \in Item : Waits(k)' => Waits(k) \/ k = j
      /\ \A k \in Item : Waits(k) => Waits(k)' \/ k = i
      /\ Waits(j)'
   BY <1>1, <1>2 DEF Waits, Took, Queues
<1>6. Rooted'
   BY <1>1, <1>3, <1>4, <1>5, InvNow, FixedRooted
<1>7. Tokens'
   BY <1>1, <1>2, <1>3, InvNow, RequeueTokens
<1>8. Publication' /\ Original'
   BY <1>1, <1>2, <1>3, <1>5, InvNow, QuietPublication, FixedOriginal
<1>9. Exhausted'
   BY <1>1, InvNow, ExhaustedStays
<1>10. Kept'
   <2>1. \A c \in Attempts : Awaited(c)' => row[c].status \in ActiveStatuses
      BY <1>1 DEF Awaited
   <2>2. \A c \in Found(i) : Responsible(c)'
      BY <1>1, <1>2, <1>4, <1>5, FoundIs, ItemResponsible
   <2> QED BY <1>1, <1>3, <1>5, <1>6, <1>7, <1>8, <2>1, <2>2, InvNow, ResponsibleStays
<1>11. Unborn'
   BY <1>1, InvNow, Born DEF Unborn, Took
<1> QED BY <1>1, <1>6, <1>7, <1>8, <1>9, <1>10, <1>11 DEF DeliveryInv

LEMMA PollOtherTopicInv ==
    ASSUME DeliveryInv, NEW p \in Pollers, NEW i \in poller[p].batch, PollOtherTopic(p, i)
    PROVE  DeliveryInv'
<1>1. /\ Typed' /\ IdleIsEmpty' /\ Took(p, i) /\ i \in Item
      /\ UNCHANGED <<env, dlq, publisher, out, faults>>
   BY InvNow, PollOtherTopicIs DEF Took
<1>2. PICK a \in Found(i), j \in Item :
         /\ a \in Attempts /\ row[a].env /\ RowSet(a, "delivering")
         /\ j.known /\ j.env /\ Queues(j, a)
   BY InvNow, PollOtherTopicIs
<1>3. Made(a) /\ RowOf(j) = a
   BY <1>2, InvNow DEF Rooted, RowsRooted, Queues
<1>4. RowsFixed /\ \A c \in Attempts : c # a => row'[c].status = row[c].status
   BY <1>2, <1>3, RowSetIs DEF Statuses
<1>5. /\ \A k \in Item : Waits(k)' => Waits(k) \/ k = j
      /\ \A k \in Item : Waits(k) => Waits(k)' \/ k = i
      /\ Waits(j)'
   BY <1>1, <1>2 DEF Waits, Took, Queues
<1>6. Rooted'
   BY <1>1, <1>3, <1>4, <1>5, InvNow, FixedRooted
<1>7. Tokens'
   BY <1>1, <1>2, <1>4, InvNow, RequeueTokens
<1>8. Publication' /\ Original'
   BY <1>1, <1>2, <1>4, <1>5, InvNow, QuietPublication, FixedOriginal
<1>9. Exhausted'
   <2>1. \A c \in Attempts : row'[c].status = "failed" => row[c].status = "failed"
      BY <1>2, <1>4 DEF RowSet
   <2> QED BY <1>1, <2>1, InvNow, ExhaustedStays
<1>10. Kept'
   <2>1. Responsible(a)'
      BY <1>2, <1>3, <1>5, ItemResponsible
   <2>2. \A c \in Attempts : Awaited(c)' => row[c].status \in ActiveStatuses \/ Responsible(c)'
      <3>1. \A c \in Attempts : c # a /\ Awaited(c)' => row[c].status \in ActiveStatuses
         BY <1>4 DEF Awaited
      <3> QED BY <2>1, <3>1
   <2>3. \A c \in Found(i) : Responsible(c)'
      BY <1>1, <2>1, FoundIs
   <2>4. \A c \in Attempts : Made(c) => Made(c)'
      BY <1>4 DEF RowsFixed
   <2> QED BY <1>1, <1>5, <1>6, <1>7, <1>8, <2>2, <2>3, <2>4, InvNow, ResponsibleStays
<1>11. Unborn'
   BY <1>1, InvNow, Born DEF Unborn, Took
<1> QED BY <1>1, <1>6, <1>7, <1>8, <1>9, <1>10, <1>11 DEF DeliveryInv

LEMMA PollRevertInv ==
    ASSUME DeliveryInv, AtMade, NEW p \in Pollers, PollRevert(p)
    PROVE  DeliveryInv'
<1>1. /\ Typed' /\ IdleIsEmpty' /\ Steps(p) /\ poller[p].pc # "idle"
      /\ UNCHANGED <<env, queue, dlq, publisher, out>> /\ faults \subseteq faults'
   BY InvNow, PollRevertIs
<1>2. PICK a \in poller[p].at :
         /\ a \in Attempts /\ RowSet(a, "pending")
         /\ row[a].status \notin ActiveStatuses => "overtaken" \in faults'
   BY InvNow, PollRevertIs
<1>3. Made(a)
   BY <1>2, InvNow DEF AtMade, Rooted, RowsRooted
<1>4. RowsFixed /\ \A c \in Attempts : c # a => row'[c].status = row[c].status
   BY <1>2, <1>3, RowSetIs DEF Statuses
<1>5. \A q \in Pollers : poller'[q].batch = poller[q].batch
   BY <1>1 DEF Steps
<1>6. Quiet
   BY <1>1, <1>4, <1>5 DEF Quiet, ItemsFixed, OutsFixed, Steps
<1>7. Rooted' /\ Tokens'
   BY <1>1, <1>6, InvNow, QuietRooted, QuietTokens, QuietEnded DEF Tokens
<1>8. Publication' /\ Original'
   BY <1>1, <1>4, <1>6, InvNow, QuietPublication, QuietOriginal
<1>9. Exhausted'
   <2>1. \A c \in Attempts : row'[c].status = "failed" => row[c].status = "failed"
      BY <1>2, <1>4 DEF RowSet
   <2> QED BY <1>1, <2>1, InvNow, ExhaustedStays
<1>10. Kept'
   <2>1. \A c \in Attempts : Awaited(c)' => row[c].status \in ActiveStatuses
      BY <1>2, <1>4 DEF Awaited
   <2>2. \A i \in Item : Waits(i)' = Waits(i)
      BY <1>1, <1>5 DEF Waits
   <2>3. \A c \in Attempts : Made(c) => Made(c)'
      BY <1>4 DEF RowsFixed
   <2> QED BY <1>1, <1>7, <1>8, <2>1, <2>2, <2>3, InvNow, ResponsibleStays
<1>11. Unborn'
   BY <1>1, InvNow, Born DEF Unborn
<1> QED BY <1>1, <1>7, <1>8, <1>9, <1>10, <1>11 DEF DeliveryInv

LEMMA PollReleaseInv ==
    ASSUME DeliveryInv, NEW p \in Pollers, PollRelease(p)
    PROVE  DeliveryInv'
<1>1. /\ Typed' /\ IdleIsEmpty' /\ Steps(p) /\ poller[p].pc # "idle"
      /\ UNCHANGED <<env, row, queue, dlq, publisher, out, faults>>
   BY InvNow, PollReleaseIs
<1>2. \A q \in Pollers : poller'[q].batch = poller[q].batch
   BY <1>1 DEF Steps
<1>3. RowsFixed /\ \A c \in Attempts : Made(c)' = Made(c)
   BY <1>1 DEF RowsFixed, Made
<1>4. Quiet
   BY <1>1, <1>2, <1>3 DEF Quiet, ItemsFixed, OutsFixed, Steps
<1>5. Rooted' /\ Tokens'
   BY <1>1, <1>4, InvNow, QuietRooted, QuietTokens, QuietEnded DEF Tokens
<1>6. Publication' /\ Original'
   BY <1>1, <1>3, <1>4, InvNow, QuietPublication, QuietOriginal
<1>7. Exhausted'
   BY <1>1, InvNow, ExhaustedStays
<1>8. Kept'
   <2>1. \A c \in Attempts : Awaited(c)' => row[c].status \in ActiveStatuses
      BY <1>1 DEF Awaited
   <2>2. \A i \in Item : Waits(i)' = Waits(i)
      BY <1>1, <1>2 DEF Waits
   <2> QED BY <1>1, <1>3, <1>5, <1>6, <2>1, <2>2, InvNow, ResponsibleStays
<1>9. Unborn'
   BY <1>1, InvNow, Born DEF Unborn
<1> QED BY <1>1, <1>5, <1>6, <1>7, <1>8, <1>9 DEF DeliveryInv

\* A poll that fails, or drops an item after an error.
LEMMA PollErrorInv ==
    ASSUME DeliveryInv, NEW p \in Pollers,
           PollFails(p) \/ \E i \in poller[p].batch : PollLoses(p, i)
    PROVE  DeliveryInv'
<1>1. /\ Typed' /\ IdleIsEmpty' /\ Drops(p) /\ poller[p].pc # "idle"
      /\ UNCHANGED <<env, row, queue, dlq, publisher>> /\ faults' = faults \cup {"error"}
   BY InvNow, PollFailsIs, PollLosesIs
<1>2. RowsFixed
   BY <1>1 DEF RowsFixed, Made
<1>3. \A o \in out : o.stage = "dead" => o \in out'
   BY <1>1 DEF Drops
<1>4. Quiet
   BY <1>1, <1>2 DEF Quiet, ItemsFixed, OutsFixed, Drops
<1>5. Rooted' /\ Tokens'
   BY <1>1, <1>4, InvNow, QuietRooted, QuietTokens, QuietEnded DEF Tokens
<1>6. Publication' /\ Original'
   BY <1>1, <1>2, <1>4, InvNow, QuietPublication, QuietOriginal
<1>7. Exhausted'
   BY <1>1, <1>3, InvNow, ExhaustedStays
<1>8. Kept'
   BY <1>1 DEF Kept, Awaited
<1>9. Unborn'
   BY <1>1, InvNow, Born DEF Unborn
<1> QED BY <1>1, <1>4, <1>5, <1>6, <1>7, <1>8, <1>9 DEF DeliveryInv

LEMMA PollDeliverInv ==
    ASSUME DeliveryInv, NEW p \in Pollers, NEW i \in poller[p].batch, PollDeliver(p, i)
    PROVE  DeliveryInv'
<1>1. /\ Typed' /\ IdleIsEmpty' /\ Took(p, i) /\ i \in Item
      /\ UNCHANGED <<env, queue, dlq, publisher, faults>>
   BY InvNow, PollDeliverIs DEF Took
<1>2. PICK a \in Found(i), o \in Out :
         /\ a \in Attempts /\ row[a].env /\ RowSet(a, "delivering")
         /\ Of(o) = a /\ o.sub = a[1] /\ o.no = a[2] /\ o.stage = "out"
         /\ out' = out \cup {o}
   BY InvNow, PollDeliverIs
<1>3. Made(a)
   BY <1>2, InvNow DEF Rooted, RowsRooted
<1>4. RowsFixed /\ \A c \in Attempts : c # a => row'[c].status = row[c].status
   BY <1>2, <1>3, RowSetIs DEF Statuses
<1>5. /\ \A k \in Item : Waits(k)' => Waits(k)
      /\ \A k \in Item : Waits(k) => Waits(k)' \/ k = i
   BY <1>1 DEF Waits, Took
<1>6. Rooted'
   BY <1>1, <1>2, <1>4, <1>5, InvNow, FixedRooted DEF OutFits
<1>7. Tokens'
   BY <1>1, <1>2, <1>4, InvNow, DeliverTokens
<1>8. Publication' /\ Original'
   BY <1>1, <1>4, <1>5, InvNow, QuietPublication, FixedOriginal
<1>9. Exhausted'
   <2>1. \A c \in Attempts : row'[c].status = "failed" => row[c].status = "failed"
      BY <1>2, <1>4 DEF RowSet
   <2> QED BY <1>1, <1>2, <2>1, InvNow, ExhaustedStays
<1>10. Kept'
   <2>1. Responsible(a)'
      BY <1>2 DEF Responsible, Of
   <2>2. \A c \in Attempts : Awaited(c)' => row[c].status \in ActiveStatuses \/ Responsible(c)'
      <3>1. \A c \in Attempts : c # a /\ Awaited(c)' => row[c].status \in ActiveStatuses
         BY <1>4 DEF Awaited
      <3> QED BY <2>1, <3>1
   <2>3. \A c \in Found(i) : Responsible(c)'
      BY <1>1, <2>1, FoundIs
   <2>4. \A c \in Attempts : Made(c) => Made(c)'
      BY <1>4 DEF RowsFixed
   <2> QED BY <1>1, <1>2, <1>5, <1>6, <1>7, <1>8, <2>2, <2>3, <2>4, InvNow, ResponsibleStays
<1>11. Unborn'
   BY <1>1, InvNow, Born DEF Unborn, Took
<1> QED BY <1>1, <1>6, <1>7, <1>8, <1>9, <1>10, <1>11 DEF DeliveryInv

LEMMA PollIncompatibleInv ==
    ASSUME DeliveryInv, NEW p \in Pollers, NEW i \in poller[p].batch, PollIncompatible(p, i)
    PROVE  DeliveryInv'
<1>1. /\ Typed' /\ IdleIsEmpty' /\ Took(p, i) /\ i \in Item
      /\ UNCHANGED <<queue, publisher, out, faults>> /\ env' = "failed"
   BY InvNow, PollIncompatibleIs DEF Took
<1>2. PICK a \in Found(i) : a \in Attempts /\ row[a].env /\ RowSet(a, "failed") /\ Buries(a)
   BY InvNow, PollIncompatibleIs
<1>3. Made(a) /\ dlq \in [Attempts -> Nat]
   BY <1>2, InvNow, TypedNow DEF Rooted, RowsRooted
<1>4. RowsFixed /\ \A c \in Attempts : c # a => row'[c].status = row[c].status
   BY <1>2, <1>3, RowSetIs DEF Statuses
<1>5. \A k \in Item : Waits(k) => Waits(k)' \/ k = i
   BY <1>1 DEF Waits, Took
<1>6. Quiet /\ Tokens'
   BY <1>1, <1>2, <1>4, InvNow, IncompatibleTokens
<1>7. Rooted'
   <2>1. \A c \in Attempts : dlq'[c] # 0 => dlq[c] # 0 \/ row[c].env
      BY <1>2 DEF Buries
   <2> QED BY <1>1, <1>6, <2>1, InvNow, QuietRooted
<1>8. Publication' /\ Original'
   BY <1>1, <1>4, <1>6, InvNow, QuietPublication, QuietOriginal
<1>9. Exhausted'
   <2>1. dlq'[a] # 0 /\ \A c \in Attempts : dlq[c] # 0 => dlq'[c] # 0
      BY <1>2, <1>3 DEF Buries
   <2>2. \A c \in Attempts : row'[c].status = "failed" => row[c].status = "failed" \/ c = a
      BY <1>4
   <2> QED BY <1>1, <2>1, <2>2, InvNow, ExhaustedStays
<1>10. Kept'
   <2>1. ~Awaited(a)'
      BY <1>2 DEF Awaited, RowSet, ActiveStatuses
   <2>2. \A c \in Attempts : Awaited(c)' => row[c].status \in ActiveStatuses
      BY <1>4, <2>1 DEF Awaited
   <2>3. \A c \in Found(i) : ~Awaited(c)'
      BY <1>1, <2>1, FoundIs
   <2>4. \A c \in Attempts : Made(c) => Made(c)'
      BY <1>4 DEF RowsFixed
   <2> QED BY <1>1, <1>5, <1>6, <1>7, <1>8, <2>2, <2>3, <2>4, InvNow, ResponsibleStays
<1>11. Unborn'
   BY <1>1 DEF Unborn
<1> QED BY <1>1, <1>6, <1>7, <1>8, <1>9, <1>10, <1>11 DEF DeliveryInv

LEMMA AckInv ==
    ASSUME DeliveryInv, NEW o \in out, Ack(o)
    PROVE  DeliveryInv'
<1>1. /\ Typed' /\ IdleIsEmpty'
      /\ UNCHANGED <<env, queue, dlq, poller, publisher, faults>>
      /\ o.stage = "out" /\ RowSet(Of(o), "succeeded")
   BY InvNow, AckIs
<1>2. PICK r \in Out : Moves(o, r, "count")
   BY InvNow, AckIs
<1>3. Of(o) \in Attempts /\ Of(r) = Of(o) /\ Made(Of(o)) /\ ~Holds(r)
   BY <1>2, InvNow, OutParts DEF Rooted, RowsRooted, OutsRooted, Moves, Of, Holds
<1>4. RowsFixed /\ \A c \in Attempts : c # Of(o) => row'[c].status = row[c].status
   BY <1>1, <1>3, RowSetIs DEF Statuses
<1>5. Quiet
   BY <1>1, <1>2, <1>3, <1>4 DEF Quiet, ItemsFixed, OutsFixed, Moves, Goes
<1>6. Rooted' /\ Tokens'
   BY <1>1, <1>5, InvNow, QuietRooted, QuietTokens, QuietEnded DEF Tokens
<1>7. Publication' /\ Original'
   BY <1>1, <1>4, <1>5, InvNow, QuietPublication, QuietOriginal
<1>8. Exhausted'
   <2>1. \A c \in Attempts : row'[c].status = "failed" => row[c].status = "failed"
      BY <1>1, <1>4 DEF RowSet
   <2>2. \A q \in out : q.stage = "dead" => q \in out'
      BY <1>1, <1>2 DEF Moves, Goes
   <2> QED BY <1>1, <2>1, <2>2, InvNow, ExhaustedStays
<1>9. Kept'
   <2>1. ~Awaited(Of(o))'
      BY <1>1 DEF Awaited, RowSet, ActiveStatuses, Of
   <2>2. \A c \in Attempts : Awaited(c)' => row[c].status \in ActiveStatuses /\ c # Of(o)
      BY <1>4, <2>1 DEF Awaited, Of
   <2>3. \A i \in Item : Waits(i)' = Waits(i)
      BY <1>1 DEF Waits
   <2>4. \A q \in out : q # o => q \in out'
      BY <1>2 DEF Moves, Goes
   <2>5. \A c \in Attempts : Made(c) => Made(c)'
      BY <1>4 DEF RowsFixed
   <2>6. \A q \in out, c \in Attempts :
            /\ \/ q.stage = "out" /\ Of(q) = c
               \/ q.stage = "schedule" /\ <<q.sub, q.no + 1>> = c
            /\ q \notin out' /\ Awaited(c)'
            => Responsible(c)'
      BY <1>1, <2>2, <2>4
   <2> QED BY <1>1, <1>6, <1>7, <2>2, <2>3, <2>5, <2>6, InvNow, ResponsibleStays
<1>10. Unborn'
   BY <1>1, InvNow, Born DEF Unborn
<1> QED BY <1>1, <1>6, <1>7, <1>8, <1>9, <1>10 DEF DeliveryInv

\* An answer that holds no token goes on, or ends.
LEMMA QuietAnswer ==
    ASSUME DeliveryInv, Typed', IdleIsEmpty', NEW o \in out, ~Holds(o),
           UNCHANGED <<row, queue, dlq, poller, publisher, faults>>, env' # "none",
           Leaves(o) \/ \E r \in Out : Goes(o, r) /\ ~Holds(r) /\ Of(r) = Of(o)
    PROVE  DeliveryInv'
<1>1. RowsFixed /\ \A c \in Attempts : Made(c)' = Made(c)
   BY DEF RowsFixed, Made
<1>2. \A q \in out : q # o => q \in out'
   BY DEF Leaves, Goes
<1>3. Quiet
   BY <1>1 DEF Quiet, ItemsFixed, OutsFixed, Leaves, Goes
<1>4. Rooted' /\ Tokens'
   BY <1>3, InvNow, QuietRooted, QuietTokens, QuietEnded DEF Tokens
<1>5. Publication' /\ Original'
   BY <1>1, <1>3, InvNow, QuietPublication, QuietOriginal
<1>6. Exhausted'
   BY <1>2, InvNow, ExhaustedStays DEF Holds
<1>7. Kept'
   <2>1. \A c \in Attempts : Awaited(c)' => row[c].status \in ActiveStatuses
      BY DEF Awaited
   <2>2. \A i \in Item : Waits(i)' = Waits(i)
      BY DEF Waits
   <2>3. \A q \in out : q.stage \in {"out", "schedule"} => q \in out'
      BY <1>2 DEF Holds
   <2> QED BY <1>1, <1>4, <1>5, <2>1, <2>2, <2>3, InvNow, ResponsibleStays
<1>8. Unborn'
   BY DEF Unborn
<1> QED BY <1>4, <1>5, <1>6, <1>7, <1>8 DEF DeliveryInv

LEMMA CountActiveAttemptsInv ==
    ASSUME DeliveryInv, NEW o \in out, CountActiveAttempts(o)
    PROVE  DeliveryInv'
<1>1. /\ Typed' /\ IdleIsEmpty'
      /\ UNCHANGED <<env, row, queue, dlq, poller, publisher, faults>>
      /\ o.stage = "count"
   BY InvNow, CountActiveAttemptsIs
<1>2. PICK r \in Out : Moves(o, r, "ack_env")
   BY InvNow, CountActiveAttemptsIs
<1>3. ~Holds(o) /\ ~Holds(r) /\ Of(r) = Of(o) /\ Goes(o, r)
   BY <1>1, <1>2 DEF Holds, Moves, Of
<1> QED BY <1>1, <1>3, InvNow, Born, QuietAnswer

LEMMA AckEnvelopeInv ==
    ASSUME DeliveryInv, NEW o \in out, AckEnvelope(o)
    PROVE  DeliveryInv'
<1>1. /\ Typed' /\ IdleIsEmpty'
      /\ UNCHANGED <<row, queue, dlq, poller, publisher, faults>>
      /\ env' # "none" /\ o.stage = "ack_env" /\ Leaves(o)
   BY InvNow, AckEnvelopeIs
<1> QED BY <1>1, QuietAnswer DEF Holds

LEMMA NackEnvelopeInv ==
    ASSUME DeliveryInv, NEW o \in out, NackEnvelope(o)
    PROVE  DeliveryInv'
<1>1. /\ Typed' /\ IdleIsEmpty'
      /\ UNCHANGED <<row, queue, dlq, poller, publisher, faults>>
      /\ env' # "none" /\ o.stage \in {"retry_env", "fail_env"} /\ Leaves(o)
   BY InvNow, NackEnvelopeIs
<1> QED BY <1>1, QuietAnswer DEF Holds

LEMMA PushToDLQInv ==
    ASSUME DeliveryInv, NEW o \in out, PushToDLQ(o)
    PROVE  DeliveryInv'
<1>1. /\ Typed' /\ IdleIsEmpty'
      /\ UNCHANGED <<env, row, queue, poller, publisher, faults>>
      /\ o.stage = "dead" /\ Buries(Of(o))
   BY InvNow, PushToDLQIs
<1>2. PICK r \in Out : Moves(o, r, "fail_env")
   BY InvNow, PushToDLQIs
<1>3. Of(o) \in Attempts /\ row[Of(o)].env /\ dlq \in [Attempts -> Nat]
   BY InvNow, OutParts, TypedNow DEF Rooted, OutsRooted
<1>4. Quiet /\ Tokens'
   BY <1>1, <1>2, InvNow, PushTokens
<1>5. RowsFixed /\ \A c \in Attempts : Made(c)' = Made(c)
   BY <1>1 DEF RowsFixed, Made
<1>6. Rooted'
   <2>1. \A c \in Attempts : dlq'[c] # 0 => dlq[c] # 0 \/ row[c].env
      BY <1>1, <1>3 DEF Buries
   <2> QED BY <1>1, <1>4, <2>1, InvNow, QuietRooted
<1>7. Publication' /\ Original'
   BY <1>1, <1>4, <1>5, InvNow, QuietPublication, QuietOriginal
<1>8. \A q \in out : q # o => q \in out'
   BY <1>2 DEF Moves, Goes
<1>9. Exhausted'
   <2>1. dlq'[Of(o)] # 0 /\ \A c \in Attempts : dlq[c] # 0 => dlq'[c] # 0
      BY <1>1, <1>3 DEF Buries
   <2> QED BY <1>1, <1>8, <2>1, InvNow, ExhaustedStays
<1>10. Kept'
   <2>1. \A c \in Attempts : Awaited(c)' => row[c].status \in ActiveStatuses
      BY <1>1 DEF Awaited
   <2>2. \A i \in Item : Waits(i)' = Waits(i)
      BY <1>1 DEF Waits
   <2>3. \A q \in out : q.stage \in {"out", "schedule"} => q \in out'
      BY <1>1, <1>8
   <2> QED BY <1>1, <1>5, <1>6, <1>7, <1>4, <2>1, <2>2, <2>3, InvNow, ResponsibleStays
<1>11. Unborn'
   BY <1>1, InvNow, Born DEF Unborn
<1> QED BY <1>1, <1>4, <1>6, <1>7, <1>9, <1>10, <1>11 DEF DeliveryInv

LEMMA NackInv ==
    ASSUME DeliveryInv, NEW o \in out, Nack(o)
    PROVE  DeliveryInv'
<1>1. /\ Typed' /\ IdleIsEmpty'
      /\ UNCHANGED <<env, queue, dlq, poller, publisher, faults>>
      /\ o.stage = "out" /\ RowSet(Of(o), "failed")
   BY InvNow, NackIs
<1>2. PICK r \in Out : \/ o.no = MaxRetry /\ Moves(o, r, "dead")
                       \/ o.no < MaxRetry /\ Moves(o, r, "next")
   BY InvNow, NackIs
<1>3. Goes(o, r) /\ Of(r) = Of(o) /\ OutFits(r) /\ r.stage # "schedule"
   BY <1>2 DEF Moves, Of, OutFits
<1>4. Of(o) \in Attempts /\ row[Of(o)].env /\ Made(Of(o)) /\ Of(o)[2] = o.no
   BY InvNow, OutParts DEF Rooted, RowsRooted, OutsRooted
<1>5. RowsFixed /\ \A c \in Attempts : c # Of(o) => row'[c].status = row[c].status
   BY <1>1, <1>4, RowSetIs DEF Statuses
<1>6. \A i \in Item : Waits(i)' = Waits(i)
   BY <1>1 DEF Waits
<1>7. \A q \in out : q # o => q \in out'
   BY <1>3 DEF Goes
<1>8. Rooted'
   BY <1>1, <1>3, <1>4, <1>5, <1>6, InvNow, FixedRooted DEF Goes
<1>9. Tokens'
   BY <1>1, <1>2, <1>5, InvNow, NackTokens
<1>10. Publication' /\ Original'
   BY <1>1, <1>5, <1>6, InvNow, QuietPublication, FixedOriginal
<1>11. Exhausted'
   <2>1. ASSUME Of(o)[2] = MaxRetry PROVE r \in out' /\ r.stage = "dead" /\ Of(r) = Of(o)
      <3>1. ~ (o.no < MaxRetry)
         BY <1>4, <2>1, DeliveryAssumption DEF DeliveryAssumption
      <3> QED BY <1>2, <1>3, <3>1 DEF Moves, Goes
   <2>2. \A c \in Attempts : row'[c].status = "failed" => row[c].status = "failed" \/ c = Of(o)
      BY <1>5
   <2> QED BY <1>1, <1>7, <2>1, <2>2, InvNow, ExhaustedStays
<1>12. Kept'
   <2>1. ~Awaited(Of(o))'
      BY <1>1 DEF Awaited, RowSet, ActiveStatuses, Of
   <2>2. \A c \in Attempts : Awaited(c)' => row[c].status \in ActiveStatuses /\ c # Of(o)
      BY <1>5, <2>1 DEF Awaited, Of
   <2>3. \A c \in Attempts : Made(c) => Made(c)'
      BY <1>5 DEF RowsFixed
   <2>4. \A q \in out, c \in Attempts :
            /\ \/ q.stage = "out" /\ Of(q) = c
               \/ q.stage = "schedule" /\ <<q.sub, q.no + 1>> = c
            /\ q \notin out' /\ Awaited(c)'
            => Responsible(c)'
      BY <1>1, <1>7, <2>2
   <2> QED BY <1>1, <1>6, <1>8, <1>9, <1>10, <2>2, <2>3, <2>4, InvNow, ResponsibleStays
<1>13. Unborn'
   BY <1>1, InvNow, Born DEF Unborn
<1> QED BY <1>1, <1>8, <1>9, <1>10, <1>11, <1>12, <1>13 DEF DeliveryInv

LEMMA NackUpsertInv ==
    ASSUME DeliveryInv, NEW o \in out, NackUpsert(o)
    PROVE  DeliveryInv'
<1>1. /\ Typed' /\ IdleIsEmpty'
      /\ UNCHANGED <<env, queue, dlq, poller, publisher, faults>>
      /\ o.stage = "next"
   BY InvNow, NackUpsertIs DEF Rooted
<1>2. PICK a \in Attempts, r \in Out :
         /\ a = <<o.sub, o.no + 1>> /\ a[1] = o.sub /\ a[2] = o.no + 1
         /\ row'[a].status = "pending"
         /\ row'[a].env = (IF Made(a) THEN row[a].env ELSE TRUE)
         /\ \A c \in Attempts : c # a => row'[c] = row[c]
         /\ Moves(o, r, "schedule") /\ r.known = ~Made(a)
   BY InvNow, NackUpsertIs DEF Rooted
<1>3. Rooted'
   BY <1>1, <1>2, InvNow, NackUpsertRooted
<1>4. Tokens'
   BY <1>1, <1>2, InvNow, NackUpsertTokens
<1>5. Publication'
   BY <1>1, <1>2, InvNow, NackUpsertPublication
<1>6. Original'
   BY <1>1, <1>2, InvNow, NackUpsertOriginal
<1>7. \A q \in out : q # o => q \in out'
   BY <1>2 DEF Moves, Goes
<1>8. Exhausted'
   <2>1. \A c \in Attempts : row'[c].status = "failed" => row[c].status = "failed"
      BY <1>2
   <2> QED BY <1>1, <1>7, <2>1, InvNow, ExhaustedStays
<1>9. Kept'
   <2>1. Responsible(a)'
      BY <1>2 DEF Responsible, Moves, Goes
   <2>2. \A c \in Attempts : Awaited(c)' => row[c].status \in ActiveStatuses \/ Responsible(c)'
      <3>1. \A c \in Attempts : c # a /\ Awaited(c)' => row[c].status \in ActiveStatuses
         BY <1>2 DEF Awaited
      <3> QED BY <2>1, <3>1
   <2>3. \A c \in Attempts : Made(c) => Made(c)'
      BY <1>2 DEF Made
   <2>4. \A i \in Item : Waits(i)' = Waits(i)
      BY <1>1 DEF Waits
   <2>5. \A q \in out : q.stage \in {"out", "schedule"} => q \in out'
      BY <1>1, <1>7
   <2> QED BY <1>1, <1>3, <1>4, <1>6, <2>2, <2>3, <2>4, <2>5, InvNow, ResponsibleStays
<1>10. Unborn'
   BY <1>1, InvNow, Born DEF Unborn
<1> QED BY <1>1, <1>3, <1>4, <1>5, <1>6, <1>8, <1>9, <1>10 DEF DeliveryInv

LEMMA NackScheduleInv ==
    ASSUME DeliveryInv, NEW o \in out, NackSchedule(o)
    PROVE  DeliveryInv'
<1>1. /\ Typed' /\ IdleIsEmpty'
      /\ UNCHANGED <<env, row, dlq, poller, publisher, faults>>
      /\ o.stage = "schedule"
   BY InvNow, NackScheduleIs DEF Rooted
<1>2. PICK r \in Out : Moves(o, r, "retry_env")
   BY InvNow, NackScheduleIs DEF Rooted
<1>3. PICK a \in Attempts, j \in Item :
         /\ a = <<o.sub, o.no + 1>> /\ a[1] = o.sub /\ a[2] = o.no + 1
         /\ j.known = o.known /\ j.env /\ Queues(j, a)
   BY InvNow, NackScheduleIs DEF Rooted
<1>4. Made(a) /\ RowOf(j) = a /\ j.sub = a[1]
   BY <1>1, <1>3, InvNow DEF Rooted, NextRooted, Queues
<1>5. RowsFixed /\ \A c \in Attempts : Made(c)' = Made(c)
   BY <1>1 DEF RowsFixed, Made
<1>6. /\ \A k \in Item : Waits(k)' => Waits(k) \/ k = j
      /\ \A k \in Item : Waits(k) => Waits(k)'
      /\ Waits(j)'
   BY <1>1, <1>3 DEF Waits, Queues
<1>7. Goes(o, r) /\ row[Of(r)].env /\ OutFits(r) /\ r.stage # "schedule"
   BY <1>2, InvNow DEF Moves, Of, OutFits, Rooted, OutsRooted
<1>8. Rooted'
   BY <1>1, <1>4, <1>5, <1>6, <1>7, InvNow, FixedRooted DEF Goes
<1>9. Tokens'
   BY <1>1, <1>2, <1>3, InvNow, NackScheduleTokens
<1>10. Publication' /\ Original'
   BY <1>1, <1>3, <1>5, <1>6, InvNow, QuietPublication, FixedOriginal
<1>11. \A q \in out : q # o => q \in out'
   BY <1>7 DEF Goes
<1>12. Exhausted'
   BY <1>1, <1>11, InvNow, ExhaustedStays
<1>13. Kept'
   <2>1. ASSUME Awaited(a)' PROVE Responsible(a)'
      <3>1. CASE o.known
         BY <1>3, <1>4, <1>6, <3>1, ItemResponsible
      <3>2. CASE ~o.known
         <4>1. faults' # {} /\ Newest(a)'
            BY <1>1, <2>1, <3>2, InvNow DEF Tokens, Last, Awaited
         <4>2. Made(a)' /\ row'[a].env
            BY <1>4, <1>5, <1>10, <2>1 DEF Original, Awaited
         <4>3. a \in Found(j)'
            BY <1>3, <1>4, <3>2, <4>1, <4>2, NewestIsFound
         <4> QED BY <1>6, <4>3 DEF Responsible
      <3> QED BY <3>1, <3>2
   <2>2. \A c \in Attempts : Awaited(c)' => row[c].status \in ActiveStatuses
      BY <1>1 DEF Awaited
   <2>3. \A q \in out, c \in Attempts :
            /\ \/ q.stage = "out" /\ Of(q) = c
               \/ q.stage = "schedule" /\ <<q.sub, q.no + 1>> = c
            /\ q \notin out' /\ Awaited(c)'
            => Responsible(c)'
      BY <1>1, <1>3, <1>11, <2>1
   <2> QED BY <1>1, <1>5, <1>6, <1>8, <1>9, <1>10, <2>2, <2>3, InvNow, ResponsibleStays
<1>14. Unborn'
   BY <1>1, InvNow, Born DEF Unborn
<1> QED BY <1>1, <1>8, <1>9, <1>10, <1>12, <1>13, <1>14 DEF DeliveryInv

LEMMA SilentInv ==
    ASSUME DeliveryInv, NEW o \in out, Silent(o)
    PROVE  DeliveryInv'
<1>1. /\ Typed' /\ IdleIsEmpty'
      /\ UNCHANGED <<env, row, queue, dlq, poller, publisher>>
      /\ o.stage = "out" /\ Leaves(o) /\ faults' = faults \cup {"silence"}
   BY InvNow, SilentIs
<1>2. RowsFixed
   BY <1>1 DEF RowsFixed, Made
<1>3. Quiet
   BY <1>1, <1>2 DEF Quiet, ItemsFixed, OutsFixed, Leaves
<1>4. Rooted' /\ Tokens'
   BY <1>1, <1>3, InvNow, QuietRooted, QuietTokens, QuietEnded DEF Tokens
<1>5. Publication' /\ Original'
   BY <1>1, <1>2, <1>3, InvNow, QuietPublication, QuietOriginal
<1>6. Exhausted'
   <2>1. \A q \in out : q.stage = "dead" => q \in out'
      BY <1>1 DEF Leaves
   <2> QED BY <1>1, <2>1, InvNow, ExhaustedStays
<1>7. Kept'
   BY <1>1 DEF Kept, Awaited
<1>8. Unborn'
   BY <1>1, InvNow, Born DEF Unborn
<1> QED BY <1>1, <1>4, <1>5, <1>6, <1>7, <1>8 DEF DeliveryInv

\* A lease key expires, or nothing happens.
LEMMA IdleInv ==
    ASSUME DeliveryInv, Typed', IdleIsEmpty',
           UNCHANGED <<env, row, queue, dlq, poller, publisher, out, faults>>
    PROVE  DeliveryInv'
<1>1. RowsFixed /\ \A c \in Attempts : Made(c)' = Made(c)
   BY DEF RowsFixed, Made
<1>2. Quiet
   BY <1>1 DEF Quiet, ItemsFixed, OutsFixed
<1>3. Rooted' /\ Tokens'
   BY <1>2, InvNow, QuietRooted, QuietTokens, QuietEnded DEF Tokens
<1>4. Publication' /\ Original'
   BY <1>1, <1>2, InvNow, QuietPublication, QuietOriginal
<1>5. Exhausted'
   BY InvNow, ExhaustedStays
<1>6. Kept'
   <2>1. \A c \in Attempts : Awaited(c)' => row[c].status \in ActiveStatuses
      BY DEF Awaited
   <2>2. \A i \in Item : Waits(i)' = Waits(i)
      BY DEF Waits
   <2> QED BY <1>1, <1>3, <1>4, <2>1, <2>2, InvNow, ResponsibleStays
<1>7. Unborn'
   BY InvNow DEF Unborn, Made
<1> QED BY <1>3, <1>4, <1>5, <1>6, <1>7 DEF DeliveryInv

LEMMA LeaseInv ==
    ASSUME DeliveryInv, LeaseStep
    PROVE  DeliveryInv'
BY InvNow, LeaseIs, IdleInv

LEMMA StutterInv ==
    ASSUME DeliveryInv, UNCHANGED vars
    PROVE  DeliveryInv'
<1>1. UNCHANGED <<setup, env, row, queue, instance, counter, dlq, poller, publisher, out, faults>>
   BY DEF vars
<1>2. Typed' /\ IdleIsEmpty'
   BY <1>1, InvNow DEF Typed, DeliveryTypeOK, Finite, IdleIsEmpty
<1> QED BY <1>1, <1>2, IdleInv

-----------------------------------------------------------------------------
LEMMA InitInv ==
    ASSUME Init
    PROVE  DeliveryInv /\ AtMade
<1>1. /\ env = "none" /\ row = [a \in Attempts |-> [status |-> "none", env |-> FALSE]]
      /\ setup \in Setups /\ queue = {} /\ out = {} /\ faults = {}
      /\ instance = [a \in Attempts |-> "none"] /\ counter = [s \in Subscribers |-> 0]
      /\ dlq = [a \in Attempts |-> 0]
      /\ poller = [p \in Pollers |-> [pc |-> "idle", batch |-> {}, at |-> {}]]
      /\ publisher = [b \in Publishers |-> [todo |-> {}, known |-> FALSE]]
   BY DEF Init, Idle
<1>2. \A a \in Attempts : row[a].status = "none" /\ ~row[a].env /\ dlq[a] = 0
   BY <1>1
<1>3. \A p \in Pollers : poller[p].pc = "idle" /\ poller[p].batch = {} /\ poller[p].at = {}
   BY <1>1
<1>4. \A b \in Publishers : publisher[b].todo = {} /\ ~publisher[b].known
   BY <1>1
<1>5. DeliveryTypeOK
   <2>1. row \in [Attempts -> [status : Statuses, env : BOOLEAN]]
      BY <1>1 DEF Statuses
   <2>2. poller \in [Pollers -> [pc : {"idle", "range", "batch", "revert", "release"},
                                 batch : SUBSET Item, at : SUBSET Attempts]]
      BY <1>1
   <2>3. publisher \in [Publishers -> [todo : SUBSET Subscribers, known : BOOLEAN]]
      BY <1>1
   <2> QED BY <1>1, <2>1, <2>2, <2>3 DEF DeliveryTypeOK, Statuses
<1>6. Finite
   BY <1>1, <1>3, FS_EmptySet DEF Finite
<1>7. \A i \in Item : ~Waits(i)
   BY <1>1, <1>3 DEF Waits
<1>8. Unborn /\ IdleIsEmpty /\ Publication
   BY <1>1, <1>2, <1>3, <1>4 DEF Unborn, IdleIsEmpty, Publication, Made
<1>9. Rooted
   BY <1>1, <1>2, <1>7 DEF Rooted, RowsRooted, ItemsRooted, OutsRooted, DeadRooted, NextRooted, Made
<1>10. Original
   BY <1>2, <1>4, <1>7 DEF Original, Made
<1>11. Tokens
   BY <1>1, <1>2, <1>3, <1>7 DEF Tokens, Barren, Apart, Alone, Last, Ended
<1>12. Exhausted /\ Kept
   BY <1>2 DEF Exhausted, Kept, Awaited, ActiveStatuses
<1> QED BY <1>3, <1>5, <1>6, <1>8, <1>9, <1>10, <1>11, <1>12 DEF DeliveryInv, AtMade, Typed

LEMMA NextInv ==
    ASSUME DeliveryInv, AtMade, [Next]_vars
    PROVE  DeliveryInv'
<1>1. ASSUME NEW b \in Publishers, PublishEnvelope(b) \/ \E s \in Subscribers : PublishAttempt(b, s)
      PROVE  DeliveryInv'
   BY <1>1, PublishEnvelopeInv, PublishAttemptInv
<1>2. ASSUME NEW p \in Pollers, PollStep(p) PROVE DeliveryInv'
   <2>1. CASE (\E batch \in SUBSET queue : PopRange(p, batch)) \/ PopRemove(p)
      BY <2>1, PopRangeInv, PopRemoveInv
   <2>2. ASSUME NEW i \in poller[p].batch,
                \/ PollSkip(p, i) \/ PollReschedule(p, i) \/ PollDeliver(p, i)
                \/ PollOtherTopic(p, i) \/ PollIncompatible(p, i)
         PROVE  DeliveryInv'
      BY <2>2, PollSkipInv, PollRescheduleInv, PollDeliverInv, PollOtherTopicInv, PollIncompatibleInv
   <2>3. CASE PollRevert(p) \/ PollRelease(p)
      BY <2>3, PollRevertInv, PollReleaseInv
   <2> QED BY <1>2, <2>1, <2>2, <2>3 DEF PollStep
<1>3. ASSUME NEW o \in out, AnswerStep(o) \/ Silent(o) PROVE DeliveryInv'
   <2>1. CASE Ack(o) \/ CountActiveAttempts(o) \/ AckEnvelope(o)
      BY <2>1, AckInv, CountActiveAttemptsInv, AckEnvelopeInv
   <2>2. CASE Nack(o) \/ NackUpsert(o) \/ NackSchedule(o)
      BY <2>2, NackInv, NackUpsertInv, NackScheduleInv
   <2>3. CASE PushToDLQ(o) \/ NackEnvelope(o) \/ Silent(o)
      BY <2>3, PushToDLQInv, NackEnvelopeInv, SilentInv
   <2> QED BY <1>3, <2>1, <2>2, <2>3 DEF AnswerStep
<1>4. CASE LeaseStep
   BY <1>4, LeaseInv
<1>5. CASE UNCHANGED vars
   BY <1>5, StutterInv
<1>6. ASSUME NEW p \in Pollers, PollFails(p) \/ \E i \in poller[p].batch : PollLoses(p, i)
      PROVE  DeliveryInv'
   BY <1>6, PollErrorInv
<1> QED BY <1>1, <1>2, <1>3, <1>4, <1>5, <1>6 DEF Next

(* AtMade: the envelope of a row stays, and only PollOtherTopic adds to at. *)
LEMMA AtStays ==
    ASSUME Typed, AtMade, \A a \in Attempts : row[a].env => row'[a].env,
           \A p \in Pollers : poller'[p].at \subseteq poller[p].at
    PROVE  AtMade'
BY DEF AtMade, Typed, DeliveryTypeOK

LEMMA BatchAt ==
    ASSUME DeliveryInv, AtMade, NEW p \in Pollers, NEW i \in poller[p].batch,
           \/ PollSkip(p, i) \/ PollReschedule(p, i) \/ PollDeliver(p, i)
           \/ PollOtherTopic(p, i) \/ PollIncompatible(p, i)
    PROVE  AtMade'
<1>1. \A a \in Attempts : row[a].env => row'[a].env
   BY InvNow, PollSkipIs, PollRescheduleIs, PollDeliverIs, PollOtherTopicIs, PollIncompatibleIs DEF RowSet
<1>2. CASE PollOtherTopic(p, i)
   <2>1. /\ Took(p, i) /\ \E a \in Found(i) : a \in Attempts /\ row[a].env /\ poller'[p].at = {a}
      BY <1>2, InvNow, PollOtherTopicIs
   <2>2. \A q \in Pollers : poller[q].at \subseteq Attempts
      BY InvNow DEF DeliveryTypeOK
   <2> QED BY <1>1, <2>1, <2>2 DEF AtMade, Took
<1>3. CASE Rest(p, i) /\ poller[p].pc = "batch"
   BY <1>1, <1>3, InvNow, RestIs, AtStays
<1> QED BY <1>2, <1>3 DEF PollSkip, PollReschedule, PollDeliver, PollIncompatible, Leased

LEMMA PollAt ==
    ASSUME DeliveryInv, AtMade, NEW p \in Pollers, PollStep(p)
    PROVE  AtMade'
<1>1. ASSUME NEW batch \in SUBSET queue, PopRange(p, batch) PROVE AtMade'
   <2>1. \A q \in Pollers : poller'[q].at \subseteq poller[q].at
      <3>1. /\ poller \in [Pollers -> PollerState]
            /\ poller' = [poller EXCEPT ![p] = [pc |-> "range", batch |-> batch, at |-> {}]]
         BY <1>1, InvNow, TypedNow DEF PopRange
      <3> QED BY <3>1
   <2> QED BY <1>1, <2>1, InvNow, PopRangeIs, AtStays
<1>2. CASE PopRemove(p)
   <2>1. \A q \in Pollers : poller'[q].at \subseteq poller[q].at
      <3>1. /\ poller \in [Pollers -> PollerState] /\ poller' = [poller EXCEPT ![p].pc = "batch"]
         BY <1>2, InvNow, TypedNow DEF PopRemove
      <3>2. poller[p] \in PollerState
         BY <3>1
      <3> QED BY <3>1, <3>2 DEF PollerState
   <2> QED BY <1>2, <2>1, InvNow, PopRemoveIs, AtStays
<1>3. CASE PollRevert(p)
   <2>1. Steps(p) /\ \E a \in Attempts : RowSet(a, "pending")
      BY <1>3, InvNow, PollRevertIs
   <2>2. \A a \in Attempts : row[a].env => row'[a].env
      BY <2>1 DEF RowSet
   <2>3. \A q \in Pollers : poller'[q].at \subseteq poller[q].at
      BY <2>1 DEF Steps
   <2> QED BY <2>2, <2>3, InvNow, AtStays
<1>4. CASE PollRelease(p)
   <2>1. Steps(p) /\ row' = row
      BY <1>4, InvNow, PollReleaseIs
   <2>2. \A q \in Pollers : poller'[q].at \subseteq poller[q].at
      BY <2>1 DEF Steps
   <2> QED BY <2>1, <2>2, InvNow, AtStays
<1> QED BY <1>1, <1>2, <1>3, <1>4, BatchAt DEF PollStep

LEMMA AnswerAt ==
    ASSUME DeliveryInv, AtMade, NEW o \in out, AnswerStep(o) \/ Silent(o)
    PROVE  AtMade'
<1>1. CASE Ack(o) \/ Nack(o)
   <2>1. poller' = poller /\ (RowSet(Of(o), "succeeded") \/ RowSet(Of(o), "failed"))
      BY <1>1, InvNow, AckIs, NackIs
   <2>2. \A a \in Attempts : row[a].env => row'[a].env
      BY <2>1, InvNow, OutParts DEF RowSet
   <2> QED BY <2>1, <2>2, InvNow, AtStays
<1>2. CASE NackUpsert(o)
   <2>1. poller' = poller /\ \A a \in Attempts : row[a].env => row'[a].env
      <3>1. OutsRooted
         BY InvNow DEF Rooted
      <3> QED BY <1>2, <3>1, InvNow, NackUpsertIs
   <2> QED BY <2>1, InvNow, AtStays
<1>3. CASE row' = row /\ poller' = poller
   BY <1>3, InvNow, AtStays
<1> QED BY <1>1, <1>2, <1>3 DEF AnswerStep, CountActiveAttempts, AckEnvelope, NackSchedule, PushToDLQ,
                                NackEnvelope, Silent

LEMMA NextAt ==
    ASSUME DeliveryInv, AtMade, [Next]_vars
    PROVE  AtMade'
<1>1. ASSUME NEW b \in Publishers, NEW s \in Subscribers, PublishAttempt(b, s) PROVE AtMade'
   <2>1. PICK a \in Attempts :
            /\ poller' = poller /\ row'[a].env = (IF Made(a) THEN row[a].env ELSE publisher[b].known)
            /\ \A c \in Attempts : c # a => row'[c] = row[c]
      BY <1>1, InvNow, PublishAttemptIs
   <2>2. row[a].env => Made(a)
      BY InvNow DEF Rooted, RowsRooted
   <2> QED BY <2>1, <2>2, InvNow, AtStays
<1>2. ASSUME NEW p \in Pollers, PollFails(p) \/ \E i \in poller[p].batch : PollLoses(p, i)
      PROVE  AtMade'
   <2>1. row' = row /\ Drops(p)
      BY <1>2, InvNow, PollFailsIs, PollLosesIs
   <2> QED BY <2>1, InvNow, AtStays DEF Drops
<1>3. CASE row' = row /\ poller' = poller
   BY <1>3, InvNow, AtStays
<1>4. ASSUME NEW b \in Publishers, PublishEnvelope(b) PROVE AtMade'
   BY <1>3, <1>4 DEF PublishEnvelope
<1>5. CASE LeaseStep \/ UNCHANGED vars
   BY <1>3, <1>5 DEF LeaseStep, LeaseExpires, CounterExpires, vars
<1> QED BY <1>1, <1>2, <1>4, <1>5, PollAt, AnswerAt DEF Next

LEMMA Invariance == Spec => []DeliveryInv
<1>1. DeliveryInv /\ AtMade /\ [Next]_vars => (DeliveryInv /\ AtMade)'
   BY NextInv, NextAt
<1>2. Init => DeliveryInv /\ AtMade
   BY InitInv
<1>3. Spec => [](DeliveryInv /\ AtMade)
   BY <1>1, <1>2, PTL DEF Spec
<1> QED BY <1>3, PTL

-----------------------------------------------------------------------------
(* Publish, PollRetry, Ack and Nack write only statuses, stages and items  *)
(* of the right kind; a lease counter is 0 or 1, however the keys expire.  *)
THEOREM DeliveryTypeCorrect == Spec => []DeliveryTypeOK
<1>1. DeliveryInv => DeliveryTypeOK
   BY DEF DeliveryInv, Typed
<1> QED BY <1>1, Invariance, PTL

\* PollRetry and Nack: an attempt that still has to be delivered is in the queue,
\* in a batch, with its subscriber or with the handler that schedules it, for any
\* number of retries; also when two pollers read the same range, for the newest
\* attempt.  Excepted are a second Publish, a silent subscriber, a poll that fails
\* and a late "pending" over an answer, each of which the code lets forget one.
THEOREM NoneForgotten == Spec => []NothingForgotten
<1>1. ASSUME DeliveryInv, faults \subseteq {"race"}, NEW a \in Attempts,
             row[a].status \in ActiveStatuses, faults = {} \/ Newest(a)
      PROVE  InHand(a) \/ Queued(a) \/ Handled(a)
   <2>1. Responsible(a)
      BY <1>1 DEF DeliveryInv, Kept, Awaited
   <2> QED BY <2>1 DEF Responsible, Waits, InHand, Queued, Handled
<1>2. DeliveryInv => NothingForgotten
   BY <1>1 DEF NothingForgotten
<1> QED BY <1>2, Invariance, PTL

\* Nack and handleVersionIncompatible: without two pollers at one range, an event
\* whose retries are used up is in the dead letters once, and a dead attempt has
\* no successor; a second Publish, a silent subscriber, a poll that fails and a late
\* "pending" over an answer change nothing of it.
THEOREM DeadLetteredOnce == Spec => []ExhaustedIsDeadLettered
<1>1. ASSUME DeliveryInv, "race" \notin faults, NEW a \in Attempts
      PROVE  /\ dlq[a] <= 1
             /\ row[a].status = "failed" /\ a[2] = MaxRetry /\ ~Handled(a) => dlq[a] = 1
             /\ dlq[a] = 1 /\ a[2] < MaxRetry => row[<<a[1], a[2] + 1>>].status = "none"
   <2>1. dlq[a] # 0 => dlq[a] = 1 /\ \A n \in Nos : n > a[2] => ~Made(<<a[1], n>>)
      BY <1>1 DEF DeliveryInv, Tokens, Ended
   <2>2. row[a].status = "failed" /\ a[2] = MaxRetry /\ ~Handled(a) => dlq[a] # 0
      BY <1>1 DEF DeliveryInv, Exhausted, Handled
   <2>3. ASSUME dlq[a] = 1, a[2] < MaxRetry PROVE row[<<a[1], a[2] + 1>>].status = "none"
      <3>1. a[2] + 1 \in Nos /\ a[2] + 1 > a[2]
         <4>1. a[2] \in Nos /\ MaxRetry \in Nat
            BY AttemptParts
         <4> DEFINE n == a[2]
         <4>2. n \in 1..MaxRetry /\ n < MaxRetry
            BY <2>3, <4>1 DEF Nos
         <4> HIDE DEF n
         <4>3. n + 1 \in 1..MaxRetry /\ n + 1 > n
            BY <4>1, <4>2
         <4> QED BY <4>3 DEF Nos, n
      <3> QED BY <2>1, <2>3, <3>1 DEF Made
   <2> QED BY <2>1, <2>2, <2>3
<1>2. DeliveryInv => ExhaustedIsDeadLettered
   BY <1>1 DEF ExhaustedIsDeadLettered
<1> QED BY <1>2, Invariance, PTL

-----------------------------------------------------------------------------
(***************************************************************************)
(* EventDelivery implements RetryChain while the event is published once,  *)
(* no two pollers read the same range and no answer is overtaken by a late *)
(* "pending".                                                              *)
(*                                                                         *)
(* By DeliveryInv a subscriber has one token, at its newest attempt.  What *)
(* is still needed is that the row of that attempt has the status its      *)
(* token stands for: no answer looks at the status, so nothing else keeps  *)
(* an acknowledged attempt from failing.                                   *)
(***************************************************************************)
Active(a) == row[a].status \in ActiveStatuses
Single == faults \subseteq {"silence", "error"}

Matches(o) ==
    /\ o.stage = "out" => Active(Of(o))
    /\ o.stage \in {"next", "dead"} => row[Of(o)].status = "failed"
    /\ o.stage = "schedule" => Active(<<o.sub, o.no + 1>>)
Fits ==
    Single => /\ \A i \in Item : Waits(i) /\ Live(i) => Active(RowOf(i))
              /\ \A o \in out : Matches(o)

\* What a step does to the chains.
ChainStep == Single' => Chain!ChainNext \/ UNCHANGED Chains

LEMMA LargestIs ==
    ASSUME NEW S \in SUBSET Nos, NEW n \in S, \A m \in S : m <= n
    PROVE  Max(S) = n
<1>1. MaxRetry \in Nat /\ S \in SUBSET (1..MaxRetry) /\ S # {}
   BY DeliveryAssumption DEF Nos, DeliveryAssumption
<1> DEFINE x == Max(S)
<1>2. x \in S /\ n <= x
   BY <1>1, LargestOf
<1> HIDE DEF x
<1>3. x <= n
   BY <1>2
<1>4. x \in Nat /\ n \in Nat
   BY <1>1, <1>2
<1>5. x = n
   BY <1>2, <1>3, <1>4
<1> QED BY <1>5 DEF x

\* The chain of a subscriber is that of its newest attempt.
LEMMA ChainIs ==
    ASSUME NEW s \in Subscribers, NEW n \in Nos, Made(<<s, n>>),
           \A m \in Nos : m > n => ~Made(<<s, m>>)
    PROVE  ChainOf(s) = [no |-> n, state |-> StateOf(<<s, n>>)]
<1> DEFINE made == {m \in Nos : row[<<s, m>>].status # "none"}
<1>1. Nos \subseteq Nat
   BY DeliveryAssumption DEF Nos, DeliveryAssumption
<1>2. n \in made /\ made \in SUBSET Nos /\ \A m \in made : m <= n
   BY <1>1 DEF Made
<1>3. Max(made) = n /\ made # {}
   BY <1>2, LargestIs
<1>4. ChainOf(s) = IF made = {} THEN [no |-> 0, state |-> "none"]
                   ELSE [no |-> Max(made), state |-> StateOf(<<s, Max(made)>>)]
   BY DEF ChainOf
<1> HIDE DEF made
<1> QED BY <1>3, <1>4

LEMMA ChainBecomes ==
    ASSUME NEW s \in Subscribers, NEW n \in Nos, Made(<<s, n>>)',
           \A m \in Nos : m > n => ~Made(<<s, m>>)'
    PROVE  ChainOf(s)' = [no |-> n, state |-> StateOf(<<s, n>>)']
<1> DEFINE made == {m \in Nos : row[<<s, m>>].status # "none"}
<1>1. Nos \subseteq Nat
   BY DeliveryAssumption DEF Nos, DeliveryAssumption
<1>2. n \in made' /\ made' \in SUBSET Nos /\ \A m \in made' : m <= n
   BY <1>1 DEF Made
<1>3. Max(made') = n /\ made' # {}
   BY <1>2, LargestIs
<1>4. Max(made)' = n
   BY <1>3
<1>5. ChainOf(s)' = IF made' = {} THEN [no |-> 0, state |-> "none"]
                    ELSE [no |-> Max(made)', state |-> StateOf(<<s, Max(made)>>)']
   BY DEF ChainOf
<1>6. StateOf(<<s, Max(made)>>)' = StateOf(<<s, n>>)'
   BY <1>4 DEF StateOf
<1> HIDE DEF made
<1> QED BY <1>3, <1>4, <1>5, <1>6

LEMMA ChainStarts ==
    ASSUME NEW s \in Subscribers, \A n \in Nos : ~Made(<<s, n>>)
    PROVE  ChainOf(s) = Chain!NoChain
<1>1. {n \in Nos : row[<<s, n>>].status # "none"} = {}
   BY DEF Made
<1> QED BY <1>1 DEF ChainOf, Chain!NoChain

\* A step that leaves the rows and the dead letters of a subscriber alone.
LEMMA ChainKept ==
    ASSUME NEW s \in Subscribers,
           \A n \in Nos : row'[<<s, n>>] = row[<<s, n>>] /\ dlq'[<<s, n>>] = dlq[<<s, n>>]
    PROVE  ChainOf(s)' = ChainOf(s)
<1> DEFINE made == {n \in Nos : row[<<s, n>>].status # "none"}
<1>1. CASE made = {}
   <2>1. made' = {}
      BY <1>1
   <2> QED BY <1>1, <2>1 DEF ChainOf
<1>2. CASE made # {}
   <2>1. MaxRetry \in Nat /\ made \in SUBSET (1..MaxRetry)
      BY DeliveryAssumption DEF Nos, DeliveryAssumption
   <2>2. Max(made) \in made /\ \A m \in made : m <= Max(made)
      BY <1>2, <2>1, LargestOf
   <2>3. PICK n \in made : \A m \in made : m <= n
      BY <2>2
   <2>4. n \in Nos /\ Made(<<s, n>>)
      BY DEF Made
   <2>5. \A m \in Nos : m > n => ~Made(<<s, m>>)
      <3> SUFFICES ASSUME NEW m \in Nos, m > n, m \in made PROVE FALSE
         BY DEF Made
      <3>1. m <= n /\ m \in Nat /\ n \in Nat
         BY <2>1, <2>3
      <3> HIDE DEF made
      <3> QED BY <3>1
   <2>6. Made(<<s, n>>)' /\ \A m \in Nos : m > n => ~Made(<<s, m>>)'
      BY <2>4, <2>5 DEF Made
   <2>7. StateOf(<<s, n>>)' = StateOf(<<s, n>>)
      BY <2>4 DEF StateOf
   <2> QED BY <2>4, <2>5, <2>6, <2>7, ChainIs, ChainBecomes
<1> QED BY <1>1, <1>2

LEMMA ChainsStand ==
    ASSUME UNCHANGED <<row, dlq>>
    PROVE  Chains' = Chains
<1>1. \A s \in Subscribers : ChainOf(s)' = ChainOf(s)
   BY ChainKept
<1> QED BY <1>1 DEF Chains

\* A step that changes the state of no attempt.
LEMMA ChainsAlike ==
    ASSUME \A c \in Attempts : Made(c)' = Made(c) /\ StateOf(c)' = StateOf(c)
    PROVE  Chains' = Chains
<1>1. ASSUME NEW s \in Subscribers PROVE ChainOf(s)' = ChainOf(s)
   <2>1. CASE \A n \in Nos : ~Made(<<s, n>>)
      <3>1. \A n \in Nos : ~Made(<<s, n>>)'
         BY <2>1, AttemptPair
      <3>2. {n \in Nos : row[<<s, n>>].status # "none"} = {}
         BY <2>1 DEF Made
      <3>3. {n \in Nos : row'[<<s, n>>].status # "none"} = {}
         BY <3>1 DEF Made
      <3> QED BY <3>2, <3>3 DEF ChainOf
   <2>2. CASE \E n \in Nos : Made(<<s, n>>)
      <3> DEFINE made == {n \in Nos : row[<<s, n>>].status # "none"}
      <3>1. made # {} /\ made \in SUBSET (1..MaxRetry) /\ MaxRetry \in Nat
         BY <2>2, DeliveryAssumption DEF Made, Nos, DeliveryAssumption
      <3>2. Max(made) \in made /\ \A m \in made : m <= Max(made)
         <4> HIDE DEF made
         <4> QED BY <3>1, LargestOf
      <3>3. PICK n \in made : \A m \in made : m <= n
         BY <3>2
      <3>4. n \in Nos /\ Made(<<s, n>>)
         BY DEF Made
      <3>5. \A m \in Nos : m > n => ~Made(<<s, m>>)
         <4> SUFFICES ASSUME NEW m \in Nos, m > n, m \in made PROVE FALSE
            BY DEF Made
         <4>1. m <= n /\ m \in Nat /\ n \in Nat
            BY <3>1, <3>3
         <4> HIDE DEF made
         <4> QED BY <4>1
      <3>6. /\ Made(<<s, n>>)' /\ StateOf(<<s, n>>)' = StateOf(<<s, n>>)
            /\ \A m \in Nos : m > n => ~Made(<<s, m>>)'
         BY <3>4, <3>5, AttemptPair
      <3> QED BY <3>4, <3>5, <3>6, ChainIs, ChainBecomes
   <2> QED BY <2>1, <2>2
<1> QED BY <1>1 DEF Chains

\* A step at the newest attempt of a subscriber.
LEMMA ChainMoves ==
    ASSUME NEW s \in Subscribers, NEW n \in Nos, Made(<<s, n>>)',
           \A c \in Attempts : c # <<s, n>> => row'[c] = row[c] /\ dlq'[c] = dlq[c],
           \A m \in Nos : m > n => ~Made(<<s, m>>)
    PROVE  Chain!To(s, n, StateOf(<<s, n>>)')
<1>1. ASSUME NEW m \in Nos, m > n PROVE ~Made(<<s, m>>)'
   <2>1. Nos \subseteq Nat
      BY DeliveryAssumption DEF Nos, DeliveryAssumption
   <2>2. m # n
      BY <1>1, <2>1
   <2>3. row'[<<s, m>>] = row[<<s, m>>]
      BY <2>2, AttemptPair
   <2> QED BY <1>1, <2>3 DEF Made
<1>2. ChainOf(s)' = [no |-> n, state |-> StateOf(<<s, n>>)']
   BY <1>1, ChainBecomes
<1>3. ASSUME NEW t \in Subscribers, t # s PROVE ChainOf(t)' = ChainOf(t)
   <2>1. \A m \in Nos : row'[<<t, m>>] = row[<<t, m>>] /\ dlq'[<<t, m>>] = dlq[<<t, m>>]
      BY <1>3, AttemptPair
   <2> QED BY <2>1, ChainKept
<1>4. Chains' = [Chains EXCEPT ![s] = [no |-> n, state |-> StateOf(<<s, n>>)']]
   BY <1>2, <1>3 DEF Chains
<1> QED BY <1>4 DEF Chain!To

-----------------------------------------------------------------------------
(* Fits: what a step does to the tokens.                                   *)
LEMMA SuccessorRow ==
    ASSUME Typed, Rooted, NEW o \in out, o.stage \in {"next", "schedule"}
    PROVE  /\ o.no < MaxRetry /\ o.no + 1 \in Nos
           /\ <<o.sub, o.no + 1>> \in Attempts
<1>1. o.no < MaxRetry /\ o.no \in 1..MaxRetry /\ MaxRetry \in Nat /\ o.sub \in Subscribers
   BY OutParts, DeliveryAssumption DEF Rooted, OutsRooted, Nos, DeliveryAssumption
<1>2. o.no + 1 \in 1..MaxRetry
   BY <1>1
<1> QED BY <1>1, <1>2, AttemptPair DEF Nos

\* A step that writes no row and makes no token.
LEMMA FitsQuiet ==
    ASSUME Fits, row' = row, faults \subseteq faults',
           \A i \in Item : Waits(i)' => Waits(i),
           \A o \in out' : o \in out \/ ~Holds(o)
    PROVE  Fits'
<1> SUFFICES ASSUME Single'
             PROVE  /\ \A i \in Item : Waits(i)' /\ Live(i)' => Active(RowOf(i))'
                    /\ \A o \in out' : Matches(o)'
   BY DEF Fits, RowOf
<1>1. /\ \A i \in Item : Waits(i) /\ Live(i) => Active(RowOf(i))
      /\ \A o \in out : Matches(o)
   BY DEF Fits, Single
<1>2. \A i \in Item : Waits(i)' /\ Live(i)' => Active(RowOf(i))'
   BY <1>1 DEF Live, Active, RowOf
<1>3. \A o \in out' : Matches(o)'
   BY <1>1 DEF Matches, Active, Holds, Of
<1> QED BY <1>2, <1>3

\* A step that writes rows and tokens of one subscriber only.
LEMMA FitsKept ==
    ASSUME Typed, Rooted, Fits, faults \subseteq faults', NEW s \in Subscribers,
           \A c \in Attempts : c[1] # s => row'[c] = row[c],
           Single' =>
               /\ \A i \in Item : Waits(i)' /\ Live(i)' =>
                      (i.sub # s /\ Waits(i)) \/ Active(RowOf(i))'
               /\ \A o \in out' : Holds(o) => (o.sub # s /\ o \in out) \/ Matches(o)'
    PROVE  Fits'
<1> SUFFICES ASSUME Single'
             PROVE  /\ \A i \in Item : Waits(i)' /\ Live(i)' => Active(RowOf(i))'
                    /\ \A o \in out' : Matches(o)'
   BY DEF Fits, RowOf
<1>1. /\ \A i \in Item : Waits(i) /\ Live(i) => Active(RowOf(i))
      /\ \A o \in out : Matches(o)
   BY DEF Fits, Single
<1>2. ASSUME NEW i \in Item, Waits(i)', Live(i)' PROVE Active(RowOf(i))'
   <2>1. CASE i.sub # s /\ Waits(i)
      <3>1. row'[RowOf(i)] = row[RowOf(i)]
         BY <2>1, ItemParts
      <3>2. Live(i)
         BY <1>2, <3>1 DEF Live, RowOf
      <3> QED BY <1>1, <2>1, <3>1, <3>2 DEF Active, RowOf
   <2> QED BY <1>2, <2>1
<1>3. ASSUME NEW o \in out' PROVE Matches(o)'
   <2>1. CASE ~Holds(o)
      BY <2>1 DEF Matches, Holds
   <2>2. CASE o.sub # s /\ o \in out
      <3>1. Matches(o) /\ row'[Of(o)] = row[Of(o)]
         BY <1>1, <2>2, OutParts
      <3>2. o.stage = "schedule" => row'[<<o.sub, o.no + 1>>] = row[<<o.sub, o.no + 1>>]
         <4>1. <<o.sub, o.no + 1>>[1] # s
            BY <2>2
         <4> QED BY <2>2, <4>1, SuccessorRow
      <3> QED BY <3>1, <3>2 DEF Matches, Active, Of
   <2> QED BY <1>3, <2>1, <2>2
<1> QED BY <1>2, <1>3

\* A poller with the token of a subscriber in hand.
LEMMA InHandIs ==
    ASSUME DeliveryInv, Fits, Single, NEW p \in Pollers, NEW i \in Item, Took(p, i),
           NEW a \in Found(i), row[a].env
    PROVE  /\ a \in Attempts /\ a[1] \in Subscribers /\ a[2] \in Nos /\ a = <<a[1], a[2]>>
           /\ Active(a) /\ Made(a) /\ dlq[a] = 0
           /\ \A m \in Nos : m > a[2] => ~Made(<<a[1], m>>)
           /\ \A k \in Item : Taken(k) => Waits(k) /\ (Live(k) => k.sub # a[1])
           /\ \A o \in out : Holds(o) => o.sub # a[1]
<1>1. "race" \notin faults
   BY DEF Single
<1>2. /\ Live(i) /\ a = RowOf(i) /\ Waits(i) /\ a[1] = i.sub /\ a[2] = i.no
      /\ \A k \in Item : Taken(k) => Waits(k) /\ (Live(k) => k.sub # i.sub)
   BY <1>1, InvNow, TokenInHand
<1>3. a \in Attempts /\ a[1] \in Subscribers /\ a[2] \in Nos /\ a = <<a[1], a[2]>>
   BY <1>2, ItemParts, AttemptParts
<1>4. Active(a) /\ Made(a)
   BY <1>2 DEF Fits, Active, Made, ActiveStatuses
<1>5. dlq[a] = 0
   BY <1>1, <1>2, <1>3, InvNow DEF Tokens, Ended
<1>6. \A m \in Nos : m > a[2] => ~Made(<<a[1], m>>)
   BY <1>1, <1>2, InvNow DEF Tokens, Last
<1>7. \A o \in out : Holds(o) => o.sub # a[1]
   BY <1>1, <1>2, InvNow DEF Tokens, Alone
<1> QED BY <1>2, <1>3, <1>4, <1>5, <1>6, <1>7

\* A subscriber or a handler with the token.
LEMMA AnsweringIs ==
    ASSUME DeliveryInv, Fits, Single, NEW o \in out, Holds(o)
    PROVE  /\ Matches(o) /\ o.sub \in Subscribers /\ o.no \in Nos /\ Of(o) \in Attempts
           /\ \A n \in Nos : dlq[<<o.sub, n>>] = 0
           /\ \A m \in Nos : m > Reach(o) => ~Made(<<o.sub, m>>)
           /\ \A i \in Item : Waits(i) /\ Live(i) => i.sub # o.sub
           /\ \A r \in out : Holds(r) /\ r # o => r.sub # o.sub
<1>1. "race" \notin faults
   BY DEF Single
<1>2. Matches(o) /\ o.sub \in Subscribers /\ o.no \in Nos /\ Of(o) \in Attempts
   BY InvNow, OutParts DEF Fits
<1>3. \A n \in Nos : dlq[<<o.sub, n>>] = 0
   BY <1>1, <1>2, InvNow, AttemptPair DEF Tokens, Ended
<1>4. \A m \in Nos : m > Reach(o) => ~Made(<<o.sub, m>>)
   BY <1>1, InvNow DEF Tokens, Last
<1>5. \A i \in Item : Waits(i) /\ Live(i) => i.sub # o.sub
   BY <1>1, InvNow DEF Tokens, Alone
<1>6. \A r \in out : Holds(r) /\ r # o => r.sub # o.sub
   BY <1>1, InvNow DEF Tokens, Alone
<1> QED BY <1>2, <1>3, <1>4, <1>5, <1>6

-----------------------------------------------------------------------------
(* Every action keeps Fits and is a step of the chains.                    *)
LEMMA QuietChain ==
    ASSUME Fits, UNCHANGED <<row, dlq>>, faults \subseteq faults',
           \A i \in Item : Waits(i)' => Waits(i),
           \A o \in out' : o \in out \/ ~Holds(o)
    PROVE  Fits' /\ ChainStep
<1>1. row' = row
   OBVIOUS
<1>2. Fits'
   BY <1>1, FitsQuiet
<1> QED BY <1>2, ChainsStand DEF ChainStep

LEMMA PublishEnvelopeChain ==
    ASSUME DeliveryInv, Fits, NEW b \in Publishers, PublishEnvelope(b)
    PROVE  Fits' /\ ChainStep
<1>1. /\ row' = row /\ queue' = queue /\ dlq' = dlq /\ poller' = poller /\ out' = out
      /\ faults' = faults \/ faults' = faults \cup {"republish"}
   BY InvNow, PublishEnvelopeIs
<1>2. \A i \in Item : Waits(i)' => Waits(i)
   BY <1>1 DEF Waits
<1> QED BY <1>1, <1>2, QuietChain

LEMMA PublishAttemptChain ==
    ASSUME DeliveryInv, Fits, NEW b \in Publishers, NEW s \in Subscribers, PublishAttempt(b, s)
    PROVE  Fits' /\ ChainStep
<1>1. /\ UNCHANGED <<env, dlq, poller, out, faults>>
      /\ s \in publisher[b].todo
   BY InvNow, PublishAttemptIs
<1>2. PICK a \in Attempts, j \in Item :
         /\ a = <<s, 1>> /\ a[1] = s /\ a[2] = 1
         /\ row'[a].status = "pending"
         /\ \A c \in Attempts : c # a => row'[c] = row[c]
         /\ j.sub = s /\ RowOf(j) = a /\ queue' = queue \cup {j}
   BY InvNow, PublishAttemptIs
<1>3. ASSUME Single
      PROVE  /\ \A n \in Nos : ~Made(<<s, n>>) /\ dlq[<<s, n>>] = 0
             /\ \A i \in Item : Waits(i) => i.sub # s
             /\ \A o \in out : o.sub # s
   <2>1. "republish" \notin faults
      BY <1>3 DEF Single
   <2>2. publisher[b].known
      BY <1>1, <2>1, InvNow DEF Original
   <2>3. ~row[a].env
      BY <1>1, <1>2, <2>2, InvNow, AttemptParts DEF Publication
   <2>4. ~Made(<<s, 1>>)
      BY <1>2, <2>1, <2>3, InvNow DEF Original
   <2> QED BY <2>4, InvNow, Unstarted
<1>4. Fits'
   <2>1. \A c \in Attempts : c[1] # s => row'[c] = row[c]
      BY <1>2
   <2>2. Single' => Single
      BY <1>1 DEF Single
   <2>3. \A i \in Item : Waits(i)' => Waits(i) \/ i = j
      BY <1>1, <1>2 DEF Waits
   <2>4. Active(RowOf(j))'
      BY <1>2 DEF Active, ActiveStatuses, RowOf
   <2>5. Single' =>
            /\ \A i \in Item : Waits(i)' /\ Live(i)' =>
                   (i.sub # s /\ Waits(i)) \/ Active(RowOf(i))'
            /\ \A o \in out' : Holds(o) => (o.sub # s /\ o \in out) \/ Matches(o)'
      BY <1>1, <1>3, <2>2, <2>3, <2>4
   <2> QED BY <1>1, <2>1, <2>5, InvNow, FitsKept
<1>5. ASSUME Single' PROVE Chain!Begin(s)
   <2>1. Single
      BY <1>1, <1>5 DEF Single
   <2>2. Chains[s] = Chain!NoChain
      BY <1>3, <2>1, ChainStarts DEF Chains
   <2>3. 1 \in Nos
      BY <1>2, AttemptParts
   <2>4. Made(<<s, 1>>)' /\ \A c \in Attempts : c # <<s, 1>> => row'[c] = row[c] /\ dlq'[c] = dlq[c]
      BY <1>1, <1>2 DEF Made
   <2>5. Chain!To(s, 1, StateOf(<<s, 1>>)')
      BY <1>3, <2>1, <2>3, <2>4, ChainMoves
   <2>6. StateOf(<<s, 1>>)' = "due"
      BY <1>1, <1>2, <1>3, <2>1, <2>3 DEF StateOf, ActiveStatuses
   <2> QED BY <2>2, <2>5, <2>6 DEF Chain!Begin
<1> QED BY <1>4, <1>5 DEF ChainStep, Chain!ChainNext

LEMMA PopRangeChain ==
    ASSUME DeliveryInv, Fits, NEW p \in Pollers, NEW batch \in SUBSET queue, PopRange(p, batch)
    PROVE  Fits' /\ ChainStep
<1>1. /\ UNCHANGED <<env, row, queue, dlq, publisher, out>>
      /\ faults \subseteq faults' /\ poller'[p].batch = batch
      /\ \A q \in Pollers : q # p => poller'[q] = poller[q]
   BY InvNow, PopRangeIs
<1>2. \A i \in Item : Waits(i)' => Waits(i)
   BY <1>1 DEF Waits
<1> QED BY <1>1, <1>2, QuietChain

LEMMA PopRemoveChain ==
    ASSUME DeliveryInv, Fits, NEW p \in Pollers, PopRemove(p)
    PROVE  Fits' /\ ChainStep
<1>1. /\ UNCHANGED <<env, row, dlq, publisher, out, faults>>
      /\ queue' = queue \ poller[p].batch /\ poller'[p].batch = poller[p].batch
      /\ \A q \in Pollers : q # p => poller'[q] = poller[q]
   BY InvNow, PopRemoveIs
<1>2. \A i \in Item : Waits(i)' => Waits(i)
   <2>1. \A q \in Pollers : poller'[q].batch = poller[q].batch
      BY <1>1
   <2> QED BY <1>1, <2>1 DEF Waits
<1> QED BY <1>1, <1>2, QuietChain

LEMMA BatchItem ==
    ASSUME DeliveryInv, NEW p \in Pollers, NEW i \in poller[p].batch
    PROVE  i \in Item
BY InvNow DEF DeliveryTypeOK

LEMMA PollSkipChain ==
    ASSUME DeliveryInv, Fits, NEW p \in Pollers, NEW i \in poller[p].batch, PollSkip(p, i)
    PROVE  Fits' /\ ChainStep
<1>1. Took(p, i) /\ UNCHANGED <<env, row, queue, dlq, publisher, out, faults>>
   BY InvNow, PollSkipIs
<1>2. \A k \in Item : Waits(k)' => Waits(k)
   BY <1>1 DEF Waits, Took
<1> QED BY <1>1, <1>2, QuietChain

\* The token goes back into the queue and the row stays, or becomes, active.
LEMMA RequeueChain ==
    ASSUME DeliveryInv, Fits, NEW p \in Pollers, NEW i \in Item, Took(p, i),
           NEW a \in Found(i), row[a].env, NEW j \in Item, Queues(j, a),
           UNCHANGED <<dlq, out, faults>>,
           Active(a) => Active(a)',
           \A c \in Attempts : c # a => row'[c] = row[c]
    PROVE  Fits' /\ ChainStep
<1>1. Single' => Single
   BY DEF Single
<1>2. a \in Attempts /\ a[1] \in Subscribers
   BY FoundIs, AttemptParts
<1>3. Fits'
   <2>1. \A c \in Attempts : c[1] # a[1] => row'[c] = row[c]
      OBVIOUS
   <2>2. \A k \in Item : Waits(k)' => Taken(k) \/ k = j
      BY DEF Waits, Taken, Queues
   <2>3. ASSUME Single'
         PROVE  /\ \A k \in Item : Waits(k)' /\ Live(k)' =>
                       (k.sub # a[1] /\ Waits(k)) \/ Active(RowOf(k))'
                /\ \A o \in out' : Holds(o) => (o.sub # a[1] /\ o \in out) \/ Matches(o)'
      <3>1. /\ Active(a) /\ \A o \in out : Holds(o) => o.sub # a[1]
            /\ \A k \in Item : Taken(k) => Waits(k) /\ (Live(k) => k.sub # a[1])
         BY <1>1, <2>3, InHandIs
      <3>2. Active(RowOf(j))'
         BY <3>1 DEF Queues, RowOf
      <3>3. ASSUME NEW k \in Item, Taken(k), Live(k)'
            PROVE  (k.sub # a[1] /\ Waits(k)) \/ Active(RowOf(k))'
         <4>1. CASE RowOf(k) = a
            BY <3>1, <4>1 DEF RowOf
         <4>2. CASE RowOf(k) # a
            <5>1. row'[RowOf(k)] = row[RowOf(k)]
               BY <4>2, ItemParts
            <5> QED BY <3>1, <3>3, <5>1 DEF Live, RowOf
         <4> QED BY <4>1, <4>2
      <3> QED BY <2>2, <3>1, <3>2, <3>3
   <2> QED BY <1>2, <2>1, <2>3, InvNow, FitsKept
<1>4. ASSUME Single' PROVE UNCHANGED Chains
   <2>1. /\ a[1] \in Subscribers /\ a[2] \in Nos /\ a = <<a[1], a[2]>>
         /\ Active(a) /\ Made(a) /\ dlq[a] = 0
         /\ \A m \in Nos : m > a[2] => ~Made(<<a[1], m>>)
      BY <1>1, <1>4, InHandIs
   <2>2. Active(a)' /\ Made(a)'
      BY <2>1 DEF Active, ActiveStatuses, Made
   <2>3. ChainOf(a[1]) = [no |-> a[2], state |-> StateOf(a)]
      BY <2>1, ChainIs
   <2>4. StateOf(a) = "due" /\ StateOf(a)' = "due"
      BY <2>1, <2>2 DEF StateOf, Active
   <2>5. Chain!To(a[1], a[2], StateOf(a)')
      BY <2>1, <2>2, ChainMoves
   <2>6. Chains' = [Chains EXCEPT ![a[1]] = Chains[a[1]]]
      BY <2>1, <2>3, <2>4, <2>5 DEF Chain!To, Chains
   <2> QED BY <2>6 DEF Chains
<1> QED BY <1>3, <1>4 DEF ChainStep

LEMMA PollRescheduleChain ==
    ASSUME DeliveryInv, Fits, NEW p \in Pollers, NEW i \in poller[p].batch, PollReschedule(p, i)
    PROVE  Fits' /\ ChainStep
<1>1. /\ i \in Item /\ Took(p, i)
      /\ UNCHANGED <<env, row, dlq, publisher, out, faults>>
   BY InvNow, BatchItem, PollRescheduleIs
<1>2. PICK a \in Found(i) : row[a].env /\ \E j \in Item : Queues(j, a)
   BY InvNow, PollRescheduleIs
<1>3. PICK j \in Item : Queues(j, a)
   BY <1>2
<1>4. Active(a) => Active(a)'
   BY <1>1 DEF Active
<1> QED BY <1>1, <1>2, <1>3, <1>4, RequeueChain

LEMMA PollOtherTopicChain ==
    ASSUME DeliveryInv, Fits, NEW p \in Pollers, NEW i \in poller[p].batch, PollOtherTopic(p, i)
    PROVE  Fits' /\ ChainStep
<1>1. /\ i \in Item /\ Took(p, i)
      /\ UNCHANGED <<env, dlq, publisher, out, faults>>
   BY InvNow, BatchItem, PollOtherTopicIs
<1>2. PICK a \in Found(i) : row[a].env /\ RowSet(a, "delivering") /\ \E j \in Item : Queues(j, a)
   BY InvNow, PollOtherTopicIs
<1>3. PICK j \in Item : Queues(j, a)
   BY <1>2
<1>4. Active(a)' /\ \A c \in Attempts : c # a => row'[c] = row[c]
   BY <1>2 DEF Active, ActiveStatuses, RowSet
<1> QED BY <1>1, <1>2, <1>3, <1>4, RequeueChain

\* As long as no answer was overtaken the row was active, and still is.
LEMMA PollRevertChain ==
    ASSUME DeliveryInv, Fits, NEW p \in Pollers, PollRevert(p)
    PROVE  Fits' /\ ChainStep
<1>1. /\ Steps(p) /\ UNCHANGED <<queue, dlq, out>> /\ faults \subseteq faults'
   BY InvNow, PollRevertIs
<1>2. PICK a \in Attempts :
         RowSet(a, "pending") /\ (row[a].status \notin ActiveStatuses => "overtaken" \in faults')
   BY InvNow, PollRevertIs
<1>3. /\ \A i \in Item : Waits(i)' = Waits(i)
      /\ \A c \in Attempts : row'[c].env = row[c].env
   <2>1. \A q \in Pollers : poller'[q].batch = poller[q].batch
      BY <1>1 DEF Steps
   <2> QED BY <1>1, <1>2, <2>1 DEF Waits, RowSet
<1>4. ASSUME Single'
      PROVE  /\ Single
             /\ \A c \in Attempts : \/ row'[c] = row[c]
                                    \/ Active(c) /\ Active(c)' /\ Made(c) /\ Made(c)'
   <2>1. row[a].status \in ActiveStatuses /\ row'[a].status \in ActiveStatuses
      BY <1>2, <1>4 DEF Single, RowSet, ActiveStatuses
   <2> QED BY <1>1, <1>2, <1>4, <2>1 DEF Single, RowSet, Active, Made, ActiveStatuses
<1>5. Fits'
   <2> SUFFICES ASSUME Single'
                PROVE  /\ \A i \in Item : Waits(i)' /\ Live(i)' => Active(RowOf(i))'
                       /\ \A o \in out' : Matches(o)'
      BY DEF Fits, RowOf
   <2>1. /\ \A i \in Item : Waits(i) /\ Live(i) => Active(RowOf(i))
         /\ \A o \in out : Matches(o)
      BY <1>4 DEF Fits
   <2>2. \A c \in Attempts : Active(c) => Active(c)'
      BY <1>4 DEF Active
   <2>3. ASSUME NEW i \in Item, Waits(i)', Live(i)' PROVE Active(RowOf(i))'
      <3>1. RowOf(i) \in Attempts /\ Waits(i) /\ Live(i)
         BY <1>3, <2>3, ItemParts DEF Live, RowOf
      <3> QED BY <2>1, <2>2, <3>1 DEF RowOf
   <2>4. ASSUME NEW o \in out PROVE Matches(o)'
      <3>1. Of(o) \in Attempts /\ Matches(o)
         BY <2>1, InvNow, OutParts
      <3>2. o.stage = "schedule" => Active(<<o.sub, o.no + 1>>)'
         BY <2>2, <3>1, InvNow, SuccessorRow DEF Matches
      <3>3. o.stage = "out" => Active(Of(o))'
         BY <2>2, <3>1 DEF Matches
      <3>4. row[Of(o)].status = "failed" => row'[Of(o)].status = "failed"
         BY <1>4, <3>1 DEF Active, ActiveStatuses
      <3> QED BY <3>1, <3>2, <3>3, <3>4 DEF Matches, Of, Active
   <2> QED BY <1>1, <2>3, <2>4
<1>6. ASSUME Single' PROVE Chains' = Chains
   <2>1. \A c \in Attempts : Made(c)' = Made(c) /\ StateOf(c)' = StateOf(c)
      BY <1>1, <1>4, <1>6 DEF Made, StateOf, Active
   <2> QED BY <2>1, ChainsAlike
<1> QED BY <1>5, <1>6 DEF ChainStep

LEMMA PollReleaseChain ==
    ASSUME DeliveryInv, Fits, NEW p \in Pollers, PollRelease(p)
    PROVE  Fits' /\ ChainStep
<1>1. Steps(p) /\ UNCHANGED <<row, queue, dlq, out, faults>>
   BY InvNow, PollReleaseIs
<1>2. \A i \in Item : Waits(i)' => Waits(i)
   BY <1>1 DEF Waits, Steps
<1> QED BY <1>1, <1>2, QuietChain

LEMMA PollErrorChain ==
    ASSUME DeliveryInv, Fits, NEW p \in Pollers,
           PollFails(p) \/ \E i \in poller[p].batch : PollLoses(p, i)
    PROVE  Fits' /\ ChainStep
<1>1. Drops(p) /\ UNCHANGED <<row, queue, dlq>> /\ faults \subseteq faults'
   BY InvNow, PollFailsIs, PollLosesIs
<1>2. \A i \in Item : Waits(i)' => Waits(i)
   BY <1>1 DEF Waits, Drops
<1>3. \A o \in out' : o \in out \/ ~Holds(o)
   BY <1>1 DEF Drops
<1> QED BY <1>1, <1>2, <1>3, QuietChain

LEMMA PollDeliverChain ==
    ASSUME DeliveryInv, Fits, NEW p \in Pollers, NEW i \in poller[p].batch, PollDeliver(p, i)
    PROVE  Fits' /\ ChainStep
<1>1. /\ i \in Item /\ Took(p, i)
      /\ UNCHANGED <<env, queue, dlq, publisher, faults>>
   BY InvNow, BatchItem, PollDeliverIs
<1>2. PICK a \in Found(i) : /\ row[a].env /\ RowSet(a, "delivering")
                            /\ \E o \in Out : /\ Of(o) = a /\ o.stage = "out"
                                              /\ out' = out \cup {o}
   BY InvNow, PollDeliverIs
<1>3. PICK o \in Out : Of(o) = a /\ o.stage = "out" /\ out' = out \cup {o}
   BY <1>2
<1>4. a \in Attempts /\ a[1] \in Subscribers
   BY <1>1, <1>2, FoundIs, AttemptParts
<1>5. \A c \in Attempts : c # a => row'[c] = row[c]
   BY <1>2 DEF RowSet
<1>6. Active(a)' /\ Made(a)'
   BY <1>2 DEF Active, ActiveStatuses, RowSet, Made
<1>7. ASSUME Single'
      PROVE  /\ a[2] \in Nos /\ a = <<a[1], a[2]>>
             /\ Active(a) /\ Made(a) /\ dlq[a] = 0
             /\ \A m \in Nos : m > a[2] => ~Made(<<a[1], m>>)
             /\ \A k \in Item : Taken(k) => Waits(k) /\ (Live(k) => k.sub # a[1])
             /\ \A r \in out : Holds(r) => r.sub # a[1]
   <2>1. Single
      BY <1>1, <1>7 DEF Single
   <2> QED BY <1>1, <1>2, <2>1, InHandIs
<1>8. Fits'
   <2>1. \A k \in Item : Waits(k)' => Taken(k)
      BY <1>1 DEF Waits, Taken
   <2>2. Matches(o)'
      BY <1>3, <1>6 DEF Matches, Of
   <2>3. ASSUME Single'
         PROVE  /\ \A k \in Item : Waits(k)' /\ Live(k)' =>
                       (k.sub # a[1] /\ Waits(k)) \/ Active(RowOf(k))'
                /\ \A r \in out' : Holds(r) => (r.sub # a[1] /\ r \in out) \/ Matches(r)'
      <3>1. ASSUME NEW k \in Item, Taken(k), Live(k)'
            PROVE  (k.sub # a[1] /\ Waits(k)) \/ Active(RowOf(k))'
         <4>1. CASE RowOf(k) = a
            BY <1>6, <4>1 DEF RowOf
         <4>2. CASE RowOf(k) # a
            <5>1. row'[RowOf(k)] = row[RowOf(k)]
               BY <1>5, <4>2, ItemParts
            <5> QED BY <1>7, <2>3, <3>1, <5>1 DEF Live, RowOf
         <4> QED BY <4>1, <4>2
      <3> QED BY <1>3, <1>7, <2>1, <2>2, <2>3, <3>1
   <2>4. \A c \in Attempts : c[1] # a[1] => row'[c] = row[c]
      BY <1>5
   <2> QED BY <1>1, <1>4, <2>3, <2>4, InvNow, FitsKept
<1>9. ASSUME Single' PROVE UNCHANGED Chains
   <2>1. ChainOf(a[1]) = [no |-> a[2], state |-> StateOf(a)]
      BY <1>4, <1>7, <1>9, ChainIs
   <2>2. StateOf(a) = "due" /\ StateOf(a)' = "due"
      BY <1>1, <1>6, <1>7, <1>9 DEF StateOf, Active
   <2>3. Chain!To(a[1], a[2], StateOf(a)')
      BY <1>1, <1>4, <1>5, <1>6, <1>7, <1>9, ChainMoves
   <2>4. Chains' = [Chains EXCEPT ![a[1]] = Chains[a[1]]]
      BY <1>4, <2>1, <2>2, <2>3 DEF Chain!To, Chains
   <2> QED BY <2>4 DEF Chains
<1> QED BY <1>8, <1>9 DEF ChainStep

LEMMA PollIncompatibleChain ==
    ASSUME DeliveryInv, Fits, NEW p \in Pollers, NEW i \in poller[p].batch, PollIncompatible(p, i)
    PROVE  Fits' /\ ChainStep
<1>1. /\ i \in Item /\ Took(p, i)
      /\ UNCHANGED <<queue, publisher, out, faults>>
   BY InvNow, BatchItem, PollIncompatibleIs
<1>2. PICK a \in Found(i) : row[a].env /\ RowSet(a, "failed") /\ Buries(a)
   BY InvNow, PollIncompatibleIs
<1>3. a \in Attempts /\ a[1] \in Subscribers
   BY <1>1, <1>2, FoundIs, AttemptParts
<1>4. \A c \in Attempts : c # a => row'[c] = row[c] /\ dlq'[c] = dlq[c]
   BY <1>2 DEF RowSet, Buries
<1>5. ASSUME Single'
      PROVE  /\ a[2] \in Nos /\ a = <<a[1], a[2]>>
             /\ Active(a) /\ Made(a) /\ dlq[a] = 0
             /\ \A m \in Nos : m > a[2] => ~Made(<<a[1], m>>)
             /\ \A k \in Item : Taken(k) => Waits(k) /\ (Live(k) => k.sub # a[1])
             /\ \A r \in out : Holds(r) => r.sub # a[1]
   <2>1. Single
      BY <1>1, <1>5 DEF Single
   <2> QED BY <1>1, <1>2, <2>1, InHandIs
<1>6. Fits'
   <2>1. \A k \in Item : Waits(k)' => Taken(k)
      BY <1>1 DEF Waits, Taken
   <2>2. ASSUME NEW k \in Item PROVE Live(k)' = Live(k)
      <3>1. row'[RowOf(k)].env = row[RowOf(k)].env
         BY <1>2, <1>4, ItemParts DEF RowSet
      <3> QED BY <3>1 DEF Live, RowOf
   <2>3. Single' => /\ \A k \in Item : Waits(k)' /\ Live(k)' =>
                           (k.sub # a[1] /\ Waits(k)) \/ Active(RowOf(k))'
                    /\ \A r \in out' : Holds(r) => (r.sub # a[1] /\ r \in out) \/ Matches(r)'
      BY <1>1, <1>5, <2>1, <2>2
   <2>4. \A c \in Attempts : c[1] # a[1] => row'[c] = row[c]
      BY <1>4
   <2> QED BY <1>1, <1>3, <2>3, <2>4, InvNow, FitsKept
<1>7. ASSUME Single' PROVE Chain!Refuse(a[1])
   <2>1. ChainOf(a[1]) = [no |-> a[2], state |-> StateOf(a)]
      BY <1>3, <1>5, <1>7, ChainIs
   <2>2. StateOf(a) = "due"
      BY <1>5, <1>7 DEF StateOf, Active
   <2>3. StateOf(a)' = "dead" /\ Made(a)'
      BY <1>2, <1>5, <1>7 DEF StateOf, Buries, RowSet, Made
   <2>4. Chain!To(a[1], a[2], StateOf(a)')
      BY <1>3, <1>4, <1>5, <1>7, <2>3, ChainMoves
   <2>5. Chains[a[1]] = [no |-> a[2], state |-> "due"]
      BY <1>3, <2>1, <2>2 DEF Chains
   <2> QED BY <2>3, <2>4, <2>5 DEF Chain!Refuse
<1> QED BY <1>3, <1>6, <1>7 DEF ChainStep, Chain!ChainNext

-----------------------------------------------------------------------------
\* An answer writes a row of its subscriber and hands on, or gives up, the token.
LEMMA AnswerFits ==
    ASSUME DeliveryInv, Fits, NEW o \in out, Holds(o), NEW r \in Out, Goes(o, r), r.sub = o.sub,
           UNCHANGED <<queue, poller, faults>>,
           \A c \in Attempts : c[1] # o.sub => row'[c] = row[c],
           \A c \in Attempts : c[1] = o.sub /\ row'[c].env /\ ~Active(c)' => row[c].env,
           Holds(r) => Matches(r)'
    PROVE  Fits'
<1>1. \A i \in Item : Waits(i)' = Waits(i)
   BY DEF Waits
<1>2. ASSUME Single'
      PROVE  /\ \A i \in Item : Waits(i)' /\ Live(i)' =>
                    (i.sub # o.sub /\ Waits(i)) \/ Active(RowOf(i))'
             /\ \A q \in out' : Holds(q) => (q.sub # o.sub /\ q \in out) \/ Matches(q)'
   <2>1. Single
      BY <1>2 DEF Single
   <2>2. /\ \A i \in Item : Waits(i) /\ Live(i) => i.sub # o.sub
         /\ \A q \in out : Holds(q) /\ q # o => q.sub # o.sub
      BY <2>1, AnsweringIs
   <2>3. ASSUME NEW i \in Item, Waits(i)', Live(i)', i.sub = o.sub
         PROVE  Active(RowOf(i))'
      <3>1. ~Live(i)
         BY <1>1, <2>2, <2>3
      <3>2. RowOf(i) \in Attempts /\ RowOf(i)[1] = o.sub
         BY <2>3, ItemParts
      <3> QED BY <2>3, <3>1, <3>2 DEF Live, RowOf, Active
   <2>4. \A q \in out' : Holds(q) => (q.sub # o.sub /\ q \in out) \/ Matches(q)'
      BY <2>2 DEF Goes
   <2> QED BY <1>1, <2>3, <2>4
<1>3. o.sub \in Subscribers
   BY InvNow, OutParts
<1> QED BY <1>2, <1>3, InvNow, FitsKept

\* The chain of a subscriber or handler with the token.
LEMMA AnswersChain ==
    ASSUME DeliveryInv, Fits, Single, NEW o \in out, o.stage \in {"out", "next", "dead"}
    PROVE  Chains[o.sub] = [no |-> o.no, state |-> IF o.stage = "out" THEN "due" ELSE "failed"]
<1>1. /\ Matches(o) /\ o.sub \in Subscribers /\ o.no \in Nos /\ Of(o) \in Attempts
      /\ \A n \in Nos : dlq[<<o.sub, n>>] = 0
      /\ \A m \in Nos : m > o.no => ~Made(<<o.sub, m>>)
   BY AnsweringIs DEF Holds, Reach
<1>2. Made(<<o.sub, o.no>>)
   BY <1>1 DEF Matches, Active, ActiveStatuses, Made, Of
<1>3. ChainOf(o.sub) = [no |-> o.no, state |-> StateOf(<<o.sub, o.no>>)]
   BY <1>1, <1>2, ChainIs
<1>4. StateOf(<<o.sub, o.no>>) = IF o.stage = "out" THEN "due" ELSE "failed"
   BY <1>1 DEF StateOf, Matches, Active, ActiveStatuses, Of
<1> QED BY <1>1, <1>3, <1>4 DEF Chains

LEMMA AckChain ==
    ASSUME DeliveryInv, Fits, NEW o \in out, Ack(o)
    PROVE  Fits' /\ ChainStep
<1>1. /\ UNCHANGED <<env, queue, dlq, poller, publisher, faults>>
      /\ o.stage = "out" /\ RowSet(Of(o), "succeeded")
   BY InvNow, AckIs
<1>2. PICK r \in Out : Goes(o, r) /\ r.sub = o.sub /\ r.stage = "count"
   BY InvNow, AckIs DEF Moves
<1>3. Of(o) \in Attempts /\ Of(o)[1] = o.sub /\ o.sub \in Subscribers /\ Holds(o) /\ ~Holds(r)
   BY <1>1, <1>2, InvNow, OutParts DEF Holds
<1>4. \A c \in Attempts : row'[c].env = row[c].env /\ (c # Of(o) => row'[c] = row[c])
   BY <1>1 DEF RowSet
<1>5. Fits'
   BY <1>1, <1>2, <1>3, <1>4, AnswerFits
<1>6. ASSUME Single' PROVE Chain!Acknowledge(o.sub)
   <2>1. Single
      BY <1>1, <1>6 DEF Single
   <2>2. /\ o.no \in Nos /\ dlq[Of(o)] = 0
         /\ \A m \in Nos : m > o.no => ~Made(<<o.sub, m>>)
      BY <1>1, <1>3, <2>1, AnsweringIs DEF Reach, Of
   <2>3. Made(Of(o))' /\ StateOf(Of(o))' = "succeeded"
      BY <1>1, <2>2 DEF Made, StateOf, RowSet, ActiveStatuses, Of
   <2>4. Chain!To(o.sub, o.no, StateOf(<<o.sub, o.no>>)')
      BY <1>1, <1>3, <1>4, <2>2, <2>3, ChainMoves DEF Of
   <2>5. Chains[o.sub] = [no |-> o.no, state |-> "due"]
      BY <1>1, <2>1, AnswersChain
   <2> QED BY <2>3, <2>4, <2>5 DEF Chain!Acknowledge, Of
<1> QED BY <1>3, <1>5, <1>6 DEF ChainStep, Chain!ChainNext

LEMMA NackChain ==
    ASSUME DeliveryInv, Fits, NEW o \in out, Nack(o)
    PROVE  Fits' /\ ChainStep
<1>1. /\ UNCHANGED <<env, queue, dlq, poller, publisher, faults>>
      /\ o.stage = "out" /\ RowSet(Of(o), "failed")
   BY InvNow, NackIs
<1>2. PICK r \in Out : Goes(o, r) /\ r.sub = o.sub /\ r.no = o.no /\ r.stage \in {"dead", "next"}
   BY InvNow, NackIs DEF Moves
<1>3. Of(o) \in Attempts /\ Of(o)[1] = o.sub /\ o.sub \in Subscribers /\ Holds(o)
   BY <1>1, InvNow, OutParts DEF Holds
<1>4. \A c \in Attempts : row'[c].env = row[c].env /\ (c # Of(o) => row'[c] = row[c])
   BY <1>1 DEF RowSet
<1>5. Matches(r)'
   BY <1>1, <1>2 DEF Matches, Of, RowSet
<1>6. Fits'
   BY <1>1, <1>2, <1>3, <1>4, <1>5, AnswerFits
<1>7. ASSUME Single' PROVE Chain!Fail(o.sub)
   <2>1. Single
      BY <1>1, <1>7 DEF Single
   <2>2. /\ o.no \in Nos /\ dlq[Of(o)] = 0
         /\ \A m \in Nos : m > o.no => ~Made(<<o.sub, m>>)
      BY <1>1, <1>3, <2>1, AnsweringIs DEF Reach, Of
   <2>3. Made(Of(o))' /\ StateOf(Of(o))' = "failed"
      BY <1>1, <2>2 DEF Made, StateOf, RowSet, ActiveStatuses, Of
   <2>4. Chain!To(o.sub, o.no, StateOf(<<o.sub, o.no>>)')
      BY <1>1, <1>3, <1>4, <2>2, <2>3, ChainMoves DEF Of
   <2>5. Chains[o.sub] = [no |-> o.no, state |-> "due"]
      BY <1>1, <2>1, AnswersChain
   <2> QED BY <2>3, <2>4, <2>5 DEF Chain!Fail, Of
<1> QED BY <1>3, <1>6, <1>7 DEF ChainStep, Chain!ChainNext

LEMMA NackUpsertChain ==
    ASSUME DeliveryInv, Fits, NEW o \in out, NackUpsert(o)
    PROVE  Fits' /\ ChainStep
<1>1. /\ UNCHANGED <<env, queue, dlq, poller, publisher, faults>>
      /\ o.stage = "next"
   BY InvNow, NackUpsertIs DEF Rooted
<1>2. PICK a \in Attempts, r \in Out :
         /\ a = <<o.sub, o.no + 1>> /\ a[1] = o.sub /\ a[2] = o.no + 1
         /\ row'[a].status = "pending"
         /\ \A c \in Attempts : c # a => row'[c] = row[c]
         /\ Moves(o, r, "schedule")
   BY InvNow, NackUpsertIs DEF Rooted
<1>3. Goes(o, r) /\ r.sub = o.sub /\ r.no = o.no /\ r.stage = "schedule"
   BY <1>2 DEF Moves
<1>4. /\ o.sub \in Subscribers /\ Holds(o) /\ o.no \in Nos
      /\ o.no < MaxRetry /\ o.no + 1 \in Nos
   BY <1>1, InvNow, OutParts, SuccessorRow DEF Holds
<1>5. Active(a)' /\ Made(a)'
   BY <1>2 DEF Active, ActiveStatuses, Made
<1>6. Fits'
   <2>1. Matches(r)'
      BY <1>2, <1>3, <1>5 DEF Matches
   <2>2. \A c \in Attempts : c[1] # o.sub => row'[c] = row[c]
      BY <1>2
   <2>3. \A c \in Attempts : c[1] = o.sub /\ row'[c].env /\ ~Active(c)' => row[c].env
      <3> SUFFICES ASSUME NEW c \in Attempts, row'[c].env, ~Active(c)' PROVE row[c].env
         OBVIOUS
      <3>1. c # a
         BY <1>5
      <3> QED BY <1>2, <3>1
   <2> QED BY <1>1, <1>3, <1>4, <2>1, <2>2, <2>3, AnswerFits
<1>7. ASSUME Single' PROVE Chain!Retry(o.sub)
   <2>1. Single
      BY <1>1, <1>7 DEF Single
   <2>2. /\ dlq[a] = 0
         /\ \A m \in Nos : m > o.no => ~Made(<<o.sub, m>>)
      BY <1>1, <1>2, <1>4, <2>1, AnsweringIs DEF Reach
   <2>3. \A m \in Nos : m > o.no + 1 => ~Made(<<o.sub, m>>)
      <3>1. Nos \subseteq Nat
         BY DeliveryAssumption DEF Nos, DeliveryAssumption
      <3> DEFINE n == o.no
      <3>2. n \in Nat
         BY <1>4, <3>1
      <3> HIDE DEF n
      <3>3. \A m \in Nos : m > n + 1 => m > n
         BY <3>1, <3>2
      <3> QED BY <2>2, <3>3 DEF n
   <2>4. StateOf(a)' = "due"
      BY <1>1, <1>5, <2>2 DEF StateOf, Active
   <2>5. Chain!To(o.sub, o.no + 1, StateOf(<<o.sub, o.no + 1>>)')
      BY <1>1, <1>2, <1>4, <1>5, <2>3, ChainMoves
   <2>6. Chains[o.sub] = [no |-> o.no, state |-> "failed"]
      BY <1>1, <2>1, AnswersChain
   <2>7. StateOf(<<o.sub, o.no + 1>>)' = StateOf(a)'
      BY <1>2
   <2> QED BY <1>4, <2>4, <2>5, <2>6, <2>7 DEF Chain!Retry
<1> QED BY <1>4, <1>6, <1>7 DEF ChainStep, Chain!ChainNext

LEMMA NackScheduleChain ==
    ASSUME DeliveryInv, Fits, NEW o \in out, NackSchedule(o)
    PROVE  Fits' /\ ChainStep
<1>1. /\ UNCHANGED <<env, row, dlq, poller, publisher, faults>>
      /\ o.stage = "schedule"
   BY InvNow, NackScheduleIs DEF Rooted
<1>2. PICK r \in Out : Moves(o, r, "retry_env")
   BY InvNow, NackScheduleIs DEF Rooted
<1>3. PICK a \in Attempts, j \in Item :
         a = <<o.sub, o.no + 1>> /\ RowOf(j) = a /\ queue' = queue \cup {j}
   BY InvNow, NackScheduleIs DEF Rooted, Queues
<1>4. Goes(o, r) /\ ~Holds(r) /\ Holds(o) /\ o.sub \in Subscribers
   BY <1>1, <1>2, InvNow, OutParts DEF Moves, Holds
<1>5. ASSUME Single'
      PROVE  /\ \A i \in Item : Waits(i)' /\ Live(i)' =>
                    (i.sub # o.sub /\ Waits(i)) \/ Active(RowOf(i))'
             /\ \A q \in out' : Holds(q) => (q.sub # o.sub /\ q \in out) \/ Matches(q)'
   <2>1. Single
      BY <1>1, <1>5 DEF Single
   <2>2. /\ Matches(o)
         /\ \A i \in Item : Waits(i) /\ Live(i) => i.sub # o.sub
         /\ \A q \in out : Holds(q) /\ q # o => q.sub # o.sub
      BY <1>4, <2>1, AnsweringIs
   <2>3. Active(RowOf(j))'
      BY <1>1, <1>3, <2>2 DEF Matches, Active, RowOf
   <2>4. \A i \in Item : Waits(i)' => Waits(i) \/ i = j
      BY <1>1, <1>3 DEF Waits
   <2>5. \A i \in Item : Live(i)' = Live(i)
      BY <1>1 DEF Live, RowOf
   <2>6. \A q \in out' : Holds(q) => q.sub # o.sub /\ q \in out
      BY <1>4, <2>2 DEF Goes
   <2> QED BY <2>2, <2>3, <2>4, <2>5, <2>6
<1>6. Fits'
   <2>1. \A c \in Attempts : c[1] # o.sub => row'[c] = row[c]
      BY <1>1
   <2> QED BY <1>1, <1>4, <1>5, <2>1, InvNow, FitsKept
<1> QED BY <1>1, <1>6, ChainsStand DEF ChainStep

LEMMA PushToDLQChain ==
    ASSUME DeliveryInv, Fits, NEW o \in out, PushToDLQ(o)
    PROVE  Fits' /\ ChainStep
<1>1. /\ UNCHANGED <<env, row, queue, poller, publisher, faults>>
      /\ o.stage = "dead" /\ Buries(Of(o))
   BY InvNow, PushToDLQIs
<1>2. PICK r \in Out : Moves(o, r, "fail_env")
   BY InvNow, PushToDLQIs
<1>3. Goes(o, r) /\ ~Holds(r) /\ Holds(o)
   BY <1>1, <1>2 DEF Moves, Holds
<1>4. /\ Of(o) \in Attempts /\ o.sub \in Subscribers /\ o.no \in Nos
      /\ o.no = MaxRetry
   BY <1>1, InvNow, OutParts DEF Rooted, OutsRooted
<1>5. Fits'
   <2>1. row' = row /\ \A i \in Item : Waits(i)' => Waits(i)
      BY <1>1 DEF Waits
   <2>2. \A q \in out' : q \in out \/ ~Holds(q)
      BY <1>3 DEF Goes
   <2> QED BY <1>1, <2>1, <2>2, FitsQuiet
<1>6. ASSUME Single' PROVE Chain!Bury(o.sub)
   <2>1. Single
      BY <1>1, <1>6 DEF Single
   <2>2. /\ Matches(o) /\ dlq[Of(o)] = 0
         /\ \A m \in Nos : m > o.no => ~Made(<<o.sub, m>>)
      BY <1>1, <1>3, <1>4, <2>1, AnsweringIs DEF Reach, Of
   <2>3. Made(Of(o))' /\ StateOf(Of(o))' = "dead"
      BY <1>1, <2>2 DEF Made, StateOf, Buries, Matches
   <2>4. \A c \in Attempts : c # Of(o) => row'[c] = row[c] /\ dlq'[c] = dlq[c]
      BY <1>1 DEF Buries
   <2>5. Chain!To(o.sub, o.no, StateOf(<<o.sub, o.no>>)')
      BY <1>4, <2>2, <2>3, <2>4, ChainMoves DEF Of
   <2>6. Chains[o.sub] = [no |-> o.no, state |-> "failed"]
      BY <1>1, <2>1, AnswersChain
   <2> QED BY <1>4, <2>3, <2>5, <2>6 DEF Chain!Bury, Of
<1> QED BY <1>4, <1>5, <1>6 DEF ChainStep, Chain!ChainNext

\* The steps of an answer that write the envelope only, and silence.
LEMMA QuietAnswerChain ==
    ASSUME DeliveryInv, Fits, NEW o \in out,
           CountActiveAttempts(o) \/ AckEnvelope(o) \/ NackEnvelope(o) \/ Silent(o)
    PROVE  Fits' /\ ChainStep
<1>1. /\ UNCHANGED <<row, queue, dlq, poller>> /\ faults \subseteq faults'
      /\ Leaves(o) \/ \E r \in Out : Moves(o, r, "ack_env")
   BY InvNow, CountActiveAttemptsIs, AckEnvelopeIs, NackEnvelopeIs, SilentIs
<1>2. \A q \in out' : q \in out \/ ~Holds(q)
   BY <1>1 DEF Leaves, Moves, Goes, Holds
<1>3. \A i \in Item : Waits(i)' => Waits(i)
   BY <1>1 DEF Waits
<1> QED BY <1>1, <1>2, <1>3, QuietChain

LEMMA LeaseChain ==
    ASSUME DeliveryInv, Fits, LeaseStep \/ UNCHANGED vars
    PROVE  Fits' /\ ChainStep
<1>1. UNCHANGED <<row, queue, dlq, poller, out, faults>>
   BY InvNow, LeaseIs DEF vars
<1>2. \A i \in Item : Waits(i)' => Waits(i)
   BY <1>1 DEF Waits
<1> QED BY <1>1, <1>2, QuietChain

LEMMA NextChain ==
    ASSUME DeliveryInv, Fits, [Next]_vars
    PROVE  Fits' /\ ChainStep
<1>1. ASSUME NEW b \in Publishers, PublishEnvelope(b) \/ \E s \in Subscribers : PublishAttempt(b, s)
      PROVE  Fits' /\ ChainStep
   BY <1>1, PublishEnvelopeChain, PublishAttemptChain
<1>2. ASSUME NEW p \in Pollers, PollStep(p) PROVE Fits' /\ ChainStep
   <2>1. CASE (\E batch \in SUBSET queue : PopRange(p, batch)) \/ PopRemove(p)
      BY <2>1, PopRangeChain, PopRemoveChain
   <2>2. ASSUME NEW i \in poller[p].batch,
                \/ PollSkip(p, i) \/ PollReschedule(p, i) \/ PollDeliver(p, i)
                \/ PollOtherTopic(p, i) \/ PollIncompatible(p, i)
         PROVE  Fits' /\ ChainStep
      BY <2>2, PollSkipChain, PollRescheduleChain, PollDeliverChain, PollOtherTopicChain,
         PollIncompatibleChain
   <2>3. CASE PollRevert(p) \/ PollRelease(p)
      BY <2>3, PollRevertChain, PollReleaseChain
   <2> QED BY <1>2, <2>1, <2>2, <2>3 DEF PollStep
<1>3. ASSUME NEW o \in out, AnswerStep(o) \/ Silent(o) PROVE Fits' /\ ChainStep
   <2>1. CASE CountActiveAttempts(o) \/ AckEnvelope(o) \/ NackEnvelope(o) \/ Silent(o)
      BY <2>1, QuietAnswerChain
   <2>2. CASE Ack(o) \/ Nack(o) \/ NackUpsert(o)
      BY <2>2, AckChain, NackChain, NackUpsertChain
   <2>3. CASE NackSchedule(o) \/ PushToDLQ(o)
      BY <2>3, NackScheduleChain, PushToDLQChain
   <2> QED BY <1>3, <2>1, <2>2, <2>3 DEF AnswerStep
<1>4. CASE LeaseStep \/ UNCHANGED vars
   BY <1>4, LeaseChain
<1>5. ASSUME NEW p \in Pollers, PollFails(p) \/ \E i \in poller[p].batch : PollLoses(p, i)
      PROVE  Fits' /\ ChainStep
   BY <1>5, PollErrorChain
<1> QED BY <1>1, <1>2, <1>3, <1>4, <1>5 DEF Next

LEMMA InitChain ==
    ASSUME Init
    PROVE  Fits /\ Chain!ChainInit
<1>1. /\ queue = {} /\ out = {}
      /\ \A a \in Attempts : row[a].status = "none"
      /\ \A p \in Pollers : poller[p].batch = {}
   BY DEF Init, Idle
<1>2. Fits
   BY <1>1 DEF Fits, Waits
<1>3. ASSUME NEW s \in Subscribers PROVE ChainOf(s) = Chain!NoChain
   <2>1. \A n \in Nos : ~Made(<<s, n>>)
      BY <1>1, AttemptPair DEF Made
   <2> QED BY <2>1, ChainStarts
<1> QED BY <1>2, <1>3 DEF Chains, Chain!ChainInit

-----------------------------------------------------------------------------
\* Publish, PollRetry, Ack, Nack and handleVersionIncompatible: as long as the
\* event is published once, no two pollers read the same range and no answer is
\* overtaken by the late write of "pending", every subscriber sees a chain of at most max_retry attempts, each begun after the
\* failure of the one before, that ends once, acknowledged or in the dead letters;
\* for any number of subscribers, streams and retries, whoever falls silent,
\* whichever poll fails and whenever the lease keys expire.
THEOREM DeliveryKeepsChain == Spec => KeepsChain
<1>1. Init => Fits /\ Chain!ChainInit
   BY InitChain
<1>2. DeliveryInv /\ Fits /\ [Next]_vars => Fits'
   BY NextChain
<1>3. DeliveryInv /\ Fits /\ [Next]_vars
         => [faults' \subseteq {"silence", "error"} => Chain!ChainNext]_Chains
   BY NextChain DEF ChainStep, Single
<1> QED BY <1>1, <1>2, <1>3, Invariance, PTL DEF Spec, KeepsChain
=============================================================================
