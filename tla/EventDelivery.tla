---------------------------- MODULE EventDelivery ----------------------------
(***************************************************************************)
(* Delivery of one event of the Event Fabric to its subscribers: Publish,  *)
(* PollRetry with the Redis retry set and the delivery leases, Ack, Nack   *)
(* and the dead letters.                                                   *)
(*                                                                         *)
(* The SQL upserts are ON CONFLICT DO UPDATE: on a conflict the row keeps  *)
(* its UUID while the struct in memory has a new one.  Such a UUID is in   *)
(* no row ("known" is FALSE).  Every delivery is due at once; backoff only *)
(* delays.  MaxConcurrent of a delivery lease is 1 in every caller.        *)
(*                                                                         *)
(* Faults are a second Publish of the event ID ("republish"), a batch that *)
(* two pollers read ("race"), a subscriber that never answers ("silence"), *)
(* a poll that fails or dies ("error"), and a late write of "pending" over *)
(* an answer ("overtaken").  faults names those that happened, so that a   *)
(* property can say which of them it survives.  A delivery is answered     *)
(* once, and Publish, Ack and Nack do not fail between two of their writes.*)
(***************************************************************************)
EXTENDS Integers, FiniteSets, FiniteSetsExt

CONSTANTS Subscribers, Pollers, Publishers,
          Setups,        \* subscriptions and streams, see SetupOK
          MaxRetry       \* max_retry of the envelope

Nos == 1..MaxRetry
Attempts == Subscribers \X Nos

\* subs: subscribers of the topic.  filter: the subscriber of a polling stream,
\* "any" for the retry worker.  accepts: what a stream's topics and versions make
\* of the event.  kinds: what may go wrong, each kind once and maxFaults in all
\* ("overtaken" is not chosen but follows, and is not bounded).
SetupOK(u) ==
    /\ u.subs \subseteq Subscribers
    /\ u.filter \in [Pollers -> Subscribers \cup {"any"}]
    /\ u.maxFaults \in Nat /\ u.kinds \subseteq {"republish", "race", "silence", "error"}
    /\ u.accepts \in [Pollers -> {"event", "other_topic", "other_version"}]
    /\ \A p \in Pollers : u.filter[p] = "any" => u.accepts[p] = "event"

ASSUME DeliveryAssumption ==
    /\ MaxRetry \in Nat \ {0} /\ IsFiniteSet(Pollers)
    /\ \A u \in Setups : SetupOK(u)

VARIABLES setup,     \* the subscriptions and streams of this deployment
          env,       \* status of the EventEnvelope row, "none" if there is none
          row,       \* DeliveryAttempt rows: status, and whether their envelope_uuid is known
          queue,     \* members of event:retry
          instance,  \* lease instance keys: "none", "held", or "extended" by a second taker
          counter,   \* lease counter per subscriber
          dlq,       \* attempts with a DlqMessage, and how many
          poller, publisher,
          out,       \* deliveries handed to a subscriber, and where their answer is
          faults

vars == <<setup, env, row, queue, instance, counter, dlq, poller, publisher, out, faults>>

Statuses == {"none", "pending", "delivering", "succeeded", "failed"}
ActiveStatuses == {"pending", "delivering"}
\* A RetryItem.  known: the attempt_uuid of its metadata is that of the row.
Item == [id : Nat, sub : Subscribers, no : Nos, known : BOOLEAN, env : BOOLEAN]
Stages == {"out", "count", "ack_env", "next", "schedule", "retry_env", "dead", "fail_env"}
Out == [id : Nat, sub : Subscribers, no : Nos, stage : Stages, active : BOOLEAN, known : BOOLEAN,
        worker : BOOLEAN]

DeliveryTypeOK ==
    /\ env \in Statuses
    /\ row \in [Attempts -> [status : Statuses, env : BOOLEAN]]
    /\ queue \subseteq Item /\ out \subseteq Out
    /\ instance \in [Attempts -> {"none", "held", "extended"}]
    /\ counter \in [Subscribers -> 0..1]
    /\ dlq \in [Attempts -> Nat]
    /\ poller \in [Pollers -> [pc : {"idle", "range", "batch", "revert", "release"},
                              batch : SUBSET Item, at : SUBSET Attempts]]
    /\ publisher \in [Publishers -> [todo : SUBSET Subscribers, known : BOOLEAN]]
    /\ faults \subseteq {"republish", "race", "silence", "error", "overtaken"} /\ setup \in Setups

Idle == [pc |-> "idle", batch |-> {}, at |-> {}]

Init ==
    /\ env = "none" /\ row = [a \in Attempts |-> [status |-> "none", env |-> FALSE]]
    /\ setup \in Setups /\ queue = {} /\ out = {} /\ faults = {}
    /\ instance = [a \in Attempts |-> "none"] /\ counter = [s \in Subscribers |-> 0]
    /\ dlq = [a \in Attempts |-> 0]
    /\ poller = [p \in Pollers |-> Idle]
    /\ publisher = [b \in Publishers |-> [todo |-> {}, known |-> FALSE]]

-----------------------------------------------------------------------------
Fault(kind) ==
    /\ kind \in setup.kinds \ faults /\ Cardinality(faults) < setup.maxFaults
    /\ faults' = faults \cup {kind}

\* Members differ by their time and jitter; a fresh number tells them apart.
Ids == {i.id : i \in queue} \cup {o.id : o \in out}
       \cup (UNION {{i.id : i \in poller[p].batch} : p \in Pollers})
FreshId == Min(0..Cardinality(Ids) \ Ids)
ItemOf(a, known, e) == [id |-> FreshId, sub |-> a[1], no |-> a[2], known |-> known, env |-> e]
Schedule(a, known, e) == queue' = queue \cup {ItemOf(a, known, e)}

\* UpsertAttempt: whether the UUID in hand afterwards is that of the row.
Inserted(a) == row[a].status = "none"
UpsertAttempt(a, e) ==
    row' = [row EXCEPT ![a] = [status |-> "pending", env |-> IF Inserted(a) THEN e ELSE @.env]]
SetRow(a, status) == row' = [row EXCEPT ![a].status = status]

\* Mutant: counts the lease that is being taken against the maximum.
Granted_OffByOne(a) == instance[a] # "none" \/ counter[a[1]] + 1 < 1

\* AcquireLease: the key of the attempt, then the counter of its subscriber.
\* A taker of a lease that is held extends it and is granted.
Granted(a) == instance[a] # "none" \/ counter[a[1]] < 1
AcquireLease(a) ==
    \/ /\ instance[a] # "none"
       /\ instance' = [instance EXCEPT ![a] = "extended"] /\ UNCHANGED counter
    \/ /\ instance[a] = "none" /\ counter[a[1]] < 1
       /\ instance' = [instance EXCEPT ![a] = "held"]
       /\ counter' = [counter EXCEPT ![a[1]] = @ + 1]

\* Mutant: the counter is not deleted when it is used up.
ReleaseLease_NoFloor(a) ==
    /\ instance' = [instance EXCEPT ![a] = "none"]
    /\ counter' = IF instance[a] = "none" THEN counter ELSE [counter EXCEPT ![a[1]] = @ - 1]

ReleaseLease(a) ==
    /\ instance' = [instance EXCEPT ![a] = "none"]
    /\ counter' = IF instance[a] = "none" THEN counter
                  ELSE [counter EXCEPT ![a[1]] = IF @ - 1 <= 0 THEN 0 ELSE @ - 1]

\* The keys expire on their own.  The counter got its TTL with the first lease
\* and is not extended with it.
LeaseExpires(a) ==
    /\ instance[a] # "none"
    /\ instance' = [instance EXCEPT ![a] = "none"]
    /\ UNCHANGED <<env, row, queue, counter, dlq, poller, publisher, out, setup, faults>>

CounterExpires(s) ==
    /\ counter[s] # 0 /\ \A n \in Nos : instance[<<s, n>>] # "held"
    /\ counter' = [counter EXCEPT ![s] = 0]
    /\ UNCHANGED <<env, row, queue, instance, dlq, poller, publisher, out, setup, faults>>

-----------------------------------------------------------------------------
(* Publish: the envelope, then an attempt and a queue item per subscriber. *)
PublishEnvelope(b) ==
    /\ publisher[b].todo = {}
    /\ IF env = "none" THEN UNCHANGED faults ELSE Fault("republish")
    /\ env' = "pending"
    /\ publisher' = [publisher EXCEPT ![b] = [todo |-> setup.subs, known |-> env = "none"]]
    /\ UNCHANGED <<row, queue, instance, counter, dlq, poller, out, setup>>

PublishAttempt(b, s) ==
    /\ s \in publisher[b].todo
    /\ UpsertAttempt(<<s, 1>>, publisher[b].known)
    /\ Schedule(<<s, 1>>, Inserted(<<s, 1>>), publisher[b].known)
    /\ publisher' = [publisher EXCEPT ![b].todo = @ \ {s}]
    /\ UNCHANGED <<env, instance, counter, dlq, poller, out, setup, faults>>

-----------------------------------------------------------------------------
(* PollRetry.  PopDueRetries reads a range and removes it with a second    *)
(* command; the batch is then worked through.                              *)
InBatches == UNION {poller[p].batch : p \in Pollers}
PopRange(p, batch) ==
    /\ poller[p].pc = "idle" /\ batch # {}
    /\ IF batch \cap InBatches = {} THEN UNCHANGED faults ELSE Fault("race")
    /\ poller' = [poller EXCEPT ![p] = [pc |-> "range", batch |-> batch, at |-> {}]]
    /\ UNCHANGED <<env, row, queue, instance, counter, dlq, publisher, out, setup>>

PopRemove(p) ==
    /\ poller[p].pc = "range"
    /\ queue' = queue \ poller[p].batch
    /\ poller' = [poller EXCEPT ![p].pc = "batch"]
    /\ UNCHANGED <<env, row, instance, counter, dlq, publisher, out, setup, faults>>

\* The attempt an item leads to: its own row, or the newest one of the envelope
\* and the subscriber (the fallback lookup is on wherever there is a Redis).
Found(i) ==
    LET newest == {n \in Nos : row[<<i.sub, n>>].status # "none" /\ row[<<i.sub, n>>].env} IN
    IF i.known THEN {<<i.sub, i.no>>}
    ELSE IF i.env /\ newest # {} THEN {<<i.sub, Max(newest)>>} ELSE {}

\* Where the poller goes on with the rest of its batch.
Continue(p, batch) ==
    poller' = [poller EXCEPT ![p] = IF batch = {} THEN Idle
                                    ELSE [pc |-> "batch", batch |-> batch, at |-> {}]]
Rest(p, i) == Continue(p, poller[p].batch \ {i})

\* No attempt or no envelope: the item is dropped.
PollSkip(p, i) ==
    /\ poller[p].pc = "batch" /\ i \in poller[p].batch
    /\ \A a \in Found(i) : ~row[a].env
    /\ Rest(p, i)
    /\ UNCHANGED <<env, row, queue, instance, counter, dlq, publisher, out, setup, faults>>

\* Mutant: what the filter or the lease refuses is dropped.
PollReschedule_Drops(p, i) ==
    /\ poller[p].pc = "batch" /\ i \in poller[p].batch
    /\ \E a \in Found(i) : row[a].env /\ (setup.filter[p] \notin {"any", a[1]} \/ ~Granted(a))
    /\ Rest(p, i)
    /\ UNCHANGED <<env, row, queue, instance, counter, dlq, publisher, out, setup, faults>>

\* Of another subscriber, or no lease: back into the queue.
PollReschedule(p, i) ==
    /\ poller[p].pc = "batch" /\ i \in poller[p].batch
    /\ \E a \in Found(i) :
         /\ row[a].env /\ (setup.filter[p] \notin {"any", a[1]} \/ ~Granted(a))
         /\ Schedule(a, TRUE, TRUE)
    /\ Rest(p, i)
    /\ UNCHANGED <<env, row, instance, counter, dlq, publisher, out, setup, faults>>

\* The lease is granted: by then the row says "delivering".
Leased(p, i, a) ==
    /\ poller[p].pc = "batch" /\ i \in poller[p].batch
    /\ row[a].env /\ setup.filter[p] \in {"any", a[1]} /\ Granted(a)

PollDeliver(p, i) ==
    /\ setup.accepts[p] = "event"
    /\ \E a \in Found(i) :
         /\ Leased(p, i, a) /\ AcquireLease(a) /\ SetRow(a, "delivering")
         /\ out' = out \cup {[id |-> FreshId, sub |-> a[1], no |-> a[2], stage |-> "out",
                              active |-> FALSE, known |-> TRUE, worker |-> setup.filter[p] = "any"]}
    /\ Rest(p, i)
    /\ UNCHANGED <<env, queue, dlq, publisher, setup, faults>>

\* Not a topic of the stream: rescheduled, and due at once.  (Until then the
\* item was in this batch only.)
PollOtherTopic(p, i) ==
    /\ setup.accepts[p] = "other_topic"
    /\ \E a \in Found(i) :
         /\ Leased(p, i, a) /\ AcquireLease(a) /\ SetRow(a, "delivering")
         /\ Schedule(a, TRUE, TRUE)
         /\ poller' = [poller EXCEPT ![p] = [pc |-> "revert", batch |-> @.batch \ {i}, at |-> {a}]]
    /\ UNCHANGED <<env, dlq, publisher, out, setup, faults>>

\* Then the row is pending again, whatever another stream made of the item.
PollRevert(p) ==
    /\ poller[p].pc = "revert"
    /\ \E a \in poller[p].at :
         /\ SetRow(a, "pending")
         /\ faults' = IF row[a].status \in ActiveStatuses THEN faults ELSE faults \cup {"overtaken"}
    /\ poller' = [poller EXCEPT ![p].pc = "release"]
    /\ UNCHANGED <<env, queue, instance, counter, dlq, publisher, out, setup>>

\* Last, the lease is returned, whoever extended it.
PollRelease(p) ==
    /\ poller[p].pc = "release"
    /\ \E a \in poller[p].at : ReleaseLease(a)
    /\ Continue(p, poller[p].batch)
    /\ UNCHANGED <<env, row, queue, dlq, publisher, out, setup, faults>>

\* Taking the lease and giving it back.
LeaseBriefly(a) == IF instance[a] = "none" THEN UNCHANGED <<instance, counter>> ELSE ReleaseLease(a)

\* handleVersionIncompatible: nothing else leads to the attempt meanwhile.
PollIncompatible(p, i) ==
    /\ setup.accepts[p] = "other_version"
    /\ \E a \in Found(i) :
         /\ Leased(p, i, a) /\ LeaseBriefly(a)
         /\ SetRow(a, "failed") /\ env' = "failed"
         /\ dlq' = [dlq EXCEPT ![a] = @ + 1]
    /\ Rest(p, i)
    /\ UNCHANGED <<queue, publisher, out, setup, faults>>

\* The look-up of the attempt or of the envelope fails, or the item cannot be
\* rescheduled: PollRetry drops it and goes on.
PollLoses(p, i) ==
    /\ poller[p].pc = "batch" /\ i \in poller[p].batch /\ Fault("error")
    /\ Rest(p, i)
    /\ UNCHANGED <<env, row, queue, instance, counter, dlq, publisher, out, setup>>

\* PollRetry returns an error, or the process dies: what is left of the batch is
\* in no queue, and what the call was to return is delivered to nobody.  It may
\* have the lease of an attempt by then.
PollFails(p) ==
    /\ poller[p].pc # "idle" /\ Fault("error")
    /\ poller' = [poller EXCEPT ![p] = Idle]
    /\ \E lost \in SUBSET {o \in out : o.stage = "out"} : out' = out \ lost
    /\ \/ UNCHANGED <<instance, counter>>
       \/ poller[p].pc = "batch" /\ \E i \in poller[p].batch : \E a \in Found(i) : AcquireLease(a)
    /\ UNCHANGED <<env, row, queue, dlq, publisher, setup>>

-----------------------------------------------------------------------------
(* Answers.  Neither Ack nor Nack looks at the status of the attempt.  The *)
(* retry worker acknowledges what it handed to the bus.                    *)
Of(o) == <<o.sub, o.no>>
Move(o, stage) == out' = (out \ {o}) \cup {[o EXCEPT !.stage = stage]}
Answered(o) == out' = out \ {o}

Ack(o) ==
    /\ o.stage = "out" /\ SetRow(Of(o), "succeeded") /\ Move(o, "count")
    /\ UNCHANGED <<env, queue, instance, counter, dlq, poller, publisher, setup, faults>>

CountActiveAttempts(o) ==
    /\ o.stage = "count"
    /\ LET active == \E a \in Attempts : row[a].env /\ row[a].status \in ActiveStatuses
       IN  out' = (out \ {o}) \cup {[o EXCEPT !.stage = "ack_env", !.active = active]}
    /\ UNCHANGED <<env, row, queue, instance, counter, dlq, poller, publisher, setup, faults>>

AckEnvelope(o) ==
    /\ o.stage = "ack_env"
    /\ env' = IF o.active THEN "delivering" ELSE "succeeded"
    /\ ReleaseLease(Of(o)) /\ Answered(o)
    /\ UNCHANGED <<row, queue, dlq, poller, publisher, setup, faults>>

\* Mutant: one retry more than the envelope allows is dead.
Nack_OffByOne(o) ==
    /\ o.stage = "out" /\ ~o.worker /\ SetRow(Of(o), "failed") /\ ReleaseLease(Of(o))
    /\ Move(o, IF o.no >= MaxRetry THEN "fail_env" ELSE "next")
    /\ UNCHANGED <<env, queue, dlq, poller, publisher, setup, faults>>

Nack(o) ==
    /\ o.stage = "out" /\ ~o.worker /\ SetRow(Of(o), "failed") /\ ReleaseLease(Of(o))
    /\ Move(o, IF o.no + 1 > MaxRetry THEN "dead" ELSE "next")
    /\ UNCHANGED <<env, queue, dlq, poller, publisher, setup, faults>>

\* Mutant: the retry does not count.
NackUpsert_SameNo(o) ==
    /\ o.stage = "next" /\ UpsertAttempt(Of(o), TRUE)
    /\ out' = (out \ {o}) \cup {[o EXCEPT !.stage = "schedule", !.known = Inserted(Of(o))]}
    /\ UNCHANGED <<env, queue, instance, counter, dlq, poller, publisher, setup, faults>>

NackUpsert(o) ==
    LET next == <<o.sub, o.no + 1>> IN
    /\ o.stage = "next" /\ UpsertAttempt(next, TRUE)
    /\ out' = (out \ {o}) \cup {[o EXCEPT !.stage = "schedule", !.known = Inserted(next)]}
    /\ UNCHANGED <<env, queue, instance, counter, dlq, poller, publisher, setup, faults>>

NackSchedule(o) ==
    /\ o.stage = "schedule" /\ Schedule(<<o.sub, o.no + 1>>, o.known, TRUE) /\ Move(o, "retry_env")
    /\ UNCHANGED <<env, row, instance, counter, dlq, poller, publisher, setup, faults>>

PushToDLQ(o) ==
    /\ o.stage = "dead" /\ dlq' = [dlq EXCEPT ![Of(o)] = @ + 1] /\ Move(o, "fail_env")
    /\ UNCHANGED <<env, row, queue, instance, counter, poller, publisher, setup, faults>>

NackEnvelope(o) ==
    /\ o.stage \in {"retry_env", "fail_env"}
    /\ env' = IF o.stage = "retry_env" THEN "pending" ELSE "failed"
    /\ Answered(o)
    /\ UNCHANGED <<row, queue, instance, counter, dlq, poller, publisher, setup, faults>>

\* The subscriber never answers: its stream broke, or it died.
Silent(o) ==
    /\ o.stage = "out" /\ Fault("silence")
    /\ Answered(o)
    /\ UNCHANGED <<env, row, queue, instance, counter, dlq, poller, publisher, setup>>

-----------------------------------------------------------------------------
PollStep(p) ==
    \/ (\E batch \in SUBSET queue : PopRange(p, batch)) \/ PopRemove(p)
    \/ PollRevert(p) \/ PollRelease(p)
    \/ \E i \in poller[p].batch : PollSkip(p, i) \/ PollReschedule(p, i) \/ PollDeliver(p, i)
                                  \/ PollOtherTopic(p, i) \/ PollIncompatible(p, i)
AnswerStep(o) ==
    \/ Ack(o) \/ CountActiveAttempts(o) \/ AckEnvelope(o)
    \/ Nack(o) \/ NackUpsert(o) \/ NackSchedule(o) \/ PushToDLQ(o) \/ NackEnvelope(o)
LeaseStep == (\E a \in Attempts : LeaseExpires(a)) \/ \E s \in Subscribers : CounterExpires(s)

Next ==
    \/ \E b \in Publishers : PublishEnvelope(b) \/ \E s \in Subscribers : PublishAttempt(b, s)
    \/ \E p \in Pollers : PollStep(p) \/ PollFails(p) \/ \E i \in poller[p].batch : PollLoses(p, i)
    \/ \E o \in out : AnswerStep(o) \/ Silent(o)
    \/ LeaseStep

Spec == Init /\ [][Next]_vars
\* Publishers, streams and handlers go on, keys expire, and every delay ends: a
\* poller sees the whole queue due again and again.  A stream stalls between two
\* commands for longer than a lease (the ack timeout) only finitely often.
Outlasted == \E p \in Pollers : \E a \in poller[p].at : LeaseExpires(a)
FairSpec ==
    /\ Spec /\ \A a \in Attempts : WF_vars(LeaseExpires(a))
    /\ \A s \in Subscribers : WF_vars(CounterExpires(s))
    /\ <>[][~Outlasted]_vars
    /\ \A p \in Pollers : SF_vars(PopRange(p, queue))
    /\ \A b \in Publishers : WF_vars(\E s \in Subscribers : PublishAttempt(b, s))
    /\ \A p \in Pollers : WF_vars(PollStep(p))
    /\ WF_vars(\E o \in out : AnswerStep(o))

-----------------------------------------------------------------------------
InHand(a) == \E p \in Pollers : \E i \in poller[p].batch : a \in Found(i)
Queued(a) == \E i \in queue : a \in Found(i)
Handled(a) == \E o \in out : Of(o) = a
             \/ (o.stage = "schedule" /\ <<o.sub, o.no + 1>> = a)

\* No later attempt of the event has been made for its subscriber.
Newest(a) == \A n \in Nos : n > a[2] => row[<<a[1], n>>].status = "none"

\* PollRetry, Nack: an attempt that still has to be delivered is in the queue,
\* in a batch, with its subscriber or with the handler that schedules it.  When
\* two pollers have read the same range this holds of the newest attempt: the
\* second answer to an older one resets its successor, which nothing delivers any
\* more once it was followed itself.  (An attempt is forgotten once a subscriber
\* does not answer, a poll fails, a late write makes an answered attempt pending,
\* and after a second Publish.)
NothingForgotten ==
    faults \subseteq {"race"} =>
    \A a \in Attempts :
        row[a].status \in ActiveStatuses /\ (faults = {} \/ Newest(a)) =>
            InHand(a) \/ Queued(a) \/ Handled(a)

\* Nack: when the retries are used up the event is in the dead letters once, and
\* an attempt that was followed by another is not; also when the event is
\* published again, a subscriber falls silent, a poll fails or an answered attempt
\* is made pending.
ExhaustedIsDeadLettered ==
    "race" \notin faults =>
    \A a \in Attempts :
        /\ dlq[a] <= 1
        /\ row[a].status = "failed" /\ a[2] = MaxRetry /\ ~Handled(a) => dlq[a] = 1
        /\ dlq[a] = 1 /\ a[2] < MaxRetry => row[<<a[1], a[2] + 1>>].status = "none"

\* Unless one of the faults happens, every subscriber's chain ends in an
\* acknowledgement or a dead letter.
Settled(s) == \E n \in Nos : row[<<s, n>>].status = "succeeded" \/ dlq[<<s, n>>] > 0
EventuallySettled == (env # "none") ~> faults # {} \/ \A s \in setup.subs : Settled(s)

\* The chain of attempts RetryChain speaks of: the newest attempt of a subscriber
\* and where it stands.
StateOf(a) == IF dlq[a] # 0 THEN "dead"
              ELSE IF row[a].status \in ActiveStatuses THEN "due" ELSE row[a].status
ChainOf(s) ==
    LET made == {n \in Nos : row[<<s, n>>].status # "none"} IN
    IF made = {} THEN [no |-> 0, state |-> "none"]
    ELSE [no |-> Max(made), state |-> StateOf(<<s, Max(made)>>)]
Chains == [s \in Subscribers |-> ChainOf(s)]
Chain == INSTANCE RetryChain WITH chain <- Chains

\* Publish, PollRetry, Ack, Nack: a delivery implements RetryChain as long as the
\* event is published once, no two pollers read the same range and no late write
\* of "pending" meets an answered attempt, whatever falls silent, whichever poll
\* fails and whenever the lease keys expire.
KeepsChain ==
    /\ Chain!ChainInit
    /\ [][faults' \subseteq {"silence", "error"} => Chain!ChainNext]_Chains
=============================================================================
