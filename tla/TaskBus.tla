------------------------------ MODULE TaskBus -------------------------------
(***************************************************************************)
(* The Redis Stream TaskBus of one tenant and subscriber                   *)
(* (backend/pkg/event_bus: redis_stream_task_driver.go, redis_lease.go),   *)
(* restricted to the messages of one run.  Each operation below is one     *)
(* Redis command or Lua script, hence one action.  A delivery is the       *)
(* triple <<message, stream ID, lease token>> a consumer keeps; the lease  *)
(* value "owner:token" is represented by its token, which INCR never hands *)
(* out twice.                                                              *)
(*                                                                         *)
(* Where a message is:                                                     *)
(*   none     never enqueued              stream   added, not yet read     *)
(*   pending  in the group's PEL          delay    in the delay set        *)
(*   acked    removed; the dedupe key still refuses it                     *)
(***************************************************************************)
EXTENDS Naturals

CONSTANTS Messages,  \* stable message IDs of the run
          MaxToken   \* bound: lease tokens INCR hands out per message

VARIABLE bus

Places == {"none", "stream", "pending", "delay", "acked"}

\* sid: the stream ID of the current entry (a re-added message gets another).
\* idle: the PEL entry was idle for leaseTTL.  lease: the lease key, 0 = none.
\* token: the counter key.
BusTypeOK ==
    bus \in [Messages -> [place : Places, sid : Nat, idle : BOOLEAN,
                          lease : 0..MaxToken, token : 0..MaxToken]]

BusInit ==
    bus = [m \in Messages |-> [place |-> "none", sid |-> 0, idle |-> FALSE,
                               lease |-> 0, token |-> 0]]

\* XADD: a new entry with a new ID.
Added(e) == [e EXCEPT !.place = "stream", !.sid = @ + 1, !.idle = FALSE]

\* Enqueue: the dedupe key and the entry are written together.
Enqueue(m) ==
    bus' = IF bus[m].place = "none" THEN [bus EXCEPT ![m] = Added(@)] ELSE bus

\* PromoteDue: Dequeue moves what is due from the delay set to the stream.
PromoteDue(m) ==
    /\ bus[m].place = "delay"
    /\ bus' = [bus EXCEPT ![m] = Added(@)]

\* Mutant: only new entries are read, nothing is reclaimed.
Claimable_Never(m) == FALSE

\* XAUTOCLAIM of an idle pending entry, otherwise XREADGROUP of a new one;
\* then the first half of Acquire, the INCR of the token.
Claimable(m) == bus[m].place = "pending" /\ bus[m].idle
Readable(m) == bus[m].place = "stream" /\ \A n \in Messages : ~Claimable(n)

Dequeue(m) ==
    /\ Claimable(m) \/ Readable(m)
    /\ bus[m].token < MaxToken
    /\ bus' = [bus EXCEPT ![m].place = "pending", ![m].idle = FALSE,
                          ![m].token = @ + 1]

\* The second half of Acquire, SET NX: a caller that loses it has no lease.
SetLease(m, k) ==
    /\ bus[m].lease = 0
    /\ bus' = [bus EXCEPT ![m].lease = k]

\* The check every script makes: the lease value is still the delivery's and
\* its entry is in the PEL.
HoldsDelivery(m, i, k) ==
    bus[m].lease = k /\ bus[m].place = "pending" /\ bus[m].sid = i

Ack(m, i, k) ==
    /\ HoldsDelivery(m, i, k)
    /\ bus' = [bus EXCEPT ![m].place = "acked", ![m].lease = 0]

\* Defer: back to the delay set, without an attempt.
Defer(m, i, k) ==
    /\ HoldsDelivery(m, i, k)
    /\ bus' = [bus EXCEPT ![m].place = "delay", ![m].lease = 0]

\* Time: the lease key expires, the PEL entry becomes idle.
LeaseExpires(m) ==
    /\ bus[m].lease # 0
    /\ bus' = [bus EXCEPT ![m].lease = 0]

EntryIdles(m) ==
    /\ bus[m].place = "pending" /\ ~bus[m].idle
    /\ bus' = [bus EXCEPT ![m].idle = TRUE]
=============================================================================
