----------------------------- MODULE RetryChain ------------------------------
(***************************************************************************)
(* What the Event Fabric promises of one event, without queues, leases,    *)
(* pollers or envelopes: each subscriber has one chain of attempts.  The   *)
(* next attempt begins only when the newest one has failed, there are at   *)
(* most MaxRetry of them, and the chain ends once, acknowledged or in the  *)
(* dead letters.                                                           *)
(***************************************************************************)
EXTENDS Naturals

CONSTANTS Subscribers, MaxRetry

VARIABLE chain      \* of each subscriber: its newest attempt and where that stands

NoChain == [no |-> 0, state |-> "none"]
ChainInit == chain = [s \in Subscribers |-> NoChain]

To(s, no, state) == chain' = [chain EXCEPT ![s] = [no |-> no, state |-> state]]

Begin(s) == chain[s] = NoChain /\ To(s, 1, "due")
Acknowledge(s) == chain[s].state = "due" /\ To(s, chain[s].no, "succeeded")
Fail(s) == chain[s].state = "due" /\ To(s, chain[s].no, "failed")
Retry(s) == /\ chain[s].state = "failed" /\ chain[s].no < MaxRetry
            /\ To(s, chain[s].no + 1, "due")
Bury(s) == /\ chain[s].state = "failed" /\ chain[s].no = MaxRetry
           /\ To(s, MaxRetry, "dead")
\* The stream does not take the version of the event.
Refuse(s) == chain[s].state = "due" /\ To(s, chain[s].no, "dead")

ChainNext == \E s \in Subscribers :
    Begin(s) \/ Acknowledge(s) \/ Fail(s) \/ Retry(s) \/ Bury(s) \/ Refuse(s)

ChainSpec == ChainInit /\ [][ChainNext]_chain
=============================================================================
