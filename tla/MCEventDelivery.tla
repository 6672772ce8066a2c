--------------------------- MODULE MCEventDelivery ---------------------------
EXTENDS EventDelivery, TLC

CONSTANTS s1, s2, p1, p2

Kinds == {"republish", "race", "silence", "error"}

\* Two streams of one subscriber, the second of which lists other topics or other
\* versions; a stream and the retry worker, for one subscriber or two.
SmallSetups ==
    {[subs |-> {s1}, filter |-> p1 :> s1 @@ p2 :> s1, kinds |-> Kinds \ {"race"}, maxFaults |-> 3,
      accepts |-> p1 :> "event" @@ p2 :> "other_topic"],
     [subs |-> {s1}, filter |-> p1 :> s1 @@ p2 :> s1, kinds |-> Kinds, maxFaults |-> 1,
      accepts |-> p1 :> "event" @@ p2 :> "other_version"]}
    \cup {[subs |-> u[1], filter |-> p1 :> s1 @@ p2 :> "any", kinds |-> Kinds, maxFaults |-> u[2],
           accepts |-> p1 :> "event" @@ p2 :> "event"] : u \in {<<{s1}, 1>>, <<{s1, s2}, 0>>}}
=============================================================================
