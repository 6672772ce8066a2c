------------------------- MODULE ExecutionCapacity -------------------------
(***************************************************************************)
(* The execution slots of one tenant (execution_capacity.go): two sorted   *)
(* sets of leases, one for the tenant and one per run, kept by three Lua   *)
(* scripts, and the worker goroutines that acquire, renew and release.     *)
(*                                                                         *)
(* Times are countdowns: the score of a member is the time it has left, 0  *)
(* for a member that lapsed and was not purged yet.  Tick passes time.  A  *)
(* lease token, a fresh UUID in the code, is one that nobody remembers.    *)
(***************************************************************************)
EXTENDS Integers, FiniteSets

CONSTANTS Runs, Workers, Tokens,
          Policies,     \* records [tenant, run]: limits a deployment may configure
          None,         \* no policy, no run, no token
          LeaseTTL      \* in ticks

ASSUME CapacityAssumption ==
    /\ Policies \subseteq {p \in [tenant : Nat, run : Nat] : 1 <= p.run /\ p.run <= p.tenant}
    /\ None \notin Policies \cup Tokens \cup Runs
    /\ LeaseTTL \in Nat \ {0}
    /\ IsFiniteSet(Tokens) /\ IsFiniteSet(Workers)

VARIABLES envPolicy,    \* agent:scheduling:{env}:policy, no expiry
          policyKey,    \* the tenant's :policy key
          tenantZ,      \* the tenant's sorted set
          runZ,         \* the sorted set of every run
          ttl,          \* time left of the three kinds of key
          worker        \* the goroutines

vars == <<envPolicy, policyKey, tenantZ, runZ, ttl, worker>>

Gone == -1
Scores == {Gone} \cup 0..LeaseTTL
KeyTTL == 2 * LeaseTTL
PCs == {"off", "idle", "executing", "cancelled", "releasing"}

Off == [pc |-> "off", policy |-> None, run |-> None, token |-> None, stalled |-> FALSE]

CapacityTypeOK ==
    /\ envPolicy \in Policies \cup {None} /\ policyKey \in Policies \cup {None}
    /\ tenantZ \in [Tokens -> Scores]
    /\ runZ \in [Runs -> [Tokens -> Scores]]
    /\ ttl \in [tenant : 0..KeyTTL, policy : 0..KeyTTL, run : [Runs -> 0..KeyTTL]]
    /\ worker \in [Workers -> [pc : PCs, policy : Policies \cup {None}, run : Runs \cup {None},
                               token : Tokens \cup {None}, stalled : BOOLEAN]]

Init ==
    /\ envPolicy = None /\ policyKey = None
    /\ tenantZ = [t \in Tokens |-> Gone]
    /\ runZ = [r \in Runs |-> [t \in Tokens |-> Gone]]
    /\ ttl = [tenant |-> 0, policy |-> 0, run |-> [r \in Runs |-> 0]]
    /\ worker = [w \in Workers |-> Off]

-----------------------------------------------------------------------------
At(w, pc) == worker[w].pc = pc
Holding(w) == worker[w].pc \in {"executing", "cancelled", "releasing"}
Fresh(t) ==
    /\ tenantZ[t] = Gone /\ \A r \in Runs : runZ[r][t] = Gone
    /\ \A w \in Workers : Holding(w) => worker[w].token # t

Members(z) == {t \in Tokens : z[t] # Gone}
Live(z) == {t \in Tokens : z[t] > 0}
\* ZREMRANGEBYSCORE -inf now: what lapsed goes, also when the call is refused.
Purge(z) == [t \in Tokens |-> IF z[t] > 0 THEN z[t] ELSE Gone]

\* A process starts: SETNX publishes its policy or finds an equal one.  With
\* another policy it does not start (ErrSchedulingPolicyDrift).
NewExecutionCapacity(w, p) ==
    /\ At(w, "off") /\ envPolicy \in {None, p}
    /\ envPolicy' = p
    /\ worker' = [worker EXCEPT ![w].pc = "idle", ![w].policy = p]
    /\ UNCHANGED <<policyKey, tenantZ, runZ, ttl>>

Admissible(w, r) ==
    /\ Cardinality(Members(Purge(runZ[r]))) < worker[w].policy.run
    /\ Cardinality(Members(Purge(tenantZ))) < worker[w].policy.tenant

\* acquireExecutionCapacity
Acquire(w, r) ==
    /\ At(w, "idle") /\ policyKey \in {None, worker[w].policy}
    /\ \/ /\ Admissible(w, r)
          /\ \E t \in Tokens :
               /\ Fresh(t)
               /\ tenantZ' = [Purge(tenantZ) EXCEPT ![t] = LeaseTTL]
               /\ runZ' = [runZ EXCEPT ![r] = [Purge(@) EXCEPT ![t] = LeaseTTL]]
               /\ worker' = [worker EXCEPT ![w].pc = "executing", ![w].run = r, ![w].token = t]
          /\ policyKey' = worker[w].policy
          /\ ttl' = [ttl EXCEPT !.tenant = KeyTTL, !.policy = KeyTTL, !.run[r] = KeyTTL]
       \/ /\ ~Admissible(w, r)
          /\ tenantZ' = Purge(tenantZ) /\ runZ' = [runZ EXCEPT ![r] = Purge(@)]
          /\ UNCHANGED <<policyKey, ttl, worker>>
    /\ UNCHANGED envPolicy

\* Mutant: renews whatever is left of the lease, without comparing scores.
Renewable_Resurrects(w) ==
    policyKey = worker[w].policy

Renewable(w) ==
    /\ tenantZ[worker[w].token] > 0 /\ runZ[worker[w].run][worker[w].token] > 0
    /\ policyKey = worker[w].policy

\* Mutant: prolongs every live member of the sets, not only its own.
Renew_ProlongsAll(w) ==
    LET r == worker[w].run
        All(z) == [t \in Tokens |-> IF z[t] > 0 THEN LeaseTTL ELSE z[t]] IN
    /\ At(w, "executing") /\ Renewable(w) /\ UNCHANGED <<envPolicy, policyKey>>
    /\ tenantZ' = All(tenantZ)
    /\ runZ' = [runZ EXCEPT ![r] = All(@)]
    /\ ttl' = [ttl EXCEPT !.tenant = KeyTTL, !.policy = KeyTTL, !.run[r] = KeyTTL]
    /\ worker' = [worker EXCEPT ![w].stalled = FALSE]

\* Mutant: prolongs the lease and not the keys that hold it.
Renew_KeepsKeyTTL(w) ==
    LET t == worker[w].token
        r == worker[w].run IN
    /\ At(w, "executing") /\ Renewable(w) /\ UNCHANGED <<envPolicy, policyKey, ttl>>
    /\ tenantZ' = [tenantZ EXCEPT ![t] = LeaseTTL]
    /\ runZ' = [runZ EXCEPT ![r][t] = LeaseTTL]
    /\ worker' = [worker EXCEPT ![w].stalled = FALSE]

\* The ticker of Execute: renewExecutionCapacity, or the context is cancelled.
Renew(w) ==
    LET t == worker[w].token
        r == worker[w].run IN
    /\ At(w, "executing") /\ UNCHANGED <<envPolicy, policyKey>>
    /\ \/ /\ Renewable(w)
          /\ tenantZ' = [tenantZ EXCEPT ![t] = LeaseTTL]
          /\ runZ' = [runZ EXCEPT ![r][t] = LeaseTTL]
          /\ ttl' = [ttl EXCEPT !.tenant = KeyTTL, !.policy = KeyTTL, !.run[r] = KeyTTL]
          /\ worker' = [worker EXCEPT ![w].stalled = FALSE]
       \/ /\ ~Renewable(w)
          /\ worker' = [worker EXCEPT ![w].pc = "cancelled", ![w].stalled = FALSE]
          /\ UNCHANGED <<tenantZ, runZ, ttl>>

\* A renewal that fails for a Redis error cancels as well; the slot stays.
RenewError(w) ==
    /\ At(w, "executing")
    /\ worker' = [worker EXCEPT ![w].pc = "cancelled", ![w].stalled = FALSE]
    /\ UNCHANGED <<envPolicy, policyKey, tenantZ, runZ, ttl>>

\* execute returns, the ticker stops.
Return(w) ==
    /\ worker[w].pc \in {"executing", "cancelled"}
    /\ worker' = [worker EXCEPT ![w].pc = "releasing", ![w].stalled = FALSE]
    /\ UNCHANGED <<envPolicy, policyKey, tenantZ, runZ, ttl>>

\* releaseExecutionCapacity, under a context of its own.
Release(w) ==
    LET t == worker[w].token IN
    /\ At(w, "releasing")
    /\ tenantZ' = [tenantZ EXCEPT ![t] = Gone]
    /\ runZ' = [runZ EXCEPT ![worker[w].run][t] = Gone]
    /\ worker' = [worker EXCEPT ![w].pc = "idle", ![w].run = None, ![w].token = None]
    /\ UNCHANGED <<envPolicy, policyKey, ttl>>

\* Release times out after 5 s: the slot is left to its expiry.
ReleaseLost(w) ==
    /\ At(w, "releasing")
    /\ worker' = [worker EXCEPT ![w].pc = "idle", ![w].run = None, ![w].token = None]
    /\ UNCHANGED <<envPolicy, policyKey, tenantZ, runZ, ttl>>

Crash(w) ==
    /\ ~At(w, "off")
    /\ worker' = [worker EXCEPT ![w] = Off]
    /\ UNCHANGED <<envPolicy, policyKey, tenantZ, runZ, ttl>>

\* The process is paused: its ticker is late.
Stall(w) ==
    /\ At(w, "executing") /\ ~worker[w].stalled
    /\ worker' = [worker EXCEPT ![w].stalled = TRUE]
    /\ UNCHANGED <<envPolicy, policyKey, tenantZ, runZ, ttl>>

-----------------------------------------------------------------------------
(* Time.  The ticker of a goroutine that is not stalled fires three times  *)
(* per lease, so time does not pass the last moment it can renew at.       *)
Punctual(w) == At(w, "executing") /\ ~worker[w].stalled
Less(n) == IF n > 0 THEN n - 1 ELSE n
\* A sorted set after a tick: its key may have expired with everything in it.
Age(z, left) == [t \in Tokens |-> IF left <= 1 THEN Gone ELSE Less(z[t])]

Tick ==
    /\ \A w \in Workers : Punctual(w) =>
         tenantZ[worker[w].token] # 1 /\ runZ[worker[w].run][worker[w].token] # 1
    /\ tenantZ' = Age(tenantZ, ttl.tenant)
    /\ runZ' = [r \in Runs |-> Age(runZ[r], ttl.run[r])]
    /\ policyKey' = IF ttl.policy <= 1 THEN None ELSE policyKey
    /\ ttl' = [tenant |-> Less(ttl.tenant), policy |-> Less(ttl.policy),
               run |-> [r \in Runs |-> Less(ttl.run[r])]]
    /\ UNCHANGED <<envPolicy, worker>>

-----------------------------------------------------------------------------
WorkerStep(w) ==
    \/ \E p \in Policies : NewExecutionCapacity(w, p)
    \/ \E r \in Runs : Acquire(w, r)
    \/ Renew(w) \/ RenewError(w) \/ Return(w) \/ Release(w) \/ ReleaseLost(w)
    \/ Crash(w) \/ Stall(w)

Next == Tick \/ \E w \in Workers : WorkerStep(w)

Spec == Init /\ [][Next]_vars
\* Time passes and a ticker fires.
FairSpec == Spec /\ WF_vars(Tick) /\ \A w \in Workers : WF_vars(Renew(w))

-----------------------------------------------------------------------------
\* Acquire and Renew: whatever crashes, stalls, loses a release or is deployed
\* with another policy, the goroutines that run within their lease are within
\* the published limits, for the tenant and for every run.
Within(W, limit) == Cardinality(W) <= limit
LimitsHold ==
    LET active == {w \in Workers : Punctual(w)} IN
    /\ active # {} => Within(active, envPolicy.tenant)
    /\ \A r \in Runs : {w \in active : worker[w].run = r} # {} =>
           Within({w \in active : worker[w].run = r}, envPolicy.run)

\* PEXPIRE: a goroutine that renews in time never loses its slot, so a healthy
\* execution is never cancelled by the expiry of a key or by somebody's purge.
HealthyKeepsSlot == \A w \in Workers : Punctual(w) => Renewable(w)

\* The slot of a crashed process or a lost release does not stay taken.
OrphansLapse ==
    \A t \in Tokens : (t \in Live(tenantZ) /\ \A w \in Workers : Holding(w) => worker[w].token # t)
                        ~> t \notin Live(tenantZ)
=============================================================================
