----------------------- MODULE ExecutionCapacityProofs -----------------------
(***************************************************************************)
(* Proofs about the execution slots, for any number of workers, runs and   *)
(* tokens and any policies a deployment may publish.  CapacityInv is why   *)
(* the scripts work: every process that runs has the published policy, the *)
(* members of the sorted sets are within it, each goroutine has a token of *)
(* its own, and the keys outlive the leases of those who renew in time.    *)
(***************************************************************************)
EXTENDS ExecutionCapacity, TLAPS, FiniteSetTheorems

\* NewExecutionCapacity refuses a process with another policy.
OnePolicy ==
    /\ \A w \in Workers : ~At(w, "off") => worker[w].policy = envPolicy /\ envPolicy # None
    /\ policyKey # None => policyKey = envPolicy /\ envPolicy # None

OwnToken ==
    /\ \A w \in Workers : Holding(w) => worker[w].token \in Tokens /\ worker[w].run \in Runs
    /\ \A v, w \in Workers : Holding(v) /\ Holding(w) /\ v # w => worker[v].token # worker[w].token

\* What the scripts count is within the limits.
Counted ==
    /\ envPolicy = None => Members(tenantZ) = {} /\ \A r \in Runs : Members(runZ[r]) = {}
    /\ envPolicy # None =>
          /\ Cardinality(Members(tenantZ)) <= envPolicy.tenant
          /\ \A r \in Runs : Cardinality(Members(runZ[r])) <= envPolicy.run

\* PEXPIRE with twice the lease: the keys are there for one lease more than their
\* live members.
KeysOutlive ==
    \A w \in Workers : Punctual(w) =>
        LET t == worker[w].token
            r == worker[w].run
        IN  /\ tenantZ[t] > 0 /\ LeaseTTL + tenantZ[t] <= ttl.tenant
            /\ LeaseTTL + tenantZ[t] <= ttl.policy
            /\ runZ[r][t] > 0 /\ LeaseTTL + runZ[r][t] <= ttl.run[r]
            /\ policyKey = envPolicy

CapacityInv == CapacityTypeOK /\ OnePolicy /\ OwnToken /\ Counted /\ KeysOutlive

WorkerState == [pc : PCs, policy : Policies \cup {None}, run : Runs \cup {None},
                token : Tokens \cup {None}, stalled : BOOLEAN]
Sets == [Tokens -> Scores]

-----------------------------------------------------------------------------
\* Sorted sets with fewer members count less.
LEMMA FewerMembers ==
    ASSUME NEW z, NEW y, Members(y) \subseteq Members(z)
    PROVE  Cardinality(Members(y)) <= Cardinality(Members(z))
<1>1. IsFiniteSet(Tokens) /\ Members(z) \subseteq Tokens
   BY CapacityAssumption DEF CapacityAssumption, Members
<1>2. IsFiniteSet(Members(z))
   BY <1>1, FS_Subset
<1> QED BY <1>2, FS_Subset

LEMMA CountIsNat ==
    ASSUME NEW z
    PROVE  IsFiniteSet(Members(z)) /\ Cardinality(Members(z)) \in Nat
<1>1. IsFiniteSet(Tokens) /\ Members(z) \subseteq Tokens
   BY CapacityAssumption DEF CapacityAssumption, Members
<1>2. IsFiniteSet(Members(z))
   BY <1>1, FS_Subset
<1> QED BY <1>2, FS_CardinalityType

LEMMA PurgeIs ==
    ASSUME NEW z \in Sets
    PROVE  /\ Purge(z) \in Sets /\ Members(Purge(z)) \subseteq Members(z)
           /\ \A t \in Tokens : z[t] > 0 => Purge(z)[t] = z[t]
BY CapacityAssumption DEF Purge, Sets, Members, Scores, Gone, CapacityAssumption

LEMMA LimitsAreNat ==
    ASSUME CapacityInv, envPolicy # None
    PROVE  envPolicy \in Policies /\ envPolicy.tenant \in Nat /\ envPolicy.run \in Nat
BY CapacityAssumption DEF CapacityInv, CapacityTypeOK, CapacityAssumption

LEMMA WorkerMoves ==
    ASSUME CapacityTypeOK, NEW w \in Workers, NEW m \in WorkerState,
           worker' = [worker EXCEPT ![w] = m]
    PROVE  /\ worker' \in [Workers -> WorkerState] /\ worker'[w] = m
           /\ \A v \in Workers : v # w => worker'[v] = worker[v]
BY DEF CapacityTypeOK, WorkerState

LEMMA CapacityInit == Init => CapacityInv
<1> SUFFICES ASSUME Init PROVE CapacityInv
   OBVIOUS
<1>1. CapacityTypeOK
   BY CapacityAssumption DEF Init, CapacityTypeOK, Off, PCs, Scores, Gone, KeyTTL, CapacityAssumption
<1>2. \A w \in Workers : worker[w].pc = "off"
   BY DEF Init, Off
<1>3. Members(tenantZ) = {} /\ \A r \in Runs : Members(runZ[r]) = {}
   BY DEF Init, Members
<1>4. envPolicy = None /\ policyKey = None
   BY DEF Init
<1> QED
   BY <1>1, <1>2, <1>3, <1>4 DEF CapacityInv, OnePolicy, OwnToken, Counted, KeysOutlive, At,
      Holding, Punctual

-----------------------------------------------------------------------------
\* A step of a goroutine that leaves Redis alone, and after which it does not run
\* within its lease.
LEMMA LocalStepKeepsInv ==
    ASSUME CapacityInv, NEW w \in Workers, NEW m \in WorkerState,
           worker' = [worker EXCEPT ![w] = m],
           m.pc # "off" => m.policy = envPolicy /\ envPolicy # None,
           m.pc \in {"executing", "cancelled", "releasing"} =>
               Holding(w) /\ m.token = worker[w].token /\ m.run = worker[w].run,
           m.pc # "executing" \/ m.stalled,
           UNCHANGED <<envPolicy, policyKey, tenantZ, runZ, ttl>>
    PROVE  CapacityInv'
<1>1. /\ worker' \in [Workers -> WorkerState] /\ worker'[w] = m
      /\ \A v \in Workers : v # w => worker'[v] = worker[v]
   BY WorkerMoves DEF CapacityInv
<1>2. CapacityTypeOK'
   BY <1>1 DEF CapacityInv, CapacityTypeOK, WorkerState
<1>3. OnePolicy'
   BY <1>1 DEF CapacityInv, OnePolicy, At
<1>4. OwnToken'
   BY <1>1 DEF CapacityInv, OwnToken, Holding
<1>5. Counted'
   BY DEF CapacityInv, Counted, Members
<1>6. KeysOutlive'
   BY <1>1 DEF CapacityInv, KeysOutlive, Punctual, At
<1> QED BY <1>2, <1>3, <1>4, <1>5, <1>6 DEF CapacityInv

LEMMA NewKeepsInv ==
    ASSUME CapacityInv, NEW w \in Workers, NEW p \in Policies, NewExecutionCapacity(w, p)
    PROVE  CapacityInv'
<1> DEFINE m == [worker[w] EXCEPT !.pc = "idle", !.policy = p]
<1>1. /\ worker[w].pc = "off" /\ envPolicy \in {None, p} /\ envPolicy' = p
      /\ worker' = [worker EXCEPT ![w].pc = "idle", ![w].policy = p]
      /\ UNCHANGED <<policyKey, tenantZ, runZ, ttl>>
   BY DEF NewExecutionCapacity, At
<1>2. worker[w] \in WorkerState
   BY DEF CapacityInv, CapacityTypeOK, WorkerState
<1>3. m \in WorkerState /\ m.pc = "idle" /\ m.policy = p
   BY <1>2 DEF WorkerState, PCs
<1>4. worker' = [worker EXCEPT ![w] = m]
   BY <1>1 DEF CapacityInv, CapacityTypeOK
<1> HIDE DEF m
<1>5. /\ worker' \in [Workers -> WorkerState] /\ worker'[w] = m
      /\ \A v \in Workers : v # w => worker'[v] = worker[v]
   BY <1>3, <1>4, WorkerMoves DEF CapacityInv
<1>6. p # None /\ p.tenant \in Nat /\ p.run \in Nat
   BY CapacityAssumption DEF CapacityAssumption
<1>7. CapacityTypeOK'
   BY <1>1, <1>5 DEF CapacityInv, CapacityTypeOK, WorkerState
<1>8. OnePolicy'
   BY <1>1, <1>3, <1>5, <1>6 DEF CapacityInv, OnePolicy, At
<1>9. OwnToken'
   BY <1>3, <1>5 DEF CapacityInv, OwnToken, Holding
<1>10. Counted'
   <2>1. Cardinality({}) = 0
      BY FS_EmptySet
   <2>2. CASE envPolicy = None
      <3>1. /\ Cardinality(Members(tenantZ)) = 0
            /\ \A r \in Runs : Cardinality(Members(runZ[r])) = 0
         BY <2>1, <2>2 DEF CapacityInv, Counted
      <3>2. /\ Cardinality(Members(tenantZ)) <= p.tenant
            /\ \A r \in Runs : Cardinality(Members(runZ[r])) <= p.run
         BY <1>6, <3>1
      <3> QED BY <1>1, <1>6, <3>2 DEF Counted, Members
   <2>3. CASE envPolicy = p
      BY <1>1, <1>6, <2>3 DEF CapacityInv, Counted, Members
   <2> QED BY <1>1, <2>2, <2>3
<1>11. KeysOutlive'
   <2> SUFFICES ASSUME NEW v \in Workers, Punctual(v)'
                PROVE  v # w /\ Punctual(v) /\ envPolicy' = envPolicy
      BY <1>1, <1>5 DEF CapacityInv, KeysOutlive, At
   <2>1. v # w
      BY <1>3, <1>5 DEF Punctual, At
   <2>2. Punctual(v)
      BY <1>5, <2>1 DEF Punctual, At
   <2>3. envPolicy # None
      BY <2>2 DEF CapacityInv, OnePolicy, Punctual, At
   <2> QED BY <1>1, <2>1, <2>2, <2>3
<1> QED BY <1>7, <1>8, <1>9, <1>10, <1>11 DEF CapacityInv

-----------------------------------------------------------------------------
\* A step that takes members out of the sorted sets, or none, and changes no lease
\* of a goroutine that runs within its own.
LEMMA SetsShrinkKeepsInv ==
    ASSUME CapacityInv, CapacityTypeOK', OnePolicy', OwnToken', KeysOutlive',
           UNCHANGED envPolicy,
           Members(tenantZ)' \subseteq Members(tenantZ),
           \A r \in Runs : Members(runZ[r])' \subseteq Members(runZ[r])
    PROVE  CapacityInv'
<1>1. ASSUME envPolicy = None
      PROVE  Members(tenantZ)' = {} /\ \A r \in Runs : Members(runZ[r])' = {}
   BY <1>1 DEF CapacityInv, Counted
<1>2. ASSUME envPolicy # None
      PROVE  /\ Cardinality(Members(tenantZ)') <= envPolicy.tenant
             /\ \A r \in Runs : Cardinality(Members(runZ[r])') <= envPolicy.run
   <2>1. envPolicy.tenant \in Nat /\ envPolicy.run \in Nat
      BY <1>2, LimitsAreNat
   <2>2. Cardinality(Members(tenantZ)') <= envPolicy.tenant
      <3>1. Cardinality(Members(tenantZ')) <= Cardinality(Members(tenantZ))
         BY FewerMembers
      <3>2. Cardinality(Members(tenantZ')) \in Nat /\ Cardinality(Members(tenantZ)) \in Nat
         BY CountIsNat
      <3>3. Cardinality(Members(tenantZ)) <= envPolicy.tenant
         BY <1>2 DEF CapacityInv, Counted
      <3> QED BY <2>1, <3>1, <3>2, <3>3
   <2>3. ASSUME NEW r \in Runs PROVE Cardinality(Members(runZ[r])') <= envPolicy.run
      <3>1. Cardinality(Members(runZ'[r])) <= Cardinality(Members(runZ[r]))
         BY FewerMembers
      <3>2. Cardinality(Members(runZ'[r])) \in Nat /\ Cardinality(Members(runZ[r])) \in Nat
         BY CountIsNat
      <3>3. Cardinality(Members(runZ[r])) <= envPolicy.run
         BY <1>2 DEF CapacityInv, Counted
      <3> QED BY <2>1, <3>1, <3>2, <3>3
   <2> QED BY <2>2, <2>3
<1>3. Counted'
   BY <1>1, <1>2 DEF Counted
<1> QED BY <1>3 DEF CapacityInv

LEMMA ReleaseKeepsInv ==
    ASSUME CapacityInv, NEW w \in Workers, Release(w)
    PROVE  CapacityInv'
<1> DEFINE m == [worker[w] EXCEPT !.pc = "idle", !.run = None, !.token = None]
           t == worker[w].token
           r == worker[w].run
<1>1. /\ worker[w].pc = "releasing" /\ UNCHANGED <<envPolicy, policyKey, ttl>>
      /\ tenantZ' = [tenantZ EXCEPT ![t] = Gone] /\ runZ' = [runZ EXCEPT ![r][t] = Gone]
      /\ worker' = [worker EXCEPT ![w].pc = "idle", ![w].run = None, ![w].token = None]
   BY DEF Release, At
<1>2. CapacityTypeOK /\ t \in Tokens /\ r \in Runs
   BY <1>1 DEF CapacityInv, OwnToken, Holding
<1> HIDE DEF t, r
<1>3. worker[w] \in WorkerState
   BY <1>2 DEF CapacityTypeOK, WorkerState
<1>4. m \in WorkerState /\ m.pc = "idle" /\ m.policy = worker[w].policy
   BY <1>3 DEF WorkerState, PCs
<1>5. worker' = [worker EXCEPT ![w] = m]
   BY <1>1, <1>2 DEF CapacityTypeOK
<1> HIDE DEF m
<1>6. /\ worker' \in [Workers -> WorkerState] /\ worker'[w] = m
      /\ \A v \in Workers : v # w => worker'[v] = worker[v]
   BY <1>2, <1>4, <1>5, WorkerMoves
<1>7. Gone \in Scores /\ tenantZ \in Sets /\ runZ \in [Runs -> Sets]
   BY <1>2 DEF CapacityTypeOK, Sets, Scores
<1>8. /\ tenantZ' \in Sets /\ tenantZ'[t] = Gone
      /\ \A u \in Tokens : u # t => tenantZ'[u] = tenantZ[u]
   BY <1>1, <1>2, <1>7 DEF Sets
<1>9. /\ runZ' \in [Runs -> Sets] /\ runZ'[r][t] = Gone
      /\ \A u \in Tokens : u # t => runZ'[r][u] = runZ[r][u]
      /\ \A q \in Runs : q # r => runZ'[q] = runZ[q]
   BY <1>1, <1>2, <1>7 DEF Sets
<1>10. CapacityTypeOK'
   BY <1>1, <1>2, <1>6, <1>8, <1>9 DEF CapacityTypeOK, WorkerState, Sets
<1>11. OnePolicy'
   BY <1>1, <1>4, <1>6 DEF CapacityInv, OnePolicy, At
<1>12. OwnToken'
   BY <1>4, <1>6 DEF CapacityInv, OwnToken, Holding
<1>13. KeysOutlive'
   <2> SUFFICES ASSUME NEW v \in Workers, Punctual(v)'
                PROVE  LET u == worker'[v].token
                           q == worker'[v].run
                       IN  /\ tenantZ'[u] > 0 /\ LeaseTTL + tenantZ'[u] <= ttl'.tenant
                           /\ LeaseTTL + tenantZ'[u] <= ttl'.policy
                           /\ runZ'[q][u] > 0 /\ LeaseTTL + runZ'[q][u] <= ttl'.run[q]
                           /\ policyKey' = envPolicy'
      BY DEF KeysOutlive
   <2>1. v # w /\ Punctual(v) /\ worker'[v] = worker[v]
      BY <1>4, <1>6 DEF Punctual, At
   <2>2. worker[v].token # t /\ worker[v].token \in Tokens /\ worker[v].run \in Runs
      BY <1>1, <2>1 DEF CapacityInv, OwnToken, Holding, Punctual, At, t
   <2>3. /\ tenantZ'[worker[v].token] = tenantZ[worker[v].token]
         /\ runZ'[worker[v].run][worker[v].token] = runZ[worker[v].run][worker[v].token]
      BY <1>8, <1>9, <2>2
   <2> QED BY <1>1, <2>1, <2>3 DEF CapacityInv, KeysOutlive
<1>14. /\ Members(tenantZ)' \subseteq Members(tenantZ)
       /\ \A q \in Runs : Members(runZ[q])' \subseteq Members(runZ[q])
   BY <1>8, <1>9 DEF Members
<1> QED BY <1>1, <1>10, <1>11, <1>12, <1>13, <1>14, SetsShrinkKeepsInv

\* The keys are extended with the lease: what was enough for the others is still.
LEMMA KeysExtended ==
    ASSUME CapacityTypeOK, NEW r \in Runs,
           ttl' = [ttl EXCEPT !.tenant = KeyTTL, !.policy = KeyTTL, !.run[r] = KeyTTL]
    PROVE  /\ ttl' \in [tenant : 0..KeyTTL, policy : 0..KeyTTL, run : [Runs -> 0..KeyTTL]]
           /\ ttl'.tenant = KeyTTL /\ ttl'.policy = KeyTTL /\ ttl'.run[r] = KeyTTL
           /\ \A q \in Runs : q # r => ttl'.run[q] = ttl.run[q]
           /\ LeaseTTL \in 1..KeyTTL /\ LeaseTTL \in Scores
           /\ \A s \in Scores : LeaseTTL + s <= KeyTTL
<1> DEFINE Keys == 0..KeyTTL
<1>1. KeyTTL \in Keys /\ LeaseTTL \in 1..KeyTTL /\ LeaseTTL \in Scores
   BY CapacityAssumption DEF CapacityAssumption, KeyTTL, Scores
<1>2. \A s \in Scores : LeaseTTL + s <= KeyTTL
   BY CapacityAssumption DEF CapacityAssumption, KeyTTL, Scores, Gone
<1>3. ttl \in [tenant : Keys, policy : Keys, run : [Runs -> Keys]]
   BY DEF CapacityTypeOK
<1> HIDE DEF Keys
<1>4. /\ ttl' \in [tenant : Keys, policy : Keys, run : [Runs -> Keys]]
      /\ ttl'.tenant = KeyTTL /\ ttl'.policy = KeyTTL /\ ttl'.run[r] = KeyTTL
      /\ \A q \in Runs : q # r => ttl'.run[q] = ttl.run[q]
   BY <1>1, <1>3
<1> QED BY <1>1, <1>2, <1>4 DEF Keys

LEMMA RenewedKeepsInv ==
    ASSUME CapacityInv, NEW w \in Workers, Renew(w), Renewable(w), worker' = [worker EXCEPT ![w].stalled = FALSE]
    PROVE  CapacityInv'
<1> DEFINE m == [worker[w] EXCEPT !.stalled = FALSE]
           t == worker[w].token
           r == worker[w].run
<1>1. /\ worker[w].pc = "executing" /\ UNCHANGED <<envPolicy, policyKey>>
      /\ tenantZ' = [tenantZ EXCEPT ![t] = LeaseTTL] /\ runZ' = [runZ EXCEPT ![r][t] = LeaseTTL]
      /\ ttl' = [ttl EXCEPT !.tenant = KeyTTL, !.policy = KeyTTL, !.run[r] = KeyTTL]
   BY DEF Renew, At
<1>2. CapacityTypeOK /\ t \in Tokens /\ r \in Runs
   BY <1>1 DEF CapacityInv, OwnToken, Holding
<1>3. tenantZ[t] > 0 /\ runZ[r][t] > 0 /\ policyKey = worker[w].policy
   BY DEF Renewable
<1> HIDE DEF t, r
<1>4. worker[w] \in WorkerState
   BY <1>2 DEF CapacityTypeOK, WorkerState
<1>5. /\ m \in WorkerState /\ m.pc = worker[w].pc /\ m.policy = worker[w].policy
      /\ m.token = worker[w].token /\ m.run = worker[w].run
   BY <1>4 DEF WorkerState
<1>6. worker' = [worker EXCEPT ![w] = m]
   BY <1>2 DEF CapacityTypeOK
<1> HIDE DEF m
<1>7. /\ worker' \in [Workers -> WorkerState] /\ worker'[w] = m
      /\ \A v \in Workers : v # w => worker'[v] = worker[v]
   BY <1>2, <1>5, <1>6, WorkerMoves
<1>8. tenantZ \in Sets /\ runZ \in [Runs -> Sets]
   BY <1>2 DEF CapacityTypeOK, Sets
<1>9. /\ ttl' \in [tenant : 0..KeyTTL, policy : 0..KeyTTL, run : [Runs -> 0..KeyTTL]]
      /\ ttl'.tenant = KeyTTL /\ ttl'.policy = KeyTTL /\ ttl'.run[r] = KeyTTL
      /\ \A q \in Runs : q # r => ttl'.run[q] = ttl.run[q]
      /\ LeaseTTL \in 1..KeyTTL /\ LeaseTTL \in Scores
      /\ \A s \in Scores : LeaseTTL + s <= KeyTTL
   BY <1>1, <1>2, KeysExtended
<1>10. /\ tenantZ' \in Sets /\ tenantZ'[t] = LeaseTTL
       /\ \A u \in Tokens : u # t => tenantZ'[u] = tenantZ[u]
   BY <1>1, <1>2, <1>8, <1>9 DEF Sets
<1>11. /\ runZ' \in [Runs -> Sets] /\ runZ'[r][t] = LeaseTTL
       /\ \A u \in Tokens : u # t => runZ'[r][u] = runZ[r][u]
       /\ \A q \in Runs : q # r => runZ'[q] = runZ[q]
   BY <1>1, <1>2, <1>8, <1>9 DEF Sets
<1>12. CapacityTypeOK'
   BY <1>1, <1>2, <1>7, <1>9, <1>10, <1>11 DEF CapacityTypeOK, WorkerState, Sets
<1>13. OnePolicy'
   BY <1>1, <1>5, <1>7 DEF CapacityInv, OnePolicy, At
<1>14. OwnToken'
   BY <1>5, <1>7 DEF CapacityInv, OwnToken, Holding
<1>15. policyKey = envPolicy
   BY <1>1, <1>3 DEF CapacityInv, OnePolicy, At
<1>16. KeysOutlive'
   <2> SUFFICES ASSUME NEW v \in Workers, Punctual(v)'
                PROVE  LET u == worker'[v].token
                           q == worker'[v].run
                       IN  /\ tenantZ'[u] > 0 /\ LeaseTTL + tenantZ'[u] <= ttl'.tenant
                           /\ LeaseTTL + tenantZ'[u] <= ttl'.policy
                           /\ runZ'[q][u] > 0 /\ LeaseTTL + runZ'[q][u] <= ttl'.run[q]
                           /\ policyKey' = envPolicy'
      BY DEF KeysOutlive
   <2>1. CASE v = w
      <3>1. worker'[v].token = t /\ worker'[v].run = r
         BY <1>5, <1>7, <2>1 DEF t, r
      <3> QED BY <1>1, <1>9, <1>10, <1>11, <1>15, <3>1
   <2>2. CASE v # w
      <3> DEFINE u == worker[v].token
                 q == worker[v].run
      <3>1. Punctual(v) /\ worker'[v] = worker[v]
         BY <1>7, <2>2 DEF Punctual, At
      <3>2. u # t /\ u \in Tokens /\ q \in Runs
         BY <1>1, <2>2, <3>1 DEF CapacityInv, OwnToken, Holding, Punctual, At, t
      <3>3. /\ tenantZ[u] > 0 /\ runZ[q][u] > 0 /\ LeaseTTL + runZ[q][u] <= ttl.run[q]
         BY <3>1 DEF CapacityInv, KeysOutlive
      <3> HIDE DEF u, q
      <3>4. tenantZ'[u] = tenantZ[u] /\ runZ'[q][u] = runZ[q][u]
         BY <1>10, <1>11, <3>2
      <3>5. tenantZ[u] \in Scores /\ runZ[q][u] \in Scores
         BY <1>8, <3>2 DEF Sets
      <3>6. LeaseTTL + runZ'[q][u] <= ttl'.run[q]
         BY <1>9, <3>2, <3>3, <3>4, <3>5
      <3>7. LeaseTTL + tenantZ'[u] <= KeyTTL
         BY <1>9, <3>4, <3>5
      <3> QED BY <1>1, <1>9, <1>15, <3>1, <3>3, <3>4, <3>6, <3>7 DEF u, q
   <2> QED BY <2>1, <2>2
<1>17. /\ Members(tenantZ)' \subseteq Members(tenantZ)
       /\ \A q \in Runs : Members(runZ[q])' \subseteq Members(runZ[q])
   <2>1. tenantZ[t] # Gone /\ runZ[r][t] # Gone
      BY <1>3 DEF Gone
   <2> QED BY <1>10, <1>11, <2>1 DEF Members
<1> QED BY <1>1, <1>12, <1>13, <1>14, <1>16, <1>17, SetsShrinkKeepsInv

LEMMA AcquireRefusedKeepsInv ==
    ASSUME CapacityInv, NEW r \in Runs,
           tenantZ' = Purge(tenantZ), runZ' = [runZ EXCEPT ![r] = Purge(runZ[r])],
           UNCHANGED <<envPolicy, policyKey, ttl, worker>>
    PROVE  CapacityInv'
<1>1. CapacityTypeOK /\ tenantZ \in Sets /\ runZ \in [Runs -> Sets]
   BY DEF CapacityInv, CapacityTypeOK, Sets
<1>2. /\ tenantZ' \in Sets /\ Members(tenantZ') \subseteq Members(tenantZ)
      /\ \A u \in Tokens : tenantZ[u] > 0 => tenantZ'[u] = tenantZ[u]
   BY <1>1, PurgeIs
<1>3. /\ runZ' \in [Runs -> Sets]
      /\ \A q \in Runs : /\ Members(runZ'[q]) \subseteq Members(runZ[q])
                         /\ \A u \in Tokens : runZ[q][u] > 0 => runZ'[q][u] = runZ[q][u]
   <2> DEFINE p == Purge(runZ[r])
   <2>1. /\ p \in Sets /\ Members(p) \subseteq Members(runZ[r])
         /\ \A u \in Tokens : runZ[r][u] > 0 => p[u] = runZ[r][u]
      BY <1>1, PurgeIs
   <2>2. runZ' = [runZ EXCEPT ![r] = p]
      OBVIOUS
   <2> HIDE DEF p
   <2>3. runZ' \in [Runs -> Sets] /\ runZ'[r] = p /\ \A q \in Runs : q # r => runZ'[q] = runZ[q]
      BY <1>1, <2>1, <2>2
   <2> QED BY <2>1, <2>3
<1>4. CapacityTypeOK'
   BY <1>1, <1>2, <1>3 DEF CapacityTypeOK, Sets
<1>5. OnePolicy' /\ OwnToken'
   BY DEF CapacityInv, OnePolicy, OwnToken, At, Holding
<1>6. KeysOutlive'
   <2> SUFFICES ASSUME NEW v \in Workers, Punctual(v)
                PROVE  LET u == worker[v].token
                           q == worker[v].run
                       IN  tenantZ'[u] = tenantZ[u] /\ runZ'[q][u] = runZ[q][u]
      BY DEF CapacityInv, KeysOutlive, Punctual, At
   <2>1. worker[v].token \in Tokens /\ worker[v].run \in Runs
      BY DEF CapacityInv, OwnToken, Holding, Punctual, At
   <2> QED BY <1>2, <1>3, <2>1 DEF CapacityInv, KeysOutlive
<1>7. /\ Members(tenantZ)' \subseteq Members(tenantZ)
      /\ \A q \in Runs : Members(runZ[q])' \subseteq Members(runZ[q])
   BY <1>2, <1>3 DEF Members
<1> QED BY <1>4, <1>5, <1>6, <1>7, SetsShrinkKeepsInv

LEMMA TickKeepsInv ==
    ASSUME CapacityInv, Tick
    PROVE  CapacityInv'
<1>1. CapacityTypeOK /\ tenantZ \in Sets /\ runZ \in [Runs -> Sets]
   BY DEF CapacityInv, CapacityTypeOK, Sets
<1>2. /\ \A w \in Workers : Punctual(w) =>
             tenantZ[worker[w].token] # 1 /\ runZ[worker[w].run][worker[w].token] # 1
      /\ tenantZ' = Age(tenantZ, ttl.tenant)
      /\ runZ' = [r \in Runs |-> Age(runZ[r], ttl.run[r])]
      /\ policyKey' = IF ttl.policy <= 1 THEN None ELSE policyKey
      /\ ttl' = [tenant |-> Less(ttl.tenant), policy |-> Less(ttl.policy),
                 run |-> [r \in Runs |-> Less(ttl.run[r])]]
      /\ UNCHANGED <<envPolicy, worker>>
   BY DEF Tick
<1>3. /\ ttl.tenant \in 0..KeyTTL /\ ttl.policy \in 0..KeyTTL
      /\ \A r \in Runs : ttl.run[r] \in 0..KeyTTL
   BY <1>1 DEF CapacityTypeOK
<1>4. LeaseTTL \in Nat /\ LeaseTTL > 0 /\ KeyTTL \in Nat
   BY CapacityAssumption DEF CapacityAssumption, KeyTTL
<1>5. ASSUME NEW z \in Sets, NEW n \in Nat
      PROVE  /\ Age(z, n) \in Sets /\ Members(Age(z, n)) \subseteq Members(z)
             /\ \A u \in Tokens : n > 1 /\ z[u] > 0 => Age(z, n)[u] = z[u] - 1
   <2>1. \A s \in Scores : Less(s) \in Scores /\ Gone \in Scores /\ (s = Gone => Less(s) = Gone)
                           /\ (s > 0 => Less(s) = s - 1)
      BY <1>4 DEF Scores, Gone, Less
   <2>2. \A u \in Tokens : z[u] \in Scores
      BY DEF Sets
   <2>3. \A u \in Tokens : Age(z, n)[u] = IF n <= 1 THEN Gone ELSE Less(z[u])
      BY DEF Age
   <2>4. Age(z, n) \in Sets
      BY <2>1, <2>2 DEF Age, Sets
   <2>5. Members(Age(z, n)) \subseteq Members(z)
      BY <2>1, <2>2, <2>3 DEF Members
   <2>6. ASSUME NEW u \in Tokens, n > 1, z[u] > 0 PROVE Age(z, n)[u] = z[u] - 1
      BY <2>1, <2>2, <2>3, <2>6
   <2> QED BY <2>4, <2>5, <2>6
<1>6. \A n \in 0..KeyTTL : Less(n) \in 0..KeyTTL /\ (n > 0 => Less(n) = n - 1)
   BY <1>4 DEF Less
<1>7. ttl' \in [tenant : 0..KeyTTL, policy : 0..KeyTTL, run : [Runs -> 0..KeyTTL]]
   <2>1. \A r \in Runs : Less(ttl.run[r]) \in 0..KeyTTL
      BY <1>3, <1>6
   <2>2. [r \in Runs |-> Less(ttl.run[r])] \in [Runs -> 0..KeyTTL]
      BY <2>1
   <2>3. Less(ttl.tenant) \in 0..KeyTTL /\ Less(ttl.policy) \in 0..KeyTTL
      BY <1>3, <1>6
   <2> QED BY <1>2, <2>2, <2>3
<1>8. /\ ttl'.tenant = Less(ttl.tenant) /\ ttl'.policy = Less(ttl.policy)
      /\ \A r \in Runs : ttl'.run[r] = Less(ttl.run[r])
   BY <1>2
<1>9. tenantZ' \in Sets /\ Members(tenantZ') \subseteq Members(tenantZ)
   BY <1>1, <1>2, <1>3, <1>5
<1>10. /\ runZ' \in [Runs -> Sets]
       /\ \A r \in Runs : Members(runZ'[r]) \subseteq Members(runZ[r])
   <2>1. \A r \in Runs : ttl.run[r] \in Nat /\ runZ[r] \in Sets
      BY <1>1, <1>3
   <2>2. \A r \in Runs : runZ'[r] = Age(runZ[r], ttl.run[r])
      BY <1>2
   <2>3. \A r \in Runs : Age(runZ[r], ttl.run[r]) \in Sets
                         /\ Members(Age(runZ[r], ttl.run[r])) \subseteq Members(runZ[r])
      BY <1>5, <2>1
   <2> QED BY <1>2, <2>2, <2>3
<1>11. CapacityTypeOK'
   BY <1>1, <1>2, <1>7, <1>9, <1>10 DEF CapacityTypeOK, Sets
<1>12. OnePolicy' /\ OwnToken'
   BY <1>2 DEF CapacityInv, OnePolicy, OwnToken, At, Holding
<1>13. KeysOutlive'
   <2> SUFFICES ASSUME NEW v \in Workers, Punctual(v)'
                PROVE  LET u == worker'[v].token
                           q == worker'[v].run
                       IN  /\ tenantZ'[u] > 0 /\ LeaseTTL + tenantZ'[u] <= ttl'.tenant
                           /\ LeaseTTL + tenantZ'[u] <= ttl'.policy
                           /\ runZ'[q][u] > 0 /\ LeaseTTL + runZ'[q][u] <= ttl'.run[q]
                           /\ policyKey' = envPolicy'
      BY DEF KeysOutlive
   <2> DEFINE u == worker[v].token
              q == worker[v].run
   <2>1. Punctual(v) /\ worker' = worker
      BY <1>2 DEF Punctual, At
   <2>2. u \in Tokens /\ q \in Runs
      BY <2>1 DEF CapacityInv, OwnToken, Holding, Punctual, At
   <2>3. /\ tenantZ[u] > 0 /\ LeaseTTL + tenantZ[u] <= ttl.tenant
         /\ LeaseTTL + tenantZ[u] <= ttl.policy
         /\ runZ[q][u] > 0 /\ LeaseTTL + runZ[q][u] <= ttl.run[q]
         /\ policyKey = envPolicy
      BY <2>1 DEF CapacityInv, KeysOutlive
   <2>4. tenantZ[u] # 1 /\ runZ[q][u] # 1
      BY <1>2, <2>1
   <2> HIDE DEF u, q
   <2>5. tenantZ[u] \in Int /\ runZ[q][u] \in Int /\ ttl.run[q] \in 0..KeyTTL
      BY <1>1, <1>3, <1>4, <2>2 DEF Sets, Scores, Gone
   <2>6. ttl.tenant > 1 /\ ttl.policy > 1 /\ ttl.run[q] > 1
      BY <1>3, <1>4, <2>3, <2>5
   <2>7. tenantZ'[u] = tenantZ[u] - 1
      BY <1>1, <1>2, <1>3, <1>5, <2>2, <2>3, <2>6
   <2>8. runZ'[q][u] = runZ[q][u] - 1
      <3>1. runZ'[q] = Age(runZ[q], ttl.run[q]) /\ runZ[q] \in Sets /\ ttl.run[q] \in Nat
         BY <1>1, <1>2, <1>3, <2>2
      <3> QED BY <1>5, <2>2, <2>3, <2>6, <3>1
   <2>9. ttl'.tenant = ttl.tenant - 1 /\ ttl'.policy = ttl.policy - 1 /\ ttl'.run[q] = ttl.run[q] - 1
      BY <1>3, <1>6, <1>8, <2>2, <2>5, <2>6
   <2>10. policyKey' = envPolicy'
      BY <1>2, <1>3, <2>3, <2>6
   <2>11. tenantZ'[u] > 0 /\ LeaseTTL + tenantZ'[u] <= ttl'.tenant /\ LeaseTTL + tenantZ'[u] <= ttl'.policy
      BY <1>3, <1>4, <2>3, <2>4, <2>5, <2>7, <2>9
   <2>12. runZ'[q][u] > 0 /\ LeaseTTL + runZ'[q][u] <= ttl'.run[q]
      BY <1>3, <1>4, <2>3, <2>4, <2>5, <2>8, <2>9
   <2> QED BY <2>1, <2>10, <2>11, <2>12 DEF u, q
<1>14. /\ Members(tenantZ)' \subseteq Members(tenantZ)
       /\ \A q \in Runs : Members(runZ[q])' \subseteq Members(runZ[q])
   BY <1>9, <1>10 DEF Members
<1> QED BY <1>2, <1>11, <1>12, <1>13, <1>14, SetsShrinkKeepsInv

\* The set of one key after ZREMRANGEBYSCORE and ZADD of a fresh token.
LEMMA GrantedSet ==
    ASSUME NEW z \in Sets, NEW y, NEW t \in Tokens, z[t] = Gone,
           y = [Purge(z) EXCEPT ![t] = LeaseTTL]
    PROVE  /\ y \in Sets /\ y[t] = LeaseTTL
           /\ \A u \in Tokens : u # t /\ z[u] > 0 => y[u] = z[u]
           /\ Cardinality(Members(y)) = Cardinality(Members(Purge(z))) + 1
<1>1. LeaseTTL \in Scores /\ Gone \in Scores /\ LeaseTTL # Gone
   BY CapacityAssumption DEF CapacityAssumption, Scores, Gone
<1>2. /\ Purge(z) \in Sets
      /\ \A u \in Tokens : z[u] > 0 => Purge(z)[u] = z[u]
   BY PurgeIs
<1>3. Purge(z)[t] = Gone
   BY DEF Purge, Gone
<1>4. /\ y \in Sets /\ y[t] = LeaseTTL
      /\ \A u \in Tokens : u # t => y[u] = Purge(z)[u]
   BY <1>1, <1>2 DEF Sets
<1>5. Members(y) = Members(Purge(z)) \cup {t} /\ t \notin Members(Purge(z))
   BY <1>1, <1>3, <1>4 DEF Members
<1>6. Cardinality(Members(y)) = Cardinality(Members(Purge(z))) + 1
   BY <1>5, CountIsNat, FS_AddElement
<1> QED BY <1>2, <1>4, <1>6

LEMMA AcquireGrantedKeepsInv ==
    ASSUME CapacityInv, NEW w \in Workers, NEW r \in Runs, NEW t \in Tokens,
           At(w, "idle"), Admissible(w, r), Fresh(t),
           tenantZ' = [Purge(tenantZ) EXCEPT ![t] = LeaseTTL],
           runZ' = [runZ EXCEPT ![r] = [Purge(runZ[r]) EXCEPT ![t] = LeaseTTL]],
           worker' = [worker EXCEPT ![w].pc = "executing", ![w].run = r, ![w].token = t],
           policyKey' = worker[w].policy,
           ttl' = [ttl EXCEPT !.tenant = KeyTTL, !.policy = KeyTTL, !.run[r] = KeyTTL],
           UNCHANGED envPolicy
    PROVE  CapacityInv'
<1> DEFINE m == [worker[w] EXCEPT !.pc = "executing", !.run = r, !.token = t]
           y == [Purge(runZ[r]) EXCEPT ![t] = LeaseTTL]
<1>1. CapacityTypeOK /\ tenantZ \in Sets /\ runZ \in [Runs -> Sets]
   BY DEF CapacityInv, CapacityTypeOK, Sets
<1>2. /\ tenantZ[t] = Gone /\ \A q \in Runs : runZ[q][t] = Gone
      /\ \A v \in Workers : Holding(v) => worker[v].token # t
   BY DEF Fresh
<1>3. worker[w] \in WorkerState
   BY <1>1 DEF CapacityTypeOK, WorkerState
<1>4. /\ m \in WorkerState /\ m.pc = "executing" /\ m.policy = worker[w].policy
      /\ m.token = t /\ m.run = r
   BY <1>3 DEF WorkerState, PCs
<1>5. worker' = [worker EXCEPT ![w] = m]
   BY <1>1 DEF CapacityTypeOK
<1> HIDE DEF m
<1>6. /\ worker' \in [Workers -> WorkerState] /\ worker'[w] = m
      /\ \A v \in Workers : v # w => worker'[v] = worker[v]
   BY <1>1, <1>4, <1>5, WorkerMoves
<1>7. /\ ttl' \in [tenant : 0..KeyTTL, policy : 0..KeyTTL, run : [Runs -> 0..KeyTTL]]
      /\ ttl'.tenant = KeyTTL /\ ttl'.policy = KeyTTL /\ ttl'.run[r] = KeyTTL
      /\ \A q \in Runs : q # r => ttl'.run[q] = ttl.run[q]
      /\ LeaseTTL \in 1..KeyTTL /\ LeaseTTL \in Scores
      /\ \A s \in Scores : LeaseTTL + s <= KeyTTL
   BY <1>1, KeysExtended
<1>8. /\ tenantZ' \in Sets /\ tenantZ'[t] = LeaseTTL
      /\ \A u \in Tokens : u # t /\ tenantZ[u] > 0 => tenantZ'[u] = tenantZ[u]
      /\ Cardinality(Members(tenantZ')) = Cardinality(Members(Purge(tenantZ))) + 1
   BY <1>1, <1>2, GrantedSet
<1>9. /\ y \in Sets /\ y[t] = LeaseTTL
      /\ \A u \in Tokens : u # t /\ runZ[r][u] > 0 => y[u] = runZ[r][u]
      /\ Cardinality(Members(y)) = Cardinality(Members(Purge(runZ[r]))) + 1
   <2>1. runZ[r] \in Sets /\ runZ[r][t] = Gone
      BY <1>1, <1>2
   <2> QED BY <2>1, GrantedSet
<1>10. runZ' = [runZ EXCEPT ![r] = y]
   OBVIOUS
<1> HIDE DEF y
<1>11. /\ runZ' \in [Runs -> Sets] /\ runZ'[r] = y
       /\ \A q \in Runs : q # r => runZ'[q] = runZ[q]
   BY <1>1, <1>9, <1>10
<1>12. /\ worker[w].policy = envPolicy /\ envPolicy # None
       /\ envPolicy \in Policies /\ envPolicy.tenant \in Nat /\ envPolicy.run \in Nat
   <2>1. worker[w].policy = envPolicy /\ envPolicy # None
      BY DEF CapacityInv, OnePolicy, At
   <2> QED BY <2>1, LimitsAreNat
<1>13. CapacityTypeOK'
   BY <1>1, <1>6, <1>7, <1>8, <1>11, <1>12 DEF CapacityTypeOK, WorkerState, Sets
<1>14. OnePolicy'
   BY <1>4, <1>6, <1>12 DEF CapacityInv, OnePolicy, At
<1>15. OwnToken'
   <2>1. ASSUME NEW v \in Workers, Holding(v)'
         PROVE  worker'[v].token \in Tokens /\ worker'[v].run \in Runs
      BY <1>4, <1>6, <2>1 DEF CapacityInv, OwnToken, Holding
   <2>2. ASSUME NEW v \in Workers, Holding(v)', v # w
         PROVE  worker'[v] = worker[v] /\ Holding(v) /\ worker[v].token # t
      BY <1>2, <1>6, <2>2 DEF Holding
   <2>3. ASSUME NEW v \in Workers, NEW x \in Workers, Holding(v)', Holding(x)', v # x
         PROVE  worker'[v].token # worker'[x].token
      BY <1>4, <1>6, <2>2, <2>3 DEF CapacityInv, OwnToken
   <2> QED BY <2>1, <2>3 DEF OwnToken
<1>16. Counted'
   <2>1. Cardinality(Members(tenantZ')) <= envPolicy.tenant
      <3>1. Cardinality(Members(Purge(tenantZ))) < envPolicy.tenant
         BY <1>12 DEF Admissible
      <3>2. Cardinality(Members(Purge(tenantZ))) \in Nat
         BY CountIsNat
      <3> QED BY <1>8, <1>12, <3>1, <3>2
   <2>2. ASSUME NEW q \in Runs PROVE Cardinality(Members(runZ'[q])) <= envPolicy.run
      <3>1. CASE q = r
         <4>1. Cardinality(Members(Purge(runZ[r]))) < envPolicy.run
            BY <1>12 DEF Admissible
         <4>2. Cardinality(Members(Purge(runZ[r]))) \in Nat
            BY CountIsNat
         <4>3. runZ'[q] = y
            BY <1>11, <3>1
         <4>4. Cardinality(Members(y)) <= envPolicy.run
            BY <1>9, <1>12, <4>1, <4>2
         <4> QED BY <4>3, <4>4
      <3>2. CASE q # r
         <4>1. Cardinality(Members(runZ[q])) <= envPolicy.run
            BY <1>12 DEF CapacityInv, Counted
         <4>2. runZ'[q] = runZ[q]
            BY <1>11, <3>2
         <4> QED BY <4>1, <4>2
      <3> QED BY <3>1, <3>2
   <2>3. \A q \in Runs : Members(runZ[q])' = Members(runZ'[q])
      BY DEF Members
   <2>4. Members(tenantZ)' = Members(tenantZ')
      BY DEF Members
   <2> QED BY <1>12, <2>1, <2>2, <2>3, <2>4 DEF Counted
<1>17. KeysOutlive'
   <2> SUFFICES ASSUME NEW v \in Workers, Punctual(v)'
                PROVE  LET u == worker'[v].token
                           q == worker'[v].run
                       IN  /\ tenantZ'[u] > 0 /\ LeaseTTL + tenantZ'[u] <= ttl'.tenant
                           /\ LeaseTTL + tenantZ'[u] <= ttl'.policy
                           /\ runZ'[q][u] > 0 /\ LeaseTTL + runZ'[q][u] <= ttl'.run[q]
                           /\ policyKey' = envPolicy'
      BY DEF KeysOutlive
   <2>1. CASE v = w
      <3>1. worker'[v].token = t /\ worker'[v].run = r
         BY <1>4, <1>6, <2>1
      <3>2. LeaseTTL > 0 /\ LeaseTTL + LeaseTTL <= KeyTTL
         BY <1>7
      <3>3. tenantZ'[t] = LeaseTTL /\ runZ'[r][t] = LeaseTTL /\ policyKey' = envPolicy'
         BY <1>8, <1>9, <1>11, <1>12
      <3> QED BY <1>7, <3>1, <3>2, <3>3
   <2>2. CASE v # w
      <3> DEFINE u == worker[v].token
                 q == worker[v].run
      <3>1. Punctual(v) /\ worker'[v] = worker[v]
         BY <1>6, <2>2 DEF Punctual, At
      <3>2. u # t /\ u \in Tokens /\ q \in Runs
         BY <1>2, <3>1 DEF CapacityInv, OwnToken, Holding, Punctual, At
      <3>3. tenantZ[u] > 0 /\ runZ[q][u] > 0 /\ LeaseTTL + runZ[q][u] <= ttl.run[q]
         BY <3>1 DEF CapacityInv, KeysOutlive
      <3> HIDE DEF u, q
      <3>4. tenantZ'[u] = tenantZ[u]
         BY <1>8, <3>2, <3>3
      <3>5. runZ'[q][u] = runZ[q][u]
         BY <1>9, <1>11, <3>2, <3>3
      <3>6. tenantZ[u] \in Scores /\ runZ[q][u] \in Scores
         BY <1>1, <3>2 DEF Sets
      <3>7. LeaseTTL + runZ'[q][u] <= ttl'.run[q]
         BY <1>7, <3>2, <3>3, <3>5, <3>6
      <3>8. LeaseTTL + tenantZ'[u] <= KeyTTL
         BY <1>7, <3>4, <3>6
      <3> QED BY <1>7, <1>12, <3>1, <3>3, <3>4, <3>5, <3>7, <3>8 DEF u, q
   <2> QED BY <2>1, <2>2
<1> QED BY <1>13, <1>14, <1>15, <1>16, <1>17 DEF CapacityInv

-----------------------------------------------------------------------------
LEMMA WorkerStepKeepsInv ==
    ASSUME CapacityInv, NEW w \in Workers, WorkerStep(w)
    PROVE  CapacityInv'
<1> DEFINE x == worker[w]
<1>1. x \in WorkerState /\ worker \in [Workers -> WorkerState]
   BY DEF CapacityInv, CapacityTypeOK, WorkerState
<1>2. x.pc # "off" => x.policy = envPolicy /\ envPolicy # None
   BY DEF CapacityInv, OnePolicy, At
<1>3. CASE \E p \in Policies : NewExecutionCapacity(w, p)
   BY <1>3, NewKeepsInv
<1>4. CASE \E r \in Runs : Acquire(w, r)
   <2>1. PICK r \in Runs : Acquire(w, r)
      BY <1>4
   <2>2. CASE ~Admissible(w, r)
      BY <2>1, <2>2, AcquireRefusedKeepsInv DEF Acquire
   <2>3. CASE Admissible(w, r)
      <3>1. PICK t \in Tokens :
               /\ Fresh(t)
               /\ tenantZ' = [Purge(tenantZ) EXCEPT ![t] = LeaseTTL]
               /\ runZ' = [runZ EXCEPT ![r] = [Purge(runZ[r]) EXCEPT ![t] = LeaseTTL]]
               /\ worker' = [worker EXCEPT ![w].pc = "executing", ![w].run = r, ![w].token = t]
         BY <2>1, <2>3 DEF Acquire
      <3>2. /\ At(w, "idle") /\ policyKey' = worker[w].policy /\ UNCHANGED envPolicy
            /\ ttl' = [ttl EXCEPT !.tenant = KeyTTL, !.policy = KeyTTL, !.run[r] = KeyTTL]
         BY <2>1, <2>3 DEF Acquire
      <3> QED BY <2>3, <3>1, <3>2, AcquireGrantedKeepsInv
   <2> QED BY <2>2, <2>3
<1>5. CASE Renew(w) /\ Renewable(w)
   BY <1>5, RenewedKeepsInv DEF Renew
<1>6. CASE (Renew(w) /\ ~Renewable(w)) \/ RenewError(w)
   <2> DEFINE m == [x EXCEPT !.pc = "cancelled", !.stalled = FALSE]
   <2>1. /\ x.pc = "executing" /\ UNCHANGED <<envPolicy, policyKey, tenantZ, runZ, ttl>>
         /\ worker' = [worker EXCEPT ![w].pc = "cancelled", ![w].stalled = FALSE]
      BY <1>6 DEF Renew, RenewError, At
   <2>2. /\ m \in WorkerState /\ m.pc = "cancelled" /\ m.policy = x.policy
         /\ m.token = x.token /\ m.run = x.run
      BY <1>1 DEF WorkerState, PCs
   <2>3. worker' = [worker EXCEPT ![w] = m]
      BY <1>1, <2>1
   <2> HIDE DEF m
   <2> QED BY <1>2, <2>1, <2>2, <2>3, LocalStepKeepsInv DEF Holding
<1>7. CASE Return(w)
   <2> DEFINE m == [x EXCEPT !.pc = "releasing", !.stalled = FALSE]
   <2>1. /\ x.pc \in {"executing", "cancelled"}
         /\ UNCHANGED <<envPolicy, policyKey, tenantZ, runZ, ttl>>
         /\ worker' = [worker EXCEPT ![w].pc = "releasing", ![w].stalled = FALSE]
      BY <1>7 DEF Return
   <2>2. /\ m \in WorkerState /\ m.pc = "releasing" /\ m.policy = x.policy
         /\ m.token = x.token /\ m.run = x.run
      BY <1>1 DEF WorkerState, PCs
   <2>3. worker' = [worker EXCEPT ![w] = m]
      BY <1>1, <2>1
   <2> HIDE DEF m
   <2> QED BY <1>2, <2>1, <2>2, <2>3, LocalStepKeepsInv DEF Holding
<1>8. CASE Release(w)
   BY <1>8, ReleaseKeepsInv
<1>9. CASE ReleaseLost(w)
   <2> DEFINE m == [x EXCEPT !.pc = "idle", !.run = None, !.token = None]
   <2>1. /\ x.pc = "releasing" /\ UNCHANGED <<envPolicy, policyKey, tenantZ, runZ, ttl>>
         /\ worker' = [worker EXCEPT ![w].pc = "idle", ![w].run = None, ![w].token = None]
      BY <1>9 DEF ReleaseLost, At
   <2>2. m \in WorkerState /\ m.pc = "idle" /\ m.policy = x.policy
      BY <1>1 DEF WorkerState, PCs
   <2>3. worker' = [worker EXCEPT ![w] = m]
      BY <1>1, <2>1
   <2> HIDE DEF m
   <2> QED BY <1>2, <2>1, <2>2, <2>3, LocalStepKeepsInv
<1>10. CASE Crash(w)
   <2>1. Off \in WorkerState /\ Off.pc = "off"
      BY DEF Off, WorkerState, PCs
   <2>2. worker' = [worker EXCEPT ![w] = Off] /\ UNCHANGED <<envPolicy, policyKey, tenantZ, runZ, ttl>>
      BY <1>10 DEF Crash
   <2> QED BY <2>1, <2>2, LocalStepKeepsInv
<1>11. CASE Stall(w)
   <2> DEFINE m == [x EXCEPT !.stalled = TRUE]
   <2>1. /\ x.pc = "executing" /\ UNCHANGED <<envPolicy, policyKey, tenantZ, runZ, ttl>>
         /\ worker' = [worker EXCEPT ![w].stalled = TRUE]
      BY <1>11 DEF Stall, At
   <2>2. /\ m \in WorkerState /\ m.pc = x.pc /\ m.policy = x.policy /\ m.stalled = TRUE
         /\ m.token = x.token /\ m.run = x.run
      BY <1>1 DEF WorkerState, PCs
   <2>3. worker' = [worker EXCEPT ![w] = m]
      BY <1>1, <2>1
   <2> HIDE DEF m
   <2> QED BY <1>2, <2>1, <2>2, <2>3, LocalStepKeepsInv DEF Holding
<1> QED
   BY <1>3, <1>4, <1>5, <1>6, <1>7, <1>8, <1>9, <1>10, <1>11 DEF WorkerStep

LEMMA CapacityNext == CapacityInv /\ [Next]_vars => CapacityInv'
<1> SUFFICES ASSUME CapacityInv, [Next]_vars PROVE CapacityInv'
   OBVIOUS
<1>1. CASE Tick
   BY <1>1, TickKeepsInv
<1>2. CASE \E w \in Workers : WorkerStep(w)
   BY <1>2, WorkerStepKeepsInv
<1>3. CASE UNCHANGED vars
   BY <1>3 DEF vars, CapacityInv, CapacityTypeOK, OnePolicy, OwnToken, Counted, KeysOutlive,
      At, Holding, Punctual, Members
<1> QED BY <1>1, <1>2, <1>3 DEF Next

LEMMA CapacityInvariance == Spec => []CapacityInv
BY CapacityInit, CapacityNext, PTL DEF Spec

\* Goroutines that hold different members of a set are no more than its members.
LEMMA HoldersCounted ==
    ASSUME CapacityInv, NEW W \in SUBSET Workers, NEW z,
           \A w \in W : Holding(w) /\ worker[w].token \in Members(z)
    PROVE  Cardinality(W) \in Nat /\ Cardinality(W) <= Cardinality(Members(z))
<1> DEFINE f == [w \in W |-> worker[w].token]
           M == Members(z)
<1>1. IsFiniteSet(M)
   BY CountIsNat
<1>2. \A w \in W : worker[w].token \in M
   OBVIOUS
<1>3. \A v, w \in W : f[v] = f[w] => v = w
   BY DEF CapacityInv, OwnToken
<1> HIDE DEF M
<1>4. f \in [W -> M]
   BY <1>2
<1> HIDE DEF f
<1>5. f \in Injection(W, M)
   BY <1>3, <1>4 DEF Injection, IsInjective
<1>6. IsFiniteSet(W) /\ Cardinality(W) <= Cardinality(M)
   BY <1>1, <1>5, FS_Injection
<1>7. Cardinality(W) \in Nat
   BY <1>6, FS_CardinalityType
<1> QED BY <1>6, <1>7 DEF M

\* Every set, count and time is of its type.
THEOREM CapacityTypeCorrect == Spec => []CapacityTypeOK
<1>1. CapacityInv => CapacityTypeOK
   BY DEF CapacityInv
<1> QED BY <1>1, CapacityInvariance, PTL

\* Acquire and Renew: the goroutines that run within their lease are within the
\* published limits, for any number of processes, runs and policies, crashes and
\* releases that are lost.
THEOREM LimitsAreKept == Spec => []LimitsHold
<1>1. CapacityInv => LimitsHold
   <2> SUFFICES ASSUME CapacityInv PROVE LimitsHold
      OBVIOUS
   <2> DEFINE active == {w \in Workers : Punctual(w)}
   <2>1. ASSUME NEW w \in active
         PROVE  /\ Holding(w) /\ worker[w].run \in Runs /\ envPolicy # None
                /\ worker[w].token \in Members(tenantZ)
                /\ worker[w].token \in Members(runZ[worker[w].run])
      <3>1. Holding(w) /\ worker[w].token \in Tokens /\ worker[w].run \in Runs /\ envPolicy # None
         BY DEF CapacityInv, OwnToken, OnePolicy, Holding, Punctual, At
      <3>2. tenantZ[worker[w].token] > 0 /\ runZ[worker[w].run][worker[w].token] > 0
         BY DEF CapacityInv, KeysOutlive
      <3>3. ~(Gone > 0)
         BY DEF Gone
      <3> QED BY <3>1, <3>2, <3>3 DEF Members
   <2>2. ASSUME active # {} PROVE Cardinality(active) <= envPolicy.tenant
      <3>1. envPolicy # None /\ envPolicy.tenant \in Nat
         BY <2>1, <2>2, LimitsAreNat
      <3>2. Cardinality(active) \in Nat /\ Cardinality(active) <= Cardinality(Members(tenantZ))
         BY <2>1, HoldersCounted
      <3>3. Cardinality(Members(tenantZ)) <= envPolicy.tenant
         BY <3>1 DEF CapacityInv, Counted
      <3>4. Cardinality(Members(tenantZ)) \in Nat
         BY CountIsNat
      <3> HIDE DEF active
      <3> QED BY <3>1, <3>2, <3>3, <3>4
   <2>3. ASSUME NEW r \in Runs, {w \in active : worker[w].run = r} # {}
         PROVE  Cardinality({w \in active : worker[w].run = r}) <= envPolicy.run
      <3> DEFINE A == {w \in active : worker[w].run = r}
      <3>1. envPolicy # None /\ envPolicy.run \in Nat
         BY <2>1, <2>3, LimitsAreNat
      <3>2. Cardinality(A) \in Nat /\ Cardinality(A) <= Cardinality(Members(runZ[r]))
         BY <2>1, HoldersCounted
      <3>3. Cardinality(Members(runZ[r])) <= envPolicy.run
         BY <3>1 DEF CapacityInv, Counted
      <3>4. Cardinality(Members(runZ[r])) \in Nat
         BY CountIsNat
      <3> HIDE DEF A
      <3>5. Cardinality(A) <= envPolicy.run
         BY <3>1, <3>2, <3>3, <3>4
      <3> QED BY <3>5 DEF A
   <2> QED BY <2>2, <2>3 DEF LimitsHold, Within
<1> QED BY <1>1, CapacityInvariance, PTL

\* PEXPIRE and the ticker: a goroutine that renews in time never loses its slot.
THEOREM HealthyIsNotCancelled == Spec => []HealthyKeepsSlot
<1>1. CapacityInv => HealthyKeepsSlot
   BY DEF CapacityInv, OnePolicy, KeysOutlive, HealthyKeepsSlot, Renewable, Punctual, At
<1> QED BY <1>1, CapacityInvariance, PTL
=============================================================================
