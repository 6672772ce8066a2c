---------------------------- MODULE RunContract -----------------------------
(***************************************************************************)
(* What a durable agent run promises, without stores, leases, messages or  *)
(* processes: a plan is fixed once, the right to execute a step is granted *)
(* at most once and in the plan's order, a step's outcome is decided once, *)
(* only an executed step is completed, and the run closes once with the    *)
(* status its outcomes add up to.                                          *)
(***************************************************************************)
CONSTANT Steps

VARIABLES status,    \* "open", or the final status of the run
          planned,   \* a plan was fixed
          deps,      \* its dependencies
          granted,   \* steps whose execution right was granted
          outcome    \* what was decided of each step

contractVars == <<status, planned, deps, granted, outcome>>

\* "review": failed with an outcome nobody knows.
Outcomes == {"completed", "failed", "review", "skipped", "cancelled"}

ContractInit ==
    /\ status = "open" /\ planned = FALSE
    /\ deps = [s \in Steps |-> {}]
    /\ granted = {}
    /\ outcome = [s \in Steps |-> "open"]

FixPlan ==
    /\ status = "open" /\ ~planned /\ planned'
    /\ deps' \in [Steps -> SUBSET Steps]
    /\ UNCHANGED <<status, granted, outcome>>

Grant(s) ==
    /\ status = "open" /\ planned
    /\ s \notin granted /\ outcome[s] = "open"
    /\ \A d \in deps[s] : outcome[d] = "completed"
    /\ granted' = granted \cup {s}
    /\ UNCHANGED <<status, planned, deps, outcome>>

\* Only a granted step completes; a granted step is never skipped.
Decide(s, o) ==
    /\ status = "open" /\ planned /\ outcome[s] = "open"
    /\ o = "completed" => s \in granted
    /\ o = "skipped" => s \notin granted
    /\ outcome' = [outcome EXCEPT ![s] = o]
    /\ UNCHANGED <<status, planned, deps, granted>>

\* A step nobody can vouch for blocks the run.
Verdict ==
    LET With(O) == {s \in Steps : outcome[s] \in O} IN
    CASE With({"review"}) # {} -> "blocked"
      [] With({"completed"}) = Steps -> "completed"
      [] OTHER -> IF With({"completed"}) # {} THEN "partial" ELSE "failed"

Close ==
    /\ status = "open" /\ planned
    /\ \A s \in Steps : outcome[s] # "open"
    /\ status' = Verdict
    /\ UNCHANGED <<planned, deps, granted, outcome>>

\* No plan, nothing executed: the run fails.
GiveUp ==
    /\ status = "open" /\ ~planned
    /\ status' = "failed"
    /\ UNCHANGED <<planned, deps, granted, outcome>>

Stop ==
    /\ status = "open" /\ status' = "cancelled"
    /\ outcome' = [s \in Steps |-> IF planned /\ outcome[s] = "open"
                                   THEN "cancelled" ELSE outcome[s]]
    /\ UNCHANGED <<planned, deps, granted>>

ContractNext ==
    \/ FixPlan \/ Close \/ GiveUp \/ Stop
    \/ \E s \in Steps : Grant(s) \/ \E o \in Outcomes \ {"cancelled"} : Decide(s, o)

ContractSpec == ContractInit /\ [][ContractNext]_contractVars
=============================================================================
