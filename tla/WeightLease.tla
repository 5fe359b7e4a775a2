---------------------------- MODULE WeightLease ----------------------------
(***************************************************************************)
(* What the voter weight records promise governance, without accounts,     *)
(* signers or instructions: a voter who is eligible can take a lease on    *)
(* one vote, for every action during a window of slots or for one action   *)
(* on one target in the current slot.  Taking a lease replaces the one     *)
(* held before, losing eligibility does not end it, the clock does.  A     *)
(* voter may be barred and readmitted: meanwhile the lease runs on, but it *)
(* does not count, and can neither be renewed nor given up.                *)
(***************************************************************************)
EXTENDS Integers

CONSTANTS
    Voter,
    Scope,          \* what a lease may be for
    AnyAction,      \* the scope of a lease for every action
    Window,         \* slots a lease for every action lasts beyond its own
    LastSlot,       \* the clock's last slot, which no lease passes
    None

VARIABLES
    slot,
    eligible,       \* whether each voter is eligible now
    lease,          \* each voter's lease that still runs, or None
    barred          \* the voters whose lease does not count

leaseVars == <<slot, eligible, lease, barred>>

Until(scope) ==
    IF scope # AnyAction THEN slot
    ELSE IF slot + Window <= LastSlot THEN slot + Window
    ELSE LastSlot

\* The leases that have not run out by slot s.
Running(s) ==
    [v \in Voter |-> IF lease[v] # None /\ lease[v].until < s THEN None ELSE lease[v]]

Init == /\ slot \in 0 .. LastSlot
        /\ eligible \in [Voter -> BOOLEAN]
        /\ lease = [v \in Voter |-> None]
        /\ barred = {}

\* The world moves: slots pass one by one, and anyone's eligibility may change.
Environment == /\ slot' \in {slot, slot + 1}
               /\ eligible' \in [Voter -> BOOLEAN]
               /\ lease' = Running(slot')
               /\ UNCHANGED barred

Take(v, scope) ==
    /\ eligible[v]
    /\ v \notin barred
    /\ lease' = [lease EXCEPT ![v] = [scope |-> scope, until |-> Until(scope)]]
    /\ UNCHANGED <<slot, eligible, barred>>

GiveUp(v) == /\ v \notin barred
             /\ lease' = [lease EXCEPT ![v] = None]
             /\ UNCHANGED <<slot, eligible, barred>>

Bar(v) == /\ barred' = barred \union {v}
          /\ UNCHANGED <<slot, eligible, lease>>

Readmit(v) == /\ barred' = barred \ {v}
              /\ UNCHANGED <<slot, eligible, lease>>

Next == \/ Environment
        \/ \E v \in Voter : \/ GiveUp(v)
                            \/ Bar(v)
                            \/ Readmit(v)
                            \/ \E scope \in Scope : Take(v, scope)

Spec == Init /\ [][Next]_leaseVars
=============================================================================
