----------------------------- MODULE VoterLease -----------------------------
(***************************************************************************)
(* The voter weight records implement WeightLease.  A record stands for a  *)
(* lease while its weight is positive and it has not expired.  Governance  *)
(* accepts it of the voter in its address unless the owner it names is     *)
(* another, which bars that voter.  A fresh, an expired and a closed       *)
(* record stand for no lease, and nothing that happens to registrars,      *)
(* realms, identities or balances is more than a change of eligibility.    *)
(***************************************************************************)
EXTENDS VoterWeight

LeaseScope == {<<>>} \union (WeightActionArg \X Target)

\* The lease a voter's record stands for.
LeaseOf(v, record) ==
    IF \/ record = None
       \/ record.voter_weight = 0
       \/ record.voter_weight_expiry < clock.slot
      THEN None
      ELSE [scope |-> IF record.weight_action = None
                        THEN <<>>
                        ELSE <<record.weight_action, record.weight_action_target>>,
            until |-> record.voter_weight_expiry]

\* The voters whose record is not theirs: module VoterWeightPlugin has the one
\* instruction that makes it so.
Barred ==
    {v \in VoterWeightRecordAddress :
        vwr[v] # None /\ vwr[v].governing_token_owner # v[3]}

Lease == INSTANCE WeightLease WITH
    Voter <- VoterWeightRecordAddress,
    Scope <- LeaseScope,
    AnyAction <- <<>>,
    Window <- VOTER_WEIGHT_EXPIRY_SLOT_WINDOW,
    LastSlot <- U64_MAX,
    slot <- clock.slot,
    eligible <- [v \in VoterWeightRecordAddress |-> Eligible(v)],
    lease <- [v \in VoterWeightRecordAddress |-> LeaseOf(v, vwr[v])],
    barred <- Barred

\* Every behaviour of the registrar and voter instructions, under any changes of
\* the chain around them, is one of leases taken by eligible voters: no update,
\* re-creation, close, registrar change or combination of accounts makes a record
\* acceptable in any other way, extends a lease the voter did not take again, or
\* lets one vanish other than by running out or being given up.  What bars a voter
\* leaves the lease as it is.
ImplementsLease == Lease!Spec
=============================================================================
