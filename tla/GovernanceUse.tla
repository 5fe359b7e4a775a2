--------------------------- MODULE GovernanceUse ---------------------------
(***************************************************************************)
(* Voter weight records as spl-governance uses them.  It reads a record in *)
(* a transaction of its own or in the one that updated it, and accepts it  *)
(* for an action on a target when it has not expired and is not bound to   *)
(* something else; reading changes nothing.                                *)
(*                                                                         *)
(* Two history variables remember what no account does: the last slot in   *)
(* which each voter was eligible, and what each voter last asked for.      *)
(***************************************************************************)
EXTENDS VoterWeight

VARIABLES
    lastEligible,   \* last slot in which the record's voter was eligible
    requested       \* scope and slot of the last update of the record

useVars == <<voterVars, lastEligible, requested>>

\* Scopes of an update: any action at all, or one action on one target.
AnyAction == <<>>

Scope == {AnyAction} \union (WeightActionArg \X Target)

Request == [scope : Scope, slot : U64]

ASSUME RequestAssumption == None \notin Request

UseTypeOK ==
    /\ VoterTypeOK
    /\ lastEligible \in [VoterWeightRecordAddress -> Option(U64)]
    /\ requested \in [VoterWeightRecordAddress -> Option(Request)]

\* spl-governance's check of a voter weight record, for an action that asks for a
\* weight of at least one.
Accepts(v, action, target) ==
    /\ vwr[v] # None
    /\ vwr[v].voter_weight >= 1
    /\ \/ vwr[v].voter_weight_expiry = None
       \/ vwr[v].voter_weight_expiry >= clock.slot
    /\ vwr[v].weight_action \in {None, action}
    /\ vwr[v].weight_action_target \in {None, target}

-----------------------------------------------------------------------------
UseInit ==
    /\ VoterInit
    /\ lastEligible = [v \in VoterWeightRecordAddress |-> None]
    /\ requested = [v \in VoterWeightRecordAddress |-> None]

Ask(v, scope) ==
    requested' = [requested EXCEPT ![v] = [scope |-> scope, slot |-> clock.slot]]

\* Eligibility is noted in the state each step leads to.
NoteEligible ==
    lastEligible' = [v \in VoterWeightRecordAddress |->
                        IF Eligible(v)' THEN clock'.slot ELSE lastEligible[v]]

UseNext ==
    /\ \/ RegistrarNext /\ UNCHANGED <<vwr, requested>>
       \/ Create /\ UNCHANGED requested
       \/ \E v \in VoterWeightRecordAddress :
              \/ Update(v) /\ Ask(v, AnyAction)
              \/ \E a \in WeightActionArg, t \in Target :
                     UpdateForAction(v, a, t) /\ Ask(v, <<a, t>>)
              \/ Close(v) /\ requested' = [requested EXCEPT ![v] = None]
    /\ NoteEligible

UseSpec == UseInit /\ [][UseNext]_useVars

-----------------------------------------------------------------------------
\* How long a weight outlives eligibility.  Whatever makes a voter ineligible (a
\* lapsed verification, a lower score, a stricter or a closed registrar), no
\* record of theirs is accepted later than the window after the last slot in
\* which they were eligible; and one bound to an action is accepted only in a
\* slot in which they were.
RevocationBound ==
    \A v \in VoterWeightRecordAddress, a \in WeightActionArg, t \in Target :
        Accepts(v, a, t) =>
            /\ lastEligible[v] # None
            /\ clock.slot <= lastEligible[v] + VOTER_WEIGHT_EXPIRY_SLOT_WINDOW
            /\ vwr[v].weight_action # None => lastEligible[v] = clock.slot

\* A record is accepted for exactly what its voter last asked for: for any action
\* while the window of a standalone update is open, for the one action on the
\* one target in the slot of an action-bound update.  So an update is never
\* refused in its own transaction, a later update replaces an earlier one
\* entirely, and neither outlives its slots.
AcceptedAsRequested ==
    \A v \in VoterWeightRecordAddress, a \in WeightActionArg, t \in Target :
        Accepts(v, a, t) <=>
            /\ requested[v] # None
            /\ \/ /\ requested[v].scope = AnyAction
                  /\ clock.slot <= requested[v].slot + VOTER_WEIGHT_EXPIRY_SLOT_WINDOW
               \/ /\ requested[v].scope = <<a, t>>
                  /\ clock.slot = requested[v].slot
=============================================================================
