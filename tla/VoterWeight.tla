---------------------------- MODULE VoterWeight ----------------------------
(***************************************************************************)
(* Voter weight records: one account per realm, mint and wallet, created   *)
(* expired, renewed through the gate of module Eligibility for a window of *)
(* slots or for one action in the current slot, closed by its voter.       *)
(*                                                                         *)
(* Every account of an instruction is an argument of its own: the caller   *)
(* picks the registrar, the record, the signer and the remaining accounts, *)
(* and only the constraints of the code tie them together.                 *)
(***************************************************************************)
EXTENDS Registrar, Eligibility

CONSTANTS
    VOTER_WEIGHT_EXPIRY_SLOT_WINDOW,    \* slots a standalone update is good for
    WeightActionArg,                    \* weight_action arguments of voters
    RENT_VWR                            \* rent of VoterWeightRecord::get_space()

ASSUME VoterWeightAssumption ==
    /\ VOTER_WEIGHT_EXPIRY_SLOT_WINDOW \in U64
    /\ WeightActionArg \subseteq VoterWeightAction
    /\ U64_MAX >= 1
    /\ RENT_VWR \in Nat

VARIABLE vwr    \* voter weight records by address, None where there is none

voterVars == <<registrarVars, vwr>>

\* Every account has its type after every instruction; in particular the expiry
\* that update_voter_weight_record computes stays in u64 up to the last slot.
VoterTypeOK ==
    /\ RegistrarTypeOK
    /\ vwr \in [VoterWeightRecordAddress -> Option(VoterWeightRecord)]

VoterInit == /\ RegistrarInit
             /\ vwr = [v \in VoterWeightRecordAddress |-> None]

-----------------------------------------------------------------------------
\* Mutant: an addition that leaves u64.
saturating_add_unbounded(a, b) == a + b

\* u64::saturating_add
saturating_add(a, b) == IF a + b > U64_MAX THEN U64_MAX ELSE a + b

\* Mutant: two arms of the match exchanged.
into_swapped(weight_action) ==
    [CastVote |-> "CommentProposal",
     CommentProposal |-> "CastVote",
     CreateGovernance |-> "CreateGovernance",
     CreateProposal |-> "CreateProposal",
     SignOffProposal |-> "SignOffProposal"][weight_action]

\* From<VoterWeightAction>: each variant becomes the variant of the same name
\* of spl_governance_addin_api's enum, the one the record holds.
into(weight_action) ==
    [CastVote |-> "CastVote",
     CommentProposal |-> "CommentProposal",
     CreateGovernance |-> "CreateGovernance",
     CreateProposal |-> "CreateProposal",
     SignOffProposal |-> "SignOffProposal"][weight_action]

\* What a caller may pass as remaining_accounts: nothing, or the account at some
\* wallet's identity address.
RemainingAccounts == {<<>>} \union {<<IdentityInfo(w, identity[w])>> : w \in Key}

\* Mutant: any registrar of the realm will do.
RecordUnder_any_mint(k, v) ==
    /\ IsRegistrar(k)
    /\ vwr[v] # None
    /\ vwr[v].realm = registrar[k].realm

\* The constraints on voter_weight_record: the account exists, and its realm and
\* mint are the registrar's.  Its address is not derived again.
RecordUnder(k, v) ==
    /\ IsRegistrar(k)
    /\ vwr[v] # None
    /\ vwr[v].realm = registrar[k].realm
    /\ vwr[v].governing_token_mint = registrar[k].governing_token_mint

-----------------------------------------------------------------------------
\* What create_voter_weight_record writes: no weight, and an expiry in the past.
FreshRecord(reg, owner) ==
    [realm |-> reg.realm,
     governing_token_mint |-> reg.governing_token_mint,
     governing_token_owner |-> owner,
     voter_weight |-> 0,
     voter_weight_expiry |-> 0,
     weight_action |-> None,
     weight_action_target |-> None]

\* What either update writes, and what it leaves alone.
Renewed(v, expiry, action, target) ==
    [vwr EXCEPT ![v].voter_weight = 1,
                ![v].voter_weight_expiry = expiry,
                ![v].weight_action = action,
                ![v].weight_action_target = target]

\* Both updates call the gate with the record, the signer, the remaining accounts
\* and the clock, and fail when it does.
Verified(k, v, voter, remaining_accounts) ==
    verify_voter_identity_and_recency(
        registrar[k], vwr[v], voter, remaining_accounts,
        clock.unix_timestamp) = "Ok"

\* Mutant: the record is the signer's, whoever's address it is at.
create_voter_weight_record_for_signer(k, governing_token_owner, signer, payer) ==
    LET v == <<registrar[k].realm, registrar[k].governing_token_mint,
               governing_token_owner>>
    IN  /\ IsRegistrar(k)
        /\ vwr[v] = None
        /\ PayRent(payer, RENT_VWR)
        /\ vwr' = [vwr EXCEPT ![v] = FreshRecord(registrar[k], signer)]
        /\ UNCHANGED <<clock, realm, identity, registrar>>

create_voter_weight_record(k, governing_token_owner, signer, payer) ==
    LET v == <<registrar[k].realm, registrar[k].governing_token_mint,
               governing_token_owner>>
    IN  /\ IsRegistrar(k)
        /\ vwr[v] = None
        /\ signer = governing_token_owner
        /\ PayRent(payer, RENT_VWR)
        /\ vwr' = [vwr EXCEPT ![v] = FreshRecord(registrar[k], governing_token_owner)]
        /\ UNCHANGED <<clock, realm, identity, registrar>>

\* Mutant: an earlier binding is left in place.
update_voter_weight_record_keeps_binding(k, v, voter, remaining_accounts) ==
    /\ RecordUnder(k, v)
    /\ Verified(k, v, voter, remaining_accounts)
    /\ vwr' = Renewed(v, saturating_add(clock.slot, VOTER_WEIGHT_EXPIRY_SLOT_WINDOW),
                      vwr[v].weight_action, vwr[v].weight_action_target)
    /\ UNCHANGED registrarVars

update_voter_weight_record(k, v, voter, remaining_accounts) ==
    /\ RecordUnder(k, v)
    /\ Verified(k, v, voter, remaining_accounts)
    /\ vwr' = Renewed(v, saturating_add(clock.slot, VOTER_WEIGHT_EXPIRY_SLOT_WINDOW),
                      None, None)
    /\ UNCHANGED registrarVars

\* Mutant: the bound update is given the window of the general one.
update_voter_weight_record_for_action_windowed(k, v, voter, accounts, weight_action, target) ==
    /\ RecordUnder(k, v)
    /\ target # DefaultPubkey
    /\ Verified(k, v, voter, accounts)
    /\ vwr' = Renewed(v, saturating_add(clock.slot, VOTER_WEIGHT_EXPIRY_SLOT_WINDOW),
                      into(weight_action), target)
    /\ UNCHANGED registrarVars

update_voter_weight_record_for_action(k, v, voter, accounts, weight_action, target) ==
    /\ RecordUnder(k, v)
    /\ target # DefaultPubkey
    /\ Verified(k, v, voter, accounts)
    /\ vwr' = Renewed(v, clock.slot, into(weight_action), target)
    /\ UNCHANGED registrarVars

\* Mutant: the account is emptied but its lamports go nowhere.
close_voter_weight_record_without_refund(k, v, voter, sol_destination) ==
    /\ RecordUnder(k, v)
    /\ vwr[v].governing_token_owner = voter
    /\ vwr' = [vwr EXCEPT ![v] = None]
    /\ UNCHANGED registrarVars

close_voter_weight_record(k, v, voter, sol_destination) ==
    /\ RecordUnder(k, v)
    /\ vwr[v].governing_token_owner = voter
    /\ RefundRent(sol_destination, RENT_VWR)
    /\ vwr' = [vwr EXCEPT ![v] = None]
    /\ UNCHANGED <<clock, realm, identity, registrar>>

\* One action per instruction, over every set of accounts a caller may pass.
Create ==
    \E k \in RegistrarAddress, owner, signer, payer \in Key :
        create_voter_weight_record(k, owner, signer, payer)

Update(v) ==
    \E k \in RegistrarAddress, signer \in Key, accounts \in RemainingAccounts :
        update_voter_weight_record(k, v, signer, accounts)

UpdateForAction(v, action, target) ==
    \E k \in RegistrarAddress, signer \in Key, accounts \in RemainingAccounts :
        update_voter_weight_record_for_action(k, v, signer, accounts, action, target)

Close(v) ==
    \E k \in RegistrarAddress, signer, wallet \in Key :
        close_voter_weight_record(k, v, signer, wallet)

VoterInstruction ==
    \/ Create
    \/ \E v \in VoterWeightRecordAddress :
           \/ Update(v)
           \/ \E a \in WeightActionArg, t \in Target : UpdateForAction(v, a, t)
           \/ Close(v)

VoterNext == \/ RegistrarNext /\ UNCHANGED vwr
             \/ VoterInstruction

VoterSpec == VoterInit /\ [][VoterNext]_voterVars

-----------------------------------------------------------------------------
(***************************************************************************)
(* Eligibility as the chain knows it now: the voter named by a record's    *)
(* address passes the gate of that realm and mint.                         *)
(***************************************************************************)
Eligible(v) ==
    LET reg == registrar[<<v[1], v[2]>>]
    IN  /\ reg # None
        /\ GateOpen(reg, [governing_token_owner |-> v[3]], v[3],
                    <<IdentityInfo(v[3], identity[v[3]])>>, clock.unix_timestamp)

\* Some registrar and some identity account let the voter in the record's address
\* renew it.
CanRenew(v) ==
    \E k \in RegistrarAddress, accounts \in RemainingAccounts :
        RecordUnder(k, v) /\ Verified(k, v, v[3], accounts)

\* A record is at the address its realm, mint and owner derive.
AtItsAddress(v) ==
    v = <<vwr[v].realm, vwr[v].governing_token_mint, vwr[v].governing_token_owner>>

\* Every record is at its address, though only
\* create_voter_weight_record derives it: so "this record's registrar" and "this
\* record's voter" mean the same in every instruction that takes the fields'
\* word for it.
RecordAtItsAddress ==
    \A v \in VoterWeightRecordAddress : vwr[v] # None => AtItsAddress(v)

\* The three shapes of a record.  Fresh: no weight, expired from slot 1 on.
\* General: weight 1, for any action, for at most the window.  Action-bound:
\* weight 1, an action and a real target together, in the slot of its update
\* only.  Each expires.  One record never mixes them, whatever sequence of updates
\* wrote it: in particular a general update leaves no binding behind and a bound
\* one does not inherit the longer expiry.
RecordShape ==
    \A v \in VoterWeightRecordAddress :
        vwr[v] # None =>
            LET record == vwr[v]
                Fresh == /\ record.voter_weight = 0
                         /\ record.voter_weight_expiry = 0
                General == /\ record.voter_weight = 1
                           /\ record.voter_weight_expiry
                                <= clock.slot + VOTER_WEIGHT_EXPIRY_SLOT_WINDOW
                Bound == /\ record.voter_weight = 1
                         /\ record.voter_weight_expiry <= clock.slot
            IN  /\ record.voter_weight_expiry # None
                /\ \/ /\ record.weight_action = None
                      /\ record.weight_action_target = None
                      /\ Fresh \/ General
                   \/ /\ record.weight_action # None
                      /\ record.weight_action_target \notin {None, DefaultPubkey}
                      /\ Bound

\* What a record is good for.
Grant(record) == <<record.voter_weight, record.voter_weight_expiry,
                   record.weight_action, record.weight_action_target>>

\* The step gives a record a weight, or a weight for something else.
Gives(v) == /\ vwr'[v] # None
            /\ vwr'[v].voter_weight > 0
            /\ vwr[v] = None \/ Grant(vwr'[v]) # Grant(vwr[v])

\* Whenever a step gives or renews a weight, the wallet in the record's address
\* is eligible at that moment, under the registrar of the record's own realm and
\* mint and by its own identity account: no mix of registrar, record, signer and
\* remaining accounts that a caller can put together gets one otherwise.
RenewalRequiresEligibility ==
    [][\A v \in VoterWeightRecordAddress : Gives(v) => Eligible(v)]_voterVars

\* And the converse: a record whose voter is eligible can be renewed, by that
\* voter's own signature and identity account under some registrar, whatever has
\* happened to record and registrar before (updates of either kind, a registrar
\* closed and created again, other rules, an expiry long past).  No sequence of
\* registrar and voter instructions locks an eligible voter out; what
\* update_max_voter_weight_record can do is in module VoterWeightPlugin.
EligibleCanRenew ==
    \A v \in VoterWeightRecordAddress : (vwr[v] # None /\ Eligible(v)) => CanRenew(v)
=============================================================================
