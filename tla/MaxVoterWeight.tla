--------------------------- MODULE MaxVoterWeight ---------------------------
(***************************************************************************)
(* Max voter weight records: the quorum denominator of a realm and mint,   *)
(* created at zero and expired, then set by the realm's authority.  No     *)
(* instruction closes one.  There are no other records here: that the      *)
(* update may also be given a voter weight record is in module             *)
(* VoterWeightPlugin, and why it loads as one in module RecordCodec.       *)
(***************************************************************************)
EXTENDS Registrar

CONSTANTS
    MaxVoterWeightArg,  \* max_voter_weight arguments of the admin
    RENT_MAX            \* rent of MaxVoterWeightRecord::get_space()

ASSUME MaxVoterWeightAssumption == MaxVoterWeightArg \subseteq U64 /\ RENT_MAX \in Nat

VARIABLE maxvwr     \* max voter weight records by address

maxVars == <<registrarVars, maxvwr>>

\* ["max-voter-weight-record", realm, mint]
MaxVoterWeightRecordAddress == Realm \X Mint

MaxTypeOK ==
    /\ RegistrarTypeOK
    /\ maxvwr \in [MaxVoterWeightRecordAddress -> Option(MaxVoterWeightRecord)]

MaxInit == /\ RegistrarInit
           /\ maxvwr = [x \in MaxVoterWeightRecordAddress |-> None]

-----------------------------------------------------------------------------
\* What create_max_voter_weight_record writes: a zero that is already expired.
FreshMaxRecord(reg) == [realm |-> reg.realm,
                        governing_token_mint |-> reg.governing_token_mint,
                        max_voter_weight |-> 0,
                        max_voter_weight_expiry |-> 0]

\* Mutant: the record's realm is not compared.
MaxRecordUnder_any_realm(k, x) ==
    /\ IsRegistrar(k)
    /\ maxvwr[x] # None
    /\ maxvwr[x].governing_token_mint = registrar[k].governing_token_mint

\* The constraints on max_voter_weight_record: it exists, and its realm and mint
\* are the registrar's.
MaxRecordUnder(k, x) ==
    /\ IsRegistrar(k)
    /\ maxvwr[x] # None
    /\ maxvwr[x].realm = registrar[k].realm
    /\ maxvwr[x].governing_token_mint = registrar[k].governing_token_mint

\* Mutant: init_if_needed in place of init.
create_max_voter_weight_record_again(k, r, signer, payer) ==
    /\ IsRegistrar(k)
    /\ AdminOf(k, r, signer)
    /\ PayRent(payer, RENT_MAX)
    /\ maxvwr' = [maxvwr EXCEPT
                     ![<<registrar[k].realm, registrar[k].governing_token_mint>>] =
                         FreshMaxRecord(registrar[k])]
    /\ UNCHANGED <<clock, realm, identity, registrar>>

create_max_voter_weight_record(k, r, signer, payer) ==
    LET x == <<registrar[k].realm, registrar[k].governing_token_mint>>
    IN  /\ IsRegistrar(k)
        /\ maxvwr[x] = None
        /\ AdminOf(k, r, signer)
        /\ PayRent(payer, RENT_MAX)
        /\ maxvwr' = [maxvwr EXCEPT ![x] = FreshMaxRecord(registrar[k])]
        /\ UNCHANGED <<clock, realm, identity, registrar>>

\* Mutant: zero is a weight like any other.
update_max_voter_weight_record_any(k, x, r, signer, max_voter_weight) ==
    /\ MaxRecordUnder(k, x)
    /\ AdminOf(k, r, signer)
    /\ maxvwr' = [maxvwr EXCEPT ![x].max_voter_weight = max_voter_weight,
                                ![x].max_voter_weight_expiry = None]
    /\ UNCHANGED registrarVars

update_max_voter_weight_record(k, x, r, signer, max_voter_weight) ==
    /\ MaxRecordUnder(k, x)
    /\ max_voter_weight > 0
    /\ AdminOf(k, r, signer)
    /\ maxvwr' = [maxvwr EXCEPT ![x].max_voter_weight = max_voter_weight,
                                ![x].max_voter_weight_expiry = None]
    /\ UNCHANGED registrarVars

MaxInstruction ==
    \E k \in RegistrarAddress, r \in Realm, signer \in Key :
        \/ \E payer \in Key : create_max_voter_weight_record(k, r, signer, payer)
        \/ \E x \in MaxVoterWeightRecordAddress, weight \in MaxVoterWeightArg :
               update_max_voter_weight_record(k, x, r, signer, weight)

MaxNext == \/ RegistrarNext /\ UNCHANGED maxvwr
           \/ MaxInstruction

MaxSpec == MaxInit /\ [][MaxNext]_maxVars

-----------------------------------------------------------------------------
\* A max voter weight record that governance would accept (it never expires, or
\* has not yet) is never zero, so that no quorum is ever computed over a zero
\* denominator.  The exception is slot 0, in which a new record is not expired.
LiveQuorumPositive ==
    \A x \in MaxVoterWeightRecordAddress :
        (/\ maxvwr[x] # None
         /\ clock.slot > 0
         /\ \/ maxvwr[x].max_voter_weight_expiry = None
            \/ maxvwr[x].max_voter_weight_expiry >= clock.slot)
          => maxvwr[x].max_voter_weight > 0

\* Once set, the denominator stays set: it never expires, disappears or returns
\* to zero, not even when its registrar is closed and created again.
QuorumStaysSet ==
    [][\A x \in MaxVoterWeightRecordAddress :
           (maxvwr[x] # None /\ maxvwr[x].max_voter_weight_expiry = None)
             => /\ maxvwr'[x] # None
                /\ maxvwr'[x].max_voter_weight_expiry = None
                /\ maxvwr'[x].max_voter_weight > 0]_maxVars

\* The denominator of a realm moves only while that realm has an authority and a
\* registrar for that mint: the authority of another realm cannot move it, and
\* closing the registrar pins it.
QuorumNeedsRegistrar ==
    [][\A x \in MaxVoterWeightRecordAddress :
           maxvwr'[x] # maxvwr[x]
             => registrar[x] # None /\ realm[x[1]].authority # None]_maxVars
=============================================================================
