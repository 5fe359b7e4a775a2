----------------------------- MODULE Registrar -----------------------------
(***************************************************************************)
(* The registrar: one configuration per realm and governing token mint,    *)
(* written by the realm's authority and read by every other instruction.   *)
(***************************************************************************)
EXTENDS Chain

CONSTANTS
    MinTrustScoreArg,       \* min_trust_score arguments of the admin
    MaxVerificationAgeArg,  \* max_verification_age arguments of the admin
    RENT_REGISTRAR          \* rent of Registrar::LEN bytes

ASSUME RegistrarAssumption == /\ MinTrustScoreArg \subseteq Nat
                              /\ MaxVerificationAgeArg \subseteq I64
                              /\ RENT_REGISTRAR \in Nat

VARIABLE registrar  \* registrar accounts by address, None where there is none

\* Every registrar and every account of the chain has its type.
RegistrarTypeOK == /\ ChainTypeOK
                   /\ registrar \in [RegistrarAddress -> Option(RegistrarAccount)]

RegistrarInit == /\ ChainInit
                 /\ registrar = [k \in RegistrarAddress |-> None]

\* `Account<Registrar>` with the registrar seeds: the account exists, and it is
\* at the address its own fields derive.
IsRegistrar(k) == /\ registrar[k] # None
                  /\ k = <<registrar[k].realm, registrar[k].governing_token_mint>>

\* Mutant: the realm account passed need not be the registrar's.
AdminOf_any_realm(k, r, signer) ==
    RealmAuthoritySigned(registrar[k].governance_program_id, r,
                         registrar[k].governing_token_mint, signer)

\* The account constraint `realm.key() == registrar.realm` and the authority
\* check that update_registrar, close_registrar and both max voter weight
\* instructions share.
AdminOf(k, r, signer) ==
    /\ r = registrar[k].realm
    /\ RealmAuthoritySigned(registrar[k].governance_program_id, r,
                            registrar[k].governing_token_mint, signer)

-----------------------------------------------------------------------------
create_registrar(program, r, mint, signer, payer, score, age) ==
    /\ registrar[<<r, mint>>] = None
    /\ GovernanceOf[r] = program
    /\ age > 0
    /\ RealmAuthoritySigned(program, r, mint, signer)
    /\ PayRent(payer, RENT_REGISTRAR)
    /\ registrar' = [registrar EXCEPT ![<<r, mint>>] =
                        [governance_program_id |-> program,
                         realm |-> r,
                         governing_token_mint |-> mint,
                         min_trust_score |-> score,
                         max_verification_age |-> age]]
    /\ UNCHANGED <<clock, realm, identity>>

\* Mutant: only create_registrar validates the age.
update_registrar_any_age(k, r, signer, score, age) ==
    /\ IsRegistrar(k)
    /\ AdminOf(k, r, signer)
    /\ registrar' = [registrar EXCEPT ![k].min_trust_score = score,
                                      ![k].max_verification_age = age]
    /\ UNCHANGED chainVars

update_registrar(k, r, signer, score, age) ==
    /\ IsRegistrar(k)
    /\ age > 0
    /\ AdminOf(k, r, signer)
    /\ registrar' = [registrar EXCEPT ![k].min_trust_score = score,
                                      ![k].max_verification_age = age]
    /\ UNCHANGED chainVars

close_registrar(k, r, signer, sol_destination) ==
    /\ IsRegistrar(k)
    /\ AdminOf(k, r, signer)
    /\ RefundRent(sol_destination, RENT_REGISTRAR)
    /\ registrar' = [registrar EXCEPT ![k] = None]
    /\ UNCHANGED <<clock, realm, identity>>

RegistrarInstruction ==
    \E r \in Realm, signer, wallet \in Key :
        \/ \E program \in Program, mint \in Mint,
              score \in MinTrustScoreArg, age \in MaxVerificationAgeArg :
               create_registrar(program, r, mint, signer, wallet, score, age)
        \/ \E k \in RegistrarAddress,
              score \in MinTrustScoreArg, age \in MaxVerificationAgeArg :
               update_registrar(k, r, signer, score, age)
        \/ \E k \in RegistrarAddress : close_registrar(k, r, signer, wallet)

RegistrarNext == \/ ChainNext /\ UNCHANGED registrar
                 \/ RegistrarInstruction

registrarVars == <<chainVars, registrar>>

RegistrarSpec == RegistrarInit /\ [][RegistrarNext]_registrarVars

-----------------------------------------------------------------------------
\* What the rest of the plugin relies on: a registrar's fields are the seeds of
\* its own address, its governance program is the one that owns the realm, and
\* its maximum age is positive, so that create_registrar and update_registrar
\* never lock every voter out.
RegistrarSound ==
    \A k \in RegistrarAddress :
        registrar[k] # None =>
            /\ k = <<registrar[k].realm, registrar[k].governing_token_mint>>
            /\ registrar[k].governance_program_id = GovernanceOf[k[1]]
            /\ registrar[k].max_verification_age > 0

\* Whoever is the authority of another realm, a realm that has given up its own
\* authority keeps its registrars as they are, for good: nothing creates,
\* changes or closes one.
FrozenWithoutAuthority ==
    [][\A k \in RegistrarAddress :
           realm[k[1]].authority = None =>
               /\ realm'[k[1]].authority = None
               /\ registrar'[k] = registrar[k]]_registrarVars

\* A registrar account only changes while its mint still governs its realm: once
\* a council mint is removed its registrar can be neither updated nor closed.
ChangesOnlyWithMint ==
    [][\A k \in RegistrarAddress :
           registrar'[k] # registrar[k] =>
               k[2] = CommunityMint[k[1]] \/ k[2] = realm[k[1]].council_mint]_registrarVars
=============================================================================
