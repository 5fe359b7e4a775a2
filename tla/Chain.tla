------------------------------- MODULE Chain -------------------------------
(***************************************************************************)
(* What surrounds the plugin on chain and moves without asking it: the     *)
(* clock, the realms of spl-governance, the identities written by Entros   *)
(* Anchor, and wallet balances.  None of it is code of this repository; it *)
(* is modelled from what the plugin reads of it.                           *)
(*                                                                         *)
(* An instruction either commits all of its effects or none: a failed      *)
(* check rolls the transaction back, so a failing call is no step at all,  *)
(* and two instructions never interleave on an account they both write.    *)
(***************************************************************************)
EXTENDS Accounts

CONSTANTS
    GovernanceOf,       \* the spl-governance instance that owns each realm
    CommunityMint,      \* each realm's community mint
    IdentityAccount,    \* contents an identity address may have
    FirstSlot,          \* the slot behaviours start in
    FirstTime,          \* and its unix_timestamp
    TimeStep,           \* seconds that may pass from a slot to the next
    LAST_TIME,          \* bound: the clock stops here
    InitialLamports     \* what every wallet starts with

ASSUME ChainAssumption ==
    /\ GovernanceOf \in [Realm -> Program]
    /\ CommunityMint \in [Realm -> Mint]
    /\ IdentityAccount \subseteq RawAccount
    /\ FirstSlot \in U64
    /\ FirstTime \in Nat
    /\ TimeStep \subseteq Nat
    /\ LAST_TIME \in Nat /\ FirstTime <= LAST_TIME /\ LAST_TIME <= I64_MAX
    /\ InitialLamports \in Nat

VARIABLES
    clock,      \* the Clock sysvar
    realm,      \* realm accounts: authority and council mint
    identity,   \* content of the account at IdentityPda(wallet)
    lamports    \* wallet balances

chainVars == <<clock, realm, identity, lamports>>

RealmAccount == [authority : Option(Key), council_mint : Option(Mint)]

ChainTypeOK ==
    /\ clock \in [slot : U64, unix_timestamp : 0 .. LAST_TIME]
    /\ realm \in [Realm -> RealmAccount]
    /\ identity \in [Key -> IdentityAccount]
    /\ lamports \in [Key -> Nat]

\* Any realms, and any identities, may be on chain before the plugin is.
ChainInit ==
    /\ clock = [slot |-> FirstSlot, unix_timestamp |-> FirstTime]
    /\ realm \in [Realm -> RealmAccount]
    /\ identity \in [Key -> IdentityAccount]
    /\ lamports = [w \in Key |-> InitialLamports]

-----------------------------------------------------------------------------
\* The next slot.  unix_timestamp is the cluster's estimate of wall-clock time:
\* it may stand still between slots and it may skip seconds.
tick ==
    \E seconds \in TimeStep :
        /\ clock.slot < U64_MAX
        /\ clock.unix_timestamp + seconds <= LAST_TIME
        /\ clock' = [slot |-> clock.slot + 1,
                     unix_timestamp |-> clock.unix_timestamp + seconds]
        /\ UNCHANGED <<realm, identity, lamports>>

\* Only an authority replaces an authority: a realm without one keeps none.
set_realm_authority(r, new_authority) ==
    /\ realm[r].authority # None
    /\ realm' = [realm EXCEPT ![r].authority = new_authority]
    /\ UNCHANGED <<clock, identity, lamports>>

\* The council mint is configured, and may be removed, by the authority.
set_realm_config(r, council_mint) ==
    /\ realm[r].authority # None
    /\ realm' = [realm EXCEPT ![r].council_mint = council_mint]
    /\ UNCHANGED <<clock, identity, lamports>>

\* Entros Anchor verifies, rescores, opens or closes the identity of a wallet.
write_identity(wallet, account) ==
    /\ identity' = [identity EXCEPT ![wallet] = account]
    /\ UNCHANGED <<clock, realm, lamports>>

ChainNext ==
    \/ tick
    \/ \E r \in Realm, a \in Option(Key) : set_realm_authority(r, a)
    \/ \E r \in Realm, m \in Option(Mint) : set_realm_config(r, m)
    \/ \E w \in Key, a \in IdentityAccount : write_identity(w, a)

-----------------------------------------------------------------------------
(***************************************************************************)
(* What the plugin's instructions use of the chain.                        *)
(***************************************************************************)

\* spl_governance's get_realm_data_for_governing_token_mint succeeds when the
\* realm belongs to that program and the mint is one of its two.
RealmHasMint(governance_program_id, r, mint) ==
    /\ GovernanceOf[r] = governance_program_id
    /\ mint = CommunityMint[r] \/ mint = realm[r].council_mint

\* Mutant: the realm is loaded with get_realm_data, without regard to the mint.
RealmAuthoritySigned_any_mint(governance_program_id, r, mint, signer) ==
    /\ GovernanceOf[r] = governance_program_id
    /\ realm[r].authority # None
    /\ realm[r].authority = signer

\* Every instruction of the DAO admin loads the realm for the mint, then requires
\* that the realm has an authority and that it signed.
RealmAuthoritySigned(governance_program_id, r, mint, signer) ==
    /\ RealmHasMint(governance_program_id, r, mint)
    /\ realm[r].authority # None
    /\ realm[r].authority = signer

\* Anchor's `init, payer = payer`: the payer funds the new account's rent.
PayRent(payer, rent) ==
    /\ lamports[payer] >= rent
    /\ lamports' = [lamports EXCEPT ![payer] = @ - rent]

\* Anchor's `close = sol_destination`: the account's lamports go there.
RefundRent(sol_destination, rent) ==
    lamports' = [lamports EXCEPT ![sol_destination] = @ + rent]
=============================================================================
