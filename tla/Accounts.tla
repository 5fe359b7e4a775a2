------------------------------ MODULE Accounts ------------------------------
(***************************************************************************)
(* The vocabulary shared by every module: keys, programs, machine          *)
(* integers, and the accounts the plugin reads and writes.                 *)
(*                                                                         *)
(* A program derived address is modelled by its seeds: two addresses are   *)
(* equal exactly when their seeds are.  A registrar lives at <<realm,      *)
(* mint>>, a voter weight record at <<realm, mint, owner>>, a max voter    *)
(* weight record at <<realm, mint>>, an Entros identity at                 *)
(* <<"identity", wallet>>.                                                 *)
(***************************************************************************)
EXTENDS Integers, Sequences

CONSTANTS
    Key,            \* wallets: voters, realm authorities, fee payers
    Realm,          \* realm accounts of spl-governance
    Mint,           \* governing token mints
    Program,        \* programs that may own an account
    EntrosAnchor,   \* ENTROS_ANCHOR_PROGRAM_ID
    Target,         \* accounts a governance action may be aimed at
    DefaultPubkey,  \* Pubkey::default(), which is no account's address
    None,           \* Option::None, and an account that does not exist
    I64_MAX,        \* i64::MAX
    U64_MAX         \* u64::MAX

ASSUME WidthAssumption == I64_MAX \in Nat /\ U64_MAX \in Nat

ASSUME ProgramAssumption == EntrosAnchor \in Program

ASSUME TargetAssumption == DefaultPubkey \in Target

ASSUME NoneAssumption == /\ None \notin Key
                         /\ None \notin Mint
                         /\ None \notin Target
                         /\ None \notin Int

I64 == (-I64_MAX - 1) .. I64_MAX

U64 == 0 .. U64_MAX

Option(S) == S \union {None}

(***************************************************************************)
(* The raw account the plugin expects an Entros identity to be.  The       *)
(* discriminator names the account type; the two integers are what the     *)
(* bytes at offsets 48 and 60 hold when the data is long enough.           *)
(***************************************************************************)
RawAccount == [owner : Program,
               data_len : Nat,
               discriminator : STRING,
               last_verification_timestamp : I64,
               trust_score : Nat]

IDENTITY_MIN_DATA_LEN == 62

IDENTITY_DISCRIMINATOR == "IdentityState"

IdentityPda(wallet) == <<"identity", wallet>>

(***************************************************************************)
(* The plugin's own accounts.  Their type tag and the reserved bytes are   *)
(* left out: nothing reads the reserved bytes.                             *)
(***************************************************************************)
RegistrarAccount == [governance_program_id : Program,
                     realm : Realm,
                     governing_token_mint : Mint,
                     min_trust_score : Nat,
                     max_verification_age : I64]

RegistrarAddress == Realm \X Mint

\* state::VoterWeightAction: the action an action-bound update authorises.
VoterWeightAction == {"CastVote", "CommentProposal", "CreateGovernance",
                      "CreateProposal", "SignOffProposal"}

\* An owner that is None stands for 32 bytes that are no wallet's key.
VoterWeightRecord == [realm : Realm,
                      governing_token_mint : Mint,
                      governing_token_owner : Option(Key),
                      voter_weight : U64,
                      voter_weight_expiry : Option(U64),
                      weight_action : Option(VoterWeightAction),
                      weight_action_target : Option(Target)]

VoterWeightRecordAddress == Realm \X Mint \X Key

MaxVoterWeightRecord == [realm : Realm,
                         governing_token_mint : Mint,
                         max_voter_weight : U64,
                         max_voter_weight_expiry : Option(U64)]

ASSUME AbsentAssumption == /\ None \notin VoterWeightAction
                           /\ None \notin RegistrarAccount
                           /\ None \notin VoterWeightRecord
                           /\ None \notin MaxVoterWeightRecord
=============================================================================
