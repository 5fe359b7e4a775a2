------------------------- MODULE VoterWeightPlugin -------------------------
(***************************************************************************)
(* The whole program: the nine instructions over registrars, voter weight  *)
(* records and max voter weight records, and the lamports they move        *)
(* between wallets and accounts.                                           *)
(***************************************************************************)
EXTENDS VoterWeight, MaxVoterWeight, FiniteSets, Functions

CONSTANTS
    KeyHead,        \* the first eight bytes of each wallet's key, as a u64
    KeyTag          \* and the ninth

ASSUME KeyBytesAssumption == /\ KeyHead \in [Key -> U64]
                             /\ KeyTag \in [Key -> 0 .. 255]

\* Wallets whose key has an option's tag as its ninth byte.
TagKey == {w \in Key : KeyTag[w] \in {0, 1}}

\* Addresses are 32 bytes, so there are finitely many of them.
ASSUME FinitenessAssumption == /\ IsFiniteSet(Key)
                               /\ IsFiniteSet(Realm)
                               /\ IsFiniteSet(Mint)

pluginVars == <<registrarVars, vwr, maxvwr>>

\* Every account of the program has its type, and no wallet ever pays rent it
\* does not have.
PluginTypeOK == VoterTypeOK /\ MaxTypeOK

PluginInit == VoterInit /\ MaxInit

\* A voter weight record loads as a max voter weight record: nothing compares the
\* discriminator, realm and mint are in the same places, and the only byte that
\* must be an option's tag is the ninth of the owner (module RecordCodec).  In an
\* owner overwritten once that byte is a tag.
LoadsAsMaxRecord(v) ==
    vwr[v] # None /\ vwr[v].governing_token_owner \in TagKey \union {None}

\* The owner read back once a weight and no expiry are written over its first
\* bytes: no wallet's key, unless they are what the key of the wallet had there.  A
\* ninth byte of 1 becomes 0, and nothing makes it 1 again.
OwnerAfter(w, max_voter_weight) ==
    IF KeyTag[w] = 0 /\ KeyHead[w] = max_voter_weight THEN w ELSE None

\* update_max_voter_weight_record, given a voter weight record of the registrar's
\* realm and mint.
update_max_voter_weight_record_of_voter(k, v, r, signer, max_voter_weight) ==
    /\ LoadsAsMaxRecord(v)
    /\ RecordUnder(k, v)
    /\ max_voter_weight > 0
    /\ AdminOf(k, r, signer)
    /\ vwr' = [vwr EXCEPT ![v].governing_token_owner =
                  OwnerAfter(v[3], max_voter_weight)]
    /\ UNCHANGED <<registrarVars, maxvwr>>

Overwrite(v) ==
    \E k \in RegistrarAddress, r \in Realm, signer \in Key, weight \in MaxVoterWeightArg :
        update_max_voter_weight_record_of_voter(k, v, r, signer, weight)

\* The environment moves, or one of the program's instructions runs.
PluginNext == \/ RegistrarNext /\ UNCHANGED <<vwr, maxvwr>>
              \/ VoterInstruction /\ UNCHANGED maxvwr
              \/ MaxInstruction /\ UNCHANGED vwr
              \/ \E v \in VoterWeightRecordAddress : Overwrite(v)

PluginSpec == PluginInit /\ [][PluginNext]_pluginVars

-----------------------------------------------------------------------------
Allocated(accounts) == Cardinality({a \in DOMAIN accounts : accounts[a] # None})

\* Lamports are neither made nor lost: what wallets paid for accounts is exactly
\* the rent of the accounts that exist, through every create and close.
LamportsConserved ==
    SumFunction(lamports)
        + RENT_REGISTRAR * Allocated(registrar)
        + RENT_VWR * Allocated(vwr)
        + RENT_MAX * Allocated(maxvwr)
      = InitialLamports * Cardinality(Key)

\* Whatever the nine instructions do, a record stays the one of the wallet in its
\* address, and that wallet can renew it whenever it is eligible.  The exception
\* is a record whose owner update_max_voter_weight_record has overwritten, which
\* the realm's authority can do to the wallets in TagKey and to no other.
VoterKeepsRecord ==
    \A v \in VoterWeightRecordAddress :
        vwr[v] # None =>
            \/ AtItsAddress(v) /\ (Eligible(v) => CanRenew(v))
            \/ vwr[v].governing_token_owner = None /\ v[3] \in TagKey

\* What the README says of close_voter_weight_record, "Voter closes their record
\* and reclaims rent": whoever has a record can name accounts that close it.
RecordClosable ==
    \A v \in VoterWeightRecordAddress :
        vwr[v] # None => \E k \in RegistrarAddress : RecordUnder(k, v)
=============================================================================
