-------------------------- MODULE MCMaxVoterWeight --------------------------
(***************************************************************************)
(* Two realms of one governance instance that may take each other's        *)
(* community mint as council mint, so that only the realm tells their      *)
(* accounts apart, a second instance that owns neither, and two wallets    *)
(* that may be the authority.  The slot is 1, the first in which a fresh   *)
(* record has expired; time and identities stand still, as no instruction  *)
(* here reads them.                                                        *)
(***************************************************************************)
EXTENDS MaxVoterWeight, TLC

CONSTANTS r1, r2, m1, m2, spl_governance, other_governance

MCGovernanceOf == r1 :> spl_governance @@ r2 :> spl_governance

MCCommunityMint == r1 :> m1 @@ r2 :> m2

MCIdentityAccount == {[owner |-> EntrosAnchor,
                       data_len |-> IDENTITY_MIN_DATA_LEN,
                       discriminator |-> IDENTITY_DISCRIMINATOR,
                       last_verification_timestamp |-> 0,
                       trust_score |-> 0]}

\* Nothing tells the two wallets apart.
KeySymmetry == Permutations(Key)
=============================================================================
