------------------------------ MODULE MCPlugin ------------------------------
(***************************************************************************)
(* Two wallets that can afford some of the accounts they may ask for, one  *)
(* of them with a key that reads as a tag.  The three rents differ, so     *)
(* that no two accounts can be confused in a sum.  A wallet's identity     *)
(* account is of another type, or one that lapses at second 1.             *)
(***************************************************************************)
EXTENDS VoterWeightPlugin, VoterLease, TLC

CONSTANTS alice, bob, r1, m1, spl_governance

MCKeyHead == alice :> 1 @@ bob :> 1

MCKeyTag == alice :> 0 @@ bob :> 2

MCGovernanceOf == r1 :> spl_governance

MCCommunityMint == r1 :> m1

MCIdentityAccount ==
    LET account(d, s) == [owner |-> EntrosAnchor,
                          data_len |-> IDENTITY_MIN_DATA_LEN,
                          discriminator |-> d,
                          last_verification_timestamp |-> 0,
                          trust_score |-> s]
    IN  {account("MintRecord", 1), account(IDENTITY_DISCRIMINATOR, 1)}
=============================================================================
