-------------------------- MODULE MCGovernanceUse --------------------------
(***************************************************************************)
(* One voter, two actions and two targets, over slots up to the last one,  *)
(* where the expiry saturates.                                             *)
(***************************************************************************)
EXTENDS GovernanceUse, TLC

CONSTANTS r1, m1, spl_governance, system_program

MCGovernanceOf == r1 :> spl_governance

MCCommunityMint == r1 :> m1

\* No identity, and identities verified at seconds 0 and 2 with either score.
MCIdentityAccount ==
    LET account(o, n, t, s) ==
            [owner |-> o, data_len |-> n, discriminator |-> IDENTITY_DISCRIMINATOR,
             last_verification_timestamp |-> t, trust_score |-> s]
    IN  {account(system_program, 0, 0, 0)}
          \union {account(EntrosAnchor, IDENTITY_MIN_DATA_LEN, t, s) :
                      t \in {0, 2}, s \in {0, 1}}
=============================================================================
