--------------------------- MODULE MCVoterWeight ---------------------------
(***************************************************************************)
(* Small instances of the voter weight records.                            *)
(***************************************************************************)
EXTENDS VoterLease, TLC

CONSTANTS r1, m1, spl_governance, system_program

MCGovernanceOf == r1 :> spl_governance

MCCommunityMint == r1 :> m1

\* No account; an account of another type; identities below and above the score
\* asked for, last verified at second 0 and at second 2.
MCIdentityAccount ==
    LET account(o, n, d, t, s) ==
            [owner |-> o, data_len |-> n, discriminator |-> d,
             last_verification_timestamp |-> t, trust_score |-> s]
        verified(t, s) == account(EntrosAnchor, IDENTITY_MIN_DATA_LEN,
                                  IDENTITY_DISCRIMINATOR, t, s)
    IN  {account(system_program, 0, "", 0, 0),
         account(EntrosAnchor, IDENTITY_MIN_DATA_LEN, "MintRecord", 2, 1),
         verified(0, 1), verified(2, 0), verified(2, 1)}
=============================================================================
