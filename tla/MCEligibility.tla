--------------------------- MODULE MCEligibility ---------------------------
(***************************************************************************)
(* i64 scaled down to -4..3: every timestamp, on both sides of the clock   *)
(* and far enough below it for the subtraction to overflow.                *)
(***************************************************************************)
EXTENDS EligibilityCheck

CONSTANTS alice, bob, system_program

MCKey == {alice, bob}

MCProgram == {EntrosAnchor, system_program}

MCConfig == [min_trust_score : {0, 1}, max_verification_age : {1, 3}]

\* Every timestamp of a well-formed identity, and every way to be malformed.
MCIdentity ==
    LET info(w, o, n, d, t, s) ==
            IdentityInfo(w, [owner |-> o, data_len |-> n, discriminator |-> d,
                             last_verification_timestamp |-> t, trust_score |-> s])
    IN  {info(w, EntrosAnchor, IDENTITY_MIN_DATA_LEN, IDENTITY_DISCRIMINATOR, t, s) :
             w \in {alice}, t \in I64, s \in {0, 1}}
          \union
        {info(w, o, n, d, 0, 1) :
             w \in MCKey, o \in MCProgram,
             n \in {IDENTITY_MIN_DATA_LEN - 1, IDENTITY_MIN_DATA_LEN},
             d \in {IDENTITY_DISCRIMINATOR, "MintRecord"}}
=============================================================================
