---------------------------- MODULE Eligibility ----------------------------
(***************************************************************************)
(* verify_voter_identity_and_recency: the gate every voter weight passes.  *)
(* The checks are made in the code's order and the first that fails names  *)
(* the error; "Ok" is the result when none does.  Beside it stands the     *)
(* gate as the documentation describes it, over unbounded integers.        *)
(***************************************************************************)
EXTENDS Accounts

\* Mutants of the age: an overflow taken for a fresh verification, and a
\* subtraction that wraps.
Age_unwrap_or_zero(unix_timestamp, last_verification_timestamp) ==
    LET difference == unix_timestamp - last_verification_timestamp
    IN  IF difference \in I64 THEN difference ELSE 0

Age_wrapping_sub(unix_timestamp, last_verification_timestamp) ==
    ((unix_timestamp - last_verification_timestamp + I64_MAX + 1) % (2 * (I64_MAX + 1)))
        - I64_MAX - 1

\* clock.unix_timestamp.checked_sub(last_verification_timestamp)
\*     .unwrap_or(i64::MAX)
Age(unix_timestamp, last_verification_timestamp) ==
    LET difference == unix_timestamp - last_verification_timestamp
    IN  IF difference \in I64 THEN difference ELSE I64_MAX

\* What AccountInfo gives of one account: its address and its content.
IdentityInfo(wallet, account) == [key |-> IdentityPda(wallet), account |-> account]

AccountInfo == [key : {IdentityPda(w) : w \in Key}, account : RawAccount]

\* Owner, address, length and type: what makes an account the identity of a
\* voter, all of it required before any field is read.
IsIdentityOf(info, voter) ==
    /\ info.account.owner = EntrosAnchor
    /\ info.key = IdentityPda(voter)
    /\ info.account.data_len >= IDENTITY_MIN_DATA_LEN
    /\ info.account.discriminator = IDENTITY_DISCRIMINATOR

\* Mutant: whoever signs may renew any record.
OwnsRecord_unchecked(record, voter) == TRUE

OwnsRecord(record, voter) == record.governing_token_owner = voter

\* Mutant: the account's type is not looked at.
HoldsIdentityState_by_length(data) == data.data_len >= IDENTITY_MIN_DATA_LEN

\* Mutant: an account that ends with the score is refused.
HoldsIdentityState_longer(data) ==
    /\ data.data_len > IDENTITY_MIN_DATA_LEN
    /\ data.discriminator = IDENTITY_DISCRIMINATOR

\* Long enough for the fields that are read, and of the right type.
HoldsIdentityState(data) ==
    /\ data.data_len >= IDENTITY_MIN_DATA_LEN
    /\ data.discriminator = IDENTITY_DISCRIMINATOR

verify_voter_identity_and_recency(reg, record, voter, remaining_accounts, unix_timestamp) ==
    LET info == Head(remaining_accounts)
        data == info.account
    IN  IF ~OwnsRecord(record, voter)
          THEN "VoterWeightRecordOwnerMismatch"
        ELSE IF remaining_accounts = <<>>
          THEN "MissingIdentityAccount"
        ELSE IF data.owner # EntrosAnchor
          THEN "InvalidIdentityOwner"
        ELSE IF info.key # IdentityPda(voter)
          THEN "InvalidIdentityPda"
        ELSE IF ~HoldsIdentityState(data)
          THEN "InvalidIdentityData"
        ELSE IF data.trust_score < reg.min_trust_score
          THEN "InsufficientTrustScore"
        ELSE IF Age(unix_timestamp, data.last_verification_timestamp)
                  >= reg.max_verification_age
          THEN "VerificationExpired"
        ELSE "Ok"

-----------------------------------------------------------------------------
(***************************************************************************)
(* The reference: the record is the voter's, the voter's own identity      *)
(* account was supplied, it scores at least the registrar's minimum, and   *)
(* less than max_verification_age seconds have passed since the last       *)
(* verification.  No integer has a width here.                             *)
(***************************************************************************)
GateOpen(reg, record, voter, remaining_accounts, unix_timestamp) ==
    /\ record.governing_token_owner = voter
    /\ remaining_accounts # <<>>
    /\ LET info == Head(remaining_accounts)
       IN  /\ IsIdentityOf(info, voter)
           /\ info.account.trust_score >= reg.min_trust_score
           /\ unix_timestamp
                < info.account.last_verification_timestamp + reg.max_verification_age
=============================================================================
