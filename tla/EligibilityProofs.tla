------------------------- MODULE EligibilityProofs -------------------------
(***************************************************************************)
(* The gate computed with 64-bit integers is the gate of the               *)
(* documentation, for every width and every argument a call can have.      *)
(***************************************************************************)
EXTENDS Eligibility, TLAPS

\* Age compares with a maximum of the same width as the true difference does:
\* where checked_sub fails its fallback, i64::MAX, is an age no registrar admits,
\* and so is the true one.
LEMMA AgeExact ==
    ASSUME NEW unix \in 0 .. I64_MAX, NEW timestamp \in I64, NEW max_age \in I64
    PROVE  /\ Age(unix, timestamp) \in I64
           /\ Age(unix, timestamp) < max_age <=> unix < timestamp + max_age
  BY WidthAssumption DEF Age, I64

\* verify_voter_identity_and_recency returns Ok exactly when the gate is open.
THEOREM GateExactForAll ==
    ASSUME NEW reg, reg.min_trust_score \in Nat, reg.max_verification_age \in I64,
           NEW record, NEW voter,
           NEW remaining \in Seq(AccountInfo),
           NEW unix \in 0 .. I64_MAX
    PROVE  verify_voter_identity_and_recency(reg, record, voter, remaining, unix) = "Ok"
             <=> GateOpen(reg, record, voter, remaining, unix)
<1>1. CASE remaining = <<>>
  BY <1>1 DEF verify_voter_identity_and_recency, OwnsRecord, GateOpen
<1>2. CASE remaining # <<>>
  <2> DEFINE info == Head(remaining)
             data == info.account
  <2>1. data \in RawAccount
    <3>1. info \in AccountInfo
      BY <1>2
    <3> QED
      BY <3>1 DEF AccountInfo
  <2>2. /\ data.trust_score \in Nat
        /\ data.last_verification_timestamp \in I64
    BY <2>1 DEF RawAccount
  <2>3. ~(data.trust_score < reg.min_trust_score)
          <=> data.trust_score >= reg.min_trust_score
    BY <2>2
  <2>4. ~(Age(unix, data.last_verification_timestamp) >= reg.max_verification_age)
          <=> unix < data.last_verification_timestamp + reg.max_verification_age
    <3>1. /\ Age(unix, data.last_verification_timestamp) \in I64
          /\ Age(unix, data.last_verification_timestamp) < reg.max_verification_age
               <=> unix < data.last_verification_timestamp + reg.max_verification_age
      BY <2>2, AgeExact
    <3> QED
      BY <3>1, WidthAssumption DEF I64
  <2> HIDE DEF info, data
  <2> QED
    BY <1>2, <2>3, <2>4, Zenon
       DEF verify_voter_identity_and_recency, GateOpen, OwnsRecord,
           HoldsIdentityState, IsIdentityOf, info, data
<1> QED
  BY <1>1, <1>2
=============================================================================
