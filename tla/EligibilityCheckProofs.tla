----------------------- MODULE EligibilityCheckProofs -----------------------
(***************************************************************************)
(* The three properties of a repeated call, for every width of the         *)
(* integers, every configuration and every account a call may carry.       *)
(***************************************************************************)
EXTENDS EligibilityCheck, EligibilityProofs

\* The clock is in range and the result is that of the call made last.
CallInv == /\ call \in Call
           /\ unix_timestamp \in 0 .. I64_MAX
           /\ result = Verify(call, unix_timestamp)

\* The result on record is always that of the call at the current time, with the
\* arguments the call was first made with.
LEMMA CallInvariant == Spec => []CallInv
<1>1. Init => CallInv
  BY CallAssumption DEF Init, CallInv
<1>2. CallInv /\ [Next]_vars => CallInv'
  BY WidthAssumption DEF CallInv, Next, Retry, vars
<1> QED
  BY <1>1, <1>2, PTL DEF Spec

\* What the arguments of a call are.
LEMMA CallType ==
    ASSUME NEW c \in Call
    PROVE  /\ c.registrar.min_trust_score \in Nat
           /\ c.registrar.max_verification_age \in I64
           /\ c.remaining_accounts \in Seq(AccountInfo)
<1>1. c.registrar \in Config
  BY DEF Call
<1>2. c.remaining_accounts \in {<<>>} \union {<<i>> : i \in Identity}
                                 \union {<<i, j>> : i, j \in Identity}
  BY DEF Call
<1>3. \A i \in Identity : i \in AccountInfo
  BY CallAssumption
<1>4. /\ <<>> \in Seq(AccountInfo)
      /\ \A i \in AccountInfo : <<i>> \in Seq(AccountInfo)
      /\ \A i, j \in AccountInfo : <<i, j>> \in Seq(AccountInfo)
  OBVIOUS
<1>5. c.remaining_accounts \in Seq(AccountInfo)
  <2>1. CASE c.remaining_accounts = <<>>
    BY <1>4, <2>1
  <2>2. ASSUME NEW i \in Identity, c.remaining_accounts = <<i>>
        PROVE  c.remaining_accounts \in Seq(AccountInfo)
    BY <1>3, <1>4, <2>2
  <2>3. ASSUME NEW i \in Identity, NEW j \in Identity, c.remaining_accounts = <<i, j>>
        PROVE  c.remaining_accounts \in Seq(AccountInfo)
    BY <1>3, <1>4, <2>3
  <2> QED
    BY <1>2, <2>1, <2>2, <2>3
<1> QED
  BY <1>1, <1>5, CallAssumption

\* Verify says Ok exactly when the gate of the documentation is open.
LEMMA VerifyExact ==
    ASSUME NEW c \in Call, NEW now \in 0 .. I64_MAX
    PROVE  Verify(c, now) = "Ok"
             <=> GateOpen(c.registrar, c.record, c.voter, c.remaining_accounts, now)
  BY CallType, GateExactForAll DEF Verify

\* GateExact, for every width: no boundary timestamp opens or shuts the gate.
THEOREM GateExactInvariant == Spec => []GateExact
<1>1. CallInv => GateExact
  BY VerifyExact DEF CallInv, GateExact
<1> QED
  BY <1>1, CallInvariant, PTL

\* DiagnosisAccurate: only the voter's own identity is ever read as a score or a
\* timestamp.
THEOREM DiagnosisAccurateInvariant == Spec => []DiagnosisAccurate
<1>1. ASSUME NEW c \in Call, NEW now \in 0 .. I64_MAX,
             Verify(c, now) \in {"InsufficientTrustScore", "VerificationExpired"}
      PROVE  /\ c.record.governing_token_owner = c.voter
             /\ c.remaining_accounts # <<>>
             /\ IsIdentityOf(Head(c.remaining_accounts), c.voter)
  <2>1. /\ c.record.governing_token_owner = c.voter
        /\ c.remaining_accounts # <<>>
        /\ Head(c.remaining_accounts).account.owner = EntrosAnchor
        /\ Head(c.remaining_accounts).key = IdentityPda(c.voter)
        /\ HoldsIdentityState(Head(c.remaining_accounts).account)
    BY <1>1 DEF Verify, verify_voter_identity_and_recency, OwnsRecord
  <2> QED
    BY <2>1 DEF IsIdentityOf, HoldsIdentityState
<1>2. CallInv => DiagnosisAccurate
  BY <1>1 DEF CallInv, DiagnosisAccurate
<1> QED
  BY <1>2, CallInvariant, PTL

\* LapsesForGood: by GateExact an age that grows can only shut the gate.
THEOREM LapsesForGoodHolds == Spec => LapsesForGood
<1>1. CallInv /\ [Next]_vars => [result # "Ok" => result' # "Ok"]_vars
  <2> SUFFICES ASSUME CallInv, Retry, result' = "Ok"
               PROVE  result = "Ok"
    BY DEF Next
  <2> DEFINE account == Head(call.remaining_accounts).account
  <2>1. unix_timestamp \in 0 .. I64_MAX /\ unix_timestamp + 1 \in 0 .. I64_MAX
    BY WidthAssumption DEF CallInv, Retry
  <2>2. GateOpen(call.registrar, call.record, call.voter, call.remaining_accounts,
                 unix_timestamp + 1)
    BY <2>1, VerifyExact DEF CallInv, Retry
  <2>3. account.last_verification_timestamp \in Int
        /\ call.registrar.max_verification_age \in Int
    <3>1. Head(call.remaining_accounts) \in AccountInfo
      BY <2>2, CallType DEF CallInv, GateOpen
    <3>2. /\ account.last_verification_timestamp \in I64
          /\ call.registrar.max_verification_age \in I64
      BY <3>1, CallType DEF CallInv, AccountInfo, RawAccount
    <3> QED
      BY <3>2, WidthAssumption DEF I64
  <2>4. unix_timestamp + 1
          < account.last_verification_timestamp + call.registrar.max_verification_age
    BY <2>2 DEF GateOpen
  <2>5. unix_timestamp
          < account.last_verification_timestamp + call.registrar.max_verification_age
    BY <2>1, <2>3, <2>4
  <2>6. GateOpen(call.registrar, call.record, call.voter, call.remaining_accounts,
                 unix_timestamp)
    BY <2>2, <2>5 DEF GateOpen
  <2> QED
    BY <2>1, <2>6, VerifyExact DEF CallInv
<1> QED
  BY <1>1, CallInvariant, PTL DEF Spec, LapsesForGood
=============================================================================
