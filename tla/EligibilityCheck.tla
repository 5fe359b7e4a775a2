-------------------------- MODULE EligibilityCheck --------------------------
(***************************************************************************)
(* The gate under a voter who keeps asking: one call, with every           *)
(* combination of arguments the constants allow, repeated once a second    *)
(* while nothing but the clock moves.                                      *)
(***************************************************************************)
EXTENDS Eligibility

CONSTANTS
    Config,         \* registrars a call may be made under
    Identity,       \* identity accounts (address and content) a call may carry
    FirstTime       \* unix_timestamp of the first call

ASSUME CallAssumption ==
    /\ Config \subseteq [min_trust_score : Nat, max_verification_age : I64]
    /\ Identity \subseteq AccountInfo
    /\ FirstTime \in 0 .. I64_MAX

VARIABLES call, unix_timestamp, result

vars == <<call, unix_timestamp, result>>

Verify(c, now) ==
    verify_voter_identity_and_recency(
        c.registrar, c.record, c.voter, c.remaining_accounts, now)

Call == [registrar : Config,
         record : [governing_token_owner : Key],
         voter : Key,
         remaining_accounts : {<<>>} \union {<<i>> : i \in Identity}
                                \union {<<i, j>> : i, j \in Identity}]

Init == /\ call \in Call
        /\ unix_timestamp = FirstTime
        /\ result = Verify(call, FirstTime)

Retry == /\ unix_timestamp < I64_MAX
         /\ unix_timestamp' = unix_timestamp + 1
         /\ result' = Verify(call, unix_timestamp + 1)
         /\ UNCHANGED call

Next == Retry

Spec == Init /\ [][Next]_vars

-----------------------------------------------------------------------------
\* The gate computed with i64 arithmetic, checked_sub and its fallback opens
\* exactly when the gate over unbounded integers does: no boundary timestamp
\* lets an old verification through or shuts a recent one out.
GateExact ==
    (result = "Ok")
      <=> GateOpen(call.registrar, call.record, call.voter,
                   call.remaining_accounts, unix_timestamp)

\* An error that tells the voter about a score or about recency is only given
\* after the first remaining account was recognised as that voter's identity:
\* bytes of any other account are never read as a score or a timestamp.
DiagnosisAccurate ==
    result \in {"InsufficientTrustScore", "VerificationExpired"}
      => /\ call.record.governing_token_owner = call.voter
         /\ call.remaining_accounts # <<>>
         /\ IsIdentityOf(Head(call.remaining_accounts), call.voter)

\* A voter once refused stays refused while only time passes: the age never
\* wraps around into a fresh one.
LapsesForGood == [][result # "Ok" => result' # "Ok"]_vars

\* What the unit test "handles timestamp overflow gracefully" says of the age
\* check: an identity verified in the future is refused.
FutureTimestampRejected ==
    result = "Ok"
      => Head(call.remaining_accounts).account.last_verification_timestamp
           <= unix_timestamp
=============================================================================
