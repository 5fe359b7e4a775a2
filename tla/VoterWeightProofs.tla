------------------------- MODULE VoterWeightProofs -------------------------
(***************************************************************************)
(* Registrars and voter weight records for any realms, mints, wallets,     *)
(* programs, clocks and windows.                                           *)
(***************************************************************************)
EXTENDS VoterLease, EligibilityProofs

-----------------------------------------------------------------------------
(***************************************************************************)
(* Registrars keep their type, their address and their promises.           *)
(***************************************************************************)
USE DEF Option

\* What happens around the plugin keeps the chain well typed.
LEMMA ChainTypeStep ==
    ASSUME ChainTypeOK, ChainNext
    PROVE  ChainTypeOK'
<1> USE DEF ChainTypeOK
<1>1. CASE tick
  BY <1>1, WidthAssumption, ChainAssumption DEF tick, U64
<1>2. ASSUME NEW r \in Realm, NEW a \in Option(Key), set_realm_authority(r, a)
      PROVE  ChainTypeOK'
  BY <1>2 DEF set_realm_authority, RealmAccount
<1>3. ASSUME NEW r \in Realm, NEW m \in Option(Mint), set_realm_config(r, m)
      PROVE  ChainTypeOK'
  BY <1>3 DEF set_realm_config, RealmAccount
<1>4. ASSUME NEW w \in Key, NEW a \in IdentityAccount, write_identity(w, a)
      PROVE  ChainTypeOK'
  BY <1>4 DEF write_identity
<1> QED
  BY <1>1, <1>2, <1>3, <1>4 DEF ChainNext

\* Paying and refunding rent leave every balance a natural number.
LEMMA PayRentType ==
    ASSUME lamports \in [Key -> Nat], NEW payer \in Key, NEW rent \in Nat,
           PayRent(payer, rent)
    PROVE  lamports' \in [Key -> Nat]
  BY DEF PayRent

\* So does returning the rent on close.
LEMMA RefundRentType ==
    ASSUME lamports \in [Key -> Nat], NEW wallet \in Key, NEW rent \in Nat,
           RefundRent(wallet, rent)
    PROVE  lamports' \in [Key -> Nat]
  BY DEF RefundRent

\* Type correctness is preserved by every step, and so by every step that the
\* records' modules take over from this one.
LEMMA RegistrarTypeStep ==
    ASSUME RegistrarTypeOK, RegistrarNext
    PROVE  RegistrarTypeOK'
<1> USE DEF RegistrarTypeOK
<1>1. CASE ChainNext /\ UNCHANGED registrar
  BY <1>1, ChainTypeStep
<1>2. ASSUME NEW program \in Program, NEW r \in Realm, NEW mint \in Mint,
             NEW signer \in Key, NEW payer \in Key,
             NEW score \in MinTrustScoreArg, NEW age \in MaxVerificationAgeArg,
             create_registrar(program, r, mint, signer, payer, score, age)
      PROVE  RegistrarTypeOK'
  <2>1. lamports' \in [Key -> Nat]
    BY <1>2, PayRentType, RegistrarAssumption DEF create_registrar, ChainTypeOK
  <2>2. registrar' \in [RegistrarAddress -> Option(RegistrarAccount)]
    BY <1>2, RegistrarAssumption DEF create_registrar, RegistrarAccount, RegistrarAddress
  <2> QED
    BY <1>2, <2>1, <2>2 DEF create_registrar, ChainTypeOK
<1>3. ASSUME NEW k \in RegistrarAddress, NEW r \in Realm, NEW signer \in Key,
             NEW score \in MinTrustScoreArg, NEW age \in MaxVerificationAgeArg,
             update_registrar(k, r, signer, score, age)
      PROVE  RegistrarTypeOK'
  <2>1. registrar' \in [RegistrarAddress -> Option(RegistrarAccount)]
    BY <1>3, RegistrarAssumption DEF update_registrar, IsRegistrar, RegistrarAccount
  <2> QED
    BY <1>3, <2>1 DEF update_registrar, ChainTypeOK, chainVars
<1>4. ASSUME NEW k \in RegistrarAddress, NEW r \in Realm, NEW signer \in Key,
             NEW wallet \in Key, close_registrar(k, r, signer, wallet)
      PROVE  RegistrarTypeOK'
  <2>1. lamports' \in [Key -> Nat]
    BY <1>4, RefundRentType, RegistrarAssumption DEF close_registrar, ChainTypeOK
  <2> QED
    BY <1>4, <2>1 DEF close_registrar, ChainTypeOK
<1> QED
  BY <1>1, <1>2, <1>3, <1>4 DEF RegistrarNext, RegistrarInstruction

\* The chain is well typed before the first instruction.
LEMMA RegistrarTypeInit ==
    ASSUME RegistrarInit
    PROVE  RegistrarTypeOK
  BY ChainAssumption, WidthAssumption
     DEF RegistrarInit, ChainInit, RegistrarTypeOK, ChainTypeOK, U64

\* Every account of the chain and every registrar keeps its type.
THEOREM RegistrarTypeInvariant == RegistrarSpec => []RegistrarTypeOK
<1>1. RegistrarTypeOK /\ UNCHANGED registrarVars => RegistrarTypeOK'
  BY DEF RegistrarTypeOK, ChainTypeOK, registrarVars, chainVars
<1> QED
  BY <1>1, RegistrarTypeInit, RegistrarTypeStep, PTL DEF RegistrarSpec

-----------------------------------------------------------------------------
\* Where a registrar is, whom it obeys and that it can admit someone survive every
\* step.
LEMMA RegistrarSoundStep ==
    ASSUME RegistrarTypeOK, RegistrarSound, RegistrarNext
    PROVE  RegistrarSound'
<1> USE DEF RegistrarTypeOK, RegistrarSound
<1>1. CASE ChainNext /\ UNCHANGED registrar
  BY <1>1
<1>2. ASSUME NEW program \in Program, NEW r \in Realm, NEW mint \in Mint,
             NEW signer \in Key, NEW payer \in Key,
             NEW score \in MinTrustScoreArg, NEW age \in MaxVerificationAgeArg,
             create_registrar(program, r, mint, signer, payer, score, age)
      PROVE  RegistrarSound'
  BY <1>2 DEF create_registrar, RegistrarAddress
<1>3. ASSUME NEW k \in RegistrarAddress, NEW r \in Realm, NEW signer \in Key,
             NEW score \in MinTrustScoreArg, NEW age \in MaxVerificationAgeArg,
             update_registrar(k, r, signer, score, age)
      PROVE  RegistrarSound'
  BY <1>3 DEF update_registrar, IsRegistrar, RegistrarAccount
<1>4. ASSUME NEW k \in RegistrarAddress, NEW r \in Realm, NEW signer \in Key,
             NEW wallet \in Key, close_registrar(k, r, signer, wallet)
      PROVE  RegistrarSound'
  BY <1>4 DEF close_registrar
<1> QED
  BY <1>1, <1>2, <1>3, <1>4 DEF RegistrarNext, RegistrarInstruction

\* There is no registrar at first, so each is sound.
LEMMA RegistrarSoundInit ==
    ASSUME RegistrarInit
    PROVE  RegistrarSound
  BY DEF RegistrarInit, RegistrarSound

\* RegistrarSound for any number of realms, mints, wallets and programs.
THEOREM RegistrarSoundInvariant == RegistrarSpec => []RegistrarSound
<1>1. RegistrarSound /\ UNCHANGED registrarVars => RegistrarSound'
  BY DEF RegistrarSound, registrarVars
<1> QED
  BY <1>1, RegistrarTypeInvariant, RegistrarSoundInit, RegistrarSoundStep, PTL
     DEF RegistrarSpec

-----------------------------------------------------------------------------
\* A step that changes the registrar at k is an instruction signed by the
\* authority of k's own realm, for a mint that governs it.
LEMMA RegistrarChange ==
    ASSUME RegistrarTypeOK, RegistrarSound, RegistrarNext,
           NEW k \in RegistrarAddress, registrar'[k] # registrar[k]
    PROVE  /\ realm[k[1]].authority # None
           /\ k[2] = CommunityMint[k[1]] \/ k[2] = realm[k[1]].council_mint
           /\ UNCHANGED realm
<1> USE DEF RegistrarTypeOK, RealmAuthoritySigned, RealmHasMint
<1>1. CASE ChainNext /\ UNCHANGED registrar
  BY <1>1
<1>2. ASSUME NEW program \in Program, NEW r \in Realm, NEW mint \in Mint,
             NEW signer \in Key, NEW payer \in Key,
             NEW score \in MinTrustScoreArg, NEW age \in MaxVerificationAgeArg,
             create_registrar(program, r, mint, signer, payer, score, age)
      PROVE  /\ realm[k[1]].authority # None
             /\ k[2] = CommunityMint[k[1]] \/ k[2] = realm[k[1]].council_mint
             /\ UNCHANGED realm
  <2>1. k = <<r, mint>>
    BY <1>2 DEF create_registrar
  <2> QED
    BY <1>2, <2>1 DEF create_registrar
<1>3. ASSUME NEW h \in RegistrarAddress, NEW r \in Realm, NEW signer \in Key,
             NEW wallet \in Key, NEW score, NEW age,
             \/ update_registrar(h, r, signer, score, age)
             \/ close_registrar(h, r, signer, wallet)
      PROVE  /\ realm[k[1]].authority # None
             /\ k[2] = CommunityMint[k[1]] \/ k[2] = realm[k[1]].council_mint
             /\ UNCHANGED realm
  <2>1. k = h /\ IsRegistrar(h) /\ AdminOf(h, r, signer) /\ UNCHANGED realm
    BY <1>3 DEF update_registrar, close_registrar, chainVars
  <2>2. k[1] = r /\ k[2] = registrar[h].governing_token_mint
    BY <2>1 DEF IsRegistrar, AdminOf
  <2> QED
    BY <2>1, <2>2 DEF AdminOf
<1> QED
  BY <1>1, <1>2, <1>3 DEF RegistrarNext, RegistrarInstruction

\* No registrar instruction touches the clock, a realm or an identity.
LEMMA RegistrarInstructionFrame ==
    ASSUME RegistrarInstruction
    PROVE  UNCHANGED <<clock, realm, identity>>
<1>1. ASSUME NEW r \in Realm, NEW signer \in Key, NEW wallet \in Key,
             NEW program \in Program, NEW mint \in Mint,
             NEW score \in MinTrustScoreArg, NEW age \in MaxVerificationAgeArg,
             create_registrar(program, r, mint, signer, wallet, score, age)
      PROVE  UNCHANGED <<clock, realm, identity>>
  BY <1>1, Zenon DEF create_registrar
<1>2. ASSUME NEW r \in Realm, NEW signer \in Key, NEW k \in RegistrarAddress,
             NEW score \in MinTrustScoreArg, NEW age \in MaxVerificationAgeArg,
             update_registrar(k, r, signer, score, age)
      PROVE  UNCHANGED <<clock, realm, identity>>
  <2>1. UNCHANGED chainVars
    BY <1>2, Zenon DEF update_registrar
  <2> QED
    BY <2>1 DEF chainVars
<1>3. ASSUME NEW r \in Realm, NEW signer \in Key, NEW wallet \in Key,
             NEW k \in RegistrarAddress, close_registrar(k, r, signer, wallet)
      PROVE  UNCHANGED <<clock, realm, identity>>
  BY <1>3, Zenon DEF close_registrar
<1> QED
  BY <1>1, <1>2, <1>3, Zenon DEF RegistrarInstruction

\* Once a realm has no authority it never has one again.
LEMMA NoAuthorityStep ==
    ASSUME RegistrarTypeOK, RegistrarNext, NEW r \in Realm, realm[r].authority = None
    PROVE  realm'[r].authority = None
<1> USE DEF RegistrarTypeOK, ChainTypeOK, RealmAccount
<1>1. CASE tick \/ \E w \in Key, a \in IdentityAccount : write_identity(w, a)
  BY <1>1 DEF tick, write_identity
<1>2. ASSUME NEW s \in Realm, NEW a \in Option(Key), set_realm_authority(s, a)
      PROVE  realm'[r].authority = None
  BY <1>2 DEF set_realm_authority
<1>3. ASSUME NEW s \in Realm, NEW m \in Option(Mint), set_realm_config(s, m)
      PROVE  realm'[r].authority = None
  BY <1>3 DEF set_realm_config
<1>4. CASE RegistrarInstruction
  <2>1. realm' = realm
    BY <1>4, RegistrarInstructionFrame
  <2> QED
    BY <2>1
<1> QED
  BY <1>1, <1>2, <1>3, <1>4, Zenon DEF RegistrarNext, ChainNext

\* FrozenWithoutAuthority: no authority of any other realm can touch the
\* registrars of a realm that has none.
THEOREM FrozenWithoutAuthorityHolds == RegistrarSpec => FrozenWithoutAuthority
<1>1. RegistrarTypeOK /\ RegistrarSound /\ [RegistrarNext]_registrarVars =>
        [\A k \in RegistrarAddress :
             realm[k[1]].authority = None =>
                 /\ realm'[k[1]].authority = None
                 /\ registrar'[k] = registrar[k]]_registrarVars
  <2> SUFFICES ASSUME RegistrarTypeOK, RegistrarSound, RegistrarNext,
                      NEW k \in RegistrarAddress, realm[k[1]].authority = None
               PROVE  /\ realm'[k[1]].authority = None
                      /\ registrar'[k] = registrar[k]
    OBVIOUS
  <2>1. k[1] \in Realm
    BY DEF RegistrarAddress
  <2> QED
    BY <2>1, RegistrarChange, NoAuthorityStep
<1> QED
  BY <1>1, RegistrarTypeInvariant, RegistrarSoundInvariant, PTL
     DEF RegistrarSpec, FrozenWithoutAuthority

\* ChangesOnlyWithMint: a registrar outlives its mint's removal unchanged.
THEOREM ChangesOnlyWithMintHolds == RegistrarSpec => ChangesOnlyWithMint
<1>1. RegistrarTypeOK /\ RegistrarSound /\ [RegistrarNext]_registrarVars =>
        [\A k \in RegistrarAddress :
             registrar'[k] # registrar[k] =>
                 k[2] = CommunityMint[k[1]] \/ k[2] = realm[k[1]].council_mint]_registrarVars
  BY RegistrarChange
<1> QED
  BY <1>1, RegistrarTypeInvariant, RegistrarSoundInvariant, PTL
     DEF RegistrarSpec, ChangesOnlyWithMint

HIDE DEF Option

-----------------------------------------------------------------------------
(***************************************************************************)
(* Voter weight records.  RecordOfItsAddress and RecordShape are what an   *)
(* update relies on, since it trusts the fields of the record it is given; *)
(* with RegistrarSound they make the inductive invariant from which        *)
(* RenewalRequiresEligibility and the refinement of the abstract leases    *)
(* follow.  It admits records whose owner was overwritten, which the voter *)
(* instructions never do, so that it serves the whole program too.         *)
(***************************************************************************)
OfItsAddress(v) == /\ vwr[v].realm = v[1]
                   /\ vwr[v].governing_token_mint = v[2]
                   /\ vwr[v].governing_token_owner \in {v[3], None}

RecordOfItsAddress ==
    \A v \in VoterWeightRecordAddress : vwr[v] # None => OfItsAddress(v)

VoterInv == /\ VoterTypeOK
            /\ RegistrarSound
            /\ RecordOfItsAddress
            /\ RecordShape

\* No owner is overwritten.
OwnersKept ==
    \A v \in VoterWeightRecordAddress :
        vwr[v] # None => vwr[v].governing_token_owner # None

\* slot + window stays in u64, is no earlier than the slot and no later than the
\* unbounded sum.
LEMMA SaturatingAdd ==
    ASSUME NEW a \in U64, NEW b \in U64
    PROVE  /\ saturating_add(a, b) \in U64
           /\ saturating_add(a, b) <= a + b
           /\ a <= saturating_add(a, b)
  BY WidthAssumption DEF saturating_add, U64

\* Every variant converts to the variant of the same name.
LEMMA IntoVariant ==
    ASSUME NEW a \in VoterWeightAction
    PROVE  into(a) = a
  BY DEF into, VoterWeightAction

\* What a caller may pass as remaining_accounts are accounts the gate understands.
LEMMA RemainingAccountsType ==
    ASSUME VoterTypeOK, NEW accounts \in RemainingAccounts
    PROVE  accounts \in Seq(AccountInfo)
<1>1. ASSUME NEW w \in Key
      PROVE  IdentityInfo(w, identity[w]) \in AccountInfo
  <2>1. identity[w] \in RawAccount
    BY ChainAssumption DEF VoterTypeOK, RegistrarTypeOK, ChainTypeOK
  <2> QED
    BY <2>1 DEF IdentityInfo, AccountInfo
<1>2. ASSUME NEW info \in AccountInfo
      PROVE  <<info>> \in Seq(AccountInfo)
  OBVIOUS
<1>3. <<>> \in Seq(AccountInfo)
  OBVIOUS
<1> QED
  BY <1>1, <1>2, <1>3 DEF RemainingAccounts

\* What the four instructions do to the records, with the checks that got them
\* there left out.
LEMMA CreateEffect ==
    ASSUME VoterTypeOK, Create
    PROVE  \E v \in VoterWeightRecordAddress :
               /\ vwr[v] = None
               /\ vwr' = [vwr EXCEPT ![v] = [realm |-> v[1],
                                             governing_token_mint |-> v[2],
                                             governing_token_owner |-> v[3],
                                             voter_weight |-> 0,
                                             voter_weight_expiry |-> 0,
                                             weight_action |-> None,
                                             weight_action_target |-> None]]
               /\ lamports' \in [Key -> Nat]
               /\ UNCHANGED <<clock, realm, identity, registrar>>
<1> PICK k \in RegistrarAddress, owner \in Key, signer \in Key, payer \in Key :
           create_voter_weight_record(k, owner, signer, payer)
  BY DEF Create
<1> DEFINE v == <<registrar[k].realm, registrar[k].governing_token_mint, owner>>
<1>1. v \in VoterWeightRecordAddress
  BY DEF VoterTypeOK, RegistrarTypeOK, Option, create_voter_weight_record, IsRegistrar,
         RegistrarAccount, VoterWeightRecordAddress
<1>2. lamports' \in [Key -> Nat]
  BY PayRentType, VoterWeightAssumption
     DEF create_voter_weight_record, VoterTypeOK, RegistrarTypeOK, ChainTypeOK
<1>3. /\ v[1] = registrar[k].realm
      /\ v[2] = registrar[k].governing_token_mint
      /\ v[3] = owner
  OBVIOUS
<1> QED
  BY <1>1, <1>2, <1>3 DEF create_voter_weight_record, FreshRecord

\* close_voter_weight_record removes one record and touches no other account of
\* the plugin.
LEMMA CloseEffect ==
    ASSUME VoterTypeOK, NEW v \in VoterWeightRecordAddress, Close(v)
    PROVE  /\ vwr' = [vwr EXCEPT ![v] = None]
           /\ lamports' \in [Key -> Nat]
           /\ UNCHANGED <<clock, realm, identity, registrar>>
  BY RefundRentType, VoterWeightAssumption
     DEF Close, close_voter_weight_record, VoterTypeOK, RegistrarTypeOK, ChainTypeOK

\* An update passes the gate of the record's own address.
LEMMA UpdateGate ==
    ASSUME VoterInv, NEW v \in VoterWeightRecordAddress, NEW k \in RegistrarAddress,
           NEW signer \in Key, NEW accounts \in RemainingAccounts,
           RecordUnder(k, v),
           Verified(k, v, signer, accounts)
    PROVE  /\ vwr[v] \in VoterWeightRecord
           /\ vwr[v].governing_token_owner = v[3]
           /\ Eligible(v)
<1>1. vwr[v] \in VoterWeightRecord
  BY DEF VoterInv, VoterTypeOK, RecordUnder, Option
<1>2. /\ k = <<v[1], v[2]>>
      /\ registrar[k] # None
      /\ vwr[v].governing_token_owner \in {v[3], None}
  BY DEF VoterInv, RecordUnder, IsRegistrar, RecordOfItsAddress, OfItsAddress
<1>3. GateOpen(registrar[k], vwr[v], signer, accounts, clock.unix_timestamp)
  <2>1. /\ registrar[k].min_trust_score \in Nat
        /\ registrar[k].max_verification_age \in I64
    BY <1>2 DEF VoterInv, VoterTypeOK, RegistrarTypeOK, RegistrarAccount, Option
  <2>2. clock.unix_timestamp \in 0 .. I64_MAX
    BY ChainAssumption, WidthAssumption
       DEF VoterInv, VoterTypeOK, RegistrarTypeOK, ChainTypeOK
  <2>3. accounts \in Seq(AccountInfo)
    BY RemainingAccountsType DEF VoterInv
  <2> QED
    BY <2>1, <2>2, <2>3, GateExactForAll DEF Verified
<1>4. /\ signer = v[3] /\ vwr[v].governing_token_owner = v[3]
      /\ accounts # <<>> /\ Head(accounts).key = IdentityPda(v[3])
  BY <1>2, <1>3, NoneAssumption DEF GateOpen, IsIdentityOf
<1>5. PICK w \in Key : accounts = <<IdentityInfo(w, identity[w])>>
  BY <1>4 DEF RemainingAccounts
<1>6. w = v[3]
  BY <1>4, <1>5 DEF IdentityInfo, IdentityPda
<1> QED
  BY <1>1, <1>2, <1>3, <1>4, <1>5, <1>6 DEF Eligible, GateOpen

\* update_voter_weight_record renews the record for any action until the end of
\* the window, and only for an eligible voter.
LEMMA UpdateEffect ==
    ASSUME VoterInv, NEW v \in VoterWeightRecordAddress, Update(v)
    PROVE  /\ vwr[v] \in VoterWeightRecord
           /\ vwr[v].governing_token_owner = v[3]
           /\ Eligible(v)
           /\ vwr' = Renewed(v, saturating_add(clock.slot, VOTER_WEIGHT_EXPIRY_SLOT_WINDOW),
                             None, None)
           /\ UNCHANGED registrarVars
  BY UpdateGate DEF Update, update_voter_weight_record

\* update_voter_weight_record_for_action renews the record for one action on one
\* real target until the end of the slot, and only for an eligible voter.
LEMMA UpdateForActionEffect ==
    ASSUME VoterInv, NEW v \in VoterWeightRecordAddress,
           NEW a \in WeightActionArg, NEW t \in Target, UpdateForAction(v, a, t)
    PROVE  /\ vwr[v] \in VoterWeightRecord
           /\ vwr[v].governing_token_owner = v[3]
           /\ Eligible(v)
           /\ t # DefaultPubkey
           /\ vwr' = Renewed(v, clock.slot, a, t)
           /\ UNCHANGED registrarVars
<1>1. into(a) = a
  BY IntoVariant, VoterWeightAssumption
<1> QED
  BY <1>1, UpdateGate
     DEF UpdateForAction, update_voter_weight_record_for_action

\* A renewal keeps the record's type and address, and nothing else changes.
LEMMA RenewedRecord ==
    ASSUME VoterTypeOK, NEW v \in VoterWeightRecordAddress,
           vwr[v] \in VoterWeightRecord,
           NEW expiry \in U64, NEW action \in Option(VoterWeightAction),
           NEW target \in Option(Target),
           vwr' = Renewed(v, expiry, action, target)
    PROVE  /\ vwr' \in [VoterWeightRecordAddress -> Option(VoterWeightRecord)]
           /\ vwr'[v] \in VoterWeightRecord
           /\ vwr'[v].realm = vwr[v].realm
           /\ vwr'[v].governing_token_mint = vwr[v].governing_token_mint
           /\ vwr'[v].governing_token_owner = vwr[v].governing_token_owner
           /\ vwr'[v].voter_weight = 1
           /\ vwr'[v].voter_weight_expiry = expiry
           /\ vwr'[v].weight_action = action
           /\ vwr'[v].weight_action_target = target
           /\ \A u \in VoterWeightRecordAddress \ {v} : vwr'[u] = vwr[u]
<1> DEFINE record == [vwr[v] EXCEPT !.voter_weight = 1,
                                    !.voter_weight_expiry = expiry,
                                    !.weight_action = action,
                                    !.weight_action_target = target]
<1>1. /\ record \in VoterWeightRecord
      /\ record.realm = vwr[v].realm
      /\ record.governing_token_mint = vwr[v].governing_token_mint
      /\ record.governing_token_owner = vwr[v].governing_token_owner
      /\ record.voter_weight = 1
      /\ record.voter_weight_expiry = expiry
      /\ record.weight_action = action
      /\ record.weight_action_target = target
  <2> DEFINE Expiry == Option(U64)
             Action == Option(VoterWeightAction)
             Aim == Option(Target)
             Owner == Option(Key)
  <2>1. 1 \in U64 /\ expiry \in Expiry
    BY VoterWeightAssumption, WidthAssumption DEF Option, U64
  <2>2. VoterWeightRecord = [realm : Realm,
                             governing_token_mint : Mint,
                             governing_token_owner : Owner,
                             voter_weight : U64,
                             voter_weight_expiry : Expiry,
                             weight_action : Action,
                             weight_action_target : Aim]
    BY DEF VoterWeightRecord
  <2>3. action \in Action /\ target \in Aim
    OBVIOUS
  <2> HIDE DEF Expiry, Action, Aim, Owner
  <2> QED
    BY <2>1, <2>2, <2>3
<1>2. vwr' = [vwr EXCEPT ![v] = record]
  BY DEF Renewed
<1> HIDE DEF record
<1> QED
  BY <1>1, <1>2 DEF VoterTypeOK, Option

-----------------------------------------------------------------------------
\* No voter weight record exists at first.
LEMMA VoterInvInit ==
    ASSUME VoterInit
    PROVE  VoterInv
  BY RegistrarTypeInit, RegistrarSoundInit
     DEF VoterInit, VoterInv, VoterTypeOK, RecordOfItsAddress, RecordShape, Option

\* Every step keeps the records' type.
LEMMA VoterTypeStep ==
    ASSUME VoterInv, VoterNext
    PROVE  VoterTypeOK'
<1> USE DEF VoterInv
<1>1. CASE RegistrarNext /\ UNCHANGED vwr
  BY <1>1, RegistrarTypeStep DEF VoterTypeOK
<1>2. CASE Create
  <2> PICK v \in VoterWeightRecordAddress :
             /\ vwr' = [vwr EXCEPT ![v] = [realm |-> v[1],
                                           governing_token_mint |-> v[2],
                                           governing_token_owner |-> v[3],
                                           voter_weight |-> 0,
                                           voter_weight_expiry |-> 0,
                                           weight_action |-> None,
                                           weight_action_target |-> None]]
             /\ lamports' \in [Key -> Nat]
             /\ UNCHANGED <<clock, realm, identity, registrar>>
    BY <1>2, CreateEffect
  <2>1. v[1] \in Realm /\ v[2] \in Mint /\ v[3] \in Key
    BY DEF VoterWeightRecordAddress
  <2>2. [realm |-> v[1], governing_token_mint |-> v[2], governing_token_owner |-> v[3],
         voter_weight |-> 0, voter_weight_expiry |-> 0, weight_action |-> None,
         weight_action_target |-> None] \in VoterWeightRecord
    BY <2>1, WidthAssumption DEF VoterWeightRecord, Option, U64
  <2> QED
    BY <2>2 DEF VoterTypeOK, RegistrarTypeOK, ChainTypeOK, Option
<1>3. ASSUME NEW v \in VoterWeightRecordAddress, Update(v)
      PROVE  VoterTypeOK'
  <2>1. saturating_add(clock.slot, VOTER_WEIGHT_EXPIRY_SLOT_WINDOW) \in U64
    BY SaturatingAdd, VoterWeightAssumption DEF VoterTypeOK, RegistrarTypeOK, ChainTypeOK
  <2>2. vwr' \in [VoterWeightRecordAddress -> Option(VoterWeightRecord)]
    BY <1>3, <2>1, UpdateEffect, RenewedRecord DEF Option
  <2> QED
    BY <1>3, <2>2, UpdateEffect
       DEF VoterTypeOK, RegistrarTypeOK, ChainTypeOK, registrarVars, chainVars
<1>4. ASSUME NEW v \in VoterWeightRecordAddress,
             NEW a \in WeightActionArg, NEW t \in Target, UpdateForAction(v, a, t)
      PROVE  VoterTypeOK'
  <2>1. clock.slot \in U64 /\ a \in VoterWeightAction
    BY VoterWeightAssumption DEF VoterTypeOK, RegistrarTypeOK, ChainTypeOK
  <2>2. vwr' \in [VoterWeightRecordAddress -> Option(VoterWeightRecord)]
    BY <1>4, <2>1, UpdateForActionEffect, RenewedRecord DEF Option
  <2> QED
    BY <1>4, <2>2, UpdateForActionEffect
       DEF VoterTypeOK, RegistrarTypeOK, ChainTypeOK, registrarVars, chainVars
<1>5. ASSUME NEW v \in VoterWeightRecordAddress, Close(v)
      PROVE  VoterTypeOK'
  BY <1>5, CloseEffect DEF VoterTypeOK, RegistrarTypeOK, ChainTypeOK, Option
<1> QED
  BY <1>1, <1>2, <1>3, <1>4, <1>5 DEF VoterNext, VoterInstruction

\* A step leaves a record of its own address: a new one is made from it, and no
\* other changes the fields that derive it.
LEMMA FieldsStep ==
    ASSUME VoterInv, VoterNext, NEW u \in VoterWeightRecordAddress, vwr'[u] # None
    PROVE  \/ /\ vwr'[u].realm = u[1]
              /\ vwr'[u].governing_token_mint = u[2]
              /\ vwr'[u].governing_token_owner = u[3]
           \/ /\ vwr[u] # None
              /\ vwr'[u].realm = vwr[u].realm
              /\ vwr'[u].governing_token_mint = vwr[u].governing_token_mint
              /\ vwr'[u].governing_token_owner = vwr[u].governing_token_owner
<1> USE DEF VoterInv
<1> DEFINE Goal == \/ /\ vwr'[u].realm = u[1]
                      /\ vwr'[u].governing_token_mint = u[2]
                      /\ vwr'[u].governing_token_owner = u[3]
                   \/ /\ vwr[u] # None
                      /\ vwr'[u].realm = vwr[u].realm
                      /\ vwr'[u].governing_token_mint = vwr[u].governing_token_mint
                      /\ vwr'[u].governing_token_owner = vwr[u].governing_token_owner
<1>1. CASE RegistrarNext /\ UNCHANGED vwr
  BY <1>1
<1>2. CASE Create
  <2> PICK v \in VoterWeightRecordAddress :
             vwr' = [vwr EXCEPT ![v] = [realm |-> v[1],
                                        governing_token_mint |-> v[2],
                                        governing_token_owner |-> v[3],
                                        voter_weight |-> 0,
                                        voter_weight_expiry |-> 0,
                                        weight_action |-> None,
                                        weight_action_target |-> None]]
    BY <1>2, CreateEffect
  <2> QED
    BY DEF VoterTypeOK
<1>3. ASSUME NEW v \in VoterWeightRecordAddress, Update(v)
      PROVE  Goal
  <2>1. saturating_add(clock.slot, VOTER_WEIGHT_EXPIRY_SLOT_WINDOW) \in U64
    BY SaturatingAdd, VoterWeightAssumption DEF VoterTypeOK, RegistrarTypeOK, ChainTypeOK
  <2>2. None \in Option(VoterWeightAction) /\ None \in Option(Target)
    BY DEF Option
  <2>3. vwr[v] # None
    BY <1>3, UpdateEffect, AbsentAssumption
  <2> QED
    BY <1>3, <2>1, <2>2, <2>3, UpdateEffect, RenewedRecord
<1>4. ASSUME NEW v \in VoterWeightRecordAddress,
             NEW a \in WeightActionArg, NEW t \in Target, UpdateForAction(v, a, t)
      PROVE  Goal
  <2>1. /\ clock.slot \in U64
        /\ a \in Option(VoterWeightAction)
        /\ t \in Option(Target)
    BY VoterWeightAssumption DEF VoterTypeOK, RegistrarTypeOK, ChainTypeOK, Option
  <2>2. vwr[v] # None
    BY <1>4, UpdateForActionEffect, AbsentAssumption
  <2> QED
    BY <1>4, <2>1, <2>2, UpdateForActionEffect, RenewedRecord
<1>5. ASSUME NEW v \in VoterWeightRecordAddress, Close(v)
      PROVE  Goal
  BY <1>5, CloseEffect DEF VoterTypeOK
<1> QED
  BY <1>1, <1>2, <1>3, <1>4, <1>5 DEF VoterNext, VoterInstruction

\* Nor does a step move a record away from its address.
LEMMA RecordOfItsAddressStep ==
    ASSUME VoterInv, VoterNext
    PROVE  RecordOfItsAddress'
  BY FieldsStep DEF VoterInv, RecordOfItsAddress, OfItsAddress

\* Slots only grow, so a record that no step touches keeps its shape.
LEMMA SlotGrows ==
    ASSUME VoterTypeOK, RegistrarNext
    PROVE  clock.slot \in Nat /\ clock'.slot \in Nat /\ clock.slot <= clock'.slot
<1>1. clock.slot \in Nat
  BY WidthAssumption DEF VoterTypeOK, RegistrarTypeOK, ChainTypeOK, U64
<1>2. CASE tick
  BY <1>1, <1>2 DEF tick
<1>3. CASE clock' = clock
  BY <1>1, <1>3
<1>4. CASE ChainNext /\ ~tick
  <2>1. clock' = clock
    BY <1>4 DEF ChainNext, set_realm_authority, set_realm_config, write_identity
  <2> QED
    BY <1>3, <2>1
<1>5. CASE RegistrarInstruction
  <2>1. clock' = clock
    BY <1>5, RegistrarInstructionFrame
  <2> QED
    BY <1>3, <2>1
<1> QED
  BY <1>2, <1>4, <1>5, Zenon DEF RegistrarNext

\* RecordShape, of one record.
Shape(record, slot) ==
    /\ record.voter_weight_expiry # None
    /\ \/ /\ record.weight_action = None
          /\ record.weight_action_target = None
          /\ \/ record.voter_weight = 0 /\ record.voter_weight_expiry = 0
             \/ /\ record.voter_weight = 1
                /\ record.voter_weight_expiry <= slot + VOTER_WEIGHT_EXPIRY_SLOT_WINDOW
       \/ /\ record.weight_action # None
          /\ record.weight_action_target \notin {None, DefaultPubkey}
          /\ record.voter_weight = 1
          /\ record.voter_weight_expiry <= slot

\* RecordShape says the same of each record on its own.
LEMMA RecordShapeSplit ==
    RecordShape <=> \A v \in VoterWeightRecordAddress :
                        vwr[v] # None => Shape(vwr[v], clock.slot)
  BY DEF RecordShape, Shape

\* With RecordShapeSplit, what remains of RecordShape is to follow one record.
LEMMA RecordShapeStep ==
    ASSUME VoterInv, VoterNext
    PROVE  RecordShape'
<1> USE DEF VoterInv
<1> SUFFICES \A u \in VoterWeightRecordAddress :
                 vwr'[u] # None => Shape(vwr'[u], clock'.slot)
  BY DEF RecordShape, Shape
<1>0. \A u \in VoterWeightRecordAddress : vwr[u] # None => Shape(vwr[u], clock.slot)
  BY RecordShapeSplit
<1>1. CASE RegistrarNext /\ UNCHANGED vwr
  <2> SUFFICES ASSUME NEW u \in VoterWeightRecordAddress, vwr[u] # None
               PROVE  Shape(vwr[u], clock'.slot)
    BY <1>1
  <2>1. vwr[u].voter_weight_expiry \in Option(U64)
    BY DEF VoterTypeOK, VoterWeightRecord, Option
  <2>2. clock.slot \in Nat /\ clock'.slot \in Nat /\ clock.slot <= clock'.slot
    BY <1>1, SlotGrows
  <2>3. Shape(vwr[u], clock.slot)
    BY <1>0
  <2>4. VOTER_WEIGHT_EXPIRY_SLOT_WINDOW \in Nat
    BY VoterWeightAssumption, WidthAssumption DEF U64
  <2> QED
    BY <2>1, <2>2, <2>3, <2>4, WidthAssumption DEF Shape, Option, U64
<1>2. CASE Create
  <2> PICK v \in VoterWeightRecordAddress :
             /\ vwr' = [vwr EXCEPT ![v] = [realm |-> v[1],
                                           governing_token_mint |-> v[2],
                                           governing_token_owner |-> v[3],
                                           voter_weight |-> 0,
                                           voter_weight_expiry |-> 0,
                                           weight_action |-> None,
                                           weight_action_target |-> None]]
             /\ UNCHANGED clock
    BY <1>2, CreateEffect
  <2> QED
    BY <1>0, NoneAssumption DEF Shape, VoterTypeOK
<1>3. ASSUME NEW v \in VoterWeightRecordAddress, Update(v)
      PROVE  \A u \in VoterWeightRecordAddress :
                 vwr'[u] # None => Shape(vwr'[u], clock'.slot)
  <2> DEFINE expiry == saturating_add(clock.slot, VOTER_WEIGHT_EXPIRY_SLOT_WINDOW)
  <2>1. /\ expiry \in U64
        /\ expiry <= clock.slot + VOTER_WEIGHT_EXPIRY_SLOT_WINDOW
    BY SaturatingAdd, VoterWeightAssumption DEF VoterTypeOK, RegistrarTypeOK, ChainTypeOK
  <2>2. None \in Option(VoterWeightAction) /\ None \in Option(Target)
    BY DEF Option
  <2>3. UNCHANGED clock
    BY <1>3, UpdateEffect DEF registrarVars, chainVars
  <2> HIDE DEF expiry
  <2>4. /\ vwr'[v].voter_weight = 1
        /\ vwr'[v].voter_weight_expiry = expiry
        /\ vwr'[v].weight_action = None
        /\ vwr'[v].weight_action_target = None
        /\ \A u \in VoterWeightRecordAddress \ {v} : vwr'[u] = vwr[u]
    BY <1>3, <2>1, <2>2, UpdateEffect, RenewedRecord DEF expiry
  <2>5. Shape(vwr'[v], clock.slot)
    BY <2>1, <2>4, NoneAssumption DEF Shape, U64
  <2> QED
    BY <1>0, <2>3, <2>4, <2>5
<1>4. ASSUME NEW v \in VoterWeightRecordAddress,
             NEW a \in WeightActionArg, NEW t \in Target, UpdateForAction(v, a, t)
      PROVE  \A u \in VoterWeightRecordAddress :
                 vwr'[u] # None => Shape(vwr'[u], clock'.slot)
  <2>1. /\ clock.slot \in U64
        /\ a \in Option(VoterWeightAction)
        /\ t \in Option(Target)
    BY VoterWeightAssumption DEF VoterTypeOK, RegistrarTypeOK, ChainTypeOK, Option
  <2>2. a # None /\ t # None /\ t # DefaultPubkey /\ UNCHANGED clock
    BY <1>4, UpdateForActionEffect, NoneAssumption, AbsentAssumption,
       VoterWeightAssumption DEF registrarVars, chainVars
  <2>3. /\ vwr'[v].voter_weight = 1
        /\ vwr'[v].voter_weight_expiry = clock.slot
        /\ vwr'[v].weight_action = a
        /\ vwr'[v].weight_action_target = t
        /\ \A u \in VoterWeightRecordAddress \ {v} : vwr'[u] = vwr[u]
    BY <1>4, <2>1, UpdateForActionEffect, RenewedRecord
  <2>4. Shape(vwr'[v], clock.slot)
    BY <2>1, <2>2, <2>3, NoneAssumption DEF Shape, U64
  <2> QED
    BY <1>0, <2>2, <2>3, <2>4
<1>5. ASSUME NEW v \in VoterWeightRecordAddress, Close(v)
      PROVE  \A u \in VoterWeightRecordAddress :
                 vwr'[u] # None => Shape(vwr'[u], clock'.slot)
  BY <1>0, <1>5, CloseEffect DEF VoterTypeOK
<1> QED
  BY <1>1, <1>2, <1>3, <1>4, <1>5 DEF VoterNext, VoterInstruction

-----------------------------------------------------------------------------
\* Type, address, shape and the soundness of registrars are preserved together:
\* the gate of an update needs the address, and the address the registrar.
LEMMA VoterInvStep ==
    ASSUME VoterInv, [VoterNext]_voterVars
    PROVE  VoterInv'
<1>1. CASE VoterNext
  <2>1. RegistrarSound'
    <3>1. CASE RegistrarNext
      BY <3>1, RegistrarSoundStep DEF VoterInv, VoterTypeOK
    <3>2. CASE VoterInstruction
      <4>1. UNCHANGED registrar
        BY <3>2, CreateEffect, CloseEffect, UpdateEffect, UpdateForActionEffect
           DEF VoterInstruction, VoterInv, registrarVars
      <4> QED
        BY <4>1 DEF VoterInv, RegistrarSound
    <3> QED
      BY <1>1, <3>1, <3>2 DEF VoterNext
  <2> QED
    BY <1>1, <2>1, VoterTypeStep, RecordOfItsAddressStep, RecordShapeStep DEF VoterInv
<1>2. CASE UNCHANGED voterVars
  BY <1>2 DEF VoterInv, VoterTypeOK, RegistrarTypeOK, ChainTypeOK, RegistrarSound,
              RecordOfItsAddress, OfItsAddress, RecordShape, voterVars, registrarVars,
              chainVars
<1> QED
  BY <1>1, <1>2

\* The inductive invariant holds of every behaviour of the voter instructions.
THEOREM VoterInvariant == VoterSpec => []VoterInv
  BY VoterInvInit, VoterInvStep, PTL DEF VoterSpec

\* VoterTypeOK: in particular the expiry of a record never leaves u64, however
\* late the slot of the update.
THEOREM VoterTypeInvariant == VoterSpec => []VoterTypeOK
<1>1. VoterInv => VoterTypeOK
  BY DEF VoterInv
<1> QED
  BY <1>1, VoterInvariant, PTL

\* A record whose owner was not overwritten is at its address.
LEMMA OwnedIsAtItsAddress ==
    ASSUME VoterInv, NEW v \in VoterWeightRecordAddress, vwr[v] # None
    PROVE  vwr[v].governing_token_owner # None <=> AtItsAddress(v)
<1>1. v = <<v[1], v[2], v[3]>> /\ v[3] # None
  BY NoneAssumption DEF VoterWeightRecordAddress
<1> QED
  BY <1>1 DEF VoterInv, RecordOfItsAddress, OfItsAddress, AtItsAddress

\* The registrar and voter instructions overwrite no owner.
LEMMA OwnersKeptInvariant == VoterSpec => []OwnersKept
<1>1. VoterInit => OwnersKept
  BY DEF VoterInit, OwnersKept
<1>2. VoterInv /\ OwnersKept /\ [VoterNext]_voterVars => OwnersKept'
  <2> SUFFICES ASSUME VoterInv, OwnersKept, [VoterNext]_voterVars PROVE OwnersKept'
    OBVIOUS
  <2>1. CASE VoterNext
    <3>1. \A v \in VoterWeightRecordAddress : v[3] # None
      BY NoneAssumption DEF VoterWeightRecordAddress
    <3> QED
      BY <2>1, <3>1, FieldsStep DEF OwnersKept
  <2>2. CASE UNCHANGED voterVars
    BY <2>2 DEF OwnersKept, voterVars
  <2> QED
    BY <2>1, <2>2
<1> QED
  BY <1>1, <1>2, VoterInvariant, PTL DEF VoterSpec

\* RecordAtItsAddress, though no update derives the address again.
THEOREM RecordAtItsAddressInvariant == VoterSpec => []RecordAtItsAddress
<1>1. VoterInv /\ OwnersKept => RecordAtItsAddress
  BY OwnedIsAtItsAddress DEF VoterInv, OwnersKept, RecordOfItsAddress, OfItsAddress,
                             RecordAtItsAddress
<1> QED
  BY <1>1, VoterInvariant, OwnersKeptInvariant, PTL

\* RecordShape: fresh, general or action-bound, after any sequence of updates.
THEOREM RecordShapeInvariant == VoterSpec => []RecordShape
<1>1. VoterInv => RecordShape
  BY DEF VoterInv
<1> QED
  BY <1>1, VoterInvariant, PTL

\* A step of the voter instructions that gives or renews a weight is an update that
\* passed the gate of the record's own address.
LEMMA RenewalStep ==
    ASSUME VoterInv, VoterNext, NEW v \in VoterWeightRecordAddress,
           Gives(v)
    PROVE  Eligible(v)
<1> USE DEF VoterInv, VoterTypeOK, Gives
<1>1. CASE RegistrarNext /\ UNCHANGED vwr
  BY <1>1
<1>2. CASE Create
  BY <1>2, CreateEffect
<1>3. ASSUME NEW u \in VoterWeightRecordAddress, Update(u)
      PROVE  Eligible(v)
  BY <1>3, UpdateEffect DEF Renewed
<1>4. ASSUME NEW u \in VoterWeightRecordAddress,
             NEW a \in WeightActionArg, NEW t \in Target, UpdateForAction(u, a, t)
      PROVE  Eligible(v)
  BY <1>4, UpdateForActionEffect DEF Renewed
<1>5. ASSUME NEW u \in VoterWeightRecordAddress, Close(u)
      PROVE  Eligible(v)
  BY <1>5, CloseEffect
<1> QED
  BY <1>1, <1>2, <1>3, <1>4, <1>5 DEF VoterNext, VoterInstruction

\* RenewalRequiresEligibility: no step gives weight to a wallet that does not pass
\* the gate of that realm and mint with its own identity account.
THEOREM RenewalRequiresEligibilityHolds == VoterSpec => RenewalRequiresEligibility
<1>1. VoterInv /\ [VoterNext]_voterVars =>
        [\A v \in VoterWeightRecordAddress : Gives(v) => Eligible(v)]_voterVars
  BY RenewalStep
<1> QED
  BY <1>1, VoterInvariant, PTL DEF VoterSpec, RenewalRequiresEligibility

\* The registrar of the record's own realm and mint and the voter's own identity
\* account will do.
LEMMA EligibleRenews ==
    ASSUME VoterInv, NEW v \in VoterWeightRecordAddress,
           vwr[v] # None, AtItsAddress(v), Eligible(v)
    PROVE  CanRenew(v)
<1> DEFINE k == <<v[1], v[2]>>
           accounts == <<IdentityInfo(v[3], identity[v[3]])>>
<1>1. k \in RegistrarAddress /\ v[3] \in Key
  BY DEF VoterWeightRecordAddress, RegistrarAddress
<1>2. accounts \in RemainingAccounts
  BY <1>1 DEF RemainingAccounts
<1>3. registrar[k] # None
  BY DEF Eligible
<1>4. /\ IsRegistrar(k)
      /\ registrar[k].min_trust_score \in Nat
      /\ registrar[k].max_verification_age \in I64
  BY <1>1, <1>3 DEF VoterInv, RegistrarSound, IsRegistrar, VoterTypeOK, RegistrarTypeOK,
                    RegistrarAccount, Option
<1>5. v = <<vwr[v].realm, vwr[v].governing_token_mint, vwr[v].governing_token_owner>>
  BY DEF AtItsAddress
<1>6. RecordUnder(k, v)
  BY <1>4, <1>5 DEF RecordUnder, IsRegistrar
<1>7. GateOpen(registrar[k], vwr[v], v[3], accounts, clock.unix_timestamp)
  BY <1>5 DEF Eligible, GateOpen
<1>8. clock.unix_timestamp \in 0 .. I64_MAX
  BY ChainAssumption, WidthAssumption
     DEF VoterInv, VoterTypeOK, RegistrarTypeOK, ChainTypeOK
<1>9. accounts \in Seq(AccountInfo)
  BY <1>2, RemainingAccountsType DEF VoterInv
<1>10. Verified(k, v, v[3], accounts)
  BY <1>4, <1>7, <1>8, <1>9, GateExactForAll DEF Verified
<1> QED
  BY <1>1, <1>2, <1>6, <1>10 DEF CanRenew

\* EligibleCanRenew: no sequence of registrar and voter instructions locks an
\* eligible voter out.
THEOREM EligibleCanRenewInvariant == VoterSpec => []EligibleCanRenew
<1>1. VoterInv /\ RecordAtItsAddress => EligibleCanRenew
  BY EligibleRenews DEF RecordAtItsAddress, EligibleCanRenew
<1> QED
  BY <1>1, VoterInvariant, RecordAtItsAddressInvariant, PTL

-----------------------------------------------------------------------------
(***************************************************************************)
(* The refinement of module VoterLease.  The inductive invariant is what   *)
(* makes each step map to a step: an update reaches the lease of the voter *)
(* in the record's address because the record is at its address, and the   *)
(* gate it passes is that voter's.                                         *)
(***************************************************************************)

\* The mapped variables.
Leases == [v \in VoterWeightRecordAddress |-> LeaseOf(v, vwr[v])]

Eligibles == [v \in VoterWeightRecordAddress |-> Eligible(v)]

\* Eligible is a truth value, so that the mapped function has its type.
LEMMA EligibleType == Eligibles \in [VoterWeightRecordAddress -> BOOLEAN]
  BY DEF Eligibles, Eligible

\* Eligibility depends on the clock, the registrars and the identities alone.
LEMMA EligibleFrame ==
    ASSUME UNCHANGED <<clock, identity, registrar>>
    PROVE  Eligibles' = Eligibles
  BY DEF Eligibles, Eligible, GateOpen, IsIdentityOf, IdentityInfo

\* A lease is None or a lease record: a record always has an expiry.
LEMMA LeaseType ==
    ASSUME VoterInv, NEW v \in VoterWeightRecordAddress, vwr[v] # None
    PROVE  /\ vwr[v] \in VoterWeightRecord
           /\ vwr[v].voter_weight_expiry \in U64
  BY DEF VoterInv, VoterTypeOK, RecordShape, VoterWeightRecord, Option

\* No record yet, so no lease.
LEMMA LeaseInit == VoterInit => Lease!Init
<1> SUFFICES ASSUME VoterInit PROVE Lease!Init
  OBVIOUS
<1>1. clock.slot \in 0 .. U64_MAX
  BY ChainAssumption DEF VoterInit, RegistrarInit, ChainInit, U64
<1>2. Leases = [v \in VoterWeightRecordAddress |-> None]
  BY DEF VoterInit, Leases, LeaseOf
<1>3. Barred = {}
  BY DEF VoterInit, Barred
<1> QED
  BY <1>1, <1>2, <1>3, EligibleType DEF Lease!Init, Leases, Eligibles

-----------------------------------------------------------------------------
\* A step of the chain or of the registrars is a step of the environment: the
\* records stay, and those whose expiry the new slot passes stop being leases.
LEMMA EnvironmentStep ==
    ASSUME VoterInv, RegistrarNext, UNCHANGED vwr
    PROVE  Lease!Environment
<1> USE DEF VoterInv, VoterTypeOK, RegistrarTypeOK, ChainTypeOK
<1>1. clock'.slot \in {clock.slot, clock.slot + 1}
  <2>1. CASE ChainNext
    BY <2>1 DEF ChainNext, tick, set_realm_authority, set_realm_config, write_identity
  <2>2. CASE RegistrarInstruction
    BY <2>2, RegistrarInstructionFrame
  <2> QED
    BY <2>1, <2>2 DEF RegistrarNext
<1>2. Eligibles' \in [VoterWeightRecordAddress -> BOOLEAN]
  BY DEF Eligibles, Eligible
<1>3. ASSUME NEW v \in VoterWeightRecordAddress
      PROVE  Leases'[v] = IF Leases[v] # None /\ Leases[v].until < clock'.slot
                            THEN None ELSE Leases[v]
  <2>1. Leases[v] = LeaseOf(v, vwr[v]) /\ Leases'[v] = LeaseOf(v, vwr[v])'
    BY DEF Leases
  <2>2. CASE vwr[v] = None
    BY <2>1, <2>2 DEF LeaseOf
  <2>3. CASE vwr[v] # None
    <3> DEFINE expiry == vwr[v].voter_weight_expiry
               none == vwr[v].voter_weight = 0
               held == [scope |-> IF vwr[v].weight_action = None
                                    THEN <<>>
                                    ELSE <<vwr[v].weight_action,
                                           vwr[v].weight_action_target>>,
                        until |-> expiry]
    <3>1. expiry \in U64 /\ clock.slot \in U64 /\ clock.slot <= clock'.slot
      BY <1>1, <2>3, LeaseType, WidthAssumption DEF U64
    <3>2. LeaseOf(v, vwr[v]) = IF none \/ expiry < clock.slot THEN None ELSE held
      BY <2>3 DEF LeaseOf
    <3>3. LeaseOf(v, vwr[v])' = IF none \/ expiry < clock'.slot THEN None ELSE held
      BY <2>3 DEF LeaseOf
    <3>4. held.until = expiry
      OBVIOUS
    <3>5. expiry < clock.slot => expiry < clock'.slot
      BY <1>1, <3>1, WidthAssumption DEF U64
    <3> HIDE DEF expiry, held, none
    <3> QED
      BY <2>1, <3>2, <3>3, <3>4, <3>5
  <2> QED
    BY <2>2, <2>3
<1>4. Leases' = Lease!Running(clock'.slot)
  BY <1>3 DEF Leases, Lease!Running
<1>5. UNCHANGED Barred
  BY DEF Barred
<1> QED
  BY <1>1, <1>2, <1>4, <1>5 DEF Lease!Environment, Leases, Eligibles

\* A new record has no weight, so it is no lease.
LEMMA CreateStutters ==
    ASSUME VoterInv, Create
    PROVE  UNCHANGED Lease!leaseVars
<1> USE DEF VoterInv
<1> PICK v \in VoterWeightRecordAddress :
           /\ vwr[v] = None
           /\ vwr' = [vwr EXCEPT ![v] = [realm |-> v[1],
                                         governing_token_mint |-> v[2],
                                         governing_token_owner |-> v[3],
                                         voter_weight |-> 0,
                                         voter_weight_expiry |-> 0,
                                         weight_action |-> None,
                                         weight_action_target |-> None]]
           /\ UNCHANGED <<clock, realm, identity, registrar>>
  BY CreateEffect
<1>1. Leases' = Leases
  <2> SUFFICES ASSUME NEW u \in VoterWeightRecordAddress
               PROVE  LeaseOf(u, vwr[u])' = LeaseOf(u, vwr[u])
    BY DEF Leases
  <2>1. CASE u = v
    <3>1. vwr'[v].voter_weight = 0
      BY DEF VoterTypeOK
    <3> QED
      BY <2>1, <3>1 DEF LeaseOf
  <2>2. CASE u # v
    BY <2>2 DEF LeaseOf, VoterTypeOK
  <2> QED
    BY <2>1, <2>2
<1>2. Barred' = Barred
  <2>1. vwr'[v].governing_token_owner = v[3]
    BY DEF VoterTypeOK
  <2>2. \A u \in VoterWeightRecordAddress \ {v} : vwr'[u] = vwr[u]
    BY DEF VoterTypeOK
  <2> QED
    BY <2>1, <2>2 DEF Barred
<1> QED
  BY <1>1, <1>2, EligibleFrame DEF Lease!leaseVars, Leases, Eligibles

\* Closing a record gives its lease up, if it was one.
LEMMA CloseGivesUp ==
    ASSUME VoterInv, NEW v \in VoterWeightRecordAddress, Close(v)
    PROVE  Lease!GiveUp(v)
<1> USE DEF VoterInv
<1>1. /\ vwr' = [vwr EXCEPT ![v] = None]
      /\ UNCHANGED <<clock, identity, registrar>>
  BY CloseEffect
<1>2. Leases' = [Leases EXCEPT ![v] = None]
  BY <1>1 DEF Leases, LeaseOf, VoterTypeOK
<1>3. v \notin Barred
  <2>1. vwr[v] # None /\ vwr[v].governing_token_owner \in Key
    BY DEF Close, close_voter_weight_record, RecordUnder
  <2>2. vwr[v].governing_token_owner \in {v[3], None}
    BY <2>1 DEF RecordOfItsAddress, OfItsAddress
  <2> QED
    BY <2>1, <2>2, NoneAssumption DEF Barred
<1>4. Barred' = Barred
  BY <1>1, <1>3 DEF Barred, VoterTypeOK
<1> QED
  BY <1>1, <1>2, <1>3, <1>4, EligibleFrame DEF Lease!GiveUp, Leases, Eligibles

\* Renewing a record takes the lease it then stands for.
LEMMA RenewedLease ==
    ASSUME VoterInv, NEW v \in VoterWeightRecordAddress,
           vwr[v] \in VoterWeightRecord, vwr[v].governing_token_owner = v[3],
           NEW expiry \in U64, clock.slot <= expiry,
           NEW action \in Option(VoterWeightAction),
           NEW target \in Option(Target),
           vwr' = Renewed(v, expiry, action, target), UNCHANGED clock
    PROVE  /\ Leases' = [Leases EXCEPT ![v] =
                            [scope |-> IF action = None THEN <<>> ELSE <<action, target>>,
                             until |-> expiry]]
           /\ v \notin Barred
           /\ Barred' = Barred
<1> USE DEF VoterInv
<1>1. /\ vwr'[v] \in VoterWeightRecord
      /\ vwr'[v].governing_token_owner = v[3]
      /\ vwr'[v].voter_weight = 1
      /\ vwr'[v].voter_weight_expiry = expiry
      /\ vwr'[v].weight_action = action
      /\ vwr'[v].weight_action_target = target
      /\ \A u \in VoterWeightRecordAddress \ {v} : vwr'[u] = vwr[u]
  BY RenewedRecord
<1>2. ~(expiry < clock.slot)
  BY WidthAssumption DEF VoterTypeOK, RegistrarTypeOK, ChainTypeOK, U64
<1>3. vwr'[v] # None
  BY <1>1, AbsentAssumption
<1>4. LeaseOf(v, vwr[v])' = [scope |-> IF action = None THEN <<>> ELSE <<action, target>>,
                          until |-> expiry]
  BY <1>1, <1>2, <1>3 DEF LeaseOf
<1>5. \A u \in VoterWeightRecordAddress \ {v} : LeaseOf(u, vwr[u])' = LeaseOf(u, vwr[u])
  BY <1>1 DEF LeaseOf
<1>6. v \notin Barred /\ Barred' = Barred
  BY <1>1 DEF Barred
<1> QED
  BY <1>4, <1>5, <1>6 DEF Leases

\* update_voter_weight_record takes a lease for every action.
LEMMA UpdateTakes ==
    ASSUME VoterInv, NEW v \in VoterWeightRecordAddress, Update(v)
    PROVE  \E scope \in LeaseScope : Lease!Take(v, scope)
<1> DEFINE expiry == saturating_add(clock.slot, VOTER_WEIGHT_EXPIRY_SLOT_WINDOW)
<1>1. /\ clock.slot \in U64
      /\ expiry \in U64
      /\ clock.slot <= expiry
  BY SaturatingAdd, VoterWeightAssumption
     DEF VoterInv, VoterTypeOK, RegistrarTypeOK, ChainTypeOK
<1>2. expiry = Lease!Until(<<>>)
  BY <1>1, VoterWeightAssumption, WidthAssumption DEF Lease!Until, saturating_add, U64
<1>3. /\ vwr[v] \in VoterWeightRecord
      /\ vwr[v].governing_token_owner = v[3]
      /\ Eligible(v)
      /\ vwr' = Renewed(v, expiry, None, None)
      /\ UNCHANGED <<clock, identity, registrar>>
  BY UpdateEffect DEF registrarVars, chainVars
<1> HIDE DEF expiry
<1>4. /\ Leases' = [Leases EXCEPT ![v] = [scope |-> <<>>, until |-> expiry]]
      /\ v \notin Barred
      /\ Barred' = Barred
  BY <1>1, <1>3, RenewedLease DEF Option
<1>5. Lease!Take(v, <<>>)
  BY <1>2, <1>3, <1>4, EligibleFrame DEF Lease!Take, Leases, Eligibles
<1> QED
  BY <1>5 DEF LeaseScope

\* update_voter_weight_record_for_action takes a lease for one action on one
\* target, in this slot.
LEMMA UpdateForActionTakes ==
    ASSUME VoterInv, NEW v \in VoterWeightRecordAddress,
           NEW a \in WeightActionArg, NEW t \in Target, UpdateForAction(v, a, t)
    PROVE  \E scope \in LeaseScope : Lease!Take(v, scope)
<1>1. clock.slot \in U64 /\ clock.slot <= clock.slot
  BY WidthAssumption DEF VoterInv, VoterTypeOK, RegistrarTypeOK, ChainTypeOK, U64
<1>2. /\ vwr[v] \in VoterWeightRecord
      /\ vwr[v].governing_token_owner = v[3]
      /\ Eligible(v)
      /\ vwr' = Renewed(v, clock.slot, a, t)
      /\ UNCHANGED <<clock, identity, registrar>>
  BY UpdateForActionEffect DEF registrarVars, chainVars
<1>3. a \in Option(VoterWeightAction) /\ a # None /\ t \in Option(Target)
  BY VoterWeightAssumption, AbsentAssumption DEF Option
<1>4. /\ Leases' = [Leases EXCEPT ![v] = [scope |-> <<a, t>>, until |-> clock.slot]]
      /\ v \notin Barred
      /\ Barred' = Barred
  BY <1>1, <1>2, <1>3, RenewedLease
<1>5. Lease!Until(<<a, t>>) = clock.slot
  BY DEF Lease!Until
<1>6. Lease!Take(v, <<a, t>>)
  BY <1>2, <1>4, <1>5, EligibleFrame DEF Lease!Take, Leases, Eligibles
<1> QED
  BY <1>6 DEF LeaseScope

-----------------------------------------------------------------------------
\* A step that leaves the clock, the identities, the registrars and the records
\* alone leaves the leases alone.
LEMMA LeaseFrame ==
    ASSUME UNCHANGED <<clock, identity, registrar, vwr>>
    PROVE  UNCHANGED Lease!leaseVars
<1>1. Leases' = Leases /\ Barred' = Barred
  BY DEF Leases, LeaseOf, Barred
<1> QED
  BY <1>1, EligibleFrame DEF Lease!leaseVars, Leases, Eligibles

\* Every step of the program and of the chain around it is a step of WeightLease
\* or leaves the leases alone.
LEMMA LeaseStep ==
    ASSUME VoterInv, [VoterNext]_voterVars
    PROVE  [Lease!Next]_(Lease!leaseVars)
<1>1. CASE RegistrarNext /\ UNCHANGED vwr
  BY <1>1, EnvironmentStep DEF Lease!Next
<1>2. CASE Create
  BY <1>2, CreateStutters
<1>3. ASSUME NEW v \in VoterWeightRecordAddress, Update(v)
      PROVE  Lease!Next
  BY <1>3, UpdateTakes DEF Lease!Next
<1>4. ASSUME NEW v \in VoterWeightRecordAddress,
             NEW a \in WeightActionArg, NEW t \in Target, UpdateForAction(v, a, t)
      PROVE  Lease!Next
  BY <1>4, UpdateForActionTakes DEF Lease!Next
<1>5. ASSUME NEW v \in VoterWeightRecordAddress, Close(v)
      PROVE  Lease!Next
  BY <1>5, CloseGivesUp DEF Lease!Next
<1>6. CASE UNCHANGED voterVars
  BY <1>6, LeaseFrame DEF voterVars, registrarVars, chainVars
<1> QED
  BY <1>1, <1>2, <1>3, <1>4, <1>5, <1>6 DEF VoterNext, VoterInstruction

\* ImplementsLease: governance may reason about leases taken by eligible voters in
\* place of registrars, records, signers and identity accounts.
THEOREM ImplementsLeaseHolds == VoterSpec => ImplementsLease
  BY LeaseInit, LeaseStep, VoterInvariant, PTL DEF VoterSpec, ImplementsLease, Lease!Spec
=============================================================================
