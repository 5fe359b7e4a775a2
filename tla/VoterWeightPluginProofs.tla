---------------------- MODULE VoterWeightPluginProofs ----------------------
(***************************************************************************)
(* The quorum denominator, then the whole program: what is proved of the   *)
(* voter instructions and of the quorum instructions apart holds of all    *)
(* nine together, and no lamport is made or lost.                          *)
(***************************************************************************)
EXTENDS VoterWeightPlugin, VoterWeightProofs, FiniteSetTheorems

\* New: zero and expired from slot 1 on.  Set: positive, and never expiring.
NewOrSet(record) ==
    \/ record.max_voter_weight = 0 /\ record.max_voter_weight_expiry = 0
    \/ record.max_voter_weight > 0 /\ record.max_voter_weight_expiry = None

MaxInv ==
    /\ MaxTypeOK
    /\ RegistrarSound
    /\ \A x \in MaxVoterWeightRecordAddress :
           maxvwr[x] # None =>
               /\ x = <<maxvwr[x].realm, maxvwr[x].governing_token_mint>>
               /\ NewOrSet(maxvwr[x])

\* No max voter weight record exists at first.
LEMMA MaxInvInit ==
    ASSUME MaxInit
    PROVE  MaxInv
  BY RegistrarTypeInit, RegistrarSoundInit DEF MaxInit, MaxInv, MaxTypeOK, Option

\* What each instruction does, and under whose registrar and authority.
LEMMA CreateMaxEffect ==
    ASSUME MaxInv, NEW k \in RegistrarAddress, NEW r \in Realm, NEW signer \in Key,
           NEW payer \in Key, create_max_voter_weight_record(k, r, signer, payer)
    PROVE  /\ k \in MaxVoterWeightRecordAddress
           /\ maxvwr[k] = None
           /\ registrar[k] # None
           /\ realm[k[1]].authority # None
           /\ maxvwr' = [maxvwr EXCEPT ![k] = [realm |-> k[1],
                                               governing_token_mint |-> k[2],
                                               max_voter_weight |-> 0,
                                               max_voter_weight_expiry |-> 0]]
           /\ lamports' \in [Key -> Nat]
           /\ UNCHANGED <<clock, realm, identity, registrar>>
<1> USE DEF create_max_voter_weight_record, FreshMaxRecord
<1>1. /\ k = <<registrar[k].realm, registrar[k].governing_token_mint>>
      /\ registrar[k] # None
      /\ r = registrar[k].realm
      /\ realm[r].authority # None
  BY DEF IsRegistrar, AdminOf, RealmAuthoritySigned
<1>2. k[1] = registrar[k].realm /\ k[2] = registrar[k].governing_token_mint
  BY <1>1
<1>3. lamports' \in [Key -> Nat]
  BY PayRentType, MaxVoterWeightAssumption DEF MaxInv, MaxTypeOK, RegistrarTypeOK, ChainTypeOK
<1>4. k \in MaxVoterWeightRecordAddress
  BY DEF MaxVoterWeightRecordAddress, RegistrarAddress
<1> QED
  BY <1>1, <1>2, <1>3, <1>4

\* What an update writes.
Updated(x, weight) == [maxvwr EXCEPT ![x].max_voter_weight = weight,
                                     ![x].max_voter_weight_expiry = None]

\* update_max_voter_weight_record writes a positive weight that does not expire,
\* in the record of the registrar's own realm and mint.
LEMMA UpdateMaxEffect ==
    ASSUME MaxInv, NEW k \in RegistrarAddress, NEW x \in MaxVoterWeightRecordAddress,
           NEW r \in Realm, NEW signer \in Key, NEW weight \in MaxVoterWeightArg,
           update_max_voter_weight_record(k, x, r, signer, weight)
    PROVE  /\ maxvwr[x] \in MaxVoterWeightRecord
           /\ registrar[x] # None
           /\ realm[x[1]].authority # None
           /\ weight > 0
           /\ maxvwr' = Updated(x, weight)
           /\ UNCHANGED registrarVars
<1> USE DEF update_max_voter_weight_record, MaxRecordUnder
<1>1. maxvwr[x] # None /\ maxvwr[x] \in MaxVoterWeightRecord
  BY DEF MaxInv, MaxTypeOK, Option
<1>2. /\ k = <<registrar[k].realm, registrar[k].governing_token_mint>>
      /\ registrar[k] # None
      /\ r = registrar[k].realm
      /\ realm[r].authority # None
  BY DEF IsRegistrar, AdminOf, RealmAuthoritySigned
<1>3. x = k
  BY <1>1, <1>2 DEF MaxInv
<1>4. x[1] = r
  BY <1>2, <1>3
<1> QED
  BY <1>1, <1>2, <1>3, <1>4 DEF Updated

\* What an update leaves in the record it was given, and in the others.
LEMMA UpdatedMaxRecord ==
    ASSUME MaxInv, NEW x \in MaxVoterWeightRecordAddress,
           maxvwr[x] \in MaxVoterWeightRecord, NEW weight \in MaxVoterWeightArg,
           maxvwr' = Updated(x, weight)
    PROVE  /\ maxvwr' \in [MaxVoterWeightRecordAddress -> Option(MaxVoterWeightRecord)]
           /\ maxvwr'[x] \in MaxVoterWeightRecord
           /\ maxvwr'[x].realm = maxvwr[x].realm
           /\ maxvwr'[x].governing_token_mint = maxvwr[x].governing_token_mint
           /\ maxvwr'[x].max_voter_weight = weight
           /\ maxvwr'[x].max_voter_weight_expiry = None
           /\ \A y \in MaxVoterWeightRecordAddress \ {x} : maxvwr'[y] = maxvwr[y]
<1> DEFINE record == [maxvwr[x] EXCEPT !.max_voter_weight = weight,
                                       !.max_voter_weight_expiry = None]
<1>1. /\ record \in MaxVoterWeightRecord
      /\ record.realm = maxvwr[x].realm
      /\ record.governing_token_mint = maxvwr[x].governing_token_mint
      /\ record.max_voter_weight = weight
      /\ record.max_voter_weight_expiry = None
  <2> DEFINE Expiry == Option(U64)
  <2>1. None \in Expiry /\ weight \in U64
    BY MaxVoterWeightAssumption DEF Option
  <2>2. MaxVoterWeightRecord = [realm : Realm,
                                governing_token_mint : Mint,
                                max_voter_weight : U64,
                                max_voter_weight_expiry : Expiry]
    BY DEF MaxVoterWeightRecord
  <2> HIDE DEF Expiry
  <2> QED
    BY <2>1, <2>2
<1>2. maxvwr' = [maxvwr EXCEPT ![x] = record]
  BY DEF Updated
<1> HIDE DEF record
<1> QED
  BY <1>1, <1>2 DEF MaxInv, MaxTypeOK, Option

\* The strengthened invariant is inductive.
LEMMA MaxInvStep ==
    ASSUME MaxInv, [MaxNext]_maxVars
    PROVE  MaxInv'
<1>1. CASE RegistrarNext /\ UNCHANGED maxvwr
  BY <1>1, RegistrarTypeStep, RegistrarSoundStep DEF MaxInv, MaxTypeOK
<1>2. ASSUME NEW k \in RegistrarAddress, NEW r \in Realm, NEW signer \in Key,
             NEW payer \in Key, create_max_voter_weight_record(k, r, signer, payer)
      PROVE  MaxInv'
  <2> DEFINE record == [realm |-> k[1], governing_token_mint |-> k[2],
                        max_voter_weight |-> 0, max_voter_weight_expiry |-> 0]
  <2>1. record \in MaxVoterWeightRecord
    BY WidthAssumption DEF RegistrarAddress, MaxVoterWeightRecord, Option, U64
  <2>2. NewOrSet(record) /\ k = <<record.realm, record.governing_token_mint>>
    BY DEF NewOrSet, RegistrarAddress
  <2>3. /\ k \in MaxVoterWeightRecordAddress
        /\ maxvwr' = [maxvwr EXCEPT ![k] = record]
        /\ lamports' \in [Key -> Nat]
        /\ UNCHANGED <<clock, realm, identity, registrar>>
    BY <1>2, CreateMaxEffect
  <2> HIDE DEF record
  <2> QED
    BY <2>1, <2>2, <2>3
       DEF MaxInv, MaxTypeOK, RegistrarTypeOK, ChainTypeOK, RegistrarSound, Option
<1>3. ASSUME NEW k \in RegistrarAddress, NEW x \in MaxVoterWeightRecordAddress,
             NEW r \in Realm, NEW signer \in Key, NEW weight \in MaxVoterWeightArg,
             update_max_voter_weight_record(k, x, r, signer, weight)
      PROVE  MaxInv'
  <2>1. /\ maxvwr[x] \in MaxVoterWeightRecord /\ maxvwr[x] # None
        /\ weight > 0
        /\ UNCHANGED registrarVars
    BY <1>3, UpdateMaxEffect, AbsentAssumption
  <2>2. /\ maxvwr' \in [MaxVoterWeightRecordAddress -> Option(MaxVoterWeightRecord)]
        /\ maxvwr'[x].realm = maxvwr[x].realm
        /\ maxvwr'[x].governing_token_mint = maxvwr[x].governing_token_mint
        /\ maxvwr'[x].max_voter_weight = weight
        /\ maxvwr'[x].max_voter_weight_expiry = None
        /\ \A y \in MaxVoterWeightRecordAddress \ {x} : maxvwr'[y] = maxvwr[y]
    BY <1>3, UpdateMaxEffect, UpdatedMaxRecord
  <2>3. NewOrSet(maxvwr'[x]) /\ x = <<maxvwr'[x].realm, maxvwr'[x].governing_token_mint>>
    BY <2>1, <2>2 DEF MaxInv, NewOrSet
  <2> QED
    BY <2>1, <2>2, <2>3
       DEF MaxInv, MaxTypeOK, RegistrarTypeOK, ChainTypeOK, RegistrarSound,
           registrarVars, chainVars
<1>4. CASE UNCHANGED maxVars
  BY <1>4 DEF MaxInv, MaxTypeOK, RegistrarTypeOK, ChainTypeOK, RegistrarSound,
              maxVars, registrarVars, chainVars
<1> QED
  BY <1>1, <1>2, <1>3, <1>4 DEF MaxNext, MaxInstruction

\* Max voter weight records keep their types and addresses, and are either as
\* created (expired at zero) or set for good to a positive weight.
THEOREM MaxInvariant == MaxSpec => []MaxInv
  BY MaxInvInit, MaxInvStep, PTL DEF MaxSpec

-----------------------------------------------------------------------------
\* A record that never expires is set, and so positive; a new one expired at slot 0.
LEMMA SetIsPositive == MaxInv => LiveQuorumPositive
<1> SUFFICES ASSUME MaxInv, NEW x \in MaxVoterWeightRecordAddress,
                    maxvwr[x] # None, clock.slot > 0,
                    \/ maxvwr[x].max_voter_weight_expiry = None
                    \/ maxvwr[x].max_voter_weight_expiry >= clock.slot
             PROVE  maxvwr[x].max_voter_weight > 0
  BY DEF LiveQuorumPositive
<1>1. NewOrSet(maxvwr[x]) /\ clock.slot \in Int
  BY WidthAssumption DEF MaxInv, MaxTypeOK, RegistrarTypeOK, ChainTypeOK, U64
<1> QED
  BY <1>1, NoneAssumption DEF NewOrSet

\* A denominator that is set is still set after any step: it is never created again
\* and an update sets it again.
LEMMA SetStaysSet ==
    ASSUME MaxInv, MaxNext, NEW x \in MaxVoterWeightRecordAddress,
           maxvwr[x] # None, maxvwr[x].max_voter_weight_expiry = None
    PROVE  /\ maxvwr'[x] # None
           /\ maxvwr'[x].max_voter_weight_expiry = None
           /\ maxvwr'[x].max_voter_weight > 0
<1>1. maxvwr[x].max_voter_weight > 0
  BY NoneAssumption DEF MaxInv, NewOrSet
<1>2. CASE UNCHANGED maxvwr
  BY <1>1, <1>2
<1>3. ASSUME NEW k \in RegistrarAddress, NEW r \in Realm, NEW signer \in Key,
             NEW payer \in Key, create_max_voter_weight_record(k, r, signer, payer)
      PROVE  maxvwr'[x] = maxvwr[x]
  <2>1. x # k
    BY <1>3, CreateMaxEffect
  <2> QED
    BY <1>3, <2>1, CreateMaxEffect DEF MaxInv, MaxTypeOK
<1>4. ASSUME NEW k \in RegistrarAddress, NEW y \in MaxVoterWeightRecordAddress,
             NEW r \in Realm, NEW signer \in Key, NEW weight \in MaxVoterWeightArg,
             update_max_voter_weight_record(k, y, r, signer, weight)
      PROVE  /\ maxvwr'[x] # None
             /\ maxvwr'[x].max_voter_weight_expiry = None
             /\ maxvwr'[x].max_voter_weight > 0
  <2>1. CASE x = y
    BY <1>4, <2>1, UpdateMaxEffect, UpdatedMaxRecord, AbsentAssumption
  <2>2. CASE x # y
    BY <1>1, <1>4, <2>2, UpdateMaxEffect, UpdatedMaxRecord
  <2> QED
    BY <2>1, <2>2
<1> QED
  BY <1>1, <1>2, <1>3, <1>4 DEF MaxNext, MaxInstruction

\* A denominator that moves is moved by an instruction that names the registrar at
\* the same address and is signed by the authority of its realm.
LEMMA MovedByAuthority ==
    ASSUME MaxInv, MaxNext, NEW x \in MaxVoterWeightRecordAddress, maxvwr'[x] # maxvwr[x]
    PROVE  registrar[x] # None /\ realm[x[1]].authority # None
<1>1. ASSUME NEW k \in RegistrarAddress, NEW r \in Realm, NEW signer \in Key,
             NEW payer \in Key, create_max_voter_weight_record(k, r, signer, payer)
      PROVE  registrar[x] # None /\ realm[x[1]].authority # None
  <2>1. x = k
    BY <1>1, CreateMaxEffect DEF MaxInv, MaxTypeOK
  <2> QED
    BY <1>1, <2>1, CreateMaxEffect
<1>2. ASSUME NEW k \in RegistrarAddress, NEW y \in MaxVoterWeightRecordAddress,
             NEW r \in Realm, NEW signer \in Key, NEW weight \in MaxVoterWeightArg,
             update_max_voter_weight_record(k, y, r, signer, weight)
      PROVE  registrar[x] # None /\ realm[x[1]].authority # None
  BY <1>2, UpdateMaxEffect, UpdatedMaxRecord
<1> QED
  BY <1>1, <1>2 DEF MaxNext, MaxInstruction

\* LiveQuorumPositive: no quorum is ever computed over zero.
THEOREM LiveQuorumPositiveInvariant == MaxSpec => []LiveQuorumPositive
  BY SetIsPositive, MaxInvariant, PTL

\* QuorumStaysSet: once set, set for good.
THEOREM QuorumStaysSetHolds == MaxSpec => QuorumStaysSet
<1>1. MaxInv /\ [MaxNext]_maxVars =>
        [\A x \in MaxVoterWeightRecordAddress :
             (maxvwr[x] # None /\ maxvwr[x].max_voter_weight_expiry = None)
               => /\ maxvwr'[x] # None
                  /\ maxvwr'[x].max_voter_weight_expiry = None
                  /\ maxvwr'[x].max_voter_weight > 0]_maxVars
  BY SetStaysSet
<1> QED
  BY <1>1, MaxInvariant, PTL DEF MaxSpec, QuorumStaysSet

\* QuorumNeedsRegistrar: nothing moves a denominator but the authority of its own
\* realm through the registrar of its own mint.
THEOREM QuorumNeedsRegistrarHolds == MaxSpec => QuorumNeedsRegistrar
<1>1. MaxInv /\ [MaxNext]_maxVars =>
        [\A x \in MaxVoterWeightRecordAddress :
             maxvwr'[x] # maxvwr[x]
               => registrar[x] # None /\ realm[x[1]].authority # None]_maxVars
  BY MovedByAuthority
<1> QED
  BY <1>1, MaxInvariant, PTL DEF MaxSpec, QuorumNeedsRegistrar


-----------------------------------------------------------------------------
(***************************************************************************)
(* The nine instructions together.  The voter and the quorum instructions  *)
(* share registrars and balances: each leaves the other's records alone,   *)
(* but for update_max_voter_weight_record given a record of a wallet in    *)
(* TagKey.                                                                 *)
(***************************************************************************)

\* Only the owners in TagKey are ever overwritten.
OnlyTagKeys ==
    \A v \in VoterWeightRecordAddress :
        (vwr[v] # None /\ vwr[v].governing_token_owner = None) => v[3] \in TagKey

PluginInv == VoterInv /\ MaxInv /\ OnlyTagKeys

\* An overwritten record is one of a wallet in TagKey, and loses its owner, or gets
\* it back, and nothing else.
LEMMA OverwriteEffect ==
    ASSUME PluginInv, NEW v \in VoterWeightRecordAddress, Overwrite(v)
    PROVE  /\ vwr[v] \in VoterWeightRecord /\ vwr'[v] \in VoterWeightRecord
           /\ v[3] \in TagKey
           /\ vwr'[v].governing_token_owner \in {v[3], None}
           /\ vwr'[v].realm = vwr[v].realm
           /\ vwr'[v].governing_token_mint = vwr[v].governing_token_mint
           /\ vwr'[v].voter_weight = vwr[v].voter_weight
           /\ vwr'[v].voter_weight_expiry = vwr[v].voter_weight_expiry
           /\ vwr'[v].weight_action = vwr[v].weight_action
           /\ vwr'[v].weight_action_target = vwr[v].weight_action_target
           /\ vwr' \in [VoterWeightRecordAddress -> Option(VoterWeightRecord)]
           /\ \A u \in VoterWeightRecordAddress \ {v} : vwr'[u] = vwr[u]
           /\ UNCHANGED <<registrarVars, maxvwr>>
<1> PICK weight \in MaxVoterWeightArg :
           /\ LoadsAsMaxRecord(v)
           /\ vwr' = [vwr EXCEPT ![v].governing_token_owner = OwnerAfter(v[3], weight)]
           /\ UNCHANGED <<registrarVars, maxvwr>>
  BY DEF Overwrite, update_max_voter_weight_record_of_voter
<1> DEFINE owner == OwnerAfter(v[3], weight)
           record == [vwr[v] EXCEPT !.governing_token_owner = owner]
<1>0. owner \in {v[3], None}
  BY DEF OwnerAfter
<1>1. /\ LoadsAsMaxRecord(v)
      /\ vwr' = [vwr EXCEPT ![v] = record]
      /\ UNCHANGED <<registrarVars, maxvwr>>
  OBVIOUS
<1> HIDE DEF owner
<1>2. vwr[v] # None /\ vwr[v] \in VoterWeightRecord
  BY <1>1 DEF LoadsAsMaxRecord, PluginInv, VoterInv, VoterTypeOK, Option
<1>3. v[3] \in TagKey
  <2>1. vwr[v].governing_token_owner \in TagKey \union {None}
    BY <1>1 DEF LoadsAsMaxRecord
  <2>2. vwr[v].governing_token_owner \in {v[3], None}
    BY <1>2 DEF PluginInv, VoterInv, RecordOfItsAddress, OfItsAddress
  <2>3. None \notin TagKey
    BY NoneAssumption DEF TagKey
  <2> QED
    BY <1>2, <2>1, <2>2, <2>3 DEF PluginInv, OnlyTagKeys
<1>4. /\ record \in VoterWeightRecord
      /\ record.governing_token_owner = owner
      /\ record.realm = vwr[v].realm
      /\ record.governing_token_mint = vwr[v].governing_token_mint
      /\ record.voter_weight = vwr[v].voter_weight
      /\ record.voter_weight_expiry = vwr[v].voter_weight_expiry
      /\ record.weight_action = vwr[v].weight_action
      /\ record.weight_action_target = vwr[v].weight_action_target
  <2> DEFINE Expiry == Option(U64)
             Action == Option(VoterWeightAction)
             Aim == Option(Target)
             Owner == Option(Key)
  <2>1. owner \in Owner
    BY <1>0 DEF Option, VoterWeightRecordAddress
  <2>2. VoterWeightRecord = [realm : Realm,
                             governing_token_mint : Mint,
                             governing_token_owner : Owner,
                             voter_weight : U64,
                             voter_weight_expiry : Expiry,
                             weight_action : Action,
                             weight_action_target : Aim]
    BY DEF VoterWeightRecord
  <2> HIDE DEF Expiry, Action, Aim, Owner
  <2> QED
    BY <1>2, <2>1, <2>2
<1> HIDE DEF record
<1> QED
  BY <1>0, <1>1, <1>2, <1>3, <1>4 DEF PluginInv, VoterInv, VoterTypeOK, Option

\* A voter instruction changes records and balances only.
LEMMA VoterInstructionFrame ==
    ASSUME VoterInv, VoterInstruction
    PROVE  lamports' \in [Key -> Nat] /\ UNCHANGED <<clock, realm, identity, registrar>>
<1> USE DEF VoterInv, VoterTypeOK, RegistrarTypeOK, ChainTypeOK, registrarVars, chainVars
<1>1. CASE Create
  BY <1>1, CreateEffect
<1>2. ASSUME NEW v \in VoterWeightRecordAddress, Update(v)
      PROVE  lamports' \in [Key -> Nat] /\ UNCHANGED <<clock, realm, identity, registrar>>
  BY <1>2, UpdateEffect
<1>3. ASSUME NEW v \in VoterWeightRecordAddress, NEW a \in WeightActionArg,
             NEW t \in Target, UpdateForAction(v, a, t)
      PROVE  lamports' \in [Key -> Nat] /\ UNCHANGED <<clock, realm, identity, registrar>>
  BY <1>3, UpdateForActionEffect
<1>4. ASSUME NEW v \in VoterWeightRecordAddress, Close(v)
      PROVE  lamports' \in [Key -> Nat] /\ UNCHANGED <<clock, realm, identity, registrar>>
  BY <1>4, CloseEffect
<1> QED
  BY <1>1, <1>2, <1>3, <1>4 DEF VoterInstruction

\* So does a quorum instruction.
LEMMA MaxInstructionFrame ==
    ASSUME MaxInv, MaxInstruction
    PROVE  lamports' \in [Key -> Nat] /\ UNCHANGED <<clock, realm, identity, registrar>>
<1>1. ASSUME NEW k \in RegistrarAddress, NEW r \in Realm, NEW signer \in Key,
             NEW payer \in Key, create_max_voter_weight_record(k, r, signer, payer)
      PROVE  lamports' \in [Key -> Nat] /\ UNCHANGED <<clock, realm, identity, registrar>>
  BY <1>1, CreateMaxEffect
<1>2. ASSUME NEW k \in RegistrarAddress, NEW x \in MaxVoterWeightRecordAddress,
             NEW r \in Realm, NEW signer \in Key, NEW weight \in MaxVoterWeightArg,
             update_max_voter_weight_record(k, x, r, signer, weight)
      PROVE  lamports' \in [Key -> Nat] /\ UNCHANGED <<clock, realm, identity, registrar>>
  BY <1>2, UpdateMaxEffect
     DEF MaxInv, MaxTypeOK, RegistrarTypeOK, ChainTypeOK, registrarVars, chainVars
<1> QED
  BY <1>1, <1>2 DEF MaxInstruction

\* A step of the program is a step of the voter instructions, overwrites an owner or
\* leaves the records and all they depend on alone.
LEMMA PluginStepForVoters ==
    ASSUME PluginInv, [PluginNext]_pluginVars
    PROVE  \/ VoterNext
           \/ \E v \in VoterWeightRecordAddress : Overwrite(v)
           \/ UNCHANGED <<clock, realm, identity, registrar, vwr>>
<1>1. CASE MaxInstruction /\ UNCHANGED vwr
  BY <1>1, MaxInstructionFrame DEF PluginInv
<1>2. CASE UNCHANGED pluginVars
  BY <1>2 DEF pluginVars, registrarVars, chainVars
<1> QED
  BY <1>1, <1>2 DEF PluginNext, VoterNext

\* The same for the quorum instructions.
LEMMA PluginStepForQuorum ==
    ASSUME PluginInv, [PluginNext]_pluginVars
    PROVE  MaxNext \/ UNCHANGED <<clock, realm, identity, registrar, maxvwr>>
<1>1. CASE VoterInstruction /\ UNCHANGED maxvwr
  BY <1>1, VoterInstructionFrame DEF PluginInv
<1>2. CASE UNCHANGED pluginVars
  BY <1>2 DEF pluginVars, registrarVars, chainVars
<1>3. CASE \E v \in VoterWeightRecordAddress : Overwrite(v)
  BY <1>3, OverwriteEffect DEF registrarVars, chainVars
<1> QED
  BY <1>1, <1>2, <1>3 DEF PluginNext, MaxNext

\* And for the registrars.
LEMMA PluginStepForRegistrars ==
    ASSUME PluginInv, [PluginNext]_pluginVars
    PROVE  RegistrarNext \/ UNCHANGED <<clock, realm, identity, registrar>>
<1>1. CASE VoterInstruction /\ UNCHANGED maxvwr
  BY <1>1, VoterInstructionFrame DEF PluginInv
<1>2. CASE MaxInstruction /\ UNCHANGED vwr
  BY <1>2, MaxInstructionFrame DEF PluginInv
<1>3. CASE UNCHANGED pluginVars
  BY <1>3 DEF pluginVars, registrarVars, chainVars
<1>4. CASE \E v \in VoterWeightRecordAddress : Overwrite(v)
  BY <1>4, OverwriteEffect DEF registrarVars, chainVars
<1> QED
  BY <1>1, <1>2, <1>3, <1>4 DEF PluginNext

\* Balances stay natural numbers: every instruction that takes rent checks it.
LEMMA LamportsStayNat ==
    ASSUME PluginInv, [PluginNext]_pluginVars
    PROVE  lamports' \in [Key -> Nat]
<1>1. CASE RegistrarNext
  BY <1>1, RegistrarTypeStep DEF PluginInv, MaxInv, MaxTypeOK, RegistrarTypeOK, ChainTypeOK
<1>2. CASE VoterInstruction
  BY <1>2, VoterInstructionFrame DEF PluginInv
<1>3. CASE MaxInstruction
  BY <1>3, MaxInstructionFrame DEF PluginInv
<1>4. CASE UNCHANGED lamports
  BY <1>4 DEF PluginInv, MaxInv, MaxTypeOK, RegistrarTypeOK, ChainTypeOK
<1>5. CASE UNCHANGED pluginVars
  BY <1>4, <1>5 DEF pluginVars, registrarVars, chainVars
<1>6. CASE \E v \in VoterWeightRecordAddress : Overwrite(v)
  BY <1>4, <1>6, OverwriteEffect DEF registrarVars, chainVars
<1> QED
  BY <1>1, <1>2, <1>3, <1>5, <1>6 DEF PluginNext

\* The two inductive invariants are one of the whole program.
LEMMA PluginInvStep ==
    ASSUME PluginInv, [PluginNext]_pluginVars
    PROVE  PluginInv'
<1>1. VoterInv'
  <2>1. CASE VoterNext
    BY <2>1, VoterInvStep DEF PluginInv
  <2>2. CASE UNCHANGED <<clock, realm, identity, registrar, vwr>>
    BY <2>2, LamportsStayNat DEF PluginInv, VoterInv, VoterTypeOK, RegistrarTypeOK,
       ChainTypeOK, RegistrarSound, RecordOfItsAddress, OfItsAddress, RecordShape
  <2>3. ASSUME NEW v \in VoterWeightRecordAddress, Overwrite(v)
        PROVE  VoterInv'
    <3>1. UNCHANGED <<clock, realm, identity, registrar, lamports>>
      BY <2>3, OverwriteEffect DEF registrarVars, chainVars
    <3>2. VoterTypeOK' /\ RegistrarSound'
      BY <2>3, <3>1, OverwriteEffect
         DEF PluginInv, VoterInv, VoterTypeOK, RegistrarTypeOK, ChainTypeOK, RegistrarSound
    <3>3. vwr[v] # None
      BY <2>3, OverwriteEffect, AbsentAssumption
    <3>4. RecordOfItsAddress'
      BY <2>3, <3>3, OverwriteEffect DEF PluginInv, VoterInv, RecordOfItsAddress, OfItsAddress
    <3>5. \A u \in VoterWeightRecordAddress : vwr[u] # None => Shape(vwr[u], clock.slot)
      BY RecordShapeSplit DEF PluginInv, VoterInv
    <3>6. \A u \in VoterWeightRecordAddress :
             vwr'[u] # None => Shape(vwr'[u], clock'.slot)
      BY <2>3, <3>1, <3>3, <3>5, OverwriteEffect DEF Shape
    <3>7. RecordShape'
      BY <3>6 DEF RecordShape, Shape
    <3> QED
      BY <3>2, <3>4, <3>7 DEF VoterInv
  <2> QED
    BY <2>1, <2>2, <2>3, PluginStepForVoters
<1>2. MaxInv'
  <2>1. CASE MaxNext
    BY <2>1, MaxInvStep DEF PluginInv
  <2>2. CASE UNCHANGED <<clock, realm, identity, registrar, maxvwr>>
    BY <2>2, LamportsStayNat DEF PluginInv, MaxInv, MaxTypeOK, RegistrarTypeOK,
       ChainTypeOK, RegistrarSound
  <2> QED
    BY <2>1, <2>2, PluginStepForQuorum
<1>3. OnlyTagKeys'
  <2>1. CASE VoterNext
    <3>1. \A v \in VoterWeightRecordAddress : v[3] # None
      BY NoneAssumption DEF VoterWeightRecordAddress
    <3> QED
      BY <2>1, <3>1, FieldsStep DEF PluginInv, OnlyTagKeys
  <2>2. CASE UNCHANGED <<clock, realm, identity, registrar, vwr>>
    BY <2>2 DEF PluginInv, OnlyTagKeys
  <2>3. ASSUME NEW v \in VoterWeightRecordAddress, Overwrite(v)
        PROVE  OnlyTagKeys'
    BY <2>3, OverwriteEffect DEF PluginInv, OnlyTagKeys
  <2> QED
    BY <2>1, <2>2, <2>3, PluginStepForVoters
<1> QED
  BY <1>1, <1>2, <1>3 DEF PluginInv

\* What is proved of voter weight records and of quorum denominators apart holds
\* of the program that has both.
THEOREM PluginInvariant == PluginSpec => []PluginInv
<1>1. PluginInit => PluginInv
  BY VoterInvInit, MaxInvInit DEF PluginInit, PluginInv, VoterInit, OnlyTagKeys
<1> QED
  BY <1>1, PluginInvStep, PTL DEF PluginSpec

\* PluginTypeOK: every account has its type, and no wallet pays what it has not.
THEOREM PluginTypeInvariant == PluginSpec => []PluginTypeOK
<1>1. PluginInv => PluginTypeOK
  BY DEF PluginInv, VoterInv, MaxInv, PluginTypeOK
<1> QED
  BY <1>1, PluginInvariant, PTL

\* VoterKeepsRecord: of all nine instructions, only update_max_voter_weight_record
\* takes a record from its voter, and only from a wallet in TagKey.
THEOREM VoterKeepsRecordInvariant == PluginSpec => []VoterKeepsRecord
<1>1. PluginInv => VoterKeepsRecord
  <2> SUFFICES ASSUME PluginInv, NEW v \in VoterWeightRecordAddress, vwr[v] # None
               PROVE  \/ AtItsAddress(v) /\ (Eligible(v) => CanRenew(v))
                      \/ vwr[v].governing_token_owner = None /\ v[3] \in TagKey
    BY DEF VoterKeepsRecord
  <2>1. CASE vwr[v].governing_token_owner = None
    BY <2>1 DEF PluginInv, OnlyTagKeys
  <2>2. CASE vwr[v].governing_token_owner # None
    BY <2>2, OwnedIsAtItsAddress, EligibleRenews DEF PluginInv
  <2> QED
    BY <2>1, <2>2
<1> QED
  BY <1>1, PluginInvariant, PTL

\* The safety invariants of registrars, voter weight records and quorum
\* denominators that no instruction of the nine can break.
THEOREM PluginSafety ==
    PluginSpec => [](RegistrarSound /\ RecordShape /\ LiveQuorumPositive)
<1>1. PluginInv => RegistrarSound /\ RecordShape /\ LiveQuorumPositive
  BY SetIsPositive DEF PluginInv, VoterInv
<1> QED
  BY <1>1, PluginInvariant, PTL

\* No instruction of the program, the quorum instructions included, gives a weight
\* without eligibility.
THEOREM PluginRenewalRequiresEligibility == PluginSpec => RenewalRequiresEligibility
<1>1. PluginInv /\ [PluginNext]_pluginVars =>
        [\A v \in VoterWeightRecordAddress : Gives(v) => Eligible(v)]_voterVars
  <2> SUFFICES ASSUME PluginInv, [PluginNext]_pluginVars,
                      NEW v \in VoterWeightRecordAddress, Gives(v)
               PROVE  Eligible(v)
    OBVIOUS
  <2>1. CASE VoterNext
    BY <2>1, RenewalStep DEF PluginInv
  <2>2. CASE UNCHANGED <<clock, realm, identity, registrar, vwr>>
    BY <2>2 DEF Gives, Grant
  <2>3. ASSUME NEW u \in VoterWeightRecordAddress, Overwrite(u)
        PROVE  FALSE
    <3>1. vwr[u] # None
      BY <2>3, OverwriteEffect, AbsentAssumption
    <3>2. vwr[v] # None /\ Grant(vwr'[v]) = Grant(vwr[v])
      BY <2>3, <3>1, OverwriteEffect DEF Gives, Grant
    <3> QED
      BY <3>2 DEF Gives
  <2> QED
    BY <2>1, <2>2, <2>3, PluginStepForVoters
<1> QED
  BY <1>1, PluginInvariant, PTL DEF PluginSpec, RenewalRequiresEligibility

\* No instruction of the program, the voter instructions included, unsets a quorum
\* denominator or moves it without its registrar and its realm's authority.
THEOREM PluginKeepsQuorum == PluginSpec => QuorumStaysSet /\ QuorumNeedsRegistrar
<1>1. PluginInv /\ [PluginNext]_pluginVars =>
        [\A x \in MaxVoterWeightRecordAddress :
             (maxvwr[x] # None /\ maxvwr[x].max_voter_weight_expiry = None)
               => /\ maxvwr'[x] # None
                  /\ maxvwr'[x].max_voter_weight_expiry = None
                  /\ maxvwr'[x].max_voter_weight > 0]_maxVars
  <2> SUFFICES ASSUME PluginInv, [PluginNext]_pluginVars,
                      NEW x \in MaxVoterWeightRecordAddress,
                      maxvwr[x] # None, maxvwr[x].max_voter_weight_expiry = None
               PROVE  /\ maxvwr'[x] # None
                      /\ maxvwr'[x].max_voter_weight_expiry = None
                      /\ maxvwr'[x].max_voter_weight > 0
    OBVIOUS
  <2>1. maxvwr[x].max_voter_weight > 0
    BY NoneAssumption DEF PluginInv, MaxInv, NewOrSet
  <2> QED
    BY <2>1, PluginStepForQuorum, SetStaysSet DEF PluginInv
<1>2. PluginInv /\ [PluginNext]_pluginVars =>
        [\A x \in MaxVoterWeightRecordAddress :
             maxvwr'[x] # maxvwr[x]
               => registrar[x] # None /\ realm[x[1]].authority # None]_maxVars
  BY PluginStepForQuorum, MovedByAuthority DEF PluginInv
<1> QED
  BY <1>1, <1>2, PluginInvariant, PTL DEF PluginSpec, QuorumStaysSet, QuorumNeedsRegistrar

\* A realm without an authority keeps its registrars, whichever instruction runs.
THEOREM PluginFrozenWithoutAuthority == PluginSpec => FrozenWithoutAuthority
<1>1. PluginInv /\ [PluginNext]_pluginVars =>
        [\A k \in RegistrarAddress :
             realm[k[1]].authority = None =>
                 /\ realm'[k[1]].authority = None
                 /\ registrar'[k] = registrar[k]]_registrarVars
  <2> SUFFICES ASSUME PluginInv, [PluginNext]_pluginVars,
                      NEW k \in RegistrarAddress, realm[k[1]].authority = None
               PROVE  /\ realm'[k[1]].authority = None
                      /\ registrar'[k] = registrar[k]
    OBVIOUS
  <2>1. k[1] \in Realm /\ RegistrarTypeOK /\ RegistrarSound
    BY DEF RegistrarAddress, PluginInv, MaxInv, MaxTypeOK
  <2> QED
    BY <2>1, PluginStepForRegistrars, RegistrarChange, NoAuthorityStep
<1> QED
  BY <1>1, PluginInvariant, PTL DEF PluginSpec, FrozenWithoutAuthority

\* An overwritten owner bars the voter, because governance would not accept the
\* record of that voter any more; bytes that spell the voter's key readmit them.
LEMMA OverwriteBars ==
    ASSUME PluginInv, NEW v \in VoterWeightRecordAddress, Overwrite(v)
    PROVE  Lease!Bar(v) \/ Lease!Readmit(v)
<1>1. UNCHANGED <<clock, identity, registrar>>
  BY OverwriteEffect DEF registrarVars, chainVars
<1>2. vwr[v] # None /\ vwr'[v] # None
  BY OverwriteEffect, AbsentAssumption
<1>3. LeaseOf(v, vwr[v])' = LeaseOf(v, vwr[v])
  BY <1>1, <1>2, OverwriteEffect DEF LeaseOf
<1>4. \A u \in VoterWeightRecordAddress \ {v} : vwr'[u] = vwr[u]
  BY OverwriteEffect
<1>5. Leases' = Leases
  BY <1>1, <1>3, <1>4 DEF Leases, LeaseOf
<1>6. CASE vwr'[v].governing_token_owner = v[3]
  <2>1. Barred' = Barred \ {v}
    BY <1>4, <1>6 DEF Barred
  <2> QED
    BY <1>1, <1>5, <2>1, EligibleFrame DEF Lease!Readmit, Leases, Eligibles
<1>7. CASE vwr'[v].governing_token_owner # v[3]
  <2>1. Barred' = Barred \union {v}
    BY <1>2, <1>4, <1>7 DEF Barred
  <2> QED
    BY <1>1, <1>5, <2>1, EligibleFrame DEF Lease!Bar, Leases, Eligibles
<1> QED
  BY <1>6, <1>7

\* The whole program implements the abstract leases: a quorum instruction is no
\* step of theirs, or bars or readmits the voter whose record's owner it overwrites,
\* and never gives, extends or shortens a lease.
THEOREM PluginImplementsLease == PluginSpec => ImplementsLease
<1>1. PluginInit => Lease!Init
  BY LeaseInit DEF PluginInit
<1>2. PluginInv /\ [PluginNext]_pluginVars => [Lease!Next]_(Lease!leaseVars)
  <2> SUFFICES ASSUME PluginInv, [PluginNext]_pluginVars
               PROVE  [Lease!Next]_(Lease!leaseVars)
    OBVIOUS
  <2>1. CASE VoterNext
    BY <2>1, LeaseStep DEF PluginInv
  <2>2. CASE UNCHANGED <<clock, realm, identity, registrar, vwr>>
    BY <2>2, LeaseFrame
  <2>3. ASSUME NEW v \in VoterWeightRecordAddress, Overwrite(v)
        PROVE  Lease!Next
    BY <2>3, OverwriteBars DEF Lease!Next
  <2> QED
    BY <2>1, <2>2, <2>3, PluginStepForVoters
<1> QED
  BY <1>1, <1>2, PluginInvariant, PTL DEF PluginSpec, ImplementsLease, Lease!Spec

-----------------------------------------------------------------------------
(***************************************************************************)
(* Sums over finite sets.  SumFunction is a recursive function on the      *)
(* subsets of a domain.  A property of all of them is proved by looking    *)
(* for the smallest subset without it.                                     *)
(***************************************************************************)

\* The element the fold takes first.
Pick(s) == CHOOSE x \in s : TRUE

\* g adds up the values of f over every subset of S.
Sums(f, S, g) ==
    g = [s \in SUBSET S |-> IF s = {} THEN 0 ELSE f[Pick(s)] + g[s \ {Pick(s)}]]

\* The fold takes an element of the set.
LEMMA Picked ==
    ASSUME NEW s, s # {}
    PROVE  Pick(s) \in s
  BY DEF Pick

\* SumFunction is the value of such a g at the whole domain.
LEMMA SumFunctionIsSum ==
    ASSUME NEW f
    PROVE  SumFunction(f) = (CHOOSE g : Sums(f, DOMAIN f, g))[DOMAIN f]
  BY Zenon DEF SumFunction, SumFunctionOnSet, FoldFunctionOnSet, MapThenFoldSet, Sums, Pick

\* Among subsets of a finite set one has no other as a strict subset.
LEMMA Smallest ==
    ASSUME NEW S, IsFiniteSet(S), NEW T, T \subseteq SUBSET S, T # {}
    PROVE  \E t \in T : \A u \in SUBSET t : u # t => u \notin T
<1>1. T \subseteq FiniteSubsetsOf(S)
  BY FS_Subset DEF FiniteSubsetsOf
<1>2. PICK t \in T : \A u \in T : <<u, t>> \notin StrictSubsetOrdering(S)
  BY <1>1, FS_StrictSubsetOrderingWellFounded, WFMin
<1> QED
  BY <1>2 DEF StrictSubsetOrdering

\* Two such functions agree where both are defined.
LEMMA SumsUnique ==
    ASSUME NEW f, NEW T, NEW g, Sums(f, T, g), NEW U, NEW h, Sums(f, U, h),
           NEW s, s \subseteq T, s \subseteq U, IsFiniteSet(s)
    PROVE  g[s] = h[s]
<1> DEFINE Bad == {u \in SUBSET s : g[u] # h[u]}
<1> SUFFICES ASSUME Bad # {} PROVE FALSE
  OBVIOUS
<1>1. PICK u \in Bad : \A v \in SUBSET u : v # u => v \notin Bad
  <2>1. Bad \subseteq SUBSET s
    OBVIOUS
  <2> HIDE DEF Bad
  <2> QED
    BY <2>1, Smallest
<1>2. CASE u = {}
  BY <1>2 DEF Sums
<1>3. CASE u # {}
  <2>1. Pick(u) \in u
    BY <1>3, Picked
  <2>2. g[u \ {Pick(u)}] = h[u \ {Pick(u)}]
    BY <1>1, <2>1
  <2>3. g[u] = f[Pick(u)] + g[u \ {Pick(u)}]
    BY <1>3 DEF Sums
  <2>4. h[u] = f[Pick(u)] + h[u \ {Pick(u)}]
    BY <1>3 DEF Sums
  <2> QED
    BY <2>2, <2>3, <2>4
<1> QED
  BY <1>2, <1>3

\* There is one: a smallest set without it would get it from its strict subsets.
LEMMA SumsExist ==
    ASSUME NEW f, NEW S, IsFiniteSet(S)
    PROVE  \E g : Sums(f, S, g)
<1> DEFINE Bad == {T \in SUBSET S : \A g : ~Sums(f, T, g)}
<1> SUFFICES ASSUME Bad # {} PROVE FALSE
  OBVIOUS
<1>1. PICK T \in Bad : \A U \in SUBSET T : U # T => U \notin Bad
  <2>1. Bad \subseteq SUBSET S
    OBVIOUS
  <2> HIDE DEF Bad
  <2> QED
    BY <2>1, Smallest
<1> DEFINE G(U) == CHOOSE g : Sums(f, U, g)
           Rest(s) == s \ {Pick(s)}
<1>2. ASSUME NEW U \in SUBSET T, U # T PROVE Sums(f, U, G(U))
  <2>1. U \notin Bad
    BY <1>1, <1>2
  <2> QED
    BY <2>1, Zenon
<1> HIDE DEF G
<1>3. ASSUME NEW s \in SUBSET T, s # {} PROVE Rest(s) \in SUBSET T /\ Rest(s) # T
  BY <1>3, Picked
<1> DEFINE g == [s \in SUBSET T |-> IF s = {} THEN 0 ELSE f[Pick(s)] + G(Rest(s))[Rest(s)]]
<1>4. ASSUME NEW U \in SUBSET T, U # T PROVE g[U] = G(U)[U]
  <2>1. CASE U = {}
    BY <1>2, <2>1 DEF Sums
  <2>2. CASE U # {}
    <3>1. G(U)[U] = f[Pick(U)] + G(U)[Rest(U)]
      BY <1>2, <1>4, <2>2 DEF Sums
    <3>2. IsFiniteSet(Rest(U))
      BY FS_Subset
    <3>3. G(U)[Rest(U)] = G(Rest(U))[Rest(U)]
      BY <1>2, <1>3, <1>4, <2>2, <3>2, SumsUnique
    <3> QED
      BY <2>2, <3>1, <3>3
  <2> QED
    BY <2>1, <2>2
<1>5. Sums(f, T, g)
  BY <1>3, <1>4 DEF Sums
<1> QED
  BY <1>5

\* So SumFunction is a sum.
LEMMA SumFunctionSums ==
    ASSUME NEW S, IsFiniteSet(S), NEW f, DOMAIN f = S
    PROVE  \E g : Sums(f, S, g) /\ SumFunction(f) = g[S]
<1> DEFINE g == CHOOSE g : Sums(f, S, g)
<1>1. Sums(f, S, g)
  BY SumsExist, Zenon
<1>2. SumFunction(f) = g[S]
  BY SumFunctionIsSum
<1> QED
  BY <1>1, <1>2

\* Sums of natural numbers are natural numbers.
LEMMA SumsNat ==
    ASSUME NEW S, IsFiniteSet(S), NEW f \in [S -> Nat], NEW g, Sums(f, S, g)
    PROVE  \A s \in SUBSET S : g[s] \in Nat
<1> DEFINE Bad == {u \in SUBSET S : g[u] \notin Nat}
<1> SUFFICES ASSUME Bad # {} PROVE FALSE
  OBVIOUS
<1>1. PICK u \in Bad : \A v \in SUBSET u : v # u => v \notin Bad
  <2>1. Bad \subseteq SUBSET S
    OBVIOUS
  <2> HIDE DEF Bad
  <2> QED
    BY <2>1, Smallest
<1>2. CASE u = {}
  BY <1>2 DEF Sums
<1>3. CASE u # {}
  <2>1. Pick(u) \in u /\ Pick(u) \in S
    BY <1>3, Picked
  <2>2. g[u \ {Pick(u)}] \in Nat
    BY <1>1, <2>1
  <2>3. g[u] = f[Pick(u)] + g[u \ {Pick(u)}]
    BY <1>3 DEF Sums
  <2> QED
    BY <2>1, <2>2, <2>3
<1> QED
  BY <1>2, <1>3

\* A value that moves by d moves the sum by d.
LEMMA SumMoves ==
    ASSUME NEW S, IsFiniteSet(S), NEW f \in [S -> Nat], NEW h \in [S -> Nat],
           NEW k \in S, NEW d \in Int, h[k] = f[k] + d,
           \A x \in S : x # k => h[x] = f[x]
    PROVE  SumFunction(f) \in Nat /\ SumFunction(h) = SumFunction(f) + d
<1>1. PICK F : Sums(f, S, F) /\ SumFunction(f) = F[S]
  BY SumFunctionSums
<1>2. PICK H : Sums(h, S, H) /\ SumFunction(h) = H[S]
  BY SumFunctionSums
<1>3. \A s \in SUBSET S : F[s] \in Nat /\ H[s] \in Nat
  BY <1>1, <1>2, SumsNat
<1> DEFINE part(s) == IF k \in s THEN d ELSE 0
           Bad == {u \in SUBSET S : H[u] # F[u] + part(u)}
<1>4. ASSUME Bad # {} PROVE FALSE
  <2>1. PICK u \in Bad : \A v \in SUBSET u : v # u => v \notin Bad
    <3>1. Bad \subseteq SUBSET S
      OBVIOUS
    <3> HIDE DEF Bad
    <3> QED
      BY <1>4, <3>1, Smallest
  <2>2. CASE u = {}
    BY <1>1, <1>2, <2>2 DEF Sums
  <2>3. CASE u # {}
    <3> DEFINE x == Pick(u)
               v == u \ {x}
    <3>1. x \in u /\ x \in S /\ v \in SUBSET S
      BY <2>3, Picked
    <3>2. H[v] = F[v] + part(v)
      BY <2>1, <3>1
    <3>3. F[u] = f[x] + F[v] /\ H[u] = h[x] + H[v]
      BY <1>1, <1>2, <2>3 DEF Sums
    <3>4. /\ F[v] \in Nat /\ H[v] \in Nat /\ F[u] \in Nat /\ H[u] \in Nat
          /\ f[x] \in Nat /\ h[x] \in Nat
      BY <1>3, <3>1
    <3> HIDE DEF x
    <3>5. CASE x = k
      <4>1. h[x] = f[x] + d
        BY <3>1, <3>5
      <4>2. part(v) = 0 /\ part(u) = d
        BY <3>1, <3>5
      <4> QED
        BY <3>2, <3>3, <3>4, <4>1, <4>2
    <3>6. CASE x # k
      <4>1. h[x] = f[x]
        BY <3>1, <3>6
      <4>2. part(v) = part(u) /\ part(u) \in Int
        BY <3>1, <3>6
      <4> QED
        BY <3>2, <3>3, <3>4, <4>1, <4>2
    <3> QED
      BY <3>5, <3>6
  <2> QED
    BY <2>2, <2>3
<1>5. H[S] = F[S] + d
  BY <1>4
<1> QED
  BY <1>1, <1>2, <1>3, <1>5

\* The same number n everywhere adds up to n times the size of the domain.
LEMMA SumConstant ==
    ASSUME NEW S, IsFiniteSet(S), NEW n \in Nat
    PROVE  SumFunction([x \in S |-> n]) = n * Cardinality(S)
<1> DEFINE f == [x \in S |-> n]
<1>0. f \in [S -> Nat] /\ DOMAIN f = S /\ \A x \in S : f[x] = n
  OBVIOUS
<1> SUFFICES SumFunction(f) = n * Cardinality(S)
  OBVIOUS
<1> HIDE DEF f
<1>1. PICK F : Sums(f, S, F) /\ SumFunction(f) = F[S]
  BY <1>0, SumFunctionSums
<1>2. \A s \in SUBSET S : F[s] \in Nat
  BY <1>0, <1>1, SumsNat
<1> DEFINE Bad == {u \in SUBSET S : F[u] # n * Cardinality(u)}
<1>3. ASSUME Bad # {} PROVE FALSE
  <2>1. PICK u \in Bad : \A v \in SUBSET u : v # u => v \notin Bad
    <3>1. Bad \subseteq SUBSET S
      OBVIOUS
    <3> HIDE DEF Bad
    <3> QED
      BY <1>3, <3>1, Smallest
  <2>2. CASE u = {}
    <3>1. F[u] = 0 /\ Cardinality(u) = 0
      BY <1>1, <2>2, FS_EmptySet DEF Sums
    <3> QED
      BY <3>1
  <2>3. CASE u # {}
    <3> DEFINE x == Pick(u)
               v == u \ {x}
    <3>1. x \in u /\ x \in S /\ v \in SUBSET S
      BY <2>3, Picked
    <3>2. F[v] = n * Cardinality(v)
      BY <2>1, <3>1
    <3>3. F[u] = f[x] + F[v]
      BY <1>1, <2>3 DEF Sums
    <3>4. f[x] = n
      BY <1>0, <3>1
    <3>5. Cardinality(u) \in Nat /\ Cardinality(v) = Cardinality(u) - 1
      BY <3>1, FS_Subset, FS_CardinalityType, FS_RemoveElement
    <3> HIDE DEF v, x
    <3>6. F[u] = n + n * (Cardinality(u) - 1)
      BY <3>2, <3>3, <3>4, <3>5
    <3>7. n * (Cardinality(u) - 1) = n * Cardinality(u) - n
      BY <3>5
    <3> QED
      BY <3>5, <3>6, <3>7
  <2> QED
    BY <2>2, <2>3
<1>4. F[S] = n * Cardinality(S)
  BY <1>3
<1> QED
  BY <1>1, <1>4
-----------------------------------------------------------------------------
(***************************************************************************)
(* Lamports.                                                               *)
(***************************************************************************)

\* Accounts that are there before and after count the same.
LEMMA AllocatedSame ==
    ASSUME NEW A, NEW f, DOMAIN f = A, NEW g, DOMAIN g = A,
           \A a \in A : g[a] = None <=> f[a] = None
    PROVE  Allocated(g) = Allocated(f)
<1>1. {a \in DOMAIN g : g[a] # None} = {a \in DOMAIN f : f[a] # None}
  OBVIOUS
<1> QED
  BY <1>1 DEF Allocated

\* An account that is created counts one more.
LEMMA AllocatedMore ==
    ASSUME NEW A, IsFiniteSet(A), NEW f, DOMAIN f = A, NEW g, DOMAIN g = A,
           NEW k \in A, f[k] = None, g[k] # None,
           \A a \in A : a # k => g[a] = f[a]
    PROVE  Allocated(f) \in Nat /\ Allocated(g) = Allocated(f) + 1
<1> DEFINE F == {a \in A : f[a] # None}
           G == {a \in A : g[a] # None}
<1>1. Allocated(f) = Cardinality(F) /\ Allocated(g) = Cardinality(G)
  BY DEF Allocated
<1>2. IsFiniteSet(F) /\ Cardinality(F) \in Nat
  BY FS_Subset, FS_CardinalityType
<1>3. G = F \union {k} /\ k \notin F
  OBVIOUS
<1> HIDE DEF F, G
<1> QED
  BY <1>1, <1>2, <1>3, FS_AddElement

\* One that is closed counts one less: it is creating it, backwards.
LEMMA AllocatedLess ==
    ASSUME NEW A, IsFiniteSet(A), NEW f, DOMAIN f = A, NEW g, DOMAIN g = A,
           NEW k \in A, f[k] # None, g[k] = None,
           \A a \in A : a # k => g[a] = f[a]
    PROVE  Allocated(f) \in Nat /\ Allocated(g) = Allocated(f) - 1
<1>1. Allocated(g) \in Nat /\ Allocated(f) = Allocated(g) + 1
  BY AllocatedMore
<1> QED
  BY <1>1

\* What a wallet pays leaves the wallets together.
LEMMA PayRentSum ==
    ASSUME lamports \in [Key -> Nat], NEW payer \in Key, NEW rent \in Nat,
           PayRent(payer, rent)
    PROVE  SumFunction(lamports') = SumFunction(lamports) - rent
<1>1. lamports' \in [Key -> Nat]
  BY PayRentType
<1>2. PICK d \in Int : d = -rent
  OBVIOUS
<1>3. lamports'[payer] = lamports[payer] + d
  BY <1>2 DEF PayRent
<1>4. \A x \in Key : x # payer => lamports'[x] = lamports[x]
  BY DEF PayRent
<1>5. SumFunction(lamports) \in Nat /\ SumFunction(lamports') = SumFunction(lamports) + d
  BY <1>1, <1>3, <1>4, FinitenessAssumption, SumMoves
<1> QED
  BY <1>2, <1>5

\* What is refunded reaches them.
LEMMA RefundRentSum ==
    ASSUME lamports \in [Key -> Nat], NEW wallet \in Key, NEW rent \in Nat,
           RefundRent(wallet, rent)
    PROVE  SumFunction(lamports') = SumFunction(lamports) + rent
<1>1. lamports' \in [Key -> Nat]
  BY RefundRentType
<1>2. rent \in Int /\ lamports'[wallet] = lamports[wallet] + rent
  BY DEF RefundRent
<1>3. \A x \in Key : x # wallet => lamports'[x] = lamports[x]
  BY DEF RefundRent
<1> QED
  BY <1>1, <1>2, <1>3, FinitenessAssumption, SumMoves

\* There are finitely many addresses of each kind.
LEMMA FiniteAddresses ==
    /\ IsFiniteSet(RegistrarAddress)
    /\ IsFiniteSet(VoterWeightRecordAddress)
    /\ IsFiniteSet(MaxVoterWeightRecordAddress)
<1>1. IsFiniteSet(Realm \X Mint)
  BY FinitenessAssumption, FS_Product
<1>2. IsFiniteSet((Realm \X Mint) \X Key)
  BY <1>1, FinitenessAssumption, FS_Product
<1> DEFINE pair == [v \in VoterWeightRecordAddress |-> <<<<v[1], v[2]>>, v[3]>>]
<1>3. pair \in Injection(VoterWeightRecordAddress, (Realm \X Mint) \X Key)
  <2>1. pair \in [VoterWeightRecordAddress -> (Realm \X Mint) \X Key]
    BY DEF VoterWeightRecordAddress
  <2>2. ASSUME NEW u \in VoterWeightRecordAddress, NEW v \in VoterWeightRecordAddress,
               pair[u] = pair[v]
        PROVE  u = v
    <3>1. u[1] = v[1] /\ u[2] = v[2] /\ u[3] = v[3]
      BY <2>2
    <3> QED
      BY <3>1 DEF VoterWeightRecordAddress
  <2> QED
    BY <2>1, <2>2 DEF Injection, IsInjective
<1>4. IsFiniteSet(VoterWeightRecordAddress)
  BY <1>2, <1>3, FS_Injection
<1> QED
  BY <1>1, <1>4 DEF RegistrarAddress, MaxVoterWeightRecordAddress

\* The rent of n accounts, and of one more or one less.
LEMMA RentOf ==
    ASSUME NEW rent \in Nat, NEW n \in Nat
    PROVE  rent * (n + 1) = rent * n + rent /\ rent * (n - 1) = rent * n - rent
  OBVIOUS

\* The lamports of the wallets and of the accounts.
Held == SumFunction(lamports) + RENT_REGISTRAR * Allocated(registrar)
                              + RENT_VWR * Allocated(vwr)
                              + RENT_MAX * Allocated(maxvwr)

\* What is added up are natural numbers.
LEMMA HeldType ==
    ASSUME PluginInv
    PROVE  /\ SumFunction(lamports) \in Nat
           /\ Allocated(registrar) \in Nat
           /\ Allocated(vwr) \in Nat
           /\ Allocated(maxvwr) \in Nat
           /\ DOMAIN registrar = RegistrarAddress
           /\ DOMAIN vwr = VoterWeightRecordAddress
           /\ DOMAIN maxvwr = MaxVoterWeightRecordAddress
           /\ lamports \in [Key -> Nat]
<1>1. /\ lamports \in [Key -> Nat]
      /\ DOMAIN registrar = RegistrarAddress
      /\ DOMAIN vwr = VoterWeightRecordAddress
      /\ DOMAIN maxvwr = MaxVoterWeightRecordAddress
  BY DEF PluginInv, VoterInv, VoterTypeOK, MaxInv, MaxTypeOK, RegistrarTypeOK, ChainTypeOK
<1>2. SumFunction(lamports) \in Nat
  <2>1. PICK g : Sums(lamports, Key, g) /\ SumFunction(lamports) = g[Key]
    BY <1>1, FinitenessAssumption, SumFunctionSums
  <2> QED
    BY <1>1, <2>1, FinitenessAssumption, SumsNat
<1>3. \A f : IsFiniteSet(DOMAIN f) => Allocated(f) \in Nat
  BY FS_Subset, FS_CardinalityType DEF Allocated
<1> QED
  BY <1>1, <1>2, <1>3, FiniteAddresses

\* A registrar instruction moves the rent of the registrar it creates or closes.
LEMMA RegistrarHeld ==
    ASSUME PluginInv, RegistrarNext, UNCHANGED <<vwr, maxvwr>>
    PROVE  Held' = Held
<1> DEFINE sum == SumFunction(lamports)
           n == Allocated(registrar)
<1>0. RENT_REGISTRAR \in Nat /\ RENT_VWR \in Nat /\ RENT_MAX \in Nat
  BY RegistrarAssumption, VoterWeightAssumption, MaxVoterWeightAssumption
<1>1. /\ registrar \in [RegistrarAddress -> Option(RegistrarAccount)]
      /\ registrar' \in [RegistrarAddress -> Option(RegistrarAccount)]
      /\ DOMAIN registrar' = RegistrarAddress
  BY RegistrarTypeStep DEF PluginInv, MaxInv, MaxTypeOK, RegistrarTypeOK
<1>2. CASE ChainNext /\ UNCHANGED registrar
  <2>1. UNCHANGED lamports
    BY <1>2 DEF ChainNext, tick, set_realm_authority, set_realm_config, write_identity
  <2> QED
    BY <1>2, <2>1 DEF Held
<1>3. ASSUME NEW program \in Program, NEW r \in Realm, NEW mint \in Mint,
             NEW signer \in Key, NEW payer \in Key,
             NEW score \in MinTrustScoreArg, NEW age \in MaxVerificationAgeArg,
             create_registrar(program, r, mint, signer, payer, score, age)
      PROVE  Held' = Held
  <2>1. sum' = sum - RENT_REGISTRAR
    BY <1>0, <1>3, HeldType, PayRentSum DEF create_registrar
  <2>2. PICK k \in RegistrarAddress : k = <<r, mint>>
    BY DEF RegistrarAddress
  <2>3. /\ registrar[k] = None
        /\ registrar'[k] \in RegistrarAccount
        /\ \A a \in RegistrarAddress : a # k => registrar'[a] = registrar[a]
    BY <1>1, <1>3, <2>2, RegistrarAssumption DEF create_registrar, RegistrarAccount
  <2>4. n' = n + 1
    <3>1. IsFiniteSet(RegistrarAddress) /\ DOMAIN registrar = RegistrarAddress
      BY FiniteAddresses, HeldType
    <3>2. DOMAIN registrar' = RegistrarAddress
      BY <1>1
    <3>3. registrar'[k] # None
      BY <2>3, AbsentAssumption
    <3> QED
      BY <3>1, <3>2, <3>3, <2>3, AllocatedMore
  <2>5. RENT_REGISTRAR * n' = RENT_REGISTRAR * n + RENT_REGISTRAR
    BY <1>0, <2>4, HeldType, RentOf
  <2> QED
    BY <1>0, <2>1, <2>5, HeldType DEF Held
<1>4. ASSUME NEW k \in RegistrarAddress, NEW r \in Realm, NEW signer \in Key,
             NEW score \in MinTrustScoreArg, NEW age \in MaxVerificationAgeArg,
             update_registrar(k, r, signer, score, age)
      PROVE  Held' = Held
  <2>1. UNCHANGED lamports
    BY <1>4 DEF update_registrar, chainVars
  <2>2. /\ registrar[k] # None
        /\ registrar'[k] \in RegistrarAccount
        /\ \A a \in RegistrarAddress : a # k => registrar'[a] = registrar[a]
    BY <1>1, <1>4, RegistrarAssumption
       DEF update_registrar, IsRegistrar, RegistrarAccount, Option
  <2>3. n' = n
    BY <1>1, <2>2, HeldType, AllocatedSame, AbsentAssumption
  <2> QED
    BY <2>1, <2>3 DEF Held
<1>5. ASSUME NEW k \in RegistrarAddress, NEW r \in Realm, NEW signer \in Key,
             NEW wallet \in Key, close_registrar(k, r, signer, wallet)
      PROVE  Held' = Held
  <2>1. sum' = sum + RENT_REGISTRAR
    BY <1>0, <1>5, HeldType, RefundRentSum DEF close_registrar
  <2>2. /\ registrar[k] # None
        /\ registrar'[k] = None
        /\ \A a \in RegistrarAddress : a # k => registrar'[a] = registrar[a]
    BY <1>1, <1>5 DEF close_registrar, IsRegistrar
  <2>3. n' = n - 1
    <3>1. IsFiniteSet(RegistrarAddress) /\ DOMAIN registrar = RegistrarAddress
      BY FiniteAddresses, HeldType
    <3>2. DOMAIN registrar' = RegistrarAddress
      BY <1>1
    <3> QED
      BY <3>1, <3>2, <2>2, AllocatedLess
  <2>4. RENT_REGISTRAR * n' = RENT_REGISTRAR * n - RENT_REGISTRAR
    BY <1>0, <2>3, HeldType, RentOf
  <2> QED
    BY <1>0, <2>1, <2>4, HeldType DEF Held
<1> QED
  BY <1>2, <1>3, <1>4, <1>5 DEF RegistrarNext, RegistrarInstruction

\* A voter instruction moves the rent of the record it creates or closes.
LEMMA VoterHeld ==
    ASSUME PluginInv, VoterInstruction, UNCHANGED maxvwr
    PROVE  Held' = Held
<1> DEFINE sum == SumFunction(lamports)
           n == Allocated(vwr)
<1>0. RENT_REGISTRAR \in Nat /\ RENT_VWR \in Nat /\ RENT_MAX \in Nat
  BY RegistrarAssumption, VoterWeightAssumption, MaxVoterWeightAssumption
<1>1. /\ VoterInv
      /\ VoterTypeOK
      /\ vwr \in [VoterWeightRecordAddress -> Option(VoterWeightRecord)]
      /\ DOMAIN vwr' = VoterWeightRecordAddress
      /\ UNCHANGED registrar
  <2>1. VoterTypeOK'
    BY VoterInvStep DEF PluginInv, VoterInv, VoterNext
  <2> QED
    BY <2>1, VoterInstructionFrame DEF PluginInv, VoterInv, VoterTypeOK
<1>2. CASE Create
  <2>1. sum' = sum - RENT_VWR
    BY <1>0, <1>2, HeldType, PayRentSum DEF Create, create_voter_weight_record
  <2>2. PICK v \in VoterWeightRecordAddress :
          /\ vwr[v] = None
          /\ vwr' = [vwr EXCEPT ![v] = [realm |-> v[1],
                                        governing_token_mint |-> v[2],
                                        governing_token_owner |-> v[3],
                                        voter_weight |-> 0,
                                        voter_weight_expiry |-> 0,
                                        weight_action |-> None,
                                        weight_action_target |-> None]]
    BY <1>1, <1>2, CreateEffect
  <2>3. /\ vwr[v] = None
        /\ vwr'[v] \in VoterWeightRecord
        /\ \A a \in VoterWeightRecordAddress : a # v => vwr'[a] = vwr[a]
    BY <1>1, <2>2, WidthAssumption DEF VoterWeightRecord, VoterWeightRecordAddress, Option, U64
  <2>4. n' = n + 1
    <3>1. IsFiniteSet(VoterWeightRecordAddress) /\ DOMAIN vwr = VoterWeightRecordAddress
      BY FiniteAddresses, HeldType
    <3>2. DOMAIN vwr' = VoterWeightRecordAddress
      BY <1>1
    <3>3. vwr'[v] # None
      BY <2>3, AbsentAssumption
    <3> QED
      BY <3>1, <3>2, <3>3, <2>3, AllocatedMore
  <2>5. RENT_VWR * n' = RENT_VWR * n + RENT_VWR
    BY <1>0, <2>4, HeldType, RentOf
  <2> QED
    BY <1>0, <1>1, <2>1, <2>5, HeldType DEF Held
<1>3. ASSUME NEW v \in VoterWeightRecordAddress,
             NEW expiry \in U64, NEW action \in Option(VoterWeightAction),
             NEW target \in Option(Target), vwr[v] \in VoterWeightRecord,
             vwr' = Renewed(v, expiry, action, target), UNCHANGED registrarVars
      PROVE  Held' = Held
  <2>1. UNCHANGED lamports
    BY <1>3 DEF registrarVars, chainVars
  <2>2. /\ vwr[v] # None
        /\ vwr'[v] # None
        /\ \A a \in VoterWeightRecordAddress : a # v => vwr'[a] = vwr[a]
    BY <1>1, <1>3, RenewedRecord, AbsentAssumption
  <2>3. n' = n
    BY <1>1, <2>2, HeldType, AllocatedSame
  <2> QED
    BY <1>1, <2>1, <2>3 DEF Held
<1>4. ASSUME NEW v \in VoterWeightRecordAddress, Update(v)
      PROVE  Held' = Held
  <2>1. saturating_add(clock.slot, VOTER_WEIGHT_EXPIRY_SLOT_WINDOW) \in U64
    BY <1>1, SaturatingAdd, VoterWeightAssumption DEF VoterTypeOK, RegistrarTypeOK, ChainTypeOK
  <2> QED
    BY <1>1, <1>3, <1>4, <2>1, UpdateEffect DEF Option
<1>5. ASSUME NEW v \in VoterWeightRecordAddress,
             NEW a \in WeightActionArg, NEW t \in Target, UpdateForAction(v, a, t)
      PROVE  Held' = Held
  <2>1. clock.slot \in U64 /\ a \in VoterWeightAction
    BY <1>1, VoterWeightAssumption DEF VoterTypeOK, RegistrarTypeOK, ChainTypeOK
  <2> QED
    BY <1>1, <1>3, <1>5, <2>1, UpdateForActionEffect DEF Option
<1>6. ASSUME NEW v \in VoterWeightRecordAddress, Close(v)
      PROVE  Held' = Held
  <2>1. sum' = sum + RENT_VWR
    BY <1>0, <1>6, HeldType, RefundRentSum DEF Close, close_voter_weight_record
  <2>2. vwr[v] # None
    BY <1>6 DEF Close, close_voter_weight_record, RecordUnder
  <2>3. /\ vwr'[v] = None
        /\ \A a \in VoterWeightRecordAddress : a # v => vwr'[a] = vwr[a]
    BY <1>1, <1>6, CloseEffect
  <2>4. n' = n - 1
    <3>1. IsFiniteSet(VoterWeightRecordAddress) /\ DOMAIN vwr = VoterWeightRecordAddress
      BY FiniteAddresses, HeldType
    <3>2. DOMAIN vwr' = VoterWeightRecordAddress
      BY <1>1
    <3> QED
      BY <3>1, <3>2, <2>2, <2>3, AllocatedLess
  <2>5. RENT_VWR * n' = RENT_VWR * n - RENT_VWR
    BY <1>0, <2>4, HeldType, RentOf
  <2> QED
    BY <1>0, <1>1, <2>1, <2>5, HeldType DEF Held
<1> QED
  BY <1>2, <1>4, <1>5, <1>6 DEF VoterInstruction

\* A quorum instruction moves the rent of the record it creates.
LEMMA MaxHeld ==
    ASSUME PluginInv, MaxInstruction, UNCHANGED vwr
    PROVE  Held' = Held
<1> DEFINE sum == SumFunction(lamports)
           n == Allocated(maxvwr)
<1>0. RENT_REGISTRAR \in Nat /\ RENT_VWR \in Nat /\ RENT_MAX \in Nat
  BY RegistrarAssumption, VoterWeightAssumption, MaxVoterWeightAssumption
<1>1. /\ MaxInv
      /\ DOMAIN maxvwr' = MaxVoterWeightRecordAddress
      /\ UNCHANGED registrar
  <2>1. MaxTypeOK'
    BY MaxInvStep DEF PluginInv, MaxInv, MaxNext
  <2> QED
    BY <2>1, MaxInstructionFrame DEF PluginInv, MaxTypeOK
<1>2. ASSUME NEW k \in RegistrarAddress, NEW r \in Realm, NEW signer \in Key,
             NEW payer \in Key, create_max_voter_weight_record(k, r, signer, payer)
      PROVE  Held' = Held
  <2>1. sum' = sum - RENT_MAX
    BY <1>0, <1>2, HeldType, PayRentSum DEF create_max_voter_weight_record
  <2> DEFINE record == [realm |-> k[1], governing_token_mint |-> k[2],
                        max_voter_weight |-> 0, max_voter_weight_expiry |-> 0]
  <2>2. record \in MaxVoterWeightRecord
    BY WidthAssumption DEF RegistrarAddress, MaxVoterWeightRecord, Option, U64
  <2>3. /\ k \in MaxVoterWeightRecordAddress
        /\ maxvwr[k] = None
        /\ maxvwr' = [maxvwr EXCEPT ![k] = record]
    BY <1>1, <1>2, CreateMaxEffect
  <2> HIDE DEF record
  <2>4. /\ k \in MaxVoterWeightRecordAddress
        /\ maxvwr[k] = None
        /\ maxvwr'[k] = record
        /\ \A a \in MaxVoterWeightRecordAddress : a # k => maxvwr'[a] = maxvwr[a]
    BY <2>3, HeldType
  <2>5. n' = n + 1
    <3>1. IsFiniteSet(MaxVoterWeightRecordAddress) /\ DOMAIN maxvwr = MaxVoterWeightRecordAddress
      BY FiniteAddresses, HeldType
    <3>2. DOMAIN maxvwr' = MaxVoterWeightRecordAddress
      BY <1>1
    <3>3. maxvwr'[k] # None
      BY <2>2, <2>4, AbsentAssumption
    <3> QED
      BY <3>1, <3>2, <3>3, <2>4, AllocatedMore
  <2>6. RENT_MAX * n' = RENT_MAX * n + RENT_MAX
    BY <1>0, <2>5, HeldType, RentOf
  <2> QED
    BY <1>0, <1>1, <2>1, <2>6, HeldType DEF Held
<1>3. ASSUME NEW k \in RegistrarAddress, NEW x \in MaxVoterWeightRecordAddress,
             NEW r \in Realm, NEW signer \in Key, NEW weight \in MaxVoterWeightArg,
             update_max_voter_weight_record(k, x, r, signer, weight)
      PROVE  Held' = Held
  <2>1. /\ maxvwr[x] # None /\ maxvwr'[x] # None
        /\ \A a \in MaxVoterWeightRecordAddress : a # x => maxvwr'[a] = maxvwr[a]
        /\ UNCHANGED lamports
    BY <1>1, <1>3, UpdateMaxEffect, UpdatedMaxRecord, AbsentAssumption
       DEF registrarVars, chainVars
  <2>2. n' = n
    BY <1>1, <2>1, HeldType, AllocatedSame
  <2> QED
    BY <1>1, <2>1, <2>2 DEF Held
<1> QED
  BY <1>2, <1>3 DEF MaxInstruction

\* Wallets start with InitialLamports each and no account exists.
LEMMA HeldInit ==
    ASSUME PluginInit
    PROVE  Held = InitialLamports * Cardinality(Key)
<1>1. /\ lamports = [w \in Key |-> InitialLamports]
      /\ registrar = [k \in RegistrarAddress |-> None]
      /\ vwr = [v \in VoterWeightRecordAddress |-> None]
      /\ maxvwr = [x \in MaxVoterWeightRecordAddress |-> None]
  BY DEF PluginInit, VoterInit, MaxInit, RegistrarInit, ChainInit
<1>2. SumFunction(lamports) = InitialLamports * Cardinality(Key)
  BY <1>1, ChainAssumption, FinitenessAssumption, SumConstant
<1>3. ASSUME NEW A
      PROVE  Allocated([a \in A |-> None]) = 0
  <2>1. {b \in DOMAIN [a \in A |-> None] : [a \in A |-> None][b] # None} = {}
    OBVIOUS
  <2> QED
    BY <2>1, FS_EmptySet DEF Allocated
<1>4. Allocated(registrar) = 0 /\ Allocated(vwr) = 0 /\ Allocated(maxvwr) = 0
  BY <1>1, <1>3
<1>5. /\ RENT_REGISTRAR \in Nat /\ RENT_VWR \in Nat /\ RENT_MAX \in Nat
      /\ InitialLamports * Cardinality(Key) \in Nat
  BY RegistrarAssumption, VoterWeightAssumption, MaxVoterWeightAssumption, ChainAssumption,
     FinitenessAssumption, FS_CardinalityType
<1> QED
  BY <1>2, <1>4, <1>5 DEF Held

\* LamportsConserved: through every create and close the wallets and the accounts
\* that exist hold together what the wallets started with.
THEOREM LamportsConservedInvariant == PluginSpec => []LamportsConserved
<1> DEFINE Start == InitialLamports * Cardinality(Key)
<1>1. PluginInit => Held = Start
  BY HeldInit
<1>2. PluginInv /\ [PluginNext]_pluginVars => Held' = Held
  <2>1. UNCHANGED pluginVars => Held' = Held
    BY DEF pluginVars, registrarVars, chainVars, Held
  <2>2. ASSUME PluginInv, NEW v \in VoterWeightRecordAddress, Overwrite(v)
        PROVE  Held' = Held
    <3>1. UNCHANGED <<lamports, registrar, maxvwr>>
      BY <2>2, OverwriteEffect DEF registrarVars, chainVars
    <3>2. DOMAIN vwr = VoterWeightRecordAddress /\ DOMAIN vwr' = VoterWeightRecordAddress
      BY <2>2, OverwriteEffect DEF PluginInv, VoterInv, VoterTypeOK
    <3>3. \A u \in VoterWeightRecordAddress : vwr'[u] # None <=> vwr[u] # None
      BY <2>2, OverwriteEffect, AbsentAssumption
    <3>4. Allocated(vwr') = Allocated(vwr)
      BY <3>2, <3>3 DEF Allocated
    <3> QED
      BY <3>1, <3>4 DEF Held
  <2> QED
    BY <2>1, <2>2, RegistrarHeld, VoterHeld, MaxHeld DEF PluginNext
<1>3. (Held = Start) /\ PluginInv /\ [PluginNext]_pluginVars => (Held = Start)'
  BY <1>2
<1>4. Held = Start => LamportsConserved
  BY DEF Held, LamportsConserved
<1> QED
  BY <1>1, <1>3, <1>4, PluginInvariant, PTL DEF PluginSpec
=============================================================================
