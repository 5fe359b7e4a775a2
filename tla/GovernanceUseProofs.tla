------------------------ MODULE GovernanceUseProofs ------------------------
(***************************************************************************)
(* RevocationBound and AcceptedAsRequested for any window, any clock and   *)
(* any voters.  Neither is inductive: both follow from what each record    *)
(* says of the request that wrote it (Answers) and from when eligibility   *)
(* was last seen (Noted).                                                  *)
(***************************************************************************)
EXTENDS GovernanceUse, VoterWeightProofs

\* The last eligible slot is the current one while eligibility lasts, and never
\* one to come.
Noted(v) ==
    /\ Eligible(v) => lastEligible[v] = clock.slot
    /\ lastEligible[v] # None => lastEligible[v] <= clock.slot

\* A record with weight holds the answer to its voter's last request, and the
\* request was made in a slot in which the voter was eligible.
Answers(v) ==
    /\ requested[v] = None => vwr[v] = None \/ vwr[v].voter_weight = 0
    /\ requested[v] # None =>
         /\ vwr[v] # None
         /\ vwr[v].voter_weight = 1
         /\ requested[v].slot <= clock.slot
         /\ lastEligible[v] # None
         /\ requested[v].slot <= lastEligible[v]
         /\ requested[v].scope = AnyAction =>
              /\ vwr[v].voter_weight_expiry =
                   saturating_add(requested[v].slot, VOTER_WEIGHT_EXPIRY_SLOT_WINDOW)
              /\ vwr[v].weight_action = None
              /\ vwr[v].weight_action_target = None
         /\ requested[v].scope # AnyAction =>
              /\ vwr[v].voter_weight_expiry = requested[v].slot
              /\ vwr[v].weight_action # None
              /\ vwr[v].weight_action_target # None
              /\ requested[v].scope =
                   <<vwr[v].weight_action, vwr[v].weight_action_target>>

UseInv == /\ UseTypeOK
          /\ VoterInv
          /\ \A v \in VoterWeightRecordAddress : Noted(v) /\ Answers(v)

\* An action-bound scope is never mistaken for the scope of a general update.
LEMMA BoundIsNotAny ==
    ASSUME NEW a, NEW t
    PROVE  <<a, t>> # AnyAction
  BY DEF AnyAction

\* Before any update there is nothing to answer and nothing noted.
LEMMA UseInvInit ==
    ASSUME UseInit
    PROVE  UseInv
<1>1. VoterInv
  BY VoterInvInit DEF UseInit
<1>2. UseTypeOK
  BY <1>1 DEF UseInit, UseTypeOK, VoterInv, Option
<1>3. ASSUME NEW v \in VoterWeightRecordAddress
      PROVE  Noted(v) /\ Answers(v)
  <2>1. ~Eligible(v)
    <3>1. <<v[1], v[2]>> \in RegistrarAddress
      BY DEF VoterWeightRecordAddress, RegistrarAddress
    <3> QED
      BY <3>1 DEF Eligible, UseInit, VoterInit, RegistrarInit
  <2> QED
    BY <2>1 DEF UseInit, VoterInit, Noted, Answers
<1> QED
  BY <1>1, <1>2, <1>3 DEF UseInv

\* A step of this module is a step of the voter instructions.
LEMMA UseStepIsVoterStep ==
    ASSUME UseNext
    PROVE  VoterNext
  BY DEF UseNext, VoterNext, VoterInstruction

\* The slot never goes back.
LEMMA SlotGrowsInUse ==
    ASSUME UseInv, UseNext
    PROVE  clock.slot \in U64 /\ clock'.slot \in U64 /\ clock.slot <= clock'.slot
<1>1. VoterInv'
  BY UseStepIsVoterStep, VoterInvStep DEF UseInv
<1>2. clock.slot \in U64 /\ clock'.slot \in U64
  BY <1>1 DEF UseInv, VoterInv, VoterTypeOK, RegistrarTypeOK, ChainTypeOK
<1>3. CASE RegistrarNext
  BY <1>2, <1>3, SlotGrows DEF UseInv, VoterInv
<1>4. CASE VoterInstruction
  <2>1. UNCHANGED clock
    BY <1>4, CreateEffect, CloseEffect, UpdateEffect, UpdateForActionEffect
       DEF VoterInstruction, UseInv, VoterInv, registrarVars, chainVars
  <2> QED
    BY <1>2, <2>1, WidthAssumption DEF U64
<1> QED
  BY <1>2, <1>3, <1>4, UseStepIsVoterStep DEF VoterNext

\* The note of eligibility survives every step, and never goes back.
LEMMA NotedStep ==
    ASSUME UseInv, UseNext, NEW v \in VoterWeightRecordAddress
    PROVE  /\ Noted(v)'
           /\ lastEligible'[v] \in Option(U64)
           /\ lastEligible[v] # None =>
                lastEligible'[v] # None /\ lastEligible[v] <= lastEligible'[v]
<1>1. clock.slot \in U64 /\ clock'.slot \in U64 /\ clock.slot <= clock'.slot
  BY SlotGrowsInUse
<1>2. lastEligible'[v] = IF Eligible(v)' THEN clock'.slot ELSE lastEligible[v]
  BY DEF UseNext, NoteEligible
<1>3. lastEligible[v] \in Option(U64) /\ Noted(v)
  BY DEF UseInv, UseTypeOK
<1>4. /\ clock.slot \in Int /\ clock'.slot \in Int
      /\ None \notin U64
      /\ \A n \in U64 : n \in Int
  BY <1>1, NoneAssumption, WidthAssumption DEF U64
<1>5. CASE Eligible(v)'
  BY <1>1, <1>2, <1>3, <1>4, <1>5 DEF Noted, Option
<1>6. CASE ~Eligible(v)'
  <2>1. lastEligible'[v] = lastEligible[v]
    BY <1>2, <1>6
  <2>2. lastEligible[v] # None => lastEligible[v] \in Int /\ lastEligible[v] <= clock.slot
    BY <1>3, <1>4 DEF Noted, Option
  <2>3. lastEligible[v] # None => lastEligible[v] <= clock'.slot
    BY <1>1, <1>4, <2>2
  <2>4. Noted(v)'
    BY <1>6, <2>1, <2>3 DEF Noted
  <2> QED
    BY <1>3, <2>1, <2>2, <2>4
<1> QED
  BY <1>5, <1>6

\* A record that a step leaves alone answers the same request as before.
LEMMA AnswersKept ==
    ASSUME UseInv, UseNext, NEW v \in VoterWeightRecordAddress,
           vwr'[v] = vwr[v], requested'[v] = requested[v]
    PROVE  Answers(v)'
<1>1. Answers(v)
  BY DEF UseInv
<1>2. CASE requested[v] = None
  BY <1>1, <1>2 DEF Answers
<1>3. CASE requested[v] # None
  <2>1. requested[v].slot \in Int
    BY <1>3, WidthAssumption DEF UseInv, UseTypeOK, Request, Option, U64
  <2>2. clock.slot \in Int /\ clock'.slot \in Int /\ clock.slot <= clock'.slot
    BY SlotGrowsInUse, WidthAssumption DEF U64
  <2>3. /\ lastEligible[v] \in Int
        /\ lastEligible'[v] \in Int
        /\ lastEligible'[v] # None
        /\ lastEligible[v] <= lastEligible'[v]
    BY <1>1, <1>3, NotedStep, WidthAssumption DEF Answers, UseInv, UseTypeOK, Option, U64
  <2>4. requested[v].slot <= clock'.slot /\ requested[v].slot <= lastEligible'[v]
    BY <1>1, <1>3, <2>1, <2>2, <2>3 DEF Answers
  <2> QED
    BY <1>1, <1>3, <2>3, <2>4 DEF Answers
<1> QED
  BY <1>2, <1>3

\* An update is made in an eligible slot, and the note of it outlasts the step.
LEMMA NotedAtRequest ==
    ASSUME UseInv, UseNext, NEW v \in VoterWeightRecordAddress, Eligible(v),
           UNCHANGED clock
    PROVE  /\ clock.slot <= clock'.slot
           /\ lastEligible'[v] # None
           /\ clock.slot <= lastEligible'[v]
<1>1. clock.slot \in U64 /\ clock.slot # None /\ clock.slot \in Int
  BY SlotGrowsInUse, NoneAssumption, WidthAssumption DEF U64
<1>2. lastEligible[v] = clock.slot
  BY DEF UseInv, Noted
<1> QED
  BY <1>1, <1>2, NotedStep

\* Whatever the step (an update, a close, a create, or a step of the chain or of a
\* registrar), every record still answers the last request made of it.
LEMMA AnswersStep ==
    ASSUME UseInv, UseNext, NEW v \in VoterWeightRecordAddress
    PROVE  Answers(v)'
<1> USE DEF UseInv
<1>0. /\ vwr \in [VoterWeightRecordAddress -> Option(VoterWeightRecord)]
      /\ requested \in [VoterWeightRecordAddress -> Option(Request)]
      /\ VoterTypeOK
  BY DEF UseTypeOK, VoterTypeOK
<1>1. CASE RegistrarNext /\ UNCHANGED <<vwr, requested>>
  BY <1>1, AnswersKept
<1>2. CASE Create /\ UNCHANGED requested
  <2> PICK u \in VoterWeightRecordAddress :
             /\ vwr[u] = None
             /\ vwr' = [vwr EXCEPT ![u] = [realm |-> u[1],
                                           governing_token_mint |-> u[2],
                                           governing_token_owner |-> u[3],
                                           voter_weight |-> 0,
                                           voter_weight_expiry |-> 0,
                                           weight_action |-> None,
                                           weight_action_target |-> None]]
    BY <1>0, <1>2, CreateEffect
  <2>1. CASE u = v
    <3>1. requested'[v] = None
      BY <1>2, <2>1 DEF Answers
    <3> QED
      BY <1>0, <2>1, <3>1 DEF Answers
  <2>2. CASE u # v
    BY <1>0, <1>2, <2>2, AnswersKept
  <2> QED
    BY <2>1, <2>2
<1>3. ASSUME NEW u \in VoterWeightRecordAddress, Update(u), Ask(u, AnyAction)
      PROVE  Answers(v)'
  <2> DEFINE expiry == saturating_add(clock.slot, VOTER_WEIGHT_EXPIRY_SLOT_WINDOW)
  <2>1. expiry \in U64
    BY SaturatingAdd, VoterWeightAssumption
       DEF VoterInv, VoterTypeOK, RegistrarTypeOK, ChainTypeOK
  <2>2. None \in Option(VoterWeightAction) /\ None \in Option(Target)
    BY DEF Option
  <2>3. Eligible(u) /\ vwr[u] \in VoterWeightRecord /\ vwr' = Renewed(u, expiry, None, None)
    BY <1>3, UpdateEffect
  <2>4. UNCHANGED clock
    BY <1>3, UpdateEffect DEF registrarVars, chainVars
  <2> HIDE DEF expiry
  <2>5. /\ vwr'[u] \in VoterWeightRecord
        /\ vwr'[u].voter_weight = 1
        /\ vwr'[u].voter_weight_expiry = expiry
        /\ vwr'[u].weight_action = None
        /\ vwr'[u].weight_action_target = None
        /\ \A w \in VoterWeightRecordAddress \ {u} : vwr'[w] = vwr[w]
    BY <1>0, <2>1, <2>2, <2>3, RenewedRecord
  <2>6. CASE u = v
    <3>1. requested'[v] = [scope |-> AnyAction, slot |-> clock.slot]
      BY <1>0, <1>3, <2>6 DEF Ask
    <3>2. requested'[v].slot = clock.slot /\ requested'[v].scope = AnyAction
      BY <3>1
    <3>3. /\ clock.slot <= clock'.slot
          /\ lastEligible'[v] # None
          /\ clock.slot <= lastEligible'[v]
      BY <2>3, <2>4, <2>6, NotedAtRequest
    <3>4. vwr'[v] # None /\ requested'[v] # None
      <4>1. requested'[v] # None
        BY <3>1, RequestAssumption, SlotGrowsInUse DEF Request, Scope
      <4> QED
        BY <2>5, <2>6, <4>1, AbsentAssumption
    <3> QED
      BY <2>5, <2>6, <3>2, <3>3, <3>4 DEF Answers, expiry
  <2>7. CASE u # v
    BY <1>0, <1>3, <2>5, <2>7, AnswersKept DEF Ask
  <2> QED
    BY <2>6, <2>7
<1>4. ASSUME NEW u \in VoterWeightRecordAddress,
             NEW a \in WeightActionArg, NEW t \in Target,
             UpdateForAction(u, a, t), Ask(u, <<a, t>>)
      PROVE  Answers(v)'
  <2>1. /\ clock.slot \in U64
        /\ a \in Option(VoterWeightAction)
        /\ t \in Option(Target)
    BY SlotGrowsInUse, VoterWeightAssumption DEF Option
  <2>2. Eligible(u) /\ vwr[u] \in VoterWeightRecord /\ vwr' = Renewed(u, clock.slot, a, t)
    BY <1>4, UpdateForActionEffect
  <2>3. a # None /\ t # None /\ UNCHANGED clock
    BY <1>4, UpdateForActionEffect, NoneAssumption, AbsentAssumption,
       VoterWeightAssumption DEF registrarVars, chainVars
  <2>4. /\ vwr'[u] \in VoterWeightRecord
        /\ vwr'[u].voter_weight = 1
        /\ vwr'[u].voter_weight_expiry = clock.slot
        /\ vwr'[u].weight_action = a
        /\ vwr'[u].weight_action_target = t
        /\ \A w \in VoterWeightRecordAddress \ {u} : vwr'[w] = vwr[w]
    BY <1>0, <2>1, <2>2, RenewedRecord
  <2>5. CASE u = v
    <3>1. requested'[v] = [scope |-> <<a, t>>, slot |-> clock.slot]
      BY <1>0, <1>4, <2>5 DEF Ask
    <3>2. requested'[v].slot = clock.slot /\ requested'[v].scope = <<a, t>>
      BY <3>1
    <3>3. /\ clock.slot <= clock'.slot
          /\ lastEligible'[v] # None
          /\ clock.slot <= lastEligible'[v]
      BY <2>2, <2>3, <2>5, NotedAtRequest
    <3>4. vwr'[v] # None /\ requested'[v] # None
      <4>1. <<a, t>> \in Scope
        BY DEF Scope
      <4>2. requested'[v] # None
        BY <2>1, <3>1, <4>1, RequestAssumption DEF Request
      <4> QED
        BY <2>4, <2>5, <4>2, AbsentAssumption
    <3> QED
      BY <2>3, <2>4, <2>5, <3>2, <3>3, <3>4, BoundIsNotAny DEF Answers
  <2>6. CASE u # v
    BY <1>0, <1>4, <2>4, <2>6, AnswersKept DEF Ask
  <2> QED
    BY <2>5, <2>6
<1>5. ASSUME NEW u \in VoterWeightRecordAddress, Close(u),
             requested' = [requested EXCEPT ![u] = None]
      PROVE  Answers(v)'
  <2>1. vwr' = [vwr EXCEPT ![u] = None]
    BY <1>0, <1>5, CloseEffect
  <2>2. CASE u = v
    BY <1>0, <1>5, <2>1, <2>2 DEF Answers
  <2>3. CASE u # v
    BY <1>0, <1>5, <2>1, <2>3, AnswersKept
  <2> QED
    BY <2>2, <2>3
<1> QED
  BY <1>1, <1>2, <1>3, <1>4, <1>5 DEF UseNext

\* Requests and notes of eligibility keep their types.
LEMMA UseTypeStep ==
    ASSUME UseInv, UseNext
    PROVE  UseTypeOK'
<1>1. VoterTypeOK'
  BY UseStepIsVoterStep, VoterTypeStep DEF UseInv
<1>2. lastEligible' \in [VoterWeightRecordAddress -> Option(U64)]
  <2>1. \A v \in VoterWeightRecordAddress : lastEligible'[v] \in Option(U64)
    BY NotedStep
  <2> QED
    BY <2>1 DEF UseNext, NoteEligible
<1>3. requested' \in [VoterWeightRecordAddress -> Option(Request)]
  <2>1. requested \in [VoterWeightRecordAddress -> Option(Request)] /\ clock.slot \in U64
    BY SlotGrowsInUse DEF UseInv, UseTypeOK
  <2>2. ASSUME NEW v \in VoterWeightRecordAddress, NEW scope \in Scope, Ask(v, scope)
        PROVE  requested' \in [VoterWeightRecordAddress -> Option(Request)]
    <3>1. [scope |-> scope, slot |-> clock.slot] \in Request
      BY <2>1 DEF Request
    <3> QED
      BY <2>1, <2>2, <3>1 DEF Ask, Option
  <2>3. AnyAction \in Scope /\ \A a \in WeightActionArg, t \in Target : <<a, t>> \in Scope
    BY DEF Scope
  <2>4. ASSUME NEW v \in VoterWeightRecordAddress,
               requested' = [requested EXCEPT ![v] = None]
        PROVE  requested' \in [VoterWeightRecordAddress -> Option(Request)]
    BY <2>1, <2>4 DEF Option
  <2> QED
    BY <2>1, <2>2, <2>3, <2>4 DEF UseNext
<1> QED
  BY <1>1, <1>2, <1>3 DEF UseTypeOK

\* The strengthened invariant is inductive.
LEMMA UseInvStep ==
    ASSUME UseInv, [UseNext]_useVars
    PROVE  UseInv'
<1>1. CASE UseNext
  <2>1. VoterInv'
    BY <1>1, UseStepIsVoterStep, VoterInvStep DEF UseInv
  <2>2. \A v \in VoterWeightRecordAddress : Noted(v)' /\ Answers(v)'
    BY <1>1, NotedStep, AnswersStep
  <2> QED
    BY <1>1, <2>1, <2>2, UseTypeStep DEF UseInv
<1>2. CASE UNCHANGED useVars
  <2>1. UNCHANGED voterVars /\ UNCHANGED <<lastEligible, requested>>
    BY <1>2 DEF useVars
  <2>2. VoterInv'
    BY <2>1, VoterInvStep DEF UseInv
  <2>3. UNCHANGED <<clock, identity, registrar, vwr>>
    BY <2>1 DEF voterVars, registrarVars, chainVars
  <2>4. UseTypeOK'
    BY <2>1, <2>2 DEF UseInv, UseTypeOK, VoterInv
  <2>5. \A v \in VoterWeightRecordAddress : Noted(v)' /\ Answers(v)'
    BY <2>1, <2>3 DEF UseInv, Noted, Answers, Eligible
  <2> QED
    BY <2>2, <2>4, <2>5 DEF UseInv
<1> QED
  BY <1>1, <1>2

\* The strengthened invariant, of which the two properties below are consequences.
THEOREM UseInvariant == UseSpec => []UseInv
  BY UseInvInit, UseInvStep, PTL DEF UseSpec

-----------------------------------------------------------------------------
\* The numbers behind one record with weight.
LEMMA RequestNumbers ==
    ASSUME UseInv, NEW v \in VoterWeightRecordAddress, requested[v] # None
    PROVE  /\ requested[v].slot \in U64
           /\ clock.slot \in U64
           /\ lastEligible[v] \in U64
           /\ VOTER_WEIGHT_EXPIRY_SLOT_WINDOW \in U64
           /\ \A n \in U64 : n \in Int /\ n >= 0 /\ n <= U64_MAX /\ n # None
           /\ U64_MAX \in Int
           /\ requested[v].scope \in Scope
<1>1. requested[v] \in Request
  BY DEF UseInv, UseTypeOK, Option
<1>2. clock.slot \in U64
  BY DEF UseInv, UseTypeOK, VoterTypeOK, RegistrarTypeOK, ChainTypeOK
<1>3. lastEligible[v] \in U64
  BY DEF UseInv, UseTypeOK, Answers, Option
<1> QED
  BY <1>1, <1>2, <1>3, VoterWeightAssumption, NoneAssumption, WidthAssumption
     DEF Request, U64

\* RevocationBound: however eligibility was lost, no weight outlives it by more
\* than the window, and none that is bound to an action outlives the slot.
THEOREM RevocationBoundInvariant == UseSpec => []RevocationBound
<1>1. UseInv => RevocationBound
  <2> SUFFICES ASSUME UseInv, NEW v \in VoterWeightRecordAddress,
                      NEW a \in WeightActionArg, NEW t \in Target, Accepts(v, a, t)
               PROVE  /\ lastEligible[v] # None
                      /\ clock.slot <= lastEligible[v] + VOTER_WEIGHT_EXPIRY_SLOT_WINDOW
                      /\ vwr[v].weight_action # None => lastEligible[v] = clock.slot
    BY DEF RevocationBound
  <2>1. Answers(v) /\ Noted(v)
    BY DEF UseInv
  <2>2. requested[v] # None
    BY <2>1 DEF Answers, Accepts
  <2>3. /\ requested[v].slot \in Int /\ clock.slot \in Int /\ lastEligible[v] \in Int
        /\ VOTER_WEIGHT_EXPIRY_SLOT_WINDOW \in Int
        /\ VOTER_WEIGHT_EXPIRY_SLOT_WINDOW >= 0
        /\ requested[v].slot # None
    BY <2>2, RequestNumbers
  <2>4. saturating_add(requested[v].slot, VOTER_WEIGHT_EXPIRY_SLOT_WINDOW) \in U64
        /\ saturating_add(requested[v].slot, VOTER_WEIGHT_EXPIRY_SLOT_WINDOW)
             <= requested[v].slot + VOTER_WEIGHT_EXPIRY_SLOT_WINDOW
    BY <2>2, RequestNumbers, SaturatingAdd
  <2>5. saturating_add(requested[v].slot, VOTER_WEIGHT_EXPIRY_SLOT_WINDOW) \in Int
        /\ saturating_add(requested[v].slot, VOTER_WEIGHT_EXPIRY_SLOT_WINDOW) # None
    BY <2>2, <2>4, RequestNumbers
  <2>6. CASE requested[v].scope = AnyAction
    BY <2>1, <2>2, <2>3, <2>4, <2>5, <2>6 DEF Answers, Accepts
  <2>7. CASE requested[v].scope # AnyAction
    BY <2>1, <2>2, <2>3, <2>7 DEF Answers, Accepts, Noted
  <2> QED
    BY <2>6, <2>7
<1> QED
  BY <1>1, UseInvariant, PTL

\* AcceptedAsRequested: the record admits what its voter last asked for, all of it
\* and nothing else.
THEOREM AcceptedAsRequestedInvariant == UseSpec => []AcceptedAsRequested
<1>1. UseInv => AcceptedAsRequested
  <2> SUFFICES ASSUME UseInv, NEW v \in VoterWeightRecordAddress,
                      NEW a \in WeightActionArg, NEW t \in Target
               PROVE  Accepts(v, a, t) <=>
                        /\ requested[v] # None
                        /\ \/ /\ requested[v].scope = AnyAction
                              /\ clock.slot <= requested[v].slot
                                                 + VOTER_WEIGHT_EXPIRY_SLOT_WINDOW
                           \/ /\ requested[v].scope = <<a, t>>
                              /\ clock.slot = requested[v].slot
    BY DEF AcceptedAsRequested
  <2>1. Answers(v)
    BY DEF UseInv
  <2>2. CASE requested[v] = None
    BY <2>1, <2>2 DEF Answers, Accepts
  <2>3. CASE requested[v] # None /\ requested[v].scope = AnyAction
    <3> DEFINE expiry == saturating_add(requested[v].slot, VOTER_WEIGHT_EXPIRY_SLOT_WINDOW)
    <3>1. expiry \in U64 /\ (expiry >= clock.slot
            <=> clock.slot <= requested[v].slot + VOTER_WEIGHT_EXPIRY_SLOT_WINDOW)
      BY <2>3, RequestNumbers DEF saturating_add, U64
    <3>2. expiry # None
      BY <2>3, <3>1, RequestNumbers
    <3>3. requested[v].scope # <<a, t>>
      BY <2>3, BoundIsNotAny
    <3>4. /\ vwr[v] # None /\ vwr[v].voter_weight = 1
          /\ vwr[v].voter_weight_expiry = expiry
          /\ vwr[v].weight_action = None /\ vwr[v].weight_action_target = None
      BY <2>1, <2>3 DEF Answers
    <3> HIDE DEF expiry
    <3> QED
      BY <2>3, <3>1, <3>2, <3>3, <3>4 DEF Accepts
  <2>4. CASE requested[v] # None /\ requested[v].scope # AnyAction
    <3>1. /\ requested[v].slot \in Int /\ clock.slot \in Int /\ requested[v].slot # None
      BY <2>4, RequestNumbers
    <3>2. /\ vwr[v] # None /\ vwr[v].voter_weight = 1
          /\ vwr[v].voter_weight_expiry = requested[v].slot
          /\ requested[v].slot <= clock.slot
          /\ vwr[v].weight_action # None /\ vwr[v].weight_action_target # None
          /\ requested[v].scope = <<vwr[v].weight_action, vwr[v].weight_action_target>>
      BY <2>1, <2>4 DEF Answers
    <3>3. requested[v].scope = <<a, t>>
            <=> vwr[v].weight_action = a /\ vwr[v].weight_action_target = t
      BY <3>2
    <3>4. requested[v].slot >= clock.slot <=> clock.slot = requested[v].slot
      BY <3>1, <3>2
    <3> QED
      BY <2>4, <3>1, <3>2, <3>3, <3>4 DEF Accepts
  <2> QED
    BY <2>2, <2>3, <2>4
<1> QED
  BY <1>1, UseInvariant, PTL
=============================================================================
