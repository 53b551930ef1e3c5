-------------------------- MODULE RecordSetProofs --------------------------
(***************************************************************************)
(* Proofs about RecordSet, for every set of identifiers, values and        *)
(* change IDs and for any number of faults and edits.                      *)
(***************************************************************************)
EXTENDS RecordSet, TLAPS

USE KeysAssumption, ValuesAssumption, IdsAssumption, BoundsAssumption, AdoptionAssumption

-----------------------------------------------------------------------------
(* Type correctness *)

(* What Return and Goto do to the worker's control. *)
LEMMA ReturnType ==
  ASSUME NEW status \in Statuses, NEW err \in Errors, Return(status, err)
  PROVE  pc' = "patch" /\ ret' \in Results
  BY DEF Return, Results, SyncedUnless, ConditionOf, Conditions, Statuses

(* demoteTransientChangeBatchError maps errors to errors. *)
LEMMA DemoteType ==
  ASSUME NEW err \in Errors
  PROVE  demoteTransientChangeBatchError(err) \in Errors
  BY DEF demoteTransientChangeBatchError, Errors, Sentinels

LEMMA CreateFailedType ==
  ASSUME TypeOK, NEW err \in Errors, CreateFailed(err)
  PROVE  pc' \in Labels /\ ret' \in Results
<1> DEFINE e == demoteTransientChangeBatchError(err)
<1>1. e \in Errors /\ des.status \in Statuses
  BY DemoteType DEF TypeOK, Desired
<1>2. CASE Return(des.status, e)
  BY <1>1, <1>2, ReturnType DEF Labels
<1>3. CASE /\ pc' = "create.release"
           /\ ret' = [status |-> des.status, cond |-> ConditionOf(e, TerminalCodes)]
  BY <1>1, <1>3 DEF Results, Labels, ConditionOf, Conditions
<1> QED
  BY <1>2, <1>3 DEF CreateFailed

LEMMA FindNotFoundType ==
  ASSUME TypeOK, FindNotFound
  PROVE  pc' \in Labels /\ ret' \in Results
<1>1. des.status \in Statuses /\ "notFound" \in Errors
  BY DEF TypeOK, Desired, Errors, Sentinels
<1>2. CASE mode = "sync"
  BY <1>2 DEF FindNotFound, Goto, TypeOK, Labels
<1>3. CASE mode = "post"
  BY <1>1, <1>3, ReturnType DEF FindNotFound, Labels
<1>4. CASE mode = "delete"
  BY <1>4 DEF FindNotFound, Goto, TypeOK, Labels
<1> QED
  BY <1>2, <1>3, <1>4 DEF TypeOK

LEMMA NothingType == Nothing \in Observed /\ Nothing.status = Nil
  BY DEF Nothing, Observed, Nil, StatusOf, Statuses

LEMMA IdleType ==
  ASSUME Idle
  PROVE  /\ pc' \in Labels /\ mode' \in {"sync", "post", "delete"}
         /\ des' \in Desired /\ obs' \in Observed /\ ret' \in Results
<1>1. Nil \in Statuses /\ "none" \in Conditions
  BY DEF Nil, StatusOf, Statuses, Conditions
<1> QED
  BY <1>1, NothingType DEF Idle, Labels, Desired, Results

(* The start of a reconciliation and the other writers of the zone change  *)
(* of what ReadOne returned only how much it may be trusted.               *)
LEMMA OnlyFreshness ==
  ASSUME TypeOK, Reconcile \/ OtherWriter
  PROVE  /\ obs' \in Observed
         /\ obs'.key = obs.key /\ obs'.val = obs.val /\ obs'.status = obs.status
         /\ OtherWriter /\ obs'.fresh => obs.fresh /\ recs'[Own] = recs[Own]
<1>1. CASE Reconcile
  <2>1. ~OtherWriter
    BY <1>1 DEF Reconcile, OtherWriter, Goto
  <2> QED
    BY <1>1, <2>1 DEF Reconcile, TypeOK, Observed
<1>2. CASE OtherWriter
  <2> DEFINE kept == obs.fresh /\ recs'[Own] = recs[Own]
  <2>1. kept \in BOOLEAN /\ obs' = [obs EXCEPT !.fresh = kept]
    BY <1>2 DEF OtherWriter, TypeOK, Observed
  <2> HIDE DEF kept
  <2>2. /\ obs' \in Observed /\ obs'.fresh = kept
        /\ obs'.key = obs.key /\ obs'.val = obs.val /\ obs'.status = obs.status
    BY <2>1 DEF TypeOK, Observed
  <2> QED
    BY <2>2 DEF kept
<1> QED
  BY <1>1, <1>2

(* Types, and the ids in use, through the steps of the environment. *)
LEMMA EnvironmentType ==
  ASSUME TypeOK,
         User \/ OtherWriter \/ Crash \/ \E id \in ChangeIds : Propagate(id)
  PROVE  TypeOK'
<1>1. CASE User
  <2>1. cr \in CRs /\ Nil \in Statuses /\ "none" \in Conditions
    BY DEF TypeOK, Conditions, Nil, StatusOf, Statuses
  <2>2. cr' \in CRs
    <3>1. CASE \E v \in Values, a \in Adoption :
                 cr' = [phase |-> "live", fin |-> FALSE, adopt |-> a, spec |-> v,
                        status |-> Nil, cond |-> "none"]
      BY <2>1, <3>1 DEF CRs
    <3>2. CASE \E v \in Values \ {cr.spec} : cr' = [cr EXCEPT !.spec = v]
      BY <2>1, <3>2 DEF CRs
    <3>3. CASE cr' = [cr EXCEPT !.phase = IF cr.fin THEN "deleting" ELSE "gone"]
      BY <2>1, <3>3 DEF CRs
    <3> QED
      BY <1>1, <3>1, <3>2, <3>3 DEF User
  <2> QED
    BY <1>1, <2>2 DEF User, TypeOK, route53, worker
<1>2. CASE OtherWriter
  <2>1. recs' \in [Keys -> Values \cup {Absent}]
    BY <1>2 DEF OtherWriter, TypeOK
  <2>2. mine' \in BOOLEAN
    BY <1>2 DEF OtherWriter, TypeOK
  <2>3. zoneUp' \in BOOLEAN /\ lastChange' \in ChangeIds \cup {NoId}
    BY <1>2 DEF OtherWriter, TypeOK
  <2>4. obs' \in Observed
    BY <1>2, OnlyFreshness
  <2>6. edits' \in 0..MaxEdits
    BY <1>2 DEF OtherWriter, TypeOK
  <2>5. UNCHANGED <<pending, cr, queued, pc, mode, des, ret, faults>>
    BY <1>2 DEF OtherWriter
  <2> QED
    BY <2>1, <2>2, <2>3, <2>4, <2>5, <2>6 DEF TypeOK
<1>3. CASE Crash
  BY <1>3, IdleType DEF Crash, Fault, TypeOK, route53
<1>4. CASE \E id \in ChangeIds : Propagate(id)
  BY <1>4 DEF Propagate, TypeOK, worker
<1> QED
  BY <1>1, <1>2, <1>3, <1>4

LEMMA GotoType ==
  ASSUME TypeOK, NEW label \in Labels, Goto(label)
  PROVE  pc' \in Labels /\ ret' \in Results
  BY DEF Goto, TypeOK

(* A batch of the controller leaves Route 53 in its type. *)
LEMMA ApplyType ==
  ASSUME TypeOK, NEW id \in ChangeIds, NEW v \in Values \cup {Absent}, Apply(id, v)
  PROVE  /\ zoneUp' \in BOOLEAN /\ recs' \in [Keys -> Values \cup {Absent}]
         /\ mine' \in BOOLEAN /\ pending' \subseteq ChangeIds
         /\ lastChange' \in ChangeIds \cup {NoId}
  BY DEF Apply, TypeOK

LEMMA RemoveType ==
  ASSUME TypeOK, NEW k \in Keys, Remove(k)
  PROVE  /\ zoneUp' \in BOOLEAN /\ recs' \in [Keys -> Values \cup {Absent}]
         /\ mine' \in BOOLEAN /\ pending' \subseteq ChangeIds
         /\ lastChange' \in ChangeIds \cup {NoId}
  BY DEF Remove, TypeOK

(* The reading half of a reconciliation. *)
LEMMA ReadType ==
  ASSUME TypeOK, Reconcile \/ FindZone \/ FindList \/ FindChange \/ Decide
  PROVE  TypeOK'
<1>1. /\ des.status \in Statuses /\ obs.status \in Statuses
      /\ {"none", "plain", "notFound", "terminalError", "OtherAPIError"} \subseteq Errors
      /\ "patch" \in Labels
  BY DEF TypeOK, Desired, Observed, Errors, Sentinels, APIErrors, Labels
<1>2. \A k \in Keys : recs[k] \in Values \cup {Absent}
  BY DEF TypeOK
<1>3. CASE Reconcile
  <2>1. pc' \in Labels /\ ret' \in Results
    BY <1>3, GotoType DEF Reconcile, Labels
  <2>2. des' \in Desired
    BY <1>3 DEF Reconcile, TypeOK, Desired, CRs
  <2> QED
    BY <1>3, <2>1, <2>2, OnlyFreshness DEF Reconcile, TypeOK, route53
<1>4. CASE FindZone
  <2>1. pc' \in Labels /\ ret' \in Results
    <3>1. CASE Goto("find.list")
      BY <3>1, GotoType DEF Labels
    <3>2. CASE FindNotFound
      BY <3>2, FindNotFoundType
    <3>3. CASE \E err \in Errors : Return(des.status, err)
      BY <1>1, <3>3, ReturnType
    <3> QED
      BY <1>1, <1>4, <3>1, <3>2, <3>3 DEF FindZone, zoneAnswer
  <2>2. faults' \in 0..MaxFaults
    BY <1>4 DEF FindZone, Fault, NoFault, TypeOK
  <2> QED
    BY <1>4, <2>1, <2>2 DEF FindZone, TypeOK, route53
<1>5. CASE FindList
  <2>1. pc' \in Labels /\ ret' \in Results
    <3>1. CASE \E k \in Found :
                 /\ \A j \in Found : k <= j
                 /\ obs' = [obs EXCEPT !.key = k, !.val = recs[k], !.status = des.status]
                 /\ IF des.status.id # NoId /\ des.status.st # "INSYNC"
                      THEN Goto("find.change") ELSE Goto("decide")
      <4>1. Goto("find.change") \/ Goto("decide")
        BY <3>1, Zenon
      <4> QED
        BY <4>1, GotoType DEF Labels
    <3>2. CASE FindNotFound
      BY <3>2, FindNotFoundType
    <3>3. CASE Return(des.status, "OtherAPIError")
      BY <1>1, <3>3, ReturnType
    <3> QED
      BY <1>5, <3>1, <3>2, <3>3, Zenon DEF FindList
  <2>2. faults' \in 0..MaxFaults
    <3>1. UNCHANGED faults \/ (faults < MaxFaults /\ faults' = faults + 1)
      BY <1>5, Zenon DEF FindList, Fault, NoFault
    <3> QED
      BY <3>1 DEF TypeOK
  <2>3. obs' \in Observed
    <3>1. CASE UNCHANGED obs
      BY <3>1 DEF TypeOK
    <3>2. CASE \E k \in Found :
                 obs' = [obs EXCEPT !.key = k, !.val = recs[k], !.status = des.status]
      BY <1>1, <1>2, <3>2 DEF Found, TypeOK, Observed
    <3> QED
      BY <1>5, <3>1, <3>2 DEF FindList
  <2> QED
    BY <1>5, <2>1, <2>2, <2>3 DEF FindList, TypeOK, route53
<1>6. CASE FindChange
  <2>1. pc' \in Labels /\ ret' \in Results
    <3>1. CASE Goto("decide")
      BY <3>1, GotoType DEF Labels
    <3>2. CASE Return(des.status, "OtherAPIError")
      BY <1>1, <3>2, ReturnType
    <3> QED
      BY <1>6, <3>1, <3>2 DEF FindChange
  <2>2. faults' \in 0..MaxFaults
    BY <1>6 DEF FindChange, Fault, NoFault, TypeOK
  <2>3. obs' \in Observed
    BY <1>1, <1>6 DEF FindChange, syncStatus, TypeOK, Observed, Statuses
  <2> QED
    BY <1>6, <2>1, <2>2, <2>3 DEF FindChange, TypeOK, route53
<1>7. CASE Decide
  <2>1. pc' \in Labels /\ ret' \in Results
    <3>1. CASE Goto("delete.zone") \/ Goto("update.zone") \/ Goto("adopt")
      BY <3>1, GotoType DEF Labels
    <3>2. CASE Return(obs.status, "none") \/ Return(obs.status, "terminalError")
      BY <1>1, <3>2, ReturnType
    <3> QED
      BY <1>7, <3>1, <3>2 DEF Decide, TypeOK, Desired
  <2> QED
    BY <1>7, <2>1 DEF Decide, TypeOK, route53
<1> QED
  BY <1>3, <1>4, <1>5, <1>6, <1>7

(* What Route 53 answers is an error class. *)
LEMMA AnswerType ==
  ASSUME NEW k, NEW v
  PROVE  {CreateAnswer(k, v), UpsertAnswer(k, v), DeleteAnswer(k, v), zoneAnswer} \subseteq Errors
  BY DEF CreateAnswer, UpsertAnswer, DeleteAnswer, zoneAnswer, Errors, Sentinels,
         APIErrors, BatchErrors

LEMMA UpsertFailedType ==
  ASSUME NEW err \in Errors, UpsertFailed(err)
  PROVE  pc' \in Labels /\ ret' \in Results
<1>1. Nil \in Statuses /\ demoteTransientChangeBatchError(err) \in Errors
  BY DemoteType DEF Nil, StatusOf, Statuses
<1> QED
  BY <1>1, ReturnType DEF UpsertFailed, Labels

(* Adopting sets the finalizer, and may go on to an update. *)
LEMMA AdoptType ==
  ASSUME TypeOK, Adopt
  PROVE  TypeOK'
<1>1. obs.status \in Statuses /\ {"none", "plain"} \subseteq Errors /\ "patch" \in Labels
  BY DEF TypeOK, Observed, Errors, Sentinels, Labels
<1>2. pc' \in Labels /\ ret' \in Results
  <2>1. CASE Goto("update.zone")
    BY <2>1, GotoType DEF Labels
  <2>2. CASE Return(obs.status, "none") \/ Return(obs.status, "plain")
    BY <1>1, <2>2, ReturnType
  <2> QED
    BY <2>1, <2>2 DEF Adopt
<1>3. cr' \in CRs /\ des' \in Desired
  BY DEF Adopt, TypeOK, CRs, Desired
<1>4. faults' \in 0..MaxFaults
  BY DEF Adopt, Fault, NoFault, TypeOK
<1>5. mine' \in BOOLEAN
  BY Zenon DEF Adopt, TypeOK
<1> QED
  BY <1>2, <1>3, <1>4, <1>5 DEF Adopt, TypeOK

(* Creating, with the finalizer before and perhaps its release after. *)
LEMMA CreateType ==
  ASSUME TypeOK, AddFinalizer \/ CreateZone \/ CreateCall \/ ReleaseFinalizer
  PROVE  TypeOK'
<1>1. /\ des.status \in Statuses /\ des.spec \in Values \cup {Absent}
      /\ {"plain", "aliasTarget", "OtherAPIError"} \subseteq Errors
      /\ "patch" \in Labels
  BY DEF TypeOK, Desired, Errors, Sentinels, APIErrors, BatchErrors, Labels
<1>2. CASE AddFinalizer
  <2>1. pc' \in Labels /\ ret' \in Results
    <3>1. CASE Goto("create.zone")
      BY <3>1, GotoType DEF Labels
    <3>2. CASE Return(des.status, "plain")
      BY <1>1, <3>2, ReturnType
    <3> QED
      BY <1>2, <3>1, <3>2 DEF AddFinalizer
  <2>2. cr' \in CRs /\ des' \in Desired
    BY <1>2 DEF AddFinalizer, TypeOK, CRs, Desired
  <2>3. faults' \in 0..MaxFaults
    BY <1>2 DEF AddFinalizer, Fault, NoFault, TypeOK
  <2> QED
    BY <1>2, <2>1, <2>2, <2>3 DEF AddFinalizer, TypeOK, route53
<1>3. CASE CreateZone
  <2>1. pc' \in Labels /\ ret' \in Results
    <3>1. CASE Goto("create.call")
      BY <3>1, GotoType DEF Labels
    <3>2. CASE CreateFailed(zoneAnswer) \/ CreateFailed("OtherAPIError")
      BY <1>1, <3>2, AnswerType, CreateFailedType
    <3> QED
      BY <1>3, <3>1, <3>2 DEF CreateZone
  <2>2. faults' \in 0..MaxFaults
    BY <1>3 DEF CreateZone, Fault, NoFault, TypeOK
  <2> QED
    BY <1>3, <2>1, <2>2 DEF CreateZone, TypeOK, route53
<1>4. CASE CreateCall
  <2>1. pc' \in Labels /\ ret' \in Results
    <3>1. CASE Goto("find.zone")
      BY <3>1, GotoType DEF Labels
    <3>2. CASE \E err \in Errors : CreateFailed(err)
      BY <3>2, CreateFailedType
    <3> QED
      BY <1>1, <1>4, <3>1, <3>2, AnswerType DEF CreateCall
  <2>2. CASE UNCHANGED <<route53, des>>
    BY <1>4, <2>1, <2>2 DEF CreateCall, Fault, NoFault, TypeOK, route53
  <2>3. CASE \E id \in ChangeIds \ IdsInUse :
               /\ Apply(id, des.spec)
               /\ UNCHANGED des \/ des' = [des EXCEPT !.status = StatusOf(id, "PENDING")]
    <3>1. PICK id \in ChangeIds :
            /\ Apply(id, des.spec)
            /\ UNCHANGED des \/ des' = [des EXCEPT !.status = StatusOf(id, "PENDING")]
      BY <2>3
    <3>2. des' \in Desired
      BY <3>1 DEF TypeOK, Desired, StatusOf, Statuses
    <3>3. faults' \in 0..MaxFaults /\ mode' \in {"sync", "post", "delete"}
      BY <1>4 DEF CreateCall, Fault, NoFault, TypeOK
    <3> QED
      BY <1>1, <1>4, <2>1, <3>1, <3>2, <3>3, ApplyType DEF CreateCall, TypeOK
  <2> QED
    BY <1>4, <2>2, <2>3 DEF CreateCall
<1>5. CASE ReleaseFinalizer
  <2>1. pc' \in Labels /\ ret' \in Results
    BY <1>1, <1>5, GotoType DEF ReleaseFinalizer
  <2>2. cr' \in CRs
    BY <1>5 DEF ReleaseFinalizer, TypeOK, CRs
  <2>3. faults' \in 0..MaxFaults
    BY <1>5 DEF ReleaseFinalizer, Fault, NoFault, TypeOK
  <2> QED
    BY <1>5, <2>1, <2>2, <2>3 DEF ReleaseFinalizer, TypeOK, route53
<1> QED
  BY <1>2, <1>3, <1>4, <1>5

(* Updating, deleting, and the end of a reconciliation. *)
LEMMA WriteType ==
  ASSUME TypeOK,
         \/ UpdateZone \/ UpdateCall \/ UpdateChange
         \/ DeleteZone \/ DeleteCall \/ RemoveFinalizer \/ PatchStatus
  PROVE  TypeOK'
<1>1. /\ des.status \in Statuses /\ des.spec \in Values \cup {Absent}
      /\ obs.status \in Statuses /\ obs.key \in Keys
      /\ {"none", "plain", "aliasTarget", "OtherAPIError"} \subseteq Errors
      /\ "patch" \in Labels
  BY DEF TypeOK, Desired, Observed, Errors, Sentinels, APIErrors, BatchErrors, Labels
<1>2. CASE UpdateZone
  <2>1. pc' \in Labels /\ ret' \in Results
    <3>1. CASE Goto("update.call")
      BY <3>1, GotoType DEF Labels
    <3>2. CASE UpdateFailed(zoneAnswer) \/ UpdateFailed("OtherAPIError")
      BY <1>1, <3>2, AnswerType, ReturnType DEF UpdateFailed
    <3> QED
      BY <1>2, <3>1, <3>2 DEF UpdateZone
  <2>2. faults' \in 0..MaxFaults
    BY <1>2 DEF UpdateZone, Fault, NoFault, TypeOK
  <2> QED
    BY <1>2, <2>1, <2>2 DEF UpdateZone, TypeOK, route53
<1>3. CASE UpdateCall
  <2>0. faults' \in 0..MaxFaults
    BY <1>3 DEF UpdateCall, Fault, NoFault, TypeOK
  <2>1. CASE \E id \in ChangeIds \ IdsInUse :
               Apply(id, des.spec) /\ des' = [des EXCEPT !.status = StatusOfResponse(id)]
    <3>1. PICK id \in ChangeIds :
            Apply(id, des.spec) /\ des' = [des EXCEPT !.status = StatusOfResponse(id)]
      BY <2>1
    <3>2. des' \in Desired /\ des'.status \in Statuses
      BY <3>1 DEF TypeOK, Desired, StatusOfResponse, StatusOf, Statuses
    <3>3. pc' \in Labels /\ ret' \in Results
      <4>1. CASE Goto("update.change")
        BY <4>1, GotoType DEF Labels
      <4>2. CASE Return(des'.status, "none")
        BY <1>1, <3>2, <4>2, ReturnType
      <4>3. CASE \E err \in Errors : UpsertFailed(err)
        BY <4>3, UpsertFailedType
      <4> QED
        BY <1>1, <1>3, <4>1, <4>2, <4>3, AnswerType DEF UpdateCall
    <3> QED
      BY <1>1, <1>3, <2>0, <3>1, <3>2, <3>3, ApplyType DEF UpdateCall, TypeOK
  <2>2. CASE UNCHANGED des /\ \E err \in Errors : UpsertFailed(err)
    <3>1. pc' \in Labels /\ ret' \in Results
      BY <2>2, UpsertFailedType
    <3>2. CASE UNCHANGED route53
      BY <1>3, <2>0, <2>2, <3>1, <3>2 DEF UpdateCall, TypeOK, route53
    <3>3. CASE \E id \in ChangeIds : Apply(id, des.spec)
      BY <1>1, <1>3, <2>0, <2>2, <3>1, <3>3, ApplyType DEF UpdateCall, TypeOK
    <3> QED
      BY <1>3, <2>2, <3>2, <3>3 DEF UpdateCall
  <2> QED
    BY <1>1, <1>3, <2>1, <2>2, AnswerType DEF UpdateCall
<1>4. CASE UpdateChange
  <2>1. syncStatus(des.status) \in Statuses
    BY <1>1 DEF syncStatus, Statuses
  <2>2. pc' \in Labels /\ ret' \in Results
    BY <1>1, <1>4, <2>1, ReturnType DEF UpdateChange, UpdateFailed
  <2>3. faults' \in 0..MaxFaults
    BY <1>4 DEF UpdateChange, Fault, NoFault, TypeOK
  <2> QED
    BY <1>4, <2>2, <2>3 DEF UpdateChange, TypeOK, route53
<1>5. CASE DeleteZone
  <2>1. pc' \in Labels /\ ret' \in Results
    <3>1. CASE Goto("delete.call")
      BY <3>1, GotoType DEF Labels
    <3>2. CASE DeleteFailed(zoneAnswer) \/ DeleteFailed("OtherAPIError")
      BY <1>1, <3>2, AnswerType, ReturnType DEF DeleteFailed
    <3> QED
      BY <1>5, <3>1, <3>2 DEF DeleteZone
  <2>2. faults' \in 0..MaxFaults
    BY <1>5 DEF DeleteZone, Fault, NoFault, TypeOK
  <2> QED
    BY <1>5, <2>1, <2>2 DEF DeleteZone, TypeOK, route53
<1>6. CASE DeleteCall
  <2>1. pc' \in Labels /\ ret' \in Results
    <3>1. CASE Goto("delete.finalizer")
      BY <3>1, GotoType DEF Labels
    <3>2. CASE \E err \in Errors : DeleteFailed(err)
      BY <1>1, <3>2, ReturnType DEF DeleteFailed
    <3> QED
      BY <1>1, <1>6, <3>1, <3>2, AnswerType DEF DeleteCall
  <2>2. faults' \in 0..MaxFaults
    BY <1>6 DEF DeleteCall, Fault, NoFault, TypeOK
  <2>3. CASE UNCHANGED route53
    BY <1>6, <2>1, <2>2, <2>3 DEF DeleteCall, TypeOK, route53
  <2>4. CASE Remove(obs.key)
    BY <1>1, <1>6, <2>1, <2>2, <2>4, RemoveType DEF DeleteCall, TypeOK
  <2> QED
    BY <1>6, <2>3, <2>4 DEF DeleteCall
<1>7. CASE RemoveFinalizer
  <2>1. /\ pc' \in Labels /\ ret' \in Results /\ mode' \in {"sync", "post", "delete"}
        /\ des' \in Desired /\ obs' \in Observed
    <3>1. CASE Idle
      BY <3>1, IdleType
    <3>2. CASE Return(des.status, "plain") /\ UNCHANGED <<mode, des, obs>>
      BY <1>1, <3>2, ReturnType DEF TypeOK
    <3> QED
      BY <1>7, <3>1, <3>2 DEF RemoveFinalizer
  <2>2. cr' \in CRs
    BY <1>7 DEF RemoveFinalizer, TypeOK, CRs
  <2>3. faults' \in 0..MaxFaults
    BY <1>7 DEF RemoveFinalizer, Fault, NoFault, TypeOK
  <2> QED
    BY <1>7, <2>1, <2>2, <2>3 DEF RemoveFinalizer, TypeOK, route53
<1>8. CASE PatchStatus
  <2>1. cr' \in CRs
    BY <1>8 DEF PatchStatus, TypeOK, CRs, Results
  <2>2. faults' \in 0..MaxFaults
    BY <1>8 DEF PatchStatus, Fault, NoFault, TypeOK
  <2>3. queued' \in BOOLEAN
    BY <1>8 DEF PatchStatus, TypeOK
  <2> QED
    BY <1>8, <2>1, <2>2, <2>3, IdleType DEF PatchStatus, TypeOK, route53
<1> QED
  BY <1>2, <1>3, <1>4, <1>5, <1>6, <1>7, <1>8

LEMMA TypeStep == TypeOK /\ [Next]_vars => TypeOK'
<1> SUFFICES ASSUME TypeOK, [Next]_vars PROVE TypeOK'
  OBVIOUS
<1>1. CASE UNCHANGED vars
  BY <1>1 DEF vars, TypeOK
<1>2. CASE Worker
  BY <1>2, ReadType, AdoptType, CreateType, WriteType DEF Worker
<1>3. CASE User \/ OtherWriter \/ Crash \/ \E id \in ChangeIds : Propagate(id)
  BY <1>3, EnvironmentType
<1> QED
  BY <1>1, <1>2, <1>3 DEF Next

LEMMA TypeInit == Init => TypeOK
<1> SUFFICES ASSUME Init PROVE TypeOK
  OBVIOUS
<1>1. Nil \in Statuses /\ "none" \in Conditions
  BY DEF Nil, StatusOf, Statuses, Conditions
<1>2. cr \in CRs
  BY <1>1 DEF Init, CRs
<1>3. des \in Desired /\ obs \in Observed /\ ret \in Results
  BY <1>1, NothingType DEF Init, Desired, Results
<1>4. recs \in [Keys -> Values \cup {Absent}]
  BY DEF Init, Exclusive
<1>5. zoneUp \in BOOLEAN /\ mine \in BOOLEAN /\ queued \in BOOLEAN
  BY DEF Init
<1>6. faults \in 0..MaxFaults /\ edits \in 0..MaxEdits
  BY DEF Init
<1>7. pending \subseteq ChangeIds /\ lastChange \in ChangeIds \cup {NoId}
  BY DEF Init
<1>8. pc \in Labels /\ mode \in {"sync", "post", "delete"}
  BY DEF Init, Labels
<1> QED
  BY <1>2, <1>3, <1>4, <1>5, <1>6, <1>7, <1>8 DEF TypeOK

(* Every variable stays in its type, whatever the constants. *)
THEOREM TypeCorrect == Spec => []TypeOK
  BY TypeInit, TypeStep, PTL DEF Spec

-----------------------------------------------------------------------------
(* The finalizer *)

(* Where the reading half can go. *)
LEMMA FindNotFoundManaged ==
  ASSUME TypeOK, FindNotFound
  PROVE  \/ pc' = "create.finalizer" \/ pc' = "patch"
         \/ pc' = "delete.finalizer" /\ mode = "delete"
  BY DEF TypeOK, FindNotFound, Goto, Return

LEMMA CreateFailedManaged ==
  ASSUME NEW err, CreateFailed(err)
  PROVE  pc' \in {"patch", "create.release"}
  BY DEF CreateFailed, Return

LEMMA ManagedInit == Init => ManagedInv
  BY DEF Init, ManagedInv, Creating, Updating, Deleting, Reading

LEMMA ManagedEnvironment ==
  ASSUME TypeOK, ManagedInv,
         User \/ OtherWriter \/ Crash \/ \E id \in ChangeIds : Propagate(id)
  PROVE  ManagedInv'
<1>1. CASE User
  <2>1. /\ UNCHANGED worker
        /\ cr'.phase # "gone" => cr'.spec \in Values
        /\ cr'.phase = "deleting" => cr'.fin
    BY <1>1 DEF User, TypeOK, CRs, ManagedInv
  <2>2. /\ cr.fin /\ cr.phase # "gone" => cr'.fin /\ cr'.phase # "gone"
        /\ cr.phase = "deleting" => cr'.phase = "deleting"
    BY <1>1 DEF User, TypeOK, CRs
  <2> QED
    BY <2>1, <2>2 DEF worker, ManagedInv
<1>2. CASE OtherWriter \/ \E id \in ChangeIds : Propagate(id)
  BY <1>2 DEF OtherWriter, Propagate, worker, ManagedInv
<1>3. CASE Crash
  BY <1>3 DEF Crash, Idle, ManagedInv, Creating, Updating, Deleting, Reading
<1> QED
  BY <1>1, <1>2, <1>3

LEMMA ManagedRead ==
  ASSUME TypeOK, ManagedInv,
         Reconcile \/ FindZone \/ FindList \/ FindChange \/ Decide
  PROVE  ManagedInv'
<1> USE DEF ManagedInv, Creating, Updating, Deleting, Reading
<1>1. CASE Reconcile
  BY <1>1 DEF Reconcile, Goto, TypeOK, CRs
<1>2. CASE FindZone
  <2>1. pc' \in {"find.list", "patch", "create.finalizer", "delete.finalizer"}
        /\ (pc' = "delete.finalizer" => mode = "delete")
    BY <1>2, FindNotFoundManaged DEF FindZone, Goto, Return
  <2> QED
    BY <1>2, <2>1 DEF FindZone
<1>3. CASE FindList
  <2>1. pc' \in {"find.change", "decide", "patch", "create.finalizer", "delete.finalizer"}
        /\ (pc' = "delete.finalizer" => mode = "delete")
    BY <1>3, FindNotFoundManaged DEF FindList, Goto, Return
  <2> QED
    BY <1>3, <2>1 DEF FindList
<1>4. CASE FindChange
  BY <1>4 DEF FindChange, Goto, Return
<1>5. CASE Decide
  BY <1>5 DEF Decide, IsManaged, Goto, Return, TypeOK
<1> QED
  BY <1>1, <1>2, <1>3, <1>4, <1>5

LEMMA ManagedWrite ==
  ASSUME TypeOK, ManagedInv,
         \/ Adopt \/ AddFinalizer \/ CreateZone \/ CreateCall \/ ReleaseFinalizer
         \/ UpdateZone \/ UpdateCall \/ UpdateChange
         \/ DeleteZone \/ DeleteCall \/ RemoveFinalizer \/ PatchStatus
  PROVE  ManagedInv'
<1> USE DEF ManagedInv, Creating, Updating, Deleting, Reading
<1>1. CASE AddFinalizer
  BY <1>1 DEF AddFinalizer, IsManaged, Goto, Return, TypeOK, CRs, Desired
<1>2. CASE CreateZone
  BY <1>2, CreateFailedManaged DEF CreateZone, Goto
<1>3. CASE CreateCall
  <2>1. /\ pc' \in {"find.zone", "patch", "create.release"}
        /\ pc' = "find.zone" => mode' = "post"
        /\ des'.fin = des.fin /\ des'.spec = des.spec /\ UNCHANGED cr
    BY <1>3, CreateFailedManaged DEF CreateCall, Goto, TypeOK, Desired
  <2> QED
    BY <1>3, <2>1 DEF CreateCall
<1>4. CASE ReleaseFinalizer
  BY <1>4 DEF ReleaseFinalizer, Goto, TypeOK, CRs
<1>5. CASE UpdateZone \/ UpdateChange
  BY <1>5 DEF UpdateZone, UpdateChange, UpdateFailed, Goto, Return
<1>6. CASE UpdateCall
  <2>1. /\ pc' \in {"update.change", "patch"}
        /\ des'.fin = des.fin /\ des'.spec = des.spec /\ UNCHANGED cr
    BY <1>6 DEF UpdateCall, UpsertFailed, Goto, Return, TypeOK, Desired
  <2> QED
    BY <1>6, <2>1 DEF UpdateCall
<1>7. CASE DeleteZone \/ DeleteCall
  BY <1>7 DEF DeleteZone, DeleteCall, DeleteFailed, Goto, Return
<1>8. CASE RemoveFinalizer
  <2>1. CASE Idle
    <3>1. /\ cr'.spec = cr.spec /\ cr'.phase # "deleting"
          /\ cr'.phase # "gone" => cr.phase # "gone"
      BY <1>8, <2>1 DEF RemoveFinalizer, Idle, Return, TypeOK, CRs
    <3>2. pc' = "idle" /\ mode' = "sync" /\ des'.fin = FALSE
      BY <2>1 DEF Idle
    <3> QED
      BY <3>1, <3>2
  <2>2. CASE Return(des.status, "plain") /\ UNCHANGED <<cr, mode, des, obs>>
    BY <1>8, <2>2 DEF RemoveFinalizer, Return
  <2> QED
    BY <1>8, <2>1, <2>2 DEF RemoveFinalizer
<1>9. CASE PatchStatus
  BY <1>9 DEF PatchStatus, Idle, TypeOK, CRs
<1>10. CASE Adopt
  BY <1>10 DEF Adopt, Goto, Return, TypeOK, CRs, Desired
<1> QED
  BY <1>1, <1>2, <1>3, <1>4, <1>5, <1>6, <1>7, <1>8, <1>9, <1>10

LEMMA ManagedStep == TypeOK /\ ManagedInv /\ [Next]_vars => ManagedInv'
<1> SUFFICES ASSUME TypeOK, ManagedInv, [Next]_vars PROVE ManagedInv'
  OBVIOUS
<1>1. CASE UNCHANGED vars
  BY <1>1 DEF vars, ManagedInv
<1>2. CASE Worker
  BY <1>2, ManagedRead, ManagedWrite DEF Worker
<1>3. CASE User \/ OtherWriter \/ Crash \/ \E id \in ChangeIds : Propagate(id)
  BY <1>3, ManagedEnvironment
<1> QED
  BY <1>1, <1>2, <1>3 DEF Next

-----------------------------------------------------------------------------
(* The zone *)

(* The steps that leave the record sets of the zone alone. *)
Reads == \/ Reconcile \/ FindZone \/ FindList \/ FindChange \/ Decide
         \/ AddFinalizer \/ CreateZone \/ ReleaseFinalizer
         \/ UpdateZone \/ UpdateChange \/ DeleteZone \/ RemoveFinalizer
         \/ PatchStatus

LEMMA ReadsKeepZone ==
  ASSUME Reads \/ User \/ Crash \/ \E id \in ChangeIds : Propagate(id)
  PROVE  UNCHANGED <<zoneUp, recs, mine>>
<1>1. CASE User \/ Crash
  BY <1>1 DEF User, Crash, route53
<1>2. CASE \E id \in ChangeIds : Propagate(id)
  BY <1>2 DEF Propagate
<1>3. CASE Reads
  BY <1>3 DEF Reads, Reconcile, FindZone, FindList, FindChange, Decide, IsManaged, AddFinalizer,
     CreateZone, ReleaseFinalizer, UpdateZone, UpdateChange, DeleteZone,
     RemoveFinalizer, PatchStatus, route53
<1> QED
  BY <1>1, <1>2, <1>3

(* Where the two writing calls apply a batch, Route 53 accepted it. *)
LEMMA WhenApplied ==
  ASSUME TypeOK, ManagedInv, CreateCall \/ UpdateCall,
         ~UNCHANGED <<zoneUp, recs, mine>>
  PROVE  /\ zoneUp /\ Compatible(Own) /\ des.spec \in Values
         /\ \E id \in ChangeIds : Apply(id, des.spec)
<1>1. pc # "idle" /\ des.spec \in Values
  BY DEF CreateCall, UpdateCall, ManagedInv
<1>2. CASE CreateCall
  BY <1>1, <1>2 DEF CreateCall, CreateAnswer, route53
<1>3. CASE UpdateCall
  BY <1>1, <1>3 DEF UpdateCall, UpsertAnswer, route53
<1> QED
  BY <1>2, <1>3

(* Compatible says what it means for the record set that is about to be    *)
(* written: a simple one only where it stays alone.                        *)
LEMMA WriteKeepsZone ==
  ASSUME TypeOK, ZoneInv, zoneUp, NEW k \in Keys, NEW v \in Values, Compatible(k),
         recs' = [recs EXCEPT ![k] = v], UNCHANGED zoneUp,
         mine' => mine \/ k = Own
  PROVE  ZoneInv'
<1> USE DEF Exclusive
<1>1. \A j \in Keys : recs'[j] = IF j = k THEN v ELSE recs[j]
  BY DEF TypeOK
<1>2. ASSUME NEW i \in Keys, NEW j \in Keys, i # j, recs'[i] # Absent, recs'[j] # Absent
      PROVE  i # 0 /\ j # 0
  <2>1. CASE i = k
    BY <1>1, <1>2, <2>1 DEF Compatible
  <2>2. CASE j = k
    BY <1>1, <1>2, <2>2 DEF Compatible
  <2>3. CASE i # k /\ j # k
    BY <1>1, <1>2, <2>3 DEF ZoneInv
  <2> QED
    BY <2>1, <2>2, <2>3
<1>3. mine' => recs'[Own] # Absent
  BY <1>1 DEF ZoneInv
<1> QED
  BY <1>2, <1>3 DEF ZoneInv

LEMMA ClearKeepsZone ==
  ASSUME TypeOK, ZoneInv, NEW k \in Keys,
         recs' = [recs EXCEPT ![k] = Absent], UNCHANGED zoneUp,
         mine' = IF k = Own THEN FALSE ELSE mine
  PROVE  ZoneInv'
<1> USE DEF Exclusive
<1>1. \A j \in Keys : recs'[j] = IF j = k THEN Absent ELSE recs[j]
  BY DEF TypeOK
<1> QED
  BY <1>1 DEF ZoneInv

LEMMA ZoneStep == TypeOK /\ ManagedInv /\ ZoneInv /\ [Next]_vars => ZoneInv'
<1> SUFFICES ASSUME TypeOK, ManagedInv, ZoneInv, [Next]_vars PROVE ZoneInv'
  OBVIOUS
<1>1. CASE UNCHANGED <<zoneUp, recs, mine>>
  BY <1>1 DEF ZoneInv, Exclusive
<1>2. CASE (CreateCall \/ UpdateCall) /\ ~UNCHANGED <<zoneUp, recs, mine>>
  <2>1. PICK id \in ChangeIds : Apply(id, des.spec)
    BY <1>2, WhenApplied
  <2>2. zoneUp /\ Compatible(Own) /\ des.spec \in Values
    BY <1>2, WhenApplied
  <2> QED
    BY <2>1, <2>2, WriteKeepsZone DEF Apply
<1>3. CASE DeleteCall /\ ~UNCHANGED <<zoneUp, recs, mine>>
  <2>1. Remove(obs.key) /\ obs.key \in Keys
    BY <1>3 DEF DeleteCall, route53, TypeOK, Observed
  <2> QED
    BY <2>1, ClearKeepsZone DEF Remove
<1>4. CASE OtherWriter
  <2>1. CASE \E k \in ExtKeys, v \in Values \ Bad :
               /\ Compatible(k) /\ recs[k] # v
               /\ recs' = [recs EXCEPT ![k] = v]
               /\ lastChange' = IF k = Own THEN NoId ELSE lastChange
               /\ UNCHANGED <<mine, zoneUp>>
    <3>1. PICK k \in Keys, v \in Values :
            /\ Compatible(k) /\ recs' = [recs EXCEPT ![k] = v]
            /\ UNCHANGED <<mine, zoneUp>>
      BY <2>1
    <3>2. zoneUp /\ UNCHANGED zoneUp /\ (mine' => mine \/ k = Own)
      BY <1>4, <3>1 DEF OtherWriter
    <3> QED
      BY <3>1, <3>2, WriteKeepsZone
  <2>2. CASE \E k \in ExtKeys :
               /\ recs[k] # Absent
               /\ recs' = [recs EXCEPT ![k] = Absent]
               /\ mine' = IF k = Own THEN FALSE ELSE mine
               /\ lastChange' = IF k = Own THEN NoId ELSE lastChange
               /\ UNCHANGED zoneUp
    BY <2>2, ClearKeepsZone
  <2>3. CASE /\ \A k \in Keys : recs[k] = Absent
             /\ zoneUp' = FALSE
             /\ UNCHANGED <<recs, mine, lastChange>>
    BY <2>3 DEF ZoneInv, Exclusive
  <2> QED
    BY <1>4, <2>1, <2>2, <2>3 DEF OtherWriter
<1>5. CASE UNCHANGED vars
  BY <1>1, <1>5 DEF vars
<1>6. CASE Reads \/ User \/ Crash \/ \E id \in ChangeIds : Propagate(id)
  BY <1>1, <1>6, ReadsKeepZone
<1>7. CASE Adopt
  <2>1. mine' => recs[Own] # Absent
    <3>1. CASE mine' = (recs[Own] # Absent)
      BY <3>1, Zenon
    <3>2. CASE UNCHANGED mine
      BY <3>2, Zenon DEF ZoneInv
    <3> QED
      BY <1>7, <3>1, <3>2, Zenon DEF Adopt
  <2>2. UNCHANGED <<zoneUp, recs>>
    BY <1>7 DEF Adopt
  <2> QED
    BY <2>1, <2>2 DEF ZoneInv, Exclusive
<1> QED
  BY <1>1, <1>2, <1>3, <1>4, <1>5, <1>6, <1>7 DEF Next, Worker, Reads

-----------------------------------------------------------------------------
(* What the worker knows *)

LEMMA KnowledgeInit == Init => ZoneInv /\ KnowledgeInv
<1> SUFFICES ASSUME Init PROVE ZoneInv /\ KnowledgeInv
  OBVIOUS
<1> QED
  BY DEF Init, ZoneInv, KnowledgeInv, Creating

(* ReadOne says NotFound only where nothing of ours is left. *)
LEMMA NotFoundMeansGone ==
  ASSUME TypeOK, ZoneInv, ~zoneUp \/ Found = {}
  PROVE  ~mine
<1>1. CASE ~zoneUp
  BY <1>1 DEF ZoneInv
<1>2. CASE Found = {}
  <2>1. Own \in Keys /\ Own >= Own /\ matches(Own)
    BY DEF matches
  <2> QED
    BY <1>2, <2>1 DEF Found, ZoneInv
<1> QED
  BY <1>1, <1>2

(* A refusal or a lost answer of a call that may be retried is no ground   *)
(* to release the finalizer.                                               *)
LEMMA LostKeepsFinalizer ==
  ASSUME NEW err \in {"plain", "aliasTarget"}, CreateFailed(err)
  PROVE  pc' = "patch"
  BY DEF CreateFailed, Return, demoteTransientChangeBatchError, IsAPIError, APIErrors,
         BatchErrors

LEMMA KnowledgeEnvironment ==
  ASSUME TypeOK, ZoneInv, KnowledgeInv,
         User \/ OtherWriter \/ Crash \/ \E id \in ChangeIds : Propagate(id)
  PROVE  KnowledgeInv'
<1> USE DEF KnowledgeInv, Creating, matches
<1>1. CASE User \/ \E id \in ChangeIds : Propagate(id)
  BY <1>1 DEF User, Propagate, route53, worker
<1>2. CASE OtherWriter
  <2>1. mine' => mine
    BY <1>2 DEF OtherWriter
  <2> QED
    BY <1>2, <2>1, OnlyFreshness DEF OtherWriter
<1>3. CASE Crash
  BY <1>3 DEF Crash, Idle
<1> QED
  BY <1>1, <1>2, <1>3

LEMMA KnowledgeRead ==
  ASSUME TypeOK, ZoneInv, KnowledgeInv,
         Reconcile \/ FindZone \/ FindList \/ FindChange \/ Decide
  PROVE  KnowledgeInv'
<1> USE DEF KnowledgeInv, Creating
<1>0. UNCHANGED <<zoneUp, recs, mine>>
  BY ReadsKeepZone DEF Reads
<1>1. CASE Reconcile
  BY <1>0, <1>1 DEF Reconcile, Goto
<1>2. CASE FindZone
  <2>1. pc' \in {"find.list", "patch"} \/ (FindNotFound /\ ~zoneUp)
    BY <1>2 DEF FindZone, Goto, Return, zoneAnswer
  <2>2. CASE pc' \in {"find.list", "patch"}
    BY <1>0, <2>2
  <2>3. CASE FindNotFound /\ ~zoneUp
    <3>1. ~mine' /\ pc' \in {"create.finalizer", "patch", "delete.finalizer"}
      BY <1>0, <2>3, NotFoundMeansGone, FindNotFoundManaged
    <3> QED
      BY <3>1
  <2> QED
    BY <2>1, <2>2, <2>3
<1>3. CASE FindList
  <2>1. CASE (~zoneUp \/ Found = {}) /\ FindNotFound
    <3>1. ~mine' /\ pc' \in {"create.finalizer", "patch", "delete.finalizer"}
      BY <1>0, <2>1, NotFoundMeansGone, FindNotFoundManaged
    <3> QED
      BY <3>1
  <2>2. CASE pc' \in {"find.change", "decide"} /\ \E k \in Found :
               obs' = [obs EXCEPT !.key = k, !.val = recs[k], !.status = des.status]
    <3>1. PICK k \in Found : obs'.key = k /\ obs'.val = recs[k]
      BY <2>2 DEF TypeOK, Observed
    <3> QED
      BY <2>2, <3>1 DEF Found, matches
  <2>3. CASE pc' = "patch"
    BY <2>3
  <2> QED
    BY <1>3, <2>1, <2>2, <2>3 DEF FindList, Goto, Return
<1>4. CASE FindChange
  <2>1. pc' \in {"decide", "patch"} /\ obs'.key = obs.key /\ obs'.val = obs.val
    BY <1>4 DEF FindChange, Goto, Return, TypeOK, Observed
  <2> QED
    BY <1>4, <2>1 DEF FindChange, matches
<1>5. CASE Decide
  <2>1. pc' \in {"delete.zone", "update.zone", "adopt", "patch"}
    BY <1>5 DEF Decide, Goto, Return, TypeOK
  <2> QED
    BY <1>5, <2>1 DEF Decide, matches
<1> QED
  BY <1>1, <1>2, <1>3, <1>4, <1>5

LEMMA KnowledgeWrite ==
  ASSUME TypeOK, ZoneInv, KnowledgeInv,
         \/ Adopt \/ AddFinalizer \/ CreateZone \/ CreateCall \/ ReleaseFinalizer
         \/ UpdateZone \/ UpdateCall \/ UpdateChange
         \/ DeleteZone \/ DeleteCall \/ RemoveFinalizer \/ PatchStatus
  PROVE  KnowledgeInv'
<1> USE DEF KnowledgeInv, Creating
<1>1. CASE AddFinalizer
  BY <1>1 DEF AddFinalizer, Goto, Return, route53
<1>2. CASE CreateZone
  BY <1>2, CreateFailedManaged DEF CreateZone, Goto, route53
<1>3. CASE CreateCall
  <2>1. CASE pc' \in {"find.zone", "patch"}
    BY <2>1
  <2>2. CASE UNCHANGED route53 /\ pc' = "create.release"
    BY <1>3, <2>2 DEF CreateCall, route53
  <2> QED
    BY <1>3, <2>1, <2>2, CreateFailedManaged, LostKeepsFinalizer DEF CreateCall, Goto
<1>4. CASE ReleaseFinalizer
  BY <1>4 DEF ReleaseFinalizer, Goto
<1>5. CASE UpdateZone \/ UpdateCall \/ UpdateChange
  BY <1>5 DEF UpdateZone, UpdateCall, UpdateChange, UpdateFailed, UpsertFailed, Goto, Return
<1>6. CASE DeleteZone
  BY <1>6 DEF DeleteZone, DeleteFailed, Goto, Return, matches
<1>7. CASE DeleteCall
  <2>1. CASE pc' = "patch"
    BY <2>1
  <2>2. CASE DeleteAnswer(obs.key, obs.val) = "none" /\ Remove(obs.key) /\ pc' = "delete.finalizer"
    <3>1. recs[obs.key] # Absent /\ matches(obs.key) /\ obs.key \in Keys
      BY <1>7, <2>2 DEF DeleteCall, DeleteAnswer, TypeOK, Observed
    <3>2. ~mine'
      BY <2>2, <3>1 DEF Remove, ZoneInv, Exclusive, matches
    <3> QED
      BY <2>2, <3>2
  <2> QED
    BY <1>7, <2>1, <2>2 DEF DeleteCall, DeleteFailed, Goto, Return
<1>8. CASE RemoveFinalizer \/ PatchStatus
  BY <1>8 DEF RemoveFinalizer, PatchStatus, Idle, Return
<1>9. CASE Adopt
  BY <1>9 DEF Adopt, Goto, Return
<1> QED
  BY <1>1, <1>2, <1>3, <1>4, <1>5, <1>6, <1>7, <1>8, <1>9

LEMMA KnowledgeStep == TypeOK /\ ZoneInv /\ KnowledgeInv /\ [Next]_vars => KnowledgeInv'
<1> SUFFICES ASSUME TypeOK, ZoneInv, KnowledgeInv, [Next]_vars PROVE KnowledgeInv'
  OBVIOUS
<1>1. CASE UNCHANGED vars
  BY <1>1 DEF vars, KnowledgeInv, matches
<1>2. CASE Worker
  BY <1>2, KnowledgeRead, KnowledgeWrite DEF Worker
<1>3. CASE User \/ OtherWriter \/ Crash \/ \E id \in ChangeIds : Propagate(id)
  BY <1>3, KnowledgeEnvironment
<1> QED
  BY <1>1, <1>2, <1>3 DEF Next

-----------------------------------------------------------------------------
(* The statuses *)

(* A change ID that somebody holds is never reported pending again. *)
LEMMA PendingStep ==
  ASSUME [Next]_vars, NEW id \in IdsInUse, id \in pending'
  PROVE  id \in pending
<1>1. CASE UNCHANGED pending
  BY <1>1
<1>2. CASE \E i \in ChangeIds \ IdsInUse, v \in {des.spec} : Apply(i, v)
  BY <1>2 DEF Apply
<1>3. CASE \E i \in ChangeIds : Propagate(i)
  BY <1>3 DEF Propagate
<1>4. CASE Reconcile \/ FindZone \/ FindList \/ FindChange \/ Decide \/ AddFinalizer
  BY <1>1, <1>4 DEF Reconcile, FindZone, FindList, FindChange, Decide, AddFinalizer, route53
<1>5. CASE \/ CreateZone \/ ReleaseFinalizer \/ UpdateZone \/ UpdateChange
           \/ DeleteZone \/ RemoveFinalizer \/ PatchStatus
  BY <1>1, <1>5 DEF CreateZone, ReleaseFinalizer, UpdateZone, UpdateChange,
     DeleteZone, RemoveFinalizer, PatchStatus, route53
<1>6. CASE CreateCall \/ UpdateCall
  BY <1>1, <1>2, <1>6 DEF CreateCall, UpdateCall, route53
<1>7. CASE DeleteCall
  BY <1>1, <1>7 DEF DeleteCall, Remove, route53
<1>8. CASE Adopt \/ User \/ OtherWriter \/ Crash \/ UNCHANGED vars
  BY <1>1, <1>8 DEF Adopt, User, OtherWriter, Crash, vars, route53
<1> QED
  BY <1>3, <1>4, <1>5, <1>6, <1>7, <1>8 DEF Next, Worker

(* Where a status comes from: it was there before, it is empty, it is the  *)
(* answer that starts a batch, or it is what GetChange says now.           *)
Held == {cr.status, des.status, obs.status, ret.status}

Origin(status) == \/ status \in Held \/ status = Nil \/ status.st # "INSYNC"
                  \/ UNCHANGED pending /\ status.id \notin pending

LEMMA ReturnOrigin ==
  ASSUME NEW status, NEW err, Return(status, err)
  PROVE  ret'.status = status
  BY DEF Return

LEMMA CreateFailedOrigin ==
  ASSUME NEW err, CreateFailed(err)
  PROVE  ret'.status = des.status
  BY DEF CreateFailed, Return

LEMMA IdleOrigin ==
  ASSUME Idle
  PROVE  des'.status = Nil /\ obs'.status = Nil /\ ret'.status = Nil
  BY NothingType DEF Idle

LEMMA SyncOrigin ==
  ASSUME NEW status \in Statuses, UNCHANGED pending
  PROVE  Origin(syncStatus(status))
  BY DEF syncStatus, Origin, Statuses

LEMMA StatusOrigin ==
  ASSUME TypeOK, [Next]_vars
  PROVE  Origin(cr'.status) /\ Origin(des'.status) /\ Origin(obs'.status) /\ Origin(ret'.status)
<1>0. des.status \in Statuses /\ obs.status \in Statuses
  BY DEF TypeOK, Desired, Observed
<1> USE DEF Held
<1>1. CASE UNCHANGED vars
  BY <1>1 DEF vars, Origin
<1>2. CASE User
  <2>1. cr'.status \in {cr.status, Nil}
    BY <1>2 DEF User, TypeOK, CRs
  <2> QED
    BY <1>2, <2>1 DEF User, worker, Origin
<1>3. CASE OtherWriter \/ \E id \in ChangeIds : Propagate(id)
  BY <1>3, OnlyFreshness DEF OtherWriter, Propagate, worker, Origin
<1>4. CASE Crash
  BY <1>4, IdleOrigin DEF Crash, Origin
<1>5. CASE Reconcile
  BY <1>5, OnlyFreshness DEF Reconcile, Goto, Origin
<1>6. CASE FindZone
  <2>1. ret'.status \in {ret.status, des.status}
    BY <1>6, ReturnOrigin DEF FindZone, FindNotFound, Goto, TypeOK
  <2> QED
    BY <1>6, <2>1 DEF FindZone, Origin
<1>7. CASE FindList
  <2>1. ret'.status \in {ret.status, des.status}
    BY <1>7, ReturnOrigin DEF FindList, FindNotFound, Goto, TypeOK
  <2>2. obs'.status \in {obs.status, des.status}
    BY <1>7 DEF FindList, TypeOK, Observed
  <2> QED
    BY <1>7, <2>1, <2>2 DEF FindList, Origin
<1>8. CASE FindChange
  <2>1. ret'.status \in {ret.status, des.status}
    BY <1>8, ReturnOrigin DEF FindChange, Goto
  <2>2. UNCHANGED pending /\ obs'.status \in {obs.status, syncStatus(obs.status)}
    BY <1>8 DEF FindChange, TypeOK, Observed, route53
  <2>3. Origin(syncStatus(obs.status))
    BY <1>0, <2>2, SyncOrigin
  <2> QED
    BY <1>8, <2>1, <2>2, <2>3 DEF FindChange, Origin
<1>9. CASE Decide
  <2>1. ret'.status \in {ret.status, obs.status}
    BY <1>9, ReturnOrigin DEF Decide, Goto, TypeOK
  <2> QED
    BY <1>9, <2>1 DEF Decide, Origin
<1>10. CASE AddFinalizer
  <2>1. ret'.status \in {ret.status, des.status}
    BY <1>10, ReturnOrigin DEF AddFinalizer, Goto
  <2>2. cr'.status = cr.status /\ des'.status = des.status
    BY <1>10 DEF AddFinalizer, TypeOK, CRs, Desired
  <2> QED
    BY <1>10, <2>1, <2>2 DEF AddFinalizer, Origin
<1>11. CASE CreateZone
  BY <1>11, CreateFailedOrigin DEF CreateZone, Goto, Origin
<1>12. CASE CreateCall
  <2>1. ret'.status \in {ret.status, des.status}
    BY <1>12, CreateFailedOrigin DEF CreateCall, Goto
  <2>2. des'.status = des.status \/ des'.status.st = "PENDING"
    BY <1>12 DEF CreateCall, StatusOf, TypeOK, Desired
  <2> QED
    BY <1>12, <2>1, <2>2 DEF CreateCall, Origin
<1>13. CASE ReleaseFinalizer
  <2>1. cr'.status = cr.status
    BY <1>13 DEF ReleaseFinalizer, TypeOK, CRs
  <2> QED
    BY <1>13, <2>1 DEF ReleaseFinalizer, Goto, Origin
<1>14. CASE UpdateZone
  BY <1>14 DEF UpdateZone, UpdateFailed, Return, Goto, Origin
<1>15. CASE UpdateCall
  <2>1. des'.status = des.status \/ des'.status.st = "PENDING"
    BY <1>15 DEF UpdateCall, StatusOfResponse, StatusOf, TypeOK, Desired
  <2>2. ret'.status \in {ret.status, des'.status, Nil}
    BY <1>15, ReturnOrigin DEF UpdateCall, UpsertFailed, Goto
  <2> QED
    BY <1>15, <2>1, <2>2 DEF UpdateCall, Origin
<1>16. CASE UpdateChange
  <2>1. UNCHANGED pending /\ ret'.status \in {obs.status, syncStatus(des.status)}
    BY <1>16, ReturnOrigin DEF UpdateChange, UpdateFailed, route53
  <2>2. Origin(syncStatus(des.status))
    BY <1>0, <2>1, SyncOrigin
  <2> QED
    BY <1>16, <2>1, <2>2 DEF UpdateChange, Origin
<1>17. CASE DeleteZone \/ DeleteCall
  BY <1>17 DEF DeleteZone, DeleteCall, DeleteFailed, Return, Goto, Origin
<1>18. CASE RemoveFinalizer
  <2>1. cr'.status = cr.status
    BY <1>18 DEF RemoveFinalizer, TypeOK, CRs
  <2> QED
    BY <1>18, <2>1, IdleOrigin, ReturnOrigin DEF RemoveFinalizer, Origin
<1>19. CASE PatchStatus
  <2>1. cr'.status \in {cr.status, ret.status}
    BY <1>19 DEF PatchStatus, TypeOK, CRs
  <2> QED
    BY <1>19, <2>1, IdleOrigin DEF PatchStatus, Origin
<1>20. CASE Adopt
  <2>1. ret'.status \in {ret.status, obs.status}
    BY <1>20, ReturnOrigin DEF Adopt, Goto
  <2>2. cr'.status = cr.status /\ des'.status = des.status
    BY <1>20 DEF Adopt, TypeOK, CRs, Desired
  <2> QED
    BY <1>20, <2>1, <2>2 DEF Adopt, Origin
<1> QED
  BY <1>1, <1>2, <1>3, <1>4, <1>5, <1>6, <1>7, <1>8, <1>9, <1>10, <1>11, <1>12,
     <1>13, <1>14, <1>15, <1>16, <1>17, <1>18, <1>19, <1>20 DEF Next, Worker

LEMMA StatusStep == TypeOK /\ StatusInv /\ [Next]_vars => StatusInv'
<1> SUFFICES ASSUME TypeOK, StatusInv, [Next]_vars PROVE StatusInv'
  OBVIOUS
<1>1. ASSUME NEW status, Origin(status), status.st = "INSYNC"
      PROVE  status.id \notin pending'
  <2>1. CASE status \in Held
    <3>1. status.id \notin pending /\ status.id \in IdsInUse
      BY <1>1, <2>1 DEF Held, IdsInUse, StatusInv, Settled
    <3> QED
      BY <3>1, PendingStep
  <2>2. CASE status = Nil
    BY <1>1, <2>2 DEF Nil, StatusOf
  <2>3. CASE UNCHANGED pending /\ status.id \notin pending
    BY <2>3
  <2> QED
    BY <1>1, <2>1, <2>2, <2>3 DEF Origin
<1> QED
  BY <1>1, StatusOrigin DEF StatusInv, Settled

(* What is about to be persisted: what was, nothing, the result of a       *)
(* Return, or the result of a failed Create.                               *)
LEMMA RetOrigin ==
  ASSUME TypeOK, [Next]_vars
  PROVE  \/ UNCHANGED ret \/ Idle
         \/ \E status, err : Return(status, err)
         \/ \E err : CreateFailed(err)
<1> USE DEF Goto
<1>1. CASE User \/ OtherWriter \/ (\E id \in ChangeIds : Propagate(id)) \/ UNCHANGED vars
  BY <1>1 DEF User, OtherWriter, Propagate, worker, vars
<1>2. CASE Crash \/ PatchStatus \/ RemoveFinalizer
  BY <1>2 DEF Crash, PatchStatus, RemoveFinalizer
<1>3. CASE FindZone \/ FindList
  BY <1>3 DEF FindZone, FindList, FindNotFound, TypeOK
<1>4. CASE Reconcile \/ FindChange \/ Decide \/ Adopt
  BY <1>4 DEF Reconcile, FindChange, Decide, Adopt, TypeOK
<1>5. CASE AddFinalizer \/ CreateZone \/ CreateCall \/ ReleaseFinalizer
  BY <1>5 DEF AddFinalizer, CreateZone, CreateCall, ReleaseFinalizer
<1>6. CASE UpdateZone \/ UpdateCall \/ UpdateChange
  BY <1>6 DEF UpdateZone, UpdateCall, UpdateChange, UpdateFailed, UpsertFailed
<1>7. CASE DeleteZone \/ DeleteCall
  BY <1>7 DEF DeleteZone, DeleteCall, DeleteFailed
<1> QED
  BY <1>1, <1>2, <1>3, <1>4, <1>5, <1>6, <1>7 DEF Next, Worker

(* onError never says Synced, onSuccess only of a settled change. *)
LEMMA HonestRet ==
  ASSUME TypeOK, [Next]_vars, Honest(ret)
  PROVE  Honest(ret')
<1>1. CASE UNCHANGED ret
  BY <1>1 DEF Honest
<1>2. CASE Idle
  BY <1>2 DEF Idle, Honest
<1>3. CASE \E status, err : Return(status, err)
  BY <1>3 DEF Return, SyncedUnless, ConditionOf, Honest
<1>4. CASE \E err : CreateFailed(err)
  <2>1. PICK err : CreateFailed(err)
    BY <1>4
  <2>2. CASE \E status, e : Return(status, e)
    BY <1>3, <2>2
  <2>3. CASE ret' = [status |-> des.status,
                     cond |-> ConditionOf(demoteTransientChangeBatchError(err), TerminalCodes)]
        /\ IsAPIError(demoteTransientChangeBatchError(err))
    BY <2>3 DEF ConditionOf, Honest, IsAPIError, APIErrors, BatchErrors
  <2> QED
    BY <2>1, <2>2, <2>3 DEF CreateFailed
<1> QED
  BY <1>1, <1>2, <1>3, <1>4, RetOrigin

(* Status and condition of the CR change together. *)
LEMMA HonestCR ==
  ASSUME TypeOK, [Next]_vars, Honest(cr), Honest(ret)
  PROVE  Honest(cr')
<1> USE DEF Honest
<1>1. CASE User
  <2>1. \/ cr'.cond = cr.cond /\ cr'.status = cr.status
        \/ cr'.cond = "none"
    BY <1>1 DEF User, TypeOK, CRs
  <2> QED
    BY <2>1
<1>2. CASE Adopt \/ AddFinalizer \/ ReleaseFinalizer \/ RemoveFinalizer
  <2>1. cr'.cond = cr.cond /\ cr'.status = cr.status
    BY <1>2 DEF Adopt, AddFinalizer, ReleaseFinalizer, RemoveFinalizer, TypeOK, CRs
  <2> QED
    BY <2>1
<1>3. CASE PatchStatus
  <2>1. \/ UNCHANGED cr
        \/ cr'.cond = ret.cond /\ cr'.status = ret.status
    BY <1>3 DEF PatchStatus, TypeOK, CRs
  <2> QED
    BY <2>1
<1>4. CASE UNCHANGED cr
  BY <1>4
<1>5. CASE OtherWriter \/ Crash \/ (\E id \in ChangeIds : Propagate(id)) \/ UNCHANGED vars
  BY <1>4, <1>5 DEF OtherWriter, Crash, Propagate, vars
<1>6. CASE \/ Reconcile \/ FindZone \/ FindList \/ FindChange \/ Decide
           \/ CreateZone \/ CreateCall
           \/ UpdateZone \/ UpdateCall \/ UpdateChange \/ DeleteZone \/ DeleteCall
  BY <1>4, <1>6 DEF Reconcile, FindZone, FindList, FindChange, Decide, CreateZone, CreateCall,
     UpdateZone, UpdateCall, UpdateChange, DeleteZone, DeleteCall
<1> QED
  BY <1>1, <1>2, <1>3, <1>5, <1>6 DEF Next, Worker

-----------------------------------------------------------------------------
(* What Synced says of the record set *)

(* Where the worker holds nothing that it may say of the record set.       *)
Elsewhere == {"idle", "create.finalizer", "create.zone", "create.call", "update.zone",
              "update.call", "delete.zone", "delete.call", "delete.finalizer"}

LEMMA ReflectsElsewhere ==
  ASSUME pc' \in Elsewhere \/ (pc' \in {"patch", "create.release"} /\ ret'.cond # "Synced")
  PROVE  ReflectsInv'
  BY DEF ReflectsInv, SyncedReflects, Elsewhere, Reading

(* An error is not reported as Synced. *)
LEMMA ErrorTells ==
  ASSUME NEW status, NEW err, err # "none"
  PROVE  Return(status, err) \/ CreateFailed(err) => ReflectsInv'
<1> DEFINE e == demoteTransientChangeBatchError(err)
<1>1. /\ ConditionOf(err, TerminalCodes) # "Synced"
      /\ e # "none" /\ ConditionOf(e, TerminalCodes) # "Synced"
  BY DEF ConditionOf, demoteTransientChangeBatchError
<1>2. CASE Return(status, err)
  BY <1>1, <1>2, ReflectsElsewhere DEF Return
<1>3. CASE CreateFailed(err)
  BY <1>1, <1>3, ReflectsElsewhere DEF CreateFailed, Return
<1> QED
  BY <1>2, <1>3

LEMMA ReflectsInit == Init => ReflectsInv
  BY DEF Init, ReflectsInv, SyncedReflects, Nothing

(* A worker that neither moves nor learns anything loses what it knows     *)
(* only to a foreign write.                                                *)
LEMMA ReflectsEnvironment ==
  ASSUME TypeOK, ReflectsInv,
         User \/ OtherWriter \/ Crash \/ \E id \in ChangeIds : Propagate(id)
  PROVE  ReflectsInv'
<1>1. CASE Crash
  BY <1>1, ReflectsElsewhere DEF Crash, Idle, Elsewhere
<1>2. CASE User \/ \E id \in ChangeIds : Propagate(id)
  BY <1>2 DEF User, Propagate, route53, worker, ReflectsInv, SyncedReflects
<1>3. CASE OtherWriter
  BY <1>3, OnlyFreshness DEF OtherWriter, ReflectsInv, SyncedReflects
<1> QED
  BY <1>1, <1>2, <1>3

(* ReadOne knows what it has read; after a Create it still knows what was  *)
(* written.                                                                *)
LEMMA ReflectsRead ==
  ASSUME TypeOK, ReflectsInv, Reconcile \/ FindZone \/ FindList \/ FindChange
  PROVE  ReflectsInv'
<1>1. CASE Reconcile
  <2>1. pc' = "find.zone" /\ mode' # "post"
    BY <1>1 DEF Reconcile, Goto
  <2> QED
    BY <2>1 DEF ReflectsInv, SyncedReflects
<1>2. FindNotFound \/ (\E err : err # "none" /\ Return(des.status, err)) => ReflectsInv'
  BY ErrorTells, ReflectsElsewhere DEF FindNotFound, Goto, TypeOK, Elsewhere
<1>3. CASE FindZone
  <2>1. CASE Goto("find.list")
    BY <1>3, <2>1 DEF FindZone, Goto, route53, ReflectsInv, SyncedReflects, Reading
  <2> QED
    BY <1>2, <1>3, <2>1 DEF FindZone, zoneAnswer
<1>4. CASE FindList
  <2>1. CASE /\ Goto("find.change") \/ Goto("decide")
             /\ \E k \in Found :
                  obs' = [obs EXCEPT !.key = k, !.val = recs[k], !.status = des.status]
    <3>1. /\ obs'.fresh = obs.fresh /\ obs'.val = recs[obs'.key]
          /\ UNCHANGED <<recs, mode, des>> /\ pc = "find.list"
          /\ pc' \in {"find.change", "decide"}
      BY <1>4, <2>1 DEF FindList, route53, Goto, TypeOK, Observed
    <3> QED
      BY <3>1 DEF ReflectsInv, SyncedReflects, Reading
  <2> QED
    BY <1>2, <1>4, <2>1 DEF FindList
<1>5. CASE FindChange
  <2>1. CASE Goto("decide") /\ obs' = [obs EXCEPT !.status = syncStatus(obs.status)]
    <3>1. /\ obs'.fresh = obs.fresh /\ obs'.val = obs.val /\ obs'.key = obs.key
          /\ UNCHANGED <<recs, mode, des>> /\ pc = "find.change" /\ pc' = "decide"
      BY <1>5, <2>1 DEF FindChange, route53, Goto, TypeOK, Observed
    <3> QED
      BY <3>1 DEF ReflectsInv, SyncedReflects, Reading
  <2> QED
    BY <1>2, <1>5, <2>1 DEF FindChange
<1> QED
  BY <1>1, <1>3, <1>4, <1>5

(* Nothing to do means that what was read is what is desired. *)
LEMMA ReflectsDecide ==
  ASSUME TypeOK, ReflectsInv, Decide \/ Adopt
  PROVE  ReflectsInv'
<1>1. UNCHANGED <<recs, obs>> /\ des'.spec = des.spec /\ pc \in {"decide", "adopt"}
  BY DEF Decide, Adopt, route53, TypeOK, Desired
<1>2. obs.fresh => /\ obs.key = Own => recs[Own] = obs.val
                   /\ Decide /\ mode = "post" => recs[Own] = des.spec
  BY <1>1 DEF ReflectsInv, Reading, Decide
<1>3. CASE Return(obs.status, "none") /\ ((Decide /\ mode = "post") \/ ~newResourceDelta)
  <2>1. pc' = "patch"
    BY <1>3 DEF Return
  <2>2. obs.fresh => recs[Own] = des.spec
    BY <1>2, <1>3 DEF newResourceDelta
  <2> QED
    BY <1>1, <2>1, <2>2 DEF ReflectsInv, SyncedReflects, Reading
<1>4. CASE Return(obs.status, "terminalError") \/ Return(obs.status, "plain")
  BY <1>4, ErrorTells
<1>5. CASE Goto("delete.zone") \/ Goto("update.zone")
  BY <1>5, ReflectsElsewhere DEF Goto, Elsewhere
<1>6. CASE Goto("adopt")
  BY <1>1, <1>2, <1>6 DEF Goto, ReflectsInv, SyncedReflects, Reading
<1> QED
  BY <1>3, <1>4, <1>5, <1>6 DEF Decide, Adopt, TypeOK

LEMMA ReflectsCreate ==
  ASSUME TypeOK, ReflectsInv, AddFinalizer \/ CreateZone \/ CreateCall \/ ReleaseFinalizer
  PROVE  ReflectsInv'
<1>1. CASE AddFinalizer
  BY <1>1, ErrorTells, ReflectsElsewhere DEF AddFinalizer, Goto, Elsewhere
<1>2. CASE CreateZone
  BY <1>2, ErrorTells, ReflectsElsewhere DEF CreateZone, Goto, Elsewhere
<1>3. CASE CreateCall
  <2>1. CASE /\ \E id \in ChangeIds :
                  Apply(id, des.spec) /\ des' = [des EXCEPT !.status = StatusOf(id, "PENDING")]
             /\ Goto("find.zone")
    <3>1. recs'[Own] = des.spec /\ des'.spec = des.spec
      BY <2>1 DEF Apply, TypeOK, Desired
    <3> QED
      BY <2>1, <3>1 DEF Goto, ReflectsInv, SyncedReflects
  <2>2. CASE \E err : err # "none" /\ CreateFailed(err)
    BY <2>2, ErrorTells
  <2> QED
    BY <1>3, <2>1, <2>2 DEF CreateCall
<1>4. CASE ReleaseFinalizer
  <2>1. pc' = "patch" /\ ret'.cond # "Synced"
    BY <1>4 DEF ReleaseFinalizer, Goto, ReflectsInv
  <2> QED
    BY <2>1, ReflectsElsewhere
<1> QED
  BY <1>1, <1>2, <1>3, <1>4

LEMMA ReflectsUpdate ==
  ASSUME TypeOK, ReflectsInv, UpdateZone \/ UpdateCall \/ UpdateChange
  PROVE  ReflectsInv'
<1>1. CASE UpdateZone
  BY <1>1, ErrorTells, ReflectsElsewhere DEF UpdateZone, UpdateFailed, Goto, Elsewhere
<1>2. CASE UpdateCall
  <2>1. CASE /\ pc' \in {"patch", "update.change"}
             /\ \E id \in ChangeIds :
                  Apply(id, des.spec) /\ des' = [des EXCEPT !.status = StatusOfResponse(id)]
    <3>1. recs'[Own] = des.spec /\ des'.spec = des.spec
      BY <2>1 DEF Apply, TypeOK, Desired
    <3> QED
      BY <2>1, <3>1 DEF ReflectsInv, SyncedReflects, Reading
  <2>2. CASE \E err : err # "none" /\ UpsertFailed(err)
    <3>1. PICK err : err # "none" /\ Return(Nil, demoteTransientChangeBatchError(err))
      BY <2>2 DEF UpsertFailed
    <3>2. demoteTransientChangeBatchError(err) # "none"
      BY <3>1 DEF demoteTransientChangeBatchError
    <3> QED
      BY <3>1, <3>2, ErrorTells
  <2> QED
    BY <1>2, <2>1, <2>2 DEF UpdateCall, Goto, Return
<1>3. CASE UpdateChange
  <2>1. CASE Return(syncStatus(des.status), "none")
    BY <1>3, <2>1 DEF UpdateChange, route53, Return, ReflectsInv, SyncedReflects, Reading
  <2>2. CASE UpdateFailed("OtherAPIError")
    BY <2>2, ErrorTells DEF UpdateFailed
  <2> QED
    BY <1>3, <2>1, <2>2 DEF UpdateChange
<1> QED
  BY <1>1, <1>2, <1>3

LEMMA ReflectsStep == TypeOK /\ ReflectsInv /\ [Next]_vars => ReflectsInv'
<1> SUFFICES ASSUME TypeOK, ReflectsInv, [Next]_vars PROVE ReflectsInv'
  OBVIOUS
<1>1. CASE UNCHANGED vars
  BY <1>1 DEF vars, ReflectsInv, SyncedReflects
<1>2. CASE DeleteZone
  BY <1>2, ErrorTells, ReflectsElsewhere DEF DeleteZone, DeleteFailed, zoneAnswer, Goto, Elsewhere
<1>3. CASE DeleteCall
  BY <1>3, ErrorTells, ReflectsElsewhere DEF DeleteCall, DeleteFailed, Goto, Elsewhere
<1>4. CASE RemoveFinalizer \/ PatchStatus
  BY <1>4, ErrorTells, ReflectsElsewhere DEF RemoveFinalizer, PatchStatus, Idle, Elsewhere
<1> QED
  BY <1>1, <1>2, <1>3, <1>4, ReflectsEnvironment, ReflectsRead, ReflectsDecide,
     ReflectsCreate, ReflectsUpdate DEF Next, Worker

-----------------------------------------------------------------------------
(* The batch that wrote the record last *)

(* The steps that leave alone what LatestInv says of the zone. *)
LEMMA LastIsMine ==
  TypeOK /\ ZoneInv /\ (lastChange # NoId => mine) /\ [Next]_vars
    => (lastChange' # NoId => mine')
<1> SUFFICES ASSUME TypeOK, ZoneInv, lastChange # NoId => mine, [Next]_vars, lastChange' # NoId
             PROVE  mine'
  OBVIOUS
<1>1. CASE UNCHANGED <<mine, lastChange>>
  BY <1>1
<1>2. CASE \E id, v : Apply(id, v)
  BY <1>2 DEF Apply
<1>3. CASE \E k : Remove(k)
  BY <1>3 DEF Remove
<1>4. CASE CreateCall \/ UpdateCall \/ DeleteCall
  BY <1>1, <1>2, <1>3, <1>4 DEF CreateCall, UpdateCall, DeleteCall, route53
<1>5. CASE Adopt
  <2>1. mine /\ recs[Own] # Absent
    BY <1>5 DEF Adopt, ZoneInv
  <2>2. CASE mine' = (recs[Own] # Absent)
    <3>1. (recs[Own] # Absent) <=> TRUE
      BY <2>1
    <3> QED
      BY <2>2, <3>1, Zenon
  <2>3. CASE UNCHANGED mine
    BY <2>1, <2>3
  <2> QED
    BY <1>5, <2>2, <2>3, Zenon DEF Adopt
<1>6. CASE OtherWriter
  <2>1. CASE \E k \in ExtKeys : /\ mine' = IF k = Own THEN FALSE ELSE mine
                                /\ lastChange' = IF k = Own THEN NoId ELSE lastChange
    <3>1. PICK k \in ExtKeys : /\ mine' = IF k = Own THEN FALSE ELSE mine
                               /\ lastChange' = IF k = Own THEN NoId ELSE lastChange
      BY <2>1
    <3>2. k # Own
      BY <3>1
    <3> QED
      BY <1>1, <3>1, <3>2
  <2>2. CASE UNCHANGED mine /\ (UNCHANGED lastChange \/ lastChange' = NoId)
    BY <1>1, <2>2
  <2> QED
    BY <1>6, <2>1, <2>2, Zenon DEF OtherWriter
<1>7. CASE Reads \/ User \/ Crash \/ (\E id \in ChangeIds : Propagate(id)) \/ UNCHANGED vars
  <2>1. UNCHANGED lastChange
    BY <1>7 DEF Reads, Reconcile, FindZone, FindList, FindChange, Decide, AddFinalizer,
       CreateZone, ReleaseFinalizer, UpdateZone, UpdateChange, DeleteZone, RemoveFinalizer,
       PatchStatus, User, Crash, Propagate, vars, route53
  <2>2. UNCHANGED mine
    BY <1>7, ReadsKeepZone DEF vars
  <2> QED
    BY <1>1, <2>1, <2>2
<1> QED
  BY <1>4, <1>5, <1>6, <1>7 DEF Next, Worker, Reads

LEMMA LatestInit == Init => ChangeInv /\ LatestInv
  BY DEF Init, ChangeInv, LatestInv

(* GetChange is asked with a change ID.                                    *)
LEMMA ChangeStep ==
  TypeOK /\ ZoneInv /\ ChangeInv /\ [Next]_vars => ChangeInv'
<1> SUFFICES ASSUME TypeOK, ZoneInv, ChangeInv, [Next]_vars PROVE ChangeInv'
  OBVIOUS
<1>1. lastChange' # NoId => mine'
  BY LastIsMine DEF ChangeInv
<1>2. CASE pc' \notin {"find.change", "update.change"}
  BY <1>1, <1>2 DEF ChangeInv
<1>3. CASE FindList /\ pc' = "find.change"
  <2>1. des.status.id # NoId /\ obs'.status = des.status
    <3>1. CASE \E k \in Found :
                 /\ \A j \in Found : k <= j
                 /\ obs' = [obs EXCEPT !.key = k, !.val = recs[k], !.status = des.status]
                 /\ IF des.status.id # NoId /\ des.status.st # "INSYNC"
                      THEN Goto("find.change") ELSE Goto("decide")
      BY <1>3, <3>1 DEF Goto, TypeOK, Observed
    <3>2. CASE FindNotFound \/ Return(des.status, "OtherAPIError")
      BY <1>3, <3>2, FindNotFoundManaged DEF Return
    <3> QED
      BY <1>3, <3>1, <3>2, Zenon DEF FindList
  <2> QED
    BY <1>1, <1>3, <2>1 DEF ChangeInv
<1>4. CASE UpdateCall /\ pc' = "update.change"
  <2>1. \E id \in ChangeIds : des' = [des EXCEPT !.status = StatusOfResponse(id)]
    BY <1>4 DEF UpdateCall, UpsertFailed, Return
  <2>2. des'.status.id # NoId
    BY <2>1 DEF TypeOK, Desired, StatusOfResponse, StatusOf
  <2> QED
    BY <1>1, <1>4, <2>2 DEF ChangeInv
<1>5. CASE User \/ OtherWriter \/ (\E id \in ChangeIds : Propagate(id)) \/ UNCHANGED vars
  <2>1. UNCHANGED <<pc, des>> /\ obs'.status = obs.status
    BY <1>5, OnlyFreshness DEF User, OtherWriter, Propagate, vars, worker
  <2> QED
    BY <1>1, <2>1 DEF ChangeInv
<1>6. CASE FindZone
  BY <1>2, <1>6, FindNotFoundManaged DEF FindZone, Goto, Return
<1>7. CASE FindList /\ pc' # "find.change"
  BY <1>2, <1>7, FindNotFoundManaged, Zenon DEF FindList, Goto, Return
<1>8. CASE Crash \/ Reconcile \/ FindChange \/ Decide \/ Adopt \/ AddFinalizer \/ RemoveFinalizer
           \/ PatchStatus
  BY <1>2, <1>8 DEF Crash, Idle, Reconcile, FindChange, Decide, Adopt, AddFinalizer,
     RemoveFinalizer, PatchStatus, Goto, Return, TypeOK
<1>9. CASE CreateZone \/ CreateCall \/ ReleaseFinalizer
  BY <1>2, <1>9, CreateFailedManaged DEF CreateZone, CreateCall, ReleaseFinalizer, Goto
<1>10. CASE UpdateZone \/ (UpdateCall /\ pc' # "update.change") \/ UpdateChange
  BY <1>2, <1>10 DEF UpdateZone, UpdateCall, UpdateChange, UpdateFailed, UpsertFailed, Goto, Return
<1>11. CASE DeleteZone \/ DeleteCall
  BY <1>2, <1>11 DEF DeleteZone, DeleteCall, DeleteFailed, Goto, Return
<1> QED
  BY <1>3, <1>4, <1>5, <1>6, <1>7, <1>8, <1>9, <1>10, <1>11 DEF Next, Worker

(* Nothing takes a fault back. *)
LEMMA FaultsGrow ==
  ASSUME TypeOK, Next
  PROVE  faults' >= faults
<1> USE DEF TypeOK, Fault, NoFault
<1>1. CASE User \/ Crash \/ \E id \in ChangeIds : Propagate(id)
  BY <1>1 DEF User, Crash, Propagate
<1>2. CASE Reconcile \/ Decide
  <2>1. UNCHANGED faults
    BY <1>2 DEF Reconcile, Decide
  <2> QED
    BY <2>1
<1>3. CASE FindZone \/ FindList \/ FindChange \/ Adopt \/ AddFinalizer \/ OtherWriter
  <2>1. UNCHANGED faults \/ faults' = faults + 1
    BY <1>3, Zenon DEF FindZone, FindList, FindChange, Adopt, AddFinalizer, OtherWriter
  <2> QED
    BY <2>1
<1>4. CASE CreateZone \/ CreateCall \/ ReleaseFinalizer
  BY <1>4 DEF CreateZone, CreateCall, ReleaseFinalizer
<1>5. CASE UpdateZone \/ UpdateCall \/ UpdateChange
  BY <1>5 DEF UpdateZone, UpdateCall, UpdateChange
<1>6. CASE DeleteZone \/ DeleteCall \/ RemoveFinalizer \/ PatchStatus
  BY <1>6 DEF DeleteZone, DeleteCall, RemoveFinalizer, PatchStatus
<1> QED
  BY <1>1, <1>2, <1>3, <1>4, <1>5, <1>6 DEF Next, Worker

(* A step that leaves the last batch what it is and lets nobody speak of   *)
(* another one.                                                            *)
LEMMA SpokenStays ==
  ASSUME LatestInv, faults = 0, lastChange # NoId, UNCHANGED lastChange,
         \A status \in Spoken' :
           status = Nil \/ \E s \in Spoken : status = s \/ (s # Nil /\ status.id = s.id)
  PROVE  LatestInv'
  BY DEF LatestInv, Nil, StatusOf

LEMMA LatestEnvironment ==
  ASSUME TypeOK, NoOrphan, ChangeInv, LatestInv, faults = 0, faults' = 0, lastChange' # NoId,
         User \/ OtherWriter \/ Crash \/ \E id \in ChangeIds : Propagate(id)
  PROVE  LatestInv'
<1>1. ~Crash
  BY DEF Crash, Fault
<1>2. UNCHANGED lastChange
  BY <1>1 DEF User, OtherWriter, Propagate, route53
<1>3. UNCHANGED <<pc, des, ret>> /\ obs'.status = obs.status
  BY <1>1, OnlyFreshness DEF User, OtherWriter, Propagate, worker
<1>4. cr'.status = cr.status
  <2>1. cr.phase # "gone"
    BY <1>2 DEF ChangeInv, NoOrphan
  <2> QED
    BY <1>1, <2>1 DEF User, OtherWriter, Propagate, TypeOK, CRs
<1>5. Spoken' = Spoken
  BY <1>3, <1>4 DEF Spoken
<1> QED
  BY <1>2, <1>5, SpokenStays

LEMMA LatestRead ==
  ASSUME TypeOK, ChangeInv, LatestInv, faults = 0, faults' = 0, lastChange' # NoId,
         Reconcile \/ FindZone \/ FindList \/ FindChange \/ Decide
  PROVE  LatestInv'
<1>1. UNCHANGED lastChange
  BY DEF Reconcile, FindZone, FindList, FindChange, Decide, route53
<1>2. ~Fault
  BY DEF Fault
<1>3. CASE Reconcile
  BY <1>1, <1>3, SpokenStays DEF Reconcile, Goto, Spoken
<1>4. FindNotFound => /\ pc' \in {"create.finalizer", "delete.finalizer", "patch"}
                      /\ pc' = "patch" => ret'.status = des.status
  <2>1. FindNotFound => \/ Goto("create.finalizer") \/ Goto("delete.finalizer")
                        \/ Return(des.status, "notFound")
    BY DEF FindNotFound, TypeOK
  <2> QED
    BY <2>1 DEF Goto, Return
<1>5. CASE FindZone
  <2>1. /\ pc' \in {"find.list", "create.finalizer", "delete.finalizer", "patch"}
        /\ pc' = "patch" => ret'.status = des.status
        /\ UNCHANGED des /\ pc = "find.zone"
    BY <1>2, <1>4, <1>5 DEF FindZone, Goto, Return
  <2> QED
    BY <1>1, <2>1, SpokenStays DEF Spoken
<1>6. CASE FindList
  <2>1. CASE \E k \in Found :
               /\ \A j \in Found : k <= j
               /\ obs' = [obs EXCEPT !.key = k, !.val = recs[k], !.status = des.status]
               /\ IF des.status.id # NoId /\ des.status.st # "INSYNC"
                    THEN Goto("find.change") ELSE Goto("decide")
    <3>1. obs'.status = des.status /\ pc' \in {"find.change", "decide"}
      BY <2>1 DEF TypeOK, Observed, Goto
    <3>2. UNCHANGED des /\ pc = "find.list"
      BY <1>6 DEF FindList
    <3> QED
      BY <1>1, <3>1, <3>2, SpokenStays DEF Spoken
  <2>2. CASE FindNotFound
    BY <1>1, <1>4, <1>6, <2>2, SpokenStays DEF Spoken, FindList
  <2> QED
    BY <1>2, <1>6, <2>1, <2>2, Zenon DEF FindList
<1>7. CASE FindChange
  <2>1. /\ pc = "find.change" /\ pc' = "decide" /\ UNCHANGED des
        /\ obs' = [obs EXCEPT !.status = syncStatus(obs.status)]
    BY <1>2, <1>7 DEF FindChange, Goto
  <2>2. obs'.status.id = obs.status.id /\ obs.status # Nil
    BY <2>1 DEF TypeOK, Observed, Statuses, syncStatus, ChangeInv, Nil, StatusOf
  <2> QED
    BY <1>1, <2>1, <2>2, SpokenStays DEF Spoken
<1>8. CASE Decide
  <2>1. \/ pc' \in {"delete.zone", "adopt", "update.zone"}
        \/ pc' = "patch" /\ ret'.status = obs.status
    <3>1. \/ Goto("delete.zone") \/ Goto("adopt") \/ Goto("update.zone")
          \/ Return(obs.status, "none") \/ Return(obs.status, "terminalError")
      BY <1>8 DEF Decide, TypeOK
    <3> QED
      BY <3>1 DEF Goto, Return
  <2> QED
    BY <1>1, <1>8, <2>1, SpokenStays DEF Spoken, Decide
<1> QED
  BY <1>3, <1>5, <1>6, <1>7, <1>8

(* Where there is nothing of ours, nothing was written last. *)
LEMMA LatestCreate ==
  ASSUME TypeOK, KnowledgeInv, ChangeInv, LatestInv, faults = 0, faults' = 0, lastChange' # NoId,
         AddFinalizer \/ CreateZone \/ CreateCall \/ ReleaseFinalizer \/ RemoveFinalizer
  PROVE  LatestInv'
<1>1. lastChange = NoId
  <2>1. ~mine
    BY DEF AddFinalizer, CreateZone, CreateCall, ReleaseFinalizer, RemoveFinalizer,
       KnowledgeInv, Creating
  <2> QED
    BY <2>1 DEF ChangeInv
<1>2. CreateCall /\ ~UNCHANGED lastChange
  BY <1>1 DEF AddFinalizer, CreateZone, ReleaseFinalizer, RemoveFinalizer, CreateCall, route53
<1>3. PICK id \in ChangeIds : /\ Apply(id, des.spec)
                              /\ des' = [des EXCEPT !.status = StatusOf(id, "PENDING")]
                              /\ Goto("find.zone")
  BY <1>2 DEF CreateCall, route53, Fault
<1>4. des'.status.id = lastChange' /\ pc' = "find.zone"
  BY <1>3 DEF Apply, Goto, TypeOK, Desired, StatusOf
<1> QED
  BY <1>4 DEF LatestInv, Spoken

LEMMA LatestUpdate ==
  ASSUME TypeOK, ChangeInv, LatestInv, faults = 0, faults' = 0, lastChange' # NoId,
         Adopt \/ UpdateZone \/ UpdateCall \/ UpdateChange
  PROVE  LatestInv'
<1>1. ~Fault
  BY DEF Fault
<1>2. CASE Adopt
  <2>1. /\ UNCHANGED <<lastChange, obs>> /\ des'.status = des.status /\ pc = "adopt"
        /\ pc' = "update.zone" \/ (pc' = "patch" /\ ret'.status = obs.status)
    BY <1>2 DEF Adopt, Goto, Return, TypeOK, Desired
  <2> QED
    BY <2>1, SpokenStays DEF Spoken
<1>3. CASE UpdateZone
  <2>1. /\ UNCHANGED <<lastChange, des, obs>> /\ pc = "update.zone"
        /\ pc' = "update.call" \/ (pc' = "patch" /\ ret'.status = obs.status)
    BY <1>3 DEF UpdateZone, UpdateFailed, Goto, Return, route53
  <2> QED
    BY <2>1, SpokenStays DEF Spoken
<1>4. CASE UpdateCall
  <2>1. CASE /\ \E id \in ChangeIds :
                  Apply(id, des.spec) /\ des' = [des EXCEPT !.status = StatusOfResponse(id)]
             /\ pc' = "update.change" \/ (pc' = "patch" /\ ret'.status = des'.status)
    <3>1. des'.status.id = lastChange'
      BY <2>1 DEF Apply, TypeOK, Desired, StatusOfResponse, StatusOf
    <3> QED
      BY <2>1, <3>1 DEF LatestInv, Spoken
  <2>2. CASE pc' = "patch" /\ ret'.status = Nil
    BY <2>2 DEF LatestInv, Spoken
  <2> QED
    BY <1>1, <1>4, <2>1, <2>2 DEF UpdateCall, UpsertFailed, Goto, Return
<1>5. CASE UpdateChange
  <2>1. /\ UNCHANGED lastChange /\ pc = "update.change" /\ pc' = "patch"
        /\ ret'.status = syncStatus(des.status)
    BY <1>1, <1>5 DEF UpdateChange, Return, route53
  <2>2. ret'.status.id = des.status.id /\ des.status # Nil
    BY <2>1 DEF TypeOK, Desired, Statuses, syncStatus, ChangeInv, Nil, StatusOf
  <2> QED
    BY <2>1, <2>2, SpokenStays DEF Spoken
<1> QED
  BY <1>2, <1>3, <1>4, <1>5

LEMMA LatestFinish ==
  ASSUME TypeOK, NoOrphan, ChangeInv, LatestInv, faults = 0, faults' = 0, lastChange' # NoId,
         DeleteZone \/ DeleteCall \/ PatchStatus
  PROVE  LatestInv'
<1>1. CASE DeleteZone \/ DeleteCall
  <2>1. UNCHANGED lastChange
    BY <1>1 DEF DeleteZone, DeleteCall, Remove, route53
  <2>2. /\ UNCHANGED <<des, obs>> /\ pc \in {"delete.zone", "delete.call"}
        /\ \/ pc' \in {"delete.call", "delete.finalizer"}
           \/ pc' = "patch" /\ ret'.status = obs.status
    BY <1>1 DEF DeleteZone, DeleteCall, DeleteFailed, Goto, Return
  <2> QED
    BY <2>1, <2>2, SpokenStays DEF Spoken
<1>2. CASE PatchStatus
  <2>1. UNCHANGED lastChange /\ pc = "patch" /\ pc' = "idle"
    BY <1>2 DEF PatchStatus, Idle, route53
  <2>2. cr.phase # "gone"
    BY <2>1 DEF ChangeInv, NoOrphan
  <2>3. cr'.status = ret.status
    <3>1. cr' = [cr EXCEPT !.status = ret.status, !.cond = ret.cond]
      BY <1>2, <2>2 DEF PatchStatus, Fault
    <3> QED
      BY <3>1 DEF TypeOK, CRs
  <2> QED
    BY <2>1, <2>3, SpokenStays DEF Spoken
<1> QED
  BY <1>1, <1>2

LEMMA LatestStep ==
  TypeOK /\ NoOrphan /\ KnowledgeInv /\ ChangeInv /\ LatestInv /\ [Next]_vars => LatestInv'
<1> SUFFICES ASSUME TypeOK, NoOrphan, KnowledgeInv, ChangeInv, LatestInv, [Next]_vars,
                    faults' = 0, lastChange' # NoId
             PROVE  LatestInv'
  BY DEF LatestInv
<1>1. CASE UNCHANGED vars
  BY <1>1 DEF vars, LatestInv, Spoken
<1>2. CASE Next
  <2>1. faults = 0
    BY <1>2, FaultsGrow DEF TypeOK
  <2> QED
    BY <1>2, <2>1, LatestEnvironment, LatestRead, LatestCreate, LatestUpdate, LatestFinish
       DEF Next, Worker
<1> QED
  BY <1>1, <1>2

-----------------------------------------------------------------------------
(* The inductive invariant and what follows from it *)

(* A record set of ours is never left without a CR and a finalizer: it is  *)
(* put into the zone by a worker that holds the finalizer, and the         *)
(* finalizer goes only where the worker knows that nothing of ours is left.*)
LEMMA OrphanStep ==
  TypeOK /\ NoOrphan /\ ManagedInv /\ KnowledgeInv /\ [Next]_vars => NoOrphan'
<1> SUFFICES ASSUME TypeOK, NoOrphan, ManagedInv, KnowledgeInv, [Next]_vars, mine'
             PROVE  cr'.phase # "gone" /\ cr'.fin
  BY DEF NoOrphan
<1> USE DEF Creating, Updating
<1>1. CASE UNCHANGED <<cr, mine>>
  BY <1>1 DEF NoOrphan
<1>2. CASE User
  <2>1. cr.fin /\ cr.phase # "gone"
    BY <1>2 DEF User, route53, NoOrphan
  <2> QED
    BY <1>2, <2>1 DEF User, TypeOK, CRs
<1>3. CASE AddFinalizer
  BY <1>3 DEF AddFinalizer, route53, NoOrphan, TypeOK, CRs
<1>4. CASE ReleaseFinalizer \/ RemoveFinalizer
  BY <1>4 DEF ReleaseFinalizer, RemoveFinalizer, KnowledgeInv, route53
<1>5. CASE PatchStatus
  BY <1>5 DEF PatchStatus, route53, NoOrphan, TypeOK, CRs
<1>6. CASE CreateCall \/ UpdateCall
  <2>1. des.fin /\ pc # "patch" /\ UNCHANGED cr
    BY <1>6 DEF CreateCall, UpdateCall, ManagedInv
  <2> QED
    BY <2>1 DEF ManagedInv
<1>7. CASE DeleteCall \/ OtherWriter
  <2>1. mine /\ UNCHANGED cr
    BY <1>7 DEF DeleteCall, OtherWriter, Remove, route53
  <2> QED
    BY <2>1 DEF NoOrphan
<1>8. CASE \/ Reconcile \/ FindZone \/ FindList \/ FindChange \/ Decide \/ CreateZone
           \/ UpdateZone \/ UpdateChange \/ DeleteZone
  <2>1. UNCHANGED mine
    BY <1>8, ReadsKeepZone DEF Reads
  <2>2. UNCHANGED cr
    BY <1>8 DEF Reconcile, FindZone, FindList, FindChange, Decide, CreateZone,
       UpdateZone, UpdateChange, DeleteZone
  <2> QED
    BY <1>1, <2>1, <2>2
<1>9. CASE Crash \/ (\E id \in ChangeIds : Propagate(id)) \/ UNCHANGED vars
  BY <1>1, <1>9 DEF Crash, Propagate, vars, route53
<1>10. CASE Adopt
  BY <1>1, <1>10 DEF Adopt, TypeOK, CRs
<1> QED
  BY <1>2, <1>3, <1>4, <1>5, <1>6, <1>7, <1>8, <1>9, <1>10 DEF Next, Worker

LEMMA InvInit == Init => Inv
<1> SUFFICES ASSUME Init PROVE Inv
  OBVIOUS
<1>1. NoOrphan
  BY DEF Init, NoOrphan
<1>2. StatusInv
  BY DEF Init, StatusInv, Settled
<1>3. HonestInv
  BY DEF Init, HonestInv, Honest
<1> QED
  BY <1>1, <1>2, <1>3, TypeInit, ManagedInit, KnowledgeInit, ReflectsInit, LatestInit
     DEF Inv

LEMMA InvStep == Inv /\ [Next]_vars => Inv'
  BY TypeStep, OrphanStep, ZoneStep, ManagedStep, KnowledgeStep, StatusStep,
     HonestRet, HonestCR, ReflectsStep, ChangeStep, LatestStep DEF Inv, HonestInv

(* The inductive invariant holds in every reachable state. *)
THEOREM InvHolds == Spec => []Inv
  BY InvInit, InvStep, PTL DEF Spec

(* No record set of ours is orphaned, whatever fails, crashes or is        *)
(* deleted when.                                                           *)
THEOREM NoOrphanHolds == Spec => []NoOrphan
<1>1. Inv => NoOrphan
  BY DEF Inv
<1> QED
  BY <1>1, InvHolds, PTL

(* A persisted INSYNC is true of the persisted change ID, which the        *)
(* short-circuit of syncStatus relies on.                                  *)
THEOREM SettledForGoodHolds == Spec => []SettledForGood
<1>1. Inv => SettledForGood
  BY DEF Inv, StatusInv, Settled, SettledForGood
<1> QED
  BY <1>1, InvHolds, PTL

(* A CR that says Synced names no change that is still pending.            *)
THEOREM SyncedIsSettledHolds == Spec => []SyncedIsSettled
<1>1. Inv => SyncedIsSettled
  BY DEF Inv, TypeOK, StatusInv, Settled, HonestInv, Honest, SyncedIsSettled
<1> QED
  BY <1>1, InvHolds, PTL

(* Whatever was created, adopted, updated or found to need no change: a    *)
(* reconciliation says Synced only of a record set that is in the zone as  *)
(* it was asked for, unless another writer came between.                   *)
THEOREM SyncedReflectsHolds == Spec => []SyncedReflects
<1>1. Inv => SyncedReflects
  BY DEF Inv, ReflectsInv
<1> QED
  BY <1>1, InvHolds, PTL

(* As long as no call fails, no answer is lost and nothing crashes, INSYNC *)
(* next to Synced says of the last batch what hooks.go:266 promises; the   *)
(* hypothesis is needed, as the run RecordSetInsync shows.                 *)
THEOREM InsyncIsCurrentHolds == Spec => [](faults = 0 => InsyncIsCurrent)
<1>1. Inv => (faults = 0 => InsyncIsCurrent)
  <2> SUFFICES ASSUME Inv, faults = 0, pc = "idle", cr.status.st = "INSYNC",
                      lastChange \in pending
               PROVE  FALSE
    BY DEF InsyncIsCurrent
  <2>1. lastChange # NoId
    BY DEF Inv, TypeOK
  <2>2. cr.status = Nil \/ cr.status.id = lastChange
    BY <2>1 DEF Inv, LatestInv, Spoken
  <2>3. cr.status.id \notin pending /\ cr.status # Nil
    BY DEF Inv, StatusInv, Settled, Nil, StatusOf
  <2> QED
    BY <2>2, <2>3
<1> QED
  BY <1>1, InvHolds, PTL

(* Every write of the controller is made under the finalizer.              *)
THEOREM WritesAreManagedHolds == Spec => WritesAreManaged
<1>1. Inv /\ [Next]_vars => [Worker /\ recs' # recs => cr.fin]_vars
  <2> SUFFICES ASSUME Inv, Worker, recs' # recs PROVE cr.fin
    OBVIOUS
  <2>1. CreateCall \/ UpdateCall \/ DeleteCall
    BY ReadsKeepZone DEF Worker, Reads, Adopt
  <2>2. pc \in {"create.call", "update.call", "delete.call"}
    BY <2>1 DEF CreateCall, UpdateCall, DeleteCall
  <2> QED
    BY <2>2 DEF Inv, ManagedInv, Creating, Updating, Deleting
<1> QED
  BY <1>1, InvHolds, PTL DEF Spec, WritesAreManaged

(* A CR with a set identifier deletes only the record set it identifies;   *)
(* the assumption is needed: a CR without one takes any.                   *)
THEOREM DeletesOnlyOwnHolds ==
  ASSUME Own # 0
  PROVE  Spec => DeletesOnlyOwn
<1>1. Inv /\ [Next]_vars => [DeleteCall => \A k \in Keys \ {Own} : recs'[k] = recs[k]]_vars
  <2> SUFFICES ASSUME Inv, DeleteCall, NEW k \in Keys \ {Own} PROVE recs'[k] = recs[k]
    OBVIOUS
  <2>1. obs.key = Own
    BY DEF Inv, KnowledgeInv, DeleteCall, matches, TypeOK, Observed
  <2> QED
    BY <2>1 DEF DeleteCall, Remove, route53, Inv, TypeOK
<1> QED
  BY <1>1, InvHolds, PTL DEF Spec, DeletesOnlyOwn

-----------------------------------------------------------------------------
(* A reconciliation ends *)

LEMMA RoundRead ==
  ASSUME TypeOK, FindZone \/ FindList \/ FindChange \/ Decide
  PROVE  CallsLeft' < CallsLeft
<1> USE DEF CallsLeft, Reading
<1>1. UNCHANGED mode
  BY DEF FindZone, FindList, FindChange, Decide
<1>2. FindNotFound => \/ pc' = "create.finalizer" /\ mode = "sync"
                      \/ pc' \in {"delete.finalizer", "patch"}
  BY DEF FindNotFound, Goto, Return, TypeOK
<1>3. CASE FindZone
  <2>1. \/ pc' \in {"find.list", "delete.finalizer", "patch"}
        \/ pc' = "create.finalizer" /\ mode = "sync"
    BY <1>2, <1>3 DEF FindZone, Goto, Return
  <2> QED
    BY <1>1, <1>3, <2>1 DEF FindZone
<1>4. CASE FindList
  <2>1. FindNotFound \/ Goto("find.change") \/ Goto("decide") \/ Return(des.status, "OtherAPIError")
    BY <1>4, Zenon DEF FindList
  <2>2. \/ pc' \in {"find.change", "decide", "delete.finalizer", "patch"}
        \/ pc' = "create.finalizer" /\ mode = "sync"
    BY <1>2, <2>1 DEF Goto, Return
  <2>3. pc = "find.list"
    BY <1>4 DEF FindList
  <2> QED
    BY <1>1, <2>2, <2>3
<1>5. CASE FindChange
  <2>1. pc = "find.change" /\ pc' \in {"decide", "patch"}
    BY <1>5 DEF FindChange, Goto, Return
  <2> QED
    BY <1>1, <2>1
<1>6. CASE Decide
  <2>1. pc' \in {"delete.zone", "adopt", "update.zone", "patch"}
    BY <1>6 DEF Decide, Goto, Return, TypeOK
  <2> QED
    BY <1>1, <1>6, <2>1 DEF Decide
<1> QED
  BY <1>3, <1>4, <1>5, <1>6

LEMMA RoundWrite ==
  ASSUME TypeOK,
         \/ Adopt \/ AddFinalizer \/ CreateZone \/ CreateCall \/ ReleaseFinalizer
         \/ UpdateZone \/ UpdateCall \/ UpdateChange
         \/ DeleteZone \/ DeleteCall \/ RemoveFinalizer \/ PatchStatus
  PROVE  CallsLeft' < CallsLeft
<1> USE DEF CallsLeft, Reading
<1>1. CASE Adopt
  BY <1>1 DEF Adopt, Goto, Return
<1>2. CASE AddFinalizer
  BY <1>2 DEF AddFinalizer, Goto, Return
<1>3. CASE CreateZone
  BY <1>3, CreateFailedManaged DEF CreateZone, Goto
<1>4. CASE CreateCall
  <2>1. pc' \in {"patch", "create.release"} \/ (pc' = "find.zone" /\ mode' = "post")
    BY <1>4, CreateFailedManaged DEF CreateCall, Goto
  <2> QED
    BY <1>4, <2>1 DEF CreateCall
<1>5. CASE ReleaseFinalizer
  BY <1>5 DEF ReleaseFinalizer, Goto
<1>6. CASE UpdateZone \/ UpdateChange
  BY <1>6 DEF UpdateZone, UpdateChange, UpdateFailed, Goto, Return
<1>7. CASE UpdateCall
  <2>1. pc = "update.call" /\ pc' \in {"update.change", "patch"}
    BY <1>7 DEF UpdateCall, UpsertFailed, Goto, Return
  <2> QED
    BY <2>1
<1>8. CASE DeleteZone \/ DeleteCall
  BY <1>8 DEF DeleteZone, DeleteCall, DeleteFailed, Goto, Return
<1>9. CASE RemoveFinalizer \/ PatchStatus
  BY <1>9 DEF RemoveFinalizer, PatchStatus, Idle, Return
<1> QED
  BY <1>1, <1>2, <1>3, <1>4, <1>5, <1>6, <1>7, <1>8, <1>9

(* A reconciliation makes at most nineteen calls, whatever fails: a read   *)
(* after a create is never followed by another create.                     *)
LEMMA RoundIsShort == ASSUME TypeOK PROVE CallsLeft \in 0..19
  BY DEF TypeOK, Labels, CallsLeft, Reading

(* Every step of the worker brings the reconciliation nearer to its end.   *)
THEOREM RoundEndsHolds == Spec => RoundEnds
<1>1. TypeOK /\ [Next]_vars => [Worker /\ pc # "idle" => CallsLeft' < CallsLeft]_vars
  <2> SUFFICES ASSUME TypeOK, Worker, pc # "idle" PROVE CallsLeft' < CallsLeft
    OBVIOUS
  <2> QED
    BY RoundRead, RoundWrite DEF Worker, Reconcile
<1> QED
  BY <1>1, TypeCorrect, PTL DEF Spec, RoundEnds

-----------------------------------------------------------------------------
(* RecordSet implements ManagedResource *)

(* What the abstract specification sees of a CR and its record. *)
LEMMA Invisible ==
  ASSUME cr'.phase = cr.phase, cr'.fin = cr.fin, mine' = mine
  PROVE  UNCHANGED MR!vars
  BY DEF MR!vars

(* The steps that take the finalizer off. *)
LEMMA ReleaseMaps ==
  ASSUME TypeOK, KnowledgeInv, ReleaseFinalizer \/ RemoveFinalizer
  PROVE  MR!Release \/ UNCHANGED MR!vars
<1>1. ~mine /\ mine' = mine
  BY DEF ReleaseFinalizer, RemoveFinalizer, KnowledgeInv, Creating, route53
<1>2. CASE UNCHANGED cr
  BY <1>1, <1>2, Invisible
<1>3. CASE cr' = [cr EXCEPT !.fin = FALSE, !.phase = IF @ = "deleting" THEN "gone" ELSE @]
  <2>1. /\ cr'.fin = FALSE
        /\ cr'.phase = (IF cr.phase = "deleting" THEN "gone" ELSE cr.phase)
    BY <1>3 DEF TypeOK, CRs
  <2> QED
    BY <1>1, <2>1 DEF MR!Release
<1> QED
  BY <1>2, <1>3 DEF ReleaseFinalizer, RemoveFinalizer

(* The steps that put it on, with or without a record found. *)
LEMMA ManageMaps ==
  ASSUME TypeOK, TypeOK', ZoneInv, AddFinalizer \/ Adopt
  PROVE  MR!Manage \/ MR!Adopt \/ UNCHANGED MR!vars
<1>1. CASE UNCHANGED <<cr, mine>>
  BY <1>1, Invisible
<1>2. CASE /\ cr.phase # "gone" /\ cr' = [cr EXCEPT !.fin = TRUE]
           /\ UNCHANGED mine \/ mine' = (recs[Own] # Absent)
  <2>1. cr'.fin = TRUE /\ cr'.phase = cr.phase
    BY <1>2 DEF TypeOK, CRs
  <2>2. CASE mine' = mine
    BY <1>2, <2>1, <2>2 DEF MR!Manage
  <2>3. CASE mine' # mine
    <3>1. mine' = TRUE
      BY <1>2, <2>3, Zenon DEF ZoneInv, TypeOK
    <3> QED
      BY <1>2, <2>1, <3>1 DEF MR!Adopt
  <2> QED
    BY <2>2, <2>3
<1> QED
  BY <1>1, <1>2 DEF AddFinalizer, Adopt, route53

(* CREATE and UPSERT are sent under the finalizer, DELETE in deletion. *)
LEMMA CallMaps ==
  ASSUME TypeOK, ManagedInv, CreateCall \/ UpdateCall \/ DeleteCall
  PROVE  MR!Make \/ MR!Remove \/ UNCHANGED MR!vars
<1>1. UNCHANGED cr
  BY DEF CreateCall, UpdateCall, DeleteCall
<1>2. CASE UNCHANGED mine
  BY <1>1, <1>2, Invisible
<1>3. CASE (CreateCall \/ UpdateCall) /\ mine' # mine
  <2>1. PICK id \in ChangeIds : Apply(id, des.spec)
    BY <1>3, WhenApplied
  <2>2. mine' = TRUE /\ cr.fin /\ cr.phase # "gone"
    BY <1>3, <2>1 DEF Apply, ManagedInv, CreateCall, UpdateCall, Creating, Updating
  <2> QED
    BY <1>1, <2>2 DEF MR!Make
<1>4. CASE DeleteCall /\ mine' # mine
  <2>1. mine' = FALSE
    BY <1>4 DEF DeleteCall, Remove, route53
  <2>2. cr.phase = "deleting"
    BY <1>4 DEF DeleteCall, ManagedInv, Deleting
  <2> QED
    BY <1>1, <2>1, <2>2 DEF MR!Remove
<1> QED
  BY <1>2, <1>3, <1>4

LEMMA WorkerMaps ==
  ASSUME TypeOK, TypeOK', ZoneInv, ManagedInv, KnowledgeInv, Worker
  PROVE  MR!Controller \/ UNCHANGED MR!vars
<1>1. CASE AddFinalizer \/ Adopt
  BY <1>1, ManageMaps DEF MR!Controller
<1>2. CASE ReleaseFinalizer \/ RemoveFinalizer
  BY <1>2, ReleaseMaps DEF MR!Controller
<1>3. CASE CreateCall \/ UpdateCall \/ DeleteCall
  BY <1>3, CallMaps DEF MR!Controller
<1>4. CASE PatchStatus
  <2>1. cr'.phase = cr.phase /\ cr'.fin = cr.fin /\ mine' = mine
    BY <1>4 DEF PatchStatus, TypeOK, CRs, route53
  <2> QED
    BY <2>1, Invisible
<1>5. CASE \/ Reconcile \/ FindZone \/ FindList \/ FindChange \/ Decide \/ CreateZone
           \/ UpdateZone \/ UpdateChange \/ DeleteZone
  <2>1. UNCHANGED <<cr, mine>>
    BY <1>5 DEF Reconcile, FindZone, FindList, FindChange, Decide, CreateZone,
       UpdateZone, UpdateChange, DeleteZone, route53
  <2> QED
    BY <2>1, Invisible
<1> QED
  BY <1>1, <1>2, <1>3, <1>4, <1>5 DEF Worker

(* Users and other writers submit, withdraw and lose; nothing else shows. *)
LEMMA EnvironmentMaps ==
  ASSUME TypeOK, NoOrphan, ManagedInv,
         User \/ OtherWriter \/ Crash \/ \E id \in ChangeIds : Propagate(id)
  PROVE  MR!World \/ UNCHANGED MR!vars
<1>1. CASE User
  <2>1. UNCHANGED mine
    BY <1>1 DEF User, route53
  <2>2. CASE cr.phase = "gone" /\ cr'.phase = "live" /\ cr'.fin = FALSE
    BY <2>1, <2>2 DEF NoOrphan, MR!Submit, MR!World
  <2>3. CASE cr'.phase = cr.phase /\ cr'.fin = cr.fin
    BY <2>1, <2>3, Invisible
  <2>4. CASE /\ cr.phase = "live" /\ cr'.phase = (IF cr.fin THEN "deleting" ELSE "gone")
             /\ cr'.fin = cr.fin
    BY <2>1, <2>4 DEF MR!Withdraw, MR!World
  <2>5. CASE /\ cr.phase = "gone"
             /\ \E v \in Values, a \in Adoption :
                  cr' = [phase |-> "live", fin |-> FALSE, adopt |-> a, spec |-> v,
                         status |-> Nil, cond |-> "none"]
    BY <2>2, <2>5
  <2>6. CASE \E v \in Values \ {cr.spec} : cr' = [cr EXCEPT !.spec = v]
    BY <2>3, <2>6 DEF TypeOK, CRs
  <2>7. CASE /\ cr.phase = "live"
             /\ cr' = [cr EXCEPT !.phase = IF cr.fin THEN "deleting" ELSE "gone"]
    BY <2>4, <2>7 DEF TypeOK, CRs
  <2> QED
    BY <1>1, <2>5, <2>6, <2>7, Zenon DEF User
<1>2. CASE OtherWriter
  <2>1. UNCHANGED cr /\ (mine' = mine \/ mine' = FALSE)
    BY <1>2 DEF OtherWriter
  <2>2. CASE mine' = mine
    BY <2>1, <2>2, Invisible
  <2>3. CASE mine' = FALSE /\ mine = TRUE
    BY <2>1, <2>3 DEF MR!Lose, MR!World
  <2> QED
    BY <2>1, <2>2, <2>3 DEF TypeOK
<1>3. CASE Crash \/ \E id \in ChangeIds : Propagate(id)
  <2>1. UNCHANGED <<cr, mine>>
    BY <1>3 DEF Crash, Propagate, route53
  <2> QED
    BY <2>1, Invisible
<1> QED
  BY <1>1, <1>2, <1>3

(* A RecordSet CR implements ManagedResource: whatever fails, crashes or   *)
(* is changed by others, its record is made or adopted under the finalizer *)
(* and removed before it, and only because the CR is withdrawn; and every  *)
(* step of the worker is the controller's.                                 *)
THEOREM ManagedHolds == Spec => Managed
<1>1. Init => MR!Init
  BY DEF Init, MR!Init
<1>2. Inv /\ Inv' /\ [Next]_vars => [MR!Next]_(MR!vars)
  <2> SUFFICES ASSUME Inv, Inv', [Next]_vars PROVE MR!Next \/ UNCHANGED MR!vars
    OBVIOUS
  <2>1. CASE UNCHANGED vars
    BY <2>1, Invisible DEF vars
  <2>2. CASE Worker
    BY <2>2, WorkerMaps DEF Inv, MR!Next
  <2>3. CASE User \/ OtherWriter \/ Crash \/ \E id \in ChangeIds : Propagate(id)
    BY <2>3, EnvironmentMaps DEF Inv, MR!Next
  <2> QED
    BY <2>1, <2>2, <2>3 DEF Next
<1>3. Inv /\ Inv' /\ [Next]_vars => [Worker => [MR!Controller]_(MR!vars)]_vars
  BY WorkerMaps DEF Inv
<1> QED
  BY <1>1, <1>2, <1>3, InvHolds, PTL DEF Spec, Managed, MR!Spec

(* With it the promises of ManagedResource are its own: a record set that  *)
(* exists has a CR with the finalizer, and a CR is never gone before it.   *)
P == INSTANCE ManagedResourceProofs WITH phase <- cr.phase, fin <- cr.fin, exists <- mine

LEMMA SamePromise == MR!Spec => P!Spec
<1>1. MR!Init => P!Init
  BY DEF MR!Init, P!Init
<1>2. [MR!Next]_(MR!vars) => [P!Next]_(P!vars)
  BY DEF MR!vars, MR!Next, MR!World, MR!Submit, MR!Withdraw, MR!Lose,
         MR!Controller, MR!Manage, MR!Adopt, MR!Make, MR!Remove, MR!Release,
         P!vars, P!Next, P!World, P!Submit, P!Withdraw, P!Lose,
         P!Controller, P!Manage, P!Adopt, P!Make, P!Remove, P!Release
<1> QED
  BY <1>1, <1>2, PTL DEF MR!Spec, P!Spec

(* A record set that exists has a custom resource, with the finalizer on   *)
(* it; and the custom resource goes only after it.                         *)
THEOREM NeverLeaksHolds == Spec => []MR!NoLeak /\ MR!LastToGo
<1>1. P!NoLeak => MR!NoLeak
  BY DEF P!NoLeak, MR!NoLeak
<1>2. P!LastToGo => MR!LastToGo
  <2>1. [cr.phase # "gone" /\ (cr.phase)' = "gone" => ~mine]_(P!vars)
          => [cr.phase # "gone" /\ (cr.phase)' = "gone" => ~mine]_(MR!vars)
    BY DEF P!vars, MR!vars
  <2> QED
    BY <2>1, PTL DEF P!LastToGo, MR!LastToGo
<1> QED
  BY <1>1, <1>2, ManagedHolds, SamePromise, P!NoLeakHolds, P!LastToGoHolds, PTL DEF Managed
=============================================================================
