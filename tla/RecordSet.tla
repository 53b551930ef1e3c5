----------------------------- MODULE RecordSet -----------------------------
(***************************************************************************)
(* One RecordSet custom resource (CR), the controller worker that          *)
(* reconciles it, and the Route 53 record sets that share the name and     *)
(* type of the CR.  A reconciliation is split at every call that leaves    *)
(* the process (an AWS API call, a patch of the CR), because users, other  *)
(* writers of the zone, propagation inside Route 53 and a crash of the     *)
(* controller can all act between two of them.                             *)
(*                                                                         *)
(* Abstractions.                                                           *)
(*  - Name and type are fixed; a record set is identified by its set       *)
(*    identifier, a natural number in alphabetical order, 0 standing for   *)
(*    "no set identifier".  Names are the subject of module DNSNames.      *)
(*  - The rest of a record (values, TTL, routing policy) is one value.     *)
(*  - A change ID that nothing refers to any more may be used again.       *)
(*  - The ACK runtime's reconciler is not in the repository: its order of  *)
(*    calls is modelled from the way this code is written against it.      *)
(***************************************************************************)
EXTENDS AckErrors, Integers, FiniteSets

CONSTANTS
  Keys,       \* set identifiers in use; 0 is "no set identifier"
  Own,        \* Spec.SetIdentifier of the CR (immutable, generator.yaml)
  Values,     \* record contents
  Bad,        \* contents Route 53 refuses whatever the zone holds
  Absent,     \* no record set with this identifier
  ChangeIds,  \* identifiers of change batches
  NoId,       \* Status.ID is nil
  ExtKeys,    \* identifiers other writers of the zone touch
  PreKeys,    \* identifiers that may be in use before the CR exists
  Adoption,   \* may the CR carry the adoption policy "adopt-or-create"?
  MaxFaults,  \* bound: failed, lost and refused calls, and crashes
  MaxEdits    \* bound: steps of users and of other writers of the zone

ASSUME KeysAssumption == Keys \subseteq Nat /\ Own \in Keys /\ ExtKeys \cup PreKeys \subseteq Keys
ASSUME ValuesAssumption == Bad \subseteq Values /\ Absent \notin Values
ASSUME AdoptionAssumption == Adoption \subseteq BOOLEAN
ASSUME IdsAssumption == NoId \notin ChangeIds
ASSUME BoundsAssumption == MaxFaults \in Nat /\ MaxEdits \in Nat

VARIABLES
  zoneUp,     \* the hosted zone of the CR exists
  recs,       \* the record sets of the zone with this name and type
  mine,       \* ghost: the record set Own holds was put there or adopted by us
  pending,    \* change batches that have not reached every name server
  lastChange, \* ghost: the batch that last wrote Own, if it was ours
  cr,         \* the custom resource in the Kubernetes API
  queued,     \* the work queue holds the CR
  pc,         \* the worker: the call it makes next
  mode,       \* the worker: why it reads ("sync", "post" create, "delete")
  des,        \* the worker: desired, its copy of the CR
  obs,        \* the worker: latest, what ReadOne returned; fresh, a ghost:
              \* nobody else wrote Own since this reconciliation began
  ret,        \* the worker: the status and condition to be persisted
  faults, edits

route53 == <<zoneUp, recs, mine, pending, lastChange>>
worker  == <<pc, mode, des, obs, ret>>
vars == <<zoneUp, recs, mine, pending, lastChange, cr, queued,
          pc, mode, des, obs, ret, faults, edits>>

-----------------------------------------------------------------------------
(* Status of the CR: the change ID and its propagation status. *)
StatusOf(id, st) == [id |-> id, st |-> st]
Nil == StatusOf(NoId, "nil")
Nothing == [key |-> Own, val |-> Absent, status |-> Nil, fresh |-> FALSE]
Statuses == [id : ChangeIds \cup {NoId}, st : {"nil", "PENDING", "INSYNC"}]

(* A simple record set excludes the ones with an identifier, and is        *)
(* excluded by them.                                                       *)
Exclusive(zone) ==
  \A j, k \in Keys : j # k /\ zone[j] # Absent /\ zone[k] # Absent => j # 0 /\ k # 0

Init ==
  /\ zoneUp = TRUE
  /\ recs \in [Keys -> (Values \ Bad) \cup {Absent}]
  /\ Exclusive(recs) /\ \A k \in Keys \ PreKeys : recs[k] = Absent
  /\ mine = FALSE
  /\ pending = {}
  /\ lastChange = NoId
  /\ cr = [phase |-> "gone", fin |-> FALSE, adopt |-> FALSE, spec |-> Absent,
           status |-> Nil, cond |-> "none"]
  /\ queued = FALSE
  /\ pc = "idle" /\ mode = "sync"
  /\ des = [spec |-> Absent, fin |-> FALSE, adopt |-> FALSE, status |-> Nil]
  /\ obs = Nothing
  /\ ret = [status |-> Nil, cond |-> "none"]
  /\ faults = 0 /\ edits = 0

(* A fault may still happen, and is counted. *)
Fault == faults < MaxFaults /\ faults' = faults + 1
NoFault == UNCHANGED faults

-----------------------------------------------------------------------------
(* Route 53 *)

Compatible(k) == \A j \in Keys : j # k /\ recs[j] # Absent => j # 0 /\ k # 0

(* ChangeResourceRecordSets refuses the batch for what it contains or for  *)
(* what the zone holds; "none" when it applies it.                         *)
CreateAnswer(k, v) ==
  IF ~zoneUp THEN "NoSuchHostedZone"
  ELSE IF v \in Bad \/ ~Compatible(k) THEN "invalidBatch"
  ELSE IF recs[k] # Absent THEN "alreadyExists" ELSE "none"

UpsertAnswer(k, v) ==
  IF ~zoneUp THEN "NoSuchHostedZone"
  ELSE IF v \in Bad \/ ~Compatible(k) THEN "invalidBatch" ELSE "none"

(* DELETE names the whole record set: it must still be what it was. *)
DeleteAnswer(k, v) ==
  IF ~zoneUp THEN "NoSuchHostedZone"
  ELSE IF recs[k] # v THEN "invalidBatch" ELSE "none"

IdsInUse == {cr.status.id, des.status.id, obs.status.id, ret.status.id, lastChange}

(* A batch of the controller that writes v under Own: it starts PENDING. *)
Apply(id, v) ==
  /\ recs' = [recs EXCEPT ![Own] = v]
  /\ mine' = TRUE
  /\ lastChange' = id
  /\ pending' = (pending \cap IdsInUse) \cup {id}
  /\ UNCHANGED zoneUp

Propagate(id) ==
  /\ id \in pending
  /\ pending' = pending \ {id}
  /\ UNCHANGED <<zoneUp, recs, mine, lastChange, cr, queued, worker, faults, edits>>

-----------------------------------------------------------------------------
(* Users, other writers of the zone, time and crashes *)

(* A CR that never had a finalizer is gone as soon as it is deleted. *)
User ==
  /\ edits < MaxEdits /\ edits' = edits + 1
  /\ \/ /\ cr.phase = "gone"
        /\ \E v \in Values, a \in Adoption :
             cr' = [phase |-> "live", fin |-> FALSE, adopt |-> a, spec |-> v,
                    status |-> Nil, cond |-> "none"]
     \/ /\ cr.phase = "live"
        /\ \E v \in Values \ {cr.spec} : cr' = [cr EXCEPT !.spec = v]
     \/ /\ cr.phase = "live"
        /\ cr' = [cr EXCEPT !.phase = IF cr.fin THEN "deleting" ELSE "gone"]
  /\ queued' = TRUE
  /\ UNCHANGED <<route53, worker, faults>>

OtherWriter ==
  /\ edits < MaxEdits /\ edits' = edits + 1
  /\ zoneUp
  /\ \/ \E k \in ExtKeys, v \in Values \ Bad :
          /\ Compatible(k) /\ recs[k] # v
          /\ recs' = [recs EXCEPT ![k] = v]
          /\ lastChange' = IF k = Own THEN NoId ELSE lastChange
          /\ UNCHANGED <<mine, zoneUp>>
     \/ \E k \in ExtKeys :
          /\ recs[k] # Absent
          /\ recs' = [recs EXCEPT ![k] = Absent]
          /\ mine' = IF k = Own THEN FALSE ELSE mine
          /\ lastChange' = IF k = Own THEN NoId ELSE lastChange
          /\ UNCHANGED zoneUp
     \/ /\ \A k \in Keys : recs[k] = Absent   \* else HostedZoneNotEmpty
        /\ zoneUp' = FALSE
        /\ UNCHANGED <<recs, mine, lastChange>>
  /\ obs' = [obs EXCEPT !.fresh = @ /\ recs'[Own] = recs[Own]]
  /\ UNCHANGED <<pending, cr, queued, pc, mode, des, ret, faults>>

(* The worker forgets everything; the informers of the next process list   *)
(* every CR.                                                               *)
Idle ==
  /\ pc' = "idle" /\ mode' = "sync"
  /\ des' = [spec |-> Absent, fin |-> FALSE, adopt |-> FALSE, status |-> Nil]
  /\ obs' = Nothing
  /\ ret' = [status |-> Nil, cond |-> "none"]

Crash ==
  /\ Fault
  /\ Idle
  /\ queued' = TRUE
  /\ UNCHANGED <<route53, cr, edits>>

-----------------------------------------------------------------------------
(* Errors and conditions of the resource manager *)

Mut_demoteNothing(err) == err
demoteTransientChangeBatchError(err) ==
  IF err \in {"alreadyExists", "aliasTarget"} THEN "plain" ELSE err

TerminalCodes == {"InvalidChangeBatch", "InvalidInput", "NoSuchHostedZone", "NoSuchHealthCheck"}

(* onError / onSuccess with ensureConditions of the runtime, which sets    *)
(* ResourceSynced unless the manager has set it to False.                  *)
Mut_alwaysSynced(status) == "Synced"
SyncedUnless(status) ==
  IF status.id # NoId /\ status.st # "INSYNC" THEN "NotSynced" ELSE "Synced"

(* The reconciliation is over: status and condition go to the CR. *)
Return(status, err) ==
  /\ pc' = "patch"
  /\ ret' = [status |-> status,
             cond |-> IF err = "none" THEN SyncedUnless(status)
                      ELSE ConditionOf(err, TerminalCodes)]

Goto(label) == pc' = label /\ UNCHANGED ret

-----------------------------------------------------------------------------
(* The worker: start of a reconciliation, ReadOne *)

Reconcile ==
  /\ pc = "idle" /\ queued /\ cr.phase # "gone"
  /\ queued' = FALSE
  /\ des' = [spec |-> cr.spec, fin |-> cr.fin, adopt |-> cr.adopt, status |-> cr.status]
  /\ obs' = [obs EXCEPT !.fresh = TRUE]
  /\ mode' = IF cr.phase = "deleting" THEN "delete" ELSE "sync"
  /\ Goto("find.zone")
  /\ UNCHANGED <<route53, cr, faults, edits>>

(* ReadOne returned NotFound. *)
FindNotFound ==
  CASE mode = "sync"   -> Goto("create.finalizer")
    [] mode = "post"   -> Return(des.status, "notFound")
    [] mode = "delete" -> Goto("delete.finalizer")

(* getHostedZoneDomain asks Route 53 for the zone whenever a DNS name is   *)
(* built: in sdkFind, and in newResourceRecordSet on every write.          *)
Mut_zoneAnswer == IF zoneUp THEN "none" ELSE "NoSuchHostedZone"
zoneAnswer == IF zoneUp THEN "none" ELSE "notFound"

FindZone ==
  /\ pc = "find.zone"
  /\ \/ /\ NoFault
        /\ CASE zoneAnswer = "none"     -> Goto("find.list")
             [] zoneAnswer = "notFound" -> FindNotFound
             [] OTHER                   -> Return(des.status, zoneAnswer)
     \/ Fault /\ Return(des.status, "OtherAPIError")
  /\ UNCHANGED <<route53, cr, queued, mode, des, obs, edits>>

(* ListResourceRecordSets starts at the identifier of the CR; sdkFind      *)
(* takes the first record set that does not carry another one, and a side  *)
(* without an identifier matches anything.                                 *)
Mut_matches(k) == TRUE
matches(k) == k = Own \/ k = 0 \/ Own = 0

Found == {k \in Keys : k >= Own /\ recs[k] # Absent /\ matches(k)}

FindList ==
  /\ pc = "find.list"
  /\ \/ /\ NoFault
        /\ IF ~zoneUp \/ Found = {}
             THEN FindNotFound /\ UNCHANGED obs
             ELSE \E k \in Found :
                    /\ \A j \in Found : k <= j
                    /\ obs' = [obs EXCEPT !.key = k, !.val = recs[k], !.status = des.status]
                    /\ IF des.status.id # NoId /\ des.status.st # "INSYNC"
                         THEN Goto("find.change") ELSE Goto("decide")
     \/ Fault /\ Return(des.status, "OtherAPIError") /\ UNCHANGED obs
  /\ UNCHANGED <<route53, cr, queued, mode, des, edits>>

(* GetChange, for a change ID whose status is not INSYNC yet. *)
Mut_syncStatus(status) == [status EXCEPT !.st = "INSYNC"]
syncStatus(status) ==
  [status EXCEPT !.st = IF status.id \in pending THEN "PENDING" ELSE "INSYNC"]

FindChange ==
  /\ pc = "find.change"
  /\ \/ /\ NoFault
        /\ obs' = [obs EXCEPT !.status = syncStatus(obs.status)]
        /\ Goto("decide")
     \/ Fault /\ Return(des.status, "OtherAPIError") /\ UNCHANGED obs
  /\ UNCHANGED <<route53, cr, queued, mode, des, edits>>

(* newResourceDelta: identifier and contents. *)
Mut_newResourceDelta == obs.key # Own
newResourceDelta == obs.key # Own \/ obs.val # des.spec

(* The CR carried the finalizer when it was read. *)
Mut_IsManaged == TRUE
IsManaged == des.fin

(* What the reconciler does with the resource ReadOne found.  A record set *)
(* that exists while the CR has no finalizer is not ours to update, unless *)
(* the CR asks for its adoption.                                           *)
Decide ==
  /\ pc = "decide"
  /\ CASE mode = "delete"             -> Goto("delete.zone")
       [] mode = "post"               -> Return(obs.status, "none")
       [] mode = "sync" /\ ~IsManaged ->
            IF des.adopt THEN Goto("adopt") ELSE Return(obs.status, "terminalError")
       [] mode = "sync" /\ IsManaged  ->
            IF newResourceDelta THEN Goto("update.zone") ELSE Return(obs.status, "none")
  /\ UNCHANGED <<route53, cr, queued, mode, des, obs, faults, edits>>

(* The finalizer makes what was found ours; then it is brought up to date. *)
Adopt ==
  /\ pc = "adopt"
  /\ \/ /\ NoFault /\ cr.phase # "gone"
        /\ cr' = [cr EXCEPT !.fin = TRUE]
        /\ des' = [des EXCEPT !.fin = TRUE]
        /\ mine' = (recs[Own] # Absent)
        /\ IF newResourceDelta THEN Goto("update.zone") ELSE Return(obs.status, "none")
     \/ /\ NoFault /\ cr.phase = "gone"
        /\ Return(obs.status, "plain") /\ UNCHANGED <<cr, des, mine>>
     \/ Fault /\ Return(obs.status, "plain") /\ UNCHANGED <<cr, des, mine>>
  /\ UNCHANGED <<zoneUp, recs, pending, lastChange, queued, mode, obs, edits>>

-----------------------------------------------------------------------------
(* The worker: Create *)

(* setResourceManaged: the finalizer is on the CR before the AWS call. *)
AddFinalizer ==
  /\ pc = "create.finalizer"
  /\ \/ /\ NoFault
        /\ IF cr.phase = "gone"
             THEN Return(des.status, "plain") /\ UNCHANGED <<cr, des>>
             ELSE /\ cr' = [cr EXCEPT !.fin = TRUE]
                  /\ des' = [des EXCEPT !.fin = TRUE]
                  /\ Goto("create.zone")
     \/ ~IsManaged /\ Fault /\ Return(des.status, "plain") /\ UNCHANGED <<cr, des>>
  /\ UNCHANGED <<route53, queued, mode, obs, edits>>

(* Create returned an error and no resource.  Where the error is the       *)
(* answer of the API, the reconciler may take the finalizer off again.     *)
CreateFailed(err) ==
  LET e == demoteTransientChangeBatchError(err) IN
  \/ Return(des.status, e)
  \/ /\ IsAPIError(e)
     /\ pc' = "create.release"
     /\ ret' = [status |-> des.status, cond |-> ConditionOf(e, TerminalCodes)]

CreateZone ==
  /\ pc = "create.zone"
  /\ \/ /\ NoFault
        /\ IF zoneAnswer = "none" THEN Goto("create.call") ELSE CreateFailed(zoneAnswer)
     \/ Fault /\ CreateFailed("OtherAPIError")
  /\ UNCHANGED <<route53, cr, queued, mode, des, obs, edits>>

(* The call of sdkCreate, and the response it never sees.  A resource that *)
(* was created is read once more.                                          *)
CreateCall ==
  LET answer == CreateAnswer(Own, des.spec) IN
  /\ pc = "create.call"
  /\ \/ /\ NoFault /\ answer = "none"
        /\ \E id \in ChangeIds \ IdsInUse :
             /\ Apply(id, des.spec)
             /\ des' = [des EXCEPT !.status = StatusOf(id, "PENDING")]
        /\ mode' = "post"
        /\ Goto("find.zone")
     \/ /\ NoFault /\ answer # "none"
        /\ CreateFailed(answer)
        /\ UNCHANGED <<route53, mode, des>>
     \/ /\ Fault /\ answer = "none"
        /\ \E id \in ChangeIds \ IdsInUse : Apply(id, des.spec)
        /\ CreateFailed("plain")
        /\ UNCHANGED <<mode, des>>
     \/ /\ Fault
        /\ \E err \in {"plain", "aliasTarget"} : CreateFailed(err)
        /\ UNCHANGED <<route53, mode, des>>
  /\ UNCHANGED <<cr, queued, obs, edits>>

ReleaseFinalizer ==
  /\ pc = "create.release"
  /\ \/ NoFault /\ cr' = [cr EXCEPT !.fin = FALSE,
                                    !.phase = IF @ = "deleting" THEN "gone" ELSE @]
     \/ Fault /\ UNCHANGED cr
  /\ Goto("patch")
  /\ UNCHANGED <<route53, queued, mode, des, obs, edits>>

-----------------------------------------------------------------------------
(* The worker: Update (customUpdateRecordSet) *)

(* No updated resource: onError marks latest, what ReadOne returned. *)
UpdateFailed(err) == Return(obs.status, err)

UpdateZone ==
  /\ pc = "update.zone"
  /\ \/ /\ NoFault
        /\ IF zoneAnswer = "none" THEN Goto("update.call") ELSE UpdateFailed(zoneAnswer)
     \/ Fault /\ UpdateFailed("OtherAPIError")
  /\ UNCHANGED <<route53, cr, queued, mode, des, obs, edits>>

(* The UPSERT was refused, or its answer was lost: the change ID of the    *)
(* previous batch is dropped.                                              *)
UpsertFailed(err) == Return(Nil, demoteTransientChangeBatchError(err))

Mut_StatusOfResponse(id) == [des.status EXCEPT !.id = id]
StatusOfResponse(id) == StatusOf(id, "PENDING")

UpdateCall ==
  LET answer == UpsertAnswer(Own, des.spec) IN
  /\ pc = "update.call"
  /\ \/ /\ NoFault /\ answer = "none"
        /\ \E id \in ChangeIds \ IdsInUse :
             /\ Apply(id, des.spec)
             /\ des' = [des EXCEPT !.status = StatusOfResponse(id)]
        /\ IF des'.status.st = "INSYNC"
             THEN Return(des'.status, "none") ELSE Goto("update.change")
     \/ /\ NoFault /\ answer # "none"
        /\ UpsertFailed(answer)
        /\ UNCHANGED <<route53, des>>
     \/ /\ Fault /\ answer = "none"
        /\ \E id \in ChangeIds \ IdsInUse : Apply(id, des.spec)
        /\ UpsertFailed("plain")
        /\ UNCHANGED des
     \/ /\ Fault
        /\ \E err \in {"plain", "aliasTarget"} : UpsertFailed(err)
        /\ UNCHANGED <<route53, des>>
  /\ UNCHANGED <<cr, queued, mode, obs, edits>>

(* The batch was applied; if its status cannot be read, nil is returned    *)
(* and with it the new change ID is lost.                                  *)
UpdateChange ==
  /\ pc = "update.change"
  /\ \/ NoFault /\ Return(syncStatus(des.status), "none")
     \/ Fault /\ UpdateFailed("OtherAPIError")
  /\ UNCHANGED <<route53, cr, queued, mode, des, obs, edits>>

-----------------------------------------------------------------------------
(* The worker: Delete *)

DeleteFailed(err) == Return(obs.status, err)

DeleteZone ==
  /\ pc = "delete.zone"
  /\ \/ /\ NoFault
        /\ IF zoneAnswer = "none" THEN Goto("delete.call") ELSE DeleteFailed(zoneAnswer)
     \/ Fault /\ DeleteFailed("OtherAPIError")
  /\ UNCHANGED <<route53, cr, queued, mode, des, obs, edits>>

(* sdkDelete names the record set ReadOne found. *)
Remove(k) ==
  /\ recs' = [recs EXCEPT ![k] = Absent]
  /\ mine' = IF k = Own THEN FALSE ELSE mine
  /\ lastChange' = IF k = Own THEN NoId ELSE lastChange
  /\ UNCHANGED <<zoneUp, pending>>

DeleteCall ==
  LET answer == DeleteAnswer(obs.key, obs.val) IN
  /\ pc = "delete.call"
  /\ \/ NoFault /\ answer = "none" /\ Remove(obs.key) /\ Goto("delete.finalizer")
     \/ NoFault /\ answer # "none" /\ DeleteFailed(answer) /\ UNCHANGED route53
     \/ Fault /\ answer = "none" /\ Remove(obs.key) /\ DeleteFailed("plain")
     \/ Fault /\ DeleteFailed("plain") /\ UNCHANGED route53
  /\ UNCHANGED <<cr, queued, mode, des, obs, edits>>

(* setResourceUnmanaged: Kubernetes drops the CR with its last finalizer. *)
RemoveFinalizer ==
  /\ pc = "delete.finalizer"
  /\ \/ /\ NoFault
        /\ cr' = [cr EXCEPT !.fin = FALSE, !.phase = IF @ = "deleting" THEN "gone" ELSE @]
        /\ Idle
     \/ /\ Fault
        /\ Return(des.status, "plain")
        /\ UNCHANGED <<cr, mode, des, obs>>
  /\ UNCHANGED <<route53, queued, edits>>

-----------------------------------------------------------------------------
(* The worker: end of a reconciliation.  A failed patch is only logged.    *)
(* Everything but a Terminal result comes back: at once, after a backoff,  *)
(* or with the resync period.                                              *)
PatchStatus ==
  /\ pc = "patch"
  /\ \/ /\ NoFault
        /\ cr' = IF cr.phase = "gone" THEN cr
                 ELSE [cr EXCEPT !.status = ret.status, !.cond = ret.cond]
     \/ Fault /\ UNCHANGED cr
  /\ queued' = (queued \/ ret.cond # "Terminal")
  /\ Idle
  /\ UNCHANGED <<route53, edits>>

Worker ==
  \/ Reconcile \/ FindZone \/ FindList \/ FindChange \/ Decide \/ Adopt
  \/ AddFinalizer \/ CreateZone \/ CreateCall \/ ReleaseFinalizer
  \/ UpdateZone \/ UpdateCall \/ UpdateChange
  \/ DeleteZone \/ DeleteCall \/ RemoveFinalizer
  \/ PatchStatus

Next == Worker \/ User \/ OtherWriter \/ Crash \/ \E id \in ChangeIds : Propagate(id)

Spec == Init /\ [][Next]_vars

(* A worker that has something to do does it; every batch propagates.      *)
FairSpec == Spec /\ WF_vars(Worker) /\ \A id \in ChangeIds : WF_vars(Propagate(id))

-----------------------------------------------------------------------------
Labels == {"idle", "find.zone", "find.list", "find.change", "decide", "adopt",
           "create.finalizer", "create.zone", "create.call", "create.release",
           "update.zone", "update.call", "update.change",
           "delete.zone", "delete.call", "delete.finalizer", "patch"}

CRs == [phase : {"live", "deleting", "gone"}, fin : BOOLEAN, adopt : BOOLEAN,
        spec : Values \cup {Absent}, status : Statuses, cond : Conditions]
Desired == [spec : Values \cup {Absent}, fin : BOOLEAN, adopt : BOOLEAN, status : Statuses]
Observed == [key : Keys, val : Values \cup {Absent}, status : Statuses, fresh : BOOLEAN]
Results == [status : Statuses, cond : Conditions]

(* Every variable stays in its type. *)
TypeOK ==
  /\ zoneUp \in BOOLEAN
  /\ recs \in [Keys -> Values \cup {Absent}]
  /\ mine \in BOOLEAN
  /\ pending \subseteq ChangeIds
  /\ lastChange \in ChangeIds \cup {NoId}
  /\ cr \in CRs
  /\ queued \in BOOLEAN
  /\ pc \in Labels
  /\ mode \in {"sync", "post", "delete"}
  /\ des \in Desired
  /\ obs \in Observed
  /\ ret \in Results
  /\ faults \in 0..MaxFaults
  /\ edits \in 0..MaxEdits

(* NoOrphan: as long as the record set the controller put into the zone,   *)
(* or adopted, is still there, the CR exists and carries the ACK           *)
(* finalizer, so that its deletion will come back to the record; through   *)
(* lost answers, crashes, refused creates and a deletion of the CR at any  *)
(* point (sdkCreate's deferred WrapPostCreateError and the finalizer       *)
(* handling it relies on).                                                 *)
NoOrphan == mine => cr.phase # "gone" /\ cr.fin

(* SettledForGood: a status INSYNC that is persisted next to a change ID   *)
(* is true of that very change: syncStatus never asks about it again.      *)
SettledForGood == cr.status.st = "INSYNC" => cr.status.id \notin pending

(* SyncedIsSettled: a CR that says Synced names no change that is still on *)
(* its way to the name servers, whichever status patches and GetChange     *)
(* calls fail in between (sdk.go:288, Status represents whether record     *)
(* changes have been fully propagated).                                    *)
SyncedIsSettled == cr.cond = "Synced" => cr.status.id \notin pending

(* SyncedReflects: a reconciliation reports Synced only when the record    *)
(* set is in the zone as the worker was asked for it, whether it has just  *)
(* created it, has updated or adopted it or has found nothing to do;       *)
(* unless somebody else wrote it meanwhile (sdk.go:288 and the delta of    *)
(* delta.go).                                                              *)
SyncedReflects ==
  pc = "patch" /\ ret.cond = "Synced" /\ obs.fresh => recs[Own] = des.spec

Reading  == {"find.zone", "find.list", "find.change", "decide"}

(* WritesAreManaged: the controller creates, changes or deletes a record   *)
(* only while the CR carries its finalizer.                                *)
WritesAreManaged == [][Worker /\ recs' # recs => cr.fin]_vars

(* DeletesOnlyOwn: sdkDelete, which names whatever ReadOne found, removes  *)
(* no record set but the one the CR identifies (generator.yaml:150,        *)
(* match_fields HostedZoneId, Name, SetIdentifier).                        *)
DeletesOnlyOwn == [][DeleteCall => \A k \in Keys \ {Own} : recs'[k] = recs[k]]_vars

(* Managed: a RecordSet CR implements ManagedResource, and what the worker *)
(* does is the controller's part of it: the finalizer comes first and goes *)
(* last, nothing is removed that nobody asked to remove, and no patch of   *)
(* the status loses the resource (descriptor.go MarkManaged,               *)
(* MarkUnmanaged).                                                         *)
MR == INSTANCE ManagedResource WITH phase <- cr.phase, fin <- cr.fin, exists <- mine
Managed == MR!Spec /\ [][Worker => [MR!Controller]_(MR!vars)]_vars

(* InsyncIsCurrent: a CR at rest that is reported synced with status       *)
(* INSYNC says so of the last batch that wrote its record, not of an       *)
(* earlier one (hooks.go:266: the status eventually becomes INSYNC after   *)
(* an update; hooks.go:278: INSYNC means fully propagated).                *)
InsyncIsCurrent ==
  pc = "idle" /\ cr.phase = "live" /\ cr.cond = "Synced" /\ cr.status.st = "INSYNC"
    => lastChange \notin pending

(* RoundEnds: every step of the worker brings the reconciliation nearer to *)
(* its end, through the read that follows a create and whatever fails: it  *)
(* makes at most CallsLeft calls more and gives the CR back to the queue.  *)
CallsLeft ==
  CASE pc = "idle"                            -> 0
    [] pc = "patch"                           -> 1
    [] pc \in {"create.release", "update.change", "delete.finalizer"} -> 2
    [] pc \in {"update.call", "delete.call"} -> 3
    [] pc \in {"update.zone", "delete.zone"} -> 4
    [] pc = "adopt"                           -> 5
    [] pc = "create.call"                     -> 10
    [] pc = "create.zone"                     -> 11
    [] pc = "create.finalizer"                -> 12
    [] pc \in Reading ->
         (CASE pc = "decide" -> 6 [] pc = "find.change" -> 7
            [] pc = "find.list" -> 8 [] pc = "find.zone" -> 9)
         + (IF mode = "sync" THEN 10 ELSE 0)

RoundEnds == [][Worker /\ pc # "idle" => CallsLeft' < CallsLeft]_vars

(* Deletes: a CR that is being deleted disappears, and with it its record, *)
(* however calls fail and the controller crashes.                          *)
Deletes == cr.phase = "deleting" ~> cr.phase = "gone"

(* Converges: once users and other writers are done, a CR that is managed, *)
(* or that asks for the adoption of what is there, and whose contents      *)
(* Route 53 accepts ends with its record in the zone and Synced: no        *)
(* "already exists" or "alias target" refusal, lost answer or crash        *)
(* latches it (demoteTransientChangeBatchError), and an adopted one does   *)
(* not wait for a change ID it never gets (sdk.go:291).                    *)
Converges ==
  <>[](cr.phase = "live" /\ (cr.fin \/ cr.adopt) /\ cr.spec \notin Bad /\ zoneUp
         => recs[Own] = cr.spec /\ cr.cond = "Synced")

-----------------------------------------------------------------------------
(* The inductive invariant behind the safety properties.                   *)

Creating == {"create.zone", "create.call", "create.release"}
Updating == {"update.zone", "update.call", "update.change"}
Deleting == {"delete.zone", "delete.call", "delete.finalizer"}

(* The zone: nothing is left of a deleted one, a simple record set is      *)
(* alone, and what we put under Own is there.                              *)
ZoneInv ==
  /\ ~zoneUp => recs[Own] = Absent
  /\ Exclusive(recs)
  /\ mine => recs[Own] # Absent

(* The finalizer: the worker's belief in it outlives every step but its    *)
(* own release, and every write is made in that belief.                    *)
ManagedInv ==
  /\ cr.phase # "gone" => cr.spec \in Values
  /\ pc # "idle" => des.spec \in Values
  /\ cr.phase = "deleting" => cr.fin
  /\ pc \in Deleting \/ (mode = "delete" /\ pc \in Reading) => cr.phase = "deleting"
  /\ des.fin /\ pc # "patch" => cr.fin /\ cr.phase # "gone"
  /\ pc \in Creating \cup Updating \cup Deleting => des.fin
  /\ mode = "delete" /\ pc \in Reading => des.fin
  /\ mode = "post" /\ pc \in Reading => des.fin

(* What the worker knows of the zone: where the finalizer may be taken     *)
(* off, or a record is about to be created, nothing of ours is there; and  *)
(* a DELETE names a record set that sdkFind matched.                       *)
KnowledgeInv ==
  /\ pc \in Creating \cup {"create.finalizer", "delete.finalizer"} => ~mine
  /\ pc \in {"find.change", "decide", "delete.zone", "delete.call"}
       => matches(obs.key) /\ obs.key >= Own /\ obs.val # Absent

(* Whoever holds a status INSYNC holds it with a settled change.           *)
Settled(status) == status.st = "INSYNC" => status.id \notin pending

StatusInv == \A status \in {cr.status, des.status, obs.status, ret.status} : Settled(status)

(* Synced is only said of a settled change or of none. *)
Honest(r) == r.cond = "Synced" => r.status.id = NoId \/ r.status.st = "INSYNC"

HonestInv == Honest(cr) /\ Honest(ret)

(* As long as nobody else writes Own, it holds what was read, and after a  *)
(* CREATE or an UPSERT what was asked for.                                 *)
ReflectsInv ==
  /\ pc = "create.release" => ret.cond # "Synced"
  /\ obs.fresh =>
       /\ pc = "update.change" \/ (mode = "post" /\ pc \in Reading) => recs[Own] = des.spec
       /\ pc \in {"find.change", "decide", "adopt"} /\ obs.key = Own => recs[Own] = obs.val
  /\ SyncedReflects

(* Where a batch of ours was the last to write Own, Own is ours; and       *)
(* GetChange is only asked about a change.                                 *)
ChangeInv ==
  /\ lastChange # NoId => mine
  /\ pc = "find.change" => obs.status.id # NoId
  /\ pc = "update.change" => des.status.id # NoId

(* The statuses that may still reach the CR, or have: until something      *)
(* fails, they name no other change than the last one.                     *)
Spoken ==
  CASE pc = "idle"  -> {cr.status}
    [] pc = "patch" -> {ret.status}
    [] pc \in {"find.change", "decide", "adopt", "update.zone", "update.call",
               "delete.zone", "delete.call"} -> {des.status, obs.status}
    [] OTHER        -> {des.status}

LatestInv ==
  faults = 0 /\ lastChange # NoId =>
    \A status \in Spoken : status = Nil \/ status.id = lastChange

(* Inv: the strengthening of NoOrphan, SyncedReflects and the properties   *)
(* of the status, InsyncIsCurrent included, that every step preserves; it  *)
(* says where in a reconciliation the finalizer, the zone, the last change *)
(* and the worker's copies must agree.                                     *)
Inv ==
  /\ TypeOK /\ NoOrphan
  /\ ZoneInv /\ ManagedInv /\ KnowledgeInv
  /\ StatusInv /\ HonestInv /\ ReflectsInv
  /\ ChangeInv /\ LatestInv
=============================================================================
