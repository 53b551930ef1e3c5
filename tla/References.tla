----------------------------- MODULE References -----------------------------
(***************************************************************************)
(* A RecordSet custom resource that names its hosted zone and its health   *)
(* check by reference, together with the HostedZone and HealthCheck CRs it *)
(* refers to: a second look at the record set manager, where RecordSet     *)
(* takes the zone for given.                                               *)
(*                                                                         *)
(* Abstractions.                                                           *)
(*  - The two referenced kinds are alike here: a CR with a status ID and a *)
(*    ResourceSynced condition, whose own controller keeps providing it    *)
(*    with an AWS resource (HostedZone and HealthCheck have the details).  *)
(*  - Contents of a record: the health check it carries.  Its name and set *)
(*    identifier are fixed, and nobody else writes it.                     *)
(*  - A health check is given by reference, or not at all; an ID without a *)
(*    reference is not resolved and would be one more part of the contents.*)
(*    A reference whose name is empty, or in a namespace that is not       *)
(*    allowed, is as good as one to a CR that never exists.                *)
(*  - ReadOne is one step, and so are the patches at the end of a          *)
(*    reconciliation; RecordSet takes both apart.                          *)
(*  - The runtime ignores the error of ResolveReferences when a CR is in   *)
(*    deletion and goes on with what was resolved.                         *)
(***************************************************************************)
EXTENDS AckErrors, Integers, FiniteSets

CONSTANTS
  ZoneRefs,     \* names of HostedZone CRs
  CheckRef,     \* name of the HealthCheck CR
  NoRef,        \* HostedZoneRef is nil
  EmptyRef,     \* HostedZoneRef is there, and names nothing: its From is nil
  ZoneIds, CheckIds,
  NoId,         \* a nil ID; in a record, no health check
  Absent,       \* the zone has no such record
  Targets,      \* what users write into HostedZoneRef and HostedZoneID; "clash": also
                \* into HealthCheckID, next to HealthCheckRef
  MaxFaults,    \* bound: failing calls, lost answers and crashes
  MaxEdits,     \* bound: steps of the user of the RecordSet CR
  MaxRetargets, \* bound: edits that change the target of a valid CR, or of one
                \* that was made anew while the worker is busy with it
  MaxMoves      \* bound: steps of users and others on what it refers to

ASSUME RefsAssumption ==
  NoRef \notin ZoneRefs /\ CheckRef \notin ZoneRefs /\ EmptyRef \notin ZoneRefs \cup {NoRef}
ASSUME RefIdsAssumption ==
  NoId \notin ZoneIds \cup CheckIds /\ Absent \notin CheckIds \cup {NoId}
ASSUME TargetsAssumption ==
  Targets \subseteq [ref : ZoneRefs \cup {NoRef, EmptyRef}, id : ZoneIds \cup {NoId},
                     clash : BOOLEAN]

Named == ZoneRefs \cup {CheckRef}
IdsOf(n) == IF n = CheckRef THEN CheckIds ELSE ZoneIds

VARIABLES
  refd,    \* the referenced CRs
  up,      \* Route 53: the hosted zones and health checks that exist
  recs,    \* Route 53: the record in each zone
  cr, queued,
  wish,    \* ghost: the target its user wrote last
  pc, mode,
  des,     \* the worker: desired; "zone" and "check" are the IDs in its Spec
  obs,     \* the worker: contents ReadOne found
  faults, edits, retargets, moves

k8s == <<cr, queued, wish>>
world == <<refd, up, recs>>
userBounds == <<edits, retargets, moves>>
vars == <<refd, up, recs, cr, queued, wish, pc, mode, des, obs, faults, edits, retargets, moves>>

NoTarget == [ref |-> NoRef, id |-> NoId, clash |-> FALSE]
NoDesired == [asked |-> NoTarget, checked |-> FALSE, fin |-> FALSE, zone |-> NoId, check |-> NoId]

Idle == pc' = "idle" /\ mode' = "sync" /\ des' = NoDesired /\ obs' = Absent

(* A zone that users name by its ID exists from the start. *)
Init ==
  /\ refd = [n \in Named |-> [phase |-> "gone", synced |-> FALSE, id |-> NoId]]
  /\ up = {t.id : t \in Targets} \ {NoId}
  /\ recs = [z \in ZoneIds |-> Absent]
  /\ cr = [phase |-> "gone", fin |-> FALSE, target |-> NoTarget, checked |-> FALSE,
           cond |-> "none"]
  /\ queued = FALSE /\ wish = NoTarget
  /\ pc = "idle" /\ mode = "sync" /\ des = NoDesired /\ obs = Absent
  /\ faults = 0 /\ edits = 0 /\ retargets = 0 /\ moves = 0

Fault == faults < MaxFaults /\ faults' = faults + 1
NoFault == UNCHANGED faults

-----------------------------------------------------------------------------
(* The CRs the record set refers to, and their AWS resources *)

Move == moves < MaxMoves /\ moves' = moves + 1

InUse(id) == id \in ZoneIds /\ recs[id] # Absent

Becomes(n, r) == refd' = [refd EXCEPT ![n] = r]

(* Users submit and withdraw it, and its condition comes and goes. *)
ReferencedUser(n) ==
  /\ Move
  /\ \/ refd[n].phase = "gone" /\ Becomes(n, [phase |-> "live", synced |-> FALSE, id |-> NoId])
     \/ /\ refd[n].phase = "live"
        /\ Becomes(n, [refd[n] EXCEPT !.phase = IF refd[n].id = NoId THEN "gone" ELSE "deleting"])
     \/ /\ refd[n].phase = "live" /\ refd[n].id # NoId
        /\ Becomes(n, [refd[n] EXCEPT !.synced = ~@])
  /\ UNCHANGED <<up, recs, k8s, pc, mode, des, obs, faults, edits, retargets>>

(* Its controller provides an AWS resource, again if it has disappeared;   *)
(* and takes it away with the CR, which Route 53 refuses for a hosted zone *)
(* that still has a record.                                                *)
ReferencedController(n) ==
  /\ \/ /\ refd[n].phase = "live" /\ refd[n].id \notin up
        /\ \E id \in IdsOf(n) \ (up \cup {refd[n].id, des.zone, des.check}) :
             /\ \A z \in ZoneIds : recs[z] # id
             /\ up' = up \cup {id}
             /\ Becomes(n, [refd[n] EXCEPT !.id = id, !.synced = TRUE])
     \/ /\ refd[n].phase = "deleting" /\ ~InUse(refd[n].id)
        /\ up' = up \ {refd[n].id}
        /\ Becomes(n, [phase |-> "gone", synced |-> FALSE, id |-> NoId])
     \/ /\ refd[n].phase = "deleting" /\ InUse(refd[n].id) /\ refd[n].synced
        /\ Becomes(n, [refd[n] EXCEPT !.synced = FALSE])
        /\ UNCHANGED up
  /\ UNCHANGED <<recs, k8s, pc, mode, des, obs, faults, userBounds>>

(* Somebody removes the AWS resource itself, a zone with its records. *)
Vanish(n) ==
  /\ Move
  /\ refd[n].id \in up
  /\ up' = up \ {refd[n].id}
  /\ recs' = [z \in ZoneIds |-> IF z = refd[n].id THEN Absent ELSE recs[z]]
  /\ UNCHANGED <<refd, k8s, pc, mode, des, obs, faults, edits, retargets>>

-----------------------------------------------------------------------------
(* The RecordSet CR: its user, and crashes *)

(* validateReferenceFields: exactly one of reference and ID for the zone,  *)
(* at most one of them for the health check.                               *)
Mut_validateReferenceFields(target) == target # NoTarget
validateReferenceFields(target) ==
  ~target.clash /\ (target.ref = NoRef) # (target.id = NoId)

(* Taking a valid target away is counted. *)
Keeps(old, new) ==
  IF validateReferenceFields(old) /\ new # old
    THEN retargets < MaxRetargets /\ retargets' = retargets + 1
    ELSE UNCHANGED retargets

(* HostedZoneID is immutable once set (a rule of the CRD); HostedZoneRef   *)
(* is not.                                                                 *)
MayEdit(old, new) ==
  /\ old.id # NoId /\ new.id # NoId => old.id = new.id
  /\ Keeps(old, new)

User ==
  /\ edits < MaxEdits /\ edits' = edits + 1
  /\ \/ /\ cr.phase = "gone"
        /\ \E t \in Targets, c \in BOOLEAN :
             /\ t.clash => c
             /\ Keeps(des.asked, t)   \* the worker may still be busy with an earlier CR
             /\ cr' = [phase |-> "live", fin |-> FALSE, target |-> t, checked |-> c, cond |-> "none"]
             /\ wish' = t
     \/ /\ cr.phase = "live"
        /\ \E t \in Targets, c \in BOOLEAN :
             /\ t # cr.target \/ c # cr.checked
             /\ t.clash => c
             /\ MayEdit(cr.target, t)
             /\ cr' = [cr EXCEPT !.target = t, !.checked = c]
             /\ wish' = t
     \/ /\ cr.phase = "live"
        /\ cr' = [cr EXCEPT !.phase = IF cr.fin THEN "deleting" ELSE "gone"]
        /\ UNCHANGED <<retargets, wish>>
  /\ queued' = TRUE
  /\ UNCHANGED <<world, pc, mode, des, obs, faults, moves>>

Crash ==
  /\ Fault
  /\ Idle
  /\ queued' = TRUE
  /\ UNCHANGED <<world, cr, wish, userBounds>>

-----------------------------------------------------------------------------
(* End of a reconciliation *)

TerminalCodes == {"InvalidChangeBatch", "InvalidInput", "NoSuchHostedZone", "NoSuchHealthCheck"}

Goto(label) == pc' = label /\ UNCHANGED k8s

(* The condition goes to the CR; only a Terminal one is not retried. *)
ReturnCR(c, cond) ==
  /\ cr' = IF c.phase = "gone" THEN c ELSE [c EXCEPT !.cond = cond]
  /\ queued' = (queued \/ cond # "Terminal")
  /\ Idle /\ UNCHANGED wish

Return(cond) == ReturnCR(cr, cond)
ReturnError(err) == Return(ConditionOf(err, TerminalCodes))

Released(c) == [c EXCEPT !.fin = FALSE, !.phase = IF @ = "deleting" THEN "gone" ELSE @]

-----------------------------------------------------------------------------
(* ResolveReferences *)

Reconcile ==
  /\ pc = "idle" /\ queued /\ cr.phase # "gone"
  /\ queued' = FALSE
  /\ pc' = "resolve.check"
  /\ mode' = IF cr.phase = "deleting" THEN "delete" ELSE "sync"
  /\ des' = [asked |-> cr.target, checked |-> cr.checked, fin |-> cr.fin,
             zone |-> cr.target.id, check |-> NoId]
  /\ UNCHANGED <<world, cr, wish, obs, faults, userBounds>>

(* getReferencedResourceState: it exists, is Synced (hence not Terminal)   *)
(* and has an ID.                                                          *)
Ready(n) == refd[n].phase # "gone" /\ refd[n].synced /\ refd[n].id # NoId

(* An error of ResolveReferences, which returns the resource all the same, *)
(* with what has been resolved so far.                                     *)
Unresolved ==
  \/ mode = "delete" /\ Goto("read") /\ UNCHANGED <<mode, des, obs>>
  \/ mode # "delete" /\ Return("NotSynced")

ResolveHealthCheck ==
  /\ pc = "resolve.check"
  /\ \/ /\ NoFault /\ ~des.checked
        /\ Goto("resolve.zone") /\ UNCHANGED <<mode, des, obs>>
     \/ /\ NoFault /\ des.checked /\ Ready(CheckRef)
        /\ des' = [des EXCEPT !.check = refd[CheckRef].id]
        /\ Goto("resolve.zone") /\ UNCHANGED <<mode, obs>>
     \/ NoFault /\ des.checked /\ ~Ready(CheckRef) /\ Unresolved
     \/ Fault /\ des.checked /\ Unresolved
  /\ UNCHANGED <<world, userBounds>>

(* The resolved ID overwrites the one in the spec; a reference without     *)
(* From is passed over.  The error of validateReferenceFields is found     *)
(* first and returned last.                                                *)
ResolveHostedZone ==
  LET ref == des.asked.ref
      found == ref \in ZoneRefs => Ready(ref)
      valid == validateReferenceFields(des.asked)
  IN
  /\ pc = "resolve.zone"
  /\ \/ /\ NoFault /\ found /\ (mode # "delete" => valid)
        /\ des' = [des EXCEPT !.zone = IF ref \in ZoneRefs THEN refd[ref].id ELSE @]
        /\ Goto("read") /\ UNCHANGED <<mode, obs>>
     \/ NoFault /\ found /\ ~valid /\ mode # "delete" /\ Return("NotSynced")
     \/ NoFault /\ ~found /\ Unresolved
     \/ Fault /\ ref \in ZoneRefs /\ Unresolved
  /\ UNCHANGED <<world, userBounds>>

(* What a patch of the spec writes: the fields in which the resource the   *)
(* worker holds and the one it read differ, both cleared.                  *)
Mut_ClearResolvedReferences(target) == target
ClearResolvedReferences(target) ==
  IF target.ref = NoRef THEN target ELSE [target EXCEPT !.id = NoId]

SpecPatch(target) ==
  LET new == ClearResolvedReferences([des.asked EXCEPT !.id = des.zone]) IN
  IF new = ClearResolvedReferences(des.asked) THEN target ELSE [target EXCEPT !.id = new.id]

-----------------------------------------------------------------------------
(* ReadOne, and what the reconciler does next *)

(* Without an ID the request is not even sent; NoSuchHostedZone becomes    *)
(* the error NotFound.                                                     *)
Mut_zoneAnswer == IF des.zone \in up THEN "none" ELSE "plain"
zoneAnswer ==
  IF des.zone = NoId THEN "plain" ELSE IF des.zone \in up THEN "none" ELSE "notFound"

ReadNotFound ==
  \/ mode = "sync" /\ Goto("create.finalizer") /\ UNCHANGED <<mode, des, obs>>
  \/ mode = "post" /\ ReturnError("notFound")
  \/ mode = "delete" /\ Goto("delete.finalizer") /\ UNCHANGED <<mode, des, obs>>

ReadFound ==
  LET found == recs[des.zone] IN
  \/ mode = "post" /\ Return("Synced")
  \/ mode = "sync" /\ ~des.fin /\ ReturnError("terminalError")
  \/ mode = "sync" /\ des.fin /\ found = des.check /\ Return("Synced")
  \/ /\ mode = "delete" \/ (mode = "sync" /\ des.fin /\ found # des.check)
     /\ obs' = found
     /\ Goto("lookup") /\ UNCHANGED <<mode, des>>

Read ==
  /\ pc = "read"
  /\ \/ /\ NoFault
        /\ \/ zoneAnswer = "plain" /\ ReturnError("plain")
           \/ zoneAnswer = "notFound" /\ ReadNotFound
           \/ zoneAnswer = "none" /\ recs[des.zone] = Absent /\ ReadNotFound
           \/ zoneAnswer = "none" /\ recs[des.zone] # Absent /\ ReadFound
     \/ Fault /\ ReturnError("OtherAPIError")
  /\ UNCHANGED <<world, userBounds>>

AddFinalizer ==
  /\ pc = "create.finalizer"
  /\ \/ /\ NoFault /\ cr.phase # "gone"
        /\ cr' = [cr EXCEPT !.fin = TRUE, !.target = SpecPatch(@)]
        /\ des' = [des EXCEPT !.fin = TRUE]
        /\ pc' = "lookup" /\ UNCHANGED <<queued, wish, mode, obs>>
     \/ NoFault /\ cr.phase = "gone" /\ ReturnError("plain")
     \/ ~des.fin /\ Fault /\ ReturnError("plain")
  /\ UNCHANGED <<world, userBounds>>

(* A create that failed; for an answer of the API the reconciler may take  *)
(* the finalizer off again.                                                *)
Creating == obs = Absent

WriteFailed(err) ==
  \/ ReturnError(err)
  \/ Creating /\ IsAPIError(err) /\ ReturnCR(Released(cr), ConditionOf(err, TerminalCodes))

(* newResourceRecordSet asks for the domain of the zone before every       *)
(* write.                                                                  *)
LookupZone ==
  /\ pc = "lookup"
  /\ \/ /\ NoFault /\ zoneAnswer = "none"
        /\ Goto(IF mode = "delete" THEN "delete.call" ELSE "write.call")
        /\ UNCHANGED <<mode, des, obs>>
     \/ NoFault /\ zoneAnswer # "none" /\ ReturnError(zoneAnswer)
     \/ Fault /\ ReturnError("plain")
  /\ UNCHANGED <<world, userBounds>>

WriteAnswer ==
  IF des.zone \notin up THEN "NoSuchHostedZone"
  ELSE IF des.check # NoId /\ des.check \notin up THEN "NoSuchHealthCheck" ELSE "none"

Write == recs' = [recs EXCEPT ![des.zone] = des.check]

(* CREATE is followed by another ReadOne, UPSERT by the patch of the spec. *)
WriteCall ==
  /\ pc = "write.call"
  /\ \/ /\ NoFault /\ WriteAnswer = "none" /\ Write
        /\ \/ /\ Creating
              /\ mode' = "post" /\ Goto("read") /\ UNCHANGED <<des, obs>>
           \/ ~Creating /\ ReturnCR([cr EXCEPT !.target = SpecPatch(@)], "Synced")
     \/ NoFault /\ WriteAnswer # "none" /\ WriteFailed(WriteAnswer) /\ UNCHANGED recs
     \/ Fault /\ WriteAnswer = "none" /\ Write /\ WriteFailed("plain")
     \/ Fault /\ WriteFailed("OtherAPIError") /\ UNCHANGED recs
  /\ UNCHANGED <<refd, up, userBounds>>

DeleteAnswer == IF des.zone \in up THEN "none" ELSE "NoSuchHostedZone"

DeleteCall ==
  /\ pc = "delete.call"
  /\ \/ /\ NoFault /\ DeleteAnswer = "none"
        /\ recs' = [recs EXCEPT ![des.zone] = Absent]
        /\ Goto("delete.finalizer") /\ UNCHANGED <<mode, des, obs>>
     \/ NoFault /\ DeleteAnswer # "none" /\ ReturnError(DeleteAnswer) /\ UNCHANGED recs
     \/ /\ Fault /\ DeleteAnswer = "none"
        /\ recs' = [recs EXCEPT ![des.zone] = Absent]
        /\ ReturnError("plain")
     \/ Fault /\ ReturnError("OtherAPIError") /\ UNCHANGED recs
  /\ UNCHANGED <<refd, up, userBounds>>

RemoveFinalizer ==
  /\ pc = "delete.finalizer"
  /\ \/ NoFault /\ ReturnCR(Released(cr), "none")
     \/ Fault /\ ReturnError("plain")
  /\ UNCHANGED <<world, userBounds>>

Worker ==
  \/ Reconcile \/ ResolveHealthCheck \/ ResolveHostedZone \/ Read
  \/ AddFinalizer \/ LookupZone \/ WriteCall \/ DeleteCall \/ RemoveFinalizer

Environment == \E n \in Named : ReferencedUser(n) \/ ReferencedController(n) \/ Vanish(n)

Next == Worker \/ User \/ Crash \/ Environment

Spec == Init /\ [][Next]_vars

FairSpec == Spec /\ WF_vars(Worker)

-----------------------------------------------------------------------------
MaybeZone == ZoneIds \cup {NoId}
MaybeCheck == CheckIds \cup {NoId}
AllTargets == [ref : ZoneRefs \cup {NoRef, EmptyRef}, id : MaybeZone, clash : BOOLEAN]

Phases == {"gone", "live", "deleting"}
Resolving == {"resolve.check", "resolve.zone"}
Resolved == {"read", "create.finalizer", "lookup", "write.call", "delete.call",
             "delete.finalizer"}

(* Every variable stays in its type. *)
TypeOK ==
  /\ refd \in [Named -> [phase : Phases, synced : BOOLEAN,
                         id : ZoneIds \cup CheckIds \cup {NoId}]]
  /\ \A n \in Named : refd[n].id \in IdsOf(n) \cup {NoId}
  /\ up \subseteq ZoneIds \cup CheckIds
  /\ recs \in [ZoneIds -> MaybeCheck \cup {Absent}]
  /\ cr \in [phase : Phases, fin : BOOLEAN, target : AllTargets, checked : BOOLEAN,
             cond : Conditions]
  /\ pc \in {"idle"} \cup Resolving \cup Resolved
  /\ queued \in BOOLEAN /\ wish \in AllTargets /\ mode \in {"sync", "post", "delete"}
  /\ des \in [asked : AllTargets, checked : BOOLEAN, fin : BOOLEAN,
              zone : MaybeZone, check : MaybeCheck]
  /\ obs \in MaybeCheck \cup {Absent}
  /\ retargets \in Nat

(* NoOrphanedRecordSet: as long as a record set of the CR is in some zone, *)
(* the CR exists and carries the finalizer (generator.yaml:80, changing    *)
(* this value after a CR has been created could result in orphaned record  *)
(* sets, which is why HostedZoneID is immutable).                          *)
NoOrphanedRecordSet ==
  (\E z \in ZoneIds : recs[z] # Absent) => cr.phase # "gone" /\ cr.fin

(* Managed: the CR with its references implements ManagedResource: through *)
(* all that happens to what it refers to, its record is made under the     *)
(* finalizer and removed before it, and only because the CR is withdrawn.  *)
MR == INSTANCE ManagedResource WITH
        phase <- cr.phase, fin <- cr.fin, exists <- \E z \in ZoneIds : recs[z] # Absent
Managed == MR!Spec /\ [][Worker => [MR!Controller]_(MR!vars)]_vars

ZoneOf(target) == IF target.ref \in ZoneRefs THEN refd[target.ref].id ELSE target.id

(* WritesWhereAsked: a record is written or deleted only where exactly one *)
(* of reference and ID was given for it, and not both of them for the      *)
(* health check, and only in the zone that this denotes                    *)
(* at that moment, although the ID was resolved several calls earlier;     *)
(* deleted, as long as no user has taken a valid target away.              *)
WritesWhereAsked ==
  [][Worker /\ (mode = "delete" => retargets = 0)
       => \A z \in ZoneIds : recs'[z] # recs[z] =>
            /\ z = ZoneOf(des.asked)
            /\ ~des.asked.clash /\ (des.asked.ref = NoRef) # (des.asked.id = NoId)]_vars

(* What the CR refers to can be had: both references resolve, and to AWS   *)
(* resources that exist.                                                   *)
Resolvable ==
  /\ cr.checked => Ready(CheckRef) /\ refd[CheckRef].id \in up
  /\ cr.target.ref \in ZoneRefs => Ready(cr.target.ref)
  /\ ZoneOf(cr.target) \in up

(* Converges: once the world is at rest, a CR whose user gave either a     *)
(* reference or an ID, and whose references resolve, has its record in     *)
(* that zone, with that health check; a resolved ID that reached the API   *)
(* server would conflict with the reference from then on                   *)
(* (ClearResolvedReferences).  A CR that was refused because what it       *)
(* refers to had just been replaced stays Terminal.                        *)
Converges ==
  <>[](cr.phase = "live" /\ validateReferenceFields(wish) /\ Resolvable
         => \/ cr.cond = "Terminal"
            \/ /\ recs[ZoneOf(cr.target)] = IF cr.checked THEN refd[CheckRef].id ELSE NoId
               /\ cr.cond = "Synced")

(* Deletes: a CR in deletion disappears, also after its hosted zone, as    *)
(* long as the references in its spec can still be resolved: with a        *)
(* referenced CR gone or no longer Synced it waits for ever.               *)
Deletes ==
  <>[](cr.phase = "deleting"
         => \/ cr.cond = "Terminal"
            \/ cr.checked /\ ~Ready(CheckRef)
            \/ cr.target.ref \in ZoneRefs /\ ~Ready(cr.target.ref))

-----------------------------------------------------------------------------
(* The inductive invariant behind the safety properties.                   *)

(* A referenced CR that is gone has no ID; the one the worker has resolved *)
(* is still what its reference denotes, as long as there is such a zone.   *)
ResolvedInv ==
  /\ \A n \in Named : refd[n].phase = "gone" => refd[n].id = NoId
  /\ pc = "idle" => des = NoDesired /\ mode = "sync" /\ obs = Absent
  /\ pc \in Resolving \/ des.asked.ref \notin ZoneRefs => des.zone = des.asked.id
  /\ pc \in Resolved /\ mode # "delete" => validateReferenceFields(des.asked)
  /\ pc \in Resolved /\ validateReferenceFields(des.asked) /\ des.zone \in up
       => des.zone = ZoneOf(des.asked)

(* What the worker is about to do is under the finalizer, or the deletion  *)
(* of a CR that was withdrawn.                                             *)
ManagedInv ==
  /\ des.fin => cr.fin /\ cr.phase # "gone"
  /\ cr.phase = "deleting" => cr.fin
  /\ mode = "delete" => cr.phase = "deleting"
  /\ pc \in {"delete.call", "delete.finalizer"} => mode = "delete"
  /\ pc \in Resolving \cup {"create.finalizer", "write.call"} => mode # "post"
  /\ pc \in {"create.finalizer", "write.call"} => mode = "sync"
  /\ pc = "lookup" => mode = "delete" \/ (mode = "sync" /\ des.fin)
  /\ pc = "write.call" => des.fin

(* The target the worker goes by is the CR's. *)
TargetInv ==
  pc # "idle" /\ cr.phase # "gone" /\ (mode = "delete" \/ validateReferenceFields(des.asked))
    => cr.target = des.asked

(* There is no record but the one in the zone that the CR names, and the   *)
(* worker looks for it there; when it takes the CR's finalizer off or      *)
(* creates a record, there is none.                                        *)
Made == \E z \in ZoneIds : recs[z] # Absent

RecordInv ==
  /\ Made => cr.fin /\ cr.phase # "gone" /\ validateReferenceFields(cr.target)
  /\ \A z \in ZoneIds : recs[z] # Absent =>
       /\ z \in up /\ z = ZoneOf(cr.target)
       /\ pc \in Resolved /\ des.zone # NoId => z = des.zone
  /\ pc \in {"create.finalizer", "delete.finalizer"} => ~Made
  /\ pc \in {"lookup", "write.call"} /\ Creating => ~Made

(* Inv: the strengthening of WritesWhereAsked and Managed that every step  *)
(* preserves: what the worker has resolved and may believe at each point   *)
(* of a reconciliation and, until a user takes a valid target away, where  *)
(* the record is.                                                          *)
Inv == TypeOK /\ ResolvedInv /\ ManagedInv /\ (retargets = 0 => TargetInv /\ RecordInv)
=============================================================================
