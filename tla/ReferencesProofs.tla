-------------------------- MODULE ReferencesProofs --------------------------
(***************************************************************************)
(* Proofs about References, for every set of zones, health checks, CRs     *)
(* that are referred to and targets, and any number of edits, faults,      *)
(* moves and changes of target.  What holds only until a user takes a      *)
(* valid target away says so in its statement (retargets = 0).             *)
(***************************************************************************)
EXTENDS References, TLAPS

USE RefsAssumption, RefIdsAssumption, TargetsAssumption

RefdCRs == [phase : Phases, synced : BOOLEAN, id : ZoneIds \cup CheckIds \cup {NoId}]
CRs == [phase : Phases, fin : BOOLEAN, target : AllTargets, checked : BOOLEAN, cond : Conditions]
Desired == [asked : AllTargets, checked : BOOLEAN, fin : BOOLEAN,
            zone : MaybeZone, check : MaybeCheck]
Labels == {"idle"} \cup Resolving \cup Resolved
Modes == {"sync", "post", "delete"}

-----------------------------------------------------------------------------
(* Type correctness *)

(* The part of the type that is the worker's and the CR's.                 *)
OwnTypes ==
  /\ cr \in CRs /\ pc \in Labels /\ queued \in BOOLEAN /\ wish \in AllTargets /\ mode \in Modes
  /\ des \in Desired /\ obs \in MaybeCheck \cup {Absent} /\ retargets \in Nat

WorldTypes ==
  /\ refd \in [Named -> RefdCRs]
  /\ \A n \in Named : refd[n].id \in IdsOf(n) \cup {NoId}
  /\ up \subseteq ZoneIds \cup CheckIds
  /\ recs \in [ZoneIds -> MaybeCheck \cup {Absent}]

LEMMA TypesSplit == TypeOK <=> OwnTypes /\ WorldTypes
  BY DEF TypeOK, OwnTypes, WorldTypes, RefdCRs, CRs, Desired, Labels, Modes

LEMMA TargetTypes == NoTarget \in AllTargets /\ Targets \subseteq AllTargets
  BY DEF NoTarget, AllTargets, MaybeZone

LEMMA NoDesiredType == NoDesired \in Desired
  BY TargetTypes DEF NoDesired, Desired, MaybeZone, MaybeCheck

(* The worker is at rest, as after the end of a reconciliation or a crash. *)
AtRest == pc = "idle" /\ mode = "sync" /\ des = NoDesired /\ obs = Absent

LEMMA IdleRests == Idle <=> AtRest'
  BY DEF Idle, AtRest

LEMMA ConditionTypes ==
  ASSUME NEW err PROVE ConditionOf(err, TerminalCodes) \in Conditions
  BY DEF ConditionOf, Conditions

(* Nothing of the CR but its condition.                                    *)
SameCR == cr'.phase = cr.phase /\ cr'.fin = cr.fin /\ cr'.target = cr.target

(* The finalizer is taken off.                                             *)
Freed ==
  /\ cr'.fin = FALSE /\ cr'.target = cr.target
  /\ cr'.phase = IF cr.phase = "deleting" THEN "gone" ELSE cr.phase

LEMMA ReturnCREnds ==
  ASSUME OwnTypes, NEW c \in CRs, NEW cond \in Conditions, ReturnCR(c, cond)
  PROVE  /\ AtRest' /\ cr' \in CRs /\ queued' \in BOOLEAN /\ UNCHANGED wish
         /\ cr'.phase = c.phase /\ cr'.fin = c.fin /\ cr'.target = c.target
<1>1. cr' \in CRs /\ cr'.phase = c.phase /\ cr'.fin = c.fin /\ cr'.target = c.target
  BY DEF ReturnCR, CRs
<1> QED
  BY <1>1, IdleRests DEF ReturnCR, OwnTypes

LEMMA ReturnEnds ==
  ASSUME OwnTypes, NEW cond \in Conditions, Return(cond)
  PROVE  AtRest' /\ cr' \in CRs /\ queued' \in BOOLEAN /\ UNCHANGED wish /\ SameCR
  BY ReturnCREnds DEF Return, OwnTypes, SameCR

LEMMA ReturnErrorEnds ==
  ASSUME OwnTypes, NEW err, ReturnError(err)
  PROVE  AtRest' /\ cr' \in CRs /\ queued' \in BOOLEAN /\ UNCHANGED wish /\ SameCR
  BY ReturnEnds, ConditionTypes DEF ReturnError

LEMMA ReleasedTypes ==
  ASSUME OwnTypes
  PROVE  /\ Released(cr) \in CRs /\ Released(cr).fin = FALSE
         /\ Released(cr).target = cr.target
         /\ Released(cr).phase = IF cr.phase = "deleting" THEN "gone" ELSE cr.phase
  BY DEF Released, OwnTypes, CRs, Phases

LEMMA ReleasedEnds ==
  ASSUME OwnTypes, NEW cond \in Conditions, ReturnCR(Released(cr), cond)
  PROVE  AtRest' /\ cr' \in CRs /\ queued' \in BOOLEAN /\ UNCHANGED wish /\ Freed
<1> DEFINE c == Released(cr)
<1>1. /\ c \in CRs /\ c.fin = FALSE /\ c.target = cr.target
      /\ c.phase = IF cr.phase = "deleting" THEN "gone" ELSE cr.phase
  BY ReleasedTypes
<1> HIDE DEF c
<1>2. ReturnCR(c, cond)
  BY DEF c
<1> QED
  BY <1>1, <1>2, ReturnCREnds DEF Freed

LEMMA UnresolvedEnds ==
  ASSUME OwnTypes, Unresolved
  PROVE  \/ mode = "delete" /\ pc' = "read" /\ UNCHANGED <<cr, queued, wish, mode, des, obs>>
         \/ /\ mode # "delete" /\ AtRest' /\ cr' \in CRs /\ queued' \in BOOLEAN
            /\ UNCHANGED wish /\ SameCR
<1>1. "NotSynced" \in Conditions
  BY DEF Conditions
<1>2. CASE mode = "delete" /\ Goto("read") /\ UNCHANGED <<mode, des, obs>>
  BY <1>2 DEF Goto, k8s
<1>3. CASE mode # "delete" /\ Return("NotSynced")
  BY <1>1, <1>3, ReturnEnds
<1> QED
  BY <1>2, <1>3 DEF Unresolved

LEMMA WriteFailedEnds ==
  ASSUME OwnTypes, NEW err, WriteFailed(err)
  PROVE  /\ AtRest' /\ cr' \in CRs /\ queued' \in BOOLEAN /\ UNCHANGED wish
         /\ SameCR \/ (Creating /\ IsAPIError(err) /\ Freed)
  BY ReturnErrorEnds, ReleasedEnds, ConditionTypes DEF WriteFailed

(* ClearResolvedReferences: no patch of the spec carries a resolved ID.    *)
LEMMA SpecPatchKeeps ==
  ASSUME OwnTypes, des.asked.ref = NoRef => des.zone = des.asked.id
  PROVE  SpecPatch(cr.target) = cr.target
  BY DEF SpecPatch, ClearResolvedReferences, OwnTypes, Desired, AllTargets

LEMMA SpecPatchTypes ==
  ASSUME OwnTypes
  PROVE  SpecPatch(cr.target) \in AllTargets
<1> DEFINE new == ClearResolvedReferences([des.asked EXCEPT !.id = des.zone])
<1>1. cr.target \in AllTargets /\ des.asked \in AllTargets /\ des.zone \in MaybeZone
  BY DEF OwnTypes, CRs, Desired
<1>2. new.id \in MaybeZone
  BY <1>1 DEF ClearResolvedReferences, AllTargets, MaybeZone
<1>3. SpecPatch(cr.target) \in {cr.target, [cr.target EXCEPT !.id = new.id]}
  BY DEF SpecPatch
<1> HIDE DEF new
<1> QED
  BY <1>1, <1>2, <1>3 DEF AllTargets

LEMMA RestTypes == AtRest' => pc' \in Labels /\ mode' \in Modes /\ des' \in Desired
                             /\ obs' \in MaybeCheck \cup {Absent}
  BY NoDesiredType DEF AtRest, Labels, Modes

LEMMA OwnTypesInit == Init => OwnTypes
<1> SUFFICES ASSUME Init PROVE OwnTypes
  OBVIOUS
<1>1. cr \in CRs /\ wish \in AllTargets
  BY TargetTypes DEF Init, CRs, Phases, Conditions
<1>2. des \in Desired
  BY NoDesiredType DEF Init
<1> QED
  BY <1>1, <1>2 DEF Init, OwnTypes, Labels, Modes

LEMMA WorldTypesInit == Init => WorldTypes
  BY DEF Init, WorldTypes, RefdCRs, Phases, AllTargets, MaybeZone, IdsOf

(* Each step of the worker leaves everything in its type. *)
LEMMA ReconcileTypes == ASSUME OwnTypes, Reconcile PROVE OwnTypes'
<1>1. des' \in Desired
  BY DEF Reconcile, OwnTypes, CRs, Desired, AllTargets, MaybeCheck
<1> QED
  BY <1>1 DEF Reconcile, userBounds, OwnTypes, Labels, Resolving, Modes

LEMMA ResolveHealthCheckTypes == ASSUME OwnTypes, WorldTypes, ResolveHealthCheck PROVE OwnTypes'
<1>1. refd[CheckRef].id \in MaybeCheck
  BY DEF WorldTypes, Named, IdsOf, MaybeCheck
<1>2. CASE Goto("resolve.zone") /\ UNCHANGED <<mode, obs>>
           /\ des' \in {des, [des EXCEPT !.check = refd[CheckRef].id]}
  <2>1. des' \in Desired
    BY <1>1, <1>2 DEF OwnTypes, Desired
  <2> QED
    BY <1>2, <2>1 DEF Goto, k8s, ResolveHealthCheck, userBounds, OwnTypes, Labels, Resolving
<1>3. CASE Unresolved
  <2>1. UNCHANGED retargets
    BY DEF ResolveHealthCheck, userBounds
  <2> QED
    BY <1>3, <2>1, UnresolvedEnds, RestTypes DEF OwnTypes, Labels, Resolved
<1> QED
  BY <1>2, <1>3 DEF ResolveHealthCheck

LEMMA ResolveHostedZoneTypes == ASSUME OwnTypes, WorldTypes, ResolveHostedZone PROVE OwnTypes'
<1> DEFINE ref == des.asked.ref
<1>1. ref \in ZoneRefs => refd[ref].id \in MaybeZone
  BY RefsAssumption DEF WorldTypes, Named, IdsOf, MaybeZone
<1>2. CASE /\ des' = [des EXCEPT !.zone = IF ref \in ZoneRefs THEN refd[ref].id ELSE @]
           /\ Goto("read") /\ UNCHANGED <<mode, obs>>
  <2>1. des' \in Desired
    BY <1>1, <1>2 DEF OwnTypes, Desired
  <2> QED
    BY <1>2, <2>1 DEF Goto, k8s, ResolveHostedZone, userBounds, OwnTypes, Labels, Resolved
<1>3. CASE Unresolved \/ Return("NotSynced")
  <2>1. UNCHANGED retargets
    BY DEF ResolveHostedZone, userBounds
  <2>2. "NotSynced" \in Conditions
    BY DEF Conditions
  <2> QED
    BY <1>3, <2>1, <2>2, ReturnEnds, UnresolvedEnds, RestTypes DEF OwnTypes, Labels, Resolved
<1> QED
  BY <1>2, <1>3 DEF ResolveHostedZone

LEMMA ReadTypes == ASSUME OwnTypes, WorldTypes, Read PROVE OwnTypes'
<1>1. UNCHANGED retargets
  BY DEF Read, userBounds
<1>2. CASE \E err : ReturnError(err)
  BY <1>1, <1>2, ReturnErrorEnds, RestTypes DEF OwnTypes
<1>3. CASE Return("Synced")
  <2>1. "Synced" \in Conditions
    BY DEF Conditions
  <2> QED
    BY <1>1, <1>3, <2>1, ReturnEnds, RestTypes DEF OwnTypes
<1>4. CASE /\ Goto("create.finalizer") \/ Goto("delete.finalizer")
           /\ UNCHANGED <<mode, des, obs>>
  BY <1>1, <1>4 DEF Goto, k8s, OwnTypes, Labels, Resolved
<1>5. CASE /\ zoneAnswer = "none" /\ obs' = recs[des.zone]
           /\ Goto("lookup") /\ UNCHANGED <<mode, des>>
  <2>1. des.zone \in ZoneIds
    BY <1>5 DEF zoneAnswer, OwnTypes, Desired, MaybeZone
  <2>2. obs' \in MaybeCheck \cup {Absent}
    BY <1>5, <2>1 DEF WorldTypes
  <2> QED
    BY <1>1, <1>5, <2>2 DEF Goto, k8s, OwnTypes, Labels, Resolved
<1> QED
  BY <1>2, <1>3, <1>4, <1>5 DEF Read, ReadNotFound, ReadFound

LEMMA AddFinalizerTypes == ASSUME OwnTypes, AddFinalizer PROVE OwnTypes'
<1>1. UNCHANGED retargets
  BY DEF AddFinalizer, userBounds
<1>2. CASE ReturnError("plain")
  BY <1>1, <1>2, ReturnErrorEnds, RestTypes DEF OwnTypes
<1>3. CASE /\ cr' = [cr EXCEPT !.fin = TRUE, !.target = SpecPatch(@)]
           /\ des' = [des EXCEPT !.fin = TRUE]
           /\ pc' = "lookup" /\ UNCHANGED <<queued, wish, mode, obs>>
  <2>1. cr' \in CRs /\ des' \in Desired
    BY <1>3, SpecPatchTypes DEF OwnTypes, CRs, Desired
  <2> QED
    BY <1>1, <1>3, <2>1 DEF OwnTypes, Labels, Resolved
<1> QED
  BY <1>2, <1>3 DEF AddFinalizer

LEMMA LookupZoneTypes == ASSUME OwnTypes, LookupZone PROVE OwnTypes'
<1>1. UNCHANGED retargets
  BY DEF LookupZone, userBounds
<1>2. CASE \E err : ReturnError(err)
  BY <1>1, <1>2, ReturnErrorEnds, RestTypes DEF OwnTypes
<1>3. CASE /\ Goto(IF mode = "delete" THEN "delete.call" ELSE "write.call")
           /\ UNCHANGED <<mode, des, obs>>
  BY <1>1, <1>3 DEF Goto, k8s, OwnTypes, Labels, Resolved
<1> QED
  BY <1>2, <1>3 DEF LookupZone

LEMMA WriteCallTypes == ASSUME OwnTypes, WriteCall PROVE OwnTypes'
<1>1. UNCHANGED retargets
  BY DEF WriteCall, userBounds
<1>2. CASE \E err : WriteFailed(err)
  BY <1>1, <1>2, WriteFailedEnds, RestTypes DEF OwnTypes
<1>3. CASE mode' = "post" /\ Goto("read") /\ UNCHANGED <<des, obs>>
  BY <1>1, <1>3 DEF Goto, k8s, OwnTypes, Labels, Resolved, Modes
<1>4. CASE ReturnCR([cr EXCEPT !.target = SpecPatch(@)], "Synced")
  <2>1. [cr EXCEPT !.target = SpecPatch(@)] \in CRs /\ "Synced" \in Conditions
    BY SpecPatchTypes DEF OwnTypes, CRs, Conditions
  <2> QED
    BY <1>1, <1>4, <2>1, ReturnCREnds, RestTypes DEF OwnTypes
<1> QED
  BY <1>2, <1>3, <1>4 DEF WriteCall

LEMMA DeleteTypes == ASSUME OwnTypes, DeleteCall \/ RemoveFinalizer PROVE OwnTypes'
<1>1. UNCHANGED retargets
  BY DEF DeleteCall, RemoveFinalizer, userBounds
<1>2. CASE \E err : ReturnError(err)
  BY <1>1, <1>2, ReturnErrorEnds, RestTypes DEF OwnTypes
<1>3. CASE Goto("delete.finalizer") /\ UNCHANGED <<mode, des, obs>>
  BY <1>1, <1>3 DEF Goto, k8s, OwnTypes, Labels, Resolved
<1>4. CASE ReturnCR(Released(cr), "none")
  <2>1. "none" \in Conditions
    BY DEF Conditions
  <2> QED
    BY <1>1, <1>4, <2>1, ReleasedEnds, RestTypes DEF OwnTypes
<1> QED
  BY <1>2, <1>3, <1>4 DEF DeleteCall, RemoveFinalizer

LEMMA UserTypes == ASSUME OwnTypes, User PROVE OwnTypes'
<1>1. UNCHANGED <<pc, mode, des, obs>> /\ queued' \in BOOLEAN
  BY DEF User
<1>2. \A old, new : Keeps(old, new) => retargets' \in Nat
  BY DEF OwnTypes, Keeps
<1>3. CASE \E t \in Targets, c \in BOOLEAN :
             /\ Keeps(des.asked, t)
             /\ cr' = [phase |-> "live", fin |-> FALSE, target |-> t, checked |-> c,
                       cond |-> "none"]
             /\ wish' = t
  BY <1>1, <1>2, <1>3, TargetTypes DEF OwnTypes, CRs, Phases, Conditions
<1>4. CASE \E t \in Targets, c \in BOOLEAN :
             /\ MayEdit(cr.target, t)
             /\ cr' = [cr EXCEPT !.target = t, !.checked = c]
             /\ wish' = t
  BY <1>1, <1>2, <1>4, TargetTypes DEF OwnTypes, CRs, MayEdit
<1>5. CASE /\ cr' = [cr EXCEPT !.phase = IF cr.fin THEN "deleting" ELSE "gone"]
           /\ UNCHANGED <<retargets, wish>>
  BY <1>1, <1>5 DEF OwnTypes, CRs, Phases
<1> QED
  BY <1>3, <1>4, <1>5 DEF User

LEMMA OwnTypesStep == OwnTypes /\ WorldTypes /\ [Next]_vars => OwnTypes'
<1> SUFFICES ASSUME OwnTypes, WorldTypes, [Next]_vars PROVE OwnTypes'
  OBVIOUS
<1>1. CASE Worker
  BY <1>1, ReconcileTypes, ResolveHealthCheckTypes, ResolveHostedZoneTypes, ReadTypes,
     AddFinalizerTypes, LookupZoneTypes, WriteCallTypes, DeleteTypes DEF Worker
<1>2. CASE User
  BY <1>2, UserTypes
<1>3. CASE Crash
  BY <1>3, IdleRests, RestTypes DEF Crash, userBounds, OwnTypes
<1>4. CASE Environment \/ UNCHANGED vars
  BY <1>4 DEF Environment, ReferencedUser, ReferencedController, Vanish, Becomes, k8s, userBounds,
     vars, OwnTypes
<1> QED
  BY <1>1, <1>2, <1>3, <1>4 DEF Next

(* What is written is a health check's ID or none. *)
LEMMA WriteTypes ==
  ASSUME OwnTypes, WorldTypes, NEW v \in MaybeCheck \cup {Absent},
         recs' = [recs EXCEPT ![des.zone] = v]
  PROVE  recs' \in [ZoneIds -> MaybeCheck \cup {Absent}]
  BY DEF WorldTypes

LEMMA BecomesTypes ==
  ASSUME WorldTypes, NEW n \in Named, NEW r \in RefdCRs, r.id \in IdsOf(n) \cup {NoId},
         Becomes(n, r)
  PROVE  /\ refd' \in [Named -> RefdCRs] /\ refd'[n] = r
         /\ \A k \in Named : refd'[k].id \in IdsOf(k) \cup {NoId}
         /\ \A k \in Named : k # n => refd'[k] = refd[k]
  BY DEF WorldTypes, Becomes

LEMMA ReferencedTypes ==
  ASSUME WorldTypes, NEW n \in Named, ReferencedUser(n) \/ ReferencedController(n)
  PROVE  /\ refd' \in [Named -> RefdCRs] /\ up' \subseteq ZoneIds \cup CheckIds
         /\ \A k \in Named : refd'[k].id \in IdsOf(k) \cup {NoId}
         /\ \A k \in Named : k # n => refd'[k] = refd[k]
<1>1. /\ refd[n] \in RefdCRs /\ refd[n].id \in IdsOf(n) \cup {NoId}
      /\ IdsOf(n) \subseteq ZoneIds \cup CheckIds
  BY DEF WorldTypes, IdsOf
<1>2. PICK r \in RefdCRs : r.id \in IdsOf(n) \cup {NoId} /\ Becomes(n, r)
  <2>1. CASE ReferencedUser(n)
    BY <1>1, <2>1 DEF ReferencedUser, RefdCRs, Phases
  <2>2. CASE ReferencedController(n)
    BY <1>1, <2>2 DEF ReferencedController, RefdCRs, Phases
  <2> QED
    BY <2>1, <2>2
<1>3. up' \subseteq ZoneIds \cup CheckIds
  BY <1>1 DEF ReferencedUser, ReferencedController, WorldTypes
<1> QED
  BY <1>2, <1>3, BecomesTypes

LEMMA WorldTypesStep == OwnTypes /\ WorldTypes /\ [Next]_vars => WorldTypes'
<1> SUFFICES ASSUME OwnTypes, WorldTypes, [Next]_vars PROVE WorldTypes'
  OBVIOUS
<1>1. CASE WriteCall \/ DeleteCall
  <2>1. des.check \in MaybeCheck
    BY DEF OwnTypes, Desired
  <2> QED
    BY <1>1, <2>1, WriteTypes DEF WriteCall, Write, DeleteCall, WorldTypes
<1>2. CASE \/ Reconcile \/ ResolveHealthCheck \/ ResolveHostedZone \/ Read \/ AddFinalizer
           \/ LookupZone \/ RemoveFinalizer \/ User \/ Crash \/ UNCHANGED vars
  BY <1>2 DEF Reconcile, ResolveHealthCheck, ResolveHostedZone, Read, AddFinalizer, LookupZone,
     RemoveFinalizer, User, Crash, vars, world, WorldTypes
<1>3. CASE \E n \in Named : ReferencedUser(n) \/ ReferencedController(n)
  <2>1. UNCHANGED recs
    BY <1>3 DEF ReferencedUser, ReferencedController
  <2> QED
    BY <1>3, <2>1, ReferencedTypes DEF WorldTypes
<1>4. CASE \E n \in Named : Vanish(n)
  BY <1>4 DEF Vanish, WorldTypes
<1> QED
  BY <1>1, <1>2, <1>3, <1>4 DEF Next, Worker, Environment

Types == OwnTypes /\ WorldTypes

LEMMA TypesKept == Types /\ [Next]_vars => Types'
  BY OwnTypesStep, WorldTypesStep DEF Types

LEMMA TypesHold == Spec => []Types
<1>1. Init => Types
  BY OwnTypesInit, WorldTypesInit DEF Types
<1> QED
  BY <1>1, TypesKept, PTL DEF Spec

(* Every variable of References stays in its type. *)
THEOREM TypeCorrect == Spec => []TypeOK
<1>1. Types => TypeOK
  BY TypesSplit DEF Types
<1> QED
  BY <1>1, TypesHold, PTL

-----------------------------------------------------------------------------
(* What the worker has resolved and may believe, whatever users do *)

Believed == ResolvedInv /\ ManagedInv

(* What is left of it when the worker is at rest. *)
CRsInv ==
  /\ \A n \in Named : refd[n].phase = "gone" => refd[n].id = NoId
  /\ cr.phase = "deleting" => cr.fin

LEMMA RestBelieved == AtRest /\ CRsInv => Believed
<1> SUFFICES ASSUME AtRest, CRsInv PROVE Believed
  OBVIOUS
<1>1. /\ pc = "idle" /\ mode = "sync" /\ des = NoDesired /\ obs = Absent
      /\ des.fin = FALSE /\ des.zone = NoId /\ des.asked.id = NoId
  BY DEF AtRest, NoDesired, NoTarget
<1>2. ResolvedInv
  BY <1>1 DEF CRsInv, ResolvedInv, Resolving, Resolved
<1>3. ManagedInv
  BY <1>1 DEF CRsInv, ManagedInv, Resolving
<1> QED
  BY <1>2, <1>3 DEF Believed

LEMMA InitBelieved == Init => Believed
  BY RestBelieved DEF Init, AtRest, CRsInv

(* A reconciliation that ends. *)
LEMMA EndBelieved ==
  ASSUME Believed, AtRest', UNCHANGED refd, SameCR \/ Freed
  PROVE  Believed'
<1>1. CRsInv'
  BY DEF Believed, ResolvedInv, ManagedInv, CRsInv, SameCR, Freed
<1>2. (AtRest /\ CRsInv => Believed)'
  BY RestBelieved, PTL
<1> QED
  BY <1>1, <1>2

LEMMA ErrorBelieved ==
  ASSUME Types, Believed, NEW err, ReturnError(err), UNCHANGED refd PROVE Believed'
  BY ReturnErrorEnds, EndBelieved DEF Types

(* A referenced CR keeps its ID as long as the resource is there, and a    *)
(* new one gets an ID that is not in use.                                  *)
LEMMA ReferencedKeeps ==
  ASSUME Types, Believed, NEW n \in Named, ReferencedUser(n) \/ ReferencedController(n)
  PROVE  /\ \A k \in Named : refd'[k].phase = "gone" => refd'[k].id = NoId
         /\ des.zone \in up' => des.zone \in up
         /\ \A k \in Named, id \in up' \cap up : refd[k].id = id => refd'[k].id = id
         /\ (\A z \in ZoneIds : recs[z] # Absent => z \in up)
              => \A z \in ZoneIds : recs[z] # Absent => z \in up'
<1>1. refd \in [Named -> RefdCRs]
  BY DEF Types, WorldTypes
<1>2. \A k \in Named : refd[k].phase = "gone" => refd[k].id = NoId
  BY DEF Believed, ResolvedInv
<1>3. CASE ReferencedUser(n)
  <2>1. UNCHANGED up
    BY <1>3 DEF ReferencedUser
  <2>2. \A k \in Named : /\ refd'[k].id = refd[k].id
                         /\ refd'[k].phase = "gone" => refd'[k].id = NoId
    BY <1>1, <1>2, <1>3 DEF ReferencedUser, Becomes, RefdCRs
  <2> QED
    BY <1>2, <2>1, <2>2
<1>4. CASE /\ refd[n].phase = "live" /\ refd[n].id \notin up
           /\ \E id \in IdsOf(n) \ (up \cup {refd[n].id, des.zone, des.check}) :
                /\ up' = up \cup {id}
                /\ Becomes(n, [refd[n] EXCEPT !.id = id, !.synced = TRUE])
  BY <1>1, <1>2, <1>4 DEF Becomes, RefdCRs
<1>5. CASE /\ refd[n].phase = "deleting" /\ ~InUse(refd[n].id)
           /\ up' = up \ {refd[n].id}
           /\ Becomes(n, [phase |-> "gone", synced |-> FALSE, id |-> NoId])
  BY <1>1, <1>2, <1>5 DEF Becomes, RefdCRs, InUse
<1>6. CASE /\ refd[n].phase = "deleting"
           /\ Becomes(n, [refd[n] EXCEPT !.synced = FALSE])
           /\ UNCHANGED up
  BY <1>1, <1>2, <1>6 DEF Becomes, RefdCRs
<1> QED
  BY <1>3, <1>4, <1>5, <1>6 DEF ReferencedController

(* So a target goes on denoting the zone it denoted. *)
LEMMA DenotesStill ==
  ASSUME Types, Believed, NEW n \in Named, ReferencedUser(n) \/ ReferencedController(n),
         NEW t \in AllTargets, ZoneOf(t) \in up' \cap up
  PROVE  ZoneOf(t)' = ZoneOf(t)
  BY ReferencedKeeps DEF ZoneOf, AllTargets, Named

LEMMA ReferencedBelieved ==
  ASSUME Types, Believed, NEW n \in Named, ReferencedUser(n) \/ ReferencedController(n)
  PROVE  Believed'
<1>1. UNCHANGED <<cr, pc, mode, des, obs>> /\ des.asked \in AllTargets
  BY DEF Types, OwnTypes, Desired, ReferencedUser, ReferencedController, k8s
<1>2. ResolvedInv'
  BY <1>1, ReferencedKeeps, DenotesStill DEF Believed, ResolvedInv
<1>3. ManagedInv'
  BY <1>1 DEF Believed, ManagedInv
<1> QED
  BY <1>2, <1>3 DEF Believed

LEMMA VanishBelieved == ASSUME Believed, NEW n \in Named, Vanish(n) PROVE Believed'
<1>1. UNCHANGED <<refd, cr, pc, mode, des, obs>> /\ up' \subseteq up
  BY DEF Vanish, k8s
<1>2. ResolvedInv'
  BY <1>1 DEF Believed, ResolvedInv, ZoneOf
<1>3. ManagedInv'
  BY <1>1 DEF Believed, ManagedInv
<1> QED
  BY <1>2, <1>3 DEF Believed

LEMMA UserBelieved == ASSUME Types, Believed, User PROVE Believed'
<1>1. UNCHANGED <<refd, up, pc, mode, des, obs>> /\ cr \in CRs
  BY DEF User, world, Types, OwnTypes
<1>2. ResolvedInv'
  BY <1>1 DEF Believed, ResolvedInv, ZoneOf
<1>3. CASE /\ cr.phase = "gone"
           /\ \E t \in Targets, c \in BOOLEAN :
                cr' = [phase |-> "live", fin |-> FALSE, target |-> t, checked |-> c,
                       cond |-> "none"]
  <2>1. mode # "delete" /\ ~des.fin
    BY <1>3 DEF Believed, ManagedInv
  <2>2. cr'.phase = "live"
    BY <1>3
  <2> QED
    BY <1>1, <1>2, <2>1, <2>2 DEF Believed, ManagedInv
<1>4. CASE \E t \in Targets, c \in BOOLEAN : cr' = [cr EXCEPT !.target = t, !.checked = c]
  <2>1. cr'.phase = cr.phase /\ cr'.fin = cr.fin
    BY <1>1, <1>4 DEF CRs
  <2> QED
    BY <1>1, <1>2, <2>1 DEF Believed, ManagedInv
<1>5. CASE /\ cr.phase = "live"
           /\ cr' = [cr EXCEPT !.phase = IF cr.fin THEN "deleting" ELSE "gone"]
  <2>1. cr'.phase = (IF cr.fin THEN "deleting" ELSE "gone") /\ cr'.fin = cr.fin
    BY <1>1, <1>5 DEF CRs
  <2> QED
    BY <1>1, <1>2, <1>5, <2>1 DEF Believed, ManagedInv
<1> QED
  BY <1>3, <1>4, <1>5 DEF User

(* The steps of the worker. *)
LEMMA ReconcileBelieved == ASSUME Believed, Reconcile PROVE Believed'
<1>1. /\ UNCHANGED <<refd, up, cr, obs>> /\ cr.phase # "gone"
      /\ pc' = "resolve.check" /\ mode' = IF cr.phase = "deleting" THEN "delete" ELSE "sync"
      /\ des'.asked = cr.target /\ des'.zone = cr.target.id /\ des'.fin = cr.fin
  BY DEF Reconcile, world
<1>2. ResolvedInv'
  BY <1>1 DEF Believed, ResolvedInv, Resolving, Resolved
<1>3. ManagedInv'
  BY <1>1 DEF Believed, ManagedInv, Resolving
<1> QED
  BY <1>2, <1>3 DEF Believed

(* With a valid target the ID that the user gave is the zone, or none.     *)
LEMMA GivenZone ==
  ASSUME validateReferenceFields(des.asked), des.zone = des.asked.id, des.zone # NoId
  PROVE  des.zone = ZoneOf(des.asked)
  BY DEF validateReferenceFields, ZoneOf

LEMMA UnresolvedBelieved ==
  ASSUME Types, Believed, pc \in Resolving, Unresolved, UNCHANGED world
  PROVE  Believed'
<1>1. CASE mode = "delete" /\ pc' = "read" /\ UNCHANGED <<cr, queued, wish, mode, des, obs>>
  <2>1. /\ pc # "idle" /\ des.zone = des.asked.id /\ UNCHANGED <<refd, up>>
        /\ up \subseteq ZoneIds \cup CheckIds
    BY DEF Believed, ResolvedInv, Resolving, world, Types, WorldTypes
  <2>2. ResolvedInv'
    BY <1>1, <2>1, GivenZone DEF Believed, ResolvedInv, Resolving, Resolved, ZoneOf
  <2>3. ManagedInv'
    BY <1>1, <2>1 DEF Believed, ManagedInv, Resolving
  <2> QED
    BY <2>2, <2>3 DEF Believed
<1>2. CASE AtRest' /\ SameCR
  BY <1>2, EndBelieved DEF world
<1> QED
  BY <1>1, <1>2, UnresolvedEnds DEF Types

(* What ResolveHealthCheck does when it finds what it looks for. *)
CheckResolved ==
  /\ pc' = "resolve.zone" /\ UNCHANGED <<cr, mode, obs>>
  /\ des'.asked = des.asked /\ des'.zone = des.zone /\ des'.fin = des.fin

LEMMA ResolveHealthCheckEnds ==
  ASSUME Types, ResolveHealthCheck
  PROVE  /\ pc = "resolve.check" /\ UNCHANGED world /\ UNCHANGED <<refd, up, recs>>
         /\ CheckResolved \/ Unresolved
<1>1. ASSUME Goto("resolve.zone"), UNCHANGED <<mode, obs>>,
             des' \in {des, [des EXCEPT !.check = refd[CheckRef].id]}
      PROVE  CheckResolved
  BY <1>1 DEF CheckResolved, Goto, k8s, Types, OwnTypes, Desired
<1> QED
  BY <1>1 DEF ResolveHealthCheck, world

LEMMA ResolveHealthCheckBelieved == ASSUME Types, Believed, ResolveHealthCheck PROVE Believed'
<1>1. /\ pc = "resolve.check" /\ UNCHANGED world /\ UNCHANGED <<refd, up, recs>>
      /\ CheckResolved \/ Unresolved
  BY ResolveHealthCheckEnds
<1>2. CASE CheckResolved
  <2>1. ResolvedInv'
    BY <1>1, <1>2 DEF CheckResolved, Believed, ResolvedInv, Resolving, Resolved
  <2>2. ManagedInv'
    BY <1>1, <1>2 DEF CheckResolved, Believed, ManagedInv, Resolving
  <2> QED
    BY <2>1, <2>2 DEF Believed
<1>3. CASE Unresolved
  BY <1>1, <1>3, UnresolvedBelieved DEF Resolving
<1> QED
  BY <1>1, <1>2, <1>3

(* What ResolveHostedZone does when it finds what it looks for. *)
ZoneResolved ==
  /\ mode # "delete" => validateReferenceFields(des.asked)
  /\ pc' = "read" /\ UNCHANGED <<cr, mode, obs>>
  /\ des'.asked = des.asked /\ des'.fin = des.fin /\ des'.zone = ZoneOf(des.asked)

LEMMA ResolveHostedZoneEnds ==
  ASSUME Types, Believed, ResolveHostedZone
  PROVE  /\ pc = "resolve.zone" /\ UNCHANGED world /\ UNCHANGED <<refd, up, recs>>
         /\ ZoneResolved \/ Unresolved \/ (AtRest' /\ SameCR)
<1> DEFINE ref == des.asked.ref
<1>1. /\ UNCHANGED <<refd, up, recs>> /\ UNCHANGED world /\ pc = "resolve.zone" /\ des \in Desired
  BY DEF ResolveHostedZone, world, Types, OwnTypes
<1>2. CASE /\ mode # "delete" => validateReferenceFields(des.asked)
           /\ des' = [des EXCEPT !.zone = IF ref \in ZoneRefs THEN refd[ref].id ELSE @]
           /\ Goto("read") /\ UNCHANGED <<mode, obs>>
  <2>1. /\ pc' = "read" /\ UNCHANGED <<cr, mode, obs>>
        /\ des'.asked = des.asked /\ des'.fin = des.fin
        /\ des'.zone = IF ref \in ZoneRefs THEN refd[ref].id ELSE des.zone
    BY <1>1, <1>2 DEF Goto, k8s, Desired
  <2>2. des'.zone = ZoneOf(des.asked)
    BY <1>1, <2>1 DEF ZoneOf, Believed, ResolvedInv, Resolving
  <2> QED
    BY <1>1, <1>2, <2>1, <2>2 DEF ZoneResolved
<1>3. CASE Return("NotSynced")
  <2>1. "NotSynced" \in Conditions
    BY DEF Conditions
  <2> QED
    BY <1>1, <1>3, <2>1, ReturnEnds DEF Types
<1> QED
  BY <1>1, <1>2, <1>3 DEF ResolveHostedZone

LEMMA ResolveHostedZoneBelieved == ASSUME Types, Believed, ResolveHostedZone PROVE Believed'
<1>1. /\ pc = "resolve.zone" /\ UNCHANGED world /\ UNCHANGED <<refd, up, recs>>
      /\ ZoneResolved \/ Unresolved \/ (AtRest' /\ SameCR)
  BY ResolveHostedZoneEnds
<1>2. CASE ZoneResolved
  <2>1. ResolvedInv'
    BY <1>1, <1>2 DEF ZoneResolved, Believed, ResolvedInv, Resolving, Resolved, ZoneOf
  <2>2. ManagedInv'
    BY <1>1, <1>2 DEF ZoneResolved, Believed, ManagedInv, Resolving
  <2> QED
    BY <2>1, <2>2 DEF Believed
<1>3. CASE Unresolved
  BY <1>1, <1>3, UnresolvedBelieved DEF Resolving
<1>4. CASE AtRest' /\ SameCR
  BY <1>1, <1>4, EndBelieved
<1> QED
  BY <1>1, <1>2, <1>3, <1>4

(* ReadOne finds nothing, or what is to be brought up to date or deleted. *)
FoundNothing ==
  /\ zoneAnswer = "notFound" \/ (zoneAnswer = "none" /\ recs[des.zone] = Absent)
  /\ UNCHANGED <<cr, mode, des, obs>>
  /\ \/ pc' = "create.finalizer" /\ mode = "sync"
     \/ pc' = "delete.finalizer" /\ mode = "delete"

FoundRecord ==
  /\ obs' # Absent
  /\ mode = "delete" \/ (mode = "sync" /\ des.fin)
  /\ pc' = "lookup" /\ UNCHANGED <<cr, mode, des>>

LEMMA ReadEnds ==
  ASSUME Types, Read
  PROVE  /\ pc = "read" /\ UNCHANGED world /\ UNCHANGED <<refd, up, recs>>
         /\ FoundNothing \/ FoundRecord \/ (AtRest' /\ SameCR)
<1>1. UNCHANGED <<refd, up, recs>> /\ UNCHANGED world /\ pc = "read"
  BY DEF Read, world
<1>2. CASE \E err : ReturnError(err)
  BY <1>1, <1>2, ReturnErrorEnds DEF Types
<1>3. CASE Return("Synced")
  <2>1. "Synced" \in Conditions
    BY DEF Conditions
  <2> QED
    BY <1>1, <1>3, <2>1, ReturnEnds DEF Types
<1>4. CASE /\ zoneAnswer = "notFound" \/ (zoneAnswer = "none" /\ recs[des.zone] = Absent)
           /\ \/ mode = "sync" /\ Goto("create.finalizer")
              \/ mode = "delete" /\ Goto("delete.finalizer")
           /\ UNCHANGED <<mode, des, obs>>
  BY <1>1, <1>4 DEF Goto, k8s, FoundNothing
<1>5. CASE /\ recs[des.zone] # Absent /\ obs' = recs[des.zone]
           /\ mode = "delete" \/ (mode = "sync" /\ des.fin)
           /\ Goto("lookup") /\ UNCHANGED <<mode, des>>
  BY <1>1, <1>5 DEF Goto, k8s, FoundRecord
<1> QED
  BY <1>2, <1>3, <1>4, <1>5 DEF Read, ReadNotFound, ReadFound

LEMMA ReadBelieved == ASSUME Types, Believed, Read PROVE Believed'
<1>1. /\ pc = "read" /\ UNCHANGED world /\ UNCHANGED <<refd, up, recs>>
      /\ FoundNothing \/ FoundRecord \/ (AtRest' /\ SameCR)
  BY ReadEnds
<1>2. CASE FoundNothing
  <2>1. ResolvedInv'
    BY <1>1, <1>2 DEF FoundNothing, Believed, ResolvedInv, Resolving, Resolved, ZoneOf
  <2>2. ManagedInv'
    BY <1>1, <1>2 DEF FoundNothing, Believed, ManagedInv, Resolving
  <2> QED
    BY <2>1, <2>2 DEF Believed
<1>3. CASE FoundRecord
  <2>1. ResolvedInv'
    BY <1>1, <1>3 DEF FoundRecord, Believed, ResolvedInv, Resolving, Resolved, ZoneOf
  <2>2. ManagedInv'
    BY <1>1, <1>3 DEF FoundRecord, Believed, ManagedInv, Resolving
  <2> QED
    BY <2>1, <2>2 DEF Believed
<1>4. CASE AtRest' /\ SameCR
  BY <1>1, <1>4, EndBelieved
<1> QED
  BY <1>1, <1>2, <1>3, <1>4

(* The finalizer is put on, and the target stays as it is. *)
Finalized ==
  /\ cr.phase # "gone" /\ cr'.phase = cr.phase /\ cr'.fin = TRUE /\ cr'.target = cr.target
  /\ des'.asked = des.asked /\ des'.zone = des.zone /\ des'.fin = TRUE
  /\ UNCHANGED <<mode, obs>> /\ pc' = "lookup"

LEMMA AddFinalizerEnds ==
  ASSUME Types, Believed, AddFinalizer
  PROVE  /\ pc = "create.finalizer" /\ mode = "sync"
         /\ UNCHANGED world /\ UNCHANGED <<refd, up, recs>>
         /\ Finalized \/ (AtRest' /\ SameCR)
<1>1. /\ UNCHANGED <<refd, up, recs>> /\ UNCHANGED world /\ pc = "create.finalizer"
      /\ mode = "sync" /\ cr \in CRs /\ des \in Desired
  BY DEF AddFinalizer, world, Types, OwnTypes, Believed, ManagedInv
<1>2. CASE ReturnError("plain")
  BY <1>1, <1>2, ReturnErrorEnds DEF Types
<1>3. CASE /\ cr.phase # "gone"
           /\ cr' = [cr EXCEPT !.fin = TRUE, !.target = SpecPatch(@)]
           /\ des' = [des EXCEPT !.fin = TRUE]
           /\ pc' = "lookup" /\ UNCHANGED <<queued, wish, mode, obs>>
  <2>1. SpecPatch(cr.target) = cr.target
    BY SpecPatchKeeps DEF Believed, ResolvedInv, Types
  <2> QED
    BY <1>1, <1>3, <2>1 DEF CRs, Desired, Finalized
<1> QED
  BY <1>1, <1>2, <1>3 DEF AddFinalizer

LEMMA AddFinalizerBelieved == ASSUME Types, Believed, AddFinalizer PROVE Believed'
<1>1. /\ pc = "create.finalizer" /\ mode = "sync" /\ UNCHANGED <<refd, up, recs>>
      /\ Finalized \/ (AtRest' /\ SameCR)
  BY AddFinalizerEnds
<1>2. CASE Finalized
  <2>1. ResolvedInv'
    BY <1>1, <1>2 DEF Finalized, Believed, ResolvedInv, Resolving, Resolved, ZoneOf
  <2>2. ManagedInv'
    BY <1>1, <1>2 DEF Finalized, Believed, ManagedInv, Resolving
  <2> QED
    BY <2>1, <2>2 DEF Believed
<1>3. CASE AtRest' /\ SameCR
  BY <1>1, <1>3, EndBelieved
<1> QED
  BY <1>1, <1>2, <1>3

LEMMA LookupZoneEnds ==
  ASSUME Types, LookupZone
  PROVE  /\ pc = "lookup" /\ UNCHANGED world /\ UNCHANGED <<refd, up, recs>>
         /\ \/ /\ UNCHANGED <<cr, mode, des, obs>>
               /\ pc' = IF mode = "delete" THEN "delete.call" ELSE "write.call"
            \/ AtRest' /\ SameCR
  BY ReturnErrorEnds DEF LookupZone, world, Goto, k8s, Types

LEMMA LookupZoneBelieved == ASSUME Types, Believed, LookupZone PROVE Believed'
<1>1. pc = "lookup" /\ UNCHANGED <<refd, up, recs>>
  BY LookupZoneEnds
<1>2. CASE /\ UNCHANGED <<cr, mode, des, obs>>
           /\ pc' = IF mode = "delete" THEN "delete.call" ELSE "write.call"
  <2>1. ResolvedInv'
    BY <1>1, <1>2 DEF Believed, ResolvedInv, Resolving, Resolved, ZoneOf
  <2>2. ManagedInv'
    BY <1>1, <1>2 DEF Believed, ManagedInv, Resolving
  <2> QED
    BY <2>1, <2>2 DEF Believed
<1>3. CASE AtRest' /\ SameCR
  BY <1>1, <1>3, EndBelieved
<1> QED
  BY <1>2, <1>3, LookupZoneEnds

(* Where a record may be written: in the zone that the target denotes.     *)
LEMMA WritePlace ==
  ASSUME Types, Believed, pc = "write.call", des.zone \in up
  PROVE  /\ des.zone \in ZoneIds /\ des.zone = ZoneOf(des.asked)
         /\ validateReferenceFields(des.asked)
         /\ cr.fin /\ cr.phase # "gone" /\ des.fin /\ mode = "sync"
<1>1. des.zone \in ZoneIds
  BY DEF Types, OwnTypes, WorldTypes, Desired, MaybeZone
<1>2. des.fin /\ mode = "sync" /\ cr.fin /\ cr.phase # "gone"
  BY DEF Believed, ManagedInv
<1> QED
  BY <1>1, <1>2 DEF Believed, ResolvedInv, Resolved

LEMMA WriteCallEnds ==
  ASSUME Types, Believed, WriteCall
  PROVE  /\ pc = "write.call" /\ UNCHANGED <<refd, up>>
         /\ \/ /\ des.zone \in up /\ Write /\ UNCHANGED <<cr, des, obs>>
               /\ mode' = "post" /\ pc' = "read"
            \/ des.zone \in up /\ Write /\ AtRest' /\ SameCR
            \/ UNCHANGED recs /\ AtRest' /\ (SameCR \/ (Creating /\ Freed))
<1>1. UNCHANGED <<refd, up>> /\ pc = "write.call" /\ cr \in CRs
  BY DEF WriteCall, Types, OwnTypes
<1>2. WriteAnswer = "none" => des.zone \in up
  BY DEF WriteAnswer
<1>3. CASE WriteAnswer = "none" /\ Write /\ mode' = "post" /\ Goto("read")
           /\ UNCHANGED <<des, obs>>
  BY <1>1, <1>2, <1>3 DEF Goto, k8s
<1>4. CASE WriteAnswer = "none" /\ Write /\ ReturnCR([cr EXCEPT !.target = SpecPatch(@)], "Synced")
  <2>1. SpecPatch(cr.target) = cr.target /\ "Synced" \in Conditions
    BY SpecPatchKeeps DEF Believed, ResolvedInv, Types, Conditions
  <2>2. [cr EXCEPT !.target = SpecPatch(@)] = cr
    BY <1>1, <2>1 DEF CRs
  <2>3. AtRest' /\ SameCR
    BY <1>1, <1>4, <2>1, <2>2, ReturnCREnds DEF Types, SameCR
  <2> QED
    BY <1>1, <1>2, <1>4, <2>3
<1>5. CASE WriteAnswer = "none" /\ Write /\ WriteFailed("plain")
  <2>1. ~IsAPIError("plain")
    BY DEF IsAPIError, APIErrors, BatchErrors
  <2> QED
    BY <1>1, <1>2, <1>5, <2>1, WriteFailedEnds DEF Types
<1>6. CASE UNCHANGED recs /\ \E err : WriteFailed(err)
  BY <1>1, <1>6, WriteFailedEnds DEF Types
<1> QED
  BY <1>3, <1>4, <1>5, <1>6 DEF WriteCall

LEMMA WriteCallBelieved == ASSUME Types, Believed, WriteCall PROVE Believed'
<1>1. UNCHANGED <<refd, up>> /\ pc = "write.call"
  BY WriteCallEnds
<1>2. CASE /\ des.zone \in up /\ UNCHANGED <<cr, des, obs>> /\ mode' = "post" /\ pc' = "read"
  <2>1. ResolvedInv'
    BY <1>1, <1>2, WritePlace DEF Believed, ResolvedInv, Resolving, Resolved, ZoneOf
  <2>2. ManagedInv'
    BY <1>1, <1>2, WritePlace DEF Believed, ManagedInv, Resolving
  <2> QED
    BY <2>1, <2>2 DEF Believed
<1>3. CASE AtRest' /\ (SameCR \/ Freed)
  BY <1>1, <1>3, EndBelieved
<1> QED
  BY <1>2, <1>3, WriteCallEnds

LEMMA DeleteCallEnds ==
  ASSUME Types, Believed, DeleteCall
  PROVE  /\ pc = "delete.call" /\ mode = "delete" /\ UNCHANGED <<refd, up>>
         /\ \/ UNCHANGED recs /\ AtRest' /\ SameCR
            \/ /\ des.zone \in up /\ des.zone # NoId /\ recs' = [recs EXCEPT ![des.zone] = Absent]
               /\ \/ UNCHANGED <<cr, mode, des, obs>> /\ pc' = "delete.finalizer"
                  \/ AtRest' /\ SameCR
<1>1. UNCHANGED <<refd, up>> /\ pc = "delete.call" /\ mode = "delete"
  BY DEF DeleteCall, Believed, ManagedInv
<1>2. CASE UNCHANGED recs /\ \E err : ReturnError(err)
  BY <1>1, <1>2, ReturnErrorEnds DEF Types
<1>3. CASE /\ DeleteAnswer = "none" /\ recs' = [recs EXCEPT ![des.zone] = Absent]
           /\ \/ Goto("delete.finalizer") /\ UNCHANGED <<mode, des, obs>>
              \/ ReturnError("plain")
  <2>1. des.zone \in up /\ des.zone # NoId
    BY <1>3 DEF DeleteAnswer, Types, WorldTypes
  <2> QED
    BY <1>1, <1>3, <2>1, ReturnErrorEnds DEF Types, Goto, k8s
<1> QED
  BY <1>2, <1>3 DEF DeleteCall

LEMMA DeleteCallBelieved == ASSUME Types, Believed, DeleteCall PROVE Believed'
<1>1. UNCHANGED <<refd, up>> /\ pc = "delete.call" /\ mode = "delete"
  BY DeleteCallEnds
<1>2. CASE UNCHANGED <<cr, mode, des, obs>> /\ pc' = "delete.finalizer"
  <2>1. ResolvedInv'
    BY <1>1, <1>2 DEF Believed, ResolvedInv, Resolving, Resolved, ZoneOf
  <2>2. ManagedInv'
    BY <1>1, <1>2 DEF Believed, ManagedInv, Resolving
  <2> QED
    BY <2>1, <2>2 DEF Believed
<1>3. CASE AtRest' /\ SameCR
  BY <1>1, <1>3, EndBelieved
<1> QED
  BY <1>2, <1>3, DeleteCallEnds

LEMMA RemoveFinalizerEnds ==
  ASSUME Types, RemoveFinalizer
  PROVE  pc = "delete.finalizer" /\ UNCHANGED world /\ AtRest' /\ (SameCR \/ Freed)
<1>1. UNCHANGED world /\ "none" \in Conditions /\ pc = "delete.finalizer"
  BY DEF RemoveFinalizer, Conditions
<1> QED
  BY <1>1, ReturnErrorEnds, ReleasedEnds DEF RemoveFinalizer, Types

LEMMA CrashEnds == Crash => AtRest' /\ SameCR /\ UNCHANGED world
  BY IdleRests DEF Crash, SameCR

LEMMA BelievedStep == Types /\ Believed /\ [Next]_vars => Believed'
<1> SUFFICES ASSUME Types, Believed, [Next]_vars PROVE Believed'
  OBVIOUS
<1>1. CASE Reconcile \/ ResolveHealthCheck \/ ResolveHostedZone \/ Read \/ AddFinalizer
           \/ LookupZone \/ WriteCall \/ DeleteCall
  BY <1>1, ReconcileBelieved, ResolveHealthCheckBelieved, ResolveHostedZoneBelieved,
     ReadBelieved, AddFinalizerBelieved, LookupZoneBelieved, WriteCallBelieved, DeleteCallBelieved
<1>2. CASE RemoveFinalizer \/ Crash
  BY <1>2, RemoveFinalizerEnds, CrashEnds, EndBelieved DEF world
<1>3. CASE User
  BY <1>3, UserBelieved
<1>4. CASE Environment
  BY <1>4, ReferencedBelieved, VanishBelieved DEF Environment
<1>5. CASE UNCHANGED vars
  <2>1. UNCHANGED <<refd, up, recs, cr, pc, mode, des, obs>>
    BY <1>5 DEF vars
  <2>2. ResolvedInv' /\ ManagedInv'
    BY <2>1 DEF Believed, ResolvedInv, ManagedInv, ZoneOf
  <2> QED
    BY <2>2 DEF Believed
<1> QED
  BY <1>1, <1>2, <1>3, <1>4, <1>5 DEF Next, Worker

LEMMA BelievedHolds == Spec => []Believed
  BY InitBelieved, BelievedStep, TypesHold, PTL DEF Spec

-----------------------------------------------------------------------------
(* Where the record is, as long as no user takes a valid target away *)

Located == TargetInv /\ RecordInv

(* What is left of it when the worker is at rest. *)
Placed ==
  /\ Made => cr.fin /\ cr.phase # "gone" /\ validateReferenceFields(cr.target)
  /\ \A z \in ZoneIds : recs[z] # Absent => z \in up /\ z = ZoneOf(cr.target)

LEMMA LocatedPlaced == Located => Placed
  BY DEF Located, RecordInv, Placed

LEMMA RestLocated == AtRest /\ Placed => Located
  BY DEF AtRest, Placed, Located, TargetInv, RecordInv, Resolved

LEMMA InitLocated == Init => Located
  BY RestLocated DEF Init, AtRest, Placed, Made

LEMMA EndsPlaced == ASSUME AtRest', Placed' PROVE Located'
<1>1. (AtRest /\ Placed => Located)'
  BY RestLocated, PTL
<1> QED
  BY <1>1

(* A reconciliation that ends without having touched the world.            *)
LEMMA EndLocated ==
  ASSUME Located, AtRest', UNCHANGED world, SameCR \/ (Freed /\ ~Made)
  PROVE  Located'
<1>1. Placed
  BY LocatedPlaced
<1>2. Made' <=> Made
  BY DEF Made, world
<1>3. cr'.target = cr.target /\ ZoneOf(cr.target)' = ZoneOf(cr.target)
  BY DEF SameCR, Freed, ZoneOf, world
<1>4. Placed'
  BY <1>1, <1>2, <1>3 DEF Placed, SameCR, Freed, Made, world
<1> QED
  BY <1>4, EndsPlaced

(* The steps of what the CR refers to keep the IDs that exist.             *)
LEMMA ReferencedLocated ==
  ASSUME Types, Believed, Located, NEW n \in Named, ReferencedUser(n) \/ ReferencedController(n)
  PROVE  Located'
<1>1. UNCHANGED <<recs, cr, pc, mode, des, obs>> /\ cr.target \in AllTargets
  BY DEF Types, OwnTypes, CRs, ReferencedUser, ReferencedController, k8s
<1>2. TargetInv'
  BY <1>1 DEF Located, TargetInv
<1>3. \A z \in ZoneIds : recs[z] # Absent => z \in up'
  BY ReferencedKeeps DEF Located, RecordInv
<1>4. RecordInv'
  BY <1>1, <1>3, DenotesStill DEF Located, RecordInv, Made, Creating
<1> QED
  BY <1>2, <1>4 DEF Located

LEMMA VanishLocated == ASSUME Located, NEW n \in Named, Vanish(n) PROVE Located'
<1>1. UNCHANGED <<refd, cr, pc, mode, des, obs>>
  BY DEF Vanish, k8s
<1>2. \A z \in ZoneIds : recs'[z] # Absent => recs[z] # Absent /\ (z \in up => z \in up')
  BY DEF Vanish
<1>3. Made' => Made
  BY <1>2 DEF Made
<1>4. TargetInv'
  BY <1>1 DEF Located, TargetInv
<1>5. RecordInv'
  BY <1>1, <1>2, <1>3 DEF Located, RecordInv, ZoneOf, Creating
<1> QED
  BY <1>4, <1>5 DEF Located

(* What is not counted as a retarget leaves a valid target alone. *)
LEMMA TargetsKept ==
  ASSUME Types, retargets' = 0, NEW old, NEW new, Keeps(old, new)
  PROVE  validateReferenceFields(old) => new = old
  BY DEF Types, OwnTypes, Keeps

LEMMA UserLocated == ASSUME Types, Believed, Located, retargets' = 0, User PROVE Located'
<1>1. UNCHANGED <<refd, up, recs, pc, mode, des, obs>> /\ cr \in CRs
  BY DEF User, world, Types, OwnTypes
<1>2. Made' <=> Made
  BY <1>1 DEF Made
<1>3. CASE /\ cr.phase = "gone"
           /\ \E t \in Targets, c \in BOOLEAN :
                /\ Keeps(des.asked, t)
                /\ cr' = [phase |-> "live", fin |-> FALSE, target |-> t, checked |-> c,
                          cond |-> "none"]
  <2>1. ~Made /\ mode # "delete"
    BY <1>3 DEF Believed, Located, ManagedInv, RecordInv
  <2>2. /\ cr'.phase = "live"
        /\ validateReferenceFields(des.asked) => cr'.target = des.asked
    BY <1>3, TargetsKept
  <2>3. TargetInv'
    BY <1>1, <2>1, <2>2 DEF TargetInv
  <2>4. RecordInv'
    BY <1>1, <1>2, <2>1 DEF Located, RecordInv, Creating, Made
  <2> QED
    BY <2>3, <2>4 DEF Located
<1>4. CASE /\ cr.phase = "live"
           /\ \E t \in Targets, c \in BOOLEAN :
                /\ MayEdit(cr.target, t)
                /\ cr' = [cr EXCEPT !.target = t, !.checked = c]
  <2>1. /\ cr'.phase = cr.phase /\ cr'.fin = cr.fin
        /\ validateReferenceFields(cr.target) => cr'.target = cr.target
    BY <1>1, <1>4, TargetsKept DEF MayEdit, CRs
  <2>2. mode # "delete"
    BY <1>4 DEF Believed, ManagedInv
  <2>3. TargetInv'
    BY <1>1, <1>4, <2>1, <2>2 DEF Located, TargetInv
  <2>4. RecordInv'
    BY <1>1, <1>2, <2>1 DEF Located, RecordInv, ZoneOf, Creating, Made
  <2> QED
    BY <2>3, <2>4 DEF Located
<1>5. CASE /\ cr.phase = "live"
           /\ cr' = [cr EXCEPT !.phase = IF cr.fin THEN "deleting" ELSE "gone"]
  <2>1. /\ cr'.phase = IF cr.fin THEN "deleting" ELSE "gone"
        /\ cr'.fin = cr.fin /\ cr'.target = cr.target
    BY <1>1, <1>5 DEF CRs
  <2>2. TargetInv'
    BY <1>1, <1>5, <2>1 DEF Located, TargetInv
  <2>3. RecordInv'
    BY <1>1, <1>2, <2>1 DEF Located, RecordInv, ZoneOf, Creating
  <2> QED
    BY <2>2, <2>3 DEF Located
<1> QED
  BY <1>3, <1>4, <1>5 DEF User

(* The steps of the worker. *)
LEMMA ReconcileLocated == ASSUME Located, Reconcile PROVE Located'
<1>1. /\ UNCHANGED <<refd, up, recs, cr, obs>> /\ pc' = "resolve.check"
      /\ des'.asked = cr.target
  BY DEF Reconcile, world
<1>2. TargetInv'
  BY <1>1 DEF TargetInv
<1>3. RecordInv'
  BY <1>1 DEF Located, RecordInv, Resolved, ZoneOf, Made
<1> QED
  BY <1>2, <1>3 DEF Located

LEMMA UnresolvedLocated ==
  ASSUME Types, Believed, Located, pc \in Resolving, Unresolved, UNCHANGED world
  PROVE  Located'
<1>1. CASE mode = "delete" /\ pc' = "read" /\ UNCHANGED <<cr, queued, wish, mode, des, obs>>
  <2>1. /\ pc # "idle" /\ des.zone = des.asked.id /\ UNCHANGED <<refd, up, recs>>
    BY DEF Believed, ResolvedInv, Resolving, world
  <2>2. TargetInv'
    BY <1>1, <2>1 DEF Located, TargetInv
  <2>3. ASSUME NEW z \in ZoneIds, recs[z] # Absent, des.zone # NoId PROVE z = des.zone
    <3>1. /\ cr.target = des.asked /\ validateReferenceFields(des.asked)
          /\ z = ZoneOf(cr.target)
      BY <1>1, <2>1, <2>3 DEF Located, TargetInv, RecordInv, Made
    <3> QED
      BY <2>1, <2>3, <3>1, GivenZone
  <2>4. RecordInv'
    BY <1>1, <2>1, <2>3 DEF Located, RecordInv, ZoneOf, Made
  <2> QED
    BY <2>2, <2>4 DEF Located
<1>2. CASE AtRest' /\ SameCR
  BY <1>2, EndLocated
<1> QED
  BY <1>1, <1>2, UnresolvedEnds DEF Types

LEMMA ResolveHealthCheckLocated ==
  ASSUME Types, Believed, Located, ResolveHealthCheck PROVE Located'
<1>1. /\ pc = "resolve.check" /\ UNCHANGED world /\ UNCHANGED <<refd, up, recs>>
      /\ CheckResolved \/ Unresolved
  BY ResolveHealthCheckEnds
<1>2. CASE CheckResolved
  <2>1. TargetInv'
    BY <1>1, <1>2 DEF CheckResolved, Located, TargetInv
  <2>2. RecordInv'
    BY <1>1, <1>2 DEF CheckResolved, Located, RecordInv, Resolved, ZoneOf, Made
  <2> QED
    BY <2>1, <2>2 DEF Located
<1>3. CASE Unresolved
  BY <1>1, <1>3, UnresolvedLocated DEF Resolving
<1> QED
  BY <1>1, <1>2, <1>3

LEMMA ResolveHostedZoneLocated ==
  ASSUME Types, Believed, Located, ResolveHostedZone PROVE Located'
<1>1. /\ pc = "resolve.zone" /\ UNCHANGED world /\ UNCHANGED <<refd, up, recs>>
      /\ ZoneResolved \/ Unresolved \/ (AtRest' /\ SameCR)
  BY ResolveHostedZoneEnds
<1>2. CASE ZoneResolved
  <2>1. ASSUME Made PROVE cr.target = des.asked
    BY <1>1, <1>2, <2>1 DEF ZoneResolved, Located, TargetInv, RecordInv
  <2>2. TargetInv'
    BY <1>1, <1>2 DEF ZoneResolved, Located, TargetInv
  <2>3. RecordInv'
    BY <1>1, <1>2, <2>1 DEF ZoneResolved, Located, RecordInv, ZoneOf, Made
  <2> QED
    BY <2>2, <2>3 DEF Located
<1>3. CASE Unresolved
  BY <1>1, <1>3, UnresolvedLocated DEF Resolving
<1>4. CASE AtRest' /\ SameCR
  BY <1>1, <1>4, EndLocated
<1> QED
  BY <1>1, <1>2, <1>3, <1>4

(* When ReadOne finds nothing, there is no record at all.                  *)
LEMMA NothingFound ==
  ASSUME Types, Located, pc \in Resolved,
         zoneAnswer = "notFound" \/ (zoneAnswer = "none" /\ recs[des.zone] = Absent)
  PROVE  ~Made
<1>1. des.zone # NoId /\ (des.zone \in up => recs[des.zone] = Absent)
  BY DEF zoneAnswer, Types, WorldTypes
<1> QED
  BY <1>1 DEF Located, RecordInv, Made

LEMMA ReadLocated == ASSUME Types, Located, Read PROVE Located'
<1>1. /\ pc = "read" /\ UNCHANGED world /\ UNCHANGED <<refd, up, recs>>
      /\ FoundNothing \/ FoundRecord \/ (AtRest' /\ SameCR)
  BY ReadEnds
<1>2. CASE FoundNothing
  <2>1. ~Made
    BY <1>1, <1>2, NothingFound DEF FoundNothing, Resolved
  <2>2. TargetInv'
    BY <1>1, <1>2 DEF FoundNothing, Located, TargetInv
  <2>3. RecordInv'
    BY <1>1, <1>2, <2>1 DEF FoundNothing, Located, RecordInv, Made
  <2> QED
    BY <2>2, <2>3 DEF Located
<1>3. CASE FoundRecord
  <2>1. TargetInv'
    BY <1>1, <1>3 DEF FoundRecord, Located, TargetInv
  <2>2. RecordInv'
    BY <1>1, <1>3 DEF FoundRecord, Located, RecordInv, Resolved, ZoneOf, Creating, Made
  <2> QED
    BY <2>1, <2>2 DEF Located
<1>4. CASE AtRest' /\ SameCR
  BY <1>1, <1>4, EndLocated
<1> QED
  BY <1>1, <1>2, <1>3, <1>4

LEMMA AddFinalizerLocated == ASSUME Types, Believed, Located, AddFinalizer PROVE Located'
<1>1. /\ pc = "create.finalizer" /\ UNCHANGED world /\ UNCHANGED <<refd, up, recs>>
      /\ Finalized \/ (AtRest' /\ SameCR)
  BY AddFinalizerEnds
<1>2. CASE Finalized
  <2>1. ~Made
    BY <1>1 DEF Located, RecordInv
  <2>2. TargetInv'
    BY <1>1, <1>2 DEF Finalized, Located, TargetInv
  <2>3. RecordInv'
    BY <1>1, <1>2, <2>1 DEF Finalized, Located, RecordInv, Creating, Made
  <2> QED
    BY <2>2, <2>3 DEF Located
<1>3. CASE AtRest' /\ SameCR
  BY <1>1, <1>3, EndLocated
<1> QED
  BY <1>1, <1>2, <1>3

LEMMA LookupZoneLocated == ASSUME Types, Located, LookupZone PROVE Located'
<1>1. pc = "lookup" /\ UNCHANGED world /\ UNCHANGED <<refd, up, recs>>
  BY LookupZoneEnds
<1>2. CASE /\ UNCHANGED <<cr, mode, des, obs>>
           /\ pc' = IF mode = "delete" THEN "delete.call" ELSE "write.call"
  <2>1. TargetInv'
    BY <1>1, <1>2 DEF Located, TargetInv
  <2>2. RecordInv'
    BY <1>1, <1>2 DEF Located, RecordInv, Resolved, ZoneOf, Creating, Made
  <2> QED
    BY <2>1, <2>2 DEF Located
<1>3. CASE AtRest' /\ SameCR
  BY <1>1, <1>3, EndLocated
<1> QED
  BY <1>2, <1>3, LookupZoneEnds

LEMMA WritePlaced ==
  ASSUME Types, Believed, Located, pc = "write.call", des.zone \in up, Write,
         UNCHANGED <<refd, up>>, SameCR
  PROVE  Placed' /\ \A z \in ZoneIds : recs'[z] # Absent => z = des.zone
<1>1. /\ recs \in [ZoneIds -> MaybeCheck \cup {Absent}] /\ des.zone # NoId
      /\ recs' = [recs EXCEPT ![des.zone] = des.check]
  BY DEF Types, WorldTypes, Write
<1>2. \A z \in ZoneIds : recs'[z] # Absent => z = des.zone
  BY <1>1 DEF Located, RecordInv, Resolved
<1>3. cr.target = des.asked
  BY WritePlace DEF Located, TargetInv
<1> QED
  BY <1>2, <1>3, LocatedPlaced, WritePlace DEF Placed, SameCR, ZoneOf

LEMMA WriteCallLocated == ASSUME Types, Believed, Located, WriteCall PROVE Located'
<1>1. UNCHANGED <<refd, up>> /\ pc = "write.call"
  BY WriteCallEnds
<1>2. CASE /\ des.zone \in up /\ Write /\ UNCHANGED <<cr, des, obs>>
           /\ mode' = "post" /\ pc' = "read"
  <2>1. Placed' /\ \A z \in ZoneIds : recs'[z] # Absent => z = des.zone
    BY <1>1, <1>2, WritePlaced DEF SameCR
  <2>2. TargetInv'
    BY <1>1, <1>2, WritePlace DEF Located, TargetInv
  <2>3. RecordInv'
    BY <1>2, <2>1 DEF Placed, RecordInv
  <2> QED
    BY <2>2, <2>3 DEF Located
<1>3. CASE des.zone \in up /\ Write /\ AtRest' /\ SameCR
  BY <1>1, <1>3, WritePlaced, EndsPlaced
<1>4. CASE UNCHANGED recs /\ AtRest' /\ (SameCR \/ (Creating /\ Freed))
  <2>1. UNCHANGED world /\ (Creating => ~Made)
    BY <1>1, <1>4 DEF world, Located, RecordInv
  <2> QED
    BY <1>4, <2>1, EndLocated
<1> QED
  BY <1>2, <1>3, <1>4, WriteCallEnds

LEMMA DeleteCallLocated == ASSUME Types, Believed, Located, DeleteCall PROVE Located'
<1>1. UNCHANGED <<refd, up>> /\ pc = "delete.call" /\ mode = "delete"
  BY DeleteCallEnds
<1>2. CASE UNCHANGED recs /\ AtRest' /\ SameCR
  BY <1>1, <1>2, EndLocated DEF world
<1>3. CASE /\ des.zone \in up /\ des.zone # NoId /\ recs' = [recs EXCEPT ![des.zone] = Absent]
           /\ \/ UNCHANGED <<cr, mode, des, obs>> /\ pc' = "delete.finalizer"
              \/ AtRest' /\ SameCR
  <2>1. \A z \in ZoneIds : recs'[z] = Absent
    BY <1>1, <1>3 DEF Types, WorldTypes, Located, RecordInv, Resolved
  <2>2. ~Made'
    BY <2>1 DEF Made
  <2>3. CASE UNCHANGED <<cr, mode, des, obs>> /\ pc' = "delete.finalizer"
    <3>1. TargetInv'
      BY <1>1, <2>3 DEF Located, TargetInv
    <3>2. RecordInv'
      BY <2>1, <2>2, <2>3 DEF RecordInv
    <3> QED
      BY <3>1, <3>2 DEF Located
  <2>4. CASE AtRest' /\ SameCR
    BY <2>1, <2>2, <2>4, EndsPlaced DEF Placed
  <2> QED
    BY <1>3, <2>3, <2>4
<1> QED
  BY <1>2, <1>3, DeleteCallEnds

LEMMA LocatedStep ==
  Types /\ Believed /\ Located /\ [Next]_vars /\ retargets' = 0 => Located'
<1> SUFFICES ASSUME Types, Believed, Located, [Next]_vars, retargets' = 0 PROVE Located'
  OBVIOUS
<1>1. CASE Reconcile \/ ResolveHealthCheck \/ ResolveHostedZone \/ Read \/ AddFinalizer
           \/ LookupZone \/ WriteCall \/ DeleteCall
  BY <1>1, ReconcileLocated, ResolveHealthCheckLocated, ResolveHostedZoneLocated,
     ReadLocated, AddFinalizerLocated, LookupZoneLocated, WriteCallLocated, DeleteCallLocated
<1>2. CASE RemoveFinalizer \/ Crash
  <2>1. RemoveFinalizer => ~Made
    BY RemoveFinalizerEnds DEF Located, RecordInv
  <2> QED
    BY <1>2, <2>1, RemoveFinalizerEnds, CrashEnds, EndLocated
<1>3. CASE User
  BY <1>3, UserLocated
<1>4. CASE Environment
  BY <1>4, ReferencedLocated, VanishLocated DEF Environment
<1>5. CASE UNCHANGED vars
  <2>1. UNCHANGED <<refd, up, recs, cr, pc, mode, des, obs>>
    BY <1>5 DEF vars
  <2>2. TargetInv' /\ RecordInv'
    BY <2>1 DEF Located, TargetInv, RecordInv, ZoneOf, Made, Creating
  <2> QED
    BY <2>2 DEF Located
<1> QED
  BY <1>1, <1>2, <1>3, <1>4, <1>5 DEF Next, Worker

(* Retargets are counted, and never forgotten. *)
LEMMA RetargetsStay == Types /\ [Next]_vars /\ retargets' = 0 => retargets = 0
<1> SUFFICES ASSUME Types, [Next]_vars, retargets' = 0 PROVE retargets = 0
  OBVIOUS
<1>1. CASE Worker \/ Crash \/ Environment \/ UNCHANGED vars
  BY <1>1 DEF Worker, Reconcile, ResolveHealthCheck, ResolveHostedZone, Read, AddFinalizer,
     LookupZone, WriteCall, DeleteCall, RemoveFinalizer, Crash, Environment, ReferencedUser,
     ReferencedController, Vanish, userBounds, vars
<1>2. CASE User
  <2>1. \A old, new : Keeps(old, new) => retargets = 0
    BY DEF Types, OwnTypes, Keeps
  <2> QED
    BY <1>2, <2>1 DEF User, MayEdit
<1> QED
  BY <1>1, <1>2 DEF Next

Safe == Believed /\ (retargets = 0 => Located)

LEMMA SafeHolds == Spec => []Safe
<1>1. Types /\ Believed /\ (retargets = 0 => Located) /\ [Next]_vars
        => (retargets = 0 => Located)'
  BY LocatedStep, RetargetsStay
<1>2. Types /\ Safe /\ [Next]_vars => Safe'
  BY <1>1, BelievedStep DEF Safe
<1>3. Init => Safe
  BY InitBelieved, InitLocated DEF Safe
<1> QED
  BY <1>2, <1>3, TypesHold, PTL DEF Spec

(* Inv, the strengthening with which the safety properties are inductive:  *)
(* what the worker has resolved and may believe at each call of a          *)
(* reconciliation, whatever users do, and where the record of the CR is    *)
(* until one takes a valid target away.                                    *)
THEOREM InvHolds == Spec => []Inv
<1>1. TypeOK /\ Safe => Inv
  BY DEF Safe, Believed, Located, Inv
<1> QED
  BY <1>1, SafeHolds, TypeCorrect, PTL

(* No record is left behind until a user takes a valid target away, so     *)
(* nothing but a change of its target can do that: what generator.yaml:80  *)
(* says of the immutable HostedZoneID needs the same of HostedZoneRef.     *)
THEOREM NoOrphanHolds == Spec => [](retargets = 0 => NoOrphanedRecordSet)
<1>1. Safe => (retargets = 0 => NoOrphanedRecordSet)
  BY DEF Safe, Located, RecordInv, Made, NoOrphanedRecordSet
<1> QED
  BY <1>1, SafeHolds, PTL

-----------------------------------------------------------------------------
(* Where the worker writes, and that it implements ManagedResource *)

(* What a step of the worker does to the records. *)
LEMMA WorkerWrites ==
  ASSUME Types, Believed, Worker
  PROVE  \/ UNCHANGED recs
         \/ /\ pc = "write.call" /\ des.zone \in up /\ Write /\ UNCHANGED <<refd, up>>
            /\ SameCR
         \/ /\ pc = "delete.call" /\ mode = "delete" /\ des.zone \in up
            /\ recs' = [recs EXCEPT ![des.zone] = Absent] /\ SameCR
<1>1. CASE WriteCall
  BY <1>1, WriteCallEnds DEF SameCR
<1>2. CASE DeleteCall
  BY <1>2, DeleteCallEnds DEF SameCR
<1>3. CASE \/ Reconcile \/ ResolveHealthCheck \/ ResolveHostedZone \/ Read \/ AddFinalizer
           \/ LookupZone \/ RemoveFinalizer
  BY <1>3 DEF Reconcile, ResolveHealthCheck, ResolveHostedZone, Read, AddFinalizer, LookupZone,
     RemoveFinalizer, world
<1> QED
  BY <1>1, <1>2, <1>3 DEF Worker

(* A record is written only in the zone that a valid reference or ID       *)
(* denotes at that moment, however many calls ago it was resolved and      *)
(* whatever became of the referenced CRs and of the target meanwhile; and  *)
(* deleted only there, until a user takes a valid target away.             *)
THEOREM WritesWhereAskedHolds == Spec => WritesWhereAsked
<1> DEFINE Allowed == \A z \in ZoneIds : recs'[z] # recs[z] =>
                         /\ z = ZoneOf(des.asked)
                         /\ ~des.asked.clash /\ (des.asked.ref = NoRef) # (des.asked.id = NoId)
<1>1. ASSUME Types, Safe, Worker, mode = "delete" => retargets = 0 PROVE Allowed
  <2>1. Believed /\ recs \in [ZoneIds -> MaybeCheck \cup {Absent}]
    BY <1>1 DEF Safe, Types, WorldTypes
  <2>2. CASE UNCHANGED recs
    BY <2>2
  <2>3. CASE pc = "write.call" /\ des.zone \in up /\ Write
    BY <1>1, <2>1, <2>3, WritePlace DEF Write, validateReferenceFields
  <2>4. CASE /\ pc = "delete.call" /\ mode = "delete" /\ des.zone \in up
             /\ recs' = [recs EXCEPT ![des.zone] = Absent]
    <3> SUFFICES ASSUME NEW z \in ZoneIds, recs'[z] # recs[z]
                 PROVE  /\ z = ZoneOf(des.asked)
                        /\ ~des.asked.clash /\ (des.asked.ref = NoRef) # (des.asked.id = NoId)
      OBVIOUS
    <3>1. z = des.zone /\ recs[z] # Absent
      BY <2>1, <2>4
    <3>2. cr.phase # "gone" /\ validateReferenceFields(cr.target) /\ cr.target = des.asked
      BY <1>1, <2>4, <3>1 DEF Safe, Located, RecordInv, TargetInv, Made
    <3> QED
      BY <2>1, <2>4, <3>1, <3>2 DEF Believed, ResolvedInv, Resolved, validateReferenceFields
  <2> QED
    BY <1>1, <2>1, <2>2, <2>3, <2>4, WorkerWrites
<1>2. Types /\ Safe /\ [Next]_vars
        => [Worker /\ (mode = "delete" => retargets = 0) => Allowed]_vars
  BY <1>1
<1> QED
  BY <1>2, TypesHold, SafeHolds, PTL DEF Spec, WritesWhereAsked

(* What a step of the worker does to the CR. *)
FinalizerAdded == cr.phase # "gone" /\ cr'.phase = cr.phase /\ cr'.fin = TRUE

LEMMA WorkerCR ==
  ASSUME Types, Believed, Located, Worker
  PROVE  \/ SameCR
         \/ UNCHANGED recs /\ FinalizerAdded
         \/ UNCHANGED recs /\ Freed /\ ~Made
<1>1. CASE Reconcile \/ ResolveHealthCheck \/ ResolveHostedZone
  BY <1>1, ResolveHealthCheckEnds, ResolveHostedZoneEnds, UnresolvedEnds
     DEF Reconcile, SameCR, CheckResolved, ZoneResolved, Types
<1>2. CASE Read \/ LookupZone \/ DeleteCall
  BY <1>2, ReadEnds, LookupZoneEnds, DeleteCallEnds DEF SameCR, FoundNothing, FoundRecord
<1>3. CASE AddFinalizer
  BY <1>3, AddFinalizerEnds DEF Finalized, FinalizerAdded
<1>4. CASE WriteCall
  BY <1>4, WriteCallEnds DEF SameCR, Located, RecordInv
<1>5. CASE RemoveFinalizer
  BY <1>5, RemoveFinalizerEnds DEF world, Located, RecordInv
<1> QED
  BY <1>1, <1>2, <1>3, <1>4, <1>5 DEF Worker

(* Each step of the worker is one of the controller's, or is not seen.     *)
LEMMA WorkerMaps == Types /\ Believed /\ Located /\ Worker => MR!Controller \/ UNCHANGED MR!vars
<1> SUFFICES ASSUME Types, Believed, Located, Worker PROVE MR!Controller \/ UNCHANGED MR!vars
  OBVIOUS
<1>1. recs \in [ZoneIds -> MaybeCheck \cup {Absent}]
  BY DEF Types, WorldTypes
<1>2. CASE UNCHANGED recs
  <2>1. CASE SameCR
    BY <1>2, <2>1 DEF SameCR, MR!vars
  <2>2. CASE FinalizerAdded
    BY <1>2, <2>2 DEF FinalizerAdded, MR!Controller, MR!Manage
  <2>3. CASE Freed /\ ~Made
    BY <1>2, <2>3 DEF Freed, Made, MR!Controller, MR!Release
  <2> QED
    BY <2>1, <2>2, <2>3, WorkerCR
<1>3. CASE pc = "write.call" /\ des.zone \in up /\ Write /\ SameCR
  <2>1. des.zone \in ZoneIds /\ cr.fin /\ cr.phase # "gone" /\ des.check \in MaybeCheck
    BY <1>3, WritePlace DEF Types, OwnTypes, Desired
  <2>2. recs'[des.zone] # Absent
    BY <1>1, <1>3, <2>1 DEF Write, MaybeCheck
  <2>3. cr'.phase = cr.phase /\ cr'.fin = cr.fin
    BY <1>3 DEF SameCR
  <2> QED
    BY <2>1, <2>2, <2>3 DEF MR!Controller, MR!Make
<1>4. CASE /\ pc = "delete.call" /\ mode = "delete" /\ des.zone \in up
           /\ recs' = [recs EXCEPT ![des.zone] = Absent] /\ SameCR
  <2>1. cr.phase = "deleting" /\ des.zone # NoId
    BY <1>4 DEF Believed, ManagedInv, Types, WorldTypes
  <2>2. \A z \in ZoneIds : recs'[z] = Absent
    BY <1>1, <1>4, <2>1 DEF Located, RecordInv, Resolved
  <2>3. cr'.phase = cr.phase /\ cr'.fin = cr.fin
    BY <1>4 DEF SameCR
  <2> QED
    BY <2>1, <2>2, <2>3 DEF MR!Controller, MR!Remove
<1> QED
  BY <1>2, <1>3, <1>4, WorkerWrites

(* The user's steps and those of the world are the world's.                *)
LEMMA OthersMap ==
  Types /\ Located /\ (User \/ Crash \/ Environment) => MR!World \/ UNCHANGED MR!vars
<1> SUFFICES ASSUME Types, Located, User \/ Crash \/ Environment PROVE MR!World \/ UNCHANGED MR!vars
  OBVIOUS
<1>1. cr \in CRs
  BY DEF Types, OwnTypes
<1>2. CASE User
  <2>1. UNCHANGED recs
    BY <1>2 DEF User, world
  <2>2. CASE /\ cr.phase = "gone"
             /\ \E t \in Targets, c \in BOOLEAN :
                  cr' = [phase |-> "live", fin |-> FALSE, target |-> t, checked |-> c,
                         cond |-> "none"]
    <3>1. ~Made /\ cr'.phase = "live" /\ cr'.fin = FALSE
      BY <2>2 DEF Located, RecordInv
    <3> QED
      BY <2>1, <2>2, <3>1 DEF Made, MR!World, MR!Submit
  <2>3. CASE \E t \in Targets, c \in BOOLEAN : cr' = [cr EXCEPT !.target = t, !.checked = c]
    <3>1. cr'.phase = cr.phase /\ cr'.fin = cr.fin
      BY <1>1, <2>3 DEF CRs
    <3> QED
      BY <2>1, <3>1 DEF MR!vars
  <2>4. CASE /\ cr.phase = "live"
             /\ cr' = [cr EXCEPT !.phase = IF cr.fin THEN "deleting" ELSE "gone"]
    <3>1. cr'.phase = (IF cr.fin THEN "deleting" ELSE "gone") /\ cr'.fin = cr.fin
      BY <1>1, <2>4 DEF CRs
    <3> QED
      BY <2>1, <2>4, <3>1 DEF MR!World, MR!Withdraw
  <2> QED
    BY <1>2, <2>2, <2>3, <2>4 DEF User
<1>3. CASE \/ Crash
           \/ \E n \in Named : ReferencedUser(n) \/ ReferencedController(n)
  BY <1>3 DEF Crash, ReferencedUser, ReferencedController, world, k8s, MR!vars
<1>4. CASE \E n \in Named : Vanish(n)
  <2>1. UNCHANGED cr /\ (Made' => Made)
    BY <1>4 DEF Vanish, k8s, Made
  <2> QED
    BY <2>1 DEF Made, MR!World, MR!Lose, MR!vars
<1> QED
  BY <1>2, <1>3, <1>4 DEF Environment

(* In every behaviour in which no user takes a valid target away, a        *)
(* RecordSet CR with references implements ManagedResource: whatever       *)
(* becomes of the CRs it refers to, its record is made under the finalizer *)
(* and removed before it, and only because the CR is withdrawn; and every  *)
(* step of the worker is the controller's.                                 *)
THEOREM ManagedHolds == Spec /\ [](retargets = 0) => Managed
<1>1. Init => MR!Init
  BY DEF Init, MR!Init
<1>2. Safe /\ retargets = 0 => Believed /\ Located
  BY DEF Safe
<1>3. Types /\ Believed /\ Located /\ [Next]_vars => [MR!Next]_(MR!vars)
  <2>1. UNCHANGED vars => UNCHANGED MR!vars
    BY DEF vars, MR!vars
  <2> QED
    BY <2>1, WorkerMaps, OthersMap DEF Next, MR!Next
<1>4. Types /\ Believed /\ Located /\ [Next]_vars => [Worker => [MR!Controller]_(MR!vars)]_vars
  BY WorkerMaps
<1> QED
  BY <1>1, <1>2, <1>3, <1>4, TypesHold, SafeHolds, PTL DEF Spec, Managed, MR!Spec

(* With it the promises of ManagedResource are its own: a record that      *)
(* exists has a CR with the finalizer, and a CR is never gone before it.   *)
P == INSTANCE ManagedResourceProofs WITH
       phase <- cr.phase, fin <- cr.fin, exists <- \E z \in ZoneIds : recs[z] # Absent

LEMMA SamePromise == MR!Spec => P!Spec
<1>1. MR!Init => P!Init
  BY DEF MR!Init, P!Init
<1>2. [MR!Next]_(MR!vars) => [P!Next]_(P!vars)
  BY DEF MR!vars, MR!Next, MR!World, MR!Submit, MR!Withdraw, MR!Lose,
         MR!Controller, MR!Manage, MR!Adopt, MR!Make, MR!Remove, MR!Release,
         P!vars, P!Next, P!World, P!Submit, P!Withdraw, P!Lose,
         P!Controller, P!Manage, P!Adopt, P!Make, P!Remove, P!Release
<1> QED
  BY <1>1, <1>2, PTL DEF MR!Spec, P!Spec

(* A record that exists has a custom resource, with the finalizer on it;   *)
(* and the custom resource goes only after it.                             *)
THEOREM NeverLeaksHolds == Spec /\ [](retargets = 0) => []MR!NoLeak /\ MR!LastToGo
<1>1. P!NoLeak => MR!NoLeak
  BY DEF P!NoLeak, MR!NoLeak
<1>2. P!LastToGo => MR!LastToGo
  <2>1. [cr.phase # "gone" /\ (cr.phase)' = "gone" => ~(\E z \in ZoneIds : recs[z] # Absent)]_(P!vars)
          => [cr.phase # "gone" /\ (cr.phase)' = "gone" => ~(\E z \in ZoneIds : recs[z] # Absent)]_(MR!vars)
    BY DEF P!vars, MR!vars
  <2> QED
    BY <2>1, PTL DEF P!LastToGo, MR!LastToGo
<1> QED
  BY <1>1, <1>2, ManagedHolds, SamePromise, P!NoLeakHolds, P!LastToGoHolds, PTL DEF Managed
=============================================================================
