----------------------------- MODULE HostedZone -----------------------------
(***************************************************************************)
(* One HostedZone custom resource, the worker that reconciles it, and the  *)
(* hosted zones it creates in Route 53 with their tags and their VPC       *)
(* associations.  Every AWS call and every patch of the CR is a step.      *)
(*                                                                         *)
(* Abstractions.                                                           *)
(*  - Spec.VPC and Spec.VPCs are one wish: the field used, the VPC IDs it  *)
(*    names, and the ones among them it places in another region than the  *)
(*    VPC's.  The order of Spec.VPCs only picks the first one.  A wish may *)
(*    be one that validateVPCFields refuses; a Spec.VPC without ID or      *)
(*    region, which it accepts, is not written.                            *)
(*  - Name, comment and delegation set never change, and HostedZoneConfig  *)
(*    counts only where validateVPCFields looks at it: sdkFind copies all  *)
(*    but the name from the CR, so that an edit of them is not even seen.  *)
(*    A name that Route 53 lists in another form than Spec.Name always is  *)
(*    a difference, but the update for it calls nothing.                   *)
(*  - A lost answer, the call having had its effect, is modelled for the   *)
(*    calls that create and delete a zone; for the calls on tags and VPCs  *)
(*    a crash after the call leaves the same.                              *)
(*  - The ID of a zone that is gone and that nothing refers to may be used *)
(*    again.  The ACK runtime is modelled as in RecordSet.                 *)
(***************************************************************************)
EXTENDS AckErrors, Tags, Integers, FiniteSets

CONSTANTS
  VPCs,        \* VPC IDs
  Taken,       \* the ones that another zone of the same name already has
  Wishes,      \* the VPC fields a user may write
  TagLists,    \* the tag lists a user may write: sets of <<key, value>>
  DefaultTags, \* the controller's own tags (--resource-tags)
  SystemTags,  \* tags another AWS service may put on the zone
  BadTags,     \* tags Route 53 refuses (InvalidInput)
  Renamed,     \* Route 53 lists the zone's name otherwise than Spec.Name has it
  ZoneIds, NoZone, NoId,
  MaxFailures, \* bound: AWS calls that fail without effect
  MaxLosses,   \* bound: lost answers, failed patches, crashes
  MaxEdits,    \* bound: steps of users
  MaxMeddling  \* bound: associations and deletions made by others

(* What a wish writes: no VPC field, one of the two, both with one VPC,    *)
(* one next to an explicit HostedZoneConfig.PrivateZone = false, or        *)
(* Spec.VPCs with an entry that is nil or lacks its ID or its region.      *)
Fields == {"none", "vpc", "vpcs", "both", "public", "incomplete"}
VPCWishes == [via : Fields, ids : SUBSET VPCs, misplaced : SUBSET VPCs]

ASSUME VPCsAssumption == IsFiniteSet(VPCs) /\ Taken \subseteq VPCs
ASSUME WishesAssumption ==
  /\ Wishes \subseteq VPCWishes
  /\ \A w \in Wishes : /\ w.misplaced \subseteq w.ids
                       /\ w.via = "none" => w.ids = {}
                       /\ w.via \in {"vpc", "both"} => Cardinality(w.ids) = 1
                       /\ w.via = "public" => w.ids # {}
ASSUME TagsAssumption ==
  /\ KeysOf(SystemTags) \subseteq AwsKeys
  /\ KeysOf(DefaultTags \cup UNION TagLists) \cap AwsKeys = {}
  /\ \A tags \in TagLists \cup {DefaultTags, SystemTags} : OnePerKey(tags)

(* A hosted zone of Route 53. *)
AllTags == (UNION TagLists) \cup DefaultTags \cup SystemTags
Zones == [vpcs : SUBSET VPCs, tags : SUBSET AllTags, private : BOOLEAN]

ASSUME RenamedAssumption == Renamed \in BOOLEAN
ASSUME IdsAssumption == NoId \notin ZoneIds /\ NoZone \notin Zones

VARIABLES
  zones,    \* Route 53: the zones this CR has created
  cr, queued,
  pc, mode, \* the worker, as in RecordSet
  des, obs, ret, \* obs.fresh, a ghost: nobody else has worked on the zone
            \* since this reconciliation began
  todo,     \* the worker: VPCs the running loop has still to visit
  failures, losses, edits, meddling

k8s == <<cr, queued>>
counters == <<failures, losses, edits, meddling>>
vars == <<zones, cr, queued, pc, mode, des, obs, ret, todo, failures, losses, edits, meddling>>

NoWish == [via |-> "none", ids |-> {}, misplaced |-> {}]
Nothing == [vpcs |-> {}, tags |-> {}, fresh |-> FALSE]
NoResult == [id |-> NoId, cond |-> "none", postCreate |-> FALSE]

Idle ==
  /\ pc' = "idle" /\ mode' = "sync" /\ todo' = {}
  /\ des' = [wish |-> NoWish, tags |-> {}, fin |-> FALSE, id |-> NoId]
  /\ obs' = Nothing
  /\ ret' = NoResult

Init ==
  /\ zones = [z \in ZoneIds |-> NoZone]
  /\ cr = [phase |-> "gone", fin |-> FALSE, wish |-> NoWish, tags |-> {}, id |-> NoId,
           cond |-> "none"]
  /\ queued = FALSE
  /\ pc = "idle" /\ mode = "sync" /\ todo = {}
  /\ des = [wish |-> NoWish, tags |-> {}, fin |-> FALSE, id |-> NoId]
  /\ obs = Nothing
  /\ ret = NoResult
  /\ failures = 0 /\ losses = 0 /\ edits = 0 /\ meddling = 0

Failure == failures < MaxFailures /\ failures' = failures + 1
           /\ UNCHANGED <<losses, edits, meddling>>
Loss == losses < MaxLosses /\ losses' = losses + 1 /\ UNCHANGED <<failures, edits, meddling>>
NoFault == UNCHANGED counters

-----------------------------------------------------------------------------
(* Route 53 *)

Exists(z) == z # NoId /\ zones[z] # NoZone

Associate(z, v) == zones' = [zones EXCEPT ![z].vpcs = @ \cup {v}]
Disassociate(z, v) == zones' = [zones EXCEPT ![z].vpcs = @ \ {v}]

(* Refusals of the two association calls.  ConflictingDomainExists: the    *)
(* VPC has this domain already, from this zone or from another.            *)
AssociateAnswer(z, v) ==
  IF ~Exists(z) THEN "NoSuchHostedZone"
  ELSE IF v \in des.wish.misplaced THEN "InvalidVPCId"
  ELSE IF ~zones[z].private THEN "OtherAPIError"
  ELSE IF v \in zones[z].vpcs \cup Taken THEN "ConflictingDomainExists" ELSE "none"

DisassociateAnswer(z, v) ==
  IF ~Exists(z) THEN "NoSuchHostedZone"
  ELSE IF v \notin zones[z].vpcs THEN "VPCAssociationNotFound"
  ELSE IF zones[z].vpcs = {v} THEN "LastVPCAssociation" ELSE "none"

(* A zone is deleted only with at most one VPC. *)
DeleteAnswer(z) ==
  IF ~Exists(z) THEN "NoSuchHostedZone"
  ELSE IF Cardinality(zones[z].vpcs) > 1 THEN "OtherAPIError" ELSE "none"

IdsInUse == {cr.id, des.id, ret.id}

-----------------------------------------------------------------------------
(* Users, others and crashes *)

User ==
  /\ edits < MaxEdits /\ edits' = edits + 1
  /\ \/ /\ cr.phase = "gone"
        /\ \E w \in Wishes, t \in TagLists :
             cr' = [phase |-> "live", fin |-> FALSE, wish |-> w, tags |-> t, id |-> NoId,
                    cond |-> "none"]
     \/ /\ cr.phase = "live"
        /\ \E w \in Wishes, t \in TagLists :
             /\ w # cr.wish \/ t # cr.tags
             /\ cr' = [cr EXCEPT !.wish = w, !.tags = t]
     \/ /\ cr.phase = "live"
        /\ cr' = [cr EXCEPT !.phase = IF cr.fin THEN "deleting" ELSE "gone"]
  /\ queued' = TRUE
  /\ UNCHANGED <<zones, pc, mode, des, obs, ret, todo, failures, losses, meddling>>

(* Somebody else, or another AWS service, works on the zone of the CR. *)
Meddler ==
  /\ meddling < MaxMeddling /\ meddling' = meddling + 1
  /\ Exists(cr.id)
  /\ \/ \E v \in VPCs \ (zones[cr.id].vpcs \cup Taken) : zones[cr.id].private /\ Associate(cr.id, v)
     \/ /\ Cardinality(zones[cr.id].vpcs) > 1
        /\ \E v \in zones[cr.id].vpcs : Disassociate(cr.id, v)
     \/ zones' = [zones EXCEPT ![cr.id].tags = Tagged(@, SystemTags)]
     \/ zones' = [zones EXCEPT ![cr.id] = NoZone]
  /\ obs' = [obs EXCEPT !.fresh = FALSE]
  /\ UNCHANGED <<cr, queued, pc, mode, des, ret, todo, failures, losses, edits>>

Crash ==
  /\ Loss
  /\ Idle
  /\ queued' = TRUE
  /\ UNCHANGED <<zones, cr>>

-----------------------------------------------------------------------------
(* Errors and conditions *)

TerminalCodes == {"DelegationSetNotReusable", "InvalidDomainName", "InvalidInput", "InvalidVPCId"}

ConditionAfter(err) ==
  IF err = "none" THEN "Synced" ELSE ConditionOf(err, TerminalCodes)

(* The manager returns the resource with this ID and this error; the error *)
(* is post-create if it was marked and onError did not replace it.         *)
Result(id, err, marked) ==
  [id |-> id, cond |-> ConditionAfter(err),
   postCreate |-> marked /\ ConditionAfter(err) # "Terminal"]

Return(id, err) == pc' = "patch" /\ ret' = Result(id, err, FALSE)

Goto(label) == pc' = label /\ UNCHANGED ret

-----------------------------------------------------------------------------
(* The worker: start of a reconciliation, ReadOne *)

Reconcile ==
  /\ pc = "idle" /\ queued /\ cr.phase # "gone"
  /\ queued' = FALSE
  /\ des' = [wish |-> cr.wish, tags |-> EnsureTags(cr.tags, DefaultTags),
             fin |-> cr.fin, id |-> cr.id]
  /\ mode' = IF cr.phase = "deleting" THEN "delete" ELSE "sync"
  /\ obs' = [obs EXCEPT !.fresh = TRUE]
  /\ Goto("find")
  /\ UNCHANGED <<zones, cr, todo, counters>>

FindNotFound ==
  CASE mode = "sync"   -> Goto("create.finalizer")
    [] mode = "post"   -> Return(des.id, "notFound")
    [] mode = "delete" -> Goto("delete.finalizer")

(* GetHostedZone by Status.ID; without an ID nothing was created yet.      *)
Find ==
  /\ pc = "find"
  /\ \/ /\ NoFault
        /\ IF Exists(des.id)
             THEN /\ obs' = [obs EXCEPT !.vpcs = zones[des.id].vpcs]
                  /\ Goto("find.tags")
             ELSE FindNotFound /\ UNCHANGED obs
     \/ /\ Failure /\ des.id # NoId
        /\ Return(des.id, "OtherAPIError") /\ UNCHANGED obs
  /\ UNCHANGED <<zones, k8s, mode, des, todo>>

(* setResourceAdditionalFields: ListTagsForResource; ReadOne then mirrors  *)
(* what it found into desired.                                             *)
FindTags ==
  /\ pc = "find.tags"
  /\ \/ /\ NoFault /\ Exists(des.id)
        /\ obs' = [obs EXCEPT !.tags = zones[des.id].tags]
        /\ des' = [des EXCEPT !.tags = mirrorAWSTags(@, obs'.tags)]
        /\ Goto("decide")
     \/ NoFault /\ ~Exists(des.id) /\ FindNotFound /\ UNCHANGED <<des, obs>>
     \/ Failure /\ Return(des.id, "OtherAPIError") /\ UNCHANGED <<des, obs>>
  /\ UNCHANGED <<zones, k8s, mode, todo>>

compareTags == des.tags # obs.tags

(* compareVPCs and compareVPC, which also compare the regions; without a   *)
(* VPC field nothing is compared, and an incomplete entry always differs.  *)
Mut_compareVPCs ==
  des.wish.via # "none" /\ Cardinality(des.wish.ids) # Cardinality(obs.vpcs)
compareVPCs ==
  /\ des.wish.via # "none"
  /\ des.wish.via = "incomplete" \/ des.wish.ids # obs.vpcs \/ des.wish.misplaced # {}

(* What syncVPCAssociations adds and takes away: by ID alone.              *)
Mut_missing == obs.vpcs \ des.wish.ids
missing == des.wish.ids \ obs.vpcs
Mut_extra == des.wish.ids \ obs.vpcs
extra == obs.vpcs \ des.wish.ids

(* The two fields exclude each other, an explicitly public zone has        *)
(* neither, and every entry of Spec.VPCs is complete.                      *)
validateVPCFields == des.wish.via \notin {"both", "public", "incomplete"}

(* shouldRunVPCPreCleanup; the VPC that stays is Spec.VPCs[0].             *)
Mut_preCleanup == Cardinality(obs.vpcs) > 2
shouldRunVPCPreCleanup == Cardinality(obs.vpcs) > 1

newResourceDelta == compareTags \/ compareVPCs \/ Renamed

(* What the reconciler does with the zone ReadOne found; an update starts  *)
(* with validateVPCFields, and may have nothing to call.                   *)
Decide ==
  /\ pc = "decide"
  /\ \/ /\ mode = "delete" /\ shouldRunVPCPreCleanup
        /\ \E first \in obs.vpcs :
             /\ todo' = {}
             /\ des' = [des EXCEPT !.wish = [via |-> "vpcs", ids |-> {first}, misplaced |-> {}]]
        /\ Goto("sync.associate")
     \/ /\ mode = "delete" /\ ~shouldRunVPCPreCleanup
        /\ Goto("delete.call") /\ UNCHANGED <<todo, des>>
     \/ /\ \/ mode = "post"
           \/ /\ mode = "sync" /\ des.fin /\ ~compareTags /\ ~compareVPCs
              /\ Renamed => validateVPCFields
        /\ Return(des.id, "none") /\ UNCHANGED <<todo, des>>
     \/ /\ mode = "sync"
        /\ ~des.fin \/ (newResourceDelta /\ ~validateVPCFields)
        /\ Return(des.id, "terminalError") /\ UNCHANGED <<todo, des>>
     \/ /\ mode = "sync" /\ des.fin /\ compareTags /\ validateVPCFields
        /\ Goto("sync.untag") /\ UNCHANGED <<todo, des>>
     \/ /\ mode = "sync" /\ des.fin /\ ~compareTags /\ compareVPCs /\ validateVPCFields
        /\ todo' = missing
        /\ Goto("sync.associate") /\ UNCHANGED des
  /\ UNCHANGED <<zones, k8s, mode, obs, counters>>

-----------------------------------------------------------------------------
(* The worker: Create *)

AddFinalizer ==
  /\ pc = "create.finalizer"
  /\ \/ /\ NoFault
        /\ IF cr.phase = "gone"
             THEN Return(des.id, "plain") /\ UNCHANGED <<cr, des>>
             ELSE /\ cr' = [cr EXCEPT !.fin = TRUE]
                  /\ des' = [des EXCEPT !.fin = TRUE]
                  /\ Goto("create.call")
     \/ ~des.fin /\ Loss /\ Return(des.id, "plain") /\ UNCHANGED <<cr, des>>
  /\ UNCHANGED <<zones, queued, mode, obs, todo>>

(* Create returned an error.  Unless it is marked as post-create, the      *)
(* reconciler may take the finalizer off for what the API answered.        *)
CreateFailed(id, err, marked) ==
  LET r == Result(id, err, marked) IN
  /\ ret' = r
  /\ \/ pc' = "patch"
     \/ (IsAPIError(err) \/ r.cond = "Terminal") /\ ~r.postCreate /\ pc' = "create.release"

(* The VPC a zone is created with: Spec.VPC or the first of Spec.VPCs.     *)
FirstVPC == IF des.wish.ids = {} THEN {{}} ELSE {{v} : v \in des.wish.ids}

FirstAnswer(first) ==
  IF first \cap des.wish.misplaced # {} THEN "InvalidVPCId"
  ELSE IF first \cap Taken # {} THEN "ConflictingDomainExists" ELSE "none"

(* CreateHostedZone: every call carries a new caller reference, and makes  *)
(* a new zone.                                                             *)
NewZone(z, first) ==
  /\ z \notin IdsInUse /\ zones[z] = NoZone
  /\ FirstAnswer(first) = "none"
  /\ zones' = [zones EXCEPT ![z] = [vpcs |-> first, tags |-> {}, private |-> first # {}]]

CreateCall ==
  /\ pc = "create.call"
  /\ \/ /\ NoFault /\ ~validateVPCFields
        /\ CreateFailed(des.id, "terminalError", FALSE) /\ UNCHANGED <<zones, des>>
     \/ /\ NoFault /\ validateVPCFields
        /\ \E z \in ZoneIds, first \in FirstVPC :
             NewZone(z, first) /\ des' = [des EXCEPT !.id = z]
        /\ Goto("create.tags")
     \/ /\ NoFault /\ validateVPCFields
        /\ \E first \in FirstVPC :
             FirstAnswer(first) # "none" /\ CreateFailed(des.id, FirstAnswer(first), FALSE)
        /\ UNCHANGED <<zones, des>>
     \/ /\ Loss /\ validateVPCFields
        /\ \E z \in ZoneIds, first \in FirstVPC : NewZone(z, first)
        /\ CreateFailed(des.id, "plain", FALSE) /\ UNCHANGED des
     \/ /\ Failure /\ validateVPCFields
        /\ CreateFailed(des.id, "OtherAPIError", FALSE) /\ UNCHANGED <<zones, des>>
  /\ UNCHANGED <<k8s, mode, obs, todo>>

(* The deferred function of sdkCreate: an error after the zone exists is   *)
(* marked, and the resource with the new ID is returned.                   *)
Mut_unmarked(err) == CreateFailed(des.id, err, FALSE)
Mut_PostCreateFailed(err) == CreateFailed(cr.id, err, TRUE)
PostCreateFailed(err) == CreateFailed(des.id, err, TRUE)

(* ChangeTagsForResource, with tags to add and keys to remove. *)
TagsAnswer(tags, keys) ==
  IF ~Exists(des.id) THEN "NoSuchHostedZone"
  ELSE IF tags \cap BadTags # {} \/ (KeysOf(tags) \cup keys) \cap AwsKeys # {}
    THEN "InvalidInput" ELSE "none"

(* syncTags of sdkCreate, then a requeue for the VPCs after the first, or  *)
(* the reconciler's own read.                                              *)
CreateTags ==
  LET answer == IF des.tags = {} THEN "none" ELSE TagsAnswer(des.tags, {}) IN
  /\ pc = "create.tags"
  /\ \/ /\ NoFault /\ answer = "none"
        /\ zones' = IF des.tags = {} THEN zones ELSE [zones EXCEPT ![des.id].tags = des.tags]
        /\ \/ /\ Cardinality(des.wish.ids) > 1
              /\ PostCreateFailed("plain") /\ UNCHANGED mode
           \/ /\ Cardinality(des.wish.ids) <= 1
              /\ mode' = "post" /\ Goto("find")
     \/ /\ NoFault /\ answer # "none"
        /\ PostCreateFailed(answer) /\ UNCHANGED <<zones, mode>>
     \/ /\ Failure /\ des.tags # {}
        /\ PostCreateFailed("OtherAPIError") /\ UNCHANGED <<zones, mode>>
  /\ UNCHANGED <<k8s, des, obs, todo>>

ReleaseFinalizer ==
  /\ pc = "create.release"
  /\ \/ NoFault /\ cr' = [cr EXCEPT !.fin = FALSE,
                                    !.phase = IF @ = "deleting" THEN "gone" ELSE @]
     \/ Loss /\ UNCHANGED cr
  /\ Goto("patch")
  /\ UNCHANGED <<zones, queued, mode, des, obs, todo>>

-----------------------------------------------------------------------------
(* The worker: Update (customUpdateHostedZone) *)

Fail(err) == Return(des.id, err)

(* syncTags: one call removes keys, one call adds pairs. *)
removedKeys == toDeleteTagKeys(des.tags, obs.tags)
added == toAdd(des.tags, obs.tags)

SyncUntag ==
  /\ pc = "sync.untag"
  /\ \/ /\ NoFault /\ removedKeys = {}
        /\ Goto("sync.tag") /\ UNCHANGED zones
     \/ /\ NoFault /\ removedKeys # {} /\ TagsAnswer({}, removedKeys) = "none"
        /\ zones' = [zones EXCEPT ![des.id].tags = Untagged(@, removedKeys)]
        /\ Goto("sync.tag")
     \/ /\ NoFault /\ removedKeys # {} /\ TagsAnswer({}, removedKeys) # "none"
        /\ Fail(TagsAnswer({}, removedKeys)) /\ UNCHANGED zones
     \/ Failure /\ removedKeys # {} /\ Fail("OtherAPIError") /\ UNCHANGED zones
  /\ UNCHANGED <<k8s, mode, des, obs, todo>>

SyncTag ==
  LET answer == IF added = {} THEN "none" ELSE TagsAnswer(added, {}) IN
  /\ pc = "sync.tag"
  /\ \/ /\ NoFault /\ answer = "none"
        /\ zones' = IF added = {} THEN zones
                    ELSE [zones EXCEPT ![des.id].tags = Tagged(@, added)]
        /\ IF compareVPCs
             THEN todo' = missing /\ Goto("sync.associate")
             ELSE Return(des.id, "none") /\ UNCHANGED todo
     \/ NoFault /\ answer # "none" /\ Fail(answer) /\ UNCHANGED <<zones, todo>>
     \/ Failure /\ added # {} /\ Fail("OtherAPIError") /\ UNCHANGED <<zones, todo>>
  /\ UNCHANGED <<k8s, mode, des, obs>>

(* The next round of the running loop over VPCs. *)
Mut_Visit(v) == UNCHANGED todo /\ Goto(pc)
Visit(v) == todo' = todo \ {v} /\ Goto(pc)

(* syncVPCAssociations: the map is walked in any order; first everything   *)
(* that is missing by ID is associated, then everything that is not wanted *)
(* is disassociated.                                                       *)
SyncAssociate ==
  /\ pc = "sync.associate"
  /\ \/ /\ NoFault /\ todo = {}
        /\ todo' = extra
        /\ Goto("sync.disassociate") /\ UNCHANGED zones
     \/ \E v \in todo :
          LET answer == AssociateAnswer(des.id, v) IN
          \/ /\ NoFault /\ answer \in {"none", "ConflictingDomainExists"}
             /\ IF answer = "none" THEN Associate(des.id, v) ELSE UNCHANGED zones
             /\ Visit(v)
          \/ /\ NoFault /\ answer \notin {"none", "ConflictingDomainExists"}
             /\ Fail(answer) /\ UNCHANGED <<zones, todo>>
          \/ Failure /\ Fail("OtherAPIError") /\ UNCHANGED <<zones, todo>>
  /\ UNCHANGED <<k8s, mode, des, obs>>

disassociateError(err) == IF err = "LastVPCAssociation" THEN "terminalError" ELSE err

SyncDisassociate ==
  /\ pc = "sync.disassociate"
  /\ \/ /\ NoFault /\ todo = {}
        /\ IF mode = "delete" THEN Goto("delete.call") ELSE Return(des.id, "none")
        /\ UNCHANGED <<zones, todo>>
     \/ \E v \in todo :
          LET answer == DisassociateAnswer(des.id, v) IN
          \/ /\ NoFault /\ answer \in {"none", "VPCAssociationNotFound"}
             /\ IF answer = "none" THEN Disassociate(des.id, v) ELSE UNCHANGED zones
             /\ Visit(v)
          \/ /\ NoFault /\ answer \notin {"none", "VPCAssociationNotFound"}
             /\ Fail(disassociateError(answer)) /\ UNCHANGED <<zones, todo>>
          \/ Failure /\ Fail("OtherAPIError") /\ UNCHANGED <<zones, todo>>
  /\ UNCHANGED <<k8s, mode, des, obs>>

-----------------------------------------------------------------------------
(* The worker: Delete, and the end of a reconciliation *)

DeleteCall ==
  LET answer == DeleteAnswer(des.id) IN
  /\ pc = "delete.call"
  /\ \/ /\ NoFault /\ answer = "none"
        /\ zones' = [zones EXCEPT ![des.id] = NoZone] /\ Goto("delete.finalizer")
     \/ NoFault /\ answer # "none" /\ Fail(answer) /\ UNCHANGED zones
     \/ /\ Loss /\ answer = "none"
        /\ zones' = [zones EXCEPT ![des.id] = NoZone] /\ Fail("plain")
     \/ Failure /\ Fail("OtherAPIError") /\ UNCHANGED zones   \* HostedZoneNotEmpty, ...
  /\ UNCHANGED <<k8s, mode, des, obs, todo>>

RemoveFinalizer ==
  /\ pc = "delete.finalizer"
  /\ \/ /\ NoFault
        /\ cr' = [cr EXCEPT !.fin = FALSE, !.phase = IF @ = "deleting" THEN "gone" ELSE @]
        /\ Idle
     \/ Loss /\ Return(des.id, "plain") /\ UNCHANGED <<cr, mode, des, obs, todo>>
  /\ UNCHANGED <<zones, queued>>

PatchStatus ==
  /\ pc = "patch"
  /\ \/ /\ NoFault
        /\ cr' = IF cr.phase = "gone" THEN cr
                 ELSE [cr EXCEPT !.id = ret.id, !.cond = ret.cond]
     \/ Loss /\ UNCHANGED cr
  /\ queued' = (queued \/ ret.cond # "Terminal")
  /\ Idle
  /\ UNCHANGED zones

Worker ==
  \/ Reconcile \/ Find \/ FindTags \/ Decide
  \/ AddFinalizer \/ CreateCall \/ CreateTags \/ ReleaseFinalizer
  \/ SyncUntag \/ SyncTag \/ SyncAssociate \/ SyncDisassociate
  \/ DeleteCall \/ RemoveFinalizer \/ PatchStatus

Next == Worker \/ User \/ Meddler \/ Crash

Spec == Init /\ [][Next]_vars

FairSpec == Spec /\ WF_vars(Worker)

-----------------------------------------------------------------------------
Labels == {"idle", "find", "find.tags", "decide",
           "create.finalizer", "create.call", "create.tags", "create.release",
           "sync.untag", "sync.tag", "sync.associate", "sync.disassociate",
           "delete.call", "delete.finalizer", "patch"}

MaybeId == ZoneIds \cup {NoId}

CRs == [phase : {"live", "deleting", "gone"}, fin : BOOLEAN, wish : VPCWishes,
        tags : SUBSET AllTags, id : MaybeId, cond : Conditions]
Desired == [wish : VPCWishes, tags : SUBSET AllTags, fin : BOOLEAN, id : MaybeId]
Observed == [vpcs : SUBSET VPCs, tags : SUBSET AllTags, fresh : BOOLEAN]
Results == [id : MaybeId, cond : Conditions, postCreate : BOOLEAN]

(* Every variable stays in its type. *)
TypeOK ==
  /\ zones \in [ZoneIds -> Zones \cup {NoZone}]
  /\ cr \in CRs /\ queued \in BOOLEAN
  /\ pc \in Labels /\ mode \in {"sync", "post", "delete"}
  /\ des \in Desired /\ obs \in Observed /\ ret \in Results
  /\ todo \in SUBSET VPCs

(* OneZone: a CR never has more hosted zones than one for every crash,     *)
(* lost answer or failed patch and one more: calls that merely fail, the   *)
(* tags after a create above all, never lead to a second zone (sdk.go:283, *)
(* the next reconciliation finds the resource instead of creating a second *)
(* one).                                                                   *)
OneZone == Cardinality({z \in ZoneIds : zones[z] # NoZone}) <= 1 + losses

(* ZoneIsManaged: the zone a CR names in its status is deleted with it:    *)
(* while the zone exists, the CR exists and carries the finalizer.         *)
ZoneIsManaged == Exists(cr.id) => cr.phase # "gone" /\ cr.fin

(* PostCreateMarked: an error that Create returns after the zone exists is *)
(* still a post-create error when the reconciler sees it (sdk.go:283, mark *)
(* any error from here on so the reconciler retains the finalizer).        *)
PostCreateMarked == [][CreateTags /\ pc' # "find" => ret'.postCreate]_vars

(* KeptTagsStay: syncTags takes away only pairs the user does not want; a  *)
(* tag that is in the spec never disappears in between.                    *)
KeptTagsStay ==
  [][\A z \in ZoneIds : Worker /\ des.id = z /\ Exists(z) /\ zones'[z] # NoZone
       => zones[z].tags \cap des.tags \subseteq zones'[z].tags]_vars

(* SystemTagsUntouched: syncTags never asks to add or to remove a tag that *)
(* AWS has put on the zone, whenever it appears or disappears: Route 53    *)
(* would refuse, and the CR be Terminal (tags.go:95, syncAWSTags prevents  *)
(* the controller from attempting to modify AWS-managed tags).             *)
SystemTagsUntouched ==
  pc \in {"create.tags", "sync.untag", "sync.tag"}
    => (removedKeys \cup KeysOf(added)) \cap AwsKeys = {}

(* NeverDetached: an update moves a private zone from one set of VPCs to   *)
(* another without running into the refusal to take its last one away,     *)
(* unless none of the wanted ones can be had (the order of the loops in    *)
(* syncVPCAssociations); as long as nobody else moves them meanwhile.      *)
NeverDetached ==
  [][SyncDisassociate /\ obs.fresh /\ ret'.cond = "Terminal" => des.wish.ids \subseteq Taken]_vars

(* SyncedReflects: a CR is reported as Synced only when its zone has the   *)
(* tags and VPCs the worker was asked for, whether it has just created the *)
(* zone, has updated it or has found nothing to do; unless somebody else   *)
(* worked on the zone meanwhile, and except for the VPCs another zone      *)
(* holds, which are passed over as "already associated" (hook.go:62,       *)
(* desired.Spec reflects the latest resource state; hook.go:409).          *)
SyncedReflects ==
  pc = "patch" /\ ret.cond = "Synced" /\ obs.fresh =>
    /\ Exists(des.id)
    /\ zones[des.id].tags = des.tags
    /\ des.wish.via # "none" => zones[des.id].vpcs = des.wish.ids \ Taken

(* Managed: a HostedZone CR implements ManagedResource, and what the       *)
(* worker does is the controller's part of it: the finalizer comes first   *)
(* and goes last, nothing is removed that nobody asked to remove, and no   *)
(* patch of the status loses the resource (descriptor.go MarkManaged,      *)
(* MarkUnmanaged).                                                         *)
MR == INSTANCE ManagedResource WITH phase <- cr.phase, fin <- cr.fin, exists <- Exists(cr.id)
Managed == MR!Spec /\ [][Worker => [MR!Controller]_(MR!vars)]_vars

(* RoundEnds: every step of the worker brings the running reconciliation   *)
(* nearer to its end.  A reconciliation, with both loops over VPCs and the *)
(* read after Create, makes at most CallsLeft steps more, whatever others  *)
(* do to the zone and however calls fail, and gives the CR back to the     *)
(* queue: nothing is retried, waited for or read again within one.         *)
CallsLeft ==
  LET n == Cardinality(VPCs) IN
  CASE pc = "idle"                                    -> 0
    [] pc = "patch"                                   -> 1
    [] pc \in {"create.release", "delete.finalizer"} -> 2
    [] pc = "delete.call"                             -> 3
    [] pc = "sync.disassociate"                       -> 4 + Cardinality(todo)
    [] pc = "sync.associate"                          -> 5 + n + Cardinality(todo)
    [] pc = "sync.tag"                                -> 6 + 2 * n
    [] pc = "sync.untag"                              -> 7 + 2 * n
    [] pc = "decide"                                  -> 8 + 2 * n
    [] pc = "find.tags" /\ mode # "sync"              -> 9 + 2 * n
    [] pc = "find" /\ mode # "sync"                   -> 10 + 2 * n
    [] pc = "create.tags"                             -> 11 + 2 * n
    [] pc = "create.call"                             -> 12 + 2 * n
    [] pc = "create.finalizer"                        -> 13 + 2 * n
    [] pc = "find.tags" /\ mode = "sync"              -> 14 + 2 * n
    [] pc = "find" /\ mode = "sync"                   -> 15 + 2 * n

RoundEnds == [][Worker /\ pc # "idle" => CallsLeft' < CallsLeft]_vars

(* Deletes: a CR that is being deleted disappears, whatever number of VPCs *)
(* its zone has (sdkDelete's pre-cleanup) and whatever fails.              *)
Deletes == cr.phase = "deleting" ~> cr.phase = "gone"

(* Achievable wishes: at least one VPC where there was one, none misplaced *)
(* and none taken.                                                         *)
Achievable(z) ==
  /\ cr.wish.via \in {"vpc", "vpcs"} /\ cr.wish.ids # {}
  /\ cr.wish.misplaced = {} /\ cr.wish.ids \cap Taken = {}
  /\ zones[z].private

(* Converges: tags and VPCs of a managed zone end up as the user asked,    *)
(* however calls fail half way through the two loops.                      *)
Converges ==
  <>[](cr.phase = "live" /\ cr.fin /\ Exists(cr.id) /\ Achievable(cr.id)
         => /\ zones[cr.id].vpcs = cr.wish.ids
            /\ AsAsked(zones[cr.id].tags, cr.tags, DefaultTags)
            /\ cr.cond = "Synced")

-----------------------------------------------------------------------------
(* The inductive invariant behind the safety properties.                   *)

Unread   == {"idle", "find", "find.tags", "create.finalizer", "create.call", "create.tags"}
Mirrored == {"decide", "sync.untag", "sync.tag"}
Unmade   == {"create.finalizer", "create.call", "create.release", "delete.finalizer"}
Deleting == {"delete.call", "delete.finalizer"}
Removing == {"find", "find.tags", "decide",
             "sync.untag", "sync.tag", "sync.associate", "sync.disassociate"}

AwsPart(tags) == {t \in tags : t[1] \in AwsKeys}

(* AWS's tags are wanted as they were read, and nobody asked for one       *)
(* before; between the read and the first call of syncTags only AWS's tags *)
(* of the zone change.                                                     *)
TagsInv ==
  /\ OnePerKey(cr.tags) /\ OnePerKey(des.tags) /\ OnePerKey(obs.tags)
  /\ \A z \in ZoneIds : Exists(z) => OnePerKey(zones[z].tags)
  /\ AwsPart(cr.tags) = {}
  /\ pc \in Unread => AwsPart(des.tags) = {} /\ obs.tags = {}
  /\ pc \in Mirrored => AwsPart(des.tags) = AwsPart(obs.tags)
  /\ pc \in {"decide", "sync.untag"} /\ Exists(des.id) =>
       zones[des.id].tags \ AwsPart(zones[des.id].tags) = obs.tags \ AwsPart(obs.tags)

(* As long as nobody else works on the zone: it has the VPCs that were     *)
(* read until the first loop starts; what is wanted and can be had is in   *)
(* the zone or still to be visited, until the second loop starts; and that *)
(* one has what is too much before it.                                     *)
VpcInv ==
  /\ \A z \in ZoneIds : Exists(z) => zones[z].vpcs \cap Taken = {}
  /\ meddling \in Nat
  /\ obs.fresh =>
       LET vpcs == zones[des.id].vpcs
           wanted == des.wish.ids
       IN
       /\ pc \in {"find.tags", "decide", "sync.untag", "sync.tag"} =>
            Exists(des.id) /\ vpcs = obs.vpcs
       /\ pc = "sync.associate" =>
            /\ Exists(des.id) /\ todo \subseteq wanted
            /\ vpcs \subseteq wanted \cup obs.vpcs /\ wanted \ Taken \subseteq vpcs \cup todo
       /\ pc = "sync.disassociate" =>
            /\ Exists(des.id) /\ todo \cap wanted = {}
            /\ vpcs \subseteq wanted \cup todo /\ wanted \ Taken \subseteq vpcs

(* As long as nobody else works on the zone, it has at each point the tags *)
(* that were read and what the worker has since made of them; and a new    *)
(* zone the first VPC.                                                     *)
SettledInv ==
  /\ pc = "create.release" => ret.cond # "Synced"
  /\ pc \in {"sync.untag", "sync.tag"} => mode = "sync"
  /\ obs.fresh =>
       LET zone == zones[des.id] IN
       /\ pc = "create.tags" => Exists(des.id) /\ zone.tags = {} /\ zone.vpcs \in FirstVPC
       /\ mode = "post" /\ pc \in {"find", "find.tags", "decide"} =>
            Exists(des.id) /\ zone.tags = des.tags /\ zone.vpcs = des.wish.ids
       /\ pc \in {"decide", "sync.untag"} => zone.tags = obs.tags
       /\ pc = "sync.tag" => zone.tags = Untagged(obs.tags, removedKeys)
       /\ mode # "delete" /\ pc \in {"sync.associate", "sync.disassociate"} =>
            zone.tags = des.tags
  /\ SyncedReflects

(* Nothing is left over from an earlier reconciliation. *)
RestInv ==
  /\ pc = "idle" => des.id = NoId
  /\ pc \notin {"patch", "create.release"} => ret = NoResult

(* Whoever holds the ID of a zone that exists holds the same one, which    *)
(* the worker returns; and the CR then carries its finalizer.  The         *)
(* worker's belief in the finalizer outlives every step but the release.   *)
ManagedInv ==
  /\ \A z \in IdsInUse : Exists(z) => cr.fin /\ cr.phase # "gone" /\ (pc # "idle" => z = des.id)
  /\ pc \in {"patch", "create.release"} /\ Exists(des.id) => ret.id = des.id
  /\ pc \in Unmade => ~Exists(des.id)
  /\ des.fin /\ pc # "patch" => cr.fin /\ cr.phase # "gone"
  /\ pc \in {"create.call", "create.tags"} => des.fin
  /\ cr.phase = "deleting" => cr.fin
  /\ pc \in Deleting \/ (mode = "delete" /\ pc \in Removing) => cr.phase = "deleting"

(* A zone that nobody holds any more was lost. *)
Stray == {z \in ZoneIds : Exists(z) /\ z \notin IdsInUse}
StrayInv == losses \in Nat /\ IsFiniteSet(Stray) /\ Cardinality(Stray) <= losses

(* Inv: the strengthening of OneZone, ZoneIsManaged, Managed,              *)
(* SystemTagsUntouched, KeptTagsStay, NeverDetached and SyncedReflects     *)
(* that every step preserves: which tags, VPCs and zone the CR and the     *)
(* worker hold at each point of a reconciliation.                          *)
Inv == TypeOK /\ TagsInv /\ VpcInv /\ SettledInv /\ RestInv /\ ManagedInv /\ StrayInv
=============================================================================
