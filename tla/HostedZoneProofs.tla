-------------------------- MODULE HostedZoneProofs --------------------------
(***************************************************************************)
(* Proofs about HostedZone, for every set of VPCs, wishes, tags and zone   *)
(* IDs and for any number of faults, edits and meddlers.  What needs that  *)
(* nobody else works on the zone during a reconciliation (obs.fresh), or   *)
(* that Route 53 accepts the tags of a new zone (TagsAccepted), says so in *)
(* its statement.                                                          *)
(***************************************************************************)
EXTENDS HostedZone, FiniteSetTheorems, TLAPS

USE VPCsAssumption, IdsAssumption

-----------------------------------------------------------------------------
(* Tags *)

(* Nothing but the user's, the controller's and AWS's tags is ever seen.   *)
LEMMA TagTypes ==
  ASSUME NEW s \in SUBSET AllTags, NEW t \in SUBSET AllTags, NEW keys
  PROVE  /\ EnsureTags(s, DefaultTags) \in SUBSET AllTags
         /\ mirrorAWSTags(s, t) \in SUBSET AllTags
         /\ Tagged(s, t) \in SUBSET AllTags
         /\ Tagged(s, SystemTags) \in SUBSET AllTags
         /\ Untagged(s, keys) \in SUBSET AllTags
         /\ toAdd(s, t) \in SUBSET AllTags
  BY DEF EnsureTags, mirrorAWSTags, Tagged, Untagged, toAdd, WithoutKeys, AllTags

LEMMA AwsPartEmpty ==
  ASSUME NEW tags
  PROVE  AwsPart(tags) = {} <=> KeysOf(tags) \cap AwsKeys = {}
  BY DEF AwsPart, KeysOf

(* What is sent with a create has no key of AWS's, and no key twice.       *)
LEMMA Ensured ==
  ASSUME NEW tags, OnePerKey(tags), AwsPart(tags) = {}
  PROVE  /\ OnePerKey(EnsureTags(tags, DefaultTags))
         /\ AwsPart(EnsureTags(tags, DefaultTags)) = {}
  BY TagsAssumption DEF OnePerKey, EnsureTags, WithoutKeys, KeysOf, AwsPart

LEMMA Mirror ==
  ASSUME NEW s, NEW t, OnePerKey(s), OnePerKey(t), AwsPart(s) = {}
  PROVE  /\ OnePerKey(mirrorAWSTags(s, t))
         /\ AwsPart(mirrorAWSTags(s, t)) = AwsPart(t)
  BY DEF OnePerKey, mirrorAWSTags, WithoutKeys, KeysOf, AwsPart

LEMMA OnePerKeyKept ==
  ASSUME NEW s, NEW t, NEW keys, OnePerKey(s), OnePerKey(t)
  PROVE  OnePerKey(Tagged(s, t)) /\ OnePerKey(Untagged(s, keys)) /\ OnePerKey(toAdd(t, s))
  BY DEF OnePerKey, Tagged, Untagged, toAdd, WithoutKeys, KeysOf

(* AWS tags a zone: the tags of others stay as they are. *)
LEMMA SystemTagged ==
  ASSUME NEW s
  PROVE  Tagged(s, SystemTags) \ AwsPart(Tagged(s, SystemTags)) = s \ AwsPart(s)
  BY TagsAssumption DEF Tagged, WithoutKeys, KeysOf, AwsPart

-----------------------------------------------------------------------------
(* Type correctness *)

LEMMA ResultType ==
  ASSUME NEW id \in MaybeId, NEW err, NEW marked \in BOOLEAN
  PROVE  Result(id, err, marked) \in Results
<1>1. ConditionAfter(err) \in Conditions
  BY DEF ConditionAfter, ConditionOf, Conditions
<1> QED
  BY <1>1 DEF Result, Results

LEMMA ReturnType ==
  ASSUME NEW id \in MaybeId, NEW err, Return(id, err)
  PROVE  pc' \in Labels /\ ret' \in Results
  BY ResultType DEF Return, Labels

LEMMA GotoType ==
  ASSUME TypeOK, NEW label \in Labels, Goto(label)
  PROVE  pc' \in Labels /\ ret' \in Results
  BY DEF Goto, TypeOK

LEMMA CreateFailedType ==
  ASSUME NEW id \in MaybeId, NEW err, NEW marked \in BOOLEAN, CreateFailed(id, err, marked)
  PROVE  pc' \in Labels /\ ret' \in Results
  BY ResultType DEF CreateFailed, Labels

LEMMA FindNotFoundType ==
  ASSUME TypeOK, FindNotFound
  PROVE  pc' \in Labels /\ ret' \in Results
<1>1. des.id \in MaybeId
  BY DEF TypeOK, Desired
<1>2. CASE Goto("create.finalizer") \/ Goto("delete.finalizer")
  BY <1>2, GotoType DEF Labels
<1>3. CASE Return(des.id, "notFound")
  BY <1>1, <1>3, ReturnType
<1> QED
  BY <1>2, <1>3 DEF FindNotFound, TypeOK

LEMMA NothingType ==
  NoWish \in VPCWishes /\ NoResult \in Results /\ NoId \in MaybeId /\ Nothing \in Observed
  BY DEF NoWish, VPCWishes, Fields, NoResult, Results, MaybeId, Conditions, Nothing, Observed

LEMMA IdleType ==
  ASSUME Idle
  PROVE  /\ pc' \in Labels /\ mode' \in {"sync", "post", "delete"} /\ todo' \in SUBSET VPCs
         /\ des' \in Desired /\ obs' \in Observed /\ ret' \in Results
  BY NothingType DEF Idle, Labels, Desired

(* What the calls of Route 53 leave is again a hosted zone.                *)
LEMMA ZoneTypes ==
  ASSUME TypeOK, NEW z \in ZoneIds, Exists(z)
  PROVE  /\ zones[z] \in Zones /\ zones[z].vpcs \in SUBSET VPCs /\ zones[z].tags \in SUBSET AllTags
         /\ \A tags \in SUBSET AllTags :
              [zones EXCEPT ![z].tags = tags] \in [ZoneIds -> Zones \cup {NoZone}]
         /\ \A vpcs \in SUBSET VPCs :
              [zones EXCEPT ![z].vpcs = vpcs] \in [ZoneIds -> Zones \cup {NoZone}]
<1>1. zones[z] \in Zones
  BY DEF TypeOK, Exists
<1>2. /\ \A tags \in SUBSET AllTags : [zones[z] EXCEPT !.tags = tags] \in Zones
      /\ \A vpcs \in SUBSET VPCs : [zones[z] EXCEPT !.vpcs = vpcs] \in Zones
  BY <1>1 DEF Zones
<1> QED
  BY <1>1, <1>2 DEF TypeOK, Zones

LEMMA TypeInit == Init => TypeOK
<1> SUFFICES ASSUME Init PROVE TypeOK
  OBVIOUS
<1>1. cr \in CRs
  BY NothingType DEF Init, CRs, Conditions
<1>2. des \in Desired /\ obs \in Observed /\ ret \in Results
  BY NothingType DEF Init, Desired
<1> QED
  BY <1>1, <1>2 DEF Init, TypeOK, Labels

(* An existing zone that the CR or the worker names is one of ZoneIds.     *)
LEMMA HeldTypes ==
  ASSUME TypeOK
  PROVE  /\ cr.id \in MaybeId /\ des.id \in MaybeId /\ ret.id \in MaybeId
         /\ cr.tags \in SUBSET AllTags /\ des.tags \in SUBSET AllTags /\ obs.tags \in SUBSET AllTags
         /\ des.wish \in VPCWishes /\ des.wish.ids \in SUBSET VPCs /\ obs.vpcs \in SUBSET VPCs
         /\ \A z \in MaybeId : Exists(z) => z \in ZoneIds
         /\ \A z \in ZoneIds : Exists(z) => zones[z] \in Zones
  BY DEF TypeOK, CRs, Desired, Observed, Results, MaybeId, VPCWishes, Exists

LEMMA FindTypes ==
  ASSUME TypeOK, Reconcile \/ Find \/ FindTags
  PROVE  TypeOK'
<1>1. CASE Reconcile
  <2>1. EnsureTags(cr.tags, DefaultTags) \in SUBSET AllTags
    BY HeldTypes, TagTypes
  <2>2. des' \in Desired
    BY <1>1, <2>1 DEF Reconcile, TypeOK, CRs, Desired
  <2>3. obs' \in Observed
    BY <1>1 DEF Reconcile, TypeOK, Observed
  <2> QED
    BY <1>1, <2>2, <2>3, GotoType DEF Reconcile, TypeOK, Labels
<1>2. CASE Find
  <2>1. pc' \in Labels /\ ret' \in Results
    BY <1>2, HeldTypes, GotoType, ReturnType, FindNotFoundType DEF Find, Labels
  <2>2. obs' \in Observed
    <3>1. CASE UNCHANGED obs
      BY <3>1 DEF TypeOK
    <3>2. CASE Exists(des.id) /\ obs' = [obs EXCEPT !.vpcs = zones[des.id].vpcs]
      BY <3>2, HeldTypes DEF TypeOK, Observed, Zones
    <3> QED
      BY <1>2, <3>1, <3>2 DEF Find
  <2> QED
    BY <1>2, <2>1, <2>2 DEF Find, TypeOK, k8s
<1>3. CASE FindTags
  <2>1. pc' \in Labels /\ ret' \in Results
    BY <1>3, HeldTypes, GotoType, ReturnType, FindNotFoundType DEF FindTags, Labels
  <2>2. obs' \in Observed /\ des' \in Desired
    <3>1. CASE UNCHANGED <<des, obs>>
      BY <3>1 DEF TypeOK
    <3>2. CASE /\ Exists(des.id)
               /\ obs' = [obs EXCEPT !.tags = zones[des.id].tags]
               /\ des' = [des EXCEPT !.tags = mirrorAWSTags(@, obs'.tags)]
      <4>1. zones[des.id].tags \in SUBSET AllTags
        BY <3>2, HeldTypes DEF Zones
      <4>2. obs' \in Observed
        BY <3>2, <4>1 DEF TypeOK, Observed
      <4>3. mirrorAWSTags(des.tags, obs'.tags) \in SUBSET AllTags
        BY <4>2, HeldTypes, TagTypes DEF Observed
      <4> QED
        BY <3>2, <4>2, <4>3 DEF TypeOK, Desired
    <3> QED
      BY <1>3, <3>1, <3>2 DEF FindTags
  <2> QED
    BY <1>3, <2>1, <2>2 DEF FindTags, TypeOK, k8s
<1> QED
  BY <1>1, <1>2, <1>3

LEMMA DecideTypes ==
  ASSUME TypeOK, Decide
  PROVE  TypeOK'
<1>1. pc' \in Labels /\ ret' \in Results
  BY HeldTypes, GotoType, ReturnType DEF Decide, Labels
<1>2. des' \in Desired
  <2>1. CASE UNCHANGED des
    BY <2>1 DEF TypeOK
  <2>2. CASE \E first \in obs.vpcs :
               des' = [des EXCEPT !.wish = [via |-> "vpcs", ids |-> {first}, misplaced |-> {}]]
    <3>1. \A first \in obs.vpcs : [via |-> "vpcs", ids |-> {first}, misplaced |-> {}] \in VPCWishes
      BY HeldTypes DEF VPCWishes, Fields
    <3> QED
      BY <2>2, <3>1 DEF TypeOK, Desired
  <2> QED
    BY <2>1, <2>2 DEF Decide
<1>3. todo' \in SUBSET VPCs
  <2>1. missing \in SUBSET VPCs
    BY HeldTypes DEF missing
  <2> QED
    BY <2>1 DEF Decide, TypeOK
<1> QED
  BY <1>1, <1>2, <1>3 DEF Decide, TypeOK, k8s

(* A new zone, and everything else stays. *)
LEMMA NewZoneType ==
  ASSUME TypeOK, NEW z \in ZoneIds, NEW first \in FirstVPC, NewZone(z, first)
  PROVE  /\ zones' \in [ZoneIds -> Zones \cup {NoZone}]
         /\ zones'[z] = [vpcs |-> first, tags |-> {}, private |-> first # {}]
         /\ zones'[z] \in Zones
         /\ first \cap Taken = {}
         /\ \A y \in ZoneIds : y # z => zones'[y] = zones[y]
<1>1. first \in SUBSET VPCs
  BY HeldTypes DEF FirstVPC
<1>2. zones'[z] = [vpcs |-> first, tags |-> {}, private |-> first # {}]
  BY DEF NewZone, TypeOK
<1>3. zones'[z] \in Zones
  BY <1>1, <1>2 DEF Zones
<1>4. first \cap Taken = {}
  BY DEF NewZone, FirstAnswer
<1> QED
  BY <1>2, <1>3, <1>4 DEF NewZone, TypeOK

LEMMA CreateTypes ==
  ASSUME TypeOK, AddFinalizer \/ CreateCall \/ CreateTags \/ ReleaseFinalizer
  PROVE  TypeOK'
<1>1. CASE AddFinalizer
  <2>1. pc' \in Labels /\ ret' \in Results
    BY <1>1, HeldTypes, GotoType, ReturnType DEF AddFinalizer, Labels
  <2>2. cr' \in {cr, [cr EXCEPT !.fin = TRUE]} /\ des' \in {des, [des EXCEPT !.fin = TRUE]}
    BY <1>1 DEF AddFinalizer
  <2>3. cr' \in CRs
    BY <2>2 DEF TypeOK, CRs
  <2>4. des' \in Desired
    BY <2>2 DEF TypeOK, Desired
  <2> QED
    BY <1>1, <2>1, <2>3, <2>4 DEF AddFinalizer, TypeOK
<1>2. CASE CreateCall
  <2>1. pc' \in Labels /\ ret' \in Results
    BY <1>2, HeldTypes, GotoType, CreateFailedType DEF CreateCall, Labels
  <2>2. zones' \in [ZoneIds -> Zones \cup {NoZone}]
    BY <1>2, NewZoneType DEF CreateCall, TypeOK
  <2>3. des' \in Desired
    BY <1>2 DEF CreateCall, TypeOK, Desired, MaybeId
  <2> QED
    BY <1>2, <2>1, <2>2, <2>3 DEF CreateCall, TypeOK, k8s
<1>3. CASE CreateTags
  <2>1. pc' \in Labels /\ ret' \in Results
    BY <1>3, HeldTypes, GotoType, CreateFailedType DEF CreateTags, PostCreateFailed, Labels
  <2>2. zones' \in [ZoneIds -> Zones \cup {NoZone}]
    <3>1. CASE UNCHANGED zones
      BY <3>1 DEF TypeOK
    <3>2. CASE Exists(des.id) /\ zones' = [zones EXCEPT ![des.id].tags = des.tags]
      BY <3>2, HeldTypes, ZoneTypes
    <3> QED
      BY <1>3, <3>1, <3>2 DEF CreateTags, TagsAnswer
  <2>3. mode' \in {"sync", "post", "delete"}
    BY <1>3 DEF CreateTags, TypeOK
  <2> QED
    BY <1>3, <2>1, <2>2, <2>3 DEF CreateTags, TypeOK, k8s
<1>4. CASE ReleaseFinalizer
  <2>1. pc' \in Labels /\ ret' \in Results
    BY <1>4, GotoType DEF ReleaseFinalizer, Labels
  <2>2. cr' \in CRs
    BY <1>4 DEF ReleaseFinalizer, TypeOK, CRs
  <2> QED
    BY <1>4, <2>1, <2>2 DEF ReleaseFinalizer, TypeOK
<1> QED
  BY <1>1, <1>2, <1>3, <1>4

LEMMA SyncTypes ==
  ASSUME TypeOK, SyncUntag \/ SyncTag \/ SyncAssociate \/ SyncDisassociate
  PROVE  TypeOK'
<1> DEFINE id == des.id
<1>0. missing \in SUBSET VPCs /\ extra \in SUBSET VPCs
  BY HeldTypes DEF missing, extra
<1>1. CASE SyncUntag
  <2>1. pc' \in Labels /\ ret' \in Results
    BY <1>1, HeldTypes, GotoType, ReturnType DEF SyncUntag, Fail, Labels
  <2>2. zones' \in [ZoneIds -> Zones \cup {NoZone}]
    <3>1. CASE UNCHANGED zones
      BY <3>1 DEF TypeOK
    <3>2. CASE Exists(id) /\ zones' = [zones EXCEPT ![id].tags = Untagged(@, removedKeys)]
      <4>1. id \in ZoneIds /\ zones[id].tags \in SUBSET AllTags
        BY <3>2, HeldTypes DEF Zones
      <4>2. Untagged(zones[id].tags, removedKeys) \in SUBSET AllTags
        BY <4>1, TagTypes
      <4>3. zones' = [zones EXCEPT ![id].tags = Untagged(zones[id].tags, removedKeys)]
        BY <3>2
      <4> QED
        BY <3>2, <4>1, <4>2, <4>3, ZoneTypes
    <3> QED
      BY <1>1, <3>1, <3>2 DEF SyncUntag, TagsAnswer
  <2> QED
    BY <1>1, <2>1, <2>2 DEF SyncUntag, TypeOK, k8s
<1>2. CASE SyncTag
  <2>1. pc' \in Labels /\ ret' \in Results
    BY <1>2, HeldTypes, GotoType, ReturnType DEF SyncTag, Fail, Labels
  <2>2. zones' \in [ZoneIds -> Zones \cup {NoZone}]
    <3>1. CASE UNCHANGED zones
      BY <3>1 DEF TypeOK
    <3>2. CASE Exists(id) /\ zones' = [zones EXCEPT ![id].tags = Tagged(@, added)]
      <4>1. id \in ZoneIds /\ zones[id].tags \in SUBSET AllTags
        BY <3>2, HeldTypes DEF Zones
      <4>2. added \in SUBSET AllTags
        BY HeldTypes, TagTypes DEF added
      <4>3. Tagged(zones[id].tags, added) \in SUBSET AllTags
        BY <4>1, <4>2, TagTypes
      <4>4. zones' = [zones EXCEPT ![id].tags = Tagged(zones[id].tags, added)]
        BY <3>2
      <4> QED
        BY <3>2, <4>1, <4>3, <4>4, ZoneTypes
    <3> QED
      BY <1>2, <3>1, <3>2 DEF SyncTag, TagsAnswer
  <2>3. todo' \in SUBSET VPCs
    BY <1>0, <1>2 DEF SyncTag, TypeOK
  <2> QED
    BY <1>2, <2>1, <2>2, <2>3 DEF SyncTag, TypeOK, k8s
<1>3. CASE SyncAssociate
  <2>1. pc' \in Labels /\ ret' \in Results
    BY <1>3, HeldTypes, GotoType, ReturnType DEF SyncAssociate, Fail, Labels, Visit
  <2>2. zones' \in [ZoneIds -> Zones \cup {NoZone}]
    <3>1. CASE UNCHANGED zones
      BY <3>1 DEF TypeOK
    <3>2. CASE \E v \in todo : Exists(id) /\ Associate(id, v)
      <4>1. PICK v \in todo : Exists(id) /\ Associate(id, v)
        BY <3>2
      <4>2. id \in ZoneIds /\ zones[id].vpcs \cup {v} \in SUBSET VPCs
        BY <4>1, HeldTypes DEF Zones, TypeOK
      <4>3. zones' = [zones EXCEPT ![id].vpcs = zones[id].vpcs \cup {v}]
        BY <4>1 DEF Associate
      <4> QED
        BY <4>1, <4>2, <4>3, ZoneTypes
    <3> QED
      BY <1>3, <3>1, <3>2 DEF SyncAssociate, AssociateAnswer, Visit
  <2>3. todo' \in SUBSET VPCs
    BY <1>0, <1>3 DEF SyncAssociate, TypeOK, Visit
  <2> QED
    BY <1>3, <2>1, <2>2, <2>3 DEF SyncAssociate, TypeOK, k8s, Visit
<1>4. CASE SyncDisassociate
  <2>1. pc' \in Labels /\ ret' \in Results
    BY <1>4, HeldTypes, GotoType, ReturnType DEF SyncDisassociate, Fail, Labels, Visit
  <2>2. zones' \in [ZoneIds -> Zones \cup {NoZone}]
    <3>1. CASE UNCHANGED zones
      BY <3>1 DEF TypeOK
    <3>2. CASE \E v \in todo : Exists(id) /\ Disassociate(id, v)
      <4>1. PICK v \in todo : Exists(id) /\ Disassociate(id, v)
        BY <3>2
      <4>2. id \in ZoneIds /\ zones[id].vpcs \ {v} \in SUBSET VPCs
        BY <4>1, HeldTypes DEF Zones, TypeOK
      <4>3. zones' = [zones EXCEPT ![id].vpcs = zones[id].vpcs \ {v}]
        BY <4>1 DEF Disassociate
      <4> QED
        BY <4>1, <4>2, <4>3, ZoneTypes
    <3> QED
      BY <1>4, <3>1, <3>2 DEF SyncDisassociate, DisassociateAnswer, Visit
  <2>3. todo' \in SUBSET VPCs
    BY <1>4 DEF SyncDisassociate, TypeOK, Visit
  <2> QED
    BY <1>4, <2>1, <2>2, <2>3 DEF SyncDisassociate, TypeOK, k8s, Visit
<1> QED
  BY <1>1, <1>2, <1>3, <1>4

LEMMA FinishTypes ==
  ASSUME TypeOK, DeleteCall \/ RemoveFinalizer \/ PatchStatus
  PROVE  TypeOK'
<1>1. CASE DeleteCall
  <2>1. pc' \in Labels /\ ret' \in Results
    BY <1>1, HeldTypes, GotoType, ReturnType DEF DeleteCall, Fail, Labels
  <2>2. zones' \in [ZoneIds -> Zones \cup {NoZone}]
    BY <1>1 DEF DeleteCall, TypeOK
  <2> QED
    BY <1>1, <2>1, <2>2 DEF DeleteCall, TypeOK, k8s
<1>2. CASE RemoveFinalizer
  <2>1. cr' \in CRs
    BY <1>2 DEF RemoveFinalizer, TypeOK, CRs
  <2>2. CASE Idle
    BY <1>2, <2>1, <2>2, IdleType DEF RemoveFinalizer, TypeOK
  <2>3. CASE Return(des.id, "plain") /\ UNCHANGED <<mode, des, obs, todo>>
    BY <1>2, <2>1, <2>3, HeldTypes, ReturnType DEF RemoveFinalizer, TypeOK
  <2> QED
    BY <1>2, <2>2, <2>3 DEF RemoveFinalizer
<1>3. CASE PatchStatus
  <2>1. cr' \in CRs
    BY <1>3 DEF PatchStatus, TypeOK, CRs, Results
  <2> QED
    BY <1>3, <2>1, IdleType DEF PatchStatus, TypeOK
<1> QED
  BY <1>1, <1>2, <1>3

(* The three things a user does. *)
LEMMA UserSteps ==
  ASSUME TypeOK, User
  PROVE  /\ UNCHANGED <<zones, pc, mode, des, obs, ret, todo, losses, meddling>>
         /\ cr' \in CRs
         /\ \/ /\ cr.phase = "gone" /\ cr'.phase = "live" /\ cr'.fin = FALSE /\ cr'.id = NoId
               /\ cr'.tags \in TagLists
            \/ /\ cr.phase = "live" /\ cr'.phase = "live" /\ cr'.fin = cr.fin /\ cr'.id = cr.id
               /\ cr'.tags \in TagLists
            \/ /\ cr.phase = "live" /\ cr'.phase = (IF cr.fin THEN "deleting" ELSE "gone")
               /\ cr'.fin = cr.fin /\ cr'.id = cr.id /\ cr'.tags = cr.tags
<1>1. Wishes \in SUBSET VPCWishes /\ \A t \in TagLists : t \in SUBSET AllTags
  BY WishesAssumption DEF AllTags
<1>2. CASE cr.phase = "gone" /\ \E w \in Wishes, t \in TagLists :
             cr' = [phase |-> "live", fin |-> FALSE, wish |-> w, tags |-> t, id |-> NoId,
                    cond |-> "none"]
  <2>1. PICK w \in Wishes, t \in TagLists :
          cr' = [phase |-> "live", fin |-> FALSE, wish |-> w, tags |-> t, id |-> NoId,
                 cond |-> "none"]
    BY <1>2
  <2>2. cr' \in CRs
    BY <1>1, <2>1, NothingType DEF CRs, Conditions
  <2> QED
    BY <1>2, <2>1, <2>2 DEF User
<1>3. CASE cr.phase = "live" /\ \E w \in Wishes, t \in TagLists :
             cr' = [cr EXCEPT !.wish = w, !.tags = t]
  <2>1. PICK w \in Wishes, t \in TagLists : cr' = [cr EXCEPT !.wish = w, !.tags = t]
    BY <1>3
  <2>2. cr' \in CRs
    BY <1>1, <2>1 DEF CRs, TypeOK
  <2> QED
    BY <1>3, <2>1, <2>2 DEF User, TypeOK, CRs
<1>4. CASE cr.phase = "live" /\ cr' = [cr EXCEPT !.phase = IF cr.fin THEN "deleting" ELSE "gone"]
  BY <1>4 DEF User, TypeOK, CRs
<1> QED
  BY <1>2, <1>3, <1>4, Zenon DEF User

(* What others do to the zone of the CR. *)
LEMMA MeddlerSteps ==
  ASSUME TypeOK, Meddler
  PROVE  /\ UNCHANGED <<cr, queued, pc, mode, des, ret, todo, failures, losses, edits>>
         /\ meddling' = meddling + 1
         /\ obs' \in Observed /\ obs'.fresh = FALSE
         /\ obs'.vpcs = obs.vpcs /\ obs'.tags = obs.tags
         /\ cr.id \in ZoneIds /\ Exists(cr.id) /\ zones[cr.id] \in Zones
         /\ \/ \E v \in VPCs \ Taken : Associate(cr.id, v)
            \/ \E v \in VPCs : Disassociate(cr.id, v)
            \/ zones' = [zones EXCEPT ![cr.id].tags = Tagged(@, SystemTags)]
            \/ zones' = [zones EXCEPT ![cr.id] = NoZone]
<1>1. Exists(cr.id) /\ cr.id \in ZoneIds /\ zones[cr.id] \in Zones
  BY HeldTypes DEF Meddler
<1>2. zones[cr.id].vpcs \in SUBSET VPCs
  BY <1>1 DEF Zones
<1>3. obs' \in Observed /\ obs'.fresh = FALSE /\ obs'.vpcs = obs.vpcs /\ obs'.tags = obs.tags
  BY DEF Meddler, TypeOK, Observed
<1> QED
  BY <1>1, <1>2, <1>3 DEF Meddler

LEMMA EnvironmentTypes ==
  ASSUME TypeOK, User \/ Meddler \/ Crash
  PROVE  TypeOK'
<1>1. CASE User
  BY <1>1, UserSteps DEF User, TypeOK
<1>2. CASE Meddler
  <2> DEFINE z == cr.id
             vpcs == zones[z].vpcs
  <2>1. z \in ZoneIds /\ Exists(z) /\ vpcs \in SUBSET VPCs /\ zones[z].tags \in SUBSET AllTags
    BY <1>2, MeddlerSteps DEF Zones
  <2>2. zones' \in [ZoneIds -> Zones \cup {NoZone}]
    <3>1. CASE \E v \in VPCs : Associate(z, v)
      <4>1. PICK v \in VPCs : zones' = [zones EXCEPT ![z].vpcs = vpcs \cup {v}]
        BY <3>1 DEF Associate
      <4>2. vpcs \cup {v} \in SUBSET VPCs
        BY <2>1
      <4> QED
        BY <2>1, <4>1, <4>2, ZoneTypes
    <3>2. CASE \E v \in VPCs : Disassociate(z, v)
      <4>1. PICK v \in VPCs : zones' = [zones EXCEPT ![z].vpcs = vpcs \ {v}]
        BY <3>2 DEF Disassociate
      <4>2. vpcs \ {v} \in SUBSET VPCs
        BY <2>1
      <4> QED
        BY <2>1, <4>1, <4>2, ZoneTypes
    <3>3. CASE zones' = [zones EXCEPT ![z].tags = Tagged(@, SystemTags)]
      <4>1. Tagged(zones[z].tags, SystemTags) \in SUBSET AllTags
        BY <2>1, TagTypes
      <4>2. zones' = [zones EXCEPT ![z].tags = Tagged(zones[z].tags, SystemTags)]
        BY <3>3
      <4> QED
        BY <2>1, <4>1, <4>2, ZoneTypes
    <3>4. CASE zones' = [zones EXCEPT ![z] = NoZone]
      BY <3>4 DEF TypeOK
    <3> QED
      BY <1>2, <3>1, <3>2, <3>3, <3>4, MeddlerSteps
  <2> QED
    BY <1>2, <2>2, MeddlerSteps DEF TypeOK
<1>3. CASE Crash
  BY <1>3, IdleType DEF Crash, TypeOK
<1> QED
  BY <1>1, <1>2, <1>3

LEMMA TypeStep == TypeOK /\ [Next]_vars => TypeOK'
<1> SUFFICES ASSUME TypeOK, [Next]_vars PROVE TypeOK'
  OBVIOUS
<1>1. CASE UNCHANGED vars
  BY <1>1 DEF vars, TypeOK
<1> QED
  BY <1>1, FindTypes, DecideTypes, CreateTypes, SyncTypes, FinishTypes, EnvironmentTypes
     DEF Next, Worker

(* Every variable keeps its type. *)
THEOREM TypeCorrect == Spec => []TypeOK
  BY TypeInit, TypeStep, PTL DEF Spec

-----------------------------------------------------------------------------
(* What one step can make of a zone that exists after it.                  *)
Kept(z) ==
  /\ zones[z] # NoZone /\ zones'[z].tags = zones[z].tags
  /\ zones'[z].vpcs \subseteq zones[z].vpcs \cup (VPCs \ Taken)
Retagged(z) ==
  /\ zones[z] # NoZone /\ zones'[z].vpcs = zones[z].vpcs
  /\ \/ Meddler /\ zones'[z].tags = Tagged(zones[z].tags, SystemTags)
     \/ z = des.id /\ CreateTags /\ zones'[z].tags = des.tags
     \/ z = des.id /\ SyncUntag /\ zones'[z].tags = Untagged(zones[z].tags, removedKeys)
     \/ z = des.id /\ SyncTag /\ zones'[z].tags = Tagged(zones[z].tags, added)
Made(z) ==
  /\ CreateCall /\ z \notin IdsInUse
  /\ zones[z] = NoZone /\ zones'[z].tags = {} /\ zones'[z].vpcs \cap Taken = {}

(* The effect of rewriting the tags, or the VPCs, of one zone.             *)
LEMMA Rewriting ==
  ASSUME TypeOK, NEW z \in ZoneIds, Exists(z), NEW new, NEW y \in ZoneIds
  PROVE  /\ zones' = [zones EXCEPT ![z].tags = new] =>
              IF y = z THEN zones'[y].tags = new /\ zones'[y].vpcs = zones[y].vpcs
                       ELSE zones'[y] = zones[y]
         /\ zones' = [zones EXCEPT ![z].vpcs = new] =>
              IF y = z THEN zones'[y].vpcs = new /\ zones'[y].tags = zones[y].tags
                       ELSE zones'[y] = zones[y]
<1>1. zones[z] \in Zones
  BY HeldTypes
<1> QED
  BY <1>1 DEF Zones, TypeOK

LEMMA Fate ==
  ASSUME TypeOK, [Next]_vars, NEW z \in ZoneIds, zones'[z] # NoZone
  PROVE  Kept(z) \/ Retagged(z) \/ Made(z)
<1> DEFINE id == des.id
<1>0. Exists(id) => id \in ZoneIds
  BY HeldTypes
<1>1. CASE zones'[z] = zones[z]
  BY <1>1 DEF Kept
<1>2. CASE CreateCall
  <2>1. CASE UNCHANGED zones
    BY <1>1, <2>1
  <2>2. CASE \E y \in ZoneIds, first \in FirstVPC : NewZone(y, first)
    <3>1. PICK y \in ZoneIds, first \in FirstVPC : NewZone(y, first)
      BY <2>2
    <3>2. CASE z = y
      BY <1>2, <3>1, <3>2, NewZoneType DEF NewZone, Made
    <3>3. CASE z # y
      BY <1>1, <3>1, <3>3, NewZoneType
    <3> QED
      BY <3>2, <3>3
  <2> QED
    BY <1>2, <2>1, <2>2 DEF CreateCall
<1>3. CASE CreateTags
  <2>1. UNCHANGED zones \/ (Exists(id) /\ zones' = [zones EXCEPT ![id].tags = des.tags])
    BY <1>3 DEF CreateTags, TagsAnswer
  <2> QED
    BY <1>0, <1>1, <1>3, <2>1, Rewriting DEF Retagged, Exists
<1>4. CASE SyncUntag
  <2>1. \/ UNCHANGED zones
        \/ Exists(id) /\ zones' = [zones EXCEPT ![id].tags = Untagged(zones[id].tags, removedKeys)]
    BY <1>4 DEF SyncUntag, TagsAnswer
  <2> QED
    BY <1>0, <1>1, <1>4, <2>1, Rewriting DEF Retagged, Exists
<1>5. CASE SyncTag
  <2>1. \/ UNCHANGED zones
        \/ Exists(id) /\ zones' = [zones EXCEPT ![id].tags = Tagged(zones[id].tags, added)]
    BY <1>5 DEF SyncTag, TagsAnswer
  <2> QED
    BY <1>0, <1>1, <1>5, <2>1, Rewriting DEF Retagged, Exists
<1>6. ASSUME NEW y \in ZoneIds, Exists(y),
             \/ \E v \in VPCs \ Taken : Associate(y, v)
             \/ \E v \in VPCs : Disassociate(y, v)
      PROVE  Kept(z)
  <2>1. PICK vpcs : /\ zones' = [zones EXCEPT ![y].vpcs = vpcs]
                    /\ vpcs \subseteq zones[y].vpcs \cup (VPCs \ Taken)
    <3>1. CASE \E v \in VPCs \ Taken : Associate(y, v)
      <4>1. PICK v \in VPCs \ Taken : zones' = [zones EXCEPT ![y].vpcs = zones[y].vpcs \cup {v}]
        BY <3>1 DEF Associate
      <4> QED
        BY <4>1
    <3>2. CASE \E v \in VPCs : Disassociate(y, v)
      <4>1. PICK v \in VPCs : zones' = [zones EXCEPT ![y].vpcs = zones[y].vpcs \ {v}]
        BY <3>2 DEF Disassociate
      <4> QED
        BY <4>1
    <3> QED
      BY <1>6, <3>1, <3>2
  <2> QED
    BY <1>6, <2>1, Rewriting DEF Kept, Exists
<1>7. CASE SyncAssociate \/ SyncDisassociate
  <2>1. \/ UNCHANGED zones
        \/ Exists(id) /\ \E v \in VPCs \ Taken : Associate(id, v)
        \/ Exists(id) /\ \E v \in VPCs : Disassociate(id, v)
    <3>1. todo \in SUBSET VPCs
      BY DEF TypeOK
    <3>2. CASE SyncAssociate
      BY <3>1, <3>2 DEF SyncAssociate, AssociateAnswer, Visit
    <3>3. CASE SyncDisassociate
      BY <3>1, <3>3 DEF SyncDisassociate, DisassociateAnswer, Visit
    <3> QED
      BY <1>7, <3>2, <3>3
  <2> QED
    BY <1>0, <1>1, <1>6, <2>1
<1>8. CASE DeleteCall
  BY <1>1, <1>8 DEF DeleteCall, TypeOK
<1>9. CASE Meddler
  <2>1. CASE \/ \E v \in VPCs \ Taken : Associate(cr.id, v)
             \/ \E v \in VPCs : Disassociate(cr.id, v)
    BY <1>6, <1>9, <2>1, MeddlerSteps
  <2>2. CASE zones' = [zones EXCEPT ![cr.id].tags = Tagged(@, SystemTags)]
    <3>1. zones' = [zones EXCEPT ![cr.id].tags = Tagged(zones[cr.id].tags, SystemTags)]
      BY <2>2
    <3> QED
      BY <1>1, <1>9, <3>1, MeddlerSteps, Rewriting DEF Retagged, Exists
  <2>3. CASE zones' = [zones EXCEPT ![cr.id] = NoZone]
    BY <1>1, <2>3 DEF TypeOK
  <2> QED
    BY <1>9, <2>1, <2>2, <2>3, MeddlerSteps
<1>10. CASE \/ Reconcile \/ Find \/ FindTags \/ Decide \/ AddFinalizer \/ ReleaseFinalizer
            \/ RemoveFinalizer \/ PatchStatus \/ User \/ Crash \/ UNCHANGED vars
  BY <1>1, <1>10 DEF Reconcile, Find, FindTags, Decide, AddFinalizer, ReleaseFinalizer,
     RemoveFinalizer, PatchStatus, User, Crash, vars
<1> QED
  BY <1>2, <1>3, <1>4, <1>5, <1>7, <1>8, <1>9, <1>10 DEF Next, Worker

-----------------------------------------------------------------------------
(* Tags: whose they are and what the worker knows of them *)

LEMMA TagsInit == Init => TagsInv
  BY DEF Init, Nothing, TagsInv, OnePerKey, AwsPart, Exists, Unread, Mirrored

(* No zone ever has two values for a key. *)
LEMMA ZoneTagsStep ==
  ASSUME TypeOK, TagsInv, [Next]_vars, NEW z \in ZoneIds, Exists(z)'
  PROVE  OnePerKey(zones'[z].tags)
<1>1. Kept(z) \/ Retagged(z) \/ Made(z)
  BY Fate DEF Exists
<1>2. zones[z] # NoZone => OnePerKey(zones[z].tags)
  BY DEF TagsInv, Exists
<1>3. OnePerKey(des.tags) /\ OnePerKey(SystemTags) /\ OnePerKey({})
  BY TagsAssumption DEF TagsInv, OnePerKey
<1>4. OnePerKey(added)
  BY <1>3, OnePerKeyKept DEF added, TagsInv
<1> QED
  BY <1>1, <1>2, <1>3, <1>4, OnePerKeyKept DEF Kept, Retagged, Made

(* Where the worker is after a step that is no part of reading the tags.   *)
LEMMA TagsCarried ==
  ASSUME TypeOK, TagsInv, [Next]_vars,
         cr'.tags = cr.tags, des'.tags = des.tags, obs'.tags = obs.tags,
         pc' \in Unread => pc \in Unread, pc' \in Mirrored => pc \in Mirrored,
         pc' \notin {"decide", "sync.untag"}
  PROVE  TagsInv'
<1>1. \A z \in ZoneIds : Exists(z)' => OnePerKey(zones'[z].tags)
  BY ZoneTagsStep
<1> QED
  BY <1>1 DEF TagsInv, Exists

LEMMA TagsRead ==
  ASSUME TypeOK, TagsInv, Reconcile \/ Find \/ FindTags \/ Decide
  PROVE  TagsInv'
<1>1. [Next]_vars /\ zones' = zones /\ cr' = cr
  BY DEF Reconcile, Find, FindTags, Decide, Next, Worker, k8s
<1>2. CASE Reconcile
  <2>1. /\ des'.tags = EnsureTags(cr.tags, DefaultTags) /\ obs'.tags = obs.tags
        /\ pc = "idle" /\ pc' = "find"
    BY <1>2 DEF Reconcile, Goto, TypeOK, Observed
  <2>2. obs.tags = {} /\ OnePerKey(des'.tags) /\ AwsPart(des'.tags) = {}
    BY <2>1, Ensured DEF TagsInv, Unread
  <2> QED
    BY <1>1, <2>1, <2>2 DEF TagsInv, Exists, Unread, Mirrored
<1>3. CASE Find
  <2>1. des' = des /\ obs'.tags = obs.tags
    BY <1>3 DEF Find, TypeOK, Observed
  <2>2. pc = "find" /\ pc' \in {"find.tags", "create.finalizer", "delete.finalizer", "patch"}
    BY <1>3 DEF Find, FindNotFound, Goto, Return, TypeOK
  <2> QED
    BY <1>1, <2>1, <2>2, TagsCarried DEF Unread, Mirrored
<1>4. CASE FindTags
  <2>1. pc = "find.tags" /\ AwsPart(des.tags) = {}
    BY <1>4 DEF FindTags, TagsInv, Unread
  <2>2. CASE UNCHANGED <<des, obs>> /\ (FindNotFound \/ Return(des.id, "OtherAPIError"))
    <3>1. pc' \in {"create.finalizer", "delete.finalizer", "patch"}
      BY <2>2 DEF FindNotFound, Goto, Return, TypeOK
    <3> QED
      BY <1>1, <2>1, <2>2, <3>1, TagsCarried DEF Unread, Mirrored
  <2>3. CASE /\ Exists(des.id) /\ Goto("decide")
             /\ obs' = [obs EXCEPT !.tags = zones[des.id].tags]
             /\ des' = [des EXCEPT !.tags = mirrorAWSTags(@, obs'.tags)]
    <3>1. /\ pc' = "decide" /\ des'.id = des.id
          /\ obs'.tags = zones[des.id].tags /\ des'.tags = mirrorAWSTags(des.tags, obs'.tags)
      BY <2>3 DEF Goto, TypeOK, Desired, Observed
    <3>2. OnePerKey(obs'.tags) /\ OnePerKey(des.tags)
      BY <2>3, <3>1, HeldTypes DEF TagsInv
    <3>3. OnePerKey(des'.tags) /\ AwsPart(des'.tags) = AwsPart(obs'.tags)
      BY <2>1, <3>1, <3>2, Mirror
    <3> QED
      BY <1>1, <3>1, <3>2, <3>3 DEF TagsInv, Exists, Unread, Mirrored
  <2> QED
    BY <1>4, <2>2, <2>3 DEF FindTags
<1>5. CASE Decide
  <2>1. des'.tags = des.tags /\ des'.id = des.id /\ obs' = obs
    BY <1>5 DEF Decide, TypeOK, Desired
  <2>2. pc = "decide" /\ pc' \in {"delete.call", "sync.associate", "sync.untag", "patch"}
    BY <1>5 DEF Decide, Goto, Return
  <2> QED
    BY <1>1, <2>1, <2>2 DEF TagsInv, Exists, Unread, Mirrored
<1> QED
  BY <1>2, <1>3, <1>4, <1>5

LEMMA TagsCalls ==
  ASSUME TypeOK, TagsInv,
         \/ AddFinalizer \/ CreateCall \/ CreateTags \/ ReleaseFinalizer
         \/ SyncUntag \/ SyncTag \/ SyncAssociate \/ SyncDisassociate \/ DeleteCall
  PROVE  TagsInv'
<1>1. [Next]_vars
  BY DEF Next, Worker
<1>2. CASE AddFinalizer \/ CreateCall \/ CreateTags \/ ReleaseFinalizer
  <2>1. cr'.tags = cr.tags /\ des'.tags = des.tags /\ obs' = obs
    BY <1>2 DEF AddFinalizer, CreateCall, CreateTags, ReleaseFinalizer, k8s, TypeOK, CRs, Desired
  <2>2. /\ pc' \in Unread => pc \in Unread
        /\ pc' \notin Mirrored
    BY <1>2 DEF AddFinalizer, CreateCall, CreateTags, ReleaseFinalizer, CreateFailed,
       PostCreateFailed, Goto, Return, Unread, Mirrored
  <2> QED
    BY <1>1, <2>1, <2>2, TagsCarried DEF Mirrored
<1>3. CASE SyncUntag \/ SyncTag \/ SyncAssociate \/ SyncDisassociate \/ DeleteCall
  <2>1. cr' = cr /\ des' = des /\ obs' = obs
    BY <1>3 DEF SyncUntag, SyncTag, SyncAssociate, SyncDisassociate, DeleteCall, k8s, Visit
  <2>2. /\ pc' \notin Unread /\ pc' \notin {"decide", "sync.untag"}
        /\ pc' \in Mirrored => pc \in Mirrored
    BY <1>3 DEF SyncUntag, SyncTag, SyncAssociate, SyncDisassociate, DeleteCall, Fail, Goto,
       Return, Unread, Mirrored, Visit
  <2> QED
    BY <1>1, <2>1, <2>2, TagsCarried
<1> QED
  BY <1>2, <1>3

LEMMA TagsRest ==
  ASSUME TypeOK, TagsInv,
         RemoveFinalizer \/ PatchStatus \/ Crash \/ User \/ Meddler \/ UNCHANGED vars
  PROVE  TagsInv'
<1>1. [Next]_vars
  BY DEF Next, Worker
<1>2. \A z \in ZoneIds : Exists(z)' => OnePerKey(zones'[z].tags)
  BY <1>1, ZoneTagsStep
<1>3. CASE RemoveFinalizer \/ PatchStatus \/ Crash
  <2>1. cr'.tags = cr.tags
    BY <1>3 DEF RemoveFinalizer, PatchStatus, Crash, TypeOK, CRs
  <2>2. CASE Idle
    <3>1. des'.tags = {} /\ obs'.tags = {} /\ pc' = "idle"
      BY <2>2 DEF Idle, Nothing
    <3>2. OnePerKey({}) /\ AwsPart({}) = {}
      BY DEF OnePerKey, AwsPart
    <3> QED
      BY <1>2, <2>1, <3>1, <3>2 DEF TagsInv, Exists, Unread, Mirrored
  <2>3. CASE Return(des.id, "plain") /\ UNCHANGED <<des, obs>>
    <3>1. pc' = "patch"
      BY <2>3 DEF Return
    <3> QED
      BY <1>1, <2>1, <2>3, <3>1, TagsCarried DEF Unread, Mirrored
  <2> QED
    BY <1>3, <2>2, <2>3 DEF RemoveFinalizer, PatchStatus, Crash
<1>4. CASE User
  <2>1. /\ UNCHANGED <<zones, pc, des, obs>>
        /\ cr'.tags = cr.tags \/ cr'.tags \in TagLists
    BY <1>4, UserSteps
  <2>2. \A t \in TagLists : OnePerKey(t) /\ AwsPart(t) = {}
    <3> SUFFICES ASSUME NEW t \in TagLists PROVE OnePerKey(t) /\ KeysOf(t) \cap AwsKeys = {}
      BY AwsPartEmpty
    <3> QED
      BY TagsAssumption DEF KeysOf
  <2> QED
    BY <2>1, <2>2 DEF TagsInv, Exists
<1>5. CASE Meddler
  <2>1. UNCHANGED <<cr, pc, des>> /\ obs'.tags = obs.tags
    BY <1>5, MeddlerSteps
  <2>2. ASSUME pc \in {"decide", "sync.untag"}, Exists(des.id)'
        PROVE  zones'[des.id].tags \ AwsPart(zones'[des.id].tags) = obs.tags \ AwsPart(obs.tags)
    <3> DEFINE z == des.id
    <3>1. z \in ZoneIds /\ zones'[z] # NoZone
      BY <2>1, <2>2, HeldTypes DEF MaybeId, Exists
    <3>2. zones[z] # NoZone /\ zones'[z].tags \in {zones[z].tags, Tagged(zones[z].tags, SystemTags)}
      <4>1. ~Made(z)
        BY DEF Made, IdsInUse
      <4>2. ~CreateTags /\ ~SyncUntag /\ ~SyncTag
        <5>1. meddling' = meddling + 1 /\ UNCHANGED <<pc, ret>>
          BY <1>5, MeddlerSteps
        <5>2. pc \notin {"create.tags", "sync.tag"}
          BY <2>2
        <5>3. SyncUntag => pc' # pc
          BY DEF SyncUntag, Goto, Fail, Return
        <5> QED
          BY <5>1, <5>2, <5>3 DEF CreateTags, SyncTag
      <4> QED
        BY <1>1, <3>1, <4>1, <4>2, Fate DEF Kept, Retagged
    <3>3. zones[z].tags \ AwsPart(zones[z].tags) = obs.tags \ AwsPart(obs.tags)
      BY <2>2, <3>1, <3>2 DEF TagsInv, Exists
    <3> QED
      BY <3>2, <3>3, SystemTagged
  <2> QED
    BY <1>2, <2>1, <2>2 DEF TagsInv, Exists
<1>6. CASE UNCHANGED vars
  BY <1>6 DEF vars, TagsInv, Exists
<1> QED
  BY <1>3, <1>4, <1>5, <1>6

LEMMA TagsStep == TypeOK /\ TagsInv /\ [Next]_vars => TagsInv'
  BY TagsRead, TagsCalls, TagsRest DEF Next, Worker

-----------------------------------------------------------------------------
(* Who holds what exists *)

LEMMA RestInit == Init => RestInv
  BY DEF Init, RestInv

LEMMA FindNotFoundCases ==
  ASSUME TypeOK, FindNotFound
  PROVE  \/ pc' = "create.finalizer" /\ ret' = ret
         \/ pc' = "delete.finalizer" /\ ret' = ret /\ mode = "delete"
         \/ pc' = "patch" /\ ret'.id = des.id
<1>1. \/ Goto("create.finalizer")
      \/ Return(des.id, "notFound")
      \/ Goto("delete.finalizer") /\ mode = "delete"
  BY DEF FindNotFound, TypeOK
<1> QED
  BY <1>1 DEF Goto, Return, Result

LEMMA RestStep == TypeOK /\ RestInv /\ [Next]_vars => RestInv'
<1> SUFFICES ASSUME TypeOK, RestInv, [Next]_vars PROVE RestInv'
  OBVIOUS
<1>1. CASE RemoveFinalizer \/ PatchStatus \/ Crash
  <2>1. Idle \/ pc' = "patch"
    BY <1>1 DEF RemoveFinalizer, PatchStatus, Crash, Return
  <2> QED
    BY <2>1 DEF Idle, RestInv
<1>2. CASE User \/ Meddler \/ UNCHANGED vars
  BY <1>2 DEF User, Meddler, vars, RestInv
<1>3. CASE \/ Reconcile \/ Find \/ FindTags \/ Decide \/ AddFinalizer \/ CreateCall \/ CreateTags
           \/ SyncUntag \/ SyncTag \/ SyncAssociate \/ SyncDisassociate \/ DeleteCall
  <2>1. pc \notin {"patch", "create.release"}
    BY <1>3 DEF Reconcile, Find, FindTags, Decide, AddFinalizer, CreateCall, CreateTags,
       SyncUntag, SyncTag, SyncAssociate, SyncDisassociate, DeleteCall, Visit
  <2>2. CASE Reconcile \/ Find \/ FindTags \/ Decide
    <3>1. pc' # "idle" /\ (ret' = ret \/ pc' = "patch")
      BY <2>2, FindNotFoundCases DEF Reconcile, Find, FindTags, Decide, Goto, Return
    <3> QED
      BY <2>1, <3>1 DEF RestInv
  <2>3. CASE AddFinalizer \/ CreateCall \/ CreateTags
    <3>1. pc' # "idle" /\ (ret' = ret \/ pc' \in {"patch", "create.release"})
      BY <2>3 DEF AddFinalizer, CreateCall, CreateTags, PostCreateFailed, CreateFailed, Goto, Return
    <3> QED
      BY <2>1, <3>1 DEF RestInv
  <2>4. CASE SyncUntag \/ SyncTag \/ SyncAssociate \/ SyncDisassociate \/ DeleteCall
    <3>1. pc' # "idle" /\ (ret' = ret \/ pc' = "patch")
      BY <2>4 DEF SyncUntag, SyncTag, SyncAssociate, SyncDisassociate, DeleteCall, Fail, Goto,
         Return, Visit
    <3> QED
      BY <2>1, <3>1 DEF RestInv
  <2> QED
    BY <1>3, <2>2, <2>3, <2>4
<1>4. CASE ReleaseFinalizer
  BY <1>4 DEF ReleaseFinalizer, Goto, RestInv
<1> QED
  BY <1>1, <1>2, <1>3, <1>4 DEF Next, Worker

LEMMA ManagedInit == Init => ManagedInv
  BY DEF Init, ManagedInv, NoResult, IdsInUse, Exists, Unmade, Deleting, Removing

LEMMA ReturnHolds ==
  ASSUME NEW id, NEW err, Return(id, err)
  PROVE  ret'.id = id /\ pc' = "patch"
  BY DEF Return, Result

LEMMA CreateFailedHolds ==
  ASSUME NEW id, NEW err, NEW marked, CreateFailed(id, err, marked)
  PROVE  ret'.id = id /\ pc' \in {"patch", "create.release"}
  BY DEF CreateFailed, Result

(* What CreateHostedZone leaves: a new zone whose ID the worker learns, or *)
(* does not, or nothing.                                                   *)
LEMMA CreateCallCases ==
  ASSUME TypeOK, CreateCall
  PROVE  /\ UNCHANGED <<cr, queued, mode, obs, todo>>
         /\ \/ /\ pc' = "create.tags" /\ ret' = ret /\ losses' = losses
               /\ \E z \in ZoneIds, first \in FirstVPC :
                    NewZone(z, first) /\ des' = [des EXCEPT !.id = z]
            \/ /\ pc' \in {"patch", "create.release"} /\ ret'.id = des.id /\ des' = des
               /\ \/ UNCHANGED zones
                  \/ Loss /\ \E z \in ZoneIds, first \in FirstVPC : NewZone(z, first)
<1>1. \A err : CreateFailed(des.id, err, FALSE) =>
                 ret'.id = des.id /\ pc' \in {"patch", "create.release"}
  BY CreateFailedHolds
<1> QED
  BY <1>1 DEF CreateCall, k8s, Goto, NoFault, counters

(* The worker and the CR pass IDs on; a new one is what Route 53 answers.  *)
LEMMA HeldOrigin ==
  ASSUME TypeOK, [Next]_vars, NEW z, z \in IdsInUse'
  PROVE  \/ z \in IdsInUse \cup {NoId}
         \/ CreateCall /\ z \in ZoneIds \ IdsInUse /\ zones[z] = NoZone /\ des'.id = z
<1>1. CASE Reconcile \/ Find \/ FindTags \/ Decide
  <2>1. cr' = cr /\ des'.id \in {cr.id, des.id} /\ (ret' = ret \/ ret'.id = des.id)
    BY <1>1, FindNotFoundCases, ReturnHolds DEF Reconcile, Find, FindTags, Decide, k8s, Goto,
       TypeOK, Desired
  <2> QED
    BY <2>1 DEF IdsInUse
<1>2. CASE AddFinalizer \/ CreateTags \/ ReleaseFinalizer
  <2>1. cr'.id = cr.id /\ des'.id = des.id
    BY <1>2 DEF AddFinalizer, CreateTags, ReleaseFinalizer, k8s, TypeOK, CRs, Desired
  <2>2. ret' = ret \/ ret'.id = des.id
    BY <1>2, ReturnHolds, CreateFailedHolds DEF AddFinalizer, CreateTags, ReleaseFinalizer,
       PostCreateFailed, Goto
  <2> QED
    BY <2>1, <2>2 DEF IdsInUse
<1>3. CASE CreateCall
  <2>1. CASE des' = des
    BY <1>3, <2>1, CreateCallCases DEF IdsInUse
  <2>2. CASE ret' = ret /\ \E y \in ZoneIds, first \in FirstVPC :
               NewZone(y, first) /\ des' = [des EXCEPT !.id = y]
    <3>1. PICK y \in ZoneIds : /\ y \notin IdsInUse /\ zones[y] = NoZone /\ des'.id = y
      BY <2>2 DEF NewZone, TypeOK, Desired
    <3> QED
      BY <1>3, <2>2, <3>1, CreateCallCases DEF IdsInUse
  <2> QED
    BY <1>3, <2>1, <2>2, CreateCallCases
<1>4. CASE SyncUntag \/ SyncTag \/ SyncAssociate \/ SyncDisassociate \/ DeleteCall
  <2>1. UNCHANGED <<cr, des>> /\ (ret' = ret \/ ret'.id = des.id)
    BY <1>4, ReturnHolds DEF SyncUntag, SyncTag, SyncAssociate, SyncDisassociate, DeleteCall,
       Fail, Goto, k8s, Visit
  <2> QED
    BY <2>1 DEF IdsInUse
<1>5. CASE RemoveFinalizer \/ PatchStatus \/ Crash
  <2>1. cr'.id \in {cr.id, ret.id}
    BY <1>5 DEF RemoveFinalizer, PatchStatus, Crash, TypeOK, CRs
  <2>2. \/ des'.id = NoId /\ ret'.id = NoId
        \/ des' = des /\ ret'.id = des.id
    BY <1>5, ReturnHolds DEF RemoveFinalizer, PatchStatus, Crash, Idle, NoResult
  <2> QED
    BY <2>1, <2>2 DEF IdsInUse
<1>6. CASE User
  BY <1>6, UserSteps DEF IdsInUse
<1>7. CASE Meddler \/ UNCHANGED vars
  BY <1>7 DEF Meddler, vars, IdsInUse
<1> QED
  BY <1>1, <1>2, <1>3, <1>4, <1>5, <1>6, <1>7 DEF Next, Worker

(* Only CreateHostedZone brings a zone into being, under a fresh ID.       *)
LEMMA ExistedBefore ==
  ASSUME TypeOK, [Next]_vars, NEW z, z \in IdsInUse', Exists(z)'
  PROVE  \/ z \in IdsInUse /\ Exists(z)
         \/ CreateCall /\ z \in ZoneIds \ IdsInUse /\ zones[z] = NoZone /\ des'.id = z
<1>1. z # NoId /\ zones'[z] # NoZone
  BY DEF Exists
<1>2. CASE z \in IdsInUse
  <2>1. z \in ZoneIds /\ ~Made(z)
    BY <1>1, <1>2, HeldTypes DEF IdsInUse, MaybeId, Made
  <2> QED
    BY <1>1, <1>2, <2>1, Fate DEF Kept, Retagged, Exists
<1> QED
  BY <1>1, <1>2, HeldOrigin

(* While a reconciliation runs, only what the worker holds exists.         *)
LEMMA OnlyDesired ==
  ASSUME TypeOK, ManagedInv, [Next]_vars, ~CreateCall \/ UNCHANGED zones,
         NEW z, z \in IdsInUse', Exists(z)'
  PROVE  cr.fin /\ cr.phase # "gone" /\ Exists(z) /\ (pc # "idle" => z = des.id)
<1>1. z \in IdsInUse /\ Exists(z)
  BY ExistedBefore DEF Exists
<1> QED
  BY <1>1 DEF ManagedInv

LEMMA ManagedFind ==
  ASSUME TypeOK, RestInv, ManagedInv, Reconcile \/ Find \/ FindTags \/ Decide
  PROVE  ManagedInv'
<1> DEFINE id == des.id
<1>1. ~CreateCall /\ [Next]_vars /\ cr' = cr /\ zones' = zones
  BY DEF Reconcile, Find, FindTags, Decide, CreateCall, Next, Worker, k8s
<1>2. CASE Reconcile
  <2>1. /\ des'.id = cr.id /\ des'.fin = cr.fin /\ pc = "idle" /\ pc' = "find"
        /\ mode' = IF cr.phase = "deleting" THEN "delete" ELSE "sync"
        /\ ret' = ret /\ cr.phase # "gone"
    BY <1>2 DEF Reconcile, Goto
  <2>2. ret.id = NoId /\ ~Exists(NoId)
    BY <2>1 DEF RestInv, NoResult, Exists
  <2> QED
    BY <1>1, <2>1, <2>2 DEF ManagedInv, IdsInUse, Exists, Unmade, Deleting, Removing
<1>3. CASE Find \/ FindTags \/ Decide
  <2>1. /\ des'.id = id /\ des'.fin = des.fin /\ mode' = mode
        /\ pc \in {"find", "find.tags", "decide"}
    BY <1>3 DEF Find, FindTags, Decide, TypeOK, Desired
  <2>2. \/ pc' = "create.finalizer" /\ ~Exists(id)
        \/ pc' = "delete.finalizer" /\ ~Exists(id) /\ mode = "delete"
        \/ pc' \in {"find.tags", "decide", "sync.untag", "sync.associate"}
        \/ pc' = "delete.call" /\ mode = "delete"
        \/ pc' = "patch" /\ ret'.id = id
    <3>1. CASE Find
      BY <3>1, ReturnHolds, FindNotFoundCases DEF Find, Goto
    <3>2. CASE FindTags
      BY <3>2, ReturnHolds, FindNotFoundCases DEF FindTags, Goto
    <3>3. CASE Decide
      BY <3>3, ReturnHolds DEF Decide, Goto
    <3> QED
      BY <1>3, <3>1, <3>2, <3>3
  <2>3. ASSUME NEW z, z \in IdsInUse', Exists(z)'
        PROVE  cr'.fin /\ cr'.phase # "gone" /\ z = des'.id
    BY <1>1, <2>1, <2>3, OnlyDesired
  <2>4. \A c : Exists(c)' <=> Exists(c)
    BY <1>1 DEF Exists
  <2> QED
    BY <1>1, <2>1, <2>2, <2>3, <2>4 DEF ManagedInv, Unmade, Deleting, Removing
<1> QED
  BY <1>2, <1>3

(* Route 53 accepts the tags of a new zone.  Where it refuses one, the     *)
(* error does not reach the reconciler as a post-create one                *)
(* (PostCreateMarked), and the finalizer may go while the zone stays.      *)
TagsAccepted == pc = "create.tags" => des.tags \cap BadTags = {}

(* Then the tags of a new zone are set, or their error is post-create.     *)
LEMMA CreateTagsCases ==
  ASSUME TagsAccepted, TypeOK, TagsInv, CreateTags
  PROVE  \/ pc' = "find" /\ mode' = "post"
         \/ pc' = "patch" /\ ret'.id = des.id /\ ret'.postCreate /\ mode' = mode
<1>1. KeysOf(des.tags) \cap AwsKeys = {}
  BY AwsPartEmpty DEF CreateTags, TagsInv, Unread
<1>2. TagsAnswer(des.tags, {}) \in {"none", "NoSuchHostedZone"}
  BY <1>1 DEF TagsAnswer, TagsAccepted, CreateTags
<1>3. ASSUME NEW err \in {"plain", "NoSuchHostedZone", "OtherAPIError"}, PostCreateFailed(err)
      PROVE  pc' = "patch" /\ ret'.id = des.id /\ ret'.postCreate
  <2>1. ConditionAfter(err) # "Terminal"
    BY DEF ConditionAfter, ConditionOf, TerminalCodes, ErrorCode, BatchErrors
  <2> QED
    BY <1>3, <2>1 DEF PostCreateFailed, CreateFailed, Result
<1> QED
  BY <1>2, <1>3 DEF CreateTags, Goto

LEMMA ManagedCreate ==
  ASSUME TagsAccepted, TypeOK, TagsInv, ManagedInv,
         AddFinalizer \/ CreateTags \/ ReleaseFinalizer
  PROVE  ManagedInv'
<1> DEFINE id == des.id
<1>1. ~CreateCall /\ [Next]_vars
  BY DEF AddFinalizer, CreateTags, ReleaseFinalizer, CreateCall, Next, Worker
<1>2. ASSUME NEW z, z \in IdsInUse', Exists(z)'
      PROVE  cr.fin /\ cr.phase # "gone" /\ z = id /\ Exists(id)
  BY <1>1, <1>2, OnlyDesired DEF AddFinalizer, CreateTags, ReleaseFinalizer
<1>3. CASE AddFinalizer
  <2>1. /\ des'.id = id /\ cr'.phase = cr.phase /\ UNCHANGED <<zones, mode>>
        /\ cr'.fin = cr.fin \/ cr'.fin = TRUE
    BY <1>3 DEF AddFinalizer, TypeOK, CRs, Desired
  <2>2. \/ pc' = "create.call" /\ cr.phase # "gone" /\ cr'.fin = TRUE /\ des'.fin = TRUE
        \/ pc' = "patch"
    <3>1. CASE NoFault /\ cr.phase # "gone"
      BY <1>3, <3>1 DEF AddFinalizer, TypeOK, CRs, Desired, Goto, Return
    <3>2. CASE Return(des.id, "plain")
      BY <3>2, ReturnHolds
    <3> QED
      BY <1>3, <3>1, <3>2 DEF AddFinalizer
  <2>3. ~Exists(id) /\ pc # "idle"
    BY <1>3 DEF AddFinalizer, ManagedInv, Unmade
  <2> QED
    BY <1>2, <2>1, <2>2, <2>3 DEF ManagedInv, Exists, Unmade, Deleting, Removing
<1>4. CASE CreateTags
  <2>1. UNCHANGED <<cr, des>> /\ des.fin /\ cr.fin /\ cr.phase # "gone" /\ pc = "create.tags"
    BY <1>4 DEF CreateTags, k8s, ManagedInv
  <2> QED
    BY <1>2, <1>4, <2>1, CreateTagsCases DEF ManagedInv, Exists, Unmade, Deleting, Removing
<1>5. CASE ReleaseFinalizer
  <2>1. ~Exists(id) /\ UNCHANGED <<zones, des, mode>> /\ pc' = "patch"
    BY <1>5 DEF ReleaseFinalizer, ManagedInv, Unmade, Goto
  <2>2. cr'.phase = "deleting" => cr'.fin
    BY <1>5 DEF ReleaseFinalizer, ManagedInv, TypeOK, CRs
  <2> QED
    BY <1>2, <2>1, <2>2 DEF ManagedInv, Exists, Unmade, Deleting, Removing
<1> QED
  BY <1>3, <1>4, <1>5

(* The ID of a created zone reaches desired, or nobody. *)
LEMMA ManagedCreateCall ==
  ASSUME TypeOK, ManagedInv, CreateCall
  PROVE  ManagedInv'
<1> DEFINE id == des.id
<1>1. [Next]_vars /\ UNCHANGED <<cr, mode>> /\ pc = "create.call"
  BY CreateCallCases DEF CreateCall, Next, Worker
<1>2. cr.fin /\ cr.phase # "gone" /\ des.fin /\ ~Exists(id)
  BY <1>1 DEF ManagedInv, Unmade
<1>3. ASSUME NEW z, z \in IdsInUse', Exists(z)'
      PROVE  z \notin IdsInUse /\ z = des'.id
  <2>1. \A y \in IdsInUse : ~Exists(y)
    BY <1>1, <1>2 DEF ManagedInv
  <2> QED
    BY <1>1, <1>3, <2>1, ExistedBefore
<1>4. CASE pc' \in {"patch", "create.release"} /\ ret'.id = id /\ des' = des
  <2>1. ~Exists(id)'
    BY <1>3, <1>4 DEF IdsInUse
  <2> QED
    BY <1>1, <1>2, <1>3, <1>4, <2>1 DEF ManagedInv, Unmade, Deleting, Removing, Exists
<1>5. CASE pc' = "create.tags" /\ \E z \in ZoneIds : des' = [des EXCEPT !.id = z]
  <2>1. des'.fin = des.fin
    BY <1>5 DEF TypeOK, Desired
  <2> QED
    BY <1>1, <1>2, <1>3, <1>5, <2>1 DEF ManagedInv, Unmade, Deleting, Removing
<1> QED
  BY <1>4, <1>5, CreateCallCases

LEMMA ManagedSync ==
  ASSUME TypeOK, ManagedInv,
         SyncUntag \/ SyncTag \/ SyncAssociate \/ SyncDisassociate \/ DeleteCall
  PROVE  ManagedInv'
<1> DEFINE id == des.id
<1>1. /\ ~CreateCall /\ [Next]_vars /\ UNCHANGED <<cr, des, mode>>
      /\ pc \in Removing \cup {"delete.call"}
  BY DEF SyncUntag, SyncTag, SyncAssociate, SyncDisassociate, DeleteCall, CreateCall, Next,
     Worker, k8s, Removing, Visit
<1>2. ASSUME NEW z, z \in IdsInUse', Exists(z)'
      PROVE  cr.fin /\ cr.phase # "gone" /\ z = id
  BY <1>1, <1>2, OnlyDesired DEF Removing
<1>3. \/ pc' = "patch" /\ ret'.id = id
      \/ pc' \in {"sync.tag", "sync.associate", "sync.disassociate"} /\ pc \in Removing
      \/ pc' = "delete.call" /\ mode = "delete" /\ pc \in Removing
      \/ pc' = "delete.finalizer" /\ ~Exists(id)' /\ pc = "delete.call"
  <2>1. CASE SyncUntag \/ SyncTag
    BY <2>1, ReturnHolds DEF SyncUntag, SyncTag, Fail, Goto, Removing
  <2>2. CASE SyncAssociate \/ SyncDisassociate
    BY <2>2, ReturnHolds DEF SyncAssociate, SyncDisassociate, Fail, Goto, Removing, Visit
  <2>3. CASE DeleteCall
    <3>1. \/ pc' = "patch" /\ ret'.id = id
          \/ Exists(id) /\ zones' = [zones EXCEPT ![id] = NoZone] /\ pc' = "delete.finalizer"
      BY <2>3, ReturnHolds DEF DeleteCall, DeleteAnswer, Fail, Goto
    <3>2. Exists(id) => id \in ZoneIds
      BY HeldTypes
    <3> QED
      BY <1>1, <2>3, <3>1, <3>2 DEF DeleteCall, Exists, TypeOK
  <2> QED
    BY <2>1, <2>2, <2>3
<1>4. des.fin => cr.fin /\ cr.phase # "gone"
  BY <1>1 DEF ManagedInv, Removing
<1> QED
  BY <1>1, <1>2, <1>3, <1>4 DEF ManagedInv, Unmade, Deleting, Removing, Exists

LEMMA ManagedFinish ==
  ASSUME TypeOK, RestInv, ManagedInv, RemoveFinalizer \/ PatchStatus \/ Crash
  PROVE  ManagedInv'
<1> DEFINE id == des.id
<1>1. [Next]_vars /\ zones' = zones
  BY DEF RemoveFinalizer, PatchStatus, Crash, Next, Worker
<1>2. ASSUME NEW z, z \in IdsInUse', Exists(z)'
      PROVE  cr.fin /\ cr.phase # "gone" /\ Exists(z) /\ (pc # "idle" => z = id)
  BY <1>1, <1>2, OnlyDesired
<1>3. CASE RemoveFinalizer
  <2>1. ~Exists(id) /\ cr.phase = "deleting" /\ pc # "idle"
    BY <1>3 DEF RemoveFinalizer, ManagedInv, Unmade, Deleting
  <2>2. \A z \in IdsInUse' : ~Exists(z)'
    BY <1>2, <2>1
  <2>3. \/ Idle /\ cr'.phase = "gone"
        \/ pc' = "patch" /\ UNCHANGED <<cr, des>>
    <3>1. CASE Idle
      BY <1>3, <2>1, <3>1 DEF RemoveFinalizer, TypeOK, CRs, Return, Idle
    <3>2. CASE Return(des.id, "plain") /\ UNCHANGED <<cr, des>>
      BY <3>2, ReturnHolds
    <3> QED
      BY <1>3, <3>1, <3>2 DEF RemoveFinalizer
  <2> QED
    BY <1>1, <2>1, <2>2, <2>3 DEF ManagedInv, Unmade, Deleting, Removing, Exists, Idle
<1>4. CASE PatchStatus \/ Crash
  <2>1. Idle /\ cr'.fin = cr.fin /\ cr'.phase = cr.phase
    BY <1>4 DEF PatchStatus, Crash, TypeOK, CRs
  <2> QED
    BY <1>1, <1>2, <2>1 DEF ManagedInv, Unmade, Deleting, Removing, Idle
<1> QED
  BY <1>3, <1>4

LEMMA ManagedEnvironment ==
  ASSUME TypeOK, ManagedInv, User \/ Meddler \/ UNCHANGED vars
  PROVE  ManagedInv'
<1>1. [Next]_vars /\ UNCHANGED <<pc, mode, des, ret>> /\ (~CreateCall \/ UNCHANGED zones)
  <2>1. CreateCall => pc' # pc
    BY CreateCallCases DEF CreateCall
  <2> QED
    BY <2>1 DEF User, Meddler, Next, vars
<1>2. ASSUME NEW z, z \in IdsInUse', Exists(z)'
      PROVE  cr.fin /\ cr.phase # "gone" /\ Exists(z) /\ (pc # "idle" => z = des.id)
  BY <1>1, <1>2, OnlyDesired
<1>3. Exists(des.id)' => Exists(des.id)
  BY <1>1, <1>2 DEF IdsInUse
<1>4. CASE User
  BY <1>1, <1>2, <1>3, <1>4, UserSteps DEF ManagedInv, Unmade, Deleting, Removing
<1>5. CASE UNCHANGED cr
  BY <1>1, <1>2, <1>3, <1>5 DEF ManagedInv, Unmade, Deleting, Removing
<1> QED
  BY <1>4, <1>5 DEF Meddler, vars

LEMMA ManagedStep ==
  TypeOK /\ TagsInv /\ RestInv /\ ManagedInv /\ TagsAccepted /\ [Next]_vars => ManagedInv'
  BY ManagedFind, ManagedCreate, ManagedCreateCall, ManagedSync, ManagedFinish,
     ManagedEnvironment DEF Next, Worker

-----------------------------------------------------------------------------
(* The VPCs of the zone while nobody else touches it *)

LEMMA VpcInit == Init => VpcInv
  BY DEF Init, Nothing, VpcInv, Exists

(* Others act only in a step of their own. *)
LEMMA MeddlingStep ==
  ASSUME TypeOK, [Next]_vars, meddling \in Nat
  PROVE  /\ meddling' = meddling \/ (Meddler /\ meddling' = meddling + 1)
         /\ Worker => meddling' = meddling
<1>1. Failure \/ Loss \/ NoFault => meddling' = meddling
  BY DEF Failure, Loss, NoFault, counters
<1>2. Worker => meddling' = meddling
  <2>1. CASE Reconcile \/ Find \/ FindTags \/ Decide \/ AddFinalizer \/ CreateCall \/ CreateTags
    BY <1>1, <2>1 DEF Reconcile, Find, FindTags, Decide, AddFinalizer, CreateCall, CreateTags,
       NoFault
  <2>2. CASE ReleaseFinalizer \/ SyncUntag \/ SyncTag \/ SyncAssociate \/ SyncDisassociate
    BY <1>1, <2>2 DEF ReleaseFinalizer, SyncUntag, SyncTag, SyncAssociate, SyncDisassociate, Visit
  <2>3. CASE DeleteCall \/ RemoveFinalizer \/ PatchStatus
    BY <1>1, <2>3 DEF DeleteCall, RemoveFinalizer, PatchStatus
  <2> QED
    BY <2>1, <2>2, <2>3 DEF Worker
<1> QED
  BY <1>1, <1>2 DEF Next, User, Meddler, Crash, vars

(* No zone ever has a VPC that another zone of its name has.               *)
LEMMA TakenStep ==
  ASSUME TypeOK, VpcInv, [Next]_vars
  PROVE  /\ \A z \in ZoneIds : Exists(z)' => zones'[z].vpcs \cap Taken = {}
         /\ meddling' \in Nat
<1>1. meddling' = meddling \/ (Meddler /\ meddling' = meddling + 1)
  BY MeddlingStep DEF VpcInv
<1>2. ASSUME NEW z \in ZoneIds, Exists(z)'
      PROVE  zones'[z].vpcs \cap Taken = {}
  <2>1. Kept(z) \/ Retagged(z) \/ Made(z)
    BY <1>2, Fate DEF Exists
  <2>2. zones[z] # NoZone => zones[z].vpcs \cap Taken = {}
    BY <1>2 DEF VpcInv, Exists
  <2> QED
    BY <2>1, <2>2 DEF Kept, Retagged, Made
<1> QED
  BY <1>1, <1>2 DEF VpcInv

(* Where the worker has to do with VPCs. *)
Watching == {"find.tags", "decide", "sync.untag", "sync.tag", "sync.associate", "sync.disassociate"}

LEMMA VpcElsewhere ==
  ASSUME TypeOK, VpcInv, [Next]_vars, pc' \notin Watching
  PROVE  VpcInv'
<1>1. /\ \A z \in ZoneIds : Exists(z)' => zones'[z].vpcs \cap Taken = {}
      /\ meddling' \in Nat
  BY TakenStep
<1> QED
  BY <1>1 DEF VpcInv, Watching, Exists

LEMMA VpcRead ==
  ASSUME TypeOK, VpcInv, Find \/ FindTags \/ Decide
  PROVE  VpcInv'
<1> DEFINE id == des.id
<1>1. [Next]_vars /\ zones' = zones /\ des'.id = id /\ obs'.fresh = obs.fresh
  BY DEF Find, FindTags, Decide, Next, Worker, TypeOK, Desired, Observed
<1>2. /\ \A z \in ZoneIds : Exists(z)' => zones'[z].vpcs \cap Taken = {}
      /\ meddling' \in Nat
  BY <1>1, TakenStep
<1>3. CASE Find
  <2>1. CASE pc' = "find.tags"
    <3>1. Exists(id) /\ obs' = [obs EXCEPT !.vpcs = zones[id].vpcs]
      BY <1>3, <2>1, FindNotFoundCases, ReturnHolds DEF Find
    <3>2. obs'.vpcs = zones[id].vpcs
      BY <3>1 DEF TypeOK, Observed
    <3> QED
      BY <1>1, <1>2, <2>1, <3>1, <3>2 DEF VpcInv, Exists
  <2>2. CASE pc' # "find.tags"
    <3>1. pc' \notin Watching
      BY <1>3, <2>2, FindNotFoundCases, ReturnHolds DEF Find, Goto, Watching
    <3> QED
      BY <1>1, <3>1, VpcElsewhere
  <2> QED
    BY <2>1, <2>2
<1>4. CASE FindTags
  <2>1. CASE pc' = "decide"
    <3>1. obs'.vpcs = obs.vpcs
      BY <1>4 DEF FindTags, TypeOK, Observed
    <3> QED
      BY <1>1, <1>2, <1>4, <2>1, <3>1 DEF FindTags, VpcInv, Exists
  <2>2. CASE pc' # "decide"
    <3>1. pc' \notin Watching
      BY <1>4, <2>2, FindNotFoundCases, ReturnHolds DEF FindTags, Goto, Watching
    <3> QED
      BY <1>1, <3>1, VpcElsewhere
  <2> QED
    BY <2>1, <2>2
<1>5. CASE Decide
  <2>1. pc = "decide" /\ obs' = obs
    BY <1>5 DEF Decide
  <2>2. CASE pc' = "sync.untag"
    BY <1>1, <1>2, <2>1, <2>2 DEF VpcInv, Exists
  <2>3. CASE pc' = "sync.associate"
    <3>1. \/ des' = des /\ todo' = missing
          \/ todo' = {} /\ \E first \in obs.vpcs :
               des' = [des EXCEPT !.wish = [via |-> "vpcs", ids |-> {first}, misplaced |-> {}]]
      BY <1>5, <2>3 DEF Decide, Goto, Return
    <3>2. \/ des'.wish.ids = des.wish.ids /\ todo' = des.wish.ids \ obs.vpcs
          \/ todo' = {} /\ des'.wish.ids \subseteq obs.vpcs
      BY <3>1 DEF missing, TypeOK, Desired
    <3> QED
      BY <1>1, <1>2, <2>1, <2>3, <3>2 DEF VpcInv, Exists
  <2>4. CASE pc' \notin {"sync.untag", "sync.associate"}
    <3>1. pc' \notin Watching
      BY <1>5, <2>4 DEF Decide, Goto, Return, Watching
    <3> QED
      BY <1>1, <3>1, VpcElsewhere
  <2> QED
    BY <2>2, <2>3, <2>4
<1> QED
  BY <1>3, <1>4, <1>5

(* The calls on tags leave the VPCs alone. *)
LEMMA VpcTags ==
  ASSUME TypeOK, VpcInv, SyncUntag \/ SyncTag
  PROVE  VpcInv'
<1> DEFINE id == des.id
<1>1. [Next]_vars /\ des' = des /\ obs' = obs
  BY DEF SyncUntag, SyncTag, Next, Worker
<1>2. /\ \A z \in ZoneIds : Exists(z)' => zones'[z].vpcs \cap Taken = {}
      /\ meddling' \in Nat
  BY <1>1, TakenStep
<1>3. ASSUME Exists(id)
      PROVE  Exists(id)' /\ zones'[id].vpcs = zones[id].vpcs
  <2>1. id \in ZoneIds /\ zones[id] \in Zones /\ zones[id].tags \in SUBSET AllTags
    BY <1>3, HeldTypes DEF Zones
  <2>2. added \in SUBSET AllTags
    BY HeldTypes, TagTypes DEF added
  <2>3. PICK tags \in SUBSET AllTags :
          zones' = zones \/ zones' = [zones EXCEPT ![id].tags = tags]
    <3>1. CASE SyncUntag
      <4>1. Untagged(zones[id].tags, removedKeys) \in SUBSET AllTags
        BY <2>1, TagTypes
      <4> QED
        BY <3>1, <4>1 DEF SyncUntag
    <3>2. CASE SyncTag
      <4>1. Tagged(zones[id].tags, added) \in SUBSET AllTags
        BY <2>1, <2>2, TagTypes
      <4> QED
        BY <3>2, <4>1 DEF SyncTag
    <3> QED
      BY <3>1, <3>2
  <2>4. [zones[id] EXCEPT !.tags = tags] \in Zones
    BY <2>1 DEF Zones
  <2> QED
    BY <1>1, <1>3, <2>1, <2>3, <2>4 DEF Exists, TypeOK, Zones
<1>4. CASE SyncUntag
  <2>1. pc = "sync.untag" /\ (pc' = "sync.tag" \/ pc' \notin Watching)
    BY <1>4, ReturnHolds DEF SyncUntag, Fail, Goto, Watching
  <2>2. CASE pc' = "sync.tag"
    BY <1>1, <1>2, <1>3, <2>1, <2>2 DEF VpcInv, Exists
  <2> QED
    BY <1>1, <2>1, <2>2, VpcElsewhere
<1>5. CASE SyncTag
  <2>1. /\ pc = "sync.tag"
        /\ (pc' = "sync.associate" /\ todo' = des.wish.ids \ obs.vpcs) \/ pc' \notin Watching
    BY <1>5, ReturnHolds DEF SyncTag, Fail, Goto, Watching, missing
  <2>2. CASE pc' = "sync.associate" /\ todo' = des.wish.ids \ obs.vpcs
    BY <1>1, <1>2, <1>3, <2>1, <2>2 DEF VpcInv, Exists
  <2> QED
    BY <1>1, <2>1, <2>2, VpcElsewhere
<1> QED
  BY <1>4, <1>5

(* A call on a VPC leaves a zone that has this VPC more or less. *)
LEMMA VpcCall ==
  ASSUME TypeOK, NEW v \in VPCs, Exists(des.id)
  PROVE  /\ Associate(des.id, v) => /\ zones'[des.id] # NoZone
                                    /\ zones'[des.id].vpcs = zones[des.id].vpcs \cup {v}
         /\ Disassociate(des.id, v) => /\ zones'[des.id] # NoZone
                                       /\ zones'[des.id].vpcs = zones[des.id].vpcs \ {v}
<1> DEFINE id == des.id
<1>1. id \in ZoneIds /\ zones[id] \in Zones /\ zones[id].vpcs \in SUBSET VPCs
  BY HeldTypes DEF Zones
<1>2. ASSUME NEW vpcs \in SUBSET VPCs, zones' = [zones EXCEPT ![id].vpcs = vpcs]
      PROVE  zones'[id] # NoZone /\ zones'[id].vpcs = vpcs
  <2>1. [zones[id] EXCEPT !.vpcs = vpcs] \in Zones
    BY <1>1 DEF Zones
  <2>2. zones'[id] = [zones[id] EXCEPT !.vpcs = vpcs]
    BY <1>1, <1>2 DEF TypeOK
  <2> QED
    BY <1>1, <2>1, <2>2 DEF Zones
<1>3. zones[id].vpcs \cup {v} \in SUBSET VPCs /\ zones[id].vpcs \ {v} \in SUBSET VPCs
  BY <1>1
<1>4. Associate(id, v) => zones' = [zones EXCEPT ![id].vpcs = zones[id].vpcs \cup {v}]
  BY DEF Associate
<1>5. Disassociate(id, v) => zones' = [zones EXCEPT ![id].vpcs = zones[id].vpcs \ {v}]
  BY DEF Disassociate
<1> QED
  BY <1>2, <1>3, <1>4, <1>5

LEMMA VpcAssociate ==
  ASSUME TypeOK, VpcInv, SyncAssociate
  PROVE  VpcInv'
<1> DEFINE id == des.id
           vpcs == zones[id].vpcs
           wanted == des.wish.ids
<1>1. [Next]_vars /\ des' = des /\ obs' = obs /\ pc = "sync.associate"
  BY DEF SyncAssociate, Next, Worker, Visit
<1>2. /\ \A z \in ZoneIds : Exists(z)' => zones'[z].vpcs \cap Taken = {}
      /\ meddling' \in Nat
  BY <1>1, TakenStep
<1>3. CASE /\ todo = {} /\ todo' = obs.vpcs \ wanted
           /\ pc' = "sync.disassociate" /\ UNCHANGED zones
  BY <1>1, <1>2, <1>3 DEF VpcInv, Exists
<1>4. CASE \E v \in todo : /\ pc' = pc /\ todo' = todo \ {v}
                           /\ AssociateAnswer(id, v) \in {"none", "ConflictingDomainExists"}
                           /\ IF AssociateAnswer(id, v) = "none" THEN Associate(id, v)
                                                                 ELSE UNCHANGED zones
  <2>1. PICK v \in todo : /\ pc' = pc /\ todo' = todo \ {v}
                          /\ AssociateAnswer(id, v) \in {"none", "ConflictingDomainExists"}
                          /\ IF AssociateAnswer(id, v) = "none" THEN Associate(id, v)
                                                                ELSE UNCHANGED zones
    BY <1>4
  <2>2. Exists(id) /\ v \in VPCs
    BY <2>1 DEF AssociateAnswer, TypeOK
  <2>3. CASE AssociateAnswer(id, v) = "none"
    <3>1. zones'[id] # NoZone /\ zones'[id].vpcs = vpcs \cup {v}
      BY <2>1, <2>2, <2>3, VpcCall
    <3> QED
      BY <1>1, <1>2, <2>1, <3>1 DEF VpcInv, Exists
  <2>4. CASE AssociateAnswer(id, v) = "ConflictingDomainExists" /\ UNCHANGED zones
    <3>1. v \in vpcs \cup Taken
      BY <2>4 DEF AssociateAnswer
    <3> QED
      BY <1>1, <1>2, <2>1, <2>2, <2>4, <3>1 DEF VpcInv, Exists
  <2> QED
    BY <2>1, <2>3, <2>4
<1>5. CASE pc' \notin Watching
  BY <1>1, <1>5, VpcElsewhere
<1> QED
  BY <1>3, <1>4, <1>5, ReturnHolds DEF SyncAssociate, Goto, Fail, Watching, extra, Visit

LEMMA VpcDisassociate ==
  ASSUME TypeOK, VpcInv, SyncDisassociate
  PROVE  VpcInv'
<1> DEFINE id == des.id
           vpcs == zones[id].vpcs
           wanted == des.wish.ids
<1>1. [Next]_vars /\ des' = des /\ obs' = obs /\ pc = "sync.disassociate"
  BY DEF SyncDisassociate, Next, Worker, Visit
<1>2. /\ \A z \in ZoneIds : Exists(z)' => zones'[z].vpcs \cap Taken = {}
      /\ meddling' \in Nat
  BY <1>1, TakenStep
<1>3. CASE \E v \in todo : /\ pc' = pc /\ todo' = todo \ {v}
                           /\ DisassociateAnswer(id, v) \in {"none", "VPCAssociationNotFound"}
                           /\ IF DisassociateAnswer(id, v) = "none" THEN Disassociate(id, v)
                                                                    ELSE UNCHANGED zones
  <2>1. PICK v \in todo : /\ pc' = pc /\ todo' = todo \ {v}
                          /\ DisassociateAnswer(id, v) \in {"none", "VPCAssociationNotFound"}
                          /\ IF DisassociateAnswer(id, v) = "none" THEN Disassociate(id, v)
                                                                   ELSE UNCHANGED zones
    BY <1>3
  <2>2. Exists(id) /\ v \in VPCs
    BY <2>1 DEF DisassociateAnswer, TypeOK
  <2>3. CASE DisassociateAnswer(id, v) = "none"
    <3>1. zones'[id] # NoZone /\ zones'[id].vpcs = vpcs \ {v}
      BY <2>1, <2>2, <2>3, VpcCall
    <3> QED
      BY <1>1, <1>2, <2>1, <3>1 DEF VpcInv, Exists
  <2>4. CASE DisassociateAnswer(id, v) = "VPCAssociationNotFound" /\ UNCHANGED zones
    <3>1. v \notin vpcs
      BY <2>4 DEF DisassociateAnswer
    <3> QED
      BY <1>1, <1>2, <2>1, <2>2, <2>4, <3>1 DEF VpcInv, Exists
  <2> QED
    BY <2>1, <2>3, <2>4
<1>4. CASE pc' \notin Watching
  BY <1>1, <1>4, VpcElsewhere
<1> QED
  BY <1>3, <1>4, ReturnHolds DEF SyncDisassociate, Goto, Fail, Watching, Visit

LEMMA VpcStep == TypeOK /\ VpcInv /\ [Next]_vars => VpcInv'
<1> SUFFICES ASSUME TypeOK, VpcInv, [Next]_vars PROVE VpcInv'
  OBVIOUS
<1>1. CASE \/ Reconcile \/ AddFinalizer \/ CreateCall \/ CreateTags \/ ReleaseFinalizer
           \/ DeleteCall \/ RemoveFinalizer \/ PatchStatus \/ Crash
  <2>1. CASE Reconcile \/ AddFinalizer \/ ReleaseFinalizer \/ DeleteCall
    BY <2>1, VpcElsewhere, ReturnHolds DEF Reconcile, AddFinalizer, ReleaseFinalizer, DeleteCall,
       Fail, Goto, Watching
  <2>2. CASE CreateCall
    BY <2>2, VpcElsewhere, CreateCallCases DEF Watching
  <2>3. CASE CreateTags
    <3>1. \A err : PostCreateFailed(err) => pc' \notin Watching
      BY CreateFailedHolds DEF PostCreateFailed, Watching
    <3> QED
      BY <2>3, <3>1, VpcElsewhere DEF CreateTags, Goto, Watching
  <2>4. CASE RemoveFinalizer \/ PatchStatus \/ Crash
    BY <2>4, VpcElsewhere, ReturnHolds DEF RemoveFinalizer, PatchStatus, Crash, Idle, Watching
  <2> QED
    BY <1>1, <2>1, <2>2, <2>3, <2>4
<1>2. CASE User \/ UNCHANGED vars
  <2>1. UNCHANGED <<zones, pc, des, obs, todo, meddling>>
    BY <1>2, UserSteps DEF vars
  <2> QED
    BY <2>1 DEF VpcInv, Exists
<1>3. CASE Meddler
  BY <1>3, TakenStep, MeddlerSteps DEF VpcInv, Exists
<1> QED
  BY <1>1, <1>2, <1>3, VpcRead, VpcTags, VpcAssociate, VpcDisassociate DEF Next, Worker

-----------------------------------------------------------------------------
(* The zone as a whole while nobody else works on it *)

(* One call that removes keys and one that adds pairs make the tags that   *)
(* were read into the ones that are wanted.                                *)
LEMMA TagsSynced ==
  ASSUME NEW want, NEW have, OnePerKey(want), OnePerKey(have)
  PROVE  /\ Untagged(have, toDeleteTagKeys(want, have)) = want \cap have
         /\ Tagged(want \cap have, toAdd(want, have)) = want
         /\ toDeleteTagKeys(want, have) = {} => have \subseteq want
<1>1. ASSUME NEW t \in have
      PROVE  t \notin want <=> t[1] \in toDeleteTagKeys(want, have)
  BY <1>1 DEF OnePerKey, toDeleteTagKeys, KeysOf
<1>2. Untagged(have, toDeleteTagKeys(want, have)) = want \cap have
  BY <1>1 DEF Untagged, WithoutKeys
<1>3. Tagged(want \cap have, toAdd(want, have)) = want
  BY DEF Tagged, WithoutKeys, KeysOf, toAdd, OnePerKey
<1>4. toDeleteTagKeys(want, have) = {} => have \subseteq want
  BY <1>1
<1> QED
  BY <1>2, <1>3, <1>4

LEMMA SettledInit == Init => SettledInv
  BY DEF Init, SettledInv, SyncedReflects

(* An error is not reported as Synced. *)
LEMMA ErrorTells ==
  ASSUME NEW id, NEW err, NEW marked, err # "none"
  PROVE  /\ Return(id, err) => pc' = "patch" /\ ret'.cond # "Synced"
         /\ CreateFailed(id, err, marked) =>
              pc' \in {"patch", "create.release"} /\ ret'.cond # "Synced"
<1>1. Result(id, err, FALSE).cond # "Synced" /\ Result(id, err, marked).cond # "Synced"
  BY DEF Result, ConditionAfter, ConditionOf
<1> QED
  BY <1>1 DEF Return, CreateFailed

(* Where the worker goes when it has nothing to say about the zone. *)
Elsewhere == {"idle", "create.finalizer", "create.call", "delete.call", "delete.finalizer"}

LEMMA SettledElsewhere ==
  ASSUME pc' \in Elsewhere \/ (pc' \in {"patch", "create.release"} /\ ret'.cond # "Synced")
  PROVE  SettledInv'
  BY DEF SettledInv, SyncedReflects, Elsewhere

LEMMA SettledRead ==
  ASSUME TypeOK, TagsInv, VpcInv, SettledInv, Reconcile \/ Find \/ FindTags
  PROVE  SettledInv'
<1> DEFINE id == des.id
<1>0. FindNotFound \/ Return(id, "OtherAPIError") => SettledInv'
  BY ErrorTells, SettledElsewhere DEF FindNotFound, Goto, TypeOK, Elsewhere
<1>1. CASE Reconcile
  <2>1. pc' = "find" /\ mode' # "post"
    BY <1>1 DEF Reconcile, Goto
  <2> QED
    BY <2>1 DEF SettledInv, SyncedReflects
<1>2. CASE Find
  <2>1. CASE pc' = "find.tags" /\ obs' = [obs EXCEPT !.vpcs = zones[id].vpcs]
    <3>1. UNCHANGED <<zones, des, mode>> /\ pc = "find" /\ obs'.fresh = obs.fresh
      BY <1>2, <2>1 DEF Find, TypeOK, Observed
    <3> QED
      BY <2>1, <3>1 DEF SettledInv, SyncedReflects, Exists
  <2> QED
    BY <1>0, <1>2, <2>1 DEF Find, Goto
<1>3. CASE FindTags
  <2>1. CASE /\ pc' = "decide" /\ Exists(id)
             /\ obs' = [obs EXCEPT !.tags = zones[id].tags]
             /\ des' = [des EXCEPT !.tags = mirrorAWSTags(@, obs'.tags)]
    <3>1. /\ UNCHANGED <<zones, mode>> /\ pc = "find.tags" /\ AwsPart(des.tags) = {}
          /\ obs'.fresh = obs.fresh /\ obs'.tags = zones[id].tags
          /\ des'.id = id /\ des'.wish = des.wish
          /\ des'.tags = mirrorAWSTags(des.tags, zones[id].tags)
      BY <1>3, <2>1 DEF FindTags, TypeOK, Observed, Desired, TagsInv, Unread
    <3>2. zones[id].tags = des.tags => des'.tags = des.tags
      BY <3>1 DEF mirrorAWSTags, WithoutKeys, KeysOf, AwsPart
    <3> QED
      BY <2>1, <3>1, <3>2 DEF SettledInv, SyncedReflects, Exists
  <2> QED
    BY <1>0, <1>3, <2>1 DEF FindTags, Goto
<1> QED
  BY <1>1, <1>2, <1>3

(* What ReadOne found and the reconciler leaves alone is as it was asked.  *)
LEMMA SettledDecide ==
  ASSUME TypeOK, TagsInv, VpcInv, SettledInv, Decide
  PROVE  SettledInv'
<1> DEFINE id == des.id
<1>1. UNCHANGED <<zones, mode, obs>> /\ pc = "decide"
  BY DEF Decide
<1>2. ASSUME obs.fresh
      PROVE  /\ Exists(id) /\ zones[id].vpcs = obs.vpcs /\ zones[id].tags = obs.tags
             /\ zones[id].vpcs \cap Taken = {}
             /\ mode = "post" => zones[id].tags = des.tags /\ zones[id].vpcs = des.wish.ids
  BY <1>1, <1>2, HeldTypes DEF VpcInv, SettledInv
<1>3. CASE mode = "delete" /\ pc' \in {"sync.associate", "delete.call"}
  BY <1>1, <1>3 DEF SettledInv, SyncedReflects
<1>4. CASE Return(id, "terminalError")
  BY <1>4, ErrorTells, SettledElsewhere
<1>5. CASE /\ Return(id, "none") /\ des' = des
           /\ mode = "post" \/ (~compareTags /\ ~compareVPCs)
  <2>1. pc' = "patch" /\ (obs.fresh => SyncedReflects')
    BY <1>1, <1>2, <1>5 DEF Return, SyncedReflects, Exists, compareTags, compareVPCs
  <2> QED
    BY <1>1, <2>1 DEF SettledInv, SyncedReflects
<1>6. CASE mode = "sync" /\ des' = des /\ pc' = "sync.untag"
  BY <1>1, <1>2, <1>6 DEF SettledInv, SyncedReflects, Exists
<1>7. CASE mode = "sync" /\ des' = des /\ pc' = "sync.associate" /\ ~compareTags
  BY <1>1, <1>2, <1>7 DEF SettledInv, SyncedReflects, Exists, compareTags
<1> QED
  BY <1>3, <1>4, <1>5, <1>6, <1>7 DEF Decide, Goto

(* A new zone has the first VPC, no tags, and then the tags asked for.     *)
LEMMA SettledCreate ==
  ASSUME TypeOK, SettledInv, AddFinalizer \/ CreateCall \/ CreateTags \/ ReleaseFinalizer
  PROVE  SettledInv'
<1> DEFINE id == des.id
<1>1. CASE AddFinalizer
  BY <1>1, ErrorTells, SettledElsewhere DEF AddFinalizer, Goto, Elsewhere
<1>2. CASE CreateCall
  <2>1. CASE pc' = "create.tags" /\ \E z \in ZoneIds, first \in FirstVPC :
               NewZone(z, first) /\ des' = [des EXCEPT !.id = z]
    <3>1. PICK z \in ZoneIds, first \in FirstVPC :
            NewZone(z, first) /\ des' = [des EXCEPT !.id = z]
      BY <2>1
    <3>2. des'.id = z /\ des'.wish = des.wish /\ z # NoId
      BY <3>1 DEF TypeOK, Desired
    <3>3. zones'[z] # NoZone /\ zones'[z].vpcs = first /\ zones'[z].tags = {}
      <4>1. /\ zones'[z] = [vpcs |-> first, tags |-> {}, private |-> first # {}]
            /\ zones'[z] \in Zones
        BY <3>1, NewZoneType
      <4> QED
        BY <4>1
    <3>4. FirstVPC' = FirstVPC
      BY <3>2 DEF FirstVPC
    <3> QED
      BY <2>1, <3>2, <3>3, <3>4 DEF SettledInv, SyncedReflects, Exists
  <2>2. ASSUME NEW err, err # "none", CreateFailed(id, err, FALSE)
        PROVE  SettledInv'
    BY <2>2, ErrorTells, SettledElsewhere
  <2> QED
    BY <1>2, <2>1, <2>2 DEF CreateCall, Goto
<1>3. CASE CreateTags
  <2>1. UNCHANGED <<des, obs>> /\ pc = "create.tags"
    BY <1>3 DEF CreateTags
  <2>2. ASSUME NEW err, err # "none", PostCreateFailed(err)
        PROVE  SettledInv'
    BY <2>2, ErrorTells, SettledElsewhere DEF PostCreateFailed
  <2>3. CASE /\ pc' = "find" /\ mode' = "post" /\ Cardinality(des.wish.ids) <= 1
             /\ zones' = IF des.tags = {} THEN zones
                         ELSE [zones EXCEPT ![id].tags = des.tags]
    <3>1. CASE obs.fresh
      <4>1. Exists(id) /\ zones[id].tags = {} /\ zones[id].vpcs \in FirstVPC
        BY <2>1, <3>1 DEF SettledInv
      <4>2. id \in ZoneIds /\ id # NoId
        BY <4>1, HeldTypes DEF Exists
      <4>3. /\ zones'[id].tags = des.tags /\ zones'[id].vpcs = zones[id].vpcs
            /\ zones'[id] # NoZone
        <5>1. zones' = zones \/ zones'[id] = [zones[id] EXCEPT !.tags = des.tags]
          BY <2>3, <4>2 DEF TypeOK
        <5>2. zones[id] \in Zones /\ des.tags \in SUBSET AllTags
          BY <4>1, <4>2, HeldTypes
        <5>3. [zones[id] EXCEPT !.tags = des.tags] \in Zones
          BY <5>2 DEF Zones
        <5>4. zones' = zones => des.tags = {}
          BY <2>3, <4>1, <4>2, <5>2 DEF TypeOK, Zones
        <5> QED
          BY <4>1, <5>1, <5>2, <5>3, <5>4 DEF Exists, Zones
      <4>4. zones[id].vpcs = des.wish.ids
        <5>1. IsFiniteSet(des.wish.ids)
          BY HeldTypes, VPCsAssumption, FS_Subset
        <5>2. Cardinality(des.wish.ids) \in Nat
          BY <5>1, FS_CardinalityType
        <5>3. ASSUME NEW v \in des.wish.ids
              PROVE  des.wish.ids = {v}
          <6>1. IsFiniteSet(des.wish.ids \ {v}) /\ v \notin des.wish.ids \ {v}
            BY <5>1, FS_Subset
          <6>2. Cardinality(des.wish.ids \ {v}) = Cardinality(des.wish.ids) - 1
            BY <5>1, FS_RemoveElement
          <6>3. Cardinality(des.wish.ids \ {v}) \in Nat
            BY <6>1, FS_CardinalityType
          <6>4. Cardinality(des.wish.ids \ {v}) = 0
            BY <2>3, <5>2, <6>2, <6>3
          <6>5. des.wish.ids \ {v} = {}
            BY <6>1, <6>4, FS_EmptySet
          <6> QED
            BY <6>5
        <5> QED
          BY <4>1, <5>3 DEF FirstVPC
      <4> QED
        BY <2>1, <2>3, <4>2, <4>3, <4>4 DEF SettledInv, SyncedReflects, Exists
    <3>2. CASE ~obs.fresh
      BY <2>1, <2>3, <3>2 DEF SettledInv, SyncedReflects
    <3> QED
      BY <3>1, <3>2
  <2> QED
    BY <1>3, <2>2, <2>3 DEF CreateTags, Goto
<1>4. CASE ReleaseFinalizer
  <2>1. pc = "create.release" /\ pc' = "patch" /\ ret' = ret
    BY <1>4 DEF ReleaseFinalizer, Goto
  <2>2. ret'.cond # "Synced"
    BY <2>1 DEF SettledInv
  <2> QED
    BY <2>1, <2>2, SettledElsewhere
<1> QED
  BY <1>1, <1>2, <1>3, <1>4

(* syncTags turns the tags that were read into the ones that are wanted.   *)
LEMMA SettledTags ==
  ASSUME TypeOK, TagsInv, VpcInv, SettledInv, SyncUntag \/ SyncTag
  PROVE  SettledInv'
<1> DEFINE id == des.id
<1>1. UNCHANGED <<mode, des, obs>> /\ mode = "sync"
  BY DEF SyncUntag, SyncTag, SettledInv
<1>2. \A err : err # "none" /\ Fail(err) => SettledInv'
  BY ErrorTells, SettledElsewhere DEF Fail
<1>3. /\ Untagged(obs.tags, removedKeys) = des.tags \cap obs.tags
      /\ Tagged(des.tags \cap obs.tags, added) = des.tags
      /\ removedKeys = {} => obs.tags \subseteq des.tags
  BY TagsSynced DEF TagsInv, removedKeys, added
<1>4. removedKeys' = removedKeys
  BY <1>1 DEF removedKeys
<1>5. ASSUME obs.fresh
      PROVE  /\ Exists(id) /\ id \in ZoneIds /\ zones[id].vpcs = obs.vpcs
             /\ zones[id].vpcs \cap Taken = {} /\ zones[id] \in Zones
             /\ pc = "sync.untag" => zones[id].tags = obs.tags
             /\ pc = "sync.tag" => zones[id].tags = des.tags \cap obs.tags
  <2>1. Exists(id) /\ zones[id].vpcs = obs.vpcs
    BY <1>5 DEF SyncUntag, SyncTag, VpcInv
  <2>2. id \in ZoneIds /\ zones[id] \in Zones
    BY <2>1, HeldTypes
  <2> QED
    BY <1>3, <1>5, <2>1, <2>2 DEF SettledInv, VpcInv
<1>6. ASSUME NEW tags, obs.fresh, zones' = [zones EXCEPT ![id].tags = tags]
      PROVE  /\ zones'[id].tags = tags /\ zones'[id].vpcs = obs.vpcs
             /\ tags \in SUBSET AllTags => Exists(id)'
  <2>1. zones'[id] = [zones[id] EXCEPT !.tags = tags]
    BY <1>5, <1>6 DEF TypeOK
  <2>2. tags \in SUBSET AllTags => [zones[id] EXCEPT !.tags = tags] \in Zones
    BY <1>5, <1>6 DEF Zones
  <2> QED
    BY <1>1, <1>5, <1>6, <2>1, <2>2 DEF Zones, Exists
<1>7. CASE SyncUntag
  <2>1. CASE /\ pc' = "sync.tag"
             /\ \/ removedKeys = {} /\ UNCHANGED zones
                \/ zones' = [zones EXCEPT ![id].tags = Untagged(@, removedKeys)]
    <3>1. ASSUME obs.fresh
          PROVE  zones'[id].tags = Untagged(obs.tags, removedKeys)
      <4>1. zones[id].tags = obs.tags
        BY <1>5, <1>7, <3>1 DEF SyncUntag
      <4>2. CASE removedKeys = {} /\ UNCHANGED zones
        BY <1>3, <4>1, <4>2
      <4>3. CASE zones' = [zones EXCEPT ![id].tags = Untagged(zones[id].tags, removedKeys)]
        BY <1>6, <3>1, <4>1, <4>3
      <4> QED
        BY <2>1, <4>2, <4>3
    <3> QED
      BY <1>1, <1>4, <2>1, <3>1 DEF SettledInv, SyncedReflects
  <2> QED
    BY <1>2, <1>7, <2>1 DEF SyncUntag, Goto
<1>8. CASE SyncTag
  <2>1. CASE /\ zones' = IF added = {} THEN zones ELSE [zones EXCEPT ![id].tags = Tagged(@, added)]
             /\ \/ pc' = "sync.associate"
                \/ ~compareVPCs /\ Return(id, "none")
    <3>1. ASSUME obs.fresh
          PROVE  Exists(id)' /\ zones'[id].tags = des.tags /\ zones'[id].vpcs = obs.vpcs
      <4>1. zones[id].tags = des.tags \cap obs.tags
        BY <1>5, <1>8, <3>1 DEF SyncTag
      <4>2. CASE added = {} /\ zones' = zones
        <5>1. des.tags \subseteq obs.tags
          BY <4>2 DEF added, toAdd
        <5> QED
          BY <1>1, <1>5, <3>1, <4>1, <4>2, <5>1 DEF Exists
      <4>3. CASE zones' = [zones EXCEPT ![id].tags = Tagged(zones[id].tags, added)]
        BY <1>3, <1>6, <3>1, <4>1, <4>3, HeldTypes
      <4> QED
        BY <2>1, <4>2, <4>3
    <3>2. CASE pc' = "sync.associate"
      BY <1>1, <3>1, <3>2 DEF SettledInv, SyncedReflects
    <3>3. CASE ~compareVPCs /\ Return(id, "none")
      <4>1. pc' = "patch" /\ (des.wish.via # "none" => des.wish.ids = obs.vpcs)
        BY <3>3 DEF Return, compareVPCs
      <4>2. obs.fresh => obs.vpcs \cap Taken = {}
        BY <1>5
      <4> QED
        BY <1>1, <3>1, <4>1, <4>2 DEF SettledInv, SyncedReflects
    <3> QED
      BY <2>1, <3>2, <3>3
  <2> QED
    BY <1>2, <1>8, <2>1 DEF SyncTag, Goto
<1> QED
  BY <1>7, <1>8

(* The calls on VPCs leave the tags alone, and the second loop ends with   *)
(* what is wanted and can be had.                                          *)
LEMMA SettledVpcs ==
  ASSUME TypeOK, VpcInv, SettledInv, SyncAssociate \/ SyncDisassociate
  PROVE  SettledInv'
<1> DEFINE id == des.id
           wanted == des.wish.ids
<1>1. UNCHANGED <<mode, des, obs>> /\ pc \in {"sync.associate", "sync.disassociate"}
  BY DEF SyncAssociate, SyncDisassociate, Visit
<1>2. \A err : err # "none" /\ Fail(err) => SettledInv'
  BY ErrorTells, SettledElsewhere DEF Fail
<1>3. obs.fresh => Exists(id) /\ id \in ZoneIds
  BY <1>1, HeldTypes DEF VpcInv
<1>4. CASE /\ pc' \in {"sync.associate", "sync.disassociate"}
           /\ UNCHANGED zones \/ \E v \in VPCs : Associate(id, v) \/ Disassociate(id, v)
  <2>1. ASSUME obs.fresh
        PROVE  zones'[id].tags = zones[id].tags
    <3>1. \A new : zones' = [zones EXCEPT ![id].vpcs = new] => zones'[id].tags = zones[id].tags
      BY <1>3, <2>1, Rewriting
    <3> QED
      BY <1>4, <3>1 DEF Associate, Disassociate
  <2> QED
    BY <1>1, <1>4, <2>1 DEF SettledInv, SyncedReflects
<1>5. CASE /\ pc = "sync.disassociate" /\ todo = {} /\ UNCHANGED zones
           /\ mode # "delete" /\ Return(id, "none")
  <2>1. pc' = "patch"
    BY <1>5 DEF Return
  <2>2. ASSUME obs.fresh
        PROVE  zones[id].vpcs = wanted \ Taken /\ zones[id].tags = des.tags
    <3>1. zones[id].vpcs \subseteq wanted /\ wanted \ Taken \subseteq zones[id].vpcs
      BY <1>5, <2>2 DEF VpcInv
    <3>2. zones[id].vpcs \cap Taken = {}
      BY <1>3, <2>2 DEF VpcInv
    <3> QED
      BY <1>5, <2>2, <3>1, <3>2 DEF SettledInv
  <2> QED
    BY <1>1, <1>3, <1>5, <2>1, <2>2 DEF SettledInv, SyncedReflects, Exists
<1>6. todo \in SUBSET VPCs
  BY DEF TypeOK
<1>7. CASE SyncAssociate
  BY <1>1, <1>2, <1>4, <1>6, <1>7 DEF SyncAssociate, Goto, Visit
<1>8. CASE SyncDisassociate
  <2>1. \A answer : answer # "none" => disassociateError(answer) # "none"
    BY DEF disassociateError
  <2>2. mode = "delete" /\ Goto("delete.call") => SettledInv'
    BY SettledElsewhere DEF Goto, Elsewhere
  <2> QED
    BY <1>1, <1>2, <1>4, <1>5, <1>6, <1>8, <2>1, <2>2 DEF SyncDisassociate, Goto, Visit
<1> QED
  BY <1>7, <1>8

LEMMA SettledStep == TypeOK /\ TagsInv /\ VpcInv /\ SettledInv /\ [Next]_vars => SettledInv'
<1> SUFFICES ASSUME TypeOK, TagsInv, VpcInv, SettledInv, [Next]_vars PROVE SettledInv'
  OBVIOUS
<1>1. CASE DeleteCall \/ RemoveFinalizer \/ PatchStatus \/ Crash
  <2>1. DeleteCall => SettledInv'
    BY ErrorTells, SettledElsewhere DEF DeleteCall, Fail, Goto, Elsewhere
  <2>2. RemoveFinalizer \/ PatchStatus \/ Crash => SettledInv'
    BY ErrorTells, SettledElsewhere DEF RemoveFinalizer, PatchStatus, Crash, Idle, Elsewhere
  <2> QED
    BY <1>1, <2>1, <2>2
<1>2. CASE User \/ UNCHANGED vars
  <2>1. UNCHANGED <<zones, pc, mode, des, obs, ret>>
    BY <1>2, UserSteps DEF vars
  <2>2. UNCHANGED <<FirstVPC, removedKeys>>
    BY <2>1 DEF FirstVPC, removedKeys
  <2> QED
    BY <2>1, <2>2 DEF SettledInv, SyncedReflects, Exists
<1>3. CASE Meddler
  BY <1>3, MeddlerSteps DEF SettledInv, SyncedReflects
<1> QED
  BY <1>1, <1>2, <1>3, SettledRead, SettledDecide, SettledCreate, SettledTags, SettledVpcs
     DEF Next, Worker

-----------------------------------------------------------------------------
(* What is lost *)

LEMMA StrayInit == Init => StrayInv
<1> SUFFICES ASSUME Init PROVE StrayInv
  OBVIOUS
<1>1. Stray = {}
  BY DEF Init, Stray, Exists
<1> QED
  BY <1>1, FS_EmptySet, FS_Subset DEF Init, StrayInv

(* A zone becomes a stray when it was held by somebody who has now let go  *)
(* of it, or when it was made and the answer lost.                         *)
LEMMA StrayOrigin ==
  ASSUME TypeOK, [Next]_vars, NEW z \in ZoneIds, z \in Stray', z \notin Stray
  PROVE  Made(z) \/ (Exists(z) /\ z \in IdsInUse)
  BY Fate DEF Stray, Exists, Kept, Retagged

(* The steps after which whoever held an existing zone still holds it.     *)
LEMMA Retained ==
  ASSUME TypeOK, RestInv, ManagedInv, [Next]_vars, ~Crash, ~PatchStatus, ~CreateCall,
         NEW z \in IdsInUse, Exists(z)
  PROVE  z \in IdsInUse'
<1>1. cr.fin /\ cr.phase # "gone" /\ (pc # "idle" => z = des.id)
  BY DEF ManagedInv
<1>2. CASE Reconcile
  <2>1. des'.id = cr.id /\ pc = "idle"
    BY <1>2 DEF Reconcile
  <2>2. des.id = NoId /\ ret.id = NoId /\ z # NoId
    BY <2>1 DEF RestInv, NoResult, Exists
  <2> QED
    BY <2>1, <2>2 DEF IdsInUse
<1>3. CASE \/ Find \/ FindTags \/ Decide \/ AddFinalizer \/ CreateTags \/ ReleaseFinalizer
           \/ SyncUntag \/ SyncTag \/ SyncAssociate \/ SyncDisassociate \/ DeleteCall
  <2>1. pc # "idle"
    BY <1>3 DEF Find, FindTags, Decide, AddFinalizer, CreateTags, ReleaseFinalizer, SyncUntag,
       SyncTag, SyncAssociate, SyncDisassociate, DeleteCall, Visit
  <2>2. des'.id = des.id
    BY <1>3 DEF Find, FindTags, Decide, AddFinalizer, CreateTags, ReleaseFinalizer, SyncUntag,
       SyncTag, SyncAssociate, SyncDisassociate, DeleteCall, TypeOK, Desired, Visit
  <2> QED
    BY <1>1, <2>1, <2>2 DEF IdsInUse
<1>4. CASE RemoveFinalizer
  BY <1>1, <1>4 DEF RemoveFinalizer, ManagedInv, Unmade
<1>5. CASE User
  BY <1>1, <1>5, UserSteps DEF IdsInUse
<1>6. CASE Meddler \/ UNCHANGED vars
  BY <1>6 DEF Meddler, vars, IdsInUse
<1> QED
  BY <1>2, <1>3, <1>4, <1>5, <1>6 DEF Next, Worker

(* A patch that succeeds puts into the CR what the worker returns.         *)
LEMMA RetainedByPatch ==
  ASSUME TypeOK, ManagedInv, PatchStatus, losses \in Nat, losses' = losses,
         NEW z \in IdsInUse, Exists(z)
  PROVE  z \in IdsInUse'
<1>1. cr.phase # "gone" /\ z = des.id /\ ret.id = des.id
  BY DEF PatchStatus, ManagedInv, IdsInUse
<1>2. cr' = [cr EXCEPT !.id = ret.id, !.cond = ret.cond]
  BY <1>1 DEF PatchStatus, Loss
<1>3. cr'.id = ret.id
  BY <1>2 DEF TypeOK, CRs
<1> QED
  BY <1>1, <1>3 DEF IdsInUse

LEMMA LossesStep ==
  ASSUME losses \in Nat, [Next]_vars
  PROVE  losses' = losses \/ losses' = losses + 1
<1>1. CASE Failure \/ Loss \/ NoFault \/ UNCHANGED losses
  BY <1>1 DEF Failure, Loss, NoFault, counters
<1>2. CASE Reconcile \/ Decide \/ User \/ Meddler \/ Crash \/ UNCHANGED vars
  BY <1>1, <1>2 DEF Reconcile, Decide, User, Meddler, Crash, vars, NoFault
<1>3. CASE Find \/ FindTags \/ AddFinalizer \/ CreateCall \/ CreateTags \/ ReleaseFinalizer
  BY <1>1, <1>3 DEF Find, FindTags, AddFinalizer, CreateCall, CreateTags, ReleaseFinalizer
<1>4. CASE SyncUntag \/ SyncTag \/ SyncAssociate \/ SyncDisassociate
  BY <1>1, <1>4 DEF SyncUntag, SyncTag, SyncAssociate, SyncDisassociate, Visit
<1>5. CASE DeleteCall \/ RemoveFinalizer \/ PatchStatus
  BY <1>1, <1>5 DEF DeleteCall, RemoveFinalizer, PatchStatus
<1> QED
  BY <1>2, <1>3, <1>4, <1>5 DEF Next, Worker

(* A zone that was made and answered is held. *)
LEMMA MadeIsHeld ==
  ASSUME TypeOK, losses \in Nat, losses' = losses, NEW z \in ZoneIds, Made(z), zones'[z] # NoZone
  PROVE  z \in IdsInUse'
<1>1. PICK y \in ZoneIds, first \in FirstVPC : NewZone(y, first) /\ des' = [des EXCEPT !.id = y]
  <2>1. ~Loss /\ zones' # zones
    BY DEF Loss, Made
  <2> QED
    BY <2>1, CreateCallCases DEF Made
<1>2. z = y
  BY <1>1, NewZoneType DEF Made
<1>3. des'.id = z
  BY <1>1, <1>2 DEF TypeOK, Desired
<1> QED
  BY <1>3 DEF IdsInUse

(* Only one of the zones that exist is held. *)
LEMMA OneHeld ==
  ASSUME RestInv, ManagedInv, NEW y \in IdsInUse, NEW z \in IdsInUse, Exists(y), Exists(z)
  PROVE  y = z
<1>1. CASE pc # "idle"
  BY <1>1 DEF ManagedInv
<1>2. CASE pc = "idle"
  BY <1>2 DEF RestInv, NoResult, IdsInUse, Exists
<1> QED
  BY <1>1, <1>2

LEMMA OneAtATime ==
  ASSUME TypeOK, RestInv, ManagedInv, [Next]_vars,
         NEW y \in Stray' \ Stray, NEW z \in Stray' \ Stray
  PROVE  y = z
<1>1. y \in ZoneIds /\ z \in ZoneIds /\ zones'[y] # NoZone /\ zones'[z] # NoZone
  BY DEF Stray, Exists
<1>2. \A x \in {y, z} : Made(x) \/ (Exists(x) /\ x \in IdsInUse)
  BY <1>1, StrayOrigin
<1>3. CASE CreateCall
  <2>1. \A x \in IdsInUse : ~Exists(x)
    BY <1>3 DEF CreateCall, ManagedInv, Unmade
  <2>2. \A x \in {y, z} : zones[x] = NoZone /\ zones'[x] # NoZone
    BY <1>1, <1>2, <2>1 DEF Made
  <2>3. UNCHANGED zones \/ \E k \in ZoneIds, first \in FirstVPC : NewZone(k, first)
    BY <1>3, CreateCallCases
  <2> QED
    BY <1>1, <2>2, <2>3, NewZoneType
<1>4. CASE ~CreateCall
  BY <1>2, <1>4, OneHeld DEF Made
<1> QED
  BY <1>3, <1>4

LEMMA StrayStep ==
  ASSUME TypeOK, RestInv, ManagedInv, StrayInv, [Next]_vars
  PROVE  StrayInv'
<1>1. losses \in Nat /\ Cardinality(Stray) <= losses /\ (losses' = losses \/ losses' = losses + 1)
  BY LossesStep DEF StrayInv
<1>2. IsFiniteSet(Stray) /\ Cardinality(Stray) \in Nat
  BY FS_CardinalityType DEF StrayInv
<1>3. CASE losses' = losses
  <2>1. ASSUME NEW z \in Stray', z \notin Stray
        PROVE  FALSE
    <3>1. z \in ZoneIds /\ zones'[z] # NoZone /\ z \notin IdsInUse'
      BY <2>1 DEF Stray, Exists
    <3>2. ~Made(z)
      BY <1>1, <1>3, <3>1, MadeIsHeld
    <3>3. z \in IdsInUse /\ Exists(z)
      BY <2>1, <3>1, <3>2, StrayOrigin
    <3>4. CASE Crash
      BY <1>1, <1>3, <3>4 DEF Crash, Loss
    <3>5. CASE PatchStatus
      BY <1>1, <1>3, <3>1, <3>3, <3>5, RetainedByPatch
    <3>6. CASE CreateCall
      BY <3>3, <3>6 DEF CreateCall, ManagedInv, Unmade
    <3> QED
      BY <3>1, <3>3, <3>4, <3>5, <3>6, Retained
  <2>2. Stray' \subseteq Stray
    BY <2>1
  <2>3. Cardinality(Stray') <= Cardinality(Stray) /\ IsFiniteSet(Stray')
    BY <1>2, <2>2, FS_Subset
  <2>4. Cardinality(Stray') \in Nat
    BY <2>3, FS_CardinalityType
  <2> QED
    BY <1>1, <1>2, <1>3, <2>3, <2>4 DEF StrayInv
<1>4. CASE losses' = losses + 1
  <2>1. \E c : Stray' \subseteq Stray \cup {c}
    <3>1. CASE Stray' \subseteq Stray
      BY <3>1
    <3>2. CASE \E c \in Stray' : c \notin Stray
      BY <3>2, OneAtATime
    <3> QED
      BY <3>1, <3>2
  <2>2. PICK c : Stray' \subseteq Stray \cup {c}
    BY <2>1
  <2>3. /\ IsFiniteSet(Stray \cup {c})
        /\ Cardinality(Stray \cup {c}) \in {Cardinality(Stray), Cardinality(Stray) + 1}
    BY <1>2, FS_AddElement
  <2>4. IsFiniteSet(Stray') /\ Cardinality(Stray') <= Cardinality(Stray \cup {c})
    BY <2>2, <2>3, FS_Subset
  <2>5. Cardinality(Stray') \in Nat
    BY <2>4, FS_CardinalityType
  <2> QED
    BY <1>1, <1>2, <1>4, <2>3, <2>4, <2>5 DEF StrayInv
<1> QED
  BY <1>1, <1>3, <1>4

-----------------------------------------------------------------------------
(* The theorems *)

(* The parts of the invariant that hold whatever tags Route 53 refuses,    *)
(* and all of it that needs no counting.                                   *)
Core == TypeOK /\ TagsInv /\ VpcInv /\ SettledInv /\ RestInv
ManagedCore == Core /\ ManagedInv

LEMMA CoreStep == Core /\ [Next]_vars => Core'
  BY TypeStep, TagsStep, VpcStep, SettledStep, RestStep DEF Core

LEMMA CoreInit == Init => Core
  BY TypeInit, TagsInit, VpcInit, SettledInit, RestInit DEF Core

LEMMA CoreHolds == Spec => []Core
  BY CoreInit, CoreStep, PTL DEF Spec

LEMMA ManagedCoreHolds == Spec /\ []TagsAccepted => []ManagedCore
<1>1. Init => ManagedCore
  BY CoreInit, ManagedInit DEF ManagedCore
<1>2. ManagedCore /\ TagsAccepted /\ [Next]_vars => ManagedCore'
  BY CoreStep, ManagedStep DEF Core, ManagedCore
<1> QED
  BY <1>1, <1>2, PTL DEF Spec

(* As long as Route 53 accepts the tags of the zones it creates, the       *)
(* inductive invariant holds.                                              *)
THEOREM InvHolds == Spec /\ []TagsAccepted => []Inv
<1>1. Init => Inv
  BY CoreInit, ManagedInit, StrayInit DEF Inv, Core
<1>2. Inv /\ TagsAccepted /\ [Next]_vars => Inv'
  BY CoreStep, ManagedStep, StrayStep DEF Inv, Core
<1> QED
  BY <1>1, <1>2, PTL DEF Spec

(* A CR has no more zones than one and one for every crash, lost answer or *)
(* failed patch.                                                           *)
THEOREM OneZoneHolds == Spec /\ []TagsAccepted => []OneZone
<1>1. Inv => OneZone
  <2> SUFFICES ASSUME Inv PROVE OneZone
    OBVIOUS
  <2> DEFINE all == {z \in ZoneIds : zones[z] # NoZone}
  <2>1. PICK x : \A z \in IdsInUse : Exists(z) => z = x
    BY OneHeld DEF Inv
  <2>2. all \subseteq Stray \cup {x}
    <3>1. all \subseteq {z \in ZoneIds : Exists(z)}
      BY DEF Exists
    <3> QED
      BY <2>1, <3>1 DEF Stray
  <2>3. IsFiniteSet(Stray) /\ Cardinality(Stray) \in Nat
    BY FS_CardinalityType DEF Inv, StrayInv
  <2>4. /\ IsFiniteSet(Stray \cup {x})
        /\ Cardinality(Stray \cup {x}) \in {Cardinality(Stray), Cardinality(Stray) + 1}
    BY <2>3, FS_AddElement
  <2>5. IsFiniteSet(all) /\ Cardinality(all) <= Cardinality(Stray \cup {x})
    BY <2>2, <2>4, FS_Subset
  <2>6. Cardinality(all) \in Nat
    BY <2>5, FS_CardinalityType
  <2>7. Cardinality(Stray) <= losses /\ losses \in Nat
    BY DEF Inv, StrayInv
  <2>8. Cardinality(all) <= 1 + losses
    <3> HIDE DEF all
    <3> QED
      BY <2>3, <2>4, <2>5, <2>6, <2>7
  <2> QED
    BY <2>8 DEF OneZone
<1> QED
  BY <1>1, InvHolds, PTL

(* While the zone a CR names exists, the CR exists and has its finalizer.  *)
THEOREM ZoneIsManagedHolds == Spec /\ []TagsAccepted => []ZoneIsManaged
<1>1. ManagedCore => ZoneIsManaged
  BY DEF ManagedCore, ManagedInv, IdsInUse, ZoneIsManaged
<1> QED
  BY <1>1, ManagedCoreHolds, PTL

(* No call of syncTags names a key of AWS's: what AWS put on the zone is   *)
(* wanted as it was read, whenever it appeared.                            *)
THEOREM SystemTagsUntouchedHolds == Spec => []SystemTagsUntouched
<1>1. Core => SystemTagsUntouched
  <2> SUFFICES ASSUME Core, pc \in {"create.tags", "sync.untag", "sync.tag"}
               PROVE  (removedKeys \cup KeysOf(added)) \cap AwsKeys = {}
    BY DEF SystemTagsUntouched
  <2>1. AwsPart(des.tags) = AwsPart(obs.tags)
    <3>1. AwsPart({}) = {}
      BY DEF AwsPart
    <3> QED
      BY <3>1 DEF Core, TagsInv, Unread, Mirrored
  <2> QED
    BY <2>1 DEF removedKeys, added, toAdd, toDeleteTagKeys, KeysOf, AwsPart
<1> QED
  BY <1>1, CoreHolds, PTL

(* A tag that is on the zone and in the spec stays on it through every     *)
(* step of the worker.                                                     *)
THEOREM KeptTagsStayHolds == Spec => KeptTagsStay
<1>1. ASSUME Core, [Next]_vars, Worker, NEW z \in ZoneIds, des.id = z, Exists(z),
             zones'[z] # NoZone
      PROVE  zones[z].tags \cap des.tags \subseteq zones'[z].tags
  <2>1. Kept(z) \/ Retagged(z)
    BY <1>1, Fate DEF Core, Made, Exists
  <2>2. ~Meddler
    <3>1. meddling' = meddling /\ meddling \in Nat
      BY <1>1, MeddlingStep DEF Core, VpcInv
    <3> QED
      BY <3>1 DEF Meddler
  <2>3. OnePerKey(zones[z].tags) /\ OnePerKey(des.tags)
    BY <1>1 DEF Core, TagsInv
  <2>4. ASSUME SyncUntag, NEW t \in zones[z].tags \cap des.tags, NEW u \in obs.tags \ des.tags
        PROVE  t[1] # u[1]
    <3>1. /\ AwsPart(des.tags) = AwsPart(obs.tags)
          /\ zones[z].tags \ AwsPart(zones[z].tags) = obs.tags \ AwsPart(obs.tags)
      BY <1>1, <2>4 DEF Core, TagsInv, SyncUntag, Mirrored
    <3>2. u \notin AwsPart(obs.tags)
      BY <3>1 DEF AwsPart
    <3>3. u \in zones[z].tags
      BY <3>1, <3>2
    <3> QED
      BY <2>3, <3>3 DEF OnePerKey
  <2>5. ASSUME NEW t \in des.tags, NEW u \in added, t[1] = u[1]
        PROVE  t \in added
    BY <2>3, <2>5 DEF added, toAdd, OnePerKey
  <2>6. CASE Kept(z)
    BY <2>6 DEF Kept
  <2>7. CASE CreateTags /\ zones'[z].tags = des.tags
    BY <2>7
  <2>8. CASE SyncUntag /\ zones'[z].tags = Untagged(zones[z].tags, removedKeys)
    BY <2>4, <2>8 DEF Untagged, WithoutKeys, removedKeys, toDeleteTagKeys, KeysOf
  <2>9. CASE SyncTag /\ zones'[z].tags = Tagged(zones[z].tags, added)
    BY <2>5, <2>9 DEF Tagged, WithoutKeys, KeysOf
  <2> QED
    BY <2>1, <2>2, <2>6, <2>7, <2>8, <2>9 DEF Retagged
<1>2. Core /\ [Next]_vars =>
        [\A z \in ZoneIds : Worker /\ des.id = z /\ Exists(z) /\ zones'[z] # NoZone
           => zones[z].tags \cap des.tags \subseteq zones'[z].tags]_vars
  BY <1>1
<1> QED
  BY <1>2, CoreHolds, PTL DEF Spec, KeptTagsStay

(* As long as Route 53 accepts the tags of the zones it creates, an error  *)
(* after the create reaches the reconciler as a post-create one, which     *)
(* keeps the finalizer.  PostCreateMarked fails for nothing else.          *)
THEOREM PostCreateMarkedHolds == Spec /\ []TagsAccepted => PostCreateMarked
<1>1. Core /\ TagsAccepted => [CreateTags /\ pc' # "find" => ret'.postCreate]_vars
  BY CreateTagsCases DEF Core
<1> QED
  BY <1>1, CoreHolds, PTL DEF PostCreateMarked

-----------------------------------------------------------------------------
(* A reconciliation ends *)

LEMMA Counts ==
  ASSUME NEW S \in SUBSET VPCs
  PROVE  /\ Cardinality(VPCs) \in Nat /\ Cardinality(S) \in Nat
         /\ Cardinality(S) <= Cardinality(VPCs)
         /\ \A v \in S : Cardinality(S \ {v}) < Cardinality(S)
<1>1. IsFiniteSet(S) /\ Cardinality(S) <= Cardinality(VPCs)
  BY FS_Subset
<1>2. Cardinality(VPCs) \in Nat /\ Cardinality(S) \in Nat
  BY <1>1, FS_CardinalityType
<1>3. ASSUME NEW v \in S PROVE Cardinality(S \ {v}) < Cardinality(S)
  <2>1. Cardinality(S \ {v}) = Cardinality(S) - 1
    BY <1>1, FS_RemoveElement
  <2> QED
    BY <1>2, <2>1
<1> QED
  BY <1>1, <1>2, <1>3

(* A reconciliation makes at most fifteen steps and two for each VPC.      *)
LEMMA RoundIsShort == ASSUME TypeOK PROVE CallsLeft \in 0..(15 + 2 * Cardinality(VPCs))
<1>1. todo \in SUBSET VPCs /\ pc \in Labels /\ mode \in {"sync", "post", "delete"}
  BY DEF TypeOK
<1>2. /\ Cardinality(VPCs) \in Nat /\ Cardinality(todo) \in Nat
      /\ Cardinality(todo) <= Cardinality(VPCs)
  BY <1>1, Counts
<1> DEFINE n == Cardinality(VPCs)
           k == Cardinality(todo)
<1>3. /\ pc = "sync.disassociate" => CallsLeft = 4 + k
      /\ pc = "sync.associate" => CallsLeft = 5 + n + k
  BY DEF CallsLeft
<1>4. CASE pc \in {"sync.disassociate", "sync.associate"}
  <2> HIDE DEF n, k
  <2>1. n \in Nat /\ k \in Nat /\ k <= n
    BY <1>2 DEF n, k
  <2>2. CASE pc = "sync.disassociate"
    BY <1>3, <2>1, <2>2 DEF n
  <2>3. CASE pc = "sync.associate"
    BY <1>3, <2>1, <2>3 DEF n
  <2> QED
    BY <1>4, <2>2, <2>3
<1>5. CASE pc \notin {"sync.disassociate", "sync.associate"}
  <2>1. \/ CallsLeft \in {0, 1, 2, 3}
        \/ \E i \in 6..15 : CallsLeft = i + 2 * n
    <3>1. CASE pc \in {"idle", "patch", "create.release", "delete.finalizer", "delete.call"}
      BY <3>1 DEF CallsLeft
    <3>2. CASE pc \in {"sync.tag", "sync.untag", "decide", "create.tags", "create.call",
                       "create.finalizer"}
      BY <3>2 DEF CallsLeft
    <3>3. CASE pc \in {"find", "find.tags"}
      BY <1>1, <3>3 DEF CallsLeft
    <3> QED
      BY <1>1, <1>5, <3>1, <3>2, <3>3 DEF Labels
  <2> QED
    BY <1>2, <2>1
<1> QED
  BY <1>4, <1>5

(* The reads: what is not found is created only by a reconciliation that   *)
(* has not created yet.                                                    *)
LEMMA RoundRead ==
  ASSUME TypeOK, Find \/ FindTags \/ Decide
  PROVE  CallsLeft' < CallsLeft
<1> DEFINE n == Cardinality(VPCs)
<1>1. n \in Nat
  BY Counts
<1>2. FindNotFound => \/ pc' = "create.finalizer" /\ mode = "sync"
                      \/ pc' \in {"delete.finalizer", "patch"}
  BY DEF FindNotFound, Goto, Return, TypeOK
<1>3. CASE Find
  <2>1. \/ pc' \in {"find.tags", "delete.finalizer", "patch"}
        \/ pc' = "create.finalizer" /\ mode = "sync"
    BY <1>2, <1>3 DEF Find, Goto, Return
  <2>2. pc = "find" /\ mode' = mode
    BY <1>3 DEF Find
  <2> QED
    BY <1>1, <2>1, <2>2 DEF CallsLeft
<1>4. CASE FindTags
  <2>1. \/ pc' \in {"decide", "delete.finalizer", "patch"}
        \/ pc' = "create.finalizer" /\ mode = "sync"
    BY <1>2, <1>4 DEF FindTags, Goto, Return
  <2>2. pc = "find.tags" /\ mode' = mode
    BY <1>4 DEF FindTags
  <2> QED
    BY <1>1, <2>1, <2>2 DEF CallsLeft
<1>5. CASE Decide
  <2>1. pc = "decide"
    BY <1>5 DEF Decide
  <2>2. \/ pc' \in {"sync.untag", "delete.call", "patch"}
        \/ pc' = "sync.associate" /\ todo' \in SUBSET VPCs
    <3>1. missing \in SUBSET VPCs
      BY DEF missing, TypeOK, Desired, VPCWishes
    <3> QED
      BY <1>5, <3>1 DEF Decide, Goto, Return
  <2>3. CASE pc' = "sync.associate" /\ todo' \in SUBSET VPCs
    <3>1. Cardinality(todo') \in Nat /\ Cardinality(todo') <= n
      BY <2>3, Counts
    <3> QED
      BY <1>1, <2>1, <2>3, <3>1 DEF CallsLeft
  <2> QED
    BY <1>1, <2>1, <2>2, <2>3 DEF CallsLeft
<1> QED
  BY <1>3, <1>4, <1>5

(* The two loops: each visits a VPC once. *)
LEMMA RoundLoops ==
  ASSUME TypeOK, SyncAssociate \/ SyncDisassociate
  PROVE  CallsLeft' < CallsLeft
<1> DEFINE n == Cardinality(VPCs)
<1>1. /\ n \in Nat /\ Cardinality(todo) \in Nat
      /\ \A v \in todo : /\ Cardinality(todo \ {v}) \in Nat
                         /\ Cardinality(todo \ {v}) < Cardinality(todo)
  <2>1. \A S \in SUBSET VPCs : Cardinality(S) \in Nat
    BY Counts
  <2>2. todo \in SUBSET VPCs /\ \A v \in todo : todo \ {v} \in SUBSET VPCs
    BY DEF TypeOK
  <2>3. \A v \in todo : Cardinality(todo \ {v}) < Cardinality(todo)
    BY <2>2, Counts
  <2> QED
    BY <2>1, <2>2, <2>3
<1>2. CASE pc' = "patch"
  BY <1>1, <1>2 DEF CallsLeft, SyncAssociate, SyncDisassociate
<1>3. CASE pc' = pc /\ \E v \in todo : todo' = todo \ {v}
  BY <1>1, <1>3 DEF CallsLeft, SyncAssociate, SyncDisassociate
<1>4. CASE SyncAssociate
  <2>1. CASE todo' = extra /\ pc' = "sync.disassociate"
    <3>1. extra \in SUBSET VPCs
      BY DEF extra, TypeOK, Observed
    <3>2. Cardinality(extra) \in Nat /\ Cardinality(extra) <= n
      BY <3>1, Counts
    <3>3. Cardinality(todo') = Cardinality(extra)
      BY <2>1
    <3> HIDE DEF n
    <3> QED
      BY <1>1, <1>4, <2>1, <3>2, <3>3 DEF CallsLeft, SyncAssociate, n
  <2> QED
    BY <1>2, <1>3, <1>4, <2>1 DEF SyncAssociate, Visit, Goto, Fail, Return
<1>5. CASE SyncDisassociate
  <2>1. CASE pc' = "delete.call"
    BY <1>1, <1>5, <2>1 DEF CallsLeft, SyncDisassociate
  <2> QED
    BY <1>2, <1>3, <1>5, <2>1 DEF SyncDisassociate, Visit, Goto, Fail, Return
<1> QED
  BY <1>4, <1>5

LEMMA RoundRest ==
  ASSUME TypeOK,
         \/ AddFinalizer \/ CreateCall \/ CreateTags \/ ReleaseFinalizer
         \/ SyncUntag \/ SyncTag \/ DeleteCall \/ RemoveFinalizer \/ PatchStatus
  PROVE  CallsLeft' < CallsLeft
<1> DEFINE n == Cardinality(VPCs)
<1>1. n \in Nat
  BY Counts
<1>2. CASE AddFinalizer
  <2>1. pc = "create.finalizer" /\ pc' \in {"create.call", "patch"}
    BY <1>2 DEF AddFinalizer, Goto, Return
  <2> QED
    BY <1>1, <2>1 DEF CallsLeft
<1>3. CASE CreateCall
  <2>1. pc = "create.call" /\ pc' \in {"create.tags", "create.release", "patch"}
    BY <1>3 DEF CreateCall, CreateFailed, Goto
  <2> QED
    BY <1>1, <2>1 DEF CallsLeft
<1>4. CASE CreateTags
  <2>1. \/ pc' \in {"create.release", "patch"}
        \/ pc' = "find" /\ mode' = "post"
    BY <1>4 DEF CreateTags, PostCreateFailed, CreateFailed, Goto
  <2> QED
    BY <1>1, <1>4, <2>1 DEF CallsLeft, CreateTags
<1>5. CASE ReleaseFinalizer
  BY <1>5 DEF CallsLeft, ReleaseFinalizer, Goto
<1>6. CASE SyncUntag
  <2>1. pc = "sync.untag" /\ pc' \in {"sync.tag", "patch"}
    BY <1>6 DEF SyncUntag, Fail, Goto, Return
  <2> QED
    BY <1>1, <2>1 DEF CallsLeft
<1>7. CASE SyncTag
  <2>1. pc = "sync.tag" /\ (pc' = "patch" \/ (pc' = "sync.associate" /\ todo' \in SUBSET VPCs))
    BY <1>7 DEF SyncTag, Fail, Goto, Return, missing, TypeOK, Desired, VPCWishes
  <2>2. CASE pc' = "sync.associate" /\ todo' \in SUBSET VPCs
    <3>1. Cardinality(todo') \in Nat /\ Cardinality(todo') <= n
      BY <2>2, Counts
    <3> QED
      BY <1>1, <2>1, <2>2, <3>1 DEF CallsLeft
  <2> QED
    BY <1>1, <2>1, <2>2 DEF CallsLeft
<1>8. CASE DeleteCall
  <2>1. pc = "delete.call" /\ pc' \in {"delete.finalizer", "patch"}
    BY <1>8 DEF DeleteCall, Fail, Goto, Return
  <2> QED
    BY <2>1 DEF CallsLeft
<1>9. CASE RemoveFinalizer \/ PatchStatus
  <2>1. \/ pc = "patch" /\ pc' = "idle"
        \/ pc = "delete.finalizer" /\ pc' \in {"idle", "patch"}
    BY <1>9 DEF RemoveFinalizer, PatchStatus, Idle, Return
  <2> QED
    BY <2>1 DEF CallsLeft
<1> QED
  BY <1>2, <1>3, <1>4, <1>5, <1>6, <1>7, <1>8, <1>9

(* Every step of the worker brings the reconciliation nearer to its end,   *)
(* the loops over VPCs included, whatever others do to the zone.           *)
THEOREM RoundEndsHolds == Spec => RoundEnds
<1>1. TypeOK /\ [Next]_vars => [Worker /\ pc # "idle" => CallsLeft' < CallsLeft]_vars
  <2> SUFFICES ASSUME TypeOK, Worker, pc # "idle" PROVE CallsLeft' < CallsLeft
    OBVIOUS
  <2> QED
    BY RoundRead, RoundLoops, RoundRest DEF Worker, Reconcile
<1> QED
  BY <1>1, TypeCorrect, PTL DEF Spec, RoundEnds

-----------------------------------------------------------------------------
(* What an update leaves *)

(* The condition a synchronisation leaves says how it ended. *)
LEMMA ConditionTells ==
  ASSUME NEW err \in {"OtherAPIError", "NoSuchHostedZone"}
  PROVE  ConditionAfter(err) \notin {"Synced", "Terminal"}
  BY DEF ConditionAfter, ConditionOf, TerminalCodes, ErrorCode, BatchErrors

(* Moving the zone from one set of VPCs to another never meets the refusal *)
(* to take the last one away, unless none of the wanted ones can be had.   *)
THEOREM NeverDetachedHolds == Spec => NeverDetached
<1>1. Core => [SyncDisassociate /\ obs.fresh /\ ret'.cond = "Terminal"
                 => des.wish.ids \subseteq Taken]_vars
  <2> SUFFICES ASSUME Core, SyncDisassociate, obs.fresh, ret'.cond = "Terminal"
               PROVE  des.wish.ids \subseteq Taken
    OBVIOUS
  <2>1. /\ todo \cap des.wish.ids = {} /\ des.wish.ids \ Taken \subseteq zones[des.id].vpcs
        /\ ret = NoResult
    BY DEF SyncDisassociate, Core, VpcInv, RestInv, Visit
  <2>2. PICK v \in todo : Fail(disassociateError(DisassociateAnswer(des.id, v)))
    <3>1. ~Fail("OtherAPIError")
      BY ConditionTells DEF Fail, Return, Result
    <3>2. ~Return(des.id, "none")
      BY DEF Return, Result, ConditionAfter
    <3>3. ret' # ret
      BY <2>1 DEF NoResult
    <3> QED
      BY <3>1, <3>2, <3>3 DEF SyncDisassociate, Goto, Visit
  <2>3. zones[des.id].vpcs = {v}
    <3>1. ConditionAfter(disassociateError(DisassociateAnswer(des.id, v))) = "Terminal"
      BY <2>2 DEF Fail, Return, Result
    <3>2. \A err \in {"none", "VPCAssociationNotFound"} :
            ConditionAfter(disassociateError(err)) # "Terminal"
      BY DEF disassociateError, ConditionAfter, ConditionOf, TerminalCodes, ErrorCode, BatchErrors
    <3>3. disassociateError("NoSuchHostedZone") = "NoSuchHostedZone"
      BY DEF disassociateError
    <3> QED
      BY <3>1, <3>2, <3>3, ConditionTells DEF DisassociateAnswer
  <2> QED
    BY <2>1, <2>2, <2>3
<1> QED
  BY <1>1, CoreHolds, PTL DEF NeverDetached

(* Synced is the truth: the zone has the tags and the VPCs the worker was  *)
(* asked for, but for the VPCs that another zone holds, as long as nobody  *)
(* else works on it; whatever fails, and whatever was found.               *)
THEOREM SyncedReflectsHolds == Spec => []SyncedReflects
<1>1. Core => SyncedReflects
  BY DEF Core, SettledInv
<1> QED
  BY <1>1, CoreHolds, PTL

-----------------------------------------------------------------------------
(* HostedZone implements ManagedResource *)

(* What the abstract specification sees of a CR and its zone. *)
LEMMA Invisible ==
  ASSUME cr'.phase = cr.phase, cr'.fin = cr.fin, Exists(cr.id)' = Exists(cr.id)
  PROVE  UNCHANGED MR!vars
  BY DEF MR!vars

(* The steps that touch the finalizer touch nothing else.                  *)
LEMMA FinalizerMaps ==
  ASSUME ManagedCore, AddFinalizer \/ ReleaseFinalizer \/ RemoveFinalizer
  PROVE  MR!Controller \/ UNCHANGED MR!vars
<1>1. UNCHANGED zones
  BY DEF AddFinalizer, ReleaseFinalizer, RemoveFinalizer
<1>2. CASE UNCHANGED cr
  BY <1>1, <1>2, Invisible DEF Exists
<1>3. CASE AddFinalizer /\ cr.phase # "gone" /\ cr' = [cr EXCEPT !.fin = TRUE]
  <2>1. cr'.fin = TRUE /\ cr'.phase = cr.phase /\ cr'.id = cr.id
    BY <1>3 DEF ManagedCore, Core, TypeOK, CRs
  <2> QED
    BY <1>1, <1>3, <2>1 DEF MR!Manage, MR!Controller, Exists
<1>4. CASE /\ ReleaseFinalizer \/ RemoveFinalizer
           /\ cr' = [cr EXCEPT !.fin = FALSE, !.phase = IF @ = "deleting" THEN "gone" ELSE @]
  <2>1. /\ cr'.fin = FALSE /\ cr'.id = cr.id
        /\ cr'.phase = (IF cr.phase = "deleting" THEN "gone" ELSE cr.phase)
    BY <1>4 DEF ManagedCore, Core, TypeOK, CRs
  <2>2. ~Exists(cr.id)
    BY <1>4 DEF ManagedCore, ManagedInv, Unmade, IdsInUse, ReleaseFinalizer, RemoveFinalizer
  <2> QED
    BY <1>1, <2>1, <2>2 DEF MR!Release, MR!Controller, Exists
<1> QED
  BY <1>2, <1>3, <1>4 DEF AddFinalizer, ReleaseFinalizer, RemoveFinalizer

(* A patch hands the zone to the CR, which then has its finalizer.         *)
LEMMA PatchMaps ==
  ASSUME ManagedCore, PatchStatus
  PROVE  MR!Make \/ UNCHANGED MR!vars
<1>1. cr'.phase = cr.phase /\ cr'.fin = cr.fin /\ cr'.id \in {cr.id, ret.id}
  BY DEF PatchStatus, ManagedCore, Core, TypeOK, CRs
<1>2. UNCHANGED zones /\ pc = "patch"
  BY DEF PatchStatus
<1>3. Exists(cr.id) => ret.id = cr.id
  BY <1>2 DEF ManagedCore, ManagedInv, IdsInUse
<1>4. Exists(ret.id) => cr.fin /\ cr.phase # "gone"
  BY DEF ManagedCore, ManagedInv, IdsInUse
<1>5. CASE Exists(cr.id) \/ ~Exists(cr'.id)
  BY <1>1, <1>2, <1>3, <1>5, Invisible DEF Exists
<1>6. CASE ~Exists(cr.id) /\ Exists(cr'.id)
  BY <1>1, <1>2, <1>4, <1>6 DEF MR!Make, Exists
<1> QED
  BY <1>5, <1>6

LEMMA DeleteMaps ==
  ASSUME ManagedCore, DeleteCall
  PROVE  MR!Remove \/ UNCHANGED MR!vars
<1>1. UNCHANGED cr /\ cr.phase = "deleting"
  BY DEF DeleteCall, k8s, ManagedCore, ManagedInv, Deleting
<1>2. ~Exists(cr.id) => ~Exists(cr.id)'
  <2>1. cr.id \in ZoneIds \cup {NoId}
    BY HeldTypes DEF ManagedCore, Core, MaybeId
  <2>2. \A z \in ZoneIds : zones'[z] \in {zones[z], NoZone}
    BY DEF DeleteCall, ManagedCore, Core, TypeOK
  <2> QED
    BY <1>1, <2>1, <2>2 DEF Exists
<1>3. CASE Exists(cr.id)' = Exists(cr.id)
  BY <1>1, <1>3, Invisible
<1>4. CASE Exists(cr.id)' = FALSE
  BY <1>1, <1>4 DEF MR!Remove
<1> QED
  BY <1>2, <1>3, <1>4 DEF Exists

(* Only DeleteHostedZone takes a zone away. *)
LEMMA CallsKeep ==
  ASSUME TypeOK, Worker, ~DeleteCall, NEW z \in ZoneIds, zones[z] # NoZone
  PROVE  zones'[z] # NoZone
<1> DEFINE id == des.id
<1>1. CASE UNCHANGED zones
  BY <1>1
<1>2. CASE CreateCall
  <2>1. UNCHANGED zones \/ \E y \in ZoneIds, first \in FirstVPC : NewZone(y, first)
    BY <1>2, CreateCallCases
  <2> QED
    BY <2>1, NewZoneType DEF NewZone
<1>3. CASE Exists(id) /\ \E tags \in SUBSET AllTags : zones' = [zones EXCEPT ![id].tags = tags]
  <2>1. PICK tags \in SUBSET AllTags : zones' = [zones EXCEPT ![id].tags = tags]
    BY <1>3
  <2>2. id \in ZoneIds /\ zones[id] \in Zones
    BY <1>3, HeldTypes
  <2>3. [zones[id] EXCEPT !.tags = tags] \in Zones
    BY <2>2 DEF Zones
  <2> QED
    BY <2>1, <2>2, <2>3 DEF TypeOK
<1>4. CASE CreateTags \/ SyncUntag \/ SyncTag
  <2>1. /\ added \in SUBSET AllTags /\ des.tags \in SUBSET AllTags
        /\ Exists(id) => zones[id].tags \in SUBSET AllTags
    BY HeldTypes, TagTypes DEF Zones, added
  <2>2. Exists(id) => /\ Untagged(zones[id].tags, removedKeys) \in SUBSET AllTags
                      /\ Tagged(zones[id].tags, added) \in SUBSET AllTags
    BY <2>1, TagTypes
  <2>3. CASE CreateTags
    BY <1>1, <1>3, <2>1, <2>3 DEF CreateTags, TagsAnswer
  <2>4. CASE SyncUntag
    BY <1>1, <1>3, <2>2, <2>4 DEF SyncUntag, TagsAnswer
  <2>5. CASE SyncTag
    BY <1>1, <1>3, <2>2, <2>5 DEF SyncTag, TagsAnswer
  <2> QED
    BY <1>4, <2>3, <2>4, <2>5
<1>5. ASSUME NEW v \in VPCs, Exists(id), Associate(id, v) \/ Disassociate(id, v)
      PROVE  zones'[z] # NoZone
  <2>1. zones'[id] # NoZone
    BY <1>5, VpcCall
  <2>2. z # id => zones'[z] = zones[z]
    BY <1>5 DEF Associate, Disassociate, TypeOK
  <2> QED
    BY <2>1, <2>2
<1>6. CASE SyncAssociate \/ SyncDisassociate
  <2>1. \/ UNCHANGED zones
        \/ \E v \in VPCs : Exists(id) /\ (Associate(id, v) \/ Disassociate(id, v))
    <3>1. todo \in SUBSET VPCs
      BY DEF TypeOK
    <3>2. CASE SyncAssociate
      BY <3>1, <3>2 DEF SyncAssociate, AssociateAnswer, Visit
    <3>3. CASE SyncDisassociate
      BY <3>1, <3>3 DEF SyncDisassociate, DisassociateAnswer, Visit
    <3> QED
      BY <1>6, <3>2, <3>3
  <2> QED
    BY <1>1, <1>5, <2>1
<1>7. CASE \/ Reconcile \/ Find \/ FindTags \/ Decide \/ AddFinalizer \/ ReleaseFinalizer
           \/ RemoveFinalizer \/ PatchStatus
  BY <1>1, <1>7 DEF Reconcile, Find, FindTags, Decide, AddFinalizer, ReleaseFinalizer,
     RemoveFinalizer, PatchStatus
<1> QED
  BY <1>2, <1>4, <1>6, <1>7 DEF Worker

LEMMA WorkerMaps ==
  ASSUME ManagedCore, Worker
  PROVE  MR!Controller \/ UNCHANGED MR!vars
<1>1. CASE AddFinalizer \/ ReleaseFinalizer \/ RemoveFinalizer
  BY <1>1, FinalizerMaps
<1>2. CASE PatchStatus
  BY <1>2, PatchMaps DEF MR!Controller
<1>3. CASE DeleteCall
  BY <1>3, DeleteMaps DEF MR!Controller
<1>4. CASE /\ ~DeleteCall
           /\ \/ Reconcile \/ Find \/ FindTags \/ Decide \/ CreateCall \/ CreateTags
              \/ SyncUntag \/ SyncTag \/ SyncAssociate \/ SyncDisassociate
  <2>1. UNCHANGED cr
    BY <1>4 DEF Reconcile, Find, FindTags, Decide, CreateCall, CreateTags, SyncUntag, SyncTag,
       SyncAssociate, SyncDisassociate, k8s, Visit
  <2>2. Exists(cr.id)' = Exists(cr.id)
    <3> DEFINE z == cr.id
    <3>1. z \in ZoneIds \cup {NoId} /\ [Next]_vars
      BY <1>4, HeldTypes DEF ManagedCore, Core, MaybeId, Next, Worker
    <3>2. z \in ZoneIds /\ zones'[z] # NoZone => zones[z] # NoZone
      BY <3>1, Fate DEF ManagedCore, Core, Kept, Retagged, Made, IdsInUse
    <3>3. z \in ZoneIds /\ zones[z] # NoZone => zones'[z] # NoZone
      BY <1>4, CallsKeep DEF ManagedCore, Core
    <3> QED
      BY <2>1, <3>1, <3>2, <3>3 DEF Exists
  <2> QED
    BY <2>1, <2>2, Invisible
<1> QED
  BY <1>1, <1>2, <1>3, <1>4 DEF Worker

(* Users and others submit, withdraw and lose; nothing else shows.         *)
LEMMA EnvironmentMaps ==
  ASSUME ManagedCore, User \/ Meddler \/ Crash
  PROVE  MR!World \/ UNCHANGED MR!vars
<1>1. CASE User
  <2>1. UNCHANGED zones
    BY <1>1 DEF User
  <2>2. CASE cr.phase = "gone" /\ cr'.phase = "live" /\ cr'.fin = FALSE /\ cr'.id = NoId
    <3>1. ~Exists(cr.id)
      BY <2>2 DEF ManagedCore, ManagedInv, IdsInUse
    <3>2. Exists(cr.id)' = Exists(cr.id)
      BY <2>2, <3>1 DEF Exists
    <3> QED
      BY <2>2, <3>1, <3>2 DEF MR!Submit, MR!World
  <2>3. CASE cr'.phase = cr.phase /\ cr'.fin = cr.fin /\ cr'.id = cr.id
    BY <2>1, <2>3, Invisible DEF Exists
  <2>4. CASE /\ cr.phase = "live" /\ cr'.phase = (IF cr.fin THEN "deleting" ELSE "gone")
             /\ cr'.fin = cr.fin /\ cr'.id = cr.id
    BY <2>1, <2>4 DEF MR!Withdraw, MR!World, Exists
  <2> QED
    BY <1>1, <2>2, <2>3, <2>4, UserSteps DEF ManagedCore, Core
<1>2. CASE Meddler \/ Crash
  <2>1. UNCHANGED cr
    BY <1>2 DEF Meddler, Crash
  <2>2. ~Exists(cr.id) => ~Exists(cr.id)'
    <3> DEFINE z == cr.id
    <3>1. z \in ZoneIds \cup {NoId} /\ [Next]_vars /\ ~Made(z)
      BY <1>2, HeldTypes DEF ManagedCore, Core, MaybeId, Next, Made, IdsInUse
    <3>2. z \in ZoneIds /\ zones'[z] # NoZone => Kept(z) \/ Retagged(z)
      BY <3>1, Fate DEF ManagedCore, Core
    <3> QED
      BY <2>1, <3>1, <3>2 DEF Exists, Kept, Retagged
  <2>3. CASE Exists(cr.id)' = Exists(cr.id)
    BY <2>1, <2>3, Invisible
  <2>4. CASE Exists(cr.id) /\ Exists(cr.id)' = FALSE
    BY <2>1, <2>4 DEF MR!Lose, MR!World
  <2> QED
    BY <2>2, <2>3, <2>4 DEF Exists
<1> QED
  BY <1>1, <1>2

(* As long as Route 53 accepts the tags of new zones, a HostedZone CR      *)
(* implements ManagedResource: it has its finalizer as long as it names a  *)
(* zone, which is removed only because the CR is withdrawn; and every step *)
(* of the worker is the controller's.                                      *)
THEOREM ManagedHolds == Spec /\ []TagsAccepted => Managed
<1>1. Init => MR!Init
  BY DEF Init, MR!Init, Exists
<1>2. ManagedCore /\ [Next]_vars => [MR!Next]_(MR!vars)
  <2> SUFFICES ASSUME ManagedCore, [Next]_vars PROVE MR!Next \/ UNCHANGED MR!vars
    OBVIOUS
  <2>1. CASE UNCHANGED vars
    BY <2>1, Invisible DEF vars, Exists
  <2>2. CASE Worker
    BY <2>2, WorkerMaps DEF MR!Next
  <2>3. CASE User \/ Meddler \/ Crash
    BY <2>3, EnvironmentMaps DEF MR!Next
  <2> QED
    BY <2>1, <2>2, <2>3 DEF Next
<1>3. ManagedCore /\ [Next]_vars => [Worker => [MR!Controller]_(MR!vars)]_vars
  BY WorkerMaps
<1> QED
  BY <1>1, <1>2, <1>3, ManagedCoreHolds, PTL DEF Spec, Managed, MR!Spec

(* With it the promises of ManagedResource are its own: a hosted zone that *)
(* exists has a CR with the finalizer, and a CR is never gone before it.   *)
P == INSTANCE ManagedResourceProofs WITH phase <- cr.phase, fin <- cr.fin, exists <- Exists(cr.id)

LEMMA SamePromise == MR!Spec => P!Spec
<1>1. MR!Init => P!Init
  BY DEF MR!Init, P!Init
<1>2. [MR!Next]_(MR!vars) => [P!Next]_(P!vars)
  BY DEF MR!vars, MR!Next, MR!World, MR!Submit, MR!Withdraw, MR!Lose,
         MR!Controller, MR!Manage, MR!Adopt, MR!Make, MR!Remove, MR!Release,
         P!vars, P!Next, P!World, P!Submit, P!Withdraw, P!Lose,
         P!Controller, P!Manage, P!Adopt, P!Make, P!Remove, P!Release
<1> QED
  BY <1>1, <1>2, PTL DEF MR!Spec, P!Spec

(* A hosted zone that exists has a custom resource, with the finalizer on  *)
(* it; and the custom resource goes only after it.                         *)
THEOREM NeverLeaksHolds == Spec /\ []TagsAccepted => []MR!NoLeak /\ MR!LastToGo
<1>1. P!NoLeak => MR!NoLeak
  BY DEF P!NoLeak, MR!NoLeak
<1>2. P!LastToGo => MR!LastToGo
  <2>1. [cr.phase # "gone" /\ (cr.phase)' = "gone" => ~(Exists(cr.id))]_(P!vars)
          => [cr.phase # "gone" /\ (cr.phase)' = "gone" => ~(Exists(cr.id))]_(MR!vars)
    BY DEF P!vars, MR!vars
  <2> QED
    BY <2>1, PTL DEF P!LastToGo, MR!LastToGo
<1> QED
  BY <1>1, <1>2, ManagedHolds, SamePromise, P!NoLeakHolds, P!LastToGoHolds, PTL DEF Managed
=============================================================================
