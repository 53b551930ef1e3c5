------------------------- MODULE HealthCheckProofs -------------------------
(***************************************************************************)
(* Proofs about HealthCheck, for every set of configurations, tags and     *)
(* health check IDs and for any number of faults, edits and meddlers.      *)
(* What needs that nobody else works on the health check during a          *)
(* reconciliation (obs.fresh), or that Route 53 accepts the tags of a new  *)
(* one (TagsAccepted), says so in its statement.                           *)
(***************************************************************************)
EXTENDS HealthCheck, FiniteSetTheorems, TLAPS

USE RangeAssumption, TagsAssumption, IdsAssumption DEF AllSpecs

-----------------------------------------------------------------------------
(* Numbers and tags *)

(* The conversion is harmless where the check before it lets it happen.    *)
LEMMA Int32IsExact ==
  ASSUME NEW x \in Int, fitsInt32(x)
  PROVE  int32(x) = x /\ x \in MinInt32..MaxInt32
<1> DEFINE n == MaxInt32 - MinInt32 + 1
           k == x - MinInt32
<1>1. k \in Nat /\ n \in Nat /\ k < n /\ MinInt32 <= x /\ x <= MaxInt32
  BY DEF fitsInt32
<1>2. k % n = k
  <2> HIDE DEF k, n
  <2> QED
    BY <1>1
<1> QED
  BY <1>1, <1>2 DEF int32

(* Nothing but the user's, the controller's and AWS's tags is ever seen.   *)
LEMMA TagTypes ==
  ASSUME NEW s \in SUBSET AllTags, NEW t \in SUBSET AllTags, NEW keys
  PROVE  /\ EnsureTags(s, DefaultTags) \in SUBSET AllTags
         /\ mirrorAWSTags(s, t) \in SUBSET AllTags
         /\ Tagged(s, t) \in SUBSET AllTags
         /\ Tagged(s, SystemTags) \in SUBSET AllTags
         /\ Untagged(s, keys) \in SUBSET AllTags
         /\ toAdd(s, t) \in SUBSET AllTags
  BY DEF EnsureTags, mirrorAWSTags, Tagged, Untagged, toAdd, WithoutKeys, AllTags

(* The tags to be sent with a create are the user's and the controller's.  *)
LEMMA EnsuredKeys ==
  ASSUME NEW tags, KeysOf(tags) \cap AwsKeys = {}
  PROVE  KeysOf(EnsureTags(tags, DefaultTags)) \cap AwsKeys = {}
  BY DEF KeysOf, EnsureTags, WithoutKeys

-----------------------------------------------------------------------------
(* Type correctness *)

LEMMA ResultType ==
  ASSUME NEW status \in Statuses, NEW err, NEW marked \in BOOLEAN
  PROVE  Result(status, err, marked) \in Results
<1>1. ConditionAfter(err) \in Conditions
  BY DEF ConditionAfter, ConditionOf, Conditions
<1> QED
  BY <1>1 DEF Result, Results

LEMMA ReturnType ==
  ASSUME NEW status \in Statuses, NEW err, Return(status, err)
  PROVE  pc' \in Labels /\ ret' \in Results
  BY ResultType DEF Return, Labels

LEMMA GotoType ==
  ASSUME TypeOK, NEW label \in Labels, Goto(label)
  PROVE  pc' \in Labels /\ ret' \in Results
  BY DEF Goto, TypeOK

LEMMA CreateFailedType ==
  ASSUME NEW status \in Statuses, NEW err, NEW marked \in BOOLEAN,
         CreateFailed(status, err, marked)
  PROVE  pc' \in Labels /\ ret' \in Results
  BY ResultType DEF CreateFailed, Labels

LEMMA FindNotFoundType ==
  ASSUME TypeOK, FindNotFound
  PROVE  pc' \in Labels /\ ret' \in Results
<1>1. des.status \in Statuses
  BY DEF TypeOK, Desired
<1>2. CASE Goto("create.finalizer") \/ Goto("delete.finalizer")
  BY <1>2, GotoType DEF Labels
<1>3. CASE Return(des.status, "notFound")
  BY <1>1, <1>3, ReturnType
<1> QED
  BY <1>2, <1>3 DEF FindNotFound, TypeOK

LEMMA NilType ==
  /\ Nil \in Statuses /\ NoSpec \in AllSpecs
  /\ Nothing \in Observed
  BY DEF Nil, StatusOf, Statuses, NoSpec, Nothing, Observed

LEMMA IdleType ==
  ASSUME Idle
  PROVE  /\ pc' \in Labels /\ mode' \in {"sync", "post", "delete"}
         /\ des' \in Desired /\ obs' \in Observed /\ ret' \in Results
  BY NilType DEF Idle, Labels, Desired, Results, Conditions

(* What the calls of Route 53 leave is again a health check.               *)
LEMMA RewriteType ==
  ASSUME TypeOK, NEW c \in CheckIds, Exists(c), NEW x \in MinInt32..MaxInt32, Rewrite(c, x)
  PROVE  /\ checks' \in [CheckIds -> Checks \cup {NoCheck}]
         /\ checks'[c] = [checks[c] EXCEPT !.cfg = x, !.ver = @ + 1]
         /\ checks'[c] \in Checks
         /\ \A d \in CheckIds : d # c => checks'[d] = checks[d]
<1>1. checks[c] \in Checks
  BY DEF TypeOK, Exists
<1>2. checks'[c] = [checks[c] EXCEPT !.cfg = x, !.ver = @ + 1]
  BY <1>1 DEF Rewrite, TypeOK
<1>3. checks'[c] \in Checks
  <2>1. checks'[c] = [cfg |-> x, latency |-> checks[c].latency,
                     ver |-> checks[c].ver + 1, tags |-> checks[c].tags]
    BY <1>1, <1>2 DEF Checks
  <2>2. /\ checks[c].latency \in BOOLEAN /\ checks[c].ver + 1 \in Nat \ {0}
        /\ checks[c].tags \in SUBSET AllTags
    BY <1>1 DEF Checks
  <2> QED
    BY <2>1, <2>2 DEF Checks
<1>4. \A d \in CheckIds : d # c => checks'[d] = checks[d]
  BY DEF Rewrite, TypeOK
<1>5. DOMAIN checks' = CheckIds /\ checks' = [d \in CheckIds |-> checks'[d]]
  BY DEF Rewrite, TypeOK
<1> QED
  BY <1>2, <1>3, <1>4, <1>5 DEF TypeOK

LEMMA RetagType ==
  ASSUME TypeOK, NEW c \in CheckIds, Exists(c), NEW tags \in SUBSET AllTags, Retag(c, tags)
  PROVE  /\ checks' \in [CheckIds -> Checks \cup {NoCheck}]
         /\ checks'[c] \in Checks
         /\ checks'[c].cfg = checks[c].cfg /\ checks'[c].ver = checks[c].ver
         /\ \A d \in CheckIds : d # c => checks'[d] = checks[d]
<1>1. checks[c] \in Checks
  BY DEF TypeOK, Exists
<1>2. checks'[c] = [checks[c] EXCEPT !.tags = tags]
  BY <1>1 DEF Retag, TypeOK
<1>3. checks'[c] \in Checks /\ checks'[c].cfg = checks[c].cfg /\ checks'[c].ver = checks[c].ver
  BY <1>1, <1>2 DEF Checks
<1> QED
  BY <1>3 DEF Retag, TypeOK

LEMMA NewCheckType ==
  ASSUME TypeOK, NEW c \in CheckIds, fitsInt32(des.spec.cfg), NewCheck(c)
  PROVE  /\ checks' \in [CheckIds -> Checks \cup {NoCheck}]
         /\ checks'[c] = [cfg |-> des.spec.cfg, latency |-> des.spec.latency,
                       ver |-> 1, tags |-> {}]
         /\ checks'[c] \in Checks
         /\ \A d \in CheckIds : d # c => checks'[d] = checks[d]
<1>1. des.spec.cfg \in Int /\ des.spec.latency \in BOOLEAN
  BY DEF TypeOK, Desired
<1>2. int32(des.spec.cfg) = des.spec.cfg /\ des.spec.cfg \in MinInt32..MaxInt32
  BY <1>1, Int32IsExact
<1>3. checks'[c] = [cfg |-> des.spec.cfg, latency |-> des.spec.latency,
                       ver |-> 1, tags |-> {}]
  BY <1>2 DEF NewCheck, TypeOK
<1>4. checks'[c] \in Checks
  <2>1. 1 \in Nat \ {0} /\ {} \in SUBSET AllTags
    OBVIOUS
  <2> QED
    BY <1>1, <1>2, <1>3, <2>1 DEF Checks
<1> QED
  BY <1>3, <1>4 DEF NewCheck, TypeOK

LEMMA TypeInit == Init => TypeOK
<1> SUFFICES ASSUME Init PROVE TypeOK
  OBVIOUS
<1>1. checks \in [CheckIds -> Checks \cup {NoCheck}]
  BY DEF Init
<1>2. cr \in CRs
  BY NilType DEF Init, CRs, Conditions
<1>3. des \in Desired /\ obs \in Observed /\ ret \in Results
  BY NilType DEF Init, Desired, Results, Conditions
<1> QED
  BY <1>1, <1>2, <1>3 DEF Init, TypeOK, Labels

(* An existing check that the CR or the worker names is one of CheckIds.   *)
LEMMA HeldTypes ==
  ASSUME TypeOK
  PROVE  /\ cr.status \in Statuses /\ des.status \in Statuses /\ obs.status \in Statuses
         /\ ret.status \in Statuses
         /\ des.spec \in AllSpecs
         /\ obs.spec \in AllSpecs
         /\ \A s \in Statuses : Exists(s.id) => s.id \in CheckIds /\ checks[s.id] \in Checks
  BY DEF TypeOK, CRs, Desired, Observed, Results, Statuses, Exists

(* Only the ghost changes when a reconciliation begins and when somebody   *)
(* else works on the health check.                                         *)
LEMMA OnlyFreshness ==
  ASSUME TypeOK, Reconcile \/ Meddler
  PROVE  /\ obs'.spec = obs.spec /\ obs'.status = obs.status /\ obs' \in Observed
         /\ Meddler => ~obs'.fresh
<1>1. \E b \in BOOLEAN : obs' = [obs EXCEPT !.fresh = b] /\ (Meddler => b = FALSE)
  <2>1. ~(Reconcile /\ Meddler)
    BY DEF Reconcile, Meddler, Goto
  <2> QED
    BY <2>1 DEF Reconcile, Meddler
<1> QED
  BY <1>1 DEF TypeOK, Observed

LEMMA FindTypes ==
  ASSUME TypeOK, Reconcile \/ Find \/ FindTags \/ Decide
  PROVE  TypeOK'
<1>1. CASE Reconcile
  <2>1. cr.spec \in AllSpecs
    BY DEF TypeOK, CRs
  <2>2. [cr.spec EXCEPT !.tags = EnsureTags(@, DefaultTags)] \in AllSpecs
    BY <2>1, TagTypes
  <2>3. des' \in Desired
    BY <1>1, <2>2 DEF Reconcile, TypeOK, CRs, Desired
  <2> QED
    BY <1>1, <2>3, GotoType, OnlyFreshness DEF Reconcile, TypeOK, Labels, counters
<1>2. CASE Find
  <2>1. pc' \in Labels /\ ret' \in Results
    BY <1>2, HeldTypes, GotoType, ReturnType, FindNotFoundType DEF Find, Labels
  <2>2. obs' \in Observed
    <3>1. CASE UNCHANGED obs
      BY <3>1 DEF TypeOK
    <3>2. CASE /\ Exists(des.status.id)
               /\ obs' = [obs EXCEPT !.spec = [cfg |-> checks[des.status.id].cfg,
                                              latency |-> checks[des.status.id].latency,
                                              tags |-> {}],
                                     !.status = StatusOf(des.status.id, checks[des.status.id].ver)]
      <4>1. des.status.id \in CheckIds /\ checks[des.status.id] \in Checks
        BY <3>2, HeldTypes
      <4>2. /\ [cfg |-> checks[des.status.id].cfg,
                                              latency |-> checks[des.status.id].latency,
                                              tags |-> {}] \in AllSpecs
            /\ StatusOf(des.status.id, checks[des.status.id].ver) \in Statuses
        BY <4>1 DEF StatusOf, Statuses, Checks
      <4> QED
        BY <3>2, <4>2 DEF TypeOK, Observed
    <3> QED
      BY <1>2, <3>1, <3>2 DEF Find
  <2> QED
    BY <1>2, <2>1, <2>2 DEF Find, TypeOK, k8s
<1>3. CASE FindTags
  <2>1. pc' \in Labels /\ ret' \in Results
    BY <1>3, HeldTypes, GotoType, ReturnType, FindNotFoundType DEF FindTags, Labels
  <2>2. obs' \in Observed /\ des' \in Desired
    <3>1. CASE UNCHANGED <<des, obs>>
      BY <3>1 DEF TypeOK
    <3>2. CASE /\ Exists(des.status.id)
               /\ obs' = [obs EXCEPT !.spec.tags = checks[des.status.id].tags]
               /\ des' = [des EXCEPT !.spec.tags = mirrorAWSTags(@, obs'.spec.tags)]
      <4>1. checks[des.status.id].tags \in SUBSET AllTags
        BY <3>2, HeldTypes DEF Checks
      <4>2. obs' \in Observed
        BY <3>2, <4>1 DEF TypeOK, Observed
      <4>3. mirrorAWSTags(des.spec.tags, obs'.spec.tags) \in SUBSET AllTags
        BY <4>2, HeldTypes, TagTypes DEF Observed
      <4> QED
        BY <3>2, <4>2, <4>3 DEF TypeOK, Desired
    <3> QED
      BY <1>3, <3>1, <3>2 DEF FindTags
  <2> QED
    BY <1>3, <2>1, <2>2 DEF FindTags, TypeOK, k8s
<1>4. CASE Decide
  <2>1. pc' \in Labels /\ ret' \in Results
    BY <1>4, HeldTypes, GotoType, ReturnType DEF Decide, Labels
  <2> QED
    BY <1>4, <2>1 DEF Decide, TypeOK, k8s
<1> QED
  BY <1>1, <1>2, <1>3, <1>4

LEMMA CreateTypes ==
  ASSUME TypeOK, AddFinalizer \/ CreateCall \/ CreateTags \/ ReleaseFinalizer
  PROVE  TypeOK'
<1>1. CASE AddFinalizer
  <2>1. pc' \in Labels /\ ret' \in Results
    BY <1>1, HeldTypes, GotoType, ReturnType DEF AddFinalizer, Labels
  <2>2. cr' \in {cr, [cr EXCEPT !.fin = TRUE]} /\ des' \in {des, [des EXCEPT !.fin = TRUE]}
    BY <1>1 DEF AddFinalizer
  <2>3. cr' \in CRs
    BY <2>2 DEF TypeOK, CRs
  <2>4. des' \in Desired
    BY <2>2 DEF TypeOK, Desired
  <2> QED
    BY <1>1, <2>1, <2>3, <2>4 DEF AddFinalizer, TypeOK
<1>2. CASE CreateCall
  <2>1. pc' \in Labels /\ ret' \in Results
    BY <1>2, HeldTypes, GotoType, CreateFailedType DEF CreateCall, Labels
  <2>2. checks' \in [CheckIds -> Checks \cup {NoCheck}]
    BY <1>2, NewCheckType DEF CreateCall, TypeOK
  <2>3. des' \in Desired
    <3>1. \A c \in CheckIds : StatusOf(c, 1) \in Statuses
      BY DEF StatusOf, Statuses
    <3> QED
      BY <1>2, <3>1 DEF CreateCall, TypeOK, Desired
  <2> QED
    BY <1>2, <2>1, <2>2, <2>3 DEF CreateCall, TypeOK, k8s
<1>3. CASE CreateTags
  <2>1. pc' \in Labels /\ ret' \in Results
    BY <1>3, HeldTypes, GotoType, CreateFailedType DEF CreateTags, PostCreateFailed, Labels
  <2>2. checks' \in [CheckIds -> Checks \cup {NoCheck}]
    <3>1. CASE UNCHANGED checks
      BY <3>1 DEF TypeOK
    <3>2. CASE Exists(des.status.id) /\ Retag(des.status.id, des.spec.tags)
      BY <3>2, HeldTypes, RetagType
    <3> QED
      BY <1>3, <3>1, <3>2 DEF CreateTags, TagsAnswer
  <2> QED
    BY <1>3, <2>1, <2>2 DEF CreateTags, TypeOK, k8s
<1>4. CASE ReleaseFinalizer
  <2>1. pc' \in Labels /\ ret' \in Results
    BY <1>4, GotoType DEF ReleaseFinalizer, Labels
  <2>2. cr' \in CRs
    BY <1>4 DEF ReleaseFinalizer, TypeOK, CRs
  <2> QED
    BY <1>4, <2>1, <2>2 DEF ReleaseFinalizer, TypeOK
<1> QED
  BY <1>1, <1>2, <1>3, <1>4

LEMMA UpdateTypes ==
  ASSUME TypeOK, UpdateCall \/ UpdateUntag \/ UpdateTag \/ PatchSpec
  PROVE  TypeOK'
<1> DEFINE id == des.status.id
<1>1. CASE UpdateCall
  <2>1. CASE UNCHANGED <<checks, des>> /\ \E err : UpdateFailed(err)
    <3>1. pc' \in Labels /\ ret' \in Results
      BY <2>1, HeldTypes, ReturnType DEF UpdateFailed
    <3> QED
      BY <1>1, <2>1, <3>1 DEF UpdateCall, TypeOK, k8s
  <2>2. CASE /\ fitsInt32(des.spec.cfg) /\ UpdateAnswer(id, expectedVersion) = "none"
             /\ Rewrite(id, int32(des.spec.cfg))
    <3>1. Exists(id) /\ id \in CheckIds /\ checks[id] \in Checks
      BY <2>2, HeldTypes DEF UpdateAnswer
    <3>2. int32(des.spec.cfg) \in MinInt32..MaxInt32
      BY <2>2, HeldTypes, Int32IsExact
    <3>3. checks' \in [CheckIds -> Checks \cup {NoCheck}]
      BY <2>2, <3>1, <3>2, RewriteType
    <3>4. des' \in Desired
      <4>1. des' = des \/ des' = [des EXCEPT !.status.ver = checks[id].ver + 1]
        BY <1>1 DEF UpdateCall
      <4>2. checks[id].ver + 1 \in Nat
        BY <3>1 DEF Checks
      <4> QED
        BY <4>1, <4>2 DEF TypeOK, Desired, Statuses
    <3>5. des'.status \in Statuses
      BY <3>4 DEF Desired
    <3>6. pc' \in Labels /\ ret' \in Results
      BY <1>1, <3>5, HeldTypes, GotoType, ReturnType DEF UpdateCall, UpdateFailed, Labels
    <3> QED
      BY <1>1, <3>3, <3>4, <3>6 DEF UpdateCall, TypeOK, k8s
  <2> QED
    BY <1>1, <2>1, <2>2 DEF UpdateCall
<1>2. CASE UpdateUntag
  <2>1. pc' \in Labels /\ ret' \in Results
    BY <1>2, HeldTypes, GotoType, ReturnType DEF UpdateUntag, UpdateFailed, Labels
  <2>2. checks' \in [CheckIds -> Checks \cup {NoCheck}]
    <3>1. CASE UNCHANGED checks
      BY <3>1 DEF TypeOK
    <3>2. CASE Exists(id) /\ \E keys : Retag(id, Untagged(checks[id].tags, keys))
      <4>1. id \in CheckIds /\ checks[id].tags \in SUBSET AllTags
        BY <3>2, HeldTypes DEF Checks
      <4> QED
        BY <3>2, <4>1, RetagType, TagTypes
    <3> QED
      BY <1>2, <3>1, <3>2 DEF UpdateUntag, TagsAnswer
  <2> QED
    BY <1>2, <2>1, <2>2 DEF UpdateUntag, TypeOK, k8s
<1>3. CASE UpdateTag
  <2>1. pc' \in Labels /\ ret' \in Results
    BY <1>3, HeldTypes, GotoType, ReturnType DEF UpdateTag, UpdateFailed, Labels
  <2>2. checks' \in [CheckIds -> Checks \cup {NoCheck}]
    <3> DEFINE more == toAdd(des.spec.tags, obs.spec.tags)
    <3>1. CASE UNCHANGED checks
      BY <3>1 DEF TypeOK
    <3>2. CASE Exists(id) /\ Retag(id, Tagged(checks[id].tags, more))
      <4>1. id \in CheckIds /\ checks[id].tags \in SUBSET AllTags
        BY <3>2, HeldTypes DEF Checks
      <4>2. more \in SUBSET AllTags
        BY HeldTypes, TagTypes
      <4>3. Tagged(checks[id].tags, more) \in SUBSET AllTags
        BY <4>1, <4>2, TagTypes
      <4> QED
        BY <3>2, <4>1, <4>3, RetagType
    <3> QED
      BY <1>3, <3>1, <3>2 DEF UpdateTag, TagsAnswer
  <2> QED
    BY <1>3, <2>1, <2>2 DEF UpdateTag, TypeOK, k8s
<1>4. CASE PatchSpec
  <2>1. cr' \in CRs /\ des' \in Desired
    BY <1>4 DEF PatchSpec, TypeOK, CRs, Desired, Observed
  <2> QED
    BY <1>4, <2>1, HeldTypes, ReturnType DEF PatchSpec, TypeOK
<1> QED
  BY <1>1, <1>2, <1>3, <1>4

LEMMA FinishTypes ==
  ASSUME TypeOK, DeleteCall \/ RemoveFinalizer \/ PatchStatus
  PROVE  TypeOK'
<1>1. CASE DeleteCall
  <2>1. pc' \in Labels /\ ret' \in Results
    BY <1>1, HeldTypes, GotoType, ReturnType DEF DeleteCall, Labels
  <2>2. checks' \in [CheckIds -> Checks \cup {NoCheck}]
    BY <1>1 DEF DeleteCall, TypeOK
  <2> QED
    BY <1>1, <2>1, <2>2 DEF DeleteCall, TypeOK, k8s
<1>2. CASE RemoveFinalizer
  <2>1. cr' \in CRs
    BY <1>2 DEF RemoveFinalizer, TypeOK, CRs
  <2>2. CASE Idle
    BY <1>2, <2>1, <2>2, IdleType DEF RemoveFinalizer, TypeOK
  <2>3. CASE Return(des.status, "plain") /\ UNCHANGED <<mode, des, obs>>
    BY <1>2, <2>1, <2>3, HeldTypes, ReturnType DEF RemoveFinalizer, TypeOK
  <2> QED
    BY <1>2, <2>2, <2>3 DEF RemoveFinalizer
<1>3. CASE PatchStatus
  <2>1. cr' \in CRs
    BY <1>3 DEF PatchStatus, TypeOK, CRs, Results
  <2> QED
    BY <1>3, <2>1, IdleType DEF PatchStatus, TypeOK
<1> QED
  BY <1>1, <1>2, <1>3

LEMMA EnvironmentTypes ==
  ASSUME TypeOK, User \/ Meddler \/ Crash
  PROVE  TypeOK'
<1>1. CASE User
  <2>1. \A s \in Specs : s \in AllSpecs
    BY SpecsAssumption DEF AllTags
  <2>2. cr' \in CRs
    <3>1. CASE \E s \in Specs : cr' = [phase |-> "live", fin |-> FALSE, spec |-> s,
                                       status |-> Nil, cond |-> "none"]
      BY <2>1, <3>1, NilType DEF CRs, Conditions
    <3>2. CASE \E s \in Specs \ {cr.spec} : cr' = [cr EXCEPT !.spec = s]
      BY <2>1, <3>2 DEF TypeOK, CRs
    <3>3. CASE cr' = [cr EXCEPT !.phase = IF cr.fin THEN "deleting" ELSE "gone"]
      BY <3>3 DEF TypeOK, CRs
    <3> QED
      BY <1>1, <3>1, <3>2, <3>3, Zenon DEF User
  <2> QED
    BY <1>1, <2>2 DEF User, TypeOK
<1>2. CASE Meddler
  <2>1. PICK c \in {cr.status.id, des.status.id} :
          /\ Exists(c)
          /\ \/ \E x \in Wanted \ Bad : fitsInt32(x) /\ x # checks[c].cfg /\ Rewrite(c, x)
             \/ Retag(c, Tagged(checks[c].tags, SystemTags))
             \/ checks' = [checks EXCEPT ![c] = NoCheck]
    BY <1>2 DEF Meddler
  <2>2. c \in CheckIds /\ checks[c] \in Checks
    BY <2>1, HeldTypes
  <2>3. checks' \in [CheckIds -> Checks \cup {NoCheck}]
    <3>1. CASE \E x \in Wanted \ Bad : fitsInt32(x) /\ x # checks[c].cfg /\ Rewrite(c, x)
      BY <2>1, <2>2, <3>1, RewriteType, Int32IsExact
    <3>2. CASE Retag(c, Tagged(checks[c].tags, SystemTags))
      <4>1. Tagged(checks[c].tags, SystemTags) \in SUBSET AllTags
        BY <2>2, TagTypes DEF Checks
      <4> QED
        BY <2>1, <2>2, <3>2, <4>1, RetagType
    <3>3. CASE checks' = [checks EXCEPT ![c] = NoCheck]
      BY <3>3 DEF TypeOK
    <3> QED
      BY <2>1, <3>1, <3>2, <3>3
  <2> QED
    BY <1>2, <2>3, OnlyFreshness DEF Meddler, TypeOK
<1>3. CASE Crash
  BY <1>3, IdleType DEF Crash, TypeOK
<1> QED
  BY <1>1, <1>2, <1>3

LEMMA TypeStep == TypeOK /\ [Next]_vars => TypeOK'
<1> SUFFICES ASSUME TypeOK, [Next]_vars PROVE TypeOK'
  OBVIOUS
<1>1. CASE UNCHANGED vars
  BY <1>1 DEF vars, TypeOK
<1> QED
  BY <1>1, FindTypes, CreateTypes, UpdateTypes, FinishTypes, EnvironmentTypes DEF Next, Worker

(* Every variable keeps its type. *)
THEOREM TypeCorrect == Spec => []TypeOK
  BY TypeInit, TypeStep, PTL DEF Spec

-----------------------------------------------------------------------------
(* Where the numbers come from *)

LEMMA SpecInit == Init => SpecInv /\ Unmangled
  BY DEF Init, SpecInv, Unmangled, KeysOf, NoSpec, Unread

LEMMA SpecStep == TypeOK /\ SpecInv /\ [Next]_vars => SpecInv'
<1> SUFFICES ASSUME TypeOK, SpecInv, [Next]_vars PROVE SpecInv'
  OBVIOUS
<1>1. CASE Reconcile
  <2>1. des'.spec.cfg = cr.spec.cfg /\ des'.spec.tags = EnsureTags(cr.spec.tags, DefaultTags)
    BY <1>1 DEF Reconcile, TypeOK, CRs
  <2> QED
    BY <1>1, <2>1, EnsuredKeys DEF Reconcile, SpecInv, Goto
<1>2. CASE Find \/ FindTags \/ Decide
  <2>1. cr' = cr /\ des'.spec.cfg = des.spec.cfg
    BY <1>2 DEF Find, FindTags, Decide, k8s, TypeOK, Desired
  <2>2. pc' \in Unread => pc \in Unread /\ des' = des
    BY <1>2 DEF Find, FindTags, Decide, Goto, Return, FindNotFound, Unread
  <2>3. pc # "idle"
    BY <1>2 DEF Find, FindTags, Decide
  <2> QED
    BY <2>1, <2>2, <2>3 DEF SpecInv
<1>3. CASE AddFinalizer \/ CreateCall \/ CreateTags \/ ReleaseFinalizer
  <2>1. cr'.spec = cr.spec /\ des'.spec = des.spec
    BY <1>3 DEF AddFinalizer, CreateCall, CreateTags, ReleaseFinalizer, k8s, TypeOK, CRs, Desired
  <2>2. cr'.phase # "gone" => cr.phase # "gone"
    BY <1>3 DEF AddFinalizer, CreateCall, CreateTags, ReleaseFinalizer, k8s, TypeOK, CRs
  <2>3. pc # "idle" /\ (pc' \in Unread => pc \in Unread)
    BY <1>3 DEF AddFinalizer, CreateCall, CreateTags, ReleaseFinalizer, CreateFailed,
       PostCreateFailed, Goto, Return, Unread
  <2> QED
    BY <2>1, <2>2, <2>3 DEF SpecInv
<1>4. CASE UpdateCall \/ UpdateUntag \/ UpdateTag \/ DeleteCall
  <2>1. cr' = cr /\ des'.spec = des.spec /\ pc # "idle"
    BY <1>4 DEF UpdateCall, UpdateUntag, UpdateTag, DeleteCall, k8s, TypeOK, Desired
  <2>2. pc' \notin Unread
    BY <1>4 DEF UpdateCall, UpdateUntag, UpdateTag, DeleteCall, UpdateFailed, Goto, Return, Unread
  <2> QED
    BY <2>1, <2>2 DEF SpecInv
<1>5. CASE PatchSpec
  <2>1. /\ cr'.spec.cfg = cr.spec.cfg /\ cr'.spec.tags = cr.spec.tags /\ cr'.phase = cr.phase
        /\ des'.spec.cfg = des.spec.cfg
    BY <1>5 DEF PatchSpec, TypeOK, CRs, Desired
  <2> QED
    BY <1>5, <2>1 DEF PatchSpec, Return, SpecInv, Unread
<1>6. CASE RemoveFinalizer \/ PatchStatus \/ Crash
  <2>1. cr'.spec = cr.spec /\ (cr'.phase # "gone" => cr.phase # "gone")
    BY <1>6 DEF RemoveFinalizer, PatchStatus, Crash, TypeOK, CRs
  <2>2. pc' = "idle" \/ (pc' = "patch" /\ pc # "idle" /\ des' = des)
    BY <1>6 DEF RemoveFinalizer, PatchStatus, Crash, Idle, Return
  <2> QED
    BY <2>1, <2>2 DEF SpecInv, Unread
<1>7. CASE User
  <2>1. \A s \in Specs : s.cfg \in Wanted /\ KeysOf(s.tags) \cap AwsKeys = {}
    BY SpecsAssumption DEF KeysOf
  <2>2. /\ cr'.phase # "gone" => cr'.spec.cfg \in Wanted
        /\ KeysOf(cr'.spec.tags) \cap AwsKeys = {}
    <3>1. CASE \E s \in Specs : cr' = [phase |-> "live", fin |-> FALSE, spec |-> s,
                                       status |-> Nil, cond |-> "none"]
      BY <2>1, <3>1
    <3>2. CASE \E s \in Specs \ {cr.spec} : cr' = [cr EXCEPT !.spec = s]
      BY <2>1, <3>2 DEF TypeOK, CRs
    <3>3. CASE cr.phase = "live" /\ cr' = [cr EXCEPT !.phase = IF cr.fin THEN "deleting" ELSE "gone"]
      BY <3>3 DEF SpecInv, TypeOK, CRs
    <3> QED
      BY <1>7, <3>1, <3>2, <3>3, Zenon DEF User
  <2> QED
    BY <1>7, <2>2 DEF User, SpecInv
<1>8. CASE Meddler \/ UNCHANGED vars
  BY <1>8 DEF Meddler, vars, SpecInv
<1> QED
  BY <1>1, <1>2, <1>3, <1>4, <1>5, <1>6, <1>7, <1>8 DEF Next, Worker

(* What one step can make of a health check that exists after it.          *)
Kept(c) ==
  checks[c] # NoCheck /\ checks'[c].cfg = checks[c].cfg /\ checks'[c].ver = checks[c].ver
Rewritten(c) ==
  checks[c] # NoCheck /\ checks'[c].cfg \in Wanted /\ checks'[c].ver = checks[c].ver + 1
Made(c) ==
  /\ CreateCall /\ checks[c] = NoCheck /\ c \notin IdsInUse
  /\ checks'[c].cfg \in Wanted /\ checks'[c].ver = 1

LEMMA UpdateFate ==
  ASSUME TypeOK, SpecInv, UpdateCall, checks' # checks
  PROVE  LET id == des.status.id IN
         /\ fitsInt32(des.spec.cfg) /\ UpdateAnswer(id, expectedVersion) = "none"
         /\ id \in CheckIds /\ Exists(id) /\ Rewritten(id) /\ checks'[id] \in Checks
         /\ \A d \in CheckIds \ {id} : checks'[d] = checks[d]
<1> DEFINE id == des.status.id
<1>1. /\ fitsInt32(des.spec.cfg) /\ UpdateAnswer(id, expectedVersion) = "none"
      /\ Rewrite(id, int32(des.spec.cfg))
  BY DEF UpdateCall
<1>2. Exists(id) /\ id \in CheckIds /\ checks[id] \in Checks
  BY <1>1, HeldTypes DEF UpdateAnswer
<1>3. int32(des.spec.cfg) = des.spec.cfg /\ des.spec.cfg \in MinInt32..MaxInt32
  BY <1>1, HeldTypes, Int32IsExact
<1>4. des.spec.cfg \in Wanted
  BY DEF SpecInv, UpdateCall
<1>5. /\ checks'[id] = [checks[id] EXCEPT !.cfg = des.spec.cfg, !.ver = @ + 1]
      /\ checks'[id] \in Checks
      /\ \A d \in CheckIds \ {id} : checks'[d] = checks[d]
  <2>1. Rewrite(id, des.spec.cfg)
    BY <1>1, <1>3
  <2> QED
    BY <1>2, <1>3, <2>1, RewriteType
<1>6. Rewritten(id)
  BY <1>2, <1>4, <1>5 DEF Rewritten, Checks, Exists
<1> QED
  BY <1>1, <1>2, <1>5, <1>6

LEMMA Fate ==
  ASSUME TypeOK, SpecInv, [Next]_vars, NEW c \in CheckIds, checks'[c] # NoCheck
  PROVE  Kept(c) \/ Rewritten(c) \/ Made(c)
<1> DEFINE id == des.status.id
<1>1. CASE UNCHANGED checks
  BY <1>1 DEF Kept
<1>2. CASE CreateCall /\ \E d \in CheckIds : NewCheck(d) /\ fitsInt32(des.spec.cfg)
  <2>1. PICK d \in CheckIds : NewCheck(d) /\ fitsInt32(des.spec.cfg)
    BY <1>2
  <2>2. CASE c = d
    BY <1>2, <2>1, <2>2, NewCheckType DEF NewCheck, Made, SpecInv, CreateCall
  <2>3. CASE c # d
    BY <2>1, <2>3, NewCheckType DEF Kept
  <2> QED
    BY <2>2, <2>3
<1>3. CASE CreateTags \/ UpdateUntag \/ UpdateTag
  <2>1. UNCHANGED checks \/ (Exists(id) /\ \E tags : Retag(id, tags))
    BY <1>3 DEF CreateTags, UpdateUntag, UpdateTag, TagsAnswer
  <2>2. CASE Exists(id) /\ \E tags : Retag(id, tags)
    <3>1. id \in CheckIds /\ checks[id] \in Checks
      BY <2>2, HeldTypes
    <3>2. PICK tags : Retag(id, tags)
      BY <2>2
    <3>3. c # id => checks'[c] = checks[c]
      BY <3>1, <3>2 DEF Retag, TypeOK
    <3>4. checks'[id] = [checks[id] EXCEPT !.tags = tags]
      BY <3>1, <3>2 DEF Retag, TypeOK
    <3> QED
      BY <2>2, <3>1, <3>3, <3>4 DEF Kept, Exists, Checks
  <2> QED
    BY <1>1, <2>1, <2>2
<1>4. CASE UpdateCall /\ checks' # checks
  BY <1>4, UpdateFate DEF Kept
<1>5. CASE DeleteCall
  BY <1>5 DEF DeleteCall, TypeOK, Kept
<1>6. CASE Meddler
  <2>1. PICK k \in {cr.status.id, des.status.id} :
          /\ Exists(k)
          /\ \/ \E x \in Wanted \ Bad : fitsInt32(x) /\ x # checks[k].cfg /\ Rewrite(k, x)
             \/ Retag(k, Tagged(checks[k].tags, SystemTags))
             \/ checks' = [checks EXCEPT ![k] = NoCheck]
    BY <1>6 DEF Meddler
  <2>2. k \in CheckIds /\ checks[k] \in Checks
    BY <2>1, HeldTypes
  <2>3. CASE \E x \in Wanted \ Bad : fitsInt32(x) /\ x # checks[k].cfg /\ Rewrite(k, x)
    <3>1. PICK x \in Wanted : fitsInt32(x) /\ Rewrite(k, x)
      BY <2>3
    <3>2. x \in MinInt32..MaxInt32
      BY <3>1, Int32IsExact
    <3>3. checks'[k] = [checks[k] EXCEPT !.cfg = x, !.ver = @ + 1]
      BY <2>1, <2>2, <3>1, <3>2, RewriteType
    <3>4. Rewritten(k)
      BY <2>1, <2>2, <3>3 DEF Rewritten, Checks, Exists
    <3> QED
      BY <2>1, <2>2, <3>1, <3>2, <3>4, RewriteType DEF Kept
  <2>4. CASE Retag(k, Tagged(checks[k].tags, SystemTags))
    <3>1. Tagged(checks[k].tags, SystemTags) \in SUBSET AllTags
      BY <2>2, TagTypes DEF Checks
    <3> QED
      BY <2>1, <2>2, <2>4, <3>1, RetagType DEF Kept, Exists
  <2>5. CASE checks' = [checks EXCEPT ![k] = NoCheck]
    BY <2>5 DEF TypeOK, Kept
  <2> QED
    BY <2>1, <2>3, <2>4, <2>5
<1>7. CASE UNCHANGED vars
  BY <1>1, <1>7 DEF vars
<1>8. CASE \/ Reconcile \/ Find \/ FindTags \/ Decide \/ AddFinalizer \/ ReleaseFinalizer
           \/ PatchSpec \/ RemoveFinalizer \/ PatchStatus \/ User \/ Crash
  BY <1>1, <1>8 DEF Reconcile, Find, FindTags, Decide, AddFinalizer, ReleaseFinalizer,
     PatchSpec, RemoveFinalizer, PatchStatus, User, Crash
<1>9. CASE CreateCall
  BY <1>1, <1>2, <1>9 DEF CreateCall
<1> QED
  BY <1>1, <1>3, <1>4, <1>5, <1>6, <1>7, <1>8, <1>9 DEF Next, Worker

(* No number that nobody wrote reaches Route 53.                           *)
LEMMA UnmangledStep == TypeOK /\ SpecInv /\ Unmangled /\ [Next]_vars => Unmangled'
  BY Fate DEF Unmangled, Kept, Rewritten, Made

-----------------------------------------------------------------------------
(* Versions *)

LEMMA VersionInit == Init => VersionInv
  BY DEF Init, Nothing, VersionInv, Sound, Held, Nil, StatusOf, Read

(* A status that is held stays sound, whatever happens to the check.       *)
LEMMA SoundStep ==
  ASSUME TypeOK, TypeOK', SpecInv, VersionInv, [Next]_vars, NEW s \in Statuses, s \in Held
  PROVE  Sound(s)'
<1>1. Sound(s)
  BY DEF VersionInv, Sound
<1>2. CASE s.id = NoId
  BY <1>2 DEF Sound
<1>3. CASE s.id # NoId /\ checks'[s.id] # NoCheck
  <2>1. s.id \in CheckIds
    BY <1>3 DEF Statuses
  <2>2. ~Made(s.id)
    BY DEF Made, IdsInUse, Held
  <2>3. Kept(s.id) \/ Rewritten(s.id)
    BY <1>3, <2>1, <2>2, Fate
  <2>4. checks[s.id] \in Checks /\ s.ver <= checks[s.id].ver
    BY <1>1, <1>3, <2>1, <2>3 DEF Sound, Exists, Kept, Rewritten, TypeOK
  <2>5. s.ver <= checks'[s.id].ver
    BY <2>3, <2>4 DEF Kept, Rewritten, Checks, Statuses
  <2> QED
    BY <1>1, <1>3, <2>5 DEF Sound
<1>4. CASE s.id # NoId /\ checks'[s.id] = NoCheck
  BY <1>1, <1>4 DEF Sound, Exists
<1> QED
  BY <1>2, <1>3, <1>4

LEMMA ReturnHolds ==
  ASSUME NEW status, NEW err, Return(status, err)
  PROVE  ret'.status = status /\ pc' = "patch"
  BY DEF Return, Result

LEMMA CreateFailedHolds ==
  ASSUME NEW status, NEW err, NEW marked, CreateFailed(status, err, marked)
  PROVE  ret'.status = status /\ pc' \in {"patch", "create.release"}
  BY DEF CreateFailed, Result

(* The runtime's patch of the spec touches one field, and is returned.     *)
LEMMA PatchSpecKeeps ==
  ASSUME TypeOK, PatchSpec
  PROVE  /\ UNCHANGED <<checks, queued, mode, obs>> /\ pc = "patch.spec" /\ pc' = "patch"
         /\ cr'.phase = cr.phase /\ cr'.fin = cr.fin /\ cr'.status = cr.status
         /\ cr'.spec.cfg = cr.spec.cfg /\ cr'.spec.tags = cr.spec.tags
         /\ des'.status = des.status /\ des'.fin = des.fin
         /\ des'.spec.cfg = des.spec.cfg /\ des'.spec.tags = des.spec.tags
         /\ ret'.status = des.status
<1>1. UNCHANGED <<checks, queued, mode, obs>> /\ pc = "patch.spec"
  BY DEF PatchSpec
<1>2. pc' = "patch" /\ ret'.status = des.status
  BY ReturnHolds DEF PatchSpec
<1>3. cr' = cr \/ cr' = [cr EXCEPT !.spec.latency = obs.spec.latency]
  BY DEF PatchSpec
<1>4. des' = des \/ des' = [des EXCEPT !.spec.latency = obs.spec.latency]
  BY DEF PatchSpec
<1>5. /\ cr'.phase = cr.phase /\ cr'.fin = cr.fin /\ cr'.status = cr.status
      /\ cr'.spec.cfg = cr.spec.cfg /\ cr'.spec.tags = cr.spec.tags
  BY <1>3 DEF TypeOK, CRs
<1>6. /\ des'.status = des.status /\ des'.fin = des.fin
      /\ des'.spec.cfg = des.spec.cfg /\ des'.spec.tags = des.spec.tags
  BY <1>4 DEF TypeOK, Desired
<1> QED
  BY <1>1, <1>2, <1>5, <1>6

(* The worker and the CR pass statuses on; a new one is what Route 53 has  *)
(* just answered.                                                          *)
Answered(s) ==
  \/ s = Nil
  \/ /\ pc = "find" /\ Exists(des.status.id) /\ UNCHANGED checks
     /\ s = StatusOf(des.status.id, checks[des.status.id].ver)
  \/ \E c \in CheckIds : /\ CreateCall /\ NewCheck(c) /\ s = StatusOf(c, 1)
                         /\ checks'[c] \in Checks /\ checks'[c].ver = 1
  \/ /\ UpdateCall /\ checks' # checks
     /\ s = StatusOf(des.status.id, checks[des.status.id].ver + 1)

LEMMA AnsweredIsSound ==
  ASSUME TypeOK, SpecInv, NEW s, Answered(s)
  PROVE  Sound(s)'
<1>1. CASE s = Nil
  BY <1>1 DEF Nil, StatusOf, Sound
<1>2. CASE /\ pc = "find" /\ Exists(des.status.id) /\ UNCHANGED checks
           /\ s = StatusOf(des.status.id, checks[des.status.id].ver)
  BY <1>2, HeldTypes DEF StatusOf, Sound, Checks, Exists
<1>3. CASE \E c \in CheckIds : checks'[c].ver = 1 /\ s = StatusOf(c, 1)
  BY <1>3 DEF StatusOf, Sound
<1>4. CASE /\ UpdateCall /\ checks' # checks
           /\ s = StatusOf(des.status.id, checks[des.status.id].ver + 1)
  <2>1. checks[des.status.id] \in Checks
    BY <1>4, UpdateFate, HeldTypes
  <2> QED
    BY <1>4, <2>1, UpdateFate DEF StatusOf, Sound, Rewritten, Checks
<1> QED
  BY <1>1, <1>2, <1>3, <1>4 DEF Answered

LEMMA HeldOrigin ==
  ASSUME TypeOK, SpecInv, [Next]_vars, NEW s, s \in Held'
  PROVE  s \in Held \/ Answered(s)
<1>1. CASE Reconcile
  BY <1>1, OnlyFreshness DEF Reconcile, Goto, Held
<1>2. CASE Find
  <2>1. UNCHANGED <<cr, des>> /\ (ret' = ret \/ ret'.status = des.status)
    BY <1>2, ReturnHolds DEF Find, k8s, FindNotFound, Goto, TypeOK
  <2>2. \/ obs' = obs
        \/ /\ Exists(des.status.id) /\ UNCHANGED checks
           /\ obs'.status = StatusOf(des.status.id, checks[des.status.id].ver)
    BY <1>2 DEF Find, TypeOK, Observed
  <2> QED
    BY <1>2, <2>1, <2>2 DEF Held, Answered, Find
<1>3. CASE FindTags
  <2>1. cr' = cr /\ des'.status = des.status /\ obs'.status = obs.status
    BY <1>3 DEF FindTags, k8s, TypeOK, Desired, Observed
  <2>2. ret' = ret \/ ret'.status = des.status
    BY <1>3, ReturnHolds DEF FindTags, FindNotFound, Goto, TypeOK
  <2> QED
    BY <2>1, <2>2 DEF Held
<1>4. CASE Decide
  <2>1. UNCHANGED <<cr, des, obs>> /\ (ret' = ret \/ ret'.status = obs.status)
    BY <1>4, ReturnHolds DEF Decide, k8s, Goto
  <2> QED
    BY <2>1 DEF Held
<1>5. CASE AddFinalizer \/ CreateTags \/ ReleaseFinalizer
  <2>1. cr'.status = cr.status /\ des'.status = des.status /\ obs' = obs
    <3>1. CASE AddFinalizer
      BY <3>1 DEF AddFinalizer, TypeOK, CRs, Desired
    <3>2. CASE CreateTags \/ ReleaseFinalizer
      BY <3>2 DEF CreateTags, ReleaseFinalizer, k8s, TypeOK, CRs
    <3> QED
      BY <1>5, <3>1, <3>2
  <2>2. ret' = ret \/ ret'.status = des.status
    BY <1>5, ReturnHolds, CreateFailedHolds DEF AddFinalizer, CreateTags, ReleaseFinalizer, PostCreateFailed, Goto
  <2> QED
    BY <2>1, <2>2 DEF Held
<1>6. CASE CreateCall
  <2>1. cr' = cr /\ obs' = obs /\ (ret' = ret \/ ret'.status = des.status)
    BY <1>6, CreateFailedHolds DEF CreateCall, k8s, Goto
  <2>2. CASE des' = des
    BY <2>1, <2>2 DEF Held
  <2>3. CASE fitsInt32(des.spec.cfg) /\ \E c \in CheckIds :
               NewCheck(c) /\ des' = [des EXCEPT !.status = StatusOf(c, 1)]
    <3>1. PICK c \in CheckIds : NewCheck(c) /\ des'.status = StatusOf(c, 1)
      BY <2>3 DEF TypeOK, Desired
    <3>2. checks'[c] \in Checks /\ checks'[c].ver = 1
      BY <2>3, <3>1, NewCheckType
    <3> QED
      BY <1>6, <2>1, <3>1, <3>2 DEF Held, Answered
  <2> QED
    BY <1>6, <2>2, <2>3 DEF CreateCall
<1>7. CASE UpdateCall
  <2>1. cr' = cr /\ obs' = obs
    BY <1>7 DEF UpdateCall, k8s
  <2>2. ret' = ret \/ ret'.status = obs.status \/ ret'.status = des'.status
    BY <1>7, ReturnHolds DEF UpdateCall, UpdateFailed, Goto
  <2>3. CASE des' = des
    BY <2>1, <2>2, <2>3 DEF Held
  <2>4. CASE des' # des
    <3> DEFINE id == des.status.id
    <3>1. /\ UpdateAnswer(id, expectedVersion) = "none"
          /\ Rewrite(id, int32(des.spec.cfg))
          /\ des' = [des EXCEPT !.status.ver = checks[id].ver + 1]
      BY <1>7, <2>4 DEF UpdateCall
    <3>2. id \in CheckIds /\ checks[id] \in Checks
      BY <3>1, HeldTypes DEF UpdateAnswer
    <3>3. checks' # checks
      <4>1. checks'[id].ver = checks[id].ver + 1 /\ checks[id].ver \in Nat
        BY <3>1, <3>2 DEF Rewrite, TypeOK, Checks
      <4> QED
        BY <4>1
    <3>4. des'.status = StatusOf(id, checks[id].ver + 1)
      BY <3>1 DEF TypeOK, Desired, Statuses, StatusOf
    <3> QED
      BY <1>7, <2>1, <2>2, <3>3, <3>4 DEF Held, Answered
  <2> QED
    BY <2>3, <2>4
<1>8. CASE UpdateUntag \/ UpdateTag \/ DeleteCall
  <2>1. UNCHANGED <<cr, des, obs>>
    BY <1>8 DEF UpdateUntag, UpdateTag, DeleteCall, k8s
  <2>2. ret' = ret \/ ret'.status = obs.status \/ ret'.status = des.status
    BY <1>8, ReturnHolds DEF UpdateUntag, UpdateTag, UpdateFailed, DeleteCall, Goto
  <2> QED
    BY <2>1, <2>2 DEF Held
<1>9. CASE RemoveFinalizer \/ PatchStatus \/ Crash
  <2>1. cr'.status \in {cr.status, ret.status}
    BY <1>9 DEF RemoveFinalizer, PatchStatus, Crash, TypeOK, CRs
  <2>2. \/ des'.status = Nil /\ obs'.status = Nil /\ ret'.status = Nil
        \/ des' = des /\ obs' = obs /\ ret'.status = des.status
    BY <1>9, ReturnHolds DEF RemoveFinalizer, PatchStatus, Crash, Idle, Nothing
  <2> QED
    BY <2>1, <2>2 DEF Held, Answered
<1>10. CASE User
  <2>1. cr'.status \in {cr.status, Nil}
    <3>1. CASE \E sp \in Specs : cr' = [phase |-> "live", fin |-> FALSE, spec |-> sp,
                                        status |-> Nil, cond |-> "none"]
      BY <3>1
    <3>2. CASE \E sp \in Specs \ {cr.spec} : cr' = [cr EXCEPT !.spec = sp]
      BY <3>2 DEF TypeOK, CRs
    <3>3. CASE cr' = [cr EXCEPT !.phase = IF cr.fin THEN "deleting" ELSE "gone"]
      BY <3>3 DEF TypeOK, CRs
    <3> QED
      BY <1>10, <3>1, <3>2, <3>3, Zenon DEF User
  <2>2. UNCHANGED <<des, obs, ret>>
    BY <1>10 DEF User
  <2> QED
    BY <2>1, <2>2 DEF Held, Answered
<1>11. CASE Meddler \/ UNCHANGED vars
  BY <1>11, OnlyFreshness DEF Meddler, vars, Held
<1>12. CASE PatchSpec
  BY <1>12, PatchSpecKeeps DEF Held
<1> QED
  BY <1>1, <1>2, <1>3, <1>4, <1>5, <1>6, <1>7, <1>8, <1>9, <1>10, <1>11, <1>12
     DEF Next, Worker

(* A read comes back with the check, or with nothing and says so.          *)
LEMMA FindOutcome ==
  ASSUME TypeOK, Find
  PROVE  \/ /\ Exists(des.status.id) /\ pc' = "find.tags" /\ ret' = ret
            /\ obs'.status = StatusOf(des.status.id, checks[des.status.id].ver)
            /\ obs'.spec.cfg = checks[des.status.id].cfg
         \/ /\ obs' = obs
            /\ \/ pc' \in {"create.finalizer", "delete.finalizer"} /\ ret' = ret
               \/ pc' = "patch"
<1>1. CASE Exists(des.status.id)
  <2>1. CASE Return(des.status, "OtherAPIError") /\ UNCHANGED obs
    BY <2>1 DEF Return
  <2>2. CASE /\ obs' = [obs EXCEPT !.spec = [cfg |-> checks[des.status.id].cfg,
                                              latency |-> checks[des.status.id].latency,
                                              tags |-> {}],
                                   !.status = StatusOf(des.status.id, checks[des.status.id].ver)]
             /\ Goto("find.tags")
    BY <1>1, <2>2 DEF Goto, TypeOK, Observed
  <2> QED
    BY <1>1, <2>1, <2>2 DEF Find
<1>2. CASE ~Exists(des.status.id)
  <2>1. UNCHANGED obs /\ (FindNotFound \/ Return(des.status, "OtherAPIError"))
    BY <1>2 DEF Find
  <2> QED
    BY <2>1 DEF FindNotFound, Return, Goto, TypeOK
<1> QED
  BY <1>1, <1>2

LEMMA VersionStep == TypeOK /\ TypeOK' /\ SpecInv /\ VersionInv /\ [Next]_vars => VersionInv'
<1> SUFFICES ASSUME TypeOK, TypeOK', SpecInv, VersionInv, [Next]_vars PROVE VersionInv'
  OBVIOUS
<1>1. \A s \in Held' : Sound(s)'
  <2> SUFFICES ASSUME NEW s, s \in Held' PROVE Sound(s)'
    OBVIOUS
  <2>1. CASE s \in Held
    BY <2>1, SoundStep, HeldTypes DEF Held
  <2>2. CASE Answered(s)
    BY <2>2, AnsweredIsSound
  <2> QED
    BY <2>1, <2>2, HeldOrigin
<1>2. pc' = "idle" => des'.status = Nil /\ obs'.status = Nil
  <2>1. CASE RemoveFinalizer \/ PatchStatus \/ Crash
    BY <2>1 DEF RemoveFinalizer, PatchStatus, Crash, Idle, Nothing, Return
  <2>2. CASE User \/ Meddler \/ UNCHANGED vars
    BY <2>2, OnlyFreshness DEF User, Meddler, vars, VersionInv
  <2>3. CASE \/ Reconcile \/ Find \/ FindTags \/ Decide
             \/ AddFinalizer \/ CreateCall \/ CreateTags \/ ReleaseFinalizer
             \/ UpdateCall \/ UpdateUntag \/ UpdateTag \/ DeleteCall
    BY <2>3 DEF Reconcile, Find, FindTags, Decide, AddFinalizer, CreateCall, CreateTags,
       ReleaseFinalizer, UpdateCall, UpdateUntag, UpdateTag, DeleteCall, FindNotFound,
       CreateFailed, PostCreateFailed, UpdateFailed, Return, Goto, TypeOK
  <2>4. CASE PatchSpec
    BY <2>4, PatchSpecKeeps
  <2> QED
    BY <2>1, <2>2, <2>3, <2>4 DEF Next, Worker
<1>3. pc' \notin {"patch", "create.release"} => ret'.status = Nil
  <2>1. CASE RemoveFinalizer \/ PatchStatus \/ Crash
    <3>1. Idle \/ pc' = "patch"
      BY <2>1 DEF RemoveFinalizer, PatchStatus, Crash, Return
    <3> QED
      BY <3>1 DEF Idle
  <2>2. CASE User \/ Meddler \/ UNCHANGED vars
    BY <2>2 DEF User, Meddler, vars, VersionInv
  <2>3. CASE Find
    BY <2>3, FindOutcome DEF Find, VersionInv
  <2>4. CASE FindTags \/ Decide \/ Reconcile
    <3>1. ret' = ret \/ pc' = "patch"
      <4>1. FindNotFound => ret' = ret \/ pc' = "patch"
        BY DEF FindNotFound, Return, Goto, TypeOK
      <4> QED
        BY <2>4, <4>1 DEF FindTags, Decide, Reconcile, Return, Goto
    <3>2. pc \notin {"patch", "create.release"}
      BY <2>4 DEF FindTags, Decide, Reconcile
    <3> QED
      BY <3>1, <3>2 DEF VersionInv
  <2>5. CASE AddFinalizer \/ CreateCall \/ CreateTags \/ ReleaseFinalizer
    BY <2>5 DEF AddFinalizer, CreateCall, CreateTags, ReleaseFinalizer, CreateFailed,
       PostCreateFailed, Return, Goto, VersionInv
  <2>6. CASE UpdateCall \/ UpdateUntag \/ UpdateTag \/ DeleteCall
    BY <2>6 DEF UpdateCall, UpdateUntag, UpdateTag, DeleteCall, UpdateFailed, Return, Goto,
       VersionInv
  <2>7. CASE PatchSpec
    BY <2>7, PatchSpecKeeps
  <2> QED
    BY <2>1, <2>2, <2>3, <2>4, <2>5, <2>6, <2>7 DEF Next, Worker
<1>4. pc' \in Read => obs'.status.id = des'.status.id /\ des'.status.id # NoId
  <2>1. CASE Find
    <3>1. pc' \in Read => /\ Exists(des.status.id)
                          /\ obs'.status = StatusOf(des.status.id, checks[des.status.id].ver)
      BY <2>1, FindOutcome DEF Read
    <3> QED
      BY <2>1, <3>1 DEF Find, StatusOf, Exists
  <2>2. CASE FindTags \/ Decide \/ UpdateUntag \/ UpdateTag
    <3>1. obs'.status = obs.status /\ des'.status = des.status
      BY <2>2 DEF FindTags, Decide, UpdateUntag, UpdateTag, TypeOK, Observed, Desired
    <3>2. pc \in Read
      BY <2>2 DEF FindTags, Decide, UpdateUntag, UpdateTag, Read
    <3> QED
      BY <3>1, <3>2 DEF VersionInv
  <2>3. CASE UpdateCall
    <3>1. obs' = obs /\ des'.status.id = des.status.id
      BY <2>3 DEF UpdateCall, TypeOK, Desired, Statuses
    <3> QED
      BY <2>3, <3>1 DEF VersionInv, Read, UpdateCall
  <2>4. CASE User \/ Meddler \/ UNCHANGED vars
    BY <2>4, OnlyFreshness DEF User, Meddler, vars, VersionInv
  <2>5. CASE \/ Reconcile \/ AddFinalizer \/ CreateCall \/ CreateTags \/ ReleaseFinalizer
             \/ DeleteCall \/ RemoveFinalizer \/ PatchStatus \/ Crash
    BY <2>5 DEF Reconcile, AddFinalizer, CreateCall, CreateTags, ReleaseFinalizer,
       DeleteCall, RemoveFinalizer, PatchStatus, Crash, Idle, CreateFailed, PostCreateFailed,
       Return, Goto, Read
  <2>6. CASE PatchSpec
    BY <2>6, PatchSpecKeeps DEF Read
  <2> QED
    BY <2>1, <2>2, <2>3, <2>4, <2>5, <2>6 DEF Next, Worker
<1>5. pc' \in {"find.tags", "decide", "update.call"} =>
        /\ des'.status.ver <= obs'.status.ver
        /\ AsRead'
  <2>1. CASE Find
    <3> SUFFICES ASSUME pc' \in {"find.tags", "decide", "update.call"}
                 PROVE  des'.status.ver <= obs'.status.ver /\ AsRead'
      OBVIOUS
    <3>1. /\ Exists(des.status.id)
          /\ obs'.status = StatusOf(des.status.id, checks[des.status.id].ver)
          /\ obs'.spec.cfg = checks[des.status.id].cfg
      BY <2>1, FindOutcome
    <3>2. des.status.ver <= checks[des.status.id].ver
      BY <3>1 DEF VersionInv, Sound, Held, Exists
    <3>3. UNCHANGED <<checks, des>>
      BY <2>1 DEF Find
    <3> QED
      BY <3>1, <3>2, <3>3 DEF StatusOf, AsRead
  <2>2. CASE FindTags \/ Decide
    <3>1. /\ obs'.status = obs.status /\ obs'.spec.cfg = obs.spec.cfg
          /\ des'.status = des.status
      BY <2>2 DEF FindTags, Decide, TypeOK, Observed, Desired
    <3>2. UNCHANGED checks /\ pc \in {"find.tags", "decide", "update.call"}
      BY <2>2 DEF FindTags, Decide
    <3> QED
      BY <3>1, <3>2 DEF VersionInv, AsRead, Exists
  <2>3. CASE User \/ Meddler \/ UNCHANGED vars
    <3>1. UNCHANGED <<pc, des, obs.spec, obs.status>>
      BY <2>3, OnlyFreshness DEF User, Meddler, vars
    <3>2. ASSUME AsRead, Sound(obs.status)
          PROVE  AsRead'
      <4> DEFINE c == obs.status.id
      <4> SUFFICES ASSUME c # NoId, checks'[c] # NoCheck, checks'[c].ver = obs.status.ver
                   PROVE  checks'[c].cfg = obs.spec.cfg
        BY <3>1 DEF AsRead, Exists
      <4>1. c \in CheckIds /\ obs.status.ver \in Nat
        BY HeldTypes DEF Statuses
      <4>2. CASE Kept(c)
        BY <3>2, <4>2 DEF Kept, AsRead, Exists
      <4>3. CASE Rewritten(c)
        <5>1. obs.status.ver <= checks[c].ver /\ checks[c].ver \in Nat
          BY <3>2, <4>1, <4>3 DEF Sound, Rewritten, Exists, TypeOK, Checks
        <5> QED
          BY <4>1, <4>3, <5>1 DEF Rewritten
      <4>4. ~Made(c)
        BY DEF Made, IdsInUse
      <4> QED
        BY <4>1, <4>2, <4>3, <4>4, Fate
    <3>3. Sound(obs.status)
      BY DEF VersionInv, Held
    <3> QED
      BY <3>1, <3>2, <3>3 DEF VersionInv
  <2>4. CASE \/ Reconcile \/ AddFinalizer \/ CreateCall \/ CreateTags \/ ReleaseFinalizer
             \/ UpdateCall \/ UpdateUntag \/ UpdateTag \/ DeleteCall \/ RemoveFinalizer
             \/ PatchStatus \/ Crash
    BY <2>4 DEF Reconcile, AddFinalizer, CreateCall, CreateTags, ReleaseFinalizer,
       UpdateCall, UpdateUntag, UpdateTag, DeleteCall, RemoveFinalizer, PatchStatus, Crash,
       Idle, CreateFailed, PostCreateFailed, UpdateFailed, Return, Goto
  <2>5. CASE PatchSpec
    BY <2>5, PatchSpecKeeps
  <2> QED
    BY <2>1, <2>2, <2>3, <2>4, <2>5 DEF Next, Worker
<1> QED
  BY <1>1, <1>2, <1>3, <1>4, <1>5 DEF VersionInv

-----------------------------------------------------------------------------
(* Who holds what exists *)

LEMMA ManagedInit == Init => ManagedInv
  BY DEF Init, Nothing, ManagedInv, Held, Exists, Unmade, Deleting, Nil, StatusOf

(* Only CreateHealthCheck brings a check into being, under a fresh ID.     *)
LEMMA ExistedBefore ==
  ASSUME TypeOK, SpecInv, [Next]_vars, NEW s, s \in Held', Exists(s.id)'
  PROVE  \/ \E t \in Held : t.id = s.id /\ Exists(s.id)
         \/ /\ CreateCall /\ s.id \notin IdsInUse /\ s.id \in CheckIds
            /\ checks'[s.id] \in Checks /\ checks[s.id] = NoCheck
<1>1. s \in Held \/ Answered(s)
  BY HeldOrigin
<1>2. s.id # NoId /\ checks'[s.id] # NoCheck
  BY DEF Exists
<1>3. CASE s \in Held
  <2>1. s.id \in CheckIds
    BY <1>2, <1>3, HeldTypes DEF Held, Statuses
  <2>2. ~Made(s.id)
    BY <1>3 DEF Made, IdsInUse, Held
  <2> QED
    BY <1>2, <1>3, <2>1, <2>2, Fate DEF Kept, Rewritten, Exists
<1>4. CASE s = Nil
  BY <1>2, <1>4 DEF Nil, StatusOf
<1>5. CASE Exists(des.status.id) /\ s.id = des.status.id
  BY <1>5 DEF Held
<1>6. CASE \E c \in CheckIds : /\ CreateCall /\ NewCheck(c) /\ s = StatusOf(c, 1)
                               /\ checks'[c] \in Checks
  BY <1>6 DEF StatusOf, NewCheck
<1>7. CASE Answered(s)
  <2>1. (UpdateCall /\ checks' # checks) => Exists(des.status.id)
    BY UpdateFate
  <2> QED
    BY <1>4, <1>5, <1>6, <1>7, <2>1 DEF Answered, StatusOf
<1> QED
  BY <1>1, <1>3, <1>7

(* While a reconciliation runs, only what the worker holds exists.         *)
LEMMA OnlyDesired ==
  ASSUME TypeOK, SpecInv, ManagedInv, [Next]_vars, ~CreateCall \/ UNCHANGED checks,
         NEW s, s \in Held', Exists(s.id)'
  PROVE  cr.fin /\ cr.phase # "gone" /\ Exists(s.id) /\ (pc # "idle" => s.id = des.status.id)
  BY ExistedBefore DEF ManagedInv

(* How the finalizer and the phase of the CR can change.                   *)
LEMMA SameCR ==
  ASSUME TypeOK, Worker, ~AddFinalizer, ~ReleaseFinalizer, ~RemoveFinalizer
  PROVE  cr'.fin = cr.fin /\ cr'.phase = cr.phase
<1>1. CASE PatchStatus
  BY <1>1 DEF PatchStatus, TypeOK, CRs
<1>2. CASE \/ Reconcile \/ Find \/ FindTags \/ Decide \/ CreateCall \/ CreateTags
           \/ UpdateCall \/ UpdateUntag \/ UpdateTag \/ DeleteCall
  BY <1>2 DEF Reconcile, Find, FindTags, Decide, CreateCall, CreateTags, UpdateCall,
     UpdateUntag, UpdateTag, DeleteCall, k8s
<1>3. CASE PatchSpec
  BY <1>3, PatchSpecKeeps
<1> QED
  BY <1>1, <1>2, <1>3 DEF Worker

LEMMA ManagedFind ==
  ASSUME TypeOK, SpecInv, VersionInv, ManagedInv, Reconcile \/ Find \/ FindTags \/ Decide
  PROVE  ManagedInv'
<1> DEFINE id == des.status.id
<1>1. ~CreateCall /\ [Next]_vars /\ cr'.fin = cr.fin /\ cr'.phase = cr.phase /\ checks' = checks
  BY DEF Reconcile, Find, FindTags, Decide, CreateCall, Next, Worker, k8s
<1>2. CASE Reconcile
  <2>1. /\ des'.status = cr.status /\ des'.fin = cr.fin /\ pc' = "find"
        /\ mode' = IF cr.phase = "deleting" THEN "delete" ELSE "sync"
        /\ UNCHANGED <<cr, obs.status, ret>> /\ cr.phase # "gone"
    BY <1>2, OnlyFreshness DEF Reconcile, Goto
  <2>2. obs.status = Nil /\ ret.status = Nil /\ ~Exists(Nil.id)
    BY <1>2 DEF Reconcile, VersionInv, Nil, StatusOf, Exists
  <2> QED
    BY <1>1, <2>1, <2>2 DEF ManagedInv, Held, Exists, Unmade, Deleting
<1>3. CASE Find \/ FindTags \/ Decide
  <2>1. /\ des'.status = des.status /\ des'.fin = des.fin /\ mode' = mode
        /\ pc \in {"find", "find.tags", "decide"}
    BY <1>3 DEF Find, FindTags, Decide, TypeOK, Desired
  <2>2. \/ pc' = "create.finalizer" /\ ~Exists(id)
        \/ pc' = "delete.finalizer" /\ ~Exists(id) /\ mode = "delete"
        \/ pc' \in {"find.tags", "decide", "update.call"}
        \/ pc' = "delete.call" /\ mode = "delete"
        \/ pc' = "patch" /\ (ret'.status.id = id \/ ~Exists(id))
    <3>1. ASSUME FindNotFound
          PROVE  \/ pc' = "create.finalizer"
                 \/ pc' = "delete.finalizer" /\ mode = "delete"
                 \/ pc' = "patch" /\ ret'.status.id = id
      <4>1. \/ Goto("create.finalizer")
            \/ Return(des.status, "notFound")
            \/ Goto("delete.finalizer") /\ mode = "delete"
        BY <3>1 DEF FindNotFound, TypeOK
      <4> QED
        BY <4>1, ReturnHolds DEF Goto
    <3>2. CASE Find
      BY <3>1, <3>2, ReturnHolds DEF Find, Goto
    <3>3. CASE FindTags
      BY <3>1, <3>3, ReturnHolds DEF FindTags, Goto
    <3>4. CASE Decide
      <4>1. obs.status.id = id
        BY <3>4 DEF Decide, VersionInv, Read
      <4> QED
        BY <3>4, <4>1, ReturnHolds DEF Decide, Goto
    <3> QED
      BY <1>3, <3>2, <3>3, <3>4
  <2>3. ASSUME NEW s, s \in Held', Exists(s.id)'
        PROVE  cr'.fin /\ cr'.phase # "gone" /\ s.id = des'.status.id
    BY <1>1, <2>1, <2>3, OnlyDesired
  <2>4. \A c : Exists(c)' <=> Exists(c)
    BY <1>1 DEF Exists
  <2> QED
    BY <1>1, <2>1, <2>2, <2>3, <2>4 DEF ManagedInv, Unmade, Deleting
<1> QED
  BY <1>2, <1>3

(* Route 53 accepts the tags of a new health check.  Where it refuses one, *)
(* the error does not reach the reconciler as a post-create one, and the   *)
(* finalizer may go while the health check stays.                          *)
TagsAccepted == pc = "create.tags" => des.spec.tags \cap BadTags = {}

LEMMA ManagedCreate ==
  ASSUME TagsAccepted, TypeOK, SpecInv, ManagedInv,
         AddFinalizer \/ CreateTags \/ ReleaseFinalizer
  PROVE  ManagedInv'
<1> DEFINE id == des.status.id
<1>1. ~CreateCall /\ [Next]_vars
  BY DEF AddFinalizer, CreateTags, ReleaseFinalizer, CreateCall, Next, Worker
<1>2. ASSUME NEW s, s \in Held', Exists(s.id)'
      PROVE  cr.fin /\ cr.phase # "gone" /\ s.id = id /\ Exists(id)
  BY <1>1, <1>2, OnlyDesired DEF AddFinalizer, CreateTags, ReleaseFinalizer
<1>3. CASE AddFinalizer
  <2>1. /\ des'.status = des.status /\ cr'.phase = cr.phase /\ UNCHANGED <<checks, mode>>
        /\ cr'.fin = cr.fin \/ cr'.fin = TRUE
    BY <1>3 DEF AddFinalizer, TypeOK, CRs, Desired
  <2>2. \/ pc' = "create.call" /\ cr.phase # "gone" /\ cr'.fin = TRUE /\ des'.fin = TRUE
        \/ pc' = "patch"
    <3>1. CASE NoFault /\ cr.phase # "gone"
      BY <1>3, <3>1 DEF AddFinalizer, TypeOK, CRs, Desired, Goto, Return
    <3>2. CASE Return(des.status, "plain")
      BY <3>2, ReturnHolds
    <3> QED
      BY <1>3, <3>1, <3>2 DEF AddFinalizer
  <2>3. ~Exists(id)
    BY <1>3 DEF AddFinalizer, ManagedInv, Unmade
  <2> QED
    BY <1>2, <2>1, <2>2, <2>3 DEF ManagedInv, Exists, Unmade, Deleting
<1>4. CASE CreateTags
  <2>1. UNCHANGED <<cr, des>> /\ des.fin /\ cr.fin /\ cr.phase # "gone"
    BY <1>4 DEF CreateTags, k8s, ManagedInv
  <2>2. \/ pc' = "find" /\ mode' = "post"
        \/ pc' = "patch" /\ ret'.status = des.status
    <3>1. KeysOf(des.spec.tags) \cap AwsKeys = {} /\ des.spec.tags \cap BadTags = {}
      BY <1>4 DEF CreateTags, SpecInv, Unread, TagsAccepted
    <3>2. CASE \E err \in {"NoSuchHealthCheck", "OtherAPIError"} : PostCreateFailed(err)
      <4>1. PICK err \in {"NoSuchHealthCheck", "OtherAPIError"} : PostCreateFailed(err)
        BY <3>2
      <4>2. ConditionAfter(err) # "Terminal"
        BY <4>1 DEF ConditionAfter, ConditionOf, TerminalCodes, ErrorCode, BatchErrors
      <4> QED
        BY <4>1, <4>2 DEF PostCreateFailed, CreateFailed, Result
    <3> QED
      BY <1>4, <3>1, <3>2 DEF CreateTags, TagsAnswer, Goto
  <2> QED
    BY <1>2, <2>1, <2>2 DEF ManagedInv, Exists, Unmade, Deleting
<1>5. CASE ReleaseFinalizer
  <2>1. ~Exists(id) /\ UNCHANGED <<checks, des, mode>> /\ pc' = "patch"
    BY <1>5 DEF ReleaseFinalizer, ManagedInv, Unmade, Goto
  <2>2. cr'.phase = "deleting" => cr'.fin
    BY <1>5 DEF ReleaseFinalizer, ManagedInv, TypeOK, CRs
  <2> QED
    BY <1>2, <2>1, <2>2 DEF ManagedInv, Exists, Unmade, Deleting
<1> QED
  BY <1>3, <1>4, <1>5

(* The ID of a created check reaches desired, or nobody.                   *)
LEMMA ManagedCreateCall ==
  ASSUME TypeOK, SpecInv, ManagedInv, CreateCall
  PROVE  ManagedInv'
<1> DEFINE id == des.status.id
<1>1. [Next]_vars /\ cr' = cr /\ mode' = mode /\ pc = "create.call"
  BY DEF CreateCall, Next, Worker, k8s
<1>2. cr.fin /\ cr.phase # "gone" /\ des.fin /\ ~Exists(id)
  BY <1>1 DEF ManagedInv, Unmade
<1>3. \A t \in Held : ~Exists(t.id)
  BY <1>1, <1>2 DEF ManagedInv
<1>4. ASSUME NEW s, s \in Held', Exists(s.id)'
      PROVE  s.id \notin IdsInUse
  BY <1>1, <1>3, <1>4, ExistedBefore
<1>5. UNCHANGED <<cr, obs>>
  BY DEF CreateCall, k8s
<1>6. CASE des' = des /\ ret'.status = des.status /\ pc' \in {"patch", "create.release"}
  <2>1. \A s \in Held' : s.id \in IdsInUse
    BY <1>5, <1>6 DEF Held, IdsInUse
  <2>2. \A s \in Held' : ~Exists(s.id)'
    BY <1>4, <2>1
  <2>3. ~Exists(des.status.id)'
    BY <2>2 DEF Held
  <2> QED
    BY <1>1, <1>2, <1>6, <2>2, <2>3 DEF ManagedInv, Unmade, Deleting, Exists
<1>7. CASE pc' = "create.tags" /\ ret' = ret /\ \E c \in CheckIds :
             NewCheck(c) /\ des' = [des EXCEPT !.status = StatusOf(c, 1)]
  <2>1. des'.fin = des.fin
    BY <1>7 DEF TypeOK, Desired
  <2>2. ASSUME NEW s, s \in Held', Exists(s.id)'
        PROVE  s.id = des'.status.id
    <3>1. s \in Held \/ s = des'.status
      BY <1>5, <1>7, <2>2 DEF Held
    <3>2. s \in Held => s.id \in IdsInUse
      BY DEF Held, IdsInUse
    <3> QED
      BY <1>4, <2>2, <3>1, <3>2
  <2> QED
    BY <1>1, <1>2, <1>7, <2>1, <2>2 DEF ManagedInv, Unmade, Deleting
<1>8. CASE \E err : CreateFailed(des.status, err, FALSE) /\ UNCHANGED des
  BY <1>6, <1>8, CreateFailedHolds
<1> QED
  BY <1>7, <1>8 DEF CreateCall, Goto

LEMMA ManagedUpdate ==
  ASSUME TypeOK, SpecInv, VersionInv, ManagedInv,
         UpdateCall \/ UpdateUntag \/ UpdateTag \/ DeleteCall
  PROVE  ManagedInv'
<1> DEFINE id == des.status.id
<1>1. ~CreateCall /\ [Next]_vars /\ cr' = cr /\ mode' = mode /\ pc \in Read /\ pc # "idle"
  BY DEF UpdateCall, UpdateUntag, UpdateTag, DeleteCall, CreateCall, Next, Worker, k8s, Read
<1>2. obs.status.id = id
  BY <1>1 DEF VersionInv
<1>3. des'.status.id = id /\ des'.fin = des.fin
  BY DEF UpdateCall, UpdateUntag, UpdateTag, DeleteCall, TypeOK, Desired, Statuses
<1>4. ASSUME NEW s, s \in Held', Exists(s.id)'
      PROVE  cr.fin /\ cr.phase # "gone" /\ s.id = id
  BY <1>1, <1>4, OnlyDesired
<1>5. \/ pc' = "patch" /\ ret'.status.id = id
      \/ pc' \in {"update.untag", "update.tag", "patch.spec"}
      \/ pc' = "delete.finalizer" /\ ~Exists(id)' /\ cr.phase = "deleting"
  <2>1. CASE UpdateCall
    BY <1>2, <1>3, <2>1, ReturnHolds DEF UpdateCall, UpdateFailed, Goto
  <2>2. CASE UpdateUntag \/ UpdateTag
    BY <1>2, <2>2, ReturnHolds DEF UpdateUntag, UpdateTag, UpdateFailed, Goto
  <2>3. CASE DeleteCall
    <3>1. cr.phase = "deleting"
      BY <2>3 DEF DeleteCall, ManagedInv, Deleting
    <3>2. \/ \E err : Return(obs.status, err)
          \/ Exists(id) /\ checks' = [checks EXCEPT ![id] = NoCheck] /\ pc' = "delete.finalizer"
      BY <2>3 DEF DeleteCall, Goto
    <3>4. des' = des
      BY <2>3 DEF DeleteCall
    <3>3. Exists(id) => id \in CheckIds
      BY HeldTypes
    <3> QED
      BY <1>2, <3>1, <3>2, <3>3, <3>4, ReturnHolds DEF Exists, TypeOK
  <2> QED
    BY <2>1, <2>2, <2>3
<1>6. des.fin => cr.fin /\ cr.phase # "gone"
  BY <1>1 DEF ManagedInv, Read
<1> QED
  BY <1>1, <1>3, <1>4, <1>5, <1>6 DEF ManagedInv, Unmade, Deleting, Exists

LEMMA ManagedPatchSpec ==
  ASSUME TypeOK, SpecInv, ManagedInv, PatchSpec
  PROVE  ManagedInv'
<1>1. ~CreateCall /\ [Next]_vars
  BY DEF PatchSpec, CreateCall, Next, Worker
<1>2. ASSUME NEW s, s \in Held', Exists(s.id)'
      PROVE  cr.fin /\ cr.phase # "gone" /\ s.id = des.status.id
  BY <1>1, <1>2, PatchSpecKeeps, OnlyDesired
<1> QED
  BY <1>2, PatchSpecKeeps DEF ManagedInv, Unmade, Deleting

LEMMA ManagedFinish ==
  ASSUME TypeOK, SpecInv, VersionInv, ManagedInv, RemoveFinalizer \/ PatchStatus \/ Crash
  PROVE  ManagedInv'
<1> DEFINE id == des.status.id
<1>1. [Next]_vars /\ checks' = checks
  BY DEF RemoveFinalizer, PatchStatus, Crash, Next, Worker
<1>2. ASSUME NEW s, s \in Held', Exists(s.id)'
      PROVE  cr.fin /\ cr.phase # "gone" /\ Exists(s.id) /\ (pc # "idle" => s.id = id)
  BY <1>1, <1>2, OnlyDesired
<1>3. CASE RemoveFinalizer
  <2>1. ~Exists(id) /\ cr.phase = "deleting" /\ pc # "idle"
    BY <1>3 DEF RemoveFinalizer, ManagedInv, Unmade, Deleting
  <2>2. \A s \in Held' : ~Exists(s.id)'
    BY <1>2, <2>1
  <2>3. \/ Idle /\ cr'.phase = "gone"
        \/ pc' = "patch" /\ UNCHANGED <<cr, des>>
    <3>1. CASE Idle
      BY <1>3, <2>1, <3>1 DEF RemoveFinalizer, TypeOK, CRs, Return, Idle
    <3>2. CASE Return(des.status, "plain") /\ UNCHANGED <<cr, des>>
      BY <3>2, ReturnHolds
    <3> QED
      BY <1>3, <3>1, <3>2 DEF RemoveFinalizer
  <2> QED
    BY <1>1, <2>1, <2>2, <2>3 DEF ManagedInv, Unmade, Deleting, Exists, Idle
<1>4. CASE PatchStatus \/ Crash
  <2>1. Idle /\ cr'.fin = cr.fin /\ cr'.phase = cr.phase
    BY <1>4 DEF PatchStatus, Crash, TypeOK, CRs
  <2> QED
    BY <1>1, <1>2, <2>1 DEF ManagedInv, Unmade, Deleting, Idle
<1> QED
  BY <1>3, <1>4

LEMMA ManagedEnvironment ==
  ASSUME TypeOK, SpecInv, VersionInv, ManagedInv, User \/ Meddler \/ UNCHANGED vars
  PROVE  ManagedInv'
<1> DEFINE id == des.status.id
<1>1. /\ [Next]_vars /\ UNCHANGED <<pc, mode, des, obs.status, ret>>
      /\ (~CreateCall \/ UNCHANGED checks)
  BY OnlyFreshness DEF User, Meddler, Next, vars, CreateCall, Goto, CreateFailed
<1>2. ASSUME NEW s, s \in Held', Exists(s.id)'
      PROVE  cr.fin /\ cr.phase # "gone" /\ Exists(s.id) /\ (pc # "idle" => s.id = id)
  BY <1>1, <1>2, OnlyDesired
<1>3. Exists(des.status.id)' => Exists(des.status.id)
  <2>1. des'.status \in Held'
    BY DEF Held
  <2> QED
    BY <1>1, <1>2, <2>1
<1>4. CASE User
  <2>1. \/ cr.phase = "gone" /\ cr'.phase = "live"
        \/ cr.phase = "live" /\ cr'.phase = "live" /\ cr'.fin = cr.fin
        \/ cr.phase = "live" /\ cr'.fin = cr.fin
           /\ cr'.phase = (IF cr.fin THEN "deleting" ELSE "gone")
    <3>1. CASE cr.phase = "gone" /\ \E s \in Specs :
                 cr' = [phase |-> "live", fin |-> FALSE, spec |-> s, status |-> Nil, cond |-> "none"]
      BY <3>1
    <3>2. CASE cr.phase = "live" /\ \E s \in Specs \ {cr.spec} : cr' = [cr EXCEPT !.spec = s]
      BY <3>2 DEF TypeOK, CRs
    <3>3. CASE /\ cr.phase = "live"
               /\ cr' = [cr EXCEPT !.phase = IF cr.fin THEN "deleting" ELSE "gone"]
      BY <3>3 DEF TypeOK, CRs
    <3> QED
      BY <1>4, <3>1, <3>2, <3>3, Zenon DEF User
  <2> QED
    BY <1>1, <1>2, <1>3, <2>1 DEF ManagedInv, Unmade, Deleting
<1>5. CASE UNCHANGED cr
  BY <1>1, <1>2, <1>3, <1>5 DEF ManagedInv, Unmade, Deleting
<1> QED
  BY <1>4, <1>5 DEF Meddler, vars

LEMMA ManagedStep ==
  TypeOK /\ SpecInv /\ VersionInv /\ ManagedInv /\ TagsAccepted /\ [Next]_vars => ManagedInv'
  BY ManagedFind, ManagedCreate, ManagedCreateCall, ManagedUpdate, ManagedPatchSpec,
     ManagedFinish, ManagedEnvironment DEF Next, Worker

-----------------------------------------------------------------------------
(* The check as a whole while nobody else works on it *)

LEMMA OnePerKeyKept ==
  ASSUME NEW s, NEW t, NEW keys, OnePerKey(s), OnePerKey(t)
  PROVE  /\ OnePerKey(EnsureTags(s, DefaultTags)) /\ OnePerKey(mirrorAWSTags(s, t))
         /\ OnePerKey(Tagged(s, t)) /\ OnePerKey(Untagged(s, keys)) /\ OnePerKey(toAdd(t, s))
  BY DEF OnePerKey, EnsureTags, mirrorAWSTags, Tagged, Untagged, toAdd, WithoutKeys, KeysOf

(* One call that removes keys and one that adds pairs make the tags that   *)
(* were read into the ones that are wanted.                                *)
LEMMA TagsSynced ==
  ASSUME NEW want, NEW have, OnePerKey(want), OnePerKey(have)
  PROVE  /\ Untagged(have, toDeleteTagKeys(want, have)) = want \cap have
         /\ Tagged(want \cap have, toAdd(want, have)) = want
         /\ toDeleteTagKeys(want, have) = {} => have \subseteq want
<1>1. ASSUME NEW t \in have
      PROVE  t \notin want <=> t[1] \in toDeleteTagKeys(want, have)
  BY <1>1 DEF OnePerKey, toDeleteTagKeys, KeysOf
<1>2. Untagged(have, toDeleteTagKeys(want, have)) = want \cap have
  BY <1>1 DEF Untagged, WithoutKeys
<1>3. Tagged(want \cap have, toAdd(want, have)) = want
  BY DEF Tagged, WithoutKeys, KeysOf, toAdd, OnePerKey
<1>4. toDeleteTagKeys(want, have) = {} => have \subseteq want
  BY <1>1
<1> QED
  BY <1>2, <1>3, <1>4

LEMMA KeysInit == Init => KeysInv
  BY DEF Init, Nothing, NoSpec, KeysInv, OnePerKey

LEMMA Retagged ==
  ASSUME TypeOK, NEW c \in CheckIds, Exists(c), NEW tags \in SUBSET AllTags, Retag(c, tags)
  PROVE  /\ checks'[c] = [cfg |-> checks[c].cfg, latency |-> checks[c].latency,
                          ver |-> checks[c].ver, tags |-> tags]
         /\ checks'[c] # NoCheck
<1>1. checks[c] \in Checks
  BY DEF TypeOK, Exists
<1>2. checks'[c] = [checks[c] EXCEPT !.tags = tags]
  BY DEF Retag, TypeOK
<1>3. checks'[c] = [cfg |-> checks[c].cfg, latency |-> checks[c].latency,
                    ver |-> checks[c].ver, tags |-> tags]
  BY <1>1, <1>2 DEF Checks
<1>4. checks'[c] # NoCheck
  BY RetagType
<1> QED
  BY <1>3, <1>4

(* The calls write tag lists with one value for a key.                     *)
LEMMA KeysWritten ==
  ASSUME TypeOK, SpecInv, KeysInv, [Next]_vars, NEW c \in CheckIds, checks'[c] # NoCheck
  PROVE  OnePerKey(checks'[c].tags)
<1> DEFINE id == des.status.id
           keys == toDeleteTagKeys(des.spec.tags, obs.spec.tags)
           more == toAdd(des.spec.tags, obs.spec.tags)
<1>1. checks[c] # NoCheck => OnePerKey(checks[c].tags)
  BY DEF KeysInv
<1>2. /\ OnePerKey(SystemTags) /\ OnePerKey(des.spec.tags) /\ OnePerKey({})
      /\ OnePerKey(more)
  <2>1. OnePerKey(des.spec.tags) /\ OnePerKey(obs.spec.tags)
    BY DEF KeysInv
  <2>2. OnePerKey({})
    BY DEF OnePerKey
  <2> QED
    BY <2>1, <2>2, OnePerKeyKept
<1>3. CASE UNCHANGED checks
  BY <1>1, <1>3
<1>4. CASE CreateCall /\ \E d \in CheckIds : NewCheck(d) /\ fitsInt32(des.spec.cfg)
  <2>1. PICK d \in CheckIds : NewCheck(d) /\ fitsInt32(des.spec.cfg)
    BY <1>4
  <2>2. checks'[d].tags = {} /\ (c # d => checks'[c] = checks[c])
    BY <2>1, NewCheckType
  <2> QED
    BY <1>1, <1>2, <2>2
<1>5. ASSUME NEW k \in CheckIds, Exists(k), NEW tags \in SUBSET AllTags, Retag(k, tags),
             OnePerKey(tags)
      PROVE  OnePerKey(checks'[c].tags)
  <2>1. checks'[k] = [cfg |-> checks[k].cfg, latency |-> checks[k].latency,
                      ver |-> checks[k].ver, tags |-> tags]
    BY <1>5, Retagged
  <2>2. c # k => checks'[c] = checks[c]
    BY <1>5, RetagType
  <2> QED
    BY <1>1, <1>5, <2>1, <2>2
<1>6. ASSUME NEW k \in CheckIds, Exists(k)
      PROVE  /\ OnePerKey(checks[k].tags) /\ checks[k].tags \in SUBSET AllTags
             /\ SystemTags \in SUBSET AllTags
  BY <1>6 DEF KeysInv, Exists, TypeOK, Checks, AllTags
<1>7. CASE CreateTags \/ UpdateUntag \/ UpdateTag
  <2>1. CASE Exists(id) /\ \E tags \in {des.spec.tags, Untagged(checks[id].tags, keys),
                                        Tagged(checks[id].tags, more)} : Retag(id, tags)
    <3>1. id \in CheckIds /\ more \in SUBSET AllTags /\ des.spec.tags \in SUBSET AllTags
      BY <2>1, HeldTypes, TagTypes
    <3>2. \A tags \in {des.spec.tags, Untagged(checks[id].tags, keys),
                       Tagged(checks[id].tags, more)} : tags \in SUBSET AllTags /\ OnePerKey(tags)
      BY <1>2, <1>6, <2>1, <3>1, TagTypes, OnePerKeyKept
    <3> QED
      BY <1>5, <2>1, <3>1, <3>2
  <2>2. CASE CreateTags
    BY <1>3, <2>1, <2>2 DEF CreateTags, TagsAnswer
  <2>3. CASE UpdateUntag
    BY <1>3, <2>1, <2>3 DEF UpdateUntag, TagsAnswer
  <2>4. CASE UpdateTag
    BY <1>3, <2>1, <2>4 DEF UpdateTag, TagsAnswer
  <2> QED
    BY <1>7, <2>2, <2>3, <2>4
<1>8. ASSUME NEW k \in CheckIds, Exists(k), NEW x \in MinInt32..MaxInt32, Rewrite(k, x)
      PROVE  OnePerKey(checks'[c].tags)
  <2>1. checks'[k] = [checks[k] EXCEPT !.cfg = x, !.ver = @ + 1] /\ checks[k] \in Checks
    BY <1>8, RewriteType DEF TypeOK, Exists
  <2>2. checks'[k].tags = checks[k].tags
    BY <2>1 DEF Checks
  <2> QED
    BY <1>1, <1>6, <1>8, <2>2, RewriteType
<1>9. CASE UpdateCall /\ checks' # checks
  <2>1. id \in CheckIds /\ Exists(id) /\ fitsInt32(des.spec.cfg)
    BY <1>9, UpdateFate
  <2>2. Rewrite(id, int32(des.spec.cfg)) /\ int32(des.spec.cfg) \in MinInt32..MaxInt32
    BY <1>9, <2>1, HeldTypes, Int32IsExact DEF UpdateCall
  <2> QED
    BY <1>8, <2>1, <2>2
<1>10. CASE DeleteCall
  BY <1>1, <1>10 DEF DeleteCall, TypeOK
<1>11. CASE Meddler
  <2>1. PICK k \in {cr.status.id, des.status.id} :
          /\ Exists(k)
          /\ \/ \E x \in Wanted \ Bad : fitsInt32(x) /\ x # checks[k].cfg /\ Rewrite(k, x)
             \/ Retag(k, Tagged(checks[k].tags, SystemTags))
             \/ checks' = [checks EXCEPT ![k] = NoCheck]
    BY <1>11 DEF Meddler
  <2>2. k \in CheckIds
    BY <2>1, HeldTypes
  <2>3. CASE \E x \in Wanted \ Bad : fitsInt32(x) /\ x # checks[k].cfg /\ Rewrite(k, x)
    BY <1>8, <2>1, <2>2, <2>3, Int32IsExact
  <2>4. CASE Retag(k, Tagged(checks[k].tags, SystemTags))
    <3>1. /\ Tagged(checks[k].tags, SystemTags) \in SUBSET AllTags
          /\ OnePerKey(Tagged(checks[k].tags, SystemTags))
      BY <1>2, <1>6, <2>1, <2>2, TagTypes, OnePerKeyKept
    <3> QED
      BY <1>5, <2>1, <2>2, <2>4, <3>1
  <2>5. CASE checks' = [checks EXCEPT ![k] = NoCheck]
    BY <1>1, <2>5 DEF TypeOK
  <2> QED
    BY <2>1, <2>3, <2>4, <2>5
<1>12. CASE \/ Reconcile \/ Find \/ FindTags \/ Decide \/ AddFinalizer \/ ReleaseFinalizer
            \/ PatchSpec \/ RemoveFinalizer \/ PatchStatus \/ User \/ Crash \/ UNCHANGED vars
  BY <1>3, <1>12 DEF Reconcile, Find, FindTags, Decide, AddFinalizer, ReleaseFinalizer,
     PatchSpec, RemoveFinalizer, PatchStatus, User, Crash, vars
<1>13. CASE CreateCall
  BY <1>3, <1>4, <1>13 DEF CreateCall
<1> QED
  BY <1>3, <1>7, <1>9, <1>10, <1>11, <1>12, <1>13 DEF Next, Worker

LEMMA KeysStep == TypeOK /\ SpecInv /\ KeysInv /\ [Next]_vars => KeysInv'
<1> SUFFICES ASSUME TypeOK, SpecInv, KeysInv, [Next]_vars PROVE KeysInv'
  OBVIOUS
<1>1. \A c \in CheckIds : checks'[c] # NoCheck => OnePerKey(checks'[c].tags)
  BY KeysWritten
<1>2. OnePerKey(cr.spec.tags) /\ OnePerKey(des.spec.tags) /\ OnePerKey(obs.spec.tags)
  BY DEF KeysInv
<1>3. OnePerKey({})
  BY DEF OnePerKey
<1>4. CASE Reconcile
  <2>1. des'.spec.tags = EnsureTags(cr.spec.tags, DefaultTags) /\ cr' = cr
        /\ obs'.spec = obs.spec
    BY <1>4, OnlyFreshness DEF Reconcile, TypeOK, CRs
  <2>2. OnePerKey(EnsureTags(cr.spec.tags, DefaultTags))
    BY <1>2, OnePerKeyKept
  <2> QED
    BY <1>1, <1>2, <2>1, <2>2 DEF KeysInv
<1>5. CASE Find
  <2>1. UNCHANGED <<cr, des>>
    BY <1>5 DEF Find, k8s
  <2>2. obs'.spec.tags = obs.spec.tags \/ obs'.spec.tags = {}
    <3>1. ASSUME NEW cfg, NEW latency, NEW s,
                 obs' = [obs EXCEPT !.spec = [cfg |-> cfg, latency |-> latency, tags |-> {}],
                                    !.status = s]
          PROVE  obs'.spec.tags = {}
      BY <3>1 DEF TypeOK, Observed
    <3> QED
      BY <1>5, <3>1 DEF Find
  <2> QED
    BY <1>1, <1>2, <1>3, <2>1, <2>2 DEF KeysInv
<1>6. CASE FindTags
  <2>1. CASE UNCHANGED <<cr, des, obs>>
    BY <1>1, <1>2, <2>1 DEF KeysInv
  <2>2. CASE /\ cr' = cr /\ Exists(des.status.id)
             /\ obs' = [obs EXCEPT !.spec.tags = checks[des.status.id].tags]
             /\ des' = [des EXCEPT !.spec.tags = mirrorAWSTags(@, obs'.spec.tags)]
    <3>1. /\ obs'.spec.tags = checks[des.status.id].tags
          /\ des'.spec.tags = mirrorAWSTags(des.spec.tags, obs'.spec.tags)
      BY <2>2 DEF TypeOK, Observed, Desired
    <3>2. OnePerKey(obs'.spec.tags)
      BY <2>2, <3>1, HeldTypes DEF KeysInv, Exists
    <3>3. OnePerKey(des'.spec.tags)
      BY <1>2, <3>1, <3>2, OnePerKeyKept
    <3> QED
      BY <1>1, <1>2, <2>2, <3>2, <3>3 DEF KeysInv
  <2> QED
    BY <1>6, <2>1, <2>2 DEF FindTags, k8s
<1>7. CASE \/ Decide \/ AddFinalizer \/ CreateCall \/ CreateTags \/ ReleaseFinalizer
           \/ UpdateCall \/ UpdateUntag \/ UpdateTag \/ DeleteCall
  <2>1. CASE Decide \/ AddFinalizer \/ CreateCall \/ CreateTags \/ ReleaseFinalizer
    <3>1. cr'.spec = cr.spec /\ des'.spec = des.spec /\ obs' = obs
      BY <2>1 DEF Decide, AddFinalizer, CreateCall, CreateTags, ReleaseFinalizer, k8s, TypeOK,
         CRs, Desired
    <3> QED
      BY <1>1, <1>2, <3>1 DEF KeysInv
  <2>2. CASE UpdateCall \/ UpdateUntag \/ UpdateTag \/ DeleteCall
    <3>1. cr' = cr /\ des'.spec = des.spec /\ obs' = obs
      BY <2>2 DEF UpdateCall, UpdateUntag, UpdateTag, DeleteCall, k8s, TypeOK, Desired
    <3> QED
      BY <1>1, <1>2, <3>1 DEF KeysInv
  <2> QED
    BY <1>7, <2>1, <2>2
<1>8. CASE RemoveFinalizer \/ PatchStatus \/ Crash
  <2>1. cr'.spec = cr.spec
    BY <1>8 DEF RemoveFinalizer, PatchStatus, Crash, TypeOK, CRs
  <2>2. \/ UNCHANGED <<des, obs>>
        \/ des'.spec.tags = {} /\ obs'.spec.tags = {}
    BY <1>8 DEF RemoveFinalizer, PatchStatus, Crash, Idle, Nothing, NoSpec
  <2> QED
    BY <1>1, <1>2, <1>3, <2>1, <2>2 DEF KeysInv
<1>9. CASE User
  <2>1. OnePerKey(cr'.spec.tags)
    <3>0. \A s \in Specs : OnePerKey(s.tags)
      BY SpecsAssumption
    <3>1. CASE \E s \in Specs : cr' = [phase |-> "live", fin |-> FALSE, spec |-> s,
                                       status |-> Nil, cond |-> "none"]
      BY <3>0, <3>1
    <3>2. CASE \E s \in Specs \ {cr.spec} : cr' = [cr EXCEPT !.spec = s]
      BY <3>0, <3>2 DEF TypeOK, CRs
    <3>3. CASE cr' = [cr EXCEPT !.phase = IF cr.fin THEN "deleting" ELSE "gone"]
      BY <1>2, <3>3 DEF TypeOK, CRs
    <3> QED
      BY <1>9, <3>1, <3>2, <3>3, Zenon DEF User
  <2>2. UNCHANGED <<des, obs>>
    BY <1>9 DEF User
  <2> QED
    BY <1>1, <1>2, <2>1, <2>2 DEF KeysInv
<1>10. CASE Meddler \/ UNCHANGED vars
  <2>1. UNCHANGED <<cr, des, obs.spec>>
    BY <1>10, OnlyFreshness DEF Meddler, vars
  <2> QED
    BY <1>1, <1>2, <2>1 DEF KeysInv
<1>11. CASE PatchSpec
  BY <1>1, <1>2, <1>11, PatchSpecKeeps DEF KeysInv
<1> QED
  BY <1>4, <1>5, <1>6, <1>7, <1>8, <1>9, <1>10, <1>11 DEF Next, Worker

LEMMA SettledInit == Init => SettledInv
  BY DEF Init, SettledInv, SyncedReflects, Nothing

(* Where the worker is when it has nothing to say about the check.         *)
Elsewhere == {"idle", "create.finalizer", "create.call", "delete.call", "delete.finalizer"}

LEMMA SettledElsewhere ==
  ASSUME pc' \in Elsewhere \/ (pc' \in {"patch", "create.release"} /\ ret'.cond # "Synced")
  PROVE  SettledInv'
  BY DEF SettledInv, SyncedReflects, Elsewhere

(* An error is not reported as Synced. *)
LEMMA ErrorTells ==
  ASSUME NEW status, NEW err, NEW marked, err # "none"
  PROVE  Return(status, err) \/ CreateFailed(status, err, marked) => SettledInv'
<1>1. Result(status, err, FALSE).cond # "Synced" /\ Result(status, err, marked).cond # "Synced"
  BY DEF Result, ConditionAfter, ConditionOf
<1> QED
  BY <1>1, SettledElsewhere DEF Return, CreateFailed

LEMMA SettledRead ==
  ASSUME TypeOK, SpecInv, KeysInv, SettledInv, Reconcile \/ Find \/ FindTags
  PROVE  SettledInv'
<1> DEFINE id == des.status.id
           s == des.status
<1>0. FindNotFound \/ Return(s, "OtherAPIError") => SettledInv'
  BY ErrorTells, SettledElsewhere DEF FindNotFound, Goto, TypeOK, Elsewhere
<1>1. CASE Reconcile
  <2>1. pc' = "find" /\ mode' # "post"
    BY <1>1 DEF Reconcile, Goto
  <2> QED
    BY <2>1 DEF SettledInv, SyncedReflects
<1>2. CASE Find
  <2>1. CASE /\ pc' = "find.tags" /\ Exists(id)
             /\ obs' = [obs EXCEPT !.spec = [cfg |-> checks[id].cfg,
                                             latency |-> checks[id].latency, tags |-> {}],
                                   !.status = StatusOf(id, checks[id].ver)]
    <3>1. UNCHANGED <<checks, des, mode>> /\ pc = "find"
      BY <1>2, <2>1 DEF Find
    <3>2. /\ obs'.fresh = obs.fresh /\ obs'.spec.cfg = checks[id].cfg
          /\ obs'.spec.latency = checks[id].latency /\ obs'.status.ver = checks[id].ver
      BY <2>1 DEF TypeOK, Observed, StatusOf
    <3>3. checks[id] = [cfg |-> checks[id].cfg, latency |-> checks[id].latency,
                        ver |-> checks[id].ver, tags |-> checks[id].tags]
      BY <2>1, HeldTypes DEF Checks
    <3> QED
      BY <2>1, <3>1, <3>2, <3>3 DEF SettledInv, SyncedReflects, Holding, Exists
  <2> QED
    BY <1>0, <1>2, <2>1 DEF Find, Goto
<1>3. CASE FindTags
  <2>1. CASE /\ pc' = "decide" /\ Exists(id)
             /\ obs' = [obs EXCEPT !.spec.tags = checks[id].tags]
             /\ des' = [des EXCEPT !.spec.tags = mirrorAWSTags(@, obs'.spec.tags)]
    <3>1. /\ UNCHANGED <<checks, mode>> /\ pc = "find.tags"
          /\ KeysOf(des.spec.tags) \cap AwsKeys = {}
      BY <1>3 DEF FindTags, SpecInv, Unread
    <3>2. /\ obs'.fresh = obs.fresh /\ obs'.spec.tags = checks[id].tags
          /\ obs'.spec.cfg = obs.spec.cfg /\ obs'.spec.latency = obs.spec.latency
          /\ obs'.status = obs.status
      BY <2>1 DEF TypeOK, Observed
    <3>3. /\ des'.status = s /\ des'.spec.cfg = des.spec.cfg
          /\ des'.spec.latency = des.spec.latency
          /\ des'.spec.tags = mirrorAWSTags(des.spec.tags, checks[id].tags)
      BY <2>1, <3>2 DEF TypeOK, Desired
    <3>4. checks[id].tags = des.spec.tags => des'.spec.tags = des.spec.tags
      BY <3>1, <3>3 DEF mirrorAWSTags, WithoutKeys, KeysOf
    <3>5. Holding(des.spec.cfg, des.spec.latency, 1, des.spec.tags) => checks[id].tags = des.spec.tags
      BY DEF Holding
    <3>6. obs.fresh =>
            /\ Holding(obs.spec.cfg, obs.spec.latency, obs.status.ver, checks[id].tags)
            /\ mode = "post" => Holding(des.spec.cfg, des.spec.latency, 1, des.spec.tags)
      BY <3>1 DEF SettledInv
    <3> QED
      BY <2>1, <3>1, <3>2, <3>3, <3>4, <3>5, <3>6 DEF SettledInv, SyncedReflects, Holding, Exists
  <2> QED
    BY <1>0, <1>3, <2>1 DEF FindTags, Goto
<1> QED
  BY <1>1, <1>2, <1>3

(* What ReadOne found and the reconciler leaves alone is as it was asked.  *)
LEMMA SettledDecide ==
  ASSUME TypeOK, SettledInv, Decide
  PROVE  SettledInv'
<1>1. UNCHANGED <<checks, mode, des, obs>> /\ pc = "decide"
  BY DEF Decide
<1>2. ASSUME obs.fresh
      PROVE  /\ Holding(obs.spec.cfg, obs.spec.latency, obs.status.ver, obs.spec.tags)
             /\ mode = "post" => Holding(des.spec.cfg, des.spec.latency, 1, des.spec.tags)
  BY <1>1, <1>2 DEF SettledInv
<1>3. CASE Return(obs.status, "terminalError")
  BY <1>3, ErrorTells
<1>4. CASE Return(obs.status, "none") /\ (mode = "post" \/ ~newResourceDelta)
  <2>1. pc' = "patch" /\ ret'.status = obs.status
    BY <1>4 DEF Return, Result
  <2>2. obs.fresh => Holding(des.spec.cfg, des.spec.latency, obs.status.ver, des.spec.tags)
    <3>1. CASE mode = "post"
      BY <1>2, <3>1 DEF Holding
    <3>2. CASE ~newResourceDelta
      BY <1>2, <3>2 DEF newResourceDelta, compareTags
    <3> QED
      BY <1>4, <3>1, <3>2
  <2> QED
    BY <1>1, <2>1, <2>2 DEF SettledInv, SyncedReflects, Holding, Exists
<1>5. CASE pc' \in {"delete.call", "update.call"}
  BY <1>1, <1>2, <1>5 DEF SettledInv, SyncedReflects, Holding, Exists
<1> QED
  BY <1>3, <1>4, <1>5 DEF Decide, Goto

(* A new check has the configuration asked for, and then the tags.         *)
LEMMA SettledCreate ==
  ASSUME TypeOK, SettledInv, AddFinalizer \/ CreateCall \/ CreateTags \/ ReleaseFinalizer
  PROVE  SettledInv'
<1> DEFINE id == des.status.id
<1>1. CASE AddFinalizer
  BY <1>1, ErrorTells, SettledElsewhere DEF AddFinalizer, Goto, Elsewhere
<1>2. CASE CreateCall
  <2>1. CASE /\ pc' = "create.tags" /\ fitsInt32(des.spec.cfg)
             /\ \E c \in CheckIds : NewCheck(c) /\ des' = [des EXCEPT !.status = StatusOf(c, 1)]
    <3>1. PICK c \in CheckIds : NewCheck(c) /\ des' = [des EXCEPT !.status = StatusOf(c, 1)]
      BY <2>1
    <3>2. des'.status.id = c /\ des'.spec = des.spec
      BY <3>1 DEF TypeOK, Desired, StatusOf
    <3>3. /\ checks'[c] = [cfg |-> des.spec.cfg, latency |-> des.spec.latency,
                       ver |-> 1, tags |-> {}]
          /\ checks'[c] \in Checks
      BY <2>1, <3>1, NewCheckType
    <3>4. Holding(des.spec.cfg, des.spec.latency, 1, {})'
      BY <3>2, <3>3 DEF Holding, Exists
    <3> QED
      BY <2>1, <3>4 DEF SettledInv, SyncedReflects
  <2>2. ASSUME NEW err, err # "none", CreateFailed(des.status, err, FALSE)
        PROVE  SettledInv'
    BY <2>2, ErrorTells
  <2> QED
    BY <1>2, <2>1, <2>2 DEF CreateCall, Goto
<1>3. CASE CreateTags
  <2>1. UNCHANGED <<des, obs>> /\ pc = "create.tags"
    BY <1>3 DEF CreateTags
  <2>2. ASSUME NEW err, err # "none", PostCreateFailed(err)
        PROVE  SettledInv'
    BY <2>2, ErrorTells DEF PostCreateFailed
  <2>3. CASE /\ pc' = "find"
             /\ IF des.spec.tags = {} THEN UNCHANGED checks ELSE Retag(id, des.spec.tags)
    <3>1. ASSUME obs.fresh
          PROVE  Holding(des.spec.cfg, des.spec.latency, 1, des.spec.tags)'
      <4>1. Exists(id) /\ checks[id] = [cfg |-> des.spec.cfg, latency |-> des.spec.latency,
                       ver |-> 1, tags |-> {}]
        BY <2>1, <3>1 DEF SettledInv, Holding
      <4>2. CASE des.spec.tags = {} /\ UNCHANGED checks
        BY <2>1, <4>1, <4>2 DEF Holding, Exists
      <4>3. CASE Retag(id, des.spec.tags)
        BY <2>1, <4>1, <4>3, HeldTypes, Retagged DEF Holding, Exists
      <4> QED
        BY <2>3, <4>2, <4>3
    <3> QED
      BY <2>1, <2>3, <3>1 DEF SettledInv, SyncedReflects
  <2> QED
    BY <1>3, <2>2, <2>3 DEF CreateTags, Goto
<1>4. CASE ReleaseFinalizer
  <2>1. pc = "create.release" /\ pc' = "patch" /\ ret' = ret
    BY <1>4 DEF ReleaseFinalizer, Goto
  <2>2. ret'.cond # "Synced"
    BY <2>1 DEF SettledInv
  <2> QED
    BY <2>1, <2>2, SettledElsewhere
<1> QED
  BY <1>1, <1>2, <1>3, <1>4

(* UpdateHealthCheck sets the configuration, and syncTags turns the tags   *)
(* that were read into the ones that are wanted.                           *)
LEMMA SettledUpdate ==
  ASSUME TypeOK, SpecInv, KeysInv, SettledInv, UpdateCall \/ UpdateUntag \/ UpdateTag
  PROVE  SettledInv'
<1> DEFINE id == des.status.id
           keys == toDeleteTagKeys(des.spec.tags, obs.spec.tags)
           more == toAdd(des.spec.tags, obs.spec.tags)
           common == des.spec.tags \cap obs.spec.tags
<1>1. UNCHANGED obs
  BY DEF UpdateCall, UpdateUntag, UpdateTag
<1>2. \A err : err # "none" /\ UpdateFailed(err) => SettledInv'
  BY ErrorTells DEF UpdateFailed
<1>3. /\ Untagged(obs.spec.tags, keys) = common /\ Tagged(common, more) = des.spec.tags
      /\ keys = {} => obs.spec.tags \subseteq des.spec.tags
  BY TagsSynced DEF KeysInv
<1>4. CASE UpdateCall
  <2>1. CASE /\ fitsInt32(des.spec.cfg) /\ Rewrite(id, int32(des.spec.cfg))
             /\ UpdateAnswer(id, expectedVersion) = "none"
             /\ des' = [des EXCEPT !.status.ver = checks[id].ver + 1]
             /\ Goto(IF compareTags THEN "update.untag" ELSE "patch.spec")
    <3>1. Exists(id) /\ id \in CheckIds /\ checks[id] \in Checks
      BY <2>1, HeldTypes DEF UpdateAnswer
    <3>2. int32(des.spec.cfg) = des.spec.cfg /\ des.spec.cfg \in MinInt32..MaxInt32
      BY <2>1, HeldTypes, Int32IsExact
    <3>3. /\ checks'[id] = [checks[id] EXCEPT !.cfg = des.spec.cfg, !.ver = @ + 1]
          /\ checks'[id] \in Checks
      BY <2>1, <3>1, <3>2, RewriteType
    <3>4. des'.spec = des.spec /\ des'.status.id = id /\ des'.status.ver = checks[id].ver + 1
      BY <2>1, <3>1 DEF TypeOK, Desired, Statuses, Checks
    <3>5. ASSUME obs.fresh
          PROVE  Holding(des.spec.cfg, obs.spec.latency, des.status.ver, obs.spec.tags)'
      <4>1. checks[id].tags = obs.spec.tags /\ checks[id].latency = obs.spec.latency
        BY <1>4, <3>5 DEF UpdateCall, SettledInv, Holding
      <4>2. checks'[id] = [cfg |-> des.spec.cfg, latency |-> obs.spec.latency,
                           ver |-> checks[id].ver + 1, tags |-> obs.spec.tags]
        BY <3>1, <3>3, <4>1 DEF Checks
      <4> QED
        BY <1>1, <3>1, <3>3, <3>4, <4>2 DEF Holding, Exists
    <3>6. CASE compareTags /\ pc' = "update.untag"
      BY <1>1, <3>5, <3>6 DEF SettledInv, SyncedReflects
    <3>7. CASE ~compareTags /\ pc' = "patch.spec"
      <4>1. des'.spec.tags = obs'.spec.tags
        BY <1>1, <3>4, <3>7 DEF compareTags
      <4> QED
        BY <1>1, <3>5, <3>7, <4>1 DEF SettledInv, SyncedReflects
    <3> QED
      BY <2>1, <3>6, <3>7 DEF Goto
  <2>2. UpdateAnswer(id, expectedVersion) # "none" =>
          (UpdateFailed(UpdateAnswer(id, expectedVersion)) => SettledInv')
    BY <1>2
  <2> QED
    BY <1>2, <1>4, <2>1, <2>2 DEF UpdateCall
<1>5. CASE UpdateUntag
  <2>1. UNCHANGED des /\ pc = "update.untag"
    BY <1>5 DEF UpdateUntag
  <2>2. CASE /\ pc' = "update.tag"
             /\ IF keys = {} THEN UNCHANGED checks ELSE Retag(id, Untagged(checks[id].tags, keys))
    <3>1. ASSUME obs.fresh
          PROVE  Holding(des.spec.cfg, obs.spec.latency, des.status.ver, common)'
      <4>1. /\ Exists(id)
            /\ checks[id] = [cfg |-> des.spec.cfg, latency |-> obs.spec.latency,
                             ver |-> des.status.ver, tags |-> obs.spec.tags]
        BY <2>1, <3>1 DEF SettledInv, Holding
      <4>2. CASE keys = {} /\ UNCHANGED checks
        <5>1. common = obs.spec.tags
          BY <1>3, <4>2
        <5> QED
          BY <1>1, <2>1, <4>1, <4>2, <5>1 DEF Holding, Exists
      <4>3. CASE Retag(id, common)
        <5>1. common \in SUBSET AllTags /\ id \in CheckIds
          BY <4>1, HeldTypes
        <5> HIDE DEF common
        <5>2. /\ checks'[id] = [cfg |-> des.spec.cfg, latency |-> obs.spec.latency,
                                ver |-> des.status.ver, tags |-> common]
              /\ checks'[id] # NoCheck
          BY <4>1, <4>3, <5>1, Retagged
        <5>3. common' = common
          BY <1>1, <2>1 DEF common
        <5> QED
          BY <1>1, <2>1, <4>1, <5>2, <5>3 DEF Holding, Exists
      <4>4. Untagged(checks[id].tags, keys) = common
        <5>1. checks[id].tags = obs.spec.tags
          BY <4>1
        <5> QED
          BY <1>3, <5>1
      <4> QED
        BY <2>2, <4>2, <4>3, <4>4
    <3> QED
      BY <1>1, <2>1, <2>2, <3>1 DEF SettledInv, SyncedReflects
  <2> QED
    BY <1>2, <1>5, <2>2 DEF UpdateUntag, Goto
<1>6. CASE UpdateTag
  <2>1. UNCHANGED des /\ pc = "update.tag"
    BY <1>6 DEF UpdateTag
  <2>2. CASE /\ Goto("patch.spec")
             /\ IF more = {} THEN UNCHANGED checks ELSE Retag(id, Tagged(checks[id].tags, more))
    <3>1. ASSUME obs.fresh
          PROVE  Holding(des.spec.cfg, obs.spec.latency, des.status.ver, des.spec.tags)'
      <4>1. /\ Exists(id)
            /\ checks[id] = [cfg |-> des.spec.cfg, latency |-> obs.spec.latency,
                             ver |-> des.status.ver, tags |-> common]
        BY <2>1, <3>1 DEF SettledInv, Holding
      <4>2. CASE more = {} /\ UNCHANGED checks
        <5>1. common = des.spec.tags
          BY <4>2 DEF toAdd
        <5> QED
          BY <1>1, <2>1, <4>1, <4>2, <5>1 DEF Holding, Exists
      <4>3. CASE Retag(id, des.spec.tags)
        BY <1>1, <2>1, <4>1, <4>3, HeldTypes, Retagged DEF Holding, Exists
      <4> QED
        BY <1>3, <2>2, <4>1, <4>2, <4>3
    <3>2. pc' = "patch.spec"
      BY <2>2 DEF Goto
    <3> QED
      BY <1>1, <2>1, <3>1, <3>2 DEF SettledInv, SyncedReflects
  <2> QED
    BY <1>2, <1>6, <2>2 DEF UpdateTag
<1> QED
  BY <1>4, <1>5, <1>6

(* The patch of the spec makes desired agree with what no update changed.  *)
LEMMA SettledPatchSpec ==
  ASSUME TypeOK, SettledInv, PatchSpec
  PROVE  SettledInv'
<1>1. CASE Return(des.status, "plain")
  BY <1>1, ErrorTells
<1>2. CASE des' = [des EXCEPT !.spec.latency = obs.spec.latency]
  <2>1. des'.spec.latency = obs.spec.latency
    BY <1>2 DEF TypeOK, Desired
  <2>2. obs.fresh => Holding(des.spec.cfg, obs.spec.latency, des.status.ver, des.spec.tags)
    BY PatchSpecKeeps DEF SettledInv
  <2> QED
    BY <2>1, <2>2, PatchSpecKeeps DEF SettledInv, SyncedReflects, Holding, Exists
<1> QED
  BY <1>1, <1>2 DEF PatchSpec

LEMMA SettledStep ==
  TypeOK /\ SpecInv /\ VersionInv /\ KeysInv /\ SettledInv /\ [Next]_vars => SettledInv'
<1> SUFFICES ASSUME TypeOK, SpecInv, VersionInv, KeysInv, SettledInv, [Next]_vars
             PROVE  SettledInv'
  OBVIOUS
<1>1. CASE DeleteCall
  BY <1>1, ErrorTells, SettledElsewhere DEF DeleteCall, Goto, Elsewhere
<1>2. CASE RemoveFinalizer \/ PatchStatus \/ Crash
  BY <1>2, ErrorTells, SettledElsewhere DEF RemoveFinalizer, PatchStatus, Crash, Idle, Elsewhere
<1>3. CASE User \/ UNCHANGED vars
  <2>1. UNCHANGED <<checks, pc, mode, des, obs, ret>>
    BY <1>3 DEF User, vars
  <2> QED
    BY <2>1 DEF SettledInv, SyncedReflects, Holding, Exists
<1>4. CASE Meddler
  <2>1. UNCHANGED <<pc, ret>> /\ ~obs'.fresh
    BY <1>4, OnlyFreshness DEF Meddler
  <2> QED
    BY <2>1 DEF SettledInv, SyncedReflects
<1> QED
  BY <1>1, <1>2, <1>3, <1>4, SettledRead, SettledDecide, SettledCreate, SettledUpdate,
     SettledPatchSpec DEF Next, Worker

-----------------------------------------------------------------------------
(* What is lost *)

LEMMA StrayInit == Init => StrayInv
<1> SUFFICES ASSUME Init PROVE StrayInv
  OBVIOUS
<1>1. Stray = {}
  BY DEF Init, Stray, Exists
<1> QED
  BY <1>1, FS_EmptySet DEF Init, StrayInv

(* A check becomes a stray when it was held by somebody who has now let go *)
(* of it, or when it was made and the answer lost.                         *)
LEMMA StrayOrigin ==
  ASSUME TypeOK, TypeOK', SpecInv, ManagedInv, [Next]_vars, NEW c \in CheckIds, c \in Stray',
         c \notin Stray
  PROVE  Made(c) \/ (Exists(c) /\ \E s \in Held : s.id = c)
  BY Fate DEF Stray, Exists, Kept, Rewritten

(* The steps after which whoever held an existing check still holds it.    *)
LEMMA Retained ==
  ASSUME TypeOK, SpecInv, VersionInv, ManagedInv, [Next]_vars, ~Crash, ~PatchStatus, ~CreateCall,
         NEW s \in Held, Exists(s.id)
  PROVE  \E t \in Held' : t.id = s.id
<1>1. cr.fin /\ cr.phase # "gone" /\ (pc # "idle" => s.id = des.status.id)
  BY DEF ManagedInv
<1>2. CASE Reconcile
  <2>1. des'.status = cr.status /\ cr' = cr /\ obs.status = Nil /\ ret.status = Nil
    BY <1>2 DEF Reconcile, VersionInv
  <2>2. s = cr.status
    <3>1. des.status = Nil /\ ~Exists(Nil.id)
      BY <1>2 DEF Reconcile, VersionInv, Nil, StatusOf, Exists
    <3> QED
      BY <2>1, <3>1 DEF Held
  <2> QED
    BY <2>1, <2>2 DEF Held
<1>3. CASE \/ Find \/ FindTags \/ Decide \/ AddFinalizer \/ CreateTags \/ ReleaseFinalizer
           \/ UpdateCall \/ UpdateUntag \/ UpdateTag \/ DeleteCall
  <2>1. pc # "idle"
    BY <1>3 DEF Find, FindTags, Decide, AddFinalizer, CreateTags, ReleaseFinalizer,
       UpdateCall, UpdateUntag, UpdateTag, DeleteCall
  <2>2. des'.status.id = des.status.id
    BY <1>3 DEF Find, FindTags, Decide, AddFinalizer, CreateTags, ReleaseFinalizer,
       UpdateCall, UpdateUntag, UpdateTag, DeleteCall, TypeOK, Desired, Statuses
  <2> QED
    BY <1>1, <2>1, <2>2 DEF Held
<1>4. CASE RemoveFinalizer
  BY <1>1, <1>4 DEF RemoveFinalizer, ManagedInv, Unmade
<1>5. CASE User
  <2>1. cr'.status = cr.status
    <3>1. CASE \E sp \in Specs \ {cr.spec} : cr' = [cr EXCEPT !.spec = sp]
      BY <3>1 DEF TypeOK, CRs
    <3>2. CASE cr' = [cr EXCEPT !.phase = IF cr.fin THEN "deleting" ELSE "gone"]
      BY <3>2 DEF TypeOK, CRs
    <3> QED
      BY <1>1, <1>5, <3>1, <3>2, Zenon DEF User
  <2> QED
    BY <1>5, <2>1 DEF User, Held
<1>6. CASE Meddler \/ UNCHANGED vars
  BY <1>6, OnlyFreshness DEF Meddler, vars, Held
<1>7. CASE PatchSpec
  BY <1>1, <1>7, PatchSpecKeeps DEF Held
<1> QED
  BY <1>2, <1>3, <1>4, <1>5, <1>6, <1>7 DEF Next, Worker

(* A patch that succeeds puts into the CR what the worker returns.         *)
LEMMA RetainedByPatch ==
  ASSUME TypeOK, VersionInv, ManagedInv, PatchStatus, losses \in Nat, losses' = losses,
         NEW s \in Held, Exists(s.id)
  PROVE  \E t \in Held' : t.id = s.id
<1>1. cr.phase # "gone" /\ s.id = des.status.id /\ ret.status.id = des.status.id
  BY DEF PatchStatus, ManagedInv, Held
<1>2. cr' = [cr EXCEPT !.status = ret.status, !.cond = ret.cond]
  BY <1>1 DEF PatchStatus, Loss
<1>3. cr'.status = ret.status
  BY <1>2 DEF TypeOK, CRs
<1> QED
  BY <1>1, <1>3 DEF Held

LEMMA LossesStep ==
  ASSUME losses \in Nat, [Next]_vars
  PROVE  losses' = losses \/ losses' = losses + 1
<1>1. CASE Failure \/ Loss \/ NoFault \/ UNCHANGED losses
  BY <1>1 DEF Failure, Loss, NoFault, counters
<1>2. CASE Reconcile \/ Decide \/ User \/ Meddler \/ Crash \/ UNCHANGED vars
  BY <1>1, <1>2 DEF Reconcile, Decide, User, Meddler, Crash, vars, NoFault
<1>3. CASE Find \/ FindTags \/ AddFinalizer \/ CreateCall \/ CreateTags \/ ReleaseFinalizer
  BY <1>1, <1>3 DEF Find, FindTags, AddFinalizer, CreateCall, CreateTags, ReleaseFinalizer
<1>4. CASE \/ UpdateCall \/ UpdateUntag \/ UpdateTag \/ PatchSpec
           \/ DeleteCall \/ RemoveFinalizer \/ PatchStatus
  BY <1>1, <1>4 DEF UpdateCall, UpdateUntag, UpdateTag, PatchSpec, DeleteCall, RemoveFinalizer,
     PatchStatus
<1> QED
  BY <1>2, <1>3, <1>4 DEF Next, Worker

(* A check that was made and answered is held.                             *)
LEMMA MadeIsHeld ==
  ASSUME TypeOK, SpecInv, losses \in Nat, losses' = losses, NEW c \in CheckIds, Made(c),
         checks'[c] # NoCheck
  PROVE  \E t \in Held' : t.id = c
<1>1. checks' # checks
  BY DEF Made
<1>2. PICK d \in CheckIds : NewCheck(d) /\ des' = [des EXCEPT !.status = StatusOf(d, 1)]
  <2>1. ~Loss
    BY DEF Loss
  <2> QED
    BY <1>1, <2>1 DEF Made, CreateCall
<1>3. c = d
  BY <1>2 DEF NewCheck, Made, TypeOK
<1>4. des'.status.id = c
  BY <1>2, <1>3 DEF TypeOK, Desired, StatusOf
<1> QED
  BY <1>4 DEF Held

LEMMA OneAtATime ==
  ASSUME TypeOK, TypeOK', SpecInv, VersionInv, ManagedInv, [Next]_vars,
         NEW c \in Stray' \ Stray, NEW d \in Stray' \ Stray
  PROVE  c = d
<1>1. c \in CheckIds /\ d \in CheckIds /\ checks'[c] # NoCheck /\ checks'[d] # NoCheck
  BY DEF Stray, Exists
<1>2. ASSUME NEW s \in Held, NEW t \in Held, Exists(s.id), Exists(t.id)
      PROVE  s.id = t.id
  <2>1. CASE pc # "idle"
    BY <1>2, <2>1 DEF ManagedInv
  <2>2. CASE pc = "idle"
    <3>1. des.status = Nil /\ obs.status = Nil /\ ret.status = Nil /\ ~Exists(Nil.id)
      BY <2>2 DEF VersionInv, Nil, StatusOf, Exists
    <3> QED
      BY <1>2, <3>1 DEF Held
  <2> QED
    BY <2>1, <2>2
<1>3. \A x \in {c, d} : Made(x) \/ (Exists(x) /\ \E s \in Held : s.id = x)
  BY <1>1, StrayOrigin
<1>4. CASE CreateCall /\ checks' # checks
  <2>1. PICK k \in CheckIds : NewCheck(k)
    BY <1>4 DEF CreateCall
  <2>2. \A s \in Held : ~Exists(s.id)
    BY <1>4 DEF CreateCall, ManagedInv, Unmade
  <2>3. \A x \in {c, d} : checks[x] = NoCheck /\ checks'[x] # NoCheck
    BY <1>1, <1>3, <2>2 DEF Made
  <2> QED
    BY <1>1, <2>1, <2>3 DEF NewCheck, TypeOK
<1>5. CASE ~(CreateCall /\ checks' # checks)
  <2>1. ~Made(c) /\ ~Made(d)
    BY <1>1, <1>5 DEF Made
  <2> QED
    BY <1>2, <1>3, <2>1
<1> QED
  BY <1>4, <1>5

LEMMA StrayStep ==
  ASSUME TypeOK, TypeOK', SpecInv, VersionInv, ManagedInv, StrayInv, [Next]_vars
  PROVE  StrayInv'
<1>1. losses \in Nat /\ Cardinality(Stray) <= losses /\ (losses' = losses \/ losses' = losses + 1)
  BY LossesStep DEF StrayInv
<1>2. IsFiniteSet(Stray) /\ Cardinality(Stray) \in Nat
  BY FS_CardinalityType DEF StrayInv
<1>3. CASE losses' = losses
  <2>1. ASSUME NEW c \in Stray', c \notin Stray
        PROVE  FALSE
    <3>1. c \in CheckIds /\ checks'[c] # NoCheck /\ ~\E t \in Held' : t.id = c
      BY <2>1 DEF Stray, Exists
    <3>2. ~Made(c)
      BY <1>1, <1>3, <3>1, MadeIsHeld
    <3>3. PICK s \in Held : s.id = c /\ Exists(s.id)
      BY <2>1, <3>1, <3>2, StrayOrigin
    <3>4. CASE Crash
      BY <1>1, <1>3, <3>4 DEF Crash, Loss
    <3>5. CASE PatchStatus
      BY <1>1, <1>3, <3>1, <3>3, <3>5, RetainedByPatch
    <3>6. CASE CreateCall
      BY <3>3, <3>6 DEF CreateCall, ManagedInv, Unmade
    <3> QED
      BY <3>1, <3>3, <3>4, <3>5, <3>6, Retained
  <2>2. Stray' \subseteq Stray
    BY <2>1
  <2>3. Cardinality(Stray') <= Cardinality(Stray)
    BY <1>2, <2>2, FS_Subset
  <2>4. IsFiniteSet(Stray') /\ Cardinality(Stray') \in Nat
    BY <1>2, <2>2, FS_Subset, FS_CardinalityType
  <2> QED
    BY <1>1, <1>2, <1>3, <2>3, <2>4 DEF StrayInv
<1>4. CASE losses' = losses + 1
  <2>1. CASE Stray' \subseteq Stray
    <3>1. IsFiniteSet(Stray') /\ Cardinality(Stray') <= Cardinality(Stray)
      BY <1>2, <2>1, FS_Subset
    <3>2. Cardinality(Stray') \in Nat
      BY <3>1, FS_CardinalityType
    <3> QED
      BY <1>1, <1>2, <1>4, <3>1, <3>2 DEF StrayInv
  <2>2. CASE ~(Stray' \subseteq Stray)
    <3>1. PICK c \in Stray' : c \notin Stray
      BY <2>2
    <3>2. Stray' \subseteq Stray \cup {c}
      BY <3>1, OneAtATime
    <3>3. IsFiniteSet(Stray \cup {c}) /\ Cardinality(Stray \cup {c}) = Cardinality(Stray) + 1
      BY <1>2, <3>1, FS_AddElement
    <3>4. IsFiniteSet(Stray') /\ Cardinality(Stray') <= Cardinality(Stray) + 1
      BY <3>2, <3>3, FS_Subset
    <3>5. Cardinality(Stray') \in Nat
      BY <3>4, FS_CardinalityType
    <3> QED
      BY <1>1, <1>2, <1>4, <3>4, <3>5 DEF StrayInv
  <2> QED
    BY <2>1, <2>2
<1> QED
  BY <1>1, <1>3, <1>4

-----------------------------------------------------------------------------
(* The theorems *)

(* What holds whatever Route 53 answers ...                                *)
Core == TypeOK /\ Unmangled /\ SpecInv /\ VersionInv /\ KeysInv /\ SettledInv

LEMMA CoreInit == Init => Core
  BY TypeInit, SpecInit, VersionInit, KeysInit, SettledInit DEF Core

LEMMA CoreStep == Core /\ [Next]_vars => Core'
  BY TypeStep, SpecStep, UnmangledStep, VersionStep, KeysStep, SettledStep DEF Core

LEMMA CoreHolds == Spec => []Core
  BY CoreInit, CoreStep, PTL DEF Spec

(* ... and what holds as long as it accepts the tags of a new check.       *)
ManagedCore == Core /\ ManagedInv

LEMMA ManagedCoreStep == ManagedCore /\ TagsAccepted /\ [Next]_vars => ManagedCore'
  BY CoreStep, ManagedStep DEF ManagedCore, Core

LEMMA ManagedCoreHolds == Spec /\ []TagsAccepted => []ManagedCore
<1>1. Init => ManagedCore
  BY CoreInit, ManagedInit DEF ManagedCore
<1> QED
  BY <1>1, ManagedCoreStep, PTL DEF Spec

(* The inductive invariant holds in every reachable state, as long as      *)
(* Route 53 accepts the tags of a new health check.                        *)
THEOREM InvHolds == Spec /\ []TagsAccepted => []Inv
<1>1. Init => Inv
  BY CoreInit, ManagedInit, StrayInit DEF Inv, Core
<1>2. Inv /\ TagsAccepted /\ [Next]_vars => Inv'
  BY ManagedCoreStep, StrayStep DEF Inv, ManagedCore, Core
<1> QED
  BY <1>1, <1>2, PTL DEF Spec

(* No number but the ones users and others wrote ever reaches Route 53:    *)
(* the conversion to int32 is never applied where it would wrap.           *)
THEOREM UnmangledHolds == Spec => []Unmangled
<1>1. Core => Unmangled
  BY DEF Core
<1> QED
  BY <1>1, CoreHolds, PTL

(* A CR is reported as Synced only with the check as it was asked for and  *)
(* with its version, the fields that no update sends included, unless      *)
(* somebody else worked on it meanwhile.                                   *)
THEOREM SyncedReflectsHolds == Spec => []SyncedReflects
<1>1. Core => SyncedReflects
  BY DEF Core, SettledInv
<1> QED
  BY <1>1, CoreHolds, PTL

(* An update overwrites only what this reconciliation has read, however    *)
(* old the version it sends.                                               *)
THEOREM NoLostUpdateHolds == Spec => NoLostUpdate
<1>1. Core /\ [Next]_vars =>
        [UpdateCall /\ checks' # checks => checks[des.status.id].cfg = obs.spec.cfg]_vars
  <2> SUFFICES ASSUME Core, UpdateCall, checks' # checks
               PROVE  checks[des.status.id].cfg = obs.spec.cfg
    OBVIOUS
  <2> DEFINE id == des.status.id
  <2>1. Exists(id) /\ id \in CheckIds /\ UpdateAnswer(id, expectedVersion) = "none"
    BY UpdateFate DEF Core
  <2>2. /\ des.status.ver # 0 /\ obs.status.id = id /\ AsRead
        /\ des.status.ver <= obs.status.ver /\ Sound(obs.status)
    BY <2>1 DEF UpdateCall, Core, VersionInv, Sound, Held, Read, Exists
  <2>3. des.status.ver = checks[id].ver
    BY <2>1, <2>2 DEF UpdateAnswer, expectedVersion
  <2>4. obs.status.ver <= checks[id].ver
    BY <2>1, <2>2 DEF Sound, Exists
  <2>5. obs.status.ver \in Nat /\ checks[id].ver \in Nat
    BY <2>1, HeldTypes DEF Core, Statuses, Checks
  <2>6. obs.status.ver = checks[id].ver
    BY <2>2, <2>3, <2>4, <2>5
  <2> QED
    BY <2>1, <2>2, <2>6 DEF AsRead
<1> QED
  BY <1>1, CoreHolds, PTL DEF Spec, NoLostUpdate

(* As long as Route 53 accepts the tags of a new health check there are    *)
(* never more health checks than the one the CR holds and one for each     *)
(* lost answer, failed patch or crash.                                     *)
THEOREM OneCheckHolds == Spec /\ []TagsAccepted => []OneCheck
<1>1. Inv => OneCheck
  <2> SUFFICES ASSUME Inv PROVE OneCheck
    OBVIOUS
  <2> DEFINE all == {c \in CheckIds : checks[c] # NoCheck}
  <2>1. all = {c \in CheckIds : Exists(c)}
    BY DEF Exists
  <2>2. PICK x : \A s \in Held : Exists(s.id) => s.id = x
    <3>1. CASE pc # "idle"
      BY <3>1 DEF Inv, ManagedInv
    <3>2. CASE pc = "idle"
      <4>1. des.status = Nil /\ obs.status = Nil /\ ret.status = Nil /\ ~Exists(Nil.id)
        BY <3>2 DEF Inv, VersionInv, Nil, StatusOf, Exists
      <4> QED
        BY <4>1 DEF Held
    <3> QED
      BY <3>1, <3>2
  <2>3. all \subseteq Stray \cup {x}
    BY <2>1, <2>2 DEF Stray
  <2>4. IsFiniteSet(Stray) /\ Cardinality(Stray) \in Nat
    BY FS_CardinalityType DEF Inv, StrayInv
  <2>5. /\ IsFiniteSet(Stray \cup {x})
        /\ Cardinality(Stray \cup {x}) \in {Cardinality(Stray), Cardinality(Stray) + 1}
    BY <2>4, FS_AddElement
  <2>6. IsFiniteSet(all) /\ Cardinality(all) <= Cardinality(Stray \cup {x})
    BY <2>3, <2>5, FS_Subset
  <2>7. Cardinality(all) \in Nat
    BY <2>6, FS_CardinalityType
  <2>8. Cardinality(Stray) <= losses /\ losses \in Nat
    BY DEF Inv, StrayInv
  <2>9. Cardinality(all) <= 1 + losses
    <3> HIDE DEF all
    <3> QED
      BY <2>4, <2>5, <2>6, <2>7, <2>8
  <2> QED
    BY <2>9 DEF OneCheck
<1> QED
  BY <1>1, InvHolds, PTL

-----------------------------------------------------------------------------
(* HealthCheck implements ManagedResource *)

(* What the abstract specification sees of a CR and its health check.      *)
LEMMA Invisible ==
  ASSUME cr'.phase = cr.phase, cr'.fin = cr.fin, Exists(cr.status.id)' = Exists(cr.status.id)
  PROVE  UNCHANGED MR!vars
  BY DEF MR!vars

(* The steps that touch the finalizer touch nothing else.                  *)
LEMMA FinalizerMaps ==
  ASSUME ManagedCore, AddFinalizer \/ ReleaseFinalizer \/ RemoveFinalizer
  PROVE  MR!Controller \/ UNCHANGED MR!vars
<1>1. UNCHANGED checks
  BY DEF AddFinalizer, ReleaseFinalizer, RemoveFinalizer
<1>2. CASE UNCHANGED cr
  BY <1>1, <1>2, Invisible DEF Exists
<1>3. CASE AddFinalizer /\ cr.phase # "gone" /\ cr' = [cr EXCEPT !.fin = TRUE]
  <2>1. cr'.fin = TRUE /\ cr'.phase = cr.phase /\ cr'.status = cr.status
    BY <1>3 DEF ManagedCore, Core, TypeOK, CRs
  <2> QED
    BY <1>1, <1>3, <2>1 DEF MR!Manage, MR!Controller, Exists
<1>4. CASE /\ ReleaseFinalizer \/ RemoveFinalizer
           /\ cr' = [cr EXCEPT !.fin = FALSE, !.phase = IF @ = "deleting" THEN "gone" ELSE @]
  <2>1. /\ cr'.fin = FALSE /\ cr'.status = cr.status
        /\ cr'.phase = (IF cr.phase = "deleting" THEN "gone" ELSE cr.phase)
    BY <1>4 DEF ManagedCore, Core, TypeOK, CRs
  <2>2. ~Exists(cr.status.id)
    BY <1>4 DEF ManagedCore, ManagedInv, Unmade, Held, ReleaseFinalizer, RemoveFinalizer
  <2> QED
    BY <1>1, <2>1, <2>2 DEF MR!Release, MR!Controller, Exists
<1> QED
  BY <1>2, <1>3, <1>4 DEF AddFinalizer, ReleaseFinalizer, RemoveFinalizer

(* A patch hands the health check to the CR, which then has its finalizer. *)
LEMMA PatchMaps ==
  ASSUME ManagedCore, PatchStatus
  PROVE  MR!Make \/ UNCHANGED MR!vars
<1>1. cr'.phase = cr.phase /\ cr'.fin = cr.fin /\ cr'.status \in {cr.status, ret.status}
  BY DEF PatchStatus, ManagedCore, Core, TypeOK, CRs
<1>2. UNCHANGED checks /\ pc = "patch"
  BY DEF PatchStatus
<1>3. Exists(cr.status.id) => ret.status.id = cr.status.id
  BY <1>2 DEF ManagedCore, ManagedInv, Held
<1>4. Exists(ret.status.id) => cr.fin /\ cr.phase # "gone"
  BY DEF ManagedCore, ManagedInv, Held
<1>5. CASE Exists(cr.status.id) \/ ~Exists(cr'.status.id)
  BY <1>1, <1>2, <1>3, <1>5, Invisible DEF Exists
<1>6. CASE ~Exists(cr.status.id) /\ Exists(cr'.status.id)
  BY <1>1, <1>2, <1>4, <1>6 DEF MR!Make, Exists
<1> QED
  BY <1>5, <1>6

LEMMA DeleteMaps ==
  ASSUME ManagedCore, DeleteCall
  PROVE  MR!Remove \/ UNCHANGED MR!vars
<1>1. UNCHANGED cr /\ cr.phase = "deleting"
  BY DEF DeleteCall, k8s, ManagedCore, ManagedInv, Deleting
<1>2. ~Exists(cr.status.id) => ~Exists(cr.status.id)'
  <2>1. cr.status.id \in CheckIds \cup {NoId}
    BY DEF ManagedCore, Core, TypeOK, CRs, Statuses
  <2>2. \A c \in CheckIds : checks'[c] \in {checks[c], NoCheck}
    BY DEF DeleteCall, ManagedCore, Core, TypeOK
  <2> QED
    BY <1>1, <2>1, <2>2 DEF Exists
<1>3. CASE Exists(cr.status.id)' = Exists(cr.status.id)
  BY <1>1, <1>3, Invisible
<1>4. CASE Exists(cr.status.id)' = FALSE
  BY <1>1, <1>4 DEF MR!Remove
<1> QED
  BY <1>2, <1>3, <1>4 DEF Exists

(* Only DeleteHealthCheck takes a check away.                              *)
LEMMA CallsKeep ==
  ASSUME TypeOK, SpecInv, Worker, ~DeleteCall, NEW c \in CheckIds, checks[c] # NoCheck
  PROVE  checks'[c] # NoCheck
<1> DEFINE id == des.status.id
<1>1. CASE UNCHANGED checks
  BY <1>1
<1>2. CASE CreateCall
  <2>1. UNCHANGED checks \/ \E d \in CheckIds : NewCheck(d)
    BY <1>2 DEF CreateCall
  <2> QED
    BY <2>1 DEF NewCheck, TypeOK
<1>3. CASE CreateTags \/ UpdateUntag \/ UpdateTag
  <2>1. UNCHANGED checks \/ \E tags \in SUBSET AllTags : Exists(id) /\ Retag(id, tags)
    <3>1. /\ toAdd(des.spec.tags, obs.spec.tags) \in SUBSET AllTags
          /\ des.spec.tags \in SUBSET AllTags
          /\ Exists(id) => id \in CheckIds /\ checks[id].tags \in SUBSET AllTags
      BY HeldTypes, TagTypes DEF Checks
    <3>2. Exists(id) => /\ \A keys : Untagged(checks[id].tags, keys) \in SUBSET AllTags
                        /\ \A more \in SUBSET AllTags :
                             Tagged(checks[id].tags, more) \in SUBSET AllTags
      BY <3>1, TagTypes
    <3>3. CASE CreateTags
      BY <3>1, <3>3 DEF CreateTags, TagsAnswer
    <3>4. CASE UpdateUntag
      BY <3>2, <3>4 DEF UpdateUntag, TagsAnswer
    <3>5. CASE UpdateTag
      BY <3>1, <3>2, <3>5 DEF UpdateTag, TagsAnswer
    <3> QED
      BY <1>3, <3>3, <3>4, <3>5
  <2>2. Exists(id) => id \in CheckIds
    BY HeldTypes
  <2> QED
    BY <1>1, <2>1, <2>2, RetagType
<1>4. CASE UpdateCall /\ checks' # checks
  BY <1>4, UpdateFate
<1>5. CASE \/ Reconcile \/ Find \/ FindTags \/ Decide \/ AddFinalizer \/ ReleaseFinalizer
           \/ PatchSpec \/ RemoveFinalizer \/ PatchStatus
  BY <1>1, <1>5 DEF Reconcile, Find, FindTags, Decide, AddFinalizer, ReleaseFinalizer,
     PatchSpec, RemoveFinalizer, PatchStatus
<1> QED
  BY <1>1, <1>2, <1>3, <1>4, <1>5 DEF Worker

LEMMA WorkerMaps ==
  ASSUME ManagedCore, Worker
  PROVE  MR!Controller \/ UNCHANGED MR!vars
<1>1. CASE AddFinalizer \/ ReleaseFinalizer \/ RemoveFinalizer
  BY <1>1, FinalizerMaps
<1>2. CASE PatchStatus
  BY <1>2, PatchMaps DEF MR!Controller
<1>3. CASE DeleteCall
  BY <1>3, DeleteMaps DEF MR!Controller
<1>4. CASE /\ ~DeleteCall
           /\ \/ Reconcile \/ Find \/ FindTags \/ Decide \/ CreateCall \/ CreateTags
              \/ UpdateCall \/ UpdateUntag \/ UpdateTag \/ PatchSpec
  <2>1. cr'.phase = cr.phase /\ cr'.fin = cr.fin /\ cr'.status = cr.status
    <3>1. CASE PatchSpec
      BY <3>1, PatchSpecKeeps DEF ManagedCore, Core
    <3>2. CASE UNCHANGED cr
      BY <3>2
    <3> QED
      BY <1>4, <3>1, <3>2 DEF Reconcile, Find, FindTags, Decide, CreateCall, CreateTags,
         UpdateCall, UpdateUntag, UpdateTag, k8s
  <2>2. Exists(cr.status.id)' = Exists(cr.status.id)
    <3> DEFINE c == cr.status.id
    <3>1. c \in CheckIds \cup {NoId} /\ [Next]_vars
      BY <1>4 DEF ManagedCore, Core, TypeOK, CRs, Statuses, Next, Worker
    <3>2. c \in CheckIds /\ checks'[c] # NoCheck => checks[c] # NoCheck
      BY <3>1, Fate DEF ManagedCore, Core, Kept, Rewritten, Made, IdsInUse
    <3>3. c \in CheckIds /\ checks[c] # NoCheck => checks'[c] # NoCheck
      BY <1>4, CallsKeep DEF ManagedCore, Core
    <3> QED
      BY <2>1, <3>1, <3>2, <3>3 DEF Exists
  <2> QED
    BY <2>1, <2>2, Invisible
<1> QED
  BY <1>1, <1>2, <1>3, <1>4 DEF Worker

(* Users and others submit, withdraw and lose; nothing else shows.         *)
LEMMA EnvironmentMaps ==
  ASSUME ManagedCore, User \/ Meddler \/ Crash
  PROVE  MR!World \/ UNCHANGED MR!vars
<1>1. CASE User
  <2>1. UNCHANGED checks
    BY <1>1 DEF User
  <2>2. CASE cr.phase = "gone" /\ \E s \in Specs :
               cr' = [phase |-> "live", fin |-> FALSE, spec |-> s, status |-> Nil, cond |-> "none"]
    <3>1. ~Exists(cr.status.id)
      BY <2>2 DEF ManagedCore, ManagedInv, Held
    <3>2. cr'.phase = "live" /\ cr'.fin = FALSE /\ cr'.status = Nil
      BY <2>2
    <3>3. Exists(cr.status.id)' = Exists(cr.status.id)
      BY <3>1, <3>2 DEF Nil, StatusOf, Exists
    <3> QED
      BY <2>2, <3>1, <3>2, <3>3 DEF MR!Submit, MR!World
  <2>3. CASE \E s \in Specs \ {cr.spec} : cr' = [cr EXCEPT !.spec = s]
    <3>1. cr'.phase = cr.phase /\ cr'.fin = cr.fin /\ cr'.status = cr.status
      BY <2>3 DEF ManagedCore, Core, TypeOK, CRs
    <3> QED
      BY <2>1, <3>1, Invisible DEF Exists
  <2>4. CASE /\ cr.phase = "live"
             /\ cr' = [cr EXCEPT !.phase = IF cr.fin THEN "deleting" ELSE "gone"]
    <3>1. /\ cr'.phase = (IF cr.fin THEN "deleting" ELSE "gone")
          /\ cr'.fin = cr.fin /\ cr'.status = cr.status
      BY <2>4 DEF ManagedCore, Core, TypeOK, CRs
    <3> QED
      BY <2>1, <2>4, <3>1 DEF MR!Withdraw, MR!World, Exists
  <2> QED
    BY <1>1, <2>2, <2>3, <2>4, Zenon DEF User
<1>2. CASE Meddler \/ Crash
  <2>1. UNCHANGED cr
    BY <1>2 DEF Meddler, Crash
  <2>2. ~Exists(cr.status.id) => ~Exists(cr.status.id)'
    <3> DEFINE c == cr.status.id
    <3>1. c \in CheckIds \cup {NoId} /\ [Next]_vars
      BY <1>2 DEF ManagedCore, Core, TypeOK, CRs, Statuses, Next
    <3>2. TypeOK /\ SpecInv /\ ~Made(c)
      BY DEF ManagedCore, Core, Made, IdsInUse
    <3>3. c \in CheckIds /\ checks'[c] # NoCheck => Kept(c) \/ Rewritten(c)
      BY <3>1, <3>2, Fate
    <3> QED
      BY <2>1, <3>1, <3>3 DEF Exists, Kept, Rewritten
  <2>3. CASE Exists(cr.status.id)' = Exists(cr.status.id)
    BY <2>1, <2>3, Invisible
  <2>4. CASE Exists(cr.status.id) /\ Exists(cr.status.id)' = FALSE
    BY <2>1, <2>4 DEF MR!Lose, MR!World
  <2> QED
    BY <2>2, <2>3, <2>4 DEF Exists
<1> QED
  BY <1>1, <1>2

(* A HealthCheck CR implements ManagedResource as long as Route 53 accepts *)
(* the tags of a new health check: whatever else fails, crashes or is      *)
(* changed by others, the CR has its finalizer as long as it names a       *)
(* health check, which is removed only because the CR is withdrawn; and    *)
(* every step of the worker is the controller's.                           *)
THEOREM ManagedHolds == Spec /\ []TagsAccepted => Managed
<1>1. Init => MR!Init
  BY DEF Init, MR!Init, Exists, Nil, StatusOf
<1>2. ManagedCore /\ [Next]_vars => [MR!Next]_(MR!vars)
  <2> SUFFICES ASSUME ManagedCore, [Next]_vars PROVE MR!Next \/ UNCHANGED MR!vars
    OBVIOUS
  <2>1. CASE UNCHANGED vars
    BY <2>1, Invisible DEF vars, Exists
  <2>2. CASE Worker
    BY <2>2, WorkerMaps DEF MR!Next
  <2>3. CASE User \/ Meddler \/ Crash
    BY <2>3, EnvironmentMaps DEF MR!Next
  <2> QED
    BY <2>1, <2>2, <2>3 DEF Next
<1>3. ManagedCore /\ [Next]_vars => [Worker => [MR!Controller]_(MR!vars)]_vars
  BY WorkerMaps
<1> QED
  BY <1>1, <1>2, <1>3, ManagedCoreHolds, PTL DEF Spec, Managed, MR!Spec

(* With it the promises of ManagedResource are its own: a health check     *)
(* that exists has a CR with the finalizer, and a CR is never gone before  *)
(* it.                                                                     *)
P == INSTANCE ManagedResourceProofs WITH phase <- cr.phase, fin <- cr.fin, exists <- Exists(cr.status.id)

LEMMA SamePromise == MR!Spec => P!Spec
<1>1. MR!Init => P!Init
  BY DEF MR!Init, P!Init
<1>2. [MR!Next]_(MR!vars) => [P!Next]_(P!vars)
  BY DEF MR!vars, MR!Next, MR!World, MR!Submit, MR!Withdraw, MR!Lose,
         MR!Controller, MR!Manage, MR!Adopt, MR!Make, MR!Remove, MR!Release,
         P!vars, P!Next, P!World, P!Submit, P!Withdraw, P!Lose,
         P!Controller, P!Manage, P!Adopt, P!Make, P!Remove, P!Release
<1> QED
  BY <1>1, <1>2, PTL DEF MR!Spec, P!Spec

(* As long as Route 53 accepts the tags of a new health check, a health    *)
(* check that exists has a custom resource, with the finalizer on it; and  *)
(* the custom resource goes only after it.                                 *)
THEOREM NeverLeaksHolds == Spec /\ []TagsAccepted => []MR!NoLeak /\ MR!LastToGo
<1>1. P!NoLeak => MR!NoLeak
  BY DEF P!NoLeak, MR!NoLeak
<1>2. P!LastToGo => MR!LastToGo
  <2>1. [cr.phase # "gone" /\ (cr.phase)' = "gone" => ~(Exists(cr.status.id))]_(P!vars)
          => [cr.phase # "gone" /\ (cr.phase)' = "gone" => ~(Exists(cr.status.id))]_(MR!vars)
    BY DEF P!vars, MR!vars
  <2> QED
    BY <2>1, PTL DEF P!LastToGo, MR!LastToGo
<1> QED
  BY <1>1, <1>2, ManagedHolds, SamePromise, P!NoLeakHolds, P!LastToGoHolds, PTL DEF Managed
=============================================================================
