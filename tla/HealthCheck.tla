---------------------------- MODULE HealthCheck ----------------------------
(***************************************************************************)
(* One HealthCheck custom resource, the worker that reconciles it, and the *)
(* health checks it creates in Route 53 with their configuration, their    *)
(* version and their tags.  UpdateHealthCheck compares the version kept in *)
(* Status.HealthCheckVersion with the one in Route 53.                     *)
(*                                                                         *)
(* Abstractions.                                                           *)
(*  - Spec.HealthCheckConfig is two of its fields: cfg, an int64 that      *)
(*    Route 53 keeps as int32 and that Create and Update send, stands for  *)
(*    those that customUpdateHealthCheck sends; latency, MeasureLatency,   *)
(*    for those that only Create sends: RequestInterval, RoutingControlARN *)
(*    and Type, and any other that the user has cleared (nil).             *)
(*  - The ACK runtime is modelled as in RecordSet.                         *)
(***************************************************************************)
EXTENDS AckErrors, Tags, Integers, FiniteSets

CONSTANTS
  Wanted,       \* values of the field that a user may write
  Bad,          \* the ones among them that Route 53 refuses (InvalidInput)
  BadTags,      \* tags that Route 53 refuses (InvalidInput)
  MinInt32, MaxInt32,
  TagLists,     \* the tag lists a user may write: sets of <<key, value>>
  Specs,        \* the specs a user may write
  DefaultTags,  \* the controller's own tags (--resource-tags)
  SystemTags,   \* tags another AWS service may put on the health check
  CheckIds, NoCheck, NoId,
  MaxFailures,  \* bound: AWS calls that fail without effect
  MaxLosses,    \* bound: lost answers, failed patches, crashes
  MaxEdits,     \* bound: steps of users
  MaxMeddling   \* bound: changes and deletions made by others

ASSUME RangeAssumption ==
  /\ Wanted \subseteq Int /\ MinInt32 \in Int /\ MaxInt32 \in Int
  /\ MinInt32 < MaxInt32 /\ Bad \subseteq Wanted
ASSUME SpecsAssumption == Specs \subseteq [cfg : Wanted, latency : BOOLEAN, tags : TagLists]
ASSUME TagsAssumption ==
  /\ KeysOf(SystemTags) \subseteq AwsKeys
  /\ KeysOf(DefaultTags \cup UNION TagLists) \cap AwsKeys = {}
  /\ \A tags \in TagLists \cup {DefaultTags, SystemTags} : OnePerKey(tags)

(* A health check of Route 53. *)
AllTags == (UNION TagLists) \cup DefaultTags \cup SystemTags
Checks == [cfg : MinInt32..MaxInt32, latency : BOOLEAN, ver : Nat \ {0}, tags : SUBSET AllTags]

ASSUME IdsAssumption == NoId \notin CheckIds /\ NoCheck \notin Checks

VARIABLES
  checks,   \* Route 53: the health checks this CR has created
  cr, queued,
  pc, mode,
  des, obs, ret, \* obs.fresh, a ghost: nobody else has worked on the check
                 \* since this reconciliation began
  failures, losses, edits, meddling

k8s == <<cr, queued>>
counters == <<failures, losses, edits, meddling>>
vars == <<checks, cr, queued, pc, mode, des, obs, ret, failures, losses, edits, meddling>>

(* Status.ID and Status.HealthCheckVersion; version 0 is nil. *)
StatusOf(id, ver) == [id |-> id, ver |-> ver]
Nil == StatusOf(NoId, 0)
NoSpec == [cfg |-> 0, latency |-> FALSE, tags |-> {}]
Nothing == [spec |-> NoSpec, status |-> Nil, fresh |-> FALSE]

Idle ==
  /\ pc' = "idle" /\ mode' = "sync"
  /\ des' = [spec |-> NoSpec, fin |-> FALSE, status |-> Nil]
  /\ obs' = Nothing
  /\ ret' = [status |-> Nil, cond |-> "none", postCreate |-> FALSE]

Init ==
  /\ checks = [c \in CheckIds |-> NoCheck]
  /\ cr = [phase |-> "gone", fin |-> FALSE, spec |-> NoSpec, status |-> Nil, cond |-> "none"]
  /\ queued = FALSE
  /\ pc = "idle" /\ mode = "sync"
  /\ des = [spec |-> NoSpec, fin |-> FALSE, status |-> Nil]
  /\ obs = Nothing
  /\ ret = [status |-> Nil, cond |-> "none", postCreate |-> FALSE]
  /\ failures = 0 /\ losses = 0 /\ edits = 0 /\ meddling = 0

Failure == failures < MaxFailures /\ failures' = failures + 1
           /\ UNCHANGED <<losses, edits, meddling>>
Loss == losses < MaxLosses /\ losses' = losses + 1 /\ UNCHANGED <<failures, edits, meddling>>
NoFault == UNCHANGED counters

-----------------------------------------------------------------------------
(* Numbers: the conversion int32(x), and the check before it. *)

int32(x) == ((x - MinInt32) % (MaxInt32 - MinInt32 + 1)) + MinInt32

Mut_fitsInt32(x) == ~(x > MaxInt32 + 1 \/ x < MinInt32)
fitsInt32(x) == ~(x > MaxInt32 \/ x < MinInt32)

-----------------------------------------------------------------------------
(* Route 53, users, others and crashes *)

Exists(c) == c # NoId /\ checks[c] # NoCheck

(* UpdateHealthCheck has no parameter for latency. *)
Rewrite(c, cfg) == checks' = [checks EXCEPT ![c].cfg = cfg, ![c].ver = @ + 1]
Retag(c, tags) == checks' = [checks EXCEPT ![c].tags = tags]

UpdateAnswer(c, ver) ==
  IF des.spec.cfg \in Bad THEN "InvalidInput"
  ELSE IF ~Exists(c) THEN "NoSuchHealthCheck"
  ELSE IF ver # 0 /\ ver # checks[c].ver THEN "HealthCheckVersionMismatch" ELSE "none"

(* ChangeTagsForResource on the health check the worker holds, with tags   *)
(* to add and keys to remove.                                              *)
TagsAnswer(tags, keys) ==
  IF ~Exists(des.status.id) THEN "NoSuchHealthCheck"
  ELSE IF tags \cap BadTags # {} \/ (KeysOf(tags) \cup keys) \cap AwsKeys # {}
    THEN "InvalidInput" ELSE "none"

(* What the worker's health check looks like. *)
Holding(cfg, latency, ver, tags) ==
  /\ Exists(des.status.id)
  /\ checks[des.status.id] = [cfg |-> cfg, latency |-> latency, ver |-> ver, tags |-> tags]

IdsInUse == {cr.status.id, des.status.id, obs.status.id, ret.status.id}

User ==
  /\ edits < MaxEdits /\ edits' = edits + 1
  /\ \/ /\ cr.phase = "gone"
        /\ \E s \in Specs : cr' = [phase |-> "live", fin |-> FALSE, spec |-> s,
                                   status |-> Nil, cond |-> "none"]
     \/ /\ cr.phase = "live"
        /\ \E s \in Specs \ {cr.spec} : cr' = [cr EXCEPT !.spec = s]
     \/ /\ cr.phase = "live"
        /\ cr' = [cr EXCEPT !.phase = IF cr.fin THEN "deleting" ELSE "gone"]
  /\ queued' = TRUE
  /\ UNCHANGED <<checks, pc, mode, des, obs, ret, failures, losses, meddling>>

(* Somebody else reconfigures or deletes the health check of the CR. *)
Meddler ==
  /\ meddling < MaxMeddling /\ meddling' = meddling + 1
  /\ \E c \in {cr.status.id, des.status.id} :
       /\ Exists(c)
       /\ \/ \E x \in Wanted \ Bad : fitsInt32(x) /\ x # checks[c].cfg /\ Rewrite(c, x)
          \/ Retag(c, Tagged(checks[c].tags, SystemTags))
          \/ checks' = [checks EXCEPT ![c] = NoCheck]
  /\ obs' = [obs EXCEPT !.fresh = FALSE]
  /\ UNCHANGED <<cr, queued, pc, mode, des, ret, failures, losses, edits>>

Crash ==
  /\ Loss
  /\ Idle
  /\ queued' = TRUE
  /\ UNCHANGED <<checks, cr>>

-----------------------------------------------------------------------------
(* Errors and conditions *)

Mut_TerminalCodes == {"InvalidInput", "HealthCheckInUse", "NoSuchHealthCheck"}
TerminalCodes == {"InvalidInput", "HealthCheckInUse"}

ConditionAfter(err) ==
  IF err = "none" THEN "Synced" ELSE ConditionOf(err, TerminalCodes)

Result(status, err, marked) ==
  [status |-> status, cond |-> ConditionAfter(err),
   postCreate |-> marked /\ ConditionAfter(err) # "Terminal"]

Return(status, err) == pc' = "patch" /\ ret' = Result(status, err, FALSE)

Goto(label) == pc' = label /\ UNCHANGED ret

-----------------------------------------------------------------------------
(* The worker: ReadOne *)

Reconcile ==
  /\ pc = "idle" /\ queued /\ cr.phase # "gone"
  /\ queued' = FALSE
  /\ des' = [spec |-> [cr.spec EXCEPT !.tags = EnsureTags(@, DefaultTags)],
             fin |-> cr.fin, status |-> cr.status]
  /\ obs' = [obs EXCEPT !.fresh = TRUE]
  /\ mode' = IF cr.phase = "deleting" THEN "delete" ELSE "sync"
  /\ Goto("find")
  /\ UNCHANGED <<checks, cr, counters>>

FindNotFound ==
  CASE mode = "sync"   -> Goto("create.finalizer")
    [] mode = "post"   -> Return(des.status, "notFound")
    [] mode = "delete" -> Goto("delete.finalizer")

(* GetHealthCheck by Status.ID. *)
Find ==
  LET id == des.status.id IN
  /\ pc = "find"
  /\ \/ /\ NoFault
        /\ IF Exists(id)
             THEN /\ obs' = [obs EXCEPT !.spec = [cfg |-> checks[id].cfg, latency |-> checks[id].latency,
                                                 tags |-> {}],
                                        !.status = StatusOf(id, checks[id].ver)]
                  /\ Goto("find.tags")
             ELSE FindNotFound /\ UNCHANGED obs
     \/ Failure /\ id # NoId /\ Return(des.status, "OtherAPIError") /\ UNCHANGED obs
  /\ UNCHANGED <<checks, k8s, mode, des>>

(* setResourceAdditionalFields: ListTagsForResource; ReadOne then mirrors  *)
(* what it found into desired.                                             *)
FindTags ==
  LET id == des.status.id IN
  /\ pc = "find.tags"
  /\ \/ /\ NoFault /\ Exists(id)
        /\ obs' = [obs EXCEPT !.spec.tags = checks[id].tags]
        /\ des' = [des EXCEPT !.spec.tags = mirrorAWSTags(@, obs'.spec.tags)]
        /\ Goto("decide")
     \/ NoFault /\ ~Exists(id) /\ FindNotFound /\ UNCHANGED <<des, obs>>
     \/ Failure /\ Return(des.status, "OtherAPIError") /\ UNCHANGED <<des, obs>>
  /\ UNCHANGED <<checks, k8s, mode>>

Mut_compareTags == KeysOf(des.spec.tags) # KeysOf(obs.spec.tags)
compareTags == des.spec.tags # obs.spec.tags
newResourceDelta ==
  des.spec.cfg # obs.spec.cfg \/ des.spec.latency # obs.spec.latency \/ compareTags

Decide ==
  /\ pc = "decide"
  /\ \/ mode = "delete" /\ Goto("delete.call")
     \/ mode = "post" /\ Return(obs.status, "none")
     \/ mode = "sync" /\ ~des.fin /\ Return(obs.status, "terminalError")
     \/ mode = "sync" /\ des.fin /\ ~newResourceDelta /\ Return(obs.status, "none")
     \/ mode = "sync" /\ des.fin /\ newResourceDelta /\ Goto("update.call")
  /\ UNCHANGED <<checks, k8s, mode, des, obs, counters>>

-----------------------------------------------------------------------------
(* The worker: Create *)

AddFinalizer ==
  /\ pc = "create.finalizer"
  /\ \/ /\ NoFault
        /\ IF cr.phase = "gone"
             THEN Return(des.status, "plain") /\ UNCHANGED <<cr, des>>
             ELSE /\ cr' = [cr EXCEPT !.fin = TRUE]
                  /\ des' = [des EXCEPT !.fin = TRUE]
                  /\ Goto("create.call")
     \/ ~des.fin /\ Loss /\ Return(des.status, "plain") /\ UNCHANGED <<cr, des>>
  /\ UNCHANGED <<checks, queued, mode, obs>>

CreateFailed(status, err, marked) ==
  LET r == Result(status, err, marked) IN
  /\ ret' = r
  /\ \/ pc' = "patch"
     \/ (IsAPIError(err) \/ r.cond = "Terminal") /\ ~r.postCreate /\ pc' = "create.release"

(* CreateHealthCheck with a caller reference of its own: a new check. *)
NewCheck(c) ==
  /\ c \notin IdsInUse /\ checks[c] = NoCheck
  /\ checks' = [checks EXCEPT ![c] = [cfg |-> int32(des.spec.cfg), latency |-> des.spec.latency,
                                      ver |-> 1, tags |-> {}]]

CreateCall ==
  /\ pc = "create.call"
  /\ \/ /\ NoFault /\ ~fitsInt32(des.spec.cfg)
        /\ CreateFailed(des.status, "plain", FALSE) /\ UNCHANGED <<checks, des>>
     \/ /\ NoFault /\ fitsInt32(des.spec.cfg) /\ des.spec.cfg \in Bad
        /\ CreateFailed(des.status, "InvalidInput", FALSE) /\ UNCHANGED <<checks, des>>
     \/ /\ NoFault /\ fitsInt32(des.spec.cfg) /\ des.spec.cfg \notin Bad
        /\ \E c \in CheckIds : NewCheck(c) /\ des' = [des EXCEPT !.status = StatusOf(c, 1)]
        /\ Goto("create.tags")
     \/ /\ Loss /\ fitsInt32(des.spec.cfg) /\ des.spec.cfg \notin Bad
        /\ \E c \in CheckIds : NewCheck(c)
        /\ CreateFailed(des.status, "plain", FALSE) /\ UNCHANGED des
     \/ /\ Failure /\ fitsInt32(des.spec.cfg)
        /\ CreateFailed(des.status, "OtherAPIError", FALSE)
        /\ UNCHANGED <<checks, des>>
  /\ UNCHANGED <<k8s, mode, obs>>

(* The deferred function of sdkCreate marks the error as post-create; the  *)
(* mark is lost if onError then makes it Terminal.                         *)
Mut_PostCreateFailed(err) == CreateFailed(Nil, err, TRUE)
Mut_unmarked(err) == CreateFailed(des.status, err, FALSE)
PostCreateFailed(err) == CreateFailed(des.status, err, TRUE)

(* syncTags on a health check without tags. *)
CreateTags ==
  LET id == des.status.id
      tags == des.spec.tags
      answer == IF tags = {} THEN "none" ELSE TagsAnswer(tags, {})
  IN
  /\ pc = "create.tags"
  /\ \/ /\ NoFault /\ answer = "none"
        /\ IF tags = {} THEN UNCHANGED checks ELSE Retag(id, tags)
        /\ mode' = "post" /\ Goto("find")
     \/ NoFault /\ answer # "none" /\ PostCreateFailed(answer) /\ UNCHANGED <<checks, mode>>
     \/ Failure /\ tags # {} /\ PostCreateFailed("OtherAPIError") /\ UNCHANGED <<checks, mode>>
  /\ UNCHANGED <<k8s, des, obs>>

ReleaseFinalizer ==
  /\ pc = "create.release"
  /\ \/ NoFault /\ cr' = [cr EXCEPT !.fin = FALSE,
                                    !.phase = IF @ = "deleting" THEN "gone" ELSE @]
     \/ Loss /\ UNCHANGED cr
  /\ Goto("patch")
  /\ UNCHANGED <<checks, queued, mode, des, obs>>

-----------------------------------------------------------------------------
(* The worker: Update (customUpdateHealthCheck) *)

(* The version sent is the one of desired, that is of the CR as it was     *)
(* when the reconciliation began, not the one ReadOne has just seen.       *)
Mut_expectedVersion == 0
expectedVersion == des.status.ver

(* An error comes without a resource: onError marks latest, and with it    *)
(* the version ReadOne saw is persisted.                                   *)
Mut_UpdateFailed(err) == Return(des.status, err)
UpdateFailed(err) == Return(obs.status, err)

UpdateCall ==
  LET id == des.status.id
      answer == UpdateAnswer(id, expectedVersion)
  IN
  /\ pc = "update.call"
  /\ \/ /\ NoFault /\ ~fitsInt32(des.spec.cfg)
        /\ UpdateFailed("plain") /\ UNCHANGED <<checks, des>>
     \/ /\ NoFault /\ fitsInt32(des.spec.cfg) /\ answer = "none"
        /\ Rewrite(id, int32(des.spec.cfg))
        /\ des' = [des EXCEPT !.status.ver = checks[id].ver + 1]
        /\ Goto(IF compareTags THEN "update.untag" ELSE "patch.spec")
     \/ /\ NoFault /\ fitsInt32(des.spec.cfg) /\ answer # "none"
        /\ UpdateFailed(answer) /\ UNCHANGED <<checks, des>>
     \/ /\ Loss /\ fitsInt32(des.spec.cfg) /\ answer = "none"
        /\ Rewrite(id, int32(des.spec.cfg))
        /\ UpdateFailed("plain") /\ UNCHANGED des
     \/ /\ Failure /\ fitsInt32(des.spec.cfg)
        /\ UpdateFailed("OtherAPIError")
        /\ UNCHANGED <<checks, des>>
  /\ UNCHANGED <<k8s, mode, obs>>

(* syncTags: one call removes keys, one call adds pairs.  The new version  *)
(* is in ko, which an error of either throws away.                         *)
UpdateUntag ==
  LET id == des.status.id
      keys == toDeleteTagKeys(des.spec.tags, obs.spec.tags)
      answer == IF keys = {} THEN "none" ELSE TagsAnswer({}, keys)
  IN
  /\ pc = "update.untag"
  /\ \/ /\ NoFault /\ answer = "none"
        /\ IF keys = {} THEN UNCHANGED checks ELSE Retag(id, Untagged(checks[id].tags, keys))
        /\ Goto("update.tag")
     \/ NoFault /\ answer # "none" /\ UpdateFailed(answer) /\ UNCHANGED checks
     \/ Failure /\ keys # {} /\ UpdateFailed("OtherAPIError") /\ UNCHANGED checks
  /\ UNCHANGED <<k8s, mode, des, obs>>

UpdateTag ==
  LET id == des.status.id
      added == toAdd(des.spec.tags, obs.spec.tags)
      answer == IF added = {} THEN "none" ELSE TagsAnswer(added, {})
  IN
  /\ pc = "update.tag"
  /\ \/ /\ NoFault /\ answer = "none"
        /\ IF added = {} THEN UNCHANGED checks ELSE Retag(id, Tagged(checks[id].tags, added))
        /\ Goto("patch.spec")
     \/ NoFault /\ answer # "none" /\ UpdateFailed(answer) /\ UNCHANGED checks
     \/ Failure /\ added # {} /\ UpdateFailed("OtherAPIError") /\ UNCHANGED checks
  /\ UNCHANGED <<k8s, mode, des, obs>>

(* ko.Spec.HealthCheckConfig is the one in the answer of the update, with  *)
(* the latency that was read, as no update changes it.  The runtime        *)
(* patches what differs from desired: an edit of latency is taken back.    *)
PatchSpec ==
  LET edited == des.spec.latency # obs.spec.latency IN
  /\ pc = "patch.spec"
  /\ \/ /\ NoFault
        /\ cr' = IF edited THEN [cr EXCEPT !.spec.latency = obs.spec.latency] ELSE cr
        /\ des' = [des EXCEPT !.spec.latency = obs.spec.latency]
        /\ Return(des.status, "none")
     \/ Loss /\ edited /\ Return(des.status, "plain") /\ UNCHANGED <<cr, des>>
  /\ UNCHANGED <<checks, queued, mode, obs>>

-----------------------------------------------------------------------------
(* The worker: Delete, and the end of a reconciliation *)

DeleteCall ==
  LET id == des.status.id IN
  /\ pc = "delete.call"
  /\ \/ /\ NoFault /\ Exists(id)
        /\ checks' = [checks EXCEPT ![id] = NoCheck] /\ Goto("delete.finalizer")
     \/ NoFault /\ ~Exists(id) /\ Return(obs.status, "NoSuchHealthCheck") /\ UNCHANGED checks
     \/ /\ Loss /\ Exists(id)
        /\ checks' = [checks EXCEPT ![id] = NoCheck] /\ Return(obs.status, "plain")
     \/ Failure /\ Return(obs.status, "OtherAPIError") /\ UNCHANGED checks
  /\ UNCHANGED <<k8s, mode, des, obs>>

RemoveFinalizer ==
  /\ pc = "delete.finalizer"
  /\ \/ /\ NoFault
        /\ cr' = [cr EXCEPT !.fin = FALSE, !.phase = IF @ = "deleting" THEN "gone" ELSE @]
        /\ Idle
     \/ Loss /\ Return(des.status, "plain") /\ UNCHANGED <<cr, mode, des, obs>>
  /\ UNCHANGED <<checks, queued>>

PatchStatus ==
  /\ pc = "patch"
  /\ \/ /\ NoFault
        /\ cr' = IF cr.phase = "gone" THEN cr
                 ELSE [cr EXCEPT !.status = ret.status, !.cond = ret.cond]
     \/ Loss /\ UNCHANGED cr
  /\ queued' = (queued \/ ret.cond # "Terminal")
  /\ Idle
  /\ UNCHANGED checks

Worker ==
  \/ Reconcile \/ Find \/ FindTags \/ Decide
  \/ AddFinalizer \/ CreateCall \/ CreateTags \/ ReleaseFinalizer
  \/ UpdateCall \/ UpdateUntag \/ UpdateTag \/ PatchSpec
  \/ DeleteCall \/ RemoveFinalizer \/ PatchStatus

Next == Worker \/ User \/ Meddler \/ Crash

Spec == Init /\ [][Next]_vars

FairSpec == Spec /\ WF_vars(Worker)

-----------------------------------------------------------------------------
Labels == {"idle", "find", "find.tags", "decide",
           "create.finalizer", "create.call", "create.tags", "create.release",
           "update.call", "update.untag", "update.tag", "patch.spec",
           "delete.call", "delete.finalizer", "patch"}

Statuses == [id : CheckIds \cup {NoId}, ver : Nat]
AllSpecs == [cfg : Int, latency : BOOLEAN, tags : SUBSET AllTags]
CRs == [phase : {"live", "deleting", "gone"}, fin : BOOLEAN,
        spec : AllSpecs, status : Statuses, cond : Conditions]
Desired == [spec : AllSpecs, fin : BOOLEAN, status : Statuses]
Observed == [spec : AllSpecs, status : Statuses, fresh : BOOLEAN]
Results == [status : Statuses, cond : Conditions, postCreate : BOOLEAN]

(* Every variable stays in its type. *)
TypeOK ==
  /\ checks \in [CheckIds -> Checks \cup {NoCheck}]
  /\ cr \in CRs /\ queued \in BOOLEAN
  /\ pc \in Labels /\ mode \in {"sync", "post", "delete"}
  /\ des \in Desired /\ obs \in Observed /\ ret \in Results

(* Unmangled: what Route 53 holds is what somebody wrote.  A value that    *)
(* does not fit int32 is refused on Create and on Update and never arrives *)
(* as another number (hooks.go:75, sdk.go newCreateRequestPayload).        *)
Unmangled == \A c \in CheckIds : checks[c] # NoCheck => checks[c].cfg \in Wanted

(* NoLostUpdate: an update overwrites only the configuration that this     *)
(* very reconciliation has read; what somebody else wrote between ReadOne  *)
(* and UpdateHealthCheck is refused with HealthCheckVersionMismatch, even  *)
(* though the version sent was read one reconciliation earlier and tag     *)
(* failures persist one that is already outdated.                          *)
NoLostUpdate ==
  [][UpdateCall /\ checks' # checks => checks[des.status.id].cfg = obs.spec.cfg]_vars

(* OneCheck: a second health check is created only for a lost answer, a    *)
(* failed patch, a crash or a deletion made by others, never because a     *)
(* call failed after the first one was created, unless Route 53 refuses    *)
(* its tags: then the error is Terminal, and the CR may lose its finalizer *)
(* and be made anew (sdk.go:456).                                          *)
OneCheck == Cardinality({c \in CheckIds : checks[c] # NoCheck}) <= 1 + losses

(* SyncedReflects: a CR is reported as Synced only when its health check   *)
(* has the configuration and tags the worker was asked for and the version *)
(* it reports, whether it has just created the check, has updated it or    *)
(* has found nothing to do; unless somebody else worked on it meanwhile.   *)
(* An edit of a field that no update sends is not what Synced promises:    *)
(* it is dropped (hooks.go:51-125), and PatchSpec has put the check's own  *)
(* value back into the CR and des before Synced is said (hooks.go:256).    *)
SyncedReflects ==
  pc = "patch" /\ ret.cond = "Synced" /\ obs.fresh =>
    Holding(des.spec.cfg, des.spec.latency, ret.status.ver, des.spec.tags)

(* Converges: a managed CR with a valid spec ends Synced and in agreement  *)
(* with its health check, whatever stale version is persisted on the way:  *)
(* a version mismatch is refreshed and never repeats for ever, and the     *)
(* difference in a field that no update sends does not call for another    *)
(* update for ever, since it is the CR that changes there.                 *)
Converges ==
  <>[](cr.phase = "live" /\ cr.fin /\ fitsInt32(cr.spec.cfg) /\ cr.spec.cfg \notin Bad
       /\ (cr.spec.tags \cup DefaultTags) \cap BadTags = {}
         => /\ Exists(cr.status.id) /\ cr.cond = "Synced"
            /\ checks[cr.status.id].cfg = cr.spec.cfg
            /\ checks[cr.status.id].latency = cr.spec.latency
            /\ AsAsked(checks[cr.status.id].tags, cr.spec.tags, DefaultTags))

(* Managed: a HealthCheck CR implements ManagedResource, and what the      *)
(* worker does is the controller's part of it: the finalizer comes first   *)
(* and goes last, nothing is removed that nobody asked to remove, and no   *)
(* patch of the status loses the resource (descriptor.go MarkManaged,      *)
(* MarkUnmanaged).                                                         *)
MR == INSTANCE ManagedResource WITH phase <- cr.phase, fin <- cr.fin, exists <- Exists(cr.status.id)
Managed == MR!Spec /\ [][Worker => [MR!Controller]_(MR!vars)]_vars

(* Deletes: a CR that is being deleted disappears, also when its health    *)
(* check is deleted by somebody else between ReadOne and the call.         *)
Deletes == cr.phase = "deleting" ~> cr.phase = "gone"

-----------------------------------------------------------------------------
(* The inductive invariant behind the safety properties.                   *)

Unread   == {"find", "find.tags", "create.finalizer", "create.call", "create.tags"}
Read     == {"find.tags", "decide", "update.call", "update.untag", "update.tag", "delete.call"}
Unmade   == {"create.finalizer", "create.call", "create.release", "delete.finalizer"}
Deleting == {"delete.call", "delete.finalizer"}

Held == {cr.status, des.status, obs.status, ret.status}

(* The user's number is on its way to Route 53 unchanged, and his tags     *)
(* have no key of AWS's until ReadOne mirrors them.                        *)
SpecInv ==
  /\ cr.phase # "gone" => cr.spec.cfg \in Wanted
  /\ KeysOf(cr.spec.tags) \cap AwsKeys = {}
  /\ pc # "idle" => des.spec.cfg \in Wanted
  /\ pc \in Unread => KeysOf(des.spec.tags) \cap AwsKeys = {}

(* A version that is held together with an ID was the check's once; the    *)
(* one sent is not newer than the one read, and that one comes with the    *)
(* configuration that was read.                                            *)
Sound(s) == s.id # NoId => s.ver # 0 /\ (Exists(s.id) => s.ver <= checks[s.id].ver)

AsRead ==
  LET id == obs.status.id IN
  Exists(id) /\ checks[id].ver = obs.status.ver => checks[id].cfg = obs.spec.cfg

VersionInv ==
  /\ \A s \in Held : Sound(s)
  /\ pc = "idle" => des.status = Nil /\ obs.status = Nil
  /\ pc \notin {"patch", "create.release"} => ret.status = Nil
  /\ pc \in Read => obs.status.id = des.status.id /\ des.status.id # NoId
  /\ pc \in {"find.tags", "decide", "update.call"} =>
       des.status.ver <= obs.status.ver /\ AsRead

(* No tag list has two values for a key. *)
KeysInv ==
  /\ \A tags \in {cr.spec.tags, des.spec.tags, obs.spec.tags} : OnePerKey(tags)
  /\ \A c \in CheckIds : checks[c] # NoCheck => OnePerKey(checks[c].tags)

(* As long as nobody else works on the check, it has at each point the     *)
(* version, configuration and tags that were read, and what the worker has *)
(* since made of them.                                                     *)
SettledInv ==
  /\ pc = "create.release" => ret.cond # "Synced"
  /\ obs.fresh =>
       /\ pc = "create.tags" => Holding(des.spec.cfg, des.spec.latency, 1, {})
       /\ pc \in {"find", "find.tags", "decide"} /\ mode = "post" =>
            Holding(des.spec.cfg, des.spec.latency, 1, des.spec.tags)
       /\ pc = "find.tags" =>
            Holding(obs.spec.cfg, obs.spec.latency, obs.status.ver, checks[des.status.id].tags)
       /\ pc \in {"decide", "update.call"} =>
            Holding(obs.spec.cfg, obs.spec.latency, obs.status.ver, obs.spec.tags)
       /\ pc = "update.untag" =>
            Holding(des.spec.cfg, obs.spec.latency, des.status.ver, obs.spec.tags)
       /\ pc = "update.tag" =>
            Holding(des.spec.cfg, obs.spec.latency, des.status.ver, des.spec.tags \cap obs.spec.tags)
       /\ pc = "patch.spec" =>
            Holding(des.spec.cfg, obs.spec.latency, des.status.ver, des.spec.tags)
  /\ SyncedReflects

(* Whoever holds the ID of a health check that exists holds the same one,  *)
(* which the worker returns; and the CR then carries its finalizer.  The   *)
(* worker's belief in the finalizer outlives every step but the release.   *)
ManagedInv ==
  /\ \A s \in Held : Exists(s.id) =>
       cr.fin /\ cr.phase # "gone" /\ (pc # "idle" => s.id = des.status.id)
  /\ pc \in {"patch", "create.release"} /\ Exists(des.status.id) => ret.status.id = des.status.id
  /\ pc \in Unmade => ~Exists(des.status.id)
  /\ des.fin /\ pc # "patch" => cr.fin /\ cr.phase # "gone"
  /\ pc \in {"create.call", "create.tags"} => des.fin
  /\ cr.phase = "deleting" => cr.fin
  /\ pc \in Deleting \/ (mode = "delete" /\ pc \in {"find", "find.tags", "decide"})
       => cr.phase = "deleting"

(* A health check that nobody holds any more was lost. *)
Stray == {c \in CheckIds : Exists(c) /\ \A s \in Held : s.id # c}
StrayInv == losses \in Nat /\ IsFiniteSet(Stray) /\ Cardinality(Stray) <= losses

(* Inv: the strengthening of Unmangled, OneCheck, NoLostUpdate,            *)
(* SyncedReflects and Managed that every step preserves: whose number,     *)
(* version, tags and ID the CR and the worker hold at each point of a      *)
(* reconciliation.                                                         *)
Inv ==
  /\ TypeOK /\ Unmangled /\ SpecInv /\ VersionInv
  /\ KeysInv /\ SettledInv /\ ManagedInv /\ StrayInv
=============================================================================
