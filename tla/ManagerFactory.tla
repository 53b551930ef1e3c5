--------------------------- MODULE ManagerFactory ---------------------------
(***************************************************************************)
(* resourceManagerFactory.ManagerFor: the cache of resource managers that  *)
(* the concurrent reconcilers of one kind share.  The three kinds have the *)
(* same generated code.                                                    *)
(*                                                                         *)
(* A critical section is one step: RLock, the lookup and RUnlock; the      *)
(* write lock is taken and released in two, as newResourceManager runs     *)
(* between them.  That call always succeeds: its error is nil in each kind *)
(* (record_set/manager.go:353), so ManagerFor's branch on it is not taken. *)
(***************************************************************************)
EXTENDS Naturals

CONSTANTS
  Workers,   \* reconcilers of one kind
  Targets,   \* the accounts, regions and roles resources are managed with
  NoManager, NoWorker

ASSUME TargetsAssumption == \A t \in Targets : t = <<t[1], t[2], t[3]>>
ASSUME NoWorkerAssumption == NoWorker \notin Workers

(* A manager is the target it acts for and the worker that built it, the   *)
(* n-th for that target.                                                   *)
Managers == [target : Targets, by : Workers, n : Nat]

ASSUME NoManagerAssumption == NoManager \notin Managers

VARIABLES
  rmCache,   \* by rmId
  writer,    \* the worker that holds the write lock, or NoWorker
  pc,        \* by worker
  target,    \* by worker: the arguments of its latest call
  result,    \* by worker: the manager its latest call returned
  built      \* by worker and target: managers built so far

vars == <<rmCache, writer, pc, target, result, built>>

(* fmt.Sprintf("%s/%s/%s", id, region, roleARN); no account and no region  *)
(* has a slash, so the string determines the three.                        *)
Mut_rmId(t) == <<t[1], t[2], "">>
rmId(t) == <<t[1], t[2], t[3]>>

Init ==
  /\ rmCache = [i \in {rmId(t) : t \in Targets} |-> NoManager]
  /\ writer = NoWorker
  /\ pc = [w \in Workers |-> "idle"]
  /\ target \in [Workers -> Targets]
  /\ result = [w \in Workers |-> NoManager]
  /\ built = [w \in Workers |-> [t \in Targets |-> 0]]

Call(w, t) ==
  /\ pc[w] = "idle"
  /\ pc' = [pc EXCEPT ![w] = "lookup"]
  /\ target' = [target EXCEPT ![w] = t]
  /\ UNCHANGED <<rmCache, writer, result, built>>

(* The answer is remembered by nobody: a miss is not looked up again.      *)
Lookup(w) ==
  /\ pc[w] = "lookup" /\ writer = NoWorker
  /\ LET rm == rmCache[rmId(target[w])] IN
       \/ /\ rm # NoManager
          /\ result' = [result EXCEPT ![w] = rm]
          /\ pc' = [pc EXCEPT ![w] = "idle"]
       \/ /\ rm = NoManager
          /\ pc' = [pc EXCEPT ![w] = "missed"] /\ UNCHANGED result
  /\ UNCHANGED <<rmCache, writer, target, built>>

Lock(w) ==
  /\ pc[w] = "missed" /\ writer = NoWorker
  /\ writer' = w
  /\ pc' = [pc EXCEPT ![w] = "build"]
  /\ UNCHANGED <<rmCache, target, result, built>>

(* newResourceManager, and the deferred release of the lock.               *)
Mut_stored(rm) == rmCache
stored(rm) == [rmCache EXCEPT ![rmId(rm.target)] = rm]

Mut_Build(w) ==
  /\ pc[w] = "build"
  /\ built' = [built EXCEPT ![w][target[w]] = 1]
  /\ writer' = NoWorker
  /\ pc' = [pc EXCEPT ![w] = "lookup"]
  /\ UNCHANGED <<rmCache, target, result>>
Build(w) ==
  /\ pc[w] = "build"
  /\ LET rm == [target |-> target[w], by |-> w, n |-> built[w][target[w]] + 1] IN
       /\ rmCache' = stored(rm)
       /\ result' = [result EXCEPT ![w] = rm]
       /\ built' = [built EXCEPT ![w][target[w]] = @ + 1]
  /\ writer' = NoWorker
  /\ pc' = [pc EXCEPT ![w] = "idle"]
  /\ UNCHANGED target

Next ==
  \E w \in Workers :
    (\E t \in Targets : Call(w, t)) \/ Lookup(w) \/ Lock(w) \/ Build(w)

Spec == Init /\ [][Next]_vars

(* A goroutine that can run does; a sync.RWMutex starves nobody who waits. *)
FairSpec ==
  /\ Spec
  /\ \A w \in Workers :
       /\ WF_vars(Build(w))
       /\ SF_vars(Lookup(w)) /\ SF_vars(Lock(w))

-----------------------------------------------------------------------------
(* Every variable stays in its type. *)
TypeOK ==
  /\ rmCache \in [{rmId(t) : t \in Targets} -> Managers \cup {NoManager}]
  /\ writer \in Workers \cup {NoWorker}
  /\ pc \in [Workers -> {"idle", "lookup", "missed", "build"}]
  /\ target \in [Workers -> Targets]
  /\ result \in [Workers -> Managers \cup {NoManager}]
  /\ built \in [Workers -> [Targets -> Nat]]

(* OwnManager: a reconciler that gets a manager gets one for the account,  *)
(* region and role of its resource, never one that calls AWS as another    *)
(* role, whatever the others put into the cache meanwhile.                 *)
OwnManager ==
  \A w \in Workers :
    pc[w] = "idle" /\ result[w] # NoManager => result[w].target = target[w]

(* BuiltOnce: however often it is called, a worker builds at most one      *)
(* manager for a target, so the number of managers, with their AWS         *)
(* clients, is bounded by the number of workers although the cache is not  *)
(* looked up again under the write lock (two workers that miss together    *)
(* still build one each).                                                  *)
BuiltOnce == \A w \in Workers, t \in Targets : built[w][t] <= 1

(* Returns: every call of ManagerFor comes back, also one that misses      *)
(* while others build and has to wait for the write lock after them.       *)
Returns == \A w \in Workers : pc[w] = "lookup" ~> pc[w] = "idle"

-----------------------------------------------------------------------------
(* The inductive invariant: the lock belongs to the worker that builds;    *)
(* what is cached belongs to its key; a target a worker has built for is   *)
(* in the cache, so that a worker that missed has not built for it.        *)

LockInv == \A w \in Workers : pc[w] = "build" <=> writer = w

CacheInv ==
  \A t \in Targets : rmCache[rmId(t)] # NoManager => rmCache[rmId(t)].target = t

BuiltInv ==
  \A w \in Workers, t \in Targets : built[w][t] > 0 => rmCache[rmId(t)] # NoManager

MissInv ==
  \A w \in Workers : pc[w] \in {"missed", "build"} => built[w][target[w]] = 0

Inv == TypeOK /\ LockInv /\ CacheInv /\ BuiltInv /\ MissInv /\ OwnManager /\ BuiltOnce
=============================================================================
