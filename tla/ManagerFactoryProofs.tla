------------------------ MODULE ManagerFactoryProofs ------------------------
(* Theorems about ManagerFactory, for every set of workers and targets.    *)
EXTENDS ManagerFactory, TLAPS

LEMMA RmIdInjective == \A s, t \in Targets : rmId(s) = rmId(t) => s = t
  BY TargetsAssumption DEF rmId

LEMMA InitInv == Init => Inv
  <1> SUFFICES ASSUME Init PROVE Inv
    OBVIOUS
  <1> USE NoWorkerAssumption DEF Init
  <1>1. TypeOK
    BY DEF TypeOK
  <1>2. LockInv /\ CacheInv /\ BuiltInv /\ MissInv
    BY DEF LockInv, CacheInv, BuiltInv, MissInv
  <1>3. OwnManager /\ BuiltOnce
    BY DEF OwnManager, BuiltOnce
  <1>4. QED
    BY <1>1, <1>2, <1>3 DEF Inv

LEMMA CallInv ==
  ASSUME Inv, NEW w \in Workers, NEW t \in Targets, Call(w, t) PROVE Inv'
  <1> USE DEF Inv, Call
  <1>1. TypeOK'
    BY DEF TypeOK
  <1>2. (LockInv /\ CacheInv /\ BuiltInv /\ BuiltOnce)'
    BY DEF TypeOK, LockInv, CacheInv, BuiltInv, BuiltOnce
  <1>3. MissInv' /\ OwnManager'
    BY DEF TypeOK, MissInv, OwnManager
  <1>4. QED
    BY <1>1, <1>2, <1>3

LEMMA LookupInv ==
  ASSUME Inv, NEW w \in Workers, Lookup(w) PROVE Inv'
  <1> USE DEF Inv, Lookup
  <1> DEFINE rm == rmCache[rmId(target[w])]
  <1>0. rm \in Managers \cup {NoManager}
    BY DEF TypeOK
  <1>1. TypeOK'
    BY <1>0 DEF TypeOK
  <1>2. (LockInv /\ CacheInv /\ BuiltInv /\ BuiltOnce)'
    BY DEF TypeOK, LockInv, CacheInv, BuiltInv, BuiltOnce
  <1>3. MissInv'
    <2>1. rm = NoManager => built[w][target[w]] = 0
      BY DEF TypeOK, BuiltInv
    <2>2. QED
      BY <2>1 DEF TypeOK, MissInv
  <1>4. OwnManager'
    <2>1. rm # NoManager => rm.target = target[w]
      BY DEF TypeOK, CacheInv
    <2>2. QED
      BY <2>1 DEF TypeOK, OwnManager
  <1>5. QED
    BY <1>1, <1>2, <1>3, <1>4

LEMMA LockStepInv ==
  ASSUME Inv, NEW w \in Workers, Lock(w) PROVE Inv'
  <1> USE DEF Inv, Lock
  <1>1. TypeOK'
    BY DEF TypeOK
  <1>2. LockInv'
    BY NoWorkerAssumption DEF TypeOK, LockInv
  <1>3. (CacheInv /\ BuiltInv /\ BuiltOnce /\ MissInv /\ OwnManager)'
    BY DEF TypeOK, CacheInv, BuiltInv, BuiltOnce, MissInv, OwnManager
  <1>4. QED
    BY <1>1, <1>2, <1>3

LEMMA BuildInv ==
  ASSUME Inv, NEW w \in Workers, Build(w) PROVE Inv'
  <1> USE DEF Inv, Build
  <1> DEFINE rm == [target |-> target[w], by |-> w, n |-> built[w][target[w]] + 1]
  <1>0. /\ rm \in Managers /\ rm # NoManager
        /\ target[w] \in Targets
        /\ built[w][target[w]] = 0
        /\ built' = [built EXCEPT ![w][target[w]] = 1]
        /\ rmCache' = [rmCache EXCEPT ![rmId(target[w])] = rm]
    <2>1. target[w] \in Targets /\ built[w][target[w]] = 0
      BY DEF TypeOK, MissInv
    <2>2. rm \in Managers /\ rm # NoManager
      BY <2>1, NoManagerAssumption DEF Managers
    <2>3. built' = [built EXCEPT ![w][target[w]] = 1]
      BY <2>1 DEF TypeOK
    <2>4. rm.target = target[w]
      OBVIOUS
    <2>5. rmCache' = stored(rm)
      OBVIOUS
    <2>6. QED
      BY <2>1, <2>2, <2>3, <2>4, <2>5 DEF stored
  <1>1. TypeOK'
    BY <1>0 DEF TypeOK
  <1>2. LockInv'
    BY NoWorkerAssumption DEF TypeOK, LockInv
  <1>3. CacheInv'
    BY <1>0, RmIdInjective DEF TypeOK, CacheInv
  <1>4. BuiltInv'
    BY <1>0, RmIdInjective DEF TypeOK, BuiltInv
  <1>5. MissInv'
    <2>1. \A v \in Workers : pc'[v] \in {"missed", "build"} => v # w
      BY DEF TypeOK
    <2>2. QED
      BY <1>0, <2>1 DEF TypeOK, MissInv
  <1>6. OwnManager' /\ BuiltOnce'
    BY <1>0 DEF TypeOK, OwnManager, BuiltOnce
  <1>7. QED
    BY <1>1, <1>2, <1>3, <1>4, <1>5, <1>6

LEMMA StutterInv == Inv /\ UNCHANGED vars => Inv'
  BY DEF Inv, vars, TypeOK, LockInv, CacheInv, BuiltInv, MissInv, OwnManager, BuiltOnce

(* The invariant holds in every reachable state. *)
THEOREM InvHolds == Spec => []Inv
  <1>1. Inv /\ [Next]_vars => Inv'
    BY CallInv, LookupInv, LockStepInv, BuildInv, StutterInv DEF Next
  <1>2. QED
    BY InitInv, <1>1, PTL DEF Spec

(* Every variable keeps its type. *)
THEOREM TypeCorrect == Spec => []TypeOK
  <1>1. Inv => TypeOK
    BY DEF Inv
  <1>2. QED
    BY InvHolds, <1>1, PTL

(* A reconciler never gets a manager of another account, region or role.   *)
THEOREM OwnManagerHolds == Spec => []OwnManager
  <1>1. Inv => OwnManager
    BY DEF Inv
  <1>2. QED
    BY InvHolds, <1>1, PTL

(* The managers of one target are at most as many as the workers.          *)
THEOREM BuiltOnceHolds == Spec => []BuiltOnce
  <1>1. Inv => BuiltOnce
    BY DEF Inv
  <1>2. QED
    BY InvHolds, <1>1, PTL
=============================================================================
