----------------------- MODULE ManagedResourceProofs -----------------------
(***************************************************************************)
(* What ManagedResource promises, and with it every component that is      *)
(* shown to implement it.                                                  *)
(***************************************************************************)
EXTENDS ManagedResource, TLAPS

LEMMA NoLeakStep == NoLeak /\ [Next]_vars => NoLeak'
<1> SUFFICES ASSUME NoLeak, [Next]_vars PROVE NoLeak'
  OBVIOUS
<1> USE DEF NoLeak
<1>1. CASE Submit \/ Withdraw \/ Lose
  BY <1>1 DEF Submit, Withdraw, Lose
<1>2. CASE Manage \/ Adopt \/ Make
  BY <1>2 DEF Manage, Adopt, Make
<1>3. CASE Remove \/ Release
  BY <1>3 DEF Remove, Release
<1> QED
  BY <1>1, <1>2, <1>3 DEF vars, Next, World, Controller

(* An AWS resource that exists has a custom resource with the finalizer.   *)
THEOREM NoLeakHolds == Spec => []NoLeak
<1>1. Init => NoLeak
  BY DEF Init, NoLeak
<1> QED
  BY <1>1, NoLeakStep, PTL DEF Spec

(* A custom resource is not gone before its AWS resource is: not when its  *)
(* finalizer is released, nor when it is withdrawn without one.            *)
THEOREM LastToGoHolds == Spec => LastToGo
<1>1. NoLeak /\ [Next]_vars => [phase # "gone" /\ phase' = "gone" => ~exists]_vars
  <2> SUFFICES ASSUME NoLeak, Next, phase # "gone", phase' = "gone" PROVE ~exists
    OBVIOUS
  <2>1. CASE Withdraw
    BY <2>1 DEF Withdraw, NoLeak
  <2>2. CASE Release
    BY <2>2 DEF Release
  <2>3. CASE Submit \/ Lose \/ Manage \/ Adopt \/ Make \/ Remove
    BY <2>3 DEF Submit, Lose, Manage, Adopt, Make, Remove
  <2> QED
    BY <2>1, <2>2, <2>3 DEF Next, World, Controller
<1> QED
  BY <1>1, NoLeakHolds, PTL DEF Spec, LastToGo
=============================================================================
