-------------------------- MODULE ManagedResource --------------------------
(***************************************************************************)
(* What a resource manager and the reconciler that drives it promise,      *)
(* whatever the kind: one custom resource, its finalizer, and the AWS      *)
(* resource that belongs to it.  RecordSet, HostedZone, HealthCheck and    *)
(* References are shown to implement it.                                   *)
(***************************************************************************)
VARIABLES
  phase,   \* the custom resource: "gone", "live" or "deleting"
  fin,     \* it carries the finalizer of the controller
  exists   \* its AWS resource exists

vars == <<phase, fin, exists>>

Init == phase = "gone" /\ fin = FALSE /\ exists = FALSE

-----------------------------------------------------------------------------
(* The world: a user submits and withdraws the custom resource, and        *)
(* whoever else has access to AWS may remove the resource.                 *)

Submit ==
  /\ phase = "gone" /\ ~exists
  /\ phase' = "live" /\ fin' = FALSE /\ UNCHANGED exists

Withdraw ==
  /\ phase = "live"
  /\ phase' = IF fin THEN "deleting" ELSE "gone"
  /\ UNCHANGED <<fin, exists>>

Lose == exists /\ exists' = FALSE /\ UNCHANGED <<phase, fin>>

World == Submit \/ Withdraw \/ Lose

-----------------------------------------------------------------------------
(* The controller: the finalizer is there before the resource, or comes    *)
(* with its adoption, and goes after it; the resource is removed only for  *)
(* a CR in deletion, which disappears with its finalizer.                  *)

Manage == phase # "gone" /\ fin' = TRUE /\ UNCHANGED <<phase, exists>>

Adopt == phase # "gone" /\ fin' = TRUE /\ exists' = TRUE /\ UNCHANGED phase

Make == phase # "gone" /\ fin /\ exists' = TRUE /\ UNCHANGED <<phase, fin>>

Remove == phase = "deleting" /\ exists' = FALSE /\ UNCHANGED <<phase, fin>>

Release ==
  /\ ~exists
  /\ fin' = FALSE /\ phase' = (IF phase = "deleting" THEN "gone" ELSE phase)
  /\ UNCHANGED exists

Controller == Manage \/ Adopt \/ Make \/ Remove \/ Release

Next == World \/ Controller

Spec == Init /\ [][Next]_vars

-----------------------------------------------------------------------------
(* NoLeak: an AWS resource that exists has a custom resource, and the      *)
(* finalizer is on it, so that a deletion comes back for the resource      *)
(* (descriptor.go MarkManaged, MarkUnmanaged).                             *)
NoLeak == exists => fin /\ phase # "gone"

(* LastToGo: a custom resource goes only when its AWS resource is gone,    *)
(* whichever of deletion, release and withdrawal lets it go.               *)
LastToGo == [][phase # "gone" /\ phase' = "gone" => ~exists]_vars
=============================================================================
