---------------------------- MODULE MCHealthCheck ----------------------------
(* HealthCheck for TLC: integers of three bits instead of 32; the values   *)
(* are two that Route 53 takes, so that two writers can disagree, one that *)
(* it refuses, and the first one out of range.                             *)
EXTENDS HealthCheck

Lowest == -4

(* With and without a tag of the user's, which overrides the controller's. *)
TwoTagLists == {{}, {<<"by", "user">>}}

(* Two values with both tag lists, the refused value and the one out of    *)
(* range, and a spec from and to which the field is edited that no update  *)
(* sends, alone and along with cfg or the tags.                            *)
SomeSpecs ==
  [cfg : {1, 2}, latency : {FALSE}, tags : TwoTagLists]
  \cup [cfg : {3, 4}, latency : {FALSE}, tags : {{}}]
  \cup [cfg : {1}, latency : {TRUE}, tags : {{}}]

ControllerTags == {<<"by", "ack">>}
StackTags == {<<"aws:stack", "s">>}
NoBadTags == {}
AwsPrefixed == {"aws:stack"}
=============================================================================
