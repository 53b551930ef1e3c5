---------------------------- MODULE MCHostedZone ----------------------------
(* HostedZone for TLC: the wishes and tag lists of the configurations.     *)
EXTENDS HostedZone, TLC

CONSTANTS a, b, c, d

TwoVPCs == {a, b}
FourVPCs == {a, b, c, d}
Wish(via, ids) == [via |-> via, ids |-> ids, misplaced |-> {}]

(* One VPC, a swap that keeps, adds and removes, one that is held by       *)
(* another zone, none left, a public zone, and an incomplete entry.        *)
AllWishes ==
  {Wish("vpcs", {a}), Wish("vpcs", {a, b}), Wish("vpcs", {b, c}), Wish("vpc", {c}),
   Wish("vpcs", {c, d}), Wish("vpcs", {}), Wish("none", {}), Wish("incomplete", {a})}

(* Two values of one key, and another key that stays. *)
OldTags == {<<"team", "x">>, <<"env", "old">>}
NewTags == {<<"team", "x">>, <<"env", "new">>}
TwoTagLists == {OldTags, NewTags}
(* The controller's tags, one of which the user overrides, and a tag that  *)
(* CloudFormation leaves.                                                  *)
ControllerTags == {<<"env", "none">>, <<"by", "ack">>}
StackTags == {<<"aws:stack", "s">>}
AwsPrefixed == {"aws:stack"}
NewTagBad == {<<"env", "new">>}
NoBadTags == {}

(* A public zone, both fields at once, a VPC for an explicitly public      *)
(* zone, two VPCs, one of them misplaced.                                  *)
FewWishes ==
  {Wish("none", {}), Wish("both", {a}), Wish("public", {a}), Wish("vpcs", {a, b}),
   [via |-> "vpcs", ids |-> {a, b}, misplaced |-> {b}]}

NoVPC == {}
Held == {d}

ZoneSymmetry == Permutations(ZoneIds)
=============================================================================
