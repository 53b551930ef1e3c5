-------------------------------- MODULE Tags --------------------------------
(***************************************************************************)
(* The tags of hosted zones and health checks: the controller's own tags   *)
(* are merged into the user's, and the ones AWS put there are mirrored     *)
(* from what was read, before the two sides are compared.  A tag list is a *)
(* set of pairs <<key, value>>, one for a key, as every function of        *)
(* tags.go goes through a map.                                             *)
(***************************************************************************)
CONSTANT AwsKeys   \* keys that begin with "aws:"

KeysOf(tags) == {t[1] : t \in tags}

OnePerKey(tags) == \A s, t \in tags : s[1] = t[1] => s = t

WithoutKeys(tags, keys) == {t \in tags : t[1] \notin keys}

(* The controller's tags, where the user has none with that key.           *)
EnsureTags(tags, defaults) == tags \cup WithoutKeys(defaults, KeysOf(tags))

(* What AWS added is wanted as it is. *)
Mut_mirrorAWSTags(desired, latest) == desired
mirrorAWSTags(desired, latest) ==
  LET aws == {t \in latest : t[1] \in AwsKeys} IN WithoutKeys(desired, KeysOf(aws)) \cup aws

(* The difference that syncTags turns into calls. *)
toAdd(desired, latest) == desired \ latest
Mut_toDeleteTagKeys(desired, latest) == KeysOf(latest)
toDeleteTagKeys(desired, latest) == KeysOf(latest \ desired)

(* The effect of one ChangeTagsForResource call on the tags of a resource. *)
Untagged(tags, keys) == WithoutKeys(tags, keys)
Tagged(tags, more) == WithoutKeys(tags, KeysOf(more)) \cup more

(* What a resource should end up with: the user's tags as they are, the    *)
(* controller's for the keys the user left free, and AWS's own.            *)
AsAsked(tags, user, defaults) ==
  user \subseteq tags /\ KeysOf(tags) \ AwsKeys = KeysOf(user \cup defaults)
=============================================================================
