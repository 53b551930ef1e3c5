---------------------------- MODULE MCRecordSet ----------------------------
(* RecordSet for TLC: the sets of keys the configurations choose from. *)
EXTENDS RecordSet

(* A simple record set and one with a set identifier. *)
SimpleAndOne == {0, 1}
OnlyOne == {1}

(* The CR's own identifier, the next one in the listing, and a simple      *)
(* record set, which keeps the other two out of the zone.                  *)
ZeroOneNext == {0, 1, 2}
=============================================================================
