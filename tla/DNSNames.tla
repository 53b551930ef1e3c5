------------------------------ MODULE DNSNames ------------------------------
(***************************************************************************)
(* The names of record sets: how Spec.Name becomes the name that is sent   *)
(* to Route 53, and how sdkFind's loop over the listed record sets finds   *)
(* that name again.                                                        *)
(*                                                                         *)
(* A fully qualified name is its sequence of labels, the trailing dot left *)
(* out; Spec.Name is nil, or labels with or without a trailing dot.        *)
(***************************************************************************)
EXTENDS Sequences, Naturals

CONSTANTS
  Labels,    \* labels users write
  Domain,    \* the domain of the hosted zone, a sequence of labels
  MaxLabels, \* bound: labels in a name a user writes
  Stored,    \* external: the form in which Route 53 lists a label
  NoName     \* nothing was found yet

ASSUME LabelsAssumption == Labels \subseteq DOMAIN Stored /\ MaxLabels \in Nat
ASSUME NoNameAssumption == NoName \notin Seq(DOMAIN Stored)

(* Listing what was listed changes nothing.  The wildcard is escaped, and  *)
(* the domain is known in the form Route 53 lists it.                      *)
ASSUME StoredAssumption ==
  /\ Stored \in [DOMAIN Stored -> DOMAIN Stored]
  /\ \A l \in DOMAIN Stored : Stored[Stored[l]] = Stored[l]
  /\ "*" \in DOMAIN Stored /\ Stored["*"] = "\\052"
ASSUME DomainAssumption ==
  Domain \in Seq(DOMAIN Stored) /\ \A i \in DOMAIN Domain : Stored[Domain[i]] = Domain[i]

(* Spec.Name *)
LabelSeqs == UNION {[1..n -> Labels] : n \in 0..MaxLabels}
Nil == [given |-> FALSE, labels |-> <<>>, dot |-> FALSE]
SpecNames ==
  {Nil} \cup [given : {TRUE}, labels : LabelSeqs, dot : {FALSE}]
        \cup [given : {TRUE}, labels : {l \o Domain : l \in LabelSeqs}, dot : {TRUE}]

isFQDN(name) == name.given /\ name.dot

getDNSName(name) == IF name.dot THEN name.labels ELSE name.labels \o Domain

(* Route 53 lists a record set under this name. *)
Listed(dnsName) == [i \in DOMAIN dnsName |-> Stored[dnsName[i]]]

(* The one escape that sdkFind undoes. *)
decoded(label) == IF label = "\\052" THEN "*" ELSE label

Mut_decodeRecordName(labels) == labels
decodeRecordName(labels) == [i \in DOMAIN labels |-> decoded(labels[i])]

(* strings.TrimSuffix(name, domain): a listed name ends in the domain. *)
TrimDomain(labels) == SubSeq(labels, 1, Len(labels) - Len(Domain))

(* What sdkFind compares of a listed name with Spec.Name: everything, if   *)
(* Spec.Name is fully qualified, and else what precedes the domain.        *)
Mut_subdomain(name, listed) ==
  IF isFQDN(name) THEN name.labels ELSE decodeRecordName(TrimDomain(listed))
subdomain(name, listed) ==
  decodeRecordName(IF isFQDN(name) THEN listed ELSE TrimDomain(listed))

(* The filter, and the comparison of names in the matching loop. *)
matches(name, listed) ==
  LET sub == subdomain(name, listed) IN
  IF name.given THEN sub # <<>> /\ sub = name.labels ELSE sub = <<>>

-----------------------------------------------------------------------------
VARIABLES
  name,  \* Spec.Name
  todo,  \* listed names the loop has still to visit
  zone,  \* names of the record sets in the zone, as listed
  found  \* the name of the one sdkFind takes

vars == <<name, todo, zone, found>>

Names == {getDNSName(n) : n \in SpecNames}

(* The zone may hold record sets of others, and the one of this name. *)
Init ==
  /\ name \in SpecNames
  /\ \E others \in SUBSET {Listed(n) : n \in Names} :
       zone = others \/ zone = others \cup {Listed(getDNSName(name))}
  /\ todo = zone
  /\ found = NoName

Examine(listed) ==
  /\ found = NoName
  /\ todo' = todo \ {listed}
  /\ found' = IF matches(name, listed) THEN listed ELSE NoName
  /\ UNCHANGED <<name, zone>>

Next == \E listed \in todo : Examine(listed)

Spec == Init /\ [][Next]_vars

-----------------------------------------------------------------------------
(* OnlyNamesake: the record set sdkFind takes, which an update overwrites  *)
(* and a deletion removes, is the one the controller itself would write    *)
(* for Spec.Name, and never one of another name in the same zone (sdk.go   *)
(* 126: every returned record would falsely compare equal).                *)
OnlyNamesake == found # NoName => found = Listed(getDNSName(name))

(* Two kinds of names are written and never found.  Empty and nil names    *)
(* both stand for the domain when a record set is written, but no listed   *)
(* record set matches an empty one; and upper-case letters, or characters  *)
(* other than the wildcard that Route 53 escapes, are not listed as they   *)
(* were written.                                                           *)
Empty(n) == n.given /\ n.labels = <<>>
Canonical(n) ==
  \A i \in DOMAIN n.labels :
    LET l == n.labels[i] IN l = "*" \/ (Stored[l] = l /\ l # "\\052")

(* NamesakeFound: a record set that was written under Spec.Name is found   *)
(* again, wildcards and fully qualified names included, so that it is not  *)
(* created over and over and is deleted with its CR.                       *)
NamesakeFound ==
  ~Empty(name) /\ Canonical(name) /\ found = NoName /\ todo = {}
    => Listed(getDNSName(name)) \notin zone
=============================================================================
