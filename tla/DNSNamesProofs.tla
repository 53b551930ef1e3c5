--------------------------- MODULE DNSNamesProofs ---------------------------
(***************************************************************************)
(* Proofs about DNSNames: for every set of labels, every domain, names of  *)
(* any length and any form in which Route 53 lists labels, sdkFind takes   *)
(* no record set but the one of Spec.Name, and finds that one.             *)
(***************************************************************************)
EXTENDS DNSNames, TLAPS

Words == Seq(DOMAIN Stored)

LEMMA LabelSeqsAreWords == LabelSeqs \subseteq Words
<1> SUFFICES ASSUME NEW n \in 0..MaxLabels, NEW s \in [1..n -> Labels] PROVE s \in Words
  BY DEF LabelSeqs
<1>1. n \in Nat
  BY LabelsAssumption
<1>2. s \in [1..n -> DOMAIN Stored]
  BY LabelsAssumption
<1> QED
  BY <1>1, <1>2 DEF Words

(* The labels of Spec.Name; a fully qualified one ends in the domain.      *)
LEMMA SpecNameLabels ==
  ASSUME NEW n \in SpecNames
  PROVE  /\ n.labels \in Words /\ n.given \in BOOLEAN /\ n.dot \in BOOLEAN
         /\ ~n.given => n.labels = <<>> /\ ~n.dot
         /\ n.dot => \E l \in Words : n.labels = l \o Domain
<1>1. <<>> \in Words
  BY DEF Words
<1>2. Domain \in Words
  BY DomainAssumption DEF Words
<1>3. \A l \in Words : l \o Domain \in Words
  BY <1>2 DEF Words
<1>4. CASE n = Nil
  BY <1>1, <1>4 DEF Nil
<1>5. CASE n \in [given : {TRUE}, labels : LabelSeqs, dot : {FALSE}]
  BY <1>5, LabelSeqsAreWords
<1>6. CASE n \in [given : {TRUE}, labels : {l \o Domain : l \in LabelSeqs}, dot : {TRUE}]
  <2>1. n.given = TRUE /\ n.dot = TRUE /\ n.labels \in {l \o Domain : l \in LabelSeqs}
    BY <1>6
  <2>2. PICK l \in LabelSeqs : n.labels = l \o Domain
    BY <2>1
  <2> QED
    BY <1>3, <2>1, <2>2, LabelSeqsAreWords
<1> QED
  BY <1>4, <1>5, <1>6 DEF SpecNames

(* Every name that is written consists of something and the domain.        *)
LEMMA NamesEndInDomain ==
  ASSUME NEW n \in SpecNames
  PROVE  \E m \in Words : /\ getDNSName(n) = m \o Domain
                          /\ ~n.dot => m = n.labels
<1>1. CASE n.dot
  BY <1>1, SpecNameLabels DEF getDNSName
<1>2. CASE ~n.dot
  BY <1>2, SpecNameLabels DEF getDNSName
<1> QED
  BY <1>1, <1>2, SpecNameLabels

LEMMA ListedType == ASSUME NEW m \in Words PROVE Listed(m) \in Words /\ Len(Listed(m)) = Len(m)
  BY StoredAssumption DEF Words, Listed

LEMMA NamesAreWords == Names \subseteq Words
<1>1. \A m \in Words : m \o Domain \in Words
  BY DomainAssumption DEF Words
<1> QED
  BY <1>1, NamesEndInDomain DEF Names

LEMMA ListedAppended ==
  ASSUME NEW m \in Words
  PROVE  Listed(m \o Domain) = Listed(m) \o Listed(Domain)
<1>1. m \in Seq(DOMAIN Stored) /\ Domain \in Seq(DOMAIN Stored)
  BY DomainAssumption DEF Words
<1> DEFINE left == Listed(m \o Domain)
           right == Listed(m) \o Listed(Domain)
<1>2. Listed(m) \in Seq(DOMAIN Stored) /\ Listed(Domain) \in Seq(DOMAIN Stored)
  BY <1>1, ListedType DEF Words
<1>3. Len(Listed(m)) = Len(m) /\ Len(Listed(Domain)) = Len(Domain)
  BY <1>1, ListedType DEF Words
<1>4. /\ m \o Domain \in Words /\ Len(m \o Domain) = Len(m) + Len(Domain)
      /\ \A i \in 1..Len(m) + Len(Domain) :
           (m \o Domain)[i] = IF i <= Len(m) THEN m[i] ELSE Domain[i - Len(m)]
  BY <1>1 DEF Words
<1>5. /\ right \in Seq(DOMAIN Stored) /\ Len(right) = Len(m) + Len(Domain)
      /\ \A i \in 1..Len(m) + Len(Domain) :
           right[i] = IF i <= Len(m) THEN Listed(m)[i] ELSE Listed(Domain)[i - Len(m)]
  BY <1>1, <1>2, <1>3
<1>6. left \in Seq(DOMAIN Stored) /\ Len(left) = Len(m) + Len(Domain)
  BY <1>4, ListedType DEF Words
<1>7. ASSUME NEW i \in 1..Len(m) + Len(Domain) PROVE left[i] = right[i]
  <2>1. left[i] = Stored[(m \o Domain)[i]]
    BY <1>4 DEF Listed, Words
  <2>2. CASE i <= Len(m)
    BY <1>1, <1>4, <1>5, <2>1, <2>2 DEF Listed
  <2>3. CASE ~(i <= Len(m))
    <3>1. i - Len(m) \in 1..Len(Domain)
      BY <1>1, <2>3
    <3>2. Listed(Domain)[i - Len(m)] = Stored[Domain[i - Len(m)]]
      BY <1>1, <3>1 DEF Listed
    <3> QED
      BY <1>4, <1>5, <2>1, <2>3, <3>2
  <2> QED
    BY <2>2, <2>3
<1> HIDE DEF left, right
<1>8. left = right
  BY <1>5, <1>6, <1>7
<1> QED
  BY <1>8 DEF left, right

(* Cutting the domain off a listed name leaves what stands before it.      *)
LEMMA TrimListed ==
  ASSUME NEW m \in Words
  PROVE  TrimDomain(Listed(m \o Domain)) = Listed(m)
<1>1. m \in Seq(DOMAIN Stored) /\ Domain \in Seq(DOMAIN Stored)
  BY DomainAssumption DEF Words
<1>2. Listed(m) \in Seq(DOMAIN Stored) /\ Listed(Domain) \in Seq(DOMAIN Stored)
  BY <1>1, ListedType DEF Words
<1>3. Len(Listed(m)) = Len(m) /\ Len(Listed(Domain)) = Len(Domain)
  BY <1>1, ListedType DEF Words
<1> DEFINE a == Listed(m)
           b == Listed(Domain)
<1> HIDE DEF a, b
<1>4. ASSUME a \in Seq(DOMAIN Stored), b \in Seq(DOMAIN Stored), Len(b) = Len(Domain)
      PROVE  SubSeq(a \o b, 1, Len(a \o b) - Len(Domain)) = a
  BY <1>1, <1>4
<1> QED
  BY <1>2, <1>3, <1>4, ListedAppended DEF TrimDomain, a, b

(* Decoding undoes listing up to what Route 53 does not tell apart.        *)
LEMMA DecodedLabel ==
  ASSUME NEW l \in DOMAIN Stored
  PROVE  /\ decoded(Stored[l]) \in DOMAIN Stored
         /\ Stored[decoded(Stored[l])] = Stored[l]
         /\ l = "*" \/ (Stored[l] = l /\ l # "\\052") => decoded(Stored[l]) = l
  BY StoredAssumption DEF decoded

LEMMA DecodedListed ==
  ASSUME NEW m \in Words
  PROVE  Listed(decodeRecordName(Listed(m))) = Listed(m)
  BY DecodedLabel, StoredAssumption DEF Words, Listed, decodeRecordName

-----------------------------------------------------------------------------
(* What the filter compares a listed name with Spec.Name for. *)

LEMMA MatchIsNamesake ==
  ASSUME NEW n \in SpecNames, NEW l \in Names, matches(n, Listed(l))
  PROVE  Listed(l) = Listed(getDNSName(n))
<1>1. PICK m \in Words : l = m \o Domain
  BY NamesEndInDomain DEF Names
<1>2. l \in Words
  BY <1>1, DomainAssumption DEF Words
<1>3. CASE n.dot
  <2>1. n.labels = decodeRecordName(Listed(l))
    BY <1>3, SpecNameLabels DEF matches, subdomain, isFQDN
  <2> QED
    BY <1>2, <1>3, <2>1, DecodedListed DEF getDNSName
<1>4. CASE ~n.dot
  <2>1. n.labels = decodeRecordName(Listed(m))
    BY <1>1, <1>4, TrimListed, SpecNameLabels DEF matches, subdomain, isFQDN
  <2>2. Listed(n.labels) = Listed(m)
    BY <2>1, DecodedListed
  <2>3. getDNSName(n) = n.labels \o Domain /\ n.labels \in Words
    BY <1>4, SpecNameLabels DEF getDNSName
  <2> QED
    BY <1>1, <2>2, <2>3, ListedAppended
<1> QED
  BY <1>3, <1>4, SpecNameLabels

LEMMA NamesakeMatches ==
  ASSUME NEW n \in SpecNames, ~Empty(n), Canonical(n)
  PROVE  matches(n, Listed(getDNSName(n)))
<1>1. n.labels \in Words
  BY SpecNameLabels
<1>2. decodeRecordName(Listed(n.labels)) = n.labels
  <2>1. \A i \in DOMAIN n.labels : decoded(Stored[n.labels[i]]) = n.labels[i]
    BY <1>1, DecodedLabel DEF Words, Canonical
  <2> DEFINE m == n.labels
             d == decodeRecordName(Listed(m))
  <2>2. m \in [1..Len(m) -> DOMAIN Stored]
    BY <1>1 DEF Words
  <2>3. d = [i \in 1..Len(m) |-> decoded(Stored[m[i]])]
    BY <2>2 DEF Listed, decodeRecordName
  <2> HIDE DEF m, d
  <2>4. d = m
    BY <2>1, <2>2, <2>3 DEF m
  <2> QED
    BY <2>4 DEF m, d
<1>3. subdomain(n, Listed(getDNSName(n))) = n.labels
  <2>1. CASE n.dot
    BY <1>2, <2>1, SpecNameLabels DEF getDNSName, subdomain, isFQDN
  <2>2. CASE ~n.dot
    BY <1>1, <1>2, <2>2, TrimListed DEF getDNSName, subdomain, isFQDN
  <2> QED
    BY <2>1, <2>2
<1> QED
  BY <1>3, SpecNameLabels DEF matches, Empty

-----------------------------------------------------------------------------
(* The loop: only names of this zone are listed, what it takes matches,    *)
(* and what it has passed over does not.                                   *)
LoopInv ==
  /\ name \in SpecNames
  /\ zone \subseteq {Listed(n) : n \in Names} /\ todo \subseteq zone
  /\ found # NoName => found \in zone /\ matches(name, found)
  /\ found = NoName => \A l \in zone \ todo : ~matches(name, l)

LEMMA LoopInvHolds == Spec => []LoopInv
<1>1. Init => LoopInv
  BY DEF Init, LoopInv, Names
<1>2. LoopInv /\ [Next]_vars => LoopInv'
  <2> SUFFICES ASSUME LoopInv, [Next]_vars PROVE LoopInv'
    OBVIOUS
  <2>1. CASE Next
    <3>1. PICK l \in todo : Examine(l)
      BY <2>1 DEF Next
    <3>2. l \in Words
      BY ListedType, NamesAreWords DEF LoopInv
    <3>3. l # NoName
      BY <3>2, NoNameAssumption DEF Words
    <3> QED
      BY <3>1, <3>3 DEF LoopInv, Examine
  <2>2. CASE UNCHANGED vars
    BY <2>2 DEF LoopInv, vars
  <2> QED
    BY <2>1, <2>2
<1> QED
  BY <1>1, <1>2, PTL DEF Spec

(* OnlyNamesake: what sdkFind takes, and hence what an update overwrites   *)
(* and a deletion removes, is listed as the name written for Spec.Name.    *)
THEOREM OnlyNamesakeHolds == Spec => []OnlyNamesake
<1>1. LoopInv => OnlyNamesake
  BY MatchIsNamesake DEF LoopInv, OnlyNamesake
<1> QED
  BY <1>1, LoopInvHolds, PTL

(* NamesakeFound: at the end of the loop without a match, no record set of *)
(* this name is in the zone, unless the name is one of those that are not  *)
(* listed as they were written.                                            *)
THEOREM NamesakeFoundHolds == Spec => []NamesakeFound
<1>1. LoopInv => NamesakeFound
  BY NamesakeMatches DEF LoopInv, NamesakeFound
<1> QED
  BY <1>1, LoopInvHolds, PTL
=============================================================================
