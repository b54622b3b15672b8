--------------------------- MODULE VSMetadataProofs ---------------------------
(***************************************************************************)
(* Theorems about VSMetadata, for any virtual services, configurations,    *)
(* labels and VsVips.                                                      *)
(***************************************************************************)
EXTENDS VSMetadata, SequenceTheorems, FiniteSetTheorems, TLAPS

-----------------------------------------------------------------------------
(* The first label that is not empty, and the labels of an object. *)

LEMMA FirstHit ==
  ASSUME NEW n \in Nat, NEW s \in [1 .. n -> Nat]
  PROVE  /\ (\A i \in 1 .. n : s[i] = 0) => FirstOf(s) = 0
         /\ \A i \in 1 .. n : s[i] # 0 /\ (\A j \in 1 .. i - 1 : s[j] = 0) => FirstOf(s) = s[i]
<1> DEFINE hits == { i \in DOMAIN s : s[i] # 0 }
<1>1. DOMAIN s = 1 .. n
  OBVIOUS
<1>2. FirstOf(s) = IF hits = {} THEN 0 ELSE s[CHOOSE i \in hits : \A j \in hits : i <= j]
  BY DEF FirstOf
<1>3. ASSUME \A i \in 1 .. n : s[i] = 0 PROVE FirstOf(s) = 0
  BY <1>1, <1>2, <1>3
<1>4. ASSUME NEW i \in 1 .. n, s[i] # 0, \A j \in 1 .. i - 1 : s[j] = 0
      PROVE  FirstOf(s) = s[i]
  <2>1. i \in hits /\ \A j \in hits : j \in 1 .. n /\ i <= j
    BY <1>1, <1>4
  <2> HIDE DEF hits
  <2>2. \A k \in hits : (\A j \in hits : k <= j) => k = i
    BY <2>1
  <2>3. (CHOOSE k \in hits : \A j \in hits : k <= j) = i
    BY <2>1, <2>2
  <2> QED BY <1>2, <2>1, <2>3
<1> QED BY <1>3, <1>4

LEMMA FirstOfOne == \A a \in Nat : FirstOf(<<a>>) = a
<1> SUFFICES ASSUME NEW a \in Nat PROVE FirstOf(<<a>>) = a
  OBVIOUS
<1> DEFINE s == <<a>>
<1>1. s \in [1 .. 1 -> Nat] /\ s[1] = a
  OBVIOUS
<1> HIDE DEF s
<1>2. /\ (\A i \in 1 .. 1 : s[i] = 0) => FirstOf(s) = 0
      /\ \A i \in 1 .. 1 : s[i] # 0 /\ (\A j \in 1 .. i - 1 : s[j] = 0) => FirstOf(s) = s[i]
  BY <1>1, FirstHit
<1>3. FirstOf(s) = a
  BY <1>1, <1>2
<1> QED BY <1>3 DEF s

LEMMA FirstOfTwo == \A a, b \in Nat : FirstOf(<<a, b>>) = IF a # 0 THEN a ELSE b
<1> SUFFICES ASSUME NEW a \in Nat, NEW b \in Nat
             PROVE  FirstOf(<<a, b>>) = IF a # 0 THEN a ELSE b
  OBVIOUS
<1> DEFINE s == <<a, b>>
<1>1. s \in [1 .. 2 -> Nat] /\ s[1] = a /\ s[2] = b
  OBVIOUS
<1> HIDE DEF s
<1>2. /\ (\A i \in 1 .. 2 : s[i] = 0) => FirstOf(s) = 0
      /\ \A i \in 1 .. 2 : s[i] # 0 /\ (\A j \in 1 .. i - 1 : s[j] = 0) => FirstOf(s) = s[i]
  BY <1>1, FirstHit
<1>3. FirstOf(s) = IF a # 0 THEN a ELSE b
  BY <1>1, <1>2
<1> QED BY <1>3 DEF s

LEMMA FirstOfThree ==
  \A a, b, c \in Nat :
    FirstOf(<<a, b, c>>) = IF a # 0 THEN a ELSE IF b # 0 THEN b ELSE c
<1> SUFFICES ASSUME NEW a \in Nat, NEW b \in Nat, NEW c \in Nat
             PROVE  FirstOf(<<a, b, c>>) = IF a # 0 THEN a ELSE IF b # 0 THEN b ELSE c
  OBVIOUS
<1> DEFINE s == <<a, b, c>>
<1>1. s \in [1 .. 3 -> Nat] /\ s[1] = a /\ s[2] = b /\ s[3] = c
  OBVIOUS
<1> HIDE DEF s
<1>2. /\ (\A i \in 1 .. 3 : s[i] = 0) => FirstOf(s) = 0
      /\ \A i \in 1 .. 3 : s[i] # 0 /\ (\A j \in 1 .. i - 1 : s[j] = 0) => FirstOf(s) = s[i]
  BY <1>1, FirstHit
<1>3. FirstOf(s) = IF a # 0 THEN a ELSE IF b # 0 THEN b ELSE c
  BY <1>1, <1>2
<1> QED BY <1>3 DEF s

LEMMA FirstOfFour ==
  \A a, b, c, d \in Nat :
    FirstOf(<<a, b, c, d>>) =
      IF a # 0 THEN a ELSE IF b # 0 THEN b ELSE IF c # 0 THEN c ELSE d
<1> SUFFICES ASSUME NEW a \in Nat, NEW b \in Nat, NEW c \in Nat, NEW d \in Nat
             PROVE  FirstOf(<<a, b, c, d>>) =
                      IF a # 0 THEN a ELSE IF b # 0 THEN b ELSE IF c # 0 THEN c ELSE d
  OBVIOUS
<1> DEFINE s == <<a, b, c, d>>
<1>1. s \in [1 .. 4 -> Nat] /\ s[1] = a /\ s[2] = b /\ s[3] = c /\ s[4] = d
  OBVIOUS
<1> HIDE DEF s
<1>2. /\ (\A i \in 1 .. 4 : s[i] = 0) => FirstOf(s) = 0
      /\ \A i \in 1 .. 4 : s[i] # 0 /\ (\A j \in 1 .. i - 1 : s[j] = 0) => FirstOf(s) = s[i]
  BY <1>1, FirstHit
<1>3. FirstOf(s) = IF a # 0 THEN a ELSE IF b # 0 THEN b ELSE IF c # 0 THEN c ELSE d
  BY <1>1, <1>2
<1> QED BY <1>3 DEF s

\* What every object has that has labels.
Labelled(o) == o.markers \in [MarkerKeys -> Labels] /\ o.metadata \in Metadata

LEMMA MetadataType ==
  ASSUME NEW s \in Metadata
  PROVE  /\ s.namespace \in Labels /\ s.ingress \in Labels /\ s.host \in Labels
         /\ s.ingressPair[1] \in Labels /\ s.ingressPair[2] \in Labels
         /\ s.servicePair[1] \in Labels /\ s.servicePair[2] \in Labels
BY DEF Metadata

LEMMA LabelsOf ==
  ASSUME NEW o, Labelled(o)
  PROVE  /\ Parsed(o) \in [Keys -> Labels]
         /\ Parsed(o)["clustername"] = o.markers["clustername"]
         /\ Parsed(o)["Host"] =
              IF o.markers["Host"] # 0 THEN o.markers["Host"] ELSE o.metadata.host
         /\ Parsed(o)["IngressName"] =
              IF o.markers["IngressName"] # 0 THEN o.markers["IngressName"]
              ELSE IF o.metadata.ingress # 0 THEN o.metadata.ingress
              ELSE o.metadata.ingressPair[2]
         /\ Parsed(o)["ServiceName"] =
              IF o.markers["ServiceName"] # 0 THEN o.markers["ServiceName"]
              ELSE o.metadata.servicePair[2]
         /\ Parsed(o)["Namespace"] =
              IF o.markers["Namespace"] # 0 THEN o.markers["Namespace"]
              ELSE IF o.metadata.namespace # 0 THEN o.metadata.namespace
              ELSE IF o.metadata.ingressPair[1] # 0 THEN o.metadata.ingressPair[1]
              ELSE o.metadata.servicePair[1]
<1> DEFINE m == o.markers
           s == o.metadata
<1>1. m \in [MarkerKeys -> Labels] /\ s \in Metadata /\ Labels \subseteq Nat
  BY MetadataAssumption DEF Labelled
<1>2. /\ s.namespace \in Labels /\ s.ingress \in Labels /\ s.host \in Labels
      /\ s.ingressPair[1] \in Labels /\ s.ingressPair[2] \in Labels
      /\ s.servicePair[1] \in Labels /\ s.servicePair[2] \in Labels
  BY <1>1, MetadataType
<1>3. \A k \in Keys : m[k] \in Labels
  BY <1>1 DEF MarkerKeys
<1>4. /\ "clustername" \in Keys /\ "Host" \in Keys /\ "IngressName" \in Keys
      /\ "ServiceName" \in Keys /\ "Namespace" \in Keys
  BY DEF Keys
<1>5. /\ Sources(o)["clustername"] = <<m["clustername"]>>
      /\ Sources(o)["Host"] = <<m["Host"], s.host>>
      /\ Sources(o)["IngressName"] = <<m["IngressName"], s.ingress, s.ingressPair[2]>>
      /\ Sources(o)["ServiceName"] = <<m["ServiceName"], s.servicePair[2]>>
      /\ Sources(o)["Namespace"] =
           <<m["Namespace"], s.namespace, s.ingressPair[1], s.servicePair[1]>>
  BY DEF Sources
<1>6. \A k \in Keys : Parsed(o)[k] = FirstOf(Sources(o)[k])
  BY DEF Parsed
<1> HIDE DEF m, s
<1>7. Parsed(o)["clustername"] = m["clustername"]
  BY <1>1, <1>3, <1>4, <1>5, <1>6, FirstOfOne
<1>8. Parsed(o)["Host"] = IF m["Host"] # 0 THEN m["Host"] ELSE s.host
  <2> DEFINE a == m["Host"]
             b == s.host
  <2>1. Parsed(o)["Host"] = FirstOf(<<a, b>>)
    BY <1>4, <1>5, <1>6
  <2>2. a \in Nat /\ b \in Nat
    BY <1>1, <1>2, <1>3, <1>4
  <2> HIDE DEF a, b
  <2>3. Parsed(o)["Host"] = IF a # 0 THEN a ELSE b
    BY <2>1, <2>2, FirstOfTwo
  <2> QED BY <2>3 DEF a, b
<1>9. Parsed(o)["IngressName"] =
        IF m["IngressName"] # 0 THEN m["IngressName"]
        ELSE IF s.ingress # 0 THEN s.ingress ELSE s.ingressPair[2]
  <2> DEFINE a == m["IngressName"]
             b == s.ingress
             c == s.ingressPair[2]
  <2>1. Parsed(o)["IngressName"] = FirstOf(<<a, b, c>>)
    BY <1>4, <1>5, <1>6
  <2>2. a \in Nat /\ b \in Nat /\ c \in Nat
    BY <1>1, <1>2, <1>3, <1>4
  <2> HIDE DEF a, b, c
  <2>3. Parsed(o)["IngressName"] = IF a # 0 THEN a ELSE IF b # 0 THEN b ELSE c
    BY <2>1, <2>2, FirstOfThree
  <2> QED BY <2>3 DEF a, b, c
<1>10. Parsed(o)["ServiceName"] = IF m["ServiceName"] # 0 THEN m["ServiceName"] ELSE s.servicePair[2]
  <2> DEFINE a == m["ServiceName"]
             b == s.servicePair[2]
  <2>1. Parsed(o)["ServiceName"] = FirstOf(<<a, b>>)
    BY <1>4, <1>5, <1>6
  <2>2. a \in Nat /\ b \in Nat
    BY <1>1, <1>2, <1>3, <1>4
  <2> HIDE DEF a, b
  <2>3. Parsed(o)["ServiceName"] = IF a # 0 THEN a ELSE b
    BY <2>1, <2>2, FirstOfTwo
  <2> QED BY <2>3 DEF a, b
<1>11. Parsed(o)["Namespace"] =
         IF m["Namespace"] # 0 THEN m["Namespace"]
         ELSE IF s.namespace # 0 THEN s.namespace
         ELSE IF s.ingressPair[1] # 0 THEN s.ingressPair[1] ELSE s.servicePair[1]
  <2> DEFINE a == m["Namespace"]
             b == s.namespace
             c == s.ingressPair[1]
             d == s.servicePair[1]
  <2>1. Parsed(o)["Namespace"] = FirstOf(<<a, b, c, d>>)
    BY <1>4, <1>5, <1>6
  <2>2. a \in Nat /\ b \in Nat /\ c \in Nat /\ d \in Nat
    BY <1>1, <1>2, <1>3, <1>4
  <2> HIDE DEF a, b, c, d
  <2>3. Parsed(o)["Namespace"] = IF a # 0 THEN a ELSE IF b # 0 THEN b ELSE IF c # 0 THEN c ELSE d
    BY <2>1, <2>2, FirstOfFour
  <2> QED BY <2>3 DEF a, b, c, d
<1>12. \A k \in Keys : Parsed(o)[k] \in Labels
  <2>1. Parsed(o)["clustername"] \in Labels
    BY <1>3, <1>4, <1>7
  <2>2. Parsed(o)["Host"] \in Labels
    BY <1>2, <1>3, <1>4, <1>8
  <2>3. Parsed(o)["IngressName"] \in Labels
    BY <1>2, <1>3, <1>4, <1>9
  <2>4. Parsed(o)["ServiceName"] \in Labels
    BY <1>2, <1>3, <1>4, <1>10
  <2>5. Parsed(o)["Namespace"] \in Labels
    BY <1>2, <1>3, <1>4, <1>11
  <2> QED BY <2>1, <2>2, <2>3, <2>4, <2>5 DEF Keys
<1>13. Parsed(o) \in [Keys -> Labels]
  BY <1>12 DEF Parsed
<1> QED BY <1>7, <1>8, <1>9, <1>10, <1>11, <1>13 DEF m, s

-----------------------------------------------------------------------------
(* What fillVsVipUniqueMetadata leaves behind: each label it fills, and no other. *)

LEMMA ClaimOf ==
  ASSUME NEW S, NEW key
  PROVE  /\ UniqueClaim(S, key) \in Labels
         /\ UniqueClaim(S, key) # 0 => Claims(S, key) = {UniqueClaim(S, key)}
         /\ \A c \in Labels : Claims(S, key) = {c} => UniqueClaim(S, key) = c
BY MetadataAssumption DEF UniqueClaim

LEMMA FillNamespaceLabels ==
  ASSUME NEW d, NEW e, Labelled(d), Labelled(e), e.markers = d.markers,
         Parsed(d)["Namespace"] = 0,
         e.metadata.ingress = d.metadata.ingress /\ e.metadata.host = d.metadata.host,
         e.metadata.ingressPair = d.metadata.ingressPair /\ e.metadata.servicePair = d.metadata.servicePair
  PROVE  \A k \in Keys : Parsed(e)[k] = IF k = "Namespace" THEN e.metadata.namespace ELSE Parsed(d)[k]
<1>1. Parsed(e)["clustername"] = Parsed(d)["clustername"]
  BY LabelsOf
<1>2. Parsed(e)["Host"] = Parsed(d)["Host"]
  BY LabelsOf
<1>3. Parsed(e)["IngressName"] = Parsed(d)["IngressName"]
  BY LabelsOf
<1>4. Parsed(e)["ServiceName"] = Parsed(d)["ServiceName"]
  BY LabelsOf
<1>5. Parsed(e)["Namespace"] = e.metadata.namespace
  BY LabelsOf
<1> QED BY <1>1, <1>2, <1>3, <1>4, <1>5 DEF Keys

LEMMA FillNamespace ==
  ASSUME NEW d \in VsVip, NEW n \in Labels, Parsed(d)["Namespace"] = 0
  PROVE  LET e == [d EXCEPT !.metadata.namespace = n]
         IN /\ e \in VsVip /\ e.virtualServices = d.virtualServices
            /\ \A k \in Keys : Parsed(e)[k] = IF k = "Namespace" THEN n ELSE Parsed(d)[k]
<1> DEFINE e == [d EXCEPT !.metadata.namespace = n]
<1>1. Labelled(d)
  BY DEF VsVip, Labelled
<1>2. Parsed(d)["Namespace"] \in Labels
  BY <1>1, LabelsOf DEF Keys
<1>3. /\ e \in VsVip /\ e.virtualServices = d.virtualServices /\ e.markers = d.markers
      /\ e.metadata = [d.metadata EXCEPT !.namespace = n]
  BY <1>2 DEF VsVip, Metadata
<1> HIDE DEF e
<1>4. /\ e.metadata.ingress = d.metadata.ingress /\ e.metadata.host = d.metadata.host
      /\ e.metadata.ingressPair = d.metadata.ingressPair /\ e.metadata.servicePair = d.metadata.servicePair
      /\ e.metadata.namespace = n
  BY <1>1, <1>3 DEF Labelled, Metadata
<1>5. Labelled(e)
  BY <1>3 DEF VsVip, Labelled
<1>6. e.markers = d.markers
  BY <1>3
<1>7. \A k \in Keys : Parsed(e)[k] = IF k = "Namespace" THEN e.metadata.namespace ELSE Parsed(d)[k]
  BY <1>1, <1>4, <1>5, <1>6, FillNamespaceLabels
<1>8. \A k \in Keys : Parsed(e)[k] = IF k = "Namespace" THEN n ELSE Parsed(d)[k]
  BY <1>4, <1>7
<1> QED BY <1>3, <1>8 DEF e

LEMMA FillHostLabels ==
  ASSUME NEW d, NEW e, Labelled(d), Labelled(e), e.markers = d.markers,
         Parsed(d)["Host"] = 0,
         e.metadata.namespace = d.metadata.namespace /\ e.metadata.ingress = d.metadata.ingress,
         e.metadata.ingressPair = d.metadata.ingressPair /\ e.metadata.servicePair = d.metadata.servicePair
  PROVE  \A k \in Keys : Parsed(e)[k] = IF k = "Host" THEN e.metadata.host ELSE Parsed(d)[k]
<1>1. Parsed(e)["clustername"] = Parsed(d)["clustername"]
  BY LabelsOf
<1>2. Parsed(e)["Host"] = e.metadata.host
  BY LabelsOf
<1>3. Parsed(e)["IngressName"] = Parsed(d)["IngressName"]
  BY LabelsOf
<1>4. Parsed(e)["ServiceName"] = Parsed(d)["ServiceName"]
  BY LabelsOf
<1>5. Parsed(e)["Namespace"] = Parsed(d)["Namespace"]
  BY LabelsOf
<1> QED BY <1>1, <1>2, <1>3, <1>4, <1>5 DEF Keys

LEMMA FillHost ==
  ASSUME NEW d \in VsVip, NEW n \in Labels, Parsed(d)["Host"] = 0
  PROVE  LET e == [d EXCEPT !.metadata.host = n]
         IN /\ e \in VsVip /\ e.virtualServices = d.virtualServices
            /\ \A k \in Keys : Parsed(e)[k] = IF k = "Host" THEN n ELSE Parsed(d)[k]
<1> DEFINE e == [d EXCEPT !.metadata.host = n]
<1>1. Labelled(d)
  BY DEF VsVip, Labelled
<1>2. Parsed(d)["Namespace"] \in Labels
  BY <1>1, LabelsOf DEF Keys
<1>3. /\ e \in VsVip /\ e.virtualServices = d.virtualServices /\ e.markers = d.markers
      /\ e.metadata = [d.metadata EXCEPT !.host = n]
  BY <1>2 DEF VsVip, Metadata
<1> HIDE DEF e
<1>4. /\ e.metadata.namespace = d.metadata.namespace /\ e.metadata.ingress = d.metadata.ingress
      /\ e.metadata.ingressPair = d.metadata.ingressPair /\ e.metadata.servicePair = d.metadata.servicePair
      /\ e.metadata.host = n
  BY <1>1, <1>3 DEF Labelled, Metadata
<1>5. Labelled(e)
  BY <1>3 DEF VsVip, Labelled
<1>6. e.markers = d.markers
  BY <1>3
<1>7. \A k \in Keys : Parsed(e)[k] = IF k = "Host" THEN e.metadata.host ELSE Parsed(d)[k]
  BY <1>1, <1>4, <1>5, <1>6, FillHostLabels
<1>8. \A k \in Keys : Parsed(e)[k] = IF k = "Host" THEN n ELSE Parsed(d)[k]
  BY <1>4, <1>7
<1> QED BY <1>3, <1>8 DEF e

LEMMA FillServiceNameLabels ==
  ASSUME NEW d, NEW e, Labelled(d), Labelled(e), e.markers = d.markers,
         Parsed(d)["ServiceName"] = 0,
         e.metadata.namespace = d.metadata.namespace /\ e.metadata.ingress = d.metadata.ingress,
         e.metadata.host = d.metadata.host /\ e.metadata.ingressPair = d.metadata.ingressPair,
         e.metadata.servicePair[1] = Parsed(d)["Namespace"]
  PROVE  \A k \in Keys : Parsed(e)[k] = IF k = "ServiceName" THEN e.metadata.servicePair[2] ELSE Parsed(d)[k]
<1>1. Parsed(e)["clustername"] = Parsed(d)["clustername"]
  BY LabelsOf
<1>2. Parsed(e)["Host"] = Parsed(d)["Host"]
  BY LabelsOf
<1>3. Parsed(e)["IngressName"] = Parsed(d)["IngressName"]
  BY LabelsOf
<1>4. Parsed(e)["ServiceName"] = e.metadata.servicePair[2]
  BY LabelsOf
<1>5. Parsed(e)["Namespace"] = Parsed(d)["Namespace"]
  BY LabelsOf
<1> QED BY <1>1, <1>2, <1>3, <1>4, <1>5 DEF Keys

LEMMA FillServiceName ==
  ASSUME NEW d \in VsVip, NEW n \in Labels, Parsed(d)["ServiceName"] = 0
  PROVE  LET e == [d EXCEPT !.metadata.servicePair = <<Parsed(d)["Namespace"], n>>]
         IN /\ e \in VsVip /\ e.virtualServices = d.virtualServices
            /\ \A k \in Keys : Parsed(e)[k] = IF k = "ServiceName" THEN n ELSE Parsed(d)[k]
<1> DEFINE e == [d EXCEPT !.metadata.servicePair = <<Parsed(d)["Namespace"], n>>]
<1>1. Labelled(d)
  BY DEF VsVip, Labelled
<1>2. Parsed(d)["Namespace"] \in Labels
  BY <1>1, LabelsOf DEF Keys
<1>3. /\ e \in VsVip /\ e.virtualServices = d.virtualServices /\ e.markers = d.markers
      /\ e.metadata = [d.metadata EXCEPT !.servicePair = <<Parsed(d)["Namespace"], n>>]
  BY <1>2 DEF VsVip, Metadata
<1> HIDE DEF e
<1>4. /\ e.metadata.namespace = d.metadata.namespace /\ e.metadata.ingress = d.metadata.ingress
      /\ e.metadata.host = d.metadata.host /\ e.metadata.ingressPair = d.metadata.ingressPair
      /\ e.metadata.servicePair[1] = Parsed(d)["Namespace"] /\ e.metadata.servicePair[2] = n
  BY <1>1, <1>3 DEF Labelled, Metadata
<1>5. Labelled(e)
  BY <1>3 DEF VsVip, Labelled
<1>6. e.markers = d.markers
  BY <1>3
<1>7. \A k \in Keys : Parsed(e)[k] = IF k = "ServiceName" THEN e.metadata.servicePair[2] ELSE Parsed(d)[k]
  BY <1>1, <1>4, <1>5, <1>6, FillServiceNameLabels
<1>8. \A k \in Keys : Parsed(e)[k] = IF k = "ServiceName" THEN n ELSE Parsed(d)[k]
  BY <1>4, <1>7
<1> QED BY <1>3, <1>8 DEF e

LEMMA FillIngressNameLabels ==
  ASSUME NEW d, NEW e, Labelled(d), Labelled(e), e.markers = d.markers,
         Parsed(d)["IngressName"] = 0,
         e.metadata.namespace = d.metadata.namespace /\ e.metadata.ingress = d.metadata.ingress,
         e.metadata.host = d.metadata.host /\ e.metadata.servicePair = d.metadata.servicePair,
         e.metadata.ingressPair[1] = Parsed(d)["Namespace"]
  PROVE  \A k \in Keys : Parsed(e)[k] = IF k = "IngressName" THEN e.metadata.ingressPair[2] ELSE Parsed(d)[k]
<1>1. Parsed(e)["clustername"] = Parsed(d)["clustername"]
  BY LabelsOf
<1>2. Parsed(e)["Host"] = Parsed(d)["Host"]
  BY LabelsOf
<1>3. Parsed(e)["IngressName"] = e.metadata.ingressPair[2]
  BY LabelsOf
<1>4. Parsed(e)["ServiceName"] = Parsed(d)["ServiceName"]
  BY LabelsOf
<1>5. Parsed(e)["Namespace"] = Parsed(d)["Namespace"]
  BY LabelsOf
<1> QED BY <1>1, <1>2, <1>3, <1>4, <1>5 DEF Keys

LEMMA FillIngressName ==
  ASSUME NEW d \in VsVip, NEW n \in Labels, Parsed(d)["IngressName"] = 0
  PROVE  LET e == [d EXCEPT !.metadata.ingressPair = <<Parsed(d)["Namespace"], n>>]
         IN /\ e \in VsVip /\ e.virtualServices = d.virtualServices
            /\ \A k \in Keys : Parsed(e)[k] = IF k = "IngressName" THEN n ELSE Parsed(d)[k]
<1> DEFINE e == [d EXCEPT !.metadata.ingressPair = <<Parsed(d)["Namespace"], n>>]
<1>1. Labelled(d)
  BY DEF VsVip, Labelled
<1>2. Parsed(d)["Namespace"] \in Labels
  BY <1>1, LabelsOf DEF Keys
<1>3. /\ e \in VsVip /\ e.virtualServices = d.virtualServices /\ e.markers = d.markers
      /\ e.metadata = [d.metadata EXCEPT !.ingressPair = <<Parsed(d)["Namespace"], n>>]
  BY <1>2 DEF VsVip, Metadata
<1> HIDE DEF e
<1>4. /\ e.metadata.namespace = d.metadata.namespace /\ e.metadata.ingress = d.metadata.ingress
      /\ e.metadata.host = d.metadata.host /\ e.metadata.servicePair = d.metadata.servicePair
      /\ e.metadata.ingressPair[1] = Parsed(d)["Namespace"] /\ e.metadata.ingressPair[2] = n
  BY <1>1, <1>3 DEF Labelled, Metadata
<1>5. Labelled(e)
  BY <1>3 DEF VsVip, Labelled
<1>6. e.markers = d.markers
  BY <1>3
<1>7. \A k \in Keys : Parsed(e)[k] = IF k = "IngressName" THEN e.metadata.ingressPair[2] ELSE Parsed(d)[k]
  BY <1>1, <1>4, <1>5, <1>6, FillIngressNameLabels
<1>8. \A k \in Keys : Parsed(e)[k] = IF k = "IngressName" THEN n ELSE Parsed(d)[k]
  BY <1>4, <1>7
<1> QED BY <1>3, <1>8 DEF e

LEMMA FillUniqueLabels ==
  ASSUME NEW d \in VsVip, NEW S
  PROVE  /\ FillUnique(d, S) \in VsVip
         /\ FillUnique(d, S).virtualServices = d.virtualServices
         /\ \A k \in Keys : Parsed(FillUnique(d, S))[k] =
              IF k # "clustername" /\ Parsed(d)[k] = 0 THEN UniqueClaim(S, k) ELSE Parsed(d)[k]
<1> DEFINE lacks(x, key) == Parsed(x)[key] = 0 /\ UniqueClaim(S, key) # 0
           pair(x, key) == <<Parsed(x)["Namespace"], UniqueClaim(S, key)>>
           a == IF lacks(d, "Namespace")
                  THEN [d EXCEPT !.metadata.namespace = UniqueClaim(S, "Namespace")] ELSE d
           b == IF lacks(a, "Host")
                  THEN [a EXCEPT !.metadata.host = UniqueClaim(S, "Host")] ELSE a
           c == IF lacks(b, "ServiceName")
                  THEN [b EXCEPT !.metadata.servicePair = pair(b, "ServiceName")] ELSE b
           f == IF lacks(c, "IngressName")
                  THEN [c EXCEPT !.metadata.ingressPair = pair(c, "IngressName")] ELSE c
<1>0. FillUnique(d, S) = f
  BY DEF FillUnique
<1>1. /\ a \in VsVip /\ a.virtualServices = d.virtualServices
      /\ \A k \in Keys : Parsed(a)[k] = IF k = "Namespace" /\ Parsed(d)[k] = 0
                                       THEN UniqueClaim(S, k) ELSE Parsed(d)[k]
  <2>1. CASE lacks(d, "Namespace")
    <3>1. a = [d EXCEPT !.metadata.namespace = UniqueClaim(S, "Namespace")]
      BY <2>1
    <3>2. UniqueClaim(S, "Namespace") \in Labels /\ Parsed(d)["Namespace"] = 0
      BY <2>1, ClaimOf
    <3> HIDE DEF a
    <3> QED BY <3>1, <3>2, FillNamespace
  <2>2. CASE ~lacks(d, "Namespace")
    <3>1. a = d
      BY <2>2
    <3>2. Parsed(d)["Namespace"] = 0 => UniqueClaim(S, "Namespace") = 0
      BY <2>2
    <3> HIDE DEF a
    <3> QED BY <3>1, <3>2
  <2> QED BY <2>1, <2>2
<1> HIDE DEF a
<1>2. /\ b \in VsVip /\ b.virtualServices = a.virtualServices
      /\ \A k \in Keys : Parsed(b)[k] = IF k = "Host" /\ Parsed(a)[k] = 0
                                       THEN UniqueClaim(S, k) ELSE Parsed(a)[k]
  <2>1. CASE lacks(a, "Host")
    <3>1. b = [a EXCEPT !.metadata.host = UniqueClaim(S, "Host")]
      BY <2>1
    <3>2. UniqueClaim(S, "Host") \in Labels /\ Parsed(a)["Host"] = 0
      BY <2>1, ClaimOf
    <3> HIDE DEF b
    <3> QED BY <1>1, <3>1, <3>2, FillHost
  <2>2. CASE ~lacks(a, "Host")
    <3>1. b = a
      BY <2>2
    <3>2. Parsed(a)["Host"] = 0 => UniqueClaim(S, "Host") = 0
      BY <2>2
    <3> HIDE DEF b
    <3> QED BY <1>1, <3>1, <3>2
  <2> QED BY <2>1, <2>2
<1> HIDE DEF b
<1>3. /\ c \in VsVip /\ c.virtualServices = b.virtualServices
      /\ \A k \in Keys : Parsed(c)[k] = IF k = "ServiceName" /\ Parsed(b)[k] = 0
                                       THEN UniqueClaim(S, k) ELSE Parsed(b)[k]
  <2>1. CASE lacks(b, "ServiceName")
    <3>1. c = [b EXCEPT !.metadata.servicePair = pair(b, "ServiceName")]
      BY <2>1
    <3>2. UniqueClaim(S, "ServiceName") \in Labels /\ Parsed(b)["ServiceName"] = 0
      BY <2>1, ClaimOf
    <3> HIDE DEF c
    <3> QED BY <1>2, <3>1, <3>2, FillServiceName
  <2>2. CASE ~lacks(b, "ServiceName")
    <3>1. c = b
      BY <2>2
    <3>2. Parsed(b)["ServiceName"] = 0 => UniqueClaim(S, "ServiceName") = 0
      BY <2>2
    <3> HIDE DEF c
    <3> QED BY <1>2, <3>1, <3>2
  <2> QED BY <2>1, <2>2
<1> HIDE DEF c
<1>4. /\ f \in VsVip /\ f.virtualServices = c.virtualServices
      /\ \A k \in Keys : Parsed(f)[k] = IF k = "IngressName" /\ Parsed(c)[k] = 0
                                       THEN UniqueClaim(S, k) ELSE Parsed(c)[k]
  <2>1. CASE lacks(c, "IngressName")
    <3>1. f = [c EXCEPT !.metadata.ingressPair = pair(c, "IngressName")]
      BY <2>1
    <3>2. UniqueClaim(S, "IngressName") \in Labels /\ Parsed(c)["IngressName"] = 0
      BY <2>1, ClaimOf
    <3> HIDE DEF f
    <3> QED BY <1>3, <3>1, <3>2, FillIngressName
  <2>2. CASE ~lacks(c, "IngressName")
    <3>1. f = c
      BY <2>2
    <3>2. Parsed(c)["IngressName"] = 0 => UniqueClaim(S, "IngressName") = 0
      BY <2>2
    <3> HIDE DEF f
    <3> QED BY <1>3, <3>1, <3>2
  <2> QED BY <2>1, <2>2
<1> HIDE DEF f
<1>5. f.virtualServices = d.virtualServices
  BY <1>1, <1>2, <1>3, <1>4
<1>6. \A k \in Keys : Parsed(f)[k] =
        IF k # "clustername" /\ Parsed(d)[k] = 0 THEN UniqueClaim(S, k) ELSE Parsed(d)[k]
  BY <1>1, <1>2, <1>3, <1>4 DEF Keys
<1> QED BY <1>0, <1>4, <1>5, <1>6

-----------------------------------------------------------------------------
(* What a VsVip takes over from its only virtual service. *)

LEMMA StatesOf ==
  ASSUME NEW o
  PROVE  /\ \A k \in Keys : o.markers[k] \in States(o, k)
         /\ o.metadata.host \in States(o, "Host")
         /\ o.metadata.ingress \in States(o, "IngressName")
         /\ o.metadata.ingressPair[2] \in States(o, "IngressName")
         /\ o.metadata.servicePair[2] \in States(o, "ServiceName")
         /\ o.metadata.namespace \in States(o, "Namespace")
         /\ o.metadata.ingressPair[1] \in States(o, "Namespace")
         /\ o.metadata.servicePair[1] \in States(o, "Namespace")
<1> DEFINE m == o.markers
           s == o.metadata
<1>1. /\ Sources(o)["clustername"] = <<m["clustername"]>>
      /\ Sources(o)["Host"] = <<m["Host"], s.host>>
      /\ Sources(o)["IngressName"] = <<m["IngressName"], s.ingress, s.ingressPair[2]>>
      /\ Sources(o)["ServiceName"] = <<m["ServiceName"], s.servicePair[2]>>
      /\ Sources(o)["Namespace"] =
           <<m["Namespace"], s.namespace, s.ingressPair[1], s.servicePair[1]>>
  BY DEF Sources
<1>2. \A k : States(o, k) = { Sources(o)[k][i] : i \in DOMAIN Sources(o)[k] }
  BY DEF States, Range
<1> HIDE DEF m, s
<1>3. m["clustername"] \in States(o, "clustername")
  BY <1>1, <1>2
<1>4. m["Host"] \in States(o, "Host") /\ s.host \in States(o, "Host")
  BY <1>1, <1>2
<1>5. /\ m["IngressName"] \in States(o, "IngressName")
      /\ s.ingress \in States(o, "IngressName")
      /\ s.ingressPair[2] \in States(o, "IngressName")
  BY <1>1, <1>2
<1>6. m["ServiceName"] \in States(o, "ServiceName") /\ s.servicePair[2] \in States(o, "ServiceName")
  BY <1>1, <1>2
<1>7. /\ m["Namespace"] \in States(o, "Namespace")
      /\ s.namespace \in States(o, "Namespace")
      /\ s.ingressPair[1] \in States(o, "Namespace")
      /\ s.servicePair[1] \in States(o, "Namespace")
  BY <1>1, <1>2
<1>8. \A k \in Keys : m[k] \in States(o, k)
  BY <1>3, <1>4, <1>5, <1>6, <1>7 DEF Keys
<1> QED BY <1>4, <1>5, <1>6, <1>7, <1>8 DEF m, s

LEMMA StatedByEither ==
  ASSUME NEW d, NEW o, NEW v, Labelled(d),
         d.markers = o.markers \/ d.markers = v.markers,
         d.metadata = o.metadata \/ d.metadata = v.metadata
  PROVE  \A k \in Keys : Parsed(d)[k] \in States(o, k) \union States(v, k)
<1> DEFINE U(k) == States(o, k) \union States(v, k)
<1>1. \A k \in Keys : d.markers[k] \in U(k)
  BY StatesOf
<1>2. /\ d.metadata.host \in U("Host")
      /\ d.metadata.ingress \in U("IngressName")
      /\ d.metadata.ingressPair[2] \in U("IngressName")
      /\ d.metadata.servicePair[2] \in U("ServiceName")
      /\ d.metadata.namespace \in U("Namespace")
      /\ d.metadata.ingressPair[1] \in U("Namespace")
      /\ d.metadata.servicePair[1] \in U("Namespace")
  BY StatesOf
<1> HIDE DEF U
<1>3. /\ "clustername" \in Keys /\ "Host" \in Keys /\ "IngressName" \in Keys
      /\ "ServiceName" \in Keys /\ "Namespace" \in Keys
  BY DEF Keys
<1>4. Parsed(d)["clustername"] \in U("clustername")
  BY <1>1, <1>3, LabelsOf
<1>5. Parsed(d)["Host"] \in U("Host")
  BY <1>1, <1>2, <1>3, LabelsOf
<1>6. Parsed(d)["IngressName"] \in U("IngressName")
  BY <1>1, <1>2, <1>3, LabelsOf
<1>7. Parsed(d)["ServiceName"] \in U("ServiceName")
  BY <1>1, <1>2, <1>3, LabelsOf
<1>8. Parsed(d)["Namespace"] \in U("Namespace")
  BY <1>1, <1>2, <1>3, LabelsOf
<1>9. \A k \in Keys : Parsed(d)[k] \in U(k)
  BY <1>4, <1>5, <1>6, <1>7, <1>8 DEF Keys
<1> QED BY <1>9 DEF U

\* Markers and service_metadata are all that labels come from.
LEMMA SameLabels ==
  ASSUME NEW d, NEW o, d.markers = o.markers, d.metadata = o.metadata
  PROVE  Parsed(d) = Parsed(o)
BY DEF Parsed, Sources

LEMMA CreatorKnown ==
  ASSUME NEW S, S \subseteq VirtualService
  PROVE  LinkedCreatedBy(S) \in Creators
<1> DEFINE known == { vs.createdBy : vs \in S } \ {""}
<1>1. known \subseteq Creators
  BY DEF VirtualService
<1>2. "" \in Creators /\ "ako" \in Creators
  BY DEF Creators
<1>3. LinkedCreatedBy(S) = IF "ako" \in known THEN "ako"
                           ELSE IF known # {} THEN CHOOSE c \in known : TRUE ELSE ""
  BY DEF LinkedCreatedBy
<1> HIDE DEF known
<1> QED BY <1>1, <1>2, <1>3

LEMMA Adopted ==
  ASSUME NEW dst \in VsVip, NEW S, S \subseteq VirtualService, S # {},
         NEW d, d = Adopt(dst, S)
  PROVE  /\ d \in VsVip /\ d.virtualServices = dst.virtualServices
         /\ (~\E vs \in S : S = {vs}) => Parsed(d) = Parsed(dst)
         /\ \A vs \in S : S = {vs} =>
              \A k \in Keys : Parsed(d)[k] \in States(dst, k) \union States(vs, k)
<1> DEFINE one == CHOOSE v \in S : TRUE
           single == S = {one}
           more == MetadataScore(one) > MetadataScore(dst)
<1>1. one \in S /\ one \in VirtualService
  OBVIOUS
<1>2. d = [dst EXCEPT
             !.createdBy = IF @ = "" THEN LinkedCreatedBy(S) ELSE @,
             !.markers = IF single /\ more THEN one.markers ELSE @,
             !.metadata = IF single /\ @ = NoMetadata THEN one.metadata ELSE @]
  BY DEF Adopt
<1> HIDE DEF one, single, more
<1>3. LinkedCreatedBy(S) \in Creators
  BY CreatorKnown
<1>4. /\ d.virtualServices = dst.virtualServices
      /\ d.markers = IF single /\ more THEN one.markers ELSE dst.markers
      /\ d.metadata = IF single /\ dst.metadata = NoMetadata THEN one.metadata ELSE dst.metadata
  BY <1>2 DEF VsVip
<1>5. d \in VsVip
  BY <1>1, <1>2, <1>3 DEF VsVip, VirtualService
<1>6. ASSUME ~\E vs \in S : S = {vs} PROVE Parsed(d) = Parsed(dst)
  <2>1. ~single
    BY <1>1, <1>6 DEF single
  <2> QED BY <1>4, <2>1, SameLabels
<1>7. ASSUME NEW vs \in S, S = {vs}
      PROVE  \A k \in Keys : Parsed(d)[k] \in States(dst, k) \union States(vs, k)
  <2>1. vs = one
    BY <1>1, <1>7
  <2>2. /\ d.markers = dst.markers \/ d.markers = vs.markers
        /\ d.metadata = dst.metadata \/ d.metadata = vs.metadata
    BY <1>4, <2>1
  <2>3. Labelled(d)
    BY <1>5 DEF VsVip, Labelled
  <2> QED BY <2>2, <2>3, StatedByEither
<1> QED BY <1>4, <1>5, <1>6, <1>7

-----------------------------------------------------------------------------
(* The references of a VsVip. *)

\* SetToSeq lists a finite set, each member once.
LEMMA Listing ==
  ASSUME NEW S, IsFiniteSet(S)
  PROVE  /\ SetToSeq(S) \in Seq(S) /\ IsInjective(SetToSeq(S))
         /\ \A x \in S : \E i \in DOMAIN SetToSeq(S) : SetToSeq(S)[i] = x
<1> DEFINE n == Cardinality(S)
           I == 1 .. n
           f == SetToSeq(S)
<1>1. n \in Nat
  BY FS_CardinalityType
<1>2. \A a, b \in Int : /\ IsFiniteSet(a .. b)
                        /\ Cardinality(a .. b) = IF a > b THEN 0 ELSE b - a + 1
  BY FS_Interval
<1>3. IsFiniteSet(I) /\ Cardinality(I) = n
  <2> HIDE DEF n
  <2>1. 1 \in Int /\ n \in Int
    BY <1>1
  <2>2. IsFiniteSet(1 .. n) /\ Cardinality(1 .. n) = IF 1 > n THEN 0 ELSE n - 1 + 1
    BY <1>2, <2>1, Zenon
  <2> QED BY <1>1, <2>2
<1>4. ExistsBijection(I, S)
  BY <1>3, FS_SameCardinalityBij
<1>5. \E g \in [I -> S] : IsInjective(g)
  BY <1>4 DEF ExistsBijection, Bijection, Injection
<1>6. f \in [I -> S] /\ IsInjective(f)
  BY <1>5 DEF SetToSeq
<1> HIDE DEF f
<1>7. f \in Injection(I, S)
  BY <1>6 DEF Injection
<1>8. f \in Surjection(I, S)
  BY <1>3, <1>7, FS_Injection
<1>9. \A x \in S : \E i \in I : f[i] = x
  BY <1>8 DEF Surjection
<1>10. DOMAIN f = I /\ f \in Seq(S)
  <2> HIDE DEF n
  <2> QED BY <1>1, <1>6
<1> QED BY <1>6, <1>9, <1>10 DEF f

Ref == [uuid : Nat, ref : Nat]
UuidOf(refs) == { r.uuid : r \in Range(refs) }
OncePerUuid(refs) == \A i, j \in DOMAIN refs : refs[i].uuid = refs[j].uuid => i = j

LEMMA JoinedOnce ==
  ASSUME NEW p \in Seq(Ref), NEW q \in Seq(Ref), OncePerUuid(p), OncePerUuid(q),
         \A i \in DOMAIN q : q[i].uuid \notin UuidOf(p)
  PROVE  /\ p \o q \in Seq(Ref) /\ OncePerUuid(p \o q)
         /\ \A i \in DOMAIN p : \E k \in DOMAIN (p \o q) : (p \o q)[k] = p[i]
         /\ \A i \in DOMAIN q : \E k \in DOMAIN (p \o q) : (p \o q)[k] = q[i]
<1> DEFINE r == p \o q
           m == Len(p)
           n == Len(q)
<1>1. m \in Nat /\ n \in Nat /\ DOMAIN p = 1 .. m /\ DOMAIN q = 1 .. n
  OBVIOUS
<1>2. /\ r \in Seq(Ref) /\ Len(r) = m + n
      /\ \A i \in 1 .. m + n : r[i] = IF i <= m THEN p[i] ELSE q[i - m]
  BY ConcatProperties
<1>3. DOMAIN r = 1 .. Len(r)
  BY <1>2
<1> HIDE DEF r, m, n
<1>4. DOMAIN r = 1 .. m + n
  BY <1>2, <1>3
<1>5. \A i \in DOMAIN r : i <= m => i \in DOMAIN p /\ r[i] = p[i]
  BY <1>1, <1>2, <1>4
<1>6. \A i \in DOMAIN r : ~(i <= m) => i - m \in DOMAIN q /\ r[i] = q[i - m]
  BY <1>1, <1>2, <1>4
<1>7. \A i \in DOMAIN p, j \in DOMAIN q : p[i].uuid # q[j].uuid
  BY DEF UuidOf, Range
<1>8. OncePerUuid(r)
  <2> SUFFICES ASSUME NEW i \in DOMAIN r, NEW j \in DOMAIN r, r[i].uuid = r[j].uuid
               PROVE  i = j
    BY DEF OncePerUuid
  <2>1. CASE i <= m /\ j <= m
    BY <1>5, <2>1 DEF OncePerUuid
  <2>2. CASE ~(i <= m) /\ ~(j <= m)
    <3>1. i - m = j - m
      BY <1>6, <2>2 DEF OncePerUuid
    <3> QED BY <1>1, <1>4, <3>1
  <2>3. CASE i <= m /\ ~(j <= m)
    BY <1>5, <1>6, <1>7, <2>3
  <2>4. CASE ~(i <= m) /\ j <= m
    BY <1>5, <1>6, <1>7, <2>4
  <2> QED BY <2>1, <2>2, <2>3, <2>4
<1>9. \A i \in DOMAIN p : i \in DOMAIN r /\ r[i] = p[i]
  BY <1>1, <1>2, <1>4
<1>10. \A i \in DOMAIN q : i + m \in DOMAIN r /\ r[i + m] = q[i]
  <2> SUFFICES ASSUME NEW i \in DOMAIN q PROVE i + m \in DOMAIN r /\ r[i + m] = q[i]
    OBVIOUS
  <2> DEFINE j == i + m
  <2>1. j \in 1 .. m + n /\ ~(j <= m) /\ j - m = i
    BY <1>1
  <2> HIDE DEF j
  <2>2. r[j] = q[j - m]
    BY <1>2, <2>1
  <2>3. j \in DOMAIN r /\ r[j] = q[i]
    BY <1>4, <2>1, <2>2
  <2> QED BY <2>3 DEF j
<1> QED BY <1>2, <1>8, <1>9, <1>10 DEF r

LEMMA ReferencesMerged ==
  ASSUME NEW dst \in VsVip, OncePerUuid(dst.virtualServices),
         NEW S, S \subseteq VirtualService, IsFiniteSet(S),
         NEW d, d = MergeReferences(dst, S)
  PROVE  /\ d \in VsVip /\ Parsed(d) = Parsed(dst)
         /\ \A k \in Keys : States(d, k) = States(dst, k)
         /\ OncePerUuid(d.virtualServices)
         /\ \A vs \in S : vs.uuid \in UuidOf(d.virtualServices)
<1> DEFINE p == dst.virtualServices
           new == { v \in S : v.uuid \notin UuidOf(p) }
           refs == { [uuid |-> vs.uuid, ref |-> vs.uuid] : vs \in new }
           q == SetToSeq(refs)
<1>1. d = [dst EXCEPT !.virtualServices = p \o q]
  BY DEF MergeReferences, UuidOf
<1>2. p \in Seq(Ref)
  BY DEF VsVip, Ref
<1>3. refs \subseteq Ref
  BY DEF Ref, VirtualService
<1>4. IsFiniteSet(refs)
  <2> DEFINE f == [v \in new |-> [uuid |-> v.uuid, ref |-> v.uuid]]
  <2>1. IsFiniteSet(new)
    <3> HIDE DEF p
    <3> QED BY FS_Subset
  <2>2. f \in Surjection(new, refs)
    BY DEF Surjection
  <2> HIDE DEF new, refs, f
  <2> QED BY <2>1, <2>2, FS_Surjection
<1>5. \A x \in refs : x.uuid \notin UuidOf(p)
  OBVIOUS
<1>6. \A x, y \in refs : x.uuid = y.uuid => x = y
  <2>1. \A x \in refs : x = [uuid |-> x.uuid, ref |-> x.uuid]
    OBVIOUS
  <2> HIDE DEF refs
  <2> QED BY <2>1
<1>7. \A vs \in S : vs.uuid \in UuidOf(p) \/ \E x \in refs : x.uuid = vs.uuid
  <2> SUFFICES ASSUME NEW vs \in S, vs.uuid \notin UuidOf(p)
               PROVE  \E x \in refs : x.uuid = vs.uuid
    OBVIOUS
  <2>1. vs \in new
    OBVIOUS
  <2> HIDE DEF new
  <2>2. [uuid |-> vs.uuid, ref |-> vs.uuid] \in refs
    BY <2>1
  <2> QED BY <2>2
<1> HIDE DEF refs
<1>8. /\ q \in Seq(refs) /\ IsInjective(q)
      /\ \A x \in refs : \E i \in DOMAIN q : q[i] = x
  BY <1>4, Listing
<1> HIDE DEF q
<1>9. \A i \in DOMAIN q : q[i] \in refs
  BY <1>8
<1>10. q \in Seq(Ref)
  BY <1>3, <1>8
<1>11. OncePerUuid(q)
  BY <1>6, <1>8, <1>9 DEF OncePerUuid, IsInjective
<1>12. /\ p \o q \in Seq(Ref) /\ OncePerUuid(p \o q)
       /\ \A i \in DOMAIN p : \E k \in DOMAIN (p \o q) : (p \o q)[k] = p[i]
       /\ \A i \in DOMAIN q : \E k \in DOMAIN (p \o q) : (p \o q)[k] = q[i]
  BY <1>2, <1>5, <1>9, <1>10, <1>11, JoinedOnce
<1>13. /\ d \in VsVip /\ d.virtualServices = p \o q
       /\ d.markers = dst.markers /\ d.metadata = dst.metadata
  <2> DEFINE r == p \o q
  <2>1. r \in Seq([uuid : Nat, ref : Nat])
    BY <1>12 DEF Ref
  <2> HIDE DEF r, p
  <2> QED BY <1>1, <2>1 DEF VsVip, r
<1>14. \A vs \in S : vs.uuid \in UuidOf(p \o q)
  <2> DEFINE r == p \o q
  <2> SUFFICES ASSUME NEW vs \in S PROVE vs.uuid \in UuidOf(r)
    OBVIOUS
  <2>1. \A i \in DOMAIN r : r[i].uuid \in UuidOf(r)
    BY DEF UuidOf, Range
  <2>2. CASE vs.uuid \in UuidOf(p)
    <3>1. \E i \in DOMAIN p : p[i].uuid = vs.uuid
      BY <2>2 DEF UuidOf, Range
    <3> HIDE DEF p
    <3> QED BY <1>12, <2>1, <3>1
  <2>3. CASE \E x \in refs : x.uuid = vs.uuid
    <3>1. PICK x \in refs : x.uuid = vs.uuid
      BY <2>3
    <3>2. PICK i \in DOMAIN q : q[i] = x
      BY <1>8
    <3>3. PICK k \in DOMAIN r : r[k] = x
      BY <1>12, <3>2
    <3> QED BY <2>1, <3>1, <3>3
  <2> QED BY <1>7, <2>2, <2>3
<1>15. Parsed(d) = Parsed(dst)
  BY <1>13, SameLabels
<1>16. \A k \in Keys : States(d, k) = States(dst, k)
  BY <1>13 DEF States, Sources
<1> QED BY <1>12, <1>13, <1>14, <1>15, <1>16

-----------------------------------------------------------------------------
(* enrichVsVipInventory as a whole. *)

LEMMA EnrichedVsVip ==
  ASSUME NEW o \in VsVip, OncePerUuid(o.virtualServices),
         NEW S, S \subseteq VirtualService, IsFiniteSet(S),
         NEW e, e = EnrichVsVip(o, S)
  PROVE  /\ e \in VsVip /\ OncePerUuid(e.virtualServices)
         /\ \A vs \in S : vs.uuid \in UuidOf(e.virtualServices)
         /\ \A k \in Keys :
              /\ Parsed(o)[k] # 0 /\ Parsed(e)[k] # Parsed(o)[k] => \E vs \in S : S = {vs}
              /\ Parsed(e)[k] \notin {0, Parsed(o)[k]} =>
                   \/ Claims(S, k) = {Parsed(e)[k]}
                   \/ \E vs \in S : S = {vs} /\ Parsed(e)[k] \in States(o, k) \union States(vs, k)
              /\ k # "clustername" /\ Parsed(e)[k] = 0 => \A c \in Labels : Claims(S, k) # {c}
<1>1. CASE S = {}
  <2>1. e = o
    BY <1>1 DEF EnrichVsVip
  <2>2. \A k : Claims(S, k) = {}
    BY <1>1 DEF Claims
  <2> QED BY <1>1, <2>1, <2>2
<1>2. CASE S # {}
  <2> DEFINE m == MergeReferences(o, S)
             a == Adopt(m, S)
  <2>1. e = FillUnique(a, S)
    BY <1>2 DEF EnrichVsVip
  <2>2. /\ m \in VsVip /\ Parsed(m) = Parsed(o)
        /\ \A k \in Keys : States(m, k) = States(o, k)
        /\ OncePerUuid(m.virtualServices)
        /\ \A vs \in S : vs.uuid \in UuidOf(m.virtualServices)
    BY ReferencesMerged
  <2> HIDE DEF m
  <2>3. /\ a \in VsVip /\ a.virtualServices = m.virtualServices
        /\ (~\E vs \in S : S = {vs}) => Parsed(a) = Parsed(m)
        /\ \A vs \in S : S = {vs} =>
             \A k \in Keys : Parsed(a)[k] \in States(m, k) \union States(vs, k)
    BY <1>2, <2>2, Adopted
  <2> HIDE DEF a
  <2>4. /\ e \in VsVip /\ e.virtualServices = a.virtualServices
        /\ \A k \in Keys : Parsed(e)[k] =
             IF k # "clustername" /\ Parsed(a)[k] = 0 THEN UniqueClaim(S, k) ELSE Parsed(a)[k]
    BY <2>1, <2>3, FillUniqueLabels
  <2>5. /\ OncePerUuid(e.virtualServices)
        /\ \A vs \in S : vs.uuid \in UuidOf(e.virtualServices)
    BY <2>2, <2>3, <2>4
  <2>6. ASSUME NEW k \in Keys
        PROVE  /\ Parsed(o)[k] # 0 /\ Parsed(e)[k] # Parsed(o)[k] => \E vs \in S : S = {vs}
               /\ Parsed(e)[k] \notin {0, Parsed(o)[k]} =>
                    \/ Claims(S, k) = {Parsed(e)[k]}
                    \/ \E vs \in S : S = {vs} /\ Parsed(e)[k] \in States(o, k) \union States(vs, k)
               /\ k # "clustername" /\ Parsed(e)[k] = 0 => \A c \in Labels : Claims(S, k) # {c}
    <3>1. /\ UniqueClaim(S, k) # 0 => Claims(S, k) = {UniqueClaim(S, k)}
          /\ \A c \in Labels : Claims(S, k) = {c} => UniqueClaim(S, k) = c
      BY ClaimOf
    <3>2. 0 \notin Claims(S, k)
      BY DEF Claims
    <3>3. Parsed(e)[k] =
            IF k # "clustername" /\ Parsed(a)[k] = 0 THEN UniqueClaim(S, k) ELSE Parsed(a)[k]
      BY <2>4
    <3>4. (~\E vs \in S : S = {vs}) => Parsed(a)[k] = Parsed(o)[k]
      BY <2>2, <2>3
    <3>5. \A vs \in S : S = {vs} => Parsed(a)[k] \in States(o, k) \union States(vs, k)
      BY <2>2, <2>3
    <3>6. Parsed(o)[k] # 0 /\ Parsed(e)[k] # Parsed(o)[k] => \E vs \in S : S = {vs}
      BY <3>3, <3>4
    <3>7. ASSUME Parsed(e)[k] \notin {0, Parsed(o)[k]}
          PROVE  \/ Claims(S, k) = {Parsed(e)[k]}
                 \/ \E vs \in S : S = {vs} /\ Parsed(e)[k] \in States(o, k) \union States(vs, k)
      BY <3>1, <3>3, <3>4, <3>5, <3>7
    <3>8. k # "clustername" /\ Parsed(e)[k] = 0 => \A c \in Labels : Claims(S, k) # {c}
      BY <3>1, <3>2, <3>3
    <3> QED BY <3>6, <3>7, <3>8
  <2> QED BY <2>4, <2>5, <2>6
<1> QED BY <1>1, <1>2

LEMMA LinkedFinite ==
  ASSUME NEW list \in Seq(VirtualService), NEW uuid
  PROVE  Linked(list, uuid) \subseteq VirtualService /\ IsFiniteSet(Linked(list, uuid))
<1> DEFINE n == Len(list)
<1>1. n \in Nat /\ list \in [1 .. n -> VirtualService]
  OBVIOUS
<1>2. Range(list) \subseteq VirtualService
  BY <1>1 DEF Range
<1>3. list \in Surjection(1 .. n, Range(list))
  BY <1>1 DEF Surjection, Range
<1>4. IsFiniteSet(1 .. n)
  <2> HIDE DEF n
  <2>1. \A a, b \in Int : IsFiniteSet(a .. b)
    BY FS_Interval
  <2>2. 1 \in Int /\ n \in Int
    BY <1>1
  <2> QED BY <2>1, <2>2, Zenon
<1>5. IsFiniteSet(Range(list))
  <2> HIDE DEF n
  <2> QED BY <1>3, <1>4, FS_Surjection
<1>6. Linked(list, uuid) \subseteq Range(list)
  BY DEF Linked
<1> QED BY <1>2, <1>5, <1>6, FS_Subset

-----------------------------------------------------------------------------
(* The list of virtual services. *)

LEMMA Merged ==
  ASSUME NEW vs \in VirtualService, NEW cfg \in VSConfigs
  PROVE  MergeConfig(vs, cfg) \in VirtualService /\ MergeConfig(vs, cfg).uuid = vs.uuid
<1>1. CASE cfg = NoConfig
  BY <1>1 DEF MergeConfig
<1>2. CASE cfg # NoConfig
  <2>1. cfg \in VSConfig
    BY <1>2, MetadataAssumption
  <2> QED BY <1>2, <2>1 DEF MergeConfig, VSConfig, VirtualService
<1> QED BY <1>1, <1>2

LEMMA Inherited ==
  ASSUME NEW list \in Seq(VirtualService), \A i \in DOMAIN list : list[i].uuid = i
  PROVE  /\ InheritNamespaces(list) \in Seq(VirtualService)
         /\ Len(InheritNamespaces(list)) = Len(list)
         /\ \A i \in DOMAIN InheritNamespaces(list) : InheritNamespaces(list)[i].uuid = i
<1> DEFINE r == InheritNamespaces(list)
           n == Len(list)
<1>1. n \in Nat /\ DOMAIN list = 1 .. n /\ \A i \in 1 .. n : list[i] \in VirtualService
  OBVIOUS
<1>2. \A i \in 1 .. n : r[i] \in VirtualService /\ r[i].uuid = i
  <2> SUFFICES ASSUME NEW i \in 1 .. n PROVE r[i] \in VirtualService /\ r[i].uuid = i
    OBVIOUS
  <2> DEFINE vs == list[i]
             spoken == ChildNamespaces(list, vs.uuid)
             name == CHOOSE k \in Labels : spoken = {k}
  <2>1. r[i] = IF Parsed(vs).Namespace = 0 /\ \E k \in Labels : spoken = {k}
                 THEN [vs EXCEPT !.metadata.namespace = name] ELSE vs
    BY <1>1 DEF InheritNamespaces
  <2>2. (\E k \in Labels : spoken = {k}) => name \in Labels
    OBVIOUS
  <2>3. vs \in VirtualService /\ vs.uuid = i
    BY <1>1
  <2> HIDE DEF name, vs, spoken, r
  <2>4. ASSUME name \in Labels
        PROVE  LET x == [vs EXCEPT !.metadata.namespace = name]
               IN x \in VirtualService /\ x.uuid = i
    BY <2>3, <2>4 DEF VirtualService, Metadata
  <2> QED BY <2>1, <2>2, <2>3, <2>4
<1>3. DOMAIN r = 1 .. n
  BY <1>1 DEF InheritNamespaces
<1>4. r = [i \in 1 .. n |-> r[i]]
  BY <1>1 DEF InheritNamespaces
<1> HIDE DEF r, n
<1>5. r \in Seq(VirtualService) /\ Len(r) = n
  BY <1>1, <1>2, <1>3, <1>4
<1> QED BY <1>2, <1>3, <1>5 DEF r, n

-----------------------------------------------------------------------------
(* The inductive invariant: what the VsVip refers to as listed, it refers   *)
(* to once, and what enriching it left behind holds until the next refresh. *)

OwnOnce == OncePerUuid(own.virtualServices)
MetadataInv == TypeOK /\ OwnOnce /\ NoContestedLabel /\ SharedByOnce

LEMMA DecodedVsVip ==
  ASSUME NEW v \in VsVips
  PROVE  Decoded(v) \in VsVip /\ OncePerUuid(Decoded(v).virtualServices)
<1> DEFINE refs == v.virtualServices
           n == Len(refs)
           r == [i \in DOMAIN refs |-> DecodedRef(refs[i])]
<1>1. v \in VsVip /\ refs \in Seq(Ref)
  BY MetadataAssumption DEF VsVip, Ref
<1>2. Decoded(v) = [v EXCEPT !.virtualServices = r]
  BY DEF Decoded
<1>3. \A x \in Ref : DecodedRef(x) \in Ref
  <2> SUFFICES ASSUME NEW x \in Ref PROVE DecodedRef(x) \in Ref
    OBVIOUS
  <2> DEFINE a == x.uuid
             b == x.ref
  <2>1. a \in Nat /\ b \in Nat /\ DecodedRef(x) = [x EXCEPT !.uuid = FirstOf(<<a, b>>)]
    BY DEF Ref, DecodedRef
  <2> HIDE DEF a, b
  <2>2. FirstOf(<<a, b>>) \in Nat
    BY <2>1, FirstOfTwo
  <2> QED BY <2>1, <2>2 DEF Ref
<1>4. n \in Nat /\ DOMAIN refs = 1 .. n /\ \A i \in 1 .. n : refs[i] \in Ref
  BY <1>1
<1>5. r = [i \in 1 .. n |-> r[i]] /\ \A i \in 1 .. n : r[i] \in Ref
  BY <1>3, <1>4
<1>6. DOMAIN r = DOMAIN refs
  OBVIOUS
<1> HIDE DEF r, n
<1>7. r \in Seq(Ref)
  BY <1>4, <1>5
<1>8. r \in Seq([uuid : Nat, ref : Nat])
  BY <1>7 DEF Ref
<1> HIDE DEF refs
<1>9. Decoded(v) \in VsVip /\ Decoded(v).virtualServices = r
  BY <1>1, <1>2, <1>8 DEF VsVip
<1>10. \A i, j \in DOMAIN v.virtualServices :
         Decoded(v).virtualServices[i].uuid = Decoded(v).virtualServices[j].uuid => i = j
  BY MetadataAssumption
<1> QED BY <1>6, <1>9, <1>10 DEF OncePerUuid, refs

LEMMA MetadataInit == Init => MetadataInv
<1> SUFFICES ASSUME Init PROVE MetadataInv
  OBVIOUS
<1>1. own \in VsVip /\ OncePerUuid(own.virtualServices)
  BY DecodedVsVip DEF Init
<1>2. items \in Seq(VirtualService) /\ Len(items) <= MaxVS /\ \A i \in DOMAIN items : items[i].uuid = i
  BY MetadataAssumption DEF Init
<1>3. TypeOK
  BY <1>1, <1>2 DEF Init, TypeOK
<1>4. ~Enriched
  BY DEF Init, Enriched
<1> QED BY <1>1, <1>3, <1>4 DEF MetadataInv, OwnOnce, NoContestedLabel, SharedByOnce

\* While a VsVip is not enriched nothing is said of its labels.
LEMMA NotEnriched ==
  ASSUME ~Enriched'
  PROVE  NoContestedLabel' /\ SharedByOnce'
BY DEF NoContestedLabel, SharedByOnce

LEMMA ListVSKeeps ==
  ASSUME MetadataInv, NEW item \in VSItems, NEW cfg \in VSConfigs, ListVS(item, cfg)
  PROVE  MetadataInv'
<1> DEFINE vs == MergeConfig([item EXCEPT !.uuid = Len(items) + 1], cfg)
           n == Len(items)
<1>1. items \in Seq(VirtualService) /\ n < MaxVS /\ \A i \in DOMAIN items : items[i].uuid = i
  BY DEF MetadataInv, TypeOK, ListVS
<1>2. n \in Nat /\ DOMAIN items = 1 .. n
  BY <1>1
<1>3. item \in VirtualService
  BY MetadataAssumption
<1>4. [item EXCEPT !.uuid = n + 1] \in VirtualService /\ [item EXCEPT !.uuid = n + 1].uuid = n + 1
  BY <1>2, <1>3 DEF VirtualService
<1>5. vs \in VirtualService /\ vs.uuid = n + 1
  BY <1>4, Merged
<1>6. items' = Append(items, vs) /\ own' = own /\ vip' = vip /\ stage' = stage
      /\ stage \in {"listing", "bare"}
  BY DEF ListVS
<1> HIDE DEF vs, n
<1>7. /\ items' \in Seq(VirtualService) /\ Len(items') = n + 1
      /\ \A i \in 1 .. n : items'[i] = items[i]
      /\ items'[n + 1] = vs
  BY <1>1, <1>5, <1>6, AppendProperties DEF n
<1>8. DOMAIN items' = 1 .. n + 1
  BY <1>7
<1>9. \A i \in DOMAIN items' : items'[i].uuid = i
  BY <1>1, <1>2, <1>5, <1>7, <1>8
<1>10. Len(items') <= MaxVS
  BY <1>1, <1>2, <1>7, MetadataAssumption
<1>11. TypeOK' /\ OwnOnce'
  BY <1>6, <1>7, <1>9, <1>10 DEF MetadataInv, TypeOK, OwnOnce
<1>12. ~Enriched'
  BY <1>6 DEF Enriched
<1> QED BY <1>11, <1>12, NotEnriched DEF MetadataInv

LEMMA ListedKeeps ==
  ASSUME MetadataInv, Listed
  PROVE  MetadataInv'
<1>1. /\ items \in Seq(VirtualService) /\ Len(items) <= MaxVS
      /\ \A i \in DOMAIN items : items[i].uuid = i
  BY DEF MetadataInv, TypeOK
<1>2. /\ InheritNamespaces(items) \in Seq(VirtualService)
      /\ Len(InheritNamespaces(items)) = Len(items)
      /\ \A i \in DOMAIN InheritNamespaces(items) : InheritNamespaces(items)[i].uuid = i
  BY <1>1, Inherited
<1>3. /\ items' = items \/ items' = InheritNamespaces(items)
      /\ own' = own /\ vip' = vip /\ stage' = "listed"
  BY DEF Listed
<1>4. /\ items' \in Seq(VirtualService) /\ Len(items') <= MaxVS
      /\ \A i \in DOMAIN items' : items'[i].uuid = i
  BY <1>1, <1>2, <1>3
<1>5. TypeOK' /\ OwnOnce'
  BY <1>3, <1>4 DEF MetadataInv, TypeOK, OwnOnce
<1>6. ~Enriched'
  BY <1>3 DEF Enriched
<1> QED BY <1>5, <1>6, NotEnriched DEF MetadataInv

LEMMA EnrichKeeps ==
  ASSUME MetadataInv, Enrich
  PROVE  MetadataInv'
<1> DEFINE S == Linked(items, own.uuid)
<1>1. items \in Seq(VirtualService) /\ own \in VsVip /\ OncePerUuid(own.virtualServices)
  BY DEF MetadataInv, TypeOK, OwnOnce
<1>2. S \subseteq VirtualService /\ IsFiniteSet(S)
  BY <1>1, LinkedFinite
<1>3. vip' = EnrichVsVip(own, S) /\ items' = items /\ own' = own /\ stage' = "enriched"
  BY DEF Enrich
<1>4. S = { v \in Range(items) :
              \/ v.vip = own.uuid
              \/ \E p \in Range(items) :
                   p.vip = own.uuid /\ (v.parent = p.uuid \/ v.uuid \in p.children) }
  BY DEF Linked
<1>5. \A k : Claims(S, k) = { Parsed(vs)[k] : vs \in S } \ {0}
  BY DEF Claims
<1>6. Siblings' = S
  BY <1>3 DEF Siblings
<1> HIDE DEF S
<1>7. /\ vip' \in VsVip /\ OncePerUuid(vip'.virtualServices)
      /\ \A vs \in S : vs.uuid \in UuidOf(vip'.virtualServices)
      /\ \A k \in Keys :
           /\ Parsed(own)[k] # 0 /\ Parsed(vip')[k] # Parsed(own)[k] => \E vs \in S : S = {vs}
           /\ Parsed(vip')[k] \notin {0, Parsed(own)[k]} =>
                \/ Claims(S, k) = {Parsed(vip')[k]}
                \/ \E vs \in S : S = {vs} /\ Parsed(vip')[k] \in States(own, k) \union States(vs, k)
           /\ k # "clustername" /\ Parsed(vip')[k] = 0 => \A c \in Labels : Claims(S, k) # {c}
  BY <1>1, <1>2, <1>3, EnrichedVsVip
<1>8. TypeOK' /\ OwnOnce'
  BY <1>3, <1>7 DEF MetadataInv, TypeOK, OwnOnce
<1>9. NoContestedLabel'
  <2> DEFINE B == { v \in Range(items') :
                     \/ v.vip = own'.uuid
                     \/ \E p \in Range(items') :
                          p.vip = own'.uuid /\ (v.parent = p.uuid \/ v.uuid \in p.children) }
             agreed(k, c) == { Parsed(vs)[k] : vs \in B } \ {0} = {c}
  <2>1. S = B
    BY <1>3, <1>4
  <2> HIDE DEF B
  <2>2. ASSUME NEW k \in Keys
        PROVE  /\ Parsed(own')[k] # 0 /\ Parsed(vip')[k] # Parsed(own')[k] => \E vs \in B : B = {vs}
               /\ Parsed(vip')[k] \notin {0, Parsed(own')[k]} =>
                    \/ agreed(k, Parsed(vip')[k])
                    \/ \E vs \in B : B = {vs} /\ Parsed(vip')[k] \in States(own', k) \union States(vs, k)
               /\ k # "clustername" /\ Parsed(vip')[k] = 0 => \A c \in Labels : ~agreed(k, c)
    <3>1. \A c : agreed(k, c) <=> Claims(S, k) = {c}
      BY <1>5, <2>1
    <3> HIDE DEF agreed
    <3> QED BY <1>3, <1>7, <2>1, <3>1
  <2> QED BY <2>2, Zenon DEF NoContestedLabel, B
<1>10. SharedByOnce'
  <2> DEFINE refs == vip'.virtualServices
             uuids == [i \in DOMAIN refs |-> refs[i].uuid]
  <2>1. IsInjective(uuids)
    BY <1>7 DEF IsInjective, OncePerUuid
  <2>2. \A vs \in S : vs.uuid \in Range(uuids)
    BY <1>7 DEF Range, UuidOf
  <2>3. { vs.uuid : vs \in S } \subseteq Range(uuids)
    BY <2>2
  <2> QED BY <1>6, <2>1, <2>3 DEF SharedByOnce
<1> QED BY <1>8, <1>9, <1>10 DEF MetadataInv

LEMMA AgainKeeps ==
  ASSUME MetadataInv, Again
  PROVE  MetadataInv'
<1>1. /\ items' = <<>> /\ vip' = own /\ own' = own /\ stage' \in {"listing", "bare"}
  BY DEF Again
<1>2. /\ items' \in Seq(VirtualService) /\ Len(items') <= MaxVS
      /\ \A i \in DOMAIN items' : items'[i].uuid = i
  BY <1>1, MetadataAssumption
<1>3. TypeOK' /\ OwnOnce'
  BY <1>1, <1>2 DEF MetadataInv, TypeOK, OwnOnce
<1>4. ~Enriched'
  BY <1>1 DEF Enriched
<1> QED BY <1>3, <1>4, NotEnriched DEF MetadataInv

LEMMA MetadataStep == MetadataInv /\ [Next]_vars => MetadataInv'
<1> SUFFICES ASSUME MetadataInv, [Next]_vars PROVE MetadataInv'
  OBVIOUS
<1>1. ASSUME NEW item \in VSItems, NEW cfg \in VSConfigs, ListVS(item, cfg) PROVE MetadataInv'
  BY <1>1, ListVSKeeps
<1>2. CASE Listed
  BY <1>2, ListedKeeps
<1>3. CASE Enrich
  BY <1>3, EnrichKeeps
<1>4. CASE Again
  BY <1>4, AgainKeeps
<1>5. CASE UNCHANGED vars
  <2>1. items' = items /\ own' = own /\ vip' = vip /\ stage' = stage
    BY <1>5 DEF vars
  <2>2. TypeOK' /\ OwnOnce'
    BY <2>1 DEF MetadataInv, TypeOK, OwnOnce
  <2>3. NoContestedLabel'
    BY <2>1 DEF MetadataInv, NoContestedLabel, Enriched
  <2>4. SharedByOnce'
    BY <2>1 DEF MetadataInv, SharedByOnce, Enriched, Siblings
  <2> QED BY <2>2, <2>3, <2>4 DEF MetadataInv
<1> QED BY <1>1, <1>2, <1>3, <1>4, <1>5 DEF Next

LEMMA MetadataAlways == Spec => []MetadataInv
BY MetadataInit, MetadataStep, PTL DEF Spec

(* Objects keep their shape through decoding, merging and enriching, and a  *)
(* listed virtual service is found at its uuid.                             *)
THEOREM MetadataTypeCorrect == Spec => []TypeOK
<1>1. MetadataInv => TypeOK
  BY DEF MetadataInv
<1> QED BY <1>1, MetadataAlways, PTL

(* enrichVsVipInventory: what a VsVip of several virtual services says      *)
(* itself stays, it takes over no label they disagree on, and no label is   *)
(* missing that all of them agree on.                                       *)
THEOREM NeverContested == Spec => []NoContestedLabel
<1>1. MetadataInv => NoContestedLabel
  BY DEF MetadataInv
<1> QED BY <1>1, MetadataAlways, PTL

(* mergeVsVipVirtualServices: vip_shared_by_vs_count counts every virtual   *)
(* service behind the VsVip, and each once.                                 *)
THEOREM CountedOnce == Spec => []SharedByOnce
<1>1. MetadataInv => SharedByOnce
  BY DEF MetadataInv
<1> QED BY <1>1, MetadataAlways, PTL
===============================================================================
