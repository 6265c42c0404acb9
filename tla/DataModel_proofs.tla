--------------------------- MODULE DataModel_proofs ---------------------------
(***************************************************************************)
(* Proofs about DataModel, for any indexes, any names the vendor module    *)
(* may give, and transactions that may or may not fail.                    *)
(***************************************************************************)
EXTENDS DataModel, SequenceTheorems, TLAPS

\* The parts of a path.  No prover knows that a literal is in STRING: those of
\* OBJECT_INFO are listed.
Part ==
  STRING \cup {"0", "XPON", "ONU", "x", "SoftwareImage", "EthernetUNI", "ANI",
               "TC", "GEM", "Port", "Transceiver", "ONUActivation", "Authentication",
               "PerformanceThresholds", "Alarms"}
Path == Seq(Part)
AnyCall == Args(Keys, Parameters)

\* The instances a path leads through.
Through(p) == {SubSeq(p, 1, k) : k \in {j \in DOMAIN p : p[j] \in Index}}

\* A path an object can have: neither generic nor with an index that none has.
Plain(p) == \A k \in DOMAIN p : p[k] \notin {"x", "0"}
-----------------------------------------------------------------------------
(***************************************************************************)
(* Paths.                                                                  *)
(***************************************************************************)

\* The start of a path is a path, with the same parts.
LEMMA Starts ==
  ASSUME NEW p \in Path, NEW k \in 0 .. Len(p)
  PROVE  /\ SubSeq(p, 1, k) \in Path
         /\ Len(SubSeq(p, 1, k)) = k
         /\ \A j \in 1 .. k : SubSeq(p, 1, k)[j] = p[j]
<1>1. Len(p) \in Nat /\ \A j \in 1 .. Len(p) : p[j] \in Part
  BY LenProperties, ElementOfSeq DEF Path
<1>2. \A j \in 1 .. k : p[j] \in Part
  BY <1>1
<1>3. /\ SubSeq(p, 1, k) \in Seq(Part)
      /\ Len(SubSeq(p, 1, k)) = IF 1 <= k THEN k - 1 + 1 ELSE 0
      /\ \A j \in 1 .. k - 1 + 1 : SubSeq(p, 1, k)[j] = p[1 + j - 1]
  BY <1>1, <1>2, SubSeqProperties
<1>4. k \in Nat /\ k - 1 + 1 = k
  BY <1>1
<1>5. \A j \in 1 .. k : 1 + j - 1 = j
  BY <1>4
<1> QED
  BY <1>3, <1>4, <1>5 DEF Path

\* To be a prefix is to agree on every part.
LEMMA PrefixParts ==
  ASSUME NEW p \in Path, NEW q \in Path
  PROVE  IsPrefix(p, q) <=>
           Len(p) <= Len(q) /\ \A k \in 1 .. Len(p) : p[k] = q[k]
<1>1. Len(p) \in Nat /\ Len(q) \in Nat
  BY LenProperties DEF Path
<1>2. SubSeq(p, 1, Len(p)) = p
  BY SubSeqFull DEF Path
<1>3. SUFFICES ASSUME Len(p) <= Len(q)
               PROVE  p = SubSeq(q, 1, Len(p)) <=> \A k \in 1 .. Len(p) : p[k] = q[k]
  BY <1>1, <1>2 DEF IsPrefix
<1>4. Len(p) \in 0 .. Len(q)
  BY <1>1, <1>3
<1> DEFINE s == SubSeq(q, 1, Len(p))
<1>5. s \in Path /\ Len(s) = Len(p) /\ \A j \in 1 .. Len(p) : s[j] = q[j]
  BY <1>4, Starts
<1>6. (\A k \in 1 .. Len(p) : p[k] = q[k]) => p = s
  <2> HIDE DEF s
  <2> QED BY <1>5, SeqEqual DEF Path
<1>7. p = s => \A k \in 1 .. Len(p) : p[k] = q[k]
  <2> HIDE DEF s
  <2> QED BY <1>5
<1> QED
  BY <1>6, <1>7

LEMMA PrefixOfItself ==
  ASSUME NEW p \in Path
  PROVE  IsPrefix(p, p)
<1>1. Len(p) \in Nat
  BY LenProperties DEF Path
<1> QED
  BY <1>1, PrefixParts

LEMMA PrefixTransitive ==
  ASSUME NEW p \in Path, NEW q \in Path, NEW r \in Path,
         IsPrefix(p, q), IsPrefix(q, r)
  PROVE  IsPrefix(p, r)
<1>1. Len(p) \in Nat /\ Len(q) \in Nat /\ Len(r) \in Nat
  BY LenProperties DEF Path
<1>2. Len(p) <= Len(q) /\ \A k \in 1 .. Len(p) : p[k] = q[k]
  BY PrefixParts
<1>3. Len(q) <= Len(r) /\ \A k \in 1 .. Len(q) : q[k] = r[k]
  BY PrefixParts
<1>4. Len(p) <= Len(r) /\ \A k \in 1 .. Len(p) : p[k] = r[k]
  BY <1>1, <1>2, <1>3
<1> QED
  BY <1>4, PrefixParts

\* A path leads through starts of itself.
LEMMA ThroughStarts ==
  ASSUME NEW p \in Path, NEW q \in Through(p)
  PROVE  q \in Path /\ IsPrefix(q, p) /\ Len(q) <= Len(p) /\ Through(q) \subseteq Through(p)
<1>1. Len(p) \in Nat /\ DOMAIN p = 1 .. Len(p)
  BY LenProperties DEF Path
<1>2. PICK k \in 1 .. Len(p) : p[k] \in Index /\ q = SubSeq(p, 1, k)
  BY <1>1 DEF Through
<1>3. q \in Path /\ Len(q) = k /\ \A j \in 1 .. k : q[j] = p[j]
  BY <1>1, <1>2, Starts
<1>4. IsPrefix(q, p) /\ Len(q) <= Len(p)
  <2>1. Len(q) <= Len(p) /\ \A j \in 1 .. Len(q) : q[j] = p[j]
    BY <1>1, <1>3
  <2> QED
    BY <1>3, <2>1, PrefixParts
<1>5. DOMAIN q = 1 .. k
  BY <1>3, LenProperties DEF Path
<1>6. \A j \in 1 .. k : SubSeq(q, 1, j) = SubSeq(p, 1, j)
  <2> TAKE j \in 1 .. k
  <2>1. /\ SubSeq(q, 1, j) \in Path /\ Len(SubSeq(q, 1, j)) = j
        /\ \A i \in 1 .. j : SubSeq(q, 1, j)[i] = q[i]
    BY <1>3, Starts
  <2>2. j \in 0 .. Len(p)
    BY <1>1
  <2>3. /\ SubSeq(p, 1, j) \in Path /\ Len(SubSeq(p, 1, j)) = j
        /\ \A i \in 1 .. j : SubSeq(p, 1, j)[i] = p[i]
    BY <2>2, Starts
  <2>4. \A i \in 1 .. j : q[i] = p[i]
    BY <1>3
  <2> DEFINE s == SubSeq(q, 1, j)
             t == SubSeq(p, 1, j)
  <2>5. /\ s \in Path /\ t \in Path /\ Len(s) = Len(t)
        /\ \A i \in 1 .. Len(s) : s[i] = t[i]
    BY <2>1, <2>3, <2>4
  <2> HIDE DEF s, t
  <2>6. s = t
    BY <2>5, SeqEqual DEF Path
  <2> QED
    BY <2>6 DEF s, t
<1>7. \A j \in 1 .. k : j \in 1 .. Len(p)
  BY <1>1
<1>8. Through(q) \subseteq Through(p)
  BY <1>1, <1>3, <1>5, <1>6, <1>7 DEF Through
<1> QED
  BY <1>3, <1>4, <1>8

\* What follows a path without a number in it leads through no instance more.
LEMMA ThroughConcat ==
  ASSUME NEW p \in Path, NEW t \in Path, \A k \in 1 .. Len(t) : t[k] \notin Index
  PROVE  /\ p \o t \in Path
         /\ Len(p \o t) = Len(p) + Len(t)
         /\ IsPrefix(p, p \o t)
         /\ Through(p \o t) = Through(p)
<1>1. /\ Len(p) \in Nat /\ DOMAIN p = 1 .. Len(p)
      /\ Len(t) \in Nat
  BY LenProperties DEF Path
<1> DEFINE c == p \o t
<1>2. /\ c \in Path /\ Len(c) = Len(p) + Len(t)
      /\ \A i \in 1 .. Len(p) + Len(t) :
           c[i] = IF i <= Len(p) THEN p[i] ELSE t[i - Len(p)]
  BY ConcatProperties DEF Path
<1> HIDE DEF c
<1>3. DOMAIN c = 1 .. Len(p) + Len(t)
  BY <1>2, LenProperties DEF Path
<1>4. \A i \in 1 .. Len(p) : i \in 1 .. Len(c) /\ c[i] = p[i]
  BY <1>1, <1>2
<1>5. \A i \in DOMAIN c : i \notin 1 .. Len(p) => c[i] \notin Index
  <2>1. TAKE i \in DOMAIN c
  <2>2. HAVE i \notin 1 .. Len(p)
  <2>3. c[i] = t[i - Len(p)] /\ i - Len(p) \in 1 .. Len(t)
    BY <1>1, <1>2, <1>3, <2>1, <2>2
  <2> QED
    BY <2>3
<1>6. IsPrefix(p, c)
  <2>1. Len(p) <= Len(c) /\ \A i \in 1 .. Len(p) : p[i] = c[i]
    BY <1>1, <1>2, <1>4
  <2> QED
    BY <1>2, <2>1, PrefixParts
<1>7. \A k \in 1 .. Len(p) : SubSeq(c, 1, k) = SubSeq(p, 1, k)
  <2> TAKE k \in 1 .. Len(p)
  <2>1. k \in 0 .. Len(p) /\ k \in 0 .. Len(c) /\ \A j \in 1 .. k : j \in 1 .. Len(p)
    BY <1>1, <1>2
  <2> DEFINE u == SubSeq(c, 1, k)
             v == SubSeq(p, 1, k)
  <2>2. /\ u \in Path /\ Len(u) = k /\ \A j \in 1 .. k : u[j] = c[j]
    BY <1>2, <2>1, Starts
  <2>3. /\ v \in Path /\ Len(v) = k /\ \A j \in 1 .. k : v[j] = p[j]
    BY <2>1, Starts
  <2> HIDE DEF u, v
  <2>4. \A j \in 1 .. Len(u) : u[j] = v[j]
    BY <1>4, <2>1, <2>2, <2>3
  <2>5. u = v
    BY <2>2, <2>3, <2>4, SeqEqual DEF Path
  <2> QED
    BY <2>5 DEF u, v
<1>8. {j \in DOMAIN c : c[j] \in Index} = {j \in DOMAIN p : p[j] \in Index}
  <2>1. \A j : j \in DOMAIN p => j \in DOMAIN c
    BY <1>1, <1>3
  <2> QED
    BY <1>1, <1>4, <1>5, <2>1
<1>9. Through(c) = Through(p)
  BY <1>1, <1>7, <1>8 DEF Through
<1> QED
  BY <1>2, <1>6, <1>9 DEF c

\* An index leads through one instance more, which is the path itself.
LEMMA ThroughAppend ==
  ASSUME NEW p \in Path, NEW i \in Index
  PROVE  /\ Append(p, i) \in Path
         /\ Len(Append(p, i)) = Len(p) + 1
         /\ Through(Append(p, i)) = Through(p) \cup {Append(p, i)}
<1>1. /\ Len(p) \in Nat /\ DOMAIN p = 1 .. Len(p) /\ i \in Part
  BY LenProperties, IndexAssumption DEF Path, Part
<1> DEFINE c == Append(p, i)
<1>2. /\ c \in Path /\ Len(c) = Len(p) + 1
      /\ \A j \in 1 .. Len(p) : c[j] = p[j]
      /\ c[Len(p) + 1] = i
  <2>1. \A S : \A q \in Seq(S), e \in S :
          /\ Append(q, e) \in Seq(S)
          /\ Len(Append(q, e)) = Len(q) + 1
          /\ \A j \in 1 .. Len(q) : Append(q, e)[j] = q[j]
          /\ Append(q, e)[Len(q) + 1] = e
    BY AppendProperties
  <2> QED
    BY <1>1, <2>1 DEF Path
<1>3. SubSeq(c, 1, Len(c)) = c
  BY <1>2, SubSeqFull DEF Path
<1> HIDE DEF c
<1>4. DOMAIN c = 1 .. Len(p) + 1
  BY <1>2, LenProperties DEF Path
<1>5. \A k \in 1 .. Len(p) : SubSeq(c, 1, k) = SubSeq(p, 1, k)
  <2> TAKE k \in 1 .. Len(p)
  <2>1. k \in 0 .. Len(p) /\ k \in 0 .. Len(c) /\ \A j \in 1 .. k : j \in 1 .. Len(p)
    BY <1>1, <1>2
  <2> DEFINE u == SubSeq(c, 1, k)
             v == SubSeq(p, 1, k)
  <2>2. /\ u \in Path /\ Len(u) = k /\ \A j \in 1 .. k : u[j] = c[j]
    BY <1>2, <2>1, Starts
  <2>3. /\ v \in Path /\ Len(v) = k /\ \A j \in 1 .. k : v[j] = p[j]
    BY <2>1, Starts
  <2> HIDE DEF u, v
  <2>4. \A j \in 1 .. Len(u) : u[j] = v[j]
    BY <1>2, <2>1, <2>2, <2>3
  <2>5. u = v
    BY <2>2, <2>3, <2>4, SeqEqual DEF Path
  <2> QED
    BY <2>5 DEF u, v
<1>6. {j \in DOMAIN c : c[j] \in Index} = {j \in DOMAIN p : p[j] \in Index} \cup {Len(c)}
  <2>1. \A j \in DOMAIN c : j \in DOMAIN p \/ j = Len(c)
    BY <1>1, <1>2, <1>4
  <2>2. \A j \in DOMAIN p : j \in DOMAIN c /\ c[j] = p[j]
    BY <1>1, <1>2, <1>4
  <2>3. Len(c) \in DOMAIN c /\ c[Len(c)] \in Index
    BY <1>1, <1>2, <1>4
  <2> QED
    BY <2>1, <2>2, <2>3
<1>7. Through(c) = Through(p) \cup {c}
  BY <1>1, <1>3, <1>5, <1>6 DEF Through
<1> QED
  BY <1>2, <1>7 DEF c

LEMMA AppendParts ==
  ASSUME NEW p \in Path, NEW i \in Index
  PROVE  /\ \A k \in 1 .. Len(p) : Append(p, i)[k] = p[k]
         /\ Append(p, i)[Len(p) + 1] = i
<1>1. i \in Part
  BY IndexAssumption DEF Part
<1> QED
  BY <1>1, AppendProperties DEF Path
-----------------------------------------------------------------------------
(***************************************************************************)
(* The table of dm_info.c.                                                 *)
(***************************************************************************)

\* A few parts in a row are a path.
LEMMA OnePart ==
  ASSUME NEW a \in Part
  PROVE  <<a>> \in Path /\ Len(<<a>>) = 1
BY DEF Path

LEMMA TwoParts ==
  ASSUME NEW a \in Part, NEW b \in Part
  PROVE  <<a, b>> \in Path /\ Len(<<a, b>>) = 2
BY DEF Path

LEMMA ThreeParts ==
  ASSUME NEW a \in Part, NEW b \in Part, NEW c \in Part
  PROVE  <<a, b, c>> \in Path /\ Len(<<a, b, c>>) = 3
BY DEF Path

LEMMA FourParts ==
  ASSUME NEW a \in Part, NEW b \in Part, NEW c \in Part, NEW d \in Part
  PROVE  <<a, b, c, d>> \in Path /\ Len(<<a, b, c, d>>) = 4
<1>1. <<a, b, c, d>> = Append(<<a, b, c>>, d)
  OBVIOUS
<1>2. <<a, b, c>> \in Path /\ Len(<<a, b, c>>) = 3
  BY ThreeParts
<1>3. Append(<<a, b, c>>, d) \in Path
  BY <1>2, AppendProperties DEF Path
<1> QED
  BY <1>1, <1>3

LEMMA Literals ==
  /\ "XPON" \in Part /\ "ONU" \in Part /\ "x" \in Part /\ "SoftwareImage" \in Part
  /\ "EthernetUNI" \in Part /\ "ANI" \in Part /\ "TC" \in Part /\ "GEM" \in Part
  /\ "Port" \in Part /\ "Transceiver" \in Part /\ "ONUActivation" \in Part
  /\ "Authentication" \in Part /\ "PerformanceThresholds" \in Part /\ "Alarms" \in Part
BY DEF Part

LEMMA Joined ==
  ASSUME NEW p \in Path, NEW q \in Path
  PROVE  p \o q \in Path /\ Len(p \o q) = Len(p) + Len(q)
BY ConcatProperties DEF Path

\* The parts of the generic paths.
LEMMA OnuPath ==
  LET g == OBJECT_INFO["onu"].path IN
  g \in Path /\ Len(g) = 2 /\ g[1] = "XPON" /\ g[2] = "ONU"
<1>1. OBJECT_INFO["onu"].path = <<"XPON", "ONU">>
  BY DEF OBJECT_INFO, Info
<1>2. <<"XPON", "ONU">> \in Path /\ Len(<<"XPON", "ONU">>) = 2
  BY TwoParts, Literals
<1> QED
  BY <1>1, <1>2

\* The templates right below an ONU.
LEMMA OnuChildPath ==
  \A n \in Part :
    LET g == <<"XPON", "ONU", "x", n>> IN
    /\ g \in Path /\ Len(g) = 4
    /\ g[1] = "XPON" /\ g[2] = "ONU" /\ g[3] = "x" /\ g[4] = n
BY FourParts, Literals

\* What is below an ANI.
LEMMA BelowAni ==
  ASSUME NEW t \in Path
  PROVE  LET g == AniPath \o t IN
         /\ g \in Path /\ Len(g) = 4 + Len(t)
         /\ g[1] = "XPON" /\ g[2] = "ONU" /\ g[3] = "x" /\ g[4] = "ANI"
         /\ \A k \in 1 .. Len(t) : g[4 + k] = t[k]
<1> DEFINE a == AniPath
           g == a \o t
<1>1. /\ a \in Path /\ Len(a) = 4
      /\ a[1] = "XPON" /\ a[2] = "ONU" /\ a[3] = "x" /\ a[4] = "ANI"
  BY OnuChildPath, Literals DEF AniPath
<1> HIDE DEF a
<1>2. /\ a \o t \in Path /\ Len(a \o t) = Len(a) + Len(t)
      /\ \A k \in 1 .. Len(a) + Len(t) :
           (a \o t)[k] = IF k <= Len(a) THEN a[k] ELSE t[k - Len(a)]
  BY <1>1, ConcatProperties DEF Path
<1> HIDE DEF g
<1>3. /\ Len(t) \in Nat
      /\ g \in Path /\ Len(g) = 4 + Len(t)
      /\ \A k \in 1 .. 4 + Len(t) : g[k] = IF k <= 4 THEN a[k] ELSE t[k - 4]
  BY <1>1, <1>2, LenProperties DEF g, Path
<1>4. \A k \in 1 .. 4 : k \in 1 .. 4 + Len(t) /\ g[k] = a[k]
  BY <1>3
<1>5. g[1] = a[1] /\ g[2] = a[2] /\ g[3] = a[3] /\ g[4] = a[4]
  BY <1>4
<1>6. \A k \in 1 .. Len(t) : g[4 + k] = t[k]
  BY <1>3
<1> QED
  BY <1>1, <1>3, <1>5, <1>6, Zenon DEF g, a

LEMMA TransceiverPath ==
  LET g == OBJECT_INFO["transceiver"].path IN
  /\ g \in Path /\ Len(g) = 6
  /\ g[1] = "XPON" /\ g[2] = "ONU" /\ g[3] = "x" /\ g[4] = "ANI"
  /\ g[5] = "x" /\ g[6] = "Transceiver"
<1> DEFINE t == <<"x", "Transceiver">>
           g == AniPath \o t
<1>1. t \in Path /\ Len(t) = 2 /\ t[1] = "x" /\ t[2] = "Transceiver"
  BY TwoParts, Literals
<1>2. OBJECT_INFO["transceiver"].path = g
  BY DEF OBJECT_INFO, Info
<1> HIDE DEF t
<1>3. /\ g \in Path /\ Len(g) = 4 + Len(t)
      /\ g[1] = "XPON" /\ g[2] = "ONU" /\ g[3] = "x" /\ g[4] = "ANI"
      /\ \A k \in 1 .. Len(t) : g[4 + k] = t[k]
  BY <1>1, BelowAni, Zenon
<1> HIDE DEF g
<1>4. g[4 + 1] = t[1] /\ g[4 + 2] = t[2]
  BY <1>1, <1>3
<1>5. g[5] = t[1] /\ g[6] = t[2] /\ Len(g) = 6
  BY <1>1, <1>3, <1>4
<1> QED
  BY <1>1, <1>2, <1>3, <1>5, Zenon

\* The objects of the TC of an ANI.
LEMMA TcPath ==
  ASSUME NEW n \in Part
  PROVE  LET g == Tc(n) IN
         /\ g \in Path /\ Len(g) = 7
         /\ g[1] = "XPON" /\ g[2] = "ONU" /\ g[3] = "x" /\ g[4] = "ANI"
         /\ g[5] = "x" /\ g[6] = "TC" /\ g[7] = n
<1> DEFINE t == <<"x", "TC", n>>
           g == AniPath \o t
<1>1. t \in Path /\ Len(t) = 3 /\ t[1] = "x" /\ t[2] = "TC" /\ t[3] = n
  BY ThreeParts, Literals
<1>2. Tc(n) = g
  BY DEF Tc
<1> HIDE DEF t
<1>3. /\ g \in Path /\ Len(g) = 4 + Len(t)
      /\ g[1] = "XPON" /\ g[2] = "ONU" /\ g[3] = "x" /\ g[4] = "ANI"
      /\ \A k \in 1 .. Len(t) : g[4 + k] = t[k]
  BY <1>1, BelowAni, Zenon
<1> HIDE DEF g
<1>4. g[4 + 1] = t[1] /\ g[4 + 2] = t[2] /\ g[4 + 3] = t[3]
  BY <1>1, <1>3
<1>5. g[5] = t[1] /\ g[6] = t[2] /\ g[7] = t[3] /\ Len(g) = 7
  BY <1>1, <1>3, <1>4
<1> QED
  BY <1>1, <1>2, <1>3, <1>5, Zenon

LEMMA GemPortPath ==
  LET g == OBJECT_INFO["gem_port"].path IN
  /\ g \in Path /\ Len(g) = 8
  /\ g[1] = "XPON" /\ g[2] = "ONU" /\ g[3] = "x" /\ g[4] = "ANI"
  /\ g[5] = "x" /\ g[6] = "TC" /\ g[7] = "GEM" /\ g[8] = "Port"
<1> DEFINE b == Tc("GEM")
           t == <<"Port">>
           g == b \o t
<1>1. t \in Path /\ Len(t) = 1 /\ t[1] = "Port"
  BY OnePart, Literals
<1>2. OBJECT_INFO["gem_port"].path = g
  BY DEF OBJECT_INFO, Info
<1>3. /\ b \in Path /\ Len(b) = 7
      /\ b[1] = "XPON" /\ b[2] = "ONU" /\ b[3] = "x" /\ b[4] = "ANI"
      /\ b[5] = "x" /\ b[6] = "TC" /\ b[7] = "GEM"
  BY TcPath, Literals
<1> HIDE DEF b, t
<1>4. /\ g \in Path /\ Len(g) = Len(b) + Len(t)
      /\ \A k \in 1 .. Len(b) + Len(t) : g[k] = IF k <= Len(b) THEN b[k] ELSE t[k - Len(b)]
  BY <1>1, <1>3, ConcatProperties DEF Path
<1> HIDE DEF g
<1>5. /\ Len(g) = 8
      /\ \A k \in 1 .. 8 : g[k] = IF k <= 7 THEN b[k] ELSE t[k - 7]
  BY <1>1, <1>3, <1>4
<1>6. /\ g[1] = b[1] /\ g[2] = b[2] /\ g[3] = b[3] /\ g[4] = b[4]
      /\ g[5] = b[5] /\ g[6] = b[6] /\ g[7] = b[7] /\ g[8] = t[1]
  BY <1>5
<1> QED
  BY <1>1, <1>2, <1>3, <1>4, <1>5, <1>6, Zenon

\* What sets the objects of the table apart: how deep they are, and the name
\* at the place where two that are as deep differ.
LEMMA PathTable ==
  ASSUME NEW id \in object_id
  PROVE  LET g == OBJECT_INFO[id].path IN
  /\ g \in Path
  /\ g[1] = "XPON" /\ g[2] = "ONU"
  /\ \/ id = "onu" /\ Len(g) = 2
     \/ /\ Len(g) = 4 /\ g[3] = "x"
        /\ \/ id = "software_image" /\ g[4] = "SoftwareImage"
           \/ id = "ethernet_uni" /\ g[4] = "EthernetUNI"
           \/ id = "ani" /\ g[4] = "ANI"
     \/ /\ g[3] = "x" /\ g[4] = "ANI" /\ g[5] = "x"
        /\ \/ id = "transceiver" /\ Len(g) = 6 /\ g[6] = "Transceiver"
           \/ id = "gem_port" /\ Len(g) = 8 /\ g[6] = "TC" /\ g[7] = "GEM" /\ g[8] = "Port"
           \/ /\ Len(g) = 7 /\ g[6] = "TC"
              /\ \/ id = "ani_tc_onu_activation" /\ g[7] = "ONUActivation"
                 \/ id = "ani_tc_authentication" /\ g[7] = "Authentication"
                 \/ id = "ani_tc_performance_thresholds" /\ g[7] = "PerformanceThresholds"
                 \/ id = "ani_tc_alarms" /\ g[7] = "Alarms"
<1> DEFINE g == OBJECT_INFO[id].path
<1>1. id \in {"onu", "software_image", "ethernet_uni", "ani", "gem_port", "transceiver",
              "ani_tc_onu_activation", "ani_tc_authentication",
              "ani_tc_performance_thresholds", "ani_tc_alarms"}
  BY DEF object_id, OBJECT_INFO
<1>2. CASE id = "onu"
  BY <1>2, OnuPath
<1>3. CASE id \in {"software_image", "ethernet_uni", "ani"}
  <2>1. PICK n \in Part : /\ g = <<"XPON", "ONU", "x", n>>
                          /\ \/ id = "software_image" /\ n = "SoftwareImage"
                             \/ id = "ethernet_uni" /\ n = "EthernetUNI"
                             \/ id = "ani" /\ n = "ANI"
    <3>1. /\ id = "software_image" => g = <<"XPON", "ONU", "x", "SoftwareImage">>
          /\ id = "ethernet_uni" => g = <<"XPON", "ONU", "x", "EthernetUNI">>
          /\ id = "ani" => g = <<"XPON", "ONU", "x", "ANI">>
      BY DEF OBJECT_INFO, Info, AniPath
    <3> HIDE DEF g
    <3> QED
      BY <1>3, <3>1, Literals, Zenon
  <2> HIDE DEF g
  <2>2. /\ g \in Path /\ Len(g) = 4
        /\ g[1] = "XPON" /\ g[2] = "ONU" /\ g[3] = "x" /\ g[4] = n
    BY <2>1, OnuChildPath, Zenon
  <2> QED
    BY <2>1, <2>2, Zenon DEF g
<1>4. CASE id = "gem_port"
  BY <1>4, GemPortPath, Zenon
<1>5. CASE id = "transceiver"
  BY <1>5, TransceiverPath, Zenon
<1>6. CASE id \in {"ani_tc_onu_activation", "ani_tc_authentication",
                   "ani_tc_performance_thresholds", "ani_tc_alarms"}
  <2>1. PICK n \in Part : /\ g = Tc(n)
                          /\ \/ id = "ani_tc_onu_activation" /\ n = "ONUActivation"
                             \/ id = "ani_tc_authentication" /\ n = "Authentication"
                             \/ /\ id = "ani_tc_performance_thresholds"
                                /\ n = "PerformanceThresholds"
                             \/ id = "ani_tc_alarms" /\ n = "Alarms"
    <3>1. /\ id = "ani_tc_onu_activation" => g = Tc("ONUActivation")
          /\ id = "ani_tc_authentication" => g = Tc("Authentication")
          /\ id = "ani_tc_performance_thresholds" => g = Tc("PerformanceThresholds")
          /\ id = "ani_tc_alarms" => g = Tc("Alarms")
      BY DEF OBJECT_INFO, Info
    <3> HIDE DEF g
    <3> QED
      BY <1>6, <3>1, Literals, Zenon
  <2> HIDE DEF g
  <2>2. /\ g \in Path /\ Len(g) = 7
        /\ g[1] = "XPON" /\ g[2] = "ONU" /\ g[3] = "x" /\ g[4] = "ANI"
        /\ g[5] = "x" /\ g[6] = "TC" /\ g[7] = n
    BY <2>1, TcPath, Zenon
  <2> QED
    BY <2>1, <2>2, Zenon DEF g
<1> QED
  BY <1>1, <1>2, <1>3, <1>4, <1>5, <1>6

\* Two objects of the table have different generic paths.
LEMMA PathsDiffer ==
  ASSUME NEW id \in object_id, NEW jd \in object_id,
         OBJECT_INFO[id].path = OBJECT_INFO[jd].path
  PROVE  id = jd
<1> DEFINE g == OBJECT_INFO[id].path
           h == OBJECT_INFO[jd].path
           P(i, p) ==
             \/ i = "onu" /\ Len(p) = 2
             \/ /\ Len(p) = 4
                /\ \/ i = "software_image" /\ p[4] = "SoftwareImage"
                   \/ i = "ethernet_uni" /\ p[4] = "EthernetUNI"
                   \/ i = "ani" /\ p[4] = "ANI"
             \/ i = "transceiver" /\ Len(p) = 6
             \/ i = "gem_port" /\ Len(p) = 8
             \/ /\ Len(p) = 7
                /\ \/ i = "ani_tc_onu_activation" /\ p[7] = "ONUActivation"
                   \/ i = "ani_tc_authentication" /\ p[7] = "Authentication"
                   \/ i = "ani_tc_performance_thresholds" /\ p[7] = "PerformanceThresholds"
                   \/ i = "ani_tc_alarms" /\ p[7] = "Alarms"
<1>1. P(id, g)
  BY PathTable, Zenon
<1>2. P(jd, h)
  BY PathTable, Zenon
<1>3. g = h
  OBVIOUS
<1> HIDE DEF g, h
<1>4. P(jd, g)
  BY <1>2, <1>3, Zenon
<1> QED
  BY <1>1, <1>4

LEMMA PathEnds ==
  ASSUME NEW id \in object_id
  PROVE  LET g == OBJECT_INFO[id].path IN
         /\ g \in Path /\ Len(g) \in 2 .. 8
         /\ g[Len(g)] # "x"
         /\ \A k \in 1 .. Len(g) : g[k] \notin Numeric
<1> DEFINE g == OBJECT_INFO[id].path
<1>1. g \in Path /\ Len(g) \in 2 .. 8 /\ g[Len(g)] # "x"
  <2>1. /\ g \in Path
        /\ \/ Len(g) = 2 /\ g[2] = "ONU"
           \/ Len(g) = 4 /\ g[4] \in {"SoftwareImage", "EthernetUNI", "ANI"}
           \/ Len(g) = 6 /\ g[6] = "Transceiver"
           \/ Len(g) = 8 /\ g[8] = "Port"
           \/ Len(g) = 7 /\ g[7] \in {"ONUActivation", "Authentication",
                                      "PerformanceThresholds", "Alarms"}
    BY PathTable
  <2> HIDE DEF g
  <2>2. g[Len(g)] # "x"
    BY <2>1
  <2> QED
    BY <2>1, <2>2
<1>2. \A k \in 1 .. Len(g) : g[k] \in ToSet(g)
  <2>1. DOMAIN g = 1 .. Len(g)
    BY <1>1, LenProperties DEF Path
  <2> QED
    BY <2>1 DEF ToSet
<1>3. ToSet(g) \cap Numeric = {}
  BY IndexAssumption
<1> QED
  BY <1>1, <1>2, <1>3

\* The numbers of a path become "x", all else stays.
LEMMA GeneralisedParts ==
  ASSUME NEW p \in Path
  PROVE  /\ Generalised(p) \in Path /\ Len(Generalised(p)) = Len(p)
         /\ \A k \in 1 .. Len(p) :
              Generalised(p)[k] = IF p[k] \in Numeric THEN "x" ELSE p[k]
<1>1. /\ Len(p) \in Nat /\ DOMAIN p = 1 .. Len(p)
      /\ \A k \in 1 .. Len(p) : p[k] \in Part
  BY LenProperties, ElementOfSeq DEF Path
<1>2. Generalised(p) \in [1 .. Len(p) -> Part]
  BY <1>1, Literals DEF Generalised
<1>3. \A k \in 1 .. Len(p) : Generalised(p)[k] = IF p[k] \in Numeric THEN "x" ELSE p[k]
  BY <1>1 DEF Generalised
<1> QED
  BY <1>1, <1>2, <1>3 DEF Path

\* All but the last part of a path.
LEMMA FrontFacts ==
  ASSUME NEW p \in Path, p # <<>>
  PROVE  /\ Len(p) \in Nat /\ Len(p) >= 1
         /\ Front(p) \in Path /\ Len(Front(p)) = Len(p) - 1
         /\ \A k \in 1 .. Len(p) - 1 : Front(p)[k] = p[k]
         /\ p = Append(Front(p), p[Len(p)])
<1>1. Len(p) \in Nat /\ Len(p) >= 1 /\ \A k \in 1 .. Len(p) : p[k] \in Part
  BY LenProperties, EmptySeq, ElementOfSeq DEF Path
<1>2. Len(p) - 1 \in 0 .. Len(p)
  BY <1>1
<1> DEFINE f == SubSeq(p, 1, Len(p) - 1)
           e == p[Len(p)]
           c == Append(f, e)
<1>3. f \in Path /\ Len(f) = Len(p) - 1 /\ \A k \in 1 .. Len(p) - 1 : f[k] = p[k]
  BY <1>2, Starts
<1>4. Front(p) = f
  BY DEF Front
<1> HIDE DEF f
<1>5. e \in Part
  BY <1>1
<1> HIDE DEF e
<1>6. /\ c \in Path /\ Len(c) = Len(f) + 1
      /\ \A j \in 1 .. Len(f) : c[j] = f[j]
      /\ c[Len(f) + 1] = e
  BY <1>3, <1>5, AppendProperties DEF Path
<1> HIDE DEF c
<1>7. Len(c) = Len(p)
  BY <1>1, <1>3, <1>6
<1>8. \A j \in 1 .. Len(p) : c[j] = p[j]
  <2>1. TAKE j \in 1 .. Len(p)
  <2>2. CASE j = Len(p)
    <3>1. Len(f) + 1 = Len(p)
      BY <1>1, <1>3
    <3> QED
      BY <1>6, <2>2, <3>1, Zenon DEF e
  <2>3. CASE j # Len(p)
    <3>1. j \in 1 .. Len(p) - 1 /\ j \in 1 .. Len(f)
      BY <1>1, <1>3, <2>1, <2>3
    <3> QED
      BY <1>3, <1>6, <3>1, Zenon
  <2> QED
    BY <2>2, <2>3
<1>9. c = p
  BY <1>6, <1>7, <1>8, SeqEqual DEF Path
<1> QED
  BY <1>1, <1>3, <1>4, <1>9, Zenon DEF c, e

\* The parts of p are those of g, a number or an "x" where g has an "x".
Matches(p, g) ==
  /\ Len(p) = Len(g)
  /\ \A k \in DOMAIN g :
       IF g[k] = "x" THEN p[k] \in Numeric \cup {"x"} ELSE p[k] = g[k]

LEMMA GenericMatches ==
  ASSUME NEW p \in Path, NEW id \in object_id
  PROVE  Generalised(p) = OBJECT_INFO[id].path <=> Matches(p, OBJECT_INFO[id].path)
<1> DEFINE g == OBJECT_INFO[id].path
           q == Generalised(p)
<1>1. g \in Path /\ \A k \in 1 .. Len(g) : g[k] \notin Numeric
  BY PathEnds, Zenon
<1>2. /\ q \in Path /\ Len(q) = Len(p)
      /\ \A k \in 1 .. Len(p) : q[k] = IF p[k] \in Numeric THEN "x" ELSE p[k]
  BY GeneralisedParts
<1> HIDE DEF g, q
<1>3. DOMAIN g = 1 .. Len(g)
  BY <1>1, LenProperties DEF Path
<1>4. ASSUME q = g PROVE Matches(p, g)
  BY <1>1, <1>2, <1>3, <1>4 DEF Matches
<1>5. ASSUME Matches(p, g) PROVE q = g
  <2>1. Len(q) = Len(g)
    BY <1>2, <1>5 DEF Matches
  <2>2. \A k \in 1 .. Len(q) : q[k] = g[k]
    BY <1>1, <1>2, <1>3, <1>5 DEF Matches
  <2> QED
    BY <1>1, <1>2, <2>1, <2>2, SeqEqual DEF Path
<1> QED
  BY <1>4, <1>5 DEF g, q

\* The object found is the one whose generic path the text leads to.
LEMMA IdByPath ==
  ASSUME NEW p, NEW id \in object_id
  PROVE  dm_get_object_id(p) = id <=>
           p # <<>> /\ dm_convert_to_generic_path(p) = OBJECT_INFO[id].path
<1> DEFINE generic == dm_convert_to_generic_path(p)
           ids == {jd \in object_id : OBJECT_INFO[jd].path = generic}
<1>1. id # Unknown
  BY DEF object_id, OBJECT_INFO, Unknown
<1>2. dm_get_object_id(p) =
        IF p = <<>> \/ ids = {} THEN Unknown ELSE CHOOSE jd \in ids : TRUE
  BY DEF dm_get_object_id
<1>3. ids # {} => (CHOOSE jd \in ids : TRUE) \in ids
  <2> HIDE DEF ids
  <2> QED OBVIOUS
<1>4. ASSUME dm_get_object_id(p) = id PROVE p # <<>> /\ generic = OBJECT_INFO[id].path
  <2>1. p # <<>> /\ ids # {} /\ id = CHOOSE jd \in ids : TRUE
    BY <1>1, <1>2, <1>4, Zenon
  <2> QED
    BY <1>3, <2>1, Zenon
<1>5. ASSUME p # <<>>, generic = OBJECT_INFO[id].path PROVE dm_get_object_id(p) = id
  <2>1. id \in ids
    BY <1>5
  <2>2. \A jd \in ids : jd = id
    <3> TAKE jd \in ids
    <3>1. jd \in object_id /\ OBJECT_INFO[jd].path = OBJECT_INFO[id].path
      BY <1>5, Zenon
    <3> QED
      BY <3>1, PathsDiffer, Zenon
  <2> QED
    BY <1>2, <1>3, <1>5, <2>1, <2>2, Zenon
<1> QED
  BY <1>4, <1>5, Zenon

\* An index at the end is dropped before the path is compared.
LEMMA IdByParts ==
  ASSUME NEW p \in Path, p # <<>>, NEW id \in object_id
  PROVE  dm_get_object_id(p) = id <=>
           Matches(IF p[Len(p)] \in Numeric THEN Front(p) ELSE p, OBJECT_INFO[id].path)
<1> DEFINE q == IF p[Len(p)] \in Numeric THEN Front(p) ELSE p
<1>1. q \in Path
  BY FrontFacts
<1>2. dm_convert_to_generic_path(p) = Generalised(q)
  BY DEF dm_convert_to_generic_path
<1> HIDE DEF q
<1>3. Generalised(q) = OBJECT_INFO[id].path <=> Matches(q, OBJECT_INFO[id].path)
  BY <1>1, GenericMatches
<1> QED
  BY <1>2, <1>3, IdByPath, Zenon DEF q

LEMMA IdsDenoted ==
  ASSUME NEW p \in Path, NEW id \in object_id
  PROVE  dm_get_object_id(p) = id <=> Denotes(p, id)
<1> DEFINE g == OBJECT_INFO[id].path
<1>1. /\ g \in Path /\ Len(g) \in 2 .. 8 /\ g[Len(g)] # "x"
      /\ \A k \in 1 .. Len(g) : g[k] \notin Numeric
  BY PathEnds, Zenon
<1>2. DOMAIN g = 1 .. Len(g)
  BY <1>1, LenProperties DEF Path
<1>3. Denotes(p, id) <=>
        Matches(p, g) \/ \E i \in Numeric : p = Append(Front(p), i) /\ Matches(Front(p), g)
  BY DEF Denotes, Matches
<1> HIDE DEF g
<1>4. \A q \in Path : Matches(q, g) => Len(q) >= 2 /\ q[Len(q)] \notin Numeric
  BY <1>1, <1>2 DEF Matches
<1>5. CASE p = <<>>
  <2>1. dm_get_object_id(p) # id
    BY <1>5, IdByPath, Zenon
  <2>2. ~Matches(p, g)
    BY <1>1, <1>5 DEF Matches
  <2>3. \A i \in Numeric : p # Append(Front(p), i)
    <3>1. Front(p) \in Path
      BY <1>5, SubSeqProperties, EmptySeq DEF Front, Path
    <3>2. \A i : Len(Append(Front(p), i)) = Len(Front(p)) + 1 /\ Len(Front(p)) \in Nat
      BY <3>1, LenProperties DEF Path
    <3>3. Len(p) = 0
      BY <1>5
    <3> QED
      BY <3>2, <3>3
  <2> QED
    BY <1>3, <2>1, <2>2, <2>3, Zenon
<1>6. CASE p # <<>>
  <2>1. /\ Front(p) \in Path /\ p = Append(Front(p), p[Len(p)])
    BY <1>6, FrontFacts
  <2>2. CASE p[Len(p)] \in Numeric
    <3>1. dm_get_object_id(p) = id <=> Matches(Front(p), g)
      BY <1>6, <2>2, IdByParts DEF g
    <3>2. ~Matches(p, g)
      BY <1>4, <2>2
    <3> QED
      BY <1>3, <2>1, <2>2, <3>1, <3>2, Zenon
  <2>3. CASE p[Len(p)] \notin Numeric
    <3>1. dm_get_object_id(p) = id <=> Matches(p, g)
      BY <1>6, <2>3, IdByParts DEF g
    <3>2. \A i \in Numeric : p # Append(Front(p), i)
      <4> TAKE i \in Numeric
      <4>1. SUFFICES ASSUME p = Append(Front(p), i) PROVE FALSE
        OBVIOUS
      <4>2. p[Len(p)] = i
        BY <2>1, <4>1 DEF Path
      <4> QED
        BY <2>3, <4>2
    <3> QED
      BY <1>3, <3>1, <3>2, Zenon
  <2> QED
    BY <2>2, <2>3
<1> QED
  BY <1>5, <1>6

LEMMA XIsNoNumber == "x" \notin Numeric
<1>1. OBJECT_INFO["ani"].path = <<"XPON", "ONU", "x", "ANI">> /\ "ani" \in object_id
  BY DEF OBJECT_INFO, Info, AniPath, object_id
<1>2. /\ OBJECT_INFO["ani"].path[3] \notin Numeric
      /\ Len(OBJECT_INFO["ani"].path) = 4
  <2>1. \A k \in 1 .. Len(OBJECT_INFO["ani"].path) : OBJECT_INFO["ani"].path[k] \notin Numeric
    BY <1>1, PathEnds, Zenon
  <2> QED
    BY <1>1, <2>1
<1> QED
  BY <1>1, <1>2

\* What is known of an object that is known.
LEMMA Known ==
  ASSUME NEW p \in Path, dm_get_object_id(p) # Unknown
  PROVE  /\ p # <<>> /\ dm_get_object_id(p) \in object_id
         /\ Len(p) \in 2 .. 9
         /\ Matches(IF p[Len(p)] \in Numeric THEN Front(p) ELSE p,
                    OBJECT_INFO[dm_get_object_id(p)].path)
         /\ p[Len(p)] \notin Numeric => Len(p) <= 8
<1> DEFINE ids == {d \in object_id : OBJECT_INFO[d].path = dm_convert_to_generic_path(p)}
           id == dm_get_object_id(p)
<1>1. p # <<>> /\ id \in object_id
  <2>1. p # <<>> /\ ids # {} /\ id = CHOOSE d \in ids : TRUE
    BY DEF dm_get_object_id
  <2>2. ids # {} => (CHOOSE d \in ids : TRUE) \in ids
    <3> HIDE DEF ids
    <3> QED OBVIOUS
  <2>3. id \in ids
    BY <2>1, <2>2, Zenon
  <2> QED
    BY <2>1, <2>3, Zenon
<1>2. Matches(IF p[Len(p)] \in Numeric THEN Front(p) ELSE p, OBJECT_INFO[id].path)
  BY <1>1, IdByParts
<1>3. Len(OBJECT_INFO[id].path) \in 2 .. 8
  BY <1>1, PathEnds, Zenon
<1>4. /\ Len(p) \in Nat /\ Len(Front(p)) = Len(p) - 1
  BY <1>1, FrontFacts
<1> DEFINE n == Len(p)
<1>5. CASE p[Len(p)] \in Numeric
  <2>1. Len(p) - 1 \in 2 .. 8
    BY <1>2, <1>3, <1>4, <1>5 DEF Matches
  <2>2. n \in 2 .. 9
    <3>1. n \in Nat /\ n - 1 \in 2 .. 8
      BY <1>4, <2>1
    <3> HIDE DEF n
    <3> QED
      BY <3>1
  <2> QED
    BY <1>1, <1>2, <1>5, <2>2, Zenon
<1>6. CASE p[Len(p)] \notin Numeric
  <2>1. Len(p) \in 2 .. 8
    BY <1>2, <1>3, <1>6 DEF Matches
  <2>2. n \in 2 .. 9 /\ n <= 8
    <3>1. n \in 2 .. 8
      BY <2>1
    <3> HIDE DEF n
    <3> QED
      BY <3>1
  <2> QED
    BY <1>1, <1>2, <1>6, <2>2, Zenon
<1> QED
  BY <1>5, <1>6

\* An instance is the kind of object its template is, and no instance has
\* instances of its own.
LEMMA AppendedId ==
  ASSUME NEW p \in Path, p # <<>>, NEW i \in Index
  PROVE  /\ p[Len(p)] \in Numeric => dm_get_object_id(Append(p, i)) = Unknown
         /\ p[Len(p)] \notin Numeric =>
              \A id \in object_id :
                dm_get_object_id(Append(p, i)) = id <=> dm_get_object_id(p) = id
<1> DEFINE c == Append(p, i)
<1>1. /\ c \in Path /\ Len(c) = Len(p) + 1 /\ c # <<>>
      /\ c[Len(c)] = i /\ \A k \in 1 .. Len(p) : c[k] = p[k]
      /\ Len(p) \in Nat
  <2>1. Len(p) \in Nat /\ i \in Part
    BY LenProperties, IndexAssumption DEF Path, Part
  <2>2. /\ c \in Path /\ Len(c) = Len(p) + 1
        /\ c[Len(p) + 1] = i /\ \A k \in 1 .. Len(p) : c[k] = p[k]
    BY <2>1, AppendProperties DEF Path
  <2> HIDE DEF c
  <2>3. c # <<>>
    BY <2>1, <2>2
  <2> QED
    BY <2>1, <2>2, <2>3
<1> HIDE DEF c
<1>2. Front(c) = p
  <2>1. /\ Front(c) \in Path /\ Len(Front(c)) = Len(c) - 1
        /\ \A k \in 1 .. Len(c) - 1 : Front(c)[k] = c[k]
    BY <1>1, FrontFacts
  <2>2. Len(c) - 1 = Len(p)
    BY <1>1
  <2>3. Len(Front(c)) = Len(p) /\ \A k \in 1 .. Len(p) : Front(c)[k] = p[k]
    BY <1>1, <2>1, <2>2
  <2> QED
    BY <2>1, <2>3, SeqEqual DEF Path
<1>3. c[Len(c)] \in Numeric
  BY <1>1 DEF Numeric
<1>4. \A id \in object_id : dm_get_object_id(c) = id <=> Matches(p, OBJECT_INFO[id].path)
  BY <1>1, <1>2, <1>3, IdByParts
<1>5. ASSUME p[Len(p)] \in Numeric PROVE dm_get_object_id(c) = Unknown
  <2>1. SUFFICES ASSUME dm_get_object_id(c) # Unknown PROVE FALSE
    OBVIOUS
  <2>2. PICK id \in object_id : dm_get_object_id(c) = id
    BY <1>1, <2>1, Known
  <2> DEFINE g == OBJECT_INFO[id].path
  <2>3. Matches(p, g)
    BY <1>4, <2>2
  <2>4. /\ g \in Path /\ Len(g) \in 2 .. 8 /\ g[Len(g)] # "x"
        /\ \A k \in 1 .. Len(g) : g[k] \notin Numeric
    BY PathEnds, Zenon
  <2> HIDE DEF g
  <2>5. DOMAIN g = 1 .. Len(g)
    BY <2>4, LenProperties DEF Path
  <2>6. Len(p) = Len(g) /\ p[Len(g)] = g[Len(g)] /\ g[Len(g)] \notin Numeric
    BY <2>3, <2>4, <2>5 DEF Matches
  <2> QED
    BY <1>5, <2>6
<1>6. ASSUME p[Len(p)] \notin Numeric
      PROVE  \A id \in object_id : dm_get_object_id(c) = id <=> dm_get_object_id(p) = id
  BY <1>4, <1>6, IdByParts
<1> QED
  BY <1>5, <1>6 DEF c

\* The singletons that come with an instance.
LEMMA SinglesFacts ==
  ASSUME NEW p \in Path, NEW q \in Singles(p)
  PROVE  /\ q \in Path
         /\ Len(q) <= 8
         /\ IsPrefix(p, q)
         /\ Through(q) = Through(p)
         /\ Plain(p) => Plain(q)
         /\ q # <<>> /\ q[Len(q)] \notin Numeric
         /\ dm_get_object_id(q) \in object_id
         /\ OBJECT_INFO[dm_get_object_id(q)].key = NoKey
<1>1. PICK id \in object_id :
        LET g == OBJECT_INFO[id].path IN
        /\ OBJECT_INFO[id].key = NoKey
        /\ IsStrictPrefix(Generalised(p), g)
        /\ ~Contains(SubSeq(g, Len(p) + 1, Len(g)), "x")
        /\ q = p \o SubSeq(g, Len(p) + 1, Len(g))
  BY DEF Singles
<1> DEFINE g == OBJECT_INFO[id].path
           e == Generalised(p)
<1>2. /\ g \in Path /\ Len(g) \in 2 .. 8
      /\ \A k \in 1 .. Len(g) : g[k] \notin Numeric
  BY PathEnds, Zenon
<1>3. /\ e \in Path /\ Len(e) = Len(p)
      /\ \A k \in 1 .. Len(p) : e[k] = IF p[k] \in Numeric THEN "x" ELSE p[k]
  BY GeneralisedParts
<1>4. /\ IsPrefix(e, g) /\ e # g
      /\ ~Contains(SubSeq(g, Len(p) + 1, Len(g)), "x")
      /\ q = p \o SubSeq(g, Len(p) + 1, Len(g))
  BY <1>1 DEF IsStrictPrefix
<1> HIDE DEF g, e
<1>5. Len(p) \in Nat /\ DOMAIN g = 1 .. Len(g)
  BY <1>2, LenProperties DEF Path
<1>6. Len(p) < Len(g) /\ \A k \in 1 .. Len(p) : e[k] = g[k]
  <2>1. Len(e) <= Len(g) /\ \A k \in 1 .. Len(e) : e[k] = g[k]
    BY <1>2, <1>3, <1>4, PrefixParts
  <2>2. Len(e) # Len(g)
    BY <1>2, <1>3, <1>4, <2>1, SeqEqual DEF Path
  <2> QED
    BY <1>2, <1>3, <1>5, <2>1, <2>2
<1> DEFINE t == SubSeq(g, Len(p) + 1, Len(g))
           m == Len(p) + 1
<1>7. /\ t \in Path /\ Len(t) = Len(g) - Len(p)
      /\ \A k \in 1 .. Len(t) : /\ t[k] = g[Len(p) + k]
                                /\ Len(p) + k \in 1 .. Len(g)
                                /\ t[k] \notin Numeric
                                /\ t[k] # "x"
  <2>1. m \in Int /\ m >= 1 /\ m <= Len(g) + 1 /\ Len(g) \in Int
    BY <1>2, <1>5, <1>6
  <2> HIDE DEF m
  <2>2. \A k \in 1 .. Len(g) : g[k] \in Part
    BY <1>2, ElementOfSeq DEF Path
  <2>3. \A i \in m .. Len(g) : g[i] \in Part /\ g[i] \notin Numeric
    BY <1>2, <2>1, <2>2
  <2>4. /\ SubSeq(g, m, Len(g)) \in Seq(Part)
        /\ Len(SubSeq(g, m, Len(g))) = IF m <= Len(g) THEN Len(g) - m + 1 ELSE 0
        /\ \A i \in 1 .. Len(g) - m + 1 : SubSeq(g, m, Len(g))[i] = g[m + i - 1]
    BY <2>1, <2>3, SubSeqProperties
  <2>5. Len(SubSeq(g, m, Len(g))) = Len(g) - m + 1
    BY <2>1, <2>4
  <2>6. \A i \in 1 .. Len(g) - m + 1 : m + i - 1 \in m .. Len(g)
    BY <2>1
  <2>7. \A i \in 1 .. Len(g) - m + 1 : SubSeq(g, m, Len(g))[i] \notin Numeric
    BY <2>3, <2>4, <2>6
  <2>8. \A i \in 1 .. Len(g) - m + 1 :
          m + i - 1 = Len(p) + i /\ Len(p) + i \in 1 .. Len(g)
    BY <1>2, <1>5, <1>6 DEF m
  <2>9. t = SubSeq(g, m, Len(g))
    BY DEF m
  <2> HIDE DEF t
  <2>10. \A i \in 1 .. Len(t) : t[i] # "x"
    BY <1>4, <2>9 DEF Contains, m
  <2>11. Len(g) - m + 1 = Len(g) - Len(p)
    BY <1>2, <1>5 DEF m
  <2> QED
    BY <2>4, <2>5, <2>7, <2>8, <2>9, <2>10, <2>11 DEF Path
<1> HIDE DEF t, m
<1>8. q = p \o t
  BY <1>4 DEF t
<1>9. /\ p \o t \in Path /\ Len(p \o t) = Len(p) + Len(t)
      /\ IsPrefix(p, p \o t) /\ Through(p \o t) = Through(p)
  <2>1. \A k \in 1 .. Len(t) : t[k] \notin Index
    BY <1>7 DEF Numeric
  <2> QED
    BY <1>7, <2>1, ThroughConcat
<1>10. Len(q) = Len(g)
  BY <1>2, <1>5, <1>7, <1>8, <1>9
<1>11. /\ DOMAIN q = 1 .. Len(g)
       /\ \A k \in 1 .. Len(g) : q[k] = IF k <= Len(p) THEN p[k] ELSE t[k - Len(p)]
  <2>1. \A k \in 1 .. Len(p) + Len(t) :
          (p \o t)[k] = IF k <= Len(p) THEN p[k] ELSE t[k - Len(p)]
    BY <1>7, ConcatProperties DEF Path
  <2>2. Len(p) + Len(t) = Len(g)
    BY <1>2, <1>5, <1>7
  <2> QED
    BY <1>8, <1>9, <1>10, <2>1, <2>2, LenProperties DEF Path
<1>12. \A k \in 1 .. Len(g) :
         \/ k \in 1 .. Len(p) /\ q[k] = p[k]
         \/ k \notin 1 .. Len(p) /\ q[k] = g[k] /\ q[k] # "x" /\ q[k] \notin Numeric
  <2>1. TAKE k \in 1 .. Len(g)
  <2>2. CASE k <= Len(p)
    BY <1>5, <1>11, <2>1, <2>2
  <2>3. CASE ~(k <= Len(p))
    <3>1. k - Len(p) \in 1 .. Len(t) /\ Len(p) + (k - Len(p)) = k /\ k \notin 1 .. Len(p)
      BY <1>2, <1>5, <1>7, <2>1, <2>3
    <3>2. q[k] = t[k - Len(p)]
      BY <1>11, <2>1, <2>3, Zenon
    <3> QED
      BY <1>7, <3>1, <3>2, Zenon
  <2> QED
    BY <2>2, <2>3
<1>13. q # <<>> /\ q[Len(q)] \notin Numeric
  BY <1>2, <1>5, <1>6, <1>10, <1>12
<1>14. Matches(q, g)
  BY <1>3, <1>5, <1>6, <1>10, <1>12 DEF Matches
<1>15. dm_get_object_id(q) = id
  BY <1>8, <1>9, <1>13, <1>14, IdByParts DEF g
<1>16. Plain(p) => Plain(q)
  <2>1. DOMAIN p = 1 .. Len(p)
    BY LenProperties DEF Path
  <2> QED
    BY <1>11, <1>12, <2>1 DEF Plain, Numeric
<1>17. Len(q) <= 8
  BY <1>2, <1>10
<1> QED
  BY <1>1, <1>8, <1>9, <1>13, <1>15, <1>16, <1>17
-----------------------------------------------------------------------------
(***************************************************************************)
(* The calls.                                                              *)
(***************************************************************************)

LEMMA ArgsFacts ==
  ASSUME NEW K, NEW P, NEW a \in Args(K, P)
  PROVE  a.path \in Path /\ Target(a) \in Path
<1>1. PICK n \in Names : a.path = n[1] /\ a.index = n[2]
  BY DEF Args
<1>2. a.path \in Seq(STRING)
  BY <1>1, ValueAssumption
<1>3. a.path \in Path
  BY <1>2, SeqMonotonic DEF Path, Part
<1>4. a.index \in Index => Append(a.path, a.index) \in Path
  BY <1>3, ThroughAppend
<1> QED
  BY <1>3, <1>4 DEF Target

\* The objects of the data model have paths as the table allows them, and are
\* reached through instances that exist.
TreeOK ==
  \A p \in DOMAIN val :
    /\ p \in Path
    /\ Len(p) <= 9
    /\ Plain(p)
    /\ Through(p) \subseteq DOMAIN val

FunctionOK == val = [p \in DOMAIN val |-> val[p]]

\* What a removal in progress has left behind, and nothing when there is none.
RemovalOK ==
  /\ ~misled
  /\ ignore => pc = "removing"
  /\ pc = "removing" => ignore /\ removed \in DOMAIN val

\* What exists is found.
LEMMA ExistsThrough ==
  ASSUME NEW p
  PROVE  Exists(p) <=> Plain(p) /\ Through(p) \subseteq DOMAIN val
BY DEF Exists, Through, Plain

LEMMA AddFacts ==
  ASSUME TreeOK, NEW a, a.path \in Path, CanAdd(a)
  PROVE  /\ Target(a) \in Path
         /\ Len(Target(a)) <= 9
         /\ Target(a) \notin DOMAIN val
         /\ Through(Target(a)) \subseteq DOMAIN val \cup {Target(a)}
         /\ dm_get_object_id(a.path) \in object_id
         /\ dm_get_object_id(Target(a)) = dm_get_object_id(a.path)
         /\ IsInstance(Target(a))
         /\ \A q \in {Target(a)} \cup Singles(Target(a)) :
              /\ q \in Path /\ Len(q) <= 9 /\ Plain(q)
              /\ IsPrefix(Target(a), q)
              /\ Through(q) = Through(Target(a))
              /\ q \notin DOMAIN val
<1> DEFINE t == Target(a)
<1>1. /\ a.index \in Index
      /\ dm_get_object_id(a.path) # Unknown
      /\ ~IsInstance(a.path)
      /\ Exists(a.path)
      /\ t \notin DOMAIN val
  BY DEF CanAdd, process_add_instance_args, process_args_common, IsTemplate
<1>2. t = Append(a.path, a.index)
  BY <1>1 DEF Target
<1> HIDE DEF t
<1>3. t \in Path /\ Len(t) = Len(a.path) + 1 /\ Through(t) = Through(a.path) \cup {t}
  BY <1>1, <1>2, ThroughAppend
<1>4. Plain(a.path) /\ Through(a.path) \subseteq DOMAIN val
  BY <1>1, ExistsThrough
<1>5. /\ a.path # <<>> /\ dm_get_object_id(a.path) \in object_id
      /\ Len(a.path) \in Nat /\ Len(a.path) <= 8
      /\ a.path[Len(a.path)] \notin Numeric
  <2>1. /\ a.path # <<>> /\ dm_get_object_id(a.path) \in object_id
        /\ Len(a.path) \in 2 .. 9
        /\ a.path[Len(a.path)] \notin Numeric => Len(a.path) <= 8
    BY <1>1, Known
  <2>2. Len(a.path) \in DOMAIN a.path
    BY <2>1, LenProperties DEF Path
  <2>3. a.path[Len(a.path)] \notin Numeric
    BY <1>1, <1>4, <2>1, <2>2 DEF Plain, IsInstance, Numeric
  <2> QED
    BY <2>1, <2>3
<1>6. /\ Len(t) <= 9
      /\ Through(t) \subseteq DOMAIN val \cup {t}
      /\ dm_get_object_id(t) = dm_get_object_id(a.path)
      /\ Plain(t) /\ IsInstance(t)
  <2>1. dm_get_object_id(t) = dm_get_object_id(a.path)
    BY <1>1, <1>2, <1>5, AppendedId
  <2>2. \A k \in 1 .. Len(a.path) : t[k] = a.path[k]
    BY <1>1, <1>2, AppendParts
  <2>3. t[Len(a.path) + 1] = a.index
    BY <1>1, <1>2, AppendParts
  <2>4. a.index \notin {"x", "0"}
    BY <1>1, XIsNoNumber, IndexAssumption DEF Numeric
  <2>5. DOMAIN t = 1 .. Len(a.path) + 1 /\ DOMAIN a.path = 1 .. Len(a.path)
    BY <1>3, LenProperties DEF Path
  <2>6. Plain(t)
    BY <1>4, <1>5, <2>2, <2>3, <2>4, <2>5 DEF Plain
  <2>7. t # <<>> /\ t[Len(t)] \in Index
    BY <1>1, <1>3, <1>5, <2>3
  <2> QED
    BY <1>3, <1>4, <1>5, <2>1, <2>6, <2>7 DEF IsInstance
<1>7. IsPrefix(t, t)
  BY <1>3, PrefixOfItself
<1>8. ASSUME NEW q \in Singles(t)
      PROVE  /\ q \in Path /\ Len(q) <= 9 /\ Plain(q)
             /\ IsPrefix(t, q) /\ Through(q) = Through(t)
  <2>1. /\ q \in Path /\ Len(q) <= 8 /\ Plain(q)
        /\ IsPrefix(t, q) /\ Through(q) = Through(t)
    BY <1>3, <1>6, SinglesFacts
  <2>2. Len(q) \in Nat
    BY <2>1, LenProperties DEF Path
  <2> QED
    BY <2>1, <2>2
<1>9. ASSUME NEW q, Through(q) = Through(t)
      PROVE  q \notin DOMAIN val
  BY <1>1, <1>3, <1>9 DEF TreeOK
<1> QED
  BY <1>1, <1>3, <1>5, <1>6, <1>7, <1>8, <1>9 DEF t

\* An instance is added with its singletons, or nothing happens.
LEMMA AddStep ==
  ASSUME TreeOK, NEW a, a.path \in Path, NEW op, add_instance(a, op)
  PROVE  /\ TreeOK'
         /\ last'.rc \in {0, -1}
         /\ last'.rc = -1 => val' = val
         /\ last'.rc = 0 =>
              /\ last'.op = op
              /\ last'.target = Target(a)
              /\ Target(a) \in DOMAIN val'
              /\ last'.want \in Values => val'[Target(a)] = last'.want
         /\ val' = val \/ (Tree!Grow(Target(a)) /\ Target(a) \in DOMAIN val')
<1> DEFINE t == Target(a)
           new == {t} \cup Singles(t)
           Initial(p) == IF p = t THEN add_params_to_transaction(a, Default(p))
                         ELSE Default(p)
           want == IF Sets(a) THEN a.parameters ELSE Absent
<1>1. PICK ok \in (IF CanAdd(a) THEN Succeeds ELSE {FALSE}) :
        IF ok
        THEN /\ val' = [p \in DOMAIN val \cup new |->
                          IF p \in new THEN Initial(p) ELSE val[p]]
             /\ Call(op, 0, a)
        ELSE val' = val /\ Call(op, -1, a)
  BY DEF add_instance
<1>2. CASE ~ok
  <2>1. val' = val /\ last'.rc = -1
    BY <1>1, <1>2 DEF Call, Returned
  <2> QED
    BY <2>1 DEF TreeOK
<1>3. CASE ok
  <2>1. CanAdd(a)
    BY <1>1, <1>3
  <2>2. val' = [p \in DOMAIN val \cup new |-> IF p \in new THEN Initial(p) ELSE val[p]]
    BY <1>1, <1>3
  <2>3. last' = [op |-> op, rc |-> 0, target |-> t, want |-> want]
    BY <1>1, <1>3 DEF Call, Returned
  <2>4. /\ t \in Path /\ t \notin DOMAIN val /\ Through(t) \subseteq DOMAIN val \cup {t}
        /\ \A q \in new : /\ q \in Path /\ Len(q) <= 9 /\ Plain(q) /\ IsPrefix(t, q)
                          /\ Through(q) = Through(t) /\ q \notin DOMAIN val
    BY <2>1, AddFacts
  <2>5. t \in new
    OBVIOUS
  <2>6. want \in Values => Initial(t) = want
    BY ValueAssumption DEF add_params_to_transaction, Absent
  <2> HIDE DEF want, Initial, new, t
  <2>7. DOMAIN val' = DOMAIN val \cup new
    BY <2>2
  <2>8. TreeOK'
    BY <2>4, <2>5, <2>7 DEF TreeOK
  <2>9. t \in DOMAIN val' /\ val'[t] = Initial(t)
    BY <2>2, <2>5, <2>7
  <2>10. \A q \in DOMAIN val : val'[q] = val[q]
    BY <2>2, <2>4
  <2>11. Tree!Grow(t)
    <3>1. \A q \in DOMAIN val' \ DOMAIN val : IsPrefix(t, q) /\ Through(q) = Through(t)
      BY <2>4, <2>7
    <3>2. \A q : Tree!IsPrefix(t, q) <=> IsPrefix(t, q)
      BY DEF Tree!IsPrefix, IsPrefix
    <3>3. \A q : Tree!Through(q) = Through(q)
      BY DEF Tree!Through, Through
    <3> QED
      BY <2>4, <2>7, <2>10, <3>1, <3>2, <3>3 DEF Tree!Grow, Tree!SameValue
  <2> QED
    BY <2>3, <2>6, <2>8, <2>9, <2>11 DEF t
<1> QED
  BY <1>2, <1>3

\* At most the object itself changes.
LEMMA ChangeStep ==
  ASSUME TreeOK, NEW a, a.path \in Path, Target(a) \in Path, NEW op, change_object(a, op)
  PROVE  /\ TreeOK'
         /\ last'.rc \in {0, -1}
         /\ last'.rc = -1 => val' = val
         /\ last'.rc = 0 =>
              /\ last'.op = op
              /\ last'.target = Target(a)
              /\ Target(a) \in DOMAIN val' /\ last'.want \in Values
                   => val'[Target(a)] = last'.want
         /\ DOMAIN val' = DOMAIN val
         /\ val' = val \/ (Tree!Change(Target(a)) /\ Target(a) \in DOMAIN val')
<1> DEFINE o == Target(a)
           want == IF Sets(a) THEN a.parameters ELSE Absent
<1>1. CASE ~process_args_common(a, {"path", "parameters"})
  <2>1. val' = val /\ last'.rc = -1
    BY <1>1 DEF change_object, Call, Returned
  <2> QED
    BY <2>1 DEF TreeOK
<1>2. CASE process_args_common(a, {"path", "parameters"}) /\ ~Exists(o)
  <2>1. /\ val' = val
        /\ last' = [op |-> op, rc |-> 0, target |-> o, want |-> want]
    BY <1>2 DEF change_object, Call, Returned
  <2>2. o \notin DOMAIN val
    BY <1>2, ExistsThrough DEF TreeOK
  <2> HIDE DEF want
  <2> QED
    BY <2>1, <2>2 DEF TreeOK
<1>3. CASE process_args_common(a, {"path", "parameters"}) /\ Exists(o)
  <2>1. PICK ok \in Succeeds :
          /\ val' = IF ok /\ o \in DOMAIN val
                    THEN [val EXCEPT ![o] = add_params_to_transaction(a, @)]
                    ELSE val
          /\ Call(op, IF ok THEN 0 ELSE -1, a)
    BY <1>3 DEF change_object
  <2>2. CASE ~ok
    <3>1. val' = val /\ last'.rc = -1
      BY <2>1, <2>2 DEF Call, Returned
    <3> QED
      BY <3>1 DEF TreeOK
  <2>3. CASE ok /\ o \notin DOMAIN val
    <3>1. /\ val' = val
          /\ last' = [op |-> op, rc |-> 0, target |-> o, want |-> want]
      BY <2>1, <2>3 DEF Call, Returned
    <3> HIDE DEF want
    <3> QED
      BY <2>3, <3>1 DEF TreeOK
  <2>4. CASE ok /\ o \in DOMAIN val
    <3> DEFINE new == add_params_to_transaction(a, val[o])
    <3>1. /\ val' = [val EXCEPT ![o] = new]
          /\ last' = [op |-> op, rc |-> 0, target |-> o, want |-> want]
      BY <2>1, <2>4 DEF Call, Returned
    <3>2. want \in Values => new = want
      BY ValueAssumption DEF add_params_to_transaction, Absent
    <3> HIDE DEF new, want, o
    <3>3. /\ DOMAIN val' = DOMAIN val
          /\ val'[o] = new
          /\ \A q \in DOMAIN val \ {o} : val'[q] = val[q]
      BY <2>4, <3>1
    <3>4. TreeOK'
      BY <3>3 DEF TreeOK
    <3>5. Tree!Change(o)
      BY <3>3 DEF Tree!Change, Tree!SameValue
    <3> QED
      BY <2>4, <3>1, <3>2, <3>3, <3>4, <3>5 DEF o
  <2> QED
    BY <2>2, <2>3, <2>4
<1> QED
  BY <1>1, <1>2, <1>3

\* An instance goes with all that is below it.
LEMMA RemovalStep ==
  ASSUME TreeOK, RemovalOK, NEW ok, ApplyRemoval(ok)
  PROVE  /\ TreeOK'
         /\ removed \in DOMAIN val
         /\ last'.op = "remove"
         /\ last'.rc = -1 => val' = val
         /\ last'.rc = 0 => last'.target \notin DOMAIN val'
         /\ val' = val \/ Tree!Cut(removed)
<1>1. removed \in DOMAIN val /\ removed \in Path
  BY DEF ApplyRemoval, RemovalOK, TreeOK
<1>2. CASE ~ok
  <2>1. val' = val /\ last'.rc = -1 /\ last'.op = "remove"
    BY <1>2 DEF ApplyRemoval, Returned
  <2> QED
    BY <1>1, <2>1 DEF TreeOK
<1>3. CASE ok
  <2> DEFINE D == Deleted(DOMAIN val)
  <2>1. val' = [p \in DOMAIN val \ D |-> val[p]]
    BY <1>3 DEF ApplyRemoval
  <2>2. last'.rc = 0 /\ last'.op = "remove" /\ last'.target = removed
    BY <1>3 DEF ApplyRemoval, Returned
  <2>3. \A q : q \in D <=> q \in DOMAIN val /\ IsPrefix(removed, q)
    BY DEF Deleted, Under
  <2> HIDE DEF D
  <2>4. /\ DOMAIN val' = DOMAIN val \ D
        /\ \A q \in DOMAIN val' : val'[q] = val[q]
    BY <2>1
  <2>5. removed \notin DOMAIN val'
    BY <1>1, <2>3, <2>4, PrefixOfItself
  <2>6. ASSUME NEW p \in DOMAIN val', NEW q \in Through(p)
        PROVE  q \in DOMAIN val'
    <3>1. p \in Path /\ q \in DOMAIN val
      BY <2>4, <2>6 DEF TreeOK
    <3>2. q \in Path /\ IsPrefix(q, p)
      BY <3>1, <2>6, ThroughStarts
    <3>3. ~IsPrefix(removed, q)
      BY <1>1, <2>3, <2>4, <2>6, <3>1, <3>2, PrefixTransitive
    <3> QED
      BY <2>3, <2>4, <3>1, <3>3
  <2>7. TreeOK'
    <3>1. \A p \in DOMAIN val' : p \in Path /\ Len(p) <= 9 /\ Plain(p)
      BY <2>4 DEF TreeOK
    <3> QED
      BY <2>6, <3>1 DEF TreeOK
  <2>8. D = Tree!Below(removed)
    <3>1. \A q : Tree!IsPrefix(removed, q) <=> IsPrefix(removed, q)
      BY DEF Tree!IsPrefix, IsPrefix
    <3> QED
      BY <2>3, <3>1 DEF Tree!Below
  <2>9. Tree!Cut(removed)
    BY <2>4, <2>8 DEF Tree!Cut, Tree!SameValue
  <2> QED
    BY <1>1, <2>2, <2>5, <2>7, <2>9
<1> QED
  BY <1>2, <1>3

\* Two paths in a row, part by part.
LEMMA JoinedParts ==
  ASSUME NEW p \in Path, NEW q \in Path, NEW c \in Path,
         Len(c) = Len(p) + Len(q),
         \A k \in 1 .. Len(p) : c[k] = p[k],
         \A k \in 1 .. Len(q) : c[Len(p) + k] = q[k]
  PROVE  c = p \o q
<1> DEFINE d == p \o q
<1>1. Len(p) \in Nat /\ Len(q) \in Nat
  BY LenProperties DEF Path
<1>2. /\ d \in Path /\ Len(d) = Len(p) + Len(q)
      /\ \A k \in 1 .. Len(p) + Len(q) : d[k] = IF k <= Len(p) THEN p[k] ELSE q[k - Len(p)]
  BY ConcatProperties DEF Path
<1> HIDE DEF d
<1>3. \A k \in 1 .. Len(c) : c[k] = d[k]
  <2>1. TAKE k \in 1 .. Len(c)
  <2>2. CASE k <= Len(p)
    BY <1>1, <1>2, <2>1, <2>2
  <2>3. CASE ~(k <= Len(p))
    <3>1. k - Len(p) \in 1 .. Len(q) /\ Len(p) + (k - Len(p)) = k
      BY <1>1, <2>1, <2>3
    <3>2. c[k] = q[k - Len(p)]
      BY <3>1, Zenon
    <3>3. k \in 1 .. Len(p) + Len(q)
      BY <2>1
    <3>4. d[k] = q[k - Len(p)]
      BY <1>2, <2>3, <3>3, Zenon
    <3> QED
      BY <3>2, <3>4
  <2> QED
    BY <2>2, <2>3
<1>4. c = d
  BY <1>2, <1>3, SeqEqual DEF Path
<1> QED
  BY <1>4 DEF d

\* A path leads through the starts of it that end in an index.
LEMMA StartIsThrough ==
  ASSUME NEW o \in Path, NEW p \in Path, IsPrefix(o, p),
         Len(o) >= 1, o[Len(o)] \in Index
  PROVE  o \in Through(p)
<1>1. Len(o) \in Nat /\ Len(p) \in Nat /\ DOMAIN p = 1 .. Len(p)
  BY LenProperties DEF Path
<1>2. Len(o) <= Len(p) /\ \A k \in 1 .. Len(o) : o[k] = p[k]
  BY PrefixParts
<1>3. Len(o) \in DOMAIN p /\ p[Len(o)] \in Index
  BY <1>1, <1>2
<1>4. SubSeq(p, 1, Len(o)) = o
  BY SubSeqFull DEF IsPrefix, Path
<1> QED
  BY <1>3, <1>4 DEF Through

\* A path continued by names and one index.
LEMMA Continued ==
  ASSUME NEW p \in Path, NEW t \in Path, Len(t) >= 1, t[Len(t)] \in Index
  PROVE  /\ p \o t \in Path
         /\ Len(p \o t) = Len(p) + Len(t)
         /\ IsPrefix(p, p \o t) /\ p \o t # p
         /\ (p \o t)[Len(p \o t)] \in Index
<1>1. Len(p) \in Nat /\ Len(t) \in Nat
  BY LenProperties DEF Path
<1> DEFINE c == p \o t
<1>2. /\ c \in Path /\ Len(c) = Len(p) + Len(t)
      /\ \A i \in 1 .. Len(p) + Len(t) :
           c[i] = IF i <= Len(p) THEN p[i] ELSE t[i - Len(p)]
  BY ConcatProperties DEF Path
<1> HIDE DEF c
<1>3. Len(p) <= Len(c) /\ \A i \in 1 .. Len(p) : p[i] = c[i]
  BY <1>1, <1>2
<1>4. IsPrefix(p, c)
  BY <1>2, <1>3, PrefixParts
<1>5. c # p
  BY <1>1, <1>2
<1>6. c[Len(c)] = t[Len(t)]
  BY <1>1, <1>2
<1> QED
  BY <1>2, <1>4, <1>5, <1>6 DEF c

\* The EthernetUNIs, the ANIs and the ports of an ONU are instances below it.
LEMMA OnuFacts ==
  ASSUME NEW i \in Index
  PROVE  Onu(i) \in Path /\ Len(Onu(i)) = 3 /\ Onu(i)[Len(Onu(i))] \in Index
<1>1. i \in Part
  BY IndexAssumption DEF Part
<1>2. Onu(i) \in Path /\ Len(Onu(i)) = 3
  BY <1>1, ThreeParts, Literals DEF Onu
<1>3. Onu(i)[3] = i
  BY DEF Onu
<1> QED
  BY <1>2, <1>3

LEMMA UniFacts ==
  ASSUME NEW i \in Index, NEW p \in Unis(i)
  PROVE  p \in Path /\ IsPrefix(Onu(i), p) /\ p # Onu(i) /\ p[Len(p)] \in Index
<1>1. PICK k \in Index : p = Onu(i) \o <<"EthernetUNI", k>>
  BY DEF Unis
<1> DEFINE t == <<"EthernetUNI", k>>
<1>2. k \in Part
  BY IndexAssumption DEF Part
<1>3. t \in Path /\ Len(t) = 2
  BY <1>2, TwoParts, Literals
<1>4. t[2] = k
  OBVIOUS
<1> HIDE DEF t
<1>5. Len(t) >= 1 /\ t[Len(t)] \in Index
  BY <1>3, <1>4
<1>6. Onu(i) \in Path
  BY OnuFacts
<1> QED
  BY <1>1, <1>3, <1>5, <1>6, Continued DEF t

LEMMA AniFacts ==
  ASSUME NEW i \in Index, NEW ani \in Anis(i)
  PROVE  ani \in Path /\ Len(ani) = 5 /\ IsPrefix(Onu(i), ani)
<1>1. PICK k \in Index : ani = Onu(i) \o <<"ANI", k>>
  BY DEF Anis
<1> DEFINE t == <<"ANI", k>>
<1>2. k \in Part
  BY IndexAssumption DEF Part
<1>3. t \in Path /\ Len(t) = 2
  BY <1>2, TwoParts, Literals
<1>4. t[2] = k
  OBVIOUS
<1> HIDE DEF t
<1>5. Len(t) >= 1 /\ t[Len(t)] \in Index
  BY <1>3, <1>4
<1>6. Onu(i) \in Path /\ Len(Onu(i)) = 3
  BY OnuFacts
<1>7. /\ Onu(i) \o t \in Path /\ IsPrefix(Onu(i), Onu(i) \o t)
      /\ Len(Onu(i) \o t) = Len(Onu(i)) + Len(t)
  BY <1>3, <1>5, <1>6, Continued
<1>8. ani = Onu(i) \o t
  BY <1>1 DEF t
<1>9. Len(Onu(i)) + Len(t) = 5
  BY <1>3, <1>6
<1> QED
  BY <1>7, <1>8, <1>9

LEMMA PortFacts ==
  ASSUME NEW i \in Index, NEW ani \in Anis(i), NEW p \in Ports(ani)
  PROVE  /\ p \in Path /\ Len(p) = 9
         /\ IsPrefix(Onu(i), p) /\ p # Onu(i)
<1>1. PICK k \in Index : p = ani \o <<"TC", "GEM", "Port", k>>
  BY DEF Ports
<1> DEFINE t == <<"TC", "GEM", "Port", k>>
<1>2. k \in Part
  BY IndexAssumption DEF Part
<1>3. t \in Path /\ Len(t) = 4
  BY <1>2, FourParts, Literals
<1>4. t[4] = k
  OBVIOUS
<1> HIDE DEF t
<1>5. Len(t) >= 1 /\ t[Len(t)] \in Index
  BY <1>3, <1>4
<1>6. ani \in Path /\ Len(ani) = 5 /\ IsPrefix(Onu(i), ani)
  BY AniFacts
<1>7. /\ ani \o t \in Path /\ IsPrefix(ani, ani \o t)
      /\ Len(ani \o t) = Len(ani) + Len(t)
  BY <1>3, <1>5, <1>6, Continued
<1>8. p = ani \o t
  BY <1>1 DEF t
<1>9. Len(ani) + Len(t) = 9
  BY <1>3, <1>6
<1>10. p \in Path /\ Len(p) = 9 /\ IsPrefix(ani, p)
  BY <1>7, <1>8, <1>9
<1>11. Onu(i) \in Path /\ Len(Onu(i)) = 3
  BY OnuFacts
<1>12. IsPrefix(Onu(i), p)
  BY <1>6, <1>10, <1>11, PrefixTransitive
<1>13. p # Onu(i)
  BY <1>10, <1>11
<1> QED
  BY <1>10, <1>12, <1>13

\* A reset leaves a tree, and changes it below one ONU only.
LEMMA ResetStep ==
  ASSUME TreeOK, FunctionOK, NEW i, dm_omci_reset_mib(i)
  PROVE  /\ TreeOK'
         /\ last'.op = "reset"
         /\ last'.rc = -1 => val' = val
         /\ val' = val \/ (Onu(i) \in DOMAIN val /\ Tree!ResetMib(Onu(i)))
<1>1. CASE i \notin Index
  <2>1. val' = val /\ last'.op = "reset"
    BY <1>1 DEF dm_omci_reset_mib, Returned
  <2> QED
    BY <2>1 DEF TreeOK
<1>2. CASE i \in Index
  <2>1. PICK failed \in (IF MayFail THEN SUBSET Anis(i) ELSE {{}}) :
          /\ val' = [p \in Kept(i, failed) |->
                       IF p \in Unis(i) /\ val[p] = "Up" THEN "Down" ELSE val[p]]
          /\ Returned("reset", 0, Onu(i), IF failed = {} THEN "Down" ELSE Absent)
    BY <1>2 DEF dm_omci_reset_mib
  <2>2. last'.op = "reset" /\ last'.rc = 0
    BY <2>1 DEF Returned
  <2> DEFINE gone == UNION {Ports(ani) : ani \in Anis(i) \ failed}
             kept == DOMAIN val \ gone
  <2>3. /\ DOMAIN val' = kept
        /\ \A p \in kept : val'[p] = IF p \in Unis(i) /\ val[p] = "Up" THEN "Down" ELSE val[p]
    BY <2>1 DEF Kept
  <2>4. \A p \in gone : /\ p \in Path /\ Len(p) = 9
                        /\ IsPrefix(Onu(i), p) /\ p # Onu(i)
    BY <1>2, PortFacts
  <2>5. \A p \in gone : p \in DOMAIN val
    BY DEF Ports
  <2> HIDE DEF gone
  <2>6. ASSUME NEW p \in kept, NEW q \in Through(p)
        PROVE  q \in kept
    <3>1. p \in Path /\ Len(p) <= 9 /\ q \in DOMAIN val
      BY <2>6 DEF TreeOK
    <3>2. q \in Path /\ IsPrefix(q, p)
      BY <2>6, <3>1, ThroughStarts
    <3>3. ASSUME q \in gone PROVE q = p
      <4>1. Len(q) = 9 /\ Len(p) \in Nat
        BY <2>4, <3>1, <3>3, LenProperties DEF Path
      <4>2. Len(q) <= Len(p) /\ \A k \in 1 .. Len(q) : q[k] = p[k]
        BY <3>1, <3>2, PrefixParts
      <4>3. Len(q) = Len(p)
        <5>1. Len(p) \in Nat /\ Len(p) <= 9 /\ 9 <= Len(p)
          BY <3>1, <4>1, <4>2
        <5>2. PICK n \in Nat : n = Len(p)
          BY <5>1, Zenon
        <5>3. n <= 9 /\ 9 <= n
          BY <5>1, <5>2, Zenon
        <5>4. n = 9
          BY <5>3
        <5> QED
          BY <4>1, <5>2, <5>4, Zenon
      <4> QED
        BY <3>1, <3>2, <4>2, <4>3, SeqEqual DEF Path
    <3> QED
      BY <2>6, <3>1, <3>3
  <2>7. TreeOK'
    <3>1. \A p \in DOMAIN val' : p \in Path /\ Len(p) <= 9 /\ Plain(p)
      BY <2>3 DEF TreeOK
    <3> HIDE DEF kept
    <3> QED
      BY <2>3, <2>6, <3>1 DEF TreeOK
  <2>8. Onu(i) \in Path /\ Len(Onu(i)) = 3 /\ Onu(i)[Len(Onu(i))] \in Index
    BY <1>2, OnuFacts
  <2>9. \A p \in DOMAIN val : p \in Path /\ IsPrefix(Onu(i), p) => Onu(i) \in DOMAIN val
    <3> TAKE p \in DOMAIN val
    <3>1. HAVE p \in Path /\ IsPrefix(Onu(i), p)
    <3>2. Len(Onu(i)) >= 1
      BY <2>8
    <3>3. Onu(i) \in Through(p)
      BY <2>8, <3>1, <3>2, StartIsThrough
    <3> QED
      BY <3>3 DEF TreeOK
  <2>10. \A q : q \in Tree!Below(Onu(i)) <=> q \in DOMAIN val /\ IsPrefix(Onu(i), q)
    <3>1. \A q : Tree!IsPrefix(Onu(i), q) <=> IsPrefix(Onu(i), q)
      BY DEF Tree!IsPrefix, IsPrefix
    <3> QED
      BY <3>1 DEF Tree!Below
  <2>11. \A p \in Unis(i) : /\ p \in DOMAIN val /\ p \in Path
                            /\ IsPrefix(Onu(i), p) /\ p # Onu(i) /\ p[Len(p)] \in Index
    <3>1. \A p \in Unis(i) : p \in DOMAIN val
      BY DEF Unis
    <3> QED
      BY <1>2, <3>1, UniFacts
  <2>12. Tree!ResetMib(Onu(i))
    <3>1. DOMAIN val' \subseteq DOMAIN val
      BY <2>3
    <3>2. DOMAIN val \ DOMAIN val' \subseteq Tree!Below(Onu(i)) \ {Onu(i)}
      BY <2>3, <2>4, <2>10
    <3>3. \A q \in DOMAIN val' :
            val'[q] # val[q] => q \in Tree!Below(Onu(i)) \ {Onu(i)} /\ q[Len(q)] \in Index
      BY <2>3, <2>10, <2>11
    <3> QED
      BY <3>1, <3>2, <3>3 DEF Tree!ResetMib
  <2>13. val' = val \/ Onu(i) \in DOMAIN val
    <3>1. SUFFICES ASSUME Onu(i) \notin DOMAIN val
                   PROVE  val' = val
      OBVIOUS
    <3>2. gone = {} /\ Unis(i) = {}
      BY <2>4, <2>5, <2>9, <2>11, <3>1
    <3>3. Kept(i, failed) = DOMAIN val
      BY <3>2 DEF Kept, gone
    <3>4. val' = [p \in DOMAIN val |-> val[p]]
      BY <2>1, <3>2, <3>3
    <3> QED
      BY <3>4 DEF FunctionOK
  <2> QED
    BY <2>2, <2>7, <2>12, <2>13
<1> QED
  BY <1>1, <1>2
-----------------------------------------------------------------------------
(***************************************************************************)
(* The invariant.                                                          *)
(***************************************************************************)

IInv == TreeOK /\ FunctionOK /\ RemovalOK /\ SuccessIsTrue

LEMMA InitIInv == Init => IInv
<1> SUFFICES ASSUME Init PROVE IInv
  OBVIOUS
<1>1. val = [p \in {} |-> "Down"] /\ DOMAIN val = {}
  BY DEF Init
<1>2. TreeOK
  BY <1>1 DEF TreeOK
<1>3. FunctionOK
  BY <1>1 DEF FunctionOK
<1>4. RemovalOK
  BY DEF Init, RemovalOK
<1>5. SuccessIsTrue
  BY DEF Init, SuccessIsTrue
<1> QED
  BY <1>2, <1>3, <1>4, <1>5 DEF IInv

LEMMA FunctionStep ==
  ASSUME FunctionOK, [Next]_vars
  PROVE  FunctionOK'
<1>1. val' = val => FunctionOK'
  BY DEF FunctionOK
<1>2. ASSUME NEW a, NEW op, add_instance(a, op) PROVE FunctionOK'
  <2> DEFINE new == {Target(a)} \cup Singles(Target(a))
             Initial(p) == IF p = Target(a)
                           THEN add_params_to_transaction(a, Default(p)) ELSE Default(p)
  <2>1. \/ val' = val
        \/ val' = [p \in DOMAIN val \cup new |-> IF p \in new THEN Initial(p) ELSE val[p]]
    BY <1>2 DEF add_instance
  <2> HIDE DEF new, Initial
  <2> QED
    BY <1>1, <2>1 DEF FunctionOK
<1>3. ASSUME NEW a, NEW op, change_object(a, op) PROVE FunctionOK'
  <2> DEFINE o == Target(a)
             new == add_params_to_transaction(a, val[o])
  <2>1. val' = val \/ (o \in DOMAIN val /\ val' = [val EXCEPT ![o] = new])
    BY <1>3 DEF change_object
  <2> HIDE DEF new, o
  <2> QED
    BY <1>1, <2>1 DEF FunctionOK
<1>4. ASSUME NEW ok, ApplyRemoval(ok) PROVE FunctionOK'
  <2> DEFINE S == DOMAIN val \ Deleted(DOMAIN val)
  <2>1. val' = val \/ val' = [p \in S |-> val[p]]
    BY <1>4 DEF ApplyRemoval
  <2> HIDE DEF S
  <2> QED
    BY <1>1, <2>1 DEF FunctionOK
<1>5. ASSUME NEW i, dm_omci_reset_mib(i) PROVE FunctionOK'
  <2>1. \/ val' = val
        \/ \E S : val' = [p \in S |->
                            IF p \in Unis(i) /\ val[p] = "Up" THEN "Down" ELSE val[p]]
    BY <1>5 DEF dm_omci_reset_mib
  <2> QED
    BY <1>1, <2>1 DEF FunctionOK
<1>6. CASE Next
  <2>1. \/ \E a, op : add_instance(a, op)
        \/ \E a, op : change_object(a, op)
        \/ \E ok : ApplyRemoval(ok)
        \/ \E i : dm_omci_reset_mib(i)
        \/ val' = val
    BY <1>6 DEF Next, dm_add_instance, dm_change_object, dm_add_or_change_instance,
                RefuseRemoval, remove_instance, read_trx_param, dm_set_xpon_parameter,
                dmVars
  <2> QED
    BY <1>1, <1>2, <1>3, <1>4, <1>5, <2>1
<1> QED
  BY <1>1, <1>6 DEF vars, dmVars

\* What the steps do that touch no object.
LEMMA QuietStep ==
  ASSUME IInv, val' = val
  PROVE  /\ TreeOK'
         /\ last' = last => SuccessIsTrue'
         /\ last'.op \notin {"add", "change", "add_or_change", "remove"} => SuccessIsTrue'
         /\ last'.rc = -1 => SuccessIsTrue'
BY DEF IInv, TreeOK, SuccessIsTrue

\* A step keeps the tree and the promise of the call that returns, and is a
\* step of the tree or none.
LEMMA Step ==
  ASSUME IInv, Next
  PROVE  /\ TreeOK' /\ RemovalOK' /\ SuccessIsTrue'
         /\ [Tree!Next]_val
<1> USE DEF IInv
<1>1. ASSUME NEW a, a.path \in Path, NEW op \in {"add", "add_or_change"},
             add_instance(a, op), UNCHANGED <<pc, removed, readVars>>, pc = "idle"
      PROVE  TreeOK' /\ RemovalOK' /\ SuccessIsTrue' /\ [Tree!Next]_val
  <2>1. /\ TreeOK'
        /\ last'.rc \in {0, -1}
        /\ last'.rc = 0 =>
             /\ last'.op = op
             /\ last'.target = Target(a)
             /\ Target(a) \in DOMAIN val'
             /\ last'.want \in Values => val'[Target(a)] = last'.want
        /\ val' = val \/ (Tree!Grow(Target(a)) /\ Target(a) \in DOMAIN val')
    BY <1>1, AddStep
  <2>2. RemovalOK'
    BY <1>1 DEF RemovalOK, readVars
  <2>3. SuccessIsTrue'
    BY <1>1, <2>1 DEF SuccessIsTrue
  <2>4. Tree!NoOrphan(DOMAIN val')
    BY <2>1 DEF Tree!NoOrphan, Tree!Through, TreeOK, Through
  <2>5. [Tree!Next]_val
    BY <2>1, <2>4 DEF Tree!Next
  <2> QED
    BY <2>1, <2>2, <2>3, <2>5
<1>2. ASSUME NEW a, a.path \in Path, Target(a) \in Path,
             NEW op \in {"change", "add_or_change"},
             op = "add_or_change" => Target(a) \in DOMAIN val,
             change_object(a, op), UNCHANGED <<pc, removed, readVars>>, pc = "idle"
      PROVE  TreeOK' /\ RemovalOK' /\ SuccessIsTrue' /\ [Tree!Next]_val
  <2>1. /\ TreeOK'
        /\ last'.rc \in {0, -1}
        /\ last'.rc = 0 =>
             /\ last'.op = op
             /\ last'.target = Target(a)
             /\ Target(a) \in DOMAIN val' /\ last'.want \in Values
                  => val'[Target(a)] = last'.want
        /\ DOMAIN val' = DOMAIN val
        /\ val' = val \/ (Tree!Change(Target(a)) /\ Target(a) \in DOMAIN val')
    BY <1>2, ChangeStep
  <2>2. RemovalOK'
    BY <1>2 DEF RemovalOK, readVars
  <2>3. SuccessIsTrue'
    BY <1>2, <2>1 DEF SuccessIsTrue
  <2>4. Tree!NoOrphan(DOMAIN val')
    BY <2>1 DEF Tree!NoOrphan, Tree!Through, TreeOK, Through
  <2>5. [Tree!Next]_val
    BY <2>1, <2>4 DEF Tree!Next
  <2> QED
    BY <2>1, <2>2, <2>3, <2>5
<1>3. ASSUME NEW a \in Args(Keys, Parameters), dm_add_instance(a)
      PROVE  TreeOK' /\ RemovalOK' /\ SuccessIsTrue' /\ [Tree!Next]_val
  <2>1. a.path \in Path
    BY <1>3, ArgsFacts
  <2>2. add_instance(a, "add") /\ UNCHANGED <<pc, removed, readVars>> /\ pc = "idle"
    BY <1>3 DEF dm_add_instance
  <2> QED
    BY <1>1, <2>1, <2>2
<1>4. ASSUME NEW a \in Args({Absent}, Parameters), dm_change_object(a)
      PROVE  TreeOK' /\ RemovalOK' /\ SuccessIsTrue' /\ [Tree!Next]_val
  <2>1. a.path \in Path /\ Target(a) \in Path
    BY <1>4, ArgsFacts
  <2>2. change_object(a, "change") /\ UNCHANGED <<pc, removed, readVars>> /\ pc = "idle"
    BY <1>4 DEF dm_change_object
  <2> QED
    BY <1>2, <2>1, <2>2
<1>5. ASSUME NEW a \in Args(Keys, Parameters), dm_add_or_change_instance(a)
      PROVE  TreeOK' /\ RemovalOK' /\ SuccessIsTrue' /\ [Tree!Next]_val
  <2>1. a.path \in Path /\ Target(a) \in Path
    BY <1>5, ArgsFacts
  <2>2. UNCHANGED <<pc, removed, readVars>> /\ pc = "idle"
    BY <1>5 DEF dm_add_or_change_instance
  <2>3. CASE add_instance(a, "add_or_change")
    BY <1>1, <2>1, <2>2, <2>3
  <2>4. CASE change_object(a, "add_or_change") /\ Target(a) \in DOMAIN val
    BY <1>2, <2>1, <2>2, <2>4
  <2>5. CASE val' = val /\ Call("add_or_change", -1, a)
    <3>1. last'.rc = -1
      BY <2>5 DEF Call, Returned
    <3> QED
      BY <2>2, <2>5, <3>1, QuietStep DEF RemovalOK, readVars
  <2> QED
    BY <1>5, <2>3, <2>4, <2>5 DEF dm_add_or_change_instance
<1>6. ASSUME NEW a, RefuseRemoval(a)
      PROVE  TreeOK' /\ RemovalOK' /\ SuccessIsTrue' /\ [Tree!Next]_val
  <2>1. val' = val /\ RemovalOK'
    BY <1>6 DEF RefuseRemoval, dmVars, RemovalOK, readVars
  <2>2. \/ last'.rc = -1
        \/ last'.rc = 0 /\ last'.op = "remove" /\ last'.target \notin DOMAIN val
    BY <1>6 DEF RefuseRemoval, Call, Returned
  <2>3. SuccessIsTrue'
    BY <2>1, <2>2 DEF SuccessIsTrue
  <2> QED
    BY <2>1, <2>3, QuietStep
<1>7. ASSUME NEW a, remove_instance(a)
      PROVE  TreeOK' /\ RemovalOK' /\ SuccessIsTrue' /\ [Tree!Next]_val
  <2>1. val' = val /\ last' = last
    BY <1>7 DEF remove_instance, dmVars
  <2>2. RemovalOK'
    BY <1>7 DEF remove_instance, dmVars, RemovalOK
  <2> QED
    BY <2>1, <2>2, QuietStep
<1>8. ASSUME NEW ok, ApplyRemoval(ok)
      PROVE  TreeOK' /\ RemovalOK' /\ SuccessIsTrue' /\ [Tree!Next]_val
  <2>1. /\ TreeOK'
        /\ removed \in DOMAIN val
        /\ last'.op = "remove"
        /\ last'.rc = 0 => last'.target \notin DOMAIN val'
        /\ val' = val \/ Tree!Cut(removed)
    BY <1>8, RemovalStep
  <2>2. RemovalOK'
    BY <1>8 DEF ApplyRemoval, RemovalOK
  <2>3. SuccessIsTrue'
    BY <2>1 DEF SuccessIsTrue
  <2>4. Tree!NoOrphan(DOMAIN val')
    BY <2>1 DEF Tree!NoOrphan, Tree!Through, TreeOK, Through
  <2>5. [Tree!Next]_val
    BY <2>1, <2>4 DEF Tree!Next
  <2> QED
    BY <2>1, <2>2, <2>3, <2>5
<1>9. ASSUME NEW t, read_trx_param(t)
      PROVE  TreeOK' /\ RemovalOK' /\ SuccessIsTrue' /\ [Tree!Next]_val
  <2>1. val' = val /\ last' = last /\ UNCHANGED <<ignore, pc, removed>>
    BY <1>9 DEF read_trx_param, dmVars
  <2>2. ~misled'
    BY <1>9 DEF read_trx_param, RemovalOK
  <2>3. RemovalOK'
    BY <2>1, <2>2 DEF RemovalOK
  <2> QED
    BY <2>1, <2>3, QuietStep
<1>10. ASSUME NEW i, dm_omci_reset_mib(i)
       PROVE  TreeOK' /\ RemovalOK' /\ SuccessIsTrue' /\ [Tree!Next]_val
  <2>1. /\ TreeOK'
        /\ last'.op = "reset"
        /\ val' = val \/ (Onu(i) \in DOMAIN val /\ Tree!ResetMib(Onu(i)))
    BY <1>10, ResetStep
  <2>2. RemovalOK'
    BY <1>10 DEF dm_omci_reset_mib, RemovalOK, readVars
  <2>3. SuccessIsTrue'
    BY <2>1 DEF SuccessIsTrue
  <2>4. Tree!NoOrphan(DOMAIN val')
    BY <2>1 DEF Tree!NoOrphan, Tree!Through, TreeOK, Through
  <2>5. [Tree!Next]_val
    BY <2>1, <2>4 DEF Tree!Next
  <2> QED
    BY <2>1, <2>2, <2>3, <2>5
<1>11. ASSUME NEW name, NEW v, dm_set_xpon_parameter(name, v)
       PROVE  TreeOK' /\ RemovalOK' /\ SuccessIsTrue' /\ [Tree!Next]_val
  <2>1. val' = val /\ RemovalOK'
    BY <1>11 DEF dm_set_xpon_parameter, RemovalOK, readVars
  <2>2. last'.op = "xpon" \/ last'.rc = -1
    BY <1>11 DEF dm_set_xpon_parameter, Returned
  <2> QED
    BY <2>1, <2>2, QuietStep
<1> QED
  BY <1>3, <1>4, <1>5, <1>6, <1>7, <1>8, <1>9, <1>10, <1>11 DEF Next

LEMMA NextIInv ==
  ASSUME IInv, [Next]_vars
  PROVE  IInv' /\ [Tree!Next]_val
<1>1. FunctionOK'
  BY FunctionStep DEF IInv
<1>2. CASE Next
  BY <1>1, <1>2, Step DEF IInv
<1>3. CASE UNCHANGED vars
  <2>1. val' = val /\ last' = last /\ UNCHANGED <<pc, removed, ignore, misled>>
    BY <1>3 DEF vars, dmVars
  <2>2. RemovalOK'
    BY <2>1 DEF IInv, RemovalOK
  <2> QED
    BY <1>1, <2>1, <2>2, QuietStep DEF IInv
<1> QED
  BY <1>2, <1>3

LEMMA SpecIInv == Spec => []IInv
<1>1. Init => IInv
  BY InitIInv
<1>2. IInv /\ [Next]_vars => IInv'
  BY NextIInv
<1> QED
  BY <1>1, <1>2, PTL DEF Spec
-----------------------------------------------------------------------------
(*****************************************************************************)
(* What the objects are, and the values they have.                         *)
(*****************************************************************************)

\* The object a call is about is of the kind its path says.
LEMMA TargetKind ==
  ASSUME NEW a, a.path \in Path, dm_get_object_id(a.path) # Unknown,
         dm_get_object_id(Target(a)) # Unknown
  PROVE  dm_get_object_id(Target(a)) = dm_get_object_id(a.path)
<1>1. CASE a.index \notin Index
  BY <1>1 DEF Target
<1>2. CASE a.index \in Index
  <2>1. Target(a) = Append(a.path, a.index)
    BY <1>2 DEF Target
  <2>2. a.path # <<>> /\ dm_get_object_id(a.path) \in object_id
    BY Known
  <2>3. a.path[Len(a.path)] \notin Numeric
    BY <1>2, <2>1, <2>2, AppendedId
  <2> QED
    BY <1>2, <2>1, <2>2, <2>3, AppendedId
<1> QED
  BY <1>1, <1>2

\* What an object without and with Status can hold.
Allowed(p) == IF dm_get_object_id(p) \in WithStatus THEN Values ELSE {NoStatus}

KindsOK ==
  \A p \in DOMAIN val :
    /\ dm_get_object_id(p) \in object_id
    /\ IsInstance(p) \/ OBJECT_INFO[dm_get_object_id(p)].key = NoKey
    /\ val[p] \in Allowed(p)

PrivOK ==
  \A o \in priv : o \in Path /\ dm_get_object_id(o) = "onu" /\ Exists(o)

FrameOK ==
  /\ fsm \in Values
  /\ ignore \in BOOLEAN
  /\ pc \in {"idle", "removing"}
  /\ IF pc = "removing" THEN removed \in DOMAIN val ELSE removed = <<>>
  /\ misled \in BOOLEAN

LEMMA IdIsKnown == Unknown \notin object_id /\ "onu" \in object_id
  BY DEF Unknown, object_id, OBJECT_INFO

LEMMA DefaultAllowed ==
  ASSUME NEW p
  PROVE  Default(p) \in Allowed(p)
BY ValueAssumption DEF Default, Allowed

LEMMA StillExists ==
  ASSUME NEW o, Exists(o), DOMAIN val \subseteq DOMAIN val'
  PROVE  Exists(o)'
BY DEF Exists

\* A new instance comes with the kind, the values and the private data of its
\* template.
LEMMA AddKinds ==
  ASSUME TreeOK, KindsOK, PrivOK, NEW a, a.path \in Path, NEW op, add_instance(a, op)
  PROVE  KindsOK' /\ PrivOK' /\ DOMAIN val \subseteq DOMAIN val' /\ last'.target \in Path
<1> DEFINE t == Target(a)
           new == {t} \cup Singles(t)
           Initial(p) == IF p = t THEN add_params_to_transaction(a, Default(p))
                         ELSE Default(p)
<1>1. CASE UNCHANGED <<val, priv>> /\ Call(op, -1, a)
  <2>1. last'.target = <<>> /\ <<>> \in Path
    BY <1>1, EmptySeq DEF Call, Returned, Path
  <2> QED
    BY <1>1, <2>1 DEF KindsOK, PrivOK, Exists
<1>2. CASE /\ CanAdd(a)
           /\ val' = [p \in DOMAIN val \cup new |-> IF p \in new THEN Initial(p) ELSE val[p]]
           /\ priv' = IF dm_get_object_id(a.path) = "onu" THEN priv \cup {t} ELSE priv
           /\ Call(op, 0, a)
  <2>1. /\ t \in Path /\ Through(t) \subseteq DOMAIN val \cup {t}
        /\ dm_get_object_id(a.path) \in object_id
        /\ dm_get_object_id(t) = dm_get_object_id(a.path)
        /\ IsInstance(t)
        /\ \A q \in new : Plain(q)
    BY <1>2, AddFacts
  <2>2. t \in new
    OBVIOUS
  <2>3. \A q \in new : /\ dm_get_object_id(q) \in object_id
                       /\ IsInstance(q) \/ OBJECT_INFO[dm_get_object_id(q)].key = NoKey
    <3>1. \A q \in Singles(t) : /\ dm_get_object_id(q) \in object_id
                                /\ OBJECT_INFO[dm_get_object_id(q)].key = NoKey
      BY <2>1, SinglesFacts
    <3> QED
      BY <2>1, <3>1
  <2>4. \A q \in new : Initial(q) \in Allowed(q)
    <3>1. add_params_to_transaction(a, Default(t)) \in Allowed(t)
      BY <2>1, DefaultAllowed DEF add_params_to_transaction, Sets, Allowed
    <3> QED
      BY <3>1, DefaultAllowed
  <2>5. last'.target = t
    BY <1>2 DEF Call, Returned
  <2> HIDE DEF new, Initial, t
  <2>6. /\ DOMAIN val' = DOMAIN val \cup new
        /\ \A q \in DOMAIN val' : val'[q] = IF q \in new THEN Initial(q) ELSE val[q]
    BY <1>2
  <2>7. KindsOK'
    <3>1. \A q \in DOMAIN val' :
            /\ dm_get_object_id(q) \in object_id
            /\ IsInstance(q) \/ OBJECT_INFO[dm_get_object_id(q)].key = NoKey
            /\ val'[q] \in Allowed(q)
      BY <2>3, <2>4, <2>6 DEF KindsOK
    <3> QED
      BY <3>1 DEF KindsOK
  <2>8. DOMAIN val \subseteq DOMAIN val'
    BY <2>6
  <2>9. Exists(t)'
    BY <2>1, <2>2, <2>6 DEF Exists, Plain, Through
  <2>10. \A o \in priv : Exists(o)'
    BY <2>8, StillExists DEF PrivOK
  <2>11. priv' = priv \/ (priv' = priv \cup {t} /\ dm_get_object_id(t) = "onu")
    BY <1>2, <2>1 DEF t
  <2>12. PrivOK'
    <3>1. \A o \in priv' : o \in Path /\ dm_get_object_id(o) = "onu" /\ Exists(o)'
      BY <2>1, <2>9, <2>10, <2>11 DEF PrivOK
    <3> QED
      BY <3>1 DEF PrivOK
  <2> QED
    BY <2>1, <2>5, <2>7, <2>8, <2>12
<1>3. \/ UNCHANGED <<val, priv>> /\ Call(op, -1, a)
      \/ /\ CanAdd(a)
         /\ val' = [p \in DOMAIN val \cup new |-> IF p \in new THEN Initial(p) ELSE val[p]]
         /\ priv' = IF dm_get_object_id(a.path) = "onu" THEN priv \cup {t} ELSE priv
         /\ Call(op, 0, a)
  BY DEF add_instance
<1> QED
  BY <1>1, <1>2, <1>3

\* A change gives an object a value it can have, and private data to an ONU
\* that exists.
LEMMA ChangeKinds ==
  ASSUME TreeOK, KindsOK, PrivOK, NEW a, a.path \in Path, Target(a) \in Path, NEW op,
         change_object(a, op)
  PROVE  KindsOK' /\ PrivOK' /\ DOMAIN val \subseteq DOMAIN val' /\ last'.target \in Path
<1> DEFINE o == Target(a)
           new == add_params_to_transaction(a, val[o])
<1>1. last'.target \in Path
  <2>1. last'.target \in {<<>>, o}
    BY DEF change_object, Call, Returned
  <2> QED
    BY <2>1, EmptySeq DEF Path
<1>2. CASE UNCHANGED <<val, priv>>
  BY <1>1, <1>2 DEF KindsOK, PrivOK, Exists
<1>3. CASE ~UNCHANGED <<val, priv>>
  <2>1. /\ dm_get_object_id(a.path) # Unknown
        /\ Exists(o)
        /\ priv' = IF dm_get_object_id(a.path) = "onu" THEN priv \cup {o} ELSE priv
        /\ val' = val \/ (o \in DOMAIN val /\ val' = [val EXCEPT ![o] = new])
    BY <1>3 DEF change_object, process_args_common
  <2>2. o \in DOMAIN val => new \in Allowed(o)
    <3>1. SUFFICES ASSUME o \in DOMAIN val PROVE new \in Allowed(o)
      OBVIOUS
    <3>2. dm_get_object_id(o) \in object_id /\ val[o] \in Allowed(o)
      BY <3>1 DEF KindsOK
    <3>3. dm_get_object_id(o) = dm_get_object_id(a.path)
      BY <2>1, <3>2, TargetKind, IdIsKnown
    <3> QED
      BY <3>2, <3>3 DEF add_params_to_transaction, Sets, Allowed
  <2>3. dm_get_object_id(a.path) = "onu" => dm_get_object_id(o) = "onu"
    <3>1. SUFFICES ASSUME dm_get_object_id(a.path) = "onu" PROVE dm_get_object_id(o) = "onu"
      OBVIOUS
    <3>2. CASE a.index \notin Index
      BY <3>1, <3>2 DEF Target
    <3>3. CASE a.index \in Index
      <4>1. o = Append(a.path, a.index)
        BY <3>3 DEF Target
      <4> HIDE DEF o
      <4>2. o \in Through(o)
        BY <3>3, <4>1, ThroughAppend
      <4>3. o \in DOMAIN val
        BY <2>1, <4>2, ExistsThrough
      <4>4. dm_get_object_id(o) \in object_id
        BY <4>3 DEF KindsOK
      <4> QED
        BY <2>1, <3>1, <4>4, TargetKind, IdIsKnown DEF o
    <3> QED
      BY <3>2, <3>3
  <2> HIDE DEF new, o
  <2>4. /\ DOMAIN val' = DOMAIN val
        /\ \A q \in DOMAIN val' : val'[q] = val[q] \/ (q = o /\ val'[q] = new)
    BY <2>1
  <2>5. KindsOK'
    <3>1. \A q \in DOMAIN val' :
            /\ dm_get_object_id(q) \in object_id
            /\ IsInstance(q) \/ OBJECT_INFO[dm_get_object_id(q)].key = NoKey
            /\ val'[q] \in Allowed(q)
      BY <2>2, <2>4 DEF KindsOK
    <3> QED
      BY <3>1 DEF KindsOK
  <2>6. PrivOK'
    <3>1. Exists(o)' /\ \A q \in priv : Exists(q)'
      BY <2>1, <2>4, StillExists DEF PrivOK
    <3>2. \A q \in priv' : q \in Path /\ dm_get_object_id(q) = "onu" /\ Exists(q)'
      BY <2>1, <2>3, <3>1 DEF PrivOK, o
    <3> QED
      BY <3>2 DEF PrivOK
  <2> QED
    BY <1>1, <2>4, <2>5, <2>6
<1> QED
  BY <1>2, <1>3

\* What is removed leaves objects of their kind, and no private data of an ONU
\* that is gone.
LEMMA RemovalKinds ==
  ASSUME TreeOK, KindsOK, PrivOK, FrameOK, NEW ok, ApplyRemoval(ok)
  PROVE  KindsOK' /\ PrivOK' /\ FrameOK' /\ last'.target \in Path
<1>1. removed \in DOMAIN val /\ removed \in Path
  BY DEF ApplyRemoval, FrameOK, TreeOK
<1>2. FrameOK'
  BY DEF ApplyRemoval, FrameOK
<1>3. last'.target \in Path
  <2>1. last'.target \in {<<>>, removed}
    BY DEF ApplyRemoval, Returned
  <2> QED
    BY <1>1, <2>1, EmptySeq DEF Path
<1>4. CASE ~ok
  <2>1. UNCHANGED <<val, priv>>
    BY <1>4 DEF ApplyRemoval
  <2> QED
    BY <1>2, <1>3, <2>1 DEF KindsOK, PrivOK, Exists
<1>5. CASE ok
  <2> DEFINE D == Deleted(DOMAIN val)
  <2>1. val' = [p \in DOMAIN val \ D |-> val[p]] /\ priv' = priv \ Deleted(priv)
    BY <1>5 DEF ApplyRemoval
  <2>2. \A q : q \in D <=> q \in DOMAIN val /\ IsPrefix(removed, q)
    BY DEF Deleted, Under
  <2>3. \A o \in priv' : o \in priv /\ ~IsPrefix(removed, o)
    BY <2>1 DEF Deleted, Under
  <2> HIDE DEF D
  <2>4. /\ DOMAIN val' = DOMAIN val \ D
        /\ \A q \in DOMAIN val' : val'[q] = val[q]
    BY <2>1
  <2>5. KindsOK'
    <3>1. \A q \in DOMAIN val' :
            /\ dm_get_object_id(q) \in object_id
            /\ IsInstance(q) \/ OBJECT_INFO[dm_get_object_id(q)].key = NoKey
            /\ val'[q] \in Allowed(q)
      BY <2>4 DEF KindsOK
    <3> QED
      BY <3>1 DEF KindsOK
  <2>6. \A o \in priv' : Exists(o)'
    <3> TAKE o \in priv'
    <3>1. /\ o \in Path /\ ~IsPrefix(removed, o)
          /\ Plain(o) /\ Through(o) \subseteq DOMAIN val
      BY <2>3, ExistsThrough DEF PrivOK
    <3>2. Through(o) \subseteq DOMAIN val'
      <4> SUFFICES ASSUME NEW q \in Through(o) PROVE q \in DOMAIN val'
        OBVIOUS
      <4>1. q \in Path /\ IsPrefix(q, o)
        BY <3>1, ThroughStarts
      <4>2. ~IsPrefix(removed, q)
        BY <1>1, <3>1, <4>1, PrefixTransitive
      <4> QED
        BY <2>2, <2>4, <3>1, <4>2
    <3> QED
      BY <3>1, <3>2 DEF Exists, Through, Plain
  <2>7. PrivOK'
    BY <2>3, <2>6 DEF PrivOK
  <2> QED
    BY <1>2, <1>3, <2>5, <2>7
<1> QED
  BY <1>4, <1>5

\* An object that is named after an instance, with an index at the end.
LEMMA InstanceParts ==
  ASSUME TreeOK, KindsOK, NEW p \in DOMAIN val,
         OBJECT_INFO[dm_get_object_id(p)].key # NoKey
  PROVE  /\ p \in Path /\ DOMAIN p = 1 .. Len(p) /\ Len(p) \in 2 .. 9
         /\ p[Len(p)] \in Index
         /\ LET g == OBJECT_INFO[dm_get_object_id(p)].path IN
            /\ Len(p) = Len(g) + 1
            /\ \A k \in 1 .. Len(g) : IF g[k] = "x" THEN p[k] \in Index ELSE p[k] = g[k]
<1> DEFINE g == OBJECT_INFO[dm_get_object_id(p)].path
<1>1. /\ p \in Path /\ Plain(p) /\ p # <<>> /\ p[Len(p)] \in Index
      /\ dm_get_object_id(p) \in object_id
  BY DEF TreeOK, KindsOK, IsInstance
<1>2. Len(p) \in 2 .. 9 /\ Matches(Front(p), g)
  BY <1>1, Known, IdIsKnown DEF Numeric
<1>3. /\ Len(p) \in Nat /\ Len(Front(p)) = Len(p) - 1
      /\ \A k \in 1 .. Len(p) - 1 : Front(p)[k] = p[k]
  BY <1>1, FrontFacts
<1>4. g \in Path
  BY <1>1, PathEnds, Zenon
<1> HIDE DEF g
<1>5. Len(g) \in Nat /\ DOMAIN g = 1 .. Len(g) /\ DOMAIN p = 1 .. Len(p)
  BY <1>1, <1>4, LenProperties DEF Path
<1>6. Len(p) = Len(g) + 1
  BY <1>2, <1>3, <1>5 DEF Matches
<1>7. \A k \in 1 .. Len(g) : IF g[k] = "x" THEN p[k] \in Index ELSE p[k] = g[k]
  <2>1. \A k \in 1 .. Len(g) : k \in DOMAIN p /\ Front(p)[k] = p[k]
    BY <1>3, <1>5, <1>6
  <2>2. \A k \in 1 .. Len(g) : p[k] \notin {"x", "0"}
    BY <1>1, <2>1 DEF Plain
  <2> QED
    BY <1>2, <1>5, <2>1, <2>2 DEF Matches, Numeric
<1> QED
  BY <1>1, <1>2, <1>5, <1>6, <1>7 DEF g

\* The loops of a reset reach every EthernetUNI of the ONU ...
LEMMA UniReached ==
  ASSUME TreeOK, KindsOK, NEW i \in Index, NEW p \in DOMAIN val,
         IsPrefix(Onu(i), p), dm_get_object_id(p) = "ethernet_uni"
  PROVE  p \in Unis(i)
<1> DEFINE g == OBJECT_INFO["ethernet_uni"].path
<1>1. /\ g = <<"XPON", "ONU", "x", "EthernetUNI">>
      /\ OBJECT_INFO["ethernet_uni"].key # NoKey
  BY DEF OBJECT_INFO, Info, NoKey
<1>2. /\ p \in Path /\ DOMAIN p = 1 .. Len(p) /\ p[Len(p)] \in Index
      /\ Len(p) = Len(g) + 1
      /\ \A k \in 1 .. Len(g) : IF g[k] = "x" THEN p[k] \in Index ELSE p[k] = g[k]
  BY <1>1, InstanceParts, Zenon
<1>3. Len(g) = 4 /\ g[4] = "EthernetUNI"
  BY <1>1
<1> HIDE DEF g
<1>4. Len(p) = 5 /\ p[4] = "EthernetUNI" /\ p[5] \in Index
  BY <1>2, <1>3
<1> DEFINE t == <<"EthernetUNI", p[5]>>
<1>5. p[5] \in Part
  BY <1>4, IndexAssumption DEF Part
<1>6. t \in Path /\ Len(t) = 2 /\ t[1] = p[4] /\ t[2] = p[5]
  BY <1>4, <1>5, TwoParts, Literals
<1>7. Onu(i) \in Path /\ Len(Onu(i)) = 3
  BY OnuFacts
<1>8. \A k \in 1 .. Len(Onu(i)) : p[k] = Onu(i)[k]
  BY <1>2, <1>7, PrefixParts
<1> HIDE DEF t
<1>9. Len(p) = Len(Onu(i)) + Len(t) /\ \A k \in 1 .. Len(t) : p[Len(Onu(i)) + k] = t[k]
  BY <1>4, <1>6, <1>7
<1>10. p = Onu(i) \o t
  BY <1>2, <1>6, <1>7, <1>8, <1>9, JoinedParts
<1> QED
  BY <1>4, <1>10 DEF Unis, t

\* ... and every GEM port, on whichever ANI: the ANI is there if its port is.
LEMMA PortReached ==
  ASSUME TreeOK, KindsOK, NEW i \in Index, NEW p \in DOMAIN val,
         IsPrefix(Onu(i), p), dm_get_object_id(p) = "gem_port"
  PROVE  \E ani \in Anis(i) : p \in Ports(ani)
<1> DEFINE g == OBJECT_INFO["gem_port"].path
           ani == SubSeq(p, 1, 5)
<1>1. /\ g \in Path /\ Len(g) = 8
      /\ g[4] = "ANI" /\ g[5] = "x" /\ g[6] = "TC" /\ g[7] = "GEM" /\ g[8] = "Port"
  BY GemPortPath, Zenon
<1>2. OBJECT_INFO["gem_port"].key # NoKey
  BY DEF OBJECT_INFO, Info, NoKey
<1>3. /\ p \in Path /\ DOMAIN p = 1 .. Len(p) /\ p[Len(p)] \in Index
      /\ Len(p) = Len(g) + 1
      /\ \A k \in 1 .. Len(g) : IF g[k] = "x" THEN p[k] \in Index ELSE p[k] = g[k]
  BY <1>2, InstanceParts, Zenon
<1> HIDE DEF g
<1>4. /\ Len(p) = 9 /\ p[4] = "ANI" /\ p[5] \in Index
      /\ p[6] = "TC" /\ p[7] = "GEM" /\ p[8] = "Port" /\ p[9] \in Index
  <2>1. Len(p) = 9
    BY <1>1, <1>3
  <2> QED
    BY <1>1, <1>3, <2>1
<1>5. p[5] \in Part /\ p[9] \in Part
  BY <1>4, IndexAssumption DEF Part
<1>6. /\ ani \in Path /\ Len(ani) = 5 /\ \A k \in 1 .. 5 : ani[k] = p[k]
  <2>1. 5 \in 0 .. Len(p)
    BY <1>4
  <2> QED
    BY <1>3, <2>1, Starts
<1>7. ani \in DOMAIN val
  <2>1. 5 \in DOMAIN p /\ p[5] \in Index
    <3>1. 5 \in 1 .. Len(p)
      BY <1>4
    <3> QED
      BY <1>3, <1>4, <3>1, Zenon
  <2>2. SubSeq(p, 1, 5) \in Through(p)
    BY <2>1, Zenon DEF Through
  <2> QED
    BY <2>2 DEF TreeOK
<1> HIDE DEF ani
<1>8. Onu(i) \in Path /\ Len(Onu(i)) = 3
  BY OnuFacts
<1>9. \A k \in 1 .. Len(Onu(i)) : p[k] = Onu(i)[k]
  BY <1>3, <1>8, PrefixParts
<1> DEFINE t == <<"ANI", p[5]>>
           u == <<"TC", "GEM", "Port", p[9]>>
<1>10. t \in Path /\ Len(t) = 2 /\ t[1] = p[4] /\ t[2] = p[5]
  BY <1>4, <1>5, TwoParts, Literals
<1>11. /\ u \in Path /\ Len(u) = 4
       /\ u[1] = p[6] /\ u[2] = p[7] /\ u[3] = p[8] /\ u[4] = p[9]
  BY <1>4, <1>5, FourParts, Literals
<1> HIDE DEF t, u
<1>12. ani = Onu(i) \o t
  <2>1. /\ Len(ani) = Len(Onu(i)) + Len(t)
        /\ \A k \in 1 .. Len(Onu(i)) : ani[k] = Onu(i)[k]
        /\ \A k \in 1 .. Len(t) : ani[Len(Onu(i)) + k] = t[k]
    BY <1>6, <1>8, <1>9, <1>10
  <2> QED
    BY <1>6, <1>8, <1>10, <2>1, JoinedParts
<1>13. p = ani \o u
  <2>1. /\ Len(p) = Len(ani) + Len(u)
        /\ \A k \in 1 .. Len(ani) : p[k] = ani[k]
        /\ \A k \in 1 .. Len(u) : p[Len(ani) + k] = u[k]
    BY <1>4, <1>6, <1>11
  <2> QED
    BY <1>3, <1>6, <1>11, <2>1, JoinedParts
<1>14. ani \in Anis(i)
  BY <1>4, <1>7, <1>12 DEF Anis, t
<1>15. p \in Ports(ani)
  BY <1>4, <1>13 DEF Ports, u
<1> QED
  BY <1>14, <1>15

\* A reset gives the interfaces a value they can have, keeps the ONUs that
\* have private data, and clears what it promises to clear.
LEMMA ResetKinds ==
  ASSUME TreeOK, KindsOK, PrivOK, NEW i, dm_omci_reset_mib(i)
  PROVE  KindsOK' /\ PrivOK' /\ last'.target \in Path /\ ResetClears'
<1>1. CASE i \notin Index
  <2>1. /\ UNCHANGED <<val, priv>>
        /\ last'.target = <<>> /\ last'.want = Absent /\ Absent # "Down"
    BY <1>1 DEF dm_omci_reset_mib, Returned, Absent
  <2>2. <<>> \in Path
    BY EmptySeq DEF Path
  <2> QED
    BY <2>1, <2>2 DEF KindsOK, PrivOK, Exists, ResetClears
<1>2. CASE i \in Index
  <2>1. PICK failed \in (IF MayFail THEN SUBSET Anis(i) ELSE {{}}) :
          /\ val' = [p \in Kept(i, failed) |->
                       IF p \in Unis(i) /\ val[p] = "Up" THEN "Down" ELSE val[p]]
          /\ Returned("reset", 0, Onu(i), IF failed = {} THEN "Down" ELSE Absent)
    BY <1>2 DEF dm_omci_reset_mib
  <2>2. priv' = priv
    BY DEF dm_omci_reset_mib
  <2>3. last'.target = Onu(i) /\ (last'.want = "Down" => failed = {})
    BY <2>1 DEF Returned, Absent
  <2>4. Onu(i) \in Path /\ Len(Onu(i)) = 3
    BY <1>2, OnuFacts
  <2> DEFINE gone == UNION {Ports(ani) : ani \in Anis(i) \ failed}
  <2>5. /\ DOMAIN val' = DOMAIN val \ gone
        /\ \A p \in DOMAIN val' :
             val'[p] = IF p \in Unis(i) /\ val[p] = "Up" THEN "Down" ELSE val[p]
    BY <2>1 DEF Kept
  <2>6. \A p \in gone : Len(p) = 9
    BY <1>2, PortFacts
  <2>7. failed = {} => \A ani \in Anis(i) : \A p \in Ports(ani) : p \in gone
    OBVIOUS
  <2> HIDE DEF gone
  <2>8. KindsOK'
    <3>1. "Up" \in Values /\ "Down" \in Values /\ NoStatus # "Up"
      BY ValueAssumption DEF NoStatus
    <3>2. \A q \in DOMAIN val' : val'[q] \in Allowed(q)
      <4> TAKE q \in DOMAIN val'
      <4>1. q \in DOMAIN val /\ val[q] \in Allowed(q)
        BY <2>5 DEF KindsOK
      <4>2. CASE val'[q] = val[q]
        BY <4>1, <4>2
      <4>3. CASE val[q] = "Up" /\ val'[q] = "Down"
        BY <3>1, <4>1, <4>3 DEF Allowed
      <4> QED
        BY <2>5, <4>1, <4>2, <4>3
    <3>3. \A q \in DOMAIN val' :
            /\ dm_get_object_id(q) \in object_id
            /\ IsInstance(q) \/ OBJECT_INFO[dm_get_object_id(q)].key = NoKey
            /\ val'[q] \in Allowed(q)
      BY <2>5, <3>2 DEF KindsOK
    <3> QED
      BY <3>3 DEF KindsOK
  <2>9. \A o \in priv : Exists(o)'
    <3> TAKE o \in priv
    <3>1. /\ o \in Path /\ dm_get_object_id(o) = "onu"
          /\ Plain(o) /\ Through(o) \subseteq DOMAIN val
      BY ExistsThrough DEF PrivOK
    <3>2. Len(o) \in Nat /\ Len(o) <= 3
      <4> DEFINE g == OBJECT_INFO["onu"].path
                 n == Len(o)
      <4>1. o # <<>> /\ Matches(IF o[Len(o)] \in Numeric THEN Front(o) ELSE o, g)
        BY <3>1, Known, IdIsKnown
      <4>2. n \in Nat /\ Len(Front(o)) = n - 1
        BY <3>1, <4>1, FrontFacts
      <4>3. Len(g) = 2
        BY OnuPath, Zenon
      <4>4. n - 1 = 2 \/ n = 2
        BY <4>1, <4>2, <4>3 DEF Matches
      <4>5. n <= 3
        <5> HIDE DEF n
        <5> QED BY <4>2, <4>4
      <4> QED
        BY <4>2, <4>5
    <3>3. \A q \in Through(o) : q \notin gone
      <4> TAKE q \in Through(o)
      <4> DEFINE n == Len(o)
                 m == Len(q)
      <4>1. m \in Nat /\ m <= n /\ n \in Nat /\ n <= 3
        BY <3>1, <3>2, ThroughStarts, LenProperties DEF Path
      <4>2. m # 9
        <5> HIDE DEF m, n
        <5> QED BY <4>1
      <4> QED
        BY <2>6, <4>2
    <3> QED
      BY <2>5, <3>1, <3>3 DEF Exists, Through, Plain
  <2>10. PrivOK'
    BY <2>2, <2>9 DEF PrivOK
  <2>11. ResetClears'
    <3>1. SUFFICES ASSUME last'.want = "Down", NEW p \in DOMAIN val', IsPrefix(Onu(i), p)
                   PROVE  /\ dm_get_object_id(p) # "gem_port"
                          /\ dm_get_object_id(p) = "ethernet_uni" => val'[p] # "Up"
      BY <2>3 DEF ResetClears
    <3>2. p \in DOMAIN val /\ p \notin gone /\ failed = {}
      BY <2>3, <2>5, <3>1
    <3>3. dm_get_object_id(p) # "gem_port"
      BY <1>2, <2>7, <3>1, <3>2, PortReached
    <3>4. dm_get_object_id(p) = "ethernet_uni" => p \in Unis(i)
      BY <1>2, <3>1, <3>2, UniReached
    <3> QED
      BY <2>5, <3>3, <3>4
  <2> QED
    BY <2>3, <2>4, <2>8, <2>10, <2>11
<1> QED
  BY <1>1, <1>2

\* The types of the values, of the private data and of the last call.
KindInv ==
  /\ KindsOK /\ PrivOK /\ FrameOK /\ ResetClears
  /\ last.target \in Path

LEMMA InitKinds == Init => KindInv
<1> SUFFICES ASSUME Init PROVE KindInv
  OBVIOUS
<1>1. val = [p \in {} |-> "Down"] /\ DOMAIN val = {}
  BY DEF Init
<1>2. KindsOK
  BY <1>1 DEF KindsOK
<1>3. PrivOK
  BY DEF Init, PrivOK
<1>4. FrameOK
  BY ValueAssumption DEF Init, FrameOK
<1>5. last.target \in Path /\ ResetClears
  BY EmptySeq DEF Init, Path, ResetClears
<1> QED
  BY <1>2, <1>3, <1>4, <1>5 DEF KindInv

LEMMA KindStep ==
  ASSUME TreeOK, KindInv, [Next]_vars
  PROVE  KindInv'
<1> USE DEF KindInv
<1>1. ASSUME DOMAIN val \subseteq DOMAIN val', UNCHANGED <<fsm, pc, removed, readVars>>
      PROVE  FrameOK'
  BY <1>1 DEF FrameOK, readVars
<1>2. ASSUME last'.op # "reset" PROVE ResetClears'
  BY <1>2 DEF ResetClears
<1>3. ASSUME UNCHANGED dmVars PROVE KindsOK' /\ PrivOK'
  BY <1>3 DEF dmVars, KindsOK, PrivOK, Exists
<1>4. ASSUME NEW a, a.path \in Path, NEW op \in {"add", "add_or_change"},
             add_instance(a, op), UNCHANGED <<fsm, pc, removed, readVars>>
      PROVE  KindInv'
  <2>1. KindsOK' /\ PrivOK' /\ DOMAIN val \subseteq DOMAIN val' /\ last'.target \in Path
    BY <1>4, AddKinds
  <2>2. last'.op = op
    BY <1>4 DEF add_instance, Call, Returned
  <2> QED
    BY <1>1, <1>2, <1>4, <2>1, <2>2
<1>5. ASSUME NEW a, a.path \in Path, Target(a) \in Path,
             NEW op \in {"change", "add_or_change"},
             change_object(a, op), UNCHANGED <<fsm, pc, removed, readVars>>
      PROVE  KindInv'
  <2>1. KindsOK' /\ PrivOK' /\ DOMAIN val \subseteq DOMAIN val' /\ last'.target \in Path
    BY <1>5, ChangeKinds
  <2>2. last'.op = op
    BY <1>5 DEF change_object, Call, Returned
  <2> QED
    BY <1>1, <1>2, <1>5, <2>1, <2>2
<1>6. ASSUME NEW a, Target(a) \in Path, UNCHANGED <<dmVars, pc, removed, readVars>>,
             NEW op \in {"add_or_change", "remove"}, NEW rc, Call(op, rc, a)
      PROVE  KindInv'
  <2>1. last'.op = op /\ last'.target \in {<<>>, Target(a)}
    BY <1>6 DEF Call, Returned
  <2>2. last'.target \in Path
    BY <1>6, <2>1, EmptySeq DEF Path
  <2>3. UNCHANGED dmVars /\ val' = val /\ UNCHANGED <<fsm, pc, removed, readVars>>
    BY <1>6 DEF dmVars
  <2> QED
    BY <1>1, <1>2, <1>3, <2>1, <2>2, <2>3
<1>7. ASSUME NEW a \in Args(Keys, Parameters), dm_add_instance(a) PROVE KindInv'
  BY <1>4, <1>7, ArgsFacts DEF dm_add_instance
<1>8. ASSUME NEW a \in Args({Absent}, Parameters), dm_change_object(a) PROVE KindInv'
  BY <1>5, <1>8, ArgsFacts DEF dm_change_object
<1>9. ASSUME NEW a \in Args(Keys, Parameters), dm_add_or_change_instance(a) PROVE KindInv'
  <2>1. /\ a.path \in Path /\ Target(a) \in Path
        /\ UNCHANGED <<fsm, pc, removed, readVars>>
    BY <1>9, ArgsFacts DEF dm_add_or_change_instance
  <2>2. \/ add_instance(a, "add_or_change")
        \/ change_object(a, "add_or_change")
        \/ UNCHANGED <<val, priv>> /\ Call("add_or_change", -1, a)
    BY <1>9 DEF dm_add_or_change_instance
  <2>3. CASE UNCHANGED <<val, priv>> /\ Call("add_or_change", -1, a)
    BY <1>6, <2>1, <2>3 DEF dmVars
  <2> QED
    BY <1>4, <1>5, <2>1, <2>2, <2>3
<1>10. ASSUME NEW a \in Args({Absent}, {Absent}), RefuseRemoval(a) PROVE KindInv'
  <2>1. \E rc : Call("remove", rc, a)
    BY <1>10 DEF RefuseRemoval
  <2>2. Target(a) \in Path /\ UNCHANGED <<dmVars, pc, removed, readVars>>
    BY <1>10, ArgsFacts DEF RefuseRemoval
  <2> QED
    BY <1>6, <2>1, <2>2
<1>11. ASSUME NEW a, remove_instance(a) PROVE KindInv'
  <2>1. UNCHANGED dmVars /\ last' = last
    BY <1>11 DEF remove_instance
  <2>2. FrameOK'
    BY <1>11 DEF remove_instance, dmVars, FrameOK
  <2> QED
    BY <1>3, <2>1, <2>2 DEF ResetClears, dmVars
<1>12. ASSUME NEW ok, ApplyRemoval(ok) PROVE KindInv'
  <2>1. last'.op = "remove"
    BY <1>12 DEF ApplyRemoval, Returned
  <2> QED
    BY <1>2, <1>12, <2>1, RemovalKinds
<1>13. ASSUME NEW t, read_trx_param(t) PROVE KindInv'
  <2>1. UNCHANGED dmVars /\ last' = last
    BY <1>13 DEF read_trx_param
  <2>2. FrameOK'
    BY <1>13 DEF read_trx_param, dmVars, FrameOK
  <2> QED
    BY <1>3, <2>1, <2>2 DEF ResetClears, dmVars
<1>14. ASSUME NEW i, dm_omci_reset_mib(i) PROVE KindInv'
  <2>1. KindsOK' /\ PrivOK' /\ last'.target \in Path /\ ResetClears'
    BY <1>14, ResetKinds
  <2>2. FrameOK'
    BY <1>14 DEF dm_omci_reset_mib, readVars, FrameOK
  <2> QED
    BY <2>1, <2>2
<1>15. ASSUME NEW name, NEW v \in Values, dm_set_xpon_parameter(name, v) PROVE KindInv'
  <2>1. /\ UNCHANGED <<val, priv>> /\ fsm' \in {fsm, v}
        /\ UNCHANGED <<pc, removed, readVars>>
        /\ last'.op = "xpon" /\ last'.target = <<>>
    BY <1>15 DEF dm_set_xpon_parameter, Returned
  <2>2. FrameOK'
    BY <2>1 DEF FrameOK, readVars
  <2>3. KindsOK' /\ PrivOK'
    BY <2>1 DEF KindsOK, PrivOK, Exists
  <2>4. last'.target \in Path
    BY <2>1, EmptySeq DEF Path
  <2> QED
    BY <1>2, <2>1, <2>2, <2>3, <2>4
<1>16. CASE UNCHANGED vars
  BY <1>16 DEF vars, dmVars, readVars, KindsOK, PrivOK, Exists, FrameOK, ResetClears
<1> QED
  BY <1>7, <1>8, <1>9, <1>10, <1>11, <1>12, <1>13, <1>14, <1>15, <1>16 DEF Next

LEMMA SpecKinds == Spec => [](TreeOK /\ KindInv)
<1>1. IInv => TreeOK
  BY DEF IInv
<1>2. Init => KindInv
  BY InitKinds
<1>3. TreeOK /\ KindInv /\ [Next]_vars => KindInv'
  BY KindStep
<1> QED
  BY <1>1, <1>2, <1>3, SpecIInv, PTL DEF Spec
-----------------------------------------------------------------------------
(*****************************************************************************)
(* What the table lists.                                                   *)
(*****************************************************************************)

\* The generic path of an object leads to its own entry.
LEMMA GenericFound ==
  ASSUME NEW id \in object_id
  PROVE  dm_get_object_id(OBJECT_INFO[id].path) = id
<1> DEFINE g == OBJECT_INFO[id].path
<1>1. /\ g \in Path /\ Len(g) \in 2 .. 8
      /\ \A k \in 1 .. Len(g) : g[k] \notin Numeric
  BY PathEnds, Zenon
<1> HIDE DEF g
<1>2. DOMAIN g = 1 .. Len(g) /\ g # <<>> /\ g[Len(g)] \notin Numeric
  BY <1>1, LenProperties DEF Path
<1>3. Matches(g, g)
  BY <1>2 DEF Matches
<1> QED
  BY <1>1, <1>2, <1>3, IdByParts DEF g

\* What is listed below the ONUs ...
LEMMA OnuChildFound ==
  ASSUME NEW id \in {"software_image", "ethernet_uni", "ani"}, NEW n \in Part,
         OBJECT_INFO[id].path = <<"XPON", "ONU", "x", n>>
  PROVE  dm_get_object_id(OBJECT_INFO["onu"].path \o <<"x">> \o <<n>>) = id
<1> DEFINE g == OBJECT_INFO["onu"].path
<1>1. g = <<"XPON", "ONU">>
  BY DEF OBJECT_INFO, Info
<1>2. g \o <<"x">> \o <<n>> = <<"XPON", "ONU", "x", n>>
  <2> DEFINE u == <<"x">>
             v == <<n>>
             c == <<"XPON", "ONU", "x">>
             d == <<"XPON", "ONU", "x", n>>
  <2>1. g \in Path /\ Len(g) = 2 /\ g[1] = "XPON" /\ g[2] = "ONU"
    BY <1>1, TwoParts, Literals
  <2>2. /\ u \in Path /\ Len(u) = 1 /\ u[1] = "x"
        /\ v \in Path /\ Len(v) = 1 /\ v[1] = n
    BY OnePart, Literals
  <2>3. c \in Path /\ Len(c) = 3 /\ c[1] = "XPON" /\ c[2] = "ONU" /\ c[3] = "x"
    BY ThreeParts, Literals
  <2>4. /\ d \in Path /\ Len(d) = 4
        /\ d[1] = "XPON" /\ d[2] = "ONU" /\ d[3] = "x" /\ d[4] = n
    BY FourParts, Literals
  <2> HIDE DEF g, u, v, c, d
  <2>5. c = g \o u
    <3>1. /\ Len(c) = Len(g) + Len(u)
          /\ \A k \in 1 .. Len(g) : c[k] = g[k]
          /\ \A k \in 1 .. Len(u) : c[Len(g) + k] = u[k]
      BY <2>1, <2>2, <2>3
    <3> QED
      BY <2>1, <2>2, <2>3, <3>1, JoinedParts
  <2>6. d = c \o v
    <3>1. /\ Len(d) = Len(c) + Len(v)
          /\ \A k \in 1 .. Len(c) : d[k] = c[k]
          /\ \A k \in 1 .. Len(v) : d[Len(c) + k] = v[k]
      BY <2>2, <2>3, <2>4
    <3> QED
      BY <2>2, <2>3, <2>4, <3>1, JoinedParts
  <2> QED
    BY <2>5, <2>6, Zenon DEF u, v, d
<1>3. id \in object_id
  BY DEF object_id, OBJECT_INFO
<1> HIDE DEF g
<1> QED
  BY <1>2, <1>3, GenericFound, Zenon DEF g

\* ... and below the ANIs.
LEMMA AniChildFound ==
  ASSUME NEW id \in object_id, NEW t \in Path,
         LET g == OBJECT_INFO[id].path IN
         /\ Len(g) = 5 + Len(t) /\ g[3] = "x" /\ g[4] = "ANI" /\ g[5] = "x"
         /\ \A k \in 1 .. Len(t) : g[5 + k] = t[k]
  PROVE  dm_get_object_id(OBJECT_INFO["ani"].path \o <<"x">> \o t) = id
<1> DEFINE g == OBJECT_INFO[id].path
           u == <<"x">>
           p == AniPath \o u
<1>1. g \in Path /\ g[1] = "XPON" /\ g[2] = "ONU"
  BY PathTable, Zenon
<1>2. u \in Path /\ Len(u) = 1 /\ u[1] = "x"
  BY OnePart, Literals
<1>3. /\ Len(g) = 5 + Len(t) /\ g[3] = "x" /\ g[4] = "ANI" /\ g[5] = "x"
      /\ \A k \in 1 .. Len(t) : g[5 + k] = t[k]
  OBVIOUS
<1> HIDE DEF u
<1>4. /\ p \in Path /\ Len(p) = 4 + Len(u)
      /\ p[1] = "XPON" /\ p[2] = "ONU" /\ p[3] = "x" /\ p[4] = "ANI"
      /\ \A k \in 1 .. Len(u) : p[4 + k] = u[k]
  BY <1>2, BelowAni, Zenon
<1> HIDE DEF g, p
<1>5. Len(p) = 5 /\ p[5] = "x"
  <2>1. p[4 + 1] = u[1]
    BY <1>2, <1>4
  <2> QED
    BY <1>2, <1>4, <2>1
<1>6. g = p \o t
  <2>1. \A k \in 1 .. 5 : g[k] = p[k]
    <3>1. \A k \in 1 .. 5 : k = 1 \/ k = 2 \/ k = 3 \/ k = 4 \/ k = 5
      OBVIOUS
    <3>2. /\ g[1] = p[1] /\ g[2] = p[2] /\ g[3] = p[3] /\ g[4] = p[4] /\ g[5] = p[5]
      BY <1>1, <1>3, <1>4, <1>5, Zenon
    <3> QED
      BY <3>1, <3>2, Zenon
  <2> QED
    BY <1>1, <1>3, <1>4, <1>5, <2>1, JoinedParts, Zenon
<1>7. OBJECT_INFO["ani"].path = AniPath
  BY DEF OBJECT_INFO, Info
<1>8. OBJECT_INFO["ani"].path \o <<"x">> \o t = g
  BY <1>6, <1>7, Zenon DEF p, u
<1> QED
  BY <1>8, GenericFound, Zenon DEF g

LEMMA TcChildFound ==
  ASSUME NEW n \in {"ONUActivation", "PerformanceThresholds", "Alarms"},
         NEW id \in object_id, OBJECT_INFO[id].path = Tc(n)
  PROVE  dm_get_object_id(OBJECT_INFO["ani"].path \o <<"x">> \o <<"TC", n>>) = id
<1> DEFINE g == OBJECT_INFO[id].path
           t == <<"TC", n>>
<1>1. n \in Part
  BY DEF Part
<1>2. /\ Len(g) = 7 /\ g[3] = "x" /\ g[4] = "ANI" /\ g[5] = "x" /\ g[6] = "TC" /\ g[7] = n
  <2>1. g = Tc(n)
    OBVIOUS
  <2> HIDE DEF g
  <2> QED
    BY <1>1, <2>1, TcPath, Zenon
<1>3. t \in Path /\ Len(t) = 2 /\ t[1] = "TC" /\ t[2] = n
  BY <1>1, TwoParts, Literals
<1> HIDE DEF g, t
<1>4. Len(g) = 5 + Len(t) /\ \A k \in 1 .. Len(t) : g[5 + k] = t[k]
  BY <1>2, <1>3
<1> QED
  BY <1>2, <1>3, <1>4, AniChildFound, Zenon DEF g, t
-----------------------------------------------------------------------------
(***************************************************************************)
(* The theorems.                                                           *)
(***************************************************************************)

\* A call that returns 0 has done what it is named for (data_model.c 532-947).
THEOREM SuccessHolds == Spec => []SuccessIsTrue
<1>1. IInv => SuccessIsTrue
  BY DEF IInv
<1> QED
  BY <1>1, SpecIInv, PTL

\* No read of a transceiver that is being removed reaches the vendor module,
\* and all others do (dm_actions.c 91-126, data_model.c 735-744).
THEOREM ReadsAreAnswerable == Spec => []ReadsAnswerable
<1>1. IInv => ReadsAnswerable
  BY DEF IInv, RemovalOK, ReadsAnswerable
<1> QED
  BY <1>1, SpecIInv, PTL

\* The data model is the tree XponTree describes, for its readers: objects
\* come and go below instances that exist, one call at a time.
THEOREM TreeImplemented == Spec => ImplementsTree
<1>1. Init => Tree!Init
  BY DEF Init, Tree!Init
<1>2. IInv /\ [Next]_vars => [Tree!Next]_val
  BY NextIInv
<1> QED
  BY <1>1, <1>2, SpecIInv, PTL DEF Spec, ImplementsTree, Tree!Spec

\* A call that returns an error has changed no object, nor FsmState.
THEOREM RefusalsChangeNothing == Spec => RefusedChangesNothing
<1>1. ASSUME NEW a, NEW op, add_instance(a, op), last'.rc = -1 PROVE val' = val
  BY <1>1 DEF add_instance, Call, Returned
<1>2. ASSUME NEW a, NEW op, change_object(a, op), last'.rc = -1 PROVE val' = val
  <2>1. PICK ok \in BOOLEAN :
          val' = val \/ (ok /\ Call(op, IF ok THEN 0 ELSE -1, a))
    BY <1>2 DEF change_object, Succeeds
  <2> QED
    BY <1>2, <2>1 DEF Call, Returned
<1>3. ASSUME Next, last'.rc = -1 PROVE UNCHANGED <<val, fsm>>
  <2>1. ASSUME NEW a, dm_add_instance(a) PROVE UNCHANGED <<val, fsm>>
    BY <1>1, <1>3, <2>1 DEF dm_add_instance
  <2>2. ASSUME NEW a, dm_change_object(a) PROVE UNCHANGED <<val, fsm>>
    BY <1>2, <1>3, <2>2 DEF dm_change_object
  <2>3. ASSUME NEW a, dm_add_or_change_instance(a) PROVE UNCHANGED <<val, fsm>>
    BY <1>1, <1>2, <1>3, <2>3 DEF dm_add_or_change_instance
  <2>4. ASSUME NEW a, RefuseRemoval(a) \/ remove_instance(a) PROVE UNCHANGED <<val, fsm>>
    BY <2>4 DEF RefuseRemoval, remove_instance, dmVars
  <2>5. ASSUME NEW ok, ApplyRemoval(ok) PROVE UNCHANGED <<val, fsm>>
    BY <1>3, <2>5 DEF ApplyRemoval, Returned
  <2>6. ASSUME NEW t, read_trx_param(t) PROVE UNCHANGED <<val, fsm>>
    BY <2>6 DEF read_trx_param, dmVars
  <2>7. ASSUME NEW i, dm_omci_reset_mib(i) PROVE UNCHANGED <<val, fsm>>
    BY <1>3, <2>7 DEF dm_omci_reset_mib, Returned
  <2>8. ASSUME NEW name, NEW v, dm_set_xpon_parameter(name, v) PROVE UNCHANGED <<val, fsm>>
    BY <1>3, <2>8 DEF dm_set_xpon_parameter, Returned
  <2> QED
    BY <1>3, <2>1, <2>2, <2>3, <2>4, <2>5, <2>6, <2>7, <2>8 DEF Next
<1>4. [Next]_vars => [last'.rc = -1 => UNCHANGED <<val, fsm>>]_vars
  BY <1>3
<1> QED
  BY <1>4, PTL DEF Spec, RefusedChangesNothing

\* The values of the objects are those of their kind, for any paths and indexes
\* the vendor module may give; private data is only kept of an ONU that exists
\* (data_model.c 532-1075).
THEOREM TypeCorrect == Spec => []TypeOK
<1>1. ASSUME KindInv PROVE TypeOK
  <2>1. KindsOK /\ PrivOK /\ FrameOK
    BY <1>1 DEF KindInv
  <2>2. \A p \in DOMAIN val :
          /\ dm_get_object_id(p) # Unknown
          /\ val[p] \in IF dm_get_object_id(p) \in WithStatus THEN Values ELSE {NoStatus}
    BY <2>1, IdIsKnown DEF KindsOK, Allowed
  <2>3. \A p \in DOMAIN val : IsTemplate(p) = FALSE
    BY <2>1 DEF KindsOK, IsTemplate
  <2> QED
    BY <2>1, <2>2, <2>3 DEF PrivOK, FrameOK, TypeOK
<1>2. KindInv => TypeOK
  BY <1>1
<1> QED
  BY <1>2, SpecKinds, PTL

\* An OMCI reset of the MIB leaves no interface Up and no GEM port behind, for
\* any number of ANIs and ports: what is below an ONU in the data model is below
\* an ANI that the loop visits (data_model.c 949-1075).
THEOREM ResetIsComplete == Spec => []ResetClears
<1>1. KindInv => ResetClears
  BY DEF KindInv
<1> QED
  BY <1>1, SpecKinds, PTL

\* The text of a path leads to the entry of OBJECT_INFO that denotes the object,
\* and to no other, whatever the indexes (dm_info.c 320-408).
THEOREM IdsAreDenoted == Spec => []IdsAsDenoted
<1>1. ASSUME TreeOK, KindInv PROVE IdsAsDenoted
  <2>1. \A p \in DOMAIN val \cup {last.target} : p \in Path
    BY <1>1 DEF TreeOK, KindInv
  <2> QED
    BY <2>1, IdsDenoted DEF IdsAsDenoted
<1>2. TreeOK /\ KindInv => IdsAsDenoted
  BY <1>1
<1> QED
  BY <1>2, SpecKinds, PTL

\* Whatever populate_dm_startup.c goes down to is in the table: a template with
\* a key, a singleton without (dm_info.c 166-295, populate_dm_startup.c 380-440).
THEOREM ChildrenAreListed == ChildrenListed
<1> DEFINE Child(id, t) == dm_get_object_id(OBJECT_INFO[id].path \o <<"x">> \o t)
<1>1. /\ OBJECT_INFO["onu"].templates = {<<"SoftwareImage">>, <<"EthernetUNI">>, <<"ANI">>}
      /\ OBJECT_INFO["onu"].singletons = {}
      /\ OBJECT_INFO["ani"].templates = {<<"TC", "GEM", "Port">>, <<"Transceiver">>}
      /\ OBJECT_INFO["ani"].singletons =
           {<<"TC", "ONUActivation">>, <<"TC", "PerformanceThresholds">>, <<"TC", "Alarms">>}
      /\ \A id \in object_id \ {"onu", "ani"} :
           OBJECT_INFO[id].templates = {} /\ OBJECT_INFO[id].singletons = {}
  BY DEF OBJECT_INFO, Info, object_id
<1>2. /\ \A id \in {"software_image", "ethernet_uni", "ani", "gem_port", "transceiver"} :
           id \in object_id /\ OBJECT_INFO[id].key # NoKey
      /\ \A id \in {"ani_tc_onu_activation", "ani_tc_performance_thresholds",
                    "ani_tc_alarms"} :
           id \in object_id /\ OBJECT_INFO[id].key = NoKey
  BY DEF OBJECT_INFO, Info, object_id, NoKey
<1>3. \A id \in object_id : id # Unknown
  BY IdIsKnown
<1>4. /\ Child("onu", <<"SoftwareImage">>) = "software_image"
      /\ Child("onu", <<"EthernetUNI">>) = "ethernet_uni"
      /\ Child("onu", <<"ANI">>) = "ani"
  <2>1. /\ OBJECT_INFO["software_image"].path = <<"XPON", "ONU", "x", "SoftwareImage">>
        /\ OBJECT_INFO["ethernet_uni"].path = <<"XPON", "ONU", "x", "EthernetUNI">>
        /\ OBJECT_INFO["ani"].path = <<"XPON", "ONU", "x", "ANI">>
    BY DEF OBJECT_INFO, Info, AniPath
  <2> QED
    BY <2>1, Literals, OnuChildFound, Zenon
<1>5. /\ Child("ani", <<"TC", "ONUActivation">>) = "ani_tc_onu_activation"
      /\ Child("ani", <<"TC", "PerformanceThresholds">>) = "ani_tc_performance_thresholds"
      /\ Child("ani", <<"TC", "Alarms">>) = "ani_tc_alarms"
  <2>1. /\ OBJECT_INFO["ani_tc_onu_activation"].path = Tc("ONUActivation")
        /\ OBJECT_INFO["ani_tc_performance_thresholds"].path = Tc("PerformanceThresholds")
        /\ OBJECT_INFO["ani_tc_alarms"].path = Tc("Alarms")
    BY DEF OBJECT_INFO, Info
  <2> QED
    BY <1>2, <2>1, TcChildFound, Zenon
<1>6. Child("ani", <<"Transceiver">>) = "transceiver"
  <2> DEFINE t == <<"Transceiver">>
             g == OBJECT_INFO["transceiver"].path
  <2>1. /\ Len(g) = 6 /\ g[3] = "x" /\ g[4] = "ANI" /\ g[5] = "x" /\ g[6] = "Transceiver"
    BY TransceiverPath, Zenon
  <2>2. t \in Path /\ Len(t) = 1 /\ t[1] = "Transceiver"
    BY OnePart, Literals
  <2> HIDE DEF t, g
  <2>3. Len(g) = 5 + Len(t) /\ \A k \in 1 .. Len(t) : g[5 + k] = t[k]
    BY <2>1, <2>2
  <2> QED
    BY <1>2, <2>1, <2>2, <2>3, AniChildFound, Zenon DEF t, g
<1>7. Child("ani", <<"TC", "GEM", "Port">>) = "gem_port"
  <2> DEFINE t == <<"TC", "GEM", "Port">>
             g == OBJECT_INFO["gem_port"].path
  <2>1. /\ Len(g) = 8 /\ g[3] = "x" /\ g[4] = "ANI" /\ g[5] = "x"
        /\ g[6] = "TC" /\ g[7] = "GEM" /\ g[8] = "Port"
    BY GemPortPath, Zenon
  <2>2. t \in Path /\ Len(t) = 3 /\ t[1] = "TC" /\ t[2] = "GEM" /\ t[3] = "Port"
    BY ThreeParts, Literals
  <2> HIDE DEF t, g
  <2>3. Len(g) = 5 + Len(t) /\ \A k \in 1 .. Len(t) : g[5 + k] = t[k]
    BY <2>1, <2>2
  <2> QED
    BY <1>2, <2>1, <2>2, <2>3, AniChildFound, Zenon DEF t, g
<1> HIDE DEF Child
<1>8. \A id \in object_id :
        /\ \A t \in OBJECT_INFO[id].templates :
             Child(id, t) # Unknown /\ OBJECT_INFO[Child(id, t)].key # NoKey
        /\ \A t \in OBJECT_INFO[id].singletons :
             Child(id, t) # Unknown /\ OBJECT_INFO[Child(id, t)].key = NoKey
  <2> TAKE id \in object_id
  <2>1. CASE id = "onu"
    BY <1>1, <1>2, <1>3, <1>4, <2>1
  <2>2. CASE id = "ani"
    BY <1>1, <1>2, <1>3, <1>5, <1>6, <1>7, <2>2
  <2>3. CASE id \notin {"onu", "ani"}
    BY <1>1, <2>3
  <2> QED
    BY <2>1, <2>2, <2>3
<1> QED
  BY <1>8, Zenon DEF ChildrenListed, Child
==============================================================================
