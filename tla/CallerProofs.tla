----------------------------- MODULE CallerProofs -----------------------------
(***************************************************************************)
(* Proofs about Telephony that go by who the caller is and by how often a  *)
(* note is sent.  First, what phone.Normalize computes: the five spellings *)
(* of a number come out as one, and two numbers as two.  That takes an     *)
(* induction over the characters, by the least counterexample.             *)
(***************************************************************************)
EXTENDS TelephonyProofs, WellFoundedInduction, SequenceTheorems

------------------------------------------------------------------------------
(* phone.Normalize *)

\* Induction over the natural numbers: a set of counterexamples has a least one.
LEMMA LeastNumber ==
    ASSUME NEW T \in SUBSET Nat, T # {}
    PROVE  \E m \in T : \A k \in T : m <= k
<1>1. PICK R : R = {ss \in Nat \X Nat : ss[1] < ss[2]}
  OBVIOUS
<1>2. OpToRel(<, Nat) = {ss \in Nat \X Nat : ss[1] < ss[2]}
  BY DEF OpToRel
<1>3. IsWellFoundedOn(R, Nat)
  BY <1>1, <1>2, NatLessThanWellFounded
<1>4. PICK m \in T : \A k \in T : ~ (<<k, m>> \in R)
  BY <1>3, WFMin
<1>5. ASSUME NEW k \in T PROVE m <= k
  <2>1. k \in Nat /\ m \in Nat
    OBVIOUS
  <2>2. ~ (k < m)
    BY <1>1, <1>4, <2>1
  <2>. QED
    BY <2>1, <2>2
<1>. QED
  BY <1>4, <1>5

\* f gathers the digits of s up to its n-th character.
Gathers(f, s, n) ==
    /\ f \in [0 .. n -> Seq(Nat)]
    /\ \A k \in 0 .. n :
          f[k] = IF k = 0 THEN <<>>
                 ELSE IF s[k] = Other THEN f[k - 1] ELSE Append(f[k - 1], s[k])

\* If there is one up to a character, there is one up to the next.
LEMMA GathersNext ==
    ASSUME NEW s \in Seq(Nat), NEW n \in 0 .. Len(s), n # 0,
           NEW f, Gathers(f, s, n - 1)
    PROVE  \E g : Gathers(g, s, n)
<1>1. n \in 1 .. Len(s) /\ s[n] \in Nat /\ n \in Nat
  OBVIOUS
<1>2. f[n - 1] \in Seq(Nat)
  BY <1>1 DEF Gathers
<1>3. PICK next : next = IF s[n] = Other THEN f[n - 1] ELSE Append(f[n - 1], s[n])
  OBVIOUS
<1>4. next \in Seq(Nat)
  <2>1. Append(f[n - 1], s[n]) \in Seq(Nat)
    BY <1>1, <1>2
  <2>. QED
    BY <1>2, <1>3, <2>1
<1>5. PICK g : g = [k \in 0 .. n |-> IF k = n THEN next ELSE f[k]]
  OBVIOUS
<1>6. \A k \in 0 .. n : k # n => k \in 0 .. n - 1
  BY <1>1
<1>7. g \in [0 .. n -> Seq(Nat)]
  BY <1>4, <1>5, <1>6 DEF Gathers
<1>8. ASSUME NEW k \in 0 .. n
      PROVE  g[k] = IF k = 0 THEN <<>>
                    ELSE IF s[k] = Other THEN g[k - 1] ELSE Append(g[k - 1], s[k])
  <2>1. CASE k = n
    <3>1. g[n - 1] = f[n - 1] /\ g[n] = next
      BY <1>1, <1>5
    <3>. QED
      BY <1>1, <1>3, <2>1, <3>1
  <2>2. CASE k # n
    <3>1. k \in 0 .. n - 1 /\ g[k] = f[k]
      BY <1>5, <1>6, <2>2
    <3>2. k # 0 => g[k - 1] = f[k - 1]
      BY <1>1, <1>5, <3>1
    <3>. QED
      BY <3>1, <3>2 DEF Gathers
  <2>. QED
    BY <2>1, <2>2
<1>9. Gathers(g, s, n)
  BY <1>7, <1>8 DEF Gathers
<1>. QED
  BY <1>9

\* So there is such an f for the whole of s.
LEMMA GathersAll ==
    ASSUME NEW s \in Seq(Nat)
    PROVE  \E f : Gathers(f, s, Len(s))
<1> DEFINE T == {n \in 0 .. Len(s) : ~ \E f : Gathers(f, s, n)}
<1>1. SUFFICES ASSUME T # {} PROVE FALSE
  <2>1. Len(s) \in 0 .. Len(s)
    OBVIOUS
  <2>. QED
    BY <2>1
<1>2. T \in SUBSET Nat
  OBVIOUS
<1>3. PICK m \in T : \A k \in T : m <= k
  <2> HIDE DEF T
  <2>. QED
  BY <1>1, <1>2, LeastNumber
<1>4. m # 0
  <2>1. PICK f : f = [k \in 0 .. 0 |-> <<>>]
    OBVIOUS
  <2>2. Gathers(f, s, 0)
    BY <2>1 DEF Gathers
  <2>. QED
    BY <2>2
<1>5. PICK f : Gathers(f, s, m - 1)
  BY <1>3, <1>4
<1>6. \E g : Gathers(g, s, m)
  BY <1>4, <1>5, GathersNext
<1>. QED
  BY <1>6

\* What Digits computes.
LEMMA DigitsGathered ==
    ASSUME NEW s \in Seq(Nat)
    PROVE  \E f : Gathers(f, s, Len(s)) /\ Digits(s) = f[Len(s)]
<1> DEFINE Def(f) == [n \in 0 .. Len(s) |->
            IF n = 0 THEN <<>>
            ELSE IF s[n] = Other THEN f[n - 1] ELSE Append(f[n - 1], s[n])]
<1>1. PICK g : Gathers(g, s, Len(s))
  BY GathersAll
<1>2. g = Def(g)
  BY <1>1 DEF Gathers
<1>3. PICK f : f = CHOOSE h : h = Def(h)
  OBVIOUS
<1>4. f = Def(f)
  BY <1>2, <1>3
<1>5. Digits(s) = f[Len(s)]
  BY <1>3 DEF Digits
<1>6. \A n \in 0 .. Len(s) : f[n] \in Seq(Nat)
  <2>1. PICK T : T = {n \in 0 .. Len(s) : f[n] \notin Seq(Nat)}
    OBVIOUS
  <2>2. T \in SUBSET Nat /\ \A n : n \in T <=> n \in 0 .. Len(s) /\ f[n] \notin Seq(Nat)
    BY <2>1
  <2>3. SUFFICES ASSUME T # {} PROVE FALSE
    BY <2>2
  <2>4. PICK m \in T : \A k \in T : m <= k
    BY <2>2, <2>3, LeastNumber
  <2>5. m \in 0 .. Len(s) /\ f[m] \notin Seq(Nat)
    BY <2>2
  <2>6. f[m] = IF m = 0 THEN <<>>
               ELSE IF s[m] = Other THEN f[m - 1] ELSE Append(f[m - 1], s[m])
    BY <1>4, <2>5
  <2>7. m # 0
    BY <2>5, <2>6
  <2>8. f[m - 1] \in Seq(Nat) /\ s[m] \in Nat
    <3>1. m \in Nat /\ Len(s) \in Nat
      BY <2>2
    <3>2. m - 1 \in 0 .. Len(s) /\ m \in 1 .. Len(s) /\ ~ (m <= m - 1)
      BY <2>5, <2>7, <3>1
    <3>3. m - 1 \notin T
      BY <2>4, <3>2
    <3>. QED
      BY <2>2, <3>2, <3>3
  <2>9. Append(f[m - 1], s[m]) \in Seq(Nat)
    BY <2>8
  <2>. QED
    BY <2>5, <2>6, <2>7, <2>8, <2>9
<1>7. Gathers(f, s, Len(s))
  BY <1>4, <1>6 DEF Gathers
<1>. QED
  BY <1>5, <1>7

\* Facts about sequences that the induction needs.
LEMMA AppendToConcat ==
    ASSUME NEW x \in Seq(Nat), NEW c \in Seq(Nat), NEW e \in Nat
    PROVE  Append(x \o c, e) = x \o Append(c, e)
<1>1. x \o c \in Seq(Nat) /\ <<e>> \in Seq(Nat)
  OBVIOUS
<1>2. Append(x \o c, e) = (x \o c) \o <<e>>
  BY <1>1, AppendIsConcat
<1>3. Append(c, e) = c \o <<e>>
  BY AppendIsConcat
<1>4. (x \o c) \o <<e>> = x \o (c \o <<e>>)
  BY <1>1, ConcatAssociative
<1>. QED
  BY <1>2, <1>3, <1>4

LEMMA PrefixGrows ==
    ASSUME NEW S, NEW b \in Seq(S), NEW m \in 1 .. Len(b)
    PROVE  /\ SubSeq(b, 1, m - 1) \in Seq(S) /\ b[m] \in S
           /\ SubSeq(b, 1, m) = Append(SubSeq(b, 1, m - 1), b[m])
<1>1. b[m] \in S /\ 1 \in 1 .. Len(b) /\ m \in 1 .. Len(b)
  OBVIOUS
<1>2. SubSeq(b, 1, m - 1) \in Seq(S)
  OBVIOUS
<1>3. SubSeq(b, 1, m) = SubSeq(b, 1, m - 1) \o <<b[m]>>
  BY <1>1, SubSeqRecursiveSecond
<1>. QED
  BY <1>1, <1>2, <1>3, AppendIsConcat

\* What is gathered step by step: nothing at first, then each digit.
LEMMA GathersStep ==
    ASSUME NEW f, NEW s, NEW n \in Nat, Gathers(f, s, n)
    PROVE  /\ f[0] = <<>>
           /\ \A k \in 1 .. n :
                 /\ s[k] = Other => f[k] = f[k - 1]
                 /\ s[k] # Other => f[k] = Append(f[k - 1], s[k])
           /\ \A k \in 0 .. n : f[k] \in Seq(Nat)
<1>1. 0 \in 0 .. n /\ \A k \in 1 .. n : k \in 0 .. n /\ k # 0
  OBVIOUS
<1>. QED
  BY <1>1 DEF Gathers

\* Induction over the digits after the p-th character.
LEMMA GathersTail ==
    ASSUME NEW s, NEW n \in Nat, NEW f, Gathers(f, s, n),
           NEW b \in Seq(Nat), NEW p \in Nat, n = p + Len(b),
           \A k \in 1 .. Len(b) : s[p + k] = b[k] /\ b[k] # Other
    PROVE  f[p] \in Seq(Nat) /\ f[n] = f[p] \o b
<1>1. /\ \A k \in 1 .. n : s[k] # Other => f[k] = Append(f[k - 1], s[k])
      /\ \A k \in 0 .. n : f[k] \in Seq(Nat)
  BY GathersStep
<1> PICK x : x = f[p]
  OBVIOUS
<1> PICK q \in Nat : q = Len(b)
  OBVIOUS
<1>2. x \in Seq(Nat)
  BY <1>1
<1>3. PICK T : T = {k \in 0 .. q : f[p + k] # x \o SubSeq(b, 1, k)}
  OBVIOUS
<1>4. \A k : k \in T <=> k \in 0 .. q /\ f[p + k] # x \o SubSeq(b, 1, k)
  BY ONLY <1>3
<1>5. T \in SUBSET Nat
  BY ONLY <1>4
<1>6. ASSUME NEW m \in T, \A k \in T : m <= k PROVE FALSE
  <2>1. m \in 0 .. q /\ m \in Nat /\ f[p + m] # x \o SubSeq(b, 1, m)
    <3>1. m \in 0 .. q /\ f[p + m] # x \o SubSeq(b, 1, m)
      BY ONLY <1>4, m \in T, Zenon
    <3>. QED
      BY ONLY <1>5, <3>1, m \in T
  <2>2. m # 0
    <3>1. SubSeq(b, 1, 0) = <<>>
      BY SubSeqEmpty
    <3>2. x \o <<>> = x /\ p + 0 = p
      BY <1>2, ConcatEmptySeq
    <3>3. f[p + 0] = x \o SubSeq(b, 1, 0)
      BY <3>1, <3>2, Zenon
    <3>. QED
      BY <2>1, <3>3, Zenon
  <2>3. m \in 1 .. q /\ m - 1 \in 0 .. q /\ ~ (m <= m - 1)
    BY <2>1, <2>2
  <2>4. f[p + (m - 1)] = x \o SubSeq(b, 1, m - 1)
    BY <1>4, <1>6, <2>3
  <2>5. f[p + m] = Append(f[p + (m - 1)], b[m])
    <3> PICK k : k = p + m
      OBVIOUS
    <3>1. k \in 1 .. n /\ k - 1 = p + (m - 1)
      BY <2>1, <2>3
    <3>2. s[k] = b[m] /\ b[m] # Other
      BY <2>3
    <3>. QED
      BY <1>1, <3>1, <3>2
  <2> PICK c : c = SubSeq(b, 1, m - 1)
    OBVIOUS
  <2> PICK e : e = b[m]
    OBVIOUS
  <2>6. c \in Seq(Nat) /\ e \in Nat /\ SubSeq(b, 1, m) = Append(c, e)
    BY <2>3, PrefixGrows
  <2>7. Append(x \o c, e) = x \o Append(c, e)
    BY <1>2, <2>6, AppendToConcat
  <2>. QED
    BY <2>1, <2>4, <2>5, <2>6, <2>7
<1>7. T = {}
  BY <1>5, <1>6, LeastNumber
<1>8. f[p + q] = x \o SubSeq(b, 1, q)
  <2>1. q \in 0 .. q
    OBVIOUS
  <2>. QED
    BY ONLY <1>4, <1>7, <2>1, Zenon
<1>9. SubSeq(b, 1, q) = b
  BY SubSeqFull
<1>. QED
  BY <1>2, <1>8, <1>9

\* The digits of a \o b, b having no other characters, are those of a and b.
LEMMA DigitsOfConcat ==
    ASSUME NEW a \in Seq(Nat), NEW b \in Seq(Nat),
           \A k \in 1 .. Len(b) : b[k] # Other
    PROVE  \E f : /\ Gathers(f, a, Len(a))
                  /\ Digits(a \o b) = f[Len(a)] \o b
<1> PICK s : s = a \o b
  OBVIOUS
<1> PICK p : p = Len(a)
  OBVIOUS
<1>0. PICK n : n = p + Len(b)
  OBVIOUS
<1>1. /\ s \in Seq(Nat) /\ Len(s) = n /\ p \in Nat /\ n \in Nat /\ p <= n
      /\ \A k \in 1 .. p : s[k] = a[k]
      /\ \A k \in 1 .. Len(b) : s[p + k] = b[k]
  BY <1>0
<1>2. PICK f : Gathers(f, s, n) /\ Digits(s) = f[n]
  BY <1>1, DigitsGathered
<1>3. PICK g : g = [k \in 0 .. p |-> f[k]]
  OBVIOUS
<1>4. Gathers(g, a, p)
  <2>1. g \in [0 .. p -> Seq(Nat)]
    <3>1. \A k \in 0 .. p : k \in 0 .. n
      BY <1>1
    <3>2. \A k \in 0 .. n : f[k] \in Seq(Nat)
      BY <1>1, <1>2, GathersStep
    <3>. QED
      BY ONLY <1>3, <3>1, <3>2
  <2>2. ASSUME NEW k \in 0 .. p
        PROVE  g[k] = IF k = 0 THEN <<>>
                      ELSE IF a[k] = Other THEN g[k - 1] ELSE Append(g[k - 1], a[k])
    <3>1. k \in 0 .. n /\ g[k] = f[k]
      BY <1>1, <1>3
    <3>2. k # 0 => g[k - 1] = f[k - 1] /\ a[k] = s[k]
      BY <1>1, <1>3
    <3>. QED
      BY <1>2, <3>1, <3>2 DEF Gathers
  <2>. QED
    BY <2>1, <2>2 DEF Gathers
<1>5. f[n] = f[p] \o b
  <2>1. \A k \in 1 .. Len(b) : s[p + k] = b[k] /\ b[k] # Other
    BY <1>1
  <2>. QED
    BY ONLY <1>0, <1>1, <1>2, <2>1, b \in Seq(Nat), GathersTail
<1>6. g[p] = f[p]
  BY <1>1, <1>3
<1>. QED
  BY <1>2, <1>4, <1>5, <1>6

\* A number is a sequence of nine digits.
LEMMA NumberIsSeq ==
    ASSUME NEW number \in [1 .. 9 -> 0 .. 9]
    PROVE  /\ number \in Seq(Nat) /\ Len(number) = 9
           /\ \A k \in 1 .. Len(number) : number[k] # Other
<1>1. \A i \in 1 .. 9 : number[i] \in 0 .. 9 /\ number[i] \in Nat
  OBVIOUS
<1> PICK s : s = SubSeq(number, 1, 9)
  OBVIOUS
<1>2. s \in Seq(Nat) /\ Len(s) = 9 /\ \A i \in 1 .. 9 : s[i] = number[i]
  BY <1>1, SubSeqProperties
<1>3. s \in [1 .. 9 -> Nat]
  BY <1>2, LenProperties
<1>4. s = number
  BY <1>2, <1>3
<1>5. ASSUME NEW k \in 1 .. 9 PROVE number[k] # 10
  BY <1>1
<1>. QED
  BY <1>2, <1>4, <1>5 DEF Other

\* Tuples as the loop builds them.
LEMMA Pairs ==
    ASSUME NEW x \in Nat, NEW y \in Nat
    PROVE  Append(<<x>>, y) = <<x, y>>
<1> PICK t : t = Append(<<x>>, y)
  OBVIOUS
<1>1. t \in Seq(Nat) /\ Len(t) = 2 /\ t[1] = x /\ t[2] = y
  OBVIOUS
<1>2. <<x, y>> \in Seq(Nat) /\ Len(<<x, y>>) = 2
  OBVIOUS
<1>3. \A i \in 1 .. 2 : t[i] = <<x, y>>[i]
  BY <1>1
<1>. QED
  BY <1>1, <1>2, <1>3, SeqEqual

LEMMA Triples ==
    ASSUME NEW x \in Nat, NEW y \in Nat, NEW z \in Nat
    PROVE  Append(<<x, y>>, z) = <<x, y, z>>
<1> PICK t : t = Append(<<x, y>>, z)
  OBVIOUS
<1>1. t \in Seq(Nat) /\ Len(t) = 3 /\ t[1] = x /\ t[2] = y /\ t[3] = z
  OBVIOUS
<1>2. <<x, y, z>> \in Seq(Nat) /\ Len(<<x, y, z>>) = 3
  OBVIOUS
<1>3. \A i \in 1 .. 3 : t[i] = <<x, y, z>>[i]
  BY <1>1
<1>. QED
  BY <1>1, <1>2, <1>3, SeqEqual

LEMMA AppendsAreTuples ==
    /\ Append(<<>>, 8) = <<8>> /\ Append(<<8>>, 0) = <<8, 0>>
    /\ Append(<<>>, 3) = <<3>> /\ Append(<<3>>, 8) = <<3, 8>>
    /\ Append(<<3, 8>>, 0) = <<3, 8, 0>>
<1>1. Append(<<>>, 8) = <<8>> /\ Append(<<>>, 3) = <<3>>
  OBVIOUS
<1>2. Append(<<8>>, 0) = <<8, 0>>
  BY Pairs
<1>3. Append(<<3>>, 8) = <<3, 8>>
  BY Pairs
<1>4. Append(<<3, 8>>, 0) = <<3, 8, 0>>
  BY Triples
<1>. QED
  BY <1>1, <1>2, <1>3, <1>4, Zenon

\* The digits of a prefix, one character after the other.
LEMMA DigitsOfPrefixes ==
    ASSUME NEW f
    PROVE  /\ Gathers(f, <<>>, 0) => f[0] = <<>>
           /\ Gathers(f, <<0>>, 1) => f[1] = <<0>>
           /\ Gathers(f, <<8, 0>>, 2) => f[2] = <<8, 0>>
           /\ Gathers(f, <<3, 8, 0>>, 3) => f[3] = <<3, 8, 0>>
           /\ Gathers(f, <<Other, 3, 8, 0, Other>>, 5) => f[5] = <<3, 8, 0>>
<1>1. ASSUME Gathers(f, <<>>, 0) PROVE f[0] = <<>>
  BY <1>1, GathersStep
<1>2. ASSUME Gathers(f, << 0 >>, 1) PROVE f[1] = << 0 >>
  <2>1. f[0] = <<>> /\ f[1] = Append(f[0], 0)
    BY <1>2, GathersStep DEF Other
  <2>. QED
    BY <2>1
<1>3. ASSUME Gathers(f, <<8, 0>>, 2) PROVE f[2] = <<8, 0>>
  <2> PICK s : s = <<8, 0>>
    OBVIOUS
  <2>1. s[1] = 8 /\ s[2] = 0
    OBVIOUS
  <2>2. /\ f[0] = <<>>
        /\ \A k \in 1 .. 2 : s[k] # Other => f[k] = Append(f[k - 1], s[k])
    BY <1>3, GathersStep
  <2>3. f[1] = Append(f[0], 8)
    BY <2>1, <2>2 DEF Other
  <2>4. f[2] = Append(f[1], 0)
    BY <2>1, <2>2 DEF Other
  <2>. QED
    BY <2>2, <2>3, <2>4, AppendsAreTuples
<1>4. ASSUME Gathers(f, <<3, 8, 0>>, 3) PROVE f[3] = <<3, 8, 0>>
  <2> PICK s : s = <<3, 8, 0>>
    OBVIOUS
  <2>1. s[1] = 3 /\ s[2] = 8 /\ s[3] = 0
    OBVIOUS
  <2>2. /\ f[0] = <<>>
        /\ \A k \in 1 .. 3 : s[k] # Other => f[k] = Append(f[k - 1], s[k])
    BY <1>4, GathersStep
  <2>3. f[1] = Append(f[0], 3)
    BY <2>1, <2>2 DEF Other
  <2>4. f[2] = Append(f[1], 8)
    BY <2>1, <2>2 DEF Other
  <2>5. f[3] = Append(f[2], 0)
    BY <2>1, <2>2 DEF Other
  <2>. QED
    BY <2>2, <2>3, <2>4, <2>5, AppendsAreTuples
<1>5. ASSUME Gathers(f, <<Other, 3, 8, 0, Other>>, 5) PROVE f[5] = <<3, 8, 0>>
  <2> PICK s : s = <<Other, 3, 8, 0, Other>>
    OBVIOUS
  <2>1. s[1] = Other /\ s[2] = 3 /\ s[3] = 8 /\ s[4] = 0 /\ s[5] = Other
    OBVIOUS
  <2>2. /\ f[0] = <<>>
        /\ \A k \in 1 .. 5 : s[k] # Other => f[k] = Append(f[k - 1], s[k])
        /\ \A k \in 1 .. 5 : s[k] = Other => f[k] = f[k - 1]
    BY <1>5, GathersStep
  <2>3. f[1] = <<>>
    BY <2>1, <2>2
  <2>4. f[2] = Append(f[1], 3)
    BY <2>1, <2>2 DEF Other
  <2>5. f[3] = Append(f[2], 8)
    BY <2>1, <2>2 DEF Other
  <2>6. f[4] = Append(f[3], 0)
    BY <2>1, <2>2 DEF Other
  <2>7. f[5] = f[4]
    BY <2>1, <2>2
  <2>. QED
    BY <2>3, <2>4, <2>5, <2>6, <2>7, AppendsAreTuples
<1>. QED
  BY <1>1, <1>2, <1>3, <1>4, <1>5

\* How long a number is with its prefix, as Normalize looks at it.
LEMMA ConcatLength ==
    ASSUME NEW number \in Seq(Nat), Len(number) = 9, NEW a \in Seq(Nat)
    PROVE  /\ Len(a) = 1 => Len(a \o number) = 10
           /\ Len(a) = 2 => Len(a \o number) = 11
           /\ Len(a) = 3 => Len(a \o number) = 12
<1>1. Len(a \o number) = Len(a) + Len(number)
  BY ConcatProperties
<1>2. 1 + 9 = 10 /\ 2 + 9 = 11 /\ 3 + 9 = 12
  OBVIOUS
<1>. QED
  BY <1>1, <1>2, Zenon

\* What is left of a number spelled in one of the five ways.
LEMMA DigitsOfSpelling ==
    ASSUME NEW number \in [1 .. 9 -> 0 .. 9]
    PROVE  /\ Digits(<<>> \o number) = number
           /\ Digits(<<0>> \o number) = <<0>> \o number
           /\ Digits(<<8, 0>> \o number) = <<8, 0>> \o number
           /\ Digits(<<3, 8, 0>> \o number) = <<3, 8, 0>> \o number
           /\ Digits(<<Other, 3, 8, 0, Other>> \o number) = <<3, 8, 0>> \o number
<1>1. /\ number \in Seq(Nat) /\ Len(number) = 9
      /\ \A k \in 1 .. Len(number) : number[k] # Other
  BY NumberIsSeq
<1>2. ASSUME NEW a \in Seq(Nat)
      PROVE  \E f : Gathers(f, a, Len(a)) /\ Digits(a \o number) = f[Len(a)] \o number
  BY <1>1, DigitsOfConcat
<1>3. Digits(<<>> \o number) = number
  <2>1. <<>> \in Seq(Nat) /\ Len(<<>>) = 0 /\ <<>> \o number = number
    BY <1>1
  <2>. QED
    BY <1>2, <2>1, DigitsOfPrefixes
<1>4. Digits(<<0>> \o number) = <<0>> \o number
  <2>1. <<0>> \in Seq(Nat) /\ Len(<<0>>) = 1
    OBVIOUS
  <2>. QED
    BY <1>2, <2>1, DigitsOfPrefixes
<1>5. Digits(<<8, 0>> \o number) = <<8, 0>> \o number
  <2>1. <<8, 0>> \in Seq(Nat) /\ Len(<<8, 0>>) = 2
    OBVIOUS
  <2>. QED
    BY <1>2, <2>1, DigitsOfPrefixes
<1>6. Digits(<<3, 8, 0>> \o number) = <<3, 8, 0>> \o number
  <2>1. <<3, 8, 0>> \in Seq(Nat) /\ Len(<<3, 8, 0>>) = 3
    OBVIOUS
  <2>. QED
    BY <1>2, <2>1, DigitsOfPrefixes
<1>7. Digits(<<Other, 3, 8, 0, Other>> \o number) = <<3, 8, 0>> \o number
  <2>1. /\ <<Other, 3, 8, 0, Other>> \in Seq(Nat)
        /\ Len(<<Other, 3, 8, 0, Other>>) = 5
    BY DEF Other
  <2>. QED
    BY <1>2, <2>1, DigitsOfPrefixes
<1>. QED
  BY <1>3, <1>4, <1>5, <1>6, <1>7

\* Normalize "maps the common local spellings to 380XXXXXXXXX": the five ways
\* that its comment lists, of any number, come out as the same.
THEOREM SpellingsAgree ==
    ASSUME NEW number \in [1 .. 9 -> 0 .. 9], NEW spelled \in Spellings(number)
    PROVE  Normalize(spelled) = <<3, 8, 0>> \o number
<1>1. number \in Seq(Nat) /\ Len(number) = 9
  BY NumberIsSeq
<1>2. CASE spelled = <<>> \o number
  <2>1. Digits(spelled) = number
    BY <1>2, DigitsOfSpelling
  <2>. QED
    BY <1>1, <2>1 DEF Normalize
<1>3. CASE spelled = <<0>> \o number
  <2>1. Digits(spelled) = <<0>> \o number
    BY <1>3, DigitsOfSpelling
  <2>2. Len(<<0>> \o number) = 10
    <3>1. <<0>> \in Seq(Nat) /\ Len(<<0>>) = 1
      OBVIOUS
    <3>. QED
      BY <1>1, <3>1, ConcatLength, Zenon
  <2>3. IsPrefix(<<0>>, <<0>> \o number)
    BY <1>1, <2>2 DEF IsPrefix
  <2>4. <<3, 8>> \o (<<0>> \o number) = <<3, 8, 0>> \o number
    BY <1>1
  <2>. QED
    BY <2>1, <2>2, <2>3, <2>4 DEF Normalize
<1>4. CASE spelled = <<8, 0>> \o number
  <2>1. Digits(spelled) = <<8, 0>> \o number
    BY <1>4, DigitsOfSpelling
  <2>2. Len(<<8, 0>> \o number) = 11
    <3>1. <<8, 0>> \in Seq(Nat) /\ Len(<<8, 0>>) = 2
      OBVIOUS
    <3>. QED
      BY <1>1, <3>1, ConcatLength, Zenon
  <2>3. IsPrefix(<<8, 0>>, <<8, 0>> \o number)
    BY <1>1, <2>2 DEF IsPrefix
  <2>4. <<3>> \o (<<8, 0>> \o number) = <<3, 8, 0>> \o number
    BY <1>1
  <2>. QED
    BY <2>1, <2>2, <2>3, <2>4 DEF Normalize
<1>5. CASE \/ spelled = <<Other, 3, 8, 0, Other>> \o number
           \/ spelled = <<3, 8, 0>> \o number
  <2>1. Digits(spelled) = <<3, 8, 0>> \o number
    BY <1>5, DigitsOfSpelling
  <2>2. Len(<<3, 8, 0>> \o number) = 12
    <3>1. <<3, 8, 0>> \in Seq(Nat) /\ Len(<<3, 8, 0>>) = 3
      OBVIOUS
    <3>. QED
      BY <1>1, <3>1, ConcatLength, Zenon
  <2>3. IsPrefix(<<3, 8, 0>>, <<3, 8, 0>> \o number)
    BY <1>1, <2>2 DEF IsPrefix
  <2>. QED
    BY <2>1, <2>2, <2>3 DEF Normalize
<1>. QED
  BY <1>2, <1>3, <1>4, <1>5 DEF Spellings

\* Callers with different numbers are different callers.
LEMMA NumbersDiffer ==
    ASSUME NEW m \in [1 .. 9 -> 0 .. 9], NEW n \in [1 .. 9 -> 0 .. 9],
           <<3, 8, 0>> \o m = <<3, 8, 0>> \o n
    PROVE  m = n
<1>1. m \in Seq(Nat) /\ n \in Seq(Nat)
  BY NumberIsSeq
<1>2. <<3, 8, 0>> \in Seq(Nat)
  OBVIOUS
<1>3. \A s, t, v \in Seq(Nat) : s \o t = s \o v => t = v
  BY ConcatSimplifications
<1>. QED
  BY <1>1, <1>2, <1>3, Zenon
------------------------------------------------------------------------------
(* The inductive invariant, on top of that of TelephonyProofs *)

\* The number of a call as the tables hold it.
PhoneOf(call) == Normalize(Caller[call])

\* However the number was spelled, the row of a call has its caller's, and so
\* has the lead that the call has produced.
WhoCalled ==
    /\ \A c \in DOMAIN calls : calls[c].phone = PhoneOf(c)
    /\ \A k \in DOMAIN leads :
          \E c \in CallIds : leads[k].ext = LeadId(c) /\ leads[k].phone = PhoneOf(c)

\* A job that is not given up has an attempt left.
AttemptsInv ==
    \A i \in DOMAIN outbox :
        /\ outbox[i].attempts <= MaxAttempts
        /\ outbox[i].state = "pending" => outbox[i].attempts < MaxAttempts

\* The copies that job i itself accounts for, and those any job may have had
\* before it was cut short or requeued.
Underway(i) == pc = "executed" /\ Current(i)
Credit(i) == outbox[i].attempts + (IF outbox[i].state = "done" \/ Underway(i) THEN 1 ELSE 0)
Used == spent.aborts + spent.requeues * MaxAttempts

CopiesInv ==
    \A i \in DOMAIN outbox :
        outbox[i].kind = "note" => Len(notes[outbox[i].key[2]]) <= Credit(i) + Used

CallerInv == CallInv /\ TypeOK /\ WhoCalled /\ AttemptsInv /\ CopiesInv

\* What TypeOK says beyond the invariant of TelephonyProofs.
RestTyped ==
    /\ orders \in [DOMAIN orders -> Nat] /\ DOMAIN orders \subseteq ExternalIds
    /\ batch \in [DOMAIN batch -> Job]
    /\ dealId \in Nat
    /\ late \in [ExternalIds -> Nat] /\ lapses \in [ExternalIds -> Nat]
    /\ spent \in [aborts : Nat, requeues : Nat, late : Nat]
    /\ calls \in [DOMAIN calls ->
                     [phone : Phones, kind : {"missed", "answered"}, at : Nat]]
    /\ leads \in Seq([ext : ExternalIds, phone : Phones, at : Nat])

\* With the invariant of TelephonyProofs it makes up TypeOK, before a step and
\* after one.
LEMMA TypedByParts ==
    /\ CallInv /\ RestTyped => TypeOK
    /\ TypeOK => RestTyped
<1>1. CallInv => now \in Nat /\ DOMAIN calls \subseteq CallIds
  BY DEF CallInv, LeadsInv, CallsInv
<1>. QED
  BY <1>1 DEF CallInv, TypeInv, RestTyped, TypeOK

LEMMA TypedAgain ==
    ASSUME CallInv', RestTyped' PROVE TypeOK'
<1>1. now' \in Nat /\ DOMAIN calls' \subseteq CallIds
  BY DEF CallInv, LeadsInv, CallsInv
<1>. QED
  BY <1>1 DEF CallInv, TypeInv, RestTyped, TypeOK

------------------------------------------------------------------------------
(* Counting copies *)

LEMMA UsedIsNat ==
    ASSUME TypeOK PROVE Used \in Nat
<1>1. spent.aborts \in Nat /\ spent.requeues \in Nat /\ MaxAttempts \in Nat
  BY OutboxAssumption DEF TypeOK
<1>2. spent.requeues * MaxAttempts \in Nat
  BY <1>1
<1>. QED
  BY <1>1, <1>2 DEF Used

LEMMA CreditIsNat ==
    ASSUME TypeOK, NEW i \in DOMAIN outbox
    PROVE  /\ outbox[i].attempts \in Nat
           /\ Credit(i) \in outbox[i].attempts .. outbox[i].attempts + 1
<1>1. outbox[i] \in Job
  BY DEF TypeOK
<1>. QED
  BY <1>1 DEF Credit, Job

\* The note of a note job is that of the call in its key.
LEMMA NoteJobHasCall ==
    ASSUME CallInv, NEW i \in DOMAIN outbox, outbox[i].kind = "note"
    PROVE  /\ outbox[i].key[2] \in CallIds
           /\ outbox[i].key = NoteKey(outbox[i].key[2])
           /\ notes[outbox[i].key[2]] \in Seq(Nat)
<1>1. PICK call \in CallIds : outbox[i].key = NoteKey(call)
  BY DEF CallInv, CallsInv, JobOfCall
<1>2. notes \in [CallIds -> Seq(Nat)]
  BY DEF CallInv, TypeInv
<1>. QED
  BY <1>1, <1>2, CallKeys

\* A call has one note job.
LEMMA OneNoteJob ==
    ASSUME CallInv, NEW i \in DOMAIN outbox, outbox[i].kind = "note",
           NEW k \in DOMAIN outbox, outbox[k].kind = "note",
           outbox[i].key[2] = outbox[k].key[2]
    PROVE  i = k
<1>1. PICK call \in CallIds : call = outbox[i].key[2]
  BY NoteJobHasCall
<1>2. i \in JobsOfCall(call) /\ k \in JobsOfCall(call)
  BY <1>1, NoteJobHasCall DEF JobsOfCall
<1>. QED
  BY <1>2 DEF CallInv, CallsInv

\* The jobs and the copies being the same, it is enough that none of the note
\* jobs accounts for less than before.
LEMMA CopiesKept ==
    ASSUME CallerInv, CallInv', TypeOK', SameJobs, UNCHANGED notes,
           \A i \in DOMAIN outbox :
              outbox[i].kind = "note" => Credit(i) + Used <= Credit(i)' + Used'
    PROVE  CopiesInv'
<1> SUFFICES ASSUME NEW i \in DOMAIN outbox', outbox'[i].kind = "note"
             PROVE  Len(notes'[outbox'[i].key[2]]) <= Credit(i)' + Used'
  BY DEF CopiesInv
<1>1. i \in DOMAIN outbox /\ outbox[i].kind = "note" /\ outbox'[i].key = outbox[i].key
  BY DEF SameJobs
<1>2. Len(notes[outbox[i].key[2]]) <= Credit(i) + Used
  BY <1>1 DEF CallerInv, CopiesInv
<1>3. Credit(i) \in Nat /\ Used \in Nat
  <2>1. TypeOK
    BY DEF CallerInv
  <2>. QED
    BY <1>1, <2>1, UsedIsNat, CreditIsNat
<1>4. Credit(i)' \in Nat /\ Used' \in Nat
  <2>1. outbox' \in Seq(Job)
    BY DEF TypeOK
  <2>2. outbox'[i] \in Job
    BY <2>1
  <2>3. Credit(i)' \in Nat
    BY <2>2 DEF Credit, Job
  <2>4. spent' \in [aborts : Nat, requeues : Nat, late : Nat] /\ MaxAttempts \in Nat
    BY OutboxAssumption DEF TypeOK
  <2>5. spent'.requeues * MaxAttempts \in Nat /\ spent'.aborts \in Nat
    BY <2>4
  <2>. QED
    BY <2>3, <2>5 DEF Used
<1>5. Len(notes[outbox[i].key[2]]) \in Nat
  <2>1. notes[outbox[i].key[2]] \in Seq(Nat)
    BY <1>1, NoteJobHasCall DEF CallerInv
  <2>. QED
    BY <2>1
<1>. QED
  BY <1>1, <1>2, <1>3, <1>4, <1>5

\* The worker has settled a job: an attempt that may have left a copy is counted
\* or the job is done.
LEMMA SettledCopies ==
    ASSUME CallerInv, CallInv', TypeOK', NEW i, Current(i), NEW s, Rewritten(i, s),
           Advance(i), UNCHANGED notes, Used' = Used,
           outbox[i].kind = "note" =>
              \/ outbox'[i].attempts = outbox[i].attempts + 1
              \/ outbox'[i].attempts = outbox[i].attempts /\ (pc = "executed" => s = "done")
    PROVE  CopiesInv'
<1>1. TypeInv /\ TypeOK
  BY DEF CallerInv, CallInv
<1>2. SameJobs /\ pc' # "executed"
  BY DEF Rewritten, Advance
<1>3. i \in DOMAIN outbox /\ outbox[i].state = "pending"
  BY <1>1, CurrentJob
<1>4. Used \in Nat
  BY <1>1, UsedIsNat
<1>5. ASSUME NEW k \in DOMAIN outbox, outbox[k].kind = "note" PROVE Credit(k) <= Credit(k)'
  <2>1. outbox[k].attempts \in Nat
    BY <1>1, CreditIsNat
  <2>2. CASE k = i
    BY <1>2, <1>3, <1>5, <2>1, <2>2 DEF Credit, Underway, Rewritten
  <2>3. CASE k # i
    <3>1. ~Underway(k) /\ outbox'[k] = outbox[k]
      BY <1>1, <2>3, CurrentUnique DEF Underway, Rewritten
    <3>. QED
      BY <1>2, <2>1, <3>1 DEF Credit, Underway
  <2>. QED
    BY <2>2, <2>3
<1>6. \A k \in DOMAIN outbox :
         outbox[k].kind = "note" => Credit(k) + Used <= Credit(k)' + Used'
  <2> SUFFICES ASSUME NEW k \in DOMAIN outbox, outbox[k].kind = "note"
               PROVE  Credit(k) + Used <= Credit(k)' + Used'
    OBVIOUS
  <2>1. Credit(k) \in Nat /\ Credit(k) <= Credit(k)'
    BY <1>1, <1>5, CreditIsNat
  <2>2. Credit(k)' \in Nat
    <3>1. outbox' \in Seq(Job) /\ k \in DOMAIN outbox'
      BY <1>2 DEF TypeOK, SameJobs
    <3>2. outbox'[k] \in Job
      BY <3>1
    <3>. QED
      BY <3>2 DEF Credit, Job
  <2>. QED
    BY <1>4, <2>1, <2>2
<1>. QED
  BY <1>2, <1>6, CopiesKept

\* A step that is not the worker's, or asks for something: no row that counts
\* here changes, and what is under way stays so.
LEMMA AsideCopies ==
    ASSUME CallerInv, CallInv', TypeOK', UNCHANGED <<outbox, notes>>, Used' >= Used,
           \A i \in DOMAIN outbox :
              (outbox[i].kind = "note" /\ Underway(i)) => (Underway(i)' \/ Used' >= Used + 1)
    PROVE  CopiesInv'
<1>1. TypeOK
  BY DEF CallerInv
<1>2. SameJobs
  BY DEF SameJobs
<1>3. Used \in Nat /\ Used' \in Nat
  <2>1. Used \in Nat
    BY <1>1, UsedIsNat
  <2>2. spent' \in [aborts : Nat, requeues : Nat, late : Nat] /\ MaxAttempts \in Nat
    BY OutboxAssumption DEF TypeOK
  <2>3. spent'.requeues * MaxAttempts \in Nat /\ spent'.aborts \in Nat
    BY <2>2
  <2>. QED
    BY <2>1, <2>3 DEF Used
<1>4. ASSUME NEW i \in DOMAIN outbox, outbox[i].kind = "note"
      PROVE  Credit(i) + Used <= Credit(i)' + Used'
  <2>1. outbox[i].attempts \in Nat /\ outbox'[i] = outbox[i]
    BY <1>1, CreditIsNat
  <2>. QED
    BY <1>3, <1>4, <2>1 DEF Credit
<1>. QED
  BY <1>2, <1>4, CopiesKept

LEMMA SameUsed ==
    ASSUME TypeOK, spent'.aborts = spent.aborts, spent'.requeues = spent.requeues
    PROVE  Used' = Used
  BY DEF Used

------------------------------------------------------------------------------
(* Every step keeps the invariant *)

\* A CRM id that is stored is a number.
LEMMA OrdersTyped ==
    ASSUME TypeOK, NEW ext, NEW id \in Nat, orders' = SetSDOrderID(orders, ext, id)
    PROVE  orders' \in [DOMAIN orders' -> Nat] /\ DOMAIN orders' \subseteq ExternalIds
  BY DEF TypeOK, SetSDOrderID

LEMMA SettledTyped ==
    ASSUME TypeOK, NEW i, Advance(i)
    PROVE  batch' \in [DOMAIN batch' -> Job] /\ dealId' \in Nat
  BY DEF TypeOK, Advance, NoId

LEMMA WhoCalledStays ==
    ASSUME WhoCalled, UNCHANGED <<calls, leads>>
    PROVE  WhoCalled'
  BY DEF WhoCalled, PhoneOf

\* How the worker's answers change a row: an attempt is counted or, unless the
\* CRM had been asked to act, the job is as it was; a done one has its outcome.
LEMMA SettledRow ==
    ASSUME CallInv, NEW i,
           \/ NoteWaits(i) \/ NoteOrphaned(i) \/ NoteAnswered(i)
           \/ LookupFound(i) \/ LookupFailed(i) \/ CreateAnswered(i)
           \/ CreateTimedOut(i) \/ CallRefused(i) \/ CallLost(i)
    PROVE  /\ Current(i) /\ Advance(i)
           /\ \E s : /\ Rewritten(i, s)
                     /\ \/ /\ outbox'[i].attempts = outbox[i].attempts + 1
                           /\ s = "pending" => outbox[i].attempts + 1 < MaxAttempts
                        \/ /\ outbox'[i].attempts = outbox[i].attempts
                           /\ pc = "executed" => s = "done"
<1>1. TypeInv
  BY DEF CallInv
<1>2. Current(i)
  BY DEF NoteWaits, NoteOrphaned, NoteAnswered, LookupFound, LookupFailed,
         CreateAnswered, CreateTimedOut, CallRefused, CallLost, AtNote, AtCreate
<1>3. ASSUME Retry(i) PROVE /\ Advance(i)
                            /\ outbox'[i].attempts = outbox[i].attempts + 1
                            /\ \/ /\ Rewritten(i, "pending")
                                  /\ outbox[i].attempts + 1 < MaxAttempts
                               \/ Rewritten(i, "failed")
  BY <1>1, <1>2, <1>3, RetryWrites
<1>4. ASSUME Fail(i) PROVE /\ Advance(i) /\ Rewritten(i, "failed")
                           /\ outbox'[i].attempts = outbox[i].attempts
  BY <1>1, <1>2, <1>4, FailWrites
<1>5. CASE LookupFound(i) \/ CreateAnswered(i) \/ NoteAnswered(i)
  <2>1. /\ Advance(i) /\ Rewritten(i, "done")
        /\ outbox'[i].attempts = outbox[i].attempts
    BY <1>1, <1>2, <1>5, FinishWrites DEF LookupFound, CreateAnswered, NoteAnswered
  <2>. QED
    BY <1>2, <2>1
<1>6. CASE CreateTimedOut(i) \/ CallLost(i)
  <2>1. Retry(i)
    BY <1>6 DEF CreateTimedOut, CallLost
  <2>. QED
    BY <1>2, <1>3, <2>1
<1>7. CASE LookupFailed(i) \/ CallRefused(i)
  <2>1. (Retry(i) \/ Fail(i)) /\ pc # "executed"
    BY <1>7 DEF LookupFailed, CallRefused, Failed
  <2>. QED
    BY <1>2, <1>3, <1>4, <2>1
<1>8. CASE NoteWaits(i)
  <2>1. /\ Advance(i) /\ Rewritten(i, "pending") /\ pc # "executed"
        /\ outbox'[i].attempts = outbox[i].attempts
    BY <1>1, <1>2, <1>8, WaitWrites DEF NoteWaits
  <2>. QED
    BY <1>2, <2>1
<1>9. CASE NoteOrphaned(i)
  <2>1. Fail(i) /\ pc # "executed"
    BY <1>9 DEF NoteOrphaned
  <2>. QED
    BY <1>2, <1>4, <2>1
<1>. QED
  BY <1>5, <1>6, <1>7, <1>8, <1>9

LEMMA SettlesCaller ==
    ASSUME CallerInv, CallInv', NEW i,
           \/ NoteWaits(i) \/ NoteOrphaned(i) \/ NoteAnswered(i)
           \/ /\ LookupFound(i) \/ LookupFailed(i) \/ CreateAnswered(i)
                 \/ CreateTimedOut(i) \/ CallRefused(i) \/ CallLost(i)
              /\ UNCHANGED telephonyVars
    PROVE  CallerInv'
<1>1. TypeInv /\ TypeOK /\ CallInv /\ WhoCalled /\ AttemptsInv
  BY DEF CallerInv, CallInv
<1>2. UNCHANGED <<calls, leads, now, notes>>
  BY DEF NoteWaits, NoteOrphaned, NoteAnswered, telephonyVars
<1>3. PICK s : /\ Current(i) /\ Advance(i) /\ Rewritten(i, s)
               /\ \/ /\ outbox'[i].attempts = outbox[i].attempts + 1
                     /\ s = "pending" => outbox[i].attempts + 1 < MaxAttempts
                  \/ /\ outbox'[i].attempts = outbox[i].attempts
                     /\ pc = "executed" => s = "done"
  BY <1>1, SettledRow
<1>4. /\ i \in DOMAIN outbox /\ outbox[i].state = "pending" /\ batch[i] = outbox[i]
      /\ outbox[i].attempts \in Nat /\ outbox[i].payload.ext \in ExternalIds
  BY <1>1, <1>3, CurrentJob DEF Job
<1>5. /\ late' \in [ExternalIds -> Nat] /\ lapses' \in [ExternalIds -> Nat]
      /\ spent' \in [aborts : Nat, requeues : Nat, late : Nat]
      /\ Used' = Used
  <2>1. CASE CreateTimedOut(i)
    <3>1. /\ late' = [late EXCEPT ![Ext(i)] = @ + 1]
          /\ lapses' = [lapses EXCEPT ![Ext(i)] = @ + 1]
          /\ spent' = [spent EXCEPT !.late = @ + 1]
          /\ Ext(i) \in ExternalIds
      BY <1>4, <2>1 DEF CreateTimedOut, Lapse, Ext
    <3>2. late' \in [ExternalIds -> Nat] /\ lapses' \in [ExternalIds -> Nat]
      BY <1>1, <3>1 DEF TypeOK
    <3>3. /\ spent' \in [aborts : Nat, requeues : Nat, late : Nat]
          /\ spent'.aborts = spent.aborts /\ spent'.requeues = spent.requeues
      <4>1. spent \in [aborts : Nat, requeues : Nat, late : Nat]
        BY <1>1 DEF TypeOK
      <4>. QED
        BY ONLY <3>1, <4>1
    <3>. QED
      BY <1>1, <3>2, <3>3, SameUsed
  <2>2. CASE ~CreateTimedOut(i)
    <3>1. UNCHANGED <<late, lapses, spent>>
      BY <2>2 DEF NoteWaits, NoteOrphaned, NoteAnswered, LookupFound, LookupFailed,
                  CreateAnswered, CallRefused, CallLost, crmVars
    <3>. QED
      BY <1>1, <3>1, SameUsed DEF TypeOK
  <2>. QED
    BY <2>1, <2>2
<1>6. orders' \in [DOMAIN orders' -> Nat] /\ DOMAIN orders' \subseteq ExternalIds
  <2>1. CASE LookupFound(i) \/ CreateAnswered(i)
    <3>1. PICK id \in Nat : orders' = SetSDOrderID(orders, Ext(i), id)
      <4>1. CASE LookupFound(i)
        <5>1. PICK id \in DOMAIN deals : orders' = SetSDOrderID(orders, Ext(i), id)
          BY <4>1 DEF LookupFound
        <5>2. id \in Nat
          BY <1>1, <5>1 DEF TypeOK
        <5>. QED
          BY <5>1, <5>2
      <4>2. CASE CreateAnswered(i)
        BY <1>1, <4>2 DEF CreateAnswered, TypeOK
      <4>. QED
        BY <2>1, <4>1, <4>2
    <3>2. PICK ext : ext = Ext(i)
      OBVIOUS
    <3>. QED
      BY <1>1, <3>1, <3>2, OrdersTyped
  <2>2. CASE ~(LookupFound(i) \/ CreateAnswered(i))
    <3>1. orders' = orders
      BY <2>2 DEF NoteWaits, NoteOrphaned, NoteAnswered, LookupFailed,
                  CreateTimedOut, CallRefused, CallLost
    <3>2. orders \in [DOMAIN orders -> Nat] /\ DOMAIN orders \subseteq ExternalIds
      BY <1>1 DEF TypeOK
    <3>. QED
      BY ONLY <3>1, <3>2
  <2>. QED
    BY <2>1, <2>2
<1>7. batch' \in [DOMAIN batch' -> Job] /\ dealId' \in Nat
  BY <1>1, <1>3, SettledTyped
<1>8. RestTyped'
  BY <1>1, <1>2, <1>5, <1>6, <1>7 DEF RestTyped, TypeOK
<1>9. TypeOK'
  BY <1>8, TypedAgain
<1>10. AttemptsInv'
  <2>1. outbox[i].attempts < MaxAttempts /\ MaxAttempts \in Nat
    BY <1>1, <1>4, OutboxAssumption DEF AttemptsInv
  <2>. QED
    BY <1>1, <1>3, <1>4, <2>1 DEF AttemptsInv, Rewritten, SameJobs
<1>11. CopiesInv'
  BY <1>2, <1>3, <1>5, <1>9, SettledCopies
<1>. QED
  BY <1>1, <1>2, <1>9, <1>10, <1>11, WhoCalledStays DEF CallerInv


\* A step that is not about a job, a call, a lead or a note in the CRM.
LEMMA AsideCaller ==
    ASSUME CallerInv, CallInv', RestTyped', UNCHANGED <<outbox, calls, leads, notes>>,
           Used' >= Used,
           \A i \in DOMAIN outbox :
              (outbox[i].kind = "note" /\ Underway(i)) => (Underway(i)' \/ Used' >= Used + 1)
    PROVE  CallerInv'
<1>1. TypeOK'
  BY TypedAgain
<1>2. CopiesInv'
  BY <1>1, AsideCopies
<1>3. AttemptsInv' /\ WhoCalled'
  BY WhoCalledStays DEF CallerInv, AttemptsInv
<1>. QED
  BY <1>1, <1>2, <1>3 DEF CallerInv

\* A request goes out, or is about to.
LEMMA AsksCaller ==
    ASSUME CallerInv, CallInv', NEW i,
           \/ SendNote(i)
           \/ (LookupMissed(i) \/ SendCreate(i)) /\ UNCHANGED telephonyVars
    PROVE  CallerInv'
<1>1. TypeInv /\ TypeOK /\ CallInv
  BY DEF CallerInv, CallInv
<1>2. /\ UNCHANGED <<orders, outbox, batch, deals, late, lapses, spent>>
      /\ UNCHANGED <<calls, leads, now, notes>> /\ pc # "executed"
  BY DEF SendNote, LookupMissed, SendCreate, crmVars, telephonyVars
<1>3. dealId' \in Nat
  <2>1. CASE SendNote(i)
    <3>1. i \in DOMAIN outbox /\ batch[i] = outbox[i] /\ outbox[i].kind = "note"
      BY <1>1, <2>1, CurrentJob DEF SendNote, AtNote
    <3>2. Ext(i) \in DOMAIN orders
      BY <1>1, <3>1 DEF CallInv, LeadsInv, NotesFitLeads, NoteFits, Ext
    <3>3. dealId' = orders[Ext(i)]
      BY <2>1 DEF SendNote
    <3>4. orders \in [DOMAIN orders -> Nat]
      BY <1>1 DEF TypeOK
    <3>. QED
      BY ONLY <3>2, <3>3, <3>4
  <2>2. CASE LookupMissed(i) \/ SendCreate(i)
    BY <1>1, <2>2 DEF LookupMissed, SendCreate, TypeOK
  <2>. QED
    BY <2>1, <2>2
<1>4. RestTyped'
  <2>1. RestTyped
    BY <1>1, TypedByParts
  <2>. QED
    BY <1>2, <1>3, <2>1 DEF RestTyped
<1>5. Used' = Used /\ Used \in Nat
  BY <1>1, <1>2, SameUsed, UsedIsNat
<1>. QED
  BY <1>2, <1>4, <1>5, AsideCaller DEF Underway

\* A note that is added is a copy of the one job of its call, which is under way.
LEMMA AddNoteCaller ==
    ASSUME CallerInv, CallInv', NEW i, AddNote(i)
    PROVE  CallerInv'
<1>1. TypeInv /\ TypeOK /\ CallInv
  BY DEF CallerInv, CallInv
<1>2. /\ UNCHANGED <<orders, outbox, batch, dealId, deals, late, lapses, spent>>
      /\ UNCHANGED <<calls, leads, now>> /\ pc = "sent" /\ pc' = "executed"
      /\ Current(i) /\ AtNote(i)
  BY DEF AddNote, AtNote, crmVars
<1>3. /\ i \in DOMAIN outbox /\ batch[i] = outbox[i] /\ outbox[i].kind = "note"
      /\ outbox[i].state = "pending"
  BY <1>1, <1>2, CurrentJob DEF AtNote
<1>4. TypeOK'
  <2>1. RestTyped
    BY <1>1, TypedByParts
  <2>2. RestTyped'
    BY <1>2, <2>1 DEF RestTyped
  <2>. QED
    BY <2>2, TypedAgain
<1>5. AttemptsInv' /\ WhoCalled'
  BY <1>2, WhoCalledStays DEF CallerInv, AttemptsInv
<1>6. Used' = Used /\ Used \in Nat
  BY <1>1, <1>2, SameUsed, UsedIsNat
<1>7. Current(i)' /\ ~Underway(i)
  BY <1>2 DEF Current, Underway
<1>8. PICK call \in CallIds : call = outbox[i].key[2]
  BY <1>1, <1>3, NoteJobHasCall
<1>9. /\ notes' = [notes EXCEPT ![call] = Append(@, dealId)]
      /\ notes \in [CallIds -> Seq(Nat)] /\ dealId \in Nat
  BY <1>1, <1>3, <1>8 DEF AddNote, TypeOK
<1>10. /\ Len(notes'[call]) = Len(notes[call]) + 1 /\ Len(notes[call]) \in Nat
       /\ \A c \in CallIds : c # call => notes'[c] = notes[c]
  <2>1. notes[call] \in Seq(Nat) /\ notes'[call] = Append(notes[call], dealId)
    BY <1>9
  <2>. QED
    BY <1>9, <2>1
<1>11. CopiesInv'
  <2> SUFFICES ASSUME NEW k \in DOMAIN outbox, outbox[k].kind = "note"
               PROVE  Len(notes'[outbox[k].key[2]]) <= Credit(k)' + Used
    BY <1>2, <1>6 DEF CopiesInv
  <2>1. Len(notes[outbox[k].key[2]]) <= Credit(k) + Used
    BY DEF CallerInv, CopiesInv
  <2>2. outbox[k].attempts \in Nat
    BY <1>1, CreditIsNat
  <2>3. CASE k = i
    <3>1. Credit(i) = outbox[i].attempts
      BY <1>3, <1>7, <2>2, <2>3 DEF Credit
    <3>2. Credit(i)' = outbox[i].attempts + 1
      BY <1>2, <1>7 DEF Credit, Underway
    <3>. QED
      BY <1>6, <1>8, <1>10, <2>1, <2>2, <2>3, <3>1, <3>2
  <2>4. CASE k # i
    <3>1. outbox[k].key[2] # call /\ outbox[k].key[2] \in CallIds
      BY <1>1, <1>3, <1>8, <2>4, OneNoteJob, NoteJobHasCall
    <3>2. notes'[outbox[k].key[2]] = notes[outbox[k].key[2]]
      BY <1>10, <3>1
    <3>3. Credit(k) <= Credit(k)' /\ Credit(k) \in Nat /\ Credit(k)' \in Nat
      BY <1>2, <2>2 DEF Credit, Underway
    <3>4. Len(notes[outbox[k].key[2]]) \in Nat
      BY <1>9, <3>1
    <3>. QED
      BY <1>6, <2>1, <3>2, <3>3, <3>4
  <2>. QED
    BY <2>3, <2>4
<1>. QED
  BY <1>4, <1>5, <1>11 DEF CallerInv

\* A round begins, the CRM makes a deal, its webhook comes: nothing is under way
\* that was not before, or the other way round.
LEMMA DealsCaller ==
    ASSUME CallerInv, CallInv', UNCHANGED telephonyVars,
           \/ ProcessOnce
           \/ \E i \in DOMAIN batch : CreateDeal(i)
           \/ \E ext \in ExternalIds : LateDeal(ext)
           \/ \E id \in DOMAIN deals : OnSalesDrive(id)
    PROVE  CallerInv'
<1>1. TypeInv /\ TypeOK /\ RestTyped
  BY TypedByParts DEF CallerInv, CallInv
<1>2. UNCHANGED <<outbox, calls, leads, now, notes, lapses, spent>>
  BY DEF ProcessOnce, CreateDeal, LateDeal, OnSalesDrive, crmVars, telephonyVars
<1>3. Used' = Used /\ Used \in Nat
  BY <1>1, <1>2, SameUsed, UsedIsNat
<1>4. CASE ProcessOnce
  <2>1. UNCHANGED <<orders, dealId, late>> /\ pc = "idle"
    BY <1>4 DEF ProcessOnce, crmVars
  <2>2. batch' \in [DOMAIN batch' -> Job]
    <3>1. batch' = [i \in DueJobs(outbox, BatchLimit) |-> outbox[i]]
      BY <1>4 DEF ProcessOnce
    <3>2. DueJobs(outbox, BatchLimit) \subseteq DOMAIN outbox
      BY DEF DueJobs
    <3>3. \A i \in DOMAIN outbox : outbox[i] \in Job
      BY <1>1 DEF TypeInv
    <3>. QED
      BY ONLY <3>1, <3>2, <3>3
  <2>3. RestTyped'
    BY <1>1, <1>2, <2>1, <2>2 DEF RestTyped
  <2>. QED
    BY <1>2, <1>3, <2>1, <2>3, AsideCaller DEF Underway
<1>5. ASSUME NEW i \in DOMAIN batch, CreateDeal(i) PROVE CallerInv'
  <2>1. UNCHANGED <<orders, batch, late>> /\ pc = "sent"
    BY <1>5 DEF CreateDeal
  <2>2. dealId' \in Nat
    <3>1. dealId' = Len(deals) + 1 /\ deals \in Seq(ExternalIds)
      BY <1>1, <1>5 DEF CreateDeal, TypeInv
    <3>. QED
      BY <3>1
  <2>3. RestTyped'
    BY <1>1, <1>2, <2>1, <2>2 DEF RestTyped
  <2>. QED
    BY <1>2, <1>3, <2>1, <2>3, AsideCaller DEF Underway
<1>6. ASSUME NEW ext \in ExternalIds, LateDeal(ext) PROVE CallerInv'
  <2>1. UNCHANGED <<orders, batch, dealId, pc>>
    BY <1>6 DEF LateDeal, workerVars
  <2>2. late' \in [ExternalIds -> Nat]
    <3>1. /\ late[ext] > 0 /\ late' = [late EXCEPT ![ext] = @ - 1]
          /\ late \in [ExternalIds -> Nat]
      BY <1>1, <1>6 DEF LateDeal, RestTyped
    <3>. QED
      BY ONLY <3>1, ext \in ExternalIds
  <2>3. RestTyped'
    BY <1>1, <1>2, <2>1, <2>2 DEF RestTyped
  <2>. QED
    BY <1>2, <1>3, <2>1, <2>3, AsideCaller DEF Underway, Current
<1>7. ASSUME NEW id \in DOMAIN deals, OnSalesDrive(id) PROVE CallerInv'
  <2>1. UNCHANGED <<batch, dealId, late, pc>>
    BY <1>7 DEF OnSalesDrive, workerVars, crmVars
  <2>2. orders' \in [DOMAIN orders' -> Nat] /\ DOMAIN orders' \subseteq ExternalIds
    <3> PICK ext : ext = deals[id]
      OBVIOUS
    <3>1. id \in Nat
      BY <1>1 DEF TypeInv
    <3>2. orders' = SetSDOrderID(orders, ext, id)
      BY <1>7 DEF OnSalesDrive
    <3>. QED
      BY <1>1, <3>1, <3>2, OrdersTyped
  <2>3. RestTyped'
    BY <1>1, <1>2, <2>1, <2>2 DEF RestTyped
  <2>. QED
    BY <1>2, <1>3, <2>1, <2>3, AsideCaller DEF Underway, Current
<1>. QED
  BY <1>4, <1>5, <1>6, <1>7

\* What a stop may have made the outbox forget is counted.
LEMMA StopCaller ==
    ASSUME CallerInv, CallInv', UNCHANGED telephonyVars,
           Abort \/ \E i \in DOMAIN batch : AbortInFlight(i)
    PROVE  CallerInv'
<1>1. TypeInv /\ TypeOK /\ RestTyped
  BY TypedByParts DEF CallerInv, CallInv
<1>2. DropBatch
  BY DEF Abort, AbortInFlight
<1>3. /\ UNCHANGED <<orders, outbox, calls, leads, now, notes>>
      /\ batch' = <<>> /\ dealId' \in Nat
      /\ spent' = [spent EXCEPT !.aborts = @ + 1]
  BY <1>2 DEF DropBatch, telephonyVars, NoId
<1>4. batch' \in [DOMAIN batch' -> Job]
  <2>1. DOMAIN batch' = {}
    BY <1>3
  <2>. QED
    BY <1>3, <2>1
<1>5. /\ spent \in [aborts : Nat, requeues : Nat, late : Nat]
      /\ late \in [ExternalIds -> Nat] /\ lapses \in [ExternalIds -> Nat]
  BY <1>1 DEF RestTyped
<1>6. /\ spent' \in [aborts : Nat, requeues : Nat, late : Nat]
      /\ spent'.aborts = spent.aborts + 1 /\ spent'.requeues = spent.requeues
  BY ONLY <1>3, <1>5
<1>7. Used' = Used + 1 /\ Used \in Nat
  <2>1. PICK forgotten \in Nat : forgotten = spent.requeues * MaxAttempts
    BY <1>5, OutboxAssumption
  <2>2. Used = spent.aborts + forgotten /\ Used' = (spent.aborts + 1) + forgotten
    BY <1>6, <2>1 DEF Used
  <2>. QED
    BY <1>5, <2>2
<1>8. ASSUME NEW i, Current(i) PROVE Ext(i) \in ExternalIds
  BY <1>1, <1>8, CurrentJob DEF Ext, Job
<1>9. late' \in [ExternalIds -> Nat] /\ lapses' \in [ExternalIds -> Nat]
  <2>1. PICK ext \in ExternalIds :
             /\ lapses' = lapses \/ lapses' = Lapse(ext)
             /\ late' = late \/ late' = [late EXCEPT ![ext] = @ + 1]
    BY <1>8 DEF Abort, AbortInFlight, AtCreate
  <2>. QED
    BY ONLY <1>5, <2>1 DEF Lapse
<1>10. RestTyped'
  BY <1>1, <1>3, <1>4, <1>6, <1>9 DEF RestTyped
<1>. QED
  BY <1>3, <1>7, <1>10, AsideCaller

\* A requeue makes the outbox forget a job's attempts, of which it allows for
\* as many as there may be; a backoff that ends changes none.
LEMMA RowCaller ==
    ASSUME CallerInv, CallInv', UNCHANGED telephonyVars,
           NEW i \in DOMAIN outbox, Requeue(i) \/ BackoffElapses(i)
    PROVE  CallerInv'
<1>1. TypeInv /\ TypeOK /\ RestTyped /\ AttemptsInv /\ WhoCalled
  BY TypedByParts DEF CallerInv, CallInv
<1>2. /\ UNCHANGED <<orders, pc, batch, dealId, late, calls, leads, now, notes>>
  BY DEF Requeue, BackoffElapses, workerVars, crmVars, telephonyVars
<1>3. /\ outbox[i].attempts \in Nat /\ outbox[i].state \in JobStates
      /\ outbox[i].payload.ext \in ExternalIds
      /\ MaxAttempts \in Nat \ {0} /\ outbox[i].attempts <= MaxAttempts
  <2>1. outbox[i] \in Job
    BY <1>1 DEF TypeInv
  <2>. QED
    BY <1>1, <2>1, OutboxAssumption DEF Job, AttemptsInv
<1>4. \/ /\ UNCHANGED outbox
         /\ Requeue(i)
      \/ /\ Rewritten(i, "pending") /\ outbox[i].state # "done"
         /\ \/ Requeue(i) /\ outbox'[i].attempts = 0
            \/ /\ BackoffElapses(i) /\ outbox'[i].attempts = outbox[i].attempts
               /\ outbox[i].state = "pending"
  <2>1. CASE BackoffElapses(i)
    BY <1>1, <2>1, BackoffWrites
  <2>2. CASE Requeue(i)
    BY <1>1, <2>2, RequeueWrites
  <2>. QED
    BY <2>1, <2>2
<1>5. SameJobs /\ \A k \in DOMAIN outbox : k # i => outbox'[k] = outbox[k]
  BY <1>4 DEF Rewritten, SameJobs
<1>6. /\ spent \in [aborts : Nat, requeues : Nat, late : Nat]
      /\ lapses \in [ExternalIds -> Nat]
  BY <1>1 DEF RestTyped
<1>7. /\ spent' \in [aborts : Nat, requeues : Nat, late : Nat]
      /\ lapses' \in [ExternalIds -> Nat]
      /\ Used \in Nat /\ Used' \in Nat /\ Used' >= Used
      /\ Requeue(i) => Used' = Used + MaxAttempts
  <2>1. CASE ~Requeue(i)
    <3>1. UNCHANGED <<spent, lapses>>
      BY <2>1 DEF BackoffElapses
    <3>2. Used' = Used /\ Used \in Nat
      BY <1>1, <3>1, SameUsed, UsedIsNat
    <3>. QED
      BY <1>6, <2>1, <3>1, <3>2
  <2>2. CASE Requeue(i)
    <3>1. /\ spent' = [spent EXCEPT !.requeues = @ + 1]
          /\ lapses' = lapses \/ lapses' = Lapse(outbox[i].payload.ext)
      BY <2>2 DEF Requeue
    <3>2. lapses' \in [ExternalIds -> Nat]
      BY ONLY <1>3, <1>6, <3>1 DEF Lapse
    <3>3. /\ spent' \in [aborts : Nat, requeues : Nat, late : Nat]
          /\ spent'.aborts = spent.aborts /\ spent'.requeues = spent.requeues + 1
      BY ONLY <1>6, <3>1
    <3>4. Used' = Used + MaxAttempts /\ Used \in Nat
      <4>1. (spent.requeues + 1) * MaxAttempts = spent.requeues * MaxAttempts + MaxAttempts
        BY <1>3, <1>6
      <4>2. PICK forgotten \in Nat : forgotten = spent.requeues * MaxAttempts
        BY <1>3, <1>6
      <4>3. /\ Used = spent.aborts + forgotten
            /\ Used' = spent.aborts + (forgotten + MaxAttempts)
        BY <3>3, <4>1, <4>2 DEF Used
      <4>. QED
        BY <1>3, <1>6, <4>3
    <3>. QED
      BY <1>3, <3>2, <3>3, <3>4
  <2>. QED
    BY <2>1, <2>2
<1>8. RestTyped'
  BY <1>1, <1>2, <1>7 DEF RestTyped
<1>9. TypeOK'
  BY <1>8, TypedAgain
<1>10. AttemptsInv'
  BY <1>1, <1>3, <1>4, <1>5 DEF AttemptsInv, Rewritten, SameJobs
<1>11. ASSUME NEW k \in DOMAIN outbox, outbox[k].kind = "note"
       PROVE  Credit(k) + Used <= Credit(k)' + Used'
  <2>1. outbox[k].attempts \in Nat /\ (Underway(k)' <=> Underway(k))
    BY <1>1, <1>2, CreditIsNat DEF Underway, Current
  <2>2. CASE outbox'[k] = outbox[k]
    BY <1>7, <2>1, <2>2 DEF Credit
  <2>3. CASE k = i /\ Rewritten(i, "pending")
    <3>1. outbox'[i].state = "pending"
      BY <2>3 DEF Rewritten
    <3>2. CASE Requeue(i) /\ outbox'[i].attempts = 0 /\ outbox[i].state # "done"
      <4>1. Credit(i) <= outbox[i].attempts + (Credit(i)' - 0) /\ Credit(i)' \in Nat /\ Credit(i) \in Nat
        BY <2>1, <2>3, <3>1, <3>2 DEF Credit
      <4>. QED
        BY <1>3, <1>7, <2>3, <3>2, <4>1
    <3>3. CASE outbox'[i].attempts = outbox[i].attempts /\ outbox[i].state = "pending"
      BY <1>7, <2>1, <2>3, <3>1, <3>3 DEF Credit
    <3>. QED
      BY <1>4, <2>2, <2>3, <3>2, <3>3
  <2>. QED
    BY <1>4, <1>5, <2>2, <2>3
<1>12. CopiesInv'
  BY <1>2, <1>5, <1>9, <1>11, CopiesKept
<1>. QED
  BY <1>1, <1>2, <1>9, <1>10, <1>12, WhoCalledStays DEF CallerInv

LEMMA TickCaller ==
    ASSUME CallerInv, CallInv', \/ Tick
                                \/ UNCHANGED vars
    PROVE  CallerInv'
<1>1. TypeOK /\ RestTyped
  BY TypedByParts DEF CallerInv
<1>2. /\ UNCHANGED <<orders, outbox, pc, batch, dealId, deals, late, lapses, spent>>
      /\ UNCHANGED <<calls, leads, notes>>
  BY DEF Tick, vars, outboxVars, workerVars, crmVars, telephonyVars
<1>3. RestTyped'
  BY <1>1, <1>2 DEF RestTyped
<1>4. Used' = Used /\ Used \in Nat
  BY <1>1, <1>2, SameUsed, UsedIsNat
<1>. QED
  BY <1>2, <1>3, <1>4, AsideCaller DEF Underway, Current

------------------------------------------------------------------------------
(* Call events *)

\* The number of a call in the one form.
LEMMA NumberOfCall ==
    ASSUME NEW call \in CallIds
    PROVE  /\ Caller[call] \in [1 .. 9 -> 0 .. 9]
           /\ PhoneOf(call) = <<3, 8, 0>> \o Caller[call]
<1>1. Caller[call] \in [1 .. 9 -> 0 .. 9]
  BY TelephonyAssumption
<1>2. Caller[call] \in Spellings(Caller[call])
  <2>1. PICK number \in Seq(Nat) : number = Caller[call]
    BY <1>1, NumberIsSeq
  <2>2. <<>> \o number = number
    BY ConcatEmptySeq
  <2>3. <<>> \o number \in Spellings(number)
    BY DEF Spellings
  <2>. QED
    BY <2>1, <2>2, <2>3
<1>. QED
  BY <1>1, <1>2, SpellingsAgree DEF PhoneOf

\* An event with a number says its caller's, however it is spelled.
LEMMA CallersNumber ==
    ASSUME NEW call \in CallIds, NEW spelled \in Spellings(Caller[call]) \cup {NoPhone},
           Normalize(spelled) # NoPhone
    PROVE  Normalize(spelled) = PhoneOf(call) /\ PhoneOf(call) \in Phones
<1>1. Caller[call] \in [1 .. 9 -> 0 .. 9]
  BY TelephonyAssumption
<1>2. Normalize(NoPhone) = NoPhone
  <2>1. <<>> \in Seq(Nat) /\ Len(<<>>) = 0
    OBVIOUS
  <2>2. PICK f : Gathers(f, <<>>, 0) /\ Digits(<<>>) = f[0]
    BY <2>1, DigitsGathered
  <2>3. Digits(<<>>) = <<>>
    BY <2>1, <2>2, GathersStep
  <2>4. /\ Len(Digits(NoPhone)) # 12 /\ Len(Digits(NoPhone)) # 11
        /\ Len(Digits(NoPhone)) # 10 /\ Len(Digits(NoPhone)) # 9
    <3>1. Len(Digits(NoPhone)) = 0
      BY ONLY <2>1, <2>3, Zenon DEF NoPhone
    <3>. QED
      BY ONLY <3>1
  <2>. QED
    BY ONLY <2>4 DEF Normalize
<1>3. Normalize(spelled) = <<3, 8, 0>> \o Caller[call]
  BY <1>1, <1>2, SpellingsAgree
<1>4. PhoneOf(call) = <<3, 8, 0>> \o Caller[call]
  BY NumberOfCall
<1>5. PhoneOf(call) \in Phones
  BY DEF PhoneOf, Phones
<1>. QED
  BY <1>3, <1>4, <1>5, Zenon

\* The row of the call is its caller's.
LEMMA RecordedTyped ==
    ASSUME CallerInv, NEW call \in CallIds, NEW kind \in {"missed", "answered"},
           Recorded(call, PhoneOf(call), kind), PhoneOf(call) \in Phones,
           call \notin DOMAIN calls
    PROVE  /\ calls' \in [DOMAIN calls' ->
                            [phone : Phones, kind : {"missed", "answered"}, at : Nat]]
           /\ \A c \in DOMAIN calls' : calls'[c].phone = PhoneOf(c)
<1> PICK row : row = [phone |-> PhoneOf(call), kind |-> kind, at |-> now]
  OBVIOUS
<1>1. calls' = [c \in DOMAIN calls \cup {call} |-> IF c = call THEN row ELSE calls[c]]
  BY DEF Recorded
<1>2. now \in Nat
  BY DEF CallerInv, TypeOK
<1>3. /\ row \in [phone : Phones, kind : {"missed", "answered"}, at : Nat]
      /\ row.phone = PhoneOf(call)
  BY <1>2
<1>4. /\ calls \in [DOMAIN calls ->
                      [phone : Phones, kind : {"missed", "answered"}, at : Nat]]
      /\ \A c \in DOMAIN calls : calls[c].phone = PhoneOf(c)
  BY DEF CallerInv, TypeOK, WhoCalled
<1>. QED
  BY <1>1, <1>3, <1>4

\* The job of a missed call is new, and so is its note: there are no copies yet.
LEMMA NewJobCopies ==
    ASSUME CallerInv, TypeOK', NEW call \in CallIds, call \notin DOMAIN calls,
           NEW job, JobFor(call, job), job.attempts = 0, outbox' = Append(outbox, job),
           UNCHANGED <<workerVars, spent, notes>>
    PROVE  AttemptsInv' /\ CopiesInv'
<1> PICK new : new = Len(outbox) + 1
  OBVIOUS
<1>1. TypeInv /\ CallsInv /\ TypeOK /\ NotesInv /\ AttemptsInv /\ CopiesInv
  BY DEF CallerInv, CallInv, CrmInv
<1>2. /\ DOMAIN outbox' = DOMAIN outbox \cup {new}
      /\ \A k \in DOMAIN outbox : outbox'[k] = outbox[k]
      /\ outbox'[new] = job
  BY <1>1, JobAdded DEF JobFor
<1>3. AttemptsInv'
  BY <1>1, <1>2, OutboxAssumption DEF AttemptsInv
<1>4. Used' = Used /\ Used \in Nat
  BY <1>1, SameUsed, UsedIsNat
<1>5. ASSUME job.kind = "note" PROVE job.key[2] = call /\ Len(notes[call]) = 0
  <2>1. job.key = NoteKey(call) /\ job.key[2] = call
    BY <1>5, CallKeys DEF JobFor
  <2>2. DOMAIN notes[call] = {}
    <3>1. ~HasKey(outbox, NoteKey(call))
      BY <1>1, NoJobYet
    <3>2. NoteJobs(call) = {}
      BY <3>1 DEF NoteJobs, HasKey
    <3>3. ASSUME NEW n \in DOMAIN notes[call] PROVE NoteAtLead(call, notes[call][n])
      BY <1>1 DEF NotesInv
    <3>. QED
      BY <3>2, <3>3 DEF NoteAtLead
  <2>3. Len(notes[call]) = 0
    <3>1. notes[call] \in Seq(Nat)
      BY <1>1 DEF TypeInv
    <3> PICK copies \in Seq(Nat) : copies = notes[call]
      BY <3>1
    <3>2. DOMAIN copies = 1 .. Len(copies) /\ Len(copies) \in Nat
      OBVIOUS
    <3>3. 1 \notin 1 .. Len(copies)
      BY <2>2, <3>2
    <3>. QED
      BY <3>2, <3>3
  <2>. QED
    BY <2>1, <2>3
<1>6. CopiesInv'
  <2> SUFFICES ASSUME NEW k \in DOMAIN outbox', outbox'[k].kind = "note"
               PROVE  Len(notes[outbox'[k].key[2]]) <= Credit(k)' + Used
    BY <1>4 DEF CopiesInv
  <2>1. CASE k \in DOMAIN outbox
    <3>1. outbox'[k] = outbox[k]
      BY <1>2, <2>1
    <3>2. Credit(k)' = Credit(k)
      BY <3>1 DEF Credit, Underway, Current, workerVars
    <3>. QED
      BY <1>1, <2>1, <3>1, <3>2 DEF CopiesInv
  <2>2. CASE k = new
    <3>1. outbox'[k] = job /\ Len(notes[job.key[2]]) = 0
      BY <1>2, <1>5, <2>2
    <3>2. Credit(k)' \in Nat
      BY <3>1 DEF Credit
    <3>. QED
      BY <1>4, <3>1, <3>2
  <2>. QED
    BY <1>2, <2>1, <2>2
<1>. QED
  BY <1>3, <1>6

\* A call that is answered, or missed: recorded, with its lead or its note.
LEMMA RecordedCaller ==
    ASSUME CallerInv, CallInv', NEW call \in CallIds, NEW kind \in {"missed", "answered"},
           call \notin DOMAIN calls, PhoneOf(call) \in Phones,
           Completed(call, PhoneOf(call), kind),
           UNCHANGED <<workerVars, crmVars, lapses, spent, now, notes>>
    PROVE  CallerInv'
<1> PICK phone \in Phones : phone = PhoneOf(call)
  OBVIOUS
<1>1. /\ TypeInv /\ TypeOK /\ RestTyped /\ CallInv /\ WhoCalled /\ CallsInv
      /\ LeadId(call) \in ExternalIds /\ now \in Nat
  BY TypedByParts, TelephonyAssumption DEF CallerInv, CallInv, TypeOK
<1>2. Recorded(call, phone, kind)
  BY DEF Completed, Recorded
<1>3. /\ calls' \in [DOMAIN calls' ->
                       [phone : Phones, kind : {"missed", "answered"}, at : Nat]]
      /\ \A c \in DOMAIN calls' : calls'[c].phone = PhoneOf(c)
  BY <1>2, RecordedTyped
<1>4. UNCHANGED <<pc, batch, dealId, late, lapses, spent>>
  BY DEF workerVars, crmVars
<1>5. ASSUME orders' \in [DOMAIN orders' -> Nat] /\ DOMAIN orders' \subseteq ExternalIds,
             leads' \in Seq([ext : ExternalIds, phone : Phones, at : Nat]),
             \A k \in DOMAIN leads' :
                \E c \in CallIds : leads'[k].ext = LeadId(c) /\ leads'[k].phone = PhoneOf(c)
      PROVE  TypeOK' /\ WhoCalled'
  <2>1. RestTyped'
    BY <1>1, <1>3, <1>4, <1>5 DEF RestTyped
  <2>. QED
    BY <1>3, <1>5, <2>1, TypedAgain DEF WhoCalled, PhoneOf
<1>6. ASSUME UNCHANGED <<orders, leads>> PROVE TypeOK' /\ WhoCalled'
  BY <1>1, <1>5, <1>6 DEF RestTyped, WhoCalled
<1>7. CASE kind = "answered"
  <2>1. UNCHANGED <<orders, outbox, leads>>
    BY <1>7 DEF Completed
  <2>2. TypeOK' /\ WhoCalled' /\ AttemptsInv'
    BY <1>6, <2>1 DEF CallerInv, AttemptsInv
  <2>3. Used' = Used /\ Used \in Nat
    BY <1>1, <1>4, SameUsed, UsedIsNat
  <2>4. CopiesInv'
    BY <1>4, <2>1, <2>2, <2>3, AsideCopies DEF Underway, Current
  <2>. QED
    BY <2>2, <2>4 DEF CallerInv
<1>8. CASE kind = "missed" /\ NoteOnLead(call, phone)
  <2>1. PICK k \in RecentLeads(phone) :
             outbox' = Enqueue(outbox, NoteKey(call), "note", [ext |-> leads[k].ext])
    BY <1>8 DEF NoteOnLead
  <2>2. TypeOK' /\ WhoCalled'
    BY <1>6, <1>8 DEF NoteOnLead
  <2>3. PICK job : job = NewJob(NoteKey(call), "note", [ext |-> leads[k].ext])
    OBVIOUS
  <2>4. leads[k].ext \in ExternalIds
    BY <1>1 DEF CallInv, LeadsInv, RecentLeads
  <2>5. JobFor(call, job) /\ job.attempts = 0
    BY <2>3, <2>4 DEF JobFor, NewJob, Job, NoteKey, JobStates
  <2>6. outbox' = Append(outbox, job)
    BY <1>1, <2>1, <2>3, NoJobYet DEF Enqueue
  <2>. QED
    BY <2>2, <2>5, <2>6, NewJobCopies DEF CallerInv
<1>9. CASE kind = "missed" /\ NewLead(call, phone)
  <2> PICK ext \in ExternalIds : ext = LeadId(call)
    BY <1>1
  <2>1. /\ orders' = InsertOrder(orders, ext)
        /\ leads' = IF ext \in DOMAIN orders THEN leads
                    ELSE Append(leads, [ext |-> ext, phone |-> phone, at |-> now])
        /\ outbox' = EnqueueCreate(outbox, ext)
    BY <1>9 DEF NewLead
  <2>2. orders' \in [DOMAIN orders' -> Nat] /\ DOMAIN orders' \subseteq ExternalIds
    BY <1>1, <2>1 DEF RestTyped, InsertOrder, NoId
  <2>3. /\ leads' \in Seq([ext : ExternalIds, phone : Phones, at : Nat])
        /\ \A k \in DOMAIN leads' :
              \E c \in CallIds : leads'[k].ext = LeadId(c) /\ leads'[k].phone = PhoneOf(c)
    <3> PICK Lead : Lead = [ext : ExternalIds, phone : Phones, at : Nat]
      OBVIOUS
    <3>1. PICK lead \in Lead : lead = [ext |-> ext, phone |-> phone, at |-> now]
      BY <1>1
    <3>2. leads \in Seq(Lead)
      BY <1>1 DEF RestTyped
    <3>3. CASE leads' = leads
      BY <1>1, <3>2, <3>3 DEF WhoCalled
    <3>4. CASE leads' = Append(leads, lead)
      <4>1. /\ leads' \in Seq(Lead)
            /\ DOMAIN leads' = DOMAIN leads \cup {Len(leads) + 1}
            /\ \A k \in DOMAIN leads : leads'[k] = leads[k]
            /\ leads'[Len(leads) + 1] = lead
        BY <3>2, <3>4
      <4>2. lead.ext = LeadId(call) /\ lead.phone = PhoneOf(call)
        BY <3>1
      <4>. QED
        BY <1>1, <4>1, <4>2 DEF WhoCalled
    <3>. QED
      BY <2>1, <3>1, <3>3, <3>4
  <2>4. TypeOK' /\ WhoCalled'
    BY <1>5, <2>2, <2>3
  <2>5. PICK job : job = NewJob(CreateKey(ext), "create_order", [ext |-> ext])
    OBVIOUS
  <2>6. JobFor(call, job) /\ job.attempts = 0
    BY <2>5 DEF JobFor, NewJob, Job, CreateKey, JobStates
  <2>7. outbox' = Append(outbox, job)
    BY <1>1, <2>1, <2>5, NoJobYet DEF EnqueueCreate, Enqueue
  <2>. QED
    BY <2>4, <2>6, <2>7, NewJobCopies DEF CallerInv
<1>. QED
  BY <1>7, <1>8, <1>9 DEF Completed

LEMMA OnCallCaller ==
    ASSUME CallerInv, CallInv', NEW call \in CallIds, NEW kind \in {"missed", "answered"},
           NEW spelled \in Spellings(Caller[call]) \cup {NoPhone},
           OnCall(call, spelled, kind)
    PROVE  CallerInv'
<1>1. UNCHANGED <<workerVars, crmVars, lapses, spent, now, notes>>
  BY DEF OnCall
<1>2. CASE UNCHANGED <<orders, outbox, calls, leads>>
  <2>1. UNCHANGED vars
    BY <1>1, <1>2 DEF vars, outboxVars, telephonyVars
  <2>. QED
    BY <2>1, TickCaller
<1>3. CASE /\ call \notin DOMAIN calls /\ Normalize(spelled) # NoPhone
           /\ Completed(call, Normalize(spelled), kind)
  <2>1. Normalize(spelled) = PhoneOf(call) /\ PhoneOf(call) \in Phones
    BY <1>3, CallersNumber
  <2>. QED
    BY <1>1, <1>3, <2>1, RecordedCaller
<1>. QED
  BY <1>2, <1>3 DEF OnCall

------------------------------------------------------------------------------
(* The theorems *)

LEMMA CallerInitially == Init => CallerInv
<1> SUFFICES ASSUME Init PROVE CallerInv
  OBVIOUS
<1>1. CallInv
  BY Initially
<1>2. /\ outbox = <<>> /\ batch = <<>> /\ dealId = NoId
      /\ orders = NoOrders /\ calls = [c \in {} |-> 0] /\ leads = <<>>
      /\ late = [ext \in ExternalIds |-> 0] /\ lapses = [ext \in ExternalIds |-> 0]
      /\ spent = [aborts |-> 0, requeues |-> 0, late |-> 0]
  BY DEF Init, OutboxInit, TelephonyInit
<1>3. DOMAIN outbox = {} /\ DOMAIN leads = {} /\ DOMAIN calls = {} /\ DOMAIN batch = {}
  BY <1>2
<1>4. TypeOK
  <2>1. /\ orders \in [DOMAIN orders -> Nat] /\ DOMAIN orders = {}
        /\ late \in [ExternalIds -> Nat] /\ lapses \in [ExternalIds -> Nat]
        /\ spent \in [aborts : Nat, requeues : Nat, late : Nat]
        /\ dealId \in Nat
    BY <1>2 DEF NoOrders, NoId
  <2>2. /\ batch \in [DOMAIN batch -> Job]
        /\ calls \in [DOMAIN calls ->
                        [phone : Phones, kind : {"missed", "answered"}, at : Nat]]
    BY <1>2, <1>3
  <2>3. leads \in Seq([ext : ExternalIds, phone : Phones, at : Nat])
    BY <1>2
  <2>. QED
    BY <1>1, <2>1, <2>2, <2>3, TypedByParts DEF RestTyped
<1>. QED
  BY <1>1, <1>3, <1>4 DEF CallerInv, WhoCalled, AttemptsInv, CopiesInv

LEMMA CallerInductive == CallerInv /\ [Next]_vars => CallerInv'
<1> SUFFICES ASSUME CallerInv, [Next]_vars PROVE CallerInv'
  OBVIOUS
<1>1. CallInv'
  BY Inductive DEF CallerInv
<1>2. ASSUME NEW call \in CallIds, NEW kind \in {"missed", "answered"},
             NEW spelled \in Spellings(Caller[call]) \cup {NoPhone},
             OnCall(call, spelled, kind)
      PROVE  CallerInv'
  BY <1>1, <1>2, OnCallCaller
<1>3. ASSUME NEW i \in DOMAIN batch, WorkerStep(i) PROVE CallerInv'
  BY <1>1, <1>3, SettlesCaller, AsksCaller DEF WorkerStep, NoteStep, CreateStep
<1>4. ASSUME NEW i \in DOMAIN batch, AddNote(i) PROVE CallerInv'
  BY <1>1, <1>4, AddNoteCaller
<1>5. CASE OutboxNext /\ UNCHANGED telephonyVars
  BY <1>1, <1>5, DealsCaller, StopCaller, RowCaller DEF OutboxNext
<1>6. CASE Tick \/ UNCHANGED vars
  BY <1>1, <1>6, TickCaller
<1>. QED
  BY <1>2, <1>3, <1>4, <1>5, <1>6 DEF Next

\* The invariant of this module holds in all that telephony does.
THEOREM CallerInvariant == Spec => []CallerInv
  BY CallerInitially, CallerInductive, PTL DEF Spec

\* The tables, the worker, the clock and the CRM of telephony keep their types.
THEOREM TypesKept == Spec => []TypeOK
<1>1. CallerInv => TypeOK
  BY DEF CallerInv
<1>. QED
  BY <1>1, CallerInvariant, PTL

\* The number in a lead's row is that of its caller.
LEMMA LeadsAreCallers ==
    ASSUME CallerInv, NEW k \in DOMAIN leads
    PROVE  /\ LeadCaller(k) \in [1 .. 9 -> 0 .. 9]
           /\ leads[k].phone = <<3, 8, 0>> \o LeadCaller(k)
<1>1. PICK c \in CallIds : leads[k].ext = LeadId(c) /\ leads[k].phone = PhoneOf(c)
  BY DEF CallerInv, WhoCalled
<1>2. LeadCaller(k) = Caller[c]
  BY <1>1 DEF LeadCaller, LeadId
<1>. QED
  BY <1>1, <1>2, NumberOfCall

\* However a caller's number was spelled each time, a second lead comes only
\* after the window of the one before it.
THEOREM CallersHaveOneLead == Spec => []OneLeadPerWindow
<1>1. CallerInv => OneLeadPerWindow
  <2> SUFFICES ASSUME CallerInv, NEW j \in DOMAIN leads, NEW k \in DOMAIN leads,
                      j < k, LeadCaller(j) = LeadCaller(k)
               PROVE  leads[j].at + Window < leads[k].at
    BY DEF OneLeadPerWindow
  <2>1. leads[j].phone = leads[k].phone
    BY LeadsAreCallers
  <2>. QED
    BY <2>1 DEF CallerInv, CallInv, LeadsInv, OneLeadPerNumber
<1>. QED
  BY <1>1, CallerInvariant, PTL

\* A repeat miss goes to a lead of the same caller, in its window: no two
\* numbers are taken for one.
THEOREM NotesNameTheirCaller == Spec => []NoteNamesRecentLead
<1>1. CallerInv => NoteNamesRecentLead
  <2> SUFFICES ASSUME CallerInv, NEW i \in DOMAIN outbox, outbox[i].kind = "note",
                      NEW call, call = outbox[i].key[2]
               PROVE  \E k \in DOMAIN leads :
                         /\ leads[k].ext = outbox[i].payload.ext
                         /\ LeadCaller(k) = Caller[call]
                         /\ calls[call].at - leads[k].at \in 0 .. Window
    BY DEF NoteNamesRecentLead
  <2>1. PICK k \in DOMAIN leads : NoteFits(i, k)
    BY DEF CallerInv, CallInv, LeadsInv, NotesFitLeads
  <2>2. call \in CallIds /\ call \in DOMAIN calls
    BY CallKeys DEF CallerInv, CallInv, CallsInv, JobOfCall, Missed
  <2>3. leads[k].phone = PhoneOf(call)
    BY <2>1, <2>2 DEF NoteFits, CallerInv, WhoCalled
  <2>4. LeadCaller(k) = Caller[call]
    <3> PICK m, n : m = LeadCaller(k) /\ n = Caller[call]
      OBVIOUS
    <3>1. m \in [1 .. 9 -> 0 .. 9] /\ n \in [1 .. 9 -> 0 .. 9]
      BY <2>2, LeadsAreCallers, NumberOfCall
    <3>2. <<3, 8, 0>> \o m = <<3, 8, 0>> \o n
      BY <2>2, <2>3, LeadsAreCallers, NumberOfCall
    <3>3. m = n
      BY ONLY <3>1, <3>2, NumbersDiffer
    <3>. QED
      BY <3>3
  <2>. QED
    BY <2>1, <2>4 DEF NoteFits
<1>. QED
  BY <1>1, CallerInvariant, PTL

\* The copies of a note in the CRM are accounted for by the attempts that its
\* job shows and by the stops and requeues there have been.
THEOREM CopiesAreAccounted == Spec => []NoteCopiesAccounted
<1>1. CallerInv => NoteCopiesAccounted
  <2> SUFFICES ASSUME CallerInv, NEW call \in CallIds, NEW i \in NoteJobs(call)
               PROVE  Len(notes[call]) <=
                         outbox[i].attempts
                         + (IF \/ outbox[i].state = "done"
                               \/ pc = "executed" /\ Current(i) THEN 1 ELSE 0)
                         + spent.aborts + spent.requeues * MaxAttempts
    BY DEF NoteCopiesAccounted
  <2>1. i \in DOMAIN outbox /\ outbox[i].kind = "note" /\ outbox[i].key[2] = call
    BY CallKeys DEF NoteJobs, CallerInv, CallInv, CallsInv, JobOfCall
  <2>2. Len(notes[call]) <= Credit(i) + Used
    BY <2>1 DEF CallerInv, CopiesInv
  <2>3. Credit(i) \in Nat /\ spent.aborts \in Nat /\ TypeOK
    <3>1. TypeOK
      BY DEF CallerInv
    <3>2. spent.aborts \in Nat
      BY <3>1 DEF TypeOK
    <3>. QED
      BY <2>1, <3>1, <3>2, CreditIsNat
  <2>4. PICK forgotten \in Nat : forgotten = spent.requeues * MaxAttempts
    BY <2>3, OutboxAssumption DEF TypeOK
  <2>5. Credit(i) + Used = Credit(i) + spent.aborts + forgotten
    BY <2>3, <2>4 DEF Used
  <2>. QED
    BY <2>2, <2>4, <2>5 DEF Credit, Underway
<1>. QED
  BY <1>1, CallerInvariant, PTL
==============================================================================
