---------------------- MODULE WrapperTcpDecodingProofs ----------------------
(***************************************************************************)
(* What WrapperStreamDecoder makes of the octets it is given, for every    *)
(* sequence of octets: Decoded is a recursive function, and what it        *)
(* computes is shown by looking at the smallest number of octets for which *)
(* it would compute something else.  WrapperTcpEndpointProofs cites this.  *)
(***************************************************************************)
EXTENDS WrapperTcpEndpoint, SequenceTheorems, WellFoundedInduction, TLAPS

(* A set of natural numbers that is not empty has a least element.         *)
LEMMA LeastNumber ==
  ASSUME NEW T \in SUBSET Nat, T # {}
  PROVE  \E m \in T : \A k \in T : m <= k
<1> DEFINE R == {pair \in Nat \X Nat : pair[1] < pair[2]}
<1>1. IsWellFoundedOn(R, Nat)
  BY NatLessThanWellFounded DEF OpToRel
<1>2. PICK m \in T : \A k \in T : ~(<<k, m>> \in R)
  <2> HIDE DEF R
  <2>1. QED
    BY <1>1, WFMin
<1>3. \A k \in T : ~(k < m)
  BY <1>2
<1>4. QED
  BY <1>3

-----------------------------------------------------------------------------
(* Octets and WPDUs.                                                       *)

LEMMA OctetFacts ==
  /\ Len(Lengths) \in Nat
  /\ \A i \in Wpdus : Lengths[i] \in Nat
  /\ \A o \in Octet : /\ o[1] \in Wpdus /\ o[2] \in 0..Lengths[o[1]]
                      /\ o = <<o[1], o[2]>>
  /\ \A i \in Wpdus : \A k \in 0..Lengths[i] : <<i, k>> \in Octet
<1>1. Len(Lengths) \in Nat /\ \A i \in Wpdus : Lengths[i] \in Nat
  BY ChannelAssumption, LenProperties, ElementOfSeq DEF ChannelAssumption, Wpdus
<1>2. QED
  BY <1>1 DEF Octet, Wpdus

LEMMA WpduFacts ==
  ASSUME NEW i \in Wpdus
  PROVE  /\ Wpdu(i) \in Seq(Octet) /\ Wpdu(i) # <<>>
         /\ Len(Wpdu(i)) = Lengths[i] + 1
         /\ \A k \in 1..(Lengths[i] + 1) : Wpdu(i)[k] = <<i, k - 1>>
         /\ Apdu(i) \in Seq(Octet)
         /\ Len(Apdu(i)) = Lengths[i]
         /\ \A k \in 1..Lengths[i] : Apdu(i)[k] = <<i, k>>
<1>1. Lengths[i] \in Nat /\ \A k \in 1..(Lengths[i] + 1) : <<i, k - 1>> \in Octet
  BY OctetFacts
<1>2. Wpdu(i) \in [1..(Lengths[i] + 1) -> Octet]
  BY <1>1 DEF Wpdu
<1>3. Wpdu(i) \in Seq(Octet)
  BY <1>1, <1>2, SeqDef
<1>4. Len(Wpdu(i)) = Lengths[i] + 1
  BY <1>1, <1>3, LenProperties DEF Wpdu
<1>5. Wpdu(i) # <<>>
  BY <1>1, <1>4, EmptySeq
<1>6. \A k \in 1..(Lengths[i] + 1) : Wpdu(i)[k] = <<i, k - 1>>
  BY DEF Wpdu
<1>7. /\ Apdu(i) \in Seq(Octet) /\ Len(Apdu(i)) = Lengths[i]
      /\ \A k \in 1..Lengths[i] : Apdu(i)[k] = Wpdu(i)[k + 1]
  BY <1>1, <1>3, <1>4, <1>5, HeadTailProperties DEF Apdu
<1>8. QED
  BY <1>1, <1>3, <1>4, <1>5, <1>6, <1>7

(* No octet is missing between the first of them and the last.             *)
Contiguous(octets) ==
  \A m \in 1..(Len(octets) - 1) : octets[m + 1] = Following(octets[m])

(* From a header on, the octets of its WPDU follow one by one.             *)
LEMMA HeaderRun ==
  ASSUME NEW octets \in Seq(Octet), Contiguous(octets),
         NEW q \in Wpdus, NEW p \in Nat, p + 1 <= Len(octets), octets[p + 1] = <<q, 0>>,
         NEW k \in 0..Lengths[q], p + 1 + k <= Len(octets)
  PROVE  octets[p + 1 + k] = <<q, k>>
<1> DEFINE T == {j \in 0..Lengths[q] : p + 1 + j <= Len(octets) /\ octets[p + 1 + j] # <<q, j>>}
<1>1. Lengths[q] \in Nat /\ Len(octets) \in Nat
  BY OctetFacts, LenProperties
<1>2. SUFFICES ASSUME T # {} PROVE FALSE
  BY <1>2
<1>3. PICK j \in T : \A i \in T : j <= i
  <2>1. T \in SUBSET Nat
    BY <1>1
  <2> HIDE DEF T
  <2>2. QED
    BY <1>2, <2>1, LeastNumber
<1>4. j \in 1..Lengths[q] /\ p + 1 + j <= Len(octets) /\ octets[p + 1 + j] # <<q, j>>
  BY <1>1, <1>3
<1>5. j - 1 \notin T
  BY <1>3, <1>4
<1>6. octets[p + 1 + (j - 1)] = <<q, j - 1>>
  BY <1>1, <1>4, <1>5
<1>7. octets[p + 1 + j] = Following(octets[p + j])
  <2>1. p + j \in 1..(Len(octets) - 1)
    BY <1>1, <1>4
  <2>2. octets[(p + j) + 1] = Following(octets[p + j])
    BY <2>1 DEF Contiguous
  <2>3. QED
    BY <1>4, <2>2
<1>8. octets[p + j] = <<q, j - 1>>
  BY <1>4, <1>6
<1>9. Following(<<q, j - 1>>) = <<q, j>>
  BY <1>1, <1>4 DEF Following
<1>10. QED
  BY <1>4, <1>7, <1>8, <1>9

-----------------------------------------------------------------------------
(* One round of the decoder, on what is left when n octets are.            *)

Left(octets, n) == SubSeq(octets, Len(octets) - n + 1, Len(octets))

Round(octets, D, n) ==
  LET header == Left(octets, n)[1]
      size == 1 + Lengths[header[1]]
  IN IF n = 0 \/ ~IsHeader(header) \/ n < size
     THEN [frames |-> <<>>, rest |-> Left(octets, n), bad |-> n > 0 /\ ~IsHeader(header)]
     ELSE [D[n - size] EXCEPT !.frames = <<SubSeq(Left(octets, n), 2, size)>> \o @]

LEMMA LeftFacts ==
  ASSUME NEW octets \in Seq(Octet), NEW n \in 0..Len(octets)
  PROVE  /\ Left(octets, n) \in Seq(Octet)
         /\ Len(Left(octets, n)) = n
         /\ \A i \in 1..n : Left(octets, n)[i] = octets[Len(octets) - n + i]
         /\ n > 0 => Left(octets, n)[1] = octets[Len(octets) - n + 1]
<1>1. Len(octets) \in Nat /\ n \in Nat /\ n <= Len(octets)
  BY LenProperties
<1>2. \A i \in (Len(octets) - n + 1)..Len(octets) : octets[i] \in Octet
  BY <1>1, ElementOfSeq
<1>3. Len(octets) - n + 1 \in Int /\ Len(octets) \in Int
  BY <1>1
<1>4. /\ Left(octets, n) \in Seq(Octet)
      /\ Len(Left(octets, n)) = IF Len(octets) - n + 1 <= Len(octets)
                                THEN Len(octets) - (Len(octets) - n + 1) + 1 ELSE 0
      /\ \A i \in 1..(Len(octets) - (Len(octets) - n + 1) + 1) :
           Left(octets, n)[i] = octets[(Len(octets) - n + 1) + i - 1]
  BY <1>2, <1>3, SubSeqProperties DEF Left
<1>5. QED
  BY <1>1, <1>4

(* A round asks for the result of fewer octets only.                       *)
LEMMA RoundLooksBack ==
  ASSUME NEW octets \in Seq(Octet), NEW n \in 0..Len(octets), NEW g, NEW h,
         \A k \in 0..(n - 1) : g[k] = h[k]
  PROVE  Round(octets, g, n) = Round(octets, h, n)
<1> DEFINE header == Left(octets, n)[1]
           size == 1 + Lengths[header[1]]
<1>1. CASE n = 0 \/ ~IsHeader(header) \/ n < size
  BY <1>1 DEF Round
<1>2. CASE ~(n = 0 \/ ~IsHeader(header) \/ n < size)
  <2>1. n \in Nat /\ Len(octets) \in Nat /\ n > 0
    BY <1>2, LenProperties
  <2>2. header \in Octet
    BY <2>1, LeftFacts, ElementOfSeq
  <2>3. size \in Nat \ {0}
    BY <2>2, OctetFacts
  <2>4. n - size \in 0..(n - 1)
    BY <1>2, <2>1, <2>3
  <2>5. g[n - size] = h[n - size]
    BY <2>4
  <2>6. QED
    BY <1>2, <2>5 DEF Round
<1>3. QED
  BY <1>1, <1>2

(* The recursive function in Decoded exists.                               *)
LEMMA DecodingExists ==
  ASSUME NEW octets \in Seq(Octet)
  PROVE  \E D : D = [n \in 0..Len(octets) |-> Round(octets, D, n)]
<1> DEFINE Exists(m) == \E D : D = [n \in 0..m |-> Round(octets, D, n)]
           T == {m \in 0..Len(octets) : ~Exists(m)}
<1>1. Len(octets) \in Nat
  BY LenProperties
<1>2. SUFFICES ASSUME T # {} PROVE FALSE
  BY <1>1, <1>2
<1>3. PICK m \in T : \A k \in T : m <= k
  <2>1. T \in SUBSET Nat
    BY <1>1
  <2> HIDE DEF T
  <2>2. QED
    BY <1>2, <2>1, LeastNumber
<1>4. m \in 0..Len(octets) /\ ~Exists(m)
  BY <1>3
<1>5. \E g : \A n \in 0..(m - 1) : g[n] = Round(octets, g, n)
  <2>1. CASE m = 0
    BY <2>1
  <2>2. CASE m # 0
    <3>1. m - 1 \in 0..Len(octets) /\ m - 1 \notin T
      BY <1>1, <1>3, <1>4, <2>2
    <3>2. Exists(m - 1)
      BY <3>1
    <3>3. QED
      BY <3>2
  <2>3. QED
    BY <2>1, <2>2
<1>6. PICK g : \A n \in 0..(m - 1) : g[n] = Round(octets, g, n)
  BY <1>5
<1> DEFINE h == [n \in 0..m |-> Round(octets, g, n)]
<1>7. \A n \in 0..m : h[n] = Round(octets, g, n)
  OBVIOUS
<1>8. \A k \in 0..(m - 1) : h[k] = g[k]
  BY <1>4, <1>6, <1>7
<1>9. ASSUME NEW n \in 0..m PROVE Round(octets, g, n) = Round(octets, h, n)
  <2> HIDE DEF h, Exists, T
  <2>1. m \in Nat /\ n \in Nat /\ n <= m /\ n \in 0..Len(octets)
    BY <1>1, <1>4
  <2>2. ASSUME NEW k \in 0..(n - 1) PROVE g[k] = h[k]
    <3>1. k \in 0..(m - 1)
      BY <2>1
    <3>2. QED
      BY <1>8, <3>1
  <2>3. QED
    BY <2>1, <2>2, RoundLooksBack
<1>10. h = [n \in 0..m |-> Round(octets, h, n)]
  BY <1>9, Zenon
<1>11. QED
  BY <1>4, <1>10

LEMMA DecodedInRounds ==
  ASSUME NEW octets \in Seq(Octet)
  PROVE  \E D : /\ Decoded(octets) = D[Len(octets)]
                /\ \A n \in 0..Len(octets) : D[n] = Round(octets, D, n)
<1> DEFINE D == CHOOSE f : f = [n \in 0..Len(octets) |-> Round(octets, f, n)]
<1>1. Decoded(octets) = D[Len(octets)]
  BY Zenon DEF Decoded, Round, Left
<1>2. D = [n \in 0..Len(octets) |-> Round(octets, D, n)]
  BY DecodingExists, Zenon
<1> HIDE DEF D
<1>3. \A n \in 0..Len(octets) : D[n] = Round(octets, D, n)
  BY <1>2, Zenon
<1>4. QED
  BY <1>1, <1>3

-----------------------------------------------------------------------------
(* What the rounds compute.                                                *)

Decoding == [frames : Seq(Seq(Octet)), rest : Seq(Octet), bad : BOOLEAN]

(* Of contiguous octets, those behind the first p are the WPDUs of the     *)
(* frames in d, one after the other, and then the rest that d keeps.       *)
DecodedBehind(octets, p, d) ==
  \E c \in p..Len(octets) :
    /\ d.rest = SubSeq(octets, c + 1, Len(octets))
    /\ IF d.frames = <<>> THEN c = p
       ELSE \E q \in Wpdus : \E last \in Wpdus :
              /\ p < Len(octets) /\ octets[p + 1] = <<q, 0>>
              /\ last = q + Len(d.frames) - 1
              /\ p < c /\ octets[c] = <<last, Lengths[last]>>
              /\ \A m \in 1..Len(d.frames) : d.frames[m] = Apdu(q + m - 1)

Sound(octets, n, d) ==
  /\ d \in Decoding
  /\ d.bad => d.rest # <<>>
  /\ Contiguous(octets) => DecodedBehind(octets, Len(octets) - n, d)

(* A round that finds no complete WPDU.                                    *)
LEMMA LastRound ==
  ASSUME NEW octets \in Seq(Octet), NEW n \in 0..Len(octets), NEW bad \in BOOLEAN,
         bad => n > 0
  PROVE  Sound(octets, n, [frames |-> <<>>, rest |-> Left(octets, n), bad |-> bad])
<1> DEFINE d == [frames |-> <<>>, rest |-> Left(octets, n), bad |-> bad]
<1>1. Len(octets) \in Nat /\ n \in Nat /\ n <= Len(octets)
  BY LenProperties
<1>2. Left(octets, n) \in Seq(Octet) /\ (n > 0 => Left(octets, n) # <<>>)
  BY <1>1, LeftFacts, EmptySeq
<1>3. d \in Decoding /\ (d.bad => d.rest # <<>>)
  BY <1>2 DEF Decoding
<1>4. DecodedBehind(octets, Len(octets) - n, d)
  <2>1. /\ Len(octets) - n \in (Len(octets) - n)..Len(octets)
        /\ d.rest = SubSeq(octets, (Len(octets) - n) + 1, Len(octets))
        /\ d.frames = <<>>
    BY <1>1 DEF Left
  <2> HIDE DEF d
  <2>2. QED
    BY <2>1 DEF DecodedBehind
<1>5. QED
  BY <1>3, <1>4 DEF Sound

(* The APDU that a round cuts out of contiguous octets is that of its WPDU. *)
LEMMA FrameOfRound ==
  ASSUME NEW octets \in Seq(Octet), NEW n \in 1..Len(octets), NEW q \in Wpdus,
         Left(octets, n)[1] = <<q, 0>>, 1 + Lengths[q] <= n
  PROVE  /\ SubSeq(Left(octets, n), 2, 1 + Lengths[q]) \in Seq(Octet)
         /\ Contiguous(octets) =>
              /\ SubSeq(Left(octets, n), 2, 1 + Lengths[q]) = Apdu(q)
              /\ octets[Len(octets) - n + 1 + Lengths[q]] = <<q, Lengths[q]>>
<1> DEFINE left == Left(octets, n)
           p == Len(octets) - n
           frame == SubSeq(left, 2, 1 + Lengths[q])
<1>1. /\ Len(octets) \in Nat /\ n \in Nat \ {0} /\ n <= Len(octets) /\ p \in Nat
      /\ Lengths[q] \in Nat
  BY LenProperties, OctetFacts
<1>2. /\ left \in Seq(Octet) /\ Len(left) = n
      /\ \A i \in 1..n : left[i] = octets[p + i]
  BY <1>1, LeftFacts
<1>3. \A i \in 2..(1 + Lengths[q]) : left[i] \in Octet
  BY <1>1, <1>2, ElementOfSeq
<1>4. /\ frame \in Seq(Octet)
      /\ Len(frame) = Lengths[q]
      /\ \A i \in 1..Lengths[q] : frame[i] = left[i + 1]
  <2> HIDE DEF left
  <2>1. /\ frame \in Seq(Octet)
        /\ Len(frame) = IF 2 <= 1 + Lengths[q] THEN (1 + Lengths[q]) - 2 + 1 ELSE 0
        /\ \A i \in 1..((1 + Lengths[q]) - 2 + 1) : frame[i] = left[2 + i - 1]
    <3>1. 2 \in Int /\ 1 + Lengths[q] \in Int
      BY <1>1
    <3>2. QED
      BY <1>3, <3>1, SubSeqProperties
  <2> HIDE DEF frame
  <2>2. QED
    BY <1>1, <2>1
<1>5. ASSUME Contiguous(octets), NEW k \in 0..Lengths[q]
      PROVE  octets[p + 1 + k] = <<q, k>>
  <2>1. p + 1 <= Len(octets) /\ p + 1 + k <= Len(octets)
    BY <1>1
  <2>2. octets[p + 1] = <<q, 0>>
    BY <1>1, <1>2
  <2> HIDE DEF p
  <2>3. QED
    BY <1>1, <1>5, <2>1, <2>2, HeaderRun
<1>6. ASSUME Contiguous(octets) PROVE frame = Apdu(q)
  <2>1. ASSUME NEW i \in 1..Lengths[q] PROVE frame[i] = Apdu(q)[i]
    <3>1. frame[i] = octets[p + 1 + i]
      <4>1. i + 1 \in 1..n /\ p + (i + 1) = p + 1 + i
        BY <1>1
      <4> HIDE DEF left, frame, p
      <4>2. frame[i] = left[i + 1] /\ left[i + 1] = octets[p + (i + 1)]
        BY <1>2, <1>4, <4>1
      <4>3. QED
        BY <4>1, <4>2
    <3>2. octets[p + 1 + i] = <<q, i>>
      BY <1>1, <1>5, <1>6
    <3>3. QED
      BY <3>1, <3>2, WpduFacts
  <2> HIDE DEF frame
  <2>2. QED
    BY <1>4, <2>1, WpduFacts, SeqEqual
<1>7. ASSUME Contiguous(octets) PROVE octets[p + 1 + Lengths[q]] = <<q, Lengths[q]>>
  BY <1>1, <1>5, <1>7
<1>8. QED
  BY <1>4, <1>6, <1>7

(* A round that finds one, and goes on behind it.                          *)
LEMMA OneMoreRound ==
  ASSUME NEW octets \in Seq(Octet), NEW n \in 1..Len(octets), NEW q \in Wpdus,
         Left(octets, n)[1] = <<q, 0>>, 1 + Lengths[q] <= n,
         NEW e, Sound(octets, n - (1 + Lengths[q]), e)
  PROVE  Sound(octets, n,
               [e EXCEPT !.frames = <<SubSeq(Left(octets, n), 2, 1 + Lengths[q])>> \o @])
<1> DEFINE frame == SubSeq(Left(octets, n), 2, 1 + Lengths[q])
           d == [e EXCEPT !.frames = <<frame>> \o @]
           p == Len(octets) - n
           r == p + 1 + Lengths[q]
<1>1. /\ Len(octets) \in Nat /\ n \in Nat \ {0} /\ n <= Len(octets) /\ p \in Nat
      /\ Lengths[q] \in Nat /\ r \in Nat /\ r <= Len(octets) /\ p < r
      /\ r = Len(octets) - (n - (1 + Lengths[q]))
  <2>1. Len(octets) \in Nat /\ Lengths[q] \in Nat
    BY LenProperties, OctetFacts
  <2>2. QED
    BY <2>1
<1>2. frame \in Seq(Octet)
  BY FrameOfRound
<1>3. Contiguous(octets) => frame = Apdu(q) /\ octets[r] = <<q, Lengths[q]>>
  BY FrameOfRound
<1>4. octets[p + 1] = <<q, 0>>
  <2>1. n \in 0..Len(octets) /\ n > 0
    BY <1>1
  <2>2. Left(octets, n)[1] = octets[Len(octets) - n + 1]
    BY <2>1, LeftFacts
  <2>3. QED
    BY <2>2
<1> HIDE DEF frame, p, r
<1>5. e \in Decoding /\ <<frame>> \in Seq(Seq(Octet))
  BY <1>2 DEF Sound
<1>6. e.frames \in Seq(Seq(Octet)) /\ <<frame>> \o e.frames \in Seq(Seq(Octet))
  BY <1>5, ConcatProperties DEF Decoding
<1>7. /\ d \in Decoding
      /\ d.rest = e.rest /\ d.bad = e.bad /\ d.frames = <<frame>> \o e.frames
  BY <1>5, <1>6 DEF Decoding
<1>8. d.bad => d.rest # <<>>
  BY <1>7 DEF Sound
<1>9. /\ Len(<<frame>>) = 1 /\ <<frame>>[1] = frame
      /\ Len(e.frames) \in Nat
      /\ Len(d.frames) = Len(e.frames) + 1
      /\ d.frames # <<>>
      /\ \A m \in 1..Len(d.frames) :
           d.frames[m] = IF m <= 1 THEN frame ELSE e.frames[m - 1]
  <2>1. Len(<<frame>>) = 1 /\ <<frame>>[1] = frame /\ Len(e.frames) \in Nat
    BY <1>6, LenProperties
  <2>2. /\ Len(<<frame>> \o e.frames) = 1 + Len(e.frames)
        /\ \A m \in 1..(1 + Len(e.frames)) :
             (<<frame>> \o e.frames)[m] = IF m <= 1 THEN <<frame>>[m] ELSE e.frames[m - 1]
    BY <1>5, <1>6, <2>1, ConcatProperties
  <2>3. <<frame>> \o e.frames # <<>>
    BY <1>6, <2>1, <2>2, EmptySeq
  <2>4. QED
    BY <1>7, <2>1, <2>2, <2>3
<1> HIDE DEF d
<1>10. ASSUME Contiguous(octets) PROVE DecodedBehind(octets, p, d)
  <2>1. DecodedBehind(octets, r, e)
    BY <1>1, <1>10 DEF Sound, p
  <2>2. PICK c \in r..Len(octets) :
          /\ e.rest = SubSeq(octets, c + 1, Len(octets))
          /\ IF e.frames = <<>> THEN c = r
             ELSE \E i \in Wpdus : \E last \in Wpdus :
                    /\ r < Len(octets) /\ octets[r + 1] = <<i, 0>>
                    /\ last = i + Len(e.frames) - 1
                    /\ r < c /\ octets[c] = <<last, Lengths[last]>>
                    /\ \A m \in 1..Len(e.frames) : e.frames[m] = Apdu(i + m - 1)
    BY <2>1 DEF DecodedBehind
  <2>3. c \in p..Len(octets) /\ p < c /\ d.rest = SubSeq(octets, c + 1, Len(octets))
    BY <1>1, <1>7, <2>2
  <2>4. p < Len(octets) /\ frame = Apdu(q) /\ octets[r] = <<q, Lengths[q]>>
    BY <1>1, <1>3, <1>10
  <2>5. \E last \in Wpdus :
          /\ last = q + Len(d.frames) - 1
          /\ octets[c] = <<last, Lengths[last]>>
          /\ \A m \in 1..Len(d.frames) : d.frames[m] = Apdu(q + m - 1)
    <3>1. CASE e.frames = <<>>
      <4>1. c = r /\ Len(d.frames) = 1 /\ q \in Nat
        BY <1>9, <2>2, <3>1, EmptySeq DEF Wpdus
      <4>2. q = q + Len(d.frames) - 1 /\ \A m \in 1..Len(d.frames) : d.frames[m] = Apdu(q + m - 1)
        <5>1. \A m \in 1..Len(d.frames) : m = 1 /\ q + m - 1 = q
          BY <4>1
        <5>2. d.frames[1] = frame
          BY <1>9, <4>1
        <5>3. QED
          BY <2>4, <4>1, <5>1, <5>2
      <4>3. QED
        BY <2>4, <4>1, <4>2
    <3>2. CASE e.frames # <<>>
      <4>1. PICK i \in Wpdus : \E last \in Wpdus :
              /\ r < Len(octets) /\ octets[r + 1] = <<i, 0>>
              /\ last = i + Len(e.frames) - 1
              /\ r < c /\ octets[c] = <<last, Lengths[last]>>
              /\ \A m \in 1..Len(e.frames) : e.frames[m] = Apdu(i + m - 1)
        BY <2>2, <3>2
      <4>2. PICK last \in Wpdus :
              /\ last = i + Len(e.frames) - 1
              /\ octets[c] = <<last, Lengths[last]>>
              /\ \A m \in 1..Len(e.frames) : e.frames[m] = Apdu(i + m - 1)
        BY <4>1
      <4>3. i = q + 1
        <5>1. r \in 1..(Len(octets) - 1)
          BY <1>1, <4>1
        <5>2. octets[r + 1] = Following(<<q, Lengths[q]>>)
          BY <1>10, <2>4, <5>1 DEF Contiguous
        <5>3. Following(<<q, Lengths[q]>>) = <<q + 1, 0>>
          BY <1>1 DEF Following
        <5>4. QED
          BY <4>1, <5>2, <5>3
      <4>4. q \in Nat /\ i \in Nat
        BY DEF Wpdus
      <4>5. last = q + Len(d.frames) - 1
        <5>1. Len(e.frames) \in Nat /\ Len(d.frames) = Len(e.frames) + 1
          BY <1>9
        <5>2. last = i + Len(e.frames) - 1
          BY <4>2
        <5>3. last = (q + 1) + Len(e.frames) - 1
          BY <4>3, <5>2
        <5>4. \A j \in Nat : q + (j + 1) - 1 = (q + 1) + j - 1
          BY <4>4
        <5>5. q + (Len(e.frames) + 1) - 1 = (q + 1) + Len(e.frames) - 1
          BY <5>1, <5>4
        <5>6. q + Len(d.frames) - 1 = q + (Len(e.frames) + 1) - 1
          BY <5>1, Zenon
        <5>7. QED
          BY <5>3, <5>5, <5>6, Zenon
      <4>6. ASSUME NEW m \in 1..Len(d.frames) PROVE d.frames[m] = Apdu(q + m - 1)
        <5>1. CASE m <= 1
          <6>1. m = 1 /\ q + m - 1 = q
            BY <4>4, <5>1
          <6>2. QED
            BY <1>9, <2>4, <6>1
        <5>2. CASE ~(m <= 1)
          <6>1. m - 1 \in 1..Len(e.frames) /\ i + (m - 1) - 1 = q + m - 1
            BY <1>9, <4>3, <4>4, <5>2
          <6>2. d.frames[m] = e.frames[m - 1]
            BY <1>9, <5>2
          <6>3. e.frames[m - 1] = Apdu(i + (m - 1) - 1)
            BY <4>2, <6>1
          <6>4. QED
            BY <6>1, <6>2, <6>3
        <5>3. QED
          BY <5>1, <5>2
      <4>7. QED
        BY <4>2, <4>5, <4>6
    <3>3. QED
      BY <3>1, <3>2
  <2>6. QED
    BY <1>4, <1>9, <2>3, <2>4, <2>5 DEF DecodedBehind
<1>11. QED
  BY <1>7, <1>8, <1>10 DEF Sound, d, frame, p

LEMMA RoundIsSound ==
  ASSUME NEW octets \in Seq(Octet), NEW n \in 0..Len(octets), NEW D,
         \A k \in 0..(n - 1) : Sound(octets, k, D[k])
  PROVE  Sound(octets, n, Round(octets, D, n))
<1> DEFINE header == Left(octets, n)[1]
           size == 1 + Lengths[header[1]]
<1>1. Len(octets) \in Nat /\ n \in Nat
  BY LenProperties
<1>2. CASE n = 0 \/ ~IsHeader(header) \/ n < size
  <2>1. Round(octets, D, n) = [frames |-> <<>>, rest |-> Left(octets, n),
                               bad |-> n > 0 /\ ~IsHeader(header)]
    BY <1>2 DEF Round
  <2>2. (n > 0 /\ ~IsHeader(header)) \in BOOLEAN
    BY <1>1
  <2> HIDE DEF header
  <2>3. QED
    BY <2>1, <2>2, LastRound
<1>3. CASE ~(n = 0 \/ ~IsHeader(header) \/ n < size)
  <2>1. n \in 1..Len(octets)
    BY <1>1, <1>3
  <2>2. header \in Octet
    BY <1>1, <2>1, LeftFacts, ElementOfSeq
  <2>3. PICK q \in Wpdus : header = <<q, 0>> /\ Lengths[q] \in Nat
    <3>1. header[1] \in Wpdus /\ header = <<header[1], header[2]>> /\ header[2] = 0
      BY <1>3, <2>2, OctetFacts DEF IsHeader
    <3> HIDE DEF header
    <3>2. QED
      BY <3>1, OctetFacts
  <2>4. size = 1 + Lengths[q] /\ 1 + Lengths[q] <= n
    BY <1>1, <1>3, <2>3
  <2>5. n - (1 + Lengths[q]) \in 0..(n - 1)
    BY <1>1, <2>3, <2>4
  <2>6. Sound(octets, n - (1 + Lengths[q]), D[n - (1 + Lengths[q])])
    BY <2>5
  <2>7. Round(octets, D, n) =
          [D[n - (1 + Lengths[q])] EXCEPT
             !.frames = <<SubSeq(Left(octets, n), 2, 1 + Lengths[q])>> \o @]
    BY <1>3, <2>4 DEF Round
  <2>8. Left(octets, n)[1] = <<q, 0>>
    BY <2>3
  <2>9. Sound(octets, n,
              [D[n - (1 + Lengths[q])] EXCEPT
                 !.frames = <<SubSeq(Left(octets, n), 2, 1 + Lengths[q])>> \o @])
    BY <2>1, <2>4, <2>6, <2>8, OneMoreRound, Zenon
  <2>10. QED
    BY <2>7, <2>9
<1>4. QED
  BY <1>2, <1>3

(* Whatever octets it is given, the decoder makes of them the frames of    *)
(* the WPDUs they are, if no octet is missing, and keeps what follows.     *)
LEMMA DecodedIsSound ==
  ASSUME NEW octets \in Seq(Octet)
  PROVE  Sound(octets, Len(octets), Decoded(octets))
<1>1. PICK D : /\ Decoded(octets) = D[Len(octets)]
               /\ \A n \in 0..Len(octets) : D[n] = Round(octets, D, n)
  BY DecodedInRounds
<1> DEFINE T == {n \in 0..Len(octets) : ~Sound(octets, n, D[n])}
<1>2. Len(octets) \in Nat
  BY LenProperties
<1>3. ASSUME T # {} PROVE FALSE
  <2>1. PICK n \in T : \A k \in T : n <= k
    <3>1. T \in SUBSET Nat
      BY <1>2
    <3> HIDE DEF T
    <3>2. QED
      BY <1>3, <3>1, LeastNumber
  <2>2. n \in 0..Len(octets) /\ ~Sound(octets, n, D[n])
    BY <2>1
  <2>3. ASSUME NEW k \in 0..(n - 1) PROVE Sound(octets, k, D[k])
    <3>1. k \in 0..Len(octets) /\ k \notin T
      BY <1>2, <2>1, <2>2
    <3>2. QED
      BY <3>1
  <2>4. Sound(octets, n, Round(octets, D, n))
    BY <2>2, <2>3, RoundIsSound
  <2>5. QED
    BY <1>1, <2>2, <2>4
<1>4. Len(octets) \in 0..Len(octets) /\ Len(octets) \notin T
  BY <1>2, <1>3
<1>5. QED
  BY <1>1, <1>4

-----------------------------------------------------------------------------
(* What is left of a stream.                                               *)

LEMMA Associative ==
  ASSUME NEW S, NEW s \in Seq(S), NEW t \in Seq(S), NEW u \in Seq(S)
  PROVE  s \o (t \o u) = (s \o t) \o u
BY ConcatAssociative

(* Contiguous octets of the WPDUs up to n.                                 *)
Ordered(octets, n) ==
  /\ Contiguous(octets)
  /\ \A m \in 1..Len(octets) : octets[m][1] <= n

EndsWith(octets, n) == octets # <<>> => octets[Len(octets)] = <<n, Lengths[n]>>

(* The WPDUs follow in the order of their numbers.                         *)
LEMMA Monotone ==
  ASSUME NEW octets \in Seq(Octet), Contiguous(octets), NEW m \in 1..Len(octets)
  PROVE  octets[1][1] <= octets[m][1]
<1> DEFINE T == {j \in 1..Len(octets) : ~(octets[1][1] <= octets[j][1])}
<1>1. Len(octets) \in Nat
  BY LenProperties
<1>2. SUFFICES ASSUME T # {} PROVE FALSE
  BY <1>2
<1>3. PICK j \in T : \A i \in T : j <= i
  <2>1. T \in SUBSET Nat
    BY <1>1
  <2> HIDE DEF T
  <2>2. QED
    BY <1>2, <2>1, LeastNumber
<1>4. ASSUME NEW i \in 1..Len(octets) PROVE octets[i] \in Octet /\ octets[i][1] \in Nat
  <2>1. octets[i] \in Octet
    BY ElementOfSeq
  <2>2. octets[i][1] \in Wpdus
    BY <2>1, OctetFacts
  <2>3. QED
    BY <2>1, <2>2 DEF Wpdus
<1>5. 1 \in 1..Len(octets) /\ j \in 2..Len(octets) /\ ~(octets[1][1] <= octets[j][1])
  <2>1. j \in 1..Len(octets) /\ ~(octets[1][1] <= octets[j][1])
    BY <1>3
  <2> HIDE DEF T
  <2>2. 1 \in 1..Len(octets)
    BY <1>1, <2>1
  <2>3. octets[1][1] \in Nat
    BY <1>4, <2>2
  <2>4. octets[1][1] <= octets[1][1]
    BY <2>3
  <2>5. j # 1
    BY <2>1, <2>4
  <2>6. QED
    BY <1>1, <2>1, <2>2, <2>5
<1>6. octets[1][1] <= octets[j - 1][1]
  <2>1. j - 1 \in 1..Len(octets) /\ j - 1 \notin T
    BY <1>1, <1>3, <1>5
  <2>2. QED
    BY <2>1
<1>7. octets[j] = Following(octets[j - 1])
  <2>1. j - 1 \in 1..(Len(octets) - 1) /\ (j - 1) + 1 = j
    BY <1>1, <1>5
  <2>2. QED
    BY <2>1 DEF Contiguous
<1>8. octets[j - 1][1] <= octets[j][1]
  <2>1. octets[j - 1][1] \in Nat
    BY <1>1, <1>4, <1>5
  <2>2. Following(octets[j - 1])[1] \in {octets[j - 1][1], octets[j - 1][1] + 1}
    BY DEF Following
  <2>3. QED
    BY <1>7, <2>1, <2>2
<1>9. octets[1][1] \in Nat /\ octets[j - 1][1] \in Nat /\ octets[j][1] \in Nat
  <2>1. j - 1 \in 1..Len(octets) /\ j \in 1..Len(octets)
    BY <1>1, <1>5
  <2>2. QED
    BY <1>4, <1>5, <2>1
<1>10. QED
  BY <1>5, <1>6, <1>8, <1>9

LEMMA Joined ==
  ASSUME NEW S, NEW a \in Seq(S), NEW b \in Seq(S)
  PROVE  /\ a \o b \in Seq(S)
         /\ Len(a) \in Nat /\ Len(b) \in Nat /\ Len(a \o b) = Len(a) + Len(b)
         /\ \A m \in 1..Len(a) : (a \o b)[m] = a[m]
         /\ \A m \in 1..Len(b) : (a \o b)[Len(a) + m] = b[m]
         /\ a \o b = <<>> <=> a = <<>> /\ b = <<>>
<1>1. Len(a) \in Nat /\ Len(b) \in Nat
  BY LenProperties
<1>2. /\ a \o b \in Seq(S) /\ Len(a \o b) = Len(a) + Len(b)
      /\ \A m \in 1..(Len(a) + Len(b)) :
           (a \o b)[m] = IF m <= Len(a) THEN a[m] ELSE b[m - Len(a)]
  BY ConcatProperties
<1> DEFINE c == a \o b
<1>3. c = <<>> <=> a = <<>> /\ b = <<>>
  <2>1. c \in Seq(S) /\ Len(c) = Len(a) + Len(b)
    BY <1>2
  <2> HIDE DEF c
  <2>2. (c = <<>> <=> Len(c) = 0) /\ (a = <<>> <=> Len(a) = 0) /\ (b = <<>> <=> Len(b) = 0)
    BY <2>1, EmptySeq
  <2>3. QED
    BY <1>1, <2>1, <2>2
<1>4. /\ c \in Seq(S) /\ Len(c) = Len(a) + Len(b)
      /\ \A m \in 1..(Len(a) + Len(b)) :
           c[m] = IF m <= Len(a) THEN a[m] ELSE b[m - Len(a)]
  BY <1>2
<1> HIDE DEF c
<1>5. ASSUME NEW m \in 1..Len(a) PROVE c[m] = a[m]
  BY <1>1, <1>4
<1>6. ASSUME NEW m \in 1..Len(b) PROVE c[Len(a) + m] = b[m]
  <2>1. /\ Len(a) + m \in 1..(Len(a) + Len(b)) /\ ~(Len(a) + m <= Len(a))
        /\ (Len(a) + m) - Len(a) = m
    BY <1>1
  <2>2. c[Len(a) + m] = b[(Len(a) + m) - Len(a)]
    BY <1>4, <2>1
  <2>3. QED
    BY <2>1, <2>2
<1>7. QED
  BY <1>1, <1>3, <1>4, <1>5, <1>6 DEF c

(* What is left when the first octets are gone.                            *)
LEMMA OrderedParts ==
  ASSUME NEW a \in Seq(Octet), NEW b \in Seq(Octet), NEW n, Ordered(a \o b, n)
  PROVE  /\ Ordered(a, n) /\ Ordered(b, n)
         /\ EndsWith(a \o b, n) => EndsWith(b, n)
         /\ a # <<>> /\ b # <<>> => b[1] = Following(a[Len(a)])
<1> DEFINE c == a \o b
<1>1. /\ c \in Seq(Octet)
      /\ Len(a) \in Nat /\ Len(b) \in Nat /\ Len(c) = Len(a) + Len(b)
      /\ \A m \in 1..Len(a) : c[m] = a[m]
      /\ \A m \in 1..Len(b) : c[Len(a) + m] = b[m]
      /\ c = <<>> <=> a = <<>> /\ b = <<>>
  BY Joined
<1>2. Ordered(c, n)
  OBVIOUS
<1> HIDE DEF c
<1>3. /\ \A m \in 1..(Len(c) - 1) : c[m + 1] = Following(c[m])
      /\ \A m \in 1..Len(c) : c[m][1] <= n
  BY <1>2 DEF Ordered, Contiguous
<1>4. (a = <<>> <=> Len(a) = 0) /\ (b = <<>> <=> Len(b) = 0)
  BY EmptySeq
<1>5. Ordered(a, n)
  <2>1. ASSUME NEW m \in 1..(Len(a) - 1) PROVE a[m + 1] = Following(a[m])
    <3>1. m \in 1..Len(a) /\ m + 1 \in 1..Len(a) /\ m \in 1..(Len(c) - 1)
      BY <1>1
    <3>2. QED
      BY <1>1, <1>3, <3>1
  <2>2. ASSUME NEW m \in 1..Len(a) PROVE a[m][1] <= n
    <3>1. m \in 1..Len(c)
      BY <1>1
    <3>2. QED
      BY <1>1, <1>3, <3>1
  <2>3. QED
    BY <2>1, <2>2 DEF Ordered, Contiguous
<1>6. Ordered(b, n)
  <2>1. ASSUME NEW m \in 1..(Len(b) - 1) PROVE b[m + 1] = Following(b[m])
    <3>1. /\ m \in 1..Len(b) /\ m + 1 \in 1..Len(b)
          /\ Len(a) + m \in 1..(Len(c) - 1) /\ (Len(a) + m) + 1 = Len(a) + (m + 1)
      BY <1>1
    <3>2. c[(Len(a) + m) + 1] = Following(c[Len(a) + m])
      BY <1>3, <3>1
    <3>3. QED
      BY <1>1, <3>1, <3>2
  <2>2. ASSUME NEW m \in 1..Len(b) PROVE b[m][1] <= n
    <3>1. Len(a) + m \in 1..Len(c)
      BY <1>1
    <3>2. QED
      BY <1>1, <1>3, <3>1
  <2>3. QED
    BY <2>1, <2>2 DEF Ordered, Contiguous
<1>7. EndsWith(c, n) => EndsWith(b, n)
  BY <1>1, <1>4 DEF EndsWith
<1>8. ASSUME a # <<>>, b # <<>> PROVE b[1] = Following(a[Len(a)])
  <2>1. Len(a) \in 1..Len(a) /\ 1 \in 1..Len(b) /\ Len(a) \in 1..(Len(c) - 1)
    BY <1>1, <1>4, <1>8
  <2>2. c[Len(a) + 1] = Following(c[Len(a)])
    BY <1>3, <2>1
  <2>3. QED
    BY <1>1, <2>1, <2>2
<1>9. QED
  BY <1>5, <1>6, <1>7, <1>8 DEF c

(* The peer writes the next WPDU behind the octets of the last one.        *)
LEMMA OrderedMore ==
  ASSUME NEW octets \in Seq(Octet), NEW n \in Nat, n + 1 \in Wpdus,
         Ordered(octets, n), EndsWith(octets, n)
  PROVE  /\ octets \o Wpdu(n + 1) \in Seq(Octet)
         /\ Ordered(octets \o Wpdu(n + 1), n + 1)
         /\ EndsWith(octets \o Wpdu(n + 1), n + 1)
         /\ octets \o Wpdu(n + 1) # <<>>
         /\ (octets \o Wpdu(n + 1))[1] = IF octets = <<>> THEN <<n + 1, 0>> ELSE octets[1]
<1> DEFINE b == Wpdu(n + 1)
           c == octets \o b
           last == Lengths[n + 1] + 1
<1>1. /\ b \in Seq(Octet) /\ b # <<>> /\ Len(b) = last
      /\ \A k \in 1..last : b[k] = <<n + 1, k - 1>>
      /\ last \in Nat \ {0} /\ last - 1 = Lengths[n + 1]
  <2>1. Lengths[n + 1] \in Nat
    BY OctetFacts
  <2>2. last \in Nat \ {0} /\ last - 1 = Lengths[n + 1]
    BY <2>1
  <2>3. /\ b \in Seq(Octet) /\ b # <<>> /\ Len(b) = last
        /\ \A k \in 1..last : b[k] = <<n + 1, k - 1>>
    BY WpduFacts
  <2>4. QED
    BY <2>2, <2>3
<1> HIDE DEF b, last
<1>2. /\ c \in Seq(Octet)
      /\ Len(octets) \in Nat /\ Len(b) \in Nat /\ Len(c) = Len(octets) + Len(b)
      /\ \A m \in 1..Len(octets) : c[m] = octets[m]
      /\ \A m \in 1..Len(b) : c[Len(octets) + m] = b[m]
      /\ c = <<>> <=> octets = <<>> /\ b = <<>>
  <2>1. b \in Seq(Octet)
    BY <1>1
  <2>2. QED
    BY <2>1, Joined
<1> HIDE DEF c
<1>3. octets = <<>> <=> Len(octets) = 0
  BY EmptySeq
<1>4. /\ \A m \in 1..(Len(octets) - 1) : octets[m + 1] = Following(octets[m])
      /\ \A m \in 1..Len(octets) : octets[m][1] <= n /\ octets[m][1] \in Nat
  BY ElementOfSeq, OctetFacts DEF Ordered, Contiguous, Wpdus
<1>5. ASSUME NEW m \in 1..(Len(c) - 1) PROVE c[m + 1] = Following(c[m])
  <2>1. CASE m < Len(octets)
    <3>1. m \in 1..(Len(octets) - 1) /\ m \in 1..Len(octets) /\ m + 1 \in 1..Len(octets)
      BY <1>2, <2>1
    <3>2. QED
      BY <1>2, <1>4, <3>1
  <2>2. CASE m = Len(octets)
    <3>1. octets # <<>> /\ m \in 1..Len(octets) /\ 1 \in 1..Len(b) /\ 1 \in 1..last
      BY <1>1, <1>2, <1>3, <2>2
    <3>2. c[m] = <<n, Lengths[n]>> /\ c[m + 1] = <<n + 1, 0>>
      <4>1. c[m] = <<n, Lengths[n]>>
        BY <1>2, <2>2, <3>1 DEF EndsWith
      <4>2. c[m + 1] = b[1] /\ b[1] = <<n + 1, 1 - 1>>
        BY <1>1, <1>2, <2>2, <3>1
      <4>3. QED
        BY <4>1, <4>2
    <3>3. <<n, Lengths[n]>> \in Octet
      BY <1>2, <2>2, <3>1, <3>2, ElementOfSeq
    <3>4. Following(<<n, Lengths[n]>>) = <<n + 1, 0>>
      <4>1. Lengths[n] \in Nat
        BY <3>3 DEF Octet
      <4>2. QED
        BY <4>1 DEF Following
    <3>5. QED
      BY <3>2, <3>4
  <2>3. CASE m > Len(octets)
    <3>1. PICK k \in 1..(last - 1) : m = Len(octets) + k
      <4>1. m - Len(octets) \in 1..(last - 1) /\ m = Len(octets) + (m - Len(octets))
        BY <1>1, <1>2, <2>3
      <4>2. QED
        BY <4>1
    <3>2. k \in 1..Len(b) /\ k + 1 \in 1..Len(b) /\ m + 1 = Len(octets) + (k + 1)
      BY <1>1, <1>2, <3>1
    <3>3. c[m] = <<n + 1, k - 1>> /\ c[m + 1] = <<n + 1, (k + 1) - 1>>
      BY <1>1, <1>2, <3>1, <3>2
    <3>4. Following(<<n + 1, k - 1>>) = <<n + 1, (k + 1) - 1>>
      <4>1. k - 1 < Lengths[n + 1] /\ (k - 1) + 1 = (k + 1) - 1
        BY <1>1, <3>1
      <4>2. QED
        BY <4>1 DEF Following
    <3>5. QED
      BY <3>3, <3>4
  <2>4. QED
    BY <1>2, <2>1, <2>2, <2>3
<1>6. ASSUME NEW m \in 1..Len(c) PROVE c[m][1] <= n + 1
  <2>1. CASE m <= Len(octets)
    <3>1. m \in 1..Len(octets)
      BY <1>2, <2>1
    <3>2. QED
      BY <1>2, <1>4, <3>1
  <2>2. CASE m > Len(octets)
    <3>1. m - Len(octets) \in 1..Len(b) /\ m = Len(octets) + (m - Len(octets))
      BY <1>2, <2>2
    <3>2. c[m] = <<n + 1, (m - Len(octets)) - 1>>
      BY <1>1, <1>2, <3>1
    <3>3. QED
      BY <3>2
  <2>3. QED
    BY <1>2, <2>1, <2>2
<1>7. c[Len(c)] = <<n + 1, Lengths[n + 1]>>
  <2>1. last \in 1..Len(b) /\ last \in 1..last /\ Len(c) = Len(octets) + last
    BY <1>1, <1>2
  <2>2. c[Len(c)] = <<n + 1, last - 1>>
    BY <1>1, <1>2, <2>1
  <2>3. last - 1 = Lengths[n + 1]
    BY <1>1
  <2>4. QED
    BY <2>2, <2>3
<1>8. c # <<>> /\ c[1] = IF octets = <<>> THEN <<n + 1, 0>> ELSE octets[1]
  <2>1. CASE octets = <<>>
    <3>1. 1 \in 1..Len(b) /\ 1 \in 1..last /\ Len(octets) + 1 = 1
      BY <1>1, <1>2, <1>3, <2>1
    <3>2. c[1] = <<n + 1, 1 - 1>>
      BY <1>1, <1>2, <3>1
    <3>3. QED
      BY <1>1, <1>2, <2>1, <3>2
  <2>2. CASE octets # <<>>
    <3>1. 1 \in 1..Len(octets)
      BY <1>2, <1>3, <2>2
    <3>2. QED
      BY <1>2, <2>2, <3>1
  <2>3. QED
    BY <2>1, <2>2
<1>9. QED
  BY <1>2, <1>5, <1>6, <1>7, <1>8 DEF Ordered, Contiguous, EndsWith, c, b

(* The frames are the WPDUs at the front of octets, of which left is left. *)
TakenFrom(octets, frames, left, n) ==
  IF frames = <<>> THEN left = octets
  ELSE \E q \in Wpdus : \E last \in Wpdus :
         /\ octets # <<>> /\ octets[1] = <<q, 0>>
         /\ last = q + Len(frames) - 1 /\ last <= n
         /\ \A m \in 1..Len(frames) : frames[m] = Apdu(q + m - 1)
         /\ left = <<>> /\ EndsWith(octets, n) => last = n
         /\ left # <<>> => left[1] = <<last + 1, 0>>

(* The decoder is given the first octets of a stream, with more behind.    *)
LEMMA DecodedOnStream ==
  ASSUME NEW octets \in Seq(Octet), NEW more \in Seq(Octet), NEW n,
         Ordered(octets \o more, n)
  PROVE  /\ Decoded(octets).frames \in Seq(Seq(Octet))
         /\ Decoded(octets).rest \in Seq(Octet)
         /\ Decoded(octets).rest \o more \in Seq(Octet)
         /\ Ordered(Decoded(octets).rest \o more, n)
         /\ EndsWith(octets \o more, n) => EndsWith(Decoded(octets).rest \o more, n)
         /\ TakenFrom(octets \o more, Decoded(octets).frames, Decoded(octets).rest \o more, n)
<1> DEFINE d == Decoded(octets)
           all == octets \o more
           left == d.rest \o more
<1>1. Sound(octets, Len(octets), d)
  BY DecodedIsSound
<1>2. d.frames \in Seq(Seq(Octet)) /\ d.rest \in Seq(Octet)
  BY <1>1 DEF Sound, Decoding
<1>3. Ordered(octets, n) /\ Len(octets) \in Nat
  BY OrderedParts, LenProperties
<1>4. DecodedBehind(octets, 0, d)
  <2>1. Contiguous(octets) /\ Len(octets) - Len(octets) = 0
    BY <1>3 DEF Ordered
  <2>2. QED
    BY <1>1, <2>1 DEF Sound
<1> HIDE DEF d
<1>5. PICK c \in 0..Len(octets) :
        /\ d.rest = SubSeq(octets, c + 1, Len(octets))
        /\ IF d.frames = <<>> THEN c = 0
           ELSE \E q \in Wpdus : \E last \in Wpdus :
                  /\ 0 < Len(octets) /\ octets[0 + 1] = <<q, 0>>
                  /\ last = q + Len(d.frames) - 1
                  /\ 0 < c /\ octets[c] = <<last, Lengths[last]>>
                  /\ \A m \in 1..Len(d.frames) : d.frames[m] = Apdu(q + m - 1)
  BY <1>4 DEF DecodedBehind
<1> DEFINE head == SubSeq(octets, 1, c)
<1>6. /\ head \in Seq(Octet) /\ Len(head) = c
      /\ \A m \in 1..c : head[m] = octets[m]
  <2>1. \A m \in 1..c : octets[m] \in Octet
    BY <1>3, ElementOfSeq
  <2>2. 1 \in Int /\ c \in Int /\ c \in Nat
    BY <1>3
  <2>3. /\ head \in Seq(Octet) /\ Len(head) = IF 1 <= c THEN c - 1 + 1 ELSE 0
        /\ \A m \in 1..(c - 1 + 1) : head[m] = octets[1 + m - 1]
    BY <2>1, <2>2, SubSeqProperties
  <2> HIDE DEF head
  <2>4. QED
    BY <2>2, <2>3
<1>7. octets = head \o d.rest
  <2>1. CASE c = Len(octets) /\ c = 0
    <3>1. octets = <<>>
      BY <2>1, EmptySeq
    <3>2. head = <<>> /\ d.rest = <<>>
      <4>1. d.rest = SubSeq(octets, 1, 0)
        BY <1>5, <2>1
      <4>2. SubSeq(octets, 1, 0) = <<>>
        BY <1>3, SubSeqEmpty
      <4>3. QED
        BY <2>1, <4>1, <4>2
    <3>3. QED
      BY <3>1, <3>2
  <2>2. CASE ~(c = Len(octets) /\ c = 0)
    <3>1. 1 \in 1..(Len(octets) + 1) /\ c \in (1 - 1)..Len(octets) /\ Len(octets) \in c..Len(octets)
      BY <1>3
    <3>2. head \o SubSeq(octets, c + 1, Len(octets)) = SubSeq(octets, 1, Len(octets))
      BY <3>1, ConcatAdjacentSubSeq
    <3>3. SubSeq(octets, 1, Len(octets)) = octets
      BY SubSeqFull
    <3>4. QED
      BY <1>5, <3>2, <3>3
  <2>3. QED
    BY <2>1, <2>2
<1> HIDE DEF head
<1>8. all = head \o left /\ left \in Seq(Octet)
  <2>1. left \in Seq(Octet)
    BY <1>2, ConcatProperties
  <2>2. head \o (d.rest \o more) = (head \o d.rest) \o more
    <3> DEFINE rest == d.rest
    <3>1. rest \in Seq(Octet)
      BY <1>2
    <3> HIDE DEF rest
    <3>2. head \o (rest \o more) = (head \o rest) \o more
      BY <1>6, <3>1, Associative
    <3>3. QED
      BY <3>2 DEF rest
  <2>3. QED
    BY <1>7, <2>1, <2>2
<1>9. /\ Ordered(all, n)
      /\ all \in Seq(Octet)
      /\ \A m \in 1..Len(octets) : all[m] = octets[m]
      /\ all = <<>> => octets = <<>>
      /\ Len(all) = Len(octets) + Len(more) /\ Len(more) \in Nat
  BY Joined
<1> HIDE DEF all, left
<1>10. /\ Ordered(left, n) /\ Ordered(head, n)
       /\ EndsWith(all, n) => EndsWith(left, n)
       /\ head # <<>> /\ left # <<>> => left[1] = Following(head[Len(head)])
  BY <1>6, <1>8, <1>9, OrderedParts
<1>11. TakenFrom(all, d.frames, left, n)
  <2>1. CASE d.frames = <<>>
    <3>1. head = <<>>
      BY <1>5, <1>6, <2>1, EmptySeq
    <3>2. left = all
      BY <1>8, <3>1, ConcatEmptySeq
    <3>3. QED
      BY <2>1, <3>2 DEF TakenFrom
  <2>2. CASE d.frames # <<>>
    <3>1. PICK q \in Wpdus : \E last \in Wpdus :
            /\ 0 < Len(octets) /\ octets[0 + 1] = <<q, 0>>
            /\ last = q + Len(d.frames) - 1
            /\ 0 < c /\ octets[c] = <<last, Lengths[last]>>
            /\ \A m \in 1..Len(d.frames) : d.frames[m] = Apdu(q + m - 1)
      BY <1>5, <2>2
    <3>2. PICK last \in Wpdus :
            /\ 0 < Len(octets) /\ octets[0 + 1] = <<q, 0>>
            /\ last = q + Len(d.frames) - 1
            /\ 0 < c /\ octets[c] = <<last, Lengths[last]>>
            /\ \A m \in 1..Len(d.frames) : d.frames[m] = Apdu(q + m - 1)
      BY <3>1
    <3>3. octets # <<>> /\ 1 \in 1..Len(octets) /\ 0 + 1 = 1 /\ c \in 1..c
      BY <1>3, <3>2, EmptySeq
    <3>4. all # <<>> /\ all[1] = <<q, 0>>
      BY <1>9, <3>2, <3>3
    <3>5. head # <<>> /\ head[Len(head)] = <<last, Lengths[last]>>
      BY <1>6, <3>2, <3>3, EmptySeq
    <3>6. last <= n
      <4>1. Len(head) \in 1..Len(head)
        BY <1>6, <3>3
      <4>2. head[Len(head)][1] <= n
        BY <1>10, <4>1 DEF Ordered
      <4>3. QED
        BY <3>5, <4>2
    <3>7. left # <<>> => left[1] = <<last + 1, 0>>
      <4>1. Following(<<last, Lengths[last]>>) = <<last + 1, 0>>
        <5>1. Lengths[last] \in Nat
          BY OctetFacts
        <5>2. QED
          BY <5>1 DEF Following
      <4>2. QED
        BY <1>10, <3>5, <4>1
    <3>8. ASSUME left = <<>>, EndsWith(all, n) PROVE last = n
      <4>1. all = head
        BY <1>6, <1>8, <3>8, ConcatEmptySeq
      <4>2. all[Len(all)] = <<n, Lengths[n]>>
        BY <3>4, <3>8 DEF EndsWith
      <4>3. QED
        BY <3>5, <4>1, <4>2
    <3>9. QED
      BY <2>2, <3>2, <3>4, <3>6, <3>7, <3>8 DEF TakenFrom
  <2>3. QED
    BY <2>1, <2>2
<1>12. QED
  BY <1>2, <1>8, <1>10, <1>11 DEF all, left, d
=============================================================================
