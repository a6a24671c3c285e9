------------------------- MODULE HdlcDeliveryProofs -------------------------
(***************************************************************************)
(* Two channels implement ApduDelivery in both directions: HdlcLink maps   *)
(* to it step by step, for every window, number of set-ups and set of lost *)
(* frames, as long as each APDU fits into one frame.                       *)
(***************************************************************************)
EXTENDS HdlcLinkProofs

-----------------------------------------------------------------------------
(* The position of an APDU in a sequence where none is there twice.        *)
Distinct(all) == \A i, j \in 1..Len(all) : all[i] = all[j] => i = j
At(all, apdu) == CHOOSE i \in 1..Len(all) : all[i] = apdu

(* An I-frame has the number of the APDU it carries.                       *)
Number(all, f) == At(all, C!DecodeLpdu(f.information))

(* The elements of line from i to j are I-frames.                          *)
Unbroken(line, i, j) == \A m \in i..j : line[m].kind = "I"

(* A frame is the whole I-frame of one of the first n APDUs, or carries    *)
(* no more than parameters.                                                *)
Carries(all, n, f) ==
  IF f.kind = "I"
  THEN ~f.segmented /\ \E k \in 1..n : f.information = C!EncodeLpdu(all[k])
  ELSE C!Unnumbered(f)

(* The I-frames are in the order of their APDUs.  Several of one APDU are  *)
(* the same frame written again, with no set-up between them.              *)
InOrder(all, line) ==
  \A i, j \in 1..Len(line) :
    i <= j /\ line[i].kind = "I" /\ line[j].kind = "I" =>
      /\ Number(all, line[i]) <= Number(all, line[j])
      /\ Number(all, line[i]) = Number(all, line[j]) =>
           line[i].ns = line[j].ns /\ Unbroken(line, i, j)

(* No frame is of an APDU before the last one taken, and one of that very  *)
(* APDU, written again, is out of sequence for a session that is Connected.*)
Behind(all, line, last, s) ==
  \A j \in 1..Len(line) :
    line[j].kind = "I" =>
      /\ last <= Number(all, line[j])
      /\ last = Number(all, line[j]) =>
           /\ Unbroken(line, 1, j)
           /\ s.state = "Connected" => s.vr = (line[j].ns + 1) % SeqModulus

(* What an end has taken is some of the first n APDUs, in their order.     *)
TakenInOrder(all, n, taken) ==
  /\ \A k \in 1..Len(taken) : \E i \in 1..n : taken[k] = all[i]
  /\ \A k, l \in 1..Len(taken) : k < l => At(all, taken[k]) < At(all, taken[l])

(* What a line of frames carries of the first n APDUs of all, to session s *)
(* of an end that has taken some of them.                                  *)
Carriage(all, n, line, taken, s) ==
  /\ \A i \in 1..Len(line) : Carries(all, n, line[i])
  /\ InOrder(all, line)
  /\ TakenInOrder(all, n, taken)
  /\ taken # <<>> => Behind(all, line, At(all, taken[Len(taken)]), s)

-----------------------------------------------------------------------------
(* Numbers.                                                                *)

(* An APDU is found where it is.                                           *)
LEMMA AtItsPlace ==
  ASSUME NEW all, Distinct(all), NEW i \in 1..Len(all)
  PROVE  At(all, all[i]) = i
<1>1. At(all, all[i]) \in 1..Len(all) /\ all[At(all, all[i])] = all[i]
  BY DEF At
<1>2. QED
  BY <1>1 DEF Distinct

(* The number of an I-frame is the place of what is decoded from it.       *)
LEMMA NumberOfFrame ==
  ASSUME NEW all \in Seq(Seq(Octets)), Distinct(all), NEW n \in 0..Len(all), NEW f,
         f.kind = "I", Carries(all, n, f)
  PROVE  /\ ~f.segmented /\ Number(all, f) \in 1..n
         /\ C!DecodeLpdu(f.information) = all[Number(all, f)]
<1>1. PICK k \in 1..n : f.information = C!EncodeLpdu(all[k])
  BY DEF Carries
<1>2. k \in 1..Len(all) /\ all[k] \in Seq(Octets)
  <2>1. Len(all) \in Nat
    BY LenProperties
  <2>2. k \in 1..Len(all)
    BY <2>1
  <2>3. QED
    BY <2>2, ElementOfSeq
<1>3. C!DecodeLpdu(f.information) = all[k]
  BY <1>1, <1>2, EndAssumptions, C!LpduRoundTrip
<1>4. Number(all, f) = k
  BY <1>2, <1>3, AtItsPlace DEF Number
<1>5. QED
  BY <1>3, <1>4 DEF Carries

(* Every I-frame of the line has a number.                                 *)
LEMMA Numbers ==
  ASSUME NEW all \in Seq(Seq(Octets)), Distinct(all), NEW n \in 0..Len(all), NEW line,
         \A i \in 1..Len(line) : Carries(all, n, line[i])
  PROVE  \A i \in 1..Len(line) : line[i].kind = "I" => Number(all, line[i]) \in 1..n
BY NumberOfFrame

-----------------------------------------------------------------------------
(* Frames that are lost, read past or written again.                       *)

(* The frames of line, in their order, some left out and some repeated.    *)
Drawn(line, rest) ==
  \E g \in [1..Len(rest) -> 1..Len(line)] :
    /\ \A i \in 1..Len(rest) : rest[i] = line[g[i]]
    /\ \A i, j \in 1..Len(rest) : i <= j => g[i] <= g[j]

(* What is left when frames are dropped or lost is drawn, none repeated.   *)
LEMMA ThinnedIsDrawn ==
  ASSUME NEW T, NEW line \in Seq(T), NEW rest \in Seq(T),
         C!Thinned(line, rest) \/ S!Thinned(line, rest)
  PROVE  Drawn(line, rest)
<1>1. PICK g \in [1..Len(rest) -> 1..Len(line)] :
        /\ \A i \in 1..Len(rest) : rest[i] = line[g[i]]
        /\ \A i, j \in 1..Len(rest) : i < j => g[i] < g[j]
  BY DEF C!Thinned, S!Thinned
<1>2. Len(rest) \in Nat /\ Len(line) \in Nat
  BY LenProperties
<1>3. \A i, j \in 1..Len(rest) : i <= j => g[i] <= g[j]
  <2> SUFFICES ASSUME NEW i \in 1..Len(rest), NEW j \in 1..Len(rest), i <= j
               PROVE  g[i] <= g[j]
    OBVIOUS
  <2>1. g[i] \in 1..Len(line) /\ g[j] \in 1..Len(line)
    OBVIOUS
  <2>2. i = j \/ i < j
    BY <1>2
  <2>3. QED
    BY <1>1, <1>2, <2>1, <2>2
<1>4. QED
  BY <1>1, <1>3 DEF Drawn

(* Between two drawn frames there is none of another kind than before.     *)
LEMMA UnbrokenDrawn ==
  ASSUME NEW line, NEW rest, Len(rest) \in Nat, Len(line) \in Nat,
         NEW g \in [1..Len(rest) -> 1..Len(line)],
         \A i \in 1..Len(rest) : rest[i] = line[g[i]],
         \A i, j \in 1..Len(rest) : i <= j => g[i] <= g[j],
         NEW i \in 1..Len(rest), NEW j \in 1..Len(rest),
         Unbroken(line, g[i], g[j])
  PROVE  Unbroken(rest, i, j)
<1> SUFFICES ASSUME NEW m \in i..j PROVE rest[m].kind = "I"
  BY DEF Unbroken
<1>1. m \in 1..Len(rest) /\ i <= m /\ m <= j
  OBVIOUS
<1>2. g[m] \in g[i]..g[j]
  <2>1. g[i] \in Int /\ g[j] \in Int /\ g[m] \in Int
    BY <1>1
  <2>2. g[i] <= g[m] /\ g[m] <= g[j]
    BY <1>1
  <2>3. QED
    BY <2>1, <2>2
<1>3. QED
  BY <1>1, <1>2 DEF Unbroken

(* Loss and repetition in place break no order, and a session that goes    *)
(* out of Connected or stays as it is refuses what it refused before.      *)
LEMMA CarriageDrawn ==
  ASSUME NEW all, NEW n, NEW line, NEW rest, Len(rest) \in Nat, Len(line) \in Nat,
         NEW taken, NEW s, NEW t, Carriage(all, n, line, taken, s), Drawn(line, rest),
         t.state = "Connected" => s.state = "Connected" /\ t.vr = s.vr
  PROVE  Carriage(all, n, rest, taken, t)
<1>1. PICK g \in [1..Len(rest) -> 1..Len(line)] :
        /\ \A i \in 1..Len(rest) : rest[i] = line[g[i]]
        /\ \A i, j \in 1..Len(rest) : i <= j => g[i] <= g[j]
  BY DEF Drawn
<1>2. \A i \in 1..Len(rest) : g[i] \in 1..Len(line)
  OBVIOUS
<1>3. \A i \in 1..Len(rest) : Carries(all, n, rest[i])
  BY <1>1, <1>2 DEF Carriage
<1>4. InOrder(all, rest)
  <2> SUFFICES ASSUME NEW i \in 1..Len(rest), NEW j \in 1..Len(rest), i <= j,
                      rest[i].kind = "I", rest[j].kind = "I"
               PROVE  /\ Number(all, rest[i]) <= Number(all, rest[j])
                      /\ Number(all, rest[i]) = Number(all, rest[j]) =>
                           rest[i].ns = rest[j].ns /\ Unbroken(rest, i, j)
    BY DEF InOrder
  <2>1. g[i] \in 1..Len(line) /\ g[j] \in 1..Len(line) /\ g[i] <= g[j]
        /\ rest[i] = line[g[i]] /\ rest[j] = line[g[j]]
    BY <1>1, <1>2
  <2>2. /\ Number(all, rest[i]) <= Number(all, rest[j])
        /\ Number(all, rest[i]) = Number(all, rest[j]) =>
             rest[i].ns = rest[j].ns /\ Unbroken(line, g[i], g[j])
    BY <2>1 DEF Carriage, InOrder
  <2>3. Unbroken(line, g[i], g[j]) => Unbroken(rest, i, j)
    BY <1>1, UnbrokenDrawn
  <2>4. QED
    BY <2>2, <2>3
<1>5. ASSUME taken # <<>>
      PROVE  Behind(all, rest, At(all, taken[Len(taken)]), t)
  <2> DEFINE last == At(all, taken[Len(taken)])
  <2>1. Behind(all, line, last, s)
    BY <1>5 DEF Carriage
  <2> HIDE DEF last
  <2>2. SUFFICES ASSUME NEW j \in 1..Len(rest), rest[j].kind = "I"
                 PROVE  /\ last <= Number(all, rest[j])
                        /\ last = Number(all, rest[j]) =>
                             /\ Unbroken(rest, 1, j)
                             /\ t.state = "Connected" => t.vr = (rest[j].ns + 1) % SeqModulus
    BY DEF Behind, last
  <2>3. g[j] \in 1..Len(line) /\ rest[j] = line[g[j]]
    BY <1>1, <1>2
  <2>4. /\ last <= Number(all, rest[j])
        /\ last = Number(all, rest[j]) =>
             /\ Unbroken(line, 1, g[j])
             /\ s.state = "Connected" => s.vr = (rest[j].ns + 1) % SeqModulus
    BY <2>1, <2>2, <2>3 DEF Behind
  <2>5. Unbroken(line, 1, g[j]) => Unbroken(rest, 1, j)
    <3>1. 1 \in 1..Len(rest) /\ g[1] \in 1..Len(line) /\ g[j] \in 1..Len(line)
      BY <1>2, <2>2
    <3>2. Unbroken(line, 1, g[j]) => Unbroken(line, g[1], g[j])
      BY <3>1 DEF Unbroken
    <3>3. QED
      BY <1>1, <3>1, <3>2, UnbrokenDrawn
  <2>6. QED
    BY <2>4, <2>5
<1>6. QED
  BY <1>3, <1>4, <1>5 DEF Carriage

-----------------------------------------------------------------------------
(* Frames that are written.                                                *)

(* What is appended leaves the frames before it in their places.           *)
LEMMA AppendedLine ==
  ASSUME NEW T, NEW line \in Seq(T), NEW f \in T
  PROVE  /\ Append(line, f) \in Seq(T) /\ Len(line) \in Nat
         /\ Len(Append(line, f)) = Len(line) + 1
         /\ \A i \in 1..Len(line) : Append(line, f)[i] = line[i]
         /\ Append(line, f)[Len(line) + 1] = f
         /\ \A i \in 1..Len(line), j \in 1..Len(line) :
              Unbroken(line, i, j) => Unbroken(Append(line, f), i, j)
<1>1. /\ Append(line, f) \in Seq(T) /\ Len(line) \in Nat
      /\ Len(Append(line, f)) = Len(line) + 1
      /\ \A i \in 1..Len(line) : Append(line, f)[i] = line[i]
      /\ Append(line, f)[Len(line) + 1] = f
  BY AppendProperties, LenProperties
<1>2. ASSUME NEW i \in 1..Len(line), NEW j \in 1..Len(line), Unbroken(line, i, j),
             NEW m \in i..j
      PROVE  Append(line, f)[m].kind = "I"
  <2>1. m \in 1..Len(line)
    BY <1>1
  <2>2. QED
    BY <1>1, <1>2, <2>1 DEF Unbroken
<1>3. QED
  BY <1>1, <1>2 DEF Unbroken

(* A frame that is no I-frame, such as RR or SNRM.                         *)
LEMMA CarriageControl ==
  ASSUME NEW all, NEW n, NEW T, NEW line \in Seq(T), NEW taken, NEW s,
         Carriage(all, n, line, taken, s),
         NEW f \in T, f.kind # "I", C!Unnumbered(f)
  PROVE  Carriage(all, n, Append(line, f), taken, s)
<1> DEFINE next == Append(line, f)
<1>1. /\ Len(line) \in Nat /\ Len(next) = Len(line) + 1
      /\ \A i \in 1..Len(line) : next[i] = line[i]
      /\ next[Len(line) + 1] = f
      /\ \A i \in 1..Len(line), j \in 1..Len(line) : Unbroken(line, i, j) => Unbroken(next, i, j)
  BY AppendedLine
<1> HIDE DEF next
<1>2. ASSUME NEW i \in 1..Len(next)
      PROVE  i \in 1..Len(line) \/ next[i] = f
  <2>1. i \in 1..Len(line) \/ i = Len(line) + 1
    BY <1>1
  <2>2. QED
    BY <1>1, <2>1
<1>3. \A i \in 1..Len(next) : next[i].kind = "I" => i \in 1..Len(line) /\ next[i] = line[i]
  BY <1>1, <1>2
<1>4. \A i \in 1..Len(next) : Carries(all, n, next[i])
  <2>1. Carries(all, n, f)
    BY DEF Carries
  <2>2. QED
    BY <1>1, <1>2, <2>1 DEF Carriage
<1>5. InOrder(all, next)
  BY <1>1, <1>3 DEF Carriage, InOrder
<1>6. ASSUME taken # <<>>
      PROVE  Behind(all, next, At(all, taken[Len(taken)]), s)
  <2> DEFINE last == At(all, taken[Len(taken)])
  <2>1. Behind(all, line, last, s)
    BY <1>6 DEF Carriage
  <2> HIDE DEF last
  <2>2. SUFFICES ASSUME NEW j \in 1..Len(next), next[j].kind = "I"
                 PROVE  /\ last <= Number(all, next[j])
                        /\ last = Number(all, next[j]) =>
                             /\ Unbroken(next, 1, j)
                             /\ s.state = "Connected" => s.vr = (next[j].ns + 1) % SeqModulus
    BY DEF Behind, last
  <2>3. j \in 1..Len(line) /\ next[j] = line[j] /\ 1 \in 1..Len(line)
    <3>1. j \in 1..Len(line) /\ next[j] = line[j]
      BY <1>3, <2>2
    <3>2. QED
      BY <1>1, <3>1
  <2>4. QED
    BY <1>1, <2>1, <2>2, <2>3 DEF Behind
<1>7. QED
  BY <1>4, <1>5, <1>6 DEF Carriage, next

(* The I-frame of the next APDU.                                           *)
LEMMA CarriageBuilt ==
  ASSUME NEW all \in Seq(Seq(Octets)), Distinct(all), NEW n \in Nat, n + 1 <= Len(all),
         NEW T, NEW line \in Seq(T), NEW U, NEW taken \in Seq(U), NEW s,
         Carriage(all, n, line, taken, s),
         NEW f \in T, f.kind = "I", ~f.segmented, f.information = C!EncodeLpdu(all[n + 1])
  PROVE  Carriage(all, n + 1, Append(line, f), taken, s)
<1> DEFINE next == Append(line, f)
<1>1. /\ Len(line) \in Nat /\ Len(next) = Len(line) + 1 /\ Len(all) \in Nat
      /\ \A i \in 1..Len(line) : next[i] = line[i]
      /\ next[Len(line) + 1] = f
      /\ \A i \in 1..Len(line), j \in 1..Len(line) : Unbroken(line, i, j) => Unbroken(next, i, j)
  BY AppendedLine, LenProperties
<1> HIDE DEF next
<1>2. \A i \in 1..Len(next) : i \in 1..Len(line) \/ i = Len(line) + 1
  BY <1>1
<1>3. /\ Carries(all, n + 1, f)
      /\ \A i \in 1..Len(line) : Carries(all, n + 1, line[i])
  <2>1. n + 1 \in 1..(n + 1) /\ \A k \in 1..n : k \in 1..(n + 1)
    OBVIOUS
  <2>2. QED
    BY <2>1 DEF Carriage, Carries
<1>4. \A i \in 1..Len(next) : Carries(all, n + 1, next[i])
  BY <1>1, <1>2, <1>3
<1>5. /\ \A i \in 1..Len(line) : line[i].kind = "I" => Number(all, line[i]) \in 1..n
      /\ n \in 0..Len(all)
  <2>1. n \in 0..Len(all)
    BY <1>1
  <2>2. QED
    BY <2>1, Numbers DEF Carriage
<1>6. Number(all, f) = n + 1
  <2>1. n + 1 \in 1..Len(all)
    BY <1>1
  <2>2. all[n + 1] \in Seq(Octets)
    BY <2>1, ElementOfSeq
  <2>3. C!DecodeLpdu(f.information) = all[n + 1]
    BY <2>2, EndAssumptions, C!LpduRoundTrip
  <2>4. QED
    BY <2>1, <2>3, AtItsPlace DEF Number
<1>7. Unbroken(next, Len(line) + 1, Len(line) + 1)
  BY <1>1 DEF Unbroken
<1>8. InOrder(all, next)
  <2> SUFFICES ASSUME NEW i \in 1..Len(next), NEW j \in 1..Len(next), i <= j,
                      next[i].kind = "I", next[j].kind = "I"
               PROVE  /\ Number(all, next[i]) <= Number(all, next[j])
                      /\ Number(all, next[i]) = Number(all, next[j]) =>
                           next[i].ns = next[j].ns /\ Unbroken(next, i, j)
    BY DEF InOrder
  <2>1. CASE j \in 1..Len(line)
    <3>1. i \in 1..Len(line)
      BY <1>1, <2>1
    <3>2. QED
      BY <1>1, <2>1, <3>1 DEF Carriage, InOrder
  <2>2. CASE j = Len(line) + 1 /\ i \in 1..Len(line)
    <3>1. Number(all, next[i]) \in 1..n /\ Number(all, next[j]) = n + 1
      BY <1>1, <1>5, <1>6, <2>2
    <3>2. QED
      BY <3>1
  <2>3. CASE j = Len(line) + 1 /\ i = Len(line) + 1
    BY <1>1, <1>6, <1>7, <2>3
  <2>4. QED
    BY <1>2, <2>1, <2>2, <2>3
<1>9. TakenInOrder(all, n + 1, taken)
  <2>1. \A i \in 1..n : i \in 1..(n + 1)
    OBVIOUS
  <2>2. QED
    BY <2>1 DEF Carriage, TakenInOrder
<1>10. ASSUME taken # <<>>
       PROVE  Behind(all, next, At(all, taken[Len(taken)]), s)
  <2> DEFINE last == At(all, taken[Len(taken)])
  <2>1. Behind(all, line, last, s)
    BY <1>10 DEF Carriage
  <2>2. last \in 1..n
    <3>1. Len(taken) \in 1..Len(taken)
      BY <1>10, LenProperties, EmptySeq
    <3>2. PICK i \in 1..n : taken[Len(taken)] = all[i]
      BY <3>1 DEF Carriage, TakenInOrder
    <3>3. i \in 1..Len(all)
      BY <1>1
    <3>4. QED
      BY <3>2, <3>3, AtItsPlace
  <2> HIDE DEF last
  <2>3. SUFFICES ASSUME NEW j \in 1..Len(next), next[j].kind = "I"
                 PROVE  /\ last <= Number(all, next[j])
                        /\ last = Number(all, next[j]) =>
                             /\ Unbroken(next, 1, j)
                             /\ s.state = "Connected" => s.vr = (next[j].ns + 1) % SeqModulus
    BY DEF Behind, last
  <2>4. CASE j \in 1..Len(line)
    <3>1. 1 \in 1..Len(line) /\ next[j] = line[j]
      BY <1>1, <2>4
    <3>2. QED
      BY <1>1, <2>1, <2>3, <2>4, <3>1 DEF Behind
  <2>5. CASE j = Len(line) + 1
    <3>1. Number(all, next[j]) = n + 1
      BY <1>1, <1>6, <2>5
    <3>2. QED
      BY <2>2, <3>1
  <2>6. QED
    BY <1>2, <2>4, <2>5
<1>11. QED
  BY <1>4, <1>8, <1>9, <1>10 DEF Carriage, next

-----------------------------------------------------------------------------
(* Frames that are read.                                                   *)

(* The frames behind the first one, which is read.                         *)
LEMMA TailOfLine ==
  ASSUME NEW T, NEW line \in Seq(T), line # <<>>
  PROVE  /\ Tail(line) \in Seq(T) /\ Len(line) \in Nat \ {0} /\ line[1] = Head(line)
         /\ Len(Tail(line)) = Len(line) - 1
         /\ \A i \in 1..Len(Tail(line)) : Tail(line)[i] = line[i + 1] /\ i + 1 \in 1..Len(line)
         /\ \A i, j \in 1..Len(Tail(line)) :
              Unbroken(line, i + 1, j + 1) => Unbroken(Tail(line), i, j)
<1>1. /\ Tail(line) \in Seq(T) /\ Len(line) \in Nat \ {0} /\ line[1] = Head(line)
      /\ Len(Tail(line)) = Len(line) - 1
      /\ \A i \in 1..Len(Tail(line)) : Tail(line)[i] = line[i + 1]
  BY LenProperties, EmptySeq, HeadTailProperties
<1>2. \A i \in 1..Len(Tail(line)) : i + 1 \in 1..Len(line)
  BY <1>1
<1>3. ASSUME NEW i \in 1..Len(Tail(line)), NEW j \in 1..Len(Tail(line)),
             Unbroken(line, i + 1, j + 1), NEW m \in i..j
      PROVE  Tail(line)[m].kind = "I"
  <2>1. m \in 1..Len(Tail(line)) /\ m + 1 \in (i + 1)..(j + 1)
    BY <1>1
  <2>2. QED
    BY <1>1, <1>3, <2>1 DEF Unbroken
<1>4. QED
  BY <1>1, <1>2, <1>3 DEF Unbroken

(* They are in order if the whole line is.                                 *)
LEMMA OrderOfTail ==
  ASSUME NEW all, NEW T, NEW line \in Seq(T), line # <<>>, InOrder(all, line)
  PROVE  InOrder(all, Tail(line))
<1> SUFFICES ASSUME NEW i \in 1..Len(Tail(line)), NEW j \in 1..Len(Tail(line)), i <= j,
                    Tail(line)[i].kind = "I", Tail(line)[j].kind = "I"
             PROVE  /\ Number(all, Tail(line)[i]) <= Number(all, Tail(line)[j])
                    /\ Number(all, Tail(line)[i]) = Number(all, Tail(line)[j]) =>
                         /\ Tail(line)[i].ns = Tail(line)[j].ns
                         /\ Unbroken(Tail(line), i, j)
  BY DEF InOrder
<1>1. /\ Tail(line)[i] = line[i + 1] /\ i + 1 \in 1..Len(line)
      /\ Tail(line)[j] = line[j + 1] /\ j + 1 \in 1..Len(line)
      /\ Unbroken(line, i + 1, j + 1) => Unbroken(Tail(line), i, j)
  BY TailOfLine
<1>2. i + 1 <= j + 1
  OBVIOUS
<1>3. QED
  BY <1>1, <1>2 DEF InOrder

(* A frame that is no I-frame is read, whatever it does to the session:    *)
(* the frames behind it are of other APDUs than the last one taken.        *)
LEMMA CarriageHeard ==
  ASSUME NEW all, NEW n, NEW T, NEW line \in Seq(T), line # <<>>, Head(line).kind # "I",
         NEW taken, NEW s, NEW t, Carriage(all, n, line, taken, s)
  PROVE  Carriage(all, n, Tail(line), taken, t)
<1>1. /\ Len(line) \in Nat \ {0} /\ line[1] = Head(line)
      /\ \A i \in 1..Len(Tail(line)) : Tail(line)[i] = line[i + 1] /\ i + 1 \in 1..Len(line)
  BY TailOfLine
<1>2. \A i \in 1..Len(Tail(line)) : Carries(all, n, Tail(line)[i])
  BY <1>1 DEF Carriage
<1>3. InOrder(all, Tail(line))
  BY OrderOfTail DEF Carriage
<1>4. ASSUME taken # <<>>
      PROVE  Behind(all, Tail(line), At(all, taken[Len(taken)]), t)
  <2> DEFINE last == At(all, taken[Len(taken)])
  <2>1. Behind(all, line, last, s)
    BY <1>4 DEF Carriage
  <2> HIDE DEF last
  <2>2. ASSUME NEW j \in 1..Len(Tail(line)), Tail(line)[j].kind = "I"
        PROVE  last <= Number(all, Tail(line)[j]) /\ last # Number(all, Tail(line)[j])
    <3>1. 1 \in 1..(j + 1)
      OBVIOUS
    <3>2. ~Unbroken(line, 1, j + 1)
      BY <1>1, <3>1 DEF Unbroken
    <3>3. QED
      BY <1>1, <2>1, <2>2, <3>2 DEF Behind
  <2>3. QED
    BY <2>2 DEF Behind, last
<1>5. QED
  BY <1>2, <1>3, <1>4 DEF Carriage

(* The session takes an I-frame in: its APDU is new, and is taken or       *)
(* dropped.                                                                *)
LEMMA CarriageTaken ==
  ASSUME NEW all \in Seq(Seq(Octets)), Distinct(all), NEW n \in 0..Len(all),
         NEW T, NEW line \in Seq(T), line # <<>>, Head(line).kind = "I",
         NEW U, NEW taken \in Seq(U), NEW s, NEW t, Carriage(all, n, line, taken, s),
         s.vr \in 0..(SeqModulus - 1),
         s.state = "Connected", Head(line).ns = s.vr, t.vr = (s.vr + 1) % SeqModulus,
         NEW x, x = C!DecodeLpdu(Head(line).information),
         NEW more, more = taken \/ more = Append(taken, x)
  PROVE  Carriage(all, n, Tail(line), more, t)
<1> DEFINE q == Number(all, Head(line))
<1>1. /\ Len(line) \in Nat \ {0} /\ line[1] = Head(line) /\ 1 \in 1..Len(line)
      /\ \A i \in 1..Len(Tail(line)) : Tail(line)[i] = line[i + 1] /\ i + 1 \in 1..Len(line)
      /\ \A i, j \in 1..Len(Tail(line)) :
           Unbroken(line, i + 1, j + 1) => Unbroken(Tail(line), i, j)
  BY TailOfLine
<1>2. \A i \in 1..Len(line) : line[i].kind = "I" => Number(all, line[i]) \in 1..n
  BY Numbers DEF Carriage
<1>3. q \in 1..n /\ x = all[q]
  <2>1. Carries(all, n, Head(line))
    BY <1>1 DEF Carriage
  <2>2. QED
    BY <2>1, NumberOfFrame
<1>4. At(all, x) = q
  <2>1. q \in 1..Len(all)
    <3>1. Len(all) \in Nat
      BY LenProperties
    <3>2. QED
      BY <1>3, <3>1
  <2>2. QED
    BY <1>3, <2>1, AtItsPlace
<1>5. (s.vr + 1) % SeqModulus # s.vr
  BY EndAssumptions, C!NextDiffers DEF C!SeqNumbers
<1>6. taken # <<>> => At(all, taken[Len(taken)]) < q
  <2> SUFFICES ASSUME taken # <<>> PROVE At(all, taken[Len(taken)]) < q
    OBVIOUS
  <2> DEFINE last == At(all, taken[Len(taken)])
  <2>1. Behind(all, line, last, s)
    BY DEF Carriage
  <2>2. last \in 1..n
    <3>1. Len(taken) \in 1..Len(taken)
      BY LenProperties, EmptySeq
    <3>2. PICK i \in 1..n : taken[Len(taken)] = all[i]
      BY <3>1 DEF Carriage, TakenInOrder
    <3>3. Len(all) \in Nat
      BY LenProperties
    <3>4. i \in 1..Len(all)
      BY <3>3
    <3>5. QED
      BY <3>2, <3>4, AtItsPlace
  <2> HIDE DEF last
  <2>3. last <= q /\ (last = q => s.vr = (Head(line).ns + 1) % SeqModulus)
    BY <1>1, <2>1 DEF Behind
  <2>4. last # q
    BY <1>5, <2>3
  <2>5. last < q
    <3> HIDE DEF q
    <3>1. QED
      BY <1>3, <2>2, <2>3, <2>4
  <2>6. QED
    BY <2>5 DEF last
<1>7. ASSUME NEW j \in 1..Len(Tail(line)), Tail(line)[j].kind = "I"
      PROVE  /\ Number(all, Tail(line)[j]) \in 1..n
             /\ q <= Number(all, Tail(line)[j])
             /\ q = Number(all, Tail(line)[j]) =>
                  /\ Tail(line)[j].ns = s.vr
                  /\ Unbroken(Tail(line), 1, j)
  <2>1. j + 1 \in 1..Len(line) /\ Tail(line)[j] = line[j + 1] /\ 1 <= j + 1
    BY <1>1
  <2>2. /\ q <= Number(all, line[j + 1])
        /\ q = Number(all, line[j + 1]) =>
             line[1].ns = line[j + 1].ns /\ Unbroken(line, 1, j + 1)
    BY <1>1, <1>7, <2>1 DEF Carriage, InOrder
  <2>3. Unbroken(line, 1, j + 1) => Unbroken(Tail(line), 1, j)
    <3>1. 1 \in 1..Len(Tail(line)) /\ (1 + 1)..(j + 1) \subseteq 1..(j + 1)
      BY <1>1
    <3>2. Unbroken(line, 1, j + 1) => Unbroken(line, 1 + 1, j + 1)
      BY <3>1 DEF Unbroken
    <3>3. QED
      BY <1>1, <3>1, <3>2
  <2>4. QED
    BY <1>1, <1>2, <1>7, <2>1, <2>2, <2>3
<1> HIDE DEF q
<1>8. /\ \A i \in 1..Len(Tail(line)) : Carries(all, n, Tail(line)[i])
      /\ InOrder(all, Tail(line))
  BY <1>1, OrderOfTail DEF Carriage
<1>9. CASE more = taken
  <2>1. ASSUME taken # <<>>, NEW j \in 1..Len(Tail(line)), Tail(line)[j].kind = "I"
        PROVE  /\ At(all, taken[Len(taken)]) <= Number(all, Tail(line)[j])
               /\ At(all, taken[Len(taken)]) # Number(all, Tail(line)[j])
    <3> DEFINE last == At(all, taken[Len(taken)])
               next == Number(all, Tail(line)[j])
    <3>1. last < q /\ q <= next /\ q \in Int /\ next \in Int
      <4>1. taken # <<>> => last < q
        BY <1>6
      <4>2. q <= next
        BY <1>7, <2>1
      <4>3. Carries(all, n, Tail(line)[j])
        BY <1>8
      <4>4. next \in 1..n
        BY <2>1, <4>3, NumberOfFrame
      <4>5. q \in Int
        BY <1>3
      <4>6. QED
        BY <2>1, <4>1, <4>2, <4>4, <4>5
    <3>2. last \in Int
      <4>1. Len(taken) \in 1..Len(taken)
        BY <2>1, LenProperties, EmptySeq
      <4>2. PICK i \in 1..n : taken[Len(taken)] = all[i]
        BY <4>1 DEF Carriage, TakenInOrder
      <4>3. Len(all) \in Nat
        BY LenProperties
      <4>4. i \in 1..Len(all)
        BY <4>3
      <4>5. QED
        BY <4>2, <4>4, AtItsPlace
    <3> HIDE DEF last, next
    <3>3. last <= next /\ last # next
      BY <3>1, <3>2
    <3>4. QED
      BY <3>3 DEF last, next
  <2>2. taken # <<>> => Behind(all, Tail(line), At(all, taken[Len(taken)]), t)
    BY <2>1 DEF Behind
  <2>3. QED
    BY <1>8, <1>9, <2>2 DEF Carriage
<1>10. CASE more = Append(taken, x)
  <2>1. /\ Len(taken) \in Nat /\ Len(more) = Len(taken) + 1 /\ more[Len(taken) + 1] = x
        /\ \A k \in 1..Len(taken) : more[k] = taken[k]
    <3>1. taken \in Seq(U \cup {x})
      BY SeqMonotonic
    <3>2. QED
      BY <1>10, <3>1, AppendProperties, LenProperties
  <2>2. At(all, more[Len(more)]) = q
    BY <1>4, <2>1
  <2>3. Behind(all, Tail(line), q, t)
    BY <1>7 DEF Behind
  <2>4. TakenInOrder(all, n, more)
    <3>1. \A k \in 1..Len(more) : k \in 1..Len(taken) \/ k = Len(taken) + 1
      BY <2>1
    <3>2. \A k \in 1..Len(more) : \E i \in 1..n : more[k] = all[i]
      BY <1>3, <2>1, <3>1 DEF Carriage, TakenInOrder
    <3>3. ASSUME NEW k \in 1..Len(taken)
          PROVE  At(all, taken[k]) < q
      <4>1. Len(taken) \in 1..Len(taken) /\ taken # <<>>
        BY <2>1, EmptySeq
      <4>2. k = Len(taken) \/ k < Len(taken)
        BY <2>1
      <4>3. At(all, taken[Len(taken)]) < q
        BY <1>6, <4>1
      <4>4. k < Len(taken) => At(all, taken[k]) < At(all, taken[Len(taken)])
        BY <4>1 DEF Carriage, TakenInOrder
      <4>5. \A m \in 1..Len(taken) : At(all, taken[m]) \in Int
        <5> TAKE m \in 1..Len(taken)
        <5>1. PICK i \in 1..n : taken[m] = all[i]
          BY DEF Carriage, TakenInOrder
        <5>2. Len(all) \in Nat
          BY LenProperties
        <5>3. i \in 1..Len(all)
          BY <5>2
        <5>4. QED
          BY <5>1, <5>3, AtItsPlace
      <4>6. QED
        <5> DEFINE a == At(all, taken[k])
                   b == At(all, taken[Len(taken)])
        <5>1. a \in Int /\ b \in Int /\ q \in Int /\ b < q /\ (a = b \/ a < b)
          BY <1>3, <4>1, <4>2, <4>3, <4>4, <4>5
        <5> HIDE DEF a, b
        <5>2. a < q
          BY <5>1
        <5>3. QED
          BY <5>2 DEF a
    <3>4. \A k, l \in 1..Len(more) : k < l => At(all, more[k]) < At(all, more[l])
      <4> SUFFICES ASSUME NEW k \in 1..Len(more), NEW l \in 1..Len(more), k < l
                   PROVE  At(all, more[k]) < At(all, more[l])
        OBVIOUS
      <4>1. k \in 1..Len(taken) /\ more[k] = taken[k]
        BY <2>1
      <4>2. CASE l \in 1..Len(taken)
        BY <2>1, <4>1, <4>2 DEF Carriage, TakenInOrder
      <4>3. CASE l = Len(taken) + 1
        BY <1>4, <2>1, <3>3, <4>1, <4>3
      <4>4. QED
        BY <3>1, <4>2, <4>3
    <3>5. QED
      BY <3>2, <3>4 DEF TakenInOrder
  <2>5. QED
    BY <1>8, <2>2, <2>3, <2>4 DEF Carriage
<1>11. QED
  BY <1>9, <1>10

-----------------------------------------------------------------------------
(* A line is what has come (come) and the frame on its way (way).          *)

(* The places of the frames that have come, and of the one on its way.     *)
LEMMA ConcatLine ==
  ASSUME NEW T, NEW come \in Seq(T), NEW way \in Seq(T)
  PROVE  /\ come \o way \in Seq(T) /\ Len(come) \in Nat /\ Len(way) \in Nat
         /\ Len(come \o way) = Len(come) + Len(way)
         /\ \A i \in 1..Len(come) : (come \o way)[i] = come[i]
         /\ \A i \in 1..Len(way) : (come \o way)[Len(come) + i] = way[i]
<1>1. /\ come \o way \in Seq(T) /\ Len(come) \in Nat /\ Len(way) \in Nat
      /\ Len(come \o way) = Len(come) + Len(way)
      /\ \A i \in 1..(Len(come) + Len(way)) :
           (come \o way)[i] = IF i <= Len(come) THEN come[i] ELSE way[i - Len(come)]
  BY ConcatProperties, LenProperties
<1>2. ASSUME NEW i \in 1..Len(come)
      PROVE  (come \o way)[i] = come[i]
  BY <1>1
<1>3. ASSUME NEW i \in 1..Len(way)
      PROVE  (come \o way)[Len(come) + i] = way[i]
  <2>1. /\ Len(come) + i \in 1..(Len(come) + Len(way)) /\ ~(Len(come) + i <= Len(come))
        /\ (Len(come) + i) - Len(come) = i
    BY <1>1
  <2>2. QED
    BY <1>1, <2>1
<1>4. QED
  BY <1>1, <1>2, <1>3

(* Frames that are lost before they come, and the same one under way.      *)
LEMMA DrawnWithMore ==
  ASSUME NEW T, NEW come \in Seq(T), NEW less \in Seq(T), NEW way \in Seq(T),
         Drawn(come, less)
  PROVE  Drawn(come \o way, less \o way)
<1>1. /\ Len(come) \in Nat /\ Len(way) \in Nat /\ Len(less) \in Nat
      /\ Len(come \o way) = Len(come) + Len(way) /\ Len(less \o way) = Len(less) + Len(way)
      /\ \A i \in 1..Len(come) : (come \o way)[i] = come[i]
      /\ \A i \in 1..Len(way) : (come \o way)[Len(come) + i] = way[i]
      /\ \A i \in 1..Len(less) : (less \o way)[i] = less[i]
      /\ \A i \in 1..Len(way) : (less \o way)[Len(less) + i] = way[i]
  BY ConcatLine
<1>2. PICK g \in [1..Len(less) -> 1..Len(come)] :
        /\ \A i \in 1..Len(less) : less[i] = come[g[i]]
        /\ \A i, j \in 1..Len(less) : i <= j => g[i] <= g[j]
  BY DEF Drawn
<1> DEFINE h == [i \in 1..Len(less \o way) |->
                   IF i <= Len(less) THEN g[i] ELSE Len(come) + (i - Len(less))]
<1>3. ASSUME NEW i \in 1..Len(less)
      PROVE  /\ i \in 1..Len(less \o way) /\ h[i] = g[i] /\ g[i] \in 1..Len(come)
             /\ h[i] \in 1..Len(come \o way) /\ (less \o way)[i] = (come \o way)[h[i]]
  <2>1. i \in 1..Len(less \o way) /\ i <= Len(less) /\ g[i] \in 1..Len(come)
    BY <1>1, <1>2
  <2>2. h[i] = g[i] /\ g[i] \in 1..Len(come \o way)
    BY <1>1, <2>1
  <2>3. QED
    BY <1>1, <1>2, <2>1, <2>2
<1>4. ASSUME NEW i \in 1..Len(less \o way), i \notin 1..Len(less)
      PROVE  /\ h[i] = Len(come) + (i - Len(less)) /\ i - Len(less) \in 1..Len(way)
             /\ h[i] \in 1..Len(come \o way) /\ (less \o way)[i] = (come \o way)[h[i]]
  <2>1. /\ ~(i <= Len(less)) /\ i - Len(less) \in 1..Len(way) /\ Len(less) + (i - Len(less)) = i
        /\ Len(come) + (i - Len(less)) \in 1..Len(come \o way)
    BY <1>1, <1>4
  <2>2. h[i] = Len(come) + (i - Len(less))
    BY <2>1
  <2>3. (less \o way)[i] = way[i - Len(less)]
    BY <1>1, <2>1
  <2>4. QED
    BY <1>1, <2>1, <2>2, <2>3
<1>5. ASSUME NEW i \in 1..Len(less \o way), NEW j \in 1..Len(less \o way), i <= j
      PROVE  h[i] <= h[j]
  <2>1. CASE j \in 1..Len(less)
    <3>1. i \in 1..Len(less)
      BY <1>1, <1>5, <2>1
    <3>2. QED
      BY <1>2, <1>3, <1>5, <2>1, <3>1
  <2>2. CASE i \in 1..Len(less) /\ j \notin 1..Len(less)
    <3> HIDE DEF h
    <3>1. /\ h[i] \in 1..Len(come) /\ j - Len(less) \in 1..Len(way)
          /\ h[j] = Len(come) + (j - Len(less))
      BY <1>3, <1>4, <2>2
    <3>2. QED
      BY <1>1, <3>1
  <2>3. CASE i \notin 1..Len(less) /\ j \notin 1..Len(less)
    <3> HIDE DEF h
    <3>1. h[i] = Len(come) + (i - Len(less)) /\ h[j] = Len(come) + (j - Len(less))
      BY <1>4, <2>3
    <3>2. QED
      BY <1>1, <1>5, <3>1
  <2>4. QED
    BY <2>1, <2>2, <2>3
<1>6. h \in [1..Len(less \o way) -> 1..Len(come \o way)]
  <2>1. \A i \in 1..Len(less \o way) : h[i] \in 1..Len(come \o way)
    BY <1>3, <1>4
  <2>2. QED
    BY <2>1
<1>7. \A i \in 1..Len(less \o way) : (less \o way)[i] = (come \o way)[h[i]]
  BY <1>3, <1>4
<1> HIDE DEF h
<1>8. QED
  BY <1>5, <1>6, <1>7 DEF Drawn

(* A line on which nothing happens.                                        *)
LEMMA DrawnItself ==
  ASSUME NEW T, NEW line \in Seq(T)
  PROVE  Drawn(line, line)
BY EndAssumptions, C!NothingLost, ThinnedIsDrawn

(* The frame under way is given up.                                        *)
LEMMA DrawnGivenUp ==
  ASSUME NEW T, NEW come \in Seq(T), NEW way \in Seq(T)
  PROVE  Drawn(come \o way, come)
<1>1. /\ Len(come) \in Nat /\ Len(way) \in Nat /\ Len(come \o way) = Len(come) + Len(way)
      /\ \A i \in 1..Len(come) : (come \o way)[i] = come[i]
  BY ConcatLine
<1> DEFINE h == [i \in 1..Len(come) |-> i]
<1>2. \A i \in 1..Len(come) : i \in 1..Len(come \o way)
  BY <1>1
<1>3. h \in [1..Len(come) -> 1..Len(come \o way)]
  BY <1>2
<1>4. \A i \in 1..Len(come) : come[i] = (come \o way)[h[i]]
  BY <1>1
<1>5. \A i, j \in 1..Len(come) : i <= j => h[i] <= h[j]
  OBVIOUS
<1> HIDE DEF h
<1>6. QED
  BY <1>3, <1>4, <1>5 DEF Drawn

(* The frame under way is written, and may be written once more.           *)
LEMMA DrawnRepeated ==
  ASSUME NEW T, NEW line \in Seq(T), NEW f \in T
  PROVE  Drawn(Append(line, f), Append(Append(line, f), f))
<1>1. /\ Append(line, f) \in Seq(T) /\ Len(line) \in Nat
      /\ Len(Append(line, f)) = Len(line) + 1
      /\ Append(line, f)[Len(line) + 1] = f
  BY AppendedLine
<1> DEFINE last == Len(line) + 1
           once == Append(line, f)
           twice == Append(once, f)
<1>2. /\ Len(twice) = last + 1 /\ \A i \in 1..last : twice[i] = once[i]
      /\ twice[last + 1] = f
  BY <1>1, AppendedLine
<1> DEFINE h == [i \in 1..Len(twice) |-> IF i <= last THEN i ELSE last]
<1>3. last \in Nat \ {0} /\ Len(once) = last /\ once[last] = f
  BY <1>1
<1> HIDE DEF once, twice, last
<1>4. \A i \in 1..Len(twice) : i \in 1..last \/ i = last + 1
  BY <1>2, <1>3
<1>5. h \in [1..Len(twice) -> 1..Len(once)]
  BY <1>2, <1>3
<1>6. \A i \in 1..Len(twice) : twice[i] = once[h[i]]
  BY <1>2, <1>3, <1>4
<1>7. \A i, j \in 1..Len(twice) : i <= j => h[i] <= h[j]
  BY <1>2, <1>3, <1>4
<1> HIDE DEF h
<1>8. QED
  BY <1>5, <1>6, <1>7 DEF Drawn, once, twice

(* What the sender does to a line, but for building a frame.               *)
LEMMA CarriageSent ==
  ASSUME NEW all, NEW n, NEW T, NEW come \in Seq(T), NEW next,
         NEW way \in Seq(T), NEW way2 \in {way, <<>>}, NEW taken, NEW s,
         Carriage(all, n, come \o way, taken, s),
         \/ next = come
         \/ \E f \in T : /\ next = Append(come, f)
                         /\ IF f.kind = "I" THEN way = <<f>>
                                            ELSE way = <<>> /\ C!Unnumbered(f)
  PROVE  Carriage(all, n, next \o way2, taken, s)
<1>1. come \o way \in Seq(T) /\ <<>> \in Seq(T)
  BY ConcatProperties
<1>2. ASSUME NEW rest \in Seq(T), Drawn(come \o way, rest)
      PROVE  Carriage(all, n, rest, taken, s)
  <2>1. Len(rest) \in Nat /\ Len(come \o way) \in Nat
    BY <1>1, LenProperties
  <2>2. QED
    BY <1>2, <2>1, CarriageDrawn
<1>3. CASE next = come
  <2>1. come \o way2 \in Seq(T) /\ Drawn(come \o way, come \o way2)
    <3>1. CASE way2 = way
      BY <1>1, <3>1, DrawnItself
    <3>2. CASE way2 = <<>>
      <4>1. come \o way2 = come
        BY <3>2, ConcatEmptySeq
      <4>2. QED
        BY <4>1, DrawnGivenUp
    <3>3. QED
      BY <3>1, <3>2
  <2>2. QED
    BY <1>2, <1>3, <2>1
<1>4. ASSUME NEW f \in T, f.kind = "I", next = Append(come, f), way = <<f>>
      PROVE  Carriage(all, n, next \o way2, taken, s)
  <2>1. come \o way = Append(come, f) /\ Append(come, f) \in Seq(T)
    BY <1>4, AppendIsConcat, AppendProperties
  <2>2. next \o way2 \in {Append(come, f), Append(Append(come, f), f)}
    <3>1. Append(come, f) \o <<f>> = Append(Append(come, f), f)
      BY <2>1, AppendIsConcat
    <3>2. Append(come, f) \o <<>> = Append(come, f)
      BY <2>1, ConcatEmptySeq
    <3>3. QED
      BY <1>4, <3>1, <3>2
  <2>3. Append(Append(come, f), f) \in Seq(T)
    BY <2>1, AppendProperties
  <2>4. QED
    BY <1>2, <2>1, <2>2, <2>3, DrawnItself, DrawnRepeated
<1>5. ASSUME NEW f \in T, f.kind # "I", next = Append(come, f), way = <<>>, C!Unnumbered(f)
      PROVE  Carriage(all, n, next \o way2, taken, s)
  <2>1. way2 = <<>> /\ come \o way = come /\ Append(come, f) \in Seq(T)
    BY <1>5, ConcatEmptySeq, AppendProperties
  <2>2. next \o way2 = Append(come, f)
    BY <1>5, <2>1, ConcatEmptySeq
  <2>3. QED
    BY <1>5, <2>1, <2>2, CarriageControl
<1>6. QED
  BY <1>3, <1>4, <1>5

(* What the receiver does to a line.                                       *)
LEMMA CarriageReceived ==
  ASSUME NEW all \in Seq(Seq(Octets)), Distinct(all), NEW n \in 0..Len(all),
         NEW T, NEW come \in Seq(T), NEW left \in Seq(T), NEW way \in Seq(T),
         NEW U, NEW taken \in Seq(U), NEW more, NEW s, NEW t,
         Carriage(all, n, come \o way, taken, s), s.vr \in 0..(SeqModulus - 1),
         \/ /\ Drawn(come, left) /\ more = taken
            /\ t.state = "Connected" => s.state = "Connected" /\ t.vr = s.vr
         \/ come # <<>> /\ Head(come).kind # "I" /\ left = Tail(come) /\ more = taken
         \/ /\ come # <<>> /\ Head(come).kind = "I" /\ left = Tail(come)
            /\ s.state = "Connected" /\ Head(come).ns = s.vr
            /\ t.vr = (s.vr + 1) % SeqModulus
            /\ more \in {taken, Append(taken, C!DecodeLpdu(Head(come).information))}
  PROVE  Carriage(all, n, left \o way, more, t)
<1>1. come \o way \in Seq(T) /\ left \o way \in Seq(T)
  BY ConcatProperties
<1>2. CASE /\ Drawn(come, left) /\ more = taken
           /\ t.state = "Connected" => s.state = "Connected" /\ t.vr = s.vr
  <2>1. Len(come \o way) \in Nat /\ Len(left \o way) \in Nat
    BY <1>1, LenProperties
  <2>2. Drawn(come \o way, left \o way)
    BY <1>2, DrawnWithMore
  <2>3. QED
    BY <1>2, <2>1, <2>2, CarriageDrawn
<1>3. ASSUME come # <<>>
      PROVE  /\ come \o way # <<>> /\ Tail(come \o way) = Tail(come) \o way
             /\ Head(come \o way) = Head(come)
  <2>1. Tail(come) \o way = Tail(come \o way) /\ Head(come) = Head(come \o way)
    BY <1>3, C!TailOfConcat, EndAssumptions
  <2>2. QED
    BY <1>3, <2>1, ConcatEqualIffEmpty
<1>4. CASE come # <<>> /\ Head(come).kind # "I" /\ left = Tail(come) /\ more = taken
  <2>1. \A line \in Seq(T) :
          line # <<>> /\ Head(line).kind # "I" /\ Carriage(all, n, line, taken, s) =>
            Carriage(all, n, Tail(line), taken, t)
    BY CarriageHeard
  <2>2. QED
    BY <1>1, <1>3, <1>4, <2>1
<1>5. CASE /\ come # <<>> /\ Head(come).kind = "I" /\ left = Tail(come)
           /\ s.state = "Connected" /\ Head(come).ns = s.vr
           /\ t.vr = (s.vr + 1) % SeqModulus
           /\ more \in {taken, Append(taken, C!DecodeLpdu(Head(come).information))}
  <2>1. /\ come \o way # <<>> /\ Head(come \o way).kind = "I"
        /\ Head(come \o way).ns = s.vr /\ left \o way = Tail(come \o way)
        /\ \/ more = taken
           \/ more = Append(taken, C!DecodeLpdu(Head(come \o way).information))
    BY <1>3, <1>5
  <2>2. ASSUME NEW line \in Seq(T), line # <<>>, Head(line).kind = "I", Head(line).ns = s.vr,
               Carriage(all, n, line, taken, s),
               more = taken \/ more = Append(taken, C!DecodeLpdu(Head(line).information))
        PROVE  Carriage(all, n, Tail(line), more, t)
    BY <1>5, <2>2, CarriageTaken
  <2>3. QED
    BY <1>1, <2>1, <2>2
<1>6. QED
  BY <1>2, <1>4, <1>5

-----------------------------------------------------------------------------
(* The logs of both directions.                                            *)

(* The client and the server encode and decode alike.                      *)
LEMMA SameCodec ==
  /\ \A x : S!EncodeLpdu(x) = C!EncodeLpdu(x) /\ S!DecodeLpdu(x) = C!DecodeLpdu(x)
  /\ \A x : Client!DecodeLpdu(x) = C!DecodeLpdu(x) /\ S!Unnumbered(x) = C!Unnumbered(x)
  /\ Client!LlcHeader = C!LlcHeader /\ S!Unbuilt = C!Unbuilt
BY DEF S!EncodeLpdu, C!EncodeLpdu, S!DecodeLpdu, C!DecodeLpdu, Client!DecodeLpdu,
   S!LlcHeader, C!LlcHeader, Client!LlcHeader, S!Unnumbered, C!Unnumbered, S!Parameters,
   C!Parameters, S!Unbuilt, C!Unbuilt

(* What is sent is the first APDUs of the application.                     *)
SentSoFar(all, sent) ==
  /\ Sequence(sent) /\ Len(sent) <= Len(all)
  /\ \A k \in 1..Len(sent) : sent[k] = all[k]

(* A call of SendApdu that has built no frame has the next APDU.           *)
NextAsked(all, sent, caller) ==
  caller.pc \in C!Unbuilt =>
    Len(sent) < Len(all) /\ caller.unsent = C!EncodeLpdu(all[Len(sent) + 1])

(* An I-frame that is built makes the next APDU of the application the     *)
(* last one sent, and nothing else adds to what is sent.                   *)
LEMMA SentLogged ==
  ASSUME NEW all \in Seq(Seq(Octets)), NEW sent, SentSoFar(all, sent),
         NEW before, NEW after, NextAsked(all, sent, before)
  PROVE  /\ Len(sent) \in Nat
         /\ ~(before.pc \in C!Unbuilt /\ after.pc = "write") => SentLog(sent, before, after) = sent
         /\ before.pc \in C!Unbuilt /\ after.pc = "write" =>
              /\ SentLog(sent, before, after) = Append(sent, all[Len(sent) + 1])
              /\ SentSoFar(all, SentLog(sent, before, after))
              /\ Len(SentLog(sent, before, after)) = Len(sent) + 1
              /\ Len(sent) + 1 \in 1..Len(all) /\ Len(sent) \in 0..Len(all)
<1>1. Len(sent) \in Nat /\ Len(all) \in Nat
  BY LenProperties DEF SentSoFar, Sequence
<1>2. ~(before.pc \in C!Unbuilt /\ after.pc = "write") => SentLog(sent, before, after) = sent
  BY DEF SentLog, C!Unbuilt
<1>3. ASSUME before.pc \in C!Unbuilt, after.pc = "write"
      PROVE  /\ SentLog(sent, before, after) = Append(sent, all[Len(sent) + 1])
             /\ SentSoFar(all, SentLog(sent, before, after))
             /\ Len(SentLog(sent, before, after)) = Len(sent) + 1
             /\ Len(sent) + 1 \in 1..Len(all) /\ Len(sent) \in 0..Len(all)
  <2> DEFINE x == all[Len(sent) + 1]
  <2>1. Len(sent) < Len(all) /\ before.unsent = C!EncodeLpdu(x)
    BY <1>3 DEF NextAsked
  <2>2. Len(sent) + 1 \in 1..Len(all) /\ Len(sent) \in 0..Len(all)
    BY <1>1, <2>1
  <2>3. x \in Seq(Octets)
    BY <2>2, ElementOfSeq
  <2> HIDE DEF x
  <2>4. Head(before.unsent) = C!LlcHeader /\ C!DecodeLpdu(before.unsent) = x
    BY <2>1, <2>3, C!LpduRoundTrip, EndAssumptions
  <2>5. SentLog(sent, before, after) = Append(sent, x)
    BY <1>3, <2>4, SameCodec DEF SentLog, C!Unbuilt
  <2>6. PICK T : sent \in Seq(T)
    BY DEF SentSoFar, Sequence
  <2>7. sent \in Seq(T \cup {x})
    BY <2>6, SeqMonotonic
  <2>8. /\ Append(sent, x) \in Seq(T \cup {x}) /\ Len(Append(sent, x)) = Len(sent) + 1
        /\ \A k \in 1..Len(sent) : Append(sent, x)[k] = sent[k]
        /\ Append(sent, x)[Len(sent) + 1] = x
    BY <2>7, AppendProperties
  <2>9. SentSoFar(all, Append(sent, x))
    <3>1. \A k \in 1..(Len(sent) + 1) : k \in 1..Len(sent) \/ k = Len(sent) + 1
      BY <1>1
    <3>2. \A k \in 1..(Len(sent) + 1) : Append(sent, x)[k] = all[k]
      BY <2>8, <3>1 DEF SentSoFar, x
    <3>3. Len(Append(sent, x)) <= Len(all)
      BY <2>2, <2>8
    <3>4. QED
      BY <2>8, <3>2, <3>3 DEF SentSoFar, Sequence
  <2>10. QED
    BY <2>2, <2>5, <2>8, <2>9 DEF x
<1>4. QED
  BY <1>1, <1>2, <1>3

(* What is taken, handed over or still queued, is what is appended to it.  *)
LEMMA TakenLogged ==
  ASSUME NEW U, NEW got \in Seq(U), NEW queued \in Seq(U), Len(queued) <= 1
  PROVE  /\ got \o queued \in Seq(U)
         /\ GotLog(got, queued, queued) \o queued = got \o queued
         /\ queued # <<>> =>
              GotLog(got, queued, Tail(queued)) \o Tail(queued) = got \o queued
<1>1. got \o queued \in Seq(U)
  BY ConcatProperties
<1>2. GotLog(got, queued, queued) = got
  BY DEF GotLog
<1>3. ASSUME queued # <<>>
      PROVE  GotLog(got, queued, Tail(queued)) \o Tail(queued) = got \o queued
  <2>1. Len(queued) = 1
    <3>1. Len(queued) \in Nat /\ Len(queued) # 0
      BY <1>3, LenProperties, EmptySeq
    <3>2. \A n \in Nat : n # 0 /\ n <= 1 => n = 1
      OBVIOUS
    <3>3. QED
      BY <3>1, <3>2, Zenon
  <2>2. /\ Head(queued) \in U /\ queued[1] = Head(queued) /\ Tail(queued) \in Seq(U)
        /\ Len(Tail(queued)) = 0
    BY <1>3, <2>1, HeadTailProperties
  <2>3. queued = <<Head(queued)>>
    <3>1. /\ <<Head(queued)>> \in Seq(U) /\ Len(<<Head(queued)>>) = 1
          /\ <<Head(queued)>>[1] = Head(queued)
      BY <2>2
    <3>2. QED
      BY <2>1, <2>2, <3>1, SeqEqual
  <2>4. Tail(queued) = <<>>
    BY <2>2, EmptySeq
  <2>5. GotLog(got, queued, Tail(queued)) = Append(got, Head(queued))
    BY <1>3, <2>4 DEF GotLog
  <2>6. Append(got, Head(queued)) = got \o <<Head(queued)>>
    BY <2>2, AppendIsConcat
  <2>7. QED
    BY <1>1, <2>3, <2>4, <2>5, <2>6, ConcatEmptySeq
<1>4. QED
  BY <1>1, <1>2, <1>3

(* What is queued is taken after all that was taken before.                *)
LEMMA QueuedLogged ==
  ASSUME NEW U, NEW got \in Seq(U), NEW x
  PROVE  GotLog(got, <<>>, <<x>>) \o <<x>> = Append(got \o <<>>, x)
<1>1. GotLog(got, <<>>, <<x>>) = got /\ got \o <<>> = got
  BY ConcatEmptySeq DEF GotLog
<1>2. Append(got, x) = got \o <<x>>
  BY SeqMonotonic, AppendIsConcat
<1>3. QED
  BY <1>1, <1>2

-----------------------------------------------------------------------------
(* From the client to the server.                                          *)

UpLine == Up \o C!OnTheWay

(* The APDUs of the client are on the line, in order and each under its    *)
(* own number, as far as the server has not taken them.                    *)
UpDelivers ==
  /\ SentSoFar(ClientApdus, cSent) /\ NextAsked(ClientApdus, cSent, cCall)
  /\ C!SenderCall
  /\ Carriage(ClientApdus, Len(cSent), UpLine, TakenByServer, sSession)
  /\ sSegments = <<>> /\ S!OneApduPending

(* The APDUs of the client differ, and each fits into one frame.           *)
ClientSendsWhole ==
  /\ Distinct(ClientApdus)
  /\ \A i \in 1..Len(ClientApdus) : C!Whole(ClientApdus[i])

(* The types that the lemmas on lines ask for.                             *)
LEMMA UpTypes ==
  ASSUME LinkOK, SentSoFar(ClientApdus, cSent)
  PROVE  /\ Up \in Seq(C!Frame) /\ C!OnTheWay \in Seq(C!Frame) /\ cCall.frame \in C!Frame
         /\ ClientApdus \in Seq(Seq(Octets)) /\ Len(cSent) \in 0..Len(ClientApdus)
         /\ sSession.vr \in 0..(SeqModulus - 1)
<1>1. Up \in Seq(C!Frame)
  BY SameFrames, EndAssumptions, S!IncomingFrames DEF Up, LinkOK, S!ChannelOK
<1>2. cCall.frame \in C!Frame
  BY EndAssumptions, C!CallFields DEF LinkOK
<1>3. C!OnTheWay \in Seq(C!Frame)
  BY <1>2 DEF C!OnTheWay
<1>4. ClientApdus \in Seq(Seq(Octets))
  BY LinkAssumption DEF LinkAssumption
<1>5. Len(cSent) \in 0..Len(ClientApdus)
  <2>1. Len(cSent) \in Nat /\ Len(ClientApdus) \in Nat
    BY <1>4, LenProperties DEF SentSoFar, Sequence
  <2>2. QED
    BY <2>1 DEF SentSoFar
<1>6. sSession.vr \in 0..(SeqModulus - 1)
  BY DEF LinkOK, S!ChannelOK, S!Session, S!SeqNumbers
<1>7. QED
  BY <1>1, <1>2, <1>3, <1>4, <1>5, <1>6

(* What the client writes comes after all that it wrote before.            *)
LEMMA UpWritten ==
  ASSUME LinkOK, UNCHANGED sVars
  PROVE  /\ c2s' = c2s => Up' = Up
         /\ \A f \in C!Frame : c2s' = Append(c2s, f) => Up' = Append(Up, f)
<1>1. sPendingFrames' = sPendingFrames
  BY DEF sVars
<1>2. sPendingFrames \in Seq(C!Frame) /\ c2s \in Seq(C!Frame)
  BY SameFrames DEF LinkOK, S!ChannelOK, S!ReadOK
<1>3. Up = sPendingFrames \o c2s /\ Up' = sPendingFrames' \o c2s'
  BY DEF Up, S!Incoming
<1>4. ASSUME NEW f \in C!Frame, c2s' = Append(c2s, f)
      PROVE  Up' = Append(Up, f)
  <2>1. sPendingFrames \o Append(c2s, f) = Append(sPendingFrames \o c2s, f)
    BY <1>2, QueuedBeforeWritten
  <2>2. QED
    BY <1>1, <1>3, <1>4, <2>1
<1>5. QED
  BY <1>1, <1>3, <1>4

(* A step in which the client's call goes on, or is made.                  *)
LEMMA UpSent ==
  ASSUME ClientSendsWhole, LinkOK, UpDelivers, C!SenderEvent, C!SenderCall',
         UNCHANGED <<sVars, sGot>>, cSent' = SentLog(cSent, cCall, cCall')
  PROVE  UpDelivers'
<1>1. /\ Up \in Seq(C!Frame) /\ C!OnTheWay \in Seq(C!Frame) /\ cCall.frame \in C!Frame
      /\ ClientApdus \in Seq(Seq(Octets)) /\ Len(cSent) \in 0..Len(ClientApdus)
  BY UpTypes DEF UpDelivers
<1>2. /\ TakenByServer' = TakenByServer /\ sSession' = sSession /\ sSegments' = <<>>
      /\ S!OneApduPending'
  BY DEF UpDelivers, sVars, TakenByServer, S!OneApduPending
<1>3. /\ SentSoFar(ClientApdus, cSent) /\ NextAsked(ClientApdus, cSent, cCall)
      /\ Carriage(ClientApdus, Len(cSent), Up \o C!OnTheWay, TakenByServer, sSession)
  BY DEF UpDelivers, UpLine
<1>4. /\ c2s' = c2s => Up' = Up
      /\ \A f \in C!Frame : c2s' = Append(c2s, f) => Up' = Append(Up, f)
  BY UpWritten
<1>5. ASSUME cSent' = cSent, C!OnTheWay' \in {C!OnTheWay, <<>>},
             \/ Up' = Up
             \/ \E f \in C!Frame : /\ Up' = Append(Up, f)
                                   /\ IF f.kind = "I" THEN C!OnTheWay = <<f>>
                                      ELSE C!OnTheWay = <<>> /\ C!Unnumbered(f),
             NextAsked(ClientApdus, cSent, cCall')
      PROVE  UpDelivers'
  <2>1. Carriage(ClientApdus, Len(cSent), Up' \o C!OnTheWay', TakenByServer, sSession)
    BY <1>1, <1>3, <1>5, CarriageSent
  <2>2. /\ SentSoFar(ClientApdus, cSent') /\ NextAsked(ClientApdus, cSent', cCall')
        /\ Carriage(ClientApdus, Len(cSent'), Up' \o C!OnTheWay', TakenByServer', sSession')
    BY <1>2, <1>3, <1>5, <2>1
  <2>3. QED
    BY <1>2, <2>2 DEF UpDelivers, UpLine, SentSoFar, NextAsked, Sequence
<1>6. CASE C!SenderRests
  <2>1. cSent' = cSent
    BY <1>1, <1>3, <1>6, SentLogged DEF C!SenderRests
  <2>2. NextAsked(ClientApdus, cSent, cCall')
    BY <1>3, <1>6 DEF C!SenderRests, NextAsked
  <2>3. QED
    BY <1>4, <1>5, <1>6, <2>1, <2>2 DEF C!SenderRests
<1>7. CASE C!SenderPuts
  <2>1. cSent' = cSent
    <3>1. cCall.pc \notin C!Unbuilt
      BY <1>7 DEF C!SenderPuts, C!Unbuilt
    <3>2. QED
      BY <1>1, <1>3, <3>1, SentLogged
  <2>2. NextAsked(ClientApdus, cSent, cCall')
    BY <1>7 DEF C!SenderPuts, NextAsked
  <2>3. Up' = Append(Up, cCall.frame)
    BY <1>1, <1>4, <1>7 DEF C!SenderPuts
  <2>4. IF cCall.frame.kind = "I" THEN C!OnTheWay = <<cCall.frame>>
        ELSE C!OnTheWay = <<>> /\ C!Unnumbered(cCall.frame)
    BY <1>7 DEF C!SenderPuts, C!OnTheWay, C!Asking, UpDelivers, C!SenderCall
  <2>5. QED
    BY <1>1, <1>5, <1>7, <2>1, <2>2, <2>3, <2>4 DEF C!SenderPuts
<1>8. CASE C!SenderBuilds
  <2> DEFINE n == Len(cSent)
             f == cCall'.frame
  <2>1. /\ Len(cSent') = n + 1 /\ n + 1 \in 1..Len(ClientApdus) /\ n \in Nat
        /\ SentSoFar(ClientApdus, cSent')
    BY <1>1, <1>3, <1>8, SentLogged DEF C!SenderBuilds
  <2>2. Up' = Up /\ C!OnTheWay = <<>> /\ C!OnTheWay' = <<f>>
    BY <1>4, <1>8 DEF C!SenderBuilds, C!OnTheWay, C!Asking, C!Unbuilt
  <2>3. /\ f \in C!Frame /\ f.kind = "I" /\ ~f.segmented
        /\ f.information = C!EncodeLpdu(ClientApdus[n + 1])
    BY <1>3, <1>8 DEF C!SenderBuilds, NextAsked
  <2> HIDE DEF f, n
  <2>4. Up \o C!OnTheWay = Up /\ Up \o <<f>> = Append(Up, f)
    BY <1>1, <2>2, <2>3, ConcatEmptySeq, AppendIsConcat
  <2>5. TakenByServer \in Seq(S!Information)
    BY TakenAreApdus
  <2>6. Carriage(ClientApdus, n + 1, Append(Up, f), TakenByServer, sSession)
    <3>1. n + 1 <= Len(ClientApdus)
      BY <1>1, <2>1, LenProperties
    <3>2. Carriage(ClientApdus, n, Up, TakenByServer, sSession)
      BY <1>3, <2>4 DEF n
    <3>3. Distinct(ClientApdus)
      BY DEF ClientSendsWhole
    <3>4. QED
      BY <1>1, <2>1, <2>3, <2>5, <3>1, <3>2, <3>3, CarriageBuilt
  <2>7. NextAsked(ClientApdus, cSent', cCall')
    BY <1>8 DEF C!SenderBuilds, NextAsked, C!Unbuilt
  <2>8. Carriage(ClientApdus, Len(cSent'), Up' \o C!OnTheWay', TakenByServer', sSession')
    BY <1>2, <2>1, <2>2, <2>4, <2>6
  <2>9. QED
    BY <1>2, <2>1, <2>7, <2>8 DEF UpDelivers, UpLine, SentSoFar, NextAsked, Sequence
<1>9. QED
  BY <1>6, <1>7, <1>8 DEF C!SenderEvent

(* The client moves.                                                       *)
LEMMA UpClient ==
  ASSUME ClientSendsWhole, LinkOK, UpDelivers, ClientNext
  PROVE  UpDelivers'
<1>1. /\ UNCHANGED <<sVars, sGot>> /\ cSent' = SentLog(cSent, cCall, cCall')
      /\ C!SenderCall /\ SentSoFar(ClientApdus, cSent) /\ NextAsked(ClientApdus, cSent, cCall)
  BY DEF ClientNext, ClientLog, UpDelivers
<1>2. ASSUME C!SenderEvent, C!SenderCall'
      PROVE  UpDelivers'
  BY <1>1, <1>2, UpSent
<1>3. CASE Client!Step
  <2>1. \A apdu \in {ClientApdus[i] : i \in 1..Len(ClientApdus)} : C!Whole(apdu)
    BY DEF ClientSendsWhole
  <2>2. C!ChannelOK /\ C!Step
    BY <1>3, ClientActions DEF LinkOK
  <2>3. C!SenderEvent /\ C!SenderCall'
    BY <1>1, <2>1, <2>2, EndAssumptions, C!SenderSteps
  <2>4. QED
    BY <1>2, <2>3
<1>4. CASE ClientConnects \/ ClientDisconnects \/ ClientReceives
  <2>1. C!DataLinkCall \/ \E capacity : C!ReceiveApdu(capacity)
    BY <1>4, ClientActions
       DEF ClientConnects, ClientDisconnects, ClientReceives, C!DataLinkCall
  <2>2. QED
    BY <1>2, <2>1, EndAssumptions, C!SenderCalls DEF C!SenderEvent
<1>5. CASE ClientSends
  <2> DEFINE apdu == ClientApdus[Len(cSent) + 1]
  <2>1. Len(cSent) < Len(ClientApdus) /\ C!SendApdu(apdu)
    BY <1>5, ClientActions DEF ClientSends
  <2>2. Len(cSent) + 1 \in 1..Len(ClientApdus)
    <3>1. Len(cSent) \in 0..Len(ClientApdus)
      BY <1>1, UpTypes
    <3>2. QED
      BY <2>1, <3>1
  <2>3. apdu \in {ClientApdus[i] : i \in 1..Len(ClientApdus)}
    BY <2>2
  <2> HIDE DEF apdu
  <2>4. /\ C!SenderCall' /\ cCall.pc = "idle" /\ c2s' = c2s /\ C!OnTheWay' = <<>>
        /\ cCall'.pc # "write"
        /\ cCall'.pc \in C!Unbuilt => cCall'.unsent = C!EncodeLpdu(apdu)
    BY <2>1, <2>3, EndAssumptions, C!SenderAsked
  <2>5. cSent' = cSent
    BY <1>1, <2>4 DEF SentLog
  <2>6. NextAsked(ClientApdus, cSent', cCall')
    BY <2>1, <2>4, <2>5 DEF NextAsked, apdu
  <2>7. Up' = Up
    BY <1>1, <2>4, UpWritten
  <2>8. /\ TakenByServer' = TakenByServer /\ sSession' = sSession /\ sSegments' = <<>>
        /\ S!OneApduPending'
    BY <1>1 DEF UpDelivers, sVars, TakenByServer, S!OneApduPending
  <2>9. Carriage(ClientApdus, Len(cSent), Up' \o C!OnTheWay', TakenByServer, sSession)
    <3>1. Carriage(ClientApdus, Len(cSent), Up \o C!OnTheWay, TakenByServer, sSession)
      BY DEF UpDelivers, UpLine
    <3>2. Up \in Seq(C!Frame) /\ C!OnTheWay \in Seq(C!Frame)
      BY <1>1, UpTypes
    <3>3. QED
      BY <2>4, <2>7, <3>1, <3>2, CarriageSent
  <2>10. /\ SentSoFar(ClientApdus, cSent')
         /\ Carriage(ClientApdus, Len(cSent'), Up' \o C!OnTheWay', TakenByServer', sSession')
    BY <1>1, <2>5, <2>8, <2>9
  <2>11. QED
    BY <2>4, <2>6, <2>8, <2>10 DEF UpDelivers, UpLine, SentSoFar, NextAsked, Sequence
<1>6. QED
  BY <1>3, <1>4, <1>5 DEF ClientNext, ClientStep

(* The server moves.                                                       *)
LEMMA UpServer ==
  ASSUME ClientSendsWhole, LinkOK, UpDelivers, ServerNext
  PROVE  UpDelivers'
<1>1. /\ ServerCallOrStep /\ UNCHANGED <<cVars, cSent>>
      /\ sGot' = GotLog(sGot, sPendingApdus, sPendingApdus')
  BY ServerMoves DEF ServerNext, ServerLog
<1>2. /\ SentSoFar(ClientApdus, cSent) /\ NextAsked(ClientApdus, cSent, cCall) /\ C!SenderCall
      /\ Carriage(ClientApdus, Len(cSent), Up \o C!OnTheWay, TakenByServer, sSession)
      /\ sSegments = <<>> /\ S!OneApduPending /\ S!ChannelOK
  BY DEF UpDelivers, UpLine, LinkOK
<1>3. /\ Up \in Seq(C!Frame) /\ C!OnTheWay \in Seq(C!Frame)
      /\ ClientApdus \in Seq(Seq(Octets)) /\ Len(cSent) \in 0..Len(ClientApdus)
      /\ sSession.vr \in 0..(SeqModulus - 1)
  BY <1>2, UpTypes
<1>4. S!ReceiverEvent /\ sSegments' = <<>>
  <2>1. Up # <<>> => S!Unsegmented(Head(Up))
    <3>1. ASSUME Up # <<>>
          PROVE  S!Unsegmented(Head(Up))
      <4>1. Len(Up) \in Nat \ {0} /\ Head(Up) = Up[1]
        BY <1>3, <3>1, TailOfLine
      <4>2. /\ Len(Up \o C!OnTheWay) \in Nat /\ 1 \in 1..Len(Up \o C!OnTheWay)
            /\ (Up \o C!OnTheWay)[1] = Head(Up)
        BY <1>3, <4>1, ConcatLine
      <4>3. Carries(ClientApdus, Len(cSent), Head(Up))
        BY <1>2, <4>2 DEF Carriage
      <4>4. QED
        BY <4>3, SameCodec DEF Carries, S!Unsegmented
    <3>2. QED
      BY <3>1
  <2>2. S!Step => S!ReceiverEvent /\ sSegments' = <<>>
    BY <1>2, <2>1, EndAssumptions, S!ReceiverSteps DEF Up
  <2>3. ~S!Step => \/ S!DataLinkCall
                  \/ (\E apdu : S!SendApdu(apdu)) \/ (\E capacity : S!ReceiveApdu(capacity))
    BY <1>1 DEF ServerCallOrStep, S!DataLinkCall
  <2>4. ~S!Step => S!ReceiverEvent /\ sSegments' = <<>>
    BY <1>2, <2>3, EndAssumptions, S!ReceiverCalls
  <2>5. QED
    BY <2>2, <2>4
<1>5. S!OneApduPending'
  BY <1>2, <1>4, EndAssumptions, S!ReceiverKeepsOne
<1>6. Up' \in Seq(C!Frame)
  <2>1. S!ChannelOK'
    BY <1>1, ServerKeepsType
  <2>2. S!ReadOK'
    BY <2>1 DEF S!ChannelOK
  <2>3. c2s' \in Seq(C!Frame) /\ sPendingFrames' \in Seq(C!Frame)
    BY <2>2, SameFrames DEF S!ReadOK
  <2>4. QED
    BY <2>3, ConcatProperties DEF Up, S!Incoming
<1>7. /\ TakenByServer \in Seq(S!Information)
      /\ sPendingApdus' = sPendingApdus => TakenByServer' = TakenByServer
      /\ sPendingApdus # <<>> /\ sPendingApdus' = Tail(sPendingApdus) =>
           TakenByServer' = TakenByServer
      /\ \A x : sPendingApdus = <<>> /\ sPendingApdus' = <<x>> =>
           TakenByServer' = Append(TakenByServer, x)
  <2>1. sGot \in Seq(S!Information) /\ sPendingApdus \in Seq(S!Information)
    BY <1>2 DEF LinkOK, S!ChannelOK
  <2>2. Len(sPendingApdus) <= 1
    BY <1>2 DEF S!OneApduPending
  <2>3. TakenByServer = sGot \o sPendingApdus /\ TakenByServer' = sGot' \o sPendingApdus'
    BY DEF TakenByServer
  <2>4. /\ sGot \o sPendingApdus \in Seq(S!Information)
        /\ GotLog(sGot, sPendingApdus, sPendingApdus) \o sPendingApdus = sGot \o sPendingApdus
        /\ sPendingApdus # <<>> =>
             GotLog(sGot, sPendingApdus, Tail(sPendingApdus)) \o Tail(sPendingApdus)
               = sGot \o sPendingApdus
    BY <2>1, <2>2, TakenLogged
  <2>5. \A x : GotLog(sGot, <<>>, <<x>>) \o <<x>> = Append(sGot \o <<>>, x)
    BY <2>1, QueuedLogged, Zenon
  <2>6. /\ sPendingApdus' = sPendingApdus => TakenByServer' = TakenByServer
        /\ sPendingApdus # <<>> /\ sPendingApdus' = Tail(sPendingApdus) =>
             TakenByServer' = TakenByServer
    BY <1>1, <2>3, <2>4
  <2>7. ASSUME NEW x, sPendingApdus = <<>>, sPendingApdus' = <<x>>
        PROVE  TakenByServer' = Append(TakenByServer, x)
    BY <1>1, <2>3, <2>5, <2>7
  <2>8. QED
    BY <2>3, <2>4, <2>6, <2>7
<1>8. \/ /\ Drawn(Up, Up') /\ TakenByServer' = TakenByServer
         /\ sSession'.state = "Connected" =>
              sSession.state = "Connected" /\ sSession'.vr = sSession.vr
      \/ /\ Up # <<>> /\ Head(Up).kind # "I" /\ Up' = Tail(Up)
         /\ TakenByServer' = TakenByServer
      \/ /\ Up # <<>> /\ Head(Up).kind = "I" /\ Up' = Tail(Up)
         /\ sSession.state = "Connected" /\ Head(Up).ns = sSession.vr
         /\ sSession'.vr = (sSession.vr + 1) % SeqModulus
         /\ TakenByServer' \in
              {TakenByServer, Append(TakenByServer, C!DecodeLpdu(Head(Up).information))}
  <2>1. CASE S!ReceiverPasses
    <3>1. Drawn(Up, Up')
      BY <1>3, <1>6, <2>1, ThinnedIsDrawn DEF S!ReceiverPasses, Up
    <3>2. QED
      BY <1>7, <2>1, <3>1 DEF S!ReceiverPasses
  <2>2. CASE S!ReceiverHears
    BY <1>7, <2>2 DEF S!ReceiverHears, Up
  <2>3. CASE S!ReceiverTakes
    BY <1>7, <2>3, SameCodec DEF S!ReceiverTakes, Up
  <2>4. CASE S!ReceiverHands
    <3>1. Up' = Up /\ sSession' = sSession /\ TakenByServer' = TakenByServer
      BY <1>7, <2>4 DEF S!ReceiverHands, Up
    <3>2. QED
      BY <1>3, <3>1, DrawnItself
  <2>5. QED
    BY <1>4, <2>1, <2>2, <2>3, <2>4 DEF S!ReceiverEvent
<1>9. Carriage(ClientApdus, Len(cSent), Up' \o C!OnTheWay, TakenByServer', sSession')
  <2>1. Distinct(ClientApdus)
    BY DEF ClientSendsWhole
  <2>2. QED
    BY <1>2, <1>3, <1>6, <1>7, <1>8, <2>1, CarriageReceived
<1>10. cSent' = cSent /\ cCall' = cCall
  BY <1>1 DEF cVars
<1>11. C!OnTheWay' = C!OnTheWay /\ C!SenderCall'
  BY <1>2, <1>10 DEF C!OnTheWay, C!SenderCall
<1>12. /\ SentSoFar(ClientApdus, cSent') /\ NextAsked(ClientApdus, cSent', cCall')
       /\ Carriage(ClientApdus, Len(cSent'), Up' \o C!OnTheWay', TakenByServer', sSession')
  BY <1>2, <1>9, <1>10, <1>11
<1>13. QED
  BY <1>4, <1>5, <1>11, <1>12 DEF UpDelivers, UpLine, SentSoFar, NextAsked, Sequence

(* Frames of this direction are lost, or nothing happens to it.            *)
LEMMA UpStays ==
  ASSUME ClientSendsWhole, LinkOK, UpDelivers, UNCHANGED <<cVars, sVars, cSent, sGot>>,
         \/ c2s' = c2s
         \/ \E i \in 1..Len(c2s) : c2s' = Without(c2s, i)
  PROVE  UpDelivers'
<1>1. /\ SentSoFar(ClientApdus, cSent) /\ NextAsked(ClientApdus, cSent, cCall) /\ C!SenderCall
      /\ Carriage(ClientApdus, Len(cSent), Up \o C!OnTheWay, TakenByServer, sSession)
      /\ sSegments = <<>> /\ S!OneApduPending
  BY DEF UpDelivers, UpLine
<1>2. /\ Up \in Seq(C!Frame) /\ C!OnTheWay \in Seq(C!Frame)
      /\ ClientApdus \in Seq(Seq(Octets)) /\ Len(cSent) \in 0..Len(ClientApdus)
      /\ sSession.vr \in 0..(SeqModulus - 1)
  BY <1>1, UpTypes
<1>3. UNCHANGED <<cCall, cSent, sGot, sSession, sSegments, sPendingFrames, sPendingApdus>>
  BY DEF cVars, sVars
<1>4. sPendingFrames \in Seq(C!Frame) /\ c2s \in Seq(C!Frame)
  BY SameFrames DEF LinkOK, S!ChannelOK, S!ReadOK
<1>5. Up' \in Seq(C!Frame) /\ Drawn(Up, Up')
  <2>1. Up = sPendingFrames \o c2s /\ Up' = sPendingFrames \o c2s'
    BY <1>3 DEF Up, S!Incoming
  <2>2. CASE c2s' = c2s
    <3>1. Up' = Up
      BY <2>1, <2>2
    <3>2. QED
      BY <1>2, <3>1, DrawnItself
  <2>3. ASSUME NEW i \in 1..Len(c2s), c2s' = Without(c2s, i)
        PROVE  Up' \in Seq(C!Frame) /\ Drawn(Up, Up')
    <3>1. Without(c2s, i) \in Seq(C!Frame)
      BY <1>4, LostFrame
    <3>2. sPendingFrames \o Without(c2s, i) \in Seq(C!Frame)
      BY <1>4, <3>1, ConcatProperties
    <3>3. C!Thinned(sPendingFrames \o c2s, sPendingFrames \o Without(c2s, i))
      BY <1>4, LossThins
    <3>4. Drawn(sPendingFrames \o c2s, sPendingFrames \o Without(c2s, i))
      BY <1>2, <2>1, <3>2, <3>3, ThinnedIsDrawn
    <3>5. QED
      BY <2>1, <2>3, <3>2, <3>4
  <2>4. QED
    BY <2>2, <2>3
<1>6. TakenByServer' = TakenByServer /\ TakenByServer \in Seq(S!Information)
  BY <1>3, TakenAreApdus DEF TakenByServer
<1>7. C!OnTheWay' = C!OnTheWay /\ C!SenderCall' /\ S!OneApduPending'
  BY <1>1, <1>3 DEF C!OnTheWay, C!SenderCall, S!OneApduPending
<1>8. Distinct(ClientApdus)
  BY DEF ClientSendsWhole
<1>9. Carriage(ClientApdus, Len(cSent), Up' \o C!OnTheWay, TakenByServer, sSession)
  BY <1>1, <1>2, <1>5, <1>6, <1>8, CarriageReceived
<1>10. /\ SentSoFar(ClientApdus, cSent') /\ NextAsked(ClientApdus, cSent', cCall')
       /\ Carriage(ClientApdus, Len(cSent'), Up' \o C!OnTheWay', TakenByServer', sSession')
       /\ sSegments' = <<>>
  BY <1>1, <1>3, <1>6, <1>7, <1>9
<1>11. QED
  BY <1>7, <1>10 DEF UpDelivers, UpLine, SentSoFar, NextAsked, Sequence

(* Every step keeps what is on its way to the server in order.             *)
LEMMA UpGoesOn ==
  ASSUME ClientSendsWhole, LinkOK, UpDelivers, [Next]_vars
  PROVE  UpDelivers'
<1>1. CASE LoseFrame
  <2>1. /\ UNCHANGED <<cVars, sVars, cSent, sGot>>
        /\ c2s' = c2s \/ \E i \in 1..Len(c2s) : c2s' = Without(c2s, i)
    BY <1>1 DEF LoseFrame
  <2>2. QED
    BY <2>1, UpStays
<1>2. CASE UNCHANGED vars
  <2>1. UNCHANGED <<cVars, sVars, cSent, sGot, c2s>>
    BY <1>2 DEF vars
  <2>2. QED
    BY <2>1, UpStays
<1>3. QED
  BY <1>1, <1>2, UpClient, UpServer DEF Next

(* An empty line carries nothing of nothing sent.                          *)
LEMMA NothingCarried ==
  ASSUME NEW all \in Seq(Seq(Octets)), NEW s
  PROVE  Carriage(all, 0, <<>>, <<>>, s) /\ SentSoFar(all, <<>>)
<1>1. Len(<<>>) = 0 /\ <<>> \in Seq({}) /\ Len(all) \in Nat
  BY LenProperties
<1>2. \A i \in 1..Len(<<>>) : FALSE
  BY <1>1
<1>3. Carriage(all, 0, <<>>, <<>>, s)
  BY <1>2 DEF Carriage, InOrder, TakenInOrder
<1>4. SentSoFar(all, <<>>)
  <2>1. Sequence(<<>>)
    BY <1>1 DEF Sequence
  <2>2. QED
    BY <1>1, <1>2, <2>1 DEF SentSoFar
<1>5. QED
  BY <1>3, <1>4

(* At first nothing is on its way to the server.                           *)
LEMMA UpStarts ==
  ASSUME Init
  PROVE  UpDelivers
<1>1. /\ cCall.pc = "idle" /\ cCall.unsent = <<>> /\ cCall.frame.kind = "DISC"
      /\ cCall.frame.information = <<>>
  BY DEF Init, Client!Returned, Client!NoFrame, Client!UFrame
<1>2. /\ C!OnTheWay = <<>> /\ C!SenderCall
      /\ NextAsked(ClientApdus, cSent, cCall)
  BY <1>1 DEF C!OnTheWay, C!SenderCall, C!Asking, C!Unbuilt, C!Unnumbered, NextAsked
<1>3. /\ cSent = <<>> /\ TakenByServer = <<>> \o <<>> /\ Up = <<>> \o <<>>
      /\ sSegments = <<>> /\ sPendingApdus = <<>>
  BY DEF Init, TakenByServer, Up, S!Incoming
<1>4. /\ <<>> \o <<>> = <<>> /\ Len(<<>>) = 0
  OBVIOUS
<1>5. ClientApdus \in Seq(Seq(Octets))
  BY LinkAssumption DEF LinkAssumption
<1>6. Carriage(ClientApdus, Len(cSent), UpLine, TakenByServer, sSession)
  BY <1>2, <1>3, <1>4, <1>5, NothingCarried DEF UpLine
<1>7. SentSoFar(ClientApdus, cSent) /\ S!OneApduPending
  BY <1>3, <1>4, <1>5, NothingCarried DEF S!OneApduPending
<1>8. QED
  BY <1>2, <1>3, <1>6, <1>7 DEF UpDelivers

-----------------------------------------------------------------------------
(* The steps of ApduDelivery.                                              *)

(* The position of x, handed over next, is one not reached yet.            *)
GoesOnTo(all, n, got, x) ==
  \E i \in 1..n :
    /\ \A k \in 1..Len(Positions(got, all)) : Positions(got, all)[k] < i
    /\ Positions(Append(got, x), all) = Append(Positions(got, all), i)

(* An APDU that is handed over is beyond all handed over before it.        *)
LEMMA NextPosition ==
  ASSUME NEW all \in Seq(Seq(Octets)), Distinct(all), NEW n \in 0..Len(all),
         NEW U, NEW got \in Seq(U), NEW queued \in Seq(U), queued # <<>>,
         TakenInOrder(all, n, got \o queued)
  PROVE  GoesOnTo(all, n, got, Head(queued))
<1> DEFINE taken == got \o queued
           x == Head(queued)
           m == Len(got)
           old == Positions(got, all)
           new == Positions(Append(got, x), all)
<1>1. /\ m \in Nat /\ Len(queued) \in Nat \ {0} /\ Len(taken) = m + Len(queued)
      /\ \A k \in 1..m : taken[k] = got[k]
      /\ taken[m + 1] = x /\ x \in U
  <2>1. Len(queued) \in Nat \ {0} /\ queued[1] = x /\ x \in U
    BY LenProperties, EmptySeq, HeadTailProperties
  <2>2. /\ m \in Nat /\ Len(taken) = m + Len(queued)
        /\ \A k \in 1..m : taken[k] = got[k]
        /\ \A k \in 1..Len(queued) : taken[m + k] = queued[k]
    BY ConcatLine
  <2>3. QED
    BY <2>1, <2>2
<1>2. m + 1 \in 1..Len(taken) /\ \A k \in 1..m : k \in 1..Len(taken) /\ k < m + 1
  BY <1>1
<1>3. /\ \A k \in 1..Len(taken) : \E i \in 1..n : taken[k] = all[i]
      /\ \A k, l \in 1..Len(taken) : k < l => At(all, taken[k]) < At(all, taken[l])
  BY DEF TakenInOrder
<1>4. Len(all) \in Nat /\ \A i \in 1..n : i \in 1..Len(all)
  BY LenProperties
<1>5. PICK i \in 1..n : taken[m + 1] = all[i]
  BY <1>2, <1>3
<1>6. At(all, x) = i
  BY <1>1, <1>4, <1>5, AtItsPlace
<1>7. ASSUME NEW k \in 1..m
      PROVE  \E j \in 1..Len(all) : all[j] = got[k] /\ At(all, got[k]) = j /\ j < i
  <2>1. PICK j \in 1..n : taken[k] = all[j]
    BY <1>2, <1>3
  <2>2. At(all, got[k]) = j /\ j \in 1..Len(all) /\ all[j] = got[k]
    BY <1>1, <1>4, <2>1, AtItsPlace
  <2>3. j < i
    BY <1>1, <1>2, <1>3, <1>6, <2>2
  <2>4. QED
    BY <2>2, <2>3
<1>8. /\ Append(got, x) \in Seq(U) /\ Len(Append(got, x)) = m + 1
      /\ \A k \in 1..m : Append(got, x)[k] = got[k]
      /\ Append(got, x)[m + 1] = x
  BY <1>1, AppendProperties
<1>9. old = [k \in 1..m |-> At(all, got[k])]
  <2>1. \A k \in 1..m : \E j \in 1..Len(all) : all[j] = got[k]
    BY <1>7
  <2>2. QED
    BY <2>1 DEF Positions, At
<1>10. new = [k \in 1..(m + 1) |-> At(all, Append(got, x)[k])]
  <2>1. \A k \in 1..(m + 1) : k \in 1..m \/ k = m + 1
    <3>1. \A j \in Nat : \A k \in 1..(j + 1) : k \in 1..j \/ k = j + 1
      OBVIOUS
    <3>2. m \in Nat
      BY <1>1
    <3>3. QED
      BY <3>1, <3>2
  <2>2. \A k \in 1..(m + 1) : \E j \in 1..Len(all) : all[j] = Append(got, x)[k]
    BY <1>1, <1>4, <1>5, <1>7, <1>8, <2>1
  <2>3. QED
    BY <1>8, <2>2 DEF Positions, At
<1> HIDE DEF old, new, x, m, taken
<1>11. old \in Seq(Nat) /\ Len(old) = m /\ \A k \in 1..m : old[k] = At(all, got[k]) /\ old[k] < i
  <2>1. \A k \in 1..m : At(all, got[k]) \in Nat /\ At(all, got[k]) < i
    BY <1>4, <1>7
  <2>2. old \in [1..m -> Nat]
    BY <1>9, <2>1
  <2>3. old \in Seq(Nat)
    BY <1>1, <2>2, SeqDef
  <2>4. Len(old) = m
    BY <1>1, <2>2, <2>3, LenProperties
  <2>5. QED
    BY <1>9, <2>1, <2>3, <2>4
<1>12. i \in Nat
  OBVIOUS
<1>13. /\ Append(old, i) \in Seq(Nat) /\ Len(Append(old, i)) = m + 1
       /\ \A k \in 1..m : Append(old, i)[k] = old[k]
       /\ Append(old, i)[m + 1] = i
  BY <1>11, <1>12, AppendProperties
<1>14. new \in Seq(Nat) /\ Len(new) = m + 1 /\ \A k \in 1..(m + 1) : new[k] = Append(old, i)[k]
  <2>1. \A k \in 1..(m + 1) : k \in 1..m \/ k = m + 1
    BY <1>1
  <2>2. ASSUME NEW k \in 1..(m + 1)
        PROVE  At(all, Append(got, x)[k]) = Append(old, i)[k] /\ Append(old, i)[k] \in Nat
    <3>1. CASE k \in 1..m
      <4>1. old[k] = At(all, got[k])
        BY <1>11, <3>1
      <4>2. Append(got, x)[k] = got[k] /\ Append(old, i)[k] = old[k]
        BY <1>8, <1>13, <3>1
      <4>3. old[k] \in Nat
        BY <1>11, <3>1, ElementOfSeq
      <4>4. QED
        BY <4>1, <4>2, <4>3
    <3>2. CASE k = m + 1
      BY <1>6, <1>8, <1>12, <1>13, <3>2
    <3>3. QED
      BY <2>1, <3>1, <3>2
  <2>3. new \in [1..(m + 1) -> Nat] /\ \A k \in 1..(m + 1) : new[k] = Append(old, i)[k]
    BY <1>10, <2>2
  <2>4. new \in Seq(Nat)
    BY <1>1, <2>3, SeqDef
  <2>5. Len(new) = m + 1
    BY <1>1, <2>3, <2>4, LenProperties
  <2>6. QED
    BY <2>3, <2>4, <2>5
<1>15. new = Append(old, i)
  BY <1>13, <1>14, SeqEqual
<1>16. \A k \in 1..Len(old) : old[k] < i
  BY <1>11
<1>17. QED
  BY <1>15, <1>16 DEF old, new, x, GoesOnTo

(* A step of the client is a Send or is not seen, one of the server is a   *)
(* Deliver or is not seen.                                                 *)
LEMMA UpStep ==
  ASSUME ClientSendsWhole, LinkOK, UpDelivers, [Next]_vars
  PROVE  [ToServer!Next]_<<cSent, Positions(sGot, ClientApdus)>>
<1>1. /\ SentSoFar(ClientApdus, cSent) /\ NextAsked(ClientApdus, cSent, cCall)
      /\ Carriage(ClientApdus, Len(cSent), UpLine, TakenByServer, sSession)
      /\ Distinct(ClientApdus)
  BY DEF UpDelivers, ClientSendsWhole
<1>2. ClientApdus \in Seq(Seq(Octets)) /\ Len(cSent) \in 0..Len(ClientApdus)
  BY <1>1, UpTypes
<1>3. CASE ClientNext
  <2>1. sGot' = sGot /\ cSent' = SentLog(cSent, cCall, cCall')
    BY <1>3 DEF ClientNext, ClientLog
  <2>2. \/ cSent' = cSent
        \/ /\ cSent' = Append(cSent, ClientApdus[Len(cSent) + 1])
           /\ Len(cSent) + 1 \in 1..Len(ClientApdus)
    BY <1>1, <1>2, <2>1, SentLogged
  <2>3. CASE cSent' = cSent
    BY <2>1, <2>3
  <2>4. CASE /\ cSent' = Append(cSent, ClientApdus[Len(cSent) + 1])
             /\ Len(cSent) + 1 \in 1..Len(ClientApdus)
    <3>1. ToServer!Send
      BY <2>1, <2>4 DEF ToServer!Send
    <3>2. QED
      BY <3>1 DEF ToServer!Next
  <2>5. QED
    BY <2>2, <2>3, <2>4
<1>4. CASE ServerNext
  <2>1. cSent' = cSent /\ sGot' = GotLog(sGot, sPendingApdus, sPendingApdus')
    BY <1>4 DEF ServerNext, ServerLog
  <2>2. CASE sGot' = sGot
    BY <2>1, <2>2
  <2>3. CASE sPendingApdus # <<>> /\ sGot' = Append(sGot, Head(sPendingApdus))
    <3>1. sGot \in Seq(S!Information) /\ sPendingApdus \in Seq(S!Information)
      BY DEF LinkOK, S!ChannelOK
    <3>2. TakenInOrder(ClientApdus, Len(cSent), sGot \o sPendingApdus)
      BY <1>1 DEF Carriage, TakenByServer
    <3>3. GoesOnTo(ClientApdus, Len(cSent), sGot, Head(sPendingApdus))
      BY <1>1, <1>2, <2>3, <3>1, <3>2, NextPosition
    <3>4. ToServer!Deliver
      BY <2>1, <2>3, <3>3 DEF ToServer!Deliver, GoesOnTo
    <3>5. QED
      BY <3>4 DEF ToServer!Next
  <2>4. QED
    BY <2>1, <2>2, <2>3 DEF GotLog
<1>5. CASE LoseFrame \/ UNCHANGED vars
  BY <1>5 DEF LoseFrame, vars
<1>6. QED
  BY <1>3, <1>4, <1>5 DEF Next

(* Whatever is lost, repeated after a timeout, given up, refused or left   *)
(* over from an earlier link, for any window and any number of set-ups:    *)
(* the server's ReceiveApdu returns the client's APDUs unchanged, in order *)
(* and none twice, if each of them fits into one frame.  They are told     *)
(* apart by their content, so no two of them may be alike.                 *)
THEOREM ServerIsDelivered ==
  ASSUME ClientSendsWhole
  PROVE  Spec => DeliveryToServer
<1>1. Init => LinkOK /\ UpDelivers /\ ToServer!Init
  <2> SUFFICES ASSUME Init PROVE LinkOK /\ UpDelivers /\ ToServer!Init
    OBVIOUS
  <2>1. cSent = <<>> /\ Positions(sGot, ClientApdus) = <<>>
    BY DEF Init, Positions
  <2>2. QED
    BY <2>1, LinkStartsTyped, UpStarts DEF ToServer!Init
<1>2. LinkOK /\ UpDelivers /\ [Next]_vars => LinkOK' /\ UpDelivers'
  BY LinkKeepsType, UpGoesOn
<1>3. LinkOK /\ UpDelivers /\ [Next]_vars
        => [ToServer!Next]_<<cSent, Positions(sGot, ClientApdus)>>
  BY UpStep
<1>4. QED
  BY <1>1, <1>2, <1>3, PTL DEF Spec, DeliveryToServer, ToServer!Spec

-----------------------------------------------------------------------------
(* From the server to the client.                                          *)

DownLine == Down \o S!OnTheWay
TakenByClient == cGot \o cPendingApdus

(* The APDUs of the server are on the line, in order and each under its    *)
(* own number, as far as the client has not taken them.                    *)
DownDelivers ==
  /\ SentSoFar(ServerApdus, sSent) /\ NextAsked(ServerApdus, sSent, sCall)
  /\ S!SenderCall
  /\ Carriage(ServerApdus, Len(sSent), DownLine, TakenByClient, cSession)
  /\ cSegments = <<>> /\ C!OneApduPending
  /\ cGot \in Seq(C!Information)

(* The APDUs of the server differ, and each fits into one frame.           *)
ServerSendsWhole ==
  /\ Distinct(ServerApdus)
  /\ \A i \in 1..Len(ServerApdus) : S!Whole(ServerApdus[i])

(* What the client has taken is a sequence.                                *)
LEMMA TakenByClientAreApdus ==
  ASSUME LinkOK, cGot \in Seq(C!Information)
  PROVE  /\ cPendingApdus \in Seq(C!Information)
         /\ TakenByClient \in Seq(C!Information)
<1>1. cPendingApdus \in Seq(C!Information)
  BY DEF LinkOK, C!ChannelOK
<1>2. QED
  BY <1>1, ConcatProperties DEF TakenByClient

(* The types that the lemmas on lines ask for.                             *)
LEMMA DownTypes ==
  ASSUME LinkOK, SentSoFar(ServerApdus, sSent)
  PROVE  /\ Down \in Seq(S!Frame) /\ S!OnTheWay \in Seq(S!Frame) /\ sCall.frame \in S!Frame
         /\ ServerApdus \in Seq(Seq(Octets)) /\ Len(sSent) \in 0..Len(ServerApdus)
         /\ cSession.vr \in 0..(SeqModulus - 1)
<1>1. Down \in Seq(S!Frame)
  BY SameFrames, EndAssumptions, C!IncomingFrames DEF Down, LinkOK, C!ChannelOK
<1>2. sCall.frame \in S!Frame
  BY EndAssumptions, S!CallFields DEF LinkOK
<1>3. S!OnTheWay \in Seq(S!Frame)
  BY <1>2 DEF S!OnTheWay
<1>4. ServerApdus \in Seq(Seq(Octets))
  BY LinkAssumption DEF LinkAssumption
<1>5. Len(sSent) \in 0..Len(ServerApdus)
  <2>1. Len(sSent) \in Nat /\ Len(ServerApdus) \in Nat
    BY <1>4, LenProperties DEF SentSoFar, Sequence
  <2>2. QED
    BY <2>1 DEF SentSoFar
<1>6. cSession.vr \in 0..(SeqModulus - 1)
  BY DEF LinkOK, C!ChannelOK, C!Session, C!SeqNumbers
<1>7. QED
  BY <1>1, <1>2, <1>3, <1>4, <1>5, <1>6

(* What the server writes comes after all that it wrote before.            *)
LEMMA DownWritten ==
  ASSUME LinkOK, UNCHANGED cVars
  PROVE  /\ s2c' = s2c => Down' = Down
         /\ \A f \in S!Frame : s2c' = Append(s2c, f) => Down' = Append(Down, f)
<1>1. cPendingFrames' = cPendingFrames
  BY DEF cVars
<1>2. cPendingFrames \in Seq(S!Frame) /\ s2c \in Seq(S!Frame)
  BY SameFrames DEF LinkOK, C!ChannelOK, C!ReadOK
<1>3. Down = cPendingFrames \o s2c /\ Down' = cPendingFrames' \o s2c'
  BY DEF Down, C!Incoming
<1>4. ASSUME NEW f \in S!Frame, s2c' = Append(s2c, f)
      PROVE  Down' = Append(Down, f)
  <2>1. cPendingFrames \o Append(s2c, f) = Append(cPendingFrames \o s2c, f)
    BY <1>2, QueuedBeforeWritten
  <2>2. QED
    BY <1>1, <1>3, <1>4, <2>1
<1>5. QED
  BY <1>1, <1>3, <1>4

(* A step in which the server's call goes on, or is made.                  *)
LEMMA DownSent ==
  ASSUME ServerSendsWhole, LinkOK, DownDelivers, S!SenderEvent, S!SenderCall',
         UNCHANGED <<cVars, cGot>>, sSent' = SentLog(sSent, sCall, sCall')
  PROVE  DownDelivers'
<1>1. /\ Down \in Seq(S!Frame) /\ S!OnTheWay \in Seq(S!Frame) /\ sCall.frame \in S!Frame
      /\ ServerApdus \in Seq(Seq(Octets)) /\ Len(sSent) \in 0..Len(ServerApdus)
  BY DownTypes DEF DownDelivers
<1>2. /\ TakenByClient' = TakenByClient /\ cSession' = cSession /\ cSegments' = <<>>
      /\ C!OneApduPending' /\ cGot' \in Seq(C!Information)
  BY DEF DownDelivers, cVars, TakenByClient, C!OneApduPending
<1>3. /\ SentSoFar(ServerApdus, sSent) /\ NextAsked(ServerApdus, sSent, sCall)
      /\ Carriage(ServerApdus, Len(sSent), Down \o S!OnTheWay, TakenByClient, cSession)
  BY DEF DownDelivers, DownLine
<1>4. /\ s2c' = s2c => Down' = Down
      /\ \A f \in S!Frame : s2c' = Append(s2c, f) => Down' = Append(Down, f)
  BY DownWritten
<1>5. ASSUME sSent' = sSent, S!OnTheWay' \in {S!OnTheWay, <<>>},
             \/ Down' = Down
             \/ \E f \in S!Frame : /\ Down' = Append(Down, f)
                                   /\ IF f.kind = "I" THEN S!OnTheWay = <<f>>
                                      ELSE S!OnTheWay = <<>> /\ C!Unnumbered(f),
             NextAsked(ServerApdus, sSent, sCall')
      PROVE  DownDelivers'
  <2>1. Carriage(ServerApdus, Len(sSent), Down' \o S!OnTheWay', TakenByClient, cSession)
    BY <1>1, <1>3, <1>5, CarriageSent
  <2>2. /\ SentSoFar(ServerApdus, sSent') /\ NextAsked(ServerApdus, sSent', sCall')
        /\ Carriage(ServerApdus, Len(sSent'), Down' \o S!OnTheWay', TakenByClient', cSession')
    BY <1>2, <1>3, <1>5, <2>1
  <2>3. QED
    BY <1>2, <2>2 DEF DownDelivers, DownLine, SentSoFar, NextAsked, Sequence
<1>6. CASE S!SenderRests
  <2>1. sSent' = sSent
    BY <1>1, <1>3, <1>6, SentLogged, SameCodec DEF S!SenderRests
  <2>2. NextAsked(ServerApdus, sSent, sCall')
    BY <1>3, <1>6, SameCodec DEF S!SenderRests, NextAsked
  <2>3. QED
    BY <1>4, <1>5, <1>6, <2>1, <2>2 DEF S!SenderRests
<1>7. CASE S!SenderPuts
  <2>1. sSent' = sSent
    <3>1. sCall.pc \notin C!Unbuilt
      BY <1>7, SameCodec DEF S!SenderPuts, C!Unbuilt
    <3>2. QED
      BY <1>1, <1>3, <3>1, SentLogged
  <2>2. NextAsked(ServerApdus, sSent, sCall')
    BY <1>7, SameCodec DEF S!SenderPuts, NextAsked, C!Unbuilt
  <2>3. Down' = Append(Down, sCall.frame)
    BY <1>1, <1>4, <1>7 DEF S!SenderPuts
  <2>4. IF sCall.frame.kind = "I" THEN S!OnTheWay = <<sCall.frame>>
        ELSE S!OnTheWay = <<>> /\ C!Unnumbered(sCall.frame)
    BY <1>7, SameCodec DEF S!SenderPuts, S!OnTheWay, S!Asking, DownDelivers, S!SenderCall
  <2>5. QED
    BY <1>1, <1>5, <1>7, <2>1, <2>2, <2>3, <2>4 DEF S!SenderPuts
<1>8. CASE S!SenderBuilds
  <2> DEFINE n == Len(sSent)
             f == sCall'.frame
  <2>1. /\ Len(sSent') = n + 1 /\ n + 1 \in 1..Len(ServerApdus) /\ n \in Nat
        /\ SentSoFar(ServerApdus, sSent')
    BY <1>1, <1>3, <1>8, SentLogged, SameCodec DEF S!SenderBuilds
  <2>2. Down' = Down /\ S!OnTheWay = <<>> /\ S!OnTheWay' = <<f>>
    BY <1>4, <1>8, SameCodec DEF S!SenderBuilds, S!OnTheWay, S!Asking, C!Unbuilt
  <2>3. /\ f \in S!Frame /\ f.kind = "I" /\ ~f.segmented
        /\ f.information = C!EncodeLpdu(ServerApdus[n + 1])
    BY <1>3, <1>8, SameCodec DEF S!SenderBuilds, NextAsked
  <2> HIDE DEF f, n
  <2>4. Down \o S!OnTheWay = Down /\ Down \o <<f>> = Append(Down, f)
    BY <1>1, <2>2, <2>3, ConcatEmptySeq, AppendIsConcat
  <2>5. TakenByClient \in Seq(C!Information)
    BY TakenByClientAreApdus DEF DownDelivers
  <2>6. Carriage(ServerApdus, n + 1, Append(Down, f), TakenByClient, cSession)
    <3>1. n + 1 <= Len(ServerApdus)
      BY <1>1, <2>1, LenProperties
    <3>2. Carriage(ServerApdus, n, Down, TakenByClient, cSession)
      BY <1>3, <2>4 DEF n
    <3>3. Distinct(ServerApdus)
      BY DEF ServerSendsWhole
    <3>4. QED
      BY <1>1, <2>1, <2>3, <2>5, <3>1, <3>2, <3>3, CarriageBuilt
  <2>7. NextAsked(ServerApdus, sSent', sCall')
    BY <1>8, SameCodec DEF S!SenderBuilds, NextAsked, C!Unbuilt
  <2>8. Carriage(ServerApdus, Len(sSent'), Down' \o S!OnTheWay', TakenByClient', cSession')
    BY <1>2, <2>1, <2>2, <2>4, <2>6
  <2>9. QED
    BY <1>2, <2>1, <2>7, <2>8 DEF DownDelivers, DownLine, SentSoFar, NextAsked, Sequence
<1>9. QED
  BY <1>6, <1>7, <1>8 DEF S!SenderEvent

(* The server moves.                                                       *)
LEMMA DownServer ==
  ASSUME ServerSendsWhole, LinkOK, DownDelivers, ServerNext
  PROVE  DownDelivers'
<1>1. /\ UNCHANGED <<cVars, cGot>> /\ sSent' = SentLog(sSent, sCall, sCall')
      /\ S!SenderCall /\ SentSoFar(ServerApdus, sSent) /\ NextAsked(ServerApdus, sSent, sCall)
  BY DEF ServerNext, ServerLog, DownDelivers
<1>2. ASSUME S!SenderEvent, S!SenderCall'
      PROVE  DownDelivers'
  BY <1>1, <1>2, DownSent
<1>3. CASE Server!Step
  <2>1. \A apdu \in {ServerApdus[i] : i \in 1..Len(ServerApdus)} : S!Whole(apdu)
    BY DEF ServerSendsWhole
  <2>2. S!ChannelOK /\ S!Step
    BY <1>3, ServerActions DEF LinkOK
  <2>3. S!SenderEvent /\ S!SenderCall'
    BY <1>1, <2>1, <2>2, EndAssumptions, S!SenderSteps
  <2>4. QED
    BY <1>2, <2>3
<1>4. CASE ServerAccepts \/ ServerReceives
  <2>1. S!DataLinkCall \/ \E capacity : S!ReceiveApdu(capacity)
    BY <1>4, ServerActions DEF ServerAccepts, ServerReceives, S!DataLinkCall
  <2>2. QED
    BY <1>2, <2>1, EndAssumptions, S!SenderCalls DEF S!SenderEvent
<1>5. CASE ServerSends
  <2> DEFINE apdu == ServerApdus[Len(sSent) + 1]
  <2>1. Len(sSent) < Len(ServerApdus) /\ S!SendApdu(apdu)
    BY <1>5, ServerActions DEF ServerSends
  <2>2. Len(sSent) + 1 \in 1..Len(ServerApdus)
    <3>1. Len(sSent) \in 0..Len(ServerApdus)
      BY <1>1, DownTypes
    <3>2. QED
      BY <2>1, <3>1
  <2>3. apdu \in {ServerApdus[i] : i \in 1..Len(ServerApdus)}
    BY <2>2
  <2> HIDE DEF apdu
  <2>4. /\ S!SenderCall' /\ sCall.pc = "idle" /\ s2c' = s2c /\ S!OnTheWay' = <<>>
        /\ sCall'.pc # "write"
        /\ sCall'.pc \in C!Unbuilt => sCall'.unsent = C!EncodeLpdu(apdu)
    BY <2>1, <2>3, EndAssumptions, SameCodec, S!SenderAsked
  <2>5. sSent' = sSent
    BY <1>1, <2>4 DEF SentLog
  <2>6. NextAsked(ServerApdus, sSent', sCall')
    BY <2>1, <2>4, <2>5 DEF NextAsked, apdu
  <2>7. Down' = Down
    BY <1>1, <2>4, DownWritten
  <2>8. /\ TakenByClient' = TakenByClient /\ cSession' = cSession /\ cSegments' = <<>>
        /\ C!OneApduPending' /\ cGot' \in Seq(C!Information)
    BY <1>1 DEF DownDelivers, cVars, TakenByClient, C!OneApduPending
  <2>9. Carriage(ServerApdus, Len(sSent), Down' \o S!OnTheWay', TakenByClient, cSession)
    <3>1. Carriage(ServerApdus, Len(sSent), Down \o S!OnTheWay, TakenByClient, cSession)
      BY DEF DownDelivers, DownLine
    <3>2. Down \in Seq(S!Frame) /\ S!OnTheWay \in Seq(S!Frame)
      BY <1>1, DownTypes
    <3>3. QED
      BY <2>4, <2>7, <3>1, <3>2, CarriageSent
  <2>10. /\ SentSoFar(ServerApdus, sSent')
         /\ Carriage(ServerApdus, Len(sSent'), Down' \o S!OnTheWay', TakenByClient', cSession')
    BY <1>1, <2>5, <2>8, <2>9
  <2>11. QED
    BY <2>4, <2>6, <2>8, <2>10 DEF DownDelivers, DownLine, SentSoFar, NextAsked, Sequence
<1>6. QED
  BY <1>3, <1>4, <1>5 DEF ServerNext

(* The client moves.                                                       *)
LEMMA DownClient ==
  ASSUME ServerSendsWhole, LinkOK, DownDelivers, ClientNext
  PROVE  DownDelivers'
<1>1. /\ ClientCallOrStep /\ UNCHANGED <<sVars, sSent>>
      /\ cGot' = GotLog(cGot, cPendingApdus, cPendingApdus')
  BY ClientMoves DEF ClientNext, ClientLog
<1>2. /\ SentSoFar(ServerApdus, sSent) /\ NextAsked(ServerApdus, sSent, sCall) /\ S!SenderCall
      /\ Carriage(ServerApdus, Len(sSent), Down \o S!OnTheWay, TakenByClient, cSession)
      /\ cSegments = <<>> /\ C!OneApduPending /\ C!ChannelOK
      /\ cGot \in Seq(C!Information)
  BY DEF DownDelivers, DownLine, LinkOK
<1>3. /\ Down \in Seq(S!Frame) /\ S!OnTheWay \in Seq(S!Frame)
      /\ ServerApdus \in Seq(Seq(Octets)) /\ Len(sSent) \in 0..Len(ServerApdus)
      /\ cSession.vr \in 0..(SeqModulus - 1)
  BY <1>2, DownTypes
<1>4. C!ReceiverEvent /\ cSegments' = <<>>
  <2>1. Down # <<>> => C!Unsegmented(Head(Down))
    <3>1. ASSUME Down # <<>>
          PROVE  C!Unsegmented(Head(Down))
      <4>1. Len(Down) \in Nat \ {0} /\ Head(Down) = Down[1]
        BY <1>3, <3>1, TailOfLine
      <4>2. /\ Len(Down \o S!OnTheWay) \in Nat /\ 1 \in 1..Len(Down \o S!OnTheWay)
            /\ (Down \o S!OnTheWay)[1] = Head(Down)
        BY <1>3, <4>1, ConcatLine
      <4>3. Carries(ServerApdus, Len(sSent), Head(Down))
        BY <1>2, <4>2 DEF Carriage
      <4>4. QED
        BY <4>3, SameCodec DEF Carries, C!Unsegmented
    <3>2. QED
      BY <3>1
  <2>2. C!Step => C!ReceiverEvent /\ cSegments' = <<>>
    BY <1>2, <2>1, EndAssumptions, C!ReceiverSteps DEF Down
  <2>3. ~C!Step => \/ C!DataLinkCall
                  \/ (\E apdu : C!SendApdu(apdu)) \/ (\E capacity : C!ReceiveApdu(capacity))
    BY <1>1 DEF ClientCallOrStep, C!DataLinkCall
  <2>4. ~C!Step => C!ReceiverEvent /\ cSegments' = <<>>
    BY <1>2, <2>3, EndAssumptions, C!ReceiverCalls
  <2>5. QED
    BY <2>2, <2>4
<1>5. C!OneApduPending'
  BY <1>2, <1>4, EndAssumptions, C!ReceiverKeepsOne
<1>6. Down' \in Seq(S!Frame)
  <2>1. C!ChannelOK'
    BY <1>1, ClientKeepsType
  <2>2. C!ReadOK'
    BY <2>1 DEF C!ChannelOK
  <2>3. s2c' \in Seq(S!Frame) /\ cPendingFrames' \in Seq(S!Frame)
    BY <2>2, SameFrames DEF C!ReadOK
  <2>4. QED
    BY <2>3, ConcatProperties DEF Down, C!Incoming
<1>7. /\ TakenByClient \in Seq(C!Information)
      /\ cPendingApdus' = cPendingApdus => TakenByClient' = TakenByClient
      /\ cPendingApdus # <<>> /\ cPendingApdus' = Tail(cPendingApdus) =>
           TakenByClient' = TakenByClient
      /\ \A x : cPendingApdus = <<>> /\ cPendingApdus' = <<x>> =>
           TakenByClient' = Append(TakenByClient, x)
  <2>1. cGot \in Seq(C!Information) /\ cPendingApdus \in Seq(C!Information)
    BY <1>2, TakenByClientAreApdus
  <2>2. Len(cPendingApdus) <= 1
    BY <1>2 DEF C!OneApduPending
  <2>3. TakenByClient = cGot \o cPendingApdus /\ TakenByClient' = cGot' \o cPendingApdus'
    BY DEF TakenByClient
  <2>4. /\ cGot \o cPendingApdus \in Seq(C!Information)
        /\ GotLog(cGot, cPendingApdus, cPendingApdus) \o cPendingApdus = cGot \o cPendingApdus
        /\ cPendingApdus # <<>> =>
             GotLog(cGot, cPendingApdus, Tail(cPendingApdus)) \o Tail(cPendingApdus)
               = cGot \o cPendingApdus
    BY <2>1, <2>2, TakenLogged
  <2>5. \A x : GotLog(cGot, <<>>, <<x>>) \o <<x>> = Append(cGot \o <<>>, x)
    BY <2>1, QueuedLogged, Zenon
  <2>6. /\ cPendingApdus' = cPendingApdus => TakenByClient' = TakenByClient
        /\ cPendingApdus # <<>> /\ cPendingApdus' = Tail(cPendingApdus) =>
             TakenByClient' = TakenByClient
    BY <1>1, <2>3, <2>4
  <2>7. ASSUME NEW x, cPendingApdus = <<>>, cPendingApdus' = <<x>>
        PROVE  TakenByClient' = Append(TakenByClient, x)
    BY <1>1, <2>3, <2>5, <2>7
  <2>8. QED
    BY <2>3, <2>4, <2>6, <2>7
<1>8. \/ /\ Drawn(Down, Down') /\ TakenByClient' = TakenByClient
         /\ cSession'.state = "Connected" =>
              cSession.state = "Connected" /\ cSession'.vr = cSession.vr
      \/ /\ Down # <<>> /\ Head(Down).kind # "I" /\ Down' = Tail(Down)
         /\ TakenByClient' = TakenByClient
      \/ /\ Down # <<>> /\ Head(Down).kind = "I" /\ Down' = Tail(Down)
         /\ cSession.state = "Connected" /\ Head(Down).ns = cSession.vr
         /\ cSession'.vr = (cSession.vr + 1) % SeqModulus
         /\ TakenByClient' \in
              {TakenByClient, Append(TakenByClient, C!DecodeLpdu(Head(Down).information))}
  <2>1. CASE C!ReceiverPasses
    <3>1. Drawn(Down, Down')
      BY <1>3, <1>6, <2>1, ThinnedIsDrawn DEF C!ReceiverPasses, Down
    <3>2. QED
      BY <1>7, <2>1, <3>1 DEF C!ReceiverPasses
  <2>2. CASE C!ReceiverHears
    BY <1>7, <2>2 DEF C!ReceiverHears, Down
  <2>3. CASE C!ReceiverTakes
    BY <1>7, <2>3, SameCodec DEF C!ReceiverTakes, Down
  <2>4. CASE C!ReceiverHands
    <3>1. Down' = Down /\ cSession' = cSession /\ TakenByClient' = TakenByClient
      BY <1>7, <2>4 DEF C!ReceiverHands, Down
    <3>2. QED
      BY <1>3, <3>1, DrawnItself
  <2>5. QED
    BY <1>4, <2>1, <2>2, <2>3, <2>4 DEF C!ReceiverEvent
<1>9. Carriage(ServerApdus, Len(sSent), Down' \o S!OnTheWay, TakenByClient', cSession')
  <2>1. Distinct(ServerApdus)
    BY DEF ServerSendsWhole
  <2>2. QED
    BY <1>2, <1>3, <1>6, <1>7, <1>8, <2>1, CarriageReceived
<1>10. sSent' = sSent /\ sCall' = sCall
  BY <1>1 DEF sVars
<1>11. S!OnTheWay' = S!OnTheWay /\ S!SenderCall'
  BY <1>2, <1>10 DEF S!OnTheWay, S!SenderCall
<1>12. /\ SentSoFar(ServerApdus, sSent') /\ NextAsked(ServerApdus, sSent', sCall')
       /\ Carriage(ServerApdus, Len(sSent'), Down' \o S!OnTheWay', TakenByClient', cSession')
  BY <1>2, <1>9, <1>10, <1>11
<1>13. cGot' \in Seq(C!Information)
  <2>1. cPendingApdus # <<>> => Head(cPendingApdus) \in C!Information
    BY <1>2, TakenByClientAreApdus, HeadTailProperties, EmptySeq
  <2>2. cPendingApdus # <<>> => Append(cGot, Head(cPendingApdus)) \in Seq(C!Information)
    BY <1>2, <2>1, AppendProperties
  <2>3. QED
    BY <1>1, <1>2, <2>2 DEF GotLog
<1>14. QED
  BY <1>4, <1>5, <1>11, <1>12, <1>13 DEF DownDelivers, DownLine, SentSoFar, NextAsked, Sequence

(* Frames of this direction are lost, or nothing happens to it.            *)
LEMMA DownStays ==
  ASSUME ServerSendsWhole, LinkOK, DownDelivers, UNCHANGED <<sVars, cVars, sSent, cGot>>,
         \/ s2c' = s2c
         \/ \E i \in 1..Len(s2c) : s2c' = Without(s2c, i)
  PROVE  DownDelivers'
<1>1. /\ SentSoFar(ServerApdus, sSent) /\ NextAsked(ServerApdus, sSent, sCall) /\ S!SenderCall
      /\ Carriage(ServerApdus, Len(sSent), Down \o S!OnTheWay, TakenByClient, cSession)
      /\ cSegments = <<>> /\ C!OneApduPending /\ cGot \in Seq(C!Information)
  BY DEF DownDelivers, DownLine
<1>2. /\ Down \in Seq(S!Frame) /\ S!OnTheWay \in Seq(S!Frame)
      /\ ServerApdus \in Seq(Seq(Octets)) /\ Len(sSent) \in 0..Len(ServerApdus)
      /\ cSession.vr \in 0..(SeqModulus - 1)
  BY <1>1, DownTypes
<1>3. UNCHANGED <<sCall, sSent, cGot, cSession, cSegments, cPendingFrames, cPendingApdus>>
  BY DEF sVars, cVars
<1>4. cPendingFrames \in Seq(S!Frame) /\ s2c \in Seq(S!Frame)
  BY SameFrames DEF LinkOK, C!ChannelOK, C!ReadOK
<1>5. Down' \in Seq(S!Frame) /\ Drawn(Down, Down')
  <2>1. Down = cPendingFrames \o s2c /\ Down' = cPendingFrames \o s2c'
    BY <1>3 DEF Down, C!Incoming
  <2>2. CASE s2c' = s2c
    <3>1. Down' = Down
      BY <2>1, <2>2
    <3>2. QED
      BY <1>2, <3>1, DrawnItself
  <2>3. ASSUME NEW i \in 1..Len(s2c), s2c' = Without(s2c, i)
        PROVE  Down' \in Seq(S!Frame) /\ Drawn(Down, Down')
    <3>1. Without(s2c, i) \in Seq(S!Frame)
      BY <1>4, LostFrame
    <3>2. cPendingFrames \o Without(s2c, i) \in Seq(S!Frame)
      BY <1>4, <3>1, ConcatProperties
    <3>3. C!Thinned(cPendingFrames \o s2c, cPendingFrames \o Without(s2c, i))
      BY <1>4, LossThins
    <3>4. Drawn(cPendingFrames \o s2c, cPendingFrames \o Without(s2c, i))
      BY <1>2, <2>1, <3>2, <3>3, ThinnedIsDrawn
    <3>5. QED
      BY <2>1, <2>3, <3>2, <3>4
  <2>4. QED
    BY <2>2, <2>3
<1>6. TakenByClient' = TakenByClient /\ TakenByClient \in Seq(C!Information)
  BY <1>1, <1>3, TakenByClientAreApdus DEF TakenByClient
<1>7. S!OnTheWay' = S!OnTheWay /\ S!SenderCall' /\ C!OneApduPending'
  BY <1>1, <1>3 DEF S!OnTheWay, S!SenderCall, C!OneApduPending
<1>8. Distinct(ServerApdus)
  BY DEF ServerSendsWhole
<1>9. Carriage(ServerApdus, Len(sSent), Down' \o S!OnTheWay, TakenByClient, cSession)
  BY <1>1, <1>2, <1>5, <1>6, <1>8, CarriageReceived
<1>10. /\ SentSoFar(ServerApdus, sSent') /\ NextAsked(ServerApdus, sSent', sCall')
       /\ Carriage(ServerApdus, Len(sSent'), Down' \o S!OnTheWay', TakenByClient', cSession')
       /\ cSegments' = <<>> /\ cGot' \in Seq(C!Information)
  BY <1>1, <1>3, <1>6, <1>7, <1>9
<1>11. QED
  BY <1>7, <1>10 DEF DownDelivers, DownLine, SentSoFar, NextAsked, Sequence

(* Every step keeps what is on its way to the client in order.             *)
LEMMA DownGoesOn ==
  ASSUME ServerSendsWhole, LinkOK, DownDelivers, [Next]_vars
  PROVE  DownDelivers'
<1>1. CASE LoseFrame
  <2>1. /\ UNCHANGED <<sVars, cVars, sSent, cGot>>
        /\ s2c' = s2c \/ \E i \in 1..Len(s2c) : s2c' = Without(s2c, i)
    BY <1>1 DEF LoseFrame
  <2>2. QED
    BY <2>1, DownStays
<1>2. CASE UNCHANGED vars
  <2>1. UNCHANGED <<sVars, cVars, sSent, cGot, s2c>>
    BY <1>2 DEF vars
  <2>2. QED
    BY <2>1, DownStays
<1>3. QED
  BY <1>1, <1>2, DownServer, DownClient DEF Next

(* At first nothing is on its way to the client.                           *)
LEMMA DownStarts ==
  ASSUME Init
  PROVE  DownDelivers
<1>1. /\ sCall.pc = "idle" /\ sCall.unsent = <<>> /\ sCall.frame.kind = "DISC"
      /\ sCall.frame.information = <<>>
  BY DEF Init, Server!Returned, Server!NoFrame, Server!UFrame
<1>2. /\ S!OnTheWay = <<>> /\ S!SenderCall
      /\ NextAsked(ServerApdus, sSent, sCall)
  BY <1>1 DEF S!OnTheWay, S!SenderCall, S!Asking, S!Unbuilt, S!Unnumbered, C!Unbuilt, NextAsked
<1>3. /\ sSent = <<>> /\ TakenByClient = <<>> \o <<>> /\ Down = <<>> \o <<>>
      /\ cSegments = <<>> /\ cPendingApdus = <<>> /\ cGot = <<>>
  BY DEF Init, TakenByClient, Down, C!Incoming
<1>4. /\ <<>> \o <<>> = <<>> /\ Len(<<>>) = 0
  OBVIOUS
<1>5. ServerApdus \in Seq(Seq(Octets))
  BY LinkAssumption DEF LinkAssumption
<1>6. Carriage(ServerApdus, Len(sSent), DownLine, TakenByClient, cSession)
  BY <1>2, <1>3, <1>4, <1>5, NothingCarried DEF DownLine
<1>7. SentSoFar(ServerApdus, sSent) /\ C!OneApduPending
  BY <1>3, <1>4, <1>5, NothingCarried DEF C!OneApduPending
<1>8. cGot \in Seq(C!Information)
  BY <1>3, EmptySeq
<1>9. QED
  BY <1>2, <1>3, <1>6, <1>7, <1>8 DEF DownDelivers

(* A step of the server is a Send or is not seen, one of the client is a   *)
(* Deliver or is not seen.                                                 *)
LEMMA DownStep ==
  ASSUME ServerSendsWhole, LinkOK, DownDelivers, [Next]_vars
  PROVE  [ToClient!Next]_<<sSent, Positions(cGot, ServerApdus)>>
<1>1. /\ SentSoFar(ServerApdus, sSent) /\ NextAsked(ServerApdus, sSent, sCall)
      /\ Carriage(ServerApdus, Len(sSent), DownLine, TakenByClient, cSession)
      /\ Distinct(ServerApdus)
  BY DEF DownDelivers, ServerSendsWhole
<1>2. ServerApdus \in Seq(Seq(Octets)) /\ Len(sSent) \in 0..Len(ServerApdus)
  BY <1>1, DownTypes
<1>3. CASE ServerNext
  <2>1. cGot' = cGot /\ sSent' = SentLog(sSent, sCall, sCall')
    BY <1>3 DEF ServerNext, ServerLog
  <2>2. \/ sSent' = sSent
        \/ /\ sSent' = Append(sSent, ServerApdus[Len(sSent) + 1])
           /\ Len(sSent) + 1 \in 1..Len(ServerApdus)
    BY <1>1, <1>2, <2>1, SentLogged
  <2>3. CASE sSent' = sSent
    BY <2>1, <2>3
  <2>4. CASE /\ sSent' = Append(sSent, ServerApdus[Len(sSent) + 1])
             /\ Len(sSent) + 1 \in 1..Len(ServerApdus)
    <3>1. ToClient!Send
      BY <2>1, <2>4 DEF ToClient!Send
    <3>2. QED
      BY <3>1 DEF ToClient!Next
  <2>5. QED
    BY <2>2, <2>3, <2>4
<1>4. CASE ClientNext
  <2>1. sSent' = sSent /\ cGot' = GotLog(cGot, cPendingApdus, cPendingApdus')
    BY <1>4 DEF ClientNext, ClientLog
  <2>2. CASE cGot' = cGot
    BY <2>1, <2>2
  <2>3. CASE cPendingApdus # <<>> /\ cGot' = Append(cGot, Head(cPendingApdus))
    <3>1. cGot \in Seq(C!Information) /\ cPendingApdus \in Seq(C!Information)
      BY TakenByClientAreApdus DEF DownDelivers
    <3>2. TakenInOrder(ServerApdus, Len(sSent), cGot \o cPendingApdus)
      BY <1>1 DEF Carriage, TakenByClient
    <3>3. GoesOnTo(ServerApdus, Len(sSent), cGot, Head(cPendingApdus))
      BY <1>1, <1>2, <2>3, <3>1, <3>2, NextPosition
    <3>4. ToClient!Deliver
      BY <2>1, <2>3, <3>3 DEF ToClient!Deliver, GoesOnTo
    <3>5. QED
      BY <3>4 DEF ToClient!Next
  <2>4. QED
    BY <2>1, <2>2, <2>3 DEF GotLog
<1>5. CASE LoseFrame \/ UNCHANGED vars
  BY <1>5 DEF LoseFrame, vars
<1>6. QED
  BY <1>3, <1>4, <1>5 DEF Next

(* Whatever is lost, repeated after a timeout, given up, refused or left   *)
(* over from an earlier link, for any window and any number of set-ups:    *)
(* the client's ReceiveApdu returns the server's APDUs unchanged, in order *)
(* and none twice, if each of them fits into one frame.  They are told     *)
(* apart by their content, so no two of them may be alike.                 *)
THEOREM ClientIsDelivered ==
  ASSUME ServerSendsWhole
  PROVE  Spec => DeliveryToClient
<1>1. Init => LinkOK /\ DownDelivers /\ ToClient!Init
  <2> SUFFICES ASSUME Init PROVE LinkOK /\ DownDelivers /\ ToClient!Init
    OBVIOUS
  <2>1. sSent = <<>> /\ Positions(cGot, ServerApdus) = <<>>
    BY DEF Init, Positions
  <2>2. QED
    BY <2>1, LinkStartsTyped, DownStarts DEF ToClient!Init
<1>2. LinkOK /\ DownDelivers /\ [Next]_vars => LinkOK' /\ DownDelivers'
  BY LinkKeepsType, DownGoesOn
<1>3. LinkOK /\ DownDelivers /\ [Next]_vars
        => [ToClient!Next]_<<sSent, Positions(cGot, ServerApdus)>>
  BY DownStep
<1>4. QED
  BY <1>1, <1>2, <1>3, PTL DEF Spec, DeliveryToClient, ToClient!Spec
=============================================================================
