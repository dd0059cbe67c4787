------------------------- MODULE FrameReaderProofs -------------------------
(***************************************************************************)
(* Proofs about FrameReader: both readers return exactly the lines of the  *)
(* stream, for any limit, any buffer and streams of any length.            *)
(*                                                                         *)
(* The invariant is stated over positions of the stream: what has been     *)
(* consumed since the last frame is the payload, and it has no newline.    *)
(***************************************************************************)
EXTENDS FrameReader, SequenceTheorems, WellFoundedInduction, TLAPS

\* No newline among the bytes behind a, up to b.
Clear(a, b) == \A i \in a + 1 .. b : input[i] # "lf"

\* The variables, with the positions in order.
TypeInv ==
    /\ reader \in {"go", "rust"} /\ input \in Seq(Byte)
    /\ start \in Nat /\ pos \in Nat /\ start <= pos /\ pos <= Len(input)
    /\ payload \in Seq(Byte)

\* In the middle of a frame.  More than the limit is kept only with a CR last.
PartialInv ==
    status = "reading" =>
        /\ payload = SubSeq(input, start + 1, pos) /\ Clear(start, pos)
        /\ pos - start <= MaxFrame + 1
        /\ pos - start = MaxFrame + 1 => input[pos] = "cr"

\* Inductive.
ReaderInv == TypeInv /\ PartialInv /\ FramesAreLines

-----------------------------------------------------------------------------
(* Numbers and slices.                                                     *)

\* A set of numbers has a least one.
LEMMA Least ==
  ASSUME NEW T, T \subseteq Nat, T # {}
  PROVE  \E x \in T : \A y \in T : x <= y
  <1> DEFINE R == OpToRel(<, Nat)
  <1>1. IsWellFoundedOn(R, Nat)
    BY NatLessThanWellFounded
  <1>2. \A a, b \in Nat : a < b => <<a, b>> \in R
    BY DEF OpToRel
  <1> HIDE DEF R
  <1>3. PICK x \in T : \A y \in T : ~ (<<y, x>> \in R)
    BY <1>1, WFMin
  <1>4. ASSUME NEW y \in T PROVE x <= y
    <2>1. x \in Nat /\ y \in Nat /\ ~ (y < x)
      BY <1>2, <1>3
    <2> QED BY <2>1
  <1> QED BY <1>4

\* The bytes of s behind a, up to b.
LEMMA Slice ==
  ASSUME NEW s \in Seq(Byte), NEW a \in Nat, NEW b \in Nat, a <= b, b <= Len(s)
  PROVE  /\ SubSeq(s, a + 1, b) \in Seq(Byte)
         /\ Len(SubSeq(s, a + 1, b)) = b - a
         /\ \A i \in 1 .. b - a : SubSeq(s, a + 1, b)[i] = s[a + i]
  <1>1. \A i \in a + 1 .. b : s[i] \in Byte
    BY ElementOfSeq
  <1>2. a + 1 \in Int /\ b \in Int
    OBVIOUS
  <1>3. /\ SubSeq(s, a + 1, b) \in Seq(Byte)
        /\ Len(SubSeq(s, a + 1, b)) = IF a + 1 <= b THEN b - (a + 1) + 1 ELSE 0
        /\ \A i \in 1 .. b - (a + 1) + 1 : SubSeq(s, a + 1, b)[i] = s[a + 1 + i - 1]
    BY ONLY <1>1, <1>2, SubSeqProperties
  <1> QED BY <1>3

\* Where it has a newline, and what its last byte is.
LEMMA SliceBytes ==
  ASSUME NEW s \in Seq(Byte), NEW a \in Nat, NEW b \in Nat, a <= b, b <= Len(s)
  PROVE  /\ HasLF(SubSeq(s, a + 1, b)) <=> \E i \in a + 1 .. b : s[i] = "lf"
         /\ EndsInCR(SubSeq(s, a + 1, b)) <=> a < b /\ s[b] = "cr"
         /\ SubSeq(s, a + 1, b) = <<>> <=> a = b
  <1> DEFINE t == SubSeq(s, a + 1, b)
  <1>1. t \in Seq(Byte) /\ Len(t) = b - a /\ \A i \in 1 .. b - a : t[i] = s[a + i]
    BY Slice
  <1>2. DOMAIN t = 1 .. b - a
    BY <1>1
  <1>3. t = <<>> <=> a = b
    BY <1>1, EmptySeq
  <1> HIDE DEF t
  <1>4. ASSUME NEW i \in a + 1 .. b, s[i] = "lf" PROVE HasLF(t)
    <2>1. i - a \in 1 .. b - a /\ a + (i - a) = i
      OBVIOUS
    <2> QED BY <1>1, <1>2, <1>4, <2>1 DEF HasLF
  <1>5. ASSUME HasLF(t) PROVE \E i \in a + 1 .. b : s[i] = "lf"
    <2>1. PICK j \in 1 .. b - a : t[j] = "lf"
      BY <1>2, <1>5 DEF HasLF
    <2>2. a + j \in a + 1 .. b /\ s[a + j] = "lf"
      BY <1>1, <2>1
    <2> QED BY <2>2
  <1>6. EndsInCR(t) <=> a < b /\ s[b] = "cr"
    <2>1. CASE a = b
      BY <1>3, <2>1 DEF EndsInCR
    <2>2. CASE a < b
      <3>1. b - a \in 1 .. b - a /\ a + (b - a) = b
        BY <2>2
      <3>2. t[Len(t)] = s[b]
        BY <1>1, <3>1
      <3> QED BY <1>3, <2>2, <3>2 DEF EndsInCR
    <2> QED BY <2>1, <2>2
  <1> QED BY <1>3, <1>4, <1>5, <1>6 DEF t

\* Two slices that meet.
LEMMA Join ==
  ASSUME NEW s \in Seq(Byte), NEW a \in Nat, NEW b \in Nat, NEW c \in Nat,
         a <= b, b <= c, c <= Len(s)
  PROVE  SubSeq(s, a + 1, b) \o SubSeq(s, b + 1, c) = SubSeq(s, a + 1, c)
  <1>1. a + 1 \in 1 .. Len(s) + 1 /\ b \in (a + 1) - 1 .. Len(s) /\ c \in b .. Len(s)
    BY LenProperties
  <1> QED BY <1>1, ConcatAdjacentSubSeq

\* The beginning of a rest.
LEMMA SliceOfRest ==
  ASSUME NEW s \in Seq(Byte), NEW a \in Nat, NEW n \in Nat, a + n <= Len(s)
  PROVE  SubSeq(SubSeq(s, a + 1, Len(s)), 1, n) = SubSeq(s, a + 1, a + n)
  <1> DEFINE t == SubSeq(s, a + 1, Len(s))
             u == SubSeq(t, 0 + 1, n)
             v == SubSeq(s, a + 1, a + n)
  <1>1. /\ t \in Seq(Byte) /\ Len(t) = Len(s) - a
        /\ \A i \in 1 .. Len(s) - a : t[i] = s[a + i]
    BY Slice
  <1>2. /\ v \in Seq(Byte) /\ Len(v) = n
        /\ \A i \in 1 .. n : v[i] = s[a + i]
    <2>1. a + n \in Nat /\ a <= a + n /\ (a + n) - a = n
      OBVIOUS
    <2> QED BY ONLY <2>1, Slice, a + n <= Len(s), s \in Seq(Byte), a \in Nat
  <1> HIDE DEF t
  <1>3. /\ u \in Seq(Byte) /\ Len(u) = n /\ \A i \in 1 .. n : u[i] = t[i]
    <2>1. 0 \in Nat /\ 0 <= n /\ n <= Len(t) /\ n - 0 = n /\ \A i \in 1 .. n : 0 + i = i
      BY <1>1
    <2>2. u \in Seq(Byte) /\ Len(u) = n - 0 /\ \A i \in 1 .. n - 0 : u[i] = t[0 + i]
      BY ONLY <2>1, <1>1, n \in Nat, Slice
    <2> QED BY <2>1, <2>2
  <1> HIDE DEF u, v
  <1>4. ASSUME NEW i \in 1 .. n PROVE u[i] = v[i]
    <2>1. i \in 1 .. Len(s) - a
      BY ONLY <1>4, n \in Nat, a \in Nat, a + n <= Len(s), s \in Seq(Byte), LenProperties
    <2>2. t[i] = s[a + i]
      BY ONLY <2>1, <1>1
    <2>3. v[i] = s[a + i] /\ u[i] = t[i]
      BY ONLY <1>4, <1>2, <1>3
    <2> QED BY ONLY <2>2, <2>3
  <1>5. u = v
    BY <1>2, <1>3, <1>4, SeqEqual
  <1> QED BY <1>5 DEF t, u, v

-----------------------------------------------------------------------------
(* The lines of the stream.                                                *)

\* What the current frame should be.
Content == IF HasLF(Rest) THEN StripCR(Line) ELSE Line

\* A line is what stands before the first newline.
LEMMA WholeLine ==
  ASSUME TypeInv, NEW q \in Nat, start <= q, q < Len(input),
         input[q + 1] = "lf", Clear(start, q)
  PROVE  HasLF(Rest) /\ Line = SubSeq(input, start + 1, q)
  <1> DEFINE n == q - start
             First(m) == Rest[m + 1] = "lf" /\ ~HasLF(SubSeq(Rest, 1, m))
  <1>1. /\ input \in Seq(Byte) /\ start \in Nat /\ Len(input) \in Nat /\ n \in Nat
        /\ start + n = q /\ start <= Len(input)
    BY LenProperties DEF TypeInv
  <1>2. /\ Rest \in Seq(Byte) /\ Len(Rest) = Len(input) - start
        /\ \A i \in 1 .. Len(input) - start : Rest[i] = input[start + i]
    BY <1>1, Slice DEF Rest
  <1>3. ASSUME NEW m \in 0 .. Len(Rest) - 1
        PROVE  First(m) <=> input[start + m + 1] = "lf" /\ Clear(start, start + m)
    <2>1. m \in Nat /\ start + m \in Nat /\ start <= start + m /\ start + m <= Len(input)
          /\ m + 1 \in 1 .. Len(input) - start /\ start + (m + 1) = start + m + 1
      BY <1>1, <1>2
    <2>2. Rest[m + 1] = input[start + m + 1]
      BY <1>2, <2>1
    <2>3. SubSeq(Rest, 1, m) = SubSeq(input, start + 1, start + m)
      BY <1>1, <2>1, SliceOfRest DEF Rest
    <2>4. HasLF(SubSeq(input, start + 1, start + m)) <=>
            \E i \in start + 1 .. start + m : input[i] = "lf"
      BY <1>1, <2>1, SliceBytes
    <2> QED BY <2>2, <2>3, <2>4 DEF Clear
  <1>4. n \in 0 .. Len(Rest) - 1 /\ First(n)
    <2>1. n \in 0 .. Len(Rest) - 1
      BY <1>1, <1>2
    <2> QED BY <1>1, <1>3, <2>1
  <1>5. ASSUME NEW m \in 0 .. Len(Rest) - 1, First(m) PROVE m = n
    <2>1. input[start + m + 1] = "lf" /\ Clear(start, start + m)
      BY <1>3, <1>5
    <2>2. CASE m < n
      <3>1. start + m + 1 \in start + 1 .. q
        BY <1>1, <1>2, <2>2
      <3> QED BY <2>1, <3>1 DEF Clear
    <2>3. CASE m > n
      <3>1. q + 1 \in start + 1 .. start + m
        BY <1>1, <1>2, <2>3
      <3> QED BY <2>1, <3>1 DEF Clear
    <2> QED BY <1>1, <1>2, <2>2, <2>3
  <1>6. HasLF(Rest)
    <2>1. q + 1 \in start + 1 .. Len(input)
      BY <1>1
    <2>2. HasLF(Rest) <=> \E i \in start + 1 .. Len(input) : input[i] = "lf"
      BY <1>1, SliceBytes DEF Rest
    <2> QED BY <2>1, <2>2
  <1>7. LineLength = n
    <2> HIDE DEF n, First
    <2>1. n = CHOOSE m \in 0 .. Len(Rest) - 1 : First(m)
      BY <1>4, <1>5
    <2> QED BY <1>6, <2>1 DEF LineLength, First
  <1>8. Line = SubSeq(input, start + 1, start + n)
    BY <1>1, <1>7, SliceOfRest DEF Line, Rest
  <1> QED BY <1>1, <1>6, <1>8

\* Without a newline the line is the rest.
LEMMA LastPart ==
  ASSUME TypeInv, Clear(start, Len(input))
  PROVE  ~HasLF(Rest) /\ Line = Rest /\ Len(Rest) = Len(input) - start
  <1>1. input \in Seq(Byte) /\ start \in Nat /\ Len(input) \in Nat /\ start <= Len(input)
    BY LenProperties DEF TypeInv
  <1>2. Rest \in Seq(Byte) /\ Len(Rest) = Len(input) - start
    BY <1>1, Slice DEF Rest
  <1>3. ~HasLF(Rest)
    BY <1>1, SliceBytes DEF Rest, Clear
  <1>4. Line = SubSeq(Rest, 1, Len(Rest))
    BY <1>3 DEF Line, LineLength
  <1> QED BY <1>2, <1>3, <1>4, SubSeqFull

\* The end of a line loses at most one byte.
LEMMA Stripped ==
  ASSUME NEW s \in Seq(Byte)
  PROVE  /\ StripCR(s) \in Seq(Byte)
         /\ Len(StripCR(s)) = IF EndsInCR(s) THEN Len(s) - 1 ELSE Len(s)
  <1>1. CASE EndsInCR(s)
    <2>1. Len(s) \in Nat /\ Len(s) # 0
      BY <1>1, EmptySeq, LenProperties DEF EndsInCR
    <2>2. Len(s) - 1 \in Nat /\ 0 <= Len(s) - 1 /\ Len(s) - 1 <= Len(s) /\ 0 + 1 = 1
          /\ (Len(s) - 1) - 0 = Len(s) - 1 /\ 0 \in Nat
      BY <2>1
    <2>3. /\ SubSeq(s, 0 + 1, Len(s) - 1) \in Seq(Byte)
          /\ Len(SubSeq(s, 0 + 1, Len(s) - 1)) = (Len(s) - 1) - 0
      BY <2>2, Slice
    <2> QED BY <1>1, <2>2, <2>3 DEF StripCR
  <1>2. CASE ~EndsInCR(s)
    BY <1>2 DEF StripCR
  <1> QED BY <1>1, <1>2

\* What is without a newline for longer than the limit, a CR at its end not
\* counted, is the beginning of a line that is too long.
LEMMA Excess ==
  ASSUME TypeInv, NEW q \in Nat, start <= q, q <= Len(input), Clear(start, q),
         q - start > MaxFrame, q - start = MaxFrame + 1 => input[q] # "cr"
  PROVE  Len(Content) > MaxFrame
  <1>1. /\ input \in Seq(Byte) /\ start \in Nat /\ Len(input) \in Nat
        /\ start <= Len(input) /\ MaxFrame \in Nat
    BY LenProperties, SizesAssumption DEF TypeInv
  <1>2. CASE Clear(start, Len(input))
    BY <1>1, <1>2, LastPart DEF Content
  <1>3. CASE ~Clear(start, Len(input))
    <2> DEFINE T == {i \in start + 1 .. Len(input) : input[i] = "lf"}
    <2>1. T \subseteq Nat /\ T # {}
      BY <1>1, <1>3 DEF Clear
    <2>2. PICK x \in T : \A y \in T : x <= y
      BY <2>1, Least
    <2>3. x \in Nat /\ x - 1 \in Nat /\ start <= x - 1 /\ x - 1 < Len(input)
          /\ input[(x - 1) + 1] = "lf" /\ (x - 1) + 1 = x /\ start + 1 <= x
      BY <1>1, <2>2
    <2>4. Clear(start, x - 1)
      <3> SUFFICES ASSUME NEW i \in start + 1 .. x - 1 PROVE input[i] # "lf"
        BY DEF Clear
      <3>1. i \in start + 1 .. Len(input) /\ ~(x <= i)
        BY <1>1, <2>3
      <3> QED BY <2>2, <3>1
    <2>5. q <= x - 1
      <3>1. CASE x <= q
        <4>1. x \in start + 1 .. q
          BY <1>1, <2>3, <3>1
        <4> QED BY <2>2, <4>1 DEF Clear
      <3> QED BY <2>3, <3>1
    <2> HIDE DEF T
    <2>6. HasLF(Rest) /\ Line = SubSeq(input, start + 1, x - 1)
      BY <2>3, <2>4, WholeLine
    <2>7. /\ Line \in Seq(Byte) /\ Len(Line) = (x - 1) - start
          /\ EndsInCR(Line) <=> start < x - 1 /\ input[x - 1] = "cr"
      BY <1>1, <2>3, <2>6, Slice, SliceBytes
    <2>8. Len(Content) = IF EndsInCR(Line) THEN Len(Line) - 1 ELSE Len(Line)
      BY <2>6, <2>7, Stripped DEF Content
    <2>9. CASE q = x - 1
      BY <1>1, <2>3, <2>7, <2>8, <2>9
    <2>10. CASE q < x - 1
      BY <1>1, <2>3, <2>7, <2>8, <2>10
    <2> QED BY <2>3, <2>5, <2>9, <2>10
  <1> QED BY <1>2, <1>3

-----------------------------------------------------------------------------
(* The steps.  Each looks at the bytes up to some q, none a newline.       *)

\* The bytes from here up to q.
Fragment(q) == SubSeq(input, pos + 1, q)

\* A reader in the middle of a frame looks ahead to q.
Looking(q) ==
    /\ TypeInv /\ PartialInv /\ FramesAreLines /\ status = "reading"
    /\ q \in Nat /\ pos <= q /\ q <= Len(input) /\ Clear(pos, q)

\* The frame up to q, and when the reader finds it too large.
LEMMA LookAhead ==
  ASSUME NEW q, Looking(q)
  PROVE  /\ Clear(start, q) /\ start <= q
         /\ Fragment(q) \in Seq(Byte) /\ Len(Fragment(q)) = q - pos
         /\ payload \o Fragment(q) = SubSeq(input, start + 1, q)
         /\ TooLarge(Fragment(q)) <=>
              /\ q - start > MaxFrame
              /\ q - start = MaxFrame + 1 => input[q] # "cr"
  <1>1. /\ input \in Seq(Byte) /\ start \in Nat /\ pos \in Nat /\ Len(input) \in Nat
        /\ start <= pos /\ pos <= Len(input) /\ MaxFrame \in Nat
        /\ q \in Nat /\ pos <= q /\ q <= Len(input) /\ start <= q
        /\ payload = SubSeq(input, start + 1, pos)
    BY LenProperties, SizesAssumption DEF Looking, TypeInv, PartialInv
  <1>2. Clear(start, q)
    <2> SUFFICES ASSUME NEW i \in start + 1 .. q PROVE input[i] # "lf"
      BY DEF Clear
    <2>1. CASE i <= pos
      <3>1. i \in start + 1 .. pos
        BY <1>1, <2>1
      <3> QED BY <3>1 DEF Looking, PartialInv, Clear
    <2>2. CASE i > pos
      <3>1. i \in pos + 1 .. q
        BY <1>1, <2>2
      <3> QED BY <3>1 DEF Looking, Clear
    <2> QED BY <1>1, <2>1, <2>2
  <1>3. /\ Fragment(q) \in Seq(Byte) /\ Len(Fragment(q)) = q - pos
        /\ EndsInCR(Fragment(q)) <=> pos < q /\ input[q] = "cr"
        /\ Fragment(q) = <<>> <=> pos = q
    <2> HIDE DEF Fragment
    <2>1. Fragment(q) \in Seq(Byte) /\ Len(Fragment(q)) = q - pos
      BY <1>1, Slice DEF Fragment
    <2>2. EndsInCR(Fragment(q)) <=> pos < q /\ input[q] = "cr"
      BY <1>1, SliceBytes DEF Fragment
    <2>3. Fragment(q) = <<>> <=> pos = q
      BY <1>1, SliceBytes DEF Fragment
    <2> QED BY <2>1, <2>2, <2>3
  <1>4. /\ Len(payload) = pos - start
        /\ EndsInCR(payload) <=> start < pos /\ input[pos] = "cr"
    BY <1>1, Slice, SliceBytes
  <1>5. payload \o Fragment(q) = SubSeq(input, start + 1, q)
    BY <1>1, Join DEF Fragment
  <1>6. Len(payload) + Len(Fragment(q)) = q - start
    BY <1>1, <1>3, <1>4
  <1>7. EndsInCR(Fragment(q)) \/ (Fragment(q) = <<>> /\ EndsInCR(payload))
          <=> start < q /\ input[q] = "cr"
    <2>1. CASE pos = q
      BY ONLY <2>1, <1>1, <1>3, <1>4
    <2>2. CASE pos < q
      BY ONLY <2>2, <1>1, <1>3, <1>4
    <2> QED BY <1>1, <2>1, <2>2
  <1>8. TooLarge(Fragment(q)) <=>
          /\ q - start > MaxFrame
          /\ ~(q - start = MaxFrame + 1 /\ start < q /\ input[q] = "cr")
    BY <1>6, <1>7 DEF TooLarge
  <1>9. q - start = MaxFrame + 1 => start < q
    BY <1>1
  <1>10. TooLarge(Fragment(q)) <=>
           /\ q - start > MaxFrame
           /\ q - start = MaxFrame + 1 => input[q] # "cr"
    BY <1>8, <1>9
  <1> QED BY <1>1, <1>2, <1>3, <1>5, <1>10

\* The stream and the frame's place in it stay.
LEMMA SameFrame ==
  ASSUME UNCHANGED <<input, start>>
  PROVE  /\ Rest' = Rest /\ Line' = Line /\ Content' = Content
  <1>1. Rest' = Rest
    BY DEF Rest
  <1>2. LineLength' = LineLength
    BY <1>1 DEF LineLength
  <1>3. Line' = Line
    BY <1>1, <1>2 DEF Line
  <1> QED BY <1>1, <1>3 DEF Content

\* A refusal.
LEMMA Refusal ==
  ASSUME NEW q, Looking(q), TooLarge(Fragment(q)),
         status' = "too_large", UNCHANGED <<reader, input, start, payload>>,
         pos' \in Nat, pos <= pos', pos' <= Len(input)
  PROVE  ReaderInv'
  <1>1. Len(Content) > MaxFrame
    BY LookAhead, Excess DEF Looking
  <1>2. TypeInv'
    BY DEF Looking, TypeInv
  <1>3. PartialInv'
    BY DEF PartialInv
  <1>4. Len(payload) <= MaxFrame + 1
    BY DEF Looking, FramesAreLines
  <1>5. FramesAreLines'
    BY <1>1, <1>4, SameFrame DEF FramesAreLines, Content
  <1> QED BY <1>2, <1>3, <1>5 DEF ReaderInv

\* A part of a frame.
LEMMA PartTaken ==
  ASSUME NEW q, Looking(q), ~TooLarge(Fragment(q)), TakePart(Fragment(q)),
         UNCHANGED <<reader, input, start, status>>
  PROVE  ReaderInv'
  <1>1. /\ pos' = q /\ payload' = SubSeq(input, start + 1, q) /\ start <= q /\ Clear(start, q)
    <2>1. pos' = pos + (q - pos) /\ pos \in Nat /\ q \in Nat
      BY LookAhead DEF TakePart, Looking, TypeInv
    <2>2. pos' = q
      BY <2>1
    <2>3. payload' = payload \o Fragment(q)
      BY DEF TakePart
    <2> QED BY <2>2, <2>3, LookAhead
  <1>2. /\ q \in Nat /\ q <= Len(input) /\ start \in Nat /\ input \in Seq(Byte)
        /\ reader \in {"go", "rust"} /\ MaxFrame \in Nat /\ status = "reading"
    BY SizesAssumption DEF Looking, TypeInv
  <1>3. payload' \in Seq(Byte) /\ Len(payload') = q - start
    BY <1>1, <1>2, Slice
  <1>4. TypeInv'
    BY <1>1, <1>2, <1>3 DEF TypeInv
  <1>5. q - start <= MaxFrame + 1 /\ (q - start = MaxFrame + 1 => input[q] = "cr")
    BY <1>1, <1>2, LookAhead
  <1>6. PartialInv'
    BY <1>1, <1>5 DEF PartialInv, Clear
  <1>7. FramesAreLines'
    BY <1>2, <1>3, <1>5 DEF FramesAreLines
  <1> QED BY <1>4, <1>6, <1>7 DEF ReaderInv

\* The end of a line.
LEMMA LineTaken ==
  ASSUME NEW q, Looking(q), q < Len(input), input[q + 1] = "lf",
         ~TooLarge(Fragment(q)), TakeLine(Fragment(q), q + 1 - pos),
         UNCHANGED <<reader, input, start>>
  PROVE  ReaderInv'
  <1>1. /\ q \in Nat /\ q <= Len(input) /\ start \in Nat /\ input \in Seq(Byte)
        /\ reader \in {"go", "rust"} /\ MaxFrame \in Nat /\ pos \in Nat /\ Len(input) \in Nat
    BY SizesAssumption, LenProperties DEF Looking, TypeInv
  <1>2. /\ start <= q /\ Clear(start, q)
        /\ payload \o Fragment(q) = SubSeq(input, start + 1, q)
        /\ ~ /\ q - start > MaxFrame
             /\ q - start = MaxFrame + 1 => input[q] # "cr"
    BY LookAhead
  <1>3. HasLF(Rest) /\ Line = SubSeq(input, start + 1, q)
    BY <1>1, <1>2, WholeLine DEF Looking
  <1>4. /\ Line \in Seq(Byte) /\ Len(Line) = q - start
        /\ EndsInCR(Line) <=> start < q /\ input[q] = "cr"
    BY <1>1, <1>2, <1>3, Slice, SliceBytes, SMTT(30)
  <1>5. /\ Content = StripCR(Line) /\ Content \in Seq(Byte)
        /\ Len(Content) = IF EndsInCR(Line) THEN Len(Line) - 1 ELSE Len(Line)
    BY <1>3, <1>4, Stripped DEF Content
  <1>6. Len(Content) <= MaxFrame /\ Len(Content) \in Nat
    BY <1>1, <1>2, <1>4, <1>5
  <1>7. payload' = Content /\ status' = "frame" /\ pos' = q + 1
    BY <1>1, <1>2, <1>3, <1>5, <1>6 DEF TakeLine
  <1>8. TypeInv'
    BY <1>1, <1>2, <1>5, <1>7 DEF TypeInv
  <1>9. PartialInv'
    BY <1>7 DEF PartialInv
  <1>10. pos' = start + Len(Line) + 1
    BY <1>1, <1>2, <1>4, <1>7
  <1>11. FramesAreLines'
    <2>1. HasLF(Rest') /\ Line' = Line /\ Rest' = Rest
      BY <1>3, SameFrame
    <2>2. Len(Content) <= MaxFrame + 1
      BY <1>1, <1>6
    <2> QED BY <1>5, <1>6, <1>7, <1>10, <2>1, <2>2 DEF FramesAreLines
  <1> QED BY <1>8, <1>9, <1>11 DEF ReaderInv

\* The next n bytes, if there is no newline among them.
LEMMA Lookable ==
  ASSUME ReaderInv, status = "reading", NEW n \in Nat, pos + n <= Len(input), ~HasLF(Ahead(n))
  PROVE  Looking(pos + n) /\ Ahead(n) = Fragment(pos + n) /\ Len(Ahead(n)) = n
  <1>1. pos + n \in Nat /\ pos <= pos + n /\ pos \in Nat /\ input \in Seq(Byte)
        /\ (pos + n) - pos = n
    BY DEF ReaderInv, TypeInv
  <1>2. Len(Ahead(n)) = n
    BY <1>1, Slice DEF Ahead
  <1>3. Clear(pos, pos + n)
    BY <1>1, SliceBytes DEF Ahead, Clear
  <1> QED BY <1>1, <1>2, <1>3 DEF ReaderInv, Looking, Ahead, Fragment

\* A verdict on a fragment of n bytes that keeps the payload.
LEMMA EndedTooLarge ==
  ASSUME ReaderInv, status = "reading", NEW n \in Nat, pos + n <= Len(input),
         ~HasLF(Ahead(n)), TooLarge(Ahead(n)),
         NEW m \in Nat, pos + m <= Len(input), Ended("too_large", m),
         UNCHANGED <<reader, input, start>>
  PROVE  ReaderInv'
  <1>1. Looking(pos + n) /\ TooLarge(Fragment(pos + n))
    BY Lookable
  <1>2. pos' \in Nat /\ pos <= pos' /\ pos' <= Len(input) /\ status' = "too_large"
        /\ UNCHANGED payload
    BY DEF Ended, ReaderInv, TypeInv
  <1> QED BY <1>1, <1>2, Refusal

\* A line of n bytes.
LEMMA LineStep ==
  ASSUME ReaderInv, status = "reading", NEW n \in Nat, pos + n < Len(input),
         ~HasLF(Ahead(n)), input[pos + n + 1] = "lf",
         ~TooLarge(Ahead(n)), TakeLine(Ahead(n), n + 1), UNCHANGED <<reader, input, start>>
  PROVE  ReaderInv'
  <1>1. pos \in Nat /\ Len(input) \in Nat /\ n + 1 = pos + n + 1 - pos /\ pos + n <= Len(input)
    BY LenProperties DEF ReaderInv, TypeInv
  <1>2. Looking(pos + n) /\ Ahead(n) = Fragment(pos + n)
    BY <1>1, Lookable
  <1>3. ~TooLarge(Fragment(pos + n)) /\ TakeLine(Fragment(pos + n), pos + n + 1 - pos)
    BY <1>1, <1>2
  <1> QED BY <1>2, <1>3, LineTaken

\* A part of n bytes.
LEMMA PartStep ==
  ASSUME ReaderInv, status = "reading", NEW n \in Nat, pos + n <= Len(input),
         ~HasLF(Ahead(n)), ~TooLarge(Ahead(n)), TakePart(Ahead(n)),
         UNCHANGED <<reader, input, start, status>>
  PROVE  ReaderInv'
  <1>1. Looking(pos + n) /\ Ahead(n) = Fragment(pos + n)
    BY Lookable
  <1> QED BY <1>1, PartTaken

\* The initial states satisfy the invariant.
LEMMA ReaderInit ==
  ASSUME Init PROVE ReaderInv
  <1>1. input \in Seq(Byte)
    BY SeqDef, SizesAssumption DEF Init, Streams
  <1>2. TypeInv
    BY <1>1, LenProperties, EmptySeq DEF Init, TypeInv
  <1>3. SubSeq(input, 1, 0) = <<>>
    BY <1>1
  <1>4. PartialInv
    BY <1>3, SizesAssumption DEF Init, PartialInv, Clear
  <1>5. FramesAreLines
    BY SizesAssumption DEF Init, FramesAreLines
  <1> QED BY <1>2, <1>4, <1>5 DEF ReaderInv

\* Every step preserves it.
LEMMA ReaderStep ==
  ASSUME ReaderInv, [Next]_vars PROVE ReaderInv'
  <1>0. /\ TypeInv /\ PartialInv /\ FramesAreLines
        /\ input \in Seq(Byte) /\ Len(input) \in Nat /\ start \in Nat /\ pos \in Nat
        /\ start <= pos /\ pos <= Len(input) /\ MaxFrame \in Nat /\ BufferSize \in Nat
        /\ BufferSize > 0 /\ payload \in Seq(Byte)
    BY LenProperties, SizesAssumption DEF ReaderInv, TypeInv
  <1>1. CASE GoLine
    <2>1. PICK n \in 1 .. BufferSize :
            /\ pos + n <= Len(input)
            /\ input[pos + n] = "lf" /\ ~HasLF(Ahead(n - 1))
            /\ IF TooLarge(Ahead(n - 1)) THEN Ended("too_large", n)
                                         ELSE TakeLine(Ahead(n - 1), n)
      BY <1>1 DEF GoLine
    <2>2. /\ n \in Nat /\ n - 1 \in Nat /\ pos + (n - 1) < Len(input)
          /\ pos + (n - 1) + 1 = pos + n /\ (n - 1) + 1 = n /\ pos + (n - 1) <= Len(input)
      BY <1>0, <2>1
    <2>3. status = "reading" /\ UNCHANGED <<reader, input, start>>
      BY <1>1 DEF GoLine
    <2>4. CASE TooLarge(Ahead(n - 1))
      BY <2>1, <2>2, <2>3, <2>4, EndedTooLarge
    <2>5. CASE ~TooLarge(Ahead(n - 1))
      <3>1. TakeLine(Ahead(n - 1), (n - 1) + 1) /\ input[pos + (n - 1) + 1] = "lf"
        BY <2>1, <2>2, <2>5
      <3> QED BY <2>1, <2>2, <2>3, <2>5, <3>1, LineStep
    <2> QED BY <2>4, <2>5
  <1>2. CASE GoBufferFull
    <2>1. /\ status = "reading" /\ UNCHANGED <<reader, input, start>>
          /\ pos + BufferSize <= Len(input) /\ ~HasLF(Ahead(BufferSize))
      BY <1>2 DEF GoBufferFull
    <2>2. CASE TooLarge(Ahead(BufferSize))
      <3>1. Ended("too_large", BufferSize)
        BY <1>2, <2>2 DEF GoBufferFull
      <3> QED BY <1>0, <2>1, <2>2, <3>1, EndedTooLarge
    <2>3. CASE ~TooLarge(Ahead(BufferSize))
      <3>1. TakePart(Ahead(BufferSize)) /\ UNCHANGED status
        BY <1>2, <2>3 DEF GoBufferFull
      <3> QED BY <1>0, <2>1, <2>3, <3>1, PartStep
    <2> QED BY <2>2, <2>3
  <1>3. CASE GoEOF
    <2> DEFINE n == Len(input) - pos
    <2>1. n \in Nat /\ pos + n = Len(input)
      BY <1>0
    <2>2. /\ status = "reading" /\ UNCHANGED <<reader, input, start>> /\ ~HasLF(Ahead(n))
      BY <1>3 DEF GoEOF
    <2>3. Looking(pos + n) /\ Ahead(n) = Fragment(pos + n) /\ Len(Ahead(n)) = n
      BY <2>1, <2>2, Lookable
    <2>4. CASE TooLarge(Ahead(n))
      <3>1. Ended("too_large", n)
        BY <1>3, <2>3, <2>4 DEF GoEOF
      <3> HIDE DEF n
      <3> QED BY <2>1, <2>2, <2>4, <3>1, EndedTooLarge
    <2>5. CASE ~TooLarge(Ahead(n))
      <3>1. /\ payload' = payload \o Ahead(n) /\ pos' = pos + n
            /\ status' = IF payload \o Ahead(n) = <<>> THEN "eof" ELSE "truncated"
        BY <1>3, <2>3, <2>5 DEF GoEOF, TakePart
      <3> HIDE DEF n
      <3>2. /\ Clear(start, Len(input)) /\ payload \o Ahead(n) = Rest
            /\ ~ /\ Len(input) - start > MaxFrame
                 /\ Len(input) - start = MaxFrame + 1 => input[Len(input)] # "cr"
        BY <2>1, <2>3, <2>5, LookAhead DEF Rest
      <3>3. ~HasLF(Rest) /\ Len(Rest) = Len(input) - start
        BY <1>0, <3>2, LastPart
      <3>4. Rest \in Seq(Byte)
        BY <1>0, Slice DEF Rest
      <3>5. Len(payload') <= MaxFrame + 1
        BY <1>0, <3>1, <3>2, <3>3
      <3>6. TypeInv'
        BY <1>0, <2>1, <2>2, <3>1, <3>2, <3>4 DEF TypeInv
      <3>7. PartialInv'
        BY <3>1 DEF PartialInv
      <3>8. Rest' = Rest
        BY <2>2, SameFrame
      <3>9. FramesAreLines'
        BY <3>1, <3>2, <3>3, <3>5, <3>8 DEF FramesAreLines
      <3> QED BY <3>6, <3>7, <3>9 DEF ReaderInv
    <2> QED BY <2>4, <2>5
  <1>4. CASE RustChunk
    <2> DEFINE lf(n) == {i \in 1 .. n : input[pos + i] = "lf"}
               first(n) == CHOOSE i \in lf(n) : \A j \in lf(n) : i <= j
    <2>1. PICK n \in 1 .. Len(input) - pos :
            IF lf(n) = {}
              THEN IF TooLarge(Ahead(n))
                     THEN Ended("too_large", 0)
                     ELSE TakePart(Ahead(n)) /\ UNCHANGED status
              ELSE IF TooLarge(Ahead(first(n) - 1))
                     THEN Ended("too_large", 0)
                     ELSE TakeLine(Ahead(first(n) - 1), first(n))
      BY <1>4 DEF RustChunk
    <2>2. n \in Nat /\ pos + n <= Len(input) /\ pos + 0 <= Len(input)
      BY <1>0
    <2>3. status = "reading" /\ UNCHANGED <<reader, input, start>>
      BY <1>4 DEF RustChunk
    <2>4. ASSUME NEW k \in Nat, k <= n, \A i \in lf(n) : i > k PROVE ~HasLF(Ahead(k))
      <3>1. pos + k \in Nat /\ pos <= pos + k /\ pos + k <= Len(input)
        BY <1>0, <2>2, <2>4
      <3>2. HasLF(Ahead(k)) <=> \E i \in pos + 1 .. pos + k : input[i] = "lf"
        BY <1>0, <3>1, SliceBytes DEF Ahead
      <3>3. ASSUME NEW i \in pos + 1 .. pos + k, input[i] = "lf" PROVE FALSE
        <4>1. i - pos \in 1 .. n /\ pos + (i - pos) = i /\ ~(i - pos > k)
          BY <1>0, <2>2, <2>4
        <4> QED BY <2>4, <3>3, <4>1
      <3> QED BY <3>2, <3>3
    <2>5. CASE lf(n) = {}
      <3>1. ~HasLF(Ahead(n))
        BY <2>2, <2>4, <2>5
      <3>2. CASE TooLarge(Ahead(n))
        <4>1. Ended("too_large", 0)
          BY <2>1, <2>5, <3>2
        <4> QED BY <2>2, <2>3, <3>1, <3>2, <4>1, EndedTooLarge
      <3>3. CASE ~TooLarge(Ahead(n))
        <4>1. TakePart(Ahead(n)) /\ UNCHANGED status
          BY <2>1, <2>5, <3>3
        <4> QED BY <2>2, <2>3, <3>1, <3>3, <4>1, PartStep
      <3> QED BY <3>2, <3>3
    <2>6. CASE lf(n) # {}
      <3>1. \E x \in lf(n) : \A y \in lf(n) : x <= y
        <4>1. lf(n) \subseteq Nat
          OBVIOUS
        <4> HIDE DEF lf
        <4> QED BY <2>6, <4>1, Least
      <3>2. first(n) \in lf(n) /\ \A j \in lf(n) : first(n) <= j
        <4> HIDE DEF lf
        <4> QED BY <3>1
      <3> DEFINE k == first(n) - 1
      <3>3. /\ first(n) \in Nat /\ k \in Nat /\ k + 1 = first(n) /\ k < n
            /\ input[pos + first(n)] = "lf" /\ \A j \in lf(n) : j > k
        <4> HIDE DEF first
        <4> QED BY <3>2
      <3> HIDE DEF first
      <3>4. ~HasLF(Ahead(k))
        BY <2>2, <2>4, <3>3
      <3>5. pos + k < Len(input) /\ pos + k <= Len(input) /\ pos + k + 1 = pos + first(n)
        BY <1>0, <2>2, <3>3
      <3>6. CASE TooLarge(Ahead(k))
        <4>1. Ended("too_large", 0)
          BY <2>1, <2>6, <3>6
        <4> HIDE DEF k
        <4> QED BY <2>2, <2>3, <3>3, <3>4, <3>5, <3>6, <4>1, EndedTooLarge
      <3>7. CASE ~TooLarge(Ahead(k))
        <4>1. TakeLine(Ahead(k), first(n))
          BY <2>1, <2>6, <3>7
        <4> HIDE DEF k
        <4>2. TakeLine(Ahead(k), k + 1) /\ input[pos + k + 1] = "lf"
          BY <3>3, <3>5, <4>1
        <4> QED BY <2>3, <3>3, <3>4, <3>5, <3>7, <4>2, LineStep
      <3> QED BY <3>6, <3>7
    <2> QED BY <2>5, <2>6
  <1>5. CASE RustEOF
    <2>1. /\ status = "reading" /\ UNCHANGED <<reader, input, start, payload>>
          /\ pos' = pos /\ pos = Len(input) /\ reader = "rust"
          /\ status' = IF Len(payload) > MaxFrame THEN "too_large"
                       ELSE IF payload = <<>> THEN "eof" ELSE "frame"
      BY <1>0, <1>5 DEF RustEOF, Ended
    <2>2. payload = Rest /\ Clear(start, Len(input))
      BY <1>0, <2>1 DEF PartialInv, Rest
    <2>3. ~HasLF(Rest) /\ Line = Rest /\ Len(Rest) = Len(input) - start
      BY <1>0, <2>2, LastPart
    <2>4. Rest' = Rest /\ Line' = Line
      BY <2>1, SameFrame
    <2>5. TypeInv' /\ PartialInv'
      BY <1>0, <2>1 DEF TypeInv, PartialInv
    <2>6. Len(payload) <= MaxFrame + 1 /\ Len(payload) \in Nat
      BY <1>0, LenProperties DEF FramesAreLines
    <2>7. pos = start + Len(Line)
      BY <1>0, <2>1, <2>3
    <2>8. FramesAreLines'
      BY <1>0, <2>1, <2>2, <2>3, <2>4, <2>6, <2>7 DEF FramesAreLines
    <2> QED BY <2>5, <2>8 DEF ReaderInv
  <1>6. CASE NextCall
    <2>1. /\ status' = "reading" /\ payload' = <<>> /\ start' = pos
          /\ UNCHANGED <<reader, input, pos>>
      BY <1>6 DEF NextCall
    <2>2. SubSeq(input, pos + 1, pos) = <<>>
      BY <1>0, SubSeqEmpty
    <2>3. TypeInv'
      BY <1>0, <2>1, EmptySeq DEF TypeInv
    <2>4. PartialInv'
      BY <1>0, <2>1, <2>2 DEF PartialInv, Clear
    <2>5. FramesAreLines'
      BY <1>0, <2>1 DEF FramesAreLines
    <2> QED BY <2>3, <2>4, <2>5 DEF ReaderInv
  <1>7. CASE UNCHANGED vars
    <2>1. Rest' = Rest /\ Line' = Line
      BY <1>7, SameFrame DEF vars
    <2> QED BY <1>0, <1>7, <2>1 DEF vars, ReaderInv, TypeInv, PartialInv, Clear,
            FramesAreLines
  <1> QED BY <1>1, <1>2, <1>3, <1>4, <1>5, <1>6, <1>7 DEF Next

\* Both readers return exactly the lines of the stream, whatever its length,
\* the limit, the buffer and the sizes of the pieces (readFrame, read_frame).
THEOREM ReadersReturnLines == Spec => []FramesAreLines
  <1>1. ReaderInv => FramesAreLines
    BY DEF ReaderInv
  <1> QED BY <1>1, ReaderInit, ReaderStep, PTL DEF Spec
=============================================================================
