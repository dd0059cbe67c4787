-------------------------- MODULE ChildOutputProofs --------------------------
(***************************************************************************)
(* Proofs about ChildOutput, for any capacity of the tail buffer, any      *)
(* frame size, any pipe, any output and any cutting of it into reads.      *)
(***************************************************************************)
EXTENDS ChildOutput, SequenceTheorems, TLAPS

\* n bytes of stderr behind the first a.
Window(a, n) == [i \in 1 .. n |-> a + i]

\* The child writes only while it runs, and the goroutine that drains stderr
\* meets the end behind the last byte.
StreamInv ==
    /\ oneShot \in BOOLEAN /\ child \in {"running", "ok", "fail"}
    /\ want \in {"none", "stdout", "stderr"} /\ errDone \in BOOLEAN
    /\ written \in Nat /\ drained \in Nat /\ drained <= written
    /\ child # "running" => want = "none"
    /\ errDone => child # "running" /\ drained = written
    /\ verdict # "none" => errDone

TailInv ==
    LET n == Least(drained, Capacity)
    IN  tail = Window(drained - n, n)

\* The capped buffer holds what was read up to its limit and knows if that is
\* not all.
CappedInv ==
    /\ stdout \in Seq(Byte) /\ read \in 0 .. Len(stdout)
    /\ kept = SubSeq(stdout, 1, Least(read, Limit))
    /\ overflowed \in BOOLEAN /\ (overflowed <=> read > Limit)
    /\ verdict # "none" => read = Len(stdout)

\* What an accepted answer looks like.
OnePayload(raw) ==
    \E n \in 1 .. Least(MaxFrame, Len(raw)) :
       /\ SubSeq(raw, n + 1, Len(raw)) \in {<<>>, <<"lf">>, <<"cr", "lf">>}
       /\ raw[n] = "x"

VerdictInv ==
    verdict # "none" => (verdict = "accepted" <=> child = "ok" /\ OnePayload(stdout))

OutputInv == StreamInv /\ TailInv /\ CappedInv /\ VerdictInv

-----------------------------------------------------------------------------
\* The first m bytes.
LEMMA Prefix ==
  ASSUME NEW S, NEW s \in Seq(S), NEW m \in 0 .. Len(s)
  PROVE  /\ SubSeq(s, 1, m) \in Seq(S) /\ Len(SubSeq(s, 1, m)) = m
         /\ \A i \in 1 .. m : SubSeq(s, 1, m)[i] = s[i]
  <1>1. m \in Int /\ \A i \in 1 .. m : s[i] \in S
    OBVIOUS
  <1>2. /\ SubSeq(s, 1, m) \in Seq(S)
        /\ Len(SubSeq(s, 1, m)) = IF 1 <= m THEN m - 1 + 1 ELSE 0
        /\ \A i \in 1 .. m - 1 + 1 : SubSeq(s, 1, m)[i] = s[1 + i - 1]
    BY <1>1, SubSeqProperties
  <1> QED BY <1>2

\* Sequences that agree on the first m elements have the same prefix.
LEMMA SamePrefix ==
  ASSUME NEW S, NEW s \in Seq(S), NEW t \in Seq(S), NEW m \in 0 .. Len(s), m <= Len(t),
         \A i \in 1 .. m : s[i] = t[i]
  PROVE  SubSeq(s, 1, m) = SubSeq(t, 1, m)
  <1> DEFINE u == SubSeq(s, 1, m)  v == SubSeq(t, 1, m)
  <1>1. u \in Seq(S) /\ Len(u) = m /\ \A i \in 1 .. m : u[i] = s[i]
    BY Prefix
  <1>2. v \in Seq(S) /\ Len(v) = m /\ \A i \in 1 .. m : v[i] = t[i]
    <2>1. m \in 0 .. Len(t)
      OBVIOUS
    <2> QED BY <2>1, Prefix
  <1> HIDE DEF u, v
  <1>3. u = v
    BY <1>1, <1>2, SeqEqual
  <1> QED BY <1>3 DEF u, v

-----------------------------------------------------------------------------
(* The tail buffer.                                                        *)

\* A window is a sequence.
LEMMA WindowSeq ==
  ASSUME NEW a \in Nat, NEW n \in Nat
  PROVE  /\ Window(a, n) \in Seq(Nat) /\ Len(Window(a, n)) = n
         /\ \A i \in 1 .. n : Window(a, n)[i] = a + i
  <1>1. \A i \in 1 .. n : a + i \in Nat
    OBVIOUS
  <1> QED BY <1>1, IsASeq DEF Window

\* Concatenation, as a name.
Cat(s, t) == s \o t

\* Two adjacent windows are one.
LEMMA WindowConcat ==
  ASSUME NEW a \in Nat, NEW m \in Nat, NEW n \in Nat, NEW b, NEW k,
         b = a + m, k = m + n
  PROVE  Cat(Window(a, m), Window(b, n)) = Window(a, k)
  <1> DEFINE s == Window(a, m)  t == Window(b, n)  u == Window(a, k)
  <1>0. b \in Nat /\ k \in Nat
    OBVIOUS
  <1>s. s \in Seq(Nat) /\ Len(s) = m /\ \A i \in 1 .. m : s[i] = a + i
    BY WindowSeq
  <1>t. t \in Seq(Nat) /\ Len(t) = n /\ \A i \in 1 .. n : t[i] = b + i
    BY <1>0, WindowSeq
  <1>u. u \in Seq(Nat) /\ Len(u) = k /\ \A i \in 1 .. k : u[i] = a + i
    BY <1>0, WindowSeq
  <1> HIDE DEF s, t, u
  <1>2. s \o t \in Seq(Nat) /\ Len(s \o t) = k
    BY <1>s, <1>t, ConcatProperties
  <1>3. ASSUME NEW i \in 1 .. k PROVE (s \o t)[i] = u[i]
    <2>1. (s \o t)[i] = IF i <= m THEN s[i] ELSE t[i - m]
      BY <1>s, <1>t, ConcatProperties
    <2> QED BY <1>s, <1>t, <1>u, <2>1
  <1>4. s \o t = u
    BY <1>u, <1>2, <1>3, SeqEqual
  <1> QED BY <1>4 DEF Cat, s, t, u

\* The end of a window is a window.
LEMMA WindowEnd ==
  ASSUME NEW a \in Nat, NEW n \in Nat, NEW k \in 0 .. n
  PROVE  SubSeq(Window(a, n), k + 1, n) = Window(a + k, n - k)
  <1> DEFINE s == Window(a, n)  t == SubSeq(s, k + 1, n)  u == Window(a + k, n - k)
  <1>0. a + k \in Nat /\ n - k \in Nat
    OBVIOUS
  <1>s. s \in Seq(Nat) /\ Len(s) = n /\ \A i \in 1 .. n : s[i] = a + i
    BY WindowSeq
  <1>u. u \in Seq(Nat) /\ Len(u) = n - k /\ \A i \in 1 .. n - k : u[i] = (a + k) + i
    BY <1>0, WindowSeq
  <1> HIDE DEF s, u
  <1>2. t \in Seq(Nat) /\ Len(t) = n - k /\ \A i \in 1 .. n - k : t[i] = s[k + i]
    <2>1. \A i \in k + 1 .. n : s[i] \in Nat
      BY <1>s
    <2>2. /\ t \in Seq(Nat) /\ Len(t) = IF k + 1 <= n THEN n - (k + 1) + 1 ELSE 0
          /\ \A i \in 1 .. n - (k + 1) + 1 : t[i] = s[(k + 1) + i - 1]
      BY <2>1, SubSeqProperties
    <2> QED BY <2>2
  <1> HIDE DEF t
  <1>3. t = u
    BY <1>s, <1>u, <1>2, SeqEqual
  <1> QED BY <1>3 DEF s, t, u

\* boundedTail.Write and tailBuffer.Write: whatever the sizes, the buffer that
\* holds the end of what came before then holds the end of it all.
LEMMA TailWriteEnd ==
  ASSUME NEW d \in Nat, NEW n \in Nat \ {0}, NEW e \in Nat, e = d + n
  PROVE  LET m == Least(d, Capacity)
             w == Least(e, Capacity)
         IN  TailWrite(Window(d - m, m), Window(d, n)) = Window(e - w, w)
  <1> USE OutputAssumption
  <1> DEFINE m == Least(d, Capacity)
             w == Least(e, Capacity)
             old == Window(d - m, m)
             new == Window(d, n)
  <1>1. m \in Nat /\ d - m \in Nat /\ m <= Capacity /\ (d < Capacity => m = d)
    BY DEF Least
  <1>2. Len(old) = m /\ Len(new) = n
    BY <1>1, WindowSeq
  <1>3. CASE n >= Capacity
    <2>1. w = Capacity /\ n - Capacity \in 0 .. n
      BY <1>3 DEF Least
    <2>2. SubSeq(new, n - Capacity + 1, n) = Window(d + (n - Capacity), n - (n - Capacity))
      BY <2>1, WindowEnd
    <2>3. TailWrite(old, new) = SubSeq(new, n - Capacity + 1, n)
      BY <1>2, <1>3 DEF TailWrite, Last
    <2>4. d + (n - Capacity) = e - w /\ n - (n - Capacity) = w
      BY <2>1
    <2> QED BY <2>2, <2>3, <2>4
  <1>4. CASE n < Capacity /\ m + n - Capacity > 0
    <2> DEFINE over == m + n - Capacity
    <2>1. over \in 0 .. m /\ w = Capacity
      BY <1>1, <1>4 DEF Least
    <2>2. TailWrite(old, new) = SubSeq(old, over + 1, m) \o new
      <3>1. Len(old) + Len(new) - Capacity = over /\ ~(Len(new) >= Capacity) /\ over > 0
        BY <1>1, <1>2, <1>4
      <3> HIDE DEF over
      <3> QED BY <1>2, <3>1 DEF TailWrite
    <2>3. SubSeq(old, over + 1, m) = Window(d - m + over, m - over)
      BY <1>1, <2>1, WindowEnd
    <2>4. d - m + over \in Nat /\ m - over \in Nat /\ w \in Nat
      BY <1>1, <2>1
    <2>5. /\ d = (d - m + over) + (m - over) /\ w = (m - over) + n
          /\ d - m + over = e - w
      BY <1>1, <2>1
    <2>6. Window(d - m + over, m - over) \o Window(d, n) = Window(d - m + over, w)
      <3> HIDE DEF m, w, over
      <3> DEFINE a == d - m + over
                 k == m - over
      <3>2. a \in Nat /\ k \in Nat /\ d = a + k /\ w = k + n
        BY ONLY <2>4, <2>5
      <3> HIDE DEF a, k
      <3>3. Cat(Window(a, k), Window(d, n)) = Window(a, w)
        BY ONLY <3>2, n \in Nat, WindowConcat
      <3> QED BY ONLY <3>3 DEF Cat, a, k
    <2> QED BY <2>2, <2>3, <2>5, <2>6
  <1>5. CASE n < Capacity /\ ~(m + n - Capacity > 0)
    <2>1. m = d /\ w = d + n
      BY <1>1, <1>5 DEF Least
    <2>2. TailWrite(old, new) = old \o new
      BY <1>2, <1>5 DEF TailWrite
    <2>3. Window(0, d) \o Window(0 + d, n) = Window(0, d + n)
      <3> DEFINE b == 0 + d  k == d + n
      <3>1. 0 \in Nat /\ b = 0 + d /\ k = d + n
        OBVIOUS
      <3> HIDE DEF b, k
      <3>2. Cat(Window(0, d), Window(b, n)) = Window(0, k)
        BY ONLY <3>1, d \in Nat, n \in Nat, WindowConcat
      <3> QED BY ONLY <3>2 DEF Cat, b, k
    <2>4. old = Window(0, d) /\ new = Window(0 + d, n) /\ Window(e - w, w) = Window(0, d + n)
      BY <2>1
    <2> QED BY <2>2, <2>3, <2>4
  <1> QED BY <1>1, <1>3, <1>4, <1>5

-----------------------------------------------------------------------------
(* The capped buffer.                                                      *)

\* cappedBuffer.Write: whatever the size of a read, the buffer holds the first
\* Limit bytes of all that was read, and notes whether there were more.
LEMMA CappedWrite ==
  ASSUME NEW s \in Seq(Byte), NEW r \in 0 .. Len(s), NEW n \in 1 .. Len(s) - r,
         kept = SubSeq(s, 1, Least(r, Limit))
  PROVE  LET data == SubSeq(s, r + 1, r + n)
         IN  /\ CappedKeeps(data) = SubSeq(s, 1, Least(r + n, Limit))
             /\ r > Limit \/ CappedOverflows(data) <=> r + n > Limit
  <1> DEFINE data == SubSeq(s, r + 1, r + n)
  <1>l. Limit \in Nat /\ Limit > 0
    BY OutputAssumption DEF Limit
  <1> USE <1>l
  <1>1. Len(data) = n /\ data \in Seq(Byte)
    BY SubSeqProperties
  <1>2. Len(kept) = Least(r, Limit)
    BY SubSeqProperties DEF Least
  <1>3. r > Limit \/ CappedOverflows(data) <=> r + n > Limit
    BY <1>1, <1>2 DEF CappedOverflows, Least
  <1>4. CASE r + n <= Limit
    <2>1. CappedKeeps(data) = kept \o data
      BY <1>1, <1>2, <1>4 DEF CappedKeeps, Least
    <2>2. SubSeq(s, 1, r) \o SubSeq(s, r + 1, r + n) = SubSeq(s, 1, r + n)
      BY ConcatAdjacentSubSeq
    <2>3. kept = SubSeq(s, 1, r) /\ Least(r + n, Limit) = r + n
      BY <1>4 DEF Least
    <2> QED BY <1>3, <2>1, <2>2, <2>3
  <1>5. CASE r <= Limit /\ r + n > Limit
    <2> DEFINE room == Limit - r
    <2>1. CappedKeeps(data) = kept \o SubSeq(data, 1, room)
      BY <1>1, <1>2, <1>5 DEF CappedKeeps, Least
    <2>2. SubSeq(data, 1, room) = SubSeq(s, r + 1, Limit)
      <3>1. CASE room = 0
        BY <3>1, <1>5, SubSeqEmpty
      <3>2. CASE room > 0
        <4>1. /\ r + 1 \in 1 .. Len(s) /\ r + n \in 1 .. Len(s)
              /\ 1 \in 1 .. (r + n) - (r + 1) + 1 /\ room \in 1 .. (r + n) - (r + 1) + 1
          BY <3>2, <1>5
        <4>2. SubSeq(SubSeq(s, r + 1, r + n), 1, room) = SubSeq(s, (r + 1) + 1 - 1, (r + 1) + room - 1)
          BY <4>1, SubSeqOfSubSeq
        <4>3. (r + 1) + 1 - 1 = r + 1 /\ (r + 1) + room - 1 = Limit
          BY <1>5
        <4> QED BY <4>2, <4>3
      <3> QED BY <3>1, <3>2, <1>5
    <2>3. SubSeq(s, 1, r) \o SubSeq(s, r + 1, Limit) = SubSeq(s, 1, Limit)
      BY <1>5, ConcatAdjacentSubSeq
    <2>4. kept = SubSeq(s, 1, r) /\ Least(r + n, Limit) = Limit
      BY <1>5 DEF Least
    <2> QED BY <1>3, <2>1, <2>2, <2>3, <2>4
  <1>6. CASE r > Limit
    <2>1. CappedKeeps(data) = kept \o SubSeq(data, 1, 0)
      BY <1>1, <1>2, <1>6 DEF CappedKeeps, Least
    <2>2. SubSeq(data, 1, 0) = <<>>
      BY SubSeqEmpty
    <2>3. kept \in Seq(Byte)
      BY <1>6, SubSeqProperties DEF Least
    <2>4. kept \o <<>> = kept
      BY <2>3, ConcatEmptySeq
    <2>5. Least(r, Limit) = Limit /\ Least(r + n, Limit) = Limit
      BY <1>6 DEF Least
    <2> QED BY <1>3, <2>1, <2>2, <2>4, <2>5
  <1> QED BY <1>4, <1>5, <1>6

-----------------------------------------------------------------------------
(* The payload.                                                            *)

\* Dropping the last byte.
LEMMA FrontSeq ==
  ASSUME NEW s \in Seq(Byte), s # <<>>
  PROVE  /\ Front(s) \in Seq(Byte) /\ Len(Front(s)) = Len(s) - 1
         /\ \A i \in 1 .. Len(s) - 1 : Front(s)[i] = s[i]
  <1>1. Len(s) \in Nat \ {0} /\ \A i \in 1 .. Len(s) - 1 : s[i] \in Byte
    BY EmptySeq
  <1>2. Len(s) - 1 \in 0 .. Len(s)
    BY <1>1
  <1> QED BY <1>2, Prefix DEF Front

\* What may stand behind the n-th byte, in terms of the bytes.
LEMMA Suffix ==
  ASSUME NEW s \in Seq(Byte), NEW n \in 1 .. Len(s)
  PROVE  SubSeq(s, n + 1, Len(s)) \in {<<>>, <<"lf">>, <<"cr", "lf">>} <=>
           \/ n = Len(s)
           \/ n = Len(s) - 1 /\ s[Len(s)] = "lf"
           \/ n = Len(s) - 2 /\ s[Len(s) - 1] = "cr" /\ s[Len(s)] = "lf"
  <1> DEFINE t == SubSeq(s, n + 1, Len(s))
  <1>0. \A i \in n + 1 .. Len(s) : s[i] \in Byte
    OBVIOUS
  <1>1. /\ t \in Seq(Byte) /\ Len(t) = Len(s) - n
        /\ \A i \in 1 .. Len(s) - n : t[i] = s[n + i]
    <2>1. /\ t \in Seq(Byte)
          /\ Len(t) = IF n + 1 <= Len(s) THEN Len(s) - (n + 1) + 1 ELSE 0
          /\ \A i \in 1 .. Len(s) - (n + 1) + 1 : t[i] = s[(n + 1) + i - 1]
      BY <1>0, SubSeqProperties
    <2> QED BY <2>1
  <1> HIDE DEF t
  <1>2. t = <<>> <=> n = Len(s)
    BY <1>1, EmptySeq
  <1>3. t = <<"lf">> <=> Len(t) = 1 /\ t[1] = "lf"
    <2>1. <<"lf">> \in Seq(Byte) /\ Len(<<"lf">>) = 1 /\ <<"lf">>[1] = "lf"
      BY DEF Byte
    <2>2. ASSUME Len(t) = 1, t[1] = "lf" PROVE t = <<"lf">>
      BY <1>1, <2>1, <2>2, SeqEqual
    <2> QED BY <2>1, <2>2
  <1>4. t = <<"cr", "lf">> <=> Len(t) = 2 /\ t[1] = "cr" /\ t[2] = "lf"
    <2>1. /\ <<"cr", "lf">> \in Seq(Byte) /\ Len(<<"cr", "lf">>) = 2
          /\ <<"cr", "lf">>[1] = "cr" /\ <<"cr", "lf">>[2] = "lf"
      BY DEF Byte
    <2>2. ASSUME Len(t) = 2, t[1] = "cr", t[2] = "lf" PROVE t = <<"cr", "lf">>
      BY <1>1, <2>1, <2>2, SeqEqual
    <2> QED BY <2>1, <2>2
  <1>5. t = <<"lf">> <=> n = Len(s) - 1 /\ s[Len(s)] = "lf"
    BY <1>1, <1>3
  <1>6. t = <<"cr", "lf">> <=> n = Len(s) - 2 /\ s[Len(s) - 1] = "cr" /\ s[Len(s)] = "lf"
    BY <1>1, <1>4
  <1> QED BY <1>2, <1>5, <1>6 DEF t

\* The checks behind oneShotResponsePayload, for a payload: not empty, and its
\* last byte is no terminator.
LEMMA LastByte ==
  ASSUME NEW p \in Seq(Byte)
  PROVE  /\ ~EndsIn(p, "cr") /\ ~EndsIn(p, "lf") /\ ~(\A i \in DOMAIN p : p[i] # "x")
           <=> p # <<>> /\ p[Len(p)] = "x"
  <1>1. CASE p = <<>>
    BY <1>1
  <1>2. CASE p # <<>>
    <2>1. Len(p) \in DOMAIN p /\ p[Len(p)] \in Byte
      BY <1>2, EmptySeq
    <2> QED BY <1>2, <2>1 DEF EndsIn, Byte
  <1> QED BY <1>1, <1>2

\* oneShotResponsePayload accepts exactly one payload with an optional LF or
\* CR LF behind it.
LEMMA PayloadAccepted ==
  ASSUME NEW raw \in Seq(Byte)
  PROVE  PayloadVerdict(raw) = "accepted" <=> OnePayload(raw)
  <1> USE OutputAssumption
  <1> DEFINE L == Len(raw)
             payload == IF EndsIn(raw, "lf") THEN Strip(Front(raw), "cr") ELSE raw
  <1>a. OnePayload(raw) <=>
          \E n \in 1 .. Least(MaxFrame, L) :
             /\ raw[n] = "x"
             /\ \/ n = L
                \/ n = L - 1 /\ raw[L] = "lf"
                \/ n = L - 2 /\ raw[L - 1] = "cr" /\ raw[L] = "lf"
    <2>1. \A n \in 1 .. Least(MaxFrame, L) : n \in 1 .. L
      BY DEF Least
    <2> QED BY <2>1, Suffix DEF OnePayload
  <1>b. ASSUME payload \in Seq(Byte), L <= Len(payload) + 2
        PROVE  PayloadVerdict(raw) = "accepted" <=>
                 payload # <<>> /\ payload[Len(payload)] = "x" /\ Len(payload) <= MaxFrame
    <2> HIDE DEF payload
    <2>1. PayloadVerdict(raw) = IF L > MaxFrame + 2 THEN "too_large"
              ELSE IF EndsIn(payload, "cr") \/ EndsIn(payload, "lf") THEN "terminator"
              ELSE IF Len(payload) > MaxFrame THEN "too_large"
              ELSE IF \A i \in DOMAIN payload : payload[i] # "x" THEN "empty"
              ELSE "accepted"
      BY DEF PayloadVerdict, payload
    <2>2. Len(payload) \in Nat /\ L \in Nat
      BY <1>b
    <2> QED BY <1>b, <2>1, <2>2, LastByte
  <1>1. CASE ~EndsIn(raw, "lf")
    <2>1. payload = raw
      BY <1>1
    <2>2. PayloadVerdict(raw) = "accepted" <=> raw # <<>> /\ raw[L] = "x" /\ L <= MaxFrame
      BY <1>b, <2>1
    <2>3. raw # <<>> <=> L > 0
      BY EmptySeq
    <2> QED BY <1>1, <1>a, <2>2, <2>3 DEF EndsIn, Least
  <1>2. CASE EndsIn(raw, "lf")
    <2>0. L \in Nat \ {0} /\ raw # <<>> /\ raw[L] = "lf"
      BY <1>2, EmptySeq DEF EndsIn
    <2>1. /\ Front(raw) \in Seq(Byte) /\ Len(Front(raw)) = L - 1
          /\ \A i \in 1 .. L - 1 : Front(raw)[i] = raw[i]
      BY <2>0, FrontSeq
    <2>2. CASE EndsIn(Front(raw), "cr")
      <3>1. payload = Front(Front(raw)) /\ Front(raw) # <<>>
        BY <1>2, <2>2 DEF Strip, EndsIn
      <3>2. L - 1 > 0 /\ raw[L - 1] = "cr"
        BY <2>0, <2>1, <2>2, <3>1, EmptySeq DEF EndsIn
      <3>3. /\ payload \in Seq(Byte) /\ Len(payload) = L - 2
            /\ \A i \in 1 .. L - 2 : payload[i] = raw[i]
        <4>1. /\ payload \in Seq(Byte) /\ Len(payload) = Len(Front(raw)) - 1
              /\ \A i \in 1 .. Len(Front(raw)) - 1 : payload[i] = Front(raw)[i]
          BY <2>1, <3>1, FrontSeq
        <4> HIDE DEF payload
        <4> QED BY <2>0, <2>1, <4>1
      <3>4. PayloadVerdict(raw) = "accepted" <=>
              payload # <<>> /\ payload[Len(payload)] = "x" /\ Len(payload) <= MaxFrame
        BY <1>b, <3>3
      <3> HIDE DEF payload
      <3>5. payload # <<>> <=> L - 2 > 0
        BY <3>3, EmptySeq
      <3>6. PayloadVerdict(raw) = "accepted" <=> L - 2 > 0 /\ raw[L - 2] = "x" /\ L - 2 <= MaxFrame
        BY <2>0, <3>3, <3>4, <3>5
      <3> QED BY <1>a, <2>0, <3>2, <3>6 DEF Least
    <2>3. CASE ~EndsIn(Front(raw), "cr")
      <3>1. payload = Front(raw)
        BY <1>2, <2>3 DEF Strip
      <3>2. L - 1 > 0 => raw[L - 1] # "cr"
        BY <2>0, <2>1, <2>3, EmptySeq DEF EndsIn
      <3>4. PayloadVerdict(raw) = "accepted" <=>
              payload # <<>> /\ payload[Len(payload)] = "x" /\ Len(payload) <= MaxFrame
        BY <1>b, <2>0, <2>1, <3>1
      <3> HIDE DEF payload
      <3>5. payload # <<>> <=> L - 1 > 0
        BY <2>0, <2>1, <3>1, EmptySeq
      <3>6. PayloadVerdict(raw) = "accepted" <=> L - 1 > 0 /\ raw[L - 1] = "x" /\ L - 1 <= MaxFrame
        BY <2>0, <2>1, <3>1, <3>4, <3>5
      <3> QED BY <1>a, <2>0, <3>2, <3>6 DEF Least
    <2> QED BY <2>2, <2>3
  <1> QED BY <1>1, <1>2

-----------------------------------------------------------------------------
(* The invariant.                                                          *)

\* Every step preserves StreamInv: nothing is written behind the end.
LEMMA StreamStep ==
  ASSUME StreamInv, [Next]_vars
  PROVE  StreamInv'
  <1> USE DEF StreamInv, errVars, outVars
  <1>1. ASSUME NEW stream \in {"stdout", "stderr"}, ChildBegins(stream) PROVE StreamInv'
    BY <1>1 DEF ChildBegins
  <1>2. CASE ChildWritesErr
    BY <1>2 DEF ChildWritesErr
  <1>3. ASSUME NEW b \in Byte, ChildWritesOut(b) PROVE StreamInv'
    BY <1>3 DEF ChildWritesOut
  <1>4. ASSUME NEW how \in {"ok", "fail"}, ChildExits(how) PROVE StreamInv'
    BY <1>4 DEF ChildExits
  <1>5. ASSUME NEW n \in 1 .. PipeSize, DrainErr(n) PROVE StreamInv'
    BY <1>5, OutputAssumption DEF DrainErr
  <1>6. CASE DrainErrEnds
    BY <1>6 DEF DrainErrEnds
  <1>7. ASSUME NEW n \in 1 .. PipeSize, DrainOut(n) PROVE StreamInv'
    BY <1>7 DEF DrainOut
  <1>8. CASE RunReturns
    BY <1>8 DEF RunReturns
  <1>9. CASE UNCHANGED vars
    BY <1>9 DEF vars
  <1> HIDE DEF StreamInv
  <1> QED BY <1>1, <1>2, <1>3, <1>4, <1>5, <1>6, <1>7, <1>8, <1>9
          DEF Next, ChildWrites, Drain, DrainStdout

\* Every step preserves TailInv: only DrainErr writes to the tail.
LEMMA TailStep ==
  ASSUME StreamInv, TailInv, [Next]_vars
  PROVE  TailInv'
  <1>1. ASSUME NEW n \in 1 .. PipeSize, DrainErr(n) PROVE TailInv'
    <2>1. n \in Nat \ {0} /\ drained \in Nat /\ drained' = drained + n
      BY <1>1, OutputAssumption DEF DrainErr, StreamInv
    <2>2. tail' = TailWrite(tail, Window(drained, n))
      BY <1>1 DEF DrainErr, Window
    <2>3. TailWrite(Window(drained - Least(drained, Capacity), Least(drained, Capacity)),
                    Window(drained, n))
            = Window(drained' - Least(drained', Capacity), Least(drained', Capacity))
      <3>1. drained' \in Nat
        BY <2>1
      <3> QED BY <2>1, <3>1, TailWriteEnd
    <2>4. tail = Window(drained - Least(drained, Capacity), Least(drained, Capacity))
      BY DEF TailInv
    <2>5. tail' = Window(drained' - Least(drained', Capacity), Least(drained', Capacity))
      BY <2>2, <2>3, <2>4
    <2> QED BY <2>5 DEF TailInv
  <1>2. CASE UNCHANGED <<drained, tail>>
    BY <1>2 DEF TailInv
  <1> QED BY <1>1, <1>2
          DEF Next, ChildBegins, ChildWrites, ChildWritesErr, ChildWritesOut, ChildExits,
              Drain, DrainErrEnds, DrainStdout, DrainOut, RunReturns, errVars, vars

\* Every step preserves CappedInv: only ChildWritesOut and DrainOut concern it,
\* and a byte more on stdout changes nothing of what was read.
LEMMA CappedStep ==
  ASSUME StreamInv, CappedInv, [Next]_vars
  PROVE  CappedInv'
  <1> USE OutputAssumption
  <1>l. Limit \in Nat
    BY DEF Limit
  <1>1. ASSUME NEW b \in Byte, ChildWritesOut(b) PROVE CappedInv'
    <2> DEFINE m == Least(read, Limit)
    <2>1. /\ stdout' = Append(stdout, b) /\ UNCHANGED <<read, kept, overflowed, verdict>>
          /\ verdict = "none"
      BY <1>1 DEF ChildWritesOut, StreamInv
    <2>2. /\ stdout' \in Seq(Byte) /\ Len(stdout') = Len(stdout) + 1
          /\ \A i \in 1 .. Len(stdout) : stdout'[i] = stdout[i]
      BY <2>1, AppendProperties DEF CappedInv
    <2>3. m \in 0 .. Len(stdout)
      BY <1>l DEF CappedInv, Least
    <2>4. SubSeq(stdout', 1, m) = SubSeq(stdout, 1, m)
      <3> HIDE DEF m
      <3>1. m <= Len(stdout') /\ \A i \in 1 .. m : stdout[i] = stdout'[i]
        BY <2>2, <2>3 DEF CappedInv
      <3> QED BY <2>2, <2>3, <3>1, SamePrefix DEF CappedInv
    <2>5. read' \in 0 .. Len(stdout')
      BY <2>1, <2>2 DEF CappedInv
    <2>6. kept' = SubSeq(stdout', 1, Least(read', Limit))
      BY <2>1, <2>4 DEF CappedInv
    <2> QED BY <2>1, <2>2, <2>5, <2>6 DEF CappedInv
  <1>2. ASSUME NEW n \in 1 .. PipeSize, DrainOut(n) PROVE CappedInv'
    <2>1. /\ n \in 1 .. Len(stdout) - read /\ read' = read + n /\ verdict' = verdict
          /\ stdout' = stdout
      BY <1>2 DEF DrainOut
    <2>2. verdict = "none"
      BY <2>1 DEF CappedInv
    <2> DEFINE data == SubSeq(stdout, read + 1, read + n)
    <2>3. /\ kept' = CappedKeeps(data)
          /\ overflowed' = (overflowed \/ CappedOverflows(data))
      BY <1>2 DEF DrainOut
    <2>4. /\ CappedKeeps(data) = SubSeq(stdout, 1, Least(read + n, Limit))
          /\ read > Limit \/ CappedOverflows(data) <=> read + n > Limit
      BY <2>1, CappedWrite DEF CappedInv
    <2> HIDE DEF data
    <2>5. overflowed' \in BOOLEAN /\ (overflowed' <=> read' > Limit)
      BY <2>1, <2>3, <2>4 DEF CappedInv
    <2>6. read' \in 0 .. Len(stdout') /\ kept' = SubSeq(stdout', 1, Least(read', Limit))
      BY <2>1, <2>3, <2>4 DEF CappedInv
    <2> QED BY <2>1, <2>2, <2>5, <2>6 DEF CappedInv
  <1>3. CASE RunReturns
    BY <1>3 DEF RunReturns, outVars, CappedInv
  <1>4. CASE UNCHANGED <<outVars, verdict>>
    BY <1>4 DEF outVars, CappedInv
  <1> QED BY <1>1, <1>2, <1>3, <1>4
          DEF Next, ChildBegins, ChildWrites, ChildWritesErr, ChildExits, Drain, DrainErr,
              DrainErrEnds, DrainStdout, vars

\* Every step preserves VerdictInv.  At the return all is read; a buffer that
\* has dropped something has seen more bytes than any answer may have.
LEMMA VerdictStep ==
  ASSUME StreamInv, CappedInv, VerdictInv, [Next]_vars
  PROVE  VerdictInv'
  <1> USE OutputAssumption
  <1>1. CASE RunReturns
    <2>1. /\ read = Len(stdout) /\ UNCHANGED <<child, stdout>>
          /\ verdict' = IF child = "fail" THEN "process"
                        ELSE IF overflowed THEN "too_large" ELSE PayloadVerdict(kept)
          /\ child \in {"ok", "fail"}
      BY <1>1 DEF RunReturns, outVars, StreamInv
    <2>2. CASE child = "fail"
      BY <2>1, <2>2 DEF VerdictInv
    <2>3. CASE child = "ok" /\ overflowed
      <3>1. stdout \in Seq(Byte) /\ Len(stdout) > MaxFrame + 3
        BY <2>1, <2>3 DEF CappedInv, Limit
      <3>2. ~OnePayload(stdout)
        <4> SUFFICES ASSUME NEW n \in 1 .. Least(MaxFrame, Len(stdout)),
                            SubSeq(stdout, n + 1, Len(stdout)) \in {<<>>, <<"lf">>, <<"cr", "lf">>}
                     PROVE  FALSE
          BY DEF OnePayload
        <4>1. n \in 1 .. Len(stdout) /\ n <= MaxFrame
          BY <3>1 DEF Least
        <4>2. n = Len(stdout) \/ n = Len(stdout) - 1 \/ n = Len(stdout) - 2
          BY <3>1, <4>1, Suffix
        <4> QED BY <3>1, <4>1, <4>2
      <3> QED BY <2>1, <2>3, <3>2 DEF VerdictInv
    <2>4. CASE child = "ok" /\ ~overflowed
      <3>1. stdout \in Seq(Byte) /\ Least(read, Limit) = Len(stdout)
        BY <2>1, <2>4 DEF CappedInv, Least, Limit
      <3>2. kept = stdout
        BY <3>1, SubSeqFull DEF CappedInv
      <3> QED BY <2>1, <2>4, <3>1, <3>2, PayloadAccepted DEF VerdictInv
    <2> QED BY <2>1, <2>2, <2>3, <2>4
  <1>2. CASE verdict # "none" /\ UNCHANGED verdict
    <2>1. UNCHANGED <<child, stdout>>
      BY <1>2 DEF StreamInv, Next, ChildBegins, ChildWrites, ChildWritesErr,
                  ChildWritesOut, ChildExits, Drain, DrainErr, DrainErrEnds, DrainStdout,
                  DrainOut, RunReturns, outVars, vars
    <2> QED BY <1>2, <2>1 DEF VerdictInv
  <1>3. CASE verdict = "none" /\ UNCHANGED verdict
    BY <1>3 DEF VerdictInv
  <1> QED BY <1>1, <1>2, <1>3
          DEF Next, ChildBegins, ChildWrites, ChildWritesErr, ChildWritesOut, ChildExits,
              Drain, DrainErr, DrainErrEnds, DrainStdout, DrainOut, vars

\* OutputInv holds of every behaviour, fair or not.
LEMMA OutputInvariant == FairSpec => []OutputInv
  <1>1. Init => OutputInv
    <2> SUFFICES ASSUME Init PROVE OutputInv
      OBVIOUS
    <2>1. StreamInv
      <3>1. oneShot \in BOOLEAN /\ errDone \in BOOLEAN /\ ~errDone
        BY DEF Init
      <3> QED BY <3>1 DEF Init, StreamInv
    <2>4. VerdictInv
      BY DEF Init, VerdictInv
    <2>2. TailInv
      BY OutputAssumption DEF Init, TailInv, Least, Window
    <2>3. CappedInv
      <3>1. Limit \in Nat /\ Limit > 0 /\ Least(0, Limit) = 0
        BY OutputAssumption DEF Limit, Least
      <3>2. SubSeq(<<>>, 1, 0) = <<>>
        BY SubSeqEmpty
      <3>3. overflowed \in BOOLEAN /\ ~overflowed
        BY DEF Init
      <3>4. stdout \in Seq(Byte) /\ Len(stdout) = 0
        BY EmptySeq DEF Init
      <3> QED BY <3>1, <3>2, <3>3, <3>4 DEF Init, CappedInv
    <2> QED BY <2>1, <2>2, <2>3, <2>4 DEF OutputInv
  <1>2. OutputInv /\ [Next]_vars => OutputInv'
    BY StreamStep, TailStep, CappedStep, VerdictStep DEF OutputInv
  <1> QED BY <1>1, <1>2, PTL DEF FairSpec

-----------------------------------------------------------------------------
(* The theorems.                                                           *)

\* However stderr is cut into reads, boundedTail and tailBuffer hold exactly
\* its last Capacity bytes, and when the calls get past stderrDone, or Run
\* returns, those are the last bytes the child ever wrote.
THEOREM TailKept == FairSpec => []TailIsTheEnd
  <1>1. OutputInv => TailIsTheEnd
    BY DEF OutputInv, StreamInv, TailInv, TailIsTheEnd, Window
  <1> QED BY <1>1, OutputInvariant, PTL

\* runOneShotEngine accepts an answer if and only if the engine exited with
\* success and stdout is one payload within the limit: the capped buffer and
\* the size of the reads never decide it.
THEOREM AnswersAreOnePayload == FairSpec => []AnswerIsOnePayload
  <1>1. OutputInv => AnswerIsOnePayload
    BY DEF OutputInv, VerdictInv, OnePayload, AnswerIsOnePayload
  <1> QED BY <1>1, OutputInvariant, PTL
=============================================================================
