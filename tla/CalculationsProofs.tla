------------------------- MODULE CalculationsProofs -------------------------
(***************************************************************************)
(* Proofs about the sequential functions of labctl, for every width of the *)
(* integers and inputs of every size.                                      *)
(*                                                                         *)
(* Loops are recursive functions in the model.  What one of them computes  *)
(* is proved by induction, which is done with sets here: a set of numbers  *)
(* that is not empty has a least element.                                  *)
(***************************************************************************)
EXTENDS MCCalculations, SequenceTheorems, FiniteSetTheorems, WellFoundedInduction, TLAPS

-----------------------------------------------------------------------------
(* Induction and recursion.                                                *)

\* A set of numbers has a least one.
LEMMA Least ==
  ASSUME NEW T, T \subseteq Nat, T # {}
  PROVE  \E x \in T : \A y \in T : x <= y
  <1> DEFINE R == OpToRel(<, Nat)
  <1>1. IsWellFoundedOn(R, Nat)
    BY NatLessThanWellFounded
  <1>2. \A a, b \in Nat : a < b => <<a, b>> \in R
    BY DEF OpToRel
  <1> HIDE DEF R
  <1>3. PICK x \in T : \A y \in T : ~ (<<y, x>> \in R)
    BY <1>1, WFMin
  <1>4. ASSUME NEW y \in T PROVE x <= y
    <2>1. x \in Nat /\ y \in Nat /\ ~ (y < x)
      BY <1>2, <1>3
    <2> QED BY <2>1
  <1> QED BY <1>4

\* Induction up to a bound, for membership in a set.
LEMMA Induct ==
  ASSUME NEW N \in Nat, NEW T, 0 \in T, \A n \in 0 .. N - 1 : n \in T => n + 1 \in T
  PROVE  \A n \in 0 .. N : n \in T
  <1> DEFINE U == {n \in 0 .. N : n \notin T}
  <1> SUFFICES ASSUME U # {} PROVE FALSE
    OBVIOUS
  <1>1. U \subseteq Nat
    OBVIOUS
  <1>2. PICK x \in U : \A y \in U : x <= y
    BY <1>1, Least
  <1>3. x \in 0 .. N /\ x \notin T /\ x # 0
    BY <1>2
  <1>4. x - 1 \in 0 .. N - 1 /\ (x - 1) + 1 = x /\ x - 1 \in 0 .. N /\ ~(x <= x - 1)
    BY <1>3
  <1>5. x - 1 \notin U
    BY <1>2, <1>4
  <1>6. x - 1 \in T
    BY <1>4, <1>5
  <1> QED BY <1>3, <1>4, <1>6

\* f is defined by recursion: v at 0, and further on by g.
Recursive(f, N, V, v, g) ==
    f \in [0 .. N -> V] /\ f[0] = v /\ \A n \in 1 .. N : f[n] = g[<<f[n - 1], n>>]

\* There is such a function.
LEMMA Recursion ==
  ASSUME NEW N \in Nat, NEW V, NEW v \in V, NEW g \in [V \X (1 .. N) -> V]
  PROVE  \E f : Recursive(f, N, V, v, g)
  <1> DEFINE Upto(m, f) == f[0] = v /\ \A n \in 1 .. m : f[n] = g[<<f[n - 1], n>>]
             T == {m \in 0 .. N : \E f \in [0 .. m -> V] : Upto(m, f)}
  <1>1. 0 \in T
    <2> DEFINE f == [n \in 0 .. 0 |-> v]
    <2>1. f \in [0 .. 0 -> V] /\ Upto(0, f)
      OBVIOUS
    <2> HIDE DEF f
    <2> QED BY <2>1
  <1>2. ASSUME NEW m \in 0 .. N - 1, m \in T PROVE m + 1 \in T
    <2>1. PICK f \in [0 .. m -> V] : Upto(m, f)
      BY <1>2
    <2> DEFINE h == [n \in 0 .. m + 1 |-> IF n <= m THEN f[n] ELSE g[<<f[m], m + 1>>]]
    <2>2. f[m] \in V /\ m + 1 \in 1 .. N
      OBVIOUS
    <2>3. h \in [0 .. m + 1 -> V]
      BY <2>2
    <2>4. h[0] = v
      BY <2>1
    <2>5. ASSUME NEW n \in 1 .. m + 1 PROVE h[n] = g[<<h[n - 1], n>>]
      <3>1. n - 1 \in 0 .. m + 1 /\ n - 1 <= m /\ n \in 0 .. m + 1
        OBVIOUS
      <3>2. h[n - 1] = f[n - 1]
        BY <3>1
      <3>3. CASE n <= m
        <4>1. h[n] = f[n] /\ n \in 1 .. m
          BY <3>1, <3>3
        <4> HIDE DEF h
        <4> QED BY <2>1, <3>2, <4>1
      <3>4. CASE n = m + 1
        <4>1. h[n] = g[<<f[m], m + 1>>] /\ n - 1 = m
          BY <3>1, <3>4
        <4> HIDE DEF h
        <4> QED BY <3>2, <3>4, <4>1
      <3> QED BY <3>3, <3>4
    <2> HIDE DEF h
    <2>6. Upto(m + 1, h)
      BY <2>4, <2>5
    <2> QED BY <2>2, <2>3, <2>6
  <1>3. N \in T
    <2> HIDE DEF T
    <2>1. N \in 0 .. N
      OBVIOUS
    <2> QED BY <1>1, <1>2, <2>1, Induct
  <1> QED BY <1>3 DEF Recursive

-----------------------------------------------------------------------------
(* Sums.                                                                   *)

\* The numbers of a sequence, as the loops over it need them.
Numbered(s) == Len(s) \in Nat /\ \A i \in 1 .. Len(s) : s[i] \in Nat

\* The sums of the beginnings of s.
Sums(s) ==
    CHOOSE f : f = [n \in 0 .. Len(s) |-> IF n = 0 THEN 0 ELSE f[n - 1] + s[n]]

\* They are what they should be.
LEMMA SumsAre ==
  ASSUME NEW s, Numbered(s)
  PROVE  /\ Sums(s) \in [0 .. Len(s) -> Nat] /\ Sums(s)[0] = 0
         /\ \A n \in 1 .. Len(s) : Sums(s)[n] = Sums(s)[n - 1] + s[n]
         /\ TrueSum(s) = Sums(s)[Len(s)] /\ TrueTotal(s) = Sums(s)[Len(s)]
         /\ TrueSum(s) \in Nat
  <1> DEFINE N == Len(s)
             Is(f) == f = [n \in 0 .. N |-> IF n = 0 THEN 0 ELSE f[n - 1] + s[n]]
             g == [p \in Nat \X (1 .. N) |-> p[1] + s[p[2]]]
  <1>1. N \in Nat /\ \A i \in 1 .. N : s[i] \in Nat
    BY DEF Numbered
  <1>2. \A a \in Nat, n \in 1 .. N : g[<<a, n>>] = a + s[n]
    BY <1>1
  <1>3. g \in [Nat \X (1 .. N) -> Nat]
    BY <1>1
  <1> HIDE DEF N, g
  <1>4. PICK f : Recursive(f, N, Nat, 0, g)
    BY <1>1, <1>3, Recursion
  <1>5. Is(f)
    <2>1. \A n \in 1 .. N : n - 1 \in 0 .. N
      BY <1>1
    <2>2. \A n \in 1 .. N : f[n] = f[n - 1] + s[n]
      BY <1>2, <1>4, <2>1 DEF Recursive
    <2>3. \A n \in 0 .. N : f[n] = IF n = 0 THEN 0 ELSE f[n - 1] + s[n]
      BY <1>1, <1>4, <2>2 DEF Recursive
    <2> QED BY <1>4, <2>3 DEF Recursive
  <1>6. Is(Sums(s))
    BY <1>5 DEF Sums, N
  <1> DEFINE F == Sums(s)
  <1>7. /\ F[0] = 0 /\ DOMAIN F = 0 .. N /\ F = [n \in 0 .. N |-> F[n]]
        /\ \A n \in 1 .. N : F[n] = F[n - 1] + s[n]
    <2> HIDE DEF F
    <2>1. F = [n \in 0 .. N |-> IF n = 0 THEN 0 ELSE F[n - 1] + s[n]]
      BY <1>6 DEF F
    <2>2. \A n \in 0 .. N : F[n] = IF n = 0 THEN 0 ELSE F[n - 1] + s[n]
      BY <2>1
    <2>3. 0 \in 0 .. N /\ \A n \in 1 .. N : n \in 0 .. N /\ n # 0
      BY <1>1
    <2>4. F[0] = 0 /\ \A n \in 1 .. N : F[n] = F[n - 1] + s[n]
      BY <2>2, <2>3
    <2>5. DOMAIN F = 0 .. N /\ F = [n \in 0 .. N |-> F[n]]
      BY <2>1
    <2> QED BY <2>4, <2>5
  <1> HIDE DEF F
  <1>8. \A n \in 0 .. N : F[n] \in Nat
    <2> DEFINE T == {n \in 0 .. N : F[n] \in Nat}
    <2>1. 0 \in T
      BY <1>1, <1>7
    <2>2. ASSUME NEW n \in 0 .. N - 1, n \in T PROVE n + 1 \in T
      <3>1. n + 1 \in 1 .. N /\ (n + 1) - 1 = n /\ n + 1 \in 0 .. N
        BY <1>1
      <3>2. F[n + 1] = F[n] + s[n + 1]
        BY <1>7, <3>1
      <3> QED BY <1>1, <2>2, <3>1, <3>2
    <2>3. \A n \in 0 .. N : n \in T
      <3> HIDE DEF T
      <3> QED BY <1>1, <2>1, <2>2, Induct
    <2> QED BY <2>3
  <1>9. F \in [0 .. N -> Nat]
    BY <1>7, <1>8
  <1>10. TrueSum(s) = F[N]
    BY DEF TrueSum, F, Sums, N
  <1>11. TrueTotal(s) = F[N]
    BY DEF TrueTotal, F, Sums, N
  <1>12. N \in 0 .. N
    BY <1>1
  <1> QED BY <1>7, <1>8, <1>9, <1>10, <1>11, <1>12 DEF F, N

\* The sums grow.
LEMMA SumsGrow ==
  ASSUME NEW s, Numbered(s)
  PROVE  \A n \in 1 .. Len(s) : /\ n - 1 \in 0 .. Len(s) /\ n \in 0 .. Len(s)
                                /\ Sums(s)[n - 1] \in Nat /\ s[n] \in Nat
                                /\ Sums(s)[n] = Sums(s)[n - 1] + s[n]
  <1> DEFINE F == Sums(s)
  <1>1. /\ F \in [0 .. Len(s) -> Nat] /\ Len(s) \in Nat
        /\ \A n \in 1 .. Len(s) : F[n] = F[n - 1] + s[n]
        /\ \A n \in 1 .. Len(s) : s[n] \in Nat
    BY SumsAre DEF Numbered
  <1> HIDE DEF F
  <1>2. \A n \in 1 .. Len(s) : n - 1 \in 0 .. Len(s) /\ n \in 0 .. Len(s)
    BY <1>1
  <1>3. \A n \in 1 .. Len(s) : F[n - 1] \in Nat
    BY <1>1, <1>2
  <1> QED BY <1>1, <1>2, <1>3 DEF F

\* The loop over a histogram has the true total, or refuses it.
LEMMA HistogramTotalIs ==
  ASSUME NEW h, Numbered(h), NEW r \in Nat
  PROVE  HistogramTotal(h, r) = IF TrueTotal(h) <= r THEN TrueTotal(h) ELSE Refused
  <1> DEFINE N == Len(h)
             S == Sums(h)
             Body(f, n) == IF n = 0 THEN 0
                           ELSE IF f[n - 1] = Refused \/ h[n] > r - f[n - 1] THEN Refused
                           ELSE f[n - 1] + h[n]
             F == CHOOSE f : f = [n \in 0 .. N |-> Body(f, n)]
             W == [n \in 0 .. N |-> IF S[n] <= r THEN S[n] ELSE Refused]
  <1>1. /\ N \in Nat /\ S[0] = 0 /\ \A n \in 0 .. N : S[n] \in Nat
        /\ \A n \in 1 .. N : /\ n - 1 \in 0 .. N /\ S[n - 1] \in Nat /\ h[n] \in Nat
                             /\ S[n] = S[n - 1] + h[n]
    BY SumsAre, SumsGrow DEF Numbered
  <1>2. TrueTotal(h) = S[N]
    BY SumsAre
  <1>3. HistogramTotal(h, r) = F[N]
    BY DEF HistogramTotal
  <1> HIDE DEF N, S
  <1>4. ASSUME NEW f, NEW n \in 1 .. N, f[n - 1] = W[n - 1] PROVE Body(f, n) = W[n]
    <2>1. /\ n \in 0 .. N /\ n - 1 \in 0 .. N /\ n # 0 /\ S[n] \in Nat
          /\ S[n - 1] \in Nat /\ h[n] \in Nat /\ S[n] = S[n - 1] + h[n]
      BY <1>1
    <2>2. CASE S[n - 1] <= r
      <3>1. f[n - 1] = S[n - 1]
        BY <1>4, <2>1, <2>2
      <3> QED BY <2>1, <2>2, <3>1 DEF Refused
    <2>3. CASE ~(S[n - 1] <= r)
      <3>1. f[n - 1] = Refused
        BY <1>4, <2>1, <2>3
      <3> QED BY <2>1, <2>3, <3>1
    <2> QED BY <2>2, <2>3
  <1>5. W[0] = 0
    BY <1>1
  <1>6. \A n \in 0 .. N : W[n] = Body(W, n)
    <2> SUFFICES ASSUME NEW n \in 0 .. N PROVE W[n] = Body(W, n)
      OBVIOUS
    <2>1. CASE n = 0
      BY <1>5, <2>1
    <2>2. CASE n \in 1 .. N
      <3> HIDE DEF W, Body
      <3> QED BY <1>4, <2>2
    <2> QED BY <1>1, <2>1, <2>2
  <1>7. F = [n \in 0 .. N |-> Body(F, n)]
    <2>1. W = [n \in 0 .. N |-> Body(W, n)]
      BY <1>6
    <2> HIDE DEF W
    <2> QED BY <2>1
  <1> HIDE DEF F
  <1>8. \A n \in 0 .. N : F[n] = W[n]
    <2> DEFINE T == {n \in 0 .. N : F[n] = W[n]}
    <2>0. \A n \in 0 .. N : F[n] = Body(F, n)
      <3> HIDE DEF Body
      <3> QED BY <1>7
    <2>1. 0 \in T
      BY <1>1, <1>5, <2>0
    <2>2. ASSUME NEW n \in 0 .. N - 1, n \in T PROVE n + 1 \in T
      <3>1. n + 1 \in 1 .. N /\ (n + 1) - 1 = n /\ n + 1 \in 0 .. N
        BY <1>1
      <3> HIDE DEF Body, W
      <3>2. F[n + 1] = Body(F, n + 1)
        BY <2>0, <3>1
      <3>3. F[(n + 1) - 1] = W[(n + 1) - 1]
        BY <2>2, <3>1
      <3>4. Body(F, n + 1) = W[n + 1]
        BY <1>4, <3>1, <3>3
      <3> QED BY <3>1, <3>2, <3>4
    <2> HIDE DEF T
    <2>3. \A n \in 0 .. N : n \in T
      BY <1>1, <2>1, <2>2, Induct
    <2> QED BY <2>3 DEF T
  <1>9. N \in 0 .. N
    BY <1>1
  <1>10. F[N] = IF S[N] <= r THEN S[N] ELSE Refused
    BY <1>8, <1>9
  <1> QED BY <1>2, <1>3, <1>10

-----------------------------------------------------------------------------
(* The functions do not get in each other's way.                           *)

Kinds == {"samples", "profile", "measure", "answer", "json", "response", "result",
          "command", "doctor", "host"}

\* The input is a record, of one kind.
KindInv == "kind" \in DOMAIN input /\ input.kind \in Kinds

\* Each function works on inputs of its own kinds.
LEMMA KindsApart ==
  ASSUME KindInv, [Next]_calcVars
  PROVE  /\ input'.kind = input.kind /\ "kind" \in DOMAIN input'
         /\ StatisticsNext => input.kind \in {"samples", "profile"}
         /\ MeasurementNext => input.kind \in {"measure", "answer"}
         /\ JsonNext => input.kind = "json"
         /\ CodecNext => input.kind \in {"response", "result"}
         /\ CommandNext => input.kind = "command"
         /\ DoctorNext => input.kind \in {"doctor", "host"}
  <1> USE DEF KindInv
  <1>1. ASSUME StatisticsNext
        PROVE  UNCHANGED input /\ input.kind \in {"samples", "profile"}
    BY <1>1 DEF StatisticsNext, Summarize, Analyze, Asked, Answer
  <1>2. ASSUME MeasurementNext
        PROVE  /\ input'.kind = input.kind /\ "kind" \in DOMAIN input'
               /\ input.kind \in {"measure", "answer"}
    <2>1. ASSUME NEW d, Passes(d) PROVE input'.kind = input.kind /\ "kind" \in DOMAIN input'
      BY <2>1 DEF Passes
    <2>2. ASSUME NEW d, EngineBegins(d) \/ EngineEnds(d) \/ RunEngine(d)
          PROVE  Passes(d) /\ input.kind = "measure"
      BY <2>2 DEF EngineBegins, EngineEnds, RunEngine, Measuring
    <2>3. ASSUME NEW parts, NEW d, RunIteration(parts, d)
          PROVE  /\ input'.kind = input.kind /\ "kind" \in DOMAIN input'
                 /\ input.kind = "measure"
      BY <2>3 DEF RunIteration, Measuring
    <2>4. ASSUME JudgeAnswer PROVE UNCHANGED input /\ input.kind = "answer"
      BY <2>4 DEF JudgeAnswer, Asked, Answer
    <2> QED BY <1>2, <2>1, <2>2, <2>3, <2>4 DEF MeasurementNext
  <1>3. ASSUME JsonNext
        PROVE  input'.kind = input.kind /\ "kind" \in DOMAIN input' /\ input.kind = "json"
    <2>1. ASSUME NEW t, NEW verdict, NEW stack, Scanned(t, verdict, stack)
          PROVE  input'.kind = input.kind /\ "kind" \in DOMAIN input'
      BY <2>1 DEF Scanned
    <2>2. ASSUME NEW t, NEW stack, ValueEnds(t, stack)
          PROVE  input'.kind = input.kind /\ "kind" \in DOMAIN input'
      BY <2>1, <2>2 DEF ValueEnds
    <2>3. ASSUME NEW t, ScanKey(t) \/ ScanScalar(t) \/ ScanOpen(t) \/ ScanClose(t)
                        \/ ScanSyntaxError(t) \/ ScanTrailing(t)
          PROVE  input'.kind = input.kind /\ "kind" \in DOMAIN input' /\ input.kind = "json"
      BY <2>1, <2>2, <2>3 DEF ScanKey, ScanScalar, ScanOpen, ScanClose, ScanSyntaxError,
                              ScanTrailing, Scanning
    <2>4. ASSUME ScanEnd PROVE UNCHANGED input /\ input.kind = "json"
      BY <2>4 DEF ScanEnd, Answer
    <2> QED BY <1>3, <2>3, <2>4 DEF JsonNext
  <1>4. ASSUME CodecNext PROVE UNCHANGED input /\ input.kind \in {"response", "result"}
    BY <1>4 DEF CodecNext, DecodeResponse, DecodeResult, Asked, Answer
  <1>5. ASSUME CommandNext
        PROVE  input'.kind = input.kind /\ "kind" \in DOMAIN input' /\ input.kind = "command"
    <2>1. ASSUME NEW words, Read(words)
          PROVE  input'.kind = input.kind /\ "kind" \in DOMAIN input'
      BY <2>1 DEF Read
    <2>2. ASSUME NEW commands, Reading(commands) PROVE input.kind = "command"
      BY <2>2 DEF Reading
    <2>3. ASSUME NEW words, ReadPlain(words)
          PROVE  input'.kind = input.kind /\ "kind" \in DOMAIN input' /\ input.kind = "command"
      BY <2>1, <2>2, <2>3 DEF ReadPlain
    <2>4. ASSUME NEW f, NEW w, ReadPair(f, w) \/ ReadValueFlag(f, w)
          PROVE  input'.kind = input.kind /\ "kind" \in DOMAIN input' /\ input.kind = "command"
      BY <2>1, <2>2, <2>4 DEF ReadPair, ReadValueFlag
    <2>5. ASSUME NEW w, ReadOdd(w) \/ ReadPath(w) \/ ReadBareFlag(w)
          PROVE  input'.kind = input.kind /\ "kind" \in DOMAIN input' /\ input.kind = "command"
      BY <2>1, <2>2, <2>5 DEF ReadOdd, ReadPath, ReadBareFlag
    <2>6. ASSUME ReadJson
          PROVE  input'.kind = input.kind /\ "kind" \in DOMAIN input' /\ input.kind = "command"
      BY <2>1, <2>2, <2>6 DEF ReadJson
    <2>7. ASSUME EndOfArguments \/ Work \/ WriteOutput
          PROVE  UNCHANGED input /\ input.kind = "command"
      BY <2>2, <2>7 DEF EndOfArguments, Work, WriteOutput
    <2> QED BY <1>5, <2>3, <2>4, <2>5, <2>6, <2>7 DEF CommandNext
  <1>6. ASSUME DoctorNext
        PROVE  /\ input'.kind = input.kind /\ "kind" \in DOMAIN input'
               /\ input.kind \in {"doctor", "host"}
    <2>1. ASSUME NEW probe, Check(probe)
          PROVE  input'.kind = input.kind /\ "kind" \in DOMAIN input' /\ input.kind = "doctor"
      BY <2>1 DEF Check
    <2>2. ASSUME CancelDoctor
          PROVE  input'.kind = input.kind /\ "kind" \in DOMAIN input' /\ input.kind = "doctor"
      BY <2>2 DEF CancelDoctor
    <2>3. ASSUME NEW line, ScanCpuLine(line)
          PROVE  input'.kind = input.kind /\ "kind" \in DOMAIN input' /\ input.kind = "host"
      BY <2>3 DEF ScanCpuLine, ReadingHost
    <2>4. ASSUME DescribeLinux PROVE UNCHANGED input /\ input.kind = "host"
      BY <2>4 DEF DescribeLinux, ReadingHost, Answer
    <2> QED BY <1>6, <2>1, <2>2, <2>3, <2>4 DEF DoctorNext
  <1>7. CASE UNCHANGED calcVars
    <2>1. UNCHANGED input
      BY <1>7 DEF calcVars
    <2> QED BY <1>1, <1>2, <1>3, <1>4, <1>5, <1>6, <2>1
  <1>8. CASE Next
    BY <1>1, <1>2, <1>3, <1>4, <1>5, <1>6, <1>8 DEF Next
  <1> QED BY <1>7, <1>8

\* So are the inputs at the start.
LEMMA InitKinds ==
  /\ StatisticsInit => "kind" \in DOMAIN input /\ input.kind \in {"samples", "profile"}
  /\ MeasurementInit => "kind" \in DOMAIN input /\ input.kind \in {"measure", "answer"}
  /\ JsonInit => "kind" \in DOMAIN input /\ input.kind = "json"
  /\ CodecInit => "kind" \in DOMAIN input /\ input.kind \in {"response", "result"}
  /\ CommandInit => "kind" \in DOMAIN input /\ input.kind = "command"
  /\ DoctorInit => "kind" \in DOMAIN input /\ input.kind = "doctor"
  /\ HostInit => "kind" \in DOMAIN input /\ input.kind = "host"
  <1>1. ASSUME StatisticsInit
        PROVE  "kind" \in DOMAIN input /\ input.kind \in {"samples", "profile"}
    BY <1>1 DEF StatisticsInit
  <1>2. ASSUME MeasurementInit
        PROVE  "kind" \in DOMAIN input /\ input.kind \in {"measure", "answer"}
    <2> DEFINE goal == "kind" \in DOMAIN input /\ input.kind \in {"measure", "answer"}
    <2>1. ASSUME NEW mode, NEW asked, NEW warmups,
                 input = [kind |-> "measure", mode |-> mode, asked |-> asked,
                          warmups |-> warmups, now |-> 0]
          PROVE  goal
      BY <2>1
    <2>2. ASSUME NEW mode, NEW form, NEW experiment, NEW orchestration, NEW samples,
                 input = [kind |-> "answer", mode |-> mode, asked |-> MaxRetained,
                          form |-> form, experiment |-> experiment,
                          orchestration |-> orchestration, samples |-> samples]
          PROVE  goal
      BY <2>2
    <2>3. goal
      <3> HIDE DEF goal
      <3> DEFINE given(mode, form, experiment, orchestration, samples) ==
                   input = [kind |-> "answer", mode |-> mode, asked |-> MaxRetained,
                            form |-> form, experiment |-> experiment,
                            orchestration |-> orchestration, samples |-> samples]
                 sample(ordinals, first, second, total, sums, i) ==
                   Sample(IF ordinals THEN i - 1 ELSE 0, <<first[i], second[i]>>,
                          IF sums = 0 THEN (first[i] + second[i]) % U64 ELSE sums,
                          total[i])
      <3>1. \/ \E mode \in Modes, asked \in 1 .. MaxRetained, warmups \in 0 .. 1 :
                 input = [kind |-> "measure", mode |-> mode, asked |-> asked,
                          warmups |-> warmups, now |-> 0]
            \/ \E mode \in Modes, form \in BOOLEAN, n \in 0 .. 2, ordinals \in BOOLEAN,
                  experiment, orchestration \in Times :
                 \E first, second, total \in [1 .. n -> Times], sums \in {0, U64 - 1} :
                   given(mode, form, experiment, orchestration,
                         [i \in 1 .. n |-> sample(ordinals, first, second, total, sums, i)])
        BY <1>2, Zenon DEF MeasurementInit
      <3>2. ASSUME NEW mode, NEW form, NEW experiment, NEW orchestration, NEW samples,
                   given(mode, form, experiment, orchestration, samples)
            PROVE  goal
        BY <2>2, <3>2, Zenon
      <3> HIDE DEF given, sample
      <3> QED BY <2>1, <3>1, <3>2, ZenonT(60)
    <2> QED BY <2>3
  <1>3. ASSUME JsonInit PROVE "kind" \in DOMAIN input /\ input.kind = "json"
    BY <1>3 DEF JsonInit
  <1>4. ASSUME CodecInit
        PROVE  "kind" \in DOMAIN input /\ input.kind \in {"response", "result"}
    BY <1>4 DEF CodecInit, Responses
  <1>5. ASSUME CommandInit PROVE "kind" \in DOMAIN input /\ input.kind = "command"
    BY <1>5 DEF CommandInit
  <1>6. ASSUME DoctorInit PROVE "kind" \in DOMAIN input /\ input.kind = "doctor"
    BY <1>6 DEF DoctorInit
  <1>7. ASSUME HostInit PROVE "kind" \in DOMAIN input /\ input.kind = "host"
    BY <1>7 DEF HostInit
  <1> QED BY <1>1, <1>2, <1>3, <1>4, <1>5, <1>6, <1>7

\* Every input has a kind.
LEMMA KindInvariant == Spec => []KindInv
  <1>1. ASSUME Init PROVE KindInv
    BY <1>1, InitKinds DEF Init, KindInv, Kinds
  <1>2. ASSUME KindInv, [Next]_calcVars PROVE KindInv'
    BY <1>2, KindsApart DEF KindInv
  <1> QED BY <1>1, <1>2, PTL DEF Spec

-----------------------------------------------------------------------------
(* The answers of the engine.                                              *)

\* A result is made of 64-bit counts.
ResultTyped ==
    input.kind = "result" =>
        /\ Numbered(input.result.histogram) /\ input.result.accepted \in Nat
        /\ input.workload.records \in Nat

CodecInv == ResultTyped /\ AcceptedResultsAreConsistent

\* What validateResult finds out.
LEMMA ResultsAreJudged ==
  ASSUME NEW r, NEW w, Numbered(r.histogram), r.accepted \in Nat, w.records \in Nat
  PROVE  validateResult(r, w) <=>
           /\ r.form = "ok" /\ w.named
           /\ w.records <= MaxRecords /\ w.categories \in 1 .. MaxCategories
           /\ TrueTotal(r.histogram) = r.accepted /\ r.accepted <= w.records
           /\ Len(r.histogram) = w.categories
  <1>1. HistogramTotal(r.histogram, w.records) =
          IF TrueTotal(r.histogram) <= w.records THEN TrueTotal(r.histogram) ELSE Refused
    BY HistogramTotalIs
  <1>2. r.accepted # Refused
    BY DEF Refused
  <1> QED BY <1>1, <1>2 DEF validateResult

\* What a frame that gets through looks like.
LEMMA ResponsesAreJudged ==
  ASSUME DecodeResponse, report'.verdict = "accepted"
  PROVE  /\ input.request = "execute" <=> input.type # "shutdown_ack"
         /\ Cardinality({f \in {"result", "error"} : present(input[f])}) =
              IF input.request = "execute" THEN 1 ELSE 0
  <1> DEFINE There == {f \in {"result", "error"} : present(input[f])}
  <1>1. \/ input.type = "completed" /\ decodeCompleted
        \/ input.type = "error" /\ decodeRemoteError
        \/ input.type = "shutdown_ack" /\ decodeShutdownAck
    BY DEF DecodeResponse, Answer, Verdict
  <1>2. CASE input.type = "completed" /\ decodeCompleted
    <2>1. There = {"result"} /\ input.request = "execute"
      BY <1>2 DEF decodeCompleted
    <2> HIDE DEF There
    <2>2. Cardinality(There) = 1
      BY <2>1, FS_Singleton
    <2> QED BY <1>2, <2>1, <2>2 DEF There
  <1>3. CASE input.type = "error" /\ decodeRemoteError
    <2>1. There = {"error"} /\ input.request = "execute"
      BY <1>3 DEF decodeRemoteError
    <2> HIDE DEF There
    <2>2. Cardinality(There) = 1
      BY <2>1, FS_Singleton
    <2> QED BY <1>3, <2>1, <2>2 DEF There
  <1>4. CASE input.type = "shutdown_ack" /\ decodeShutdownAck
    <2>1. There = {} /\ input.request = "shutdown"
      BY <1>4 DEF decodeShutdownAck
    <2> HIDE DEF There
    <2>2. Cardinality(There) = 0
      BY <2>1, FS_EmptySet
    <2> QED BY <1>4, <2>1, <2>2 DEF There
  <1> QED BY <1>1, <1>2, <1>3, <1>4

\* Every result has its counts at the start, and nothing is accepted.
LEMMA CodecStart ==
  ASSUME Init PROVE CodecInv
  <1>1. CASE CodecInit
    <2>1. AcceptedResultsAreConsistent
      BY <1>1 DEF CodecInit, AcceptedResultsAreConsistent, Accepted, Unanswered
    <2>2. ASSUME input.kind = "result"
          PROVE  /\ Numbered(input.result.histogram) /\ input.result.accepted \in Nat
                 /\ input.workload.records \in Nat
      <3>1. input \notin Responses
        BY <2>2 DEF Responses
      <3>0. PICK form \in ResultForms, accepted \in Counts, n \in 0 .. 3 :
              \E h \in [1 .. n -> Counts], named \in BOOLEAN, records \in Counts,
                 categories \in 0 .. 3 :
                input = [kind |-> "result", result |-> Result(form, accepted, h),
                         workload |-> Workload(named, records, categories)]
        BY <1>1, <3>1, Zenon DEF CodecInit
      <3>2. PICK h \in [1 .. n -> Counts], named \in BOOLEAN, records \in Counts,
                 categories \in 0 .. 3 :
              input = [kind |-> "result", result |-> Result(form, accepted, h),
                       workload |-> Workload(named, records, categories)]
        BY <3>0
      <3>3. /\ input.result.histogram = h /\ input.result.accepted = accepted
            /\ input.workload.records = records
        BY <3>2 DEF Result, Workload
      <3>4. Counts \subseteq Nat
        BY CodecAssumption, WidthAssumption DEF Uint64
      <3>5. n \in Nat /\ h \in [1 .. n -> Nat]
        <4>1. \A i \in 1 .. n : h[i] \in Nat
          BY <3>4
        <4>2. n \in Nat /\ DOMAIN h = 1 .. n /\ h = [i \in 1 .. n |-> h[i]]
          OBVIOUS
        <4> QED BY <4>1, <4>2
      <3>6. Len(h) = n
        <4>1. h \in Seq(Nat)
          BY <3>5, SeqDef
        <4> QED BY <3>5, <4>1, LenProperties
      <3>7. Numbered(h)
        BY <3>5, <3>6 DEF Numbered
      <3> QED BY <3>3, <3>4, <3>7
    <2> QED BY <2>1, <2>2 DEF CodecInv, ResultTyped
  <1>2. CASE input.kind \notin {"response", "result"}
    BY <1>2 DEF CodecInv, ResultTyped, AcceptedResultsAreConsistent, Accepted
  <1>3. CodecInit \/ input.kind \notin {"response", "result"}
    BY InitKinds DEF Init
  <1> QED BY <1>1, <1>2, <1>3

\* Every step preserves it.
LEMMA CodecStep ==
  ASSUME KindInv, CodecInv, [Next]_calcVars PROVE CodecInv'
  <1>1. CASE input.kind \notin {"response", "result"}
    <2>1. input'.kind \notin {"response", "result"}
      BY <1>1, KindsApart
    <2> QED BY <2>1 DEF CodecInv, ResultTyped, AcceptedResultsAreConsistent, Accepted
  <1>2. CASE UNCHANGED calcVars
    BY <1>2 DEF calcVars, CodecInv, ResultTyped, AcceptedResultsAreConsistent, Accepted
  <1>3. CASE DecodeResponse
    <2>1. UNCHANGED input /\ input.kind = "response"
      BY <1>3 DEF DecodeResponse, Asked, Answer
    <2>2. CASE report'.verdict = "accepted"
      <3>1. /\ input.request = "execute" <=> input.type # "shutdown_ack"
            /\ Cardinality({f \in {"result", "error"} : present(input[f])}) =
                 IF input.request = "execute" THEN 1 ELSE 0
        BY <1>3, <2>2, ResponsesAreJudged
      <3> QED BY <2>1, <3>1
              DEF CodecInv, ResultTyped, AcceptedResultsAreConsistent, Accepted
    <2>3. CASE report'.verdict # "accepted"
      BY <2>1, <2>3 DEF CodecInv, ResultTyped, AcceptedResultsAreConsistent, Accepted
    <2> QED BY <2>2, <2>3
  <1>4. CASE DecodeResult
    <2>1. UNCHANGED input /\ input.kind = "result"
      BY <1>4 DEF DecodeResult, Asked, Answer
    <2>2. report'.verdict = "accepted" <=> validateResult(input.result, input.workload)
      BY <1>4 DEF DecodeResult, Answer, Verdict
    <2>3. /\ Numbered(input.result.histogram) /\ input.result.accepted \in Nat
          /\ input.workload.records \in Nat
      BY <2>1 DEF CodecInv, ResultTyped
    <2> DEFINE r == input.result
               w == input.workload
    <2>4. report'.verdict = "accepted" <=>
            /\ r.form = "ok" /\ w.named
            /\ w.records <= MaxRecords /\ w.categories \in 1 .. MaxCategories
            /\ TrueTotal(r.histogram) = r.accepted /\ r.accepted <= w.records
            /\ Len(r.histogram) = w.categories
      BY <2>2, <2>3, ResultsAreJudged
    <2>5. AcceptedResultsAreConsistent'
      BY <2>1, <2>4 DEF AcceptedResultsAreConsistent, Accepted
    <2> QED BY <2>1, <2>3, <2>5 DEF CodecInv, ResultTyped
  <1> QED BY <1>1, <1>2, <1>3, <1>4, KindsApart DEF Next, CodecNext

\* Whatever the numbers are, a result is accepted exactly if it can be true of
\* the workload, and a frame answers one kind of request only (validateResult,
\* DecodeResponse).
THEOREM ResultsAreConsistent == Spec => []AcceptedResultsAreConsistent
  <1>1. CodecInv => AcceptedResultsAreConsistent
    BY DEF CodecInv
  <1> QED BY <1>1, CodecStart, CodecStep, KindInvariant, PTL DEF Spec

-----------------------------------------------------------------------------
(* The times of a measurement.                                             *)

\* A sample as it comes out of the decoder, and the times of a list of them.
Samples == [ordinal : Nat, parts : Seq(Nat), sum : Nat, total : Uint64]
Totals(samples) == [i \in DOMAIN samples |-> samples[i].total]

\* What is asked of each sample.
InOrder(mode, samples) ==
    \A i \in DOMAIN samples :
        /\ samples[i].ordinal = i - 1 /\ TrueSum(samples[i].parts) <= samples[i].total
        /\ mode = "profile" => samples[i].sum = TrueSum(samples[i].parts)

\* A sequence of numbers.
LEMMA SeqNumbered ==
  ASSUME NEW s \in Seq(Nat) PROVE Numbered(s)
  BY LenProperties, ElementOfSeq DEF Numbered

\* The checked sum is the true one, where that fits.
LEMMA sumUint64Is ==
  ASSUME NEW s, Numbered(s)
  PROVE  sumUint64(s) = IF TrueSum(s) < U64 THEN TrueSum(s) ELSE Error
  <1> DEFINE N == Len(s)
             S == Sums(s)
             Body(f, n) == IF n = 0 THEN 0
                           ELSE IF f[n - 1] = Error THEN Error
                           ELSE addUint64(f[n - 1], s[n])
             F == CHOOSE f : f = [n \in 0 .. N |-> Body(f, n)]
             W == [n \in 0 .. N |-> IF S[n] < U64 THEN S[n] ELSE Error]
  <1>1. /\ N \in Nat /\ S[0] = 0 /\ \A n \in 0 .. N : S[n] \in Nat
        /\ \A n \in 1 .. N : /\ n - 1 \in 0 .. N /\ S[n - 1] \in Nat /\ s[n] \in Nat
                             /\ S[n] = S[n - 1] + s[n]
    BY SumsAre, SumsGrow DEF Numbered
  <1>2. TrueSum(s) = S[N]
    BY SumsAre
  <1>3. sumUint64(s) = F[N]
    BY DEF sumUint64
  <1>0. U64 \in Nat /\ U64 > 0
    BY WidthAssumption
  <1> HIDE DEF N, S
  <1>4. ASSUME NEW f, NEW n \in 1 .. N, f[n - 1] = W[n - 1] PROVE Body(f, n) = W[n]
    <2>1. /\ n \in 0 .. N /\ n - 1 \in 0 .. N /\ n # 0 /\ S[n] \in Nat
          /\ S[n - 1] \in Nat /\ s[n] \in Nat /\ S[n] = S[n - 1] + s[n]
      BY <1>1
    <2>2. CASE S[n - 1] < U64
      <3>1. f[n - 1] = S[n - 1]
        BY <1>4, <2>1, <2>2
      <3> QED BY <1>0, <2>1, <2>2, <3>1 DEF Error, addUint64
    <2>3. CASE ~(S[n - 1] < U64)
      <3>1. f[n - 1] = Error
        BY <1>4, <2>1, <2>3
      <3> QED BY <1>0, <2>1, <2>3, <3>1
    <2> QED BY <2>2, <2>3
  <1>5. W[0] = 0
    BY <1>0, <1>1
  <1>6. \A n \in 0 .. N : W[n] = Body(W, n)
    <2> SUFFICES ASSUME NEW n \in 0 .. N PROVE W[n] = Body(W, n)
      OBVIOUS
    <2>1. CASE n = 0
      BY <1>5, <2>1
    <2>2. CASE n \in 1 .. N
      <3> HIDE DEF W, Body
      <3> QED BY <1>4, <2>2
    <2> QED BY <1>1, <2>1, <2>2
  <1>7. F = [n \in 0 .. N |-> Body(F, n)]
    <2>1. W = [n \in 0 .. N |-> Body(W, n)]
      BY <1>6
    <2> HIDE DEF W
    <2> QED BY <2>1
  <1> HIDE DEF F
  <1>8. \A n \in 0 .. N : F[n] = W[n]
    <2> DEFINE T == {n \in 0 .. N : F[n] = W[n]}
    <2>0. \A n \in 0 .. N : F[n] = Body(F, n)
      <3> HIDE DEF Body
      <3> QED BY <1>7
    <2>1. 0 \in T
      BY <1>1, <1>5, <2>0
    <2>2. ASSUME NEW n \in 0 .. N - 1, n \in T PROVE n + 1 \in T
      <3>1. n + 1 \in 1 .. N /\ (n + 1) - 1 = n /\ n + 1 \in 0 .. N
        BY <1>1
      <3> HIDE DEF Body, W
      <3>2. F[n + 1] = Body(F, n + 1)
        BY <2>0, <3>1
      <3>3. F[(n + 1) - 1] = W[(n + 1) - 1]
        BY <2>2, <3>1
      <3>4. Body(F, n + 1) = W[n + 1]
        BY <1>4, <3>1, <3>3
      <3> QED BY <3>1, <3>2, <3>4
    <2> HIDE DEF T
    <2>3. \A n \in 0 .. N : n \in T
      BY <1>1, <2>1, <2>2, Induct
    <2> QED BY <2>3 DEF T
  <1>9. N \in 0 .. N
    BY <1>1
  <1>10. F[N] = IF S[N] < U64 THEN S[N] ELSE Error
    BY <1>8, <1>9
  <1> QED BY <1>2, <1>3, <1>10

\* The times of samples are numbers.
LEMMA TotalsNumbered ==
  ASSUME NEW samples \in Seq(Samples)
  PROVE  /\ Totals(samples) \in Seq(Nat) /\ Len(Totals(samples)) = Len(samples)
         /\ DOMAIN samples = 1 .. Len(samples) /\ Len(samples) \in Nat
         /\ \A i \in 1 .. Len(samples) :
              /\ Totals(samples)[i] = samples[i].total /\ samples[i].total \in Nat
              /\ samples[i].total < U64 /\ Numbered(samples[i].parts)
  <1> DEFINE t == Totals(samples)
  <1>0. U64 \in Nat
    BY WidthAssumption
  <1>1. Len(samples) \in Nat /\ DOMAIN samples = 1 .. Len(samples)
    BY LenProperties
  <1>2. \A i \in 1 .. Len(samples) : samples[i] \in Samples
    BY ElementOfSeq
  <1>3. ASSUME NEW i \in 1 .. Len(samples)
        PROVE  /\ t[i] = samples[i].total /\ samples[i].total \in Nat
               /\ samples[i].total < U64 /\ Numbered(samples[i].parts)
    <2>1. samples[i].total \in Uint64 /\ samples[i].parts \in Seq(Nat)
      BY <1>2 DEF Samples
    <2>2. t[i] = samples[i].total
      BY <1>1 DEF Totals
    <2> QED BY <1>0, <2>1, <2>2, SeqNumbered DEF Uint64
  <1>4. t \in [1 .. Len(samples) -> Nat]
    BY <1>1, <1>3 DEF Totals
  <1> HIDE DEF t
  <1>5. t \in Seq(Nat)
    BY <1>1, <1>4, SeqDef
  <1>6. Len(t) = Len(samples)
    BY <1>1, <1>4, <1>5, LenProperties
  <1> QED BY <1>1, <1>3, <1>5, <1>6 DEF t

\* What labctl finds about one sample.
LEMMA SampleTotalIs ==
  ASSUME NEW mode, NEW sample, NEW i, Numbered(sample.parts), sample.total \in Nat,
         sample.total < U64
  PROVE  SampleTotal(mode, sample, i) =
           IF /\ sample.ordinal = i - 1 /\ TrueSum(sample.parts) <= sample.total
              /\ mode = "profile" => sample.sum = TrueSum(sample.parts)
             THEN sample.total ELSE Error
  <1>1. /\ sumUint64(sample.parts) =
             IF TrueSum(sample.parts) < U64 THEN TrueSum(sample.parts) ELSE Error
        /\ TrueSum(sample.parts) \in Nat /\ U64 \in Nat
    BY sumUint64Is, SumsAre, WidthAssumption
  <1>2. CASE TrueSum(sample.parts) < U64
    <2>1. sumUint64(sample.parts) = TrueSum(sample.parts) /\ sumUint64(sample.parts) # Error
      BY <1>1, <1>2 DEF Error
    <2> QED BY <1>1, <2>1 DEF SampleTotal
  <1>3. CASE ~(TrueSum(sample.parts) < U64)
    <2>1. sumUint64(sample.parts) = Error /\ ~(TrueSum(sample.parts) <= sample.total)
      BY <1>1, <1>3
    <2> QED BY <2>1 DEF SampleTotal
  <1> QED BY <1>2, <1>3

\* The retained time is the true one, where all samples are in order and it fits.
LEMMA retainedTotalIs ==
  ASSUME NEW mode, NEW samples \in Seq(Samples)
  PROVE  retainedTotal(mode, samples) =
           IF InOrder(mode, samples) /\ TrueSum(Totals(samples)) < U64
             THEN TrueSum(Totals(samples)) ELSE Error
  <1> DEFINE N == Len(samples)
             S == Sums(Totals(samples))
             x(n) == SampleTotal(mode, samples[n], n)
             Body(f, n) == IF n = 0 THEN 0
                           ELSE IF f[n - 1] = Error \/ x(n) = Error THEN Error
                           ELSE addUint64(f[n - 1], x(n))
             F == CHOOSE f : f = [n \in 0 .. N |-> Body(f, n)]
             good(n) == \A i \in 1 .. n : x(i) # Error
             W == [n \in 0 .. N |-> IF good(n) /\ S[n] < U64 THEN S[n] ELSE Error]
  <1>0. U64 \in Nat /\ U64 > 0
    BY WidthAssumption
  <1>1. Numbered(Totals(samples)) /\ Len(Totals(samples)) = N
    BY TotalsNumbered, SeqNumbered
  <1>2. /\ N \in Nat /\ S[0] = 0 /\ \A n \in 0 .. N : S[n] \in Nat
        /\ \A n \in 1 .. N : /\ n - 1 \in 0 .. N /\ S[n - 1] \in Nat
                             /\ samples[n].total \in Nat
                             /\ S[n] = S[n - 1] + samples[n].total
    <2>1. N \in Nat /\ S[0] = 0 /\ S \in [0 .. N -> Nat]
      BY <1>1, SumsAre DEF Numbered
    <2>2. \A n \in 1 .. N : /\ n - 1 \in 0 .. N /\ S[n - 1] \in Nat
                            /\ S[n] = S[n - 1] + Totals(samples)[n]
      BY <1>1, SumsGrow
    <2>3. \A n \in 1 .. N : Totals(samples)[n] = samples[n].total /\ samples[n].total \in Nat
      BY TotalsNumbered
    <2> HIDE DEF N, S
    <2> QED BY <2>1, <2>2, <2>3
  <1>3. TrueSum(Totals(samples)) = S[N]
    BY <1>1, SumsAre
  <1>4. retainedTotal(mode, samples) = F[N]
    BY DEF retainedTotal
  <1>5. \A n \in 1 .. N : x(n) = IF /\ samples[n].ordinal = n - 1
                                    /\ TrueSum(samples[n].parts) <= samples[n].total
                                    /\ mode = "profile" =>
                                         samples[n].sum = TrueSum(samples[n].parts)
                                   THEN samples[n].total ELSE Error
    BY TotalsNumbered, SampleTotalIs
  <1>6. \A n \in 1 .. N : samples[n].total # Error
    BY <1>2 DEF Error
  <1>7. good(N) <=> InOrder(mode, samples)
    <2>1. DOMAIN samples = 1 .. N
      BY TotalsNumbered
    <2> HIDE DEF N, x
    <2> QED BY <1>5, <1>6, <2>1 DEF InOrder
  <1>8. \A n \in 1 .. N : x(n) # Error => x(n) = samples[n].total
    <2> HIDE DEF x, N
    <2> QED BY <1>5
  <1> HIDE DEF N, S, x
  <1>9. ASSUME NEW f, NEW n \in 1 .. N, f[n - 1] = W[n - 1] PROVE Body(f, n) = W[n]
    <2>1. /\ n \in 0 .. N /\ n - 1 \in 0 .. N /\ n # 0 /\ S[n] \in Nat
          /\ S[n - 1] \in Nat /\ samples[n].total \in Nat
          /\ S[n] = S[n - 1] + samples[n].total
      BY <1>2, SMTT(30)
    <2>2. good(n) <=> good(n - 1) /\ x(n) # Error
      <3>1. 1 .. n = (1 .. n - 1) \cup {n}
        BY <1>2
      <3> QED BY <3>1
    <2> HIDE DEF good
    <2>3. CASE good(n - 1) /\ S[n - 1] < U64 /\ x(n) # Error
      <3>1. f[n - 1] = S[n - 1] /\ x(n) = samples[n].total /\ good(n)
        BY <1>8, <1>9, <2>1, <2>2, <2>3
      <3>2. Body(f, n) = addUint64(S[n - 1], samples[n].total)
        BY <2>1, <2>3, <3>1 DEF Error
      <3>3. W[n] = IF S[n] < U64 THEN S[n] ELSE Error
        BY <2>1, <3>1
      <3> HIDE DEF Body, W
      <3> QED BY <1>0, <2>1, <3>2, <3>3 DEF addUint64
    <2>4. CASE ~(good(n - 1) /\ S[n - 1] < U64)
      <3>1. f[n - 1] = Error
        BY <1>9, <2>1, <2>4
      <3>2. ~(good(n) /\ S[n] < U64)
        BY <1>0, <2>1, <2>2, <2>4
      <3> QED BY <2>1, <3>1, <3>2
    <2>5. CASE x(n) = Error
      BY <2>1, <2>2, <2>5
    <2> QED BY <2>3, <2>4, <2>5
  <1>10. W[0] = 0
    BY <1>0, <1>2
  <1> HIDE DEF good
  <1>11. \A n \in 0 .. N : W[n] = Body(W, n)
    <2> SUFFICES ASSUME NEW n \in 0 .. N PROVE W[n] = Body(W, n)
      OBVIOUS
    <2>1. CASE n = 0
      BY <1>10, <2>1
    <2>2. CASE n \in 1 .. N
      <3> HIDE DEF W, Body
      <3> QED BY <1>9, <2>2
    <2> QED BY <1>2, <2>1, <2>2
  <1>12. F = [n \in 0 .. N |-> Body(F, n)]
    <2>1. W = [n \in 0 .. N |-> Body(W, n)]
      BY <1>11
    <2> HIDE DEF W
    <2> QED BY <2>1
  <1> HIDE DEF F
  <1>13. \A n \in 0 .. N : F[n] = W[n]
    <2> DEFINE T == {n \in 0 .. N : F[n] = W[n]}
    <2>0. \A n \in 0 .. N : F[n] = Body(F, n)
      <3> HIDE DEF Body
      <3> QED BY <1>12
    <2>1. 0 \in T
      BY <1>2, <1>10, <2>0
    <2>2. ASSUME NEW n \in 0 .. N - 1, n \in T PROVE n + 1 \in T
      <3>1. n + 1 \in 1 .. N /\ (n + 1) - 1 = n /\ n + 1 \in 0 .. N
        BY <1>2
      <3> HIDE DEF Body, W
      <3>2. F[n + 1] = Body(F, n + 1)
        BY <2>0, <3>1
      <3>3. F[(n + 1) - 1] = W[(n + 1) - 1]
        BY <2>2, <3>1
      <3>4. Body(F, n + 1) = W[n + 1]
        BY <1>9, <3>1, <3>3
      <3> QED BY <3>1, <3>2, <3>4
    <2> HIDE DEF T
    <2>3. \A n \in 0 .. N : n \in T
      BY <1>2, <2>1, <2>2, Induct
    <2> QED BY <2>3 DEF T
  <1>14. N \in 0 .. N
    BY <1>2
  <1>15. F[N] = IF good(N) /\ S[N] < U64 THEN S[N] ELSE Error
    BY <1>13, <1>14
  <1> QED BY <1>3, <1>4, <1>7, <1>15

\* So validateEngineResult says what is meant.
LEMMA EngineResultsAreJudged ==
  ASSUME NEW mode, NEW asked, NEW samples \in Seq(Samples), NEW experiment \in Uint64
  PROVE  validateEngineResult(mode, asked, samples, experiment) <=>
           /\ Len(samples) = asked /\ InOrder(mode, samples)
           /\ TrueSum(Totals(samples)) <= experiment
  <1>1. experiment \in Nat /\ experiment < U64 /\ U64 \in Nat
    BY WidthAssumption DEF Uint64
  <1>2. TrueSum(Totals(samples)) \in Nat
    BY TotalsNumbered, SeqNumbered, SumsAre
  <1>3. /\ retainedTotal(mode, samples) # Error <=>
             InOrder(mode, samples) /\ TrueSum(Totals(samples)) < U64
        /\ retainedTotal(mode, samples) # Error =>
             retainedTotal(mode, samples) = TrueSum(Totals(samples))
    BY <1>2, retainedTotalIs DEF Error
  <1> QED BY <1>1, <1>2, <1>3 DEF validateEngineResult

\* One more number.
LEMMA SumAppend ==
  ASSUME NEW s, NEW t, Numbered(s), Numbered(t), Len(t) = Len(s) + 1,
         \A i \in 1 .. Len(s) : t[i] = s[i]
  PROVE  TrueSum(t) = TrueSum(s) + t[Len(s) + 1]
  <1> DEFINE N == Len(s)
             S == Sums(s)
             U == Sums(t)
             T == {n \in 0 .. N : U[n] = S[n]}
  <1>1. /\ N \in Nat /\ S[0] = 0 /\ \A n \in 1 .. N : S[n] = S[n - 1] + s[n]
        /\ TrueSum(s) = S[N]
    BY SumsAre DEF Numbered
  <1>2. /\ U[0] = 0 /\ \A n \in 1 .. N + 1 : U[n] = U[n - 1] + t[n]
        /\ TrueSum(t) = U[N + 1]
    BY SumsAre
  <1> HIDE DEF N, S, U
  <1>3. 0 \in T
    BY <1>1, <1>2
  <1>4. ASSUME NEW n \in 0 .. N - 1, n \in T PROVE n + 1 \in T
    <2>1. n + 1 \in 1 .. N /\ (n + 1) - 1 = n /\ n + 1 \in 0 .. N /\ n + 1 \in 1 .. N + 1
      BY <1>1
    <2>2. S[n + 1] = S[n] + s[n + 1]
      BY <1>1, <2>1
    <2>3. U[n + 1] = U[n] + t[n + 1]
      BY <1>2, <2>1
    <2>4. t[n + 1] = s[n + 1]
      BY <2>1 DEF N
    <2> QED BY <1>4, <2>1, <2>2, <2>3, <2>4
  <1> HIDE DEF T
  <1>5. N \in T
    <2>1. N \in 0 .. N
      BY <1>1
    <2> QED BY <1>1, <1>3, <1>4, <2>1, Induct
  <1>6. N + 1 \in 1 .. N + 1 /\ (N + 1) - 1 = N
    BY <1>1
  <1>7. U[N + 1] = U[N] + t[N + 1]
    BY <1>2, <1>6
  <1> QED BY <1>1, <1>2, <1>5, <1>7 DEF N, T

\* Samples that are in order and took no longer than a time.
Taken(mode, samples, time) ==
    /\ samples \in Seq(Samples) /\ InOrder(mode, samples)
    /\ TrueSum(Totals(samples)) <= time

\* The engine at work: what it has measured fits into the time that has passed
\* since it began, and all of that into the time since it was started.
MeasureInv ==
    input.kind = "measure" =>
        /\ input \in [kind : {"measure"}, mode : Modes, asked : Nat, warmups : Nat, now : Nat]
        /\ input.now <= MaxClock
        /\ report.verdict \in {"launched", "running", "mismatch", "answered", "accepted"}
        /\ report.verdict \in {"launched", "running"} =>
             /\ report = [verdict |-> report.verdict, started |-> report.started,
                          samples |-> report.samples]
             /\ report.started \in Nat /\ report.started <= input.now
             /\ Taken(input.mode, report.samples, input.now - report.started)
        /\ report.verdict = "launched" => report.samples = <<>>
        /\ report.verdict = "answered" =>
             /\ report.experiment \in Nat /\ report.experiment <= input.now
             /\ Len(report.samples) = input.asked
             /\ Taken(input.mode, report.samples, report.experiment)
        /\ report.verdict = "accepted" => Conserved(input.mode, input.asked, report)

\* An answer from anywhere is made of 64-bit numbers.
AnswerInv ==
    input.kind = "answer" =>
        /\ input.samples \in Seq(Samples) /\ input.form \in BOOLEAN
        /\ input.experiment \in Uint64 /\ input.orchestration \in Uint64
        /\ report # Unanswered =>
             (report.verdict = "accepted" <=>
                input.form /\ Conserved(input.mode, input.asked, report))

TimesInv == MeasureInv /\ AnswerInv

\* Conserved, in the words of the loops.
LEMMA ConservedIs ==
  ASSUME NEW mode, NEW asked, NEW r
  PROVE  Conserved(mode, asked, r) <=>
           /\ Len(r.samples) = asked /\ InOrder(mode, r.samples)
           /\ TrueSum(Totals(r.samples)) <= r.experiment /\ r.experiment <= r.orchestration
  BY DEF Conserved, InOrder, Totals

\* Nothing has been measured yet.
LEMMA NothingTaken ==
  ASSUME NEW mode PROVE Taken(mode, <<>>, 0)
  <1>1. <<>> \in Seq(Samples) /\ Len(<<>>) = 0
    BY EmptySeq
  <1>2. Numbered(Totals(<<>>)) /\ Len(Totals(<<>>)) = 0
    BY <1>1, TotalsNumbered, SeqNumbered
  <1>3. TrueSum(Totals(<<>>)) = 0
    BY <1>2, SumsAre
  <1>4. InOrder(mode, <<>>)
    BY DEF InOrder
  <1> QED BY <1>1, <1>3, <1>4 DEF Taken

\* A longer time will do, too.
LEMMA TakenLater ==
  ASSUME NEW mode, NEW samples, NEW a \in Int, NEW b \in Int, a <= b, Taken(mode, samples, a)
  PROVE  Taken(mode, samples, b)
  <1>1. TrueSum(Totals(samples)) \in Nat
    BY TotalsNumbered, SeqNumbered, SumsAre DEF Taken
  <1> QED BY <1>1 DEF Taken

\* One more iteration.
LEMMA TakenAnother ==
  ASSUME NEW mode, NEW samples, NEW a \in Int, Taken(mode, samples, a),
         NEW parts \in Seq(Nat), NEW between \in Nat, TrueSum(parts) + between < U64
  PROVE  /\ TrueSum(parts) \in Nat
         /\ Taken(mode,
                  Append(samples, Sample(Len(samples), parts, TrueSum(parts),
                                         TrueSum(parts) + between)),
                  a + (TrueSum(parts) + between))
  <1> DEFINE total == TrueSum(parts) + between
             x == Sample(Len(samples), parts, TrueSum(parts), total)
             more == Append(samples, x)
             N == Len(samples)
  <1>0. samples \in Seq(Samples) /\ U64 \in Nat /\ N \in Nat /\ DOMAIN samples = 1 .. N
    BY WidthAssumption, LenProperties DEF Taken
  <1>1. TrueSum(parts) \in Nat
    BY SeqNumbered, SumsAre
  <1>2. x \in Samples
    <2>1. total \in Uint64
      BY <1>0, <1>1 DEF Uint64
    <2> HIDE DEF total
    <2> QED BY <1>0, <1>1, <2>1 DEF Sample, Samples
  <1>3. x.ordinal = N /\ x.parts = parts /\ x.sum = TrueSum(parts) /\ x.total = total
    BY DEF Sample
  <1> HIDE DEF x
  <1>4. /\ more \in Seq(Samples) /\ Len(more) = N + 1 /\ more[N + 1] = x
        /\ \A i \in 1 .. N : more[i] = samples[i]
    BY <1>0, <1>2, AppendProperties
  <1> HIDE DEF more
  <1>5. DOMAIN more = 1 .. N + 1
    BY <1>4, LenProperties
  <1>6. InOrder(mode, more)
    <2> SUFFICES ASSUME NEW i \in 1 .. N + 1
                 PROVE  /\ more[i].ordinal = i - 1
                        /\ TrueSum(more[i].parts) <= more[i].total
                        /\ mode = "profile" => more[i].sum = TrueSum(more[i].parts)
      BY <1>5 DEF InOrder
    <2>1. CASE i \in 1 .. N
      BY <1>0, <1>4, <2>1 DEF Taken, InOrder
    <2>2. CASE i = N + 1
      <3>1. more[i] = x /\ i - 1 = N
        BY <1>0, <1>4, <2>2
      <3>2. TrueSum(parts) <= total
        BY <1>1
      <3> QED BY <1>3, <3>1, <3>2
    <2> QED BY <1>0, <2>1, <2>2
  <1>7. /\ Numbered(Totals(samples)) /\ Len(Totals(samples)) = N
        /\ \A i \in 1 .. N : Totals(samples)[i] = samples[i].total
    BY <1>0, TotalsNumbered, SeqNumbered
  <1>8. /\ Numbered(Totals(more)) /\ Len(Totals(more)) = N + 1
        /\ \A i \in 1 .. N + 1 : Totals(more)[i] = more[i].total
    BY <1>4, TotalsNumbered, SeqNumbered
  <1>9. \A i \in 1 .. N : Totals(more)[i] = Totals(samples)[i]
    <2>1. \A i \in 1 .. N : i \in 1 .. N + 1
      BY <1>0
    <2> QED BY <1>4, <1>7, <1>8, <2>1
  <1>10. Totals(more)[N + 1] = total
    <2>1. N + 1 \in 1 .. N + 1
      BY <1>0
    <2> QED BY <1>3, <1>4, <1>8, <2>1
  <1>11. TrueSum(Totals(more)) = TrueSum(Totals(samples)) + total
    <2> HIDE DEF N, total
    <2> QED BY <1>7, <1>8, <1>9, <1>10, SumAppend
  <1>12. TrueSum(Totals(samples)) \in Nat /\ TrueSum(Totals(samples)) <= a
    BY <1>7, SumsAre DEF Taken
  <1>13. TrueSum(Totals(more)) <= a + total
    BY <1>1, <1>11, <1>12
  <1>14. Taken(mode, more, a + total)
    BY <1>4, <1>6, <1>13 DEF Taken
  <1> QED BY <1>1, <1>14 DEF more, x

\* The inputs at the start.
LEMMA TimesStart ==
  ASSUME Init PROVE TimesInv
  <1>1. CASE input.kind \notin {"measure", "answer"}
    BY <1>1 DEF TimesInv, MeasureInv, AnswerInv
  <1>2. CASE MeasurementInit
    <2>1. CASE /\ \E mode \in Modes, asked \in 1 .. MaxRetained, warmups \in 0 .. 1 :
                    input = [kind |-> "measure", mode |-> mode, asked |-> asked,
                             warmups |-> warmups, now |-> 0]
               /\ report = [verdict |-> "launched", started |-> 0, samples |-> <<>>]
      <3>1. /\ input \in [kind : {"measure"}, mode : Modes, asked : Nat, warmups : Nat,
                          now : Nat]
            /\ input.now = 0 /\ input.kind = "measure"
        BY <2>1
      <3>2. Taken(input.mode, <<>>, 0)
        BY NothingTaken
      <3>3. 0 <= MaxClock
        BY MeasurementAssumption, WidthAssumption
      <3>4. /\ report.verdict = "launched" /\ report.started = 0 /\ report.samples = <<>>
        BY <2>1
      <3>5. report = [verdict |-> report.verdict, started |-> report.started,
                      samples |-> report.samples]
        BY <2>1, <3>4
      <3>6. Taken(input.mode, report.samples, input.now - report.started)
        BY <3>1, <3>2, <3>4
      <3>7. MeasureInv
        BY <3>1, <3>3, <3>4, <3>5, <3>6 DEF MeasureInv
      <3> QED BY <3>1, <3>7 DEF TimesInv, AnswerInv
    <2>2. CASE /\ \E mode \in Modes, form \in BOOLEAN, n \in 0 .. 2, ordinals \in BOOLEAN,
                     experiment, orchestration \in Times :
                    \E first, second, total \in [1 .. n -> Times], sums \in {0, U64 - 1} :
                      input = [kind |-> "answer", mode |-> mode, asked |-> MaxRetained,
                               form |-> form, experiment |-> experiment,
                               orchestration |-> orchestration,
                               samples |-> [i \in 1 .. n |->
                                 Sample(IF ordinals THEN i - 1 ELSE 0, <<first[i], second[i]>>,
                                        IF sums = 0 THEN (first[i] + second[i]) % U64
                                                    ELSE sums,
                                        total[i])]]
               /\ report = Unanswered
      <3>1. PICK mode \in Modes, form \in BOOLEAN, n \in 0 .. 2, ordinals \in BOOLEAN,
                 experiment \in Times, orchestration \in Times :
                    \E first, second, total \in [1 .. n -> Times], sums \in {0, U64 - 1} :
                      input = [kind |-> "answer", mode |-> mode, asked |-> MaxRetained,
                               form |-> form, experiment |-> experiment,
                               orchestration |-> orchestration,
                               samples |-> [i \in 1 .. n |->
                                 Sample(IF ordinals THEN i - 1 ELSE 0, <<first[i], second[i]>>,
                                        IF sums = 0 THEN (first[i] + second[i]) % U64
                                                    ELSE sums,
                                        total[i])]]
        BY <2>2, Zenon
      <3>2. PICK first \in [1 .. n -> Times], second \in [1 .. n -> Times],
                 total \in [1 .. n -> Times], sums \in {0, U64 - 1} :
                      input = [kind |-> "answer", mode |-> mode, asked |-> MaxRetained,
                               form |-> form, experiment |-> experiment,
                               orchestration |-> orchestration,
                               samples |-> [i \in 1 .. n |->
                                 Sample(IF ordinals THEN i - 1 ELSE 0, <<first[i], second[i]>>,
                                        IF sums = 0 THEN (first[i] + second[i]) % U64
                                                    ELSE sums,
                                        total[i])]]
        BY <3>1, Zenon
      <3> DEFINE ord(i) == IF ordinals THEN i - 1 ELSE 0
                 sum(i) == IF sums = 0 THEN (first[i] + second[i]) % U64 ELSE sums
                 s(i) == Sample(ord(i), <<first[i], second[i]>>, sum(i), total[i])
                 samples == [i \in 1 .. n |-> s(i)]
      <3>3. /\ input.kind = "answer" /\ input.form = form /\ input.experiment = experiment
            /\ input.orchestration = orchestration /\ input.samples = samples
        BY <3>2
      <3>4. U64 \in Nat /\ U64 > 0 /\ \A v \in Times : v \in Uint64 /\ v \in Nat
        BY WidthAssumption, MeasurementAssumption DEF Uint64
      <3>5. ASSUME NEW i \in 1 .. n PROVE s(i) \in Samples
        <4>1. first[i] \in Nat /\ second[i] \in Nat /\ total[i] \in Uint64
          BY <3>4
        <4>2. ord(i) \in Nat
          OBVIOUS
        <4>3. sum(i) \in Nat
          BY <3>4, <4>1, SMTT(30)
        <4>4. <<first[i], second[i]>> \in Seq(Nat)
          BY <4>1
        <4> HIDE DEF ord, sum
        <4> QED BY <4>1, <4>2, <4>3, <4>4 DEF Sample, Samples
      <3> HIDE DEF s
      <3>6. samples \in [1 .. n -> Samples]
        BY <3>5
      <3> HIDE DEF samples
      <3>7. samples \in Seq(Samples)
        BY <3>6, SeqDef
      <3>8. AnswerInv
        BY <2>2, <3>3, <3>4, <3>7 DEF AnswerInv
      <3> QED BY <3>3, <3>8 DEF TimesInv, MeasureInv
    <2> QED BY <1>2, <2>1, <2>2, Zenon DEF MeasurementInit
  <1> QED BY <1>1, <1>2, InitKinds DEF Init

\* Every step preserves it.
LEMMA TimesStep ==
  ASSUME KindInv, TimesInv, [Next]_calcVars PROVE TimesInv'
  <1>1. CASE input.kind \notin {"measure", "answer"}
    <2>1. input'.kind \notin {"measure", "answer"}
      BY <1>1, KindsApart
    <2> QED BY <2>1 DEF TimesInv, MeasureInv, AnswerInv
  <1>2. CASE UNCHANGED calcVars
    BY <1>2, ConservedIs DEF calcVars, TimesInv, MeasureInv, AnswerInv
  <1>3. CASE JudgeAnswer
    <2>1. /\ input.kind = "answer" /\ UNCHANGED input
          /\ input.samples \in Seq(Samples) /\ input.form \in BOOLEAN
          /\ input.experiment \in Uint64 /\ input.orchestration \in Uint64
      BY <1>3 DEF JudgeAnswer, Asked, Answer, TimesInv, AnswerInv
    <2>2. report' = Judged(
             /\ input.form
             /\ validateEngineResult(input.mode, input.asked, input.samples, input.experiment)
             /\ input.orchestration >= input.experiment,
             input.samples, input.experiment, input.orchestration)
      BY <1>3 DEF JudgeAnswer, Answer
    <2>3. /\ report'.samples = input.samples /\ report'.experiment = input.experiment
          /\ report'.orchestration = input.orchestration
          /\ report'.verdict = "accepted" <=>
               /\ input.form
               /\ validateEngineResult(input.mode, input.asked, input.samples,
                                       input.experiment)
               /\ input.orchestration >= input.experiment
      BY <2>2 DEF Judged
    <2>4. validateEngineResult(input.mode, input.asked, input.samples, input.experiment) <=>
            /\ Len(input.samples) = input.asked /\ InOrder(input.mode, input.samples)
            /\ TrueSum(Totals(input.samples)) <= input.experiment
      BY <2>1, EngineResultsAreJudged
    <2>5. Conserved(input.mode, input.asked, report') <=>
            /\ Len(input.samples) = input.asked /\ InOrder(input.mode, input.samples)
            /\ TrueSum(Totals(input.samples)) <= input.experiment
            /\ input.experiment <= input.orchestration
      BY <2>3, ConservedIs
    <2>6. input.orchestration >= input.experiment <=> input.experiment <= input.orchestration
      BY <2>1, WidthAssumption DEF Uint64
    <2>7. report'.verdict = "accepted" <=>
            input.form /\ Conserved(input.mode, input.asked, report')
      BY <2>3, <2>4, <2>5, <2>6
    <2>8. AnswerInv'
      BY <2>1, <2>7 DEF AnswerInv
    <2> QED BY <2>1, <2>8 DEF TimesInv, MeasureInv
  <1>4. ASSUME input.kind = "measure", MeasurementNext PROVE TimesInv'
    <2>0. /\ input \in [kind : {"measure"}, mode : Modes, asked : Nat, warmups : Nat, now : Nat]
          /\ input.now \in Nat /\ input.now <= MaxClock /\ MaxClock \in Nat /\ U64 \in Nat
          /\ MaxClock < U64
      BY <1>4, MeasurementAssumption, WidthAssumption DEF TimesInv, MeasureInv
    <2>1. ASSUME NEW d \in 0 .. 1, EngineBegins(d) PROVE TimesInv'
      <3>1. /\ input' = [input EXCEPT !.now = input.now + d] /\ input.now + d <= MaxClock
            /\ report' = [report EXCEPT !.verdict = "running", !.started = input.now + d]
            /\ report.verdict = "launched"
        BY <2>1 DEF EngineBegins, Passes, Measuring
      <3>2. /\ report = [verdict |-> "launched", started |-> report.started,
                         samples |-> report.samples]
            /\ report.samples = <<>>
        BY <1>4, <3>1 DEF TimesInv, MeasureInv
      <3>3. report' = [verdict |-> "running", started |-> input.now + d, samples |-> <<>>]
        BY <3>1, <3>2
      <3>4. /\ input' \in [kind : {"measure"}, mode : Modes, asked : Nat, warmups : Nat,
                           now : Nat]
            /\ input'.now = input.now + d /\ input'.kind = "measure"
        BY <2>0, <3>1
      <3>5. Taken(input'.mode, <<>>, 0)
        BY NothingTaken
      <3>6. /\ report'.verdict = "running" /\ report'.started = input'.now
            /\ report'.samples = <<>> /\ input'.now - report'.started = 0
        BY <3>3, <3>4
      <3>7. Taken(input'.mode, report'.samples, input'.now - report'.started)
        BY <3>5, <3>6
      <3>8. report' = [verdict |-> report'.verdict, started |-> report'.started,
                       samples |-> report'.samples]
        BY <3>3, <3>4, <3>6
      <3>9. report'.started \in Nat /\ report'.started <= input'.now /\ input'.now <= MaxClock
        BY <3>1, <3>4, <3>6
      <3>10. MeasureInv'
        BY <3>4, <3>6, <3>7, <3>8, <3>9 DEF MeasureInv
      <3> QED BY <3>4, <3>10 DEF TimesInv, AnswerInv
    <2>2. ASSUME NEW parts \in [1 .. Parts(input.mode) -> 0 .. 1], NEW d \in 0 .. 1,
                 RunIteration(parts, d)
          PROVE  TimesInv'
      <3> DEFINE total == TrueSum(parts) + d
                 another == Sample(Len(report.samples), parts, TrueSum(parts), total)
      <3>1. /\ report.verdict = "running" /\ input.now + total <= MaxClock
            /\ \/ report' = [report EXCEPT !.verdict = "mismatch"] /\ UNCHANGED input
               \/ /\ input' = [input EXCEPT !.now = @ + total,
                                            !.warmups = IF @ > 0 THEN @ - 1 ELSE 0]
                  /\ report' = IF input.warmups > 0 THEN report
                               ELSE [report EXCEPT !.samples = Append(@, another)]
        BY <2>2 DEF RunIteration, Measuring
      <3>2. /\ report = [verdict |-> "running", started |-> report.started,
                         samples |-> report.samples]
            /\ report.started \in Nat /\ report.started <= input.now
            /\ Taken(input.mode, report.samples, input.now - report.started)
        BY <1>4, <3>1 DEF TimesInv, MeasureInv
      <3>3. parts \in Seq(Nat)
        <4>1. Parts(input.mode) \in Nat
          BY DEF Parts
        <4>2. parts \in [1 .. Parts(input.mode) -> Nat]
          OBVIOUS
        <4> QED BY <4>1, <4>2, SeqDef
      <3>4. TrueSum(parts) \in Nat /\ total \in Nat
        BY <3>3, SeqNumbered, SumsAre
      <3>5. total < U64 /\ input.now - report.started \in Int /\ d \in Nat
        <4> HIDE DEF total
        <4> QED BY <2>0, <3>1, <3>2, <3>4
      <3>6. Taken(input.mode, Append(report.samples, another),
                  (input.now - report.started) + total)
        BY <3>2, <3>3, <3>5, TakenAnother
      <3> HIDE DEF total, another
      <3>7. CASE report' = [report EXCEPT !.verdict = "mismatch"] /\ UNCHANGED input
        <4>1. report'.verdict = "mismatch"
          BY <3>2, <3>7
        <4> QED BY <2>0, <3>7, <4>1 DEF TimesInv, MeasureInv, AnswerInv
      <3>8. CASE /\ input' = [input EXCEPT !.now = @ + total,
                                           !.warmups = IF @ > 0 THEN @ - 1 ELSE 0]
                 /\ report' = IF input.warmups > 0 THEN report
                              ELSE [report EXCEPT !.samples = Append(@, another)]
        <4>1. /\ input' \in [kind : {"measure"}, mode : Modes, asked : Nat, warmups : Nat,
                             now : Nat]
              /\ input'.now = input.now + total /\ input'.kind = "measure"
              /\ input'.mode = input.mode /\ input'.now <= MaxClock
          <5> DEFINE left == IF input.warmups > 0 THEN input.warmups - 1 ELSE 0
                     later == input.now + total
          <5>1. left \in Nat /\ later \in Nat /\ later <= MaxClock
            BY <2>0, <3>1, <3>4
          <5>2. input' = [input EXCEPT !.now = later, !.warmups = left]
            BY <3>8
          <5> HIDE DEF left, later
          <5>3. /\ input' \in [kind : {"measure"}, mode : Modes, asked : Nat,
                               warmups : Nat, now : Nat]
                /\ input'.now = later /\ input'.kind = "measure" /\ input'.mode = input.mode
            BY <2>0, <5>1, <5>2
          <5> QED BY <5>1, <5>3 DEF later
        <4>2. /\ report.started <= input'.now
              /\ input'.now - report.started = (input.now - report.started) + total
              /\ input.now - report.started <= input'.now - report.started
              /\ input'.now - report.started \in Int
          BY <2>0, <3>2, <3>4, <4>1, SMTT(30)
        <4>3. CASE input.warmups > 0
          <5>1. report' = report
            BY <3>8, <4>3
          <5>2. Taken(input.mode, report.samples, input'.now - report.started)
            BY <3>2, <3>5, <4>2, TakenLater
          <5> QED BY <3>1, <3>2, <4>1, <4>2, <5>1, <5>2 DEF TimesInv, MeasureInv, AnswerInv
        <4>4. CASE ~(input.warmups > 0)
          <5>1. report' = [verdict |-> "running", started |-> report.started,
                           samples |-> Append(report.samples, another)]
            <6> DEFINE more == Append(report.samples, another)
            <6>1. report' = [report EXCEPT !.samples = more]
              BY <3>8, <4>4
            <6> HIDE DEF more
            <6>2. report' = [verdict |-> "running", started |-> report.started,
                             samples |-> more]
              BY <3>2, <6>1
            <6> QED BY <6>2 DEF more
          <5>2. /\ report'.verdict = "running" /\ report'.started = report.started
                /\ report'.samples = Append(report.samples, another)
            BY <5>1
          <5>3. Taken(input'.mode, report'.samples, input'.now - report'.started)
            BY <3>6, <4>1, <4>2, <5>2
          <5> QED BY <3>2, <4>1, <4>2, <5>1, <5>2, <5>3 DEF TimesInv, MeasureInv, AnswerInv
        <4> QED BY <4>3, <4>4
      <3> QED BY <3>1, <3>7, <3>8
    <2>3. ASSUME NEW d \in 0 .. 1, EngineEnds(d) PROVE TimesInv'
      <3>1. /\ input' = [input EXCEPT !.now = input.now + d] /\ input.now + d <= MaxClock
            /\ report' = [verdict |-> "answered", samples |-> report.samples,
                          experiment |-> input.now + d - report.started]
            /\ report.verdict = "running" /\ Len(report.samples) = input.asked
        BY <2>3 DEF EngineEnds, Passes, Measuring
      <3>2. /\ report.started \in Nat /\ report.started <= input.now
            /\ Taken(input.mode, report.samples, input.now - report.started)
        BY <1>4, <3>1 DEF TimesInv, MeasureInv
      <3>3. /\ input' \in [kind : {"measure"}, mode : Modes, asked : Nat, warmups : Nat,
                           now : Nat]
            /\ input'.now = input.now + d /\ input'.kind = "measure"
            /\ input'.mode = input.mode /\ input'.asked = input.asked
        BY <2>0, <3>1
      <3>4. /\ report'.verdict = "answered" /\ report'.samples = report.samples
            /\ report'.experiment = input.now + d - report.started
        BY <3>1
      <3>5. /\ report'.experiment \in Nat /\ report'.experiment <= input'.now
            /\ input.now - report.started <= report'.experiment
            /\ input.now - report.started \in Int
        BY <2>0, <3>2, <3>3, <3>4
      <3>6. Taken(input.mode, report.samples, report'.experiment)
        BY <3>2, <3>5, TakenLater
      <3> QED BY <3>1, <3>3, <3>4, <3>5, <3>6 DEF TimesInv, MeasureInv, AnswerInv
    <2>4. ASSUME NEW d \in 0 .. 1, RunEngine(d) PROVE TimesInv'
      <3>1. /\ input' = [input EXCEPT !.now = input.now + d] /\ input.now + d <= MaxClock
            /\ report.verdict = "answered"
            /\ report' = Judged(
                 /\ validateEngineResult(input.mode, input.asked, report.samples,
                                         report.experiment)
                 /\ input.now + d >= report.experiment,
                 report.samples, report.experiment, input.now + d)
        BY <2>4 DEF RunEngine, Passes, Measuring
      <3>2. /\ report.experiment \in Nat /\ report.experiment <= input.now
            /\ Len(report.samples) = input.asked
            /\ Taken(input.mode, report.samples, report.experiment)
        BY <1>4, <3>1 DEF TimesInv, MeasureInv
      <3>3. report.experiment \in Uint64
        BY <2>0, <3>2 DEF Uint64
      <3>4. validateEngineResult(input.mode, input.asked, report.samples, report.experiment)
        BY <3>2, <3>3, EngineResultsAreJudged DEF Taken
      <3>5. input.now + d >= report.experiment /\ report.experiment <= input.now + d
        BY <2>0, <3>2
      <3>6. /\ report'.verdict = "accepted" /\ report'.samples = report.samples
            /\ report'.experiment = report.experiment
            /\ report'.orchestration = input.now + d
        BY <3>1, <3>4, <3>5 DEF Judged
      <3>7. Conserved(input.mode, input.asked, report')
        BY <3>2, <3>5, <3>6, ConservedIs DEF Taken
      <3>8. /\ input' \in [kind : {"measure"}, mode : Modes, asked : Nat, warmups : Nat,
                           now : Nat]
            /\ input'.now = input.now + d /\ input'.kind = "measure"
            /\ input'.mode = input.mode /\ input'.asked = input.asked
        BY <2>0, <3>1
      <3> QED BY <3>1, <3>6, <3>7, <3>8 DEF TimesInv, MeasureInv, AnswerInv
    <2>5. ~JudgeAnswer
      BY <1>4 DEF JudgeAnswer, Asked
    <2> QED BY <1>4, <2>1, <2>2, <2>3, <2>4, <2>5 DEF MeasurementNext
  <1>5. ASSUME input.kind = "answer", MeasurementNext PROVE JudgeAnswer
    BY <1>5 DEF MeasurementNext, EngineBegins, EngineEnds, RunEngine, Measuring
  <1> QED BY <1>1, <1>2, <1>3, <1>4, <1>5, KindsApart DEF Next

\* Whatever the width, the clock and the number of samples are: labctl accepts
\* an answer exactly if its times fit into each other, and never refuses what
\* an engine has measured (run_iteration, validateEngineResult, RunEngine).
THEOREM MeasurementsConserveTime == Spec => []TimesAreConserved
  <1>1. TimesInv => TimesAreConserved
    BY DEF TimesInv, MeasureInv, AnswerInv, TimesAreConserved
  <1> QED BY <1>1, TimesStart, TimesStep, KindInvariant, PTL DEF Spec

-----------------------------------------------------------------------------
(* The command lines of labctl (CommandLine).  What the parsers have read  *)
(* is a good line so far and their options are what it says; what they     *)
(* refuse is no good line, however it goes on.                             *)

\* t is s with one more word, or two.
OneMore(s, t, v) ==
    Len(t) = Len(s) + 1 /\ t[Len(s) + 1] = v /\ \A i \in 1 .. Len(s) : t[i] = s[i]
TwoMore(s, t, v, w) ==
    /\ Len(t) = Len(s) + 2 /\ t[Len(s) + 1] = v /\ t[Len(s) + 2] = w
    /\ \A i \in 1 .. Len(s) : t[i] = s[i]

\* Words at the end of a line.
LEMMA Appended ==
  ASSUME NEW W, NEW s \in Seq(W), NEW v \in W
  PROVE  /\ s \o <<v>> \in Seq(W) /\ OneMore(s, s \o <<v>>, v)
  BY DEF OneMore

\* Two words at its end.
LEMMA AppendedTwo ==
  ASSUME NEW W, NEW s \in Seq(W), NEW v \in W, NEW w \in W
  PROVE  /\ s \o <<v, w>> \in Seq(W) /\ TwoMore(s, s \o <<v, w>>, v, w)
  BY DEF TwoMore

\* The lines of benchmark and profile, and of verify.
Odd(a) == {i \in 1 .. Len(a) : i % 2 = 1}
EvenWords(a) == Len(a) % 2 = 0
FlagsOnce(a) == \A i, j \in Odd(a) : a[i] = a[j] => i = j
FlagsKnown(a) == \A i \in Odd(a) : a[i] \in SuiteFlags
FlagGiven(a, f) == \E i \in Odd(a) : a[i] = f
ValuesFilled(a) == \A i \in 1 .. Len(a) : i \notin Odd(a) => a[i] # ""
GoodSuite(a) ==
    /\ EvenWords(a) /\ FlagsOnce(a) /\ FlagsKnown(a) /\ ValuesFilled(a)
    /\ \A f \in {"--engine", "--suite", "--output"} : FlagGiven(a, f)
SuiteOptions(a, o) ==
    \A f \in DOMAIN o : \E i \in Odd(a) : a[i] = f /\ a[i + 1] = o[f]

\* What the parser knows of the pairs it has read.
SuiteRead(a, o) ==
    /\ EvenWords(a) /\ FlagsOnce(a) /\ FlagsKnown(a) /\ ValuesFilled(a)
    /\ SuiteOptions(a, o) /\ \A i \in Odd(a) : a[i] \in DOMAIN o

\* The positions of paths, and what verify asks of a line.
Place(a, i) == a[i] \notin Flags /\ (i > 1 => a[i - 1] \notin ValueFlags)
OnlyPath(a, i) ==
    /\ Place(a, i) /\ a[i] = "a"
    /\ \A j \in 1 .. Len(a) : Place(a, j) /\ j # i => j < i /\ a[j] = ""
NoFlagTwice(a) == \A i, j \in 1 .. Len(a) : a[i] = a[j] /\ a[i] \in Flags => i = j
NoOtherFlag(a) == \A i \in 1 .. Len(a) : a[i] \notin {"--suite", "--output", "--other"}
NoBareFlag(a) ==
    \A i \in 1 .. Len(a) :
        a[i] \in ValueFlags => i < Len(a) /\ a[i + 1] \notin Flags \cup {""}
NoPath(a) == \A i \in 1 .. Len(a) : Place(a, i) => a[i] = ""
HasPath(a) == \E i \in 1 .. Len(a) : OnlyPath(a, i)
GoodVerify(a) == NoFlagTwice(a) /\ NoOtherFlag(a) /\ NoBareFlag(a) /\ HasPath(a)
ValueOptions(a, o) ==
    \A f \in DOMAIN o : f \in ValueFlags =>
        \E i \in 1 .. Len(a) : a[i] = f /\ a[i + 1] = o[f]
PathOption(a, o) == \E i \in 1 .. Len(a) : Place(a, i) /\ a[i] = o["path"]

\* What the parser of verify knows of the arguments it has read.
Seen(a, o) ==
    \A f \in ValueFlags \cup {"--json"} :
        f \in DOMAIN o <=> \E i \in 1 .. Len(a) : a[i] = f
PathSeen(a, o) ==
    /\ "path" \notin DOMAIN o => NoPath(a)
    /\ "path" \in DOMAIN o => o["path"] = "a" /\ HasPath(a)
VerifyRead(a, o) ==
    /\ NoFlagTwice(a) /\ NoOtherFlag(a) /\ NoBareFlag(a)
    /\ Seen(a, o) /\ ValueOptions(a, o) /\ PathSeen(a, o)

\* The state of a command.
CommandTyped ==
    /\ input = [kind |-> "command", command |-> input.command, args |-> input.args]
    /\ input.command \in Plain \cup Suite \cup {"verify"} /\ input.args \in Seq(Words)
    /\ report = [verdict |-> report.verdict, options |-> report.options,
                 worked |-> report.worked, ok |-> report.ok, wrote |-> report.wrote,
                 code |-> report.code]
    /\ report.verdict \in {"arguments", "work", "output", "exit"}
    /\ report.worked \in BOOLEAN /\ report.ok \in BOOLEAN /\ report.wrote \in BOOLEAN
    /\ report.code \in 0 .. 2
\* The work has begun.
Started == report.verdict \in {"work", "output"} \/ report.worked
\* What the exit code says of the work.
CommandStands ==
    /\ report.verdict \in {"arguments", "work"} => ~report.worked
    /\ report.verdict = "output" => report.worked
    /\ report.verdict = "exit" =>
         /\ report.code = 0 <=> report.worked /\ report.ok /\ report.wrote
         /\ report.code = 2 => ~report.worked
\* benchmark and profile: what is read, what was accepted, what was refused.
SuiteStands ==
    /\ report.verdict = "arguments" => SuiteRead(input.args, report.options)
    /\ Started => GoodSuite(input.args) /\ SuiteOptions(input.args, report.options)
    /\ report.verdict = "exit" /\ ~report.worked => ~GoodSuite(input.args)
\* The same of verify.
VerifyStands ==
    /\ report.verdict = "arguments" => VerifyRead(input.args, report.options)
    /\ Started => GoodVerify(input.args) /\ ValueOptions(input.args, report.options)
                           /\ PathOption(input.args, report.options)
    /\ report.verdict = "exit" /\ ~report.worked => ~GoodVerify(input.args)
\* The inductive invariant of a command.
CommandInv ==
    input.kind = "command" =>
        /\ CommandTyped /\ CommandStands
        /\ input.command \in Suite => SuiteStands
        /\ input.command = "verify" => VerifyStands

\* An option more.
OptionMore(o, p, f, w) ==
    DOMAIN p = DOMAIN o \cup {f} /\ p[f] = w /\ \A g \in DOMAIN o : g # f => p[g] = o[g]

\* Option adds one.
LEMMA OptionMoreIs ==
  ASSUME NEW o, NEW f, NEW w
  PROVE  OptionMore(o, [g \in DOMAIN o \cup {f} |-> IF g = f THEN w ELSE o[g]], f, w)
  BY DEF OptionMore

\* The places behind an even number of words.
LEMMA OddTwoMore ==
  ASSUME NEW a \in Seq(Words), NEW b, NEW f, NEW w, TwoMore(a, b, f, w), EvenWords(a)
  PROVE  /\ EvenWords(b) /\ Len(a) + 1 \in Odd(b) /\ Len(a) + 2 \notin Odd(b)
         /\ Len(a) + 2 \in 1 .. Len(b) /\ Len(a) + 1 \notin Odd(a)
         /\ \A i \in Odd(b) : i \in Odd(a) \/ i = Len(a) + 1
         /\ \A i \in Odd(a) : /\ i \in Odd(b) /\ i \in 1 .. Len(a)
                              /\ b[i] = a[i] /\ b[i + 1] = a[i + 1]
  <1> DEFINE n == Len(a)
  <1>1. n \in Nat /\ Len(b) = n + 2 /\ \A i \in 1 .. n : b[i] = a[i]
    BY DEF TwoMore
  <1> HIDE DEF n
  <1>2. n % 2 = 0
    BY DEF n, EvenWords
  <1>3. (n + 2) % 2 = 0 /\ (n + 1) % 2 = 1
    BY <1>1, <1>2
  <1>4. n + 1 \in 1 .. n + 2 /\ n + 2 \in 1 .. n + 2 /\ n + 1 \notin 1 .. n
        /\ \A i \in 1 .. n + 2 : i \in 1 .. n \/ i = n + 1 \/ i = n + 2
    BY <1>1
  <1>5. ASSUME NEW i \in 1 .. n, i % 2 = 1
        PROVE  i + 1 \in 1 .. n
    BY <1>1, <1>2, <1>5
  <1>6. \A i \in 1 .. n : i \in 1 .. n + 2
    BY <1>1
  <1> QED BY <1>1, <1>3, <1>4, <1>5, <1>6 DEF Odd, EvenWords, n

\* A flag and a value that the parser takes.
PairTaken(o, f, w) == f \notin DOMAIN o /\ f \in SuiteFlags /\ w # ""

\* The pair is read.
LEMMA SuiteGrows ==
  ASSUME NEW a \in Seq(Words), NEW o, NEW b, NEW f, NEW w, NEW p, OptionMore(o, p, f, w),
         SuiteRead(a, o), TwoMore(a, b, f, w), PairTaken(o, f, w)
  PROVE  SuiteRead(b, p)
  <1> DEFINE n == Len(a)
  <1>2. /\ EvenWords(b) /\ n + 1 \in Odd(b) /\ n + 2 \notin Odd(b)
        /\ \A i \in Odd(b) : i \in Odd(a) \/ i = n + 1
        /\ \A i \in Odd(a) : i \in Odd(b) /\ b[i] = a[i] /\ b[i + 1] = a[i + 1]
    BY OddTwoMore DEF SuiteRead
  <1>3. n \in Nat /\ Len(b) = n + 2 /\ b[n + 1] = f /\ b[n + 2] = w
        /\ (n + 1) + 1 = n + 2 /\ \A i \in 1 .. n : b[i] = a[i]
    BY DEF TwoMore
  <1> HIDE DEF n
  <1>4. FlagsKnown(b)
    <2>1. FlagsKnown(a) /\ f \in SuiteFlags
      BY DEF SuiteRead, PairTaken
    <2> QED BY <1>2, <1>3, <2>1 DEF FlagsKnown
  <1>5. FlagsOnce(b)
    <2>1. FlagsOnce(a) /\ \A i \in Odd(a) : a[i] # f
      BY DEF SuiteRead, PairTaken
    <2> QED BY <1>2, <1>3, <2>1 DEF FlagsOnce
  <1>6. ValuesFilled(b)
    <2> SUFFICES ASSUME NEW i \in 1 .. Len(b), i \notin Odd(b) PROVE b[i] # ""
      BY DEF ValuesFilled
    <2>1. i \in 1 .. n \/ i = n + 1 \/ i = n + 2
      BY <1>3
    <2>2. CASE i \in 1 .. n
      BY <1>2, <1>3, <2>2 DEF SuiteRead, ValuesFilled, n
    <2> QED BY <1>2, <1>3, <2>1, <2>2 DEF PairTaken
  <1>7. SuiteOptions(b, p)
    <2> SUFFICES ASSUME NEW g \in DOMAIN p
                 PROVE  \E i \in Odd(b) : b[i] = g /\ b[i + 1] = p[g]
      BY DEF SuiteOptions
    <2>1. CASE g = f
      BY <1>2, <1>3, <2>1 DEF OptionMore
    <2>2. CASE g # f
      <3>1. g \in DOMAIN o /\ p[g] = o[g]
        BY <2>2 DEF OptionMore
      <3>2. PICK i \in Odd(a) : a[i] = g /\ a[i + 1] = o[g]
        BY <3>1 DEF SuiteRead, SuiteOptions
      <3> QED BY <1>2, <3>1, <3>2
    <2> QED BY <2>1, <2>2
  <1>8. \A i \in Odd(b) : b[i] \in DOMAIN p
    <2>1. \A i \in Odd(a) : a[i] \in DOMAIN o
      BY DEF SuiteRead
    <2> QED BY <1>2, <1>3, <2>1 DEF OptionMore
  <1> QED BY <1>2, <1>4, <1>5, <1>6, <1>7, <1>8 DEF SuiteRead

\* A pair that is refused makes no good line: the flag is unknown or was given
\* before, or the value is empty.
LEMMA SuiteRefuses ==
  ASSUME NEW a \in Seq(Words), NEW o, NEW b, NEW f, NEW w,
         SuiteRead(a, o), TwoMore(a, b, f, w), ~PairTaken(o, f, w)
  PROVE  ~GoodSuite(b)
  <1> DEFINE n == Len(a)
  <1>1. /\ n + 1 \in Odd(b) /\ n + 2 \notin Odd(b) /\ n + 2 \in 1 .. Len(b) /\ n + 1 \notin Odd(a)
        /\ \A i \in Odd(a) : i \in Odd(b) /\ b[i] = a[i]
    BY OddTwoMore DEF SuiteRead
  <1>2. b[n + 1] = f /\ b[n + 2] = w
    BY DEF TwoMore
  <1> HIDE DEF n
  <1>3. f \in DOMAIN o => \E i \in Odd(a) : a[i] = f
    BY DEF SuiteRead, SuiteOptions
  <1>4. CASE f \in DOMAIN o
    BY <1>1, <1>2, <1>3, <1>4 DEF GoodSuite, FlagsOnce
  <1>5. CASE f \notin SuiteFlags
    BY <1>1, <1>2, <1>5 DEF GoodSuite, FlagsKnown
  <1>6. CASE w = ""
    BY <1>1, <1>2, <1>6 DEF GoodSuite, ValuesFilled
  <1> QED BY <1>4, <1>5, <1>6 DEF PairTaken

\* Neither does a flag without its value.
LEMMA SuiteOdd ==
  ASSUME NEW a \in Seq(Words), NEW o, NEW b, NEW w, SuiteRead(a, o), OneMore(a, b, w)
  PROVE  ~GoodSuite(b)
  <1> DEFINE n == Len(a)
  <1>1. n \in Nat /\ Len(b) = n + 1
    BY DEF OneMore
  <1>2. n % 2 = 0
    BY DEF SuiteRead, EvenWords
  <1> HIDE DEF n
  <1>3. (n + 1) % 2 = 1
    BY <1>1, <1>2
  <1>4. ~EvenWords(b)
    BY <1>1, <1>3 DEF EvenWords
  <1> QED BY <1>4 DEF GoodSuite

\* At the end the three flags decide.
LEMMA SuiteEnds ==
  ASSUME NEW a \in Seq(Words), NEW o, SuiteRead(a, o)
  PROVE  GoodSuite(a) <=> {"--engine", "--suite", "--output"} \subseteq DOMAIN o
  <1>1. ASSUME NEW f PROVE FlagGiven(a, f) <=> f \in DOMAIN o
    <2>1. SuiteOptions(a, o) /\ \A i \in Odd(a) : a[i] \in DOMAIN o
      BY DEF SuiteRead
    <2>2. ASSUME f \in DOMAIN o PROVE FlagGiven(a, f)
      BY <2>1, <2>2 DEF SuiteOptions, FlagGiven
    <2>3. ASSUME FlagGiven(a, f) PROVE f \in DOMAIN o
      BY <2>1, <2>3 DEF FlagGiven
    <2> QED BY <2>2, <2>3
  <1> QED BY <1>1 DEF SuiteRead, GoodSuite

\* The words of verify.
LEMMA VerifyWords ==
  /\ ValueFlags \cup {"--json", "--suite", "--output", "--other"} = Flags
  /\ "" \notin Flags /\ "a" \notin Flags /\ "-o" \notin Flags /\ "--json" \notin ValueFlags
  /\ "path" \notin ValueFlags /\ "path" # "--json"
  /\ \A w \in Words : w \in Flags \/ w \in {"", "-o", "a"}
  BY DEF Flags, SuiteFlags, ValueFlags, Words, Values

\* What was said of the beginning of the line stays so.
LEMMA PrefixKept ==
  ASSUME NEW a, NEW b, NEW n \in Nat, NEW m \in Nat, n <= m, Len(a) = n, Len(b) = m,
         \A i \in 1 .. n : b[i] = a[i]
  PROVE  /\ \A i \in 1 .. n : i \in 1 .. m /\ b[i] = a[i] /\ (Place(b, i) <=> Place(a, i))
         /\ NoBareFlag(a) => \A i \in 1 .. n : a[i] \in ValueFlags => i + 1 \in 1 .. n
         /\ NoBareFlag(a) /\ n > 0 => a[n] \notin ValueFlags
  <1>1. \A i \in 1 .. n : i \in 1 .. m /\ b[i] = a[i] /\ (i > 1 => i - 1 \in 1 .. n)
    OBVIOUS
  <1>2. ASSUME NEW i \in 1 .. n PROVE Place(b, i) <=> Place(a, i)
    BY <1>1 DEF Place
  <1>3. ASSUME NoBareFlag(a), NEW i \in 1 .. n, a[i] \in ValueFlags PROVE i + 1 \in 1 .. n
    <2>1. i < n
      BY <1>3 DEF NoBareFlag
    <2> QED BY <2>1
  <1>4. ASSUME NoBareFlag(a), n > 0 PROVE a[n] \notin ValueFlags
    <2>1. n \in 1 .. n /\ ~(n < n)
      BY <1>4
    <2> QED BY <1>4, <2>1 DEF NoBareFlag
  <1> QED BY <1>1, <1>2, <1>3, <1>4

\* One more word.
LEMMA WordMore ==
  ASSUME NEW a \in Seq(Words), NEW b, NEW w, OneMore(a, b, w), NoBareFlag(a)
  PROVE  /\ Len(a) + 1 \in 1 .. Len(b) /\ Len(a) + 1 \notin 1 .. Len(a) /\ b[Len(a) + 1] = w
         /\ \A i \in 1 .. Len(b) : i \in 1 .. Len(a) \/ i = Len(a) + 1
         /\ \A i \in 1 .. Len(a) : /\ i \in 1 .. Len(b) /\ b[i] = a[i] /\ i < Len(a) + 1
                                   /\ i < Len(b) /\ (Place(b, i) <=> Place(a, i))
         /\ \A i \in 1 .. Len(a) : a[i] \in ValueFlags => i < Len(b) /\ b[i + 1] = a[i + 1]
         /\ w \notin Flags => Place(b, Len(a) + 1)
         /\ ~(Len(a) + 1 < Len(b))
         /\ \A i \in 1 .. Len(b) : ~(Len(a) + 1 < i)
  <1> DEFINE n == Len(a)
  <1>1. n \in Nat /\ n + 1 \in Nat /\ n <= n + 1 /\ Len(b) = n + 1 /\ b[n + 1] = w
        /\ \A i \in 1 .. n : b[i] = a[i]
    BY DEF OneMore
  <1>2. /\ \A i \in 1 .. n : i \in 1 .. n + 1 /\ b[i] = a[i] /\ (Place(b, i) <=> Place(a, i))
        /\ \A i \in 1 .. n : a[i] \in ValueFlags => i + 1 \in 1 .. n
        /\ n > 0 => a[n] \notin ValueFlags
    BY <1>1, PrefixKept DEF n
  <1> HIDE DEF n
  <1>3. n + 1 \in 1 .. n + 1 /\ n + 1 \notin 1 .. n /\ ~(n + 1 < n + 1)
        /\ \A i \in 1 .. n + 1 : (i \in 1 .. n \/ i = n + 1) /\ ~(n + 1 < i)
    BY <1>1
  <1>4. \A i \in 1 .. n : i < n + 1
    BY <1>1
  <1>5. ASSUME w \notin Flags PROVE Place(b, n + 1)
    <2>1. (n + 1) - 1 = n /\ (n + 1 > 1 => n > 0 /\ n \in 1 .. n)
      BY <1>1
    <2> QED BY <1>1, <1>2, <1>5, <2>1 DEF Place
  <1> QED BY <1>1, <1>2, <1>3, <1>4, <1>5 DEF n

\* Two more: a flag and its value, which are no places.
LEMMA FlagMore ==
  ASSUME NEW a \in Seq(Words), NEW b, NEW f \in ValueFlags, NEW w, TwoMore(a, b, f, w), NoBareFlag(a)
  PROVE  /\ Len(a) + 1 \in 1 .. Len(b) /\ Len(a) + 1 \notin 1 .. Len(a)
         /\ b[Len(a) + 1] = f /\ b[(Len(a) + 1) + 1] = w
         /\ \A i \in 1 .. Len(b) : i \in 1 .. Len(a) \/ i = Len(a) + 1 \/ (i = (Len(a) + 1) + 1 /\ b[i] = w)
         /\ \A i \in 1 .. Len(a) : /\ i \in 1 .. Len(b) /\ b[i] = a[i]
                                   /\ i < Len(b) /\ (Place(b, i) <=> Place(a, i))
         /\ \A i \in 1 .. Len(a) : a[i] \in ValueFlags => i < Len(b) /\ b[i + 1] = a[i + 1]
         /\ ~Place(b, Len(a) + 1) /\ ~Place(b, (Len(a) + 1) + 1)
         /\ Len(a) + 1 < Len(b)
  <1> DEFINE n == Len(a)
  <1>1. n \in Nat /\ n + 2 \in Nat /\ n <= n + 2 /\ Len(b) = n + 2 /\ b[n + 1] = f /\ b[n + 2] = w
        /\ \A i \in 1 .. n : b[i] = a[i]
    BY DEF TwoMore
  <1>2. /\ \A i \in 1 .. n : i \in 1 .. n + 2 /\ b[i] = a[i] /\ (Place(b, i) <=> Place(a, i))
        /\ \A i \in 1 .. n : a[i] \in ValueFlags => i + 1 \in 1 .. n
    BY <1>1, PrefixKept DEF n
  <1> HIDE DEF n
  <1>3. n + 1 \in 1 .. n + 2 /\ n + 1 \notin 1 .. n /\ (n + 1) + 1 = n + 2 /\ n + 1 < n + 2
        /\ \A i \in 1 .. n + 2 : i \in 1 .. n \/ i = n + 1 \/ i = n + 2
    BY <1>1
  <1>4. \A i \in 1 .. n : i < n + 2
    BY <1>1
  <1>5. ~Place(b, n + 1)
    <2>1. f \in Flags
      BY VerifyWords
    <2> QED BY <1>1, <2>1 DEF Place
  <1>6. ~Place(b, n + 2)
    <2>1. (n + 2) - 1 = n + 1 /\ n + 2 > 1
      BY <1>1
    <2> QED BY <1>1, <2>1 DEF Place
  <1> QED BY <1>1, <1>2, <1>3, <1>4, <1>5, <1>6 DEF n

\* The flags of a longer line, when the new word is no flag or a new one.
LEMMA JsonGrows ==
  ASSUME NEW a \in Seq(Words), NEW o, NEW b, NEW p, VerifyRead(a, o),
         OneMore(a, b, "--json"), OptionMore(o, p, "--json", "yes"), "--json" \notin DOMAIN o
  PROVE  VerifyRead(b, p)
  <1> DEFINE n == Len(a)
             w == "--json"
  <1>0. /\ NoFlagTwice(a) /\ NoOtherFlag(a) /\ NoBareFlag(a)
        /\ Seen(a, o) /\ ValueOptions(a, o) /\ PathSeen(a, o)
    BY DEF VerifyRead
  <1>1. /\ n + 1 \in 1 .. Len(b) /\ b[n + 1] = w
        /\ \A i \in 1 .. Len(b) : i \in 1 .. n \/ i = n + 1
        /\ \A i \in 1 .. n : /\ i \in 1 .. Len(b) /\ b[i] = a[i] /\ (Place(b, i) <=> Place(a, i))
        /\ \A i \in 1 .. n : a[i] \in ValueFlags => i < Len(b) /\ b[i + 1] = a[i + 1]
    BY <1>0, WordMore
  <1>2. w \in Flags /\ w \notin ValueFlags /\ w \notin {"--suite", "--output", "--other"}
    BY VerifyWords
  <1>3. \A i \in 1 .. n : a[i] # w
    BY <1>0 DEF Seen
  <1>4. ~Place(b, n + 1)
    BY <1>1, <1>2 DEF Place
  <1>5. DOMAIN p = DOMAIN o \cup {w} /\ \A g \in DOMAIN o : g # w => p[g] = o[g]
    BY DEF OptionMore
  <1> HIDE DEF n, w
  <1>6. NoFlagTwice(b)
    BY <1>0, <1>1, <1>3 DEF NoFlagTwice, n
  <1>7. NoOtherFlag(b)
    BY <1>0, <1>1, <1>2 DEF NoOtherFlag, n
  <1>8. NoBareFlag(b)
    BY <1>0, <1>1, <1>2 DEF NoBareFlag, n
  <1>9. Seen(b, p)
    <2> SUFFICES ASSUME NEW f \in ValueFlags \cup {"--json"}
                 PROVE  f \in DOMAIN p <=> \E i \in 1 .. Len(b) : b[i] = f
      BY DEF Seen
    <2>1. f \in DOMAIN o <=> \E i \in 1 .. n : a[i] = f
      BY <1>0 DEF Seen, n
    <2>2. (\E i \in 1 .. Len(b) : b[i] = f) <=> f = w \/ \E i \in 1 .. n : a[i] = f
      BY <1>1
    <2> QED BY <1>5, <2>1, <2>2
  <1>10. ValueOptions(b, p)
    <2> SUFFICES ASSUME NEW f \in DOMAIN p, f \in ValueFlags
                 PROVE  \E i \in 1 .. Len(b) : b[i] = f /\ b[i + 1] = p[f]
      BY DEF ValueOptions
    <2>1. f \in DOMAIN o /\ p[f] = o[f]
      BY <1>2, <1>5
    <2>2. PICK i \in 1 .. n : a[i] = f /\ a[i + 1] = o[f]
      BY <1>0, <2>1 DEF ValueOptions, n
    <2> QED BY <1>1, <2>1, <2>2
  <1>11. PathSeen(b, p)
    <2>1. "path" # w /\ ("path" \in DOMAIN o <=> "path" \in DOMAIN p)
          /\ ("path" \in DOMAIN o => p["path"] = o["path"])
      BY <1>5, VerifyWords DEF w
    <2>2. NoPath(a) => NoPath(b)
      BY <1>1, <1>4 DEF NoPath, n
    <2>3. HasPath(a) => HasPath(b)
      BY <1>1, <1>4 DEF HasPath, OnlyPath, n
    <2> QED BY <1>0, <2>1, <2>2, <2>3 DEF PathSeen
  <1> QED BY <1>6, <1>7, <1>8, <1>9, <1>10, <1>11 DEF VerifyRead

\* A value that the parser takes for a flag that it has not seen.
VerifyTaken(o, f, w) == f \notin DOMAIN o /\ w \notin Flags \cup {""}

\* The flag and its value are read.
LEMMA FlagGrows ==
  ASSUME NEW a \in Seq(Words), NEW o, NEW b, NEW p, NEW f \in ValueFlags, NEW w, VerifyRead(a, o),
         TwoMore(a, b, f, w), OptionMore(o, p, f, w), VerifyTaken(o, f, w)
  PROVE  VerifyRead(b, p)
  <1> DEFINE n == Len(a)
             m == n + 1
  <1>0. /\ NoFlagTwice(a) /\ NoOtherFlag(a) /\ NoBareFlag(a)
        /\ Seen(a, o) /\ ValueOptions(a, o) /\ PathSeen(a, o)
    BY DEF VerifyRead
  <1>1. /\ m \in 1 .. Len(b) /\ b[m] = f /\ b[m + 1] = w /\ m < Len(b)
        /\ \A i \in 1 .. Len(b) : i \in 1 .. n \/ i = m \/ (i = m + 1 /\ b[i] = w)
        /\ \A i \in 1 .. n : /\ i \in 1 .. Len(b) /\ b[i] = a[i] /\ (Place(b, i) <=> Place(a, i))
        /\ \A i \in 1 .. n : a[i] \in ValueFlags => i < Len(b) /\ b[i + 1] = a[i + 1]
        /\ ~Place(b, m) /\ ~Place(b, m + 1)
    BY <1>0, FlagMore
  <1>2. /\ f \in Flags /\ w \notin Flags /\ w # "" /\ f \notin {"--suite", "--output", "--other"}
        /\ w \notin ValueFlags /\ w \notin {"--suite", "--output", "--other"}
        /\ f # w /\ f # "path" /\ w # "--json"
    BY VerifyWords DEF ValueFlags, VerifyTaken
  <1>3. \A i \in 1 .. n : a[i] # f
    BY <1>0 DEF Seen, VerifyTaken
  <1>5. DOMAIN p = DOMAIN o \cup {f} /\ p[f] = w /\ \A g \in DOMAIN o : g # f => p[g] = o[g]
    BY DEF OptionMore
  <1> HIDE DEF n, m
  <1>6. NoFlagTwice(b)
    <2>1. \A i, j \in 1 .. n : a[i] = a[j] /\ a[i] \in Flags => i = j
      BY <1>0 DEF NoFlagTwice, n
    <2> SUFFICES ASSUME NEW i \in 1 .. Len(b), NEW j \in 1 .. Len(b), b[i] = b[j], b[i] \in Flags
                 PROVE  i = j
      BY DEF NoFlagTwice
    <2>2. (i \in 1 .. n \/ i = m) /\ (j \in 1 .. n \/ j = m)
      BY <1>1, <1>2
    <2> QED BY <1>1, <1>3, <2>1, <2>2
  <1>7. NoOtherFlag(b)
    BY <1>0, <1>1, <1>2 DEF NoOtherFlag, n
  <1>8. NoBareFlag(b)
    <2>1. \A i \in 1 .. n : a[i] \in ValueFlags => a[i + 1] \notin Flags \cup {""}
      BY <1>0 DEF NoBareFlag, n
    <2> SUFFICES ASSUME NEW i \in 1 .. Len(b), b[i] \in ValueFlags
                 PROVE  i < Len(b) /\ b[i + 1] \notin Flags \cup {""}
      BY DEF NoBareFlag
    <2>2. i \in 1 .. n \/ i = m
      BY <1>1, <1>2
    <2> QED BY <1>1, <1>2, <2>1, <2>2
  <1>9. Seen(b, p)
    <2> SUFFICES ASSUME NEW g \in ValueFlags \cup {"--json"}
                 PROVE  g \in DOMAIN p <=> \E i \in 1 .. Len(b) : b[i] = g
      BY DEF Seen
    <2>1. g \in DOMAIN o <=> \E i \in 1 .. n : a[i] = g
      BY <1>0 DEF Seen, n
    <2>2. w # g
      BY <1>2
    <2>3. (\E i \in 1 .. Len(b) : b[i] = g) <=> g = f \/ \E i \in 1 .. n : a[i] = g
      BY <1>1, <2>2
    <2> QED BY <1>5, <2>1, <2>3
  <1>10. ValueOptions(b, p)
    <2> SUFFICES ASSUME NEW g \in DOMAIN p, g \in ValueFlags
                 PROVE  \E i \in 1 .. Len(b) : b[i] = g /\ b[i + 1] = p[g]
      BY DEF ValueOptions
    <2>1. CASE g = f
      BY <1>1, <1>5, <2>1
    <2>2. CASE g # f
      <3>1. g \in DOMAIN o /\ p[g] = o[g]
        BY <1>5, <2>2
      <3>2. PICK i \in 1 .. n : a[i] = g /\ a[i + 1] = o[g]
        BY <1>0, <3>1 DEF ValueOptions, n
      <3> QED BY <1>1, <3>1, <3>2
    <2> QED BY <2>1, <2>2
  <1>11. PathSeen(b, p)
    <2>1. ("path" \in DOMAIN o <=> "path" \in DOMAIN p)
          /\ ("path" \in DOMAIN o => p["path"] = o["path"])
      BY <1>2, <1>5
    <2>2. NoPath(a) => NoPath(b)
      BY <1>1 DEF NoPath, n
    <2>3. HasPath(a) => HasPath(b)
      <3> SUFFICES ASSUME NEW i \in 1 .. n, OnlyPath(a, i) PROVE OnlyPath(b, i)
        BY <1>1 DEF HasPath, n
      <3>1. \A j \in 1 .. n : Place(a, j) /\ j # i => j < i /\ a[j] = ""
        BY DEF OnlyPath, n
      <3>2. ASSUME NEW j \in 1 .. Len(b), Place(b, j), j # i PROVE j < i /\ b[j] = ""
        BY <1>1, <3>1, <3>2
      <3> QED BY <1>1, <3>2 DEF OnlyPath
    <2> QED BY <1>0, <2>1, <2>2, <2>3 DEF PathSeen
  <1> QED BY <1>6, <1>7, <1>8, <1>9, <1>10, <1>11 DEF VerifyRead

\* A word that is no flag, in front of the path or as the path.
LEMMA PathGrows ==
  ASSUME NEW a \in Seq(Words), NEW o, NEW b, NEW p, NEW w, VerifyRead(a, o), OneMore(a, b, w),
         "path" \notin DOMAIN o,
         \/ w = "" /\ p = o
         \/ w = "a" /\ OptionMore(o, p, "path", "a")
  PROVE  VerifyRead(b, p)
  <1> DEFINE n == Len(a)
             New == {"path"} \cap DOMAIN p
  <1>0. /\ NoFlagTwice(a) /\ NoOtherFlag(a) /\ NoBareFlag(a)
        /\ Seen(a, o) /\ ValueOptions(a, o) /\ NoPath(a)
    BY DEF VerifyRead, PathSeen
  <1>2. w \notin Flags /\ w \notin ValueFlags \cup {"--suite", "--output", "--other", "--json"}
    BY VerifyWords
  <1>1. /\ n + 1 \in 1 .. Len(b) /\ b[n + 1] = w
        /\ \A i \in 1 .. Len(b) : i \in 1 .. n \/ i = n + 1
        /\ \A i \in 1 .. n : /\ i \in 1 .. Len(b) /\ b[i] = a[i] /\ i < n + 1
                             /\ (Place(b, i) <=> Place(a, i))
        /\ \A i \in 1 .. n : a[i] \in ValueFlags => i < Len(b) /\ b[i + 1] = a[i + 1]
        /\ Place(b, n + 1)
    BY <1>0, <1>2, WordMore
  <1>5. /\ \A g : g # "path" => (g \in DOMAIN p <=> g \in DOMAIN o)
        /\ \A g \in DOMAIN o : p[g] = o[g]
    BY DEF OptionMore
  <1>6. NoFlagTwice(b)
    <2>1. \A i, j \in 1 .. n : a[i] = a[j] /\ a[i] \in Flags => i = j
      BY <1>0 DEF NoFlagTwice, n
    <2> HIDE DEF n
    <2> QED BY <1>1, <1>2, <2>1 DEF NoFlagTwice
  <1>7. NoOtherFlag(b)
    <2>1. \A i \in 1 .. n : a[i] \notin {"--suite", "--output", "--other"}
      BY <1>0 DEF NoOtherFlag, n
    <2> HIDE DEF n
    <2> QED BY <1>1, <1>2, <2>1 DEF NoOtherFlag
  <1>8. NoBareFlag(b)
    <2>1. \A i \in 1 .. n : a[i] \in ValueFlags => a[i + 1] \notin Flags \cup {""}
      BY <1>0 DEF NoBareFlag, n
    <2> HIDE DEF n
    <2> QED BY <1>1, <1>2, <2>1 DEF NoBareFlag
  <1>9. Seen(b, p)
    <2> SUFFICES ASSUME NEW f \in ValueFlags \cup {"--json"}
                 PROVE  f \in DOMAIN p <=> \E i \in 1 .. Len(b) : b[i] = f
      BY DEF Seen
    <2>1. f \in DOMAIN o <=> \E i \in 1 .. n : a[i] = f
      BY <1>0 DEF Seen, n
    <2>2. f # w /\ f # "path"
      BY <1>2, VerifyWords
    <2> HIDE DEF n
    <2>3. (\E i \in 1 .. Len(b) : b[i] = f) <=> \E i \in 1 .. n : a[i] = f
      BY <1>1, <2>2
    <2> QED BY <1>5, <2>1, <2>2, <2>3
  <1>10. ValueOptions(b, p)
    <2> SUFFICES ASSUME NEW f \in DOMAIN p, f \in ValueFlags
                 PROVE  \E i \in 1 .. Len(b) : b[i] = f /\ b[i + 1] = p[f]
      BY DEF ValueOptions
    <2>1. f \in DOMAIN o /\ p[f] = o[f]
      BY <1>5, VerifyWords
    <2>2. PICK i \in 1 .. n : a[i] = f /\ a[i + 1] = o[f]
      BY <1>0, <2>1 DEF ValueOptions, n
    <2> HIDE DEF n
    <2> QED BY <1>1, <2>1, <2>2
  <1>11. PathSeen(b, p)
    <2>1. \A i \in 1 .. n : Place(a, i) => a[i] = ""
      BY <1>0 DEF NoPath, n
    <2> HIDE DEF n
    <2>2. CASE w = "" /\ p = o
      <3>1. NoPath(b)
        BY <1>1, <2>1, <2>2 DEF NoPath
      <3> QED BY <2>2, <3>1 DEF PathSeen
    <2>3. CASE w = "a" /\ OptionMore(o, p, "path", "a")
      <3>1. OnlyPath(b, n + 1)
        <4>1. ASSUME NEW j \in 1 .. Len(b), Place(b, j), j # n + 1 PROVE j < n + 1 /\ b[j] = ""
          BY <1>1, <2>1, <4>1
        <4> QED BY <1>1, <2>3, <4>1 DEF OnlyPath
      <3>2. HasPath(b)
        BY <1>1, <3>1 DEF HasPath
      <3>3. "path" \in DOMAIN p /\ p["path"] = "a"
        BY <2>3 DEF OptionMore
      <3> QED BY <3>2, <3>3 DEF PathSeen
    <2> QED BY <2>2, <2>3
  <1> QED BY <1>6, <1>7, <1>8, <1>9, <1>10, <1>11 DEF VerifyRead

\* What the parser refuses is no good line.
LEMMA WordRefused ==
  ASSUME NEW a \in Seq(Words), NEW o, NEW b, NEW w \in Words, VerifyRead(a, o), OneMore(a, b, w),
         \/ w = "--json" /\ "--json" \in DOMAIN o
         \/ w \in ValueFlags
         \/ w \notin ValueFlags \cup {"--json"} /\ (w \in Flags \cup {"-o"} \/ "path" \in DOMAIN o)
  PROVE  ~GoodVerify(b)
  <1> DEFINE n == Len(a)
  <1>0. NoBareFlag(a) /\ Seen(a, o) /\ PathSeen(a, o)
    BY DEF VerifyRead
  <1>1. /\ n + 1 \in 1 .. Len(b) /\ b[n + 1] = w /\ n + 1 \notin 1 .. n /\ ~(n + 1 < Len(b))
        /\ \A i \in 1 .. Len(b) : (i \in 1 .. n \/ i = n + 1) /\ ~(n + 1 < i)
        /\ \A i \in 1 .. n : /\ i \in 1 .. Len(b) /\ b[i] = a[i]
                             /\ (Place(b, i) <=> Place(a, i))
        /\ w \notin Flags => Place(b, n + 1)
    BY <1>0, WordMore
  <1>2. CASE w = "--json" /\ "--json" \in DOMAIN o
    <2>1. PICK i \in 1 .. n : a[i] = w
      BY <1>0, <1>2 DEF Seen, n
    <2>2. i # n + 1 /\ b[i] = b[n + 1] /\ b[i] \in Flags /\ i \in 1 .. Len(b)
      BY <1>1, <1>2, <2>1, VerifyWords
    <2>3. ~NoFlagTwice(b)
      <3> HIDE DEF n
      <3> QED BY <1>1, <2>2 DEF NoFlagTwice
    <2> QED BY <2>3 DEF GoodVerify
  <1>3. CASE w \in ValueFlags
    <2>1. ~NoBareFlag(b)
      <3> HIDE DEF n
      <3> QED BY <1>1, <1>3 DEF NoBareFlag
    <2> QED BY <2>1 DEF GoodVerify
  <1>4. CASE w \notin ValueFlags \cup {"--json"} /\ w \in Flags
    <2>1. w \in {"--suite", "--output", "--other"}
      BY <1>4, VerifyWords
    <2>2. ~NoOtherFlag(b)
      <3> HIDE DEF n
      <3> QED BY <1>1, <2>1 DEF NoOtherFlag
    <2> QED BY <2>2 DEF GoodVerify
  <1>5. CASE w = "-o"
    <2>1. w \notin Flags
      BY <1>5, VerifyWords
    <2>2. ASSUME NEW i \in 1 .. Len(b) PROVE ~OnlyPath(b, i)
      <3> HIDE DEF n
      <3> QED BY <1>1, <1>5, <2>1 DEF OnlyPath
    <2> QED BY <2>2 DEF GoodVerify, HasPath
  <1>6. CASE w \notin Flags /\ "path" \in DOMAIN o
    <2>1. PICK k \in 1 .. n : OnlyPath(a, k)
      BY <1>0, <1>6 DEF PathSeen, HasPath, n
    <2>2. Place(a, k) /\ a[k] = "a"
      BY <2>1 DEF OnlyPath
    <2>3. ASSUME NEW i \in 1 .. Len(b) PROVE ~OnlyPath(b, i)
      <3> HIDE DEF n
      <3>1. CASE i # n + 1
        BY <1>1, <1>6, <3>1 DEF OnlyPath
      <3>2. CASE i = n + 1
        <4>1. k # i /\ b[k] = "a" /\ Place(b, k) /\ k \in 1 .. Len(b)
          BY <1>1, <2>2, <3>2
        <4> QED BY <4>1 DEF OnlyPath
      <3> QED BY <3>1, <3>2
    <2> QED BY <2>3 DEF GoodVerify, HasPath
  <1> QED BY <1>2, <1>3, <1>4, <1>5, <1>6

\* A flag that was given before, or whose value is a flag or empty.
LEMMA FlagRefused ==
  ASSUME NEW a \in Seq(Words), NEW o, NEW b, NEW f \in ValueFlags, NEW w, VerifyRead(a, o),
         TwoMore(a, b, f, w), ~VerifyTaken(o, f, w)
  PROVE  ~GoodVerify(b)
  <1> DEFINE n == Len(a)
             m == n + 1
  <1>0. NoBareFlag(a) /\ Seen(a, o)
    BY DEF VerifyRead
  <1>1. /\ m \in 1 .. Len(b) /\ b[m] = f /\ b[m + 1] = w /\ m \notin 1 .. n
        /\ \A i \in 1 .. n : /\ i \in 1 .. Len(b) /\ b[i] = a[i]
    BY <1>0, FlagMore
  <1> HIDE DEF m
  <1>2. CASE f \in DOMAIN o
    <2>1. PICK i \in 1 .. n : a[i] = f
      BY <1>0, <1>2 DEF Seen, n
    <2>2. i # m /\ b[i] = b[m] /\ b[i] \in Flags /\ i \in 1 .. Len(b)
      BY <1>1, <1>2, <2>1, VerifyWords
    <2>3. ~NoFlagTwice(b)
      <3> HIDE DEF n
      <3> QED BY <1>1, <2>2 DEF NoFlagTwice
    <2> QED BY <2>3 DEF GoodVerify
  <1>3. CASE w \in Flags \cup {""}
    <2>1. ~NoBareFlag(b)
      <3> HIDE DEF n
      <3> QED BY <1>1, <1>3 DEF NoBareFlag
    <2> QED BY <2>1 DEF GoodVerify
  <1> QED BY <1>2, <1>3 DEF VerifyTaken

\* The end of the arguments.
LEMMA VerifyEnds ==
  ASSUME NEW a \in Seq(Words), NEW o, VerifyRead(a, o)
  PROVE  /\ "path" \in DOMAIN o => GoodVerify(a) /\ ValueOptions(a, o) /\ PathOption(a, o)
         /\ "path" \notin DOMAIN o => ~GoodVerify(a)
  <1>1. ASSUME "path" \in DOMAIN o
        PROVE  GoodVerify(a) /\ ValueOptions(a, o) /\ PathOption(a, o)
    <2>1. HasPath(a) /\ o["path"] = "a"
      BY <1>1 DEF VerifyRead, PathSeen
    <2>2. PathOption(a, o)
      BY <2>1 DEF HasPath, OnlyPath, PathOption
    <2> QED BY <2>1, <2>2 DEF VerifyRead, GoodVerify
  <1>2. ASSUME "path" \notin DOMAIN o
        PROVE  ~GoodVerify(a)
    <2>1. NoPath(a)
      BY <1>2 DEF VerifyRead, PathSeen
    <2>2. ~HasPath(a)
      BY <2>1 DEF NoPath, HasPath, OnlyPath
    <2> QED BY <2>2 DEF GoodVerify
  <1> QED BY <1>1, <1>2

-----------------------------------------------------------------------------
\* The start of a command.
LEMMA CommandStart == ASSUME Init PROVE CommandInv
  <1>1. CASE CommandInit
    <2>1. PICK c \in Plain \cup Suite \cup {"verify"} :
            input = [kind |-> "command", command |-> c, args |-> <<>>]
      BY <1>1 DEF CommandInit
    <2>2. report = [verdict |-> "arguments", options |-> NoOptions, worked |-> FALSE,
                    ok |-> FALSE, wrote |-> FALSE, code |-> 0]
      BY <1>1 DEF CommandInit
    <2>3. input.args = <<>> /\ Len(input.args) = 0 /\ input.command = c
      BY <2>1
    <2>4. DOMAIN report.options = {} /\ report.verdict = "arguments" /\ report.worked = FALSE
      BY <2>2 DEF NoOptions
    <2>5. CommandTyped
      BY <2>1, <2>2, <2>3 DEF CommandTyped
    <2>6. CommandStands
      BY <2>4 DEF CommandStands
    <2>7. ~Started
      BY <2>4 DEF Started
    <2>8. ASSUME NEW a, NEW o, Len(a) = 0, DOMAIN o = {} PROVE SuiteRead(a, o) /\ VerifyRead(a, o)
      <3>1. 1 .. Len(a) = {} /\ Odd(a) = {} /\ EvenWords(a)
        BY <2>8 DEF Odd, EvenWords
      <3>2. SuiteRead(a, o)
        BY <2>8, <3>1 DEF SuiteRead, FlagsOnce, FlagsKnown, ValuesFilled, SuiteOptions
      <3>3. VerifyRead(a, o)
        BY <2>8, <3>1 DEF VerifyRead, NoFlagTwice, NoOtherFlag, NoBareFlag, Seen,
                          ValueOptions, PathSeen, NoPath
      <3> QED BY <3>2, <3>3
    <2>9. SuiteStands /\ VerifyStands
      BY <2>3, <2>4, <2>7, <2>8 DEF SuiteStands, VerifyStands
    <2> QED BY <2>5, <2>6, <2>9 DEF CommandInv
  <1>2. CASE ~CommandInit
    <2>1. input.kind # "command"
      BY <1>2, InitKinds DEF Init
    <2> QED BY <2>1 DEF CommandInv
  <1> QED BY <1>1, <1>2

\* The arguments of the next state.
NextArgs(b) ==
    /\ input' = [kind |-> "command", command |-> input'.command, args |-> input'.args]
    /\ input'.command = input.command /\ input'.args = b /\ b \in Seq(Words)

\* What a step that reads arguments does to the state.
LEMMA ReadIs ==
  ASSUME CommandTyped, NEW words, Read(words), input.args \o words \in Seq(Words)
  PROVE  NextArgs(input.args \o words)
  <1>1. input = [kind |-> "command", command |-> input.command, args |-> input.args]
    BY DEF CommandTyped
  <1> DEFINE b == input.args \o words
  <1>2. input' = [input EXCEPT !.args = b]
    BY DEF Read
  <1>3. b \in Seq(Words)
    OBVIOUS
  <1> HIDE DEF b
  <1>4. input' = [kind |-> "command", command |-> input.command, args |-> b]
    BY <1>1, <1>2
  <1>5. NextArgs(b)
    BY <1>3, <1>4 DEF NextArgs
  <1> QED BY <1>5 DEF b

ReportTyped ==
    report = [verdict |-> report.verdict, options |-> report.options,
              worked |-> report.worked, ok |-> report.ok, wrote |-> report.wrote,
              code |-> report.code]

\* A usage error.
LEMMA UsageStands ==
  ASSUME CommandTyped, CommandStands, report.verdict = "arguments", usageError,
         NEW b, NextArgs(b)
  PROVE  /\ CommandTyped' /\ CommandStands' /\ ~Started' /\ report'.verdict = "exit"
         /\ ~report'.worked
  <1>1. ReportTyped /\ ~report.worked /\ report.ok \in BOOLEAN /\ report.wrote \in BOOLEAN
        /\ report.worked \in BOOLEAN
    BY DEF CommandTyped, CommandStands, ReportTyped
  <1>2. PICK code \in {1, 2} : report' = [report EXCEPT !.verdict = "exit", !.code = code]
    BY DEF usageError, Exit
  <1>3. report' = [verdict |-> "exit", options |-> report.options, worked |-> report.worked,
                   ok |-> report.ok, wrote |-> report.wrote, code |-> code]
    BY <1>1, <1>2 DEF ReportTyped
  <1>4. CommandTyped'
    BY <1>1, <1>3 DEF CommandTyped, NextArgs
  <1>5. CommandStands'
    BY <1>1, <1>3 DEF CommandStands
  <1>6. ~Started'
    BY <1>1, <1>3 DEF Started
  <1> QED BY <1>1, <1>3, <1>4, <1>5, <1>6

\* An option is taken.
LEMMA OptionStands ==
  ASSUME CommandTyped, CommandStands, report.verdict = "arguments",
         NEW f, NEW w, Option(f, w), NEW b, NextArgs(b)
  PROVE  /\ CommandTyped' /\ CommandStands' /\ ~Started' /\ report'.verdict = "arguments"
         /\ OptionMore(report.options, report'.options, f, w)
  <1>1. ReportTyped /\ ~report.worked /\ report.ok \in BOOLEAN /\ report.wrote \in BOOLEAN
        /\ report.worked \in BOOLEAN /\ report.code \in 0 .. 2
    BY DEF CommandTyped, CommandStands, ReportTyped
  <1> DEFINE o == report.options
             p == [g \in DOMAIN o \cup {f} |-> IF g = f THEN w ELSE o[g]]
  <1>2. report' = [report EXCEPT !.options = p]
    BY DEF Option, Given
  <1>3. OptionMore(o, p, f, w)
    BY OptionMoreIs
  <1> HIDE DEF p
  <1>4. report' = [verdict |-> "arguments", options |-> p, worked |-> report.worked,
                   ok |-> report.ok, wrote |-> report.wrote, code |-> report.code]
    BY <1>1, <1>2 DEF ReportTyped
  <1>5. CommandTyped'
    BY <1>1, <1>4 DEF CommandTyped, NextArgs
  <1>6. CommandStands'
    BY <1>1, <1>4 DEF CommandStands
  <1>7. ~Started'
    BY <1>1, <1>4 DEF Started
  <1> QED BY <1>3, <1>4, <1>5, <1>6, <1>7

\* The arguments are accepted.
LEMMA WorkStands ==
  ASSUME CommandTyped, CommandStands, report.verdict = "arguments",
         report' = [report EXCEPT !.verdict = "work"], NEW b, NextArgs(b)
  PROVE  /\ CommandTyped' /\ CommandStands' /\ report'.verdict = "work"
         /\ report'.options = report.options
  <1>1. ReportTyped /\ ~report.worked /\ report.ok \in BOOLEAN /\ report.wrote \in BOOLEAN
        /\ report.worked \in BOOLEAN /\ report.code \in 0 .. 2
    BY DEF CommandTyped, CommandStands, ReportTyped
  <1>4. report' = [verdict |-> "work", options |-> report.options, worked |-> report.worked,
                   ok |-> report.ok, wrote |-> report.wrote, code |-> report.code]
    BY <1>1 DEF ReportTyped
  <1>5. CommandTyped'
    BY <1>1, <1>4 DEF CommandTyped, NextArgs
  <1>6. CommandStands'
    BY <1>1, <1>4 DEF CommandStands
  <1> QED BY <1>4, <1>5, <1>6

\* Reading the arguments of benchmark and profile.
LEMMA SuiteSteps ==
  ASSUME input.kind = "command", CommandInv,
         \/ \E f \in Flags \cup {"a"}, w \in Values : ReadPair(f, w)
         \/ \E w \in Words : ReadOdd(w)
  PROVE  CommandInv'
  <1>1. CommandTyped /\ CommandStands /\ input.args \in Seq(Words)
    BY DEF CommandInv, CommandTyped
  <1> DEFINE a == input.args
             o == report.options
  <1>2. ASSUME NEW f \in Flags \cup {"a"}, NEW w \in Values, ReadPair(f, w) PROVE CommandInv'
    <2>1. /\ input.command \in Suite /\ report.verdict = "arguments" /\ Read(<<f, w>>)
          /\ IF PairTaken(o, f, w) THEN Option(f, w) ELSE usageError
      BY <1>2 DEF ReadPair, Reading, Given, PairTaken
    <2>2. SuiteRead(a, o)
      BY <2>1 DEF CommandInv, SuiteStands
    <2>3. f \in Words /\ w \in Words
      BY DEF Words, Values
    <2> DEFINE b == a \o <<f, w>>
    <2>4. TwoMore(a, b, f, w) /\ b \in Seq(Words)
      BY <1>1, <2>3, AppendedTwo
    <2>5. NextArgs(b)
      BY <1>1, <2>1, <2>4, ReadIs
    <2> HIDE DEF b
    <2>6. input'.args = b /\ input'.command \in Suite /\ input'.command # "verify"
      BY <2>1, <2>5 DEF NextArgs, Suite
    <2>7. CASE PairTaken(o, f, w)
      <3>1. /\ CommandTyped' /\ CommandStands' /\ ~Started' /\ report'.verdict = "arguments"
            /\ OptionMore(o, report'.options, f, w)
        BY <1>1, <2>1, <2>5, <2>7, OptionStands
      <3>2. SuiteRead(b, report'.options)
        BY <1>1, <2>2, <2>4, <2>7, <3>1, SuiteGrows
      <3>3. SuiteStands'
        BY <2>6, <3>1, <3>2 DEF SuiteStands
      <3> QED BY <2>6, <3>1, <3>3 DEF CommandInv
    <2>8. CASE ~PairTaken(o, f, w)
      <3>1. /\ CommandTyped' /\ CommandStands' /\ ~Started' /\ report'.verdict = "exit"
            /\ ~report'.worked
        BY <1>1, <2>1, <2>5, <2>8, UsageStands
      <3>2. ~GoodSuite(b)
        BY <1>1, <2>2, <2>4, <2>8, SuiteRefuses
      <3>3. SuiteStands'
        BY <2>6, <3>1, <3>2 DEF SuiteStands
      <3> QED BY <2>6, <3>1, <3>3 DEF CommandInv
    <2> QED BY <2>7, <2>8
  <1>3. ASSUME NEW w \in Words, ReadOdd(w) PROVE CommandInv'
    <2>1. /\ input.command \in Suite /\ report.verdict = "arguments" /\ Read(<<w>>)
          /\ usageError
      BY <1>3 DEF ReadOdd, Reading
    <2>2. SuiteRead(a, o)
      BY <2>1 DEF CommandInv, SuiteStands
    <2> DEFINE b == a \o <<w>>
    <2>4. OneMore(a, b, w) /\ b \in Seq(Words)
      BY <1>1, Appended
    <2>5. NextArgs(b)
      BY <1>1, <2>1, <2>4, ReadIs
    <2> HIDE DEF b
    <2>6. input'.args = b /\ input'.command \in Suite /\ input'.command # "verify"
      BY <2>1, <2>5 DEF NextArgs, Suite
    <2>7. /\ CommandTyped' /\ CommandStands' /\ ~Started' /\ report'.verdict = "exit"
          /\ ~report'.worked
      BY <1>1, <2>1, <2>5, UsageStands
    <2>8. ~GoodSuite(b)
      BY <1>1, <2>2, <2>4, SuiteOdd
    <2>9. SuiteStands'
      BY <2>6, <2>7, <2>8 DEF SuiteStands
    <2> QED BY <2>6, <2>7, <2>9 DEF CommandInv
  <1> QED BY <1>2, <1>3

\* Reading the arguments of verify.
LEMMA VerifySteps ==
  ASSUME input.kind = "command", CommandInv,
         \/ \E w \in Words : ReadPath(w)
         \/ ReadJson
         \/ \E f \in ValueFlags : ReadBareFlag(f) \/ \E w \in Values : ReadValueFlag(f, w)
  PROVE  CommandInv'
  <1>1. CommandTyped /\ CommandStands /\ input.args \in Seq(Words)
    BY DEF CommandInv, CommandTyped
  <1> DEFINE a == input.args
             o == report.options
  <1>2. ASSUME NEW f \in ValueFlags, NEW w \in Values, ReadValueFlag(f, w) PROVE CommandInv'
    <2>1. /\ input.command = "verify" /\ report.verdict = "arguments" /\ Read(<<f, w>>)
          /\ IF VerifyTaken(o, f, w) THEN Option(f, w) ELSE usageError
      BY <1>2 DEF ReadValueFlag, Reading, Given, VerifyTaken
    <2>2. VerifyRead(a, o)
      BY <2>1 DEF CommandInv, VerifyStands
    <2>3. f \in Words /\ w \in Words
      BY DEF Words, Values, ValueFlags, Flags, SuiteFlags
    <2> DEFINE b == a \o <<f, w>>
    <2>4. TwoMore(a, b, f, w) /\ b \in Seq(Words)
      BY <1>1, <2>3, AppendedTwo
    <2>5. NextArgs(b)
      BY <1>1, <2>1, <2>4, ReadIs
    <2> HIDE DEF b
    <2>6. input'.args = b /\ input'.command \notin Suite
      BY <2>1, <2>5 DEF NextArgs, Suite
    <2>7. CASE VerifyTaken(o, f, w)
      <3>1. /\ CommandTyped' /\ CommandStands' /\ ~Started' /\ report'.verdict = "arguments"
            /\ OptionMore(o, report'.options, f, w)
        BY <1>1, <2>1, <2>5, <2>7, OptionStands
      <3>2. VerifyRead(b, report'.options)
        BY <1>1, <2>2, <2>4, <2>7, <3>1, FlagGrows
      <3>3. VerifyStands'
        BY <2>6, <3>1, <3>2 DEF VerifyStands
      <3> QED BY <2>6, <3>1, <3>3 DEF CommandInv
    <2>8. CASE ~VerifyTaken(o, f, w)
      <3>1. /\ CommandTyped' /\ CommandStands' /\ ~Started' /\ report'.verdict = "exit"
            /\ ~report'.worked
        BY <1>1, <2>1, <2>5, <2>8, UsageStands
      <3>2. ~GoodVerify(b)
        BY <1>1, <2>2, <2>4, <2>8, FlagRefused
      <3>3. VerifyStands'
        BY <2>6, <3>1, <3>2 DEF VerifyStands
      <3> QED BY <2>6, <3>1, <3>3 DEF CommandInv
    <2> QED BY <2>7, <2>8
  <1>3. ASSUME NEW w \in Words, ReadPath(w) \/ (w = "--json" /\ ReadJson)
                                \/ (w \in ValueFlags /\ ReadBareFlag(w))
        PROVE CommandInv'
    <2>1. input.command = "verify" /\ report.verdict = "arguments" /\ Read(<<w>>)
      BY <1>3 DEF ReadPath, ReadJson, ReadBareFlag, Reading
    <2>2. VerifyRead(a, o)
      BY <2>1 DEF CommandInv, VerifyStands
    <2> DEFINE b == a \o <<w>>
    <2>4. OneMore(a, b, w) /\ b \in Seq(Words)
      BY <1>1, Appended
    <2>5. NextArgs(b)
      BY <1>1, <2>1, <2>4, ReadIs
    <2> HIDE DEF b
    <2>6. input'.args = b /\ input'.command \notin Suite
      BY <2>1, <2>5 DEF NextArgs, Suite
    <2> DEFINE bad == \/ w = "--json" /\ "--json" \in DOMAIN o
                      \/ w \in ValueFlags
                      \/ /\ w \notin ValueFlags \cup {"--json"}
                         /\ w \in Flags \cup {"-o"} \/ "path" \in DOMAIN o
    <2>7. ASSUME usageError, bad PROVE CommandInv'
      <3>1. /\ CommandTyped' /\ CommandStands' /\ ~Started' /\ report'.verdict = "exit"
            /\ ~report'.worked
        BY <1>1, <2>1, <2>5, <2>7, UsageStands
      <3>2. ~GoodVerify(b)
        BY <1>1, <2>2, <2>4, <2>7, WordRefused
      <3>3. VerifyStands'
        BY <2>6, <3>1, <3>2 DEF VerifyStands
      <3> QED BY <2>6, <3>1, <3>3 DEF CommandInv
    <2>8. ASSUME ~bad, Option("--json", "yes"), w = "--json" PROVE CommandInv'
      <3>1. /\ CommandTyped' /\ CommandStands' /\ ~Started' /\ report'.verdict = "arguments"
            /\ OptionMore(o, report'.options, "--json", "yes")
        BY <1>1, <2>1, <2>5, <2>8, OptionStands
      <3>2. VerifyRead(b, report'.options)
        BY <1>1, <2>2, <2>4, <2>8, <3>1, JsonGrows
      <3>3. VerifyStands'
        BY <2>6, <3>1, <3>2 DEF VerifyStands
      <3> QED BY <2>6, <3>1, <3>3 DEF CommandInv
    <2>9. ASSUME ~bad, Option("path", w), w = "a" PROVE CommandInv'
      <3>1. /\ CommandTyped' /\ CommandStands' /\ ~Started' /\ report'.verdict = "arguments"
            /\ OptionMore(o, report'.options, "path", "a")
        BY <1>1, <2>1, <2>5, <2>9, OptionStands
      <3>2. VerifyRead(b, report'.options)
        <4>1. "path" \notin DOMAIN o
          BY <2>9, VerifyWords
        <4> QED BY <1>1, <2>2, <2>4, <2>9, <3>1, <4>1, PathGrows
      <3>3. VerifyStands'
        BY <2>6, <3>1, <3>2 DEF VerifyStands
      <3> QED BY <2>6, <3>1, <3>3 DEF CommandInv
    <2>10. ASSUME ~bad, UNCHANGED report, w = "" PROVE CommandInv'
      <3>1. /\ CommandTyped' /\ CommandStands' /\ ~Started' /\ report'.verdict = "arguments"
            /\ report'.options = o
        BY <1>1, <2>1, <2>5, <2>10 DEF CommandTyped, CommandStands, Started, NextArgs
      <3>2. VerifyRead(b, report'.options)
        <4>1. "path" \notin DOMAIN o
          BY <2>10, VerifyWords
        <4> QED BY <1>1, <2>2, <2>4, <2>10, <3>1, <4>1, PathGrows
      <3>3. VerifyStands'
        BY <2>6, <3>1, <3>2 DEF VerifyStands
      <3> QED BY <2>6, <3>1, <3>3 DEF CommandInv
    <2>11. CASE w = "--json" /\ ReadJson
      BY <2>7, <2>8, <2>11 DEF ReadJson, Given, ValueFlags
    <2>12. CASE w \in ValueFlags /\ ReadBareFlag(w)
      BY <2>7, <2>12 DEF ReadBareFlag
    <2>13. CASE ReadPath(w)
      <3>1. /\ w \notin ValueFlags \cup {"--json"}
            /\ IF bad THEN usageError
               ELSE IF w = "" THEN UNCHANGED report ELSE Option("path", w)
        BY <2>13 DEF ReadPath, Given
      <3>2. ~bad => w = "" \/ w = "a"
        BY <3>1, VerifyWords
      <3> QED BY <2>7, <2>9, <2>10, <3>1, <3>2
    <2> QED BY <1>3, <2>11, <2>12, <2>13
  <1>4. "--json" \in Words /\ ValueFlags \subseteq Words
    BY DEF Words, Flags, SuiteFlags, ValueFlags
  <1> QED BY <1>2, <1>3, <1>4

\* A line of some of the words.
LEMMA FewWords ==
  ASSUME NEW W, NEW F, F \subseteq W, NEW n \in 0 .. 3, NEW s \in [1 .. n -> F]
  PROVE  s \in Seq(W)
  <1>1. s \in [1 .. n -> W] /\ n \in Nat
    OBVIOUS
  <1> QED BY <1>1, SeqDef

\* The commands with a fixed form.
LEMMA PlainSteps ==
  ASSUME input.kind = "command", CommandInv, NEW n \in 0 .. 3,
         NEW words \in [1 .. n -> {"", "a", "--engine", "--json"}], ReadPlain(words)
  PROVE  CommandInv'
  <1>1. CommandTyped /\ CommandStands
    BY DEF CommandInv
  <1>2. /\ input.command \in Plain /\ report.verdict = "arguments" /\ Read(words)
        /\ report' = [report EXCEPT !.verdict = "work"] \/ usageError
        /\ input.args = <<>>
    BY DEF ReadPlain, Reading
  <1>3. words \in Seq(Words)
    <2>1. {"", "a", "--engine", "--json"} \subseteq Words
      BY DEF Words, Flags, Values, SuiteFlags
    <2> QED BY <2>1, FewWords
  <1> DEFINE b == input.args \o words
  <1>4. b \in Seq(Words)
    <2>1. \A s \in Seq(Words) : <<>> \o s = s
      BY ConcatEmptySeq
    <2> QED BY <1>2, <1>3, <2>1
  <1>5. NextArgs(b)
    BY <1>1, <1>2, <1>4, ReadIs
  <1> HIDE DEF b
  <1>6. input'.command \notin Suite /\ input'.command # "verify"
    BY <1>2, <1>5 DEF NextArgs, Plain, Suite
  <1>7. CommandTyped' /\ CommandStands'
    BY <1>1, <1>2, <1>5, UsageStands, WorkStands
  <1> QED BY <1>6, <1>7 DEF CommandInv

\* The end of the arguments.
LEMMA EndSteps ==
  ASSUME input.kind = "command", CommandInv, EndOfArguments
  PROVE  CommandInv'
  <1> DEFINE a == input.args
             o == report.options
  <1>1. CommandTyped /\ CommandStands /\ a \in Seq(Words)
    BY DEF CommandInv, CommandTyped
  <1>2. report.verdict = "arguments" /\ UNCHANGED input
    BY DEF EndOfArguments, Reading
  <1>3. NextArgs(a) /\ input'.args = a /\ input'.command = input.command
    BY <1>1, <1>2 DEF NextArgs, CommandTyped
  <1>4. CASE input.command = "verify"
    <2>1. IF "path" \in DOMAIN o THEN report' = [report EXCEPT !.verdict = "work"]
          ELSE usageError
      BY <1>4 DEF EndOfArguments, Given
    <2>2. VerifyRead(a, o)
      BY <1>2, <1>4 DEF CommandInv, VerifyStands
    <2>3. input'.command \notin Suite
      BY <1>3, <1>4 DEF Suite
    <2>4. /\ "path" \in DOMAIN o => GoodVerify(a) /\ ValueOptions(a, o) /\ PathOption(a, o)
          /\ "path" \notin DOMAIN o => ~GoodVerify(a)
      BY <1>1, <2>2, VerifyEnds
    <2>5. CASE "path" \in DOMAIN o
      <3>1. CommandTyped' /\ CommandStands' /\ report'.verdict = "work" /\ report'.options = o
        BY <1>1, <1>2, <1>3, <2>1, <2>5, WorkStands
      <3>2. VerifyStands'
        BY <1>3, <2>4, <2>5, <3>1 DEF VerifyStands
      <3> QED BY <2>3, <3>1, <3>2 DEF CommandInv
    <2>6. CASE "path" \notin DOMAIN o
      <3>1. /\ CommandTyped' /\ CommandStands' /\ ~Started' /\ report'.verdict = "exit"
            /\ ~report'.worked
        BY <1>1, <1>2, <1>3, <2>1, <2>6, UsageStands
      <3>2. VerifyStands'
        BY <1>3, <2>4, <2>6, <3>1 DEF VerifyStands
      <3> QED BY <2>3, <3>1, <3>2 DEF CommandInv
    <2> QED BY <2>5, <2>6
  <1>5. CASE input.command \in Suite
    <2> DEFINE all == {"--engine", "--suite", "--output"} \subseteq DOMAIN o
    <2>0. input.command # "verify"
      BY <1>5 DEF Suite
    <2>1. IF all THEN report' = [report EXCEPT !.verdict = "work"] ELSE usageError
      BY <2>0 DEF EndOfArguments, Given
    <2>2. SuiteRead(a, o)
      BY <1>2, <1>5 DEF CommandInv, SuiteStands
    <2>4. (GoodSuite(a) <=> all) /\ SuiteOptions(a, o)
      BY <1>1, <2>2, SuiteEnds DEF SuiteRead
    <2> HIDE DEF all
    <2>5. CASE all
      <3>1. CommandTyped' /\ CommandStands' /\ report'.verdict = "work" /\ report'.options = o
        BY <1>1, <1>2, <1>3, <2>1, <2>5, WorkStands
      <3>2. SuiteStands'
        BY <1>3, <2>4, <2>5, <3>1 DEF SuiteStands
      <3> QED BY <1>3, <2>0, <3>1, <3>2 DEF CommandInv
    <2>6. CASE ~all
      <3>1. /\ CommandTyped' /\ CommandStands' /\ ~Started' /\ report'.verdict = "exit"
            /\ ~report'.worked
        BY <1>1, <1>2, <1>3, <2>1, <2>6, UsageStands
      <3>2. SuiteStands'
        BY <1>3, <2>4, <2>6, <3>1 DEF SuiteStands
      <3> QED BY <1>3, <2>0, <3>1, <3>2 DEF CommandInv
    <2> QED BY <2>5, <2>6
  <1> QED BY <1>4, <1>5 DEF EndOfArguments, Reading

\* The work and its output.
LEMMA WorkSteps ==
  ASSUME input.kind = "command", CommandInv, Work \/ WriteOutput
  PROVE  CommandInv'
  <1>1. CommandTyped /\ CommandStands
    BY DEF CommandInv
  <1>2. UNCHANGED input /\ Started
    BY DEF Work, WriteOutput, Started
  <1>3. ReportTyped /\ report.ok \in BOOLEAN /\ report.wrote \in BOOLEAN
        /\ report.worked \in BOOLEAN /\ report.code \in 0 .. 2
    BY <1>1 DEF CommandTyped, ReportTyped
  <1> DEFINE good == CommandTyped' /\ CommandStands' /\ report'.worked
                     /\ report'.options = report.options
  <1>4. ASSUME Work PROVE good
    <2>1. PICK ok \in BOOLEAN :
            LET next == [report EXCEPT !.worked = TRUE, !.ok = ok]
            IN  report' = IF ok \/ input.command = "doctor"
                            THEN [next EXCEPT !.verdict = "output"]
                            ELSE [next EXCEPT !.verdict = "exit", !.code = 1]
      BY <1>4 DEF Work
    <2>2. CASE ok \/ input.command = "doctor"
      <3>1. report' = [verdict |-> "output", options |-> report.options, worked |-> TRUE,
                       ok |-> ok, wrote |-> report.wrote, code |-> report.code]
        BY <1>3, <2>1, <2>2 DEF ReportTyped
      <3>2. CommandTyped'
        BY <1>1, <1>2, <1>3, <3>1 DEF CommandTyped
      <3>3. CommandStands'
        BY <3>1 DEF CommandStands
      <3> QED BY <3>1, <3>2, <3>3
    <2>3. CASE ~(ok \/ input.command = "doctor")
      <3>1. report' = [verdict |-> "exit", options |-> report.options, worked |-> TRUE,
                       ok |-> FALSE, wrote |-> report.wrote, code |-> 1]
        BY <1>3, <2>1, <2>3 DEF ReportTyped
      <3>2. CommandTyped'
        BY <1>1, <1>2, <1>3, <3>1 DEF CommandTyped
      <3>3. CommandStands'
        BY <3>1 DEF CommandStands
      <3> QED BY <3>1, <3>2, <3>3
    <2> QED BY <2>2, <2>3
  <1>5. ASSUME WriteOutput PROVE good
    <2>1. PICK wrote \in BOOLEAN :
            report' = [report EXCEPT !.verdict = "exit", !.wrote = wrote,
                                     !.code = IF wrote /\ report.ok THEN 0 ELSE 1]
      BY <1>5 DEF WriteOutput
    <2> DEFINE code == IF wrote /\ report.ok THEN 0 ELSE 1
    <2>2. report.verdict = "output" /\ report.worked = TRUE
      BY <1>1, <1>3, <1>5 DEF WriteOutput, CommandStands
    <2>3. code \in 0 .. 2 /\ code # 2 /\ (code = 0 <=> wrote /\ report.ok)
      OBVIOUS
    <2>4. report' = [report EXCEPT !.verdict = "exit", !.wrote = wrote, !.code = code]
      BY <2>1
    <2> HIDE DEF code
    <2>5. report' = [verdict |-> "exit", options |-> report.options, worked |-> TRUE,
                     ok |-> report.ok, wrote |-> wrote, code |-> code]
      BY <1>3, <2>2, <2>4 DEF ReportTyped
    <2>6. CommandTyped'
      BY <1>1, <1>2, <1>3, <2>3, <2>5 DEF CommandTyped
    <2>7. CommandStands'
      BY <2>3, <2>5 DEF CommandStands
    <2> QED BY <2>5, <2>6, <2>7
  <1>6. good
    BY <1>4, <1>5
  <1> HIDE DEF good
  <1>7. input.command \in Suite => SuiteStands'
    <2>1. SuiteStands => GoodSuite(input.args) /\ SuiteOptions(input.args, report.options)
      BY <1>2 DEF SuiteStands
    <2>2. report'.verdict # "arguments"
      BY <1>6 DEF good, CommandStands
    <2> QED BY <1>2, <1>6, <2>1, <2>2 DEF CommandInv, SuiteStands, good
  <1>8. input.command = "verify" => VerifyStands'
    <2>1. VerifyStands => GoodVerify(input.args) /\ ValueOptions(input.args, report.options)
                          /\ PathOption(input.args, report.options)
      BY <1>2 DEF VerifyStands
    <2>2. report'.verdict # "arguments"
      BY <1>6 DEF good, CommandStands
    <2> QED BY <1>2, <1>6, <2>1, <2>2 DEF CommandInv, VerifyStands, good
  <1> QED BY <1>2, <1>6, <1>7, <1>8 DEF CommandInv, good

\* Every step keeps the invariant.
LEMMA CommandStep == ASSUME KindInv, CommandInv, [Next]_calcVars PROVE CommandInv'
  <1>1. CASE input.kind # "command"
    BY <1>1, KindsApart DEF CommandInv
  <1>2. CASE UNCHANGED calcVars
    BY <1>2 DEF calcVars, CommandInv, CommandTyped, CommandStands, SuiteStands, VerifyStands, Started
  <1>3. CASE input.kind = "command" /\ Next
    <2>1. CommandNext
      BY <1>3, KindsApart DEF Next
    <2>2. CASE \E n \in 0 .. 3 : \E words \in [1 .. n -> {"", "a", "--engine", "--json"}] :
                 ReadPlain(words)
      BY <1>3, <2>2, PlainSteps
    <2>3. CASE \/ \E f \in Flags \cup {"a"}, w \in Values : ReadPair(f, w)
               \/ \E w \in Words : ReadOdd(w)
      BY <1>3, <2>3, SuiteSteps
    <2>4. CASE \/ \E w \in Words : ReadPath(w)
               \/ ReadJson
               \/ \E f \in ValueFlags :
                    ReadBareFlag(f) \/ \E w \in Values : ReadValueFlag(f, w)
      BY <1>3, <2>4, VerifySteps
    <2>5. CASE EndOfArguments
      BY <1>3, <2>5, EndSteps
    <2>6. CASE Work \/ WriteOutput
      BY <1>3, <2>6, WorkSteps
    <2> QED BY <2>1, <2>2, <2>3, <2>4, <2>5, <2>6 DEF CommandNext
  <1> QED BY <1>1, <1>2, <1>3

\* The lines as the parsers know them are the lines of the property.
LEMMA LinesAre ==
  ASSUME input.args \in Seq(Words)
  PROVE  /\ SuiteLine <=> GoodSuite(input.args)
         /\ VerifyLine <=> GoodVerify(input.args)
  <1> DEFINE a == input.args
  <1>1. DOMAIN a = 1 .. Len(a) /\ Len(a) \in Nat
    OBVIOUS
  <1>2. SuiteLine <=> GoodSuite(a)
    <2> DEFINE odd == {i \in DOMAIN a : i % 2 = 1}
               set == {a[i] : i \in odd}
    <2>1. odd = Odd(a)
      BY <1>1 DEF Odd
    <2>2. SuiteLine <=> /\ Len(a) % 2 = 0
                        /\ \A i, j \in odd : a[i] = a[j] => i = j
                        /\ set \subseteq SuiteFlags
                        /\ {"--engine", "--suite", "--output"} \subseteq set
                        /\ \A i \in DOMAIN a \ odd : a[i] # ""
      BY DEF SuiteLine
    <2> HIDE DEF odd, a
    <2>3. set \subseteq SuiteFlags <=> FlagsKnown(a)
      BY <2>1 DEF FlagsKnown
    <2>4. {"--engine", "--suite", "--output"} \subseteq set
          <=> \A f \in {"--engine", "--suite", "--output"} : FlagGiven(a, f)
      BY <2>1 DEF FlagGiven
    <2> HIDE DEF set
    <2>5. (\A i \in DOMAIN a \ odd : a[i] # "") <=> ValuesFilled(a)
      BY <1>1, <2>1 DEF ValuesFilled
    <2>6. (\A i, j \in odd : a[i] = a[j] => i = j) <=> FlagsOnce(a)
      BY <2>1 DEF FlagsOnce
    <2>7. Len(a) % 2 = 0 <=> EvenWords(a)
      BY DEF EvenWords
    <2> QED BY <2>2, <2>3, <2>4, <2>5, <2>6, <2>7 DEF GoodSuite
  <1>3. VerifyLine <=> GoodVerify(a)
    <2>1. \A w : Occurrences(w) = {i \in 1 .. Len(a) : a[i] = w}
      BY <1>1 DEF Occurrences
    <2>2. VerifyPlaces = {i \in 1 .. Len(a) : Place(a, i)}
      BY <1>1 DEF VerifyPlaces, Place, Follows
    <2>3. VerifyLine <=>
            /\ \A f \in Flags : \A i, j \in Occurrences(f) : i = j
            /\ Occurrences("--suite") \cup Occurrences("--output") \cup Occurrences("--other") = {}
            /\ \A f \in ValueFlags : \A i \in Occurrences(f) :
                 i < Len(a) /\ a[i + 1] \notin Flags \cup {""}
            /\ \E i \in VerifyPlaces :
                 /\ a[i] = "a" /\ \A j \in VerifyPlaces \ {i} : j < i /\ a[j] = ""
      BY DEF VerifyLine
    <2> HIDE DEF a
    <2>4. (\A f \in Flags : \A i, j \in Occurrences(f) : i = j) <=> NoFlagTwice(a)
      BY <2>1 DEF NoFlagTwice
    <2>5. Occurrences("--suite") \cup Occurrences("--output") \cup Occurrences("--other") = {}
          <=> NoOtherFlag(a)
      BY <2>1 DEF NoOtherFlag
    <2>6. (\A f \in ValueFlags : \A i \in Occurrences(f) :
             i < Len(a) /\ a[i + 1] \notin Flags \cup {""}) <=> NoBareFlag(a)
      BY <2>1 DEF NoBareFlag
    <2>7. (\E i \in VerifyPlaces :
             /\ a[i] = "a" /\ \A j \in VerifyPlaces \ {i} : j < i /\ a[j] = "") <=> HasPath(a)
      BY <2>2 DEF HasPath, OnlyPath
    <2> QED BY <2>3, <2>4, <2>5, <2>6, <2>7 DEF GoodVerify
  <1> QED BY <1>2, <1>3

\* labctl exits with 0 exactly if its work succeeded and the output was written, and
\* with 2 only if no work was begun.  benchmark, profile and verify work exactly if
\* the line is well formed, with the values that stand behind the flags (Run,
\* parseBenchmarkOptions, parseProfileOptions, parseVerifyOptions).  For lines of
\* every length.
THEOREM ExitCodesAreTrue == Spec => []ExitCodesTellTheTruth
  <1>1. ASSUME CommandInv PROVE ExitCodesTellTheTruth
    <2> SUFFICES ASSUME input.kind = "command", report.verdict = "exit"
                 PROVE  ExitCodesTellTheTruth
      BY DEF ExitCodesTellTheTruth
    <2> DEFINE a == input.args
               o == report.options
    <2>1. CommandTyped /\ CommandStands /\ a \in Seq(Words)
      BY <1>1 DEF CommandInv, CommandTyped
    <2>2. (SuiteLine <=> GoodSuite(a)) /\ (VerifyLine <=> GoodVerify(a))
      BY <2>1, LinesAre
    <2>3. /\ report.code = 0 <=> report.worked /\ report.ok /\ report.wrote
          /\ report.code = 2 => ~report.worked
      BY <2>1 DEF CommandStands
    <2>4. ASSUME input.command \in Suite
          PROVE  /\ report.worked <=> SuiteLine
                 /\ report.worked => \A f \in DOMAIN o :
                      \E i \in Occurrences(f) : i % 2 = 1 /\ a[i + 1] = o[f]
      <3>1. SuiteStands /\ report.worked \in BOOLEAN
        BY <1>1, <2>1, <2>4 DEF CommandInv, CommandTyped
      <3>2. report.worked <=> GoodSuite(a)
        BY <3>1 DEF SuiteStands, Started
      <3>3. report.worked => SuiteOptions(a, o)
        BY <3>1 DEF SuiteStands, Started
      <3>4. ASSUME SuiteOptions(a, o), NEW f \in DOMAIN o
            PROVE  \E i \in Occurrences(f) : i % 2 = 1 /\ a[i + 1] = o[f]
        <4>1. PICK i \in Odd(a) : a[i] = f /\ a[i + 1] = o[f]
          BY <3>4 DEF SuiteOptions
        <4>2. i \in Occurrences(f) /\ i % 2 = 1
          BY <2>1, <4>1 DEF Odd, Occurrences
        <4> QED BY <4>1, <4>2
      <3> QED BY <2>2, <3>2, <3>3, <3>4
    <2>5. ASSUME input.command = "verify"
          PROVE  /\ report.worked <=> VerifyLine
                 /\ report.worked =>
                      /\ \A f \in DOMAIN o \cap ValueFlags :
                           \E i \in Occurrences(f) : a[i + 1] = o[f]
                      /\ \E i \in VerifyPlaces : a[i] = o["path"]
      <3>1. VerifyStands /\ report.worked \in BOOLEAN
        BY <1>1, <2>1, <2>5 DEF CommandInv, CommandTyped
      <3>2. report.worked <=> GoodVerify(a)
        BY <3>1 DEF VerifyStands, Started
      <3>3. report.worked => ValueOptions(a, o) /\ PathOption(a, o)
        BY <3>1 DEF VerifyStands, Started
      <3>4. ASSUME ValueOptions(a, o), NEW f \in DOMAIN o \cap ValueFlags
            PROVE  \E i \in Occurrences(f) : a[i + 1] = o[f]
        <4>1. PICK i \in 1 .. Len(a) : a[i] = f /\ a[i + 1] = o[f]
          BY <3>4 DEF ValueOptions
        <4>2. i \in Occurrences(f)
          BY <2>1, <4>1 DEF Occurrences
        <4> QED BY <4>1, <4>2
      <3>5. ASSUME PathOption(a, o) PROVE \E i \in VerifyPlaces : a[i] = o["path"]
        <4>1. PICK i \in 1 .. Len(a) : Place(a, i) /\ a[i] = o["path"]
          BY <3>5 DEF PathOption
        <4>2. i \in VerifyPlaces
          BY <2>1, <4>1 DEF VerifyPlaces, Place, Follows
        <4> QED BY <4>1, <4>2
      <3> QED BY <2>2, <3>2, <3>3, <3>4, <3>5
    <2> QED BY <2>3, <2>4, <2>5 DEF ExitCodesTellTheTruth
  <1> QED BY <1>1, CommandStart, CommandStep, KindInvariant, PTL DEF Spec

-----------------------------------------------------------------------------
(* The tools of doctor.                                                    *)

\* A line of a version output.
IsLine(l) ==
    /\ l.blank \in BOOLEAN /\ l.family \in BOOLEAN
    /\ l.blank => l.version = <<>>
    /\ l.version # <<>> => /\ Len(l.version) \in {2, 3}
                           /\ \A i \in 1 .. Len(l.version) : l.version[i] \in 0 .. 9
\* A version output: some lines.
IsOutput(o) == \E n \in Nat : DOMAIN o = 1 .. n /\ \A i \in 1 .. n : IsLine(o[i])

\* The outputs of the model are outputs.
LEMMA LinesTyped ==
  /\ IsLine(Blank)
  /\ \A v \in Numbers : \A f \in BOOLEAN : IsLine(Line(v, f))
  <1>1. IsLine(Blank)
    BY DEF IsLine, Blank
  <1>2. ASSUME NEW v \in Numbers, NEW f \in BOOLEAN PROVE IsLine(Line(v, f))
    <2>1. v # <<>> => Len(v) \in {2, 3} /\ \A i \in 1 .. Len(v) : v[i] \in 0 .. 9
      <3>1. CASE v = <<>>
        BY <3>1
      <3>2. ASSUME NEW a \in Versions, NEW b \in Versions, v = <<a, b>>
            PROVE  Len(v) \in {2, 3} /\ \A i \in 1 .. Len(v) : v[i] \in 0 .. 9
        BY <3>2, DoctorAssumption
      <3>3. ASSUME NEW a \in Versions, NEW b \in Versions, NEW c \in Versions, v = <<a, b, c>>
            PROVE  Len(v) \in {2, 3} /\ \A i \in 1 .. Len(v) : v[i] \in 0 .. 9
        BY <3>3, DoctorAssumption
      <3> QED BY <3>1, <3>2, <3>3 DEF Numbers
    <2> QED BY <2>1 DEF IsLine, Line
  <1> QED BY <1>1, <1>2

\* Every output of a tool is one.
LEMMA OutputsTyped ==
  ASSUME NEW l, NEW m, IsLine(l), IsLine(m)
  PROVE  IsOutput(<<l>>) /\ IsOutput(<<l, m>>) /\ IsOutput(<<>>)
  <1>1. DOMAIN <<l>> = 1 .. 1 /\ \A i \in 1 .. 1 : IsLine(<<l>>[i])
    OBVIOUS
  <1>2. DOMAIN <<l, m>> = 1 .. 2 /\ \A i \in 1 .. 2 : IsLine(<<l, m>>[i])
    <2>1. \A i \in 1 .. 2 : i = 1 \/ i = 2
      OBVIOUS
    <2> QED BY <2>1
  <1>3. DOMAIN <<>> = 1 .. 0 /\ \A i \in 1 .. 0 : IsLine(<<>>[i])
    OBVIOUS
  <1>4. 0 \in Nat /\ 1 \in Nat /\ 2 \in Nat
    OBVIOUS
  <1> QED BY <1>1, <1>2, <1>3, <1>4 DEF IsOutput

\* A probe of a tool, and a tool.
IsProbe(p) ==
    \/ p.end \in {"missing", "failed", "timeout", "canceled"}
    \/ p.end = "ok" /\ IsOutput(p.output)
IsTool(t) ==
    t.required \in BOOLEAN /\ t.family \in BOOLEAN /\ t.minimum \in {<<>>, <<1, 1, 0>>}

\* The tools that doctor looks for.
LEMMA ToolsTyped ==
  /\ Len(tools) = 4 /\ DOMAIN tools = 1 .. 4
  /\ \A i \in 1 .. 4 : IsTool(tools[i])
  <1>1. Len(tools) = 4 /\ DOMAIN tools = 1 .. 4
    BY DEF tools
  <1>2. IsTool(tools[1]) /\ IsTool(tools[2]) /\ IsTool(tools[3]) /\ IsTool(tools[4])
    BY DEF tools, IsTool
  <1>3. \A i \in 1 .. 4 : i = 1 \/ i = 2 \/ i = 3 \/ i = 4
    OBVIOUS
  <1> QED BY <1>1, <1>2, <1>3

\* Their probes.
LEMMA ProbesTyped ==
  ASSUME NEW t, NEW p \in Probes(t)
  PROVE  IsProbe(p)
  <1>1. CASE p \in [end : {"missing", "failed", "timeout", "canceled"}, output : {<<>>}]
    BY <1>1 DEF IsProbe
  <1>2. CASE p \in [end : {"ok"}, output : Outputs(t)]
    <2>1. p.end = "ok" /\ p.output \in Outputs(t)
      BY <1>2
    <2> DEFINE o == p.output
               E == Line(<<>>, FALSE)
               A == {<<Blank>>, <<Blank, Line(<<>>, TRUE)>>}
               B == {<<Line(v, FALSE)>> : v \in Numbers}
               C == {<<E, Line(v, FALSE)>> : v \in Numbers}
               F == {<<Line(v, f), Line(w, g)>> : v, w \in {<<>>, <<1, 0>>}, f, g \in BOOLEAN}
    <2>0. Outputs(t) = A \cup IF t.minimum # <<>> THEN B \cup C
                              ELSE IF t.family THEN F ELSE {<<E>>}
      BY DEF Outputs
    <2>2. o \in A \/ o \in B \/ o \in C \/ o \in F \/ o \in {<<E>>}
      <3> HIDE DEF o, A, B, C, E, F
      <3>1. o \in Outputs(t)
        BY <2>1 DEF o
      <3> QED BY <2>0, <3>1
    <2>3. ASSUME NEW f \in BOOLEAN PROVE IsLine(Line(<<>>, f)) /\ IsLine(Line(<<1, 0>>, f))
      BY DEF IsLine, Line
    <2>4. IsLine(Blank) /\ \A v \in Numbers : IsLine(Line(v, FALSE))
      BY LinesTyped
    <2>5. IsLine(E) /\ IsLine(Line(<<>>, TRUE))
      BY <2>3
    <2> HIDE DEF o, E, A, B, C, F
    <2>6. CASE o \in A \/ o \in {<<E>>}
      <3>1. IsOutput(<<Blank>>) /\ IsOutput(<<Blank, Line(<<>>, TRUE)>>) /\ IsOutput(<<E>>)
        BY <2>4, <2>5, OutputsTyped
      <3>2. IsOutput(o)
        BY <2>6, <3>1, Zenon DEF A
      <3> QED BY <2>1, <3>2 DEF IsProbe, o
    <2>7. CASE o \in B \/ o \in C
      <3>1. PICK v \in Numbers : o = <<Line(v, FALSE)>> \/ o = <<E, Line(v, FALSE)>>
        BY <2>7, Zenon DEF B, C
      <3>2. IsOutput(<<Line(v, FALSE)>>) /\ IsOutput(<<E, Line(v, FALSE)>>)
        BY <2>4, <2>5, OutputsTyped, Zenon
      <3>3. IsOutput(o)
        BY <3>1, <3>2, Zenon
      <3> QED BY <2>1, <3>3 DEF IsProbe, o
    <2>8. CASE o \in F
      <3>1. PICK v \in {<<>>, <<1, 0>>}, w \in {<<>>, <<1, 0>>}, f \in BOOLEAN, g \in BOOLEAN :
              o = <<Line(v, f), Line(w, g)>>
        BY <2>8 DEF F
      <3>2. IsLine(Line(v, f)) /\ IsLine(Line(w, g))
        BY <2>3, <3>1, Zenon
      <3>3. IsOutput(o)
        BY <3>1, <3>2, OutputsTyped, Zenon
      <3> QED BY <2>1, <3>3 DEF IsProbe, o
    <2> QED BY <2>2, <2>6, <2>7, <2>8
  <1> QED BY <1>1, <1>2 DEF Probes

\* The line that counts, as the property has it.
ShownLine(o, i) ==
    /\ ~o[i].blank
    /\ \A j \in 1 .. i - 1 : o[j].version = <<>>
    /\ \/ o[i].version # <<>>
       \/ /\ \A j \in DOMAIN o : o[j].version = <<>>
          /\ \A j \in 1 .. i - 1 : o[j].blank

\* The first of some places.
FirstPlace(S) == CHOOSE i \in S : \A j \in S : i <= j

\* It is there and it is the first.
LEMMA FirstIs ==
  ASSUME NEW S, S \subseteq Nat, S # {}
  PROVE  FirstPlace(S) \in S /\ \A j \in S : FirstPlace(S) <= j
  BY Least DEF FirstPlace

\* It is the line that versionLine finds.
LEMMA ShownIs ==
  ASSUME NEW o, IsOutput(o)
  PROVE  /\ IsLine(versionLine(o))
         /\ \A i \in DOMAIN o : ShownLine(o, i) => o[i] = versionLine(o)
         /\ ~versionLine(o).blank => \E i \in DOMAIN o : ShownLine(o, i) /\ o[i] = versionLine(o)
  <1>1. PICK n \in Nat : DOMAIN o = 1 .. n /\ \A i \in 1 .. n : IsLine(o[i])
    BY DEF IsOutput
  <1> DEFINE numbered == {i \in DOMAIN o : o[i].version # <<>>}
             written == {i \in DOMAIN o : ~o[i].blank}
             l == versionLine(o)
  <1>2. l = IF numbered # {} THEN o[FirstPlace(numbered)]
            ELSE IF written # {} THEN o[FirstPlace(written)] ELSE Blank
    BY DEF versionLine, FirstPlace
  <1>3. numbered \subseteq Nat /\ written \subseteq Nat
    BY <1>1
  <1>4. /\ \A i \in numbered : i \in 1 .. n /\ o[i].version # <<>>
        /\ \A i \in 1 .. n : i \notin numbered => o[i].version = <<>>
        /\ \A i \in written : i \in 1 .. n /\ ~o[i].blank
        /\ \A i \in 1 .. n : i \notin written => o[i].blank
    BY <1>1
  <1>5. \A i \in 1 .. n : o[i].blank => o[i].version = <<>>
    BY <1>1 DEF IsLine
  <1>6. \A i \in 1 .. n : \A j \in 1 .. n : ~(i <= j) => j \in 1 .. i - 1
    OBVIOUS
  <1>7. \A i \in 1 .. n : \A j \in 1 .. i - 1 : j \in 1 .. n /\ ~(i <= j)
    OBVIOUS
  <1> HIDE DEF numbered, written, l
  <1>8. CASE numbered # {}
    <2> DEFINE k == FirstPlace(numbered)
    <2>1. k \in numbered /\ \A j \in numbered : k <= j
      BY <1>3, <1>8, FirstIs
    <2>2. l = o[k]
      BY <1>2, <1>8
    <2> HIDE DEF k
    <2>3. ShownLine(o, k)
      BY <1>1, <1>4, <1>5, <1>7, <2>1 DEF ShownLine
    <2>4. ASSUME NEW i \in 1 .. n, ShownLine(o, i) PROVE i = k
      <3>1. i \in numbered
        BY <1>1, <1>4, <2>1, <2>4 DEF ShownLine
      <3>2. ~(k \in 1 .. i - 1)
        BY <1>4, <2>1, <2>4 DEF ShownLine
      <3>3. k <= i /\ k \in 1 .. n
        BY <1>4, <2>1, <3>1
      <3> QED BY <3>2, <3>3
    <2>5. k \in 1 .. n /\ IsLine(l)
      BY <1>1, <1>4, <2>1, <2>2
    <2> QED BY <1>1, <2>2, <2>3, <2>4, <2>5 DEF l
  <1>9. CASE numbered = {} /\ written # {}
    <2> DEFINE k == FirstPlace(written)
    <2>1. k \in written /\ \A j \in written : k <= j
      BY <1>3, <1>9, FirstIs
    <2>2. l = o[k]
      BY <1>2, <1>9
    <2> HIDE DEF k
    <2>3. ShownLine(o, k)
      BY <1>1, <1>4, <1>7, <1>9, <2>1 DEF ShownLine
    <2>4. ASSUME NEW i \in 1 .. n, ShownLine(o, i) PROVE i = k
      <3>1. i \in written
        BY <1>1, <1>4, <2>4 DEF ShownLine
      <3>2. ~(k \in 1 .. i - 1)
        BY <1>1, <1>4, <1>9, <2>1, <2>4 DEF ShownLine
      <3>3. k <= i /\ k \in 1 .. n
        BY <1>4, <2>1, <3>1
      <3> QED BY <3>2, <3>3
    <2>5. k \in 1 .. n /\ IsLine(l)
      BY <1>1, <1>4, <2>1, <2>2
    <2> QED BY <1>1, <2>2, <2>3, <2>4, <2>5 DEF l
  <1>10. CASE numbered = {} /\ written = {}
    <2>1. l = Blank /\ l.blank
      BY <1>2, <1>10 DEF Blank
    <2>2. \A i \in 1 .. n : ~ShownLine(o, i)
      BY <1>4, <1>10 DEF ShownLine
    <2> QED BY <1>1, <2>1, <2>2, LinesTyped DEF l
  <1> QED BY <1>8, <1>9, <1>10

\* Digits compare as the number they make.
Under(a, b, c) == IF a # 1 THEN a < 1 ELSE IF b # 1 THEN b < 1 ELSE c < 0
Number(a, b, c) == 100 * a + 10 * b + c

\* Three digits.
LEMMA DigitsCompare ==
  ASSUME NEW a \in 0 .. 9, NEW b \in 0 .. 9, NEW c \in 0 .. 9
  PROVE  ~Under(a, b, c) <=> Number(a, b, c) >= 110
  BY DEF Under, Number

\* Versions compare as their weights do.
LEMMA WeightIs ==
  ASSUME NEW v, Len(v) \in {2, 3}, \A i \in 1 .. Len(v) : v[i] \in 0 .. 9
  PROVE  ~lessThan(parseNumericVersion(v), parseNumericVersion(<<1, 1, 0>>))
         <=> Weight(v) >= Weight(<<1, 1, 0>>)
  <1> DEFINE p == parseNumericVersion(v)
             m == parseNumericVersion(<<1, 1, 0>>)
             c == IF Len(v) = 3 THEN v[3] ELSE 0
  <1>1. v[1] \in 0 .. 9 /\ v[2] \in 0 .. 9 /\ c \in 0 .. 9
    <2>1. \A n \in {2, 3} : 1 \in 1 .. n /\ 2 \in 1 .. n /\ (n = 3 => 3 \in 1 .. n)
      OBVIOUS
    <2>2. 1 \in 1 .. Len(v) /\ 2 \in 1 .. Len(v) /\ (Len(v) = 3 => 3 \in 1 .. Len(v))
      BY <2>1, Zenon
    <2> QED BY <2>2
  <1>2. p[1] = v[1] /\ p[2] = v[2] /\ p[3] = c
    BY DEF parseNumericVersion
  <1>3. m[1] = 1 /\ m[2] = 1 /\ m[3] = 0
    BY DEF parseNumericVersion
  <1>4. Weight(v) = Number(v[1], v[2], c)
    BY DEF Weight, Number
  <1>5. Weight(<<1, 1, 0>>) = 110
    BY DEF Weight
  <1> HIDE DEF p, m, c
  <1>6. lessThan(p, m) <=> Under(v[1], v[2], c)
    BY <1>2, <1>3 DEF lessThan, Under
  <1>7. ~Under(v[1], v[2], c) <=> Number(v[1], v[2], c) >= 110
    BY <1>1, DigitsCompare
  <1>8. ~lessThan(p, m) <=> Weight(v) >= Weight(<<1, 1, 0>>)
    BY <1>4, <1>5, <1>6, <1>7
  <1> QED BY <1>8 DEF p, m

\* What doctor makes of a probe.
Assessed(t, p) == assess(t, commandProbe(t, p))

\* What is asked of the line.
LineFits(t, l) ==
    /\ ~l.blank
    /\ t.family => l.family
    /\ t.minimum # <<>> => /\ l.version # <<>>
                           /\ ~lessThan(parseNumericVersion(l.version),
                                        parseNumericVersion(t.minimum))

\* A tool passes, or what it falls short of.
ToolPasses(t, found, l, problem) == found /\ problem = "none" /\ LineFits(t, l)
Shortcoming(t, found, l, problem) ==
    IF ~ToolPasses(t, found, l, problem) /\ problem = "none" THEN "unfit" ELSE problem

\* assess looks at presence, problem and line, in this order.
LEMMA AssessIs ==
  ASSUME NEW t, NEW found, NEW u, NEW l, NEW problem
  PROVE  assess(t, [found |-> found, usable |-> u, version |-> l, problem |-> problem])
           = [found |-> found, usable |-> ToolPasses(t, found, l, problem), version |-> l,
              problem |-> Shortcoming(t, found, l, problem)]
  <1> DEFINE r == [found |-> found, usable |-> u, version |-> l, problem |-> problem]
             ok == ToolPasses(t, found, l, problem)
             q == Shortcoming(t, found, l, problem)
  <1>1. r.found = found /\ r.problem = problem /\ r.version = l
    OBVIOUS
  <1>2. ok = /\ r.found /\ r.problem = "none"
             /\ ~r.version.blank
             /\ t.family => r.version.family
             /\ t.minimum # <<>> =>
                  /\ r.version.version # <<>>
                  /\ ~lessThan(parseNumericVersion(r.version.version),
                               parseNumericVersion(t.minimum))
    BY <1>1 DEF LineFits, ToolPasses
  <1>3. assess(t, r) = [r EXCEPT !.usable = ok, !.problem = q]
    BY <1>1 DEF assess, LineFits, Shortcoming, ToolPasses
  <1> HIDE DEF ok, q
  <1>4. assess(t, r) = [found |-> found, usable |-> ok, version |-> l, problem |-> q]
    BY <1>3
  <1> QED BY <1>4 DEF ok, q

\* Its checks of the line are those of the property.
LEMMA FitIs ==
  ASSUME NEW t, IsTool(t), NEW p, IsProbe(p)
  PROVE  /\ Fit(t, p) <=> p.end = "ok" /\ LineFits(t, versionLine(p.output))
         /\ Fit(t, p) \in BOOLEAN
  <1> DEFINE o == p.output
             l == versionLine(o)
             Meets(i) == /\ t.family => o[i].family
                         /\ t.minimum # <<>> => /\ o[i].version # <<>>
                                                /\ Weight(o[i].version) >= Weight(t.minimum)
  <1>1. Fit(t, p) <=> p.end = "ok" /\ \E i \in DOMAIN o : ShownLine(o, i) /\ Meets(i)
    BY DEF Fit, ShownLine
  <1>2. CASE p.end = "ok"
    <2>1. IsOutput(o)
      BY <1>2 DEF IsProbe
    <2>2. /\ IsLine(l)
          /\ \A i \in DOMAIN o : ShownLine(o, i) => o[i] = l
          /\ ~l.blank => \E i \in DOMAIN o : ShownLine(o, i) /\ o[i] = l
      BY <2>1, ShownIs
    <2>3. \A i \in DOMAIN o : ShownLine(o, i) => ~l.blank
      BY <2>2 DEF ShownLine
    <2>4. (t.minimum # <<>> /\ l.version # <<>>) =>
            (~lessThan(parseNumericVersion(l.version), parseNumericVersion(t.minimum))
             <=> Weight(l.version) >= Weight(t.minimum))
      <3>1. t.minimum # <<>> => t.minimum = <<1, 1, 0>>
        BY DEF IsTool
      <3>2. l.version # <<>> =>
              Len(l.version) \in {2, 3} /\ \A i \in 1 .. Len(l.version) : l.version[i] \in 0 .. 9
        BY <2>2 DEF IsLine
      <3>3. l.version # <<>> =>
              (~lessThan(parseNumericVersion(l.version), parseNumericVersion(<<1, 1, 0>>))
               <=> Weight(l.version) >= Weight(<<1, 1, 0>>))
        BY <3>2, WeightIs
      <3> QED BY <3>1, <3>3, Zenon
    <2> DEFINE fits == /\ t.family => l.family
                       /\ t.minimum # <<>> => /\ l.version # <<>>
                                              /\ Weight(l.version) >= Weight(t.minimum)
    <2>5. LineFits(t, l) <=> ~l.blank /\ fits
      BY <2>4, Zenon DEF LineFits
    <2>6. \A i \in DOMAIN o : o[i] = l => (Meets(i) <=> fits)
      BY Zenon
    <2> HIDE DEF o, l, fits, Meets
    <2>7. (\E i \in DOMAIN o : ShownLine(o, i) /\ Meets(i)) <=> ~l.blank /\ fits
      BY <2>2, <2>3, <2>6, Zenon
    <2>8. Fit(t, p) <=> LineFits(t, l)
      BY <1>1, <1>2, <2>5, <2>7, Zenon
    <2> QED BY <1>2, <2>8, Zenon DEF l, o, Fit
  <1>3. CASE p.end # "ok"
    BY <1>1, <1>3, Zenon DEF Fit
  <1> QED BY <1>2, <1>3

\* So a tool is judged as the property wants it.
LEMMA JudgedIs ==
  ASSUME NEW t, IsTool(t), NEW p, IsProbe(p)
  PROVE  /\ Assessed(t, p).usable \in BOOLEAN
         /\ Assessed(t, p).usable <=> Fit(t, p)
         /\ Assessed(t, p).usable <=> Assessed(t, p).problem = "none"
  <1> DEFINE l == IF p.end = "ok" THEN versionLine(p.output) ELSE Blank
             found == p.end # "missing"
             problem == IF p.end = "ok" THEN "none" ELSE p.end
             ok == ToolPasses(t, found, l, problem)
             after == Shortcoming(t, found, l, problem)
             r == Assessed(t, p)
  <1>1. found \in BOOLEAN /\ ok \in BOOLEAN
    BY DEF ToolPasses
  <1>2. (problem = "none" <=> p.end = "ok") /\ (p.end = "ok" => found /\ l = versionLine(p.output))
    BY DEF IsProbe
  <1>3. ok <=> Fit(t, p)
    BY <1>2, FitIs DEF ToolPasses
  <1>4. after = "none" <=> ok
    BY <1>2 DEF ToolPasses, Shortcoming
  <1>5. commandProbe(t, p) = assess(t, [found |-> found, usable |-> FALSE, version |-> l,
                                        problem |-> problem])
    BY DEF commandProbe
  <1> HIDE DEF found, l, problem
  <1>6. commandProbe(t, p) = [found |-> found, usable |-> ok, version |-> l, problem |-> after]
    BY <1>5, AssessIs
  <1> DEFINE ok2 == ToolPasses(t, found, l, after)
             last == Shortcoming(t, found, l, after)
  <1>8. (ok2 <=> ok) /\ ok2 \in BOOLEAN
    BY <1>4 DEF ToolPasses
  <1>9. last = "none" <=> ok2
    BY <1>4, <1>8 DEF Shortcoming
  <1> HIDE DEF ok, after
  <1>7. r = [found |-> found, usable |-> ok2, version |-> l, problem |-> last]
    BY <1>6, AssessIs DEF Assessed
  <1> HIDE DEF ok2, last, r
  <1>10. r.usable = ok2 /\ r.problem = last
    BY <1>7
  <1>11. r.usable \in BOOLEAN /\ (r.usable <=> Fit(t, p)) /\ (r.usable <=> r.problem = "none")
    BY <1>3, <1>8, <1>9, <1>10
  <1> QED BY <1>11 DEF r

\* What has been probed, and what was made of it.
AllProbes == UNION {Probes(tools[i]) : i \in 1 .. 4}
AllResults == {Assessed(tools[i], p) : i \in 1 .. 4, p \in AllProbes}

\* Results follow the probes, and ready their verdicts.
Probed(probes, uncancelled, results, ready) ==
    /\ probes \in Seq(AllProbes) /\ results \in Seq(AllResults)
    /\ Len(probes) = Len(results) /\ Len(results) <= 4
    /\ uncancelled \in 0 .. 4 /\ ready \in BOOLEAN
    /\ \A i \in 1 .. Len(results) :
         results[i] = Assessed(tools[i], probes[i]) /\ probes[i] \in Probes(tools[i])
    /\ ready <=> \A i \in 1 .. Len(results) : tools[i].required => results[i].usable
    /\ \A i \in 1 .. Len(results) :
         i > uncancelled => probes[i].end \in {"missing", "canceled"}

\* The inductive invariant of the probing.
ProbingInv ==
    input.kind = "doctor" =>
        /\ input = [kind |-> "doctor", probes |-> input.probes,
                    uncancelled |-> input.uncancelled]
        /\ report = [verdict |-> report.verdict, results |-> report.results,
                     ready |-> report.ready]
        /\ report.verdict = IF Len(report.results) = 4 THEN "checked" ELSE "probing"
        /\ Probed(input.probes, input.uncancelled, report.results, report.ready)

\* Nothing is probed at first.
LEMMA ProbingStart == ASSUME Init PROVE ProbingInv
  <1>1. CASE DoctorInit
    <2>1. /\ input = [kind |-> "doctor", probes |-> <<>>, uncancelled |-> 4]
          /\ report = [verdict |-> "probing", results |-> <<>>, ready |-> TRUE]
      BY <1>1, ToolsTyped DEF DoctorInit
    <2>2. Probed(<<>>, 4, <<>>, TRUE)
      BY DEF Probed
    <2> DEFINE E == <<>>
    <2>3. Len(E) = 0 /\ Probed(E, 4, E, TRUE)
      BY <2>2
    <2>4. /\ input = [kind |-> "doctor", probes |-> E, uncancelled |-> 4]
          /\ report = [verdict |-> "probing", results |-> E, ready |-> TRUE]
      BY <2>1
    <2> HIDE DEF E
    <2>5. /\ input.probes = E /\ input.uncancelled = 4 /\ report.results = E
          /\ report.ready = TRUE /\ report.verdict = "probing"
      BY <2>4
    <2>6. report.verdict = IF Len(report.results) = 4 THEN "checked" ELSE "probing"
      BY <2>3, <2>5
    <2>7. Probed(input.probes, input.uncancelled, report.results, report.ready)
      BY <2>3, <2>5
    <2>8. /\ input = [kind |-> "doctor", probes |-> input.probes,
                      uncancelled |-> input.uncancelled]
          /\ report = [verdict |-> report.verdict, results |-> report.results,
                       ready |-> report.ready]
      BY <2>4, <2>5
    <2> QED BY <2>6, <2>7, <2>8 DEF ProbingInv
  <1>2. CASE ~DoctorInit
    <2>1. input.kind # "doctor"
      BY <1>2, InitKinds DEF Init
    <2> QED BY <2>1 DEF ProbingInv
  <1> QED BY <1>1, <1>2

\* One more probe.
LEMMA ProbedMore ==
  ASSUME NEW probes, NEW u, NEW results, NEW ready, Probed(probes, u, results, ready),
         NEW n, n = Len(results) + 1, n \in 1 .. 4, NEW p \in Probes(tools[n]),
         n > u => p.end \in {"missing", "canceled"},
         NEW w, w = IF p.end = "canceled" /\ n < u THEN n ELSE u,
         NEW r, r = Assessed(tools[n], p)
  PROVE  /\ Probed(Append(probes, p), w, Append(results, r),
                   ready /\ (tools[n].required => r.usable))
         /\ Len(Append(results, r)) = n
  <1> DEFINE P == Append(probes, p)
             R == Append(results, r)
             m == Len(results)
             ok == ready /\ (tools[n].required => r.usable)
  <1>1. /\ probes \in Seq(AllProbes) /\ results \in Seq(AllResults) /\ Len(probes) = m
        /\ u \in 0 .. 4 /\ ready \in BOOLEAN /\ m \in Nat
    BY DEF Probed
  <1>2. p \in AllProbes /\ r \in AllResults
    <2>1. p \in AllProbes
      BY DEF AllProbes
    <2> QED BY <2>1 DEF AllResults
  <1>3. P \in Seq(AllProbes) /\ R \in Seq(AllResults) /\ Len(P) = n /\ Len(R) = n
    BY <1>1, <1>2
  <1>4. P[n] = p /\ R[n] = r /\ \A i \in 1 .. m : P[i] = probes[i] /\ R[i] = results[i]
    BY <1>1
  <1>5. /\ \A i \in 1 .. m :
             results[i] = Assessed(tools[i], probes[i]) /\ probes[i] \in Probes(tools[i])
        /\ ready <=> \A i \in 1 .. m : tools[i].required => results[i].usable
        /\ \A i \in 1 .. m : i > u => probes[i].end \in {"missing", "canceled"}
    BY DEF Probed
  <1>6. \A i \in 1 .. n : i \in 1 .. m \/ i = n
    BY <1>1
  <1>7. \A i \in 1 .. m : i \in 1 .. n
    BY <1>1
  <1> HIDE DEF P, R, m
  <1>8. \A i \in 1 .. n : R[i] = Assessed(tools[i], P[i]) /\ P[i] \in Probes(tools[i])
    BY <1>4, <1>5, <1>6
  <1>9. ok <=> \A i \in 1 .. n : tools[i].required => R[i].usable
    BY <1>4, <1>5, <1>6, <1>7
  <1>10. ok \in BOOLEAN
    BY <1>1, <1>9
  <1>11. w \in 0 .. 4 /\ n <= 4
    BY <1>1
  <1>12. ASSUME NEW i \in 1 .. n, i > w PROVE P[i].end \in {"missing", "canceled"}
    <2>1. CASE p.end = "canceled" /\ n < u
      BY <1>12, <2>1
    <2>2. CASE ~(p.end = "canceled" /\ n < u)
      <3>1. i > u
        BY <1>12, <2>2
      <3> QED BY <1>4, <1>5, <1>6, <3>1
    <2> QED BY <2>1, <2>2
  <1> HIDE DEF ok
  <1>13. Probed(P, w, R, ok)
    BY <1>3, <1>8, <1>9, <1>10, <1>11, <1>12 DEF Probed
  <1> QED BY <1>3, <1>13 DEF P, R, ok

\* A probe is appended.
LEMMA ProbesReplaced ==
  ASSUME NEW i, NEW a, NEW b, i = [kind |-> "doctor", probes |-> a, uncancelled |-> b],
         NEW P, NEW w, NEW r, r = [i EXCEPT !.probes = P, !.uncancelled = w]
  PROVE  r = [kind |-> "doctor", probes |-> P, uncancelled |-> w]
  OBVIOUS

\* Every step keeps the invariant.
LEMMA ProbingStep == ASSUME KindInv, ProbingInv, [Next]_calcVars PROVE ProbingInv'
  <1>1. CASE input.kind # "doctor"
    BY <1>1, KindsApart DEF ProbingInv
  <1>2. CASE UNCHANGED calcVars
    BY <1>2 DEF calcVars, ProbingInv
  <1>3. CASE input.kind = "doctor" /\ Next
    <2>1. DoctorNext
      BY <1>3, KindsApart DEF Next
    <2> DEFINE results == report.results
               n == Len(results) + 1
               u == input.uncancelled
    <2>2. /\ input = [kind |-> "doctor", probes |-> input.probes,
                      uncancelled |-> input.uncancelled]
          /\ report = [verdict |-> report.verdict, results |-> report.results,
                       ready |-> report.ready]
          /\ report.verdict = IF Len(report.results) = 4 THEN "checked" ELSE "probing"
          /\ Probed(input.probes, u, results, report.ready)
      BY <1>3 DEF ProbingInv
    <2>6. input = [kind |-> "doctor", probes |-> input.probes,
                   uncancelled |-> input.uncancelled]
      BY <2>2
    <2>3. ASSUME report.verdict = "probing" PROVE n \in 1 .. 4
      <3> DEFINE m == Len(results)
      <3>1. m \in Nat /\ m <= 4
        BY <2>2 DEF Probed
      <3>2. m # 4
        BY <2>2, <2>3
      <3> HIDE DEF m
      <3>3. m + 1 \in 1 .. 4
        BY <3>1, <3>2
      <3> QED BY <3>3 DEF m
    <2>4. CASE \E probe \in Probes(tools[n]) : Check(probe)
      <3>1. PICK p \in Probes(tools[n]) : Check(p)
        BY <2>4
      <3> DEFINE r == Assessed(tools[n], p)
                 w == IF p.end = "canceled" /\ n < u THEN n ELSE u
                 ok == report.ready /\ (tools[n].required => r.usable)
      <3>2. /\ n > u => p.end \in {"missing", "canceled"}
            /\ input' = [input EXCEPT !.probes = Append(input.probes, p), !.uncancelled = w]
            /\ report' = [verdict |-> IF n = 4 THEN "checked" ELSE "probing",
                          results |-> Append(results, r), ready |-> ok]
            /\ report.verdict = "probing"
        BY <3>1, ToolsTyped DEF Check, Assessed
      <3>3. n \in 1 .. 4
        BY <2>3, <3>2
      <3>4. Probed(Append(input.probes, p), w, Append(results, r), ok)
            /\ Len(Append(results, r)) = n
        <4> HIDE DEF r, w, n
        <4>1. w = IF p.end = "canceled" /\ n < u THEN n ELSE u
          BY DEF w
        <4>2. r = Assessed(tools[n], p) /\ n = Len(results) + 1
          BY DEF r, n
        <4> QED BY <2>2, <3>2, <3>3, <4>1, <4>2, ProbedMore
      <3> DEFINE P == Append(input.probes, p)
                 R == Append(results, r)
      <3>5. input' = [input EXCEPT !.probes = P, !.uncancelled = w]
        BY <3>2
      <3>6. report' = [verdict |-> IF n = 4 THEN "checked" ELSE "probing",
                       results |-> R, ready |-> ok]
        BY <3>2
      <3>7. Probed(P, w, R, ok) /\ Len(R) = n
        BY <3>4
      <3> HIDE DEF P, R, w, ok, n
      <3>8. input' = [kind |-> "doctor", probes |-> P, uncancelled |-> w]
        <4>1. PICK i, Q, v, a, b : /\ i = [kind |-> "doctor", probes |-> a, uncancelled |-> b]
                                  /\ Q = P /\ v = w
                                  /\ input' = [i EXCEPT !.probes = Q, !.uncancelled = v]
          BY <2>6, <3>5, Zenon
        <4>2. input' = [kind |-> "doctor", probes |-> Q, uncancelled |-> v]
          BY <4>1
        <4> QED BY <4>1, <4>2
      <3> QED BY <3>6, <3>7, <3>8 DEF ProbingInv
    <2>5. CASE CancelDoctor
      <3> DEFINE m == Len(results)
      <3>1. /\ input' = [input EXCEPT !.uncancelled = m] /\ UNCHANGED report
        BY <2>5 DEF CancelDoctor
      <3>2. input' = [kind |-> "doctor", probes |-> input.probes, uncancelled |-> m]
        BY <2>2, <3>1
      <3>3. m \in Nat /\ m <= 4
        BY <2>2 DEF Probed
      <3>4. m \in 0 .. 4 /\ \A i \in 1 .. m : ~(i > m)
        <4> HIDE DEF m
        <4> QED BY <3>3
      <3>5. Probed(input.probes, m, results, report.ready)
        BY <2>2, <3>4 DEF Probed
      <3> HIDE DEF m
      <3> QED BY <2>2, <3>1, <3>2, <3>5 DEF ProbingInv
    <2> QED BY <1>3, <2>1, <2>4, <2>5 DEF DoctorNext, ScanCpuLine, DescribeLinux, ReadingHost
  <1> QED BY <1>1, <1>2, <1>3

\* It says what the property asks.
LEMMA ReadyFollows == ASSUME ProbingInv PROVE ReadyIsEarned
  <1> SUFFICES ASSUME input.kind = "doctor" PROVE ReadyIsEarned
    BY DEF ReadyIsEarned
  <1> DEFINE results == report.results
             probes == input.probes
             m == Len(results)
  <1>1. Probed(probes, input.uncancelled, results, report.ready)
        /\ (report.verdict = "checked" => m = 4)
    BY DEF ProbingInv
  <1>2. DOMAIN results = 1 .. m /\ m \in Nat /\ m <= 4
    BY <1>1 DEF Probed
  <1>3. ASSUME NEW i \in 1 .. m
        PROVE  /\ results[i].usable <=> Fit(tools[i], probes[i])
               /\ results[i].usable <=> results[i].problem = "none"
    <2>1. i \in 1 .. 4
      BY <1>2
    <2>2. results[i] = Assessed(tools[i], probes[i]) /\ probes[i] \in Probes(tools[i])
      BY <1>1 DEF Probed
    <2> QED BY <2>1, <2>2, ToolsTyped, ProbesTyped, JudgedIs
  <1>4. report.ready <=> \A i \in 1 .. m : tools[i].required => results[i].usable
    BY <1>1 DEF Probed
  <1>5. ASSUME NEW i \in 1 .. m, i > input.uncancelled PROVE ~Fit(tools[i], probes[i])
    BY <1>1, <1>5 DEF Probed, Fit
  <1> HIDE DEF m, results, probes
  <1>6. ASSUME report.verdict = "checked"
        PROVE  /\ report.ready <=> \A i \in DOMAIN tools :
                                     tools[i].required => Fit(tools[i], probes[i])
               /\ (\E i \in DOMAIN tools : tools[i].required /\ i > input.uncancelled)
                    => ~report.ready
    <2>1. DOMAIN tools = 1 .. m
      BY <1>1, <1>6, ToolsTyped
    <2>2. report.ready <=> \A i \in DOMAIN tools : tools[i].required => Fit(tools[i], probes[i])
      BY <1>3, <1>4, <2>1
    <2> QED BY <1>5, <2>1, <2>2
  <1>7. \A i \in DOMAIN results : /\ results[i].usable <=> Fit(tools[i], probes[i])
                                  /\ results[i].usable <=> results[i].problem = "none"
    BY <1>2, <1>3
  <1> QED BY <1>6, <1>7 DEF ReadyIsEarned, results, probes

-----------------------------------------------------------------------------
(* The host.                                                               *)

\* The ids in force at line n of s.
Here(s, key, n) == {i \in 1 .. n : s[i].key = key /\ \A j \in i .. n : s[j].key # "blank"}
\* The last of some places.
LastPlace(S) == CHOOSE i \in S : \A j \in S : j <= i
\* The value of an id at line n.
LastIn(s, key, n) == IF Here(s, key, n) = {} THEN "" ELSE s[LastPlace(Here(s, key, n))].value

\* A bounded set of numbers has a greatest one.
LEMMA Greatest ==
  ASSUME NEW m \in Nat, NEW S, S \subseteq 1 .. m, S # {}
  PROVE  \E i \in S : \A j \in S : j <= i
  <1> DEFINE T == {m - i : i \in S}
  <1>1. T \subseteq Nat /\ T # {}
    <2>1. \A i \in 1 .. m : m - i \in Nat
      OBVIOUS
    <2>2. \A i \in S : m - i \in Nat
      BY <2>1
    <2> QED BY <2>2
  <1>2. PICK x \in T : \A y \in T : x <= y
    BY <1>1, Least
  <1>3. PICK i \in S : x = m - i
    BY <1>2
  <1>4. ASSUME NEW j \in S PROVE j <= i
    <2>1. m - j \in T
      OBVIOUS
    <2>2. m - i <= m - j /\ i \in 1 .. m /\ j \in 1 .. m
      BY <1>2, <1>3, <2>1
    <2> QED BY <2>2
  <1> QED BY <1>4

\* One more line.
LEMMA LastStep ==
  ASSUME NEW s, NEW key, key # "blank", NEW n \in Nat
  PROVE  LastIn(s, key, n + 1) = IF s[n + 1].key = "blank" THEN ""
                                 ELSE IF s[n + 1].key = key THEN s[n + 1].value
                                 ELSE LastIn(s, key, n)
  <1> DEFINE H == Here(s, key, n)
             K == Here(s, key, n + 1)
  <1>1. n + 1 \in 1 .. n + 1 /\ \A i \in 1 .. n + 1 : n + 1 \in i .. n + 1 /\ i <= n + 1
    OBVIOUS
  <1>2. CASE s[n + 1].key = "blank"
    <2>1. K = {}
      BY <1>1, <1>2 DEF Here
    <2> QED BY <1>2, <2>1 DEF LastIn
  <1>3. CASE s[n + 1].key # "blank" /\ s[n + 1].key = key
    <2>1. \A j \in n + 1 .. n + 1 : j = n + 1
      OBVIOUS
    <2>2. n + 1 \in K /\ \A i \in K : i \in 1 .. n + 1
      BY <1>1, <1>3, <2>1 DEF Here
    <2> HIDE DEF K
    <2>3. ASSUME NEW k \in K, \A j \in K : j <= k PROVE k = n + 1
      <3>1. k \in 1 .. n + 1 /\ n + 1 <= k
        BY <2>2, <2>3
      <3> QED BY <3>1
    <2>4. \A j \in K : j <= n + 1
      BY <1>1, <2>2
    <2>5. LastPlace(K) = n + 1
      BY <2>2, <2>3, <2>4 DEF LastPlace
    <2> QED BY <1>3, <2>2, <2>5 DEF LastIn, K
  <1>4. CASE s[n + 1].key # "blank" /\ s[n + 1].key # key
    <2>1. \A i \in 1 .. n : \A j : j \in i .. n + 1 <=> j \in i .. n \/ j = n + 1
      OBVIOUS
    <2>2. \A i : i \in 1 .. n + 1 <=> i \in 1 .. n \/ i = n + 1
      OBVIOUS
    <2>3. \A i : i \in K <=> i \in H
      BY <1>4, <2>1, <2>2 DEF Here
    <2>4. K = H
      BY <2>3
    <2> QED BY <1>4, <2>4 DEF LastIn
  <1> QED BY <1>2, <1>3, <1>4

\* The lines behind do not matter.
SameLines(s, t, n) == \A i \in 1 .. n : t[i] = s[i]

\* An id at line m depends on the lines up to m.
LEMMA LastKept ==
  ASSUME NEW s, NEW t, NEW key, NEW n \in Nat, NEW m \in 0 .. n, SameLines(s, t, n)
  PROVE  LastIn(t, key, m) = LastIn(s, key, m)
  <1>0. \A i \in 1 .. n : t[i] = s[i]
    BY DEF SameLines
  <1>1. \A i \in 1 .. m : i \in 1 .. n /\ \A j \in i .. m : j \in 1 .. n
    OBVIOUS
  <1>2. \A i : i \in Here(t, key, m) <=> i \in Here(s, key, m)
    BY <1>0, <1>1 DEF Here
  <1>3. Here(t, key, m) = Here(s, key, m)
    BY <1>2
  <1>4. CASE Here(s, key, m) = {}
    BY <1>3, <1>4 DEF LastIn
  <1>5. CASE Here(s, key, m) # {}
    <2> DEFINE S == Here(s, key, m)
               k == LastPlace(S)
    <2>1. S \subseteq 1 .. m
      BY DEF Here
    <2>2. k \in S
      <3> HIDE DEF S
      <3>1. \E i \in S : \A j \in S : j <= i
        BY <1>5, <2>1, Greatest DEF S
      <3> QED BY <3>1 DEF LastPlace
    <2>3. k \in 1 .. n
      BY <1>1, <2>1, <2>2
    <2> QED BY <1>0, <1>3, <1>5, <2>3 DEF LastIn
  <1> QED BY <1>4, <1>5

\* No line, no id.
LEMMA LastOfNone ==
  ASSUME NEW s, NEW key
  PROVE  LastIn(s, key, 0) = ""
  <1>1. Here(s, key, 0) = {}
    BY DEF Here
  <1> QED BY <1>1 DEF LastIn

\* The first line of a kind.
ValueAt(s, S) == IF S = {} THEN "" ELSE s[FirstPlace(S)].value

\* More lines leave the first line of a kind where it is.
FirstStays(s, t, n, S) ==
    /\ S # {} => ValueAt(t, S \cup {n + 1}) = ValueAt(s, S)
    /\ ValueAt(t, {n + 1}) = t[n + 1].value
    /\ ValueAt(t, S) = ValueAt(s, S)

\* The first line of a kind is the same in the longer file.
LEMMA FirstKept ==
  ASSUME NEW s, NEW t, NEW n \in Nat, NEW S,
         SameLines(s, t, n), S \subseteq 1 .. n
  PROVE  FirstStays(s, t, n, S)
  <1>1. ASSUME NEW U, U # {}, U \subseteq Nat, NEW k \in U, \A j \in U : k <= j
        PROVE  FirstPlace(U) = k
    <2>1. FirstPlace(U) \in U /\ \A j \in U : FirstPlace(U) <= j
      BY <1>1, FirstIs
    <2>2. FirstPlace(U) <= k /\ k <= FirstPlace(U) /\ k \in Nat /\ FirstPlace(U) \in Nat
      BY <1>1, <2>1
    <2> QED BY <2>2
  <1>2. S \subseteq Nat /\ \A i \in 1 .. n : i <= n + 1
    OBVIOUS
  <1>3. ASSUME S # {}
        PROVE  /\ ValueAt(t, S \cup {n + 1}) = ValueAt(s, S) /\ ValueAt(t, S) = ValueAt(s, S)
    <2> DEFINE k == FirstPlace(S)
               U == S \cup {n + 1}
    <2>1. k \in S /\ \A j \in S : k <= j
      BY <1>2, <1>3, FirstIs
    <2> HIDE DEF k
    <2>2. U # {} /\ U \subseteq Nat /\ k \in U /\ \A j \in U : k <= j
      BY <1>2, <2>1
    <2> HIDE DEF U
    <2>3. FirstPlace(U) = k
      BY <1>1, <2>2
    <2>4. t[k] = s[k]
      BY <2>1 DEF SameLines
    <2>5. ValueAt(t, U) = s[k].value
      BY <2>2, <2>3, <2>4 DEF ValueAt
    <2>6. ValueAt(s, S) = s[k].value /\ ValueAt(t, S) = t[k].value
      BY <1>3 DEF ValueAt, k
    <2> QED BY <2>4, <2>5, <2>6 DEF U
  <1>4. ValueAt(t, {n + 1}) = t[n + 1].value
    <2>1. FirstPlace({n + 1}) = n + 1
      BY <1>1
    <2> QED BY <2>1 DEF ValueAt
  <1>5. S = {} => ValueAt(t, S) = ValueAt(s, S)
    BY DEF ValueAt
  <1> QED BY <1>3, <1>4, <1>5 DEF FirstStays

\* What the scan of /proc/cpuinfo knows.
NamedLines(s) == {i \in 1 .. Len(s) : s[i].key = "model name"}
OtherLines(s) == {i \in 1 .. Len(s) : s[i].key = "Hardware" /\ s[i].value # ""}
ClosedEnds(s) == {m \in 1 .. Len(s) : m < Len(s) /\ s[m + 1].key = "blank"}
Ids(s, m) == <<LastIn(s, "physical id", m), LastIn(s, "core id", m)>>
FullIds(s, E) == {p \in {Ids(s, m) : m \in E} : p[1] # "" /\ p[2] # ""}
HostRead(s, r) ==
    /\ r.physicalID = LastIn(s, "physical id", Len(s))
    /\ r.coreID = LastIn(s, "core id", Len(s))
    /\ r.cores = FullIds(s, ClosedEnds(s))
    /\ r.named = (NamedLines(s) # {}) /\ r.model = ValueAt(s, NamedLines(s))
    /\ r.fallback = ValueAt(s, OtherLines(s))

\* The line that is added.
LineAdded(s, t, l) ==
    /\ Len(s) \in Nat /\ Len(t) = Len(s) + 1 /\ t[Len(s) + 1] = l
    /\ \A i \in 1 .. Len(s) : t[i] = s[i]

\* The lines of each kind after one more line.
LEMMA PlacesAdded ==
  ASSUME NEW s, NEW t, NEW l, LineAdded(s, t, l)
  PROVE  /\ NamedLines(t) = NamedLines(s) \cup
                            (IF l.key = "model name" THEN {Len(s) + 1} ELSE {})
         /\ OtherLines(t) = OtherLines(s) \cup
                            (IF l.key = "Hardware" /\ l.value # "" THEN {Len(s) + 1} ELSE {})
         /\ ClosedEnds(t) = ClosedEnds(s) \cup
                            (IF l.key = "blank" /\ Len(s) > 0 THEN {Len(s)} ELSE {})
         /\ NamedLines(s) \subseteq 1 .. Len(s) /\ OtherLines(s) \subseteq 1 .. Len(s)
         /\ ClosedEnds(s) \subseteq 1 .. Len(s)
  <1> DEFINE n == Len(s)
  <1>1. n \in Nat /\ Len(t) = n + 1 /\ t[n + 1] = l /\ \A i \in 1 .. n : t[i] = s[i]
    BY DEF LineAdded
  <1>2. \A i : i \in 1 .. n + 1 <=> i \in 1 .. n \/ i = n + 1
    BY <1>1
  <1>3. n + 1 \notin 1 .. n
    BY <1>1
  <1> HIDE DEF n
  <1>4. \A i : i \in NamedLines(t) <=> i \in NamedLines(s) \/ (l.key = "model name" /\ i = n + 1)
    BY <1>1, <1>2 DEF NamedLines, n
  <1>5. \A i : i \in OtherLines(t) <=>
                 i \in OtherLines(s) \/ (l.key = "Hardware" /\ l.value # "" /\ i = n + 1)
    BY <1>1, <1>2 DEF OtherLines, n
  <1>6. ASSUME NEW i
        PROVE  i \in ClosedEnds(t) <=> i \in ClosedEnds(s) \/ (l.key = "blank" /\ n > 0 /\ i = n)
    <2>1. ClosedEnds(t) = {m \in 1 .. n + 1 : m < n + 1 /\ t[m + 1].key = "blank"}
      BY <1>1 DEF ClosedEnds
    <2>2. ClosedEnds(s) = {m \in 1 .. n : m < n /\ s[m + 1].key = "blank"}
      BY DEF ClosedEnds, n
    <2>3. i \in 1 .. n + 1 /\ i < n + 1 <=> (i \in 1 .. n /\ i < n) \/ (n > 0 /\ i = n)
      BY <1>1
    <2>4. i \in 1 .. n /\ i < n => i + 1 \in 1 .. n /\ i # n
      BY <1>1
    <2>5. CASE i \in 1 .. n /\ i < n
      BY <1>1, <2>1, <2>2, <2>3, <2>4, <2>5
    <2>6. CASE n > 0 /\ i = n
      <3>1. ~(i < n) /\ i \in 1 .. n + 1 /\ i < n + 1
        BY <1>1, <2>6
      <3> QED BY <1>1, <2>1, <2>2, <2>6, <3>1
    <2>7. CASE ~(i \in 1 .. n /\ i < n) /\ ~(n > 0 /\ i = n)
      BY <2>1, <2>2, <2>3, <2>7
    <2> QED BY <2>5, <2>6, <2>7
  <1>7. NamedLines(t) = NamedLines(s) \cup (IF l.key = "model name" THEN {n + 1} ELSE {})
    BY <1>4
  <1>8. OtherLines(t) = OtherLines(s) \cup
                        (IF l.key = "Hardware" /\ l.value # "" THEN {n + 1} ELSE {})
    BY <1>5
  <1>9. ClosedEnds(t) = ClosedEnds(s) \cup (IF l.key = "blank" /\ n > 0 THEN {n} ELSE {})
    BY <1>6
  <1>10. /\ NamedLines(s) \subseteq 1 .. n /\ OtherLines(s) \subseteq 1 .. n
         /\ ClosedEnds(s) \subseteq 1 .. n
    BY DEF NamedLines, OtherLines, ClosedEnds, n
  <1> QED BY <1>7, <1>8, <1>9, <1>10 DEF n

\* The pairs of ids of the blocks.
LEMMA IdsKept ==
  ASSUME NEW s, NEW t, NEW l, LineAdded(s, t, l), NEW E, E \subseteq 1 .. Len(s)
  PROVE  FullIds(t, E) = FullIds(s, E)
  <1>1. \A m \in E : Ids(t, m) = Ids(s, m)
    <2> SUFFICES ASSUME NEW m \in E PROVE Ids(t, m) = Ids(s, m)
      OBVIOUS
    <2>1. Len(s) \in Nat /\ SameLines(s, t, Len(s)) /\ m \in 0 .. Len(s)
      BY DEF LineAdded, SameLines
    <2>2. /\ LastIn(t, "physical id", m) = LastIn(s, "physical id", m)
          /\ LastIn(t, "core id", m) = LastIn(s, "core id", m)
      <3> DEFINE n == Len(s)
      <3>1. n \in Nat /\ SameLines(s, t, n) /\ m \in 0 .. n
        BY <2>1
      <3> HIDE DEF n
      <3>2. ASSUME NEW key PROVE LastIn(t, key, m) = LastIn(s, key, m)
        BY <3>1, LastKept
      <3> QED BY <3>2
    <2> QED BY <2>2 DEF Ids
  <1>2. {Ids(t, m) : m \in E} = {Ids(s, m) : m \in E}
    BY <1>1, Zenon
  <1> QED BY <1>2 DEF FullIds

\* A blank line closes a block.
LEMMA IdsMore ==
  ASSUME NEW s, NEW E, NEW n
  PROVE  FullIds(s, E \cup {n}) =
           IF LastIn(s, "physical id", n) # "" /\ LastIn(s, "core id", n) # ""
             THEN FullIds(s, E) \cup {Ids(s, n)} ELSE FullIds(s, E)
  <1>1. Ids(s, n)[1] = LastIn(s, "physical id", n) /\ Ids(s, n)[2] = LastIn(s, "core id", n)
    BY DEF Ids
  <1>2. \A p : p \in {Ids(s, m) : m \in E \cup {n}} <=> p \in {Ids(s, m) : m \in E} \/ p = Ids(s, n)
    BY Zenon
  <1> DEFINE A == {Ids(s, m) : m \in E \cup {n}}
             B == {Ids(s, m) : m \in E}
  <1>3. FullIds(s, E \cup {n}) = {p \in A : p[1] # "" /\ p[2] # ""}
        /\ FullIds(s, E) = {p \in B : p[1] # "" /\ p[2] # ""}
    BY DEF FullIds
  <1> HIDE DEF A, B
  <1>4. \A p : p \in A <=> p \in B \/ p = Ids(s, n)
    BY <1>2 DEF A, B
  <1> QED BY <1>1, <1>3, <1>4

\* What a line changes.
AfterLine(r, l, q) ==
    /\ q.physicalID = IF l.key = "blank" THEN "" ELSE
                      IF l.key = "physical id" THEN l.value ELSE r.physicalID
    /\ q.coreID = IF l.key = "blank" THEN "" ELSE
                  IF l.key = "core id" THEN l.value ELSE r.coreID
    /\ q.cores = IF l.key = "blank" /\ r.physicalID # "" /\ r.coreID # ""
                   THEN r.cores \cup {<<r.physicalID, r.coreID>>} ELSE r.cores
    /\ q.named = (r.named \/ l.key = "model name")
    /\ q.model = IF l.key = "model name" /\ ~r.named THEN l.value ELSE r.model
    /\ q.fallback = IF l.key = "Hardware" /\ r.fallback = "" THEN l.value ELSE r.fallback

\* The keys of ids.
IdKey(key) == key \in {"physical id", "core id"}

\* A line more is read as AfterLine says.
LEMMA HostGrows ==
  ASSUME NEW s, NEW t, NEW l, LineAdded(s, t, l), NEW r, HostRead(s, r), NEW q, AfterLine(r, l, q)
  PROVE  HostRead(t, q)
  <1> DEFINE n == Len(s)
  <1>1. n \in Nat /\ Len(t) = n + 1 /\ t[n + 1] = l /\ SameLines(s, t, n) /\ n \in 0 .. n
    BY DEF LineAdded, SameLines
  <1>2. /\ NamedLines(t) = NamedLines(s) \cup (IF l.key = "model name" THEN {n + 1} ELSE {})
        /\ OtherLines(t) = OtherLines(s) \cup
                           (IF l.key = "Hardware" /\ l.value # "" THEN {n + 1} ELSE {})
        /\ ClosedEnds(t) = ClosedEnds(s) \cup (IF l.key = "blank" /\ n > 0 THEN {n} ELSE {})
        /\ NamedLines(s) \subseteq 1 .. n /\ OtherLines(s) \subseteq 1 .. n
        /\ ClosedEnds(s) \subseteq 1 .. n
    BY PlacesAdded
  <1>3. /\ r.physicalID = LastIn(s, "physical id", n)
        /\ r.coreID = LastIn(s, "core id", n)
        /\ r.cores = FullIds(s, ClosedEnds(s))
        /\ r.named = (NamedLines(s) # {}) /\ r.model = ValueAt(s, NamedLines(s))
        /\ r.fallback = ValueAt(s, OtherLines(s))
    BY DEF HostRead
  <1>4. n > 0 => n \in 1 .. n
    BY <1>1
  <1>5. ASSUME NEW S, S \subseteq 1 .. n
        PROVE  /\ S # {} => ValueAt(t, S \cup {n + 1}) = ValueAt(s, S)
               /\ ValueAt(t, {n + 1}) = l.value /\ ValueAt(t, S) = ValueAt(s, S)
    <2> HIDE DEF n
    <2>1. n \in Nat /\ SameLines(s, t, n)
      BY <1>1
    <2>2. FirstStays(s, t, n, S)
      BY <1>5, <2>1, FirstKept
    <2> QED BY <1>1, <2>2 DEF FirstStays
  <1>6. ASSUME NEW E, E \subseteq 1 .. n PROVE FullIds(t, E) = FullIds(s, E)
    BY <1>6, IdsKept
  <1>7. ASSUME NEW key, IdKey(key)
        PROVE  LastIn(t, key, n + 1) = IF l.key = "blank" THEN ""
                                       ELSE IF l.key = key THEN l.value ELSE LastIn(s, key, n)
    <2> HIDE DEF n
    <2>1. LastIn(t, key, n) = LastIn(s, key, n)
      BY <1>1, LastKept
    <2>2. key # "blank"
      BY <1>7 DEF IdKey
    <2>3. LastIn(t, key, n + 1) = IF t[n + 1].key = "blank" THEN ""
                                  ELSE IF t[n + 1].key = key THEN t[n + 1].value
                                  ELSE LastIn(t, key, n)
      BY <1>1, <2>2, LastStep
    <2> QED BY <1>1, <2>1, <2>3
  <1>8. n = 0 => r.physicalID = ""
    BY <1>3, LastOfNone
  <1> HIDE DEF n
  <1>9. q.physicalID = LastIn(t, "physical id", Len(t))
    <2>1. LastIn(t, "physical id", n + 1) = IF l.key = "blank" THEN ""
                    ELSE IF l.key = "physical id" THEN l.value ELSE LastIn(s, "physical id", n)
      BY <1>7 DEF IdKey
    <2> QED BY <1>1, <1>3, <2>1 DEF AfterLine
  <1>10. q.coreID = LastIn(t, "core id", Len(t))
    <2>1. LastIn(t, "core id", n + 1) = IF l.key = "blank" THEN ""
                    ELSE IF l.key = "core id" THEN l.value ELSE LastIn(s, "core id", n)
      BY <1>7 DEF IdKey
    <2> QED BY <1>1, <1>3, <2>1 DEF AfterLine
  <1>11. q.cores = FullIds(t, ClosedEnds(t))
    <2>1. CASE l.key = "blank" /\ n > 0
      <3>1. ClosedEnds(t) = ClosedEnds(s) \cup {n} /\ ClosedEnds(s) \cup {n} \subseteq 1 .. n
        BY <1>2, <1>4, <2>1
      <3>2. FullIds(t, ClosedEnds(t)) = FullIds(s, ClosedEnds(s) \cup {n})
        BY <1>6, <3>1
      <3>3. FullIds(s, ClosedEnds(s) \cup {n}) =
              IF r.physicalID # "" /\ r.coreID # ""
                THEN FullIds(s, ClosedEnds(s)) \cup {<<r.physicalID, r.coreID>>}
                ELSE FullIds(s, ClosedEnds(s))
        <4> DEFINE E == ClosedEnds(s)
        <4> HIDE DEF E
        <4>1. FullIds(s, E \cup {n}) =
                IF LastIn(s, "physical id", n) # "" /\ LastIn(s, "core id", n) # ""
                  THEN FullIds(s, E) \cup {Ids(s, n)} ELSE FullIds(s, E)
          BY IdsMore
        <4>2. Ids(s, n) = <<r.physicalID, r.coreID>>
          BY <1>3 DEF Ids
        <4> QED BY <1>3, <4>1, <4>2 DEF E
      <3> QED BY <1>3, <2>1, <3>2, <3>3 DEF AfterLine
    <2>2. CASE ~(l.key = "blank" /\ n > 0)
      <3>1. ClosedEnds(t) = ClosedEnds(s)
        BY <1>2, <2>2
      <3>2. FullIds(t, ClosedEnds(t)) = FullIds(s, ClosedEnds(s))
        BY <1>2, <1>6, <3>1
      <3>3. l.key = "blank" => r.physicalID = ""
        <4>1. ~(n > 0) => n = 0
          BY <1>1
        <4> QED BY <1>8, <2>2, <4>1
      <3> QED BY <1>3, <3>2, <3>3 DEF AfterLine
    <2> QED BY <2>1, <2>2
  <1>12. q.named = (NamedLines(t) # {}) /\ q.model = ValueAt(t, NamedLines(t))
    <2> DEFINE N == NamedLines(s)
               M == NamedLines(t)
    <2>1. /\ N # {} => ValueAt(t, N \cup {n + 1}) = ValueAt(s, N)
          /\ ValueAt(t, {n + 1}) = l.value /\ ValueAt(t, N) = ValueAt(s, N)
      BY <1>2, <1>5
    <2>2. M = N \cup (IF l.key = "model name" THEN {n + 1} ELSE {})
          /\ r.named = (N # {}) /\ r.model = ValueAt(s, N)
      BY <1>2, <1>3
    <2>3. q.named = (r.named \/ l.key = "model name")
          /\ q.model = IF l.key = "model name" /\ ~r.named THEN l.value ELSE r.model
      BY DEF AfterLine
    <2> HIDE DEF N, M
    <2>4. CASE l.key # "model name"
      <3>1. M = N
        BY <2>2, <2>4
      <3> QED BY <2>1, <2>2, <2>3, <2>4, <3>1 DEF M
    <2>5. CASE l.key = "model name" /\ N = {}
      <3>1. M = {n + 1}
        BY <2>2, <2>5
      <3> QED BY <2>1, <2>2, <2>3, <2>5, <3>1 DEF M
    <2>6. CASE l.key = "model name" /\ N # {}
      <3>1. M = N \cup {n + 1}
        BY <2>2, <2>6
      <3> QED BY <2>1, <2>2, <2>3, <2>6, <3>1 DEF M
    <2>7. q.named = (M # {}) /\ q.model = ValueAt(t, M)
      BY <2>4, <2>5, <2>6 DEF M
    <2> QED BY <2>7 DEF M
  <1>13. q.fallback = ValueAt(t, OtherLines(t))
    <2> DEFINE N == OtherLines(s)
               M == OtherLines(t)
    <2>1. /\ N # {} => ValueAt(t, N \cup {n + 1}) = ValueAt(s, N)
          /\ ValueAt(t, {n + 1}) = l.value /\ ValueAt(t, N) = ValueAt(s, N)
      BY <1>2, <1>5
    <2>2. M = N \cup (IF l.key = "Hardware" /\ l.value # "" THEN {n + 1} ELSE {})
          /\ r.fallback = ValueAt(s, N)
      BY <1>2, <1>3
    <2>3. q.fallback = IF l.key = "Hardware" /\ r.fallback = "" THEN l.value ELSE r.fallback
      BY DEF AfterLine
    <2>4. N = {} <=> r.fallback = ""
      <3>1. N \subseteq Nat
        <4>1. 1 .. n \subseteq Nat
          BY <1>1
        <4> QED BY <1>2, <4>1
      <3>2. N # {} => FirstPlace(N) \in N
        BY <3>1, FirstIs
      <3>3. \A i \in N : s[i].value # ""
        BY DEF OtherLines
      <3> HIDE DEF N
      <3> QED BY <2>2, <3>2, <3>3 DEF ValueAt
    <2> HIDE DEF N, M
    <2>5. CASE l.key = "Hardware" /\ l.value # "" /\ N = {}
      <3>1. M = {n + 1}
        BY <2>2, <2>5
      <3> QED BY <2>1, <2>3, <2>4, <2>5, <3>1 DEF M
    <2>6. CASE l.key = "Hardware" /\ l.value # "" /\ N # {}
      <3>1. M = N \cup {n + 1}
        BY <2>2, <2>6
      <3> QED BY <2>1, <2>2, <2>3, <2>4, <2>6, <3>1 DEF M
    <2>7. CASE ~(l.key = "Hardware" /\ l.value # "")
      <3>1. M = N
        BY <2>2, <2>7
      <3> QED BY <2>1, <2>2, <2>3, <2>4, <2>7, <3>1 DEF M
    <2> QED BY <2>5, <2>6, <2>7
  <1> QED BY <1>9, <1>10, <1>11, <1>12, <1>13 DEF HostRead

\* The report of a scan.
ScanRecord(c, p, k, n, m, f) ==
    [verdict |-> "reading", cores |-> c, physicalID |-> p, coreID |-> k,
     named |-> n, model |-> m, fallback |-> f]
HostReport(r) == \E c, p, k, n, m, f : r = ScanRecord(c, p, k, n, m, f)

\* What the host has, by the property.
BothEnds(s) == {m \in 1 .. Len(s) : m = Len(s) \/ s[m + 1].key = "blank"}
ModelIs(s) == IF NamedLines(s) # {} THEN ValueAt(s, NamedLines(s)) ELSE ValueAt(s, OtherLines(s))
Counted(s, cores, model) ==
    /\ cores = Cardinality(FullIds(s, BothEnds(s)))
    /\ model = IF ModelIs(s) = "" THEN "unknown" ELSE ModelIs(s)

\* The inductive invariant of the scan.
HostInv ==
    input.kind = "host" =>
        /\ input = [kind |-> "host", lines |-> input.lines] /\ input.lines \in Seq(CpuLines)
        /\ report.verdict = "reading" => HostReport(report) /\ HostRead(input.lines, report)
        /\ report.verdict = "described" => Counted(input.lines, report.cores, report.model)

\* No line has been read at first.
LEMMA HostStart == ASSUME Init PROVE HostInv
  <1>1. CASE HostInit
    <2>1. /\ input = [kind |-> "host", lines |-> <<>>]
          /\ report = [verdict |-> "reading", cores |-> {}, physicalID |-> "", coreID |-> "",
                       named |-> FALSE, model |-> "", fallback |-> ""]
      BY <1>1 DEF HostInit
    <2> DEFINE s == <<>>
    <2>2. Len(s) = 0 /\ s \in Seq(CpuLines)
      OBVIOUS
    <2>3. input = [kind |-> "host", lines |-> s]
      BY <2>1
    <2> HIDE DEF s
    <2>4. NamedLines(s) = {} /\ OtherLines(s) = {} /\ ClosedEnds(s) = {}
      BY <2>2 DEF NamedLines, OtherLines, ClosedEnds
    <2>5. FullIds(s, {}) = {}
      BY DEF FullIds
    <2>6. ValueAt(s, {}) = ""
      BY DEF ValueAt
    <2>7. LastIn(s, "physical id", 0) = "" /\ LastIn(s, "core id", 0) = ""
      BY LastOfNone
    <2>8. HostRead(s, report)
      BY <2>1, <2>2, <2>4, <2>5, <2>6, <2>7 DEF HostRead
    <2>9. HostReport(report) /\ report.verdict # "described"
      BY <2>1 DEF HostReport, ScanRecord
    <2>10. input.lines = s
      BY <2>3
    <2> QED BY <2>2, <2>3, <2>8, <2>9, <2>10 DEF HostInv
  <1>2. CASE ~HostInit
    <2>1. input.kind # "host"
      BY <1>2, InitKinds DEF Init
    <2> QED BY <2>1 DEF HostInv
  <1> QED BY <1>1, <1>2

\* The record of a scan with some fields replaced.
LEMMA ScanFields ==
  ASSUME NEW c, NEW p, NEW k, NEW n, NEW m, NEW f, NEW r, r = ScanRecord(c, p, k, n, m, f)
  PROVE  /\ r.cores = c /\ r.physicalID = p /\ r.coreID = k /\ r.named = n
         /\ r.model = m /\ r.fallback = f /\ r.verdict = "reading"
  BY DEF ScanRecord

\* One lemma for each field that a line can set: the physical id.
LEMMA ScanPhysical ==
  ASSUME NEW c, NEW p, NEW k, NEW n, NEW m, NEW f, NEW r, r = ScanRecord(c, p, k, n, m, f),
         NEW v, NEW q, q = [r EXCEPT !.physicalID = v]
  PROVE  q = ScanRecord(c, v, k, n, m, f)
  BY DEF ScanRecord

\* The core id.
LEMMA ScanCore ==
  ASSUME NEW c, NEW p, NEW k, NEW n, NEW m, NEW f, NEW r, r = ScanRecord(c, p, k, n, m, f),
         NEW v, NEW q, q = [r EXCEPT !.coreID = v]
  PROVE  q = ScanRecord(c, p, v, n, m, f)
  BY DEF ScanRecord

\* The name that is used where there is no model name.
LEMMA ScanFallback ==
  ASSUME NEW c, NEW p, NEW k, NEW n, NEW m, NEW f, NEW r, r = ScanRecord(c, p, k, n, m, f),
         NEW v, NEW q, q = [r EXCEPT !.fallback = v]
  PROVE  q = ScanRecord(c, p, k, n, m, v)
  BY DEF ScanRecord

\* q is the report c .. f after the end of a block.
Committed(q, c, p, k, n, m, f) ==
    q = ScanRecord(IF p # "" /\ k # "" THEN c \cup {<<p, k>>} ELSE c, "", "", n, m, f)

\* commit adds the pair of ids of the block that ends, and clears them.
LEMMA CommitIs ==
  ASSUME NEW c, NEW p, NEW k, NEW n, NEW m, NEW f, NEW r, r = ScanRecord(c, p, k, n, m, f)
  PROVE  Committed(commit(r), c, p, k, n, m, f)
  <1> DEFINE C == IF p # "" /\ k # "" THEN c \cup {<<p, k>>} ELSE c
             q == commit(r)
  <1>1. r.cores = c /\ r.physicalID = p /\ r.coreID = k
    BY ScanFields
  <1>2. q = [r EXCEPT !.cores = C, !.physicalID = "", !.coreID = ""]
    BY <1>1 DEF commit
  <1> HIDE DEF C, q
  <1>3. q = ScanRecord(C, "", "", n, m, f)
    BY <1>2 DEF ScanRecord
  <1> QED BY <1>3 DEF Committed, C, q

\* The report that a line makes of r.
LineRead(r, l, q) ==
    q = CASE l.key = "blank"       -> commit(r)
          [] l.key = "physical id" -> [r EXCEPT !.physicalID = l.value]
          [] l.key = "core id"     -> [r EXCEPT !.coreID = l.value]
          [] l.key = "model name" /\ ~r.named ->
               [[r EXCEPT !.model = l.value] EXCEPT !.named = TRUE]
          [] l.key = "Hardware" /\ r.fallback = "" -> [r EXCEPT !.fallback = l.value]
          [] OTHER -> r

\* A line is read into the report.
LEMMA ScanIs ==
  ASSUME NEW r, HostReport(r), r.named \in BOOLEAN, NEW l, NEW q,
         LineRead(r, l, q)
  PROVE  HostReport(q) /\ AfterLine(r, l, q)
  <1>1. PICK c, p, k, n, m, f : r = ScanRecord(c, p, k, n, m, f)
    BY DEF HostReport
  <1>2. /\ r.cores = c /\ r.physicalID = p /\ r.coreID = k /\ r.named = n
        /\ r.model = m /\ r.fallback = f
    BY <1>1, ScanFields
  <1>3. ASSUME NEW d, NEW e, NEW g, NEW h, NEW i, NEW j, q = ScanRecord(d, e, g, h, i, j)
        PROVE  /\ HostReport(q) /\ q.cores = d /\ q.physicalID = e /\ q.coreID = g
               /\ q.named = h /\ q.model = i /\ q.fallback = j
    BY <1>3, ScanFields DEF HostReport
  <1>4. CASE l.key = "blank"
    <2> DEFINE C == IF p # "" /\ k # "" THEN c \cup {<<p, k>>} ELSE c
    <2>1. q = commit(r)
      BY <1>4 DEF LineRead
    <2>2. q = ScanRecord(C, "", "", n, m, f)
      <3>1. Committed(q, c, p, k, n, m, f)
        BY <1>1, <2>1, CommitIs
      <3> QED BY <3>1 DEF Committed
    <2> HIDE DEF C
    <2>3. /\ HostReport(q) /\ q.cores = C /\ q.physicalID = "" /\ q.coreID = ""
          /\ q.named = n /\ q.model = m /\ q.fallback = f
      BY <1>3, <2>2
    <2> QED BY <1>2, <1>4, <2>3 DEF AfterLine, C
  <1>5. CASE l.key = "physical id"
    <2>1. q = [r EXCEPT !.physicalID = l.value]
      BY <1>5 DEF LineRead
    <2>2. PICK v : v = l.value
      OBVIOUS
    <2>3. q = ScanRecord(c, v, k, n, m, f)
      BY <1>1, <2>1, <2>2, ScanPhysical
    <2>4. /\ HostReport(q) /\ q.cores = c /\ q.physicalID = v /\ q.coreID = k
          /\ q.named = n /\ q.model = m /\ q.fallback = f
      BY <1>3, <2>3
    <2> QED BY <1>2, <1>5, <2>2, <2>4 DEF AfterLine
  <1>6. CASE l.key = "core id"
    <2>1. q = [r EXCEPT !.coreID = l.value]
      BY <1>6 DEF LineRead
    <2>2. PICK v : v = l.value
      OBVIOUS
    <2>3. q = ScanRecord(c, p, v, n, m, f)
      BY <1>1, <2>1, <2>2, ScanCore
    <2>4. /\ HostReport(q) /\ q.cores = c /\ q.physicalID = p /\ q.coreID = v
          /\ q.named = n /\ q.model = m /\ q.fallback = f
      BY <1>3, <2>3
    <2> QED BY <1>2, <1>6, <2>2, <2>4 DEF AfterLine
  <1>7. CASE l.key = "model name" /\ ~r.named
    <2>1. q = [[r EXCEPT !.model = l.value] EXCEPT !.named = TRUE]
      BY <1>7 DEF LineRead
    <2>2. PICK v : v = l.value
      OBVIOUS
    <2>3. q = ScanRecord(c, p, k, TRUE, v, f)
      BY <1>1, <2>1, <2>2 DEF ScanRecord
    <2>4. /\ HostReport(q) /\ q.cores = c /\ q.physicalID = p /\ q.coreID = k
          /\ q.named = TRUE /\ q.model = v /\ q.fallback = f
      BY <1>3, <2>3
    <2> QED BY <1>2, <1>7, <2>2, <2>4 DEF AfterLine
  <1>8. CASE l.key = "Hardware" /\ r.fallback = ""
    <2>1. q = [r EXCEPT !.fallback = l.value]
      BY <1>8 DEF LineRead
    <2>2. PICK v : v = l.value
      OBVIOUS
    <2>3. q = ScanRecord(c, p, k, n, m, v)
      BY <1>1, <2>1, <2>2, ScanFallback
    <2>4. /\ HostReport(q) /\ q.cores = c /\ q.physicalID = p /\ q.coreID = k
          /\ q.named = n /\ q.model = m /\ q.fallback = v
      BY <1>3, <2>3
    <2> QED BY <1>2, <1>8, <2>2, <2>4 DEF AfterLine
  <1>9. CASE /\ l.key \notin {"blank", "physical id", "core id"}
             /\ ~(l.key = "model name" /\ ~r.named)
             /\ ~(l.key = "Hardware" /\ r.fallback = "")
    <2>1. q = r
      BY <1>9 DEF LineRead
    <2> QED BY <1>9, <2>1 DEF AfterLine
  <1> QED BY <1>4, <1>5, <1>6, <1>7, <1>8, <1>9

\* The blocks end at the closed ends and at the last line.
LEMMA EndsAre ==
  ASSUME NEW s, Len(s) \in Nat
  PROVE  /\ Len(s) > 0 => BothEnds(s) = ClosedEnds(s) \cup {Len(s)}
         /\ Len(s) = 0 => BothEnds(s) = {} /\ ClosedEnds(s) = {}
  <1> DEFINE n == Len(s)
  <1>1. n \in Nat /\ BothEnds(s) = {m \in 1 .. n : m = n \/ s[m + 1].key = "blank"}
        /\ ClosedEnds(s) = {m \in 1 .. n : m < n /\ s[m + 1].key = "blank"}
    BY DEF BothEnds, ClosedEnds
  <1> HIDE DEF n
  <1>2. \A m \in 1 .. n : m < n \/ m = n
    BY <1>1
  <1>3. n > 0 => n \in 1 .. n
    BY <1>1
  <1>4. n = 0 => 1 .. n = {}
    OBVIOUS
  <1> QED BY <1>1, <1>2, <1>3, <1>4 DEF n

\* The end of the file closes the last block.
LEMMA AllCounted ==
  ASSUME NEW s, Len(s) \in Nat, NEW r, HostReport(r), HostRead(s, r)
  PROVE  /\ commit(r).cores = FullIds(s, BothEnds(s))
         /\ (IF commit(r).named THEN commit(r).model ELSE commit(r).fallback) = ModelIs(s)
  <1>1. PICK c, p, k, n, m, f : r = ScanRecord(c, p, k, n, m, f)
    BY DEF HostReport
  <1>2. /\ r.cores = c /\ r.physicalID = p /\ r.coreID = k /\ r.named = n
        /\ r.model = m /\ r.fallback = f
    BY <1>1, ScanFields
  <1> DEFINE C == IF p # "" /\ k # "" THEN c \cup {<<p, k>>} ELSE c
             q == commit(r)
  <1>3. q = ScanRecord(C, "", "", n, m, f)
    <2>1. Committed(q, c, p, k, n, m, f)
      BY <1>1, CommitIs
    <2> QED BY <2>1 DEF Committed
  <1> HIDE DEF C, q
  <1>4. q.cores = C /\ q.named = n /\ q.model = m /\ q.fallback = f
    BY <1>3 DEF ScanRecord
  <1>5. /\ p = LastIn(s, "physical id", Len(s)) /\ k = LastIn(s, "core id", Len(s))
        /\ c = FullIds(s, ClosedEnds(s))
        /\ n = (NamedLines(s) # {}) /\ m = ValueAt(s, NamedLines(s))
        /\ f = ValueAt(s, OtherLines(s))
    BY <1>2 DEF HostRead
  <1>6. C = FullIds(s, BothEnds(s))
    <2> DEFINE E == ClosedEnds(s)
               l == Len(s)
    <2>1. FullIds(s, E \cup {l}) =
            IF LastIn(s, "physical id", l) # "" /\ LastIn(s, "core id", l) # ""
              THEN FullIds(s, E) \cup {Ids(s, l)} ELSE FullIds(s, E)
      <3> HIDE DEF E, l
      <3> QED BY IdsMore
    <2>2. Ids(s, l) = <<p, k>>
      BY <1>5 DEF Ids
    <2>3. CASE l > 0
      <3>1. BothEnds(s) = E \cup {l}
        BY <2>3, EndsAre
      <3> QED BY <1>5, <2>1, <2>2, <3>1 DEF C
    <2>4. CASE l = 0
      <3>1. BothEnds(s) = E
        BY <2>4, EndsAre
      <3>2. p = ""
        BY <1>5, <2>4, LastOfNone
      <3> QED BY <1>5, <3>1, <3>2 DEF C
    <2>5. l > 0 \/ l = 0
      OBVIOUS
    <2> QED BY <2>3, <2>4, <2>5
  <1>7. (IF q.named THEN q.model ELSE q.fallback) = ModelIs(s)
    BY <1>4, <1>5 DEF ModelIs
  <1> QED BY <1>4, <1>6, <1>7 DEF q

\* A line is appended.
LEMMA LineAppended ==
  ASSUME NEW S, NEW s \in Seq(S), NEW l \in S
  PROVE  LineAdded(s, Append(s, l), l) /\ Append(s, l) \in Seq(S) /\ Len(s) \in Nat
  BY DEF LineAdded

\* Every step keeps it.
LEMMA HostStep == ASSUME KindInv, HostInv, [Next]_calcVars PROVE HostInv'
  <1>1. CASE input.kind # "host"
    BY <1>1, KindsApart DEF HostInv
  <1>2. CASE UNCHANGED calcVars
    BY <1>2 DEF calcVars, HostInv
  <1>3. CASE input.kind = "host" /\ Next
    <2>1. DoctorNext
      BY <1>3, KindsApart DEF Next
    <2>2. /\ input = [kind |-> "host", lines |-> input.lines] /\ input.lines \in Seq(CpuLines)
          /\ report.verdict = "reading" => HostReport(report) /\ HostRead(input.lines, report)
      BY <1>3 DEF HostInv
    <2>3. ASSUME NEW line \in CpuLines, ScanCpuLine(line) PROVE HostInv'
      <3>1. report.verdict = "reading" /\ input' = [input EXCEPT !.lines = Append(@, line)]
        BY <2>3 DEF ScanCpuLine, ReadingHost
      <3>2. PICK s : s = input.lines
        OBVIOUS
      <3>3. PICK t : t = Append(s, line)
        OBVIOUS
      <3>4. PICK r : r = report
        OBVIOUS
      <3>5. PICK q : q = report'
        OBVIOUS
      <3>6. LineAdded(s, t, line) /\ t \in Seq(CpuLines)
        BY <2>2, <3>2, <3>3, LineAppended
      <3>7. input' = [kind |-> "host", lines |-> t]
        <4>1. input = [kind |-> "host", lines |-> s] /\ input' = [input EXCEPT !.lines = t]
          BY <2>2, <3>1, <3>2, <3>3
        <4> QED BY <4>1
      <3>8. HostReport(r) /\ HostRead(s, r)
        BY <2>2, <3>1, <3>2, <3>4
      <3>9. r.named \in BOOLEAN
        BY <3>8 DEF HostRead
      <3>10. LineRead(r, line, q)
        BY <2>3, <3>4, <3>5 DEF ScanCpuLine, LineRead
      <3>11. HostReport(q) /\ AfterLine(r, line, q)
        BY <3>8, <3>9, <3>10, ScanIs
      <3>12. HostRead(t, q)
        BY <3>6, <3>8, <3>11, HostGrows
      <3>13. q.verdict # "described"
        <4>1. PICK c, p, k, n, m, f : q = ScanRecord(c, p, k, n, m, f)
          BY <3>11 DEF HostReport
        <4> QED BY <4>1 DEF ScanRecord
      <3>14. input'.lines = t /\ input'.kind = "host"
        BY <3>7
      <3> QED BY <3>5, <3>6, <3>7, <3>11, <3>12, <3>13, <3>14 DEF HostInv
    <2>4. ASSUME DescribeLinux PROVE HostInv'
      <3>1. report.verdict = "reading" /\ UNCHANGED input
        BY <2>4 DEF DescribeLinux, ReadingHost, Answer
      <3>2. PICK s : s = input.lines
        OBVIOUS
      <3>3. PICK q : q = commit(report)
        OBVIOUS
      <3>4. PICK m : m = IF q.named THEN q.model ELSE q.fallback
        OBVIOUS
      <3>5. report' = [verdict |-> "described", cores |-> Cardinality(q.cores),
                       model |-> IF m = "" THEN "unknown" ELSE m]
        BY <2>4, <3>3, <3>4 DEF DescribeLinux, Answer
      <3>6. Len(s) \in Nat
        BY <2>2, <3>2
      <3>7. HostReport(report) /\ HostRead(s, report)
        BY <2>2, <3>1, <3>2
      <3>8. q.cores = FullIds(s, BothEnds(s)) /\ m = ModelIs(s)
        BY <3>3, <3>4, <3>6, <3>7, AllCounted
      <3>9. Counted(s, report'.cores, report'.model) /\ report'.verdict # "reading"
        BY <3>5, <3>8 DEF Counted
      <3>10. input'.lines = s /\ input'.kind = "host" /\ input' = input
        BY <1>3, <3>1, <3>2
      <3> QED BY <2>2, <3>2, <3>9, <3>10 DEF HostInv
    <2> QED BY <1>3, <2>1, <2>3, <2>4 DEF DoctorNext, CancelDoctor
  <1> QED BY <1>1, <1>2, <1>3

\* The invariant says what the property asks.
LEMMA HostFollows == ASSUME HostInv PROVE CoresAreCounted
  <1> SUFFICES ASSUME input.kind = "host" /\ report.verdict = "described" PROVE CoresAreCounted
    BY DEF CoresAreCounted
  <1>1. PICK s : s = input.lines
    OBVIOUS
  <1>2. s \in Seq(CpuLines) /\ Counted(s, report.cores, report.model)
    BY <1>1 DEF HostInv
  <1>3. Len(s) \in Nat /\ DOMAIN s = 1 .. Len(s)
    BY <1>2
  <1>4. ASSUME NEW key, NEW n PROVE LastOf(key, n) = LastIn(s, key, n)
    BY <1>1 DEF LastOf, LastIn, Here, LastPlace
  <1>5. BlockEnds = BothEnds(s)
    BY <1>1 DEF BlockEnds, BothEnds
  <1>6. ASSUME NEW S PROVE FirstValue(S) = s[FirstPlace(S)].value
    BY <1>1 DEF FirstValue, FirstPlace
  <1> DEFINE pairs == {<<LastOf("physical id", n), LastOf("core id", n)>> : n \in BlockEnds}
             named == {i \in DOMAIN input.lines : input.lines[i].key = "model name"}
             others == {i \in DOMAIN input.lines :
                          input.lines[i].key = "Hardware" /\ input.lines[i].value # ""}
             model == IF named # {} THEN FirstValue(named)
                      ELSE IF others # {} THEN FirstValue(others) ELSE ""
  <1>7. named = NamedLines(s) /\ others = OtherLines(s)
    BY <1>1, <1>3 DEF NamedLines, OtherLines
  <1>8. {p \in pairs : p[1] # "" /\ p[2] # ""} = FullIds(s, BothEnds(s))
    <2>1. \A n \in BothEnds(s) : <<LastOf("physical id", n), LastOf("core id", n)>> = Ids(s, n)
      BY <1>4 DEF Ids
    <2>2. pairs = {Ids(s, n) : n \in BothEnds(s)}
      BY <1>5, <2>1, Zenon
    <2> HIDE DEF pairs
    <2> QED BY <2>2 DEF FullIds
  <1> HIDE DEF pairs, named, others
  <1>9. model = ModelIs(s)
    BY <1>6, <1>7 DEF ModelIs, ValueAt
  <1> HIDE DEF model
  <1>10. /\ report.cores = Cardinality({p \in pairs : p[1] # "" /\ p[2] # ""})
         /\ report.model = IF model = "" THEN "unknown" ELSE model
    BY <1>2, <1>8, <1>9 DEF Counted
  <1> QED BY <1>10 DEF CoresAreCounted, pairs, named, others, model

\* doctor is ready exactly if every required tool is fit and none of them was probed
\* after an interrupt, and it counts the cores of all blocks of /proc/cpuinfo and
\* names the model as the file does (Check, assess, linuxPhysicalCoreCount,
\* linuxCPUModel).  For files of every length.
THEOREM DoctorTellsTheTruth == Spec => []DoctorIsRight
  <1>1. Init => ProbingInv /\ HostInv
    BY ProbingStart, HostStart
  <1>2. KindInv /\ ProbingInv /\ HostInv /\ [Next]_calcVars => ProbingInv' /\ HostInv'
    BY ProbingStep, HostStep
  <1>3. ProbingInv /\ HostInv => DoctorIsRight
    BY ReadyFollows, HostFollows DEF DoctorIsRight
  <1> QED BY <1>1, <1>2, <1>3, KindInvariant, PTL DEF Spec

-----------------------------------------------------------------------------
(* Division, and the ratios made with it.                                  *)

\* Each of these facts about products is a lemma of its own for the provers.
LEMMA TimesNat == ASSUME NEW a \in Nat, NEW b \in Nat PROVE a * b \in Nat
  OBVIOUS
\* Products are monotonic.
LEMMA TimesGrows == ASSUME NEW a \in Nat, NEW b \in Nat, NEW c \in Nat, a <= b
                    PROVE  a * c <= b * c
  OBVIOUS
\* One factor more.
LEMMA TimesNext == ASSUME NEW a \in Nat, NEW c \in Nat PROVE (a + 1) * c = a * c + c
  OBVIOUS
\* Products distribute.
LEMMA TimesSum == ASSUME NEW a \in Nat, NEW b \in Nat, NEW c \in Nat
                  PROVE  c * (a + b) = c * a + c * b
  OBVIOUS
\* Factors commute.
LEMMA TimesOther == ASSUME NEW a \in Nat, NEW b \in Nat PROVE a * b = b * a
  OBVIOUS
\* Strictly.
LEMMA TimesMore == ASSUME NEW a \in Nat, NEW b \in Nat, NEW c \in Nat \ {0}, a < b
                   PROVE  a * c < b * c
  OBVIOUS

\* A quotient is a number,
LEMMA DivNat == ASSUME NEW a \in Nat, NEW b \in Nat \ {0} PROVE a \div b \in Nat
  OBVIOUS
\* it is no more than the true one,
LEMMA DivBelow == ASSUME NEW a \in Nat, NEW b \in Nat \ {0} PROVE (a \div b) * b <= a
  OBVIOUS
\* and less by less than 1.
LEMMA DivAbove == ASSUME NEW a \in Nat, NEW b \in Nat \ {0} PROVE a < (a \div b) * b + b
  OBVIOUS
\* What is left.
LEMMA RestIs == ASSUME NEW a \in Nat, NEW b \in Nat \ {0} PROVE a % b = a - (a \div b) * b
  OBVIOUS

\* q is the quotient of a and b, rounded down.
IsFloor(q, a, b) == q \in Nat /\ q * b <= a /\ a < q * b + b

\* The quotient of the model is one.
LEMMA FloorIs == ASSUME NEW a \in Nat, NEW b \in Nat \ {0} PROVE IsFloor(a \div b, a, b)
  BY DivNat, DivBelow, DivAbove DEF IsFloor

\* It reaches a number exactly if that number fits.
LEMMA FloorReaches ==
  ASSUME NEW a \in Nat, NEW b \in Nat \ {0}, NEW q, IsFloor(q, a, b), NEW c \in Nat
  PROVE  c <= q <=> c * b <= a
  <1>1. q \in Nat /\ q * b <= a /\ a < q * b + b
    BY DEF IsFloor
  <1>2. q * b \in Nat /\ c * b \in Nat
    BY <1>1, TimesNat
  <1>3. CASE c <= q
    <2>1. c * b <= q * b
      BY <1>1, <1>3, TimesGrows
    <2> QED BY <1>1, <1>2, <1>3, <2>1
  <1>4. CASE ~(c <= q)
    <2>1. q + 1 <= c /\ q + 1 \in Nat
      BY <1>1, <1>4
    <2>2. (q + 1) * b <= c * b
      BY <2>1, TimesGrows
    <2>3. (q + 1) * b = q * b + b
      BY <1>1, TimesNext
    <2> QED BY <1>1, <1>2, <1>4, <2>2, <2>3
  <1> QED BY <1>3, <1>4

-----------------------------------------------------------------------------
(* More about sums.                                                        *)

\* Two sequences, and a set of positions where the second has one more.
Raised(s, t, B) ==
    /\ Len(t) = Len(s) /\ B \subseteq 1 .. Len(s)
    /\ \A i \in 1 .. Len(s) : t[i] = IF i \in B THEN s[i] + 1 ELSE s[i]
TotalRaised(s, t, B) == TrueSum(t) = TrueSum(s) + Cardinality(B)

\* The sum is raised by the size of that set.
LEMMA SumPlus ==
  ASSUME NEW s, NEW t, Numbered(s), Numbered(t), NEW B, Raised(s, t, B)
  PROVE  TotalRaised(s, t, B)
  <1> DEFINE N == Len(s)
             F == Sums(s)
             G == Sums(t)
             C(n) == Cardinality(B \cap (1 .. n))
             T == {n \in 0 .. N : C(n) \in Nat /\ G[n] = F[n] + C(n)}
  <1>1. /\ N \in Nat /\ F[0] = 0 /\ G[0] = 0 /\ F \in [0 .. N -> Nat] /\ G \in [0 .. N -> Nat]
        /\ \A n \in 1 .. N : F[n] = F[n - 1] + s[n] /\ G[n] = G[n - 1] + t[n]
        /\ \A n \in 1 .. N : s[n] \in Nat /\ t[n] \in Nat
        /\ TrueSum(s) = F[N] /\ TrueSum(t) = G[N]
    BY SumsAre DEF Numbered, Raised
  <1> HIDE DEF F, G
  <1>2. 0 \in T
    <2>1. B \cap (1 .. 0) = {}
      OBVIOUS
    <2>2. C(0) = 0
      BY <2>1, FS_EmptySet
    <2> QED BY <1>1, <2>2
  <1>3. ASSUME NEW n \in 0 .. N - 1, n \in T PROVE n + 1 \in T
    <2>1. n + 1 \in 1 .. N /\ (n + 1) - 1 = n /\ n + 1 \in 0 .. N /\ n \in 0 .. N /\ n \in Nat
      BY <1>1
    <2>2. IsFiniteSet(B \cap (1 .. n))
      <3>1. IsFiniteSet(1 .. n)
        BY <2>1, FS_Interval
      <3> QED BY <3>1, FS_Subset
    <2>3. CASE n + 1 \in B
      <3>1. B \cap (1 .. n + 1) = (B \cap (1 .. n)) \cup {n + 1} /\ n + 1 \notin B \cap (1 .. n)
        BY <2>1, <2>3
      <3>2. C(n + 1) = C(n) + 1
        BY <2>2, <3>1, FS_AddElement
      <3>3. t[n + 1] = s[n + 1] + 1 /\ G[n + 1] = G[n] + t[n + 1] /\ F[n + 1] = F[n] + s[n + 1]
            /\ s[n + 1] \in Nat /\ F[n] \in Nat /\ G[n] = F[n] + C(n) /\ C(n) \in Nat
        BY <1>1, <1>3, <2>1, <2>3 DEF Raised
      <3> HIDE DEF C
      <3>4. PICK a, b, c : a = F[n] /\ b = s[n + 1] /\ c = C(n)
        OBVIOUS
      <3>5. a \in Nat /\ b \in Nat /\ c \in Nat
        BY <3>3, <3>4
      <3>6. (a + c) + (b + 1) = (a + b) + (c + 1)
        BY <3>5
      <3>7. C(n + 1) \in Nat /\ G[n + 1] = F[n + 1] + C(n + 1)
        BY <3>2, <3>3, <3>4, <3>5, <3>6, SMTT(30)
      <3> QED BY <2>1, <3>7
    <2>4. CASE n + 1 \notin B
      <3>1. B \cap (1 .. n + 1) = B \cap (1 .. n)
        BY <2>1, <2>4
      <3>2. C(n + 1) = C(n)
        BY <3>1
      <3>3. t[n + 1] = s[n + 1] /\ G[n + 1] = G[n] + t[n + 1] /\ F[n + 1] = F[n] + s[n + 1]
            /\ s[n + 1] \in Nat /\ F[n] \in Nat /\ G[n] = F[n] + C(n) /\ C(n) \in Nat
        BY <1>1, <1>3, <2>1, <2>4 DEF Raised
      <3> HIDE DEF C
      <3> QED BY <2>1, <3>2, <3>3
    <2> QED BY <2>3, <2>4
  <1>4. N \in T
    <2>1. N \in 0 .. N
      BY <1>1
    <2> HIDE DEF T
    <2> QED BY <1>1, <1>2, <1>3, <2>1, Induct
  <1>5. B \cap (1 .. N) = B
    BY DEF Raised
  <1> QED BY <1>1, <1>4, <1>5 DEF TotalRaised

\* The sum of numbers of at most c, of which only those of B are positive.
LEMMA SumBounded ==
  ASSUME NEW s, Numbered(s), NEW B, B \subseteq 1 .. Len(s), NEW c \in Nat,
         \A i \in 1 .. Len(s) : s[i] <= IF i \in B THEN c ELSE 0
  PROVE  TrueSum(s) <= Cardinality(B) * c /\ Cardinality(B) \in Nat
  <1> DEFINE N == Len(s)
             F == Sums(s)
             C(n) == Cardinality(B \cap (1 .. n))
             T == {n \in 0 .. N : C(n) \in Nat /\ F[n] <= C(n) * c}
  <1>1. /\ N \in Nat /\ F[0] = 0 /\ F \in [0 .. N -> Nat]
        /\ \A n \in 1 .. N : F[n] = F[n - 1] + s[n]
        /\ \A n \in 1 .. N : s[n] \in Nat
        /\ TrueSum(s) = F[N]
    BY SumsAre DEF Numbered
  <1> HIDE DEF F
  <1>2. 0 \in T
    <2>1. B \cap (1 .. 0) = {}
      OBVIOUS
    <2>2. C(0) = 0
      BY <2>1, FS_EmptySet
    <2> QED BY <1>1, <2>2
  <1>3. ASSUME NEW n \in 0 .. N - 1, n \in T PROVE n + 1 \in T
    <2>1. n + 1 \in 1 .. N /\ (n + 1) - 1 = n /\ n + 1 \in 0 .. N /\ n \in 0 .. N /\ n \in Nat
      BY <1>1
    <2>2. IsFiniteSet(B \cap (1 .. n))
      <3>1. IsFiniteSet(1 .. n)
        BY <2>1, FS_Interval
      <3> QED BY <3>1, FS_Subset
    <2>3. CASE n + 1 \in B
      <3>1. B \cap (1 .. n + 1) = (B \cap (1 .. n)) \cup {n + 1} /\ n + 1 \notin B \cap (1 .. n)
        BY <2>1, <2>3
      <3>2. C(n + 1) = C(n) + 1
        BY <2>2, <3>1, FS_AddElement
      <3>3. s[n + 1] <= c /\ F[n + 1] = F[n] + s[n + 1]
            /\ s[n + 1] \in Nat /\ F[n] \in Nat /\ F[n] <= C(n) * c /\ C(n) \in Nat
        BY <1>1, <1>3, <2>1, <2>3
      <3> HIDE DEF C
      <3>4. (C(n) + 1) * c = C(n) * c + c /\ C(n) * c \in Nat
        BY <3>3, TimesNext, TimesNat
      <3> QED BY <2>1, <3>2, <3>3, <3>4, SMTT(30)
    <2>4. CASE n + 1 \notin B
      <3>1. B \cap (1 .. n + 1) = B \cap (1 .. n)
        BY <2>1, <2>4
      <3>2. C(n + 1) = C(n)
        BY <3>1
      <3>3. s[n + 1] <= 0 /\ F[n + 1] = F[n] + s[n + 1]
            /\ s[n + 1] \in Nat /\ F[n] \in Nat /\ F[n] <= C(n) * c /\ C(n) \in Nat
        BY <1>1, <1>3, <2>1, <2>4
      <3> HIDE DEF C
      <3>4. F[n + 1] = F[n]
        BY <3>3
      <3> QED BY <2>1, <3>2, <3>3, <3>4
    <2> QED BY <2>3, <2>4
  <1>4. N \in T
    <2>1. N \in 0 .. N
      BY <1>1
    <2> HIDE DEF T
    <2> QED BY <1>1, <1>2, <1>3, <2>1, Induct
  <1>5. B \cap (1 .. N) = B
    OBVIOUS
  <1> QED BY <1>1, <1>4, <1>5

\* The sum of what divisions by d give, and of what they leave.
Divided(v, q, r, d, c) ==
    /\ Len(q) = Len(v) /\ Len(r) = Len(v)
    /\ \A i \in 1 .. Len(v) : d * q[i] + r[i] = c * v[i]
TotalDivided(v, q, r, d, c) == d * TrueSum(q) + TrueSum(r) = c * TrueSum(v)

\* They make up the whole.
LEMMA SumDivided ==
  ASSUME NEW v, NEW q, NEW r, Numbered(v), Numbered(q), Numbered(r),
         NEW d \in Nat, NEW c \in Nat, Divided(v, q, r, d, c)
  PROVE  TotalDivided(v, q, r, d, c)
  <1> DEFINE N == Len(v)
             F == Sums(v)
             G == Sums(q)
             H == Sums(r)
             T == {n \in 0 .. N : d * G[n] + H[n] = c * F[n]}
  <1>1. /\ N \in Nat /\ F[0] = 0 /\ G[0] = 0 /\ H[0] = 0
        /\ F \in [0 .. N -> Nat] /\ G \in [0 .. N -> Nat] /\ H \in [0 .. N -> Nat]
        /\ TrueSum(v) = F[N] /\ TrueSum(q) = G[N] /\ TrueSum(r) = H[N]
    BY SumsAre DEF Numbered, Divided
  <1>2. \A n \in 1 .. N : /\ F[n] = F[n - 1] + v[n] /\ G[n] = G[n - 1] + q[n]
                          /\ H[n] = H[n - 1] + r[n]
                          /\ v[n] \in Nat /\ q[n] \in Nat /\ r[n] \in Nat
    BY SumsAre DEF Numbered, Divided
  <1> HIDE DEF F, G, H
  <1>3. 0 \in T
    BY <1>1
  <1>4. ASSUME NEW n \in 0 .. N - 1, n \in T PROVE n + 1 \in T
    <2>1. n + 1 \in 1 .. N /\ (n + 1) - 1 = n /\ n + 1 \in 0 .. N /\ n \in 0 .. N
      BY <1>1
    <2>2. /\ F[n + 1] = F[n] + v[n + 1] /\ G[n + 1] = G[n] + q[n + 1]
          /\ H[n + 1] = H[n] + r[n + 1]
          /\ v[n + 1] \in Nat /\ q[n + 1] \in Nat /\ r[n + 1] \in Nat
          /\ F[n] \in Nat /\ G[n] \in Nat /\ H[n] \in Nat
      BY <1>1, <1>2, <2>1
    <2>3. d * G[n] + H[n] = c * F[n] /\ d * q[n + 1] + r[n + 1] = c * v[n + 1]
      BY <1>4, <2>1 DEF Divided
    <2>4. d * G[n + 1] = d * G[n] + d * q[n + 1] /\ c * F[n + 1] = c * F[n] + c * v[n + 1]
      <3>1. \A x, y \in Nat : d * (x + y) = d * x + d * y
        BY TimesSum
      <3>2. \A x, y \in Nat : c * (x + y) = c * x + c * y
        BY TimesSum
      <3>3. d * (G[n] + q[n + 1]) = d * G[n] + d * q[n + 1]
        BY <2>2, <3>1
      <3>4. c * (F[n] + v[n + 1]) = c * F[n] + c * v[n + 1]
        BY <2>2, <3>2
      <3> QED BY <2>2, <3>3, <3>4
    <2>5. d * G[n] \in Nat /\ d * q[n + 1] \in Nat /\ c * F[n] \in Nat /\ c * v[n + 1] \in Nat
      BY <2>2, TimesNat
    <2>6. d * G[n + 1] + H[n + 1] = c * F[n + 1]
      <3>1. PICK a1, a2, b1, b2 : a1 = d * G[n] /\ a2 = d * q[n + 1] /\ b1 = c * F[n] /\ b2 = c * v[n + 1]
        OBVIOUS
      <3>2. PICK h1, h2 : h1 = H[n] /\ h2 = r[n + 1]
        OBVIOUS
      <3>3. /\ a1 \in Nat /\ a2 \in Nat /\ b1 \in Nat /\ b2 \in Nat /\ h1 \in Nat /\ h2 \in Nat
            /\ a1 + h1 = b1 /\ a2 + h2 = b2
        BY <2>2, <2>3, <2>5, <3>1, <3>2
      <3>4. (a1 + a2) + (h1 + h2) = b1 + b2
        BY <3>3
      <3> QED BY <2>2, <2>4, <3>1, <3>2, <3>4
    <2> QED BY <2>1, <2>6
  <1>5. N \in T
    <2>1. N \in 0 .. N
      BY <1>1
    <2> HIDE DEF T
    <2> QED BY <1>1, <1>3, <1>4, <2>1, Induct
  <1> QED BY <1>1, <1>5 DEF TotalDivided

\* No number is larger than the sum.
LEMMA SumCovers ==
  ASSUME NEW s, Numbered(s) PROVE \A i \in 1 .. Len(s) : s[i] <= TrueSum(s)
  <1> DEFINE N == Len(s)
             F == Sums(s)
             T == {n \in 0 .. N : \A i \in 1 .. n : s[i] <= F[n]}
  <1>1. /\ N \in Nat /\ F[0] = 0 /\ F \in [0 .. N -> Nat]
        /\ \A n \in 1 .. N : F[n] = F[n - 1] + s[n]
        /\ \A n \in 1 .. N : s[n] \in Nat
        /\ TrueSum(s) = F[N]
    BY SumsAre DEF Numbered
  <1> HIDE DEF F
  <1>2. 0 \in T
    BY <1>1
  <1>3. ASSUME NEW n \in 0 .. N - 1, n \in T PROVE n + 1 \in T
    <2>1. n + 1 \in 1 .. N /\ (n + 1) - 1 = n /\ n + 1 \in 0 .. N /\ n \in 0 .. N
      BY <1>1
    <2>2. F[n + 1] = F[n] + s[n + 1] /\ F[n] \in Nat /\ s[n + 1] \in Nat
      BY <1>1, <2>1
    <2>3. ASSUME NEW i \in 1 .. n + 1 PROVE s[i] <= F[n + 1]
      <3>1. i \in 1 .. n \/ i = n + 1
        BY <2>1
      <3>2. CASE i \in 1 .. n
        <4>1. s[i] <= F[n] /\ s[i] \in Nat
          BY <1>1, <1>3, <2>1, <3>2
        <4> QED BY <2>2, <4>1
      <3>3. CASE i = n + 1
        BY <2>2, <3>3
      <3> QED BY <3>1, <3>2, <3>3
    <2> QED BY <2>1, <2>3
  <1>4. N \in T
    <2>1. N \in 0 .. N
      BY <1>1
    <2> HIDE DEF T
    <2> QED BY <1>1, <1>2, <1>3, <2>1, Induct
  <1> QED BY <1>1, <1>4

\* The sum without the first number.
LEMMA SumTail ==
  ASSUME NEW s, NEW t, Numbered(s), Numbered(t), Len(s) = Len(t) + 1,
         \A i \in 1 .. Len(t) : t[i] = s[i + 1]
  PROVE  TrueSum(s) = s[1] + TrueSum(t)
  <1> DEFINE N == Len(t)
             F == Sums(s)
             G == Sums(t)
             T == {n \in 0 .. N : F[n + 1] = s[1] + G[n]}
  <1>1. /\ N \in Nat /\ F[0] = 0 /\ G[0] = 0 /\ F \in [0 .. N + 1 -> Nat] /\ G \in [0 .. N -> Nat]
        /\ \A n \in 1 .. N + 1 : F[n] = F[n - 1] + s[n] /\ s[n] \in Nat
        /\ \A n \in 1 .. N : G[n] = G[n - 1] + t[n] /\ t[n] \in Nat
        /\ TrueSum(s) = F[N + 1] /\ TrueSum(t) = G[N]
    BY SumsAre DEF Numbered
  <1> HIDE DEF F, G
  <1>2. 0 \in T
    <2>1. 1 \in 1 .. N + 1 /\ 0 + 1 = 1 /\ 1 - 1 = 0 /\ 0 \in 0 .. N
      BY <1>1
    <2>2. F[1] = F[0] + s[1] /\ s[1] \in Nat
      BY <1>1, <2>1
    <2> QED BY <1>1, <2>1, <2>2
  <1>3. ASSUME NEW n \in 0 .. N - 1, n \in T PROVE n + 1 \in T
    <2>1. /\ n + 1 \in 1 .. N /\ (n + 1) - 1 = n /\ n + 1 \in 0 .. N /\ n \in 0 .. N
          /\ (n + 1) + 1 \in 1 .. N + 1 /\ ((n + 1) + 1) - 1 = n + 1 /\ 1 \in 1 .. N + 1
      BY <1>1
    <2>2. /\ F[(n + 1) + 1] = F[n + 1] + s[(n + 1) + 1] /\ G[n + 1] = G[n] + t[n + 1]
          /\ t[n + 1] = s[(n + 1) + 1] /\ t[n + 1] \in Nat /\ G[n] \in Nat /\ s[1] \in Nat
          /\ F[n + 1] = s[1] + G[n]
      BY <1>1, <1>3, <2>1
    <2>3. F[(n + 1) + 1] = s[1] + G[n + 1]
      BY <2>2
    <2> QED BY <2>1, <2>3
  <1>4. N \in T
    <2>1. N \in 0 .. N
      BY <1>1
    <2> HIDE DEF T
    <2> QED BY <1>1, <1>2, <1>3, <2>1, Induct
  <1> QED BY <1>1, <1>4

\* The widths, one by one.
LEMMA Widths ==
  /\ U64 \in Nat \ {0} /\ Scale \in Nat \ {0} /\ U32 \in Nat /\ Portable \in Nat
  /\ Scale <= U32 /\ U32 <= Portable /\ Portable + 1 <= U64 /\ Scale < U64
  /\ Stages \in Nat /\ Stages >= 2
  BY WidthAssumption

\* q is n * Scale by d, or an error where that is more than the limit.
IsRatio(q, n, d, limit) ==
    IF (limit + 1) * d <= n * Scale THEN q = Error
    ELSE IsFloor(q, n * Scale, d) /\ q <= limit

\* bits.Div64 is called where it does not panic.
LEMMA QuotientIs ==
  ASSUME NEW n \in Nat, NEW d \in Nat \ {0}
  PROVE  /\ Overflows(n, d) <=> d * U64 <= n * Scale
         /\ ~Overflows(n, d) => IsFloor(Quotient(n, d), n * Scale, d)
  <1>0. U64 \in Nat \ {0} /\ Scale \in Nat
    BY Widths
  <1>1. PICK p : p = n * Scale
    OBVIOUS
  <1>2. p \in Nat
    BY <1>0, <1>1, TimesNat
  <1>3. PICK h : h = p \div U64
    OBVIOUS
  <1>4. IsFloor(h, p, U64)
    BY <1>0, <1>2, <1>3, FloorIs
  <1>5. h \in Nat /\ (d <= h <=> d * U64 <= p)
    BY <1>0, <1>2, <1>4, FloorReaches DEF IsFloor
  <1>6. Overflows(n, d) <=> h >= d
    BY <1>1, <1>3 DEF Overflows
  <1>7. ~Overflows(n, d) => Quotient(n, d) = p \div d
    BY <1>1 DEF Quotient
  <1>8. IsFloor(p \div d, p, d)
    BY <1>2, FloorIs
  <1> QED BY <1>1, <1>5, <1>6, <1>7, <1>8

\* scaledRatio divides, or fails where the quotient does not fit.
LEMMA scaledRatioIs ==
  ASSUME NEW n \in Nat, NEW d \in Nat \ {0}
  PROVE  IsRatio(scaledRatio(n, d), n, d, Portable)
  <1>0. U64 \in Nat \ {0} /\ Scale \in Nat /\ Portable + 1 \in Nat /\ Portable + 1 <= U64
        /\ Portable \in Nat
    BY Widths
  <1>1. PICK p : p = n * Scale
    OBVIOUS
  <1>2. p \in Nat
    BY <1>0, <1>1, TimesNat
  <1>3. PICK lim : lim = (Portable + 1) * d
    OBVIOUS
  <1>4. lim <= d * U64 /\ lim \in Nat /\ d * U64 \in Nat
    <2>1. (Portable + 1) * d <= U64 * d
      BY <1>0, TimesGrows
    <2>2. U64 * d = d * U64 /\ U64 * d \in Nat
      BY <1>0, TimesOther, TimesNat
    <2>3. (Portable + 1) * d \in Nat
      BY <1>0, TimesNat
    <2> QED BY <1>3, <2>1, <2>2, <2>3
  <1>5. Overflows(n, d) <=> d * U64 <= p
    BY <1>1, QuotientIs
  <1>6. CASE Overflows(n, d)
    <2>1. lim <= p
      BY <1>2, <1>4, <1>5, <1>6
    <2>2. scaledRatio(n, d) = Error
      BY <1>6 DEF scaledRatio
    <2> QED BY <1>1, <1>3, <2>1, <2>2 DEF IsRatio
  <1>7. CASE ~Overflows(n, d)
    <2>1. PICK q : q = Quotient(n, d)
      OBVIOUS
    <2>2. IsFloor(q, p, d)
      BY <1>1, <1>7, <2>1, QuotientIs
    <2>3. q \in Nat /\ (Portable + 1 <= q <=> lim <= p)
      BY <1>0, <1>2, <1>3, <2>2, FloorReaches DEF IsFloor
    <2>4. scaledRatio(n, d) = IF q > Portable THEN Error ELSE q
      BY <1>7, <2>1 DEF scaledRatio
    <2>5. q > Portable <=> Portable + 1 <= q
      BY <1>0, <2>3
    <2>6. ~(q > Portable) => q <= Portable
      BY <1>0, <2>3
    <2> QED BY <1>1, <1>3, <2>2, <2>3, <2>4, <2>5, <2>6 DEF IsRatio
  <1> QED BY <1>6, <1>7

\* ratioBasisPoints, whose limit is a parameter.
LEMMA ratioBasisPointsIs ==
  ASSUME NEW n \in Nat, NEW d \in Nat \ {0}
  PROVE  IsRatio(ratioBasisPoints(n, d), n, d, U32)
  <1>0. /\ Scale \in Nat /\ Portable + 1 \in Nat /\ U32 + 1 \in Nat /\ U32 + 1 <= Portable + 1
        /\ U32 \in Nat
    BY Widths
  <1>1. PICK p : p = n * Scale
    OBVIOUS
  <1>2. p \in Nat
    BY <1>0, <1>1, TimesNat
  <1>3. PICK lim : lim = (Portable + 1) * d
    OBVIOUS
  <1>4. PICK low : low = (U32 + 1) * d
    OBVIOUS
  <1>5. low <= lim /\ low \in Nat /\ lim \in Nat
    BY <1>0, <1>3, <1>4, TimesGrows, TimesNat
  <1>6. PICK q : q = scaledRatio(n, d)
    OBVIOUS
  <1>7. IF lim <= p THEN q = Error ELSE IsFloor(q, p, d)
    <2>1. IsRatio(q, n, d, Portable)
      BY <1>6, scaledRatioIs
    <2> QED BY <1>1, <1>3, <2>1 DEF IsRatio
  <1>8. ratioBasisPoints(n, d) = IF q > U32 THEN Error ELSE q
    BY <1>6 DEF ratioBasisPoints
  <1>9. CASE lim <= p
    <2>1. low <= p /\ ~(q > U32) /\ q = Error
      BY <1>0, <1>2, <1>5, <1>7, <1>9 DEF Error
    <2> QED BY <1>1, <1>4, <1>8, <2>1 DEF IsRatio
  <1>10. CASE ~(lim <= p)
    <2>1. IsFloor(q, p, d)
      BY <1>7, <1>10
    <2>2. q \in Nat /\ (U32 + 1 <= q <=> low <= p)
      BY <1>0, <1>2, <1>4, <2>1, FloorReaches DEF IsFloor
    <2>3. q > U32 <=> U32 + 1 <= q
      BY <1>0, <2>2
    <2>4. ~(q > U32) => q <= U32
      BY <1>0, <2>2
    <2> QED BY <1>1, <1>4, <1>8, <2>1, <2>2, <2>3, <2>4 DEF IsRatio
  <1> QED BY <1>9, <1>10

\* A part of the whole is at most Scale, and no error.
LEMMA PartIs ==
  ASSUME NEW a \in Nat, NEW r \in Nat \ {0}, a <= r, NEW q, IsRatio(q, a, r, U32)
  PROVE  IsFloor(q, a * Scale, r) /\ q <= Scale
  <1>0. Scale \in Nat /\ U32 \in Nat /\ Scale <= U32 /\ U32 + 1 \in Nat /\ Scale < U32 + 1
        /\ Scale + 1 \in Nat
    BY Widths
  <1>1. a * Scale <= r * Scale /\ r * Scale = Scale * r /\ a * Scale \in Nat
    BY <1>0, TimesGrows, TimesOther, TimesNat
  <1>2. Scale * r < (U32 + 1) * r /\ Scale * r < (Scale + 1) * r
    BY <1>0, TimesMore
  <1>3. Scale * r \in Nat /\ (U32 + 1) * r \in Nat /\ (Scale + 1) * r \in Nat
    BY <1>0, TimesNat
  <1>4. ~((U32 + 1) * r <= a * Scale) /\ ~((Scale + 1) * r <= a * Scale)
    BY <1>1, <1>2, <1>3
  <1>5. IsFloor(q, a * Scale, r)
    BY <1>4 DEF IsRatio
  <1>6. Scale + 1 <= q <=> (Scale + 1) * r <= a * Scale
    BY <1>0, <1>1, <1>5, FloorReaches
  <1>7. q \in Nat
    BY <1>5 DEF IsFloor
  <1> QED BY <1>0, <1>4, <1>5, <1>6, <1>7

-----------------------------------------------------------------------------
(* The places of numbers in their order.                                   *)

\* The positions that come before i when the numbers are sorted stably.
Ahead(x, i) == {j \in DOMAIN x : x[j] > x[i] \/ (x[j] = x[i] /\ j < i)}

\* The numbers whose places are asked for.
Ordered(x, n) == n \in Nat /\ DOMAIN x = 1 .. n /\ \A i \in 1 .. n : x[i] \in Int

\* There are fewer of them than there are numbers.
LEMMA AheadFinite ==
  ASSUME NEW x, NEW n, Ordered(x, n), NEW i \in 1 .. n
  PROVE  /\ IsFiniteSet(Ahead(x, i)) /\ ShareRank(x, i) = Cardinality(Ahead(x, i))
         /\ Ahead(x, i) \subseteq (1 .. n) \ {i} /\ ShareRank(x, i) \in 0 .. n - 1
  <1>1. n \in Nat /\ DOMAIN x = 1 .. n /\ x[i] \in Int /\ i \in Nat
    BY DEF Ordered
  <1>2. Ahead(x, i) \subseteq (1 .. n) \ {i}
    <2>1. ~(x[i] > x[i]) /\ ~(i < i)
      BY <1>1
    <2> QED BY <1>1, <2>1 DEF Ahead
  <1>3. IsFiniteSet(1 .. n) /\ Cardinality(1 .. n) = n
    <2>1. n >= 1
      BY <1>1
    <2> QED BY <1>1, <2>1, FS_Interval
  <1>4. IsFiniteSet((1 .. n) \ {i}) /\ Cardinality((1 .. n) \ {i}) = n - 1
    BY <1>3, FS_RemoveElement
  <1>5. IsFiniteSet(Ahead(x, i)) /\ Cardinality(Ahead(x, i)) <= n - 1
    BY <1>2, <1>4, FS_Subset
  <1>6. Cardinality(Ahead(x, i)) \in Nat
    BY <1>5, FS_CardinalityType
  <1>7. ShareRank(x, i) = Cardinality(Ahead(x, i))
    BY DEF ShareRank, Ahead
  <1> QED BY <1>1, <1>2, <1>5, <1>6, <1>7

\* The places are in that order, and no two are the same.
LEMMA RanksOrdered ==
  ASSUME NEW x, NEW n, Ordered(x, n), NEW i \in 1 .. n, NEW j \in 1 .. n
  PROVE  /\ i \in Ahead(x, j) => ShareRank(x, i) < ShareRank(x, j)
         /\ i # j => i \in Ahead(x, j) \/ j \in Ahead(x, i)
  <1>1. /\ n \in Nat /\ DOMAIN x = 1 .. n /\ i \in Nat /\ j \in Nat
        /\ \A k \in 1 .. n : x[k] \in Int /\ k \in Nat
    BY DEF Ordered
  <1>2. ASSUME i \in Ahead(x, j) PROVE ShareRank(x, i) < ShareRank(x, j)
    <2>1. x[i] > x[j] \/ (x[i] = x[j] /\ i < j)
      BY <1>2 DEF Ahead
    <2>2. ASSUME NEW k \in Ahead(x, i) PROVE k \in Ahead(x, j)
      <3>1. k \in 1 .. n /\ x[k] \in Int /\ k \in Nat
        BY <1>1 DEF Ahead
      <3>2. x[k] > x[i] \/ (x[k] = x[i] /\ k < i)
        BY DEF Ahead
      <3>3. x[k] > x[j] \/ (x[k] = x[j] /\ k < j)
        BY <1>1, <2>1, <3>1, <3>2
      <3> QED BY <1>1, <3>1, <3>3 DEF Ahead
    <2>3. Ahead(x, i) \cup {i} \subseteq Ahead(x, j)
      BY <1>2, <2>2
    <2>4. /\ IsFiniteSet(Ahead(x, i)) /\ IsFiniteSet(Ahead(x, j)) /\ i \notin Ahead(x, i)
          /\ ShareRank(x, i) = Cardinality(Ahead(x, i))
          /\ ShareRank(x, j) = Cardinality(Ahead(x, j))
      BY AheadFinite
    <2>5. Cardinality(Ahead(x, i) \cup {i}) = Cardinality(Ahead(x, i)) + 1
      BY <2>4, FS_AddElement
    <2>6. Cardinality(Ahead(x, i) \cup {i}) <= Cardinality(Ahead(x, j))
      BY <2>3, <2>4, FS_Subset
    <2>7. Cardinality(Ahead(x, i)) \in Nat /\ Cardinality(Ahead(x, j)) \in Nat
      BY <2>4, FS_CardinalityType
    <2> QED BY <2>4, <2>5, <2>6, <2>7
  <1>3. ASSUME i # j PROVE i \in Ahead(x, j) \/ j \in Ahead(x, i)
    <2>1. \/ x[i] > x[j] \/ (x[i] = x[j] /\ i < j)
          \/ x[j] > x[i] \/ (x[j] = x[i] /\ j < i)
      BY <1>1, <1>3
    <2> QED BY <1>1, <2>1 DEF Ahead
  <1> QED BY <1>2, <1>3

\* Every place is taken.
LEMMA RanksTaken ==
  ASSUME NEW x, NEW n, Ordered(x, n), n > 0
  PROVE  LET f == [i \in 1 .. n |-> ShareRank(x, i)]
         IN  f \in Injection(1 .. n, 0 .. n - 1) /\ f \in Surjection(1 .. n, 0 .. n - 1)
  <1> DEFINE f == [i \in 1 .. n |-> ShareRank(x, i)]
  <1>1. n \in Nat
    BY DEF Ordered
  <1>2. f \in [1 .. n -> 0 .. n - 1]
    BY AheadFinite
  <1>3. ASSUME NEW i \in 1 .. n, NEW j \in 1 .. n, f[i] = f[j] PROVE i = j
    <2>1. f[i] = ShareRank(x, i) /\ f[j] = ShareRank(x, j)
      OBVIOUS
    <2>2. ShareRank(x, i) \in Nat
      <3>1. ShareRank(x, i) \in 0 .. n - 1
        BY AheadFinite
      <3> QED BY <3>1
    <2>3. ShareRank(x, i) = ShareRank(x, j)
      BY <1>3, <2>1
    <2>4. ~(ShareRank(x, i) < ShareRank(x, j)) /\ ~(ShareRank(x, j) < ShareRank(x, i))
      BY <2>2, <2>3
    <2> QED BY <2>4, RanksOrdered
  <1>4. f \in Injection(1 .. n, 0 .. n - 1)
    <2> HIDE DEF f
    <2> QED BY <1>2, <1>3 DEF Injection, IsInjective
  <1>5. IsFiniteSet(0 .. n - 1) /\ Cardinality(0 .. n - 1) = n /\ Cardinality(1 .. n) = n
    <2>1. n - 1 \in Int /\ ~(0 > n - 1) /\ (n - 1) - 0 + 1 = n /\ ~(1 > n) /\ n - 1 + 1 = n
      BY <1>1
    <2> QED BY <1>1, <2>1, FS_Interval
  <1>6. f \in Surjection(1 .. n, 0 .. n - 1)
    <2> HIDE DEF f
    <2> QED BY <1>4, <1>5, FS_Injection
  <1> QED BY <1>4, <1>6

\* So many are among the first r.
LEMMA FirstRanks ==
  ASSUME NEW x, NEW n, Ordered(x, n), n > 0, NEW r \in 0 .. n
  PROVE  Cardinality({i \in 1 .. n : ShareRank(x, i) < r}) = r
  <1> DEFINE f == [i \in 1 .. n |-> ShareRank(x, i)]
             B == {i \in 1 .. n : ShareRank(x, i) < r}
             g == [i \in B |-> ShareRank(x, i)]
  <1>0. n \in Nat /\ r \in Nat /\ 0 .. r - 1 \subseteq 0 .. n - 1
    BY DEF Ordered
  <1>1. f \in Injection(1 .. n, 0 .. n - 1) /\ f \in Surjection(1 .. n, 0 .. n - 1)
    BY RanksTaken
  <1>2. \A i \in 1 .. n : ShareRank(x, i) \in 0 .. n - 1
    BY AheadFinite
  <1>3. \A i \in 1 .. n : f[i] = ShareRank(x, i)
    OBVIOUS
  <1>4. \A i \in B : ShareRank(x, i) \in 0 .. r - 1
    BY <1>0, <1>2
  <1>5. g \in [B -> 0 .. r - 1]
    BY <1>4
  <1>6. \A i, j \in B : g[i] = g[j] => i = j
    <2>1. \A i \in B : i \in 1 .. n /\ g[i] = f[i]
      OBVIOUS
    <2> HIDE DEF f, g, B
    <2> QED BY <1>1, <2>1 DEF Injection, IsInjective
  <1>7. \A k \in 0 .. r - 1 : \E i \in B : g[i] = k
    <2> SUFFICES ASSUME NEW k \in 0 .. r - 1 PROVE \E i \in B : g[i] = k
      OBVIOUS
    <2>1. PICK i \in 1 .. n : f[i] = k
      <3> HIDE DEF f
      <3> QED BY <1>0, <1>1 DEF Surjection
    <2>2. ShareRank(x, i) = k /\ k < r
      BY <1>0, <2>1
    <2> QED BY <2>2
  <1>8. ExistsBijection(B, 0 .. r - 1)
    <2> HIDE DEF g, B
    <2>1. g \in Bijection(B, 0 .. r - 1)
      BY <1>5, <1>6, <1>7 DEF Bijection, Injection, IsInjective, Surjection
    <2> QED BY <2>1 DEF ExistsBijection
  <1>9. IsFiniteSet(B)
    <2>1. IsFiniteSet(1 .. n)
      BY <1>0, FS_Interval
    <2> QED BY <2>1, FS_Subset
  <1>10. Cardinality(0 .. r - 1) = r
    <2>1. r - 1 \in Int /\ (0 > r - 1 <=> r = 0) /\ (r - 1) - 0 + 1 = r
      BY <1>0
    <2> QED BY <2>1, FS_Interval
  <1> HIDE DEF B
  <1>11. Cardinality(0 .. r - 1) = Cardinality(B)
    BY <1>8, <1>9, FS_Bijection
  <1> QED BY <1>10, <1>11 DEF B

-----------------------------------------------------------------------------
(* The shares of the stages.                                               *)

\* A function on positions is a sequence.
LEMMA PositionsNumbered ==
  ASSUME NEW n \in Nat, NEW f \in [1 .. n -> Nat]
  PROVE  Numbered(f) /\ Len(f) = n /\ f \in Seq(Nat)
  <1>1. f \in Seq(Nat)
    BY SeqDef
  <1>2. Len(f) = n
    BY <1>1, LenProperties
  <1> QED BY <1>1, <1>2, SeqNumbered

\* Floors and residuals of the quotas of v in total.
Floors(v, total) == [i \in DOMAIN v |-> Quotient(v[i], total)]
Residuals(v, total) == [i \in DOMAIN v |-> Residual(v[i], total)]

\* What is divided.
Shared(v, n, total) ==
    /\ n \in Nat \ {0} /\ v \in [1 .. n -> Nat]
    /\ total = TrueSum(v) /\ total \in 1 .. U64 - 1

\* Each quota, rounded down, and what is left of it.
LEMMA QuotasAre ==
  ASSUME NEW v, NEW n, NEW total, Shared(v, n, total), NEW i \in 1 .. n
  PROVE  /\ Floors(v, total)[i] \in Nat /\ Residuals(v, total)[i] \in 0 .. total - 1
         /\ total * Floors(v, total)[i] + Residuals(v, total)[i] = Scale * v[i]
  <1>0. U64 \in Nat \ {0} /\ Scale \in Nat /\ Scale < U64
    BY Widths
  <1>1. /\ n \in Nat /\ v \in [1 .. n -> Nat] /\ total = TrueSum(v) /\ total \in Nat \ {0}
        /\ v[i] \in Nat /\ DOMAIN v = 1 .. n
    BY <1>0 DEF Shared
  <1>2. PICK a : a = v[i]
    OBVIOUS
  <1>3. a \in Nat /\ a <= total
    BY <1>1, <1>2, PositionsNumbered, SumCovers
  <1>4. PICK p : p = a * Scale
    OBVIOUS
  <1>5. p \in Nat
    BY <1>0, <1>3, <1>4, TimesNat
  <1>6. ~(total * U64 <= p)
    <2>1. p <= total * Scale
      BY <1>0, <1>1, <1>3, <1>4, TimesGrows
    <2>2. Scale * total < U64 * total
      BY <1>0, <1>1, TimesMore
    <2>3. Scale * total = total * Scale /\ U64 * total = total * U64
      BY <1>0, <1>1, TimesOther
    <2>4. total * Scale \in Nat /\ total * U64 \in Nat
      BY <1>0, <1>1, TimesNat
    <2> QED BY <1>5, <2>1, <2>2, <2>3, <2>4
  <1>7. PICK q : q = Floors(v, total)[i]
    OBVIOUS
  <1>8. PICK r : r = Residuals(v, total)[i]
    OBVIOUS
  <1>9. IsFloor(q, p, total) /\ q = p \div total
    <2>1. q = Quotient(a, total)
      BY <1>1, <1>2, <1>7 DEF Floors
    <2>2. ~Overflows(a, total)
      BY <1>1, <1>3, <1>4, <1>6, QuotientIs
    <2>3. IsFloor(Quotient(a, total), a * Scale, total)
      BY <1>1, <1>3, <2>2, QuotientIs
    <2>4. Quotient(a, total) = p \div total
      BY <1>4, <2>2 DEF Quotient
    <2> QED BY <1>4, <2>1, <2>3, <2>4
  <1>10. r = p - q * total
    <2>1. r = p % total
      BY <1>1, <1>2, <1>4, <1>8 DEF Residuals, Residual
    <2> QED BY <1>1, <1>5, <1>9, <2>1, RestIs
  <1>11. q \in Nat /\ q * total <= p /\ p < q * total + total /\ q * total \in Nat
         /\ q * total = total * q
    BY <1>1, <1>9, TimesNat, TimesOther DEF IsFloor
  <1>12. PICK m : m = q * total
    OBVIOUS
  <1>13. r \in 0 .. total - 1 /\ m + r = p
    <2>1. m \in Nat /\ m <= p /\ p < m + total /\ r = p - m
      BY <1>10, <1>11, <1>12
    <2> QED BY <1>1, <1>5, <2>1
  <1>14. p = Scale * a
    BY <1>0, <1>3, <1>4, TimesOther
  <1> QED BY <1>2, <1>7, <1>8, <1>11, <1>12, <1>13, <1>14

\* What is left over is less than one for each stage with a residual.
LEMMA RemainingIs ==
  ASSUME NEW v, NEW n, NEW total, Shared(v, n, total)
  PROVE  LET positive == {i \in 1 .. n : Residuals(v, total)[i] > 0}
             remaining == Scale - sumUint64(Floors(v, total))
         IN  /\ sumUint64(Floors(v, total)) = TrueSum(Floors(v, total))
             /\ TrueSum(Floors(v, total)) \in Nat
             /\ remaining \in 0 .. n /\ remaining <= Cardinality(positive)
             /\ Cardinality(positive) \in Nat
             /\ Numbered(Floors(v, total)) /\ Len(Floors(v, total)) = n
             /\ Ordered(Residuals(v, total), n)
  <1> DEFINE F == Floors(v, total)
             R == Residuals(v, total)
             P == {i \in 1 .. n : R[i] > 0}
  <1>0. U64 \in Nat \ {0} /\ Scale \in Nat /\ Scale < U64
    BY Widths
  <1>1. /\ n \in Nat \ {0} /\ v \in [1 .. n -> Nat] /\ total = TrueSum(v) /\ total \in Nat \ {0}
        /\ DOMAIN v = 1 .. n
    BY <1>0 DEF Shared
  <1>2. \A i \in 1 .. n : /\ F[i] \in Nat /\ R[i] \in 0 .. total - 1
                          /\ total * F[i] + R[i] = Scale * v[i]
    BY QuotasAre
  <1>3. F \in [1 .. n -> Nat] /\ R \in [1 .. n -> Nat]
    <2>1. \A i \in 1 .. n : R[i] \in Nat
      BY <1>1, <1>2
    <2>2. F = [i \in 1 .. n |-> F[i]] /\ R = [i \in 1 .. n |-> R[i]]
      BY <1>1 DEF Floors, Residuals
    <2> HIDE DEF F, R
    <2> QED BY <1>2, <2>1, <2>2
  <1> HIDE DEF F, R
  <1>4. /\ Numbered(v) /\ Numbered(F) /\ Numbered(R) /\ Len(v) = n /\ Len(F) = n /\ Len(R) = n
    BY <1>1, <1>3, PositionsNumbered
  <1>5. PICK sf : sf = TrueSum(F)
    OBVIOUS
  <1>6. PICK sr : sr = TrueSum(R)
    OBVIOUS
  <1>7. sf \in Nat /\ sr \in Nat
    BY <1>4, <1>5, <1>6, SumsAre
  <1>8. total * sf + sr = Scale * total
    <2>1. \A i \in 1 .. Len(v) : total * F[i] + R[i] = Scale * v[i]
      BY <1>2, <1>4
    <2>2. total \in Nat /\ Scale \in Nat /\ Divided(v, F, R, total, Scale)
      BY <1>0, <1>1, <1>4, <2>1 DEF Divided
    <2>3. TotalDivided(v, F, R, total, Scale)
      BY <1>4, <2>2, SumDivided
    <2> QED BY <1>1, <1>5, <1>6, <2>3 DEF TotalDivided
  <1>9. PICK c : c = Cardinality(P)
    OBVIOUS
  <1>10. c \in Nat /\ c <= n
    <2>1. IsFiniteSet(1 .. n) /\ Cardinality(1 .. n) = n
      BY <1>1, FS_Interval
    <2>2. IsFiniteSet(P) /\ Cardinality(P) <= n
      BY <2>1, FS_Subset
    <2> QED BY <1>9, <2>2, FS_CardinalityType
  <1>11. sr <= c * (total - 1)
    <2>1. total - 1 \in Nat
      BY <1>1
    <2>2. \A i \in 1 .. n : R[i] <= IF i \in P THEN total - 1 ELSE 0
      BY <1>1, <1>2
    <2>3. P \subseteq 1 .. n
      OBVIOUS
    <2> HIDE DEF P
    <2> QED BY <1>4, <1>6, <1>9, <2>1, <2>2, <2>3, SumBounded
  <1>12. c * (total - 1) <= c * total
    <2>1. total - 1 \in Nat /\ total - 1 <= total /\ total \in Nat
      BY <1>1
    <2>2. (total - 1) * c <= total * c
      BY <1>10, <2>1, TimesGrows
    <2> QED BY <1>10, <2>1, <2>2, TimesOther
  <1>13. sf * total <= Scale * total /\ Scale * total <= (sf + c) * total
    <2>1. total * sf = sf * total /\ total * sf \in Nat /\ Scale * total \in Nat
          /\ c * total \in Nat /\ c * (total - 1) \in Nat
      <3>1. total - 1 \in Nat
        BY <1>1
      <3> QED BY <1>0, <1>1, <1>7, <1>10, <3>1, TimesNat, TimesOther
    <2>2. (sf + c) * total = sf * total + c * total
      <3>1. total * (sf + c) = total * sf + total * c
        BY <1>1, <1>7, <1>10, TimesSum
      <3>2. total * (sf + c) = (sf + c) * total /\ total * c = c * total
        <4>1. sf + c \in Nat
          BY <1>7, <1>10
        <4> QED BY <1>1, <1>10, <4>1, TimesOther
      <3> QED BY <2>1, <3>1, <3>2
    <2> QED BY <1>7, <1>8, <1>11, <1>12, <2>1, <2>2
  <1>14. sf <= Scale /\ Scale <= sf + c
    <2>1. ~(Scale < sf)
      <3> SUFFICES ASSUME Scale < sf PROVE FALSE
        OBVIOUS
      <3>1. Scale * total < sf * total
        BY <1>0, <1>1, <1>7, TimesMore
      <3>2. Scale * total \in Nat /\ sf * total \in Nat
        BY <1>0, <1>1, <1>7, TimesNat
      <3> QED BY <1>13, <3>1, <3>2
    <2>2. ~(sf + c < Scale)
      <3> SUFFICES ASSUME sf + c < Scale PROVE FALSE
        OBVIOUS
      <3>0. sf + c \in Nat
        BY <1>7, <1>10
      <3>1. (sf + c) * total < Scale * total
        BY <1>0, <1>1, <3>0, TimesMore
      <3>2. Scale * total \in Nat /\ (sf + c) * total \in Nat
        BY <1>0, <1>1, <3>0, TimesNat
      <3> QED BY <1>13, <3>1, <3>2
    <2> QED BY <1>0, <1>7, <1>10, <2>1, <2>2
  <1>15. sumUint64(F) = sf
    <2>1. sf < U64
      BY <1>0, <1>7, <1>14
    <2> QED BY <1>4, <1>5, <2>1, sumUint64Is
  <1>16. Ordered(R, n)
    <2>1. DOMAIN R = 1 .. n /\ \A i \in 1 .. n : R[i] \in Nat
      BY <1>3
    <2> QED BY <1>1, <2>1 DEF Ordered
  <1>17. PICK rem : rem = Scale - sf
    OBVIOUS
  <1>18. rem \in 0 .. n /\ rem <= c
    BY <1>0, <1>1, <1>7, <1>10, <1>14, <1>17
  <1>19. /\ sumUint64(F) = TrueSum(F) /\ TrueSum(F) \in Nat
         /\ Scale - sumUint64(F) \in 0 .. n /\ Scale - sumUint64(F) <= Cardinality(P)
         /\ Cardinality(P) \in Nat
    BY <1>5, <1>7, <1>9, <1>10, <1>15, <1>17, <1>18
  <1> QED BY <1>4, <1>16, <1>19 DEF F, R

\* The shares are what they should be.
LEMMA SharesAre ==
  ASSUME NEW v, NEW n, NEW total, Shared(v, n, total)
  PROVE  SharesAreProportional(v, apportionBasisPoints(v, total), total)
  <1> DEFINE F == Floors(v, total)
             R == Residuals(v, total)
             P == {i \in 1 .. n : R[i] > 0}
             A == apportionBasisPoints(v, total)
  <1>0. U64 \in Nat \ {0} /\ Scale \in Nat \ {0}
    BY Widths
  <1>1. /\ n \in Nat \ {0} /\ v \in [1 .. n -> Nat] /\ total \in Nat \ {0} /\ DOMAIN v = 1 .. n
    BY <1>0 DEF Shared
  <1>2. \A i \in 1 .. n : /\ F[i] \in Nat /\ R[i] \in 0 .. total - 1
                          /\ total * F[i] + R[i] = Scale * v[i]
    BY QuotasAre
  <1>3. PICK rem : rem = Scale - sumUint64(F)
    OBVIOUS
  <1>4. /\ rem = Scale - TrueSum(F) /\ TrueSum(F) \in Nat /\ rem \in 0 .. n
        /\ rem <= Cardinality(P) /\ Cardinality(P) \in Nat
        /\ Numbered(F) /\ Len(F) = n /\ Ordered(R, n)
    BY <1>3, RemainingIs
  <1> DEFINE B == {i \in 1 .. n : ShareRank(R, i) < rem}
  <1>5. A = [i \in 1 .. n |-> IF i \in B THEN F[i] + 1 ELSE F[i]]
    BY <1>1, <1>3 DEF apportionBasisPoints, Floors, Residuals
  <1> HIDE DEF F, R, A
  <1>6. Cardinality(B) = rem
    <2>1. n > 0
      BY <1>1
    <2> QED BY <1>4, <2>1, FirstRanks
  <1>7. TrueSum(A) = Scale
    <2>1. A \in [1 .. n -> Nat] /\ \A i \in 1 .. n : A[i] = IF i \in B THEN F[i] + 1 ELSE F[i]
      BY <1>2, <1>5
    <2>2. B \subseteq 1 .. n
      OBVIOUS
    <2> HIDE DEF B
    <2>3. Numbered(A) /\ Len(A) = n
      BY <1>1, <2>1, PositionsNumbered
    <2>4. Raised(F, A, B)
      BY <1>4, <2>1, <2>2, <2>3 DEF Raised
    <2>5. TrueSum(A) = TrueSum(F) + Cardinality(B)
      BY <1>4, <2>3, <2>4, SumPlus DEF TotalRaised
    <2> QED BY <1>0, <1>4, <1>6, <2>5
  <1>8. ASSUME NEW i \in B PROVE R[i] > 0
    <2> SUFFICES ASSUME ~(R[i] > 0) PROVE FALSE
      OBVIOUS
    <2>1. i \in 1 .. n /\ R[i] = 0 /\ ShareRank(R, i) < rem
      BY <1>1, <1>2
    <2>2. P \subseteq Ahead(R, i)
      <3> SUFFICES ASSUME NEW j \in P PROVE j \in Ahead(R, i)
        OBVIOUS
      <3>1. j \in 1 .. n /\ R[j] > R[i]
        BY <2>1
      <3> QED BY <1>4, <3>1 DEF Ahead, Ordered
    <2> HIDE DEF P
    <2>3. IsFiniteSet(Ahead(R, i)) /\ ShareRank(R, i) = Cardinality(Ahead(R, i))
      BY <1>4, <2>1, AheadFinite
    <2>4. Cardinality(P) <= ShareRank(R, i) /\ ShareRank(R, i) \in Nat
      BY <2>2, <2>3, FS_Subset, FS_CardinalityType
    <2> QED BY <1>1, <1>4, <2>1, <2>4
  <1>9. ASSUME NEW i \in 1 .. n
        PROVE  /\ A[i] * total <= v[i] * Scale + total - 1
               /\ v[i] * Scale <= A[i] * total + total - 1
    <2>1. PICK f, r, a, x, y : f = F[i] /\ r = R[i] /\ a = A[i] /\ x = v[i] * Scale /\ y = f * total
      OBVIOUS
    <2>2. f \in Nat /\ r \in 0 .. total - 1 /\ x \in Nat /\ y \in Nat
      BY <1>0, <1>1, <1>2, <2>1, TimesNat
    <2>3. y + r = x
      <3>1. v[i] \in Nat
        BY <1>1
      <3>2. y = total * F[i] /\ x = Scale * v[i]
        BY <1>0, <1>1, <1>2, <2>1, <3>1, TimesOther
      <3> QED BY <1>2, <2>1, <3>2
    <2>4. CASE i \in B
      <3>1. r > 0
        BY <1>8, <2>1, <2>4
      <3>2. a = f + 1
        BY <1>5, <2>1, <2>4
      <3>3. a * total = y + total
        BY <1>1, <2>1, <2>2, <3>2, TimesNext, SMTT(30)
      <3>4. y + total <= x + total - 1 /\ x <= y + total + total - 1
        BY <1>1, <2>2, <2>3, <3>1
      <3> QED BY <2>1, <3>3, <3>4
    <2>5. CASE i \notin B
      <3>1. a = f
        BY <1>5, <2>1, <2>5
      <3>2. y <= x + total - 1 /\ x <= y + total - 1
        BY <1>1, <2>2, <2>3
      <3> QED BY <2>1, <3>1, <3>2
    <2> QED BY <2>4, <2>5
  <1>10. ASSUME NEW i \in 1 .. n, NEW j \in 1 .. n, v[i] > v[j] PROVE A[i] >= A[j]
    <2>1. PICK f, g, r, s : f = F[i] /\ g = F[j] /\ r = R[i] /\ s = R[j]
      OBVIOUS
    <2>2. PICK x, y : x = Scale * v[i] /\ y = Scale * v[j]
      OBVIOUS
    <2>3. /\ f \in Nat /\ g \in Nat /\ r \in 0 .. total - 1 /\ s \in 0 .. total - 1
          /\ total * f + r = x /\ total * g + s = y
      BY <1>2, <2>1, <2>2
    <2>4. x > y /\ x \in Nat /\ y \in Nat
      <3>1. v[i] \in Nat /\ v[j] \in Nat /\ v[j] < v[i]
        BY <1>1, <1>10
      <3>2. v[j] * Scale < v[i] * Scale
        BY <1>0, <3>1, TimesMore
      <3>3. v[j] * Scale = y /\ v[i] * Scale = x
        BY <1>0, <2>2, <3>1, TimesOther
      <3>4. v[j] * Scale \in Nat /\ v[i] * Scale \in Nat
        BY <1>0, <3>1, TimesNat
      <3> QED BY <3>2, <3>3, <3>4
    <2>5. A[i] = (IF i \in B THEN f + 1 ELSE f) /\ A[j] = IF j \in B THEN g + 1 ELSE g
      BY <1>5, <2>1
    <2>6. CASE f > g
      BY <2>3, <2>5, <2>6
    <2>7. CASE f = g
      <3>1. PICK m : m = total * f
        OBVIOUS
      <3>2. m \in Nat /\ m + r = x /\ m + s = y
        BY <1>1, <2>3, <2>7, <3>1, TimesNat
      <3>3. r > s
        BY <1>1, <2>3, <2>4, <3>2
      <3>4. i \in Ahead(R, j)
        BY <1>4, <2>1, <3>3 DEF Ahead, Ordered
      <3>5. ShareRank(R, i) < ShareRank(R, j)
        BY <1>4, <3>4, RanksOrdered
      <3>6. ShareRank(R, i) \in 0 .. n - 1 /\ ShareRank(R, j) \in 0 .. n - 1
        BY <1>4, AheadFinite
      <3>7. j \in B => i \in B
        BY <1>1, <1>4, <3>5, <3>6
      <3> QED BY <2>3, <2>5, <2>7, <3>7
    <2>8. CASE f < g
      <3>1. f + 1 <= g /\ f + 1 \in Nat
        BY <2>3, <2>8
      <3>2. PICK m, k : m = total * f /\ k = total * g
        OBVIOUS
      <3>3. m + total <= k /\ m \in Nat /\ k \in Nat
        <4>1. (f + 1) * total <= g * total
          BY <1>1, <2>3, <3>1, TimesGrows
        <4>2. (f + 1) * total = f * total + total
          BY <1>1, <2>3, TimesNext
        <4>3. f * total = m /\ g * total = k /\ f * total \in Nat /\ g * total \in Nat
          BY <1>1, <2>3, <3>2, TimesOther, TimesNat
        <4> QED BY <4>1, <4>2, <4>3
      <3>4. m + r = x /\ k + s = y /\ r < total /\ r \in Nat /\ s \in Nat
        BY <1>1, <2>3, <3>2
      <3>5. total \in Nat
        BY <1>1
      <3>6. FALSE
        BY <2>4, <3>3, <3>4, <3>5
      <3> QED BY <3>6
    <2>9. f > g \/ f = g \/ f < g
      BY <2>3
    <2> QED BY <2>6, <2>7, <2>8, <2>9
  <1> HIDE DEF B
  <1> QED BY <1>1, <1>7, <1>9, <1>10 DEF SharesAreProportional, A

-----------------------------------------------------------------------------
(* The dominant stage.                                                     *)

\* d is the first of the largest of the first n numbers.
FirstMax(x, n, d) ==
    d \in 1 .. n /\ \A i \in 1 .. n : x[i] <= x[d] /\ (i < d => x[i] < x[d])

\* dominant finds it.
LEMMA dominantIs ==
  ASSUME NEW N \in Nat \ {0}, NEW x \in [1 .. N -> Nat]
  PROVE  FirstMax(x, N, dominant(x))
  <1> DEFINE Body(f, n) == IF n = 1 THEN 1
                           ELSE IF x[n] > x[f[n - 1]] THEN n ELSE f[n - 1]
             F == CHOOSE f : f = [n \in 1 .. N |-> Body(f, n)]
             g == [p \in Nat \X (1 .. N - 1) |-> IF x[p[2] + 1] > x[p[1]] THEN p[2] + 1 ELSE p[1]]
  <1>1. dominant(x) = F[N]
    <2>1. Len(x) = N /\ DOMAIN x = 1 .. N
      BY PositionsNumbered
    <2> QED BY <2>1 DEF dominant
  <1>2. g \in [Nat \X (1 .. N - 1) -> Nat]
    OBVIOUS
  <1>3. \A a \in Nat, n \in 1 .. N - 1 :
          g[<<a, n>>] = IF x[n + 1] > x[a] THEN n + 1 ELSE a
    OBVIOUS
  <1> HIDE DEF g
  <1>4. PICK f : Recursive(f, N - 1, Nat, 1, g)
    <2>1. N - 1 \in Nat /\ 1 \in Nat
      OBVIOUS
    <2> QED BY <1>2, <2>1, Recursion
  <1> DEFINE W == [n \in 1 .. N |-> f[n - 1]]
  <1>5. ASSUME NEW n \in 1 .. N PROVE W[n] = Body(W, n)
    <2>1. f \in [0 .. N - 1 -> Nat] /\ f[0] = 1
          /\ \A k \in 1 .. N - 1 : f[k] = g[<<f[k - 1], k>>]
      BY <1>4 DEF Recursive
    <2>2. W[n] = f[n - 1]
      OBVIOUS
    <2>3. CASE n = 1
      BY <2>1, <2>2, <2>3
    <2>4. CASE n # 1
      <3>1. n - 1 \in 1 .. N - 1 /\ (n - 1) - 1 \in 0 .. N - 1 /\ n - 1 \in 1 .. N /\ (n - 1) + 1 = n
        BY <2>4
      <3>2. W[n - 1] = f[(n - 1) - 1]
        BY <3>1
      <3>3. f[n - 1] = g[<<f[(n - 1) - 1], n - 1>>] /\ f[(n - 1) - 1] \in Nat
        BY <2>1, <3>1
      <3>4. PICK a : a = f[(n - 1) - 1]
        OBVIOUS
      <3> HIDE DEF W
      <3>5. f[n - 1] = IF x[(n - 1) + 1] > x[a] THEN (n - 1) + 1 ELSE a
        BY <1>3, <3>1, <3>3, <3>4
      <3> QED BY <2>2, <2>4, <3>1, <3>2, <3>4, <3>5
    <2> QED BY <2>3, <2>4
  <1>6. F = [n \in 1 .. N |-> Body(F, n)]
    <2>1. W = [n \in 1 .. N |-> Body(W, n)]
      BY <1>5
    <2> HIDE DEF W, Body
    <2> QED BY <2>1
  <1> HIDE DEF F
  <1>7. \A n \in 1 .. N : F[n] = Body(F, n)
    <2> HIDE DEF Body
    <2> QED BY <1>6
  <1> DEFINE T == {n \in 0 .. N : n = 0 \/ FirstMax(x, n, F[n])}
  <1>8. 0 \in T
    OBVIOUS
  <1>9. ASSUME NEW n \in 0 .. N - 1, n \in T PROVE n + 1 \in T
    <2>1. n + 1 \in 1 .. N /\ (n + 1) - 1 = n /\ n + 1 \in 0 .. N /\ n \in Nat /\ n \in 0 .. N
      OBVIOUS
    <2>2. F[n + 1] = Body(F, n + 1)
      BY <1>7, <2>1
    <2>3. CASE n = 0
      <3>1. F[1] = 1
        BY <2>2, <2>3
      <3>2. \A i \in 1 .. 1 : i = 1
        OBVIOUS
      <3>3. x[1] \in Nat
        BY <2>1, <2>3
      <3>4. FirstMax(x, 1, 1)
        BY <3>2, <3>3 DEF FirstMax
      <3> QED BY <2>1, <2>3, <3>1, <3>4
    <2>4. CASE n # 0
      <3>1. PICK d : d = F[n]
        OBVIOUS
      <3>2. PICK e : e = F[n + 1]
        OBVIOUS
      <3>3. FirstMax(x, n, d)
        BY <1>9, <2>4, <3>1
      <3>4. e = IF x[n + 1] > x[d] THEN n + 1 ELSE d
        BY <2>1, <2>2, <2>4, <3>1, <3>2
      <3>5. d \in 1 .. n /\ d \in Nat /\ \A i \in 1 .. n : x[i] <= x[d] /\ (i < d => x[i] < x[d])
        BY <3>3 DEF FirstMax
      <3>6. \A i \in 1 .. n + 1 : x[i] \in Nat /\ i \in Nat /\ (i \in 1 .. n \/ i = n + 1)
        BY <2>1
      <3>7. e \in 1 .. n + 1 /\ d \in 1 .. n + 1
        BY <2>1, <3>4, <3>5
      <3>8. ASSUME NEW i \in 1 .. n + 1 PROVE x[i] <= x[e] /\ (i < e => x[i] < x[e])
        <4>1. x[i] \in Nat /\ x[d] \in Nat /\ x[n + 1] \in Nat /\ i \in Nat
          BY <2>1, <3>6, <3>7
        <4>2. CASE i \in 1 .. n
          <5>1. x[i] <= x[d] /\ (i < d => x[i] < x[d])
            BY <3>5, <4>2
          <5> QED BY <3>4, <4>1, <5>1
        <4>3. CASE i = n + 1
          <5>1. ~(n + 1 < n + 1) /\ ~(n + 1 < d)
            BY <2>1, <3>5
          <5>2. x[n + 1] <= x[e] /\ ~(n + 1 < e)
            <6>1. CASE x[n + 1] > x[d]
              BY <3>4, <4>1, <5>1, <6>1
            <6>2. CASE ~(x[n + 1] > x[d])
              BY <3>4, <4>1, <5>1, <6>2
            <6> QED BY <6>1, <6>2
          <5> QED BY <4>3, <5>2
        <4> QED BY <3>6, <4>2, <4>3
      <3>9. FirstMax(x, n + 1, e)
        BY <3>7, <3>8 DEF FirstMax
      <3> QED BY <2>1, <3>2, <3>9
    <2> QED BY <2>3, <2>4
  <1>10. N \in T
    <2>1. N \in 0 .. N /\ N \in Nat
      OBVIOUS
    <2> HIDE DEF T
    <2> QED BY <1>8, <1>9, <2>1, Induct
  <1> QED BY <1>1, <1>10

-----------------------------------------------------------------------------
(* AnalyzeScenario as a whole.                                             *)

\* The answer, as a function of what was given.
RatiosOf(i, staged) ==
    [fusedPerRecord  |-> scaledRatio(i.fused, i.records),
     stagedPerRecord |-> scaledRatio(staged, i.records),
     observer        |-> scaledRatio(staged, i.fused),
     fusedMAD        |-> ratioBasisPoints(i.deviation, i.fused),
     profileMAD      |-> ratioBasisPoints(i.spanDeviation, i.span),
     selectivity     |-> ratioBasisPoints(i.accepted, i.records)]
Unfit(i, total) ==
    \/ i.records = 0 \/ i.results # "equal"
    \/ total \in {Error, 0} \/ i.fused = 0 \/ i.span = 0
AnalysisOf(i) ==
    LET total == sumUint64(i.values)
        ratios == RatiosOf(i, sumUint64(Tail(i.values)))
    IN  IF Unfit(i, total) THEN [verdict |-> "refused"]
        ELSE IF \E f \in DOMAIN ratios : ratios[f] = Error THEN [verdict |-> "refused"]
        ELSE [verdict |-> "analysis", total |-> total, staged |-> sumUint64(Tail(i.values)),
              ratios |-> ratios, shares |-> apportionBasisPoints(i.values, total),
              dominant |-> dominant(i.values),
              dominantPipeline |-> dominant(Tail(i.values)) + 1]

\* What the property asks of the answer q to the input i.
Beyond(n, d, limit) == n * Scale >= (limit + 1) * d
Causes(i, staged) ==
    \/ 0 \in {i.records, i.fused, i.span} \/ i.results # "equal"
    \/ TrueSum(i.values) \notin 1 .. U64 - 1
    \/ Beyond(i.fused, i.records, Portable)
    \/ Beyond(staged, i.records, Portable) \/ Beyond(staged, i.fused, Portable)
    \/ Beyond(i.deviation, i.fused, U32) \/ Beyond(i.spanDeviation, i.span, U32)
ExactRatios(i, ratios, staged) ==
    /\ IsScaledFloor(ratios.fusedPerRecord, i.fused, i.records)
    /\ IsScaledFloor(ratios.stagedPerRecord, staged, i.records)
    /\ IsScaledFloor(ratios.observer, staged, i.fused)
    /\ IsScaledFloor(ratios.fusedMAD, i.deviation, i.fused)
    /\ IsScaledFloor(ratios.profileMAD, i.spanDeviation, i.span)
    /\ IsScaledFloor(ratios.selectivity, i.accepted, i.records)
    /\ ratios.selectivity <= Scale
FirstLargest(v, d, first) ==
    \A i \in first .. Stages : v[i] <= v[d] /\ (i < d => v[i] < v[d])
ExactAnalysis(i, q) ==
    LET staged == TrueSum(Tail(i.values))
    IN  /\ q.verdict = "refused" <=> Causes(i, staged)
        /\ q.verdict = "analysis" =>
             /\ q.total = TrueSum(i.values) /\ q.staged = staged
             /\ SharesAreProportional(i.values, q.shares, q.total)
             /\ ExactRatios(i, q.ratios, staged)
             /\ FirstLargest(i.values, q.dominant, 1)
             /\ FirstLargest(i.values, q.dominantPipeline, 2)

\* The figures of a profile.
ProfileGiven(i) ==
    /\ i.values \in [1 .. Stages -> Uint64]
    /\ i.fused \in Uint64 /\ i.deviation \in Uint64 /\ i.span \in Uint64
    /\ i.spanDeviation \in Uint64 /\ i.records \in Uint64 /\ i.accepted \in 0 .. i.records

\* The pipeline without the generation stage.
LEMMA PipelineIs ==
  ASSUME NEW v \in [1 .. Stages -> Uint64]
  PROVE  /\ v \in [1 .. Stages -> Nat] /\ Numbered(v) /\ Len(v) = Stages
         /\ Tail(v) \in [1 .. Stages - 1 -> Nat] /\ Numbered(Tail(v))
         /\ Len(Tail(v)) = Stages - 1
         /\ \A i \in 1 .. Stages - 1 : Tail(v)[i] = v[i + 1]
         /\ TrueSum(v) = v[1] + TrueSum(Tail(v)) /\ v[1] \in Nat
         /\ TrueSum(v) \in Nat /\ TrueSum(Tail(v)) \in Nat
  <1>0. Stages \in Nat /\ Stages >= 2 /\ U64 \in Nat
    BY Widths
  <1>1. v \in [1 .. Stages -> Nat]
    BY <1>0 DEF Uint64
  <1>2. v \in Seq(Nat) /\ Numbered(v) /\ Len(v) = Stages
    BY <1>0, <1>1, PositionsNumbered
  <1>3. v # <<>>
    BY <1>0, <1>2
  <1>4. PICK t : t = Tail(v)
    OBVIOUS
  <1>5. t \in Seq(Nat) /\ Len(t) = Stages - 1 /\ \A i \in 1 .. Stages - 1 : t[i] = v[i + 1]
    BY <1>0, <1>2, <1>3, <1>4, HeadTailProperties
  <1>6. Numbered(t) /\ t \in [1 .. Stages - 1 -> Nat]
    <2>1. DOMAIN t = 1 .. Stages - 1 /\ t \in [1 .. Len(t) -> Nat]
      BY <1>5, LenProperties
    <2> QED BY <1>5, <2>1, SeqNumbered
  <1>7. TrueSum(v) = v[1] + TrueSum(t)
    BY <1>0, <1>2, <1>5, <1>6, SumTail
  <1>8. v[1] \in Nat
    BY <1>0, <1>1
  <1>9. TrueSum(v) \in Nat /\ TrueSum(t) \in Nat
    BY <1>2, <1>6, SumsAre
  <1> QED BY <1>1, <1>2, <1>4, <1>5, <1>6, <1>7, <1>8, <1>9

\* A ratio is an error exactly if it is beyond its limit.
LEMMA RatioFails ==
  ASSUME NEW n \in Nat, NEW d \in Nat \ {0}, NEW limit \in Nat, NEW q, IsRatio(q, n, d, limit)
  PROVE  /\ q = Error <=> Beyond(n, d, limit)
         /\ q # Error => IsScaledFloor(q, n, d)
  <1>0. Scale \in Nat
    BY Widths
  <1>1. PICK x, y : x = (limit + 1) * d /\ y = n * Scale
    OBVIOUS
  <1>2. x \in Nat /\ y \in Nat
    <2>1. limit + 1 \in Nat /\ d \in Nat
      OBVIOUS
    <2> QED BY <1>0, <1>1, <2>1, TimesNat
  <1>3. (x <= y <=> y >= x) /\ (Beyond(n, d, limit) <=> y >= x)
    BY <1>1, <1>2 DEF Beyond
  <1>4. CASE x <= y
    BY <1>1, <1>3, <1>4 DEF IsRatio
  <1>5. CASE ~(x <= y)
    <2>1. IsFloor(q, y, d)
      BY <1>1, <1>5 DEF IsRatio
    <2>2. q \in Nat /\ q * d <= y /\ y < q * d + d
      BY <2>1 DEF IsFloor
    <2>3. (q + 1) * d = q * d + d
      BY <2>2, TimesNext
    <2>4. q # Error
      BY <2>2 DEF Error
    <2>5. q * d <= n * Scale /\ n * Scale < (q + 1) * d
      BY <1>1, <2>2, <2>3
    <2> QED BY <1>1, <1>3, <1>5, <2>2, <2>4, <2>5 DEF IsScaledFloor
  <1> QED BY <1>4, <1>5

\* The fields of the ratios.
LEMMA RatioFields ==
  ASSUME NEW i, NEW staged, NEW R, R = RatiosOf(i, staged)
  PROVE  /\ DOMAIN R = {"fusedPerRecord", "stagedPerRecord", "observer", "fusedMAD",
                        "profileMAD", "selectivity"}
         /\ R["fusedPerRecord"] = scaledRatio(i.fused, i.records)
         /\ R["stagedPerRecord"] = scaledRatio(staged, i.records)
         /\ R["observer"] = scaledRatio(staged, i.fused)
         /\ R["fusedMAD"] = ratioBasisPoints(i.deviation, i.fused)
         /\ R["profileMAD"] = ratioBasisPoints(i.spanDeviation, i.span)
         /\ R["selectivity"] = ratioBasisPoints(i.accepted, i.records)
  BY DEF RatiosOf

\* Some ratio is beyond its limit.
SomeBeyond(i, staged) ==
    \/ Beyond(i.fused, i.records, Portable)
    \/ Beyond(staged, i.records, Portable) \/ Beyond(staged, i.fused, Portable)
    \/ Beyond(i.deviation, i.fused, U32) \/ Beyond(i.spanDeviation, i.span, U32)
\* Some ratio is an error.
SomeFails(R) == \E f \in DOMAIN R : R[f] = Error

\* The ratios fail exactly if one is beyond its limit, and are exact otherwise.
LEMMA RatiosAre ==
  ASSUME NEW i, ProfileGiven(i), i.records # 0, i.fused # 0, i.span # 0,
         NEW staged \in Nat, NEW R, R = RatiosOf(i, staged)
  PROVE  /\ SomeFails(R) <=> SomeBeyond(i, staged)
         /\ ~SomeFails(R) => ExactRatios(i, R, staged)
  <1>0. U64 \in Nat /\ Portable \in Nat /\ U32 \in Nat /\ Scale \in Nat
    BY Widths
  <1>1. PICK f, d, t, e, r, a : f = i.fused /\ d = i.deviation /\ t = i.span
                                /\ e = i.spanDeviation /\ r = i.records /\ a = i.accepted
    OBVIOUS
  <1>2. /\ f \in Nat \ {0} /\ d \in Nat /\ t \in Nat \ {0} /\ e \in Nat /\ r \in Nat \ {0}
        /\ a \in Nat /\ a <= r
    BY <1>0, <1>1 DEF ProfileGiven, Uint64
  <1>3. PICK x1, x2, x3, x4, x5, x6 :
          /\ x1 = R["fusedPerRecord"] /\ x2 = R["stagedPerRecord"] /\ x3 = R["observer"]
          /\ x4 = R["fusedMAD"] /\ x5 = R["profileMAD"] /\ x6 = R["selectivity"]
    OBVIOUS
  <1>4. /\ x1 = scaledRatio(f, r) /\ x2 = scaledRatio(staged, r) /\ x3 = scaledRatio(staged, f)
        /\ x4 = ratioBasisPoints(d, f) /\ x5 = ratioBasisPoints(e, t)
        /\ x6 = ratioBasisPoints(a, r)
    BY <1>1, <1>3, RatioFields
  <1>5. IsRatio(x1, f, r, Portable) /\ IsRatio(x2, staged, r, Portable)
        /\ IsRatio(x3, staged, f, Portable)
    BY <1>2, <1>4, scaledRatioIs
  <1>6. IsRatio(x4, d, f, U32) /\ IsRatio(x5, e, t, U32) /\ IsRatio(x6, a, r, U32)
    BY <1>2, <1>4, ratioBasisPointsIs
  <1>a. /\ x1 = Error <=> Beyond(f, r, Portable)
        /\ x1 # Error => IsScaledFloor(x1, f, r)
    BY <1>0, <1>2, <1>5, RatioFails
  <1>b. /\ x2 = Error <=> Beyond(staged, r, Portable)
        /\ x2 # Error => IsScaledFloor(x2, staged, r)
    BY <1>0, <1>2, <1>5, RatioFails
  <1>c. /\ x3 = Error <=> Beyond(staged, f, Portable)
        /\ x3 # Error => IsScaledFloor(x3, staged, f)
    BY <1>0, <1>2, <1>5, RatioFails
  <1>d. /\ x4 = Error <=> Beyond(d, f, U32)
        /\ x4 # Error => IsScaledFloor(x4, d, f)
    BY <1>0, <1>2, <1>6, RatioFails
  <1>e. /\ x5 = Error <=> Beyond(e, t, U32)
        /\ x5 # Error => IsScaledFloor(x5, e, t)
    BY <1>0, <1>2, <1>6, RatioFails
  <1>f. x6 # Error => IsScaledFloor(x6, a, r)
    BY <1>0, <1>2, <1>6, RatioFails
  <1>8. x6 \in Nat /\ x6 <= Scale /\ x6 # Error
    BY <1>2, <1>6, PartIs DEF IsFloor, Error
  <1>9. SomeFails(R) <=> Error \in {x1, x2, x3, x4, x5, x6}
    BY <1>3, RatioFields DEF SomeFails
  <1>10. SomeFails(R) <=> SomeBeyond(i, staged)
    BY <1>1, <1>a, <1>b, <1>c, <1>d, <1>e, <1>8, <1>9 DEF SomeBeyond
  <1>11. ASSUME ~SomeFails(R) PROVE ExactRatios(i, R, staged)
    <2>1. x1 # Error /\ x2 # Error /\ x3 # Error /\ x4 # Error /\ x5 # Error
      BY <1>9, <1>11
    <2>2. /\ IsScaledFloor(x1, f, r) /\ IsScaledFloor(x2, staged, r)
          /\ IsScaledFloor(x3, staged, f) /\ IsScaledFloor(x4, d, f)
          /\ IsScaledFloor(x5, e, t) /\ IsScaledFloor(x6, a, r)
      BY <1>a, <1>b, <1>c, <1>d, <1>e, <1>f, <1>8, <2>1
    <2>3. /\ R.fusedPerRecord = x1 /\ R.stagedPerRecord = x2 /\ R.observer = x3
          /\ R.fusedMAD = x4 /\ R.profileMAD = x5 /\ R.selectivity = x6
      BY <1>3
    <2> QED BY <1>1, <1>8, <2>2, <2>3 DEF ExactRatios
  <1> QED BY <1>10, <1>11

\* The answer is exact.
LEMMA AnalysisOfIs ==
  ASSUME NEW i, ProfileGiven(i)
  PROVE  ExactAnalysis(i, AnalysisOf(i)) /\ AnalysisOf(i) # Unanswered
  <1>0. U64 \in Nat \ {0} /\ Stages \in Nat /\ Stages >= 2
    BY Widths
  <1>1. PICK v, t, total, staged : /\ v = i.values /\ t = Tail(v) /\ total = TrueSum(v)
                                   /\ staged = TrueSum(t)
    OBVIOUS
  <1>2. v \in [1 .. Stages -> Uint64]
    BY <1>1 DEF ProfileGiven
  <1>3. /\ v \in [1 .. Stages -> Nat] /\ Numbered(v) /\ Len(v) = Stages
        /\ t \in [1 .. Stages - 1 -> Nat] /\ Numbered(t) /\ Len(t) = Stages - 1
        /\ \A k \in 1 .. Stages - 1 : t[k] = v[k + 1]
        /\ total = v[1] + staged /\ v[1] \in Nat /\ total \in Nat /\ staged \in Nat
    BY <1>1, <1>2, PipelineIs
  <1>4. sumUint64(v) = IF total < U64 THEN total ELSE Error
    BY <1>1, <1>3, sumUint64Is
  <1>5. PICK q, R : q = AnalysisOf(i) /\ R = RatiosOf(i, sumUint64(t))
    OBVIOUS
  <1>6. q = IF Unfit(i, sumUint64(v)) THEN [verdict |-> "refused"]
            ELSE IF SomeFails(R) THEN [verdict |-> "refused"]
            ELSE [verdict |-> "analysis", total |-> sumUint64(v), staged |-> sumUint64(t),
                  ratios |-> R, shares |-> apportionBasisPoints(v, sumUint64(v)),
                  dominant |-> dominant(v), dominantPipeline |-> dominant(t) + 1]
    BY <1>1, <1>5 DEF AnalysisOf, SomeFails
  <1>7. Unfit(i, sumUint64(v)) <=>
          \/ 0 \in {i.records, i.fused, i.span} \/ i.results # "equal"
          \/ total \notin 1 .. U64 - 1
    <2>1. sumUint64(v) \in {Error, 0} <=> total \notin 1 .. U64 - 1
      BY <1>0, <1>3, <1>4 DEF Error
    <2> QED BY <2>1 DEF Unfit
  <1>8. Causes(i, staged) <=> Unfit(i, sumUint64(v)) \/ SomeBeyond(i, staged)
    BY <1>1, <1>7 DEF Causes, SomeBeyond
  <1>9. CASE Unfit(i, sumUint64(v))
    <2>1. q = [verdict |-> "refused"]
      BY <1>6, <1>9
    <2>2. q.verdict = "refused" /\ q # Unanswered
      BY <2>1 DEF Unanswered
    <2> QED BY <1>1, <1>5, <1>8, <1>9, <2>2 DEF ExactAnalysis
  <1>10. CASE ~Unfit(i, sumUint64(v))
    <2>1. total \in 1 .. U64 - 1 /\ i.records # 0 /\ i.fused # 0 /\ i.span # 0
      BY <1>7, <1>10
    <2>2. sumUint64(v) = total /\ sumUint64(t) = staged
      <3>1. total < U64 /\ staged < U64
        BY <1>0, <1>3, <2>1
      <3> QED BY <1>1, <1>3, <1>4, <3>1, sumUint64Is
    <2>3. /\ SomeFails(R) <=> SomeBeyond(i, staged)
          /\ ~SomeFails(R) => ExactRatios(i, R, staged)
      BY <1>3, <1>5, <2>1, <2>2, RatiosAre
    <2>4. CASE SomeFails(R)
      <3>1. q = [verdict |-> "refused"]
        BY <1>6, <1>10, <2>4
      <3>2. q.verdict = "refused" /\ q # Unanswered
        BY <3>1 DEF Unanswered
      <3> QED BY <1>1, <1>5, <1>8, <2>3, <2>4, <3>2 DEF ExactAnalysis
    <2>5. CASE ~SomeFails(R)
      <3>1. PICK sh, d, e : sh = apportionBasisPoints(v, total) /\ d = dominant(v)
                            /\ e = dominant(t)
        OBVIOUS
      <3>2. q = [verdict |-> "analysis", total |-> total, staged |-> staged,
                 ratios |-> R, shares |-> sh, dominant |-> d, dominantPipeline |-> e + 1]
        BY <1>6, <1>10, <2>2, <2>5, <3>1
      <3>3. /\ q.verdict = "analysis" /\ q.total = total /\ q.staged = staged
            /\ q.ratios = R /\ q.shares = sh
            /\ q.dominant = d /\ q.dominantPipeline = e + 1
        BY <3>2
      <3>4. SharesAreProportional(v, sh, total)
        <4>1. Shared(v, Stages, total)
          BY <1>0, <1>1, <1>3, <2>1 DEF Shared
        <4> QED BY <3>1, <4>1, SharesAre
      <3>5. FirstLargest(v, d, 1)
        <4>1. FirstMax(v, Stages, d)
          <5>1. Stages \in Nat \ {0} /\ v \in [1 .. Stages -> Nat]
            BY <1>0, <1>3
          <5> QED BY <3>1, <5>1, dominantIs
        <4> QED BY <4>1 DEF FirstMax, FirstLargest
      <3>6. FirstLargest(v, e + 1, 2)
        <4>1. Stages - 1 \in Nat \ {0}
          BY <1>0
        <4>2. FirstMax(t, Stages - 1, e)
          BY <1>3, <3>1, <4>1, dominantIs
        <4>3. e \in 1 .. Stages - 1 /\ t[e] = v[e + 1]
          BY <1>3, <4>2 DEF FirstMax
        <4>4. ASSUME NEW k \in 2 .. Stages PROVE v[k] <= v[e + 1] /\ (k < e + 1 => v[k] < v[e + 1])
          <5>1. k - 1 \in 1 .. Stages - 1 /\ (k - 1) + 1 = k /\ (k < e + 1 => k - 1 < e)
            BY <1>0, <4>3
          <5>2. t[k - 1] = v[k]
            BY <1>3, <5>1
          <5>3. t[k - 1] <= t[e] /\ (k - 1 < e => t[k - 1] < t[e])
            BY <4>2, <5>1 DEF FirstMax
          <5> QED BY <4>3, <5>1, <5>2, <5>3
        <4> QED BY <4>4 DEF FirstLargest
      <3>7. q.verdict # "refused" /\ q # Unanswered
        BY <3>3 DEF Unanswered
      <3>8. ~Causes(i, staged)
        BY <1>8, <1>10, <2>3, <2>5
      <3> QED BY <1>1, <1>5, <2>3, <2>5, <3>3, <3>4, <3>5, <3>6, <3>7, <3>8 DEF ExactAnalysis
    <2> QED BY <2>4, <2>5
  <1> QED BY <1>9, <1>10

\* A profile is given as it should be, and its analysis is exact.
AnalysisInv ==
    input.kind = "profile" =>
        ProfileGiven(input) /\ (report = Unanswered \/ ExactAnalysis(input, report))

\* A profile is given at first.
LEMMA AnalysisStart == ASSUME Init PROVE AnalysisInv
  <1>0. /\ Fused \subseteq Uint64 /\ Deviations \subseteq Uint64
        /\ Spans \subseteq Uint64 /\ Records \subseteq Uint64
    BY WidthAssumption DEF Uint64
  <1>1. CASE StatisticsInit
    <2>1. report = Unanswered
      BY <1>1 DEF StatisticsInit
    <2>2. SUFFICES ASSUME input.kind = "profile" PROVE ProfileGiven(input)
      BY <2>1 DEF AnalysisInv
    <2>3. PICK s \in [1 .. Stages -> Uint64], f \in Fused, d \in Deviations, t \in Spans,
               r \in Records, results \in {"equal", "different", "invalid"} :
            \E a \in 0 .. r, e \in Deviations :
              input = [kind |-> "profile", values |-> s, fused |-> f, deviation |-> d,
                       span |-> t, spanDeviation |-> e, records |-> r, accepted |-> a,
                       results |-> results]
      BY <1>1, <2>2 DEF StatisticsInit
    <2>4. PICK a \in 0 .. r, e \in Deviations :
              input = [kind |-> "profile", values |-> s, fused |-> f, deviation |-> d,
                       span |-> t, spanDeviation |-> e, records |-> r, accepted |-> a,
                       results |-> results]
      BY <2>3
    <2>5. /\ input.values = s /\ input.fused = f /\ input.deviation = d /\ input.span = t
          /\ input.spanDeviation = e /\ input.records = r /\ input.accepted = a
      BY <2>4
    <2> QED BY <1>0, <2>5 DEF ProfileGiven
  <1>2. CASE ~StatisticsInit
    <2>1. input.kind # "profile"
      BY <1>2, InitKinds DEF Init
    <2> QED BY <2>1 DEF AnalysisInv
  <1> QED BY <1>1, <1>2

\* Every step keeps the invariant.
LEMMA AnalysisStep == ASSUME KindInv, AnalysisInv, [Next]_calcVars PROVE AnalysisInv'
  <1>1. CASE input.kind # "profile"
    BY <1>1, KindsApart DEF AnalysisInv
  <1>2. CASE UNCHANGED calcVars
    BY <1>2 DEF calcVars, AnalysisInv
  <1>3. CASE input.kind = "profile" /\ Next
    <2>1. StatisticsNext
      BY <1>3, KindsApart DEF Next
    <2>2. Analyze
      BY <1>3, <2>1 DEF StatisticsNext, Summarize, Asked
    <2>3. UNCHANGED input /\ report' = AnalysisOf(input)
      BY <2>2 DEF Analyze, Answer, AnalysisOf, RatiosOf, Unfit
    <2>4. ProfileGiven(input)
      BY <1>3 DEF AnalysisInv
    <2>5. ExactAnalysis(input, AnalysisOf(input))
      BY <2>4, AnalysisOfIs
    <2> QED BY <2>3, <2>4, <2>5 DEF AnalysisInv
  <1> QED BY <1>1, <1>2, <1>3

\* AnalyzeScenario refuses a profile exactly if there is a cause, no division of it
\* panics, and what it answers is exact: the true sums, for each of the six
\* ratios the floor of the true one, shares that add up to 10000 and follow the
\* medians, and the first of the largest stages
\* (apportionBasisPoints, scaledRatio, dominant).  For every number of stages and
\* every width of the integers.
THEOREM AnalysesAreExact == Spec => []AnalysisIsExact
  <1>1. Init => AnalysisInv
    BY AnalysisStart
  <1>2. KindInv /\ AnalysisInv /\ [Next]_calcVars => AnalysisInv'
    BY AnalysisStep
  <1>3. AnalysisInv => AnalysisIsExact
    BY DEF AnalysisInv, AnalysisIsExact, ExactAnalysis, RefusedForCause, Causes, Beyond,
           RatiosAreExact, ExactRatios, IsFirstLargest, FirstLargest
  <1> QED BY <1>1, <1>2, <1>3, KindInvariant, PTL DEF Spec

-----------------------------------------------------------------------------
(* Sorting.                                                                *)

\* An order of n positions.
IsOrder(p, n) == p \in [1 .. n -> 1 .. n] /\ \A i, j \in 1 .. n : p[i] = p[j] => i = j

\* It has every position.
LEMMA OrderCovers ==
  ASSUME NEW n \in Nat, NEW p, IsOrder(p, n)
  PROVE  \A i \in 1 .. n : \E k \in 1 .. n : p[k] = i
  <1>1. p \in Injection(1 .. n, 1 .. n)
    BY DEF IsOrder, Injection, IsInjective
  <1>2. IsFiniteSet(1 .. n)
    BY FS_Interval
  <1>3. p \in Surjection(1 .. n, 1 .. n)
    BY <1>1, <1>2, FS_Injection
  <1> QED BY <1>3 DEF Surjection

\* As many positions of the ordered values as of the values have a property.
LEMMA OrderCounts ==
  ASSUME NEW n \in Nat, NEW p, IsOrder(p, n), NEW A, A \subseteq 1 .. n
  PROVE  Cardinality({k \in 1 .. n : p[k] \in A}) = Cardinality(A)
  <1> DEFINE B == {k \in 1 .. n : p[k] \in A}
             g == [k \in B |-> p[k]]
  <1>1. \A i \in 1 .. n : \E k \in 1 .. n : p[k] = i
    BY OrderCovers
  <1>2. p \in [1 .. n -> 1 .. n] /\ \A i, j \in 1 .. n : p[i] = p[j] => i = j
    BY DEF IsOrder
  <1>3. g \in [B -> A]
    BY <1>2
  <1>4. \A i, j \in B : g[i] = g[j] => i = j
    BY <1>2
  <1>5. \A i \in A : \E k \in B : g[k] = i
    <2> SUFFICES ASSUME NEW i \in A PROVE \E k \in B : g[k] = i
      OBVIOUS
    <2>1. PICK k \in 1 .. n : p[k] = i
      BY <1>1
    <2>2. k \in B /\ g[k] = i
      BY <2>1
    <2> QED BY <2>2
  <1>6. IsFiniteSet(B)
    <2>1. IsFiniteSet(1 .. n)
      BY FS_Interval
    <2> QED BY <2>1, FS_Subset
  <1> HIDE DEF B, g
  <1>7. g \in Bijection(B, A)
    BY <1>3, <1>4, <1>5 DEF Bijection, Injection, IsInjective, Surjection
  <1>8. ExistsBijection(B, A)
    BY <1>7 DEF ExistsBijection
  <1>9. Cardinality(A) = Cardinality(B)
    BY <1>6, <1>8, FS_Bijection
  <1> QED BY <1>9 DEF B

\* t is s in another order.
Reordered(s, t, n) ==
    /\ n \in Nat \ {0} /\ s \in [1 .. n -> Nat] /\ t \in [1 .. n -> Nat]
    /\ \E p : IsOrder(p, n) /\ \A k \in 1 .. n : t[k] = s[p[k]]

\* The k-th smallest value does not depend on the order.
LEMMA StatisticKept ==
  ASSUME NEW s, NEW t, NEW n, Reordered(s, t, n), NEW k
  PROVE  OrderStatistic(t, k) = OrderStatistic(s, k)
  <1>1. PICK p : IsOrder(p, n) /\ \A j \in 1 .. n : t[j] = s[p[j]]
    BY DEF Reordered
  <1>2. n \in Nat /\ DOMAIN s = 1 .. n /\ DOMAIN t = 1 .. n
    BY DEF Reordered
  <1>3. \A j \in 1 .. n : p[j] \in 1 .. n
    BY <1>1 DEF IsOrder
  <1>4. \A i \in 1 .. n : \E j \in 1 .. n : p[j] = i
    BY <1>1, <1>2, OrderCovers
  <1>5. {t[i] : i \in DOMAIN t} = {s[i] : i \in DOMAIN s}
    <2>1. \A i \in 1 .. n : \E j \in 1 .. n : t[i] = s[j]
      BY <1>1, <1>3
    <2>2. \A i \in 1 .. n : \E j \in 1 .. n : s[i] = t[j]
      BY <1>1, <1>4
    <2>3. \A v : v \in {t[i] : i \in 1 .. n} <=> v \in {s[i] : i \in 1 .. n}
      BY <2>1, <2>2
    <2> QED BY <1>2, <2>3
  <1>6. ASSUME NEW v
        PROVE  Cardinality({i \in DOMAIN t : t[i] < v}) = Cardinality({i \in DOMAIN s : s[i] < v})
    <2> DEFINE A == {i \in 1 .. n : s[i] < v}
    <2>1. {i \in DOMAIN t : t[i] < v} = {i \in 1 .. n : p[i] \in A}
      BY <1>1, <1>2, <1>3
    <2>2. {i \in DOMAIN s : s[i] < v} = A /\ A \subseteq 1 .. n
      BY <1>2
    <2> HIDE DEF A
    <2>3. Cardinality({i \in 1 .. n : p[i] \in A}) = Cardinality(A)
      BY <1>1, <1>2, <2>2, OrderCounts
    <2> QED BY <2>1, <2>2, <2>3
  <1>7. ASSUME NEW v
        PROVE  Cardinality({i \in DOMAIN t : t[i] <= v}) = Cardinality({i \in DOMAIN s : s[i] <= v})
    <2> DEFINE A == {i \in 1 .. n : s[i] <= v}
    <2>1. {i \in DOMAIN t : t[i] <= v} = {i \in 1 .. n : p[i] \in A}
      BY <1>1, <1>2, <1>3
    <2>2. {i \in DOMAIN s : s[i] <= v} = A /\ A \subseteq 1 .. n
      BY <1>2
    <2> HIDE DEF A
    <2>3. Cardinality({i \in 1 .. n : p[i] \in A}) = Cardinality(A)
      BY <1>1, <1>2, <2>2, OrderCounts
    <2> QED BY <2>1, <2>2, <2>3
  <1> QED BY <1>5, <1>6, <1>7 DEF OrderStatistic

\* The values ascend.
Ascends(t, n) ==
    /\ n \in Nat \ {0} /\ t \in [1 .. n -> Nat]
    /\ \A k \in 2 .. n : t[k - 1] <= t[k]

\* They ascend between any two places.
LEMMA AscendsFar ==
  ASSUME NEW t, NEW n, Ascends(t, n)
  PROVE  \A j \in 1 .. n : \A i \in 1 .. j : t[i] <= t[j]
  <1> DEFINE T == {j \in 0 .. n : \A i \in 1 .. j : t[i] <= t[j]}
  <1>1. n \in Nat /\ n > 0 /\ t \in [1 .. n -> Nat] /\ \A k \in 2 .. n : t[k - 1] <= t[k]
    BY DEF Ascends
  <1>2. 0 \in T
    BY <1>1
  <1>3. ASSUME NEW j \in 0 .. n - 1, j \in T PROVE j + 1 \in T
    <2>1. j + 1 \in 1 .. n /\ j \in Nat /\ j + 1 \in 0 .. n
      BY <1>1
    <2>2. ASSUME NEW i \in 1 .. j + 1 PROVE t[i] <= t[j + 1]
      <3>1. CASE i = j + 1
        BY <1>1, <2>1, <3>1
      <3>2. CASE i \in 1 .. j
        <4>1. j + 1 \in 2 .. n /\ (j + 1) - 1 = j /\ i \in 1 .. n /\ j \in 1 .. n
          BY <1>1, <2>1, <3>2
        <4>2. t[j] <= t[j + 1] /\ t[i] <= t[j]
          BY <1>1, <1>3, <3>2, <4>1
        <4>3. t[i] \in Nat /\ t[j] \in Nat /\ t[j + 1] \in Nat
          BY <1>1, <2>1, <4>1
        <4> QED BY <4>2, <4>3
      <3> QED BY <2>1, <3>1, <3>2
    <2> QED BY <2>1, <2>2
  <1>4. \A j \in 0 .. n : j \in T
    <2> HIDE DEF T
    <2> QED BY <1>1, <1>2, <1>3, Induct
  <1>5. \A j \in 1 .. n : j \in 0 .. n
    BY <1>1
  <1> QED BY <1>4, <1>5

\* The k-th smallest of values that ascend is the k-th.
LEMMA StatisticIs ==
  ASSUME NEW t, NEW n, Ascends(t, n), NEW k \in 1 .. n
  PROVE  OrderStatistic(t, k) = t[k]
  <1> DEFINE V == {t[i] : i \in DOMAIN t}
             L(v) == {i \in DOMAIN t : t[i] < v}
             E(v) == {i \in DOMAIN t : t[i] <= v}
             Is(v) == Cardinality(L(v)) < k /\ k <= Cardinality(E(v))
  <1>1. n \in Nat /\ n > 0 /\ t \in [1 .. n -> Nat] /\ DOMAIN t = 1 .. n /\ k \in Nat /\ k >= 1
    BY DEF Ascends
  <1>2. \A j \in 1 .. n : \A i \in 1 .. j : t[i] <= t[j]
    BY AscendsFar
  <1>3. \A v : /\ IsFiniteSet(L(v)) /\ IsFiniteSet(E(v))
               /\ Cardinality(L(v)) \in Nat /\ Cardinality(E(v)) \in Nat
    <2> SUFFICES ASSUME NEW v
                 PROVE  /\ IsFiniteSet(L(v)) /\ IsFiniteSet(E(v))
                        /\ Cardinality(L(v)) \in Nat /\ Cardinality(E(v)) \in Nat
      OBVIOUS
    <2>0. IsFiniteSet(1 .. n)
      BY <1>1, FS_Interval
    <2>1. L(v) \subseteq 1 .. n /\ E(v) \subseteq 1 .. n
      BY <1>1
    <2> HIDE DEF L, E
    <2>2. IsFiniteSet(L(v)) /\ IsFiniteSet(E(v))
      BY <2>0, <2>1, FS_Subset
    <2> QED BY <2>2, FS_CardinalityType
  <1>4. t[k] \in V /\ Is(t[k])
    <2>1. L(t[k]) \subseteq 1 .. k - 1
      <3> SUFFICES ASSUME NEW i \in 1 .. n, t[i] < t[k] PROVE i \in 1 .. k - 1
        BY <1>1
      <3>1. t[i] \in Nat /\ t[k] \in Nat /\ i \in Nat
        BY <1>1
      <3>2. ~(i >= k)
        <4> SUFFICES ASSUME i >= k PROVE FALSE
          OBVIOUS
        <4>1. k \in 1 .. i
          BY <1>1, <3>1
        <4>2. t[k] <= t[i]
          BY <1>2, <4>1
        <4> QED BY <3>1, <4>2
      <3> QED BY <1>1, <3>1, <3>2
    <2>2. 1 .. k \subseteq E(t[k])
      BY <1>1, <1>2
    <2>3. IsFiniteSet(1 .. k - 1) /\ Cardinality(1 .. k - 1) = k - 1
          /\ Cardinality(1 .. k) = k
      <3>1. PICK m : m = k - 1
        OBVIOUS
      <3>2. m \in Int /\ k \in Int /\ 1 \in Int
        BY <1>1, <3>1
      <3>3. IsFiniteSet(1 .. m) /\ Cardinality(1 .. m) = IF 1 > m THEN 0 ELSE m - 1 + 1
        BY <3>2, FS_Interval
      <3>4. Cardinality(1 .. k) = IF 1 > k THEN 0 ELSE k - 1 + 1
        BY <3>2, FS_Interval
      <3>5. (IF 1 > m THEN 0 ELSE m - 1 + 1) = m /\ (IF 1 > k THEN 0 ELSE k - 1 + 1) = k
        BY <1>1, <3>1
      <3> QED BY <3>1, <3>3, <3>4, <3>5
    <2> HIDE DEF L, E
    <2>4. Cardinality(L(t[k])) <= k - 1
      BY <2>1, <2>3, FS_Subset
    <2>5. k <= Cardinality(E(t[k]))
      BY <1>3, <2>2, <2>3, FS_Subset
    <2>6. Cardinality(L(t[k])) \in Nat
      BY <1>3
    <2> QED BY <1>1, <2>4, <2>5, <2>6
  <1>5. ASSUME NEW v \in V, NEW w \in V, Is(v), Is(w), v < w PROVE FALSE
    <2>1. v \in Nat /\ w \in Nat
      BY <1>1
    <2>2. E(v) \subseteq L(w)
      <3> SUFFICES ASSUME NEW i \in 1 .. n, t[i] <= v PROVE t[i] < w
        BY <1>1
      <3>1. t[i] \in Nat
        BY <1>1
      <3> QED BY <1>5, <2>1, <3>1
    <2> HIDE DEF L, E
    <2>3. Cardinality(E(v)) <= Cardinality(L(w))
      BY <1>3, <2>2, FS_Subset
    <2>4. Cardinality(E(v)) \in Nat /\ Cardinality(L(w)) \in Nat
      BY <1>3
    <2> QED BY <1>1, <1>5, <2>3, <2>4
  <1>6. ASSUME NEW v \in V, Is(v) PROVE v = t[k]
    <2>1. v \in Nat /\ t[k] \in Nat
      BY <1>1
    <2> HIDE DEF V, Is
    <2>2. ~(v < t[k]) /\ ~(t[k] < v)
      BY <1>4, <1>5, <1>6
    <2> QED BY <2>1, <2>2
  <1>7. OrderStatistic(t, k) = CHOOSE v \in V : Is(v)
    BY DEF OrderStatistic
  <1> HIDE DEF V, Is
  <1> QED BY <1>4, <1>6, <1>7

\* There is an order in which the values ascend: the one of their places.
LEMMA OrderExists ==
  ASSUME NEW n \in Nat \ {0}, NEW s \in [1 .. n -> Nat]
  PROVE  \E p : IsOrder(p, n) /\ \A k \in 2 .. n : s[p[k - 1]] <= s[p[k]]
  <1> DEFINE x == [i \in 1 .. n |-> 0 - s[i]]
             p == [k \in 1 .. n |-> CHOOSE i \in 1 .. n : ShareRank(x, i) = k - 1]
  <1>1. Ordered(x, n)
    BY DEF Ordered
  <1>2. \A i \in 1 .. n : x[i] = 0 - s[i] /\ s[i] \in Nat
    OBVIOUS
  <1> HIDE DEF x
  <1>3. \A k \in 1 .. n : \E i \in 1 .. n : ShareRank(x, i) = k - 1
    <2> SUFFICES ASSUME NEW k \in 1 .. n PROVE \E i \in 1 .. n : ShareRank(x, i) = k - 1
      OBVIOUS
    <2> DEFINE f == [i \in 1 .. n |-> ShareRank(x, i)]
    <2>1. n > 0
      OBVIOUS
    <2>2. f \in Surjection(1 .. n, 0 .. n - 1)
      BY <1>1, <2>1, RanksTaken
    <2>3. k - 1 \in 0 .. n - 1
      OBVIOUS
    <2>4. \E i \in 1 .. n : f[i] = k - 1
      <3> HIDE DEF f
      <3> QED BY <2>2, <2>3 DEF Surjection
    <2> QED BY <2>4
  <1>4. \A k \in 1 .. n : p[k] \in 1 .. n /\ ShareRank(x, p[k]) = k - 1
    BY <1>3
  <1>5. p \in [1 .. n -> 1 .. n]
    <2>1. p = [k \in 1 .. n |-> p[k]]
      OBVIOUS
    <2> HIDE DEF p
    <2> QED BY <1>4, <2>1
  <1> HIDE DEF p
  <1>6. \A i, j \in 1 .. n : p[i] = p[j] => i = j
    <2> SUFFICES ASSUME NEW i \in 1 .. n, NEW j \in 1 .. n, p[i] = p[j] PROVE i = j
      OBVIOUS
    <2>1. i - 1 = j - 1
      BY <1>4
    <2> QED BY <2>1
  <1>7. ASSUME NEW k \in 2 .. n PROVE s[p[k - 1]] <= s[p[k]]
    <2>1. k \in 1 .. n /\ k - 1 \in 1 .. n /\ ~(k - 1 < (k - 1) - 1)
      OBVIOUS
    <2>2. PICK i, j : i = p[k - 1] /\ j = p[k]
      OBVIOUS
    <2>3. /\ i \in 1 .. n /\ j \in 1 .. n
          /\ ShareRank(x, i) = (k - 1) - 1 /\ ShareRank(x, j) = k - 1
      BY <1>4, <2>1, <2>2
    <2>4. j \notin Ahead(x, i)
      <3>1. j \in Ahead(x, i) => ShareRank(x, j) < ShareRank(x, i)
        BY <1>1, <2>3, RanksOrdered
      <3> QED BY <2>1, <2>3, <3>1
    <2>5. ~(x[j] > x[i])
      BY <1>1, <2>3, <2>4 DEF Ahead, Ordered
    <2>6. x[i] = 0 - s[i] /\ x[j] = 0 - s[j] /\ s[i] \in Nat /\ s[j] \in Nat
      BY <1>2, <2>3
    <2>7. s[i] <= s[j]
      BY <2>5, <2>6
    <2> QED BY <2>2, <2>7
  <1>8. IsOrder(p, n)
    BY <1>5, <1>6 DEF IsOrder
  <1> QED BY <1>7, <1>8

\* sort.Slice sorts.
LEMMA SortedIs ==
  ASSUME NEW n \in 1 .. MaxSamples, NEW s \in [1 .. n -> Nat]
  PROVE  Ascends(Sorted(s), n) /\ Reordered(s, Sorted(s), n)
  <1>0. n \in Nat \ {0} /\ MaxSamples \in Nat
    BY WidthAssumption
  <1>1. Len(s) = n /\ DOMAIN s = 1 .. n
    BY <1>0, PositionsNumbered
  <1> DEFINE O == Orders[n]
             C == {[k \in 1 .. n |-> s[p[k]]] : p \in O}
             Up(t) == \A k \in 2 .. n : t[k - 1] <= t[k]
  <1>2. \A p : p \in O <=> IsOrder(p, n)
    BY <1>0 DEF Orders, IsOrder
  <1> HIDE DEF O
  <1>3. Sorted(s) = CHOOSE t \in C : Up(t)
    BY <1>1 DEF Sorted, O
  <1>4. ASSUME NEW p \in O
        PROVE  /\ p \in [1 .. n -> 1 .. n]
               /\ [k \in 1 .. n |-> s[p[k]]] \in [1 .. n -> Nat]
    <2>1. p \in [1 .. n -> 1 .. n]
      BY <1>2 DEF IsOrder
    <2> QED BY <2>1
  <1>5. \E t \in C : Up(t)
    <2>1. PICK p : IsOrder(p, n) /\ \A k \in 2 .. n : s[p[k - 1]] <= s[p[k]]
      BY <1>0, OrderExists
    <2>2. p \in O
      BY <1>2, <2>1
    <2> DEFINE t == [k \in 1 .. n |-> s[p[k]]]
    <2>3. t \in C
      BY <2>2
    <2>4. ASSUME NEW k \in 2 .. n PROVE t[k - 1] <= t[k]
      <3>1. k \in 1 .. n /\ k - 1 \in 1 .. n
        BY <1>0
      <3>2. t[k - 1] = s[p[k - 1]] /\ t[k] = s[p[k]]
        BY <3>1
      <3> QED BY <2>1, <3>2
    <2> HIDE DEF t
    <2> QED BY <2>3, <2>4
  <1>6. PICK t : t = Sorted(s)
    OBVIOUS
  <1>7. t \in C /\ Up(t)
    <2> HIDE DEF C, Up
    <2> QED BY <1>3, <1>5, <1>6
  <1>8. PICK p \in O : t = [k \in 1 .. n |-> s[p[k]]]
    BY <1>7
  <1>9. t \in [1 .. n -> Nat] /\ \A k \in 1 .. n : t[k] = s[p[k]]
    BY <1>4, <1>8
  <1>10. Ascends(t, n)
    BY <1>0, <1>7, <1>9 DEF Ascends
  <1>11. Reordered(s, t, n)
    BY <1>0, <1>2, <1>9 DEF Reordered
  <1> QED BY <1>6, <1>10, <1>11

-----------------------------------------------------------------------------
(* Medians.                                                                *)

\* Halves.
LEMMA OddHalf == ASSUME NEW m \in Nat PROVE (2 * m + 1) \div 2 = m /\ (2 * m + 1) % 2 = 1
  OBVIOUS
\* Half of an even number.
LEMMA EvenHalf == ASSUME NEW m \in Nat PROVE (2 * m) \div 2 = m /\ (2 * m) % 2 = 0
  OBVIOUS
\* A number is even or odd.
LEMMA OddOrEven == ASSUME NEW n \in Nat PROVE \E m \in Nat : n = 2 * m \/ n = 2 * m + 1
  <1>1. n \div 2 \in Nat /\ (n = 2 * (n \div 2) \/ n = 2 * (n \div 2) + 1)
    OBVIOUS
  <1> QED BY <1>1
\* Between two numbers.
LEMMA Midpoint ==
  ASSUME NEW a \in Nat, NEW b \in Nat, a <= b
  PROVE  a + (b - a) \div 2 = (a + b) \div 2 /\ (a + b) \div 2 <= b /\ (a + b) \div 2 \in Nat
  OBVIOUS
\* The rest of a number below the divisor.
LEMMA SmallRest == ASSUME NEW a \in Nat, NEW b \in Nat, a < b PROVE a % b = a
  OBVIOUS

\* The median does not wrap and is the true one, of values below 2^64.
LEMMA integerMedianIs ==
  ASSUME NEW t, NEW n, Ascends(t, n), \A i \in 1 .. n : t[i] < U64
  PROVE  integerMedian(t) = Median(t) /\ Median(t) \in Uint64
  <1>0. U64 \in Nat
    BY Widths
  <1>1. n \in Nat \ {0} /\ t \in [1 .. n -> Nat] /\ Len(t) = n
    BY PositionsNumbered DEF Ascends
  <1>2. PICK m \in Nat : n = 2 * m \/ n = 2 * m + 1
    BY <1>1, OddOrEven
  <1>3. \A k \in 1 .. n : OrderStatistic(t, k) = t[k] /\ t[k] \in Nat /\ t[k] < U64
    BY <1>1, StatisticIs
  <1>4. CASE n = 2 * m + 1
    <2>1. n \div 2 = m /\ n % 2 = 1 /\ m + 1 \in 1 .. n
      BY <1>2, <1>4, OddHalf
    <2>2. (n + 1) \div 2 = m + 1
      <3>1. n + 1 = 2 * (m + 1)
        BY <1>2, <1>4
      <3> QED BY <1>2, <3>1, EvenHalf
    <2>3. PICK a : a = t[m + 1]
      OBVIOUS
    <2>4. a \in Nat /\ a < U64 /\ OrderStatistic(t, m + 1) = a
      BY <1>3, <2>1, <2>3
    <2>5. Median(t) = (a + a) \div 2
      BY <1>1, <2>1, <2>2, <2>4 DEF Median
    <2>6. (a + a) \div 2 = a
      BY <2>4
    <2>7. integerMedian(t) = a
      BY <1>1, <2>1, <2>3 DEF integerMedian
    <2> QED BY <1>0, <2>4, <2>5, <2>6, <2>7 DEF Uint64
  <1>5. CASE n = 2 * m
    <2>1. n \div 2 = m /\ n % 2 = 0
      BY <1>2, <1>5, EvenHalf
    <2>2. m \in 1 .. n /\ m + 1 \in 1 .. n /\ m \in 1 .. m + 1
      BY <1>1, <1>2, <1>5
    <2>3. (n + 1) \div 2 = m
      BY <1>2, <1>5, OddHalf
    <2>4. PICK a, b : a = t[m] /\ b = t[m + 1]
      OBVIOUS
    <2>5. /\ a \in Nat /\ b \in Nat /\ b < U64 /\ OrderStatistic(t, m) = a
          /\ OrderStatistic(t, m + 1) = b
      BY <1>3, <2>2, <2>4
    <2>6. a <= b
      BY <2>2, <2>4, AscendsFar
    <2>7. Median(t) = (a + b) \div 2
      BY <1>1, <2>1, <2>3, <2>5 DEF Median
    <2>8. PICK c : c = (a + b) \div 2
      OBVIOUS
    <2>9. a + (b - a) \div 2 = c /\ c <= b /\ c \in Nat
      BY <2>5, <2>6, <2>8, Midpoint
    <2>10. integerMedian(t) = (a + (b - a) \div 2) % U64
      BY <1>1, <2>1, <2>4 DEF integerMedian
    <2>11. c < U64
      BY <1>0, <2>5, <2>9
    <2>12. c % U64 = c
      BY <1>0, <2>9, <2>11, SmallRest
    <2> QED BY <1>0, <2>7, <2>8, <2>9, <2>10, <2>11, <2>12 DEF Uint64
  <1> QED BY <1>2, <1>4, <1>5

-----------------------------------------------------------------------------
(* The summary of a sample set.                                            *)

\* What the property asks of the summary of s.
ExactSummary(s) ==
    [min |-> OrderStatistic(s, 1), median |-> Median(s),
     mad |-> Median([i \in DOMAIN s |-> Distance(s[i], Median(s))]),
     max |-> OrderStatistic(s, Len(s))]

\* The median does not depend on the order.
LEMMA MedianKept ==
  ASSUME NEW s, NEW t, NEW n, Reordered(s, t, n) PROVE Median(t) = Median(s)
  <1>1. n \in Nat /\ s \in [1 .. n -> Nat] /\ t \in [1 .. n -> Nat]
    BY DEF Reordered
  <1>2. Len(s) = n /\ Len(t) = n
    BY <1>1, PositionsNumbered
  <1>3. \A k : OrderStatistic(t, k) = OrderStatistic(s, k)
    BY StatisticKept
  <1> QED BY <1>2, <1>3 DEF Median

\* The distances to a value, in either order.
LEMMA DistancesKept ==
  ASSUME NEW s, NEW t, NEW n, Reordered(s, t, n), NEW m \in Uint64,
         \A i \in 1 .. n : s[i] < U64
  PROVE  LET d == [i \in DOMAIN s |-> Distance(s[i], m)]
             e == [i \in DOMAIN t |-> Distance(t[i], m)]
         IN  Reordered(d, e, n) /\ \A i \in 1 .. n : e[i] < U64
  <1> DEFINE d == [i \in DOMAIN s |-> Distance(s[i], m)]
             e == [i \in DOMAIN t |-> Distance(t[i], m)]
  <1>0. U64 \in Nat /\ m \in Nat /\ m < U64
    BY Widths DEF Uint64
  <1>1. /\ n \in Nat \ {0} /\ s \in [1 .. n -> Nat] /\ t \in [1 .. n -> Nat]
        /\ DOMAIN s = 1 .. n /\ DOMAIN t = 1 .. n
    BY DEF Reordered
  <1>2. PICK p : IsOrder(p, n) /\ \A k \in 1 .. n : t[k] = s[p[k]]
    BY DEF Reordered
  <1>3. \A k \in 1 .. n : p[k] \in 1 .. n
    BY <1>2 DEF IsOrder
  <1>4. ASSUME NEW a \in Nat, a < U64 PROVE Distance(a, m) \in Nat /\ Distance(a, m) < U64
    BY <1>0, <1>4 DEF Distance
  <1>5. \A i \in 1 .. n : s[i] \in Nat /\ s[i] < U64
    BY <1>1
  <1>6. \A i \in 1 .. n : t[i] \in Nat /\ t[i] < U64
    BY <1>2, <1>3, <1>5
  <1>7. d \in [1 .. n -> Nat] /\ e \in [1 .. n -> Nat]
    BY <1>1, <1>4, <1>5, <1>6
  <1>8. ASSUME NEW k \in 1 .. n PROVE e[k] = d[p[k]] /\ e[k] < U64
    <2>1. e[k] = Distance(t[k], m) /\ d[p[k]] = Distance(s[p[k]], m)
      BY <1>1, <1>3
    <2>2. Distance(t[k], m) < U64
      BY <1>4, <1>6
    <2> QED BY <1>2, <2>1, <2>2
  <1> HIDE DEF d, e
  <1>9. Reordered(d, e, n)
    BY <1>1, <1>2, <1>7, <1>8 DEF Reordered
  <1> QED BY <1>8, <1>9 DEF d, e

\* The summary is exact.
LEMMA summarizeValuesIs ==
  ASSUME NEW n \in 1 .. MaxSamples, NEW s \in [1 .. n -> Uint64]
  PROVE  summarizeValues(s) = ExactSummary(s)
  <1>0. U64 \in Nat /\ MaxSamples \in Nat /\ n \in Nat \ {0}
    BY WidthAssumption
  <1>1. s \in [1 .. n -> Nat] /\ \A i \in 1 .. n : s[i] < U64
    BY <1>0 DEF Uint64
  <1>2. Len(s) = n /\ DOMAIN s = 1 .. n
    BY <1>0, <1>1, PositionsNumbered
  <1>3. PICK t : t = Sorted(s)
    OBVIOUS
  <1>4. Ascends(t, n) /\ Reordered(s, t, n)
    BY <1>1, <1>3, SortedIs
  <1>5. t \in [1 .. n -> Nat] /\ Len(t) = n /\ DOMAIN t = 1 .. n
    BY <1>0, <1>4, PositionsNumbered DEF Ascends
  <1>6. \A i \in 1 .. n : t[i] < U64
    <2>1. PICK p : IsOrder(p, n) /\ \A k \in 1 .. n : t[k] = s[p[k]]
      BY <1>4 DEF Reordered
    <2> QED BY <1>1, <2>1 DEF IsOrder
  <1>7. PICK m : m = Median(s)
    OBVIOUS
  <1>8. integerMedian(t) = m /\ m \in Uint64
    <2>1. integerMedian(t) = Median(t) /\ Median(t) \in Uint64
      BY <1>4, <1>6, integerMedianIs
    <2> QED BY <1>4, <1>7, <2>1, MedianKept
  <1>9. PICK d : d = [i \in DOMAIN s |-> Distance(s[i], m)]
    OBVIOUS
  <1>10. PICK e : e = [i \in DOMAIN t |-> Distance(t[i], m)]
    OBVIOUS
  <1>11. Reordered(d, e, n) /\ \A i \in 1 .. n : e[i] < U64
    BY <1>1, <1>4, <1>8, <1>9, <1>10, DistancesKept
  <1>12. PICK u : u = Sorted(e)
    OBVIOUS
  <1>13. integerMedian(u) = Median(d)
    <2>1. e \in [1 .. n -> Nat]
      BY <1>11 DEF Reordered
    <2>2. Ascends(u, n) /\ Reordered(e, u, n)
      BY <1>12, <2>1, SortedIs
    <2>3. \A i \in 1 .. n : u[i] < U64
      <3>1. PICK p : IsOrder(p, n) /\ \A k \in 1 .. n : u[k] = e[p[k]]
        BY <2>2 DEF Reordered
      <3> QED BY <1>11, <3>1 DEF IsOrder
    <2>4. integerMedian(u) = Median(u)
      BY <2>2, <2>3, integerMedianIs
    <2> QED BY <1>11, <2>2, <2>4, MedianKept
  <1>14. t[1] = OrderStatistic(s, 1) /\ t[n] = OrderStatistic(s, n)
    <2>1. 1 \in 1 .. n /\ n \in 1 .. n
      BY <1>0
    <2>2. t[1] = OrderStatistic(t, 1) /\ t[n] = OrderStatistic(t, n)
      BY <1>4, <2>1, StatisticIs
    <2> QED BY <1>4, <2>2, StatisticKept
  <1>15. summarizeValues(s) = [min |-> t[1], median |-> m, mad |-> integerMedian(u),
                               max |-> t[n]]
    BY <1>3, <1>5, <1>8, <1>10, <1>12 DEF summarizeValues
  <1>16. ExactSummary(s) = [min |-> OrderStatistic(s, 1), median |-> m, mad |-> Median(d),
                            max |-> OrderStatistic(s, n)]
    BY <1>2, <1>7, <1>9 DEF ExactSummary
  <1> QED BY <1>13, <1>14, <1>15, <1>16

\* The samples are given as they should be, and their summary is exact.
SummaryInv ==
    input.kind = "samples" =>
        /\ \E n \in 1 .. MaxSamples : input.values \in [1 .. n -> Uint64]
        /\ report = Unanswered \/ report.of = ExactSummary(input.values)

\* Samples are given at first.
LEMMA SummaryStart == ASSUME Init PROVE SummaryInv
  <1>1. CASE StatisticsInit
    <2>1. report = Unanswered
      BY <1>1 DEF StatisticsInit
    <2>2. SUFFICES ASSUME input.kind = "samples"
                   PROVE  \E n \in 1 .. MaxSamples : input.values \in [1 .. n -> Uint64]
      BY <2>1 DEF SummaryInv
    <2>3. PICK n \in 1 .. MaxSamples : \E s \in [1 .. n -> Uint64] :
            input = [kind |-> "samples", values |-> s]
      BY <1>1, <2>2 DEF StatisticsInit
    <2>4. input.values \in [1 .. n -> Uint64]
      BY <2>3
    <2> QED BY <2>4
  <1>2. CASE ~StatisticsInit
    <2>1. input.kind # "samples"
      BY <1>2, InitKinds DEF Init
    <2> QED BY <2>1 DEF SummaryInv
  <1> QED BY <1>1, <1>2

\* Every step keeps the invariant.
LEMMA SummaryStep == ASSUME KindInv, SummaryInv, [Next]_calcVars PROVE SummaryInv'
  <1>1. CASE input.kind # "samples"
    BY <1>1, KindsApart DEF SummaryInv
  <1>2. CASE UNCHANGED calcVars
    BY <1>2 DEF calcVars, SummaryInv
  <1>3. CASE input.kind = "samples" /\ Next
    <2>1. StatisticsNext
      BY <1>3, KindsApart DEF Next
    <2>2. Summarize
      BY <1>3, <2>1 DEF StatisticsNext, Analyze, Asked
    <2>3. UNCHANGED input /\ report' = [verdict |-> "summary", of |-> summarizeValues(input.values)]
      BY <2>2 DEF Summarize, Answer
    <2>4. PICK n \in 1 .. MaxSamples : input.values \in [1 .. n -> Uint64]
      BY <1>3 DEF SummaryInv
    <2>5. summarizeValues(input.values) = ExactSummary(input.values)
      BY <2>4, summarizeValuesIs
    <2>6. report'.of = ExactSummary(input.values)
      BY <2>3, <2>5
    <2> QED BY <2>3, <2>4, <2>6 DEF SummaryInv
  <1> QED BY <1>1, <1>2, <1>3

\* summarizeValues gives the least and the largest sample, the floor of the true
\* median and the median of the distances from it, whatever the order of the
\* samples, without wrapping.  For every width of the integers.
THEOREM SummariesAreExact == Spec => []SummaryIsExact
  <1>1. Init => SummaryInv
    BY SummaryStart
  <1>2. KindInv /\ SummaryInv /\ [Next]_calcVars => SummaryInv'
    BY SummaryStep
  <1>3. SummaryInv => SummaryIsExact
    BY DEF SummaryInv, SummaryIsExact, ExactSummary
  <1> QED BY <1>1, <1>2, <1>3, KindInvariant, PTL DEF Spec

-----------------------------------------------------------------------------
(* The scan of JSON texts (JsonCheck).  The stack of the scan is related   *)
(* to the text by the places P of the delimiters that are open: frame d    *)
(* tells of the tokens whose parent is P[d].                               *)

\* u begins with the first n tokens of s.
Agree(s, u, n) == \A i \in 1 .. n : u[i] = s[i]
\* The delimiters that are open in front of position i.
OpenBefore(s, i) ==
    {j \in 1 .. i - 1 : Opens(s, j) /\ \A k \in j .. i - 1 : Balance(s, j, k) >= 1}
\* What stands directly in the value that p opens: its keys, elements and members.
Kids(s, p, n) == {k \in 1 .. n : ~Closes(s, k) /\ Parent(s, k) = p}
\* Its keys.
KeysAt(s, p, n) == {k \in 1 .. n : Parent(s, k) = p /\ IsKey(s, k)}

\* No token both opens and closes.
LEMMA DelimitersApart ==
  ASSUME NEW s, NEW i
  PROVE  ~(Opens(s, i) /\ Closes(s, i))
  BY DEF Opens, Closes

\* The two sets that Balance counts.
OpensIn(s, i, j) == {k \in i .. j : Opens(s, k)}
ClosesIn(s, i, j) == {k \in i .. j : Closes(s, k)}

\* They are finite.
LEMMA InFinite ==
  ASSUME NEW s, NEW i \in Nat, NEW j \in Nat
  PROVE  /\ IsFiniteSet(OpensIn(s, i, j)) /\ IsFiniteSet(ClosesIn(s, i, j))
         /\ Cardinality(OpensIn(s, i, j)) \in Nat /\ Cardinality(ClosesIn(s, i, j)) \in Nat
  <1>1. IsFiniteSet(i .. j)
    BY FS_Interval
  <1>2. OpensIn(s, i, j) \in SUBSET (i .. j) /\ ClosesIn(s, i, j) \in SUBSET (i .. j)
    BY DEF OpensIn, ClosesIn
  <1>3. IsFiniteSet(OpensIn(s, i, j)) /\ IsFiniteSet(ClosesIn(s, i, j))
    BY <1>1, <1>2, FS_Subset
  <1> QED BY <1>3, FS_CardinalityType

\* Balance is the difference of their sizes.
LEMMA BalanceIs ==
  ASSUME NEW s, NEW i \in Nat, NEW j \in Nat
  PROVE  /\ Balance(s, i, j) \in Int
         /\ Balance(s, i, j) = Cardinality(OpensIn(s, i, j)) - Cardinality(ClosesIn(s, i, j))
  <1>1. Balance(s, i, j) = Cardinality(OpensIn(s, i, j)) - Cardinality(ClosesIn(s, i, j))
    BY DEF Balance, OpensIn, ClosesIn
  <1>2. PICK a \in Nat, b \in Nat : a = Cardinality(OpensIn(s, i, j)) /\ b = Cardinality(ClosesIn(s, i, j))
    BY InFinite
  <1> QED BY <1>1, <1>2

\* One more token.
LEMMA BalanceStep ==
  ASSUME NEW s, NEW j \in Nat, NEW n \in Nat, j <= n + 1
  PROVE  Balance(s, j, n + 1) =
           Balance(s, j, n) +
             (IF Opens(s, n + 1) THEN 1 ELSE IF Closes(s, n + 1) THEN -1 ELSE 0)
  <1> DEFINE A == OpensIn(s, j, n)
             B == ClosesIn(s, j, n)
  <1>1. \A k : k \in j .. n + 1 <=> k \in j .. n \/ k = n + 1
    OBVIOUS
  <1>2. n + 1 \notin A /\ n + 1 \notin B /\ IsFiniteSet(A) /\ IsFiniteSet(B)
    <2>1. n + 1 \notin j .. n
      OBVIOUS
    <2>2. IsFiniteSet(A) /\ IsFiniteSet(B)
      BY InFinite
    <2> QED BY <2>1, <2>2 DEF OpensIn, ClosesIn
  <1>3. OpensIn(s, j, n + 1) = IF Opens(s, n + 1) THEN A \cup {n + 1} ELSE A
    BY <1>1 DEF OpensIn
  <1>4. ClosesIn(s, j, n + 1) = IF Closes(s, n + 1) THEN B \cup {n + 1} ELSE B
    BY <1>1 DEF ClosesIn
  <1>5. PICK a \in Nat, b \in Nat : a = Cardinality(A) /\ b = Cardinality(B)
    BY InFinite
  <1> HIDE DEF A, B
  <1>6. Cardinality(A \cup {n + 1}) = a + 1 /\ Cardinality(B \cup {n + 1}) = b + 1
    BY <1>2, <1>5, FS_AddElement
  <1>7. Balance(s, j, n) = a - b
    BY <1>5, BalanceIs DEF A, B
  <1>8. PICK c, d : c = Cardinality(OpensIn(s, j, n + 1)) /\ d = Cardinality(ClosesIn(s, j, n + 1))
    OBVIOUS
  <1>9. Balance(s, j, n + 1) = c - d
    BY <1>8, BalanceIs
  <1>10. c = (IF Opens(s, n + 1) THEN a + 1 ELSE a) /\ d = (IF Closes(s, n + 1) THEN b + 1 ELSE b)
    BY <1>3, <1>4, <1>5, <1>6, <1>8
  <1>11. ~(Opens(s, n + 1) /\ Closes(s, n + 1))
    BY DelimitersApart
  <1> QED BY <1>7, <1>9, <1>10, <1>11

\* No token.
LEMMA BalanceNone ==
  ASSUME NEW s, NEW n \in Nat
  PROVE  Balance(s, n + 1, n) = 0
  <1>1. OpensIn(s, n + 1, n) = {} /\ ClosesIn(s, n + 1, n) = {}
    BY DEF OpensIn, ClosesIn
  <1>2. Cardinality({}) = 0
    BY FS_EmptySet
  <1>3. Balance(s, n + 1, n) = Cardinality(OpensIn(s, n + 1, n)) - Cardinality(ClosesIn(s, n + 1, n))
    BY BalanceIs
  <1> QED BY <1>1, <1>2, <1>3

\* The tokens behind do not matter to Balance,
LEMMA BalanceKept ==
  ASSUME NEW s, NEW u, NEW n \in Nat, Agree(s, u, n), NEW i \in Nat \ {0}, NEW j \in 0 .. n
  PROVE  Balance(u, i, j) = Balance(s, i, j)
  <1>1. \A k \in i .. j : u[k] = s[k]
    BY DEF Agree
  <1>2. \A k \in i .. j : (Opens(u, k) <=> Opens(s, k)) /\ (Closes(u, k) <=> Closes(s, k))
    BY <1>1 DEF Opens, Closes
  <1> QED BY <1>2 DEF Balance

\* nor to what is open,
LEMMA OpenBeforeKept ==
  ASSUME NEW s, NEW u, NEW n \in Nat, Agree(s, u, n), NEW i \in 1 .. n + 1
  PROVE  OpenBefore(u, i) = OpenBefore(s, i)
  <1>1. \A j \in 1 .. i - 1 : Opens(u, j) <=> Opens(s, j)
    <2>1. \A j \in 1 .. i - 1 : j \in 1 .. n
      OBVIOUS
    <2> QED BY <2>1 DEF Agree, Opens
  <1>2. \A j \in 1 .. i - 1 : \A k \in j .. i - 1 : Balance(u, j, k) = Balance(s, j, k)
    <2> SUFFICES ASSUME NEW j \in 1 .. i - 1, NEW k \in j .. i - 1 PROVE Balance(u, j, k) = Balance(s, j, k)
      OBVIOUS
    <2>1. j \in Nat \ {0} /\ k \in 0 .. n
      OBVIOUS
    <2> QED BY <2>1, BalanceKept
  <1> QED BY <1>1, <1>2 DEF OpenBefore

\* The parent is the last delimiter that is open, and it stands before its child.
LEMMA ParentIs ==
  ASSUME NEW s, NEW i \in Nat \ {0}
  PROVE  /\ Parent(s, i) = IF OpenBefore(s, i) = {} THEN 0 ELSE LastPlace(OpenBefore(s, i))
         /\ OpenBefore(s, i) # {} => /\ Parent(s, i) \in OpenBefore(s, i)
                                     /\ \A j \in OpenBefore(s, i) : j <= Parent(s, i)
         /\ Parent(s, i) \in Nat /\ Parent(s, i) < i
  <1> DEFINE S == OpenBefore(s, i)
             p == Parent(s, i)
  <1>1. p = IF S = {} THEN 0 ELSE LastPlace(S)
    BY DEF Parent, OpenBefore, LastPlace
  <1>2. i - 1 \in Nat /\ S \subseteq 1 .. i - 1
    BY DEF OpenBefore
  <1>3. S # {} => p \in S /\ \A j \in S : j <= p
    <2>1. SUFFICES ASSUME S # {} PROVE p \in S /\ \A j \in S : j <= p
      OBVIOUS
    <2>2. \E m \in S : \A j \in S : j <= m
      BY <1>2, <2>1, Greatest
    <2> HIDE DEF S, p
    <2> QED BY <1>1, <2>1, <2>2 DEF LastPlace
  <1> HIDE DEF S, p
  <1>4. p \in Nat /\ p < i
    BY <1>1, <1>2, <1>3
  <1> QED BY <1>1, <1>3, <1>4 DEF S, p

\* nor to the parent,
LEMMA ParentKept ==
  ASSUME NEW s, NEW u, NEW n \in Nat, Agree(s, u, n), NEW i \in 1 .. n + 1
  PROVE  Parent(u, i) = Parent(s, i)
  <1>1. OpenBefore(u, i) = OpenBefore(s, i) /\ i \in Nat \ {0}
    BY OpenBeforeKept
  <1>2. Parent(u, i) = IF OpenBefore(u, i) = {} THEN 0 ELSE LastPlace(OpenBefore(u, i))
    BY <1>1, ParentIs
  <1>3. Parent(s, i) = IF OpenBefore(s, i) = {} THEN 0 ELSE LastPlace(OpenBefore(s, i))
    BY <1>1, ParentIs
  <1> QED BY <1>1, <1>2, <1>3

\* nor to anything that is asked about a token.
LEMMA TokenKept ==
  ASSUME NEW s, NEW u, NEW n \in Nat, Agree(s, u, n), NEW i \in 1 .. n
  PROVE  /\ u[i] = s[i] /\ (Closes(u, i) <=> Closes(s, i)) /\ (Opens(u, i) <=> Opens(s, i))
         /\ Parent(u, i) = Parent(s, i) /\ Before(u, i) = Before(s, i)
         /\ (InsideObject(u, i) <=> InsideObject(s, i)) /\ (IsKey(u, i) <=> IsKey(s, i))
  <1>1. \A k \in 1 .. n : u[k] = s[k] /\ Parent(u, k) = Parent(s, k) /\ (Closes(u, k) <=> Closes(s, k))
    <2>1. \A k \in 1 .. n : k \in 1 .. n + 1
      OBVIOUS
    <2>2. \A k \in 1 .. n : Parent(u, k) = Parent(s, k)
      BY <2>1, ParentKept
    <2> QED BY <2>2 DEF Agree, Closes
  <1>2. Before(u, i) = Before(s, i)
    <2>1. \A k \in 1 .. i - 1 : k \in 1 .. n
      OBVIOUS
    <2> QED BY <1>1, <2>1 DEF Before
  <1>3. InsideObject(u, i) <=> InsideObject(s, i)
    <2>1. Parent(s, i) \in Nat /\ Parent(s, i) < i
      BY ParentIs
    <2>2. Parent(s, i) > 0 => Parent(s, i) \in 1 .. n
      BY <2>1
    <2>3. Parent(s, i) > 0 => u[Parent(s, i)] = s[Parent(s, i)]
      BY <1>1, <2>2
    <2>4. Parent(u, i) = Parent(s, i)
      BY <1>1
    <2> QED BY <2>3, <2>4 DEF InsideObject
  <1>4. IsKey(u, i) <=> IsKey(s, i)
    BY <1>1, <1>2, <1>3 DEF IsKey
  <1>5. Opens(u, i) <=> Opens(s, i)
    BY <1>1 DEF Opens
  <1> QED BY <1>1, <1>2, <1>3, <1>4, <1>5

\* What is open behind one more token.
LEMMA OpenNext ==
  ASSUME NEW u, NEW n \in Nat
  PROVE  /\ \A j : j \in OpenBefore(u, n + 2) <=>
                     \/ j \in OpenBefore(u, n + 1) /\ Balance(u, j, n + 1) >= 1
                     \/ j = n + 1 /\ Opens(u, n + 1)
  <1>1. (n + 2) - 1 = n + 1 /\ (n + 1) - 1 = n
    OBVIOUS
  <1>2. \A j : j \in OpenBefore(u, n + 2) <=>
               j \in 1 .. n + 1 /\ Opens(u, j) /\ \A k \in j .. n + 1 : Balance(u, j, k) >= 1
    BY <1>1 DEF OpenBefore
  <1>3. \A j : j \in OpenBefore(u, n + 1) <=>
               j \in 1 .. n /\ Opens(u, j) /\ \A k \in j .. n : Balance(u, j, k) >= 1
    BY <1>1 DEF OpenBefore
  <1>4. Opens(u, n + 1) => Balance(u, n + 1, n + 1) = 1
    <2>1. Balance(u, n + 1, n) = 0
      BY BalanceNone
    <2>2. n + 1 \in Nat /\ n + 1 <= n + 1
      OBVIOUS
    <2>3. Balance(u, n + 1, n + 1) =
            Balance(u, n + 1, n) +
              (IF Opens(u, n + 1) THEN 1 ELSE IF Closes(u, n + 1) THEN -1 ELSE 0)
      BY <2>2, BalanceStep
    <2> QED BY <2>1, <2>3
  <1>5. \A j \in 1 .. n + 1 : j \in 1 .. n \/ j = n + 1
    OBVIOUS
  <1>6. \A j \in 1 .. n : \A k : k \in j .. n + 1 <=> k \in j .. n \/ k = n + 1
    OBVIOUS
  <1>7. ASSUME NEW j \in 1 .. n
        PROVE  j \in OpenBefore(u, n + 2) <=>
                 j \in OpenBefore(u, n + 1) /\ Balance(u, j, n + 1) >= 1
    <2>1. j \in 1 .. n + 1
      OBVIOUS
    <2>2. (\A k \in j .. n + 1 : Balance(u, j, k) >= 1) <=>
          (\A k \in j .. n : Balance(u, j, k) >= 1) /\ Balance(u, j, n + 1) >= 1
      BY <1>6
    <2> QED BY <1>2, <1>3, <2>1, <2>2
  <1>8. n + 1 \in OpenBefore(u, n + 2) <=> Opens(u, n + 1)
    <2>1. \A k \in n + 1 .. n + 1 : k = n + 1
      OBVIOUS
    <2>2. n + 1 \in 1 .. n + 1
      OBVIOUS
    <2>3. Opens(u, n + 1) => \A k \in n + 1 .. n + 1 : Balance(u, n + 1, k) >= 1
      <3>1. SUFFICES ASSUME Opens(u, n + 1), NEW k \in n + 1 .. n + 1
                     PROVE  Balance(u, n + 1, k) >= 1
        OBVIOUS
      <3>2. k = n + 1
        BY <2>1
      <3>3. Balance(u, n + 1, k) = 1
        BY <1>4, <3>1, <3>2
      <3> QED BY <3>3
    <2> QED BY <1>2, <2>2, <2>3
  <1>9. n + 1 \notin OpenBefore(u, n + 1)
    <2>1. n + 1 \notin 1 .. n
      OBVIOUS
    <2> QED BY <1>3, <2>1
  <1> QED BY <1>2, <1>3, <1>5, <1>7, <1>8, <1>9

\* The new token has the other children of its parent before it.
LEMMA BeforeNext ==
  ASSUME NEW s, NEW u, NEW n \in Nat, Agree(s, u, n)
  PROVE  /\ Parent(u, n + 1) = Parent(s, n + 1)
         /\ Before(u, n + 1) = Kids(s, Parent(s, n + 1), n)
  <1>1. n + 1 \in 1 .. n + 1 /\ (n + 1) - 1 = n
    OBVIOUS
  <1>2. Parent(u, n + 1) = Parent(s, n + 1)
    BY <1>1, ParentKept
  <1>3. \A k \in 1 .. n : Parent(u, k) = Parent(s, k) /\ (Closes(u, k) <=> Closes(s, k))
    BY TokenKept
  <1> QED BY <1>1, <1>2, <1>3 DEF Before, Kids

\* It is one more child of its parent, if it does not close it.
LEMMA KidsNext ==
  ASSUME NEW s, NEW u, NEW n \in Nat, Agree(s, u, n), NEW p
  PROVE  Kids(u, p, n + 1) =
           IF ~Closes(u, n + 1) /\ Parent(s, n + 1) = p THEN Kids(s, p, n) \cup {n + 1}
           ELSE Kids(s, p, n)
  <1>1. \A k : k \in 1 .. n + 1 <=> k \in 1 .. n \/ k = n + 1
    OBVIOUS
  <1>2. \A k \in 1 .. n : Parent(u, k) = Parent(s, k) /\ (Closes(u, k) <=> Closes(s, k))
    BY TokenKept
  <1>3. Parent(u, n + 1) = Parent(s, n + 1)
    BY BeforeNext
  <1> QED BY <1>1, <1>2, <1>3 DEF Kids

\* Or one more key.
LEMMA KeysNext ==
  ASSUME NEW s, NEW u, NEW n \in Nat, Agree(s, u, n), NEW p
  PROVE  KeysAt(u, p, n + 1) =
           IF Parent(s, n + 1) = p /\ IsKey(u, n + 1) THEN KeysAt(s, p, n) \cup {n + 1}
           ELSE KeysAt(s, p, n)
  <1>1. \A k : k \in 1 .. n + 1 <=> k \in 1 .. n \/ k = n + 1
    OBVIOUS
  <1>2. \A k \in 1 .. n : Parent(u, k) = Parent(s, k) /\ (IsKey(u, k) <=> IsKey(s, k))
    BY TokenKept
  <1>3. Parent(u, n + 1) = Parent(s, n + 1)
    BY BeforeNext
  <1> QED BY <1>1, <1>2, <1>3 DEF KeysAt

\* A delimiter has no children yet.
LEMMA NewFrameIsEmpty ==
  ASSUME NEW u, NEW n \in Nat
  PROVE  Kids(u, n + 1, n + 1) = {} /\ KeysAt(u, n + 1, n + 1) = {}
  <1>1. ASSUME NEW k \in 1 .. n + 1 PROVE Parent(u, k) # n + 1
    <2>1. k \in Nat \ {0}
      OBVIOUS
    <2>2. Parent(u, k) \in Nat /\ Parent(u, k) < k
      BY <2>1, ParentIs
    <2> QED BY <2>2
  <1> QED BY <1>1 DEF Kids, KeysAt

\* Children can be counted.
LEMMA KidsFinite ==
  ASSUME NEW s, NEW p, NEW n \in Nat
  PROVE  IsFiniteSet(Kids(s, p, n)) /\ n + 1 \notin Kids(s, p, n)
  <1>1. IsFiniteSet(1 .. n)
    BY FS_Interval
  <1>2. Kids(s, p, n) \in SUBSET (1 .. n)
    BY DEF Kids
  <1>3. n + 1 \notin 1 .. n
    OBVIOUS
  <1> QED BY <1>1, <1>2, <1>3, FS_Subset

\* One more changes from even to odd and back.
LEMMA EvenNext ==
  ASSUME NEW S, NEW x, IsFiniteSet(S), x \notin S
  PROVE  Even(S \cup {x}) <=> ~Even(S)
  <1>1. PICK c \in Nat : c = Cardinality(S)
    BY FS_CardinalityType
  <1>2. Cardinality(S \cup {x}) = c + 1
    BY <1>1, FS_AddElement
  <1>3. (c + 1) % 2 = 0 <=> c % 2 # 0
    OBVIOUS
  <1> QED BY <1>1, <1>2, <1>3 DEF Even

\* None is even.
LEMMA NoneIsEven == Even({})
  <1>1. Cardinality({}) = 0
    BY FS_EmptySet
  <1>2. 0 % 2 = 0
    OBVIOUS
  <1> QED BY <1>1, <1>2 DEF Even

\* P lists the D delimiters that are open behind n tokens, from the outside to the
\* inside.
Ascending(P, D) == \A c, d \in 1 .. D : c < d => P[c] < P[d]
Opened(s, n, D, P) == \A j : j \in OpenBefore(s, n + 1) <=> \E d \in 1 .. D : j = P[d]
Balanced(s, n, D, P) ==
    /\ \A d \in 1 .. D : Opens(s, P[d]) /\ Balance(s, P[d], n) = D - d + 1
    /\ Balance(s, 1, n) = D
\* The whole of it.
Matched(s, n, D, P) ==
    /\ D \in Nat /\ \A d \in 1 .. D : P[d] \in 1 .. n
    /\ Ascending(P, D) /\ Opened(s, n, D, P) /\ Balanced(s, n, D, P)
\* The parent of the next token.
ParentOf(D, P) == IF D = 0 THEN 0 ELSE P[D]

\* It is the innermost of them.
LEMMA MatchedParent ==
  ASSUME NEW s, NEW n \in Nat, NEW D, NEW P, Matched(s, n, D, P)
  PROVE  Parent(s, n + 1) = ParentOf(D, P)
  <1> DEFINE S == OpenBefore(s, n + 1)
             p == Parent(s, n + 1)
  <1>1. /\ D \in Nat /\ \A d \in 1 .. D : P[d] \in 1 .. n
        /\ \A c, d \in 1 .. D : c < d => P[c] < P[d]
        /\ \A j : j \in S <=> \E d \in 1 .. D : j = P[d]
    BY DEF Matched, Ascending, Opened
  <1>2. n + 1 \in Nat \ {0}
    OBVIOUS
  <1>3. /\ S = {} => p = 0
        /\ S # {} => p \in S /\ \A j \in S : j <= p
    BY <1>2, ParentIs
  <1> HIDE DEF S, p
  <1>4. CASE D = 0
    <2>1. 1 .. D = {}
      BY <1>4
    <2>2. S = {}
      BY <1>1, <2>1
    <2> QED BY <1>3, <1>4, <2>2 DEF p, ParentOf
  <1>5. CASE D # 0
    <2>1. D \in 1 .. D
      BY <1>1, <1>5
    <2>2. P[D] \in S
      BY <1>1, <2>1
    <2>3. p \in S /\ P[D] <= p
      BY <1>3, <2>2
    <2>4. PICK d \in 1 .. D : p = P[d]
      BY <1>1, <2>3
    <2>5. ~(d < D)
      <3>1. SUFFICES ASSUME d < D PROVE FALSE
        OBVIOUS
      <3>2. P[d] < P[D] /\ P[d] \in 1 .. n /\ P[D] \in 1 .. n
        BY <1>1, <2>1, <3>1
      <3> QED BY <2>3, <2>4, <3>2
    <2>6. d = D
      BY <1>1, <2>1, <2>5
    <2> QED BY <1>5, <2>4, <2>6 DEF p, ParentOf
  <1> QED BY <1>4, <1>5

\* A delimiter that opens is one more,
LEMMA MatchedOpen ==
  ASSUME NEW s, NEW u, NEW n \in Nat, NEW D, NEW P, NEW Q,
         Agree(s, u, n), Matched(s, n, D, P), Opens(u, n + 1),
         Agree(P, Q, D), Q[D + 1] = n + 1
  PROVE  Matched(u, n + 1, D + 1, Q)
  <1>1. /\ D \in Nat /\ \A d \in 1 .. D : P[d] \in 1 .. n
        /\ \A c, d \in 1 .. D : c < d => P[c] < P[d]
        /\ \A j : j \in OpenBefore(s, n + 1) <=> \E d \in 1 .. D : j = P[d]
        /\ \A d \in 1 .. D : Opens(s, P[d]) /\ Balance(s, P[d], n) = D - d + 1
        /\ Balance(s, 1, n) = D
    BY DEF Matched, Ascending, Opened, Balanced
  <1>2. \A d : d \in 1 .. D + 1 <=> d \in 1 .. D \/ d = D + 1
    BY <1>1
  <1>3. \A d \in 1 .. D : Q[d] = P[d]
    BY DEF Agree
  <1>4. \A d \in 1 .. D + 1 : Q[d] \in 1 .. n + 1
    BY <1>1, <1>2, <1>3
  <1>5. Ascending(Q, D + 1)
    <2>1. SUFFICES ASSUME NEW c \in 1 .. D + 1, NEW d \in 1 .. D + 1, c < d PROVE Q[c] < Q[d]
      BY DEF Ascending
    <2>2. c \in 1 .. D
      BY <1>1, <2>1
    <2>3. CASE d \in 1 .. D
      BY <1>1, <1>3, <2>1, <2>2, <2>3
    <2>4. CASE d = D + 1
      BY <1>1, <1>3, <2>2, <2>4
    <2> QED BY <1>2, <2>3, <2>4
  <1>6. ASSUME NEW j \in 1 .. n PROVE Balance(u, j, n + 1) = Balance(s, j, n) + 1
    <2>1. j \in Nat \ {0} /\ j <= n + 1 /\ n \in 0 .. n
      OBVIOUS
    <2>2. Balance(u, j, n) = Balance(s, j, n)
      BY <2>1, BalanceKept
    <2>3. Balance(u, j, n + 1) =
            Balance(u, j, n) +
              (IF Opens(u, n + 1) THEN 1 ELSE IF Closes(u, n + 1) THEN -1 ELSE 0)
      BY <2>1, BalanceStep
    <2> QED BY <2>2, <2>3
  <1>7. Balance(u, 1, n + 1) = D + 1
    <2>1. 1 \in Nat \ {0} /\ 1 <= n + 1 /\ n \in 0 .. n
      OBVIOUS
    <2>2. Balance(u, 1, n) = Balance(s, 1, n)
      BY <2>1, BalanceKept
    <2>3. Balance(u, 1, n + 1) =
            Balance(u, 1, n) +
              (IF Opens(u, n + 1) THEN 1 ELSE IF Closes(u, n + 1) THEN -1 ELSE 0)
      BY <2>1, BalanceStep
    <2> QED BY <1>1, <2>2, <2>3
  <1>8. Balance(u, n + 1, n + 1) = 1
    <2>1. Balance(u, n + 1, n) = 0
      BY BalanceNone
    <2>2. n + 1 \in Nat /\ n + 1 <= n + 1
      OBVIOUS
    <2>3. Balance(u, n + 1, n + 1) =
            Balance(u, n + 1, n) +
              (IF Opens(u, n + 1) THEN 1 ELSE IF Closes(u, n + 1) THEN -1 ELSE 0)
      BY <2>2, BalanceStep
    <2> QED BY <2>1, <2>3
  <1>9. Balanced(u, n + 1, D + 1, Q)
    <2>1. ASSUME NEW d \in 1 .. D + 1
          PROVE  Opens(u, Q[d]) /\ Balance(u, Q[d], n + 1) = (D + 1) - d + 1
      <3>1. CASE d = D + 1
        BY <1>1, <1>8, <3>1
      <3>2. CASE d \in 1 .. D
        <4>1. PICK j \in 1 .. n : j = P[d]
          BY <1>1, <3>2
        <4>2. Opens(s, j) /\ Balance(s, j, n) = D - d + 1 /\ Q[d] = j
          BY <1>1, <1>3, <3>2, <4>1
        <4>3. Opens(u, j)
          BY <4>2, TokenKept
        <4>4. Balance(u, j, n + 1) = Balance(s, j, n) + 1
          BY <1>6
        <4> QED BY <1>1, <4>2, <4>3, <4>4
      <3> QED BY <1>2, <3>1, <3>2
    <2> QED BY <1>7, <2>1 DEF Balanced
  <1>10. Opened(u, n + 1, D + 1, Q)
    <2>1. ASSUME NEW j
          PROVE  j \in OpenBefore(u, n + 2) <=> \E d \in 1 .. D + 1 : j = Q[d]
      <3>1. j \in OpenBefore(u, n + 2) <=>
              \/ j \in OpenBefore(u, n + 1) /\ Balance(u, j, n + 1) >= 1
              \/ j = n + 1 /\ Opens(u, n + 1)
        BY OpenNext
      <3>2. n + 1 \in 1 .. n + 1
        OBVIOUS
      <3>3. OpenBefore(u, n + 1) = OpenBefore(s, n + 1)
        BY <3>2, OpenBeforeKept
      <3>4. ASSUME NEW d \in 1 .. D PROVE Balance(u, P[d], n + 1) >= 1
        <4>1. PICK k \in 1 .. n : k = P[d]
          BY <1>1
        <4>2. Balance(u, k, n + 1) = (D - d + 1) + 1
          BY <1>1, <1>6, <4>1
        <4> QED BY <1>1, <4>1, <4>2
      <3>5. j \in OpenBefore(u, n + 2) <=> (\E d \in 1 .. D : j = P[d]) \/ j = n + 1
        BY <1>1, <3>1, <3>3, <3>4
      <3> QED BY <1>2, <1>3, <3>5
    <2>2. (n + 1) + 1 = n + 2
      OBVIOUS
    <2> QED BY <2>1, <2>2 DEF Opened
  <1>11. D + 1 \in Nat
    BY <1>1
  <1> QED BY <1>4, <1>5, <1>9, <1>10, <1>11 DEF Matched

\* one that closes takes the innermost away,
LEMMA MatchedClose ==
  ASSUME NEW s, NEW u, NEW n \in Nat, NEW D \in Nat \ {0}, NEW P,
         Agree(s, u, n), Matched(s, n, D, P), Closes(u, n + 1)
  PROVE  Matched(u, n + 1, D - 1, P)
  <1>1. /\ D \in Nat /\ \A d \in 1 .. D : P[d] \in 1 .. n
        /\ \A c, d \in 1 .. D : c < d => P[c] < P[d]
        /\ \A j : j \in OpenBefore(s, n + 1) <=> \E d \in 1 .. D : j = P[d]
        /\ \A d \in 1 .. D : Opens(s, P[d]) /\ Balance(s, P[d], n) = D - d + 1
        /\ Balance(s, 1, n) = D
    BY DEF Matched, Ascending, Opened, Balanced
  <1>2. ~Opens(u, n + 1)
    BY DelimitersApart
  <1>3. \A d : d \in 1 .. D <=> d \in 1 .. D - 1 \/ d = D
    BY <1>1
  <1>4. \A d \in 1 .. D - 1 : P[d] \in 1 .. n + 1
    BY <1>1, <1>3
  <1>5. Ascending(P, D - 1)
    BY <1>1, <1>3 DEF Ascending
  <1>6. ASSUME NEW j \in 1 .. n + 1 PROVE Balance(u, j, n + 1) = Balance(s, j, n) - 1
    <2>1. j \in Nat \ {0} /\ j <= n + 1 /\ n \in 0 .. n
      OBVIOUS
    <2>2. Balance(u, j, n) = Balance(s, j, n) /\ Balance(s, j, n) \in Int
      BY <2>1, BalanceKept, BalanceIs
    <2>3. Balance(u, j, n + 1) =
            Balance(u, j, n) +
              (IF Opens(u, n + 1) THEN 1 ELSE IF Closes(u, n + 1) THEN -1 ELSE 0)
      BY <2>1, BalanceStep
    <2> QED BY <1>2, <2>2, <2>3
  <1>7. ASSUME NEW d \in 1 .. D PROVE Balance(u, P[d], n + 1) = D - d
    <2>1. PICK k \in 1 .. n : k = P[d]
      BY <1>1
    <2>2. k \in 1 .. n + 1 /\ Balance(s, k, n) = D - d + 1
      BY <1>1, <2>1
    <2>3. Balance(u, k, n + 1) = Balance(s, k, n) - 1
      BY <1>6, <2>2
    <2> QED BY <1>1, <2>1, <2>2, <2>3
  <1>8. Balanced(u, n + 1, D - 1, P)
    <2>1. 1 \in 1 .. n + 1
      OBVIOUS
    <2>2. Balance(u, 1, n + 1) = D - 1
      BY <1>1, <1>6, <2>1
    <2>3. ASSUME NEW d \in 1 .. D - 1
          PROVE  Opens(u, P[d]) /\ Balance(u, P[d], n + 1) = (D - 1) - d + 1
      <3>1. d \in 1 .. D
        OBVIOUS
      <3>2. PICK k \in 1 .. n : k = P[d]
        BY <1>1, <3>1
      <3>3. Opens(s, k)
        BY <1>1, <3>1, <3>2
      <3>4. Opens(u, k)
        BY <3>3, TokenKept
      <3>5. Balance(u, P[d], n + 1) = D - d
        BY <1>7, <3>1
      <3> QED BY <3>1, <3>2, <3>4, <3>5
    <2> QED BY <2>2, <2>3 DEF Balanced
  <1>9. Opened(u, n + 1, D - 1, P)
    <2>1. ASSUME NEW j
          PROVE  j \in OpenBefore(u, n + 2) <=> \E d \in 1 .. D - 1 : j = P[d]
      <3>1. j \in OpenBefore(u, n + 2) <=> j \in OpenBefore(u, n + 1) /\ Balance(u, j, n + 1) >= 1
        BY <1>2, OpenNext
      <3>2. n + 1 \in 1 .. n + 1
        OBVIOUS
      <3>3. OpenBefore(u, n + 1) = OpenBefore(s, n + 1)
        BY <3>2, OpenBeforeKept
      <3>4. ASSUME NEW d \in 1 .. D PROVE Balance(u, P[d], n + 1) >= 1 <=> d \in 1 .. D - 1
        <4>1. PICK b : b = Balance(u, P[d], n + 1)
          OBVIOUS
        <4>2. b = D - d
          BY <1>7, <4>1
        <4> QED BY <4>1, <4>2
      <3> QED BY <1>1, <1>3, <3>1, <3>3, <3>4
    <2>2. (n + 1) + 1 = n + 2
      OBVIOUS
    <2> QED BY <2>1, <2>2 DEF Opened
  <1>10. D - 1 \in Nat
    OBVIOUS
  <1> QED BY <1>4, <1>5, <1>8, <1>9, <1>10 DEF Matched

\* and every other token leaves them as they are.
LEMMA MatchedOther ==
  ASSUME NEW s, NEW u, NEW n \in Nat, NEW D, NEW P,
         Agree(s, u, n), Matched(s, n, D, P), ~Opens(u, n + 1), ~Closes(u, n + 1)
  PROVE  Matched(u, n + 1, D, P)
  <1>1. /\ D \in Nat /\ \A d \in 1 .. D : P[d] \in 1 .. n
        /\ \A j : j \in OpenBefore(s, n + 1) <=> \E d \in 1 .. D : j = P[d]
        /\ \A d \in 1 .. D : Opens(s, P[d]) /\ Balance(s, P[d], n) = D - d + 1
        /\ Balance(s, 1, n) = D
    BY DEF Matched, Opened, Balanced
  <1>2. Ascending(P, D)
    BY DEF Matched
  <1>3. \A d \in 1 .. D : P[d] \in 1 .. n + 1
    BY <1>1
  <1>4. ASSUME NEW j \in 1 .. n + 1 PROVE Balance(u, j, n + 1) = Balance(s, j, n)
    <2>1. j \in Nat \ {0} /\ j <= n + 1 /\ n \in 0 .. n
      OBVIOUS
    <2>2. Balance(u, j, n) = Balance(s, j, n) /\ Balance(s, j, n) \in Int
      BY <2>1, BalanceKept, BalanceIs
    <2>3. Balance(u, j, n + 1) =
            Balance(u, j, n) +
              (IF Opens(u, n + 1) THEN 1 ELSE IF Closes(u, n + 1) THEN -1 ELSE 0)
      BY <2>1, BalanceStep
    <2> QED BY <2>2, <2>3
  <1>5. ASSUME NEW d \in 1 .. D
        PROVE  Opens(u, P[d]) /\ Balance(u, P[d], n + 1) = D - d + 1
    <2>1. PICK k \in 1 .. n : k = P[d]
      BY <1>1
    <2>2. k \in 1 .. n + 1 /\ Opens(s, k) /\ Balance(s, k, n) = D - d + 1
      BY <1>1, <2>1
    <2>3. Balance(u, k, n + 1) = Balance(s, k, n) /\ Opens(u, k)
      BY <1>4, <2>2, TokenKept
    <2> QED BY <2>1, <2>2, <2>3
  <1>6. Balanced(u, n + 1, D, P)
    <2>1. 1 \in 1 .. n + 1
      OBVIOUS
    <2>2. Balance(u, 1, n + 1) = D
      BY <1>1, <1>4, <2>1
    <2> QED BY <1>5, <2>2 DEF Balanced
  <1>7. Opened(u, n + 1, D, P)
    <2>1. ASSUME NEW j
          PROVE  j \in OpenBefore(u, n + 2) <=> \E d \in 1 .. D : j = P[d]
      <3>1. j \in OpenBefore(u, n + 2) <=> j \in OpenBefore(u, n + 1) /\ Balance(u, j, n + 1) >= 1
        BY OpenNext
      <3>2. n + 1 \in 1 .. n + 1
        OBVIOUS
      <3>3. OpenBefore(u, n + 1) = OpenBefore(s, n + 1)
        BY <3>2, OpenBeforeKept
      <3>4. ASSUME NEW d \in 1 .. D PROVE Balance(u, P[d], n + 1) >= 1
        BY <1>1, <1>5
      <3> QED BY <1>1, <3>1, <3>3, <3>4
    <2>2. (n + 1) + 1 = n + 2
      OBVIOUS
    <2> QED BY <2>1, <2>2 DEF Opened
  <1> QED BY <1>1, <1>2, <1>3, <1>6, <1>7 DEF Matched

\* They open, and only the last of them is the parent of the next token.
LEMMA MatchedPlaces ==
  ASSUME NEW s, NEW n \in Nat, NEW D, NEW P, Matched(s, n, D, P), NEW d \in 1 .. D
  PROVE  /\ P[d] \in 1 .. n /\ Opens(s, P[d])
         /\ (Parent(s, n + 1) = P[d] <=> d = D)
  <1>1. /\ D \in Nat /\ P[d] \in 1 .. n
        /\ \A c, e \in 1 .. D : c < e => P[c] < P[e]
        /\ \A c \in 1 .. D : P[c] \in 1 .. n
    BY DEF Matched, Ascending
  <1>2. Opens(s, P[d])
    BY DEF Matched, Balanced
  <1>3. D # 0 /\ D \in 1 .. D
    BY <1>1
  <1>4. Parent(s, n + 1) = P[D]
    BY <1>3, MatchedParent DEF ParentOf
  <1>5. d # D => P[d] # P[D]
    <2>1. SUFFICES ASSUME d # D PROVE P[d] # P[D]
      OBVIOUS
    <2>2. d < D
      BY <1>1, <2>1
    <2>3. P[d] < P[D] /\ P[d] \in Nat /\ P[D] \in Nat
      BY <1>1, <1>3, <2>2
    <2> QED BY <2>3
  <1> QED BY <1>1, <1>2, <1>4, <1>5

\* What a frame of the stack tells of the value that p opens.
IsBrace(s, p) == s[p] = "{"
KeysOf(s, p, n) == {s[k] : k \in KeysAt(s, p, n)}
CloseOf(s, p) == IF IsBrace(s, p) THEN "}" ELSE "]"
KeyIsNext(s, p, n) == IsBrace(s, p) /\ Even(Kids(s, p, n))
FrameOf(c, k, a) == [close |-> c, keys |-> k, atKey |-> a]
\* The frame on top knows whether a key comes next.  The frames below wait for a
\* value to end, which has been counted already.
OnTop(s, n, f, p) == f = FrameOf(CloseOf(s, p), KeysOf(s, p, n), KeyIsNext(s, p, n))
Below(s, n, f, p) ==
    /\ f = FrameOf(CloseOf(s, p), KeysOf(s, p, n), FALSE)
    /\ IsBrace(s, p) => Even(Kids(s, p, n))

\* Where the next token stands, by what is open.
LEMMA NextToken ==
  ASSUME NEW s, NEW u, NEW n \in Nat, NEW D, NEW P, Agree(s, u, n), Matched(s, n, D, P)
  PROVE  /\ Parent(u, n + 1) = ParentOf(D, P) /\ Parent(s, n + 1) = ParentOf(D, P)
         /\ D = 0 => ~InsideObject(u, n + 1) /\ Parent(u, n + 1) = 0
         /\ D # 0 => /\ Parent(u, n + 1) = P[D] /\ P[D] \in 1 .. n
                     /\ (InsideObject(u, n + 1) <=> IsBrace(s, P[D]))
                     /\ (Even(Before(u, n + 1)) <=> Even(Kids(s, P[D], n)))
  <1>1. /\ Parent(u, n + 1) = Parent(s, n + 1) /\ Parent(s, n + 1) = ParentOf(D, P)
        /\ Before(u, n + 1) = Kids(s, Parent(s, n + 1), n)
    BY BeforeNext, MatchedParent
  <1>2. D = 0 => Parent(u, n + 1) = 0
    BY <1>1 DEF ParentOf
  <1>3. D = 0 => ~InsideObject(u, n + 1)
    <2>1. SUFFICES ASSUME D = 0, InsideObject(u, n + 1) PROVE FALSE
      OBVIOUS
    <2>2. Parent(u, n + 1) > 0
      BY <2>1 DEF InsideObject
    <2> QED BY <1>2, <2>1, <2>2
  <1>4. ASSUME D # 0
        PROVE  /\ Parent(u, n + 1) = P[D] /\ P[D] \in 1 .. n
               /\ (InsideObject(u, n + 1) <=> IsBrace(s, P[D]))
               /\ (Even(Before(u, n + 1)) <=> Even(Kids(s, P[D], n)))
    <2>1. D \in 1 .. D
      BY <1>4 DEF Matched
    <2>2. PICK p \in 1 .. n : p = P[D]
      BY <2>1, MatchedPlaces
    <2>3. Parent(u, n + 1) = p /\ Parent(s, n + 1) = p
      BY <1>1, <1>4, <2>2 DEF ParentOf
    <2>4. u[p] = s[p] /\ p > 0
      BY TokenKept
    <2>5. InsideObject(u, n + 1) <=> IsBrace(s, p)
      BY <2>3, <2>4 DEF InsideObject, IsBrace
    <2> QED BY <1>1, <2>2, <2>3, <2>5
  <1> QED BY <1>1, <1>2, <1>3, <1>4

\* It is a key exactly where the frame on top says so.
LEMMA KeyIs ==
  ASSUME NEW s, NEW u, NEW n \in Nat, NEW D, NEW P, Agree(s, u, n), Matched(s, n, D, P)
  PROVE  IsKey(u, n + 1) <=> D # 0 /\ KeyIsNext(s, P[D], n) /\ ~Closes(u, n + 1)
  BY NextToken DEF IsKey, KeyIsNext

\* The delimiter of a frame stays what it is.
LEMMA BraceKept ==
  ASSUME NEW s, NEW u, NEW n \in Nat, Agree(s, u, n), NEW p \in 1 .. n
  PROVE  (IsBrace(u, p) <=> IsBrace(s, p)) /\ CloseOf(u, p) = CloseOf(s, p)
  <1>1. u[p] = s[p]
    BY TokenKept
  <1> QED BY <1>1 DEF IsBrace, CloseOf

\* The keys stay the same,
LEMMA KeysKept ==
  ASSUME NEW s, NEW u, NEW n \in Nat, Agree(s, u, n), NEW p,
         ~(Parent(s, n + 1) = p /\ IsKey(u, n + 1))
  PROVE  KeysOf(u, p, n + 1) = KeysOf(s, p, n)
  <1>1. KeysAt(u, p, n + 1) = KeysAt(s, p, n)
    <2>1. KeysAt(u, p, n + 1) =
            IF Parent(s, n + 1) = p /\ IsKey(u, n + 1) THEN KeysAt(s, p, n) \cup {n + 1}
            ELSE KeysAt(s, p, n)
      BY KeysNext
    <2> QED BY <2>1
  <1>2. \A k \in KeysAt(s, p, n) : u[k] = s[k]
    BY DEF KeysAt, Agree
  <1> QED BY <1>1, <1>2 DEF KeysOf

\* but for a new one.
LEMMA KeysMore ==
  ASSUME NEW s, NEW u, NEW n \in Nat, Agree(s, u, n), NEW p,
         Parent(s, n + 1) = p, IsKey(u, n + 1)
  PROVE  KeysOf(u, p, n + 1) = KeysOf(s, p, n) \cup {u[n + 1]}
  <1>1. KeysAt(u, p, n + 1) = KeysAt(s, p, n) \cup {n + 1}
    BY KeysNext
  <1>2. \A k \in KeysAt(s, p, n) : u[k] = s[k]
    BY DEF KeysAt, Agree
  <1> QED BY <1>1, <1>2 DEF KeysOf

\* A frame that the token does not stand in stays as it is.
LEMMA BelowKept ==
  ASSUME NEW s, NEW u, NEW n \in Nat, Agree(s, u, n), NEW p \in 1 .. n, NEW f,
         Below(s, n, f, p), Parent(s, n + 1) # p \/ Closes(u, n + 1)
  PROVE  Below(u, n + 1, f, p)
  <1>1. Kids(u, p, n + 1) = Kids(s, p, n)
    <2>1. Kids(u, p, n + 1) =
            IF ~Closes(u, n + 1) /\ Parent(s, n + 1) = p THEN Kids(s, p, n) \cup {n + 1}
            ELSE Kids(s, p, n)
      BY KidsNext
    <2> QED BY <2>1
  <1>2. ~(Parent(s, n + 1) = p /\ IsKey(u, n + 1))
    BY DEF IsKey
  <1>3. KeysOf(u, p, n + 1) = KeysOf(s, p, n)
    BY <1>2, KeysKept
  <1>4. (IsBrace(u, p) <=> IsBrace(s, p)) /\ CloseOf(u, p) = CloseOf(s, p)
    BY BraceKept
  <1> QED BY <1>1, <1>3, <1>4 DEF Below

\* When the value has ended, the frame around it goes on with its next key.
LEMMA BelowToTop ==
  ASSUME NEW s, NEW n, NEW f, NEW p, Below(s, n, f, p)
  PROVE  OnTop(s, n, [f EXCEPT !.atKey = f.close = "}"], p)
  <1>1. PICK c, k : c = CloseOf(s, p) /\ k = KeysOf(s, p, n)
    OBVIOUS
  <1>2. f = [close |-> c, keys |-> k, atKey |-> FALSE]
    BY <1>1 DEF Below, FrameOf
  <1>3. [f EXCEPT !.atKey = f.close = "}"] = [close |-> c, keys |-> k, atKey |-> c = "}"]
    <2>1. f.close = c
      BY <1>2
    <2>2. PICK b : b = (c = "}")
      OBVIOUS
    <2>3. [f EXCEPT !.atKey = b] = [close |-> c, keys |-> k, atKey |-> b]
      BY <1>2
    <2> QED BY <2>1, <2>2, <2>3
  <1>4. c = "}" <=> IsBrace(s, p)
    BY <1>1 DEF CloseOf
  <1>5. KeyIsNext(s, p, n) <=> IsBrace(s, p)
    BY DEF Below, KeyIsNext
  <1>6. (c = "}") = KeyIsNext(s, p, n)
    <2>1. KeyIsNext(s, p, n) \in BOOLEAN /\ (c = "}") \in BOOLEAN
      BY DEF KeyIsNext
    <2> QED BY <1>4, <1>5, <2>1
  <1> QED BY <1>1, <1>3, <1>6 DEF OnTop, FrameOf

\* The fields of the frame on top.
LEMMA TopIs ==
  ASSUME NEW s, NEW n, NEW f, NEW p, OnTop(s, n, f, p)
  PROVE  /\ f.close = CloseOf(s, p) /\ f.keys = KeysOf(s, p, n)
         /\ (f.atKey <=> KeyIsNext(s, p, n)) /\ (f.close = "}" <=> IsBrace(s, p))
         /\ (f.close = "]" <=> ~IsBrace(s, p))
  BY DEF OnTop, FrameOf, CloseOf

\* A key: the object knows it, and its value comes next.
LEMMA TopAfterKey ==
  ASSUME NEW s, NEW u, NEW n \in Nat, Agree(s, u, n), NEW p \in 1 .. n, NEW f, NEW t,
         OnTop(s, n, f, p), Parent(s, n + 1) = p, IsKey(u, n + 1), u[n + 1] = t,
         KeyIsNext(s, p, n)
  PROVE  OnTop(u, n + 1, [f EXCEPT !.keys = @ \cup {t}, !.atKey = FALSE], p)
  <1>1. PICK c, k : c = CloseOf(s, p) /\ k = KeysOf(s, p, n)
    OBVIOUS
  <1>2. PICK a : a = KeyIsNext(s, p, n)
    OBVIOUS
  <1>3. f = [close |-> c, keys |-> k, atKey |-> a]
    BY <1>1, <1>2 DEF OnTop, FrameOf
  <1>4. [f EXCEPT !.keys = @ \cup {t}, !.atKey = FALSE] =
          [close |-> c, keys |-> k \cup {t}, atKey |-> FALSE]
    <2>1. f.keys = k
      BY <1>3
    <2>2. PICK m : m = k \cup {t}
      OBVIOUS
    <2>3. PICK b : b = FALSE
      OBVIOUS
    <2>4. PICK g : g = [f EXCEPT !.keys = m]
      OBVIOUS
    <2>5. g = [close |-> c, keys |-> m, atKey |-> a]
      BY <1>3, <2>4
    <2>6. [g EXCEPT !.atKey = b] = [close |-> c, keys |-> m, atKey |-> b]
      BY <2>5
    <2>7. [f EXCEPT !.keys = m, !.atKey = b] = [g EXCEPT !.atKey = b]
      BY <2>4
    <2> QED BY <2>1, <2>2, <2>3, <2>6, <2>7
  <1>5. CloseOf(u, p) = c
    BY <1>1, BraceKept
  <1>6. KeysOf(u, p, n + 1) = k \cup {t}
    BY <1>1, KeysMore
  <1>7. KeyIsNext(u, p, n + 1) = FALSE
    <2>1. ~Closes(u, n + 1)
      BY DEF IsKey
    <2>2. Kids(u, p, n + 1) = Kids(s, p, n) \cup {n + 1}
      BY <2>1, KidsNext
    <2>3. IsFiniteSet(Kids(s, p, n)) /\ n + 1 \notin Kids(s, p, n)
      BY KidsFinite
    <2>4. ~Even(Kids(u, p, n + 1))
      BY <2>2, <2>3, EvenNext DEF KeyIsNext
    <2> QED BY <2>4 DEF KeyIsNext
  <1> QED BY <1>4, <1>5, <1>6, <1>7 DEF OnTop, FrameOf

\* A value that begins where a value may stand.
LEMMA TopAfterValue ==
  ASSUME NEW s, NEW u, NEW n \in Nat, Agree(s, u, n), NEW p \in 1 .. n, NEW f,
         OnTop(s, n, f, p), Parent(s, n + 1) = p, ~IsKey(u, n + 1), ~Closes(u, n + 1),
         ~KeyIsNext(s, p, n)
  PROVE  Below(u, n + 1, f, p)
  <1>1. KeyIsNext(s, p, n) = FALSE
    BY DEF KeyIsNext
  <1>2. f = FrameOf(CloseOf(s, p), KeysOf(s, p, n), FALSE)
    BY <1>1 DEF OnTop
  <1>3. KeysOf(u, p, n + 1) = KeysOf(s, p, n)
    BY KeysKept
  <1>4. (IsBrace(u, p) <=> IsBrace(s, p)) /\ CloseOf(u, p) = CloseOf(s, p)
    BY BraceKept
  <1>5. Kids(u, p, n + 1) = Kids(s, p, n) \cup {n + 1}
    BY KidsNext
  <1>6. IsFiniteSet(Kids(s, p, n)) /\ n + 1 \notin Kids(s, p, n)
    BY KidsFinite
  <1>7. IsBrace(s, p) => Even(Kids(u, p, n + 1))
    BY <1>5, <1>6, EvenNext DEF KeyIsNext
  <1> QED BY <1>2, <1>3, <1>4, <1>7 DEF Below

\* A new frame.
LEMMA NewTop ==
  ASSUME NEW u, NEW n \in Nat, Opens(u, n + 1)
  PROVE  OnTop(u, n + 1, IF u[n + 1] = "{" THEN InObject ELSE InArray, n + 1)
  <1>1. Kids(u, n + 1, n + 1) = {} /\ KeysAt(u, n + 1, n + 1) = {}
    BY NewFrameIsEmpty
  <1>2. KeysOf(u, n + 1, n + 1) = {}
    BY <1>1 DEF KeysOf
  <1>3. KeyIsNext(u, n + 1, n + 1) = IsBrace(u, n + 1)
    <2>1. KeyIsNext(u, n + 1, n + 1) <=> IsBrace(u, n + 1)
      BY <1>1, NoneIsEven DEF KeyIsNext
    <2>2. KeyIsNext(u, n + 1, n + 1) \in BOOLEAN /\ IsBrace(u, n + 1) \in BOOLEAN
      BY DEF KeyIsNext, IsBrace
    <2> QED BY <2>1, <2>2
  <1>4. CASE IsBrace(u, n + 1)
    <2>1. KeyIsNext(u, n + 1, n + 1) = TRUE
      BY <1>3, <1>4 DEF IsBrace
    <2>2. CloseOf(u, n + 1) = "}" /\ u[n + 1] = "{"
      BY <1>4 DEF CloseOf, IsBrace
    <2> QED BY <1>2, <2>1, <2>2 DEF OnTop, FrameOf, InObject
  <1>5. CASE ~IsBrace(u, n + 1)
    <2>1. KeyIsNext(u, n + 1, n + 1) = FALSE
      BY <1>3, <1>5 DEF IsBrace
    <2>2. CloseOf(u, n + 1) = "]" /\ u[n + 1] # "{"
      BY <1>5 DEF CloseOf, IsBrace
    <2> QED BY <1>2, <2>1, <2>2 DEF OnTop, FrameOf, InArray
  <1> QED BY <1>4, <1>5

\* s has n tokens; u has one more.
Text(s, n) == n \in Nat /\ DOMAIN s = 1 .. n /\ Len(s) = n
TextAdded(s, u, n) == Text(s, n) /\ Text(u, n + 1) /\ Agree(s, u, n)
\* What OneValue asks of each token.
Fine(s, i) ==
    /\ Closes(s, i) => /\ Parent(s, i) > 0
                       /\ s[i] = IF InsideObject(s, i) THEN "}" ELSE "]"
                       /\ InsideObject(s, i) => Even(Before(s, i))
    /\ IsKey(s, i) => s[i] \in Strings
AllFine(s, n) == \A i \in 1 .. n : Fine(s, i)
\* The new token is a key that its object has already.
Again(s, u, n) == IsKey(u, n + 1) /\ u[n + 1] \in KeysOf(s, Parent(s, n + 1), n)

\* OneValue, in these terms.
LEMMA OneValueIs ==
  ASSUME NEW s, NEW n, Text(s, n)
  PROVE  OneValue(s) <=> Kids(s, 0, n) = {1} /\ Balance(s, 1, n) = 0 /\ AllFine(s, n)
  <1>1. DOMAIN s = 1 .. n /\ Len(s) = n
    BY DEF Text
  <1>2. {i \in DOMAIN s : Parent(s, i) = 0 /\ ~Closes(s, i)} = Kids(s, 0, n)
    BY <1>1 DEF Kids
  <1> QED BY <1>1, <1>2 DEF OneValue, AllFine, Fine

\* One more token.
LEMMA AllFineNext ==
  ASSUME NEW s, NEW u, NEW n, TextAdded(s, u, n)
  PROVE  AllFine(u, n + 1) <=> AllFine(s, n) /\ Fine(u, n + 1)
  <1>1. n \in Nat /\ Agree(s, u, n)
    BY DEF TextAdded, Text
  <1>2. \A i : i \in 1 .. n + 1 <=> i \in 1 .. n \/ i = n + 1
    BY <1>1
  <1>3. ASSUME NEW i \in 1 .. n PROVE Fine(u, i) <=> Fine(s, i)
    <2>1. /\ u[i] = s[i] /\ (Closes(u, i) <=> Closes(s, i))
          /\ Parent(u, i) = Parent(s, i) /\ Before(u, i) = Before(s, i)
          /\ (InsideObject(u, i) <=> InsideObject(s, i)) /\ (IsKey(u, i) <=> IsKey(s, i))
      BY <1>1, TokenKept
    <2> QED BY <2>1 DEF Fine
  <1> QED BY <1>2, <1>3 DEF AllFine

\* A key is repeated by then, or now.
LEMMA RepeatsNext ==
  ASSUME NEW s, NEW u, NEW n, TextAdded(s, u, n)
  PROVE  RepeatsKey(u) <=> RepeatsKey(s) \/ Again(s, u, n)
  <1>1. n \in Nat /\ Agree(s, u, n) /\ DOMAIN s = 1 .. n /\ DOMAIN u = 1 .. n + 1
    BY DEF TextAdded, Text
  <1>2. \A i : i \in 1 .. n + 1 <=> i \in 1 .. n \/ i = n + 1
    BY <1>1
  <1>3. \A i \in 1 .. n : u[i] = s[i] /\ Parent(u, i) = Parent(s, i) /\ (IsKey(u, i) <=> IsKey(s, i))
    BY <1>1, TokenKept
  <1>4. Parent(u, n + 1) = Parent(s, n + 1)
    BY <1>1, BeforeNext
  <1> DEFINE Pair(v, i, j) == /\ i < j /\ v[i] = v[j] /\ Parent(v, i) = Parent(v, j)
                              /\ IsKey(v, i) /\ IsKey(v, j)
  <1>5. RepeatsKey(u) <=> \E i, j \in 1 .. n + 1 : Pair(u, i, j)
    BY <1>1 DEF RepeatsKey
  <1>6. RepeatsKey(s) <=> \E i, j \in 1 .. n : Pair(s, i, j)
    BY <1>1 DEF RepeatsKey
  <1>7. \A i, j \in 1 .. n : Pair(u, i, j) <=> Pair(s, i, j)
    BY <1>3
  <1>8. Again(s, u, n) <=> \E i \in 1 .. n : Pair(u, i, n + 1)
    <2>1. \A i \in 1 .. n : i < n + 1
      BY <1>1
    <2>2. Again(s, u, n) <=>
            IsKey(u, n + 1) /\ \E i \in 1 .. n : /\ Parent(s, i) = Parent(s, n + 1) /\ IsKey(s, i)
                                                 /\ u[n + 1] = s[i]
      BY DEF Again, KeysOf, KeysAt
    <2> QED BY <1>3, <1>4, <2>1, <2>2
  <1>9. \A i, j \in 1 .. n + 1 : i < j => i \in 1 .. n
    BY <1>1
  <1>10. \A i, j : Pair(u, i, j) => i < j
    OBVIOUS
  <1> HIDE DEF Pair
  <1>11. (\E i, j \in 1 .. n + 1 : Pair(u, i, j)) =>
         (\E i, j \in 1 .. n : Pair(u, i, j)) \/ (\E i \in 1 .. n : Pair(u, i, n + 1))
    BY <1>2, <1>9, <1>10
  <1>12. (\E i, j \in 1 .. n : Pair(u, i, j)) \/ (\E i \in 1 .. n : Pair(u, i, n + 1)) =>
         (\E i, j \in 1 .. n + 1 : Pair(u, i, j))
    BY <1>2
  <1> QED BY <1>5, <1>6, <1>7, <1>8, <1>11, <1>12

\* The scan has followed the text: nothing is wrong yet and something is open, or
\* nothing has been read.
Scan(s, n, w, D, P) ==
    /\ Text(s, n) /\ Matched(s, n, D, P) /\ AllFine(s, n) /\ ~RepeatsKey(s)
    /\ \A d \in 1 .. D - 1 : Below(s, n, w[d], P[d])
    /\ D # 0 => OnTop(s, n, w[D], P[D]) /\ Kids(s, 0, n) = {1}
    /\ D = 0 => n = 0

\* There is one value outside of all, and it begins at 1.
LEMMA RootsNext ==
  ASSUME NEW s, NEW u, NEW n, NEW w, NEW D, NEW P, TextAdded(s, u, n), Scan(s, n, w, D, P),
         D # 0 \/ ~Closes(u, n + 1)
  PROVE  Kids(u, 0, n + 1) = {1}
  <1>1. n \in Nat /\ Agree(s, u, n) /\ Matched(s, n, D, P)
    BY DEF TextAdded, Text, Scan
  <1>2. Kids(u, 0, n + 1) =
          IF ~Closes(u, n + 1) /\ Parent(s, n + 1) = 0 THEN Kids(s, 0, n) \cup {n + 1}
          ELSE Kids(s, 0, n)
    BY <1>1, KidsNext
  <1>3. CASE D = 0
    <2>1. n = 0 /\ n + 1 = 1
      BY <1>3 DEF Scan
    <2>2. Parent(s, n + 1) = 0
      BY <1>1, <1>3, NextToken DEF ParentOf
    <2>3. Kids(s, 0, n) = {}
      <3>1. 1 .. n = {}
        BY <2>1
      <3> QED BY <3>1 DEF Kids
    <2> QED BY <1>2, <1>3, <2>1, <2>2, <2>3
  <1>4. CASE D # 0
    <2>1. Kids(s, 0, n) = {1}
      BY <1>4 DEF Scan
    <2>2. Parent(u, n + 1) = P[D] /\ P[D] \in 1 .. n
      BY <1>1, <1>4, NextToken
    <2>3. Parent(s, n + 1) = P[D]
      BY <1>1, <2>2, BeforeNext
    <2>4. Parent(s, n + 1) # 0
      BY <2>2, <2>3
    <2> QED BY <1>2, <2>1, <2>4
  <1> QED BY <1>3, <1>4

\* A token that is fine and no repeated key leaves the text clean.
LEMMA CleanNext ==
  ASSUME NEW s, NEW u, NEW n, NEW w, NEW D, NEW P, TextAdded(s, u, n), Scan(s, n, w, D, P),
         Fine(u, n + 1), ~Again(s, u, n)
  PROVE  Text(u, n + 1) /\ AllFine(u, n + 1) /\ ~RepeatsKey(u)
  BY AllFineNext, RepeatsNext DEF TextAdded, Scan

\* The frames below stay.
LEMMA BelowNext ==
  ASSUME NEW s, NEW u, NEW n, NEW w, NEW D, NEW P, TextAdded(s, u, n), Scan(s, n, w, D, P)
  PROVE  /\ n \in Nat /\ Agree(s, u, n) /\ Matched(s, n, D, P) /\ D \in Nat
         /\ \A d \in 1 .. D - 1 : Below(u, n + 1, w[d], P[d])
  <1>1. n \in Nat /\ Agree(s, u, n) /\ Matched(s, n, D, P) /\ D \in Nat
    BY DEF TextAdded, Text, Scan, Matched
  <1>2. ASSUME NEW d \in 1 .. D - 1 PROVE Below(u, n + 1, w[d], P[d])
    <2>1. d \in 1 .. D /\ d # D
      BY <1>1
    <2>2. P[d] \in 1 .. n /\ Parent(s, n + 1) # P[d]
      <3>1. PICK e \in 1 .. D : e = d
        BY <2>1
      <3>2. P[e] \in 1 .. n /\ (Parent(s, n + 1) = P[e] <=> e = D)
        BY <1>1, MatchedPlaces
      <3> QED BY <2>1, <3>1, <3>2
    <2>3. Below(s, n, w[d], P[d])
      BY DEF Scan
    <2>4. PICK p, f : p = P[d] /\ f = w[d]
      OBVIOUS
    <2> QED BY <1>1, <2>2, <2>3, <2>4, BelowKept
  <1> QED BY <1>1, <1>2

\* What the tokens are.
IsScalar(u, i) == u[i] \in Strings \cup {"number"}
IsString(u, i) == u[i] \in Strings

\* Strings and numbers are no delimiters.
LEMMA PlainTokens ==
  ASSUME NEW u, NEW i
  PROVE  /\ IsScalar(u, i) => ~Opens(u, i) /\ ~Closes(u, i)
         /\ IsString(u, i) => IsScalar(u, i)
  BY JsonAssumption DEF IsScalar, IsString, Opens, Closes

\* A new key.
LEMMA AfterKey ==
  ASSUME NEW s, NEW u, NEW n, NEW w, NEW D, NEW P, NEW z,
         TextAdded(s, u, n), Scan(s, n, w, D, P), D # 0, KeyIsNext(s, P[D], n),
         IsString(u, n + 1), ~Again(s, u, n), Agree(w, z, D - 1),
         z[D] = [w[D] EXCEPT !.keys = @ \cup {u[n + 1]}, !.atKey = FALSE]
  PROVE  Scan(u, n + 1, z, D, P)
  <1>1. /\ n \in Nat /\ Agree(s, u, n) /\ Matched(s, n, D, P) /\ D \in Nat
        /\ \A d \in 1 .. D - 1 : Below(u, n + 1, w[d], P[d])
    BY BelowNext
  <1>2. ~Opens(u, n + 1) /\ ~Closes(u, n + 1)
    BY PlainTokens
  <1>3. Matched(u, n + 1, D, P)
    BY <1>1, <1>2, MatchedOther
  <1>4. IsKey(u, n + 1)
    BY <1>1, <1>2, KeyIs
  <1>5. Fine(u, n + 1)
    BY <1>2 DEF Fine, IsString
  <1>6. Text(u, n + 1) /\ AllFine(u, n + 1) /\ ~RepeatsKey(u)
    BY <1>5, CleanNext
  <1>7. Kids(u, 0, n + 1) = {1}
    BY RootsNext
  <1>8. OnTop(u, n + 1, z[D], P[D])
    <2>1. Parent(u, n + 1) = P[D] /\ P[D] \in 1 .. n
      BY <1>1, NextToken
    <2>2. Parent(s, n + 1) = P[D]
      BY <1>1, <2>1, BeforeNext
    <2>3. OnTop(s, n, w[D], P[D])
      BY DEF Scan
    <2>4. PICK p, f, t : p = P[D] /\ f = w[D] /\ t = u[n + 1]
      OBVIOUS
    <2>5. OnTop(u, n + 1, [f EXCEPT !.keys = @ \cup {t}, !.atKey = FALSE], p)
      BY <1>1, <1>4, <2>1, <2>2, <2>3, <2>4, TopAfterKey
    <2> QED BY <2>4, <2>5
  <1>9. \A d \in 1 .. D - 1 : Below(u, n + 1, z[d], P[d])
    BY <1>1 DEF Agree
  <1> QED BY <1>3, <1>6, <1>7, <1>8, <1>9 DEF Scan

\* The stack when a value has ended.
Lifted(w, z, D) == Agree(w, z, D - 1) /\ z[D] = [w[D] EXCEPT !.atKey = w[D].close = "}"]

\* A value has ended, D frames are left around it.
LEMMA ValueEnded ==
  ASSUME NEW u, NEW m, NEW w, NEW D, NEW P, NEW z,
         Text(u, m), Matched(u, m, D, P), AllFine(u, m), ~RepeatsKey(u), Kids(u, 0, m) = {1},
         \A d \in 1 .. D : Below(u, m, w[d], P[d])
  PROVE  /\ D = 0 => OneValue(u)
         /\ D # 0 /\ Lifted(w, z, D) => Scan(u, m, z, D, P)
  <1>0. D \in Nat
    BY DEF Matched
  <1>1. D = 0 => OneValue(u)
    <2>1. Balance(u, 1, m) = D
      BY DEF Matched, Balanced
    <2> QED BY <2>1, OneValueIs
  <1>2. ASSUME D # 0, Lifted(w, z, D) PROVE Scan(u, m, z, D, P)
    <2>0. Agree(w, z, D - 1)
      BY <1>2 DEF Lifted
    <2>1. \A d \in 1 .. D - 1 : z[d] = w[d] /\ d \in 1 .. D
      BY <1>0, <2>0 DEF Agree
    <2>2. \A d \in 1 .. D - 1 : Below(u, m, z[d], P[d])
      BY <2>1
    <2>3. D \in 1 .. D
      BY <1>0, <1>2
    <2>4. Below(u, m, w[D], P[D])
      BY <2>3
    <2>5. PICK f, p : f = w[D] /\ p = P[D]
      OBVIOUS
    <2>6. OnTop(u, m, [f EXCEPT !.atKey = f.close = "}"], p)
      BY <2>4, <2>5, BelowToTop
    <2>7. OnTop(u, m, z[D], P[D])
      BY <1>2, <2>5, <2>6 DEF Lifted
    <2> QED BY <1>2, <2>2, <2>7 DEF Scan
  <1> QED BY <1>1, <1>2

\* A value begins where one may stand: everything on the stack is below it.
LEMMA ValueBegun ==
  ASSUME NEW s, NEW u, NEW n, NEW w, NEW D, NEW P, TextAdded(s, u, n), Scan(s, n, w, D, P),
         ~Closes(u, n + 1), ~(D # 0 /\ KeyIsNext(s, P[D], n))
  PROVE  /\ Text(u, n + 1) /\ AllFine(u, n + 1) /\ ~RepeatsKey(u) /\ Kids(u, 0, n + 1) = {1}
         /\ \A d \in 1 .. D : Below(u, n + 1, w[d], P[d])
  <1>1. /\ n \in Nat /\ Agree(s, u, n) /\ Matched(s, n, D, P) /\ D \in Nat
        /\ \A d \in 1 .. D - 1 : Below(u, n + 1, w[d], P[d])
    BY BelowNext
  <1>2. ~IsKey(u, n + 1)
    BY <1>1, KeyIs
  <1>3. Fine(u, n + 1) /\ ~Again(s, u, n)
    BY <1>2 DEF Fine, Again
  <1>4. Text(u, n + 1) /\ AllFine(u, n + 1) /\ ~RepeatsKey(u)
    BY <1>3, CleanNext
  <1>5. Kids(u, 0, n + 1) = {1}
    BY RootsNext
  <1>6. ASSUME D # 0 PROVE Below(u, n + 1, w[D], P[D])
    <2>1. Parent(u, n + 1) = P[D] /\ P[D] \in 1 .. n
      BY <1>1, <1>6, NextToken
    <2>2. Parent(s, n + 1) = P[D]
      BY <1>1, <2>1, BeforeNext
    <2>3. OnTop(s, n, w[D], P[D])
      BY <1>6 DEF Scan
    <2>4. PICK p, f : p = P[D] /\ f = w[D]
      OBVIOUS
    <2>5. Below(u, n + 1, f, p)
      BY <1>1, <1>2, <1>6, <2>1, <2>2, <2>3, <2>4, TopAfterValue
    <2> QED BY <2>4, <2>5
  <1>7. \A d \in 1 .. D : d \in 1 .. D - 1 \/ (d = D /\ D # 0)
    BY <1>1
  <1> QED BY <1>1, <1>4, <1>5, <1>6, <1>7

\* A string or a number as a value.
LEMMA AfterScalar ==
  ASSUME NEW s, NEW u, NEW n, NEW w, NEW D, NEW P, NEW z,
         TextAdded(s, u, n), Scan(s, n, w, D, P), IsScalar(u, n + 1),
         ~(D # 0 /\ KeyIsNext(s, P[D], n))
  PROVE  /\ D = 0 => OneValue(u) /\ ~RepeatsKey(u)
         /\ D # 0 /\ Lifted(w, z, D) => Scan(u, n + 1, z, D, P)
  <1>1. n \in Nat /\ Agree(s, u, n) /\ Matched(s, n, D, P) /\ D \in Nat
    BY BelowNext
  <1>2. ~Opens(u, n + 1) /\ ~Closes(u, n + 1)
    BY PlainTokens
  <1>3. Matched(u, n + 1, D, P)
    BY <1>1, <1>2, MatchedOther
  <1>4. /\ Text(u, n + 1) /\ AllFine(u, n + 1) /\ ~RepeatsKey(u) /\ Kids(u, 0, n + 1) = {1}
        /\ \A d \in 1 .. D : Below(u, n + 1, w[d], P[d])
    BY <1>2, ValueBegun
  <1>5. PICK m : m = n + 1
    OBVIOUS
  <1> QED BY <1>3, <1>4, <1>5, ValueEnded

\* The frame of a delimiter.
Fresh(u, i, f) == f = IF u[i] = "{" THEN InObject ELSE InArray

\* A delimiter that opens a value.
LEMMA AfterOpen ==
  ASSUME NEW s, NEW u, NEW n, NEW w, NEW D, NEW P, NEW z,
         TextAdded(s, u, n), Scan(s, n, w, D, P), Opens(u, n + 1),
         ~(D # 0 /\ KeyIsNext(s, P[D], n)),
         Agree(w, z, D), Fresh(u, n + 1, z[D + 1])
  PROVE  \E Q : Scan(u, n + 1, z, D + 1, Q)
  <1>1. n \in Nat /\ Agree(s, u, n) /\ Matched(s, n, D, P) /\ D \in Nat
    BY BelowNext
  <1>2. ~Closes(u, n + 1)
    BY DelimitersApart
  <1>3. PICK Q : Q = [d \in 1 .. D + 1 |-> IF d = D + 1 THEN n + 1 ELSE P[d]]
    OBVIOUS
  <1>4. Agree(P, Q, D) /\ Q[D + 1] = n + 1
    BY <1>1, <1>3 DEF Agree
  <1>5. Matched(u, n + 1, D + 1, Q)
    BY <1>1, <1>4, MatchedOpen
  <1>6. /\ Text(u, n + 1) /\ AllFine(u, n + 1) /\ ~RepeatsKey(u) /\ Kids(u, 0, n + 1) = {1}
        /\ \A d \in 1 .. D : Below(u, n + 1, w[d], P[d])
    BY <1>2, ValueBegun
  <1>7. (D + 1) - 1 = D /\ D + 1 # 0
    BY <1>1
  <1>8. \A d \in 1 .. D : Below(u, n + 1, z[d], Q[d])
    BY <1>4, <1>6 DEF Agree
  <1>9. OnTop(u, n + 1, z[D + 1], Q[D + 1])
    BY <1>1, <1>4, NewTop DEF Fresh
  <1>10. Scan(u, n + 1, z, D + 1, Q)
    BY <1>5, <1>6, <1>7, <1>8, <1>9 DEF Scan
  <1> QED BY <1>10

\* The delimiter that the frame on top waits for.
CloseFits(u, i, f) == u[i] = f.close /\ (u[i] = "}" => f.atKey)

\* It closes the value.
LEMMA AfterClose ==
  ASSUME NEW s, NEW u, NEW n, NEW w, NEW D, NEW P, NEW o, NEW z,
         TextAdded(s, u, n), Scan(s, n, w, D, P), D # 0, CloseFits(u, n + 1, w[D]),
         Agree(w, o, D - 1)
  PROVE  /\ D - 1 = 0 => OneValue(u) /\ ~RepeatsKey(u)
         /\ D - 1 # 0 /\ Lifted(o, z, D - 1) => Scan(u, n + 1, z, D - 1, P)
  <1>1. /\ n \in Nat /\ Agree(s, u, n) /\ Matched(s, n, D, P) /\ D \in Nat
        /\ \A d \in 1 .. D - 1 : Below(u, n + 1, w[d], P[d])
    BY BelowNext
  <1>2. PICK p, f : p = P[D] /\ f = w[D]
    OBVIOUS
  <1>3. /\ Parent(u, n + 1) = p /\ p \in 1 .. n
        /\ (InsideObject(u, n + 1) <=> IsBrace(s, p))
        /\ (Even(Before(u, n + 1)) <=> Even(Kids(s, p, n)))
    BY <1>1, <1>2, NextToken
  <1>4. OnTop(s, n, f, p)
    BY <1>2 DEF Scan
  <1>5. /\ f.close = CloseOf(s, p) /\ (f.atKey <=> KeyIsNext(s, p, n))
    BY <1>4, TopIs
  <1>6. u[n + 1] = CloseOf(s, p) /\ (u[n + 1] = "}" => KeyIsNext(s, p, n))
    BY <1>2, <1>5 DEF CloseFits
  <1>7. Closes(u, n + 1)
    BY <1>6 DEF CloseOf, Closes
  <1>8. Fine(u, n + 1)
    <2>1. Parent(u, n + 1) > 0
      BY <1>3
    <2>2. u[n + 1] = IF InsideObject(u, n + 1) THEN "}" ELSE "]"
      BY <1>3, <1>6 DEF CloseOf
    <2>3. InsideObject(u, n + 1) => Even(Before(u, n + 1))
      <3>1. SUFFICES ASSUME InsideObject(u, n + 1) PROVE Even(Before(u, n + 1))
        OBVIOUS
      <3>2. KeyIsNext(s, p, n)
        BY <1>6, <2>2, <3>1
      <3> QED BY <1>3, <3>2 DEF KeyIsNext
    <2>4. ~IsKey(u, n + 1)
      BY <1>7 DEF IsKey
    <2> QED BY <2>1, <2>2, <2>3, <2>4 DEF Fine
  <1>9. ~Again(s, u, n)
    BY <1>7 DEF Again, IsKey
  <1>10. Text(u, n + 1) /\ AllFine(u, n + 1) /\ ~RepeatsKey(u)
    BY <1>8, <1>9, CleanNext
  <1>11. Kids(u, 0, n + 1) = {1}
    BY RootsNext
  <1>12. D \in Nat \ {0}
    BY <1>1
  <1>13. Matched(u, n + 1, D - 1, P)
    BY <1>1, <1>7, <1>12, MatchedClose
  <1>14. \A d \in 1 .. D - 1 : Below(u, n + 1, o[d], P[d])
    BY <1>1 DEF Agree
  <1>15. PICK m, E : m = n + 1 /\ E = D - 1
    OBVIOUS
  <1>16. /\ E = 0 => OneValue(u)
         /\ E # 0 /\ Lifted(o, z, E) => Scan(u, m, z, E, P)
    BY <1>10, <1>11, <1>13, <1>14, <1>15, ValueEnded
  <1> QED BY <1>10, <1>15, <1>16

\* A token that cannot stand here.
Misplaced(u, i, nested, f) ==
    IF nested /\ f.atKey THEN u[i] \notin Strings \cup {"}"}
    ELSE u[i] = "}" \/ (u[i] = "]" /\ ~(nested /\ f.close = "]"))

\* It makes the text no value.
LEMMA AfterMisplaced ==
  ASSUME NEW s, NEW u, NEW n, NEW w, NEW D, NEW P,
         TextAdded(s, u, n), Scan(s, n, w, D, P), Misplaced(u, n + 1, D # 0, w[D])
  PROVE  ~OneValue(u)
  <1>1. n \in Nat /\ Agree(s, u, n) /\ Matched(s, n, D, P) /\ D \in Nat
    BY BelowNext
  <1>2. ~Fine(u, n + 1)
    <2>1. CASE D = 0
      <3>1. ~InsideObject(u, n + 1) /\ Parent(u, n + 1) = 0
        BY <1>1, <2>1, NextToken
      <3>2. Closes(u, n + 1)
        BY <2>1 DEF Misplaced, Closes
      <3>3. ~(Parent(u, n + 1) > 0)
        BY <3>1
      <3> QED BY <3>2, <3>3 DEF Fine
    <2>2. CASE D # 0
      <3>1. PICK p, f : p = P[D] /\ f = w[D]
        OBVIOUS
      <3>2. /\ (InsideObject(u, n + 1) <=> IsBrace(s, p))
            /\ (Even(Before(u, n + 1)) <=> Even(Kids(s, p, n)))
        BY <1>1, <2>2, <3>1, NextToken
      <3>3. OnTop(s, n, f, p)
        BY <2>2, <3>1 DEF Scan
      <3>4. /\ (f.atKey <=> KeyIsNext(s, p, n)) /\ (f.close = "]" <=> ~IsBrace(s, p))
        BY <3>3, TopIs
      <3>5. IsKey(u, n + 1) <=> KeyIsNext(s, p, n) /\ ~Closes(u, n + 1)
        BY <1>1, <2>2, <3>1, KeyIs
      <3>6. IF KeyIsNext(s, p, n) THEN u[n + 1] \notin Strings \cup {"}"}
            ELSE u[n + 1] = "}" \/ (u[n + 1] = "]" /\ IsBrace(s, p))
        BY <2>2, <3>1, <3>4 DEF Misplaced
      <3>7. CASE KeyIsNext(s, p, n)
        <4>1. InsideObject(u, n + 1)
          BY <3>2, <3>7 DEF KeyIsNext
        <4>2. u[n + 1] \notin Strings /\ u[n + 1] # "}"
          BY <3>6, <3>7
        <4>3. CASE Closes(u, n + 1)
          BY <4>1, <4>2, <4>3 DEF Fine
        <4>4. CASE ~Closes(u, n + 1)
          BY <3>5, <3>7, <4>2, <4>4 DEF Fine
        <4> QED BY <4>3, <4>4
      <3>8. CASE ~KeyIsNext(s, p, n)
        <4>1. u[n + 1] = "}" \/ (u[n + 1] = "]" /\ IsBrace(s, p))
          BY <3>6, <3>8
        <4>2. Closes(u, n + 1)
          BY <4>1 DEF Closes
        <4>3. CASE IsBrace(s, p)
          <5>1. InsideObject(u, n + 1) /\ ~Even(Before(u, n + 1))
            BY <3>2, <3>8, <4>3 DEF KeyIsNext
          <5> QED BY <4>2, <5>1 DEF Fine
        <4>4. CASE ~IsBrace(s, p)
          <5>1. ~InsideObject(u, n + 1) /\ u[n + 1] # "]"
            BY <3>2, <4>1, <4>4
          <5> QED BY <4>2, <5>1 DEF Fine
        <4> QED BY <4>3, <4>4
      <3> QED BY <3>7, <3>8
    <2> QED BY <2>1, <2>2
  <1>3. ~AllFine(u, n + 1)
    BY <1>2, AllFineNext
  <1>4. Text(u, n + 1)
    BY DEF TextAdded
  <1> QED BY <1>3, <1>4, OneValueIs

\* The text ends too early.
LEMMA AtTheEnd ==
  ASSUME NEW s, NEW n, NEW w, NEW D, NEW P, Scan(s, n, w, D, P)
  PROVE  ~OneValue(s)
  <1>1. Text(s, n) /\ n \in Nat
    BY DEF Scan, Text
  <1>2. CASE D = 0
    <2>1. n = 0
      BY <1>2 DEF Scan
    <2>2. 1 .. n = {}
      BY <2>1
    <2>3. Kids(s, 0, n) = {}
      BY <2>2 DEF Kids
    <2>4. Kids(s, 0, n) # {1}
      BY <2>3
    <2> QED BY <1>1, <2>4, OneValueIs
  <1>3. CASE D # 0
    <2>1. Balance(s, 1, n) = D
      BY DEF Scan, Matched, Balanced
    <2> QED BY <1>1, <1>3, <2>1, OneValueIs
  <1> QED BY <1>2, <1>3

\* The empty text.
LEMMA AtTheStart == \E P : Scan(<<>>, 0, <<>>, 0, P)
  <1>1. PICK e : e = <<>>
    OBVIOUS
  <1>2. Text(e, 0)
    BY <1>1 DEF Text
  <1>3. 1 .. 0 = {} /\ 0 - 1 = -1 /\ 1 .. -1 = {} /\ 0 + 1 = 1
    OBVIOUS
  <1>4. AllFine(e, 0)
    BY <1>3 DEF AllFine
  <1>5. DOMAIN e = {}
    BY <1>1
  <1>6. ~RepeatsKey(e)
    BY <1>5 DEF RepeatsKey
  <1>7. Matched(e, 0, 0, e)
    <2>1. Balance(e, 1, 0) = 0
      BY <1>3, BalanceNone
    <2>2. Balanced(e, 0, 0, e) /\ Ascending(e, 0)
      BY <1>3, <2>1 DEF Balanced, Ascending
    <2>3. OpenBefore(e, 1) = {}
      <3>1. 1 .. 1 - 1 = {}
        OBVIOUS
      <3> QED BY <3>1 DEF OpenBefore
    <2>4. Opened(e, 0, 0, e)
      BY <1>3, <2>3 DEF Opened
    <2> QED BY <1>3, <2>2, <2>4 DEF Matched
  <1>8. Scan(e, 0, e, 0, e)
    BY <1>2, <1>3, <1>4, <1>6, <1>7 DEF Scan
  <1> QED BY <1>1, <1>8

\* A stack is some sequence of frames.
IsStack(w) == \E S : w \in Seq(S)
\* The stack tells of the text.
Followed(s, w) == \E P : Scan(s, Len(s), w, Len(w), P)
\* What verdict v says of the text s.
Right(s, v, w) ==
    /\ s \in Seq(Tokens) /\ IsStack(w)
    /\ v = "scanning" => Followed(s, w)
    /\ v = "value" => w = <<>> /\ OneValue(s) /\ ~RepeatsKey(s)
    /\ v = "accepted" => OneValue(s) /\ ~RepeatsKey(s)
    /\ v = "duplicate" => RepeatsKey(s)
    /\ v = "trailing" => OneValue(SubSeq(s, 1, Len(s) - 1))
    /\ v = "syntax" => ~OneValue(s)
\* The inductive invariant of the scan.
JsonText(i) == i = [kind |-> "json", tokens |-> i.tokens]
JsonInv ==
    input.kind = "json" =>
        JsonText(input) /\ Right(input.tokens, report.verdict, report.stack)

\* A token is appended.
LEMMA TokenAppended ==
  ASSUME NEW s \in Seq(Tokens), NEW t \in Tokens, NEW u, u = Append(s, t)
  PROVE  /\ u \in Seq(Tokens) /\ TextAdded(s, u, Len(s)) /\ u[Len(s) + 1] = t
         /\ Len(u) = Len(s) + 1 /\ SubSeq(u, 1, Len(u) - 1) = s
  <1>1. PICK T : T = Tokens
    OBVIOUS
  <1>2. s \in Seq(T) /\ t \in T
    BY <1>1
  <1>3. PICK n \in Nat : n = Len(s)
    BY <1>2
  <1>4. /\ u \in Seq(T) /\ Len(u) = n + 1 /\ u[n + 1] = t
        /\ \A i \in 1 .. n : u[i] = s[i]
    BY <1>2, <1>3
  <1>5. DOMAIN s = 1 .. n /\ DOMAIN u = 1 .. n + 1
    BY <1>2, <1>3, <1>4
  <1>6. TextAdded(s, u, n)
    BY <1>3, <1>4, <1>5 DEF TextAdded, Text, Agree
  <1>7. SubSeq(u, 1, n) = s
    <2>1. PICK v : v = SubSeq(u, 1, n)
      OBVIOUS
    <2>2. v \in Seq(T) /\ Len(v) = n /\ \A i \in 1 .. n : v[i] = u[i]
      BY <1>3, <1>4, <2>1
    <2>3. \A i \in 1 .. n : v[i] = s[i]
      BY <1>4, <2>2
    <2>4. v = s
      BY <1>2, <1>3, <2>2, <2>3, SeqEqual
    <2> QED BY <2>1, <2>4
  <1>8. Len(u) - 1 = n
    BY <1>4
  <1> QED BY <1>1, <1>3, <1>4, <1>6, <1>7, <1>8

\* The stack of ValueEnds.
LiftOf(o, D) == [o EXCEPT ![D].atKey = o[D].close = "}"]

\* It is lifted.
LEMMA StackLifted ==
  ASSUME NEW o, IsStack(o), NEW D, D = Len(o), D # 0
  PROVE  IsStack(LiftOf(o, D)) /\ Len(LiftOf(o, D)) = D /\ Lifted(o, LiftOf(o, D), D)
  <1>1. PICK S : o \in Seq(S)
    BY DEF IsStack
  <1>2. PICK x : x = [o[D] EXCEPT !.atKey = o[D].close = "}"]
    OBVIOUS
  <1>3. PICK z : z = [o EXCEPT ![D] = x]
    OBVIOUS
  <1>4. z = LiftOf(o, D)
    BY <1>2, <1>3 DEF LiftOf
  <1>5. D \in Nat /\ D \in 1 .. D
    BY <1>1
  <1>6. PICK R : R = S \cup {x}
    OBVIOUS
  <1>7. o \in [1 .. D -> R] /\ x \in R
    BY <1>1, <1>5, <1>6
  <1>8. z \in [1 .. D -> R] /\ z[D] = x /\ \A d \in 1 .. D : d # D => z[d] = o[d]
    BY <1>3, <1>5, <1>7
  <1>9. z \in Seq(R) /\ Len(z) = D
    BY <1>5, <1>8
  <1>10. Agree(o, z, D - 1)
    <2>1. \A d \in 1 .. D - 1 : d \in 1 .. D /\ d # D
      BY <1>5
    <2> QED BY <1>8, <2>1 DEF Agree
  <1>11. Lifted(o, z, D)
    BY <1>2, <1>8, <1>10 DEF Lifted
  <1> QED BY <1>4, <1>9, <1>11 DEF IsStack

\* The stack without its top.
LEMMA StackCut ==
  ASSUME NEW w, IsStack(w), NEW D, D = Len(w), D # 0, NEW o, o = SubSeq(w, 1, D - 1)
  PROVE  D \in Nat /\ IsStack(o) /\ Len(o) = D - 1 /\ Agree(w, o, D - 1)
  <1>1. PICK S : w \in Seq(S)
    BY DEF IsStack
  <1>2. D \in Nat
    BY <1>1
  <1>3. o \in Seq(S) /\ Len(o) = D - 1 /\ \A d \in 1 .. D - 1 : o[d] = w[d]
    BY <1>1, <1>2
  <1> QED BY <1>2, <1>3 DEF IsStack, Agree

\* A frame is pushed.
Pushed(w, D, x, z) == IsStack(z) /\ Len(z) = D + 1 /\ Agree(w, z, D) /\ z[D + 1] = x

\* Append pushes it.
LEMMA StackGrown ==
  ASSUME NEW w, IsStack(w), NEW x
  PROVE  Pushed(w, Len(w), x, Append(w, x))
  <1>0. PICK z, D : z = Append(w, x) /\ D = Len(w)
    OBVIOUS
  <1>1. PICK S : w \in Seq(S)
    BY DEF IsStack
  <1>2. PICK R : R = S \cup {x}
    OBVIOUS
  <1>3. w \in Seq(R) /\ x \in R
    BY <1>1, <1>2
  <1>4. z \in Seq(R) /\ Len(z) = D + 1 /\ z[D + 1] = x /\ \A d \in 1 .. D : z[d] = w[d]
    BY <1>0, <1>3
  <1>5. Pushed(w, D, x, z)
    BY <1>4 DEF Pushed, IsStack, Agree
  <1> QED BY <1>0, <1>5

\* An empty stack.
LEMMA StackEmpty ==
  ASSUME NEW w, IsStack(w)
  PROVE  Len(w) \in Nat /\ (w = <<>> <=> Len(w) = 0)
  BY DEF IsStack

\* A step that leaves the verdict right keeps the invariant.
LEMMA ScannedRight ==
  ASSUME JsonText(input), NEW t, NEW v, NEW z, Scanned(t, v, z),
         Right(Append(input.tokens, t), v, z)
  PROVE  JsonInv'
  <1>1. PICK s : s = input.tokens
    OBVIOUS
  <1>2. input = [kind |-> "json", tokens |-> s]
    BY <1>1 DEF JsonText
  <1>3. input' = [input EXCEPT !.tokens = Append(input.tokens, t)] /\ report' = [verdict |-> v, stack |-> z]
    BY DEF Scanned
  <1>4. PICK u : u = Append(s, t)
    OBVIOUS
  <1>5. input' = [kind |-> "json", tokens |-> u]
    <2>1. PICK i, j : i = input /\ j = input'
      OBVIOUS
    <2>2. i = [kind |-> "json", tokens |-> s]
      BY <1>2, <2>1
    <2>3. [i EXCEPT !.tokens = u] = [kind |-> "json", tokens |-> u]
      BY <2>2
    <2>4. j = [i EXCEPT !.tokens = u]
      BY <1>1, <1>3, <1>4, <2>1
    <2> QED BY <2>1, <2>3, <2>4
  <1>6. input'.tokens = u /\ report'.verdict = v /\ report'.stack = z
    BY <1>3, <1>5
  <1>7. JsonText(input)'
    BY <1>5, <1>6 DEF JsonText
  <1>8. Right(input.tokens, report.verdict, report.stack)'
    <2>1. Right(u, v, z)
      BY <1>1, <1>4
    <2> QED BY <1>6, <2>1 DEF Right, Followed, IsStack
  <1> QED BY <1>7, <1>8 DEF JsonInv

\* A token that goes through Scanned, and what that leaves to show.
Taking(t, s, w, u, n, D) ==
    /\ s = input.tokens /\ w = report.stack /\ u = Append(s, t) /\ n = Len(s) /\ D = Len(w)

\* What is known then.
LEMMA TokenTaken ==
  ASSUME JsonInv, input.kind = "json", NEW t \in Tokens, NEW s, NEW w, NEW u, NEW n, NEW D,
         Taking(t, s, w, u, n, D)
  PROVE  /\ JsonText(input) /\ u \in Seq(Tokens) /\ TextAdded(s, u, n) /\ u[n + 1] = t
         /\ Len(u) = n + 1 /\ SubSeq(u, 1, Len(u) - 1) = s
         /\ IsStack(w) /\ D \in Nat /\ (w = <<>> <=> D = 0)
         /\ report.verdict = "scanning" => \E P : Scan(s, n, w, D, P)
  <1>1. JsonText(input) /\ Right(input.tokens, report.verdict, report.stack)
    BY DEF JsonInv
  <1>2. /\ s \in Seq(Tokens) /\ IsStack(w) /\ u = Append(s, t) /\ n = Len(s) /\ D = Len(w)
        /\ report.verdict = "scanning" => Followed(s, w)
    BY <1>1 DEF Right, Taking
  <1>3. /\ u \in Seq(Tokens) /\ TextAdded(s, u, Len(s)) /\ u[Len(s) + 1] = t
        /\ Len(u) = Len(s) + 1 /\ SubSeq(u, 1, Len(u) - 1) = s
    BY <1>2, TokenAppended
  <1>4. Len(w) \in Nat /\ (w = <<>> <=> Len(w) = 0)
    BY <1>2, StackEmpty
  <1> QED BY <1>1, <1>2, <1>3, <1>4 DEF Followed

\* A value has ended on stack o.
Ended(u, n, o, D) ==
    /\ u \in Seq(Tokens) /\ Len(u) = n + 1 /\ IsStack(o) /\ D = Len(o)
    /\ D = 0 => OneValue(u) /\ ~RepeatsKey(u)
    /\ \A z : D # 0 /\ Lifted(o, z, D) => \E P : Scan(u, n + 1, z, D, P)

\* ValueEnds keeps the invariant.
LEMMA EndedRight ==
  ASSUME JsonText(input), NEW t, NEW u, NEW n, NEW o, NEW D, u = Append(input.tokens, t),
         Ended(u, n, o, D), ValueEnds(t, o)
  PROVE  JsonInv'
  <1>1. u \in Seq(Tokens) /\ Len(u) = n + 1 /\ IsStack(o) /\ D = Len(o)
    BY DEF Ended
  <1>2. o = <<>> <=> D = 0
    BY <1>1, StackEmpty
  <1>3. CASE D = 0
    <2>1. Scanned(t, "value", o) /\ o = <<>>
      BY <1>2, <1>3 DEF ValueEnds
    <2>2. OneValue(u) /\ ~RepeatsKey(u)
      BY <1>3 DEF Ended
    <2>3. Right(u, "value", o)
      BY <1>1, <2>1, <2>2 DEF Right
    <2> QED BY <2>1, <2>3, ScannedRight
  <1>4. CASE D # 0
    <2>1. PICK z : z = LiftOf(o, D)
      OBVIOUS
    <2>2. Scanned(t, "scanning", z)
      BY <1>1, <1>2, <1>4, <2>1 DEF ValueEnds, LiftOf
    <2>3. IsStack(z) /\ Len(z) = D /\ Lifted(o, z, D)
      BY <1>1, <1>4, <2>1, StackLifted
    <2>4. \E P : Scan(u, n + 1, z, D, P)
      BY <1>4, <2>3 DEF Ended
    <2>5. Followed(u, z)
      BY <1>1, <2>3, <2>4 DEF Followed
    <2>6. Right(u, "scanning", z)
      BY <1>1, <2>3, <2>5 DEF Right
    <2> QED BY <2>2, <2>6, ScannedRight
  <1> QED BY <1>3, <1>4

\* One lemma per action: a key,
LEMMA KeyTaken ==
  ASSUME JsonInv, NEW t \in Tokens, ScanKey(t)
  PROVE  JsonInv'
  <1>1. PICK s, w, u, n, D : Taking(t, s, w, u, n, D)
    BY DEF Taking
  <1>2. input.kind = "json" /\ report.verdict = "scanning" /\ AtKey /\ t \in Strings
    BY DEF ScanKey, Scanning
  <1>3. /\ JsonText(input) /\ u \in Seq(Tokens) /\ TextAdded(s, u, n) /\ u[n + 1] = t
        /\ Len(u) = n + 1 /\ IsStack(w) /\ D \in Nat /\ (w = <<>> <=> D = 0)
        /\ \E P : Scan(s, n, w, D, P)
    BY <1>1, <1>2, TokenTaken
  <1>4. PICK P : Scan(s, n, w, D, P)
    BY <1>3
  <1>5. /\ s = input.tokens /\ w = report.stack /\ u = Append(s, t) /\ n = Len(s) /\ D = Len(w)
    BY <1>1 DEF Taking
  <1>6. PICK f, p : f = w[D] /\ p = P[D]
    OBVIOUS
  <1>7. D # 0 /\ f.atKey /\ Top = f
    BY <1>2, <1>3, <1>5, <1>6 DEF AtKey, Nested, Top
  <1>8. OnTop(s, n, f, p) /\ Matched(s, n, D, P)
    BY <1>4, <1>6, <1>7 DEF Scan
  <1>9. KeyIsNext(s, p, n) /\ f.keys = KeysOf(s, p, n)
    BY <1>7, <1>8, TopIs
  <1>10. n \in Nat /\ Agree(s, u, n)
    BY <1>3 DEF TextAdded, Text
  <1>11. Parent(s, n + 1) = p
    BY <1>6, <1>7, <1>8, <1>10, MatchedParent DEF ParentOf
  <1>12. IsString(u, n + 1)
    BY <1>2, <1>3 DEF IsString
  <1>13. ~Closes(u, n + 1)
    BY <1>12, PlainTokens
  <1>14. IsKey(u, n + 1)
    BY <1>6, <1>7, <1>8, <1>9, <1>10, <1>13, KeyIs
  <1>15. Again(s, u, n) <=> t \in f.keys
    BY <1>3, <1>9, <1>11, <1>14 DEF Again
  <1>16. CASE t \in f.keys
    <2>1. Scanned(t, "duplicate", w)
      BY <1>5, <1>7, <1>16 DEF ScanKey
    <2>2. RepeatsKey(u)
      BY <1>3, <1>15, <1>16, RepeatsNext
    <2>3. Right(u, "duplicate", w)
      BY <1>3, <2>2 DEF Right
    <2> QED BY <1>3, <1>5, <2>1, <2>3, ScannedRight
  <1>17. CASE t \notin f.keys
    <2>1. PICK o, g, z : /\ o = SubSeq(w, 1, D - 1) /\ z = Append(o, g)
                         /\ g = [f EXCEPT !.keys = @ \cup {t}, !.atKey = FALSE]
      OBVIOUS
    <2>2. Scanned(t, "scanning", z)
      BY <1>5, <1>7, <1>17, <2>1 DEF ScanKey, Outer
    <2>3. IsStack(o) /\ Len(o) = D - 1 /\ Agree(w, o, D - 1)
      BY <1>3, <1>5, <1>7, <2>1, StackCut
    <2>4. PICK E : E = D - 1
      OBVIOUS
    <2>5. IsStack(z) /\ Len(z) = E + 1 /\ Agree(o, z, E) /\ z[E + 1] = g
      <3>1. z = Append(o, g) /\ IsStack(o) /\ E = Len(o)
        BY <2>1, <2>3, <2>4
      <3>2. Pushed(o, E, g, z)
        BY <3>1, StackGrown
      <3> QED BY <3>2 DEF Pushed
    <2>6. E + 1 = D
      BY <1>3, <2>4
    <2>7. Agree(w, z, D - 1) /\ z[D] = g /\ Len(z) = D
      BY <2>3, <2>4, <2>5, <2>6 DEF Agree
    <2>8. z[D] = [w[D] EXCEPT !.keys = @ \cup {u[n + 1]}, !.atKey = FALSE]
      BY <1>3, <1>6, <2>1, <2>7
    <2>9. Scan(u, n + 1, z, D, P)
      <3>1. KeyIsNext(s, P[D], n) /\ ~Again(s, u, n)
        BY <1>6, <1>9, <1>15, <1>17
      <3> QED BY <1>3, <1>4, <1>7, <1>12, <2>7, <2>8, <3>1, AfterKey
    <2>10. Followed(u, z)
      BY <1>3, <2>7, <2>9 DEF Followed
    <2>11. Right(u, "scanning", z)
      BY <1>3, <2>5, <2>10 DEF Right
    <2> QED BY <1>3, <1>5, <2>2, <2>11, ScannedRight
  <1> QED BY <1>16, <1>17

\* Where the next token stands: at a key or not, as the frame on top says.
LEMMA AtKeyIs ==
  ASSUME NEW s, NEW n, NEW w, NEW D, NEW P, Scan(s, n, w, D, P), w = report.stack, D = Len(w),
         w = <<>> <=> D = 0
  PROVE  /\ Nested <=> D # 0
         /\ AtKey <=> D # 0 /\ KeyIsNext(s, P[D], n)
         /\ D # 0 => Top = w[D]
  <1>1. (Nested <=> D # 0) /\ (D # 0 => Top = w[D])
    BY DEF Nested, Top
  <1>2. ASSUME D # 0 PROVE Top.atKey <=> KeyIsNext(s, P[D], n)
    <2>1. PICK f, p : f = w[D] /\ p = P[D]
      OBVIOUS
    <2>2. OnTop(s, n, f, p)
      BY <1>2, <2>1 DEF Scan
    <2>3. f.atKey <=> KeyIsNext(s, p, n)
      BY <2>2, TopIs
    <2> QED BY <1>1, <1>2, <2>1, <2>3
  <1> QED BY <1>1, <1>2 DEF AtKey

\* a string or a number,
LEMMA ScalarTaken ==
  ASSUME JsonInv, NEW t \in Tokens, ScanScalar(t)
  PROVE  JsonInv'
  <1>1. PICK s, w, u, n, D : Taking(t, s, w, u, n, D)
    BY DEF Taking
  <1>2. /\ input.kind = "json" /\ report.verdict = "scanning" /\ ~AtKey
        /\ t \in Strings \cup {"number"} /\ ValueEnds(t, report.stack)
    BY DEF ScanScalar, Scanning
  <1>3. /\ JsonText(input) /\ u \in Seq(Tokens) /\ TextAdded(s, u, n) /\ u[n + 1] = t
        /\ Len(u) = n + 1 /\ IsStack(w) /\ D \in Nat /\ (w = <<>> <=> D = 0)
        /\ \E P : Scan(s, n, w, D, P)
    BY <1>1, <1>2, TokenTaken
  <1>4. PICK P : Scan(s, n, w, D, P)
    BY <1>3
  <1>5. /\ s = input.tokens /\ w = report.stack /\ u = Append(s, t) /\ n = Len(s) /\ D = Len(w)
    BY <1>1 DEF Taking
  <1>6. ~(D # 0 /\ KeyIsNext(s, P[D], n))
    BY <1>2, <1>3, <1>4, <1>5, AtKeyIs
  <1>7. IsScalar(u, n + 1)
    BY <1>2, <1>3 DEF IsScalar
  <1>8. ASSUME NEW z
        PROVE  /\ D = 0 => OneValue(u) /\ ~RepeatsKey(u)
               /\ D # 0 /\ Lifted(w, z, D) => Scan(u, n + 1, z, D, P)
    BY <1>3, <1>4, <1>6, <1>7, AfterScalar
  <1>9. Ended(u, n, w, D)
    BY <1>3, <1>5, <1>8 DEF Ended
  <1> QED BY <1>2, <1>3, <1>5, <1>9, EndedRight

\* a delimiter that opens,
LEMMA OpenTaken ==
  ASSUME JsonInv, NEW t \in Tokens, ScanOpen(t)
  PROVE  JsonInv'
  <1>1. PICK s, w, u, n, D : Taking(t, s, w, u, n, D)
    BY DEF Taking
  <1>2. /\ input.kind = "json" /\ report.verdict = "scanning" /\ ~AtKey
        /\ t \in {"{", "["}
        /\ Scanned(t, "scanning", Append(report.stack, IF t = "{" THEN InObject ELSE InArray))
    BY DEF ScanOpen, Scanning
  <1>3. /\ JsonText(input) /\ u \in Seq(Tokens) /\ TextAdded(s, u, n) /\ u[n + 1] = t
        /\ Len(u) = n + 1 /\ IsStack(w) /\ D \in Nat /\ (w = <<>> <=> D = 0)
        /\ \E P : Scan(s, n, w, D, P)
    <2>1. input.kind = "json" /\ report.verdict = "scanning"
      BY <1>2
    <2> QED BY <1>1, <2>1, TokenTaken
  <1>4. PICK P : Scan(s, n, w, D, P)
    BY <1>3
  <1>5. /\ s = input.tokens /\ w = report.stack /\ u = Append(s, t) /\ n = Len(s) /\ D = Len(w)
    BY <1>1 DEF Taking
  <1>6. ~(D # 0 /\ KeyIsNext(s, P[D], n))
    BY <1>2, <1>3, <1>4, <1>5, AtKeyIs
  <1>7. Opens(u, n + 1)
    BY <1>2, <1>3 DEF Opens
  <1>8. PICK x : Fresh(u, n + 1, x)
    BY DEF Fresh
  <1>9. PICK z : z = Append(w, x)
    OBVIOUS
  <1>10. Scanned(t, "scanning", z)
    BY <1>2, <1>3, <1>5, <1>8, <1>9 DEF Fresh
  <1>11. IsStack(z) /\ Len(z) = D + 1 /\ Agree(w, z, D) /\ z[D + 1] = x
    <2>1. IsStack(w) /\ D = Len(w)
      BY <1>3, <1>5
    <2>2. Pushed(w, D, x, z)
      BY <1>9, <2>1, StackGrown
    <2> QED BY <2>2 DEF Pushed
  <1>12. Fresh(u, n + 1, z[D + 1])
    BY <1>8, <1>11
  <1>13. \E Q : Scan(u, n + 1, z, D + 1, Q)
    BY <1>3, <1>4, <1>6, <1>7, <1>11, <1>12, AfterOpen
  <1>14. Followed(u, z)
    BY <1>3, <1>11, <1>13 DEF Followed
  <1>15. Right(u, "scanning", z)
    BY <1>3, <1>11, <1>14 DEF Right
  <1> QED BY <1>3, <1>5, <1>10, <1>15, ScannedRight

\* one that closes,
LEMMA CloseTaken ==
  ASSUME JsonInv, NEW t \in Tokens, ScanClose(t)
  PROVE  JsonInv'
  <1>1. PICK s, w, u, n, D : Taking(t, s, w, u, n, D)
    BY DEF Taking
  <1>2. /\ input.kind = "json" /\ report.verdict = "scanning" /\ Nested
        /\ t = Top.close /\ (t = "}" => Top.atKey) /\ ValueEnds(t, Outer)
    BY DEF ScanClose, Scanning
  <1>3. /\ JsonText(input) /\ u \in Seq(Tokens) /\ TextAdded(s, u, n) /\ u[n + 1] = t
        /\ Len(u) = n + 1 /\ IsStack(w) /\ D \in Nat /\ (w = <<>> <=> D = 0)
        /\ \E P : Scan(s, n, w, D, P)
    <2>1. input.kind = "json" /\ report.verdict = "scanning"
      BY <1>2
    <2> QED BY <1>1, <2>1, TokenTaken
  <1>4. PICK P : Scan(s, n, w, D, P)
    BY <1>3
  <1>5. /\ s = input.tokens /\ w = report.stack /\ u = Append(s, t) /\ n = Len(s) /\ D = Len(w)
    BY <1>1 DEF Taking
  <1>6. D # 0 /\ Top = w[D]
    <2>1. Nested
      BY <1>2
    <2>2. w = report.stack /\ D = Len(w) /\ (w = <<>> <=> D = 0)
      BY <1>3, <1>5
    <2>3. (Nested <=> D # 0) /\ (D # 0 => Top = w[D])
      BY <1>4, <2>2, AtKeyIs
    <2> QED BY <2>1, <2>3
  <1>7. CloseFits(u, n + 1, w[D])
    BY <1>2, <1>3, <1>6 DEF CloseFits
  <1>8. PICK o, E : o = SubSeq(w, 1, D - 1) /\ E = D - 1
    OBVIOUS
  <1>9. IsStack(o) /\ Len(o) = E /\ Agree(w, o, D - 1)
    BY <1>3, <1>5, <1>6, <1>8, StackCut
  <1>10. ValueEnds(t, o)
    BY <1>2, <1>5, <1>8 DEF Outer
  <1>11. ASSUME NEW z
         PROVE  /\ E = 0 => OneValue(u) /\ ~RepeatsKey(u)
                /\ E # 0 /\ Lifted(o, z, E) => Scan(u, n + 1, z, E, P)
    <2>1. /\ D - 1 = 0 => OneValue(u) /\ ~RepeatsKey(u)
          /\ D - 1 # 0 /\ Lifted(o, z, D - 1) => Scan(u, n + 1, z, D - 1, P)
      BY <1>3, <1>4, <1>6, <1>7, <1>9, AfterClose
    <2> QED BY <1>8, <2>1
  <1>12. Ended(u, n, o, E)
    BY <1>3, <1>9, <1>11 DEF Ended
  <1> QED BY <1>3, <1>5, <1>10, <1>12, EndedRight

\* a token that cannot stand here,
LEMMA ErrorTaken ==
  ASSUME JsonInv, NEW t \in Tokens, ScanSyntaxError(t)
  PROVE  JsonInv'
  <1>1. PICK s, w, u, n, D : Taking(t, s, w, u, n, D)
    BY DEF Taking
  <1>2. /\ input.kind = "json" /\ report.verdict = "scanning"
        /\ IF AtKey THEN t \notin Strings \cup {"}"}
           ELSE t = "}" \/ (t = "]" /\ ~(Nested /\ Top.close = "]"))
        /\ Scanned(t, "syntax", report.stack)
    BY DEF ScanSyntaxError, Scanning
  <1>3. /\ JsonText(input) /\ u \in Seq(Tokens) /\ TextAdded(s, u, n) /\ u[n + 1] = t
        /\ Len(u) = n + 1 /\ IsStack(w) /\ D \in Nat /\ (w = <<>> <=> D = 0)
        /\ \E P : Scan(s, n, w, D, P)
    <2>1. input.kind = "json" /\ report.verdict = "scanning"
      BY <1>2
    <2> QED BY <1>1, <2>1, TokenTaken
  <1>4. PICK P : Scan(s, n, w, D, P)
    BY <1>3
  <1>5. /\ s = input.tokens /\ w = report.stack /\ u = Append(s, t) /\ n = Len(s) /\ D = Len(w)
    BY <1>1 DEF Taking
  <1>6. (Nested <=> D # 0) /\ (D # 0 => Top = w[D])
    BY <1>3, <1>4, <1>5, AtKeyIs
  <1>7. Misplaced(u, n + 1, D # 0, w[D])
    BY <1>2, <1>3, <1>6 DEF Misplaced, AtKey
  <1>8. ~OneValue(u)
    BY <1>3, <1>4, <1>7, AfterMisplaced
  <1>9. Right(u, "syntax", w)
    BY <1>3, <1>8 DEF Right
  <1> QED BY <1>2, <1>3, <1>5, <1>9, ScannedRight

\* a token behind the value,
LEMMA TrailingTaken ==
  ASSUME JsonInv, NEW t \in Tokens, ScanTrailing(t)
  PROVE  JsonInv'
  <1>1. PICK s, w, u, n, D : Taking(t, s, w, u, n, D)
    BY DEF Taking
  <1>2. input.kind = "json" /\ report.verdict = "value" /\ Scanned(t, "trailing", <<>>)
    BY DEF ScanTrailing
  <1>3. JsonText(input) /\ u \in Seq(Tokens) /\ SubSeq(u, 1, Len(u) - 1) = s
    BY <1>1, <1>2, TokenTaken
  <1>4. s = input.tokens /\ u = Append(s, t)
    BY <1>1 DEF Taking
  <1>5. OneValue(s)
    BY <1>2, <1>4 DEF JsonInv, Right
  <1>6. IsStack(<<>>)
    BY DEF IsStack
  <1>7. Right(u, "trailing", <<>>)
    BY <1>3, <1>5, <1>6 DEF Right
  <1> QED BY <1>2, <1>3, <1>4, <1>7, ScannedRight

\* and the end of the text.
LEMMA EndTaken ==
  ASSUME JsonInv, ScanEnd
  PROVE  JsonInv'
  <1>1. PICK s, w, v : s = input.tokens /\ w = report.stack /\ v = report.verdict
    OBVIOUS
  <1>2. /\ input.kind = "json" /\ v \in {"scanning", "value"} /\ input' = input
        /\ report' = [verdict |-> IF v = "value" THEN "accepted" ELSE "syntax", stack |-> w]
    BY <1>1 DEF ScanEnd, Answer
  <1>3. JsonText(input) /\ Right(s, v, w)
    BY <1>1, <1>2 DEF JsonInv
  <1>4. s \in Seq(Tokens) /\ IsStack(w)
    BY <1>3 DEF Right
  <1>5. PICK e : e = IF v = "value" THEN "accepted" ELSE "syntax"
    OBVIOUS
  <1>6. report'.verdict = e /\ report'.stack = w
    BY <1>2, <1>5
  <1>7. Right(s, e, w)
    <2>1. CASE v = "value"
      <3>1. OneValue(s) /\ ~RepeatsKey(s)
        BY <1>3, <2>1 DEF Right
      <3> QED BY <1>4, <1>5, <2>1, <3>1 DEF Right
    <2>2. CASE v = "scanning"
      <3>1. Followed(s, w)
        BY <1>3, <2>2 DEF Right
      <3>2. ~OneValue(s)
        BY <3>1, AtTheEnd DEF Followed
      <3> QED BY <1>4, <1>5, <2>2, <3>2 DEF Right
    <2> QED BY <1>2, <2>1, <2>2
  <1>8. input'.tokens = s
    BY <1>1, <1>2
  <1> QED BY <1>2, <1>3, <1>6, <1>7, <1>8 DEF JsonInv, JsonText

\* The scan begins.
LEMMA JsonStart == ASSUME Init PROVE JsonInv
  <1>1. CASE JsonInit
    <2>1. input = [kind |-> "json", tokens |-> <<>>] /\ report = [verdict |-> "scanning", stack |-> <<>>]
      BY <1>1 DEF JsonInit
    <2>2. input.tokens = <<>> /\ report.verdict = "scanning" /\ report.stack = <<>> /\ JsonText(input)
      BY <2>1 DEF JsonText
    <2>3. Followed(<<>>, <<>>)
      <3>1. Len(<<>>) = 0
        OBVIOUS
      <3> QED BY <3>1, AtTheStart DEF Followed
    <2>4. <<>> \in Seq(Tokens) /\ IsStack(<<>>)
      BY DEF IsStack
    <2>5. Right(<<>>, "scanning", <<>>)
      BY <2>3, <2>4 DEF Right
    <2> QED BY <2>2, <2>5 DEF JsonInv
  <1>2. CASE ~JsonInit
    <2>1. input.kind # "json"
      BY <1>2, InitKinds DEF Init
    <2> QED BY <2>1 DEF JsonInv
  <1> QED BY <1>1, <1>2

\* Every step keeps the invariant.
LEMMA JsonStep == ASSUME KindInv, JsonInv, [Next]_calcVars PROVE JsonInv'
  <1>1. CASE input.kind # "json"
    BY <1>1, KindsApart DEF JsonInv
  <1>2. CASE UNCHANGED calcVars
    BY <1>2 DEF calcVars, JsonInv
  <1>3. CASE input.kind = "json" /\ Next
    <2>1. JsonNext
      BY <1>3, KindsApart DEF Next
    <2>2. CASE ScanEnd
      BY <2>2, EndTaken
    <2>3. CASE ~ScanEnd
      <3>1. PICK t \in Tokens : \/ ScanKey(t) \/ ScanScalar(t) \/ ScanOpen(t) \/ ScanClose(t)
                                \/ ScanSyntaxError(t) \/ ScanTrailing(t)
        BY <2>1, <2>3 DEF JsonNext
      <3> QED BY <3>1, KeyTaken, ScalarTaken, OpenTaken, CloseTaken, ErrorTaken, TrailingTaken
    <2> QED BY <2>2, <2>3
  <1> QED BY <1>1, <1>2, <1>3

\* rejectDuplicateObjectKeys lets a text through only if it is one JSON value and no
\* object in it, at any depth, repeats a key; a text is refused as a duplicate,
\* as trailing or for its syntax only if it is that (scanJSONValue of
\* jsoncheck.go).  For texts of every length and depth.
THEOREM KeysOfTextsAreUnique == Spec => []KeysAreUnique
  <1>1. Init => JsonInv
    BY JsonStart
  <1>2. KindInv /\ JsonInv /\ [Next]_calcVars => JsonInv'
    BY JsonStep
  <1>3. JsonInv => KeysAreUnique
    BY DEF JsonInv, Right, KeysAreUnique
  <1> QED BY <1>1, <1>2, <1>3, KindInvariant, PTL DEF Spec

=============================================================================
