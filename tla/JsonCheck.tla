----------------------------- MODULE JsonCheck -----------------------------
(***************************************************************************)
(* rejectDuplicateObjectKeys of labctl-go/internal/jsoncheck/jsoncheck.go, *)
(* through which every response, suite, workload and capture goes before   *)
(* it is decoded.  It reads the text token by token; the recursion of      *)
(* scanJSONValue is a stack here.  The decoder of encoding/json checks the *)
(* syntax; which keys an object has is the scanner's own business.         *)
(***************************************************************************)
EXTENDS Calculation, Naturals, Sequences, FiniteSets

CONSTANTS
    Strings,      \* string tokens: keys and values
    MaxTokens     \* bound on the length of a text

\* decoder.Token returns delimiters, numbers and strings as different types.
ASSUME JsonAssumption == Strings \cap {"{", "}", "[", "]", "number"} = {}

Tokens == Strings \cup {"{", "}", "[", "]", "number"}

JsonInit ==
    /\ input = [kind |-> "json", tokens |-> <<>>]
    /\ report = [verdict |-> "scanning", stack |-> <<>>]

\* What scanJSONValue keeps while it is inside an object or an array.
InObject == [close |-> "}", keys |-> {}, atKey |-> TRUE]
InArray  == [close |-> "]", keys |-> {}, atKey |-> FALSE]

Scanning == input.kind = "json" /\ report.verdict = "scanning"
Nested == report.stack # <<>>
Top == report.stack[Len(report.stack)]
AtKey == Nested /\ Top.atKey
Outer == SubSeq(report.stack, 1, Len(report.stack) - 1)

Scanned(t, verdict, stack) ==
    /\ Len(input.tokens) < MaxTokens
    /\ input' = [input EXCEPT !.tokens = Append(@, t)]
    /\ report' = [verdict |-> verdict, stack |-> stack]

\* A value is complete: it is the text, or the object around it goes on with
\* its next key.
ValueEnds(t, stack) ==
    IF stack = <<>> THEN Scanned(t, "value", stack)
    ELSE Scanned(t, "scanning",
                 [stack EXCEPT ![Len(stack)].atKey = stack[Len(stack)].close = "}"])

ScanKey(t) ==
    /\ Scanning /\ AtKey /\ t \in Strings
    /\ IF t \in Top.keys
         THEN Scanned(t, "duplicate", report.stack)
         ELSE Scanned(t, "scanning",
                Append(Outer, [Top EXCEPT !.keys = @ \cup {t}, !.atKey = FALSE]))

ScanScalar(t) ==
    /\ Scanning /\ ~AtKey /\ t \in Strings \cup {"number"}
    /\ ValueEnds(t, report.stack)

\* Mutant: one map of keys serves nested objects too.
ScanOpenSharesKeys(t) ==
    /\ Scanning /\ ~AtKey /\ t \in {"{", "["}
    /\ LET keys == IF Nested THEN Top.keys ELSE {}
       IN  Scanned(t, "scanning", Append(report.stack,
                [IF t = "{" THEN InObject ELSE InArray EXCEPT !.keys = keys]))

ScanOpen(t) ==
    /\ Scanning /\ ~AtKey /\ t \in {"{", "["}
    /\ Scanned(t, "scanning", Append(report.stack, IF t = "{" THEN InObject ELSE InArray))

\* More is false at a closing delimiter, and the next token is that one.
ScanClose(t) ==
    /\ Scanning /\ Nested /\ t = Top.close /\ (t = "}" => Top.atKey)
    /\ ValueEnds(t, Outer)

\* decoder.Token reports every token that cannot stand here.
ScanSyntaxError(t) ==
    /\ Scanning
    /\ IF AtKey THEN t \notin Strings \cup {"}"}
       ELSE t = "}" \/ (t = "]" /\ ~(Nested /\ Top.close = "]"))
    /\ Scanned(t, "syntax", report.stack)

ScanTrailing(t) ==
    /\ input.kind = "json" /\ report.verdict = "value"
    /\ Scanned(t, "trailing", <<>>)

\* The end of the text: behind a value it is what it should be.
ScanEnd ==
    /\ input.kind = "json" /\ report.verdict \in {"scanning", "value"}
    /\ Answer([verdict |-> IF report.verdict = "value" THEN "accepted" ELSE "syntax",
               stack |-> report.stack])

JsonNext ==
    \/ \E t \in Tokens : \/ ScanKey(t) \/ ScanScalar(t) \/ ScanOpen(t) \/ ScanClose(t)
                         \/ ScanSyntaxError(t) \/ ScanTrailing(t)
    \/ ScanEnd

-----------------------------------------------------------------------------
(* Properties, over the text as a whole.                                   *)

Opens(s, i) == s[i] \in {"{", "["}
Closes(s, i) == s[i] \in {"}", "]"}
Balance(s, i, j) ==
    Cardinality({k \in i .. j : Opens(s, k)}) - Cardinality({k \in i .. j : Closes(s, k)})

\* The delimiter that is open around position i; 0 outside of all.
Parent(s, i) ==
    LET around == {j \in 1 .. i - 1 : Opens(s, j) /\ \A k \in j .. i - 1 : Balance(s, j, k) >= 1}
    IN  IF around = {} THEN 0 ELSE CHOOSE j \in around : \A k \in around : k <= j

Before(s, i) == {k \in 1 .. i - 1 : ~Closes(s, k) /\ Parent(s, k) = Parent(s, i)}
InsideObject(s, i) == Parent(s, i) > 0 /\ s[Parent(s, i)] = "{"
Even(S) == Cardinality(S) % 2 = 0
IsKey(s, i) == InsideObject(s, i) /\ ~Closes(s, i) /\ Even(Before(s, i))

RepeatsKey(s) ==
    \E i, j \in DOMAIN s : /\ i < j /\ s[i] = s[j] /\ Parent(s, i) = Parent(s, j)
                           /\ IsKey(s, i) /\ IsKey(s, j)

OneValue(s) ==
    /\ {i \in DOMAIN s : Parent(s, i) = 0 /\ ~Closes(s, i)} = {1}
    /\ Balance(s, 1, Len(s)) = 0
    /\ \A i \in DOMAIN s :
         /\ Closes(s, i) => /\ Parent(s, i) > 0
                            /\ s[i] = IF InsideObject(s, i) THEN "}" ELSE "]"
                            /\ InsideObject(s, i) => Even(Before(s, i))
         /\ IsKey(s, i) => s[i] \in Strings

\* Only one JSON value none of whose objects repeats a key gets through: the
\* same key in an enclosing or a neighbouring object is no duplicate, and
\* nothing may follow the value.  A text refused for a duplicate or for what
\* follows its value has just that wrong; of one refused for its syntax it is
\* only said that what was read is no value (rejectDuplicateObjectKeys).
KeysAreUnique ==
    LET s == input.tokens
    IN  input.kind = "json" =>
          /\ report.verdict = "accepted" => OneValue(s) /\ ~RepeatsKey(s)
          /\ report.verdict = "duplicate" => RepeatsKey(s)
          /\ report.verdict = "trailing" => OneValue(SubSeq(s, 1, Len(s) - 1))
          /\ report.verdict = "syntax" => ~OneValue(s)
=============================================================================
