---------------------------- MODULE CommandLine ----------------------------
(***************************************************************************)
(* The dispatch of labctl (Run of labctl-go/internal/app/app.go): the      *)
(* arguments of each command, what is run with them, what is written, and  *)
(* the exit code.  What benchmark, profile and run do in between is in     *)
(* modules CaptureSuite and RunCommand, doctor is in module Doctor; here   *)
(* it succeeds or fails.                                                   *)
(*                                                                         *)
(* The parsers are loops over the arguments, so a command line grows here  *)
(* as it is read, until a parser refuses it or it ends.                    *)
(***************************************************************************)
EXTENDS Calculation, Naturals, Sequences

CONSTANT MaxWords    \* bound on the arguments behind the command

SuiteFlags == {"--engine", "--suite", "--output", "--repository-root"}
ValueFlags == {"--engine", "--repository-root"}
Flags == SuiteFlags \cup {"--json", "--other"}
Values == {"", "-o", "a", "--suite"}
Words == Flags \cup Values

Plain  == {"none", "help", "version", "doctor", "run", "unknown"}
Suite  == {"benchmark", "profile"}
NoOptions == [f \in {} |-> ""]

CommandInit ==
    /\ \E c \in Plain \cup Suite \cup {"verify"} :
         input = [kind |-> "command", command |-> c, args |-> <<>>]
    /\ report = [verdict |-> "arguments", options |-> NoOptions, worked |-> FALSE,
                 ok |-> FALSE, wrote |-> FALSE, code |-> 0]

Reading(commands) ==
    input.kind = "command" /\ input.command \in commands /\ report.verdict = "arguments"

Read(words) ==
    /\ Len(input.args \o words) <= MaxWords
    /\ input' = [input EXCEPT !.args = @ \o words]

Given == DOMAIN report.options
Option(flag, value) ==
    report' = [report EXCEPT !.options =
                 [f \in Given \cup {flag} |-> IF f = flag THEN value ELSE @[f]]]

Exit(code) == report' = [report EXCEPT !.verdict = "exit", !.code = code]

\* usageError: the code is 1 if the message cannot be written.
usageError == \E code \in {1, 2} : Exit(code)

-----------------------------------------------------------------------------
(* Arguments.                                                              *)

\* The commands with a fixed form.
Fits(command, words) ==
    \/ command = "none" /\ words = <<>>
    \/ command \in {"help", "version"} /\ words = <<>>
    \/ command = "doctor" /\ words \in {<<>>, <<"--json">>}
    \/ /\ command = "run" /\ Len(words) = 3
       /\ words[1] = "--engine" /\ words[2] # "" /\ words[3] # ""

ReadPlain(words) ==
    /\ Reading(Plain) /\ input.args = <<>> /\ Read(words)
    /\ input.command = "none" => words = <<>>
    /\ IF Fits(input.command, words)
         THEN report' = [report EXCEPT !.verdict = "work"]
         ELSE usageError

\* Mutant: a flag that is given again wins.
ReadPairAgain(flag, value) ==
    /\ Reading(Suite) /\ Read(<<flag, value>>)
    /\ IF flag \in SuiteFlags /\ value # ""
         THEN Option(flag, value)
         ELSE usageError

\* parseBenchmarkOptions, parseProfileOptions: one flag and its value.
ReadPair(flag, value) ==
    /\ Reading(Suite) /\ Read(<<flag, value>>)
    /\ IF flag \notin Given /\ flag \in SuiteFlags /\ value # ""
         THEN Option(flag, value)
         ELSE usageError

\* An argument without its pair.
ReadOdd(word) == Reading(Suite) /\ Read(<<word>>) /\ usageError

\* parseVerifyOptions: --json, a flag with the argument behind it, the path.
ReadJson ==
    /\ Reading({"verify"}) /\ Read(<<"--json">>)
    /\ IF "--json" \in Given THEN usageError ELSE Option("--json", "yes")

ReadValueFlag(flag, value) ==
    /\ Reading({"verify"}) /\ Read(<<flag, value>>)
    /\ IF flag \in Given \/ value = "" \/ value \in Flags
         THEN usageError ELSE Option(flag, value)

ReadBareFlag(flag) == Reading({"verify"}) /\ Read(<<flag>>) /\ usageError

ReadPath(word) ==
    /\ Reading({"verify"}) /\ word \notin ValueFlags \cup {"--json"} /\ Read(<<word>>)
    /\ IF word \in Flags \cup {"-o"} \/ "path" \in Given THEN usageError
       ELSE IF word = "" THEN UNCHANGED report ELSE Option("path", word)

EndOfArguments ==
    /\ Reading(Suite \cup {"verify"}) /\ UNCHANGED input
    /\ LET required == IF input.command = "verify" THEN {"path"}
                       ELSE {"--engine", "--suite", "--output"}
       IN  IF required \subseteq Given
             THEN report' = [report EXCEPT !.verdict = "work"]
             ELSE usageError

-----------------------------------------------------------------------------
(* Work and output.                                                        *)

\* help and version have nothing to do; doctor reports also what is missing;
\* the others write only after a success, and an error is code 1.
Work ==
    /\ input.kind = "command" /\ report.verdict = "work" /\ UNCHANGED input
    /\ \E ok \in BOOLEAN :
         /\ input.command \in {"none", "help", "version"} => ok
         /\ LET next == [report EXCEPT !.worked = TRUE, !.ok = ok]
            IN  report' = IF ok \/ input.command = "doctor"
                            THEN [next EXCEPT !.verdict = "output"]
                            ELSE [next EXCEPT !.verdict = "exit", !.code = 1]

\* Mutant: a failed write is not noticed.
WriteOutputAnyhow ==
    /\ input.kind = "command" /\ report.verdict = "output" /\ UNCHANGED input
    /\ \E wrote \in BOOLEAN :
         report' = [report EXCEPT !.verdict = "exit", !.wrote = wrote,
                                  !.code = IF report.ok THEN 0 ELSE 1]

WriteOutput ==
    /\ input.kind = "command" /\ report.verdict = "output" /\ UNCHANGED input
    /\ \E wrote \in BOOLEAN :
         report' = [report EXCEPT !.verdict = "exit", !.wrote = wrote,
                                  !.code = IF wrote /\ report.ok THEN 0 ELSE 1]

CommandNext ==
    \/ /\ Reading(Plain)
       /\ \E n \in 0 .. 3 : \E words \in [1 .. n -> {"", "a", "--engine", "--json"}] :
            ReadPlain(words)
    \/ \E f \in Flags \cup {"a"}, w \in Values : ReadPair(f, w)
    \/ \E w \in Words : ReadOdd(w) \/ ReadPath(w)
    \/ ReadJson
    \/ \E f \in ValueFlags : ReadBareFlag(f) \/ \E w \in Values : ReadValueFlag(f, w)
    \/ EndOfArguments \/ Work \/ WriteOutput

-----------------------------------------------------------------------------
(* Properties, over the command line as a whole.                           *)

Occurrences(w) == {i \in DOMAIN input.args : input.args[i] = w}
Follows(i, w) == i > 1 /\ input.args[i - 1] = w

\* The argument line of benchmark and profile, in any order: each of the flags
\* at most once, the three required ones once, each with a value of its own.
SuiteLine ==
    LET Odd == {i \in DOMAIN input.args : i % 2 = 1}
    IN  /\ Len(input.args) % 2 = 0
        /\ \A i, j \in Odd : input.args[i] = input.args[j] => i = j
        /\ {input.args[i] : i \in Odd} \subseteq SuiteFlags
        /\ {"--engine", "--suite", "--output"} \subseteq {input.args[i] : i \in Odd}
        /\ \A i \in DOMAIN input.args \ Odd : input.args[i] # ""

\* The argument line of verify, in any order: --json at most once, the two
\* flags at most once with a value that is no flag, and one path.  Empty
\* arguments in front of the path are ignored.
VerifyPlaces == {i \in DOMAIN input.args :
    input.args[i] \notin Flags /\ \A f \in ValueFlags : ~Follows(i, f)}
VerifyLine ==
    /\ \A f \in Flags : \A i, j \in Occurrences(f) : i = j
    /\ Occurrences("--suite") \cup Occurrences("--output") \cup Occurrences("--other") = {}
    /\ \A f \in ValueFlags : \A i \in Occurrences(f) :
         i < Len(input.args) /\ input.args[i + 1] \notin Flags \cup {""}
    /\ \E i \in VerifyPlaces :
         /\ input.args[i] = "a"
         /\ \A j \in VerifyPlaces \ {i} : j < i /\ input.args[j] = ""

\* Of every command: a usage error (code 2) comes before any work, and the code
\* is 0 exactly if the work succeeded and its output was written.  Of benchmark,
\* profile and verify: the command runs exactly if its line is well formed, with
\* the value that stands behind each flag, whatever the order (Run,
\* parseVerifyOptions, parseProfileOptions, parseBenchmarkOptions, usageError,
\* commandError, write).
ExitCodesTellTheTruth ==
    input.kind = "command" /\ report.verdict = "exit" =>
        /\ report.code = 0 <=> report.worked /\ report.ok /\ report.wrote
        /\ report.code = 2 => ~report.worked
        /\ input.command \in Suite =>
             /\ report.worked <=> SuiteLine
             /\ report.worked => \A f \in DOMAIN report.options :
                  \E i \in Occurrences(f) :
                    i % 2 = 1 /\ input.args[i + 1] = report.options[f]
        /\ input.command = "verify" =>
             /\ report.worked <=> VerifyLine
             /\ report.worked =>
                  /\ \A f \in DOMAIN report.options \cap ValueFlags :
                       \E i \in Occurrences(f) : input.args[i + 1] = report.options[f]
                  /\ \E i \in VerifyPlaces : input.args[i] = report.options["path"]
=============================================================================
