------------------------------- MODULE Doctor -------------------------------
(***************************************************************************)
(* labctl doctor (labctl-go/internal/doctor): Check probes one tool after  *)
(* the other under a context that a signal may cancel at any time, and     *)
(* tells whether the host is ready; then the host is described, on Linux   *)
(* from the lines of /proc/cpuinfo, elsewhere by commands.                 *)
(***************************************************************************)
EXTENDS Calculation, Integers, Sequences, FiniteSets

CONSTANTS
    Versions,     \* the components of the versions that tools print
    MaxLines      \* bound on the lines of /proc/cpuinfo

ASSUME DoctorAssumption == Versions \subseteq 0 .. 9 /\ MaxLines \in Nat

\* The tools, one of each kind in the table: with a minimum, with a text that
\* its version must contain, with neither, and one that is only planned.
tools == << [required |-> TRUE,  minimum |-> <<1, 1, 0>>, family |-> FALSE],
            [required |-> TRUE,  minimum |-> <<>>,        family |-> TRUE],
            [required |-> TRUE,  minimum |-> <<>>,        family |-> FALSE],
            [required |-> FALSE, minimum |-> <<>>,        family |-> FALSE] >>

\* A line of a version output: its numeric version (<<>> without one; the
\* third component is optional), and whether the family's name is in it.
\* A component too long for an int, which is refused, is left out.
Numbers == {<<>>} \cup {<<a, b>> : a, b \in Versions} \cup
           {<<a, b, c>> : a, b, c \in Versions}
Line(version, family) == [blank |-> FALSE, version |-> version, family |-> family]
Blank == [blank |-> TRUE, version |-> <<>>, family |-> FALSE]

\* Outputs of each tool; the second line matters if the first has no number.
Outputs(tool) ==
    {<<Blank>>, <<Blank, Line(<<>>, TRUE)>>} \cup
    IF tool.minimum # <<>>
      THEN {<<Line(v, FALSE)>> : v \in Numbers} \cup
           {<<Line(<<>>, FALSE), Line(v, FALSE)>> : v \in Numbers}
    ELSE IF tool.family
      THEN {<<Line(v, f), Line(w, g)>> : v, w \in {<<>>, <<1, 0>>}, f, g \in BOOLEAN}
    ELSE {<<Line(<<>>, FALSE)>>}

\* How a probe ends; only a success has an output to look at.
Probes(tool) ==
    [end : {"missing", "failed", "timeout", "canceled"}, output : {<<>>}] \cup
    [end : {"ok"}, output : Outputs(tool)]

DoctorInit ==
    /\ input = [kind |-> "doctor", probes |-> <<>>, uncancelled |-> Len(tools)]
    /\ report = [verdict |-> "probing", results |-> <<>>, ready |-> TRUE]

-----------------------------------------------------------------------------
(* Check.                                                                  *)

\* The first line with a number, else the first that is not blank.
versionLine(output) ==
    LET First(S) == CHOOSE i \in S : \A j \in S : i <= j
        numbered == {i \in DOMAIN output : output[i].version # <<>>}
        written == {i \in DOMAIN output : ~output[i].blank}
    IN  IF numbered # {} THEN output[First(numbered)]
        ELSE IF written # {} THEN output[First(written)] ELSE Blank

\* A missing third component is 0.
parseNumericVersion(version) == [i \in 1 .. 3 |-> IF i <= Len(version) THEN version[i] ELSE 0]

\* Mutant: each component must reach its own minimum.
lessThanAnywhere(version, other) == \E i \in 1 .. 3 : version[i] < other[i]

lessThan(version, other) ==
    IF version[1] # other[1] THEN version[1] < other[1]
    ELSE IF version[2] # other[2] THEN version[2] < other[2]
    ELSE version[3] < other[3]

assess(tool, result) ==
    LET line == result.version
        usable == /\ result.found /\ result.problem = "none"
                  /\ ~line.blank
                  /\ tool.family => line.family
                  /\ tool.minimum # <<>> =>
                       /\ line.version # <<>>
                       /\ ~lessThan(parseNumericVersion(line.version),
                                    parseNumericVersion(tool.minimum))
    IN  [result EXCEPT !.usable = usable,
                       !.problem = IF ~usable /\ @ = "none" THEN "unfit" ELSE @]

commandProbe(tool, probe) ==
    assess(tool,
        [found |-> probe.end # "missing", usable |-> FALSE,
         version |-> IF probe.end = "ok" THEN versionLine(probe.output) ELSE Blank,
         problem |-> IF probe.end = "ok" THEN "none" ELSE probe.end])

\* One round of the loop.  A command that is started under a cancelled context
\* fails; one that runs when the context ends is killed unless it is done.
Check(probe) ==
    /\ input.kind = "doctor" /\ report.verdict = "probing"
    /\ LET n == Len(report.results) + 1
           tool == tools[n]
           result == assess(tool, commandProbe(tool, probe))
       IN  /\ n > input.uncancelled => probe.end \in {"missing", "canceled"}
           /\ input' = [input EXCEPT !.probes = Append(@, probe),
                 !.uncancelled = IF probe.end = "canceled" /\ n < @ THEN n ELSE @]
           /\ report' = [verdict |-> IF n = Len(tools) THEN "checked" ELSE "probing",
                         results |-> Append(report.results, result),
                         ready |-> report.ready /\ (tool.required => result.usable)]

\* The signal, between two probes or as one ends by itself: no later one is
\* started (uncancelled is the number of those that were).
CancelDoctor ==
    /\ input.kind = "doctor" /\ report.verdict = "probing"
    /\ input.uncancelled = Len(tools)
    /\ input' = [input EXCEPT !.uncancelled = Len(report.results)] /\ UNCHANGED report

-----------------------------------------------------------------------------
(* The host.                                                               *)

CpuKeys == {"physical id", "core id", "model name", "Hardware"}
CpuValues(key) == IF key \in {"physical id", "core id"} THEN {"", "0", "1"} ELSE {"", "x"}
CpuLines == {[key |-> k, value |-> ""] : k \in {"blank", "other"}} \cup
            UNION {[key : {k}, value : CpuValues(k)] : k \in CpuKeys}

HostInit ==
    /\ input = [kind |-> "host", lines |-> <<>>]
    /\ report = [verdict |-> "reading", cores |-> {}, physicalID |-> "", coreID |-> "",
                 named |-> FALSE, model |-> "", fallback |-> ""]

\* Mutant: the ids of a block stay for the next one.
commitKeeps(r) ==
    [r EXCEPT !.cores = IF r.physicalID # "" /\ r.coreID # ""
                          THEN @ \cup {<<r.physicalID, r.coreID>>} ELSE @]

\* commit of linuxPhysicalCoreCount.
commit(r) ==
    [r EXCEPT !.cores = IF r.physicalID # "" /\ r.coreID # ""
                          THEN @ \cup {<<r.physicalID, r.coreID>>} ELSE @,
              !.physicalID = "", !.coreID = ""]

ReadingHost == input.kind = "host" /\ report.verdict = "reading"

\* One line of /proc/cpuinfo, for linuxPhysicalCoreCount and linuxCPUModel,
\* which stops at the first model name.
ScanCpuLine(line) ==
    /\ ReadingHost /\ Len(input.lines) < MaxLines
    /\ input' = [input EXCEPT !.lines = Append(@, line)]
    /\ LET Set(field) == [report EXCEPT ![field] = line.value]
       IN  report' =
             CASE line.key = "blank"       -> commit(report)
               [] line.key = "physical id" -> Set("physicalID")
               [] line.key = "core id"     -> Set("coreID")
               [] line.key = "model name" /\ ~report.named ->
                    [Set("model") EXCEPT !.named = TRUE]
               [] line.key = "Hardware" /\ report.fallback = "" -> Set("fallback")
               [] OTHER -> report

\* The end of the file: capturePhysicalCores and captureCPUModel.
DescribeLinux ==
    /\ ReadingHost
    /\ LET r == commit(report)
           model == IF r.named THEN r.model ELSE r.fallback
       IN  Answer([verdict |-> "described", cores |-> Cardinality(r.cores),
                   model |-> IF model = "" THEN "unknown" ELSE model])

DoctorNext ==
    \/ /\ input.kind = "doctor" /\ report.verdict = "probing"
       /\ \E probe \in Probes(tools[Len(report.results) + 1]) : Check(probe)
    \/ CancelDoctor
    \/ \E line \in CpuLines : ScanCpuLine(line)
    \/ DescribeLinux

-----------------------------------------------------------------------------
(* Properties.                                                             *)

Weight(v) == 100 * v[1] + 10 * v[2] + (IF Len(v) = 3 THEN v[3] ELSE 0)

\* The tool was run to its end, and the first numbered line of its output (the
\* first line at all, if it prints no number) shows what is asked of it.
Fit(tool, probe) ==
    LET Shown(i) ==
          /\ ~probe.output[i].blank
          /\ \A j \in 1 .. i - 1 : probe.output[j].version = <<>>
          /\ \/ probe.output[i].version # <<>>
             \/ /\ \A j \in DOMAIN probe.output : probe.output[j].version = <<>>
                /\ \A j \in 1 .. i - 1 : probe.output[j].blank
    IN  /\ probe.end = "ok"
        /\ \E i \in DOMAIN probe.output :
             /\ Shown(i)
             /\ tool.family => probe.output[i].family
             /\ tool.minimum # <<>> =>
                  /\ probe.output[i].version # <<>>
                  /\ Weight(probe.output[i].version) >= Weight(tool.minimum)

\* The host is ready exactly if every required tool is fit.
ReadyIsEarned ==
    input.kind = "doctor" =>
        /\ \A i \in DOMAIN report.results :
             /\ report.results[i].usable <=> Fit(tools[i], input.probes[i])
             /\ report.results[i].usable <=> report.results[i].problem = "none"
        /\ report.verdict = "checked" =>
             /\ report.ready <=> \A i \in DOMAIN tools :
                                   tools[i].required => Fit(tools[i], input.probes[i])
             /\ (\E i \in DOMAIN tools : tools[i].required /\ i > input.uncancelled)
                  => ~report.ready

\* The ids in force at line n: the last ones since the last blank line.
LastOf(key, n) ==
    LET s == input.lines
        here == {i \in 1 .. n : s[i].key = key /\ \A j \in i .. n : s[j].key # "blank"}
    IN  IF here = {} THEN ""
        ELSE s[CHOOSE i \in here : \A j \in here : j <= i].value
BlockEnds == {n \in 1 .. Len(input.lines) :
                n = Len(input.lines) \/ input.lines[n + 1].key = "blank"}
FirstValue(S) == input.lines[CHOOSE i \in S : \A j \in S : i <= j].value

\* The physical cores are the distinct pairs of ids of the blocks with both.
CoresAreCounted ==
    input.kind = "host" /\ report.verdict = "described" =>
        LET pairs == {<<LastOf("physical id", n), LastOf("core id", n)>> : n \in BlockEnds}
            named == {i \in DOMAIN input.lines : input.lines[i].key = "model name"}
            others == {i \in DOMAIN input.lines :
                         input.lines[i].key = "Hardware" /\ input.lines[i].value # ""}
            model == IF named # {} THEN FirstValue(named)
                     ELSE IF others # {} THEN FirstValue(others) ELSE ""
        IN  /\ report.cores = Cardinality({p \in pairs : p[1] # "" /\ p[2] # ""})
            /\ report.model = IF model = "" THEN "unknown" ELSE model

\* What doctor reports is so.  The host is ready exactly if every required tool
\* is fit: planned tools do not count, a tool that is not fit has a problem to
\* show, versions compare as numbers, and a check that is interrupted before
\* its last required probe is never ready (Check, commandProbe, assess,
\* lessThan).  The cores are those of all blocks, the last one too, which no
\* blank line need close, and the model is the first model name, without one
\* the first other name (linuxPhysicalCoreCount, linuxCPUModel).
DoctorIsRight == ReadyIsEarned /\ CoresAreCounted
=============================================================================
