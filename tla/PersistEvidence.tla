--------------------------- MODULE PersistEvidence ---------------------------
(***************************************************************************)
(* persistJSONNoOverwrite (labctl-go/internal/benchmark/persist.go): how a *)
(* capture or a profile report becomes a file.  Several labctl processes   *)
(* may be told the same output path, any of them may be killed between two *)
(* system calls, any system call may fail, and the machine may lose power. *)
(*                                                                         *)
(* The file system is external.  It is modelled by what the code relies    *)
(* on: link(2) fails on an existing name, fsync of a file or a directory   *)
(* makes it durable, and what was not synced reaches the disk late or      *)
(* never.  A directory reaches the disk as a whole.                        *)
(***************************************************************************)
EXTENDS Naturals

CONSTANTS
    Writers,      \* labctl processes with the same output path
    MaxFailures   \* bound on the power failures

ASSUME FailuresAssumption == MaxFailures \in Nat

VARIABLES
    folder,       \* the output directory: "old" (durable), "absent" or "new"
    dir,          \* its entries: whose temporary files, whose published file
    diskDir,      \* the entries that are on the disk
    data,         \* the content of each writer's file
    disk,         \* the content that is on the disk
    pc, ret,      \* where each writer is and what it returns
    failures      \* power failures so far

fsVars == <<folder, dir, diskDir, data, disk>>
vars   == <<folder, dir, diskDir, data, disk, pc, ret, failures>>

Entries  == [temp : SUBSET Writers, final : SUBSET Writers]
Contents == {"empty", "partial", "complete"}
NoEntry  == [temp |-> {}, final |-> {}]

TypeOK ==
    /\ folder \in {"old", "absent", "new"}
    /\ dir \in Entries /\ diskDir \in Entries
    /\ data \in [Writers -> Contents] /\ disk \in [Writers -> Contents]
    /\ pc \in [Writers -> {"idle", "check", "create", "write", "sync", "link", "remove",
                           "syncdir", "cleanup", "done", "dead"}]
    /\ ret \in [Writers -> {"none", "ok", "exists", "failed", "late"}]
    /\ failures \in 0 .. MaxFailures

Init ==
    /\ folder \in {"old", "absent"} /\ dir = NoEntry /\ diskDir = NoEntry
    /\ data = [w \in Writers |-> "empty"] /\ disk = [w \in Writers |-> "empty"]
    /\ pc = [w \in Writers |-> "idle"] /\ ret = [w \in Writers |-> "none"]
    /\ failures = 0

\* The output path names somebody's file.
Exists == dir.final # {}

Goto(w, label) == pc' = [pc EXCEPT ![w] = label] /\ UNCHANGED <<ret, failures>>

\* What the writer returns is decided, now or after its deferred clean-up.
\* "late" is an error that is reported although the file was published.
Decide(w, label, r) ==
    /\ pc' = [pc EXCEPT ![w] = label] /\ ret' = [ret EXCEPT ![w] = r]
    /\ UNCHANGED failures

-----------------------------------------------------------------------------
\* Encoding and MkdirAll.
PersistCall(w) ==
    /\ pc[w] = "idle"
    /\ \/ Decide(w, "done", "failed") /\ UNCHANGED folder
       \/ Goto(w, "check") /\ folder' = IF folder = "absent" THEN "new" ELSE folder
    /\ UNCHANGED <<dir, diskDir, data, disk>>

\* requireAbsent: an early look, not yet a reservation.
RequireAbsent(w) ==
    /\ pc[w] = "check"
    /\ \/ Exists /\ Decide(w, "done", "exists")
       \/ ~Exists /\ Goto(w, "create")
       \/ Decide(w, "done", "failed")
    /\ UNCHANGED fsVars

\* CreateTemp makes an empty file under a name of its own.
CreateTemp(w) ==
    /\ pc[w] = "create"
    /\ \/ Decide(w, "done", "failed") /\ UNCHANGED dir
       \/ Goto(w, "write") /\ dir' = [dir EXCEPT !.temp = @ \cup {w}]
    /\ UNCHANGED <<folder, diskDir, data, disk>>

\* Chmod and Write: the payload grows until it is complete, or one of them
\* fails.
WriteTemp(w) ==
    /\ pc[w] = "write"
    /\ \/ data[w] = "empty" /\ data' = [data EXCEPT ![w] = "partial"] /\ Goto(w, "write")
       \/ data[w] = "partial" /\ data' = [data EXCEPT ![w] = "complete"] /\ Goto(w, "sync")
       \/ Decide(w, "cleanup", "failed") /\ UNCHANGED data
    /\ UNCHANGED <<folder, dir, diskDir, disk>>

\* Mutant: the file is closed without a sync.
SyncTempNot(w) == pc[w] = "sync" /\ Goto(w, "link") /\ UNCHANGED fsVars

\* Sync and Close.
SyncTemp(w) ==
    /\ pc[w] = "sync"
    /\ \/ disk' = [disk EXCEPT ![w] = data[w]] /\ Goto(w, "link")
       \/ Decide(w, "cleanup", "failed") /\ UNCHANGED disk
    /\ UNCHANGED <<folder, dir, diskDir, data>>

\* Mutant: rename, which replaces what is there.
LinkReplaces(w) ==
    /\ pc[w] = "link"
    /\ dir' = [dir EXCEPT !.final = {w}] /\ Goto(w, "remove")
    /\ UNCHANGED <<folder, diskDir, data, disk>>

\* Link publishes the file, unless the path exists by now.
LinkFinal(w) ==
    /\ pc[w] = "link"
    /\ \/ ~Exists /\ dir' = [dir EXCEPT !.final = {w}] /\ Goto(w, "remove")
       \/ Exists /\ Decide(w, "cleanup", "exists") /\ UNCHANGED dir
       \/ Decide(w, "cleanup", "failed") /\ UNCHANGED dir
    /\ UNCHANGED <<folder, diskDir, data, disk>>

\* The temporary name goes; from here on an error no longer undoes anything.
RemoveTemp(w) ==
    /\ pc[w] = "remove"
    /\ \/ dir' = [dir EXCEPT !.temp = @ \ {w}] /\ Goto(w, "syncdir")
       \/ Decide(w, "done", "late") /\ UNCHANGED dir
    /\ UNCHANGED <<folder, diskDir, data, disk>>

\* Mutant: the directory is not synced.
SyncDirNot(w) == pc[w] = "syncdir" /\ Decide(w, "done", "ok") /\ UNCHANGED fsVars

\* The directory is opened and synced.
SyncDir(w) ==
    /\ pc[w] = "syncdir"
    /\ \/ diskDir' = dir /\ Decide(w, "done", "ok")
       \/ Decide(w, "done", "late") /\ UNCHANGED diskDir
    /\ UNCHANGED <<folder, dir, data, disk>>

\* The deferred removal of an unpublished file; its own failure is ignored.
Cleanup(w) ==
    /\ pc[w] = "cleanup"
    /\ dir' \in {dir, [dir EXCEPT !.temp = @ \ {w}]}
    /\ Goto(w, "done")
    /\ UNCHANGED <<folder, diskDir, data, disk>>

-----------------------------------------------------------------------------
(* The environment.                                                        *)

Running(w) == pc[w] \notin {"idle", "done"}

\* A writer is killed.
Killed(w) ==
    /\ Running(w) /\ pc[w] # "dead"
    /\ Goto(w, "dead")
    /\ UNCHANGED fsVars

\* The kernel writes back what nobody synced.
WriteBack(w) ==
    /\ disk' = [disk EXCEPT ![w] = data[w]]
    /\ UNCHANGED <<folder, dir, diskDir, data, pc, ret, failures>>

WriteBackDir ==
    /\ diskDir' = dir
    /\ UNCHANGED <<folder, dir, data, disk, pc, ret, failures>>

\* The machine loses power: what is not on the disk is gone, possibly with
\* the whole directory if it was new.
PowerFails ==
    /\ failures < MaxFailures /\ failures' = failures + 1
    /\ pc' = [w \in Writers |-> IF Running(w) THEN "dead" ELSE pc[w]]
    /\ data' = disk
    /\ \/ dir' = diskDir /\ UNCHANGED <<folder, diskDir>>
       \/ /\ folder = "new" /\ folder' = "absent"
          /\ dir' = NoEntry /\ diskDir' = NoEntry
    /\ UNCHANGED <<disk, ret>>

-----------------------------------------------------------------------------
Step(w) ==
    \/ PersistCall(w) \/ RequireAbsent(w) \/ CreateTemp(w) \/ WriteTemp(w)
    \/ SyncTemp(w) \/ LinkFinal(w) \/ RemoveTemp(w) \/ SyncDir(w) \/ Cleanup(w)
    \/ Killed(w) \/ WriteBack(w)

Next == (\E w \in Writers : Step(w)) \/ WriteBackDir \/ PowerFails

Spec == Init /\ [][Next]_vars

-----------------------------------------------------------------------------
(* Properties.                                                             *)

\* All or nothing: whatever the output path names is one complete file, also
\* when a writer was killed half-way, two writers raced past requireAbsent,
\* or the machine came back from a power failure.
EvidenceComplete ==
    /\ \A w \in dir.final : data[w] = "complete"
    /\ \A v, w \in dir.final : v = w

\* "Existing evidence is never silently replaced": once the path names a
\* file it names that file until the power fails.
NeverReplaced ==
    [][failures' = failures /\ Exists => dir'.final = dir.final]_vars

\* Success is durable: when persistJSONNoOverwrite has returned nil and the
\* directory is an old one, the writer's own file is at the path for good and
\* its temporary name is gone, whatever happens afterwards.  It follows that
\* of several writers at most one succeeds.
OkMeansDurable ==
    \A w \in Writers :
        ret[w] = "ok" /\ folder = "old" =>
            /\ w \in dir.final /\ w \in diskDir.final
            /\ data[w] = "complete" /\ disk[w] = "complete"
            /\ w \notin dir.temp /\ w \notin diskDir.temp
=============================================================================
