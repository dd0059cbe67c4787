------------------------ MODULE PersistEvidenceProofs ------------------------
(***************************************************************************)
(* Proofs about PersistEvidence, for any number of writers and of power    *)
(* failures.                                                               *)
(*                                                                         *)
(* EvidenceComplete is not inductive: a power failure replaces what is     *)
(* cached by what is on the disk, so the invariant has to say as much of   *)
(* the disk, and it has to say that a file was synced before it is linked. *)
(***************************************************************************)
EXTENDS PersistEvidence, TLAPS

\* Both copies of the writer's file are complete.
Safe(w) == data[w] = "complete" /\ disk[w] = "complete"

\* A file is complete before it is synced, and synced before it gets its
\* final name; published names are never taken back, so the disk knows none
\* that the cache does not know.
PublishInv ==
    /\ \A w \in Writers : pc[w] = "sync" => data[w] = "complete"
    /\ \A w \in Writers : pc[w] \in {"link", "remove", "syncdir"} => Safe(w)
    /\ \A w \in dir.final : Safe(w)
    /\ \A v, w \in dir.final : v = w
    /\ diskDir.final \subseteq dir.final

\* Where a writer's two names are while it finishes.  After a nil return both
\* copies of the directory agree on them.
NamesInv ==
    \A w \in Writers :
        /\ pc[w] \in {"idle", "check", "create"} =>
              w \notin dir.temp /\ w \notin diskDir.temp
        /\ pc[w] \in {"remove", "syncdir"} => w \in dir.final
        /\ pc[w] = "syncdir" => w \notin dir.temp
        /\ ret[w] # "none" => pc[w] \in {"cleanup", "done", "dead"}
        /\ ret[w] = "ok" => pc[w] = "done"
        /\ ret[w] = "ok" /\ folder = "old" =>
              /\ w \in diskDir.final /\ Safe(w)
              /\ w \notin dir.temp /\ w \notin diskDir.temp

PersistInv == TypeOK /\ PublishInv /\ NamesInv

-----------------------------------------------------------------------------
\* Every step preserves the types.
LEMMA TypeStep ==
  ASSUME TypeOK, [Next]_vars
  PROVE  TypeOK'
  <1> USE DEF TypeOK, Entries, Contents, NoEntry, Goto, Decide, fsVars
  <1>1. ASSUME NEW w \in Writers, PersistCall(w) PROVE TypeOK'
    BY <1>1 DEF PersistCall
  <1>2. ASSUME NEW w \in Writers, RequireAbsent(w) PROVE TypeOK'
    BY <1>2 DEF RequireAbsent
  <1>3. ASSUME NEW w \in Writers, CreateTemp(w) PROVE TypeOK'
    BY <1>3 DEF CreateTemp
  <1>4. ASSUME NEW w \in Writers, WriteTemp(w) PROVE TypeOK'
    BY <1>4 DEF WriteTemp
  <1>5. ASSUME NEW w \in Writers, SyncTemp(w) PROVE TypeOK'
    BY <1>5 DEF SyncTemp
  <1>6. ASSUME NEW w \in Writers, LinkFinal(w) PROVE TypeOK'
    BY <1>6 DEF LinkFinal
  <1>7. ASSUME NEW w \in Writers, RemoveTemp(w) PROVE TypeOK'
    BY <1>7 DEF RemoveTemp
  <1>8. ASSUME NEW w \in Writers, SyncDir(w) PROVE TypeOK'
    BY <1>8 DEF SyncDir
  <1>9. ASSUME NEW w \in Writers, Cleanup(w) PROVE TypeOK'
    BY <1>9 DEF Cleanup
  <1>10. ASSUME NEW w \in Writers, Killed(w) PROVE TypeOK'
    BY <1>10 DEF Killed
  <1>11. ASSUME NEW w \in Writers, WriteBack(w) PROVE TypeOK'
    BY <1>11 DEF WriteBack
  <1>12. CASE WriteBackDir
    BY <1>12 DEF WriteBackDir
  <1>13. CASE PowerFails
    BY <1>13, FailuresAssumption DEF PowerFails
  <1>14. CASE UNCHANGED vars
    BY <1>14 DEF vars
  <1> HIDE DEF TypeOK
  <1> QED BY <1>1, <1>2, <1>3, <1>4, <1>5, <1>6, <1>7, <1>8, <1>9, <1>10,
             <1>11, <1>12, <1>13, <1>14 DEF Next, Step

\* Every step preserves PublishInv: only SyncTemp leads to the link, and only
\* the link publishes.
LEMMA PublishStep ==
  ASSUME TypeOK, PublishInv, NamesInv, [Next]_vars
  PROVE  PublishInv'
  <1> USE DEF TypeOK, Entries, PublishInv, NamesInv, Safe, Exists, NoEntry, Goto,
             Decide, fsVars
  <1>1. ASSUME NEW w \in Writers, PersistCall(w) PROVE PublishInv'
    BY <1>1 DEF PersistCall
  <1>2. ASSUME NEW w \in Writers, RequireAbsent(w) PROVE PublishInv'
    BY <1>2 DEF RequireAbsent
  <1>3. ASSUME NEW w \in Writers, CreateTemp(w) PROVE PublishInv'
    BY <1>3 DEF CreateTemp
  <1>4. ASSUME NEW w \in Writers, WriteTemp(w) PROVE PublishInv'
    BY <1>4 DEF WriteTemp
  <1>5. ASSUME NEW w \in Writers, SyncTemp(w) PROVE PublishInv'
    BY <1>5 DEF SyncTemp
  <1>6. ASSUME NEW w \in Writers, LinkFinal(w) PROVE PublishInv'
    BY <1>6 DEF LinkFinal
  <1>7. ASSUME NEW w \in Writers, RemoveTemp(w) PROVE PublishInv'
    BY <1>7 DEF RemoveTemp
  <1>8. ASSUME NEW w \in Writers, SyncDir(w) PROVE PublishInv'
    BY <1>8 DEF SyncDir
  <1>9. ASSUME NEW w \in Writers, Cleanup(w) PROVE PublishInv'
    BY <1>9 DEF Cleanup
  <1>10. ASSUME NEW w \in Writers, Killed(w) PROVE PublishInv'
    BY <1>10 DEF Killed
  <1>11. ASSUME NEW w \in Writers, WriteBack(w) PROVE PublishInv'
    BY <1>11 DEF WriteBack
  <1>12. CASE WriteBackDir
    BY <1>12 DEF WriteBackDir
  <1>13. CASE PowerFails
    BY <1>13 DEF PowerFails, Running
  <1>14. CASE UNCHANGED vars
    BY <1>14 DEF vars
  <1> HIDE DEF PublishInv
  <1> QED BY <1>1, <1>2, <1>3, <1>4, <1>5, <1>6, <1>7, <1>8, <1>9, <1>10,
             <1>11, <1>12, <1>13, <1>14 DEF Next, Step

\* Every step preserves NamesInv.
LEMMA NamesStep ==
  ASSUME TypeOK, PublishInv, NamesInv, [Next]_vars
  PROVE  NamesInv'
  <1> USE DEF TypeOK, Entries, PublishInv, NamesInv, Safe, Exists, NoEntry, Goto,
             Decide, fsVars
  <1>1. ASSUME NEW w \in Writers, PersistCall(w) PROVE NamesInv'
    BY <1>1 DEF PersistCall
  <1>2. ASSUME NEW w \in Writers, RequireAbsent(w) PROVE NamesInv'
    BY <1>2 DEF RequireAbsent
  <1>3. ASSUME NEW w \in Writers, CreateTemp(w) PROVE NamesInv'
    BY <1>3 DEF CreateTemp
  <1>4. ASSUME NEW w \in Writers, WriteTemp(w) PROVE NamesInv'
    BY <1>4 DEF WriteTemp
  <1>5. ASSUME NEW w \in Writers, SyncTemp(w) PROVE NamesInv'
    BY <1>5 DEF SyncTemp
  <1>6. ASSUME NEW w \in Writers, LinkFinal(w) PROVE NamesInv'
    BY <1>6 DEF LinkFinal
  <1>7. ASSUME NEW w \in Writers, RemoveTemp(w) PROVE NamesInv'
    BY <1>7 DEF RemoveTemp
  <1>8. ASSUME NEW w \in Writers, SyncDir(w) PROVE NamesInv'
    BY <1>8 DEF SyncDir
  <1>9. ASSUME NEW w \in Writers, Cleanup(w) PROVE NamesInv'
    BY <1>9 DEF Cleanup
  <1>10. ASSUME NEW w \in Writers, Killed(w) PROVE NamesInv'
    BY <1>10 DEF Killed, Running
  <1>11. ASSUME NEW w \in Writers, WriteBack(w) PROVE NamesInv'
    BY <1>11 DEF WriteBack
  <1>12. CASE WriteBackDir
    BY <1>12 DEF WriteBackDir
  <1>13. CASE PowerFails
    BY <1>13 DEF PowerFails, Running
  <1>14. CASE UNCHANGED vars
    BY <1>14 DEF vars
  <1> HIDE DEF NamesInv
  <1> QED BY <1>1, <1>2, <1>3, <1>4, <1>5, <1>6, <1>7, <1>8, <1>9, <1>10,
             <1>11, <1>12, <1>13, <1>14 DEF Next, Step

\* Nothing is published initially, and every step preserves the invariant.
LEMMA PersistInvariant == Spec => []PersistInv
  <1>1. Init => PersistInv
    BY FailuresAssumption DEF Init, PersistInv, TypeOK, PublishInv, NamesInv, NoEntry,
         Entries, Contents
  <1>2. PersistInv /\ [Next]_vars => PersistInv'
    BY TypeStep, PublishStep, NamesStep DEF PersistInv
  <1> QED BY <1>1, <1>2, PTL DEF Spec

\* All or nothing, for any number of writers and power failures.
THEOREM AllOrNothing == Spec => []EvidenceComplete
  <1>1. PersistInv => EvidenceComplete
    BY DEF PersistInv, PublishInv, Safe, EvidenceComplete
  <1> QED BY <1>1, PersistInvariant, PTL

\* A nil return means that this writer's file is on the disk for good.
THEOREM SuccessIsDurable == Spec => []OkMeansDurable
  <1>1. PersistInv => OkMeansDurable
    BY DEF PersistInv, PublishInv, NamesInv, Safe, OkMeansDurable
  <1> QED BY <1>1, PersistInvariant, PTL

\* No step but a power failure changes what a published path names.
THEOREM NoOverwrite == Spec => NeverReplaced
  <1>1. ASSUME PersistInv, [Next]_vars, failures' = failures, Exists
        PROVE  dir'.final = dir.final
    <2> USE DEF PersistInv, TypeOK, Entries, Exists, Goto, Decide, fsVars
    <2>1. ASSUME NEW w \in Writers, Step(w) PROVE dir'.final = dir.final
      BY <1>1, <2>1 DEF Step, PersistCall, RequireAbsent, CreateTemp, WriteTemp,
           SyncTemp, LinkFinal, RemoveTemp, SyncDir, Cleanup, Killed, WriteBack
    <2>2. CASE WriteBackDir
      BY <2>2 DEF WriteBackDir
    <2>3. ~PowerFails
      BY <1>1 DEF PowerFails
    <2>4. CASE UNCHANGED vars
      BY <2>4 DEF vars
    <2> QED BY <1>1, <2>1, <2>2, <2>3, <2>4 DEF Next
  <1>2. PersistInv /\ [Next]_vars =>
          [failures' = failures /\ Exists => dir'.final = dir.final]_vars
    BY <1>1
  <1> QED BY <1>2, PersistInvariant, PTL DEF Spec, NeverReplaced
=============================================================================
