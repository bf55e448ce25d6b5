---------------------- MODULE SolrConfigRefreshRollback ----------------------
(***************************************************************************)
(* The rollback copy of a Solr config refresh and what a run reports, for  *)
(* every instance: while a call that reports an error has done nothing or  *)
(* part of its work, the tree to go back to is always on disk, a pending   *)
(* directory without a marker holds nothing that is needed, Solr is asked  *)
(* to load whole trees only, what the marker calls accepted is what it     *)
(* serves, recorded progress and reported success are true, and one        *)
(* failing call leaves the core with a whole conf.                         *)
(***************************************************************************)
EXTENDS SolrConfigRefreshProofs

USE MarkersAssumption

Reconciled == fs.marker # None /\ fs.marker.reconciled

\* Nothing but what a transaction needs is ever in the pending directory: no
\* rollback copy before the marker, and none that differs from base unless the
\* marker says that conf has been accepted in its place.
DirectoryInv ==
    /\ fs.marker = None => fs.previous = None
    /\ ~fs.pending => fs.marker = None
    /\ RollbackAvailable
    /\ Reconciled /\ base # None => fs.conf = base /\ base = fs.marker.desired
    /\ ~Reconciled /\ base # None => fs.previous \in {None, base}

SupersedeLabels == {"clearStaged", "clearAbandoned", "supersede"}
AcceptedLabels ==
    ReindexLabels \cup {"resumeAccepted", "clearPrevious", "finish", "dropPrevious"}

\* The marker on disk is the one the holder has in memory, and at the label
\* the holder has reached it is accepted, or it is not.
MarkerInv ==
    /\ pc \in MarkLabels => fs.marker # None
    /\ pc \in MarkLabels /\ ~run.recovering => fs.marker = run.mark
    /\ pc \in UnacceptedLabels => ~fs.marker.reconciled
    /\ pc \in AcceptedLabels => fs.marker.reconciled
    /\ pc = "begin" => fs.pending /\ fs.marker = None
    /\ run.recovering => pc \in RollbackLabels \cup {"status", "create", "reload", "failed"}

\* The directories a step of the swap or of the rollback finds.
Room(label) ==
    /\ label = "retainPrevious" => fs.previous = None
    /\ label \in {"clearInterrupted", "retainInterrupted", "rollbackClear", "rollbackRetain"}
           => fs.previous # None
    /\ label \in {"install", "restore", "rollbackRestore"} => fs.conf = None

StepInv ==
    /\ Room(pc)
    /\ pc \in StageLabels => Room(run.then)
    /\ pc \notin StageLabels \cup {"failed"} => run.then = "activate"
    /\ pc \in SupersedeLabels /\ base # None => fs.previous = None
    /\ pc \in ReindexLabels => fs.previous = None
    /\ pc \in {"status", "create", "reload", "accept"} /\ ~run.recovering
           => fs.conf = run.mark.desired
    /\ pc \in {"status", "create", "reload"} /\ run.recovering /\ base # None
           => fs.conf = base

Inv == DirectoryInv /\ MarkerInv /\ StepInv

RollbackInv == TypeInv /\ AmbiguousFailures = FALSE /\ Inv

-----------------------------------------------------------------------------
(* The calls when failures are not ambiguous.                              *)

LEMMA CleanRemove ==
    ASSUME NEW d \in DirNames, NEW next, NEW onError, fs \in CoreDirectory,
           AmbiguousFailures = FALSE, Remove(d, next, onError)
    PROVE  \/ fs' = [fs EXCEPT ![d] = None] /\ pc' = next
           \/ fs' = fs /\ pc' = onError
           \/ fs' = [fs EXCEPT ![d] = Torn] /\ fs[d] # None /\ pc' = onError
BY DEF Remove, Call, Without, Remains

LEMMA CleanMove ==
    ASSUME NEW source \in DirNames, NEW target \in DirNames, NEW next, NEW onError,
           fs \in CoreDirectory, AmbiguousFailures = FALSE,
           Move(source, target, next, onError)
    PROVE  \/ fs' = Moved(source, target) /\ fs[source] # None /\ pc' = next
           \/ fs' = fs /\ pc' = onError
BY DEF Move, Call

LEMMA CleanWrite ==
    ASSUME NEW mark, NEW next, NEW onError, AmbiguousFailures = FALSE,
           WriteMarker(mark, next, onError)
    PROVE  \/ fs' = [fs EXCEPT !.marker = mark] /\ pc' = next
           \/ fs' = fs /\ pc' = onError
BY DEF WriteMarker, Call

-----------------------------------------------------------------------------
(* The invariant is inductive.                                             *)

LEMMA RollbackInvStep == RollbackInv /\ [Next]_vars => RollbackInv'
<1> SUFFICES ASSUME RollbackInv, [Next]_vars PROVE Inv'
  BY TypeInvStep DEF RollbackInv, Inv
<1>type. /\ fs \in CoreDirectory /\ run \in RunRecords /\ pc \in Labels
         /\ base \in Trees \cup {None}
         /\ pc # "idle" => run.gen \in Trees
         /\ pc \in MarkLabels => run.mark \in Markers
         /\ AmbiguousFailures = FALSE
         /\ (holder = None) <=> (pc = "idle")
  BY DEF RollbackInv, TypeInv, TypeOK
<1>inv. Inv
  BY DEF RollbackInv, Inv
<1> USE DEF Inv, DirectoryInv, RollbackAvailable, Reconciled, MarkerInv, StepInv, Room
<1> USE DEF Labels, MarkLabels, StageLabels, SwapLabels, RollbackLabels, UnacceptedLabels,
            SupersedeLabels, ReindexLabels, AcceptedLabels
<1>1. ASSUME NEW r \in Runs, Generate(r) PROVE Inv'
  BY <1>1, <1>type, <1>inv DEF Generate
<1>2. ASSUME NEW r \in Runs, AcquireLock(r) PROVE Inv'
  BY <1>2, <1>type, <1>inv DEF AcquireLock, NoRun
<1>3. CASE Resume
  BY <1>3, <1>type, <1>inv
     DEF Resume, Decide, ReadFails, RunRecords, CoreDirectory, outside
<1>4. CASE ResumeAccepted
  BY <1>4, <1>type, <1>inv
     DEF ResumeAccepted, Decide, ReadFails, RunRecords, CoreDirectory, outside
<1>5. CASE Compare
  BY <1>5, <1>type, <1>inv
     DEF Compare, Decide, ReadFails, RunRecords, CoreDirectory, outside
<1>6. CASE Publish
  BY <1>6, <1>type, <1>inv DEF Publish, RunRecords, CoreDirectory, outside
<1>7. CASE StageVerify
  BY <1>7, <1>type, <1>inv
     DEF StageVerify, Decide, ReadFails, RunRecords, CoreDirectory, outside
<1>8. CASE Verify
  BY <1>8, <1>type, <1>inv
     DEF Verify, Recovery, Decide, ReadFails, RunRecords, CoreDirectory, outside
<1>9. CASE Status
  BY <1>9, <1>type, <1>inv
     DEF Status, NotReconciled, Recovery, Decide, ReadFails, RunRecords,
         CoreDirectory, outside
<1>10. CASE Create
  BY <1>10, <1>type, <1>inv
     DEF Create, Reconcile, NotReconciled, Recovery, RunRecords, CoreDirectory,
         outside
<1>11. CASE Reload
  BY <1>11, <1>type, <1>inv
     DEF Reload, Reconcile, NotReconciled, Recovery, RunRecords, CoreDirectory,
         outside
<1>12. CASE Finish
  BY <1>12, <1>type, <1>inv
     DEF Finish, Decide, ReadFails, RunRecords, CoreDirectory, outside
<1>13. CASE ResetTrackers
  BY <1>13, <1>type, <1>inv
     DEF ResetTrackers, Drush, RunRecords, CoreDirectory, outside
<1>14. CASE Index
  BY <1>14, <1>type, <1>inv DEF Index, Drush, RunRecords, CoreDirectory, outside
<1>15. CASE Start
  BY <1>15, <1>type, <1>inv
     DEF Start, Decide, Call, RunRecords, CoreDirectory, outside
<1>16. CASE StageCopy
  BY <1>16, <1>type, <1>inv DEF StageCopy, Call, RunRecords, CoreDirectory, outside
<1>17. CASE Release
  BY <1>17, <1>type, <1>inv
     DEF Release, Decide, NoRun, RunRecords, CoreDirectory, outside
<1>18. CASE Crash
  BY <1>18, <1>type, <1>inv DEF Crash, NoRun, RunRecords, CoreDirectory, outside
<1>19. CASE ModuleUpdate
  BY <1>19, <1>type, <1>inv DEF ModuleUpdate, RunRecords, CoreDirectory, outside
<1>20. CASE ExternalEdit
  BY <1>20, <1>type, <1>inv DEF ExternalEdit, RunRecords, CoreDirectory, outside
<1>21. CASE SolrRestart
  BY <1>21, <1>type, <1>inv DEF SolrRestart, RunRecords, CoreDirectory, outside
<1>22. CASE OperatorRemovesPending
  BY <1>22, <1>type, <1>inv
     DEF OperatorRemovesPending, Emptied, RunRecords, CoreDirectory, outside
<1>23. CASE ClearPrevious
  <2>1. /\ pc = "clearPrevious" /\ run' = run
        /\ base' = base
        /\ \/ fs' = [fs EXCEPT !.previous = None] /\ pc' = "clearStaged"
           \/ fs' = fs /\ pc' = "failed"
           \/ fs' = [fs EXCEPT !.previous = Torn] /\ fs.previous # None /\ pc' = "failed"
    BY <1>23, <1>type, CleanRemove DEF ClearPrevious, RemoveStep, DirNames, outside
  <2> QED
    BY <1>type, <1>inv, <2>1 DEF RunRecords, CoreDirectory
<1>24. CASE ClearStaged
  <2>1. /\ pc = "clearStaged" /\ run' = run
        /\ base' = base
        /\ \/ fs' = [fs EXCEPT !.new = None] /\ pc' = "clearAbandoned"
           \/ fs' = fs /\ pc' = "failed"
           \/ fs' = [fs EXCEPT !.new = Torn] /\ fs.new # None /\ pc' = "failed"
    BY <1>24, <1>type, CleanRemove DEF ClearStaged, RemoveStep, DirNames, outside
  <2> QED
    BY <1>type, <1>inv, <2>1 DEF RunRecords, CoreDirectory
<1>25. CASE ClearAbandoned
  <2>1. /\ pc = "clearAbandoned" /\ run' = run
        /\ base' = base
        /\ \/ fs' = [fs EXCEPT !.abandoned = None] /\ pc' = "supersede"
           \/ fs' = fs /\ pc' = "failed"
           \/ fs' = [fs EXCEPT !.abandoned = Torn] /\ fs.abandoned # None /\ pc' = "failed"
    BY <1>25, <1>type, CleanRemove DEF ClearAbandoned, RemoveStep, DirNames, outside
  <2> QED
    BY <1>type, <1>inv, <2>1 DEF RunRecords, CoreDirectory
<1>26. CASE StageClear
  <2>1. /\ pc = "stageClear" /\ run' = run
        /\ base' = base
        /\ \/ fs' = [fs EXCEPT !.new = None] /\ pc' = "stageCopy"
           \/ fs' = fs /\ pc' = "failed"
           \/ fs' = [fs EXCEPT !.new = Torn] /\ fs.new # None /\ pc' = "failed"
    BY <1>26, <1>type, CleanRemove DEF StageClear, RemoveStep, DirNames, outside
  <2> QED
    BY <1>type, <1>inv, <2>1 DEF RunRecords, CoreDirectory
<1>27. CASE ClearInterrupted
  <2>1. /\ pc = "clearInterrupted" /\ run' = run
        /\ base' = base
        /\ \/ fs' = [fs EXCEPT !.abandoned = None] /\ pc' = "retainInterrupted"
           \/ fs' = fs /\ pc' = "failed"
           \/ fs' = [fs EXCEPT !.abandoned = Torn] /\ fs.abandoned # None /\ pc' = "failed"
    BY <1>27, <1>type, CleanRemove
       DEF ClearInterrupted, RemoveStep, DirNames, outside
  <2> QED
    BY <1>type, <1>inv, <2>1 DEF RunRecords, CoreDirectory
<1>28. CASE RollbackClear
  <2>1. /\ pc = "rollbackClear" /\ run' = run
        /\ base' = base
        /\ \/ fs' = [fs EXCEPT !.new = None] /\ pc' = "rollbackRetain"
           \/ fs' = fs /\ pc' = "failed"
           \/ fs' = [fs EXCEPT !.new = Torn] /\ fs.new # None /\ pc' = "failed"
    BY <1>28, <1>type, CleanRemove DEF RollbackClear, RemoveStep, DirNames, outside
  <2> QED
    BY <1>type, <1>inv, <2>1 DEF RunRecords, CoreDirectory
<1>29. CASE DropPrevious
  <2>1. /\ pc = "dropPrevious" /\ run' = run
        /\ base' = base
        /\ \/ fs' = [fs EXCEPT !.previous = None] /\ pc' = Remaining(run.mark)
           \/ fs' = fs /\ pc' = "failed"
           \/ fs' = [fs EXCEPT !.previous = Torn] /\ fs.previous # None /\ pc' = "failed"
    BY <1>29, <1>type, CleanRemove DEF DropPrevious, RemoveStep, DirNames, outside
  <2> QED
    BY <1>type, <1>inv, <2>1 DEF Remaining, RunRecords, CoreDirectory
<1>30. CASE RetainPrevious
  <2>1. /\ pc = "retainPrevious" /\ run' = [run EXCEPT !.hadPrevious = (pc' = "install")]
        /\ base' = base
        /\ \/ /\ fs' = Moved("conf", "previous")
              /\ fs.conf # None /\ pc' = "install"
           \/ fs' = fs /\ pc' = "failed"
    BY <1>30, <1>type, CleanMove DEF RetainPrevious, DirNames, outside
  <2> QED
    BY <1>type, <1>inv, <2>1 DEF Moved, RunRecords, CoreDirectory
<1>31. CASE RetainInterrupted
  <2>1. /\ pc = "retainInterrupted" /\ run' = run
        /\ base' = base
        /\ \/ /\ fs' = Moved("conf", "abandoned")
              /\ fs.conf # None /\ pc' = "install"
           \/ fs' = fs /\ pc' = "failed"
    BY <1>31, <1>type, CleanMove DEF RetainInterrupted, MoveStep, DirNames, outside
  <2> QED
    BY <1>type, <1>inv, <2>1 DEF Moved, RunRecords, CoreDirectory
<1>32. CASE Install
  <2>1. /\ pc = "install" /\ run' = run
        /\ base' = base
        /\ \/ /\ fs' = Moved("new", "conf")
              /\ fs.new # None /\ pc' = "verify"
           \/ fs' = fs /\ pc' = (IF run.hadPrevious THEN "restore" ELSE "failed")
    BY <1>32, <1>type, CleanMove DEF Install, MoveStep, DirNames, outside
  <2> QED
    BY <1>type, <1>inv, <2>1 DEF Moved, RunRecords, CoreDirectory
<1>33. CASE Restore
  <2>1. /\ pc = "restore" /\ run' = [run EXCEPT !.recovering = TRUE]
        /\ base' = base
        /\ \/ /\ fs' = Moved("previous", "conf")
              /\ fs.previous # None /\ pc' = "rollback"
           \/ fs' = fs /\ pc' = "rollback"
    BY <1>33, <1>type, CleanMove DEF Restore, DirNames, outside
  <2> QED
    BY <1>type, <1>inv, <2>1 DEF Moved, RunRecords, CoreDirectory
<1>34. CASE RollbackRetain
  <2>1. /\ pc = "rollbackRetain" /\ run' = run
        /\ base' = base
        /\ \/ /\ fs' = Moved("conf", "new")
              /\ fs.conf # None /\ pc' = "rollbackRestore"
           \/ fs' = fs /\ pc' = "failed"
    BY <1>34, <1>type, CleanMove DEF RollbackRetain, MoveStep, DirNames, outside
  <2> QED
    BY <1>type, <1>inv, <2>1 DEF Moved, RunRecords, CoreDirectory
<1>35. CASE RollbackRestore
  <2>1. /\ pc = "rollbackRestore" /\ run' = run
        /\ base' = base
        /\ \/ /\ fs' = Moved("previous", "conf")
              /\ fs.previous # None /\ pc' = RolledBack
           \/ fs' = fs /\ pc' = "failed"
    BY <1>35, <1>type, CleanMove DEF RollbackRestore, MoveStep, DirNames, outside
  <2> QED
    BY <1>type, <1>inv, <2>1 DEF Moved, RolledBack, RunRecords, CoreDirectory
<1>36. CASE RecordReindex
  <2>1. /\ pc = "recordReindex" /\ base' = base /\ run.mark \in Markers
        /\ run' = [run EXCEPT !.mark = [run.mark EXCEPT !.reindex = TRUE]]
    BY <1>36, <1>type, <1>inv DEF RecordReindex, outside
  <2>2. /\ run'.mark \in Markers /\ run'.mark # None
        /\ run'.mark.reconciled = run.mark.reconciled
        /\ run'.mark.desired = run.mark.desired
        /\ run'.recovering = run.recovering /\ run'.then = run.then
    <3>1. /\ run'.mark = [run.mark EXCEPT !.reindex = TRUE]
          /\ run'.recovering = run.recovering /\ run'.then = run.then
      BY <2>1, <1>type DEF RunRecords
    <3>2. [run.mark EXCEPT !.reindex = TRUE] \in Markers
      BY <2>1, <1>type DEF RunRecords, Markers
    <3> QED
      BY <2>1, <3>1, <3>2, MarkersAssumption, ZenonT(60) DEF Markers
  <2>3. CASE /\ fs' = [fs EXCEPT !.marker = run'.mark]
             /\ pc' = (IF run.mark.reconciled THEN "finish" ELSE "activate")
    <3>1. /\ fs'.marker = run'.mark
          /\ fs'.conf = fs.conf /\ fs'.previous = fs.previous /\ fs'.pending = fs.pending
          /\ IF run.mark.reconciled THEN pc' = "finish" ELSE pc' = "activate"
      BY <2>3, <1>type DEF CoreDirectory
    <3>2. DirectoryInv'
      BY <1>type, <1>inv, <2>1, <2>2, <3>1
    <3>3. MarkerInv'
      BY <1>type, <1>inv, <2>1, <2>2, <3>1
    <3>4. StepInv'
      BY <1>type, <1>inv, <2>1, <2>2, <3>1
    <3> QED
      BY <3>2, <3>3, <3>4
  <2>4. CASE fs' = fs /\ pc' = "failed"
    BY <1>type, <1>inv, <2>1, <2>2, <2>4
  <2> QED
    BY <1>36, <1>type, <2>3, <2>4, CleanWrite DEF RecordReindex
<1>37. CASE Supersede
  <2>1. /\ pc = "supersede" /\ base' = base /\ run.mark \in Markers
        /\ run' = [run EXCEPT !.mark = Superseding(run.mark)]
    BY <1>37, <1>type, <1>inv DEF Supersede, outside
  <2>2. /\ run'.mark \in Markers /\ run'.mark # None
        /\ run'.mark.reconciled = FALSE
        /\ run'.recovering = run.recovering /\ run'.then = run.then
    <3>1. /\ run'.mark = Superseding(run.mark)
          /\ run'.recovering = run.recovering /\ run'.then = run.then
      BY <2>1, <1>type DEF RunRecords
    <3>2. Superseding(run.mark) \in Markers
      BY <2>1, <1>type DEF RunRecords, Markers, Superseding, NewMarker
    <3> QED
      BY <2>1, <3>1, <3>2, MarkersAssumption DEF Markers, Superseding, NewMarker
  <2>3. CASE fs' = [fs EXCEPT !.marker = run'.mark] /\ pc' = "stageClear"
    <3>1. /\ fs'.marker = run'.mark
          /\ fs'.conf = fs.conf /\ fs'.previous = fs.previous /\ fs'.pending = fs.pending
          /\ pc' = "stageClear"
      BY <2>3, <1>type DEF CoreDirectory
    <3>2. DirectoryInv'
      BY <1>type, <1>inv, <2>1, <2>2, <3>1
    <3>3. MarkerInv'
      BY <1>type, <1>inv, <2>1, <2>2, <3>1
    <3>4. StepInv'
      BY <1>type, <1>inv, <2>1, <2>2, <3>1
    <3> QED
      BY <3>2, <3>3, <3>4
  <2>4. CASE fs' = fs /\ pc' = "failed"
    BY <1>type, <1>inv, <2>1, <2>2, <2>4
  <2> QED
    BY <1>37, <1>type, <2>3, <2>4, CleanWrite DEF Supersede
<1>38. CASE Begin
  <2>1. /\ pc = "begin" /\ base' = base
        /\ run' = [run EXCEPT !.mark = NewMarker(run.gen, run.reindex)]
    BY <1>38, <1>type, <1>inv DEF Begin, outside
  <2>2. /\ run'.mark \in Markers /\ run'.mark # None
        /\ run'.mark.reconciled = FALSE
        /\ run'.recovering = run.recovering /\ run'.then = run.then
    <3>1. /\ run'.mark = NewMarker(run.gen, run.reindex)
          /\ run'.recovering = run.recovering /\ run'.then = run.then
      BY <2>1, <1>type DEF RunRecords
    <3>2. NewMarker(run.gen, run.reindex) \in Markers
      BY <2>1, <1>type DEF RunRecords, Markers, NewMarker
    <3> QED
      BY <2>1, <3>1, <3>2, MarkersAssumption DEF Markers, NewMarker
  <2>3. CASE fs' = [fs EXCEPT !.marker = run'.mark] /\ pc' = "stageClear"
    <3>1. /\ fs'.marker = run'.mark
          /\ fs'.conf = fs.conf /\ fs'.previous = fs.previous /\ fs'.pending = fs.pending
          /\ pc' = "stageClear"
      BY <2>3, <1>type DEF CoreDirectory
    <3>2. DirectoryInv'
      BY <1>type, <1>inv, <2>1, <2>2, <3>1
    <3>3. MarkerInv'
      BY <1>type, <1>inv, <2>1, <2>2, <3>1
    <3>4. StepInv'
      BY <1>type, <1>inv, <2>1, <2>2, <3>1
    <3> QED
      BY <3>2, <3>3, <3>4
  <2>4. CASE fs' = fs /\ pc' = "failed"
    BY <1>type, <1>inv, <2>1, <2>2, <2>4
  <2> QED
    BY <1>38, <1>type, <2>3, <2>4, CleanWrite DEF Begin
<1>39. CASE RecordReset
  <2>1. /\ pc = "recordReset" /\ base' = base /\ run.mark \in Markers
        /\ run' = [run EXCEPT !.mark = [run.mark EXCEPT !.reset = TRUE]]
    BY <1>39, <1>type, <1>inv DEF RecordReset, outside
  <2>2. /\ run'.mark \in Markers /\ run'.mark # None
        /\ run'.mark.reconciled = run.mark.reconciled
        /\ run'.mark.desired = run.mark.desired
        /\ run'.recovering = run.recovering /\ run'.then = run.then
    <3>1. /\ run'.mark = [run.mark EXCEPT !.reset = TRUE]
          /\ run'.recovering = run.recovering /\ run'.then = run.then
      BY <2>1, <1>type DEF RunRecords
    <3>2. [run.mark EXCEPT !.reset = TRUE] \in Markers
      BY <2>1, <1>type DEF RunRecords, Markers
    <3> QED
      BY <2>1, <3>1, <3>2, MarkersAssumption DEF Markers
  <2>3. CASE fs' = [fs EXCEPT !.marker = run'.mark] /\ pc' = Remaining(run'.mark)
    <3>1. /\ fs'.marker = run'.mark
          /\ fs'.conf = fs.conf /\ fs'.previous = fs.previous /\ fs'.pending = fs.pending
          /\ pc' \in {"resetTrackers", "index", "cleanup"}
      BY <2>3, <1>type DEF CoreDirectory, Remaining
    <3>2. DirectoryInv'
      BY <1>type, <1>inv, <2>1, <2>2, <3>1
    <3>3. MarkerInv'
      BY <1>type, <1>inv, <2>1, <2>2, <3>1
    <3>4. StepInv'
      BY <1>type, <1>inv, <2>1, <2>2, <3>1
    <3> QED
      BY <3>2, <3>3, <3>4
  <2>4. CASE fs' = fs /\ pc' = "failed"
    BY <1>type, <1>inv, <2>1, <2>2, <2>4
  <2> QED
    BY <1>39, <1>type, <2>3, <2>4, CleanWrite DEF RecordReset
<1>40. CASE RecordIndexed
  <2>1. /\ pc = "recordIndexed" /\ base' = base /\ run.mark \in Markers
        /\ run' = [run EXCEPT !.mark = [run.mark EXCEPT !.complete = TRUE]]
    BY <1>40, <1>type, <1>inv DEF RecordIndexed, outside
  <2>2. /\ run'.mark \in Markers /\ run'.mark # None
        /\ run'.mark.reconciled = run.mark.reconciled
        /\ run'.mark.desired = run.mark.desired
        /\ run'.recovering = run.recovering /\ run'.then = run.then
    <3>1. /\ run'.mark = [run.mark EXCEPT !.complete = TRUE]
          /\ run'.recovering = run.recovering /\ run'.then = run.then
      BY <2>1, <1>type DEF RunRecords
    <3>2. [run.mark EXCEPT !.complete = TRUE] \in Markers
      BY <2>1, <1>type DEF RunRecords, Markers
    <3> QED
      BY <2>1, <3>1, <3>2, MarkersAssumption DEF Markers
  <2>3. CASE fs' = [fs EXCEPT !.marker = run'.mark] /\ pc' = Remaining(run'.mark)
    <3>1. /\ fs'.marker = run'.mark
          /\ fs'.conf = fs.conf /\ fs'.previous = fs.previous /\ fs'.pending = fs.pending
          /\ pc' \in {"resetTrackers", "index", "cleanup"}
      BY <2>3, <1>type DEF CoreDirectory, Remaining
    <3>2. DirectoryInv'
      BY <1>type, <1>inv, <2>1, <2>2, <3>1
    <3>3. MarkerInv'
      BY <1>type, <1>inv, <2>1, <2>2, <3>1
    <3>4. StepInv'
      BY <1>type, <1>inv, <2>1, <2>2, <3>1
    <3> QED
      BY <3>2, <3>3, <3>4
  <2>4. CASE fs' = fs /\ pc' = "failed"
    BY <1>type, <1>inv, <2>1, <2>2, <2>4
  <2> QED
    BY <1>40, <1>type, <2>3, <2>4, CleanWrite DEF RecordIndexed
<1>41. CASE Accept
  <2> DEFINE mark == [run.mark EXCEPT !.reconciled = TRUE]
  <2>1. /\ pc = "accept" /\ run.mark \in Markers /\ run.recovering = FALSE
        /\ run' = [run EXCEPT !.mark = mark, !.recovering = (pc' = "rollback")]
        /\ base' = IF fs'.marker = mark THEN mark.desired ELSE base
    BY <1>41, <1>type, <1>inv DEF Accept, RunRecords
  <2>2. /\ mark \in Markers /\ mark # None /\ mark # run.mark
        /\ mark.reconciled = TRUE /\ mark.desired = run.mark.desired
        /\ mark.desired \in Trees
    BY <2>1, <1>type, <1>inv, MarkersAssumption, ZenonT(60) DEF Markers
  <2>3. /\ run'.mark = mark /\ run'.then = run.then
        /\ run'.recovering = (pc' = "rollback")
    BY <2>1, <1>type DEF RunRecords
  <2> HIDE DEF mark
  <2>4. CASE fs' = [fs EXCEPT !.marker = mark] /\ pc' = "finish"
    <3>1. fs'.marker = mark /\ fs'.conf = fs.conf /\ fs'.previous = fs.previous /\ fs'.pending = fs.pending
      BY <2>4, <1>type DEF CoreDirectory
    <3>2. DirectoryInv'
      BY <1>type, <1>inv, <2>1, <2>2, <2>3, <2>4, <3>1
    <3>3. MarkerInv'
      BY <1>type, <1>inv, <2>1, <2>2, <2>3, <2>4, <3>1
    <3>4. StepInv'
      BY <1>type, <1>inv, <2>1, <2>2, <2>3, <2>4, <3>1
    <3> QED
      BY <3>2, <3>3, <3>4
  <2>5. CASE fs' = fs /\ pc' \in {"rollback", "failed"}
    BY <1>type, <1>inv, <2>1, <2>2, <2>3, <2>5, ZenonT(60)
  <2> QED
    BY <1>41, <1>type, <2>4, <2>5, CleanWrite DEF Accept, Recovery, mark
<1>42. CASE Activate
  <2>1. /\ pc = "activate" /\ fs' = fs /\ base' = base
        /\ run'.mark = run.mark /\ run'.recovering = run.recovering
        /\ \/ pc' = "status" /\ run'.then = run.then /\ fs.conf = run.mark.desired
           \/ /\ pc' \in SwapLabels /\ run'.then = run.then
              /\ pc' = MakeRoom(fs.conf # None, fs.previous # None)
           \/ pc' = "failed" /\ run'.then \in {run.then} \cup SwapLabels
           \/ /\ pc' = "stageClear"
              /\ run'.then = MakeRoom(fs.conf # None, fs.previous # None)
    BY <1>42, <1>type DEF Activate, MakeRoom, Decide, ReadFails, RunRecords, outside
  <2>2. DirectoryInv'
    BY <1>type, <1>inv, <2>1
  <2>3. MarkerInv'
    BY <1>type, <1>inv, <2>1
  <2>4. StepInv'
    BY <1>type, <1>inv, <2>1 DEF MakeRoom
  <2> QED
    BY <2>2, <2>3, <2>4
<1>43. CASE Rollback
  <2>1. /\ pc = "rollback" /\ fs' = fs /\ base' = base /\ run' = run
        /\ \/ pc' = "failed"
           \/ pc' = RolledBack /\ fs.previous = None
           \/ pc' = "rollbackClear" /\ fs.previous # None
           \/ pc' = "rollbackRestore" /\ fs.conf = None
    BY <1>43, <1>type, <1>inv DEF Rollback, Decide, ReadFails, outside
  <2>2. DirectoryInv'
    BY <1>type, <1>inv, <2>1
  <2>3. MarkerInv'
    BY <1>type, <1>inv, <2>1 DEF RolledBack
  <2>4. StepInv'
    BY <1>type, <1>inv, <2>1 DEF RolledBack
  <2> QED
    BY <2>2, <2>3, <2>4
<1>44. CASE Cleanup
  <2>1. /\ pc = "cleanup" /\ base' = base
        /\ run'.mark = run.mark /\ run'.recovering = run.recovering /\ run'.then = run.then
    BY <1>44, <1>type, <1>inv DEF Cleanup, RunRecords, outside
  <2>2. /\ pc' \in {"succeeded", "compare", "failed"}
        /\ fs' \in {[Emptied EXCEPT !.pending = FALSE], fs} \cup HalfEmptied
    BY <1>44, <1>type, <1>inv DEF Cleanup, Call
  <2>3. fs.previous = None /\ fs.pending
    BY <2>1, <1>type, <1>inv
  <2>4. /\ fs'.conf = fs.conf /\ fs'.previous = None
        /\ fs'.marker \in {fs.marker, None} /\ fs'.pending \in BOOLEAN
        /\ fs'.marker = None \/ fs'.pending = fs.pending
    BY <2>2, <2>3, <1>type DEF Emptied, HalfEmptied, Rests, CoreDirectory
  <2>5. DirectoryInv'
    BY <1>type, <1>inv, <2>1, <2>2, <2>3, <2>4
  <2>6. MarkerInv'
    BY <1>type, <1>inv, <2>1, <2>2, <2>3, <2>4
  <2>7. StepInv'
    BY <1>type, <1>inv, <2>1, <2>2, <2>3, <2>4
  <2> QED
    BY <2>5, <2>6, <2>7
<1>45. CASE UNCHANGED vars
  BY <1>45, <1>type, <1>inv DEF vars
<1> QED
  BY <1>1, <1>2, <1>3, <1>4, <1>5, <1>6, <1>7, <1>8, <1>9, <1>10, <1>11, <1>12,
     <1>13, <1>14, <1>15, <1>16, <1>17, <1>18, <1>19, <1>20, <1>21, <1>22,
     <1>23, <1>24, <1>25, <1>26, <1>27, <1>28, <1>29, <1>30, <1>31, <1>32,
     <1>33, <1>34, <1>35, <1>36, <1>37, <1>38, <1>39, <1>40, <1>41, <1>42,
     <1>43, <1>44, <1>45
     DEF Next, HolderStep, Environment

LEMMA RollbackInvInit == AmbiguousFailures = FALSE /\ Init => RollbackInv
<1> SUFFICES ASSUME AmbiguousFailures = FALSE, Init PROVE RollbackInv
  OBVIOUS
<1>1. TypeInv
  BY TypeInvInit
<1>2. DirectoryInv
  BY DEF Init, Settled, DirectoryInv, RollbackAvailable, Reconciled
<1>3. MarkerInv
  BY DEF Init, Settled, MarkerInv, NoRun, MarkLabels, UnacceptedLabels, AcceptedLabels,
         StageLabels, SwapLabels, RollbackLabels, ReindexLabels
<1>4. StepInv
  BY DEF Init, Settled, StepInv, Room, NoRun, StageLabels, SupersedeLabels, ReindexLabels
<1> QED
  BY <1>1, <1>2, <1>3, <1>4 DEF RollbackInv, Inv

-----------------------------------------------------------------------------
(* What the marker calls accepted is served.                               *)

Served == loaded = fs.conf /\ fs.conf \in Acceptable

ServedInv ==
    /\ pc = "accept" => Served
    /\ Reconciled /\ base # None => Served

\* A step that neither asks Solr nor accepts what it has read.
Quiet ==
    /\ loaded' = loaded /\ base' = base
    /\ Reconciled' => Reconciled
    /\ pc' # "accept"

LEMMA QuietServed ==
    ASSUME RollbackInv, RollbackInv', ServedInv, Quiet
    PROVE  ServedInv'
BY DEF RollbackInv, Inv, DirectoryInv, ServedInv, Served, Quiet

LEMMA RemovesQuietly ==
    ASSUME NEW label, NEW d \in DirNames, NEW next, next # "accept",
           fs \in CoreDirectory, AmbiguousFailures = FALSE, RemoveStep(label, d, next)
    PROVE  Quiet
<1>1. fs'.marker = fs.marker /\ pc' \in {next, "failed"}
  BY CleanRemove DEF RemoveStep, CoreDirectory, DirNames
<1> QED
  BY <1>1 DEF Quiet, Reconciled, RemoveStep, outside

LEMMA MovesQuietly ==
    ASSUME NEW label, NEW source \in DirNames, NEW target \in DirNames,
           NEW next, NEW onError, fs \in CoreDirectory, AmbiguousFailures = FALSE,
           Move(source, target, next, onError)
    PROVE  fs'.marker = fs.marker /\ (pc' = next \/ pc' = onError)
BY CleanMove DEF Moved, CoreDirectory, DirNames

LEMMA WritesQuietly ==
    ASSUME NEW mark, NEW next, NEW onError, AmbiguousFailures = FALSE,
           fs \in CoreDirectory, WriteMarker(mark, next, onError)
    PROVE  fs'.marker \in {fs.marker, mark} /\ (pc' = next \/ pc' = onError)
BY CleanWrite DEF CoreDirectory

LEMMA ServedInvStep == RollbackInv /\ RollbackInv' /\ ServedInv /\ [Next]_vars => ServedInv'
<1> SUFFICES ASSUME RollbackInv, RollbackInv', ServedInv, [Next]_vars PROVE ServedInv'
  OBVIOUS
<1>type. /\ fs \in CoreDirectory /\ run \in RunRecords
         /\ pc \in MarkLabels => run.mark \in Markers
         /\ AmbiguousFailures = FALSE
         /\ (holder = None) <=> (pc = "idle")
  BY DEF RollbackInv, TypeInv, TypeOK
<1>mark. /\ pc \in MarkLabels /\ ~run.recovering => fs.marker = run.mark
         /\ pc \in UnacceptedLabels => ~Reconciled
         /\ Reconciled => fs.pending
         /\ run.recovering => pc \in RollbackLabels \cup {"status", "create", "reload", "failed"}
  BY DEF RollbackInv, Inv, DirectoryInv, MarkerInv, Reconciled
<1> USE DEF Labels, MarkLabels, UnacceptedLabels, StageLabels, SwapLabels, RollbackLabels
<1>look. ASSUME Resume \/ ResumeAccepted \/ Compare \/ StageVerify \/ Activate
                \/ Verify \/ Rollback \/ Status \/ Finish \/ Release
         PROVE  Quiet
  <2>1. fs' = fs /\ loaded' = loaded /\ base' = base
    BY <1>look DEF Resume, ResumeAccepted, Compare, StageVerify, Activate, Verify,
                   Rollback, Status, Finish, Release, Decide, ReadFails, outside
  <2>2. pc' # "accept"
    BY <1>look, <1>type
       DEF Resume, ResumeAccepted, Compare, StageVerify, Activate, MakeRoom, Verify,
           Rollback, RolledBack, Status, Finish, Release, Decide, ReadFails,
           Recovery, NotReconciled, Remaining, RunRecords
  <2> QED
    BY <2>1, <2>2 DEF Quiet, Reconciled
<1>clear. ASSUME ClearPrevious \/ ClearStaged \/ ClearAbandoned \/ StageClear
                 \/ ClearInterrupted \/ RollbackClear \/ DropPrevious
          PROVE  Quiet
  BY <1>clear, <1>type, RemovesQuietly
     DEF ClearPrevious, ClearStaged, ClearAbandoned, StageClear, ClearInterrupted,
         RollbackClear, DropPrevious, Remaining, DirNames
<1>move. ASSUME RetainPrevious \/ RetainInterrupted \/ Install \/ Restore
                \/ RollbackRetain \/ RollbackRestore
         PROVE  Quiet
  <2>1. fs'.marker = fs.marker /\ loaded' = loaded /\ base' = base /\ pc' # "accept"
    <3>1. ASSUME RetainPrevious PROVE fs'.marker = fs.marker /\ pc' # "accept"
      <4>1. fs'.marker = fs.marker /\ (pc' = "install" \/ pc' = "failed")
        BY <3>1, <1>type, MovesQuietly DEF RetainPrevious, DirNames
      <4> QED
        BY <4>1
    <3>2. ASSUME RetainInterrupted PROVE fs'.marker = fs.marker /\ pc' # "accept"
      <4>1. fs'.marker = fs.marker /\ (pc' = "install" \/ pc' = "failed")
        BY <3>2, <1>type, MovesQuietly DEF RetainInterrupted, MoveStep, DirNames
      <4> QED
        BY <4>1
    <3>3. ASSUME Install PROVE fs'.marker = fs.marker /\ pc' # "accept"
      <4>1. fs'.marker = fs.marker /\ (pc' = "verify" \/ pc' = (IF run.hadPrevious THEN "restore" ELSE "failed"))
        BY <3>3, <1>type, MovesQuietly DEF Install, MoveStep, DirNames
      <4> QED
        BY <4>1
    <3>4. ASSUME Restore PROVE fs'.marker = fs.marker /\ pc' # "accept"
      <4>1. fs'.marker = fs.marker /\ (pc' = "rollback")
        BY <3>4, <1>type, MovesQuietly DEF Restore, DirNames
      <4> QED
        BY <4>1
    <3>5. ASSUME RollbackRetain PROVE fs'.marker = fs.marker /\ pc' # "accept"
      <4>1. fs'.marker = fs.marker /\ (pc' = "rollbackRestore" \/ pc' = "failed")
        BY <3>5, <1>type, MovesQuietly DEF RollbackRetain, MoveStep, DirNames
      <4> QED
        BY <4>1
    <3>6. ASSUME RollbackRestore PROVE fs'.marker = fs.marker /\ pc' # "accept"
      <4>1. fs'.marker = fs.marker /\ (pc' = RolledBack \/ pc' = "failed")
        BY <3>6, <1>type, MovesQuietly DEF RollbackRestore, MoveStep, DirNames
      <4> QED
        BY <4>1 DEF RolledBack
    <3>7. loaded' = loaded /\ base' = base
      BY <1>move DEF RetainPrevious, RetainInterrupted, Install, Restore,
                     RollbackRetain, RollbackRestore, MoveStep, outside
    <3> QED
      BY <1>move, <3>1, <3>2, <3>3, <3>4, <3>5, <3>6, <3>7
  <2> QED
    BY <2>1 DEF Quiet, Reconciled
<1>record. ASSUME RecordReindex \/ Supersede \/ Begin \/ RecordReset \/ RecordIndexed
           PROVE  Quiet
  <2>1. loaded' = loaded /\ base' = base /\ fs'.marker \in {fs.marker, run'.mark}
    BY <1>record, <1>type, WritesQuietly
       DEF RecordReindex, Supersede, Begin, RecordReset, RecordIndexed, outside
  <2>2. pc' # "accept"
    <3> DEFINE onward == Remaining(run'.mark)
    <3>1. onward # "accept"
      BY DEF Remaining
    <3>2. ASSUME RecordReindex PROVE pc' # "accept"
      <4>1. \/ pc' = (IF run.mark.reconciled THEN "finish" ELSE "activate")
            \/ pc' = "failed"
        BY <3>2, <1>type, WritesQuietly DEF RecordReindex
      <4> QED
        BY <4>1
    <3>3. ASSUME Supersede \/ Begin PROVE pc' # "accept"
      <4>1. pc' = "stageClear" \/ pc' = "failed"
        BY <3>3, <1>type, WritesQuietly DEF Supersede, Begin
      <4> QED
        BY <4>1
    <3>4. ASSUME RecordReset \/ RecordIndexed PROVE pc' # "accept"
      <4> HIDE DEF onward
      <4>1. pc' = onward \/ pc' = "failed"
        BY <3>4, <1>type, WritesQuietly DEF RecordReset, RecordIndexed, onward
      <4> QED
        BY <3>1, <4>1
    <3> QED
      BY <1>record, <3>2, <3>3, <3>4
  <2>3. run'.mark # None /\ run'.mark.reconciled => Reconciled
    BY <1>record, <1>type, <1>mark
       DEF RecordReindex, Supersede, Begin, RecordReset, RecordIndexed, Superseding,
           NewMarker, RunRecords, Markers, Reconciled
  <2> QED
    BY <2>1, <2>2, <2>3 DEF Quiet, Reconciled
<1>other. ASSUME Publish \/ Start \/ StageCopy \/ ResetTrackers \/ Index \/ Cleanup
          PROVE  Quiet
  BY <1>other, <1>type
     DEF Publish, Start, StageCopy, ResetTrackers, Index, Cleanup, Emptied, HalfEmptied, Drush,
         Call, Decide, Quiet, Reconciled, CoreDirectory, outside
<1>1. CASE Create \/ Reload
  <2>1. /\ fs' = fs /\ base' = base /\ ~Reconciled
        /\ pc' = "accept" => Served'
    BY <1>1, <1>type, <1>mark
       DEF Create, Reload, Reconcile, NotReconciled, Recovery, Served
  <2> QED
    BY <2>1 DEF ServedInv, Reconciled
<1>2. CASE Accept
  BY <1>2, <1>type, <1>mark, WritesQuietly, CleanWrite
     DEF Accept, Recovery, ServedInv, Served, Reconciled, CoreDirectory, outside
<1>3. CASE Crash
  BY <1>3 DEF Crash, ServedInv, Served, Reconciled
<1>4. CASE ModuleUpdate
  BY <1>4 DEF ModuleUpdate, ServedInv, Served, Reconciled
<1>5. CASE ExternalEdit
  BY <1>5, <1>type, <1>mark DEF ExternalEdit, ServedInv, Served, Reconciled, CoreDirectory
<1>6. CASE SolrRestart
  BY <1>6, TreesAssumption DEF SolrRestart, ServedInv, Served, Reconciled
<1>7. CASE OperatorRemovesPending
  BY <1>7, <1>type DEF OperatorRemovesPending, Emptied, ServedInv, Served, Reconciled, CoreDirectory
<1>8. ASSUME NEW r \in Runs, Generate(r) \/ AcquireLock(r) PROVE ServedInv'
  BY <1>8 DEF Generate, AcquireLock, ServedInv, Served, Reconciled
<1>9. CASE UNCHANGED vars
  BY <1>9 DEF vars, ServedInv, Served, Reconciled
<1> QED
  BY <1>look, <1>clear, <1>move, <1>record, <1>other, QuietServed,
     <1>1, <1>2, <1>3, <1>4, <1>5, <1>6, <1>7, <1>8, <1>9
     DEF Next, HolderStep, Environment

LEMMA ServedInvInit == Init => ServedInv
BY MarkersAssumption DEF Init, Settled, ServedInv, Reconciled

\* As long as nobody edits conf amid a transaction, what Solr is asked to load
\* is a whole tree: the desired one, or in a recovery the one to go back to.
LEMMA AsksForWholeTrees == RollbackInv => SolrReadsWholeTrees
BY DEF RollbackInv, Inv, StepInv, MarkerInv, TypeInv, TypeOK, SolrReadsWholeTrees,
       MarkLabels, UnacceptedLabels, Markers

LEMMA DisposableWithoutMarker == RollbackInv => MarkerlessPendingIsDisposable
BY DEF RollbackInv, Inv, DirectoryInv, RollbackAvailable, MarkerlessPendingIsDisposable

\* Between the first rename of a swap and the acceptance by Solr, and through
\* every failure, crash, retry and rollback, the tree to go back to is on disk.
THEOREM RollbackAlwaysAvailable ==
    ASSUME AmbiguousFailures = FALSE
    PROVE  Spec => []RollbackAvailable
<1>1. Init => RollbackInv
  BY RollbackInvInit
<1>2. RollbackInv => RollbackAvailable
  BY DEF RollbackInv, Inv, DirectoryInv
<1> QED
  BY <1>1, <1>2, RollbackInvStep, PTL DEF Spec

\* The operator who follows the error message for a pending directory without
\* a marker and removes it loses nothing.
THEOREM PendingWithoutMarkerIsDisposable ==
    ASSUME AmbiguousFailures = FALSE
    PROVE  Spec => []MarkerlessPendingIsDisposable
<1>1. Init => RollbackInv
  BY RollbackInvInit
<1> QED
  BY <1>1, DisposableWithoutMarker, RollbackInvStep, PTL DEF Spec

\* Solr is asked to load whole trees only, in every step of a swap, a retry or
\* a rollback and whatever has failed or died before.
THEOREM SolrLoadsWholeTrees ==
    ASSUME AmbiguousFailures = FALSE
    PROVE  Spec => []SolrReadsWholeTrees
<1>1. Init => RollbackInv
  BY RollbackInvInit
<1> QED
  BY <1>1, AsksForWholeTrees, RollbackInvStep, PTL DEF Spec

\* What the marker calls accepted is in conf and in the core, also when Solr
\* restarts and when the command is run again much later.
THEOREM WhatIsAcceptedIsServed ==
    ASSUME AmbiguousFailures = FALSE
    PROVE  Spec => []AcceptedIsServed
<1>1. Init => RollbackInv
  BY RollbackInvInit
<1>2. RollbackInv /\ ServedInv => AcceptedIsServed
  BY DEF RollbackInv, Inv, DirectoryInv, ServedInv, Served, Reconciled, AcceptedIsServed
<1> QED
  BY <1>1, <1>2, RollbackInvStep, ServedInvInit, ServedInvStep, PTL DEF Spec

-----------------------------------------------------------------------------
(* What a run reports, and what the marker says of the reindex.            *)

\* Between the reset of the trackers and the index either every item still has
\* to be indexed, or every item was indexed under the tree of the marker.
ProgressInv ==
    /\ fs.marker # None /\ fs.marker.reset /\ base # None
          => drupal.dirty \/ drupal.indexedUnder = fs.marker.desired
    /\ pc = "recordReset" => drupal.dirty
    /\ fs.marker # None /\ (fs.marker.complete \/ pc = "recordIndexed") /\ base # None
          => drupal.indexedUnder = fs.marker.desired

\* The labels at which the run may still report what it has done.
ReportLabels == {"compare", "publish", "succeeded"}

\* A run that has finished a transaction reports no more than was done.
ReportInv ==
    /\ pc = "resume" => ~run.updated
    /\ pc \in ReportLabels /\ run.updated /\ base # None =>
          Served /\ (run.reindexed => drupal.indexedUnder = fs.conf)

\* The two records of progress, and what they record.
ProgressLabels == {"recordReset", "recordIndexed"}

\* A step that neither indexes nor records progress.
Idle ==
    /\ drupal'.dirty = drupal.dirty /\ drupal'.indexedUnder = drupal.indexedUnder
    /\ pc' \in ProgressLabels => pc' = pc /\ fs'.marker = fs.marker
    /\ fs'.marker = fs.marker => base' \in {base, None} \/ fs.marker = None

\* The marker it leaves is the old one, or one without any progress.
LEMMA IdleMarker ==
    ASSUME TypeInv, TransactionInv, [Next]_vars, pc \notin ProgressLabels
    PROVE  \/ fs'.marker = fs.marker
           \/ fs'.marker = None
           \/ ~fs'.marker.reset /\ ~fs'.marker.complete
<1>1. MarkerStep(fs.marker, fs'.marker)
  BY MarkerSteps
<1>2. CASE \E t \in Trees, r \in BOOLEAN : fs'.marker = NewMarker(t, r)
  BY <1>2 DEF NewMarker
<1>3. CASE fs.marker = None
  BY <1>1, <1>2, <1>3, ZenonT(60) DEF MarkerStep
<1>4. ASSUME fs.marker \in Markers, ValidMarker(fs.marker),
             \/ ~fs.marker.reindex /\ fs'.marker = [fs.marker EXCEPT !.reindex = TRUE]
             \/ ~fs.marker.reconciled /\ fs'.marker = [fs.marker EXCEPT !.reconciled = TRUE]
      PROVE  ~fs'.marker.reset /\ ~fs'.marker.complete
  BY <1>4 DEF ValidMarker, Markers
<1>5. CASE fs'.marker = fs.marker \/ fs'.marker = None
  BY <1>5
<1>6. \/ fs.marker = None \/ fs'.marker = fs.marker \/ fs'.marker = None
      \/ \E t \in Trees, r \in BOOLEAN : fs'.marker = NewMarker(t, r)
      \/ /\ fs.marker \in Markers /\ ValidMarker(fs.marker)
         /\ \/ ~fs.marker.reindex /\ fs'.marker = [fs.marker EXCEPT !.reindex = TRUE]
            \/ ~fs.marker.reconciled /\ fs'.marker = [fs.marker EXCEPT !.reconciled = TRUE]
  BY <1>1, ZenonT(60) DEF MarkerStep, ProgressLabels
<1> QED
  BY <1>2, <1>3, <1>4, <1>5, <1>6, ZenonT(60)

LEMMA IdleProgress ==
    ASSUME TypeInv, TransactionInv, ProgressInv, [Next]_vars, Idle,
           pc \in ProgressLabels => fs'.marker = fs.marker \/ fs'.marker = None
    PROVE  ProgressInv'
<1>1. \/ fs'.marker = fs.marker
      \/ fs'.marker = None
      \/ ~fs'.marker.reset /\ ~fs'.marker.complete
  BY IdleMarker
<1>2. fs'.marker # None /\ pc' \in ProgressLabels => fs'.marker = fs.marker /\ pc' = pc
  BY DEF Idle
<1> QED
  BY <1>1, <1>2 DEF ProgressInv, Idle, ProgressLabels

LEMMA ProgressInvStep ==
    RollbackInv /\ ServedInv /\ TransactionInv /\ ProgressInv /\ [Next]_vars => ProgressInv'
<1> SUFFICES ASSUME RollbackInv, ServedInv, TransactionInv, ProgressInv, [Next]_vars
             PROVE  ProgressInv'
  OBVIOUS
<1>type. /\ fs \in CoreDirectory /\ run \in RunRecords
         /\ pc \in MarkLabels => run.mark \in Markers
         /\ (holder = None) <=> (pc = "idle")
         /\ drupal \in [generator : Trees, dirty : BOOLEAN, indexedUnder : Dirs]
         /\ TypeInv /\ AmbiguousFailures = FALSE
  BY DEF RollbackInv, TypeInv, TypeOK
<1> USE DEF ProgressLabels
<1>look. ASSUME Resume \/ ResumeAccepted \/ Compare \/ StageVerify \/ Activate
                \/ Verify \/ Rollback \/ Status \/ Finish \/ Release
         PROVE  Idle /\ pc \notin ProgressLabels
  <2>1. fs' = fs /\ drupal' = drupal /\ base' = base /\ pc \notin ProgressLabels
    BY <1>look DEF Resume, ResumeAccepted, Compare, StageVerify, Activate, Verify,
                   Rollback, Status, Finish, Release, Decide, ReadFails, outside
  <2>2. pc' \notin ProgressLabels
    BY <1>look, <1>type
       DEF Resume, ResumeAccepted, Compare, StageVerify, Activate, MakeRoom, Verify,
           Rollback, RolledBack, Status, Finish, Release, Decide, ReadFails,
           Recovery, NotReconciled, RunRecords, SwapLabels
  <2> QED
    BY <2>1, <2>2 DEF Idle
<1>remove. ASSUME NEW label \in Labels \ ProgressLabels, NEW d \in DirNames,
                  NEW next \in Labels \ ProgressLabels, RemoveStep(label, d, next)
           PROVE  Idle /\ pc \notin ProgressLabels
  <2>1. pc' = next \/ pc' = "failed"
    BY <1>remove, <1>type, RemoveKeepsMarker DEF RemoveStep
  <2> QED
    BY <1>remove, <2>1 DEF Idle, RemoveStep, outside
<1>clear. ASSUME ClearPrevious \/ ClearStaged \/ ClearAbandoned \/ StageClear
                 \/ ClearInterrupted \/ RollbackClear \/ DropPrevious
          PROVE  Idle /\ pc \notin ProgressLabels
  BY <1>clear, <1>remove
     DEF ClearPrevious, ClearStaged, ClearAbandoned, StageClear, ClearInterrupted,
         RollbackClear, DropPrevious, Remaining, DirNames, Labels, SwapLabels, RollbackLabels
<1>shift. ASSUME NEW source \in DirNames, NEW target \in DirNames,
                 NEW next \in Labels \ ProgressLabels, NEW onError \in Labels \ ProgressLabels,
                 Move(source, target, next, onError), UNCHANGED outside
          PROVE  Idle
  <2>1. pc' = next \/ pc' = onError
    BY <1>shift, <1>type, MoveKeepsMarker
  <2> QED
    BY <1>shift, <2>1 DEF Idle, outside
<1>move. ASSUME RetainPrevious \/ RetainInterrupted \/ Install \/ Restore
                \/ RollbackRetain \/ RollbackRestore
         PROVE  Idle /\ pc \notin ProgressLabels
  BY <1>move, <1>shift
     DEF RetainPrevious, RetainInterrupted, Install, Restore, RollbackRetain,
         RollbackRestore, RolledBack, MoveStep, DirNames, Labels, SwapLabels, RollbackLabels
<1>record. ASSUME RecordReindex \/ Supersede \/ Begin
           PROVE  Idle /\ pc \notin ProgressLabels
  <2>1. \/ pc' = "failed"
        \/ RecordReindex /\ pc' = (IF run.mark.reconciled THEN "finish" ELSE "activate")
        \/ pc' = "stageClear"
    BY <1>record, <1>type, WriteMarkerWrites DEF RecordReindex, Supersede, Begin
  <2> QED
    BY <1>record, <2>1 DEF RecordReindex, Supersede, Begin, Idle, outside
<1>other. ASSUME Publish \/ Start \/ StageCopy \/ Cleanup \/ Create \/ Reload
          PROVE  Idle /\ pc \notin ProgressLabels
  BY <1>other, <1>type
     DEF Publish, Start, StageCopy, Cleanup, Create, Reload, Reconcile, NotReconciled,
         Recovery, Call, Decide, Idle, outside
<1>1. CASE Accept
  <2>1. /\ pc = "accept" /\ drupal' = drupal /\ run.mark \in Markers
        /\ fs.marker = run.mark /\ ~run.mark.reconciled
    BY <1>1, <1>type DEF Accept, TransactionInv, UnacceptedLabels, MarkLabels, Labels, RollbackLabels
  <2>2. pc' = "finish" \/ pc' = Recovery
    BY <1>1, <1>type, WriteMarkerWrites DEF Accept
  <2>3. pc' \notin ProgressLabels
    BY <2>2 DEF Recovery
  <2>4. fs'.marker = fs.marker => base' = base
    BY <1>1, <2>1 DEF Accept, Markers
  <2> QED
    BY <2>1, <2>3, <2>4, <1>type, IdleProgress DEF Idle
<1>2. CASE ResetTrackers
  <2>1. /\ pc = "resetTrackers" /\ fs' = fs /\ base' = base /\ fs.marker = run.mark
        /\ ~run.mark.reset /\ run.mark \in Markers /\ ValidMarker(fs.marker)
    BY <1>2, <1>type
       DEF ResetTrackers, Drush, TransactionInv, ReindexPhase, MarkLabels, Labels, RollbackLabels
  <2>2. ~fs.marker.complete /\ ~fs.marker.reset
    BY <2>1 DEF ValidMarker
  <2>3. \/ pc' = "recordReset" /\ drupal'.dirty
        \/ pc' = "failed"
    BY <1>2, <1>type DEF ResetTrackers, Drush
  <2> QED
    BY <2>1, <2>2, <2>3 DEF ProgressInv
<1>3. CASE RecordReset
  <2>1. /\ pc = "recordReset" /\ drupal' = drupal /\ base' = base /\ fs.marker = run.mark
        /\ run.mark \in Markers /\ ~run.mark.reset /\ ValidMarker(run.mark)
    BY <1>3, <1>type
       DEF RecordReset, TransactionInv, ReindexPhase, MarkLabels, Labels, RollbackLabels, outside
  <2>2. run'.mark = [run.mark EXCEPT !.reset = TRUE]
    BY <1>3, <1>type DEF RecordReset, RunRecords
  <2>3. run'.mark.complete = run.mark.complete /\ ~run.mark.complete
    BY <2>1, <2>2 DEF Markers, ValidMarker
  <2>4. /\ fs'.marker = run'.mark \/ fs'.marker = fs.marker
        /\ pc' = Remaining(run'.mark) \/ pc' = "failed"
    BY <1>3, <1>type, WriteMarkerWrites DEF RecordReset
  <2>5. pc' \notin ProgressLabels
    BY <2>4 DEF Remaining
  <2> QED
    BY <2>1, <2>3, <2>4, <2>5 DEF ProgressInv
<1>4. CASE Index
  <2>1. /\ pc = "index" /\ fs' = fs /\ base' = base /\ fs.marker = run.mark
        /\ fs.marker # None /\ fs.marker.reset /\ fs.marker.reconciled /\ ~fs.marker.complete
    BY <1>4, <1>type
       DEF Index, Drush, TransactionInv, ReindexPhase, ReindexLabels, MarkLabels, Labels, RollbackLabels
  <2>2. base # None => loaded = fs.marker.desired
    BY <2>1 DEF RollbackInv, Inv, DirectoryInv, Reconciled, ServedInv, Served
  <2>3. \/ /\ pc' = "recordIndexed"
           /\ drupal'.indexedUnder = IF drupal.dirty THEN loaded ELSE drupal.indexedUnder
        \/ pc' = "failed" /\ drupal' = drupal
        \/ /\ pc' = "failed"
           /\ drupal'.indexedUnder = IF drupal.dirty THEN loaded ELSE drupal.indexedUnder
    BY <1>4, <1>type DEF Index, Drush
  <2>4. base # None => drupal.dirty \/ drupal.indexedUnder = fs.marker.desired
    BY <2>1 DEF ProgressInv
  <2> QED
    BY <2>1, <2>2, <2>3, <2>4 DEF ProgressInv
<1>5. CASE RecordIndexed
  <2>1. /\ pc = "recordIndexed" /\ drupal' = drupal /\ base' = base /\ fs.marker = run.mark
        /\ fs.marker # None /\ run.mark \in Markers
    BY <1>5, <1>type
       DEF RecordIndexed, TransactionInv, MarkLabels, Labels, RollbackLabels, outside
  <2>2. run'.mark = [run.mark EXCEPT !.complete = TRUE]
    BY <1>5, <1>type DEF RecordIndexed, RunRecords
  <2>3. run'.mark.desired = run.mark.desired
    BY <2>1, <2>2 DEF Markers
  <2>4. /\ fs'.marker = run'.mark \/ fs'.marker = fs.marker
        /\ pc' = Remaining(run'.mark) \/ pc' = "failed"
    BY <1>5, <1>type, WriteMarkerWrites DEF RecordIndexed
  <2>5. pc' \notin ProgressLabels
    BY <2>4 DEF Remaining
  <2>6. base # None => drupal.indexedUnder = run.mark.desired
    BY <2>1 DEF ProgressInv
  <2> QED
    BY <2>1, <2>3, <2>4, <2>5, <2>6 DEF ProgressInv
<1>6. CASE Crash
  BY <1>6 DEF Crash, ProgressInv
<1>7. CASE ModuleUpdate
  BY <1>7, <1>type DEF ModuleUpdate, ProgressInv
<1>8. CASE SolrRestart
  BY <1>8 DEF SolrRestart, ProgressInv
<1>9. CASE ExternalEdit
  <2>1. /\ pc' = pc /\ drupal' = drupal /\ pc = "idle" /\ fs'.marker = fs.marker
        /\ base' = None \/ ~fs.pending
    BY <1>9, <1>type DEF ExternalEdit, CoreDirectory
  <2> QED
    BY <2>1 DEF ProgressInv, TransactionInv
<1>10. CASE OperatorRemovesPending
  BY <1>10, <1>type DEF OperatorRemovesPending, Emptied, ProgressInv, CoreDirectory
<1>11. ASSUME NEW r \in Runs, Generate(r) \/ AcquireLock(r) PROVE ProgressInv'
  BY <1>11 DEF Generate, AcquireLock, ProgressInv
<1>12. CASE UNCHANGED vars
  BY <1>12 DEF vars, ProgressInv
<1>idle. ASSUME Idle, pc \notin ProgressLabels PROVE ProgressInv'
  BY <1>idle, <1>type, IdleProgress
<1> QED
  BY <1>look, <1>clear, <1>move, <1>record, <1>other, <1>idle,
     <1>1, <1>2, <1>3, <1>4, <1>5, <1>6, <1>7, <1>8, <1>9, <1>10, <1>11, <1>12
     DEF Next, HolderStep, Environment

LEMMA ReportInvStep ==
    RollbackInv /\ ServedInv /\ TransactionInv /\ RunInv /\ ProgressInv /\ ReportInv /\ [Next]_vars
        => ReportInv'
<1> SUFFICES ASSUME RollbackInv, ServedInv, TransactionInv, RunInv, ProgressInv, ReportInv,
                    [Next]_vars
             PROVE  ReportInv'
  OBVIOUS
<1>type. /\ fs \in CoreDirectory /\ run \in RunRecords /\ TypeInv
         /\ pc \in MarkLabels => run.mark \in Markers
         /\ drupal \in [generator : Trees, dirty : BOOLEAN, indexedUnder : Dirs]
         /\ (holder = None) <=> (pc = "idle")
  BY DEF RollbackInv, TypeInv, TypeOK
<1> DEFINE Elsewhere == pc' \notin ReportLabels \cup {"resume"}
<1> USE DEF ReportLabels
\* A step at one of the labels that touches nothing the report speaks of.
<1>same. ASSUME pc \in ReportLabels, fs' = fs, base' = base,
                drupal'.indexedUnder = drupal.indexedUnder, loaded' = loaded,
                run'.updated = run.updated, run'.reindexed = run.reindexed, pc' # "resume"
         PROVE  ReportInv'
  BY <1>same DEF ReportInv, Served
<1>1. CASE Compare
  <2>1. /\ run'.updated = run.updated /\ run'.reindexed = run.reindexed
        /\ fs' = fs /\ drupal' = drupal /\ loaded' = loaded /\ base' = base
        /\ pc = "compare" /\ pc' # "resume"
    BY <1>1, <1>type DEF Compare, Decide, ReadFails, RunRecords, outside
  <2> QED
    BY <2>1, <1>same
<1>2. CASE Publish
  BY <1>2, <1>type, <1>same DEF Publish
<1>3. CASE Resume
  BY <1>3, <1>type DEF Resume, Decide, ReadFails, RunRecords, ReportInv
<1>4. CASE Cleanup
  <2>1. /\ pc = "cleanup" /\ run.mark \in Markers /\ fs.marker = run.mark /\ fs.marker # None
        /\ run.mark.reconciled /\ (run.mark.reindex => run.mark.complete)
        /\ drupal' = drupal /\ base' = base /\ loaded' = loaded
    BY <1>4, <1>type DEF Cleanup, TransactionInv, ReindexPhase, ReindexLabels, MarkLabels,
           Labels, RollbackLabels, outside
  <2>2. run'.reindexed = run.mark.reindex /\ pc' # "resume"
    BY <1>4, <1>type DEF Cleanup, Call, RunRecords
  <2>3. fs'.conf = fs.conf /\ fs.conf = run.mark.desired
    BY <1>4, <1>type DEF Cleanup, Call, Emptied, HalfEmptied, CoreDirectory, RunInv, ReindexLabels
  <2>4. base # None => Served
    BY <2>1 DEF ServedInv, Reconciled
  <2>5. base # None /\ run.mark.reindex => drupal.indexedUnder = run.mark.desired
    BY <2>1 DEF ProgressInv
  <2> QED
    BY <2>1, <2>2, <2>3, <2>4, <2>5 DEF ReportInv, Served
<1>5. CASE ModuleUpdate
  <2>1. drupal'.indexedUnder = drupal.indexedUnder
    BY <1>5, <1>type DEF ModuleUpdate
  <2> QED
    BY <1>5, <2>1 DEF ModuleUpdate, ReportInv, Served
<1>6. CASE SolrRestart
  <2>1. Served => Served'
    BY <1>6, TreesAssumption DEF SolrRestart, Served
  <2> QED
    BY <1>6, <2>1 DEF SolrRestart, ReportInv
<1>7. ASSUME NEW r \in Runs, Generate(r) PROVE ReportInv'
  BY <1>7 DEF Generate, ReportInv, Served
<1>8. ASSUME NEW r \in Runs, AcquireLock(r) PROVE ReportInv'
  BY <1>8 DEF AcquireLock, NoRun, ReportInv
<1>9. CASE UNCHANGED vars
  BY <1>9 DEF vars, ReportInv, Served
\* All other steps lead elsewhere.
<1>look. ASSUME ResumeAccepted \/ StageVerify \/ Activate \/ Verify \/ Rollback \/ Status
                \/ Finish \/ Release \/ Crash \/ ExternalEdit \/ OperatorRemovesPending
         PROVE  Elsewhere
  BY <1>look, <1>type
     DEF ResumeAccepted, StageVerify, Activate, MakeRoom, Verify, Rollback, RolledBack,
         Status, Finish, Release, Decide, ReadFails, Recovery, NotReconciled, RunRecords,
         SwapLabels, Crash, ExternalEdit, OperatorRemovesPending
<1>remove. ASSUME NEW label, NEW d \in DirNames, NEW next,
                  next \notin ReportLabels \cup {"resume"}, RemoveStep(label, d, next)
           PROVE  Elsewhere
  BY <1>remove, <1>type, RemoveKeepsMarker DEF RemoveStep
<1>clear. ASSUME ClearPrevious \/ ClearStaged \/ ClearAbandoned \/ StageClear
                 \/ ClearInterrupted \/ RollbackClear \/ DropPrevious
          PROVE  Elsewhere
  BY <1>clear, <1>remove
     DEF ClearPrevious, ClearStaged, ClearAbandoned, StageClear, ClearInterrupted,
         RollbackClear, DropPrevious, Remaining, DirNames
<1>shift. ASSUME NEW source \in DirNames, NEW target \in DirNames, NEW next, NEW onError,
                 next \notin ReportLabels \cup {"resume"},
                 onError \notin ReportLabels \cup {"resume"},
                 Move(source, target, next, onError)
          PROVE  Elsewhere
  BY <1>shift, <1>type, MoveKeepsMarker
<1>move. ASSUME RetainPrevious \/ RetainInterrupted \/ Install \/ Restore
                \/ RollbackRetain \/ RollbackRestore
         PROVE  Elsewhere
  BY <1>move, <1>shift
     DEF RetainPrevious, RetainInterrupted, Install, Restore, RollbackRetain,
         RollbackRestore, RolledBack, MoveStep, DirNames
<1>record. ASSUME RecordReindex \/ Supersede \/ Begin \/ Accept \/ RecordReset \/ RecordIndexed
           PROVE  Elsewhere
  <2>1. \/ pc' = "failed" \/ pc' = "stageClear"
        \/ pc' = (IF run.mark.reconciled THEN "finish" ELSE "activate")
        \/ pc' = "finish" \/ pc' = Recovery
        \/ pc' = Remaining(run'.mark)
    BY <1>record, <1>type, WriteMarkerWrites
       DEF RecordReindex, Supersede, Begin, Accept, RecordReset, RecordIndexed
  <2> QED
    BY <2>1 DEF Recovery, Remaining
<1>other. ASSUME Start \/ StageCopy \/ Create \/ Reload \/ ResetTrackers \/ Index
          PROVE  Elsewhere
  BY <1>other
     DEF Start, StageCopy, Create, Reload, Reconcile, NotReconciled, Recovery, Call, Decide,
         ResetTrackers, Index, Drush
<1>elsewhere. ASSUME Elsewhere PROVE ReportInv'
  BY <1>elsewhere DEF ReportInv
<1> HIDE DEF Elsewhere
<1> QED
  BY <1>look, <1>clear, <1>move, <1>record, <1>other, <1>elsewhere,
     <1>1, <1>2, <1>3, <1>4, <1>5, <1>6, <1>7, <1>8, <1>9
     DEF Next, HolderStep, Environment

\* All that holds of a refresh while failures are not ambiguous.
RefreshInv ==
    RollbackInv /\ ServedInv /\ TransactionInv /\ RunInv /\ ProgressInv /\ ReportInv

LEMMA RefreshInvInit == AmbiguousFailures = FALSE /\ Init => RefreshInv
<1>1. Init => ProgressInv /\ ReportInv
  BY DEF Init, Settled, ProgressInv, ReportInv, ReportLabels
<1> QED
  BY <1>1, RollbackInvInit, ServedInvInit, TransactionInvInit, RunInvInit DEF RefreshInv

LEMMA RefreshInvStep == RefreshInv /\ [Next]_vars => RefreshInv'
<1> SUFFICES ASSUME RefreshInv, [Next]_vars PROVE RefreshInv'
  OBVIOUS
<1>1. RollbackInv' /\ TypeInv
  BY RollbackInvStep DEF RefreshInv, RollbackInv
<1>2. ServedInv' /\ TransactionInv' /\ RunInv' /\ ProgressInv'
  BY <1>1, ServedInvStep, TransactionInvStep, RunInvStep, ProgressInvStep DEF RefreshInv
<1>3. ReportInv'
  BY ReportInvStep DEF RefreshInv
<1> QED
  BY <1>1, <1>2, <1>3 DEF RefreshInv

\* A run that says it updated the core or reindexed has: the core runs its tree,
\* and every item was indexed under it, however often the transaction was
\* interrupted, retried or superseded before.
THEOREM SuccessReportsTheTruth ==
    ASSUME AmbiguousFailures = FALSE
    PROVE  Spec => []SuccessIsReal
<1>1. Init => RefreshInv
  BY RefreshInvInit
<1>2. RefreshInv => SuccessIsReal
  BY DEF RefreshInv, RunInv, ReportInv, ReportLabels, Served, SuccessIsReal
<1> QED
  BY <1>1, <1>2, RefreshInvStep, PTL DEF Spec

\* A marker that says the reindex is complete is right: no retry takes over the
\* progress made under another tree.
THEOREM RecordedProgressIsTrue ==
    ASSUME AmbiguousFailures = FALSE
    PROVE  Spec => []ReindexProgressIsTrue
<1>1. Init => RefreshInv
  BY RefreshInvInit
<1>2. RefreshInv => ReindexProgressIsTrue
  BY DEF RefreshInv, ProgressInv, TransactionInv, ReindexProgressIsTrue
<1> QED
  BY <1>1, <1>2, RefreshInvStep, PTL DEF Spec

-----------------------------------------------------------------------------
(* The swap of the directories, and one failing call in it.                *)

\* The step the swap goes on with, at its labels and while it stages again.
NextSwap == IF pc \in StageLabels THEN run.then ELSE pc
SwapSteps == SwapLabels \cup StageLabels \cup {"retainInterrupted", "verify"}

\* What the holder has found or prepared by the time it reaches a step of the
\* swap: the staged tree is the desired one, conf is there to be moved away,
\* and it knows of the previous tree it can put back.
SwapInv ==
    /\ pc = "stageVerify" => fs.new = run.gen
    /\ pc \in SwapLabels \cup {"retainInterrupted"} => fs.new = run.mark.desired
    /\ NextSwap \in {"retainPrevious", "clearInterrupted", "retainInterrupted"}
           => fs.conf # None
    /\ NextSwap \in {"clearInterrupted", "retainInterrupted", "install"} /\ fs.previous # None
           => run.hadPrevious
    /\ pc = "verify" => fs.conf = run.mark.desired
    /\ base # None => fs.conf \in Trees \cup {None}

\* A step that leaves conf alone and leads out of the swap.
OutOfSwap == fs'.conf = fs.conf /\ base' = base /\ pc' \notin SwapSteps

LEMMA OutOfSwapKeeps ==
    ASSUME SwapInv, OutOfSwap
    PROVE  SwapInv'
BY DEF SwapInv, OutOfSwap, SwapSteps, NextSwap, SwapLabels, StageLabels

LEMMA RemovesOutOfSwap ==
    ASSUME NEW label, NEW d \in DirNames \ {"conf"}, NEW next, next \notin SwapSteps,
           fs \in CoreDirectory, AmbiguousFailures = FALSE, RemoveStep(label, d, next)
    PROVE  OutOfSwap
<1>1. fs'.conf = fs.conf /\ (pc' = next \/ pc' = "failed")
  BY CleanRemove DEF RemoveStep, CoreDirectory, DirNames
<1> QED
  BY <1>1 DEF OutOfSwap, RemoveStep, outside, SwapSteps, SwapLabels, StageLabels

LEMMA SwapInvStep == RefreshInv /\ SwapInv /\ [Next]_vars => SwapInv'
<1> SUFFICES ASSUME RefreshInv, SwapInv, [Next]_vars PROVE SwapInv'
  OBVIOUS
<1>type. /\ fs \in CoreDirectory /\ run \in RunRecords /\ pc \in Labels
         /\ base \in Trees \cup {None}
         /\ pc # "idle" => run.gen \in Trees
         /\ pc \in MarkLabels => run.mark \in Markers
         /\ AmbiguousFailures = FALSE
         /\ (holder = None) <=> (pc = "idle")
  BY DEF RefreshInv, RollbackInv, TypeInv, TypeOK
<1>inv. /\ DirectoryInv /\ MarkerInv /\ StepInv /\ RunInv
  BY DEF RefreshInv, RollbackInv, Inv
<1>swap. /\ pc = "stageVerify" => fs.new = run.gen
         /\ pc \in SwapLabels \cup {"retainInterrupted"} => fs.new = run.mark.desired
         /\ NextSwap \in {"retainPrevious", "clearInterrupted", "retainInterrupted"}
                => fs.conf # None
         /\ NextSwap \in {"clearInterrupted", "retainInterrupted", "install"} /\ fs.previous # None
                => run.hadPrevious
         /\ base # None => fs.conf \in Trees \cup {None}
  BY DEF SwapInv
<1> USE DEF Labels, MarkLabels, StageLabels, SwapLabels, RollbackLabels, SwapSteps, DirNames
<1>look. ASSUME Resume \/ ResumeAccepted \/ Compare \/ Verify \/ Rollback \/ Status
                \/ Finish \/ Release
         PROVE  OutOfSwap
  BY <1>look, <1>type
     DEF Resume, ResumeAccepted, Compare, Verify, Rollback, RolledBack, Status, Finish,
         Release, Decide, ReadFails, Recovery, NotReconciled, RunRecords, OutOfSwap, outside
<1>clear. ASSUME ClearPrevious \/ ClearStaged \/ ClearAbandoned \/ RollbackClear \/ DropPrevious
          PROVE  OutOfSwap
  BY <1>clear, <1>type, RemovesOutOfSwap
     DEF ClearPrevious, ClearStaged, ClearAbandoned, RollbackClear, DropPrevious, Remaining
<1>record. ASSUME RecordReindex \/ RecordReset \/ RecordIndexed PROVE OutOfSwap
  <2>1. /\ fs'.conf = fs.conf /\ base' = base
        /\ \/ pc' = (IF run.mark.reconciled THEN "finish" ELSE "activate")
           \/ pc' = Remaining(run'.mark) \/ pc' = "failed"
    BY <1>record, <1>type, CleanWrite
       DEF RecordReindex, RecordReset, RecordIndexed, CoreDirectory, outside
  <2> QED
    BY <2>1 DEF OutOfSwap, Remaining
<1>other. ASSUME \/ Publish \/ Start \/ Create \/ Reload \/ ResetTrackers \/ Index \/ Cleanup
                 \/ Crash \/ OperatorRemovesPending
          PROVE  OutOfSwap
  BY <1>other, <1>type
     DEF Publish, Start, Create, Reload, Reconcile, NotReconciled, Recovery, ResetTrackers,
         Index, Drush, Cleanup, Emptied, HalfEmptied, Call, Decide, Crash, OperatorRemovesPending,
         OutOfSwap, CoreDirectory, outside
<1>same. ASSUME fs' = fs, run' = run, pc' = pc, base' = base PROVE SwapInv'
  BY <1>same DEF SwapInv, NextSwap
<1>1. CASE Supersede \/ Begin
  <2>1. /\ fs'.conf = fs.conf /\ base' = base
        /\ pc' = "stageClear" \/ pc' = "failed"
    BY <1>1, <1>type, CleanWrite DEF Supersede, Begin, CoreDirectory, outside
  <2>2. run.then = "activate" /\ run'.then = run.then
    BY <1>1, <1>type, <1>inv DEF Supersede, Begin, RunRecords, StepInv
  <2> QED
    BY <2>1, <2>2, <1>swap DEF SwapInv, NextSwap
<1>2. CASE StageClear
  <2>1. /\ fs'.conf = fs.conf /\ fs'.previous = fs.previous /\ base' = base /\ run' = run
        /\ pc = "stageClear" /\ (pc' = "stageCopy" \/ pc' = "failed")
    BY <1>2, <1>type, CleanRemove DEF StageClear, RemoveStep, CoreDirectory, outside
  <2> QED
    BY <2>1, <1>swap DEF SwapInv, NextSwap
<1>3. CASE StageCopy
  <2>1. /\ fs'.conf = fs.conf /\ fs'.previous = fs.previous /\ base' = base /\ run' = run
        /\ pc = "stageCopy"
        /\ (pc' = "stageVerify" /\ fs'.new = run.gen) \/ pc' = "failed"
    BY <1>3, <1>type DEF StageCopy, Call, CoreDirectory, outside
  <2> QED
    BY <2>1, <1>swap DEF SwapInv, NextSwap
<1>4. CASE StageVerify
  <2>1. /\ fs' = fs /\ base' = base /\ run'.then = "activate"
        /\ run'.mark = run.mark /\ run'.hadPrevious = run.hadPrevious
        /\ pc = "stageVerify"
        /\ (pc' = run.then /\ fs.new = run.gen) \/ pc' = "failed"
    BY <1>4, <1>type DEF StageVerify, Decide, ReadFails, RunRecords, outside
  <2>2. run.mark.desired = run.gen /\ run.then \in SwapLabels \cup {"activate"}
    BY <2>1, <1>inv, <1>type DEF RunInv, OwnLabels, MarkerInv, RunRecords
  <2> QED
    BY <2>1, <2>2, <1>swap DEF SwapInv, NextSwap
<1>5. CASE Activate
  <2> DEFINE room == MakeRoom(fs.conf # None, fs.previous # None)
  <2>1. /\ fs' = fs /\ base' = base /\ run'.mark = run.mark /\ pc = "activate"
        /\ \/ pc' = "status" \/ pc' = "failed"
           \/ /\ pc' = room /\ fs.new = run.mark.desired
              /\ run'.hadPrevious = (fs.previous # None)
           \/ /\ pc' = "stageClear" /\ run'.then = room
              /\ run'.hadPrevious = (fs.previous # None)
    BY <1>5, <1>type DEF Activate, Decide, ReadFails, RunRecords, outside
  <2>2. \/ room = "retainPrevious" /\ fs.conf # None
        \/ room = "clearInterrupted" /\ fs.conf # None
        \/ room = "install"
    BY DEF MakeRoom
  <2> HIDE DEF room
  <2> QED
    BY <2>1, <2>2, <1>swap DEF SwapInv, NextSwap
<1>6. CASE RetainPrevious
  <2>1. /\ pc = "retainPrevious" /\ base' = base
        /\ run' = [run EXCEPT !.hadPrevious = (pc' = "install")]
        /\ \/ fs' = Moved("conf", "previous") /\ pc' = "install"
           \/ fs' = fs /\ pc' = "failed"
    BY <1>6, <1>type, CleanMove DEF RetainPrevious, outside
  <2>2. run'.mark = run.mark /\ (pc' = "install" => run'.hadPrevious)
    BY <2>1, <1>type DEF RunRecords
  <2>3. \/ fs'.conf = None /\ fs'.new = fs.new /\ pc' = "install"
        \/ fs' = fs /\ pc' = "failed"
    BY <2>1, <1>type DEF Moved, CoreDirectory
  <2> QED
    BY <2>1, <2>2, <2>3, <1>swap DEF SwapInv, NextSwap
<1>7. CASE ClearInterrupted
  <2>1. /\ fs'.conf = fs.conf /\ fs'.previous = fs.previous /\ fs'.new = fs.new
        /\ base' = base /\ run' = run /\ pc = "clearInterrupted"
        /\ pc' = "retainInterrupted" \/ pc' = "failed"
    BY <1>7, <1>type, CleanRemove DEF ClearInterrupted, RemoveStep, CoreDirectory, outside
  <2> QED
    BY <2>1, <1>swap DEF SwapInv, NextSwap
<1>8. CASE RetainInterrupted
  <2>1. /\ pc = "retainInterrupted" /\ base' = base /\ run' = run
        /\ \/ fs' = Moved("conf", "abandoned") /\ pc' = "install"
           \/ fs' = fs /\ pc' = "failed"
    BY <1>8, <1>type, CleanMove DEF RetainInterrupted, MoveStep, outside
  <2>2. \/ /\ fs'.conf = None /\ fs'.new = fs.new /\ fs'.previous = fs.previous
           /\ pc' = "install"
        \/ fs' = fs /\ pc' = "failed"
    BY <2>1, <1>type DEF Moved, CoreDirectory
  <2> QED
    BY <2>1, <2>2, <1>swap DEF SwapInv, NextSwap
<1>9. CASE Install
  <2>1. /\ pc = "install" /\ base' = base /\ run' = run
        /\ \/ fs' = Moved("new", "conf") /\ pc' = "verify"
           \/ fs' = fs /\ pc' = (IF run.hadPrevious THEN "restore" ELSE "failed")
    BY <1>9, <1>type, CleanMove DEF Install, MoveStep, outside
  <2>2. fs.conf = None /\ fs.new = run.mark.desired /\ run.mark.desired \in Trees
    BY <2>1, <1>inv, <1>swap, <1>type DEF StepInv, Room, Markers
  <2>3. \/ fs'.conf = fs.new /\ pc' = "verify"
        \/ fs' = fs /\ (pc' = "restore" \/ pc' = "failed")
    BY <2>1, <2>2, <1>type DEF Moved, CoreDirectory
  <2> QED
    BY <2>1, <2>2, <2>3, <1>swap DEF SwapInv, NextSwap
<1>10. CASE Restore \/ RollbackRestore
  <2>1. /\ pc \in {"restore", "rollbackRestore"} /\ base' = base
        /\ pc' = "rollback" \/ pc' = RolledBack \/ pc' = "failed"
        /\ fs' = Moved("previous", "conf") \/ fs' = fs
    BY <1>10, <1>type, CleanMove DEF Restore, RollbackRestore, MoveStep, outside
  <2>2. base # None => fs.previous \in {None, base}
    BY <2>1, <1>inv DEF DirectoryInv, MarkerInv, Reconciled, UnacceptedLabels
  <2>3. fs'.conf = fs.previous \/ fs' = fs
    BY <2>1, <1>inv, <1>type DEF Moved, CoreDirectory, StepInv, Room
  <2> QED
    BY <2>1, <2>2, <2>3, <1>swap, <1>type DEF SwapInv, NextSwap, RolledBack
<1>11. CASE RollbackRetain
  <2>1. /\ base' = base
        /\ pc' = "rollbackRestore" \/ pc' = "failed"
        /\ fs' = Moved("conf", "new") \/ fs' = fs
    BY <1>11, <1>type, CleanMove DEF RollbackRetain, MoveStep, outside
  <2>2. fs'.conf = None \/ fs' = fs
    BY <2>1, <1>type DEF Moved, CoreDirectory
  <2> QED
    BY <2>1, <2>2, <1>swap DEF SwapInv, NextSwap
<1>12. CASE Accept
  <2> DEFINE mark == [run.mark EXCEPT !.reconciled = TRUE]
  <2>1. /\ pc = "accept" /\ run.mark \in Markers
        /\ base' = base \/ base' = mark.desired
        /\ pc' = "finish" \/ pc' = Recovery
        /\ fs'.conf = fs.conf
    BY <1>12, <1>type, CleanWrite DEF Accept, CoreDirectory
  <2>2. mark.desired = run.mark.desired /\ run.mark.desired \in Trees
    BY <2>1 DEF Markers
  <2>3. fs.conf = run.mark.desired
    BY <2>1, <1>inv DEF StepInv, MarkerInv
  <2> HIDE DEF mark
  <2> QED
    BY <2>1, <2>2, <2>3, <1>swap DEF SwapInv, NextSwap, Recovery
<1>13. CASE ExternalEdit
  BY <1>13, <1>type DEF ExternalEdit, SwapInv, NextSwap, CoreDirectory
<1>14. ASSUME NEW r \in Runs, AcquireLock(r) PROVE OutOfSwap
  BY <1>14 DEF AcquireLock, OutOfSwap
<1>15. ASSUME NEW r \in Runs, Generate(r) PROVE SwapInv'
  BY <1>15, <1>same DEF Generate
<1>16. CASE ModuleUpdate \/ SolrRestart
  BY <1>16, <1>same DEF ModuleUpdate, SolrRestart
<1>17. CASE UNCHANGED vars
  BY <1>17, <1>same DEF vars
<1> QED
  BY <1>look, <1>clear, <1>record, <1>other, <1>1, <1>2, <1>3, <1>4, <1>5, <1>6, <1>7, <1>8,
     <1>9, <1>10, <1>11, <1>12, <1>13, <1>14, <1>15, <1>16, <1>17, OutOfSwapKeeps
     DEF Next, HolderStep, Environment

LEMMA SwapInvInit == Init => SwapInv
BY DEF Init, Settled, SwapInv, NextSwap, SwapLabels, StageLabels

\* Events are only ever spent.
Budgeted == \A event \in Events : budget[event] <= Budget[event]

LEMMA Spends ==
    ASSUME TypeInv, [Next]_vars
    PROVE  budget' = budget \/ \E event \in Events : Spend(event)
<1> USE DEF Call, Decide, ReadFails, Remove, Move, WriteMarker, RemoveStep, MoveStep, outside
<1>1. ASSUME HolderStep PROVE budget' = budget \/ Spend("fault")
  <2>1. ASSUME Resume \/ ResumeAccepted \/ Compare \/ StageVerify \/ Activate \/ Verify
               \/ Rollback \/ Status \/ Finish \/ Release
        PROVE  budget' = budget \/ Spend("fault")
    BY <2>1, Zenon DEF Resume, ResumeAccepted, Compare, StageVerify, Activate, Verify,
                       Rollback, Status, Finish, Release
  <2>2. ASSUME ClearPrevious \/ ClearStaged \/ ClearAbandoned \/ StageClear
               \/ ClearInterrupted \/ RollbackClear \/ DropPrevious
        PROVE  budget' = budget \/ Spend("fault")
    BY <2>2, Zenon DEF ClearPrevious, ClearStaged, ClearAbandoned, StageClear,
                       ClearInterrupted, RollbackClear, DropPrevious
  <2>3. ASSUME RetainPrevious \/ RetainInterrupted \/ Install \/ Restore
               \/ RollbackRetain \/ RollbackRestore
        PROVE  budget' = budget \/ Spend("fault")
    BY <2>3 DEF RetainPrevious, RetainInterrupted, Install, Restore, RollbackRetain,
                RollbackRestore
  <2>4. ASSUME RecordReindex \/ Supersede \/ Begin \/ Accept \/ RecordReset \/ RecordIndexed
        PROVE  budget' = budget \/ Spend("fault")
    BY <2>4 DEF RecordReindex, Supersede, Begin, Accept, RecordReset, RecordIndexed
  <2>5. ASSUME Publish \/ Start \/ StageCopy \/ Cleanup \/ Create \/ Reload
               \/ ResetTrackers \/ Index
        PROVE  budget' = budget \/ Spend("fault")
    BY <2>5, Zenon DEF Publish, Start, StageCopy, Cleanup, Create, Reload, Reconcile,
                       ResetTrackers, Index, Drush
  <2> QED
    BY <1>1, <2>1, <2>2, <2>3, <2>4, <2>5 DEF HolderStep
<1>2. ASSUME Environment PROVE budget' = budget \/ \E event \in Events : Spend(event)
  BY <1>2 DEF Environment, Crash, ModuleUpdate, ExternalEdit, SolrRestart,
              OperatorRemovesPending, Events
<1>3. ASSUME NEW r \in Runs, Generate(r) \/ AcquireLock(r) PROVE budget' = budget
  BY <1>3 DEF Generate, AcquireLock
<1> QED
  BY <1>1, <1>2, <1>3 DEF Next, vars, Events

\* No call has failed, Solr has restarted.
Clean == budget["fault"] = Budget["fault"]
Restarted == budget["restart"] < Budget["restart"]

\* What spending one event says of how many were spent.
LEMMA SpendingOne ==
    ASSUME TypeInv, Budgeted, NEW event \in Events, Spend(event)
    PROVE  /\ Budgeted'
           /\ Clean' => Clean
           /\ OneFailure' => OneFailure
           /\ event = "fault" => ~Clean' /\ (OneFailure' => Clean)
           /\ event = "restart" => Restarted' /\ (OneFailure' => ~Restarted)
           /\ event \in {"crash", "edit"} => ~OneFailure'
           /\ Restarted => Restarted'
<1>1. /\ budget \in [Events -> Nat] /\ Budget \in [Events -> Nat]
      /\ \A e \in Events : budget[e] <= Budget[e]
      /\ budget[event] > 0
  BY BudgetAssumption DEF TypeInv, TypeOK, Budgeted, Spend
<1>2. \A e \in Events : /\ budget'[e] = (IF e = event THEN budget[e] - 1 ELSE budget[e])
                        /\ budget[e] \in Nat /\ Budget[e] \in Nat
  BY <1>1 DEF Spend
<1>3. Budgeted'
  BY <1>1, <1>2 DEF Budgeted
<1>4. /\ budget'["fault"] = (IF event = "fault" THEN budget["fault"] - 1 ELSE budget["fault"])
      /\ budget'["restart"] = (IF event = "restart" THEN budget["restart"] - 1 ELSE budget["restart"])
      /\ budget'["crash"] = (IF event = "crash" THEN budget["crash"] - 1 ELSE budget["crash"])
      /\ budget'["edit"] = (IF event = "edit" THEN budget["edit"] - 1 ELSE budget["edit"])
      /\ \A e \in {"fault", "restart", "crash", "edit"} :
            budget[e] \in Nat /\ Budget[e] \in Nat /\ budget[e] <= Budget[e]
  BY <1>1, <1>2 DEF Events
<1> QED
  BY <1>3, <1>4 DEF Clean, Restarted, OneFailure

LEMMA BudgetedStep == TypeInv /\ Budgeted /\ [Next]_vars => Budgeted'
BY Spends, SpendingOne DEF Budgeted

LEMMA BudgetedInit == Init => Budgeted
BY BudgetAssumption DEF Init, Budgeted

LEMMA OneFailureBefore ==
    ASSUME TypeInv, Budgeted, [Next]_vars
    PROVE  (OneFailure' => OneFailure) /\ (Clean' => Clean) /\ (Restarted => Restarted')
BY Spends, SpendingOne DEF OneFailure, Clean, Restarted

\* The labels a run comes by only after something has gone wrong.
DetourLabels ==
    RollbackLabels \cup
    {"restore", "failed", "resumeAccepted", "recordReindex", "clearPrevious", "clearStaged",
     "clearAbandoned", "supersede", "clearInterrupted", "retainInterrupted"}

\* Without a failing call every run begins with nothing pending and goes
\* straight through the swap, with no previous tree before it makes one.
Straight ==
    /\ pc \notin DetourLabels /\ ~run.recovering
    /\ pc \in {"idle", "resume"} => ~fs.pending
    /\ pc \in {"begin", "activate", "retainPrevious"} \cup StageLabels => fs.previous = None

\* After one failing call conf is missing only while the holder is about to
\* put a tree there; with one restart Solr is asked for what it can do.
NeverBare == fs.conf = None => pc \in {"install", "restore", "rollbackRestore"}
Possible ==
    /\ loaded = None => Restarted
    /\ pc = "create" => loaded = None
    /\ pc = "reload" => loaded # None

OneFailureInv ==
    base # None /\ OneFailure => NeverBare /\ Possible /\ (Clean => Straight)

\* What holds before any step that is to leave OneFailureInv true.
Steady == RefreshInv /\ RefreshInv' /\ SwapInv /\ Budgeted /\ [Next]_vars

LEMMA NeverBareStep ==
    ASSUME Steady, NeverBare, Clean => Straight, base # None, OneFailure'
    PROVE  NeverBare'
<1>type. /\ fs \in CoreDirectory /\ pc \in Labels /\ run \in RunRecords
         /\ base \in Trees \cup {None}
         /\ pc \in MarkLabels => run.mark \in Markers
         /\ AmbiguousFailures = FALSE /\ TypeInv /\ Budgeted
         /\ (holder = None) <=> (pc = "idle")
  BY DEF Steady, RefreshInv, RollbackInv, TypeInv, TypeOK
<1>inv. DirectoryInv /\ MarkerInv /\ StepInv /\ SwapInv
  BY DEF Steady, RefreshInv, RollbackInv, Inv
<1>fault. Spend("fault") => Clean
  BY <1>type, SpendingOne DEF Events
<1>bare. pc \notin {"install", "restore", "rollbackRestore"} => fs.conf # None
  BY DEF NeverBare
<1> USE DEF Labels, MarkLabels, StageLabels, SwapLabels, RollbackLabels, DirNames
<1>kept. ASSUME fs'.conf = fs.conf, pc \notin {"install", "restore", "rollbackRestore"}
         PROVE  NeverBare'
  BY <1>kept, <1>bare DEF NeverBare
<1>look. ASSUME Resume \/ ResumeAccepted \/ Compare \/ StageVerify \/ Activate \/ Verify
                \/ Rollback \/ Status \/ Finish \/ Release
         PROVE  NeverBare'
  BY <1>look, <1>kept
     DEF Resume, ResumeAccepted, Compare, StageVerify, Activate, Verify, Rollback, Status,
         Finish, Release, Decide, ReadFails
<1>remove. ASSUME NEW label, label \notin {"install", "restore", "rollbackRestore"},
                  NEW d \in DirNames \ {"conf"}, NEW next, RemoveStep(label, d, next)
           PROVE  NeverBare'
  BY <1>remove, <1>kept, <1>type, RemoveKeepsConf DEF RemoveStep
<1>clear. ASSUME ClearPrevious \/ ClearStaged \/ ClearAbandoned \/ StageClear
                 \/ ClearInterrupted \/ RollbackClear \/ DropPrevious
          PROVE  NeverBare'
  BY <1>clear, <1>remove
     DEF ClearPrevious, ClearStaged, ClearAbandoned, StageClear, ClearInterrupted,
         RollbackClear, DropPrevious
<1>record. ASSUME RecordReindex \/ Supersede \/ Begin \/ Accept \/ RecordReset \/ RecordIndexed
           PROVE  NeverBare'
  BY <1>record, <1>kept, <1>type, WriteMarkerKeepsConf
     DEF RecordReindex, Supersede, Begin, Accept, RecordReset, RecordIndexed
<1>other. ASSUME \/ Publish \/ Start \/ StageCopy \/ Create \/ Reload \/ ResetTrackers
                 \/ Index \/ Cleanup \/ OperatorRemovesPending
          PROVE  NeverBare'
  BY <1>other, <1>kept, <1>type
     DEF Publish, Start, StageCopy, Create, Reload, Reconcile, ResetTrackers, Index, Drush,
         Cleanup, Emptied, HalfEmptied, Call, Decide, OperatorRemovesPending, CoreDirectory
<1>1. CASE RetainPrevious \/ RetainInterrupted
  <2>1. /\ pc \in {"retainPrevious", "retainInterrupted"}
        /\ pc' = "install" \/ (fs' = fs /\ pc' = "failed")
    BY <1>1, <1>type, CleanMove DEF RetainPrevious, RetainInterrupted, MoveStep
  <2> QED
    BY <2>1, <1>bare DEF NeverBare
<1>2. CASE Install
  <2>1. /\ pc = "install"
        /\ \/ fs' = Moved("new", "conf")
           \/ fs' = fs /\ pc' = (IF run.hadPrevious THEN "restore" ELSE "failed")
    BY <1>2, <1>type, CleanMove DEF Install, MoveStep
  <2>2. fs.conf = None /\ fs.new \in Trees
    BY <2>1, <1>inv, <1>type DEF StepInv, Room, SwapInv, Markers
  <2>3. run.hadPrevious
    BY <2>1, <2>2, <1>inv DEF DirectoryInv, RollbackAvailable, SwapInv, NextSwap
  <2>4. fs'.conf = fs.new \/ pc' = "restore"
    BY <2>1, <2>2, <2>3, <1>type DEF Moved, CoreDirectory
  <2> QED
    BY <2>2, <2>4, TreesAssumption DEF NeverBare
<1>3. CASE Restore \/ RollbackRestore
  <2>1. pc \in {"restore", "rollbackRestore"}
    BY <1>3 DEF Restore, RollbackRestore, MoveStep
  <2>2. fs.conf = None /\ fs.previous = base
    BY <2>1, <1>inv DEF StepInv, Room, DirectoryInv, RollbackAvailable
  <2>3. ~Spend("fault")
    BY <2>1, <1>fault DEF Straight, DetourLabels
  <2>4. fs' = Moved("previous", "conf")
    BY <1>3, <2>2, <2>3, <1>type
       DEF Restore, RollbackRestore, MoveStep, Move, Call, CoreDirectory
  <2>5. fs'.conf = base
    BY <2>2, <2>4, <1>type DEF Moved, CoreDirectory
  <2> QED
    BY <2>5 DEF NeverBare
<1>4. CASE RollbackRetain
  <2>1. pc = "rollbackRetain" /\ (pc' = "rollbackRestore" \/ (fs' = fs /\ pc' = "failed"))
    BY <1>4, <1>type, CleanMove DEF RollbackRetain, MoveStep
  <2> QED
    BY <2>1, <1>bare DEF NeverBare
<1>5. CASE Crash \/ ExternalEdit
  BY <1>5, <1>type, SpendingOne DEF Crash, ExternalEdit, Events
<1>6. CASE ModuleUpdate \/ SolrRestart
  BY <1>6 DEF ModuleUpdate, SolrRestart, NeverBare
<1>7. ASSUME NEW r \in Runs, Generate(r) \/ AcquireLock(r) PROVE NeverBare'
  BY <1>7, <1>kept, <1>type DEF Generate, AcquireLock, NeverBare
<1>8. CASE UNCHANGED vars
  BY <1>8 DEF vars, NeverBare
<1> QED
  BY <1>look, <1>clear, <1>record, <1>other, <1>1, <1>2, <1>3, <1>4, <1>5, <1>6, <1>7, <1>8
     DEF Steady, Next, HolderStep, Environment

LEMMA PossibleStep ==
    ASSUME Steady, Trees \subseteq Acceptable, Possible, base # None, OneFailure'
    PROVE  Possible'
<1>type. /\ fs \in CoreDirectory /\ run \in RunRecords
         /\ AmbiguousFailures = FALSE /\ TypeInv /\ Budgeted /\ RollbackInv
         /\ (holder = None) <=> (pc = "idle")
  BY DEF Steady, RefreshInv, RollbackInv, TypeInv, TypeOK
<1>whole. pc \in {"create", "reload"} => fs.conf \in Acceptable
  BY <1>type, AsksForWholeTrees DEF SolrReadsWholeTrees
<1>spent. Restarted => Restarted'
  BY <1>type, OneFailureBefore DEF Steady
<1>acceptable. None \notin Acceptable
  BY TreesAssumption
<1> DEFINE Elsewhere == loaded' = loaded /\ pc' \notin {"create", "reload"}
<1> USE DEF StageLabels, SwapLabels, RollbackLabels
<1>look. ASSUME Resume \/ ResumeAccepted \/ Compare \/ StageVerify \/ Activate \/ Verify
                \/ Rollback \/ Finish \/ Release
         PROVE  Elsewhere
  BY <1>look, <1>type
     DEF Resume, ResumeAccepted, Compare, StageVerify, Activate, MakeRoom, Verify, Rollback,
         RolledBack, Finish, Release, Decide, ReadFails, Recovery, RunRecords, outside
<1>remove. ASSUME NEW label, NEW d \in DirNames, NEW next, next \notin {"create", "reload"},
                  RemoveStep(label, d, next)
           PROVE  Elsewhere
  BY <1>remove, <1>type, RemoveKeepsMarker DEF RemoveStep, outside
<1>clear. ASSUME ClearPrevious \/ ClearStaged \/ ClearAbandoned \/ StageClear
                 \/ ClearInterrupted \/ RollbackClear \/ DropPrevious
          PROVE  Elsewhere
  BY <1>clear, <1>remove
     DEF ClearPrevious, ClearStaged, ClearAbandoned, StageClear, ClearInterrupted,
         RollbackClear, DropPrevious, Remaining, DirNames
<1>shift. ASSUME NEW source \in DirNames, NEW target \in DirNames, NEW next, NEW onError,
                 next \notin {"create", "reload"}, onError \notin {"create", "reload"},
                 Move(source, target, next, onError), UNCHANGED outside
          PROVE  Elsewhere
  BY <1>shift, <1>type, MoveKeepsMarker DEF outside
<1>move. ASSUME RetainPrevious \/ RetainInterrupted \/ Install \/ Restore
                \/ RollbackRetain \/ RollbackRestore
         PROVE  Elsewhere
  BY <1>move, <1>shift
     DEF RetainPrevious, RetainInterrupted, Install, Restore, RollbackRetain,
         RollbackRestore, RolledBack, MoveStep, DirNames
<1>record. ASSUME RecordReindex \/ Supersede \/ Begin \/ Accept \/ RecordReset \/ RecordIndexed
           PROVE  Elsewhere
  <2>1. \/ pc' = "failed" \/ pc' = "stageClear"
        \/ pc' = (IF run.mark.reconciled THEN "finish" ELSE "activate")
        \/ pc' = "finish" \/ pc' = Recovery
        \/ pc' = Remaining(run'.mark)
    BY <1>record, <1>type, WriteMarkerWrites
       DEF RecordReindex, Supersede, Begin, Accept, RecordReset, RecordIndexed
  <2>2. loaded' = loaded
    BY <1>record DEF RecordReindex, Supersede, Begin, Accept, RecordReset, RecordIndexed, outside
  <2> QED
    BY <2>1, <2>2 DEF Recovery, Remaining
<1>other. ASSUME \/ Publish \/ Start \/ StageCopy \/ ResetTrackers \/ Index \/ Cleanup
                 \/ OperatorRemovesPending
          PROVE  Elsewhere
  BY <1>other, <1>type
     DEF Publish, Start, StageCopy, ResetTrackers, Index, Drush, Cleanup, Call, Decide,
         OperatorRemovesPending, outside
<1>1. CASE Status
  BY <1>1, <1>spent
     DEF Status, Decide, ReadFails, NotReconciled, Recovery, Possible, outside
<1>2. CASE Create \/ Reload
  <2>1. loaded' = loaded \/ loaded' = fs.conf
    BY <1>2 DEF Create, Reload, Reconcile
  <2>2. pc' \notin {"create", "reload"} /\ pc \in {"create", "reload"}
    BY <1>2 DEF Create, Reload, Reconcile, NotReconciled, Recovery
  <2> QED
    BY <2>1, <2>2, <1>whole, <1>acceptable, <1>spent DEF Possible
<1>3. CASE SolrRestart
  <2>1. Restarted' /\ ~Restarted
    BY <1>3, <1>type, SpendingOne DEF SolrRestart, Events
  <2>2. loaded # None /\ pc # "create" /\ pc' = pc
    BY <1>3, <2>1 DEF Possible, SolrRestart
  <2>3. pc = "reload" => loaded' = fs.conf
    BY <1>3, <1>whole, <2>2 DEF SolrRestart
  <2> QED
    BY <2>1, <2>2, <2>3, <1>whole, <1>acceptable DEF Possible
<1>4. CASE Crash \/ ExternalEdit
  BY <1>4, <1>type, SpendingOne DEF Crash, ExternalEdit, Events
<1>5. ASSUME NEW r \in Runs, Generate(r) \/ AcquireLock(r) PROVE Possible'
  BY <1>5, <1>spent DEF Generate, AcquireLock, Possible
<1>6. CASE ModuleUpdate \/ UNCHANGED vars
  BY <1>6, <1>spent DEF ModuleUpdate, vars, Possible
<1>elsewhere. ASSUME Elsewhere PROVE Possible'
  BY <1>elsewhere, <1>spent DEF Possible
<1> HIDE DEF Elsewhere
<1> QED
  BY <1>look, <1>clear, <1>move, <1>record, <1>other, <1>elsewhere,
     <1>1, <1>2, <1>3, <1>4, <1>5, <1>6
     DEF Steady, Next, HolderStep, Environment

\* Calls that do not fail.
LEMMA RemoveWorks ==
    ASSUME NEW d \in DirNames, NEW next, NEW onError, ~Spend("fault"), Remove(d, next, onError)
    PROVE  fs' = [fs EXCEPT ![d] = None] /\ pc' = next
BY DEF Remove, Call, Without

LEMMA MoveWorks ==
    ASSUME NEW source \in DirNames, NEW target \in DirNames, NEW next, NEW onError,
           ~Spend("fault"), fs[source] # None, Move(source, target, next, onError)
    PROVE  fs' = Moved(source, target) /\ pc' = next
BY DEF Move, Call

LEMMA WriteWorks ==
    ASSUME NEW mark, NEW next, NEW onError, ~Spend("fault"), ValidMarker(mark),
           WriteMarker(mark, next, onError)
    PROVE  fs' = [fs EXCEPT !.marker = mark] /\ pc' = next
BY DEF WriteMarker, Call

\* The labels at which nothing that Straight speaks of matters any more.
FarLabels == ReindexLabels \cup
    {"install", "verify", "status", "create", "reload", "accept", "finish", "dropPrevious",
     "compare", "publish", "start"}

LEMMA StraightStep ==
    ASSUME Steady, Trees \subseteq Acceptable, Straight, Possible, base # None,
           OneFailure', Clean'
    PROVE  Straight'
<1>type. /\ fs \in CoreDirectory /\ run \in RunRecords /\ pc \in Labels
         /\ base \in Trees \cup {None} /\ pc # "idle" => run.gen \in Trees
         /\ pc \in MarkLabels => run.mark \in Markers
         /\ AmbiguousFailures = FALSE /\ TypeInv /\ Budgeted /\ RollbackInv
         /\ (holder = None) <=> (pc = "idle")
  BY DEF Steady, RefreshInv, RollbackInv, TypeInv, TypeOK
<1>inv. DirectoryInv /\ MarkerInv /\ StepInv /\ SwapInv /\ TransactionInv /\ RunInv
  BY DEF Steady, RefreshInv, RollbackInv, Inv
<1>after. RunInv'
  BY DEF Steady, RefreshInv
<1>works. ~Spend("fault")
  BY <1>type, SpendingOne DEF Events
<1>straight. /\ pc \notin DetourLabels /\ ~run.recovering
             /\ pc \in {"idle", "resume"} => ~fs.pending
             /\ pc \in {"begin", "activate", "retainPrevious"} \cup StageLabels
                    => fs.previous = None
  BY DEF Straight
<1> USE DEF Labels, MarkLabels, StageLabels, SwapLabels, RollbackLabels, DetourLabels,
            FarLabels, ReindexLabels, DirNames
<1>far. ASSUME pc' \in FarLabels \cup {"succeeded"}, run'.recovering = run.recovering
        PROVE  Straight'
  BY <1>far, <1>straight DEF Straight
<1>staging. ASSUME pc \in {"begin", "activate", "retainPrevious"} \cup StageLabels,
                   pc' \in {"begin", "activate", "retainPrevious"} \cup StageLabels,
                   fs'.previous = fs.previous, run'.recovering = run.recovering
            PROVE  Straight'
  BY <1>staging, <1>straight DEF Straight
<1>1. CASE Resume
  <2>1. fs.marker = None /\ ~fs.pending
    BY <1>1, <1>straight, <1>inv DEF Resume, DirectoryInv
  <2>2. pc' = "compare" /\ run' = [run EXCEPT !.mark = fs.marker]
    BY <1>1, <2>1, <1>works DEF Resume, Decide, ReadFails
  <2> QED
    BY <2>2, <1>type, <1>far DEF RunRecords
<1>2. CASE Compare
  <2>1. pc' \in {"publish", "start", "succeeded"} /\ run'.recovering = run.recovering
    BY <1>2, <1>works, <1>type DEF Compare, Decide, ReadFails, RunRecords
  <2> QED
    BY <2>1, <1>far
<1>3. CASE Publish
  BY <1>3, <1>works, <1>far DEF Publish
<1>4. CASE Start
  <2>1. /\ ~fs.pending /\ fs.previous = None
    BY <1>4, <1>inv DEF Start, RunInv, DirectoryInv
  <2>2. /\ pc' = "begin" /\ fs' = [fs EXCEPT !.pending = TRUE]
        /\ run' = [run EXCEPT !.started = TRUE]
    BY <1>4, <1>works, <2>1 DEF Start, Call
  <2>3. run'.recovering = run.recovering /\ fs'.previous = None
    BY <2>1, <2>2, <1>type DEF RunRecords, CoreDirectory
  <2> QED
    BY <2>2, <2>3, <1>straight DEF Straight
<1>5. CASE Begin
  <2>1. run' = [run EXCEPT !.mark = NewMarker(run.gen, run.reindex)] /\ pc = "begin"
    BY <1>5 DEF Begin
  <2>2. ValidMarker(run'.mark) /\ run'.recovering = run.recovering
    BY <2>1, <1>type DEF RunRecords, NewMarker, ValidMarker
  <2>3. pc' = "stageClear" /\ fs' = [fs EXCEPT !.marker = run'.mark]
    BY <1>5, <1>works, <2>2, WriteWorks DEF Begin
  <2>4. fs'.previous = fs.previous
    BY <2>3, <1>type DEF CoreDirectory
  <2> QED
    BY <2>1, <2>2, <2>3, <2>4, <1>staging
<1>6. CASE StageClear
  <2>1. pc = "stageClear" /\ pc' = "stageCopy" /\ fs' = [fs EXCEPT !["new"] = None] /\ run' = run
    BY <1>6, <1>works, RemoveWorks DEF StageClear, RemoveStep
  <2>2. fs'.previous = fs.previous
    BY <2>1, <1>type DEF CoreDirectory
  <2> QED
    BY <2>1, <2>2, <1>staging
<1>7. CASE StageCopy
  <2>1. pc = "stageCopy" /\ pc' = "stageVerify" /\ fs'.previous = fs.previous /\ run' = run
    BY <1>7, <1>works, <1>type DEF StageCopy, Call, CoreDirectory
  <2> QED
    BY <2>1, <1>staging
<1>8. CASE StageVerify
  <2>1. /\ pc = "stageVerify" /\ fs' = fs /\ pc' = run.then
        /\ run'.recovering = run.recovering
    BY <1>8, <1>works, <1>type, <1>inv
       DEF StageVerify, Decide, ReadFails, RunRecords, SwapInv
  <2>2. fs.previous = None /\ fs.conf # None
    BY <2>1, <1>straight, <1>inv DEF DirectoryInv, RollbackAvailable
  <2>3. run.then \in SwapLabels \cup {"activate"} /\ Room(run.then)
    BY <2>1, <1>type, <1>inv DEF RunRecords, StepInv
  <2>4. run.then \in {"activate", "retainPrevious"}
    BY <2>2, <2>3 DEF Room
  <2> QED
    BY <2>1, <2>4, <1>staging
<1>9. CASE Activate
  <2>1. pc = "activate" /\ run.mark.desired = run.gen
    BY <1>9, <1>inv, <1>straight DEF Activate, RunInv, OwnLabels
  <2>2. MakeRoom(fs.conf # None, fs.previous # None) = "retainPrevious"
    BY <2>1, <1>straight, <1>inv DEF DirectoryInv, RollbackAvailable, MakeRoom
  <2>3. /\ fs' = fs /\ run'.recovering = run.recovering
        /\ pc' \in {"status", "stageClear", "retainPrevious"}
    BY <1>9, <2>1, <2>2, <1>works, <1>type DEF Activate, Decide, ReadFails, RunRecords
  <2> QED
    BY <2>1, <2>3, <1>staging, <1>far
<1>10. CASE RetainPrevious
  <2>1. /\ pc = "retainPrevious" /\ fs["conf"] # None
        /\ run' = [run EXCEPT !.hadPrevious = (pc' = "install")]
    BY <1>10, <1>inv DEF RetainPrevious, SwapInv, NextSwap
  <2>2. pc' = "install" /\ run'.recovering = run.recovering
    BY <1>10, <2>1, <1>works, <1>type, MoveWorks DEF RetainPrevious, RunRecords
  <2> QED
    BY <2>2, <1>far
<1>11. CASE Install
  <2>1. pc = "install" /\ fs["new"] # None
    BY <1>11, <1>inv, <1>type, TreesAssumption DEF Install, MoveStep, SwapInv, Markers
  <2>2. pc' = "verify" /\ run' = run
    BY <1>11, <2>1, <1>works, MoveWorks DEF Install, MoveStep
  <2> QED
    BY <2>2, <1>far
<1>12. CASE Verify
  <2>1. /\ pc' = "status" /\ run' = [run EXCEPT !.recovering = (pc' = "rollback")]
    BY <1>12, <1>works, <1>inv DEF Verify, Decide, ReadFails, SwapInv
  <2>2. ~run'.recovering
    BY <2>1, <1>type DEF RunRecords
  <2> QED
    BY <2>1, <2>2 DEF Straight
<1>13. CASE Status
  <2>1. /\ pc' \in {"create", "reload"}
        /\ run' = [run EXCEPT !.recovering = run.recovering \/ pc' = "rollback"]
    BY <1>13, <1>works DEF Status, Decide, ReadFails
  <2>2. ~run'.recovering
    BY <2>1, <1>type, <1>straight DEF RunRecords
  <2> QED
    BY <2>1, <2>2 DEF Straight
<1>14. CASE Create \/ Reload
  <2>1. fs.conf \in Acceptable
    BY <1>14, <1>type, AsksForWholeTrees DEF Create, Reload, SolrReadsWholeTrees
  <2>2. /\ pc' = "accept"
        /\ run' = [run EXCEPT !.recovering = run.recovering \/ pc' = "rollback"]
    BY <1>14, <2>1, <1>works, <1>straight DEF Create, Reload, Reconcile, Possible
  <2>3. ~run'.recovering
    BY <2>2, <1>type, <1>straight DEF RunRecords
  <2> QED
    BY <2>2, <2>3 DEF Straight
<1>15. CASE Accept
  <2> DEFINE mark == [run.mark EXCEPT !.reconciled = TRUE]
  <2>1. /\ pc = "accept" /\ run.mark \in Markers /\ fs.marker = run.mark /\ fs.marker # None
        /\ ValidMarker(fs.marker) /\ ~run.mark.reconciled
    BY <1>15, <1>type, <1>inv, <1>straight DEF Accept, TransactionInv, UnacceptedLabels
  <2>2. ValidMarker(mark)
    BY <2>1 DEF ValidMarker, Markers
  <2>3. pc' = "finish" /\ run'.recovering = (pc' = "rollback")
    BY <1>15, <1>type, <1>works, <2>2, WriteWorks DEF Accept, RunRecords
  <2> QED
    BY <2>3 DEF Straight
<1>16. CASE Finish
  <2>1. pc = "finish" /\ fs.marker = run.mark /\ Reconciled
    BY <1>16, <1>inv, <1>straight DEF Finish, MarkerInv, AcceptedLabels, Reconciled
  <2>2. fs.conf = run.mark.desired
    BY <2>1, <1>inv DEF DirectoryInv
  <2>3. pc' = "dropPrevious" /\ run' = run
    BY <1>16, <2>2, <1>works DEF Finish, Decide, ReadFails
  <2> QED
    BY <2>3, <1>far
<1>17. CASE DropPrevious
  <2>1. pc' = Remaining(run.mark) /\ run' = run
    BY <1>17, <1>works, RemoveWorks DEF DropPrevious, RemoveStep
  <2> QED
    BY <2>1, <1>far DEF Remaining
<1>18. CASE ResetTrackers \/ Index
  BY <1>18, <1>works, <1>far DEF ResetTrackers, Index, Drush
<1>19. CASE RecordReset
  <2>1. /\ pc = "recordReset" /\ run.mark \in Markers /\ run.mark.reconciled /\ run.mark.reindex
        /\ run' = [run EXCEPT !.mark = [run.mark EXCEPT !.reset = TRUE]]
    BY <1>19, <1>type, <1>inv DEF RecordReset, TransactionInv, ReindexPhase
  <2>2. run'.mark = [run.mark EXCEPT !.reset = TRUE] /\ run'.recovering = run.recovering
    BY <2>1, <1>type DEF RunRecords
  <2>3. ValidMarker(run'.mark)
    BY <2>1, <2>2 DEF ValidMarker, Markers
  <2>4. pc' = Remaining(run'.mark)
    BY <1>19, <2>3, <1>works, WriteWorks DEF RecordReset
  <2> QED
    BY <2>2, <2>4, <1>far DEF Remaining
<1>20. CASE RecordIndexed
  <2>1. /\ pc = "recordIndexed" /\ run.mark \in Markers /\ run.mark.reset
        /\ fs.marker = run.mark /\ fs.marker # None /\ ValidMarker(fs.marker)
        /\ run' = [run EXCEPT !.mark = [run.mark EXCEPT !.complete = TRUE]]
    BY <1>20, <1>type, <1>inv, <1>straight DEF RecordIndexed, TransactionInv, ReindexPhase
  <2>2. run'.mark = [run.mark EXCEPT !.complete = TRUE] /\ run'.recovering = run.recovering
    BY <2>1, <1>type DEF RunRecords
  <2>3. ValidMarker(run'.mark)
    BY <2>1, <2>2 DEF ValidMarker, Markers
  <2>4. pc' = Remaining(run'.mark)
    BY <1>20, <2>3, <1>works, WriteWorks DEF RecordIndexed
  <2> QED
    BY <2>2, <2>4, <1>far DEF Remaining
<1>21. CASE Cleanup
  <2>1. pc' \in {"succeeded", "compare"} /\ run'.recovering = run.recovering
    BY <1>21, <1>works, <1>type DEF Cleanup, Call, RunRecords
  <2> QED
    BY <2>1, <1>far
<1>22. CASE Release
  <2>1. pc = "succeeded" /\ pc' = "idle" /\ fs' = fs /\ run' = NoRun
    BY <1>22, <1>straight DEF Release, Decide
  <2> QED
    BY <2>1, <1>inv DEF RunInv, Straight, NoRun
<1>23. ASSUME NEW r \in Runs, AcquireLock(r) PROVE Straight'
  <2>1. pc = "idle" /\ pc' = "resume" /\ fs' = fs /\ ~run'.recovering
    BY <1>23, <1>type DEF AcquireLock, NoRun
  <2> QED
    BY <2>1, <1>straight DEF Straight
<1>24. ASSUME NEW r \in Runs, Generate(r) PROVE Straight'
  BY <1>24 DEF Generate, Straight
<1>25. CASE ModuleUpdate \/ SolrRestart \/ UNCHANGED vars
  BY <1>25 DEF ModuleUpdate, SolrRestart, vars, Straight
<1>26. CASE Crash \/ ExternalEdit
  BY <1>26, <1>type, SpendingOne DEF Crash, ExternalEdit, Events
<1>27. CASE OperatorRemovesPending
  BY <1>27, <1>type, <1>straight DEF OperatorRemovesPending
<1>28. pc \in DetourLabels \/ ~(\/ ResumeAccepted \/ RecordReindex \/ ClearPrevious \/ ClearStaged
         \/ ClearAbandoned \/ Supersede \/ ClearInterrupted \/ RetainInterrupted \/ Restore
         \/ Rollback \/ RollbackClear \/ RollbackRetain \/ RollbackRestore)
  BY DEF ResumeAccepted, RecordReindex, ClearPrevious, ClearStaged, ClearAbandoned, Supersede,
         ClearInterrupted, RetainInterrupted, Restore, Rollback, RollbackClear,
         RollbackRetain, RollbackRestore, RemoveStep, MoveStep
<1> QED
  BY <1>straight, <1>1, <1>2, <1>3, <1>4, <1>5, <1>6, <1>7, <1>8, <1>9, <1>10, <1>11, <1>12,
     <1>13, <1>14, <1>15, <1>16, <1>17, <1>18, <1>19, <1>20, <1>21, <1>22, <1>23, <1>24,
     <1>25, <1>26, <1>27, <1>28
     DEF Steady, Next, HolderStep, Environment

\* When Solr accepts its first tree, nothing has to be brought back before.
LEMMA FirstAcceptance ==
    ASSUME Steady, base = None, base' # None, OneFailure'
    PROVE  NeverBare' /\ Possible' /\ (Clean' => Straight')
<1>type. /\ fs \in CoreDirectory /\ run \in RunRecords /\ pc \in Labels
         /\ pc \in MarkLabels => run.mark \in Markers
         /\ AmbiguousFailures = FALSE /\ TypeInv /\ Budgeted
  BY DEF Steady, RefreshInv, RollbackInv, TypeInv, TypeOK
<1>inv. MarkerInv /\ StepInv /\ ServedInv
  BY DEF Steady, RefreshInv, RollbackInv, Inv
<1>1. ~Crash /\ ~ExternalEdit
  BY <1>type, SpendingOne DEF Crash, ExternalEdit, Events
<1> DEFINE SameBase == base' = base
<1>look. ASSUME Resume \/ ResumeAccepted \/ Compare \/ StageVerify \/ Activate \/ Verify
                \/ Rollback \/ Status \/ Finish \/ Release \/ StageCopy \/ Start
                \/ Publish \/ ResetTrackers \/ Index \/ Cleanup \/ Create \/ Reload
         PROVE  SameBase
  BY <1>look
     DEF Resume, ResumeAccepted, Compare, StageVerify, Activate, Verify, Rollback, Status,
         Finish, Release, StageCopy, Start, Publish, ResetTrackers, Index, Drush, Cleanup,
         Create, Reload, Reconcile, outside
<1>move. ASSUME \/ ClearPrevious \/ ClearStaged \/ ClearAbandoned \/ StageClear
                \/ ClearInterrupted \/ RollbackClear \/ DropPrevious \/ RetainPrevious
                \/ RetainInterrupted \/ Install \/ Restore \/ RollbackRetain \/ RollbackRestore
         PROVE  SameBase
  BY <1>move
     DEF ClearPrevious, ClearStaged, ClearAbandoned, StageClear, ClearInterrupted,
         RollbackClear, DropPrevious, RetainPrevious, RetainInterrupted, Install, Restore,
         RollbackRetain, RollbackRestore, RemoveStep, MoveStep, outside
<1>record. ASSUME RecordReindex \/ Supersede \/ Begin \/ RecordReset \/ RecordIndexed
           PROVE  SameBase
  BY <1>record DEF RecordReindex, Supersede, Begin, RecordReset, RecordIndexed, outside
<1>start. ASSUME NEW r \in Runs, Generate(r) \/ AcquireLock(r) PROVE SameBase
  BY <1>start DEF Generate, AcquireLock
<1>other. ASSUME ModuleUpdate \/ SolrRestart \/ OperatorRemovesPending \/ UNCHANGED vars
          PROVE  SameBase
  BY <1>other DEF ModuleUpdate, SolrRestart, OperatorRemovesPending, vars
<1>2. Accept
  <2>1. ~SameBase
    OBVIOUS
  <2> HIDE DEF SameBase
  <2> QED
    BY <1>1, <1>look, <1>move, <1>record, <1>start, <1>other, <2>1
       DEF Steady, Next, HolderStep, Environment
<1> DEFINE mark == [run.mark EXCEPT !.reconciled = TRUE]
<1>3. /\ pc = "accept" /\ run.mark \in Markers /\ fs.marker = run.mark
      /\ ~run.mark.reconciled /\ fs.conf = run.mark.desired
  BY <1>2, <1>type, <1>inv
     DEF Accept, MarkerInv, StepInv, UnacceptedLabels, MarkLabels, Labels, RollbackLabels
<1>4. mark # run.mark /\ run.mark.desired # None
  BY <1>3, TreesAssumption DEF Markers
<1>5. /\ fs'.marker = mark /\ loaded' = loaded
      /\ run' = [run EXCEPT !.mark = mark, !.recovering = (pc' = "rollback")]
  BY <1>2 DEF Accept
<1> HIDE DEF mark
<1>6. fs' = [fs EXCEPT !.marker = mark] /\ pc' = "finish"
  BY <1>2, <1>3, <1>4, <1>5, <1>type, CleanWrite DEF Accept, mark
<1>7. fs'.conf = fs.conf /\ ~run'.recovering
  BY <1>5, <1>6, <1>type DEF CoreDirectory, RunRecords
<1>8. loaded # None
  BY <1>3, <1>inv, TreesAssumption DEF ServedInv, Served
<1> QED
  BY <1>3, <1>4, <1>5, <1>6, <1>7, <1>8
     DEF NeverBare, Possible, Straight, DetourLabels, StageLabels, RollbackLabels

LEMMA OneFailureInvStep ==
    ASSUME Steady, Trees \subseteq Acceptable, OneFailureInv
    PROVE  OneFailureInv'
<1> SUFFICES ASSUME base' # None, OneFailure'
             PROVE  NeverBare' /\ Possible' /\ (Clean' => Straight')
  BY DEF OneFailureInv
<1>1. OneFailure /\ (Clean' => Clean)
  BY OneFailureBefore DEF Steady, RefreshInv, RollbackInv
<1>2. CASE base = None
  BY <1>2, FirstAcceptance
<1>3. CASE base # None
  <2>1. NeverBare /\ Possible /\ (Clean => Straight)
    BY <1>1, <1>3 DEF OneFailureInv
  <2> QED
    BY <1>1, <1>3, <2>1, NeverBareStep, PossibleStep, StraightStep
<1> QED
  BY <1>2, <1>3

LEMMA OneFailureInvInit ==
    ASSUME Trees \subseteq Acceptable, Init
    PROVE  OneFailureInv
<1>1. base # None => fs.conf # None /\ loaded # None
  BY TreesAssumption DEF Init, Settled
<1>2. pc = "idle" /\ ~fs.pending /\ run = NoRun
  BY DEF Init, Settled
<1> QED
  BY <1>1, <1>2 DEF OneFailureInv, NeverBare, Possible, Straight, NoRun, DetourLabels,
                    RollbackLabels, StageLabels

\* One call that fails, be it a rename of the swap, a step of its rollback or
\* the answer of Solr, leaves the core with a whole conf: the error of the
\* second rename is repaired by putting the previous tree back, and a rollback
\* is only ever begun after the failure has been spent.
THEOREM OneFailureLeavesAConf ==
    ASSUME AmbiguousFailures = FALSE, Trees \subseteq Acceptable
    PROVE  Spec => []OneFailureLeavesConf
<1> DEFINE IInv == RefreshInv /\ SwapInv /\ Budgeted /\ OneFailureInv
<1>1. Init => IInv
  BY RefreshInvInit, SwapInvInit, BudgetedInit, OneFailureInvInit
<1>2. IInv /\ [Next]_vars => IInv'
  <2> SUFFICES ASSUME IInv, [Next]_vars PROVE IInv'
    OBVIOUS
  <2>1. RefreshInv' /\ SwapInv' /\ Budgeted'
    BY RefreshInvStep, SwapInvStep, BudgetedStep DEF RefreshInv, RollbackInv
  <2>2. OneFailureInv'
    BY <2>1, OneFailureInvStep DEF Steady
  <2> QED
    BY <2>1, <2>2
<1>3. IInv => OneFailureLeavesConf
  BY DEF OneFailureInv, NeverBare, SwapInv, OneFailureLeavesConf
<1> HIDE DEF IInv
<1> QED
  BY <1>1, <1>2, <1>3, PTL DEF Spec

=============================================================================
