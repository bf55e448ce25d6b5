----------------------- MODULE SolrConfigRefreshProofs -----------------------
(***************************************************************************)
(* Proofs about SolrConfigRefresh, for every set of runs and trees, every  *)
(* set of trees Solr accepts and every number of failures, crashes,        *)
(* updates, edits and restarts.                                            *)
(***************************************************************************)
EXTENDS SolrConfigRefreshProperties, TLAPS

USE TreesAssumption, RunsAssumption, FailureAssumption, BudgetAssumption

DirNames == {"conf", "new", "previous", "abandoned"}

\* The holder works on behalf of a transaction, of which it knows the marker.
MarkLabels == Labels \ {"idle", "resume", "compare", "publish", "start", "begin",
                        "succeeded", "failed"}

TypeInv ==
    /\ TypeOK
    /\ pc # "idle" => run.gen \in Trees
    /\ pc \in MarkLabels => run.mark \in Markers

-----------------------------------------------------------------------------
(* The calls into the container.                                           *)

LEMMA SpendType ==
    ASSUME NEW event \in Events, budget \in [Events -> Nat], Spend(event)
    PROVE  budget' \in [Events -> Nat]
BY DEF Spend

\* A call ends at one of its two labels in one of the states it may leave.
LEMMA CallType ==
    ASSUME NEW after \in CoreDirectory, NEW partial \in SUBSET CoreDirectory,
           NEW next, NEW onError, fs \in CoreDirectory,
           budget \in [Events -> Nat], Call(after, partial, next, onError)
    PROVE  /\ fs' \in CoreDirectory
           /\ budget' \in [Events -> Nat]
           /\ pc' \in {next, onError}
BY SpendType DEF Call, Events

LEMMA RemoveType ==
    ASSUME NEW d \in DirNames, NEW next, NEW onError, fs \in CoreDirectory,
           budget \in [Events -> Nat], Remove(d, next, onError)
    PROVE  /\ fs' \in CoreDirectory
           /\ budget' \in [Events -> Nat]
           /\ pc' \in {next, onError}
<1>1. Without(d) \in CoreDirectory
  BY DEF Without, CoreDirectory, Dirs, DirNames
<1>2. Remains(d) \in SUBSET CoreDirectory
  BY DEF Remains, CoreDirectory, Dirs, DirNames
<1> QED
  BY <1>1, <1>2, CallType DEF Remove

LEMMA MoveType ==
    ASSUME NEW source \in DirNames, NEW target \in DirNames, NEW next, NEW onError,
           fs \in CoreDirectory, budget \in [Events -> Nat],
           Move(source, target, next, onError)
    PROVE  /\ fs' \in CoreDirectory
           /\ budget' \in [Events -> Nat]
           /\ pc' \in {next, onError}
<1>1. Moved(source, target) \in CoreDirectory
  BY DEF Moved, CoreDirectory, Dirs, DirNames
<1> QED
  BY <1>1, CallType DEF Move

LEMMA WriteMarkerType ==
    ASSUME NEW mark \in Markers, NEW next, NEW onError,
           fs \in CoreDirectory, budget \in [Events -> Nat],
           WriteMarker(mark, next, onError)
    PROVE  /\ fs' \in CoreDirectory
           /\ budget' \in [Events -> Nat]
           /\ pc' \in {next, onError}
<1>1. [fs EXCEPT !.marker = mark] \in CoreDirectory
  BY DEF CoreDirectory
<1> QED
  BY <1>1, CallType DEF WriteMarker

LEMMA DecideType ==
    ASSUME NEW next, fs \in CoreDirectory, budget \in [Events -> Nat],
           \/ Decide(next)
           \/ ReadFails(next)
    PROVE  /\ fs' \in CoreDirectory
           /\ budget' \in [Events -> Nat]
           /\ pc' = next
BY SpendType DEF Decide, ReadFails, Events

-----------------------------------------------------------------------------
(* Type correctness.                                                       *)

\* A step of the holder that touches the core directory and its own locals only.
LEMMA HolderType ==
    ASSUME TypeInv, pc # "idle", UNCHANGED outside,
           fs' \in CoreDirectory, budget' \in [Events -> Nat],
           pc' \in Labels \ {"idle"}, run' \in RunRecords, run'.gen = run.gen,
           pc' \in MarkLabels => run'.mark \in Markers
    PROVE  TypeInv'
BY DEF TypeInv, TypeOK, outside, MarkLabels

Working == MarkLabels \cup {"failed", "compare", "succeeded"}

LEMMA RemoveStepType ==
    ASSUME NEW label \in MarkLabels, NEW d \in DirNames, NEW next \in Working,
           TypeInv, RemoveStep(label, d, next)
    PROVE  TypeInv'
<1>1. /\ fs \in CoreDirectory /\ budget \in [Events -> Nat] /\ run \in RunRecords
      /\ run.mark \in Markers
  BY DEF TypeInv, TypeOK, RemoveStep
<1>2. Remove(d, next, "failed") /\ run' = run /\ UNCHANGED outside /\ pc = label
  BY DEF RemoveStep
<1>3. fs' \in CoreDirectory /\ budget' \in [Events -> Nat] /\ pc' \in {next, "failed"}
  BY <1>1, <1>2, RemoveType
<1>4. pc # "idle" /\ pc' \in Labels \ {"idle"}
  BY <1>2, <1>3 DEF Working, MarkLabels, Labels
<1> QED
  BY <1>1, <1>2, <1>3, <1>4, HolderType

LEMMA MoveStepType ==
    ASSUME NEW label \in MarkLabels, NEW source \in DirNames, NEW target \in DirNames,
           NEW next \in Working, NEW onError \in Working,
           TypeInv, MoveStep(label, source, target, next, onError)
    PROVE  TypeInv'
<1>1. /\ fs \in CoreDirectory /\ budget \in [Events -> Nat] /\ run \in RunRecords
      /\ run.mark \in Markers
  BY DEF TypeInv, TypeOK, MoveStep
<1>2. /\ Move(source, target, next, onError) /\ run' = run /\ UNCHANGED outside
      /\ pc = label
  BY DEF MoveStep
<1>3. fs' \in CoreDirectory /\ budget' \in [Events -> Nat] /\ pc' \in {next, onError}
  BY <1>1, <1>2, MoveType
<1>4. pc # "idle" /\ pc' \in Labels \ {"idle"}
  BY <1>2, <1>3 DEF Working, MarkLabels, Labels
<1> QED
  BY <1>1, <1>2, <1>3, <1>4, HolderType

\* Solr's answer to CREATE or RELOAD.
LEMMA ReconcileType ==
    ASSUME NEW possible \in BOOLEAN, TypeInv, pc \in {"create", "reload"},
           Reconcile(possible)
    PROVE  TypeInv'
<1>1. /\ budget' \in [Events -> Nat] /\ loaded' \in Dirs
      /\ pc' \in {"accept", "failed", "rollback"}
  BY SpendType DEF Reconcile, NotReconciled, Recovery, TypeInv, TypeOK, CoreDirectory, Events
<1>2. run' \in RunRecords /\ run'.gen = run.gen /\ run'.mark = run.mark
  BY DEF Reconcile, TypeInv, TypeOK, RunRecords
<1> QED
  BY <1>1, <1>2 DEF Reconcile, TypeInv, TypeOK, Labels, MarkLabels, SwapLabels, RollbackLabels

LEMMA TypeInvStep == TypeInv /\ [Next]_vars => TypeInv'
<1> SUFFICES ASSUME TypeInv, [Next]_vars PROVE TypeInv'
  OBVIOUS
<1>0. /\ fs \in CoreDirectory /\ budget \in [Events -> Nat] /\ run \in RunRecords
      /\ pc # "idle" => run.gen \in Trees
      /\ pc \in MarkLabels => run.mark \in Markers
  BY DEF TypeInv, TypeOK
<1>1. ASSUME NEW r \in Runs, Generate(r) PROVE TypeInv'
  BY <1>1 DEF Generate, TypeInv, TypeOK
<1>2. ASSUME NEW r \in Runs, AcquireLock(r) PROVE TypeInv'
  BY <1>2 DEF AcquireLock, TypeInv, TypeOK, RunRecords, NoRun, Labels, MarkLabels
<1>3. CASE ClearPrevious
  BY <1>3, RemoveStepType DEF ClearPrevious, DirNames, Labels, MarkLabels, Working, SwapLabels, RollbackLabels
<1>4. CASE ClearStaged
  BY <1>4, RemoveStepType DEF ClearStaged, DirNames, Labels, MarkLabels, Working, SwapLabels, RollbackLabels
<1>5. CASE ClearAbandoned
  BY <1>5, RemoveStepType DEF ClearAbandoned, DirNames, Labels, MarkLabels, Working, SwapLabels, RollbackLabels
<1>6. CASE StageClear
  BY <1>6, RemoveStepType DEF StageClear, DirNames, Labels, MarkLabels, Working, SwapLabels, RollbackLabels
<1>7. CASE ClearInterrupted
  BY <1>7, RemoveStepType DEF ClearInterrupted, DirNames, Labels, MarkLabels, Working, SwapLabels, RollbackLabels
<1>8. CASE RollbackClear
  BY <1>8, RemoveStepType DEF RollbackClear, DirNames, Labels, MarkLabels, Working, SwapLabels, RollbackLabels
<1>9. CASE DropPrevious
  BY <1>9, RemoveStepType DEF DropPrevious, Remaining, DirNames, Labels, MarkLabels, Working, SwapLabels, RollbackLabels
<1>10. CASE RetainInterrupted
  BY <1>10, MoveStepType DEF RetainInterrupted, DirNames, Labels, MarkLabels, Working, SwapLabels, RollbackLabels
<1>11. CASE Install
  BY <1>11, MoveStepType DEF Install, DirNames, Labels, MarkLabels, Working, SwapLabels, RollbackLabels
<1>12. CASE RollbackRetain
  BY <1>12, MoveStepType DEF RollbackRetain, DirNames, Labels, MarkLabels, Working, SwapLabels, RollbackLabels
<1>13. CASE RollbackRestore
  BY <1>13, MoveStepType DEF RollbackRestore, RolledBack, DirNames, Labels, MarkLabels, Working, SwapLabels, RollbackLabels
<1>14. CASE Resume
  <2>1. fs' \in CoreDirectory /\ budget' \in [Events -> Nat]
    BY <1>14, <1>0, DecideType DEF Resume
  <2>2. run' \in RunRecords /\ run'.gen = run.gen
    BY <1>14, <1>0 DEF Resume, RunRecords, CoreDirectory, SwapLabels
  <2>3. pc' \in Labels \ {"idle"} /\ (pc' \in MarkLabels => run'.mark \in Markers)
    BY <1>14, <1>0 DEF Resume, Decide, ReadFails, RunRecords, CoreDirectory, Labels, MarkLabels, Working, SwapLabels, RollbackLabels
  <2> QED
    BY <1>14, <2>1, <2>2, <2>3, HolderType DEF Resume
<1>15. CASE ResumeAccepted
  <2>1. fs' \in CoreDirectory /\ budget' \in [Events -> Nat]
    BY <1>15, <1>0, DecideType DEF ResumeAccepted
  <2>2. run' \in RunRecords /\ run'.gen = run.gen
    BY <1>15, <1>0 DEF ResumeAccepted, RunRecords, CoreDirectory, SwapLabels
  <2>3. pc' \in Labels \ {"idle"} /\ (pc' \in MarkLabels => run'.mark \in Markers)
    BY <1>15, <1>0 DEF ResumeAccepted, Decide, ReadFails, RunRecords, CoreDirectory, Labels, MarkLabels, Working, SwapLabels, RollbackLabels
  <2> QED
    BY <1>15, <2>1, <2>2, <2>3, HolderType DEF ResumeAccepted
<1>16. CASE Compare
  <2>1. fs' \in CoreDirectory /\ budget' \in [Events -> Nat]
    BY <1>16, <1>0, DecideType DEF Compare
  <2>2. run' \in RunRecords /\ run'.gen = run.gen
    BY <1>16, <1>0, ZenonT(60) DEF Compare, RunRecords, CoreDirectory, SwapLabels
  <2>3. pc' \in Labels \ {"idle"} /\ (pc' \in MarkLabels => run'.mark \in Markers)
    BY <1>16, <1>0 DEF Compare, Decide, ReadFails, RunRecords, CoreDirectory, Labels, MarkLabels, Working, SwapLabels, RollbackLabels
  <2> QED
    BY <1>16, <2>1, <2>2, <2>3, HolderType DEF Compare
<1>17. CASE Finish
  <2>1. fs' \in CoreDirectory /\ budget' \in [Events -> Nat]
    BY <1>17, <1>0, DecideType DEF Finish
  <2>2. run' \in RunRecords /\ run'.gen = run.gen
    BY <1>17, <1>0 DEF Finish, RunRecords, CoreDirectory, SwapLabels
  <2>3. pc' \in Labels \ {"idle"} /\ (pc' \in MarkLabels => run'.mark \in Markers)
    BY <1>17, <1>0 DEF Finish, Decide, ReadFails, RunRecords, CoreDirectory, Labels, MarkLabels, Working, SwapLabels, RollbackLabels
  <2> QED
    BY <1>17, <2>1, <2>2, <2>3, HolderType DEF Finish
<1>18. CASE Rollback
  <2>1. fs' \in CoreDirectory /\ budget' \in [Events -> Nat]
    BY <1>18, <1>0, DecideType DEF Rollback
  <2>2. run' \in RunRecords /\ run'.gen = run.gen
    BY <1>18, <1>0 DEF Rollback, RunRecords, CoreDirectory, SwapLabels
  <2>3. pc' \in Labels \ {"idle"} /\ (pc' \in MarkLabels => run'.mark \in Markers)
    BY <1>18, <1>0 DEF Rollback, Decide, ReadFails, RunRecords, CoreDirectory, RolledBack, Labels, MarkLabels, Working, SwapLabels, RollbackLabels
  <2> QED
    BY <1>18, <2>1, <2>2, <2>3, HolderType DEF Rollback
<1>19. CASE Status
  <2>1. fs' \in CoreDirectory /\ budget' \in [Events -> Nat]
    BY <1>19, <1>0, DecideType DEF Status
  <2>2. run' \in RunRecords /\ run'.gen = run.gen
    BY <1>19, <1>0 DEF Status, RunRecords, CoreDirectory, SwapLabels
  <2>3. pc' \in Labels \ {"idle"} /\ (pc' \in MarkLabels => run'.mark \in Markers)
    BY <1>19, <1>0 DEF Status, Decide, ReadFails, RunRecords, CoreDirectory, NotReconciled, Recovery, Labels, MarkLabels, Working, SwapLabels, RollbackLabels
  <2> QED
    BY <1>19, <2>1, <2>2, <2>3, HolderType DEF Status
<1>20. CASE Verify
  <2>1. fs' \in CoreDirectory /\ budget' \in [Events -> Nat]
    BY <1>20, <1>0, DecideType DEF Verify
  <2>2. run' \in RunRecords /\ run'.gen = run.gen
    BY <1>20, <1>0 DEF Verify, RunRecords, CoreDirectory, SwapLabels
  <2>3. pc' \in Labels \ {"idle"} /\ (pc' \in MarkLabels => run'.mark \in Markers)
    BY <1>20, <1>0 DEF Verify, Decide, ReadFails, RunRecords, CoreDirectory, Recovery, Labels, MarkLabels, Working, SwapLabels, RollbackLabels
  <2> QED
    BY <1>20, <2>1, <2>2, <2>3, HolderType DEF Verify
<1>21. CASE StageVerify
  <2>1. fs' \in CoreDirectory /\ budget' \in [Events -> Nat]
    BY <1>21, <1>0, DecideType DEF StageVerify
  <2>2. run' \in RunRecords /\ run'.gen = run.gen
    BY <1>21, <1>0 DEF StageVerify, RunRecords, CoreDirectory, SwapLabels
  <2>3. pc' \in Labels \ {"idle"} /\ (pc' \in MarkLabels => run'.mark \in Markers)
    BY <1>21, <1>0 DEF StageVerify, Decide, ReadFails, RunRecords, CoreDirectory, Labels, MarkLabels, Working, SwapLabels, RollbackLabels
  <2> QED
    BY <1>21, <2>1, <2>2, <2>3, HolderType DEF StageVerify
<1>22. CASE Activate
  <2>1. fs' \in CoreDirectory /\ budget' \in [Events -> Nat]
    BY <1>22, <1>0, DecideType DEF Activate
  <2>2. run' \in RunRecords /\ run'.gen = run.gen
    BY <1>22, <1>0, ZenonT(60) DEF Activate, RunRecords, CoreDirectory, SwapLabels, MakeRoom
  <2>3. pc' \in Labels \ {"idle"} /\ (pc' \in MarkLabels => run'.mark \in Markers)
    BY <1>22, <1>0 DEF Activate, Decide, ReadFails, RunRecords, CoreDirectory, MakeRoom, Labels, MarkLabels, Working, SwapLabels, RollbackLabels
  <2> QED
    BY <1>22, <2>1, <2>2, <2>3, HolderType DEF Activate
<1>23. CASE RecordReindex
  <2>1. run'.mark \in Markers /\ run' \in RunRecords /\ run'.gen = run.gen
    BY <1>23, <1>0 DEF RecordReindex, RunRecords, Markers, MarkLabels, Labels
  <2>2. /\ fs' \in CoreDirectory /\ budget' \in [Events -> Nat]
        /\ pc' \in Labels \ {"idle"}
    BY <1>23, <2>1, <1>0, WriteMarkerType DEF RecordReindex, Labels, MarkLabels, Working, SwapLabels, RollbackLabels, Remaining
  <2> QED
    BY <1>23, <2>1, <2>2, HolderType DEF RecordReindex
<1>24. CASE Supersede
  <2>1. run'.mark \in Markers /\ run' \in RunRecords /\ run'.gen = run.gen
    BY <1>24, <1>0 DEF Supersede, RunRecords, Markers, MarkLabels, Labels, NewMarker, Superseding
  <2>2. /\ fs' \in CoreDirectory /\ budget' \in [Events -> Nat]
        /\ pc' \in Labels \ {"idle"}
    BY <1>24, <2>1, <1>0, WriteMarkerType DEF Supersede, Labels, MarkLabels, Working, SwapLabels, RollbackLabels
  <2> QED
    BY <1>24, <2>1, <2>2, HolderType DEF Supersede
<1>25. CASE Begin
  <2>1. run'.mark \in Markers /\ run' \in RunRecords /\ run'.gen = run.gen
    BY <1>25, <1>0 DEF Begin, RunRecords, Markers, MarkLabels, Labels, NewMarker
  <2>2. /\ fs' \in CoreDirectory /\ budget' \in [Events -> Nat]
        /\ pc' \in Labels \ {"idle"}
    BY <1>25, <2>1, <1>0, WriteMarkerType DEF Begin, Labels, MarkLabels, Working, SwapLabels, RollbackLabels
  <2> QED
    BY <1>25, <2>1, <2>2, HolderType DEF Begin
<1>26. CASE RecordReset
  <2>1. run'.mark \in Markers /\ run' \in RunRecords /\ run'.gen = run.gen
    BY <1>26, <1>0 DEF RecordReset, RunRecords, Markers, MarkLabels, Labels
  <2>2. /\ fs' \in CoreDirectory /\ budget' \in [Events -> Nat]
        /\ pc' \in Labels \ {"idle"}
    BY <1>26, <2>1, <1>0, WriteMarkerType DEF RecordReset, Labels, MarkLabels, Working, SwapLabels, RollbackLabels, Remaining
  <2> QED
    BY <1>26, <2>1, <2>2, HolderType DEF RecordReset
<1>27. CASE RecordIndexed
  <2>1. run'.mark \in Markers /\ run' \in RunRecords /\ run'.gen = run.gen
    BY <1>27, <1>0 DEF RecordIndexed, RunRecords, Markers, MarkLabels, Labels
  <2>2. /\ fs' \in CoreDirectory /\ budget' \in [Events -> Nat]
        /\ pc' \in Labels \ {"idle"}
    BY <1>27, <2>1, <1>0, WriteMarkerType DEF RecordIndexed, Labels, MarkLabels, Working, SwapLabels, RollbackLabels, Remaining
  <2> QED
    BY <1>27, <2>1, <2>2, HolderType DEF RecordIndexed
<1>28. CASE Publish
  BY <1>28, SpendType DEF Publish, TypeInv, TypeOK, Labels, MarkLabels, Events
<1>29. CASE Start
  <2>1. [fs EXCEPT !.pending = TRUE] \in CoreDirectory
    BY <1>0 DEF CoreDirectory
  <2>2. /\ fs' \in CoreDirectory /\ budget' \in [Events -> Nat]
        /\ pc' \in {"begin", "failed"}
    BY <1>29, <2>1, <1>0, CallType, DecideType DEF Start
  <2>3. run' \in RunRecords /\ run'.gen = run.gen
    BY <1>29, <1>0 DEF Start, RunRecords
  <2> QED
    BY <1>29, <2>2, <2>3, HolderType DEF Start, Labels, MarkLabels, Working, SwapLabels, RollbackLabels
<1>30. CASE StageCopy
  <2>1. /\ [fs EXCEPT !.new = run.gen] \in CoreDirectory
        /\ [fs EXCEPT !.new = Torn] \in CoreDirectory
    BY <1>0 DEF CoreDirectory, Dirs, RunRecords
  <2>2. /\ fs' \in CoreDirectory /\ budget' \in [Events -> Nat]
        /\ pc' \in {"stageVerify", "failed"}
    BY <1>30, <2>1, <1>0, CallType DEF StageCopy
  <2> QED
    BY <1>30, <2>2, <1>0, HolderType DEF StageCopy, Labels, MarkLabels, Working, SwapLabels, RollbackLabels
<1>31. CASE RetainPrevious
  <2>1. /\ fs' \in CoreDirectory /\ budget' \in [Events -> Nat]
        /\ pc' \in {"install", "failed"}
    BY <1>31, <1>0, MoveType DEF RetainPrevious, DirNames
  <2>2. run' \in RunRecords /\ run'.gen = run.gen /\ run'.mark = run.mark
    BY <1>31, <1>0 DEF RetainPrevious, RunRecords
  <2> QED
    BY <1>31, <2>1, <2>2, <1>0, HolderType DEF RetainPrevious, Labels, MarkLabels, Working, SwapLabels, RollbackLabels
<1>32. CASE Restore
  <2>1. /\ fs' \in CoreDirectory /\ budget' \in [Events -> Nat] /\ pc' = "rollback"
    BY <1>32, <1>0, MoveType DEF Restore, DirNames
  <2>2. run' \in RunRecords /\ run'.gen = run.gen /\ run'.mark = run.mark
    BY <1>32, <1>0 DEF Restore, RunRecords
  <2> QED
    BY <1>32, <2>1, <2>2, <1>0, HolderType DEF Restore, Labels, MarkLabels, Working, SwapLabels, RollbackLabels
<1>33. CASE Create
  <2>1. PICK possible \in BOOLEAN : Reconcile(possible)
    BY <1>33 DEF Create
  <2> QED
    BY <1>33, <2>1, <1>0, ReconcileType DEF Create, Labels, MarkLabels, Working, SwapLabels, RollbackLabels
<1>34. CASE Reload
  <2>1. PICK possible \in BOOLEAN : Reconcile(possible)
    BY <1>34 DEF Reload
  <2> QED
    BY <1>34, <2>1, <1>0, ReconcileType DEF Reload, Labels, MarkLabels, Working, SwapLabels, RollbackLabels
<1>35. CASE Accept
  <2> DEFINE mark == [run.mark EXCEPT !.reconciled = TRUE]
  <2>1. mark \in Markers /\ mark.desired \in Trees
    BY <1>35, <1>0 DEF Accept, Markers, Labels, MarkLabels, Working, SwapLabels, RollbackLabels
  <2>2. /\ fs' \in CoreDirectory /\ budget' \in [Events -> Nat]
        /\ pc' \in {"finish", "rollback", "failed"}
    BY <1>35, <2>1, <1>0, WriteMarkerType DEF Accept, Recovery
  <2>3. run' \in RunRecords /\ run'.gen = run.gen /\ run'.mark \in Markers
    BY <1>35, <2>1, <1>0 DEF Accept, RunRecords
  <2>4. base' \in Trees \cup {None}
    BY <1>35, <2>1 DEF Accept, TypeInv, TypeOK
  <2> QED
    BY <1>35, <2>2, <2>3, <2>4 DEF Accept, TypeInv, TypeOK, Labels, MarkLabels, Working, SwapLabels, RollbackLabels
<1>36. CASE ResetTrackers
  BY <1>36, SpendType, ZenonT(60) DEF ResetTrackers, Drush, TypeInv, TypeOK, Dirs, Events, Labels, MarkLabels, Working, SwapLabels, RollbackLabels
<1>37. CASE Index
  BY <1>37, SpendType, ZenonT(60) DEF Index, Drush, TypeInv, TypeOK, Dirs, Events, Labels, MarkLabels, Working, SwapLabels, RollbackLabels
<1>38. CASE Cleanup
  <2>1. /\ Emptied \in CoreDirectory
        /\ [Emptied EXCEPT !.pending = FALSE] \in CoreDirectory
        /\ HalfEmptied \subseteq CoreDirectory
    BY <1>0 DEF Emptied, HalfEmptied, Rests, CoreDirectory, Dirs
  <2>2. /\ fs' \in CoreDirectory /\ budget' \in [Events -> Nat]
        /\ pc' \in {"succeeded", "compare", "failed"}
    BY <1>38, <2>1, <1>0, CallType DEF Cleanup
  <2>3. run' \in RunRecords /\ run'.gen = run.gen
    BY <1>38, <1>0 DEF Cleanup, RunRecords, Markers, Labels, MarkLabels, Working, SwapLabels, RollbackLabels
  <2> QED
    BY <1>38, <2>2, <2>3, HolderType DEF Cleanup, Labels, MarkLabels, Working, SwapLabels, RollbackLabels
<1>39. CASE Release
  BY <1>39 DEF Release, Decide, TypeInv, TypeOK, NoRun, RunRecords, Labels, MarkLabels
<1>40. CASE Crash
  BY <1>40, SpendType DEF Crash, TypeInv, TypeOK, NoRun, RunRecords, Labels, MarkLabels, Events
<1>41. CASE ModuleUpdate
  BY <1>41, SpendType DEF ModuleUpdate, TypeInv, TypeOK, Events
<1>42. CASE ExternalEdit
  BY <1>42, SpendType DEF ExternalEdit, TypeInv, TypeOK, CoreDirectory, Dirs, Events
<1>43. CASE SolrRestart
  BY <1>43, SpendType DEF SolrRestart, TypeInv, TypeOK, CoreDirectory, Dirs, Events
<1>44. CASE OperatorRemovesPending
  BY <1>44, ZenonT(60) DEF OperatorRemovesPending, Emptied, TypeInv, TypeOK, CoreDirectory, Dirs
<1>45. CASE UNCHANGED vars
  BY <1>45 DEF vars, TypeInv, TypeOK
<1> QED
  BY <1>1, <1>2, <1>3, <1>4, <1>5, <1>6, <1>7, <1>8, <1>9, <1>10, <1>11, <1>12, <1>13, <1>14, <1>15, <1>16, <1>17, <1>18, <1>19, <1>20, <1>21, <1>22, <1>23, <1>24, <1>25, <1>26, <1>27, <1>28, <1>29, <1>30, <1>31, <1>32, <1>33, <1>34, <1>35, <1>36, <1>37, <1>38, <1>39, <1>40, <1>41, <1>42, <1>43, <1>44, <1>45 DEF Next, HolderStep, Environment

LEMMA TypeInvInit == Init => TypeInv
BY DEF Init, Settled, TypeInv, TypeOK, NoRun, RunRecords, CoreDirectory, Dirs, Labels, MarkLabels

\* Every variable keeps its type, and a run has locals exactly while it holds
\* the lock.
THEOREM TypeCorrect == Spec => []TypeOK
<1>1. TypeInv => TypeOK
  BY DEF TypeInv
<1> QED
  BY <1>1, TypeInvInit, TypeInvStep, PTL DEF Spec

-----------------------------------------------------------------------------
(* The marker is a transaction, also when a call that reports an error may   *)
(* have worked.                                                              *)

StageLabels == {"stageClear", "stageCopy", "stageVerify"}
UnacceptedLabels ==
    StageLabels \cup SwapLabels \cup RollbackLabels
        \cup {"activate", "retainInterrupted", "restore", "verify", "status",
              "create", "reload", "accept"}
ReindexLabels == {"resetTrackers", "recordReset", "index", "recordIndexed", "cleanup"}

\* What the progress recorded in the marker is at each label of the reindex.
ReindexPhase(label, mark) ==
    /\ label \in ReindexLabels \cup {"finish", "dropPrevious", "resumeAccepted"}
           => mark.reconciled
    /\ label \in {"resetTrackers", "recordReset"} => mark.reindex /\ ~mark.reset
    /\ label \in {"index", "recordIndexed"} => mark.reset /\ ~mark.complete
    /\ label = "cleanup" => (mark.reindex => mark.complete)

\* The holder knows the marker on disk, unless it is recovering from a failed
\* activation: then it writes none.
TransactionInv ==
    /\ ~fs.pending => fs.marker = None
    /\ fs.marker # None => ValidMarker(fs.marker)
    /\ pc \in MarkLabels => fs.marker # None
    /\ pc \in MarkLabels /\ ~run.recovering => fs.marker = run.mark
    /\ pc = "begin" => fs.marker = None /\ fs.pending
    /\ run.recovering => pc \in RollbackLabels \cup {"status", "create", "reload", "failed"}
    /\ pc = "recordReindex" => ~run.mark.reindex
    /\ pc \in UnacceptedLabels /\ ~run.recovering => ~run.mark.reconciled
    /\ ReindexPhase(pc, run.mark)

\* What a call does to the marker, however it ends.
SameMarker == fs'.marker = fs.marker /\ fs'.pending = fs.pending

LEMMA RemoveKeepsMarker ==
    ASSUME NEW d \in DirNames, NEW next, NEW onError, fs \in CoreDirectory,
           Remove(d, next, onError)
    PROVE  SameMarker /\ (pc' = next \/ pc' = onError)
BY DEF Remove, Call, Without, Remains, DirNames, CoreDirectory, SameMarker

LEMMA MoveKeepsMarker ==
    ASSUME NEW source \in DirNames, NEW target \in DirNames, NEW next, NEW onError,
           fs \in CoreDirectory, Move(source, target, next, onError)
    PROVE  SameMarker /\ (pc' = next \/ pc' = onError)
BY DEF Move, Call, Moved, DirNames, CoreDirectory, SameMarker

LEMMA WriteMarkerWrites ==
    ASSUME NEW mark, NEW next, NEW onError, fs \in CoreDirectory,
           WriteMarker(mark, next, onError)
    PROVE  /\ fs'.pending = fs.pending
           /\ \/ fs'.marker = mark /\ ValidMarker(mark) /\ (pc' = next \/ pc' = onError)
              \/ fs'.marker = fs.marker /\ pc' = onError
BY DEF WriteMarker, Call, CoreDirectory

\* A step that leaves the marker alone keeps the invariant if it goes to a
\* label that suits the marker.
LEMMA SameMarkerStep ==
    ASSUME TypeInv, TransactionInv, SameMarker, pc \in MarkLabels, run'.mark = run.mark,
           pc' \in MarkLabels /\ ~run'.recovering => ~run.recovering,
           pc' \notin {"recordReindex", "begin"},
           run'.recovering => pc' \in RollbackLabels \cup {"status", "create", "reload", "failed"},
           pc' \in UnacceptedLabels /\ ~run'.recovering => ~run.mark.reconciled,
           ReindexPhase(pc', run.mark)
    PROVE  TransactionInv'
BY DEF TransactionInv, SameMarker

LEMMA TransactionInvStep == TypeInv /\ TransactionInv /\ [Next]_vars => TransactionInv'
<1> SUFFICES ASSUME TypeInv, TransactionInv, [Next]_vars PROVE TransactionInv'
  OBVIOUS
<1>type. /\ fs \in CoreDirectory /\ run \in RunRecords /\ pc \in Labels
         /\ pc \in MarkLabels => run.mark \in Markers
  BY DEF TypeInv, TypeOK
<1> USE DEF Labels, MarkLabels, StageLabels, SwapLabels, RollbackLabels, UnacceptedLabels,
            ReindexLabels, ReindexPhase
\* Removals and moves.
<1>1. ASSUME NEW label \in MarkLabels, NEW d \in DirNames, NEW next,
             RemoveStep(label, d, next),
             next \in MarkLabels \ {"recordReindex"},
             run.recovering => next \in RollbackLabels,
             next \in UnacceptedLabels /\ ~run.recovering => ~run.mark.reconciled,
             ReindexPhase(next, run.mark)
      PROVE  TransactionInv'
  <2>1. SameMarker /\ (pc' = next \/ pc' = "failed") /\ run' = run /\ pc = label
    BY <1>1, <1>type, RemoveKeepsMarker DEF RemoveStep
  <2> QED
    BY <1>1, <2>1, SameMarkerStep
<1>2. CASE ClearPrevious \/ ClearStaged \/ ClearAbandoned
  BY <1>2, <1>1 DEF ClearPrevious, ClearStaged, ClearAbandoned, DirNames, TransactionInv, RemoveStep
<1>3. CASE StageClear \/ ClearInterrupted \/ RollbackClear
  BY <1>3, <1>1 DEF StageClear, ClearInterrupted, RollbackClear, DirNames, TransactionInv, RemoveStep
<1>4. CASE DropPrevious
  BY <1>4, <1>1 DEF DropPrevious, Remaining, DirNames, TransactionInv, RemoveStep
<1>5. ASSUME NEW source \in DirNames, NEW target \in DirNames, NEW next, NEW onError,
             pc \in MarkLabels, Move(source, target, next, onError),
             run'.mark = run.mark,
             ~run'.recovering => ~run.recovering,
             \A label \in {next, onError} :
                pc' = label =>
                /\ label \in MarkLabels \ {"recordReindex"} \/ label = "failed"
                /\ run'.recovering => label \in RollbackLabels \cup {"status", "failed"}
                /\ label \in UnacceptedLabels /\ ~run'.recovering => ~run.mark.reconciled
                /\ label \notin ReindexLabels \cup {"finish", "dropPrevious", "resumeAccepted"}
      PROVE  TransactionInv'
  <2>1. SameMarker /\ (pc' = next \/ pc' = onError)
    BY <1>5, <1>type, MoveKeepsMarker
  <2> QED
    BY <1>5, <2>1, SameMarkerStep
<1>6. CASE RetainPrevious
  BY <1>6, <1>5, <1>type DEF RetainPrevious, DirNames, TransactionInv, RunRecords
<1>7. CASE RetainInterrupted
  BY <1>7, <1>5, <1>type DEF RetainInterrupted, MoveStep, DirNames, TransactionInv, RunRecords
<1>8. CASE Install
  BY <1>8, <1>5, <1>type DEF Install, MoveStep, DirNames, TransactionInv, RunRecords
<1>9. CASE Restore
  BY <1>9, <1>5, <1>type DEF Restore, DirNames, TransactionInv, RunRecords
<1>10. CASE RollbackRetain
  BY <1>10, <1>5, <1>type DEF RollbackRetain, MoveStep, DirNames, TransactionInv, RunRecords
<1>11. CASE RollbackRestore
  BY <1>11, <1>5, <1>type
     DEF RollbackRestore, RolledBack, MoveStep, DirNames, TransactionInv, RunRecords
\* Reads and decisions.
<1>12. CASE Resume
  BY <1>12, <1>type, MarkersAssumption
     DEF Resume, Decide, ReadFails, TransactionInv, ValidMarker, RunRecords, CoreDirectory
<1>13. CASE ResumeAccepted
  BY <1>13, <1>type, SameMarkerStep
     DEF ResumeAccepted, Decide, ReadFails, TransactionInv, ValidMarker, SameMarker, RunRecords
<1>14. CASE Compare
  BY <1>14, <1>type DEF Compare, Decide, ReadFails, TransactionInv, RunRecords
<1>15. CASE StageVerify
  BY <1>15, <1>type, SameMarkerStep
     DEF StageVerify, Decide, ReadFails, TransactionInv, SameMarker, RunRecords
<1>16. CASE Activate
  BY <1>16, <1>type, SameMarkerStep
     DEF Activate, MakeRoom, Decide, ReadFails, TransactionInv, SameMarker, RunRecords
<1>17. CASE Verify
  BY <1>17, <1>type, SameMarkerStep
     DEF Verify, Recovery, Decide, ReadFails, TransactionInv, SameMarker, RunRecords
<1>18. CASE Rollback
  BY <1>18, <1>type, SameMarkerStep
     DEF Rollback, RolledBack, Decide, ReadFails, TransactionInv, SameMarker, RunRecords
<1>19. CASE Status
  BY <1>19, <1>type, SameMarkerStep
     DEF Status, NotReconciled, Recovery, Decide, ReadFails, TransactionInv, SameMarker, RunRecords
<1>20. CASE Create \/ Reload
  BY <1>20, <1>type, SameMarkerStep
     DEF Create, Reload, Reconcile, NotReconciled, Recovery, TransactionInv, SameMarker, RunRecords
<1>21. CASE Finish
  BY <1>21, <1>type, SameMarkerStep
     DEF Finish, Decide, ReadFails, TransactionInv, SameMarker, RunRecords
<1>22. CASE ResetTrackers \/ Index
  BY <1>22, <1>type, SameMarkerStep
     DEF ResetTrackers, Index, Drush, TransactionInv, SameMarker, RunRecords
<1>23. CASE StageCopy
  BY <1>23, <1>type, SameMarkerStep
     DEF StageCopy, Call, TransactionInv, SameMarker, RunRecords, CoreDirectory
\* Records of progress.
<1>record. ASSUME NEW next, pc \in MarkLabels \cup {"begin"},
                  WriteMarker(run'.mark, next, "failed"),
                  run'.mark \in Markers, ~run'.recovering,
                  next \in MarkLabels \ {"recordReindex"},
                  next \in UnacceptedLabels => ~run'.mark.reconciled,
                  ReindexPhase(next, run'.mark)
           PROVE  TransactionInv'
  <2>1. /\ fs'.pending = fs.pending
        /\ \/ fs'.marker = run'.mark /\ ValidMarker(run'.mark) /\ (pc' = next \/ pc' = "failed")
           \/ fs'.marker = fs.marker /\ pc' = "failed"
    BY <1>record, <1>type, WriteMarkerWrites
  <2>2. fs.pending /\ (fs.marker # None => ValidMarker(fs.marker))
    BY <1>record DEF TransactionInv
  <2> QED
    BY <1>record, <2>1, <2>2, MarkersAssumption DEF TransactionInv
<1>24. CASE RecordReindex
  <2>1. run.mark \in Markers /\ ValidMarker(run.mark) /\ ~run.mark.reindex /\ ~run.recovering
    BY <1>24, <1>type DEF RecordReindex, TransactionInv
  <2>2. /\ run'.mark = [run.mark EXCEPT !.reindex = TRUE] /\ ~run'.recovering
        /\ run'.mark \in Markers /\ run'.mark.reconciled = run.mark.reconciled
    BY <1>24, <1>type, <2>1 DEF RecordReindex, RunRecords, Markers
  <2>3. WriteMarker(run'.mark, IF run.mark.reconciled THEN "finish" ELSE "activate", "failed")
    BY <1>24 DEF RecordReindex
  <2> QED
    <3>1. CASE run.mark.reconciled
      <4>1. WriteMarker(run'.mark, "finish", "failed") /\ ReindexPhase("finish", run'.mark)
        BY <2>2, <2>3, <3>1
      <4> QED
        BY <1>24, <2>1, <2>2, <4>1, <1>record DEF RecordReindex
    <3>2. CASE ~run.mark.reconciled
      <4>1. WriteMarker(run'.mark, "activate", "failed") /\ ReindexPhase("activate", run'.mark)
        BY <2>2, <2>3, <3>2
      <4> QED
        BY <1>24, <2>1, <2>2, <3>2, <4>1, <1>record DEF RecordReindex
    <3> QED
      BY <3>1, <3>2
<1>25. CASE Supersede
  <2>1. /\ run'.mark = Superseding(run.mark) /\ ~run'.recovering
    BY <1>25, <1>type DEF Supersede, TransactionInv, RunRecords
  <2>2. run'.mark \in Markers /\ ~run'.mark.reconciled
    BY <1>25, <1>type, <2>1 DEF Supersede, Superseding, NewMarker, Markers, RunRecords, TypeInv
  <2> QED
    BY <1>25, <2>1, <2>2, <1>record DEF Supersede
<1>26. CASE Begin
  <2>1. /\ run'.mark = NewMarker(run.gen, run.reindex) /\ ~run'.recovering
    BY <1>26, <1>type DEF Begin, TransactionInv, RunRecords
  <2>2. run'.mark \in Markers /\ ~run'.mark.reconciled
    BY <1>26, <1>type, <2>1 DEF Begin, NewMarker, Markers, RunRecords, TypeInv
  <2> QED
    BY <1>26, <2>1, <2>2, <1>record DEF Begin
<1>27. CASE RecordReset
  <2>1. run.mark \in Markers /\ run.mark.reconciled /\ run.mark.reindex /\ ~run.recovering
        /\ ValidMarker(run.mark) /\ ~run.mark.reset
    BY <1>27, <1>type DEF RecordReset, TransactionInv
  <2>2. /\ run'.mark = [run.mark EXCEPT !.reset = TRUE] /\ ~run'.recovering
        /\ run'.mark \in Markers
    BY <1>27, <1>type, <2>1 DEF RecordReset, RunRecords, Markers
  <2>3. Remaining(run'.mark) = "index" /\ ReindexPhase("index", run'.mark)
    BY <2>1, <2>2 DEF Remaining, ValidMarker, Markers
  <2> QED
    BY <1>27, <2>1, <2>2, <2>3, <1>record DEF RecordReset
<1>28. CASE RecordIndexed
  <2>1. run.mark \in Markers /\ run.mark.reconciled /\ run.mark.reset /\ ~run.recovering
    BY <1>28, <1>type DEF RecordIndexed, TransactionInv
  <2>2. /\ run'.mark = [run.mark EXCEPT !.complete = TRUE] /\ ~run'.recovering
        /\ run'.mark \in Markers
    BY <1>28, <1>type, <2>1 DEF RecordIndexed, RunRecords, Markers
  <2>3. Remaining(run'.mark) = "cleanup" /\ ReindexPhase("cleanup", run'.mark)
    BY <2>1, <2>2 DEF Remaining, Markers
  <2> QED
    BY <1>28, <2>1, <2>2, <2>3, <1>record DEF RecordIndexed
<1>29. CASE Accept
  <2> DEFINE mark == [run.mark EXCEPT !.reconciled = TRUE]
  <2>1. /\ run.mark \in Markers /\ ~run.recovering /\ fs.pending /\ ValidMarker(fs.marker)
        /\ fs.marker # None /\ mark \in Markers
    BY <1>29, <1>type DEF Accept, TransactionInv, Markers
  <2>2. /\ fs'.pending = fs.pending
        /\ \/ fs'.marker = mark /\ ValidMarker(mark) /\ (pc' = "finish" \/ pc' = Recovery)
           \/ fs'.marker = fs.marker /\ pc' = Recovery
    BY <1>29, <1>type, WriteMarkerWrites DEF Accept
  <2>3. run'.mark = mark /\ (run'.recovering <=> pc' = "rollback")
    BY <1>29, <1>type DEF Accept, RunRecords
  <2>4. fs'.marker \in Markers /\ ValidMarker(fs'.marker) /\ fs'.pending
    BY <2>1, <2>2, <1>type DEF CoreDirectory
  <2>5. pc' = "rollback" \/ pc' = "failed" \/ (pc' = "finish" /\ fs'.marker = mark)
    <3>1. Recovery = "rollback" \/ Recovery = "failed"
      BY DEF Recovery
    <3> HIDE DEF mark
    <3> QED
      BY <2>2, <3>1
  <2> QED
    BY <2>1, <2>3, <2>4, <2>5, MarkersAssumption DEF TransactionInv, Markers
\* The pending directory.
<1>30. CASE Start
  BY <1>30, <1>type DEF Start, Decide, Call, TransactionInv, RunRecords, CoreDirectory
<1>31. CASE Cleanup
  <2>1. /\ pc' \in {"succeeded", "compare", "failed"} /\ fs.pending
        /\ fs' \in {[Emptied EXCEPT !.pending = FALSE], fs} \cup HalfEmptied
    BY <1>31, <1>type DEF Cleanup, Call, TransactionInv
  <2>2. /\ fs'.marker \in {fs.marker, None}
        /\ ~fs'.pending => fs'.marker = None
    BY <2>1, <1>type DEF Emptied, HalfEmptied, CoreDirectory
  <2>3. ~run'.recovering
    BY <1>31, <1>type DEF Cleanup, TransactionInv, RunRecords
  <2> QED
    BY <2>1, <2>2, <2>3 DEF TransactionInv
<1>32. CASE OperatorRemovesPending
  BY <1>32, <1>type DEF OperatorRemovesPending, Emptied, TransactionInv, TypeInv, TypeOK, CoreDirectory
\* The others touch neither the core directory nor the marker in memory.
<1>33. ASSUME NEW r \in Runs, Generate(r) \/ AcquireLock(r) PROVE TransactionInv'
  <2>1. CASE Generate(r)
    BY <2>1 DEF Generate, TransactionInv
  <2>2. CASE AcquireLock(r)
    <3>1. fs' = fs /\ pc' = "resume" /\ ~run'.recovering
      BY <2>2 DEF AcquireLock, NoRun
    <3> QED
      BY <3>1 DEF TransactionInv
  <2> QED
    BY <1>33, <2>1, <2>2
<1>34. CASE Publish
  BY <1>34 DEF Publish, TransactionInv
<1>35. CASE Release \/ Crash
  BY <1>35 DEF Release, Decide, Crash, NoRun, TransactionInv
<1>36. CASE ModuleUpdate \/ SolrRestart
  BY <1>36 DEF ModuleUpdate, SolrRestart, TransactionInv
<1>37. CASE ExternalEdit
  BY <1>37, <1>type DEF ExternalEdit, TransactionInv, CoreDirectory
<1>38. CASE UNCHANGED vars
  BY <1>38 DEF vars, TransactionInv
<1> QED
  BY <1>2, <1>3, <1>4, <1>6, <1>7, <1>8, <1>9, <1>10, <1>11, <1>12, <1>13, <1>14,
     <1>15, <1>16, <1>17, <1>18, <1>19, <1>20, <1>21, <1>22, <1>23, <1>24, <1>25,
     <1>26, <1>27, <1>28, <1>29, <1>30, <1>31, <1>32, <1>33, <1>34, <1>35, <1>36,
     <1>37, <1>38
     DEF Next, HolderStep, Environment

LEMMA TransactionInvInit == Init => TransactionInv
BY DEF Init, Settled, NoRun, TransactionInv, MarkLabels, UnacceptedLabels, StageLabels,
       SwapLabels, RollbackLabels, ReindexLabels, ReindexPhase

-----------------------------------------------------------------------------
(* The marker implements the abstract transaction.                           *)

PhaseOf(m) ==
    IF m.complete THEN "indexed" ELSE IF m.reset THEN "reset"
    ELSE IF m.reconciled THEN "accepted" ELSE "pending"

LEMMA TransactionOfMarker ==
    ASSUME NEW m \in Markers
    PROVE  /\ txnOf(m) = [desired |-> m.desired, reindex |-> m.reindex, phase |-> PhaseOf(m)]
           /\ txnOf(m) # None
<1>1. m.reconciled \in BOOLEAN /\ m.reset \in BOOLEAN /\ m.complete \in BOOLEAN
      /\ m.desired \in Trees /\ m.reindex \in BOOLEAN /\ m # None
  BY MarkersAssumption DEF Markers
<1>2. txnOf(m) = [desired |-> m.desired, reindex |-> m.reindex, phase |-> PhaseOf(m)]
  BY <1>1 DEF txnOf, PhaseOf
<1>3. txnOf(m) \in Transaction!Transactions
  BY <1>1, <1>2 DEF Transaction!Transactions, Transaction!Phases, PhaseOf
<1> QED
  BY <1>2, <1>3, TransactionsAssumption

LEMMA NoTransaction == txnOf(None) = None
BY DEF txnOf

\* What a step of the program may do to the marker.
MarkerStep(before, after) ==
    \/ after = before
    \/ /\ before = None
       /\ \E t \in Trees, r \in BOOLEAN : after = NewMarker(t, r)
    \/ /\ before \in Markers /\ after \in Markers /\ ValidMarker(before)
       /\ \/ ~before.reindex /\ after = [before EXCEPT !.reindex = TRUE]
          \/ ~before.reconciled /\ after = [before EXCEPT !.reconciled = TRUE]
          \/ /\ pc = "recordReset"
             /\ before.reconciled /\ before.reindex /\ ~before.reset
             /\ after = [before EXCEPT !.reset = TRUE]
          \/ /\ pc = "recordIndexed"
             /\ before.reset /\ ~before.complete
             /\ after = [before EXCEPT !.complete = TRUE]
          \/ \E t \in Trees, r \in BOOLEAN :
                (before.reindex => r) /\ after = NewMarker(t, r)
    \/ /\ before \in Markers /\ ValidMarker(before) /\ before.reconciled
       /\ before.reindex => before.complete
       /\ after = None

LEMMA MarkerSteps == TypeInv /\ TransactionInv /\ [Next]_vars => MarkerStep(fs.marker, fs'.marker)
<1> SUFFICES ASSUME TypeInv, TransactionInv, [Next]_vars PROVE MarkerStep(fs.marker, fs'.marker)
  OBVIOUS
<1>type. /\ fs \in CoreDirectory /\ run \in RunRecords /\ pc \in Labels
         /\ pc \in MarkLabels => run.mark \in Markers
         /\ pc # "idle" => run.gen \in Trees
  BY DEF TypeInv, TypeOK
<1>inv. /\ fs.marker # None => ValidMarker(fs.marker)
        /\ pc \in MarkLabels /\ ~run.recovering => fs.marker = run.mark
        /\ ReindexPhase(pc, run.mark)
  BY DEF TransactionInv
<1> USE DEF MarkLabels, Labels, SwapLabels, RollbackLabels
<1>same. SUFFICES ASSUME fs'.marker # fs.marker PROVE MarkerStep(fs.marker, fs'.marker)
  BY DEF MarkerStep
<1>1. ASSUME NEW label, NEW d \in DirNames, NEW next, RemoveStep(label, d, next) PROVE FALSE
  BY <1>1, <1>type, <1>same, RemoveKeepsMarker DEF RemoveStep, SameMarker
<1>2. ASSUME NEW source \in DirNames, NEW target \in DirNames, NEW next, NEW onError,
             Move(source, target, next, onError) PROVE FALSE
  BY <1>2, <1>type, <1>same, MoveKeepsMarker DEF SameMarker
<1>3. CASE \/ ClearPrevious \/ ClearStaged \/ ClearAbandoned \/ StageClear
           \/ ClearInterrupted \/ RollbackClear \/ DropPrevious
  BY <1>3, <1>1 DEF ClearPrevious, ClearStaged, ClearAbandoned, StageClear,
         ClearInterrupted, RollbackClear, DropPrevious, DirNames
<1>4. CASE \/ RetainPrevious \/ RetainInterrupted \/ Install \/ Restore
           \/ RollbackRetain \/ RollbackRestore
  BY <1>4, <1>2 DEF RetainPrevious, RetainInterrupted, Install, Restore,
         RollbackRetain, RollbackRestore, MoveStep, DirNames
<1>5. CASE \/ Resume \/ ResumeAccepted \/ Compare \/ StageVerify \/ Activate \/ Verify
           \/ Rollback \/ Status \/ Create \/ Reload \/ Finish \/ ResetTrackers \/ Index
           \/ Publish \/ Release
  BY <1>5, <1>same DEF Resume, ResumeAccepted, Compare, StageVerify, Activate, Verify,
         Rollback, Status, Create, Reload, Reconcile, Finish, ResetTrackers, Index, Drush,
         Publish, Release, Decide, ReadFails
<1>6. CASE \/ Start \/ StageCopy \/ ExternalEdit
  BY <1>6, <1>same, <1>type DEF Start, StageCopy, ExternalEdit, Decide, Call, CoreDirectory
<1>7. CASE Crash \/ ModuleUpdate \/ SolrRestart \/ UNCHANGED vars
  BY <1>7, <1>same DEF Crash, ModuleUpdate, SolrRestart, vars
<1>8. ASSUME NEW r \in Runs, Generate(r) \/ AcquireLock(r) PROVE FALSE
  BY <1>8, <1>same DEF Generate, AcquireLock
<1>9. CASE OperatorRemovesPending
  BY <1>9, <1>same, <1>type DEF OperatorRemovesPending, Emptied, CoreDirectory
\* The calls that write or remove it.
<1>write. ASSUME NEW mark, NEW next, NEW onError, WriteMarker(mark, next, onError)
          PROVE  fs'.marker = mark /\ ValidMarker(mark)
  BY <1>write, <1>type, <1>same, WriteMarkerWrites
<1>held. ASSUME pc \in {"recordReindex", "supersede", "recordReset", "recordIndexed", "accept"}
         PROVE  /\ run.mark \in Markers /\ fs.marker = run.mark /\ ValidMarker(fs.marker)
                /\ fs.marker # None
  BY <1>held, <1>type DEF TransactionInv
<1>10. CASE RecordReindex
  <2>1. run'.mark = [run.mark EXCEPT !.reindex = TRUE] /\ run'.mark \in Markers
    BY <1>10, <1>type, <1>held DEF RecordReindex, RunRecords, Markers
  <2>2. fs'.marker = run'.mark /\ ~run.mark.reindex
    BY <1>10, <1>write DEF RecordReindex, TransactionInv
  <2> QED
    BY <1>10, <1>held, <2>1, <2>2 DEF RecordReindex, MarkerStep
<1>11. CASE Supersede
  <2>1. run'.mark = Superseding(run.mark) /\ run.gen \in Trees
    BY <1>11, <1>type, <1>held DEF Supersede, RunRecords
  <2>2. fs'.marker = run'.mark
    BY <1>11, <1>write DEF Supersede
  <2>4. Superseding(run.mark) \in Markers
    BY <1>11, <1>held, <1>type, <2>1 DEF Supersede, Superseding, NewMarker, Markers
  <2>5. \E r \in BOOLEAN : (run.mark.reindex => r) /\ Superseding(run.mark) = NewMarker(run.gen, r)
    <3> WITNESS (run.mark.reindex \/ run.reindex) \in BOOLEAN
    <3> QED
      BY DEF Superseding
  <2> QED
    BY <1>11, <1>held, <2>1, <2>2, <2>4, <2>5 DEF Supersede, MarkerStep
<1>12. CASE Begin
  <2>1. run'.mark = NewMarker(run.gen, run.reindex) /\ run.gen \in Trees /\ run.reindex \in BOOLEAN
    BY <1>12, <1>type DEF Begin, RunRecords
  <2>2. fs'.marker = run'.mark /\ fs.marker = None
    BY <1>12, <1>write DEF Begin, TransactionInv
  <2> QED
    BY <2>1, <2>2 DEF MarkerStep
<1>13. CASE RecordReset
  <2>1. run'.mark = [run.mark EXCEPT !.reset = TRUE] /\ run'.mark \in Markers
    BY <1>13, <1>type, <1>held DEF RecordReset, RunRecords, Markers
  <2>2. fs'.marker = run'.mark /\ run.mark.reconciled /\ run.mark.reindex /\ ~run.mark.reset
    BY <1>13, <1>write, <1>held DEF RecordReset, TransactionInv, ReindexPhase, ReindexLabels
  <2> QED
    BY <1>13, <1>held, <2>1, <2>2 DEF RecordReset, MarkerStep
<1>14. CASE RecordIndexed
  <2>1. run'.mark = [run.mark EXCEPT !.complete = TRUE] /\ run'.mark \in Markers
    BY <1>14, <1>type, <1>held DEF RecordIndexed, RunRecords, Markers
  <2>2. fs'.marker = run'.mark /\ run.mark.reset /\ ~run.mark.complete
    BY <1>14, <1>write, <1>held DEF RecordIndexed, TransactionInv, ReindexPhase, ReindexLabels
  <2> QED
    BY <1>14, <1>held, <2>1, <2>2 DEF RecordIndexed, MarkerStep
<1>15. CASE Accept
  <2>1. [run.mark EXCEPT !.reconciled = TRUE] \in Markers
    BY <1>15, <1>held DEF Accept, Markers
  <2>2. fs'.marker = [run.mark EXCEPT !.reconciled = TRUE] /\ ~run.mark.reconciled
    BY <1>15, <1>write DEF Accept, TransactionInv, UnacceptedLabels
  <2> QED
    BY <1>15, <1>held, <2>1, <2>2 DEF Accept, MarkerStep
<1>16. CASE Cleanup
  <2>1. /\ run.mark \in Markers /\ fs.marker = run.mark /\ ValidMarker(fs.marker)
        /\ run.mark.reconciled /\ (run.mark.reindex => run.mark.complete)
    BY <1>16, <1>type, MarkersAssumption DEF Cleanup, TransactionInv, ReindexPhase, ReindexLabels
  <2>2. fs'.marker = None
    BY <1>16, <1>type, <1>same DEF Cleanup, Call, Emptied, HalfEmptied, CoreDirectory
  <2> QED
    BY <2>1, <2>2 DEF MarkerStep
<1> QED
  BY <1>3, <1>4, <1>5, <1>6, <1>7, <1>8, <1>9, <1>10, <1>11, <1>12, <1>13, <1>14,
     <1>15, <1>16
     DEF Next, HolderStep, Environment

\* Every step of the program is a step of the abstract transaction, or none.
LEMMA TransactionStep ==
    MarkerStep(fs.marker, fs'.marker) => [Transaction!TxnNext]_(txnOf(fs.marker))
<1> SUFFICES ASSUME MarkerStep(fs.marker, fs'.marker)
             PROVE  Transaction!TxnNext \/ txnOf(fs'.marker) = txnOf(fs.marker)
  OBVIOUS
<1> DEFINE before == fs.marker
           after == fs'.marker
<1>1. CASE after = before
  BY <1>1
<1>2. ASSUME before = None, NEW t \in Trees, NEW r \in BOOLEAN, after = NewMarker(t, r)
      PROVE  Transaction!TxnNext
  <2>1. after \in Markers /\ PhaseOf(after) = "pending" /\ after.desired = t /\ after.reindex = r
    BY <1>2 DEF NewMarker, Markers, PhaseOf
  <2>2. txnOf(after) = [desired |-> t, reindex |-> r, phase |-> "pending"]
    BY <2>1, TransactionOfMarker
  <2>3. Transaction!Begin
    BY <1>2, <2>2, NoTransaction DEF Transaction!Begin
  <2> QED
    BY <2>3 DEF Transaction!TxnNext
<1>3. ASSUME before \in Markers, after \in Markers, ValidMarker(before),
             ~before.reindex, after = [before EXCEPT !.reindex = TRUE]
      PROVE  Transaction!RequestReindex
  <2>seen. /\ txnOf(before) = [desired |-> before.desired, reindex |-> before.reindex,
                              phase |-> PhaseOf(before)]
           /\ txnOf(after) = [desired |-> after.desired, reindex |-> after.reindex,
                             phase |-> PhaseOf(after)]
           /\ txnOf(before) # None
    BY <1>3, TransactionOfMarker
  <2>1. /\ PhaseOf(after) = PhaseOf(before) /\ PhaseOf(before) \in {"pending", "accepted"}
        /\ after.desired = before.desired /\ after.reindex = TRUE
    BY <1>3 DEF PhaseOf, ValidMarker, Markers
  <2>2. txnOf(after) = [txnOf(before) EXCEPT !.reindex = TRUE]
    <3> DEFINE yes == TRUE
    <3>1. txnOf(after) = [desired |-> before.desired, reindex |-> yes, phase |-> PhaseOf(before)]
      BY <2>seen, <2>1, Zenon
    <3>2. txnOf(after) = [txnOf(before) EXCEPT !.reindex = yes]
      <4> HIDE DEF yes
      <4> QED
        BY <2>seen, <3>1
    <3> QED
      BY <3>2
  <2>3. txnOf(before).phase \in {"pending", "accepted"} /\ txnOf(before) # None
    BY <2>seen, <2>1
  <2> QED
    BY <2>2, <2>3 DEF Transaction!RequestReindex
<1>4. ASSUME before \in Markers, after \in Markers, ValidMarker(before),
             ~before.reconciled, after = [before EXCEPT !.reconciled = TRUE]
      PROVE  Transaction!Accept
  <2>seen. /\ txnOf(before) = [desired |-> before.desired, reindex |-> before.reindex,
                              phase |-> PhaseOf(before)]
           /\ txnOf(after) = [desired |-> after.desired, reindex |-> after.reindex,
                             phase |-> PhaseOf(after)]
           /\ txnOf(before) # None
    BY <1>4, TransactionOfMarker
  <2>1. /\ PhaseOf(after) = "accepted" /\ PhaseOf(before) = "pending"
        /\ after.desired = before.desired /\ after.reindex = before.reindex
    BY <1>4 DEF PhaseOf, ValidMarker, Markers
  <2>2. /\ txnOf(after) = [txnOf(before) EXCEPT !.phase = "accepted"]
        /\ txnOf(before).phase = "pending" /\ txnOf(before) # None
    BY <2>seen, <2>1
  <2> QED
    BY <2>2 DEF Transaction!Accept, Transaction!Advance
<1>5. ASSUME before \in Markers, after \in Markers, ValidMarker(before),
             before.reconciled, before.reindex, ~before.reset,
             after = [before EXCEPT !.reset = TRUE]
      PROVE  Transaction!ResetTrackers
  <2>seen. /\ txnOf(before) = [desired |-> before.desired, reindex |-> before.reindex,
                              phase |-> PhaseOf(before)]
           /\ txnOf(after) = [desired |-> after.desired, reindex |-> after.reindex,
                             phase |-> PhaseOf(after)]
           /\ txnOf(before) # None
    BY <1>5, TransactionOfMarker
  <2>1. /\ PhaseOf(after) = "reset" /\ PhaseOf(before) = "accepted"
        /\ after.desired = before.desired /\ after.reindex = before.reindex
    BY <1>5 DEF PhaseOf, ValidMarker, Markers
  <2>2. /\ txnOf(after) = [txnOf(before) EXCEPT !.phase = "reset"]
        /\ txnOf(before).phase = "accepted" /\ txnOf(before) # None
        /\ txnOf(before).reindex = before.reindex
    BY <2>seen, <2>1
  <2> QED
    BY <1>5, <2>2 DEF Transaction!ResetTrackers, Transaction!Advance
<1>6. ASSUME before \in Markers, after \in Markers, ValidMarker(before),
             before.reset, ~before.complete, after = [before EXCEPT !.complete = TRUE]
      PROVE  Transaction!Index
  <2>seen. /\ txnOf(before) = [desired |-> before.desired, reindex |-> before.reindex,
                              phase |-> PhaseOf(before)]
           /\ txnOf(after) = [desired |-> after.desired, reindex |-> after.reindex,
                             phase |-> PhaseOf(after)]
           /\ txnOf(before) # None
    BY <1>6, TransactionOfMarker
  <2>1. /\ PhaseOf(after) = "indexed" /\ PhaseOf(before) = "reset"
        /\ after.desired = before.desired /\ after.reindex = before.reindex
    BY <1>6 DEF PhaseOf, ValidMarker, Markers
  <2>2. /\ txnOf(after) = [txnOf(before) EXCEPT !.phase = "indexed"]
        /\ txnOf(before).phase = "reset" /\ txnOf(before) # None
    BY <2>seen, <2>1
  <2> QED
    BY <2>2 DEF Transaction!Index, Transaction!Advance
<1>7. ASSUME before \in Markers, after \in Markers, NEW t \in Trees, NEW r \in BOOLEAN,
             before.reindex => r, after = NewMarker(t, r)
      PROVE  Transaction!Supersede
  <2>seen. /\ txnOf(before) = [desired |-> before.desired, reindex |-> before.reindex,
                              phase |-> PhaseOf(before)]
           /\ txnOf(after) = [desired |-> after.desired, reindex |-> after.reindex,
                             phase |-> PhaseOf(after)]
           /\ txnOf(before) # None
    BY <1>7, TransactionOfMarker
  <2>1. PhaseOf(after) = "pending" /\ after.desired = t /\ after.reindex = r
    BY <1>7 DEF PhaseOf, NewMarker
  <2>2. /\ txnOf(after) = [desired |-> t, reindex |-> r, phase |-> "pending"]
        /\ txnOf(before).reindex = before.reindex /\ txnOf(before) # None
    BY <2>seen, <2>1
  <2> QED
    BY <1>7, <2>2 DEF Transaction!Supersede
<1>8. ASSUME before \in Markers, ValidMarker(before), before.reconciled,
             before.reindex => before.complete, after = None
      PROVE  Transaction!Complete
  <2>1. /\ txnOf(before) = [desired |-> before.desired, reindex |-> before.reindex, phase |-> PhaseOf(before)]
        /\ txnOf(before) # None
    BY <1>8, TransactionOfMarker
  <2>2. IF before.reindex THEN PhaseOf(before) = "indexed" ELSE PhaseOf(before) = "accepted"
    BY <1>8 DEF PhaseOf, ValidMarker, Markers
  <2>3. /\ txnOf(before).reindex = before.reindex
        /\ txnOf(before).phase = PhaseOf(before)
    BY <2>1
  <2> QED
    BY <1>8, <2>1, <2>2, <2>3, NoTransaction DEF Transaction!Complete
<1> QED
  BY <1>1, <1>2, <1>3, <1>4, <1>5, <1>6, <1>7, <1>8 DEF MarkerStep, Transaction!TxnNext

\* Every behaviour of the program is, seen through the marker, a behaviour of
\* PendingTransaction, whatever fails, dies, is edited or is done in spite of
\* the error that is reported.
THEOREM MarkerImplementsTransaction == Spec => MarkerIsATransaction
<1>1. Init => TypeInv /\ TransactionInv /\ Transaction!TxnInit
  <2>1. Init => fs.marker = None
    BY DEF Init, Settled
  <2>2. Init => Transaction!TxnInit
    BY <2>1, NoTransaction DEF Transaction!TxnInit
  <2> QED
    BY <2>2, TypeInvInit, TransactionInvInit
<1>2. TypeInv /\ TransactionInv /\ [Next]_vars => TypeInv' /\ TransactionInv'
  BY TypeInvStep, TransactionInvStep
<1>3. TypeInv /\ TransactionInv /\ [Next]_vars => [Transaction!TxnNext]_(txnOf(fs.marker))
  BY MarkerSteps, TransactionStep
<1> QED
  BY <1>1, <1>2, <1>3, PTL DEF Spec, MarkerIsATransaction, Transaction!TxnSpec

\* No failure, crash or superseding run loses a recorded request to reindex
\* before the reindex has completed.
THEOREM ReindexRequestsAreKept == Spec => ReindexRequestIsKept
<1>1. TypeInv /\ TransactionInv /\ [Next]_vars
         => [fs.marker # None /\ fs.marker.reindex /\ ~fs.marker.complete
                => fs'.marker # None /\ fs'.marker.reindex]_vars
  <2> SUFFICES ASSUME MarkerStep(fs.marker, fs'.marker), fs.marker # None,
                      fs.marker.reindex, ~fs.marker.complete
               PROVE  fs'.marker # None /\ fs'.marker.reindex
    BY MarkerSteps
  <2> DEFINE before == fs.marker
             after == fs'.marker
  <2>1. CASE after = before
    BY <2>1
  <2>2. CASE after \in Markers /\ before \in Markers
             /\ \/ \E field \in {"reindex", "reconciled", "reset", "complete"} :
                      after = [before EXCEPT ![field] = TRUE]
                \/ \E t \in Trees, r \in BOOLEAN :
                      (before.reindex => r) /\ after = NewMarker(t, r)
    <3>1. after # None
      BY <2>2, MarkersAssumption
    <3>2. ASSUME NEW field \in {"reindex", "reconciled", "reset", "complete"},
                 after = [before EXCEPT ![field] = TRUE]
          PROVE  after.reindex
      BY <2>2, <3>2 DEF Markers
    <3>3. ASSUME NEW t \in Trees, NEW r \in BOOLEAN, before.reindex => r, after = NewMarker(t, r)
          PROVE  after.reindex
      BY <3>3 DEF NewMarker
    <3> QED
      BY <2>2, <3>1, <3>2, <3>3
  <2> QED
    BY <2>1, <2>2 DEF MarkerStep
<1>2. Init => TypeInv /\ TransactionInv
  BY TypeInvInit, TransactionInvInit
<1>3. TypeInv /\ TransactionInv /\ [Next]_vars => TypeInv' /\ TransactionInv'
  BY TypeInvStep, TransactionInvStep
<1> QED
  BY <1>1, <1>2, <1>3, PTL DEF Spec, ReindexRequestIsKept

-----------------------------------------------------------------------------
(* What a successful run leaves behind.                                      *)

\* The labels at which the transaction of the holder is for the tree that it
\* generated itself.
OwnLabels == MarkLabels \ (RollbackLabels \cup
    {"resumeAccepted", "clearPrevious", "clearStaged", "clearAbandoned", "supersede"})

\* What a run has established about both copies at each label.
RunInv ==
    /\ pc \in {"compare", "publish", "start", "succeeded"} => ~fs.pending
    /\ pc \in OwnLabels /\ ~run.recovering => run.mark.desired = run.gen
    /\ pc \in ReindexLabels \cup {"dropPrevious"} => fs.conf = run.mark.desired
    /\ pc \in {"idle", "resume", "compare", "publish", "start"} => ~run.started
    /\ run.started \/ pc = "start" => host = run.gen
    /\ pc = "publish" /\ ~run.runtimeDrift => fs.conf = run.gen
    /\ pc = "succeeded" => fs.conf = run.gen /\ host = run.gen

LEMMA RemoveKeepsConf ==
    ASSUME NEW d \in DirNames \ {"conf"}, NEW next, NEW onError, fs \in CoreDirectory,
           Remove(d, next, onError)
    PROVE  fs'.conf = fs.conf
BY DEF Remove, Call, Without, Remains, DirNames, CoreDirectory

LEMMA WriteMarkerKeepsConf ==
    ASSUME NEW mark, NEW next, NEW onError, fs \in CoreDirectory,
           WriteMarker(mark, next, onError)
    PROVE  fs'.conf = fs.conf
BY DEF WriteMarker, Call, CoreDirectory

LEMMA RunInvStep == TypeInv /\ TransactionInv /\ RunInv /\ [Next]_vars => RunInv'
<1> SUFFICES ASSUME TypeInv, TransactionInv, RunInv, [Next]_vars PROVE RunInv'
  OBVIOUS
<1>type. /\ fs \in CoreDirectory /\ run \in RunRecords /\ pc \in Labels
         /\ pc \in MarkLabels => run.mark \in Markers
         /\ (holder = None) <=> (pc = "idle")
  BY DEF TypeInv, TypeOK
<1>mark. pc \in MarkLabels /\ ~run.recovering => fs.marker = run.mark
  BY DEF TransactionInv
<1>recovering. run.recovering => pc \in RollbackLabels \cup {"status", "create", "reload", "failed"}
  BY DEF TransactionInv
<1> USE DEF Labels, MarkLabels, OwnLabels, SwapLabels, RollbackLabels, ReindexLabels
\* Steps within a transaction that leave the locals and the tracked copy alone.
<1>same. ASSUME pc \in MarkLabels, run'.mark = run.mark, run'.gen = run.gen,
                run'.started = run.started, host' = host,
                pc' \in MarkLabels \cup {"failed"},
                pc' \in OwnLabels /\ ~run'.recovering => pc \in OwnLabels /\ ~run.recovering,
                pc' \in ReindexLabels \cup {"dropPrevious"} => fs'.conf = run.mark.desired
         PROVE  RunInv'
  BY <1>same DEF RunInv
<1>1. ASSUME NEW label \in MarkLabels, NEW d \in DirNames \ {"conf"}, NEW next \in MarkLabels,
             RemoveStep(label, d, next),
             next \in OwnLabels => label \in OwnLabels /\ ~run.recovering,
             next \in ReindexLabels \cup {"dropPrevious"}
                 => label \in ReindexLabels \cup {"dropPrevious"}
      PROVE  RunInv'
  <2>1. /\ run' = run /\ pc = label /\ host' = host /\ fs'.conf = fs.conf
        /\ pc' = next \/ pc' = "failed"
    BY <1>1, <1>type, RemoveKeepsConf, RemoveKeepsMarker DEF RemoveStep, outside
  <2> QED
    BY <1>1, <2>1, <1>same DEF RunInv
<1>2. CASE ClearPrevious \/ ClearStaged \/ ClearAbandoned
  BY <1>2, <1>1 DEF ClearPrevious, ClearStaged, ClearAbandoned, DirNames
<1>3. CASE StageClear \/ ClearInterrupted \/ RollbackClear
  BY <1>3, <1>1, <1>recovering DEF StageClear, ClearInterrupted, RollbackClear, DirNames, RemoveStep
<1>4. CASE DropPrevious
  BY <1>4, <1>1, <1>recovering DEF DropPrevious, Remaining, DirNames, RemoveStep
<1>5. ASSUME NEW source \in DirNames, NEW target \in DirNames, NEW next, NEW onError,
             pc \in MarkLabels, Move(source, target, next, onError), host' = host,
             run'.mark = run.mark, run'.gen = run.gen, run'.started = run.started,
             \A label \in {next, onError} :
                /\ label \in (MarkLabels \ (ReindexLabels \cup {"dropPrevious"})) \cup {"failed"}
                /\ pc' = label /\ label \in OwnLabels /\ ~run'.recovering
                      => pc \in OwnLabels /\ ~run.recovering
      PROVE  RunInv'
  <2>1. pc' = next \/ pc' = onError
    BY <1>5, <1>type, MoveKeepsMarker
  <2> QED
    BY <1>5, <2>1, <1>same
<1>6. CASE RetainPrevious
  BY <1>6, <1>5, <1>type, <1>recovering DEF RetainPrevious, DirNames, RunRecords, outside
<1>7. CASE RetainInterrupted
  BY <1>7, <1>5, <1>type, <1>recovering DEF RetainInterrupted, MoveStep, DirNames, outside
<1>8. CASE Install
  BY <1>8, <1>5, <1>type, <1>recovering DEF Install, MoveStep, DirNames, outside
<1>9. CASE Restore
  BY <1>9, <1>5, <1>type, <1>recovering DEF Restore, DirNames, RunRecords, outside
<1>10. CASE RollbackRetain
  BY <1>10, <1>5, <1>type DEF RollbackRetain, MoveStep, DirNames, outside
<1>11. CASE RollbackRestore
  BY <1>11, <1>5, <1>type DEF RollbackRestore, RolledBack, MoveStep, DirNames, outside
<1>12. CASE Resume
  BY <1>12, <1>type, <1>recovering DEF Resume, Decide, ReadFails, RunInv, RunRecords, CoreDirectory, outside
<1>13. CASE ResumeAccepted
  BY <1>13, <1>type DEF ResumeAccepted, Decide, ReadFails, RunInv, RunRecords, outside
<1>14. CASE Compare
  BY <1>14, <1>type DEF Compare, Decide, ReadFails, RunInv, RunRecords, CoreDirectory, outside
<1>15. CASE StageVerify
  <2>1. /\ pc = "stageVerify" /\ run'.mark = run.mark /\ run'.gen = run.gen
        /\ run'.started = run.started /\ host' = host /\ ~run.recovering
        /\ pc' \in SwapLabels \cup {"activate", "failed"}
    BY <1>15, <1>type, <1>recovering DEF StageVerify, Decide, ReadFails, RunRecords, outside
  <2> QED
    BY <2>1, <1>same
<1>16. CASE Activate
  <2>1. /\ pc = "activate" /\ run'.mark = run.mark /\ run'.gen = run.gen
        /\ run'.started = run.started /\ host' = host /\ ~run.recovering
        /\ pc' \in SwapLabels \cup {"status", "stageClear", "failed"}
    BY <1>16, <1>type, <1>recovering DEF Activate, MakeRoom, Decide, ReadFails, RunRecords, outside
  <2> QED
    BY <2>1, <1>same
<1>17. CASE Verify
  <2>1. /\ pc = "verify" /\ run'.mark = run.mark /\ run'.gen = run.gen
        /\ run'.started = run.started /\ host' = host /\ ~run.recovering
        /\ pc' \in {"status", "rollback", "failed"}
    BY <1>17, <1>type, <1>recovering DEF Verify, Recovery, Decide, ReadFails, RunRecords, outside
  <2> QED
    BY <2>1, <1>same
<1>18. CASE Rollback
  <2>1. /\ pc = "rollback" /\ run' = run /\ host' = host
        /\ \/ pc' = "status" /\ run.recovering
           \/ pc' \in {"clearStaged", "rollbackClear", "rollbackRestore", "failed"}
    BY <1>18, <1>type DEF Rollback, RolledBack, Decide, ReadFails, RunRecords, outside
  <2> QED
    BY <2>1, <1>same
<1>19. CASE Status
  <2>1. /\ pc = "status" /\ run'.mark = run.mark /\ run'.gen = run.gen
        /\ run'.started = run.started /\ host' = host
        /\ ~run'.recovering => ~run.recovering
        /\ pc' \in {"create", "reload", "rollback", "failed"}
    BY <1>19, <1>type DEF Status, NotReconciled, Recovery, Decide, ReadFails, RunRecords, outside
  <2> QED
    BY <2>1, <1>same
<1>20. CASE Create \/ Reload
  <2>1. /\ pc \in {"create", "reload"} /\ run'.mark = run.mark /\ run'.gen = run.gen
        /\ run'.started = run.started /\ host' = host
        /\ ~run'.recovering => ~run.recovering
        /\ pc' \in {"accept", "rollback", "failed"}
    BY <1>20, <1>type DEF Create, Reload, Reconcile, NotReconciled, Recovery, RunRecords
  <2> QED
    BY <2>1, <1>same
<1>21. CASE Finish
  <2>1. /\ pc = "finish" /\ run' = run /\ host' = host /\ fs' = fs /\ ~run.recovering
        /\ \/ pc' = "failed"
           \/ pc' = "dropPrevious" /\ fs.conf = run.mark.desired
    BY <1>21, <1>recovering DEF Finish, Decide, ReadFails, outside
  <2> QED
    BY <2>1, <1>same
<1>22. CASE ResetTrackers \/ Index
  <2>1. /\ pc \in {"resetTrackers", "index"} /\ run' = run /\ host' = host /\ fs' = fs
        /\ ~run.recovering
        /\ pc' \in {"recordReset", "recordIndexed", "failed"}
    BY <1>22, <1>recovering DEF ResetTrackers, Index, Drush
  <2> QED
    BY <2>1, <1>same DEF RunInv
<1>23. CASE StageCopy
  <2>1. /\ pc = "stageCopy" /\ run' = run /\ host' = host /\ ~run.recovering
        /\ pc' \in {"stageVerify", "failed"}
    BY <1>23, <1>recovering DEF StageCopy, Call, outside
  <2> QED
    BY <2>1, <1>same
\* Records of progress.
<1>record. ASSUME NEW next, pc \in MarkLabels \cup {"begin"},
                  WriteMarker(run'.mark, next, "failed"),
                  run'.mark.desired = run.gen, run'.gen = run.gen,
                  run'.started = run.started, host' = host,
                  next \in MarkLabels \ {"dropPrevious"},
                  next \in ReindexLabels => fs.conf = run'.mark.desired
           PROVE  RunInv'
  <2>1. fs'.conf = fs.conf /\ (pc' = next \/ pc' = "failed")
    BY <1>record, <1>type, WriteMarkerWrites, WriteMarkerKeepsConf
  <2> QED
    BY <1>record, <2>1 DEF RunInv
<1>24. CASE RecordReindex
  <2>1. run.mark \in Markers /\ run.mark.desired = run.gen /\ pc = "recordReindex"
    BY <1>24, <1>type, <1>recovering DEF RecordReindex, RunInv
  <2>2. /\ run'.mark.desired = run.gen /\ run'.gen = run.gen
        /\ run'.started = run.started /\ host' = host
    BY <1>24, <1>type, <2>1 DEF RecordReindex, RunRecords, Markers, outside
  <2>3. WriteMarker(run'.mark, IF run.mark.reconciled THEN "finish" ELSE "activate", "failed")
    BY <1>24 DEF RecordReindex
  <2>4. CASE run.mark.reconciled
    <3>1. WriteMarker(run'.mark, "finish", "failed")
      BY <2>3, <2>4
    <3> QED
      BY <2>1, <2>2, <3>1, <1>record
  <2>5. CASE ~run.mark.reconciled
    <3>1. WriteMarker(run'.mark, "activate", "failed")
      BY <2>3, <2>5
    <3> QED
      BY <2>1, <2>2, <3>1, <1>record
  <2> QED
    BY <2>4, <2>5
<1>25. CASE Supersede
  <2>1. /\ run'.mark.desired = run.gen /\ run'.gen = run.gen
        /\ run'.started = run.started /\ host' = host
    BY <1>25, <1>type DEF Supersede, Superseding, NewMarker, RunRecords, outside
  <2> QED
    BY <1>25, <2>1, <1>record DEF Supersede
<1>26. CASE Begin
  <2>1. /\ run'.mark.desired = run.gen /\ run'.gen = run.gen
        /\ run'.started = run.started /\ host' = host
    BY <1>26, <1>type DEF Begin, NewMarker, RunRecords, outside
  <2> QED
    BY <1>26, <2>1, <1>record DEF Begin
<1>27. CASE RecordReset \/ RecordIndexed
  <2>1. /\ run.mark \in Markers /\ run.mark.desired = run.gen /\ fs.conf = run.mark.desired
        /\ pc \in {"recordReset", "recordIndexed"}
    BY <1>27, <1>type, <1>recovering DEF RecordReset, RecordIndexed, RunInv
  <2>2. /\ run'.mark.desired = run.gen /\ run'.gen = run.gen
        /\ run'.started = run.started /\ host' = host
    BY <1>27, <1>type, <2>1 DEF RecordReset, RecordIndexed, RunRecords, Markers, outside
  <2>3. /\ WriteMarker(run'.mark, Remaining(run'.mark), "failed")
        /\ Remaining(run'.mark) \in {"resetTrackers", "index", "cleanup"}
    BY <1>27 DEF RecordReset, RecordIndexed, Remaining
  <2> DEFINE next == Remaining(run'.mark)
  <2> HIDE DEF next
  <2> QED
    BY <2>1, <2>2, <2>3, <1>record DEF next
<1>28. CASE Accept
  <2>1. run.mark \in Markers /\ run.mark.desired = run.gen /\ pc = "accept"
    BY <1>28, <1>type, <1>recovering DEF Accept, RunInv
  <2>2. /\ run'.mark.desired = run.gen /\ run'.gen = run.gen
        /\ run'.started = run.started /\ host' = host
    BY <1>28, <1>type, <2>1 DEF Accept, RunRecords, Markers, outside
  <2>3. pc' = "finish" \/ pc' = Recovery
    BY <1>28, <1>type, WriteMarkerWrites DEF Accept
  <2>4. pc' \in {"finish", "rollback", "failed"}
    BY <2>3 DEF Recovery
  <2> QED
    BY <2>1, <2>2, <2>4 DEF RunInv
\* The pending directory and the tracked copy.
<1>29. CASE Start
  <2>1. /\ run'.mark = run.mark /\ run'.gen = run.gen /\ run'.started = TRUE
        /\ host' = host /\ pc = "start" /\ pc' \in {"begin", "failed"}
    BY <1>29, <1>type DEF Start, Decide, Call, RunRecords, outside
  <2> QED
    BY <2>1 DEF RunInv
<1>30. CASE Cleanup
  <2>1. /\ run'.mark = run.mark /\ run'.gen = run.gen /\ run'.started = run.started
        /\ host' = host /\ pc = "cleanup" /\ ~run.recovering
    BY <1>30, <1>type, <1>recovering DEF Cleanup, RunRecords, outside
  <2>2. /\ fs'.conf = fs.conf
        /\ \/ pc' = "failed"
           \/ pc' = "succeeded" /\ run.started /\ fs'.pending = FALSE
           \/ pc' = "compare" /\ ~run.started /\ fs'.pending = FALSE
    BY <1>30, <1>type DEF Cleanup, Call, Emptied, HalfEmptied, CoreDirectory
  <2> QED
    BY <2>1, <2>2 DEF RunInv
<1>31. CASE Publish
  BY <1>31 DEF Publish, RunInv
\* The environment.
<1>32. ASSUME NEW r \in Runs, Generate(r) PROVE RunInv'
  BY <1>32 DEF Generate, RunInv
<1>33. ASSUME NEW r \in Runs, AcquireLock(r) PROVE RunInv'
  BY <1>33 DEF AcquireLock, NoRun, RunInv
<1>34. CASE Release \/ Crash
  BY <1>34 DEF Release, Decide, Crash, NoRun, RunInv
<1>35. CASE ModuleUpdate \/ SolrRestart
  BY <1>35 DEF ModuleUpdate, SolrRestart, RunInv
<1>36. CASE ExternalEdit \/ OperatorRemovesPending
  BY <1>36, <1>type DEF ExternalEdit, OperatorRemovesPending, RunInv
<1>37. CASE UNCHANGED vars
  BY <1>37 DEF vars, RunInv
<1> QED
  BY <1>2, <1>3, <1>4, <1>6, <1>7, <1>8, <1>9, <1>10, <1>11, <1>12, <1>13, <1>14,
     <1>15, <1>16, <1>17, <1>18, <1>19, <1>20, <1>21, <1>22, <1>23, <1>24, <1>25,
     <1>26, <1>27, <1>28, <1>29, <1>30, <1>31, <1>32, <1>33, <1>34, <1>35, <1>36, <1>37
     DEF Next, HolderStep, Environment

LEMMA RunInvInit == Init => RunInv
BY DEF Init, Settled, NoRun, RunInv, OwnLabels, MarkLabels, ReindexLabels

\* Both copies are at the tree the run generated, and nothing is pending.
SuccessLeavesBothCopies ==
    pc = "succeeded" => ~fs.pending /\ fs.conf = run.gen /\ host = run.gen

\* A run that reports success has brought the tracked copy and the running one
\* to its tree and left no transaction behind, even when calls that reported an
\* error had worked.
THEOREM SuccessIsComplete == Spec => []SuccessLeavesBothCopies
<1>1. Init => TypeInv /\ TransactionInv /\ RunInv
  BY TypeInvInit, TransactionInvInit, RunInvInit
<1>2. TypeInv /\ TransactionInv /\ RunInv /\ [Next]_vars => TypeInv' /\ TransactionInv' /\ RunInv'
  BY TypeInvStep, TransactionInvStep, RunInvStep
<1>3. RunInv => SuccessLeavesBothCopies
  BY DEF RunInv, SuccessLeavesBothCopies
<1> QED
  BY <1>1, <1>2, <1>3, PTL DEF Spec

=============================================================================
