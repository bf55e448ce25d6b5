------------------------- MODULE SolrConfigRefresh -------------------------
(***************************************************************************)
(* `sitectl drupal solr-config refresh` (cmd/solr_config.go and            *)
(* cmd/solr_config_transaction.go): several invocations ("runs") generate  *)
(* a Solr configuration tree with Drupal, take the lock of the Solr core   *)
(* in turn, finish or supersede an interrupted transaction found in the    *)
(* core directory, and then bring the tracked copy on the host and the     *)
(* running copy in the container to the generated tree.                    *)
(*                                                                         *)
(* Each action is one call into the container, the host or Drupal with the *)
(* decisions the code takes on its result.  Such a call may fail, and the  *)
(* process may die between any two of them.  A tree is an element of       *)
(* Trees; its SHA-256 is the element itself.  Torn is a tree left          *)
(* incomplete, or nested, by an interrupted command: it has the digest of  *)
(* no generated tree.                                                      *)
(***************************************************************************)
EXTENDS Naturals

CONSTANTS
    Runs,               \* invocations of the command
    Trees,              \* the trees Drupal may generate
    None,               \* an absent file, directory, tree or run
    Torn,               \* a directory holding only part of a tree
    Acceptable,         \* the trees Solr loads without an error
    AmbiguousFailures,  \* TRUE: a call that reports an error may have worked
    Budget              \* how many events of each kind may still happen

Events == {"fault", "crash", "update", "edit", "restart"}

ASSUME TreesAssumption ==
    /\ None \notin Trees \cup {Torn}
    /\ Torn \notin Trees
    /\ Acceptable \subseteq Trees \cup {Torn}
ASSUME RunsAssumption == None \notin Runs
ASSUME FailureAssumption == AmbiguousFailures \in BOOLEAN
ASSUME BudgetAssumption == Budget \in [Events -> Nat]

VARIABLES
    fs,       \* the core directory in the Solr container
    host,     \* the tracked copy in the project on the context host
    loaded,   \* the tree the running core was loaded from, None: no core
    drupal,   \* generator: the tree Drupal generates now; dirty: trackers
              \* reset and not indexed; indexedUnder: see Index
    waiting,  \* runs that have generated their tree and not yet the lock
    holder,   \* the run that holds the lock of the core directory
    pc,       \* the next call of the holder
    run,      \* the local variables of the holder
    base,     \* history: the tree a rollback has to bring back, None: none
    budget    \* events that may still happen

vars == <<fs, host, loaded, drupal, waiting, holder, pc, run, base, budget>>

-----------------------------------------------------------------------------
(* State of the core directory and of a run.                               *)

Dirs == Trees \cup {Torn, None}

\* pendingSolrConfigState, state.json of the pending directory.
Markers == [desired : Trees, reindex : BOOLEAN, reconciled : BOOLEAN,
            reset : BOOLEAN, complete : BOOLEAN]

ASSUME MarkersAssumption == None \notin Markers

\* The paths of pendingSolrConfigPaths; `pending` is the directory itself.
CoreDirectory == [conf : Dirs, new : Dirs, previous : Dirs, abandoned : Dirs,
                  pending : BOOLEAN, marker : Markers \cup {None}]

\* The marker of a transaction that has not reached Solr yet.
NewMarker(desired, reindex) ==
    [desired |-> desired, reindex |-> reindex, reconciled |-> FALSE,
     reset |-> FALSE, complete |-> FALSE]

\* What validatePendingSolrConfigState demands of a marker it reads or writes.
ValidMarker(m) ==
    /\ m.reset \/ m.complete => m.reindex /\ m.reconciled
    /\ m.complete => m.reset

\* `then` is where stagePendingSolrConfig returns to, `started` whether the
\* transaction was begun by this run, `recovering` whether a rollback is the
\* recovery from a failed activation.
NoRun == [gen |-> None, reindex |-> FALSE, mark |-> None, then |-> "activate",
          hadPrevious |-> FALSE, recovering |-> FALSE, runtimeDrift |-> FALSE,
          started |-> FALSE, updated |-> FALSE, reindexed |-> FALSE]

SwapLabels == {"retainPrevious", "clearInterrupted", "install"}
RollbackLabels ==
    {"rollback", "rollbackClear", "rollbackRetain", "rollbackRestore"}
Labels ==
    {"idle", "resume", "resumeAccepted", "recordReindex", "clearPrevious",
     "clearStaged", "clearAbandoned", "supersede", "stageClear", "stageCopy",
     "stageVerify", "activate", "retainInterrupted", "restore", "verify",
     "status", "create", "reload", "accept", "finish", "dropPrevious",
     "resetTrackers", "recordReset", "index", "recordIndexed", "cleanup",
     "compare", "publish", "start", "begin", "succeeded", "failed"}
        \cup SwapLabels \cup RollbackLabels

-----------------------------------------------------------------------------
(* The calls into the container.                                           *)

Spend(event) ==
    /\ budget[event] > 0
    /\ budget' = [budget EXCEPT ![event] = @ - 1]

outside == <<host, loaded, drupal, waiting, holder, base>>

\* A call that turns the core directory into `after`.  A failed one leaves it
\* alone, or in one of the states `partial` an interrupted command leaves, or,
\* when failures are ambiguous, in `after`.
Call(after, partial, next, onError) ==
    \/ fs' = after /\ pc' = next /\ UNCHANGED budget
    \/ /\ Spend("fault")
       /\ fs' \in {fs} \cup partial \cup (IF AmbiguousFailures THEN {after} ELSE {})
       /\ pc' = onError

\* A call that only reads, and decides where to go.
Decide(next) == pc' = next /\ UNCHANGED <<fs, budget>>
ReadFails(onError) == Spend("fault") /\ pc' = onError /\ UNCHANGED fs

\* `rm -rf`: what it leaves of a tree it could not remove.
Without(d) == [fs EXCEPT ![d] = None]
Remains(d) == IF fs[d] = None THEN {} ELSE {[fs EXCEPT ![d] = Torn]}
Remove(d, next, onError) == Call(Without(d), Remains(d), next, onError)

\* `mv source target`: onto an existing directory it nests the source in it,
\* and without a source it fails.
Moved(source, target) ==
    [fs EXCEPT ![target] = IF fs[target] = None THEN fs[source] ELSE Torn,
               ![source] = None]
Move(source, target, next, onError) ==
    IF fs[source] = None
    THEN pc' = onError /\ UNCHANGED <<fs, budget>>
    ELSE Call(Moved(source, target), {}, next, onError)

\* The marker is copied to a temporary file and renamed over state.json; the
\* temporary file is read by nothing.  An invalid marker is refused first.
WriteMarker(mark, next, onError) ==
    IF ValidMarker(mark)
    THEN Call([fs EXCEPT !.marker = mark], {}, next, onError)
    ELSE pc' = onError /\ UNCHANGED <<fs, budget>>

\* The steps that remove or move one directory and do nothing else.
RemoveStep(label, d, next) ==
    pc = label /\ Remove(d, next, "failed") /\ UNCHANGED <<run, outside>>
MoveStep(label, source, target, next, onError) ==
    pc = label /\ Move(source, target, next, onError) /\ UNCHANGED <<run, outside>>

\* completePendingSolrConfig after an error that leaves a previous tree.
Recovery == IF run.hadPrevious THEN "rollback" ELSE "failed"

-----------------------------------------------------------------------------
(* From the start of a run to the lock.                                    *)

\* generateSolrConfig runs before AcquireLock: the tree may be older than what
\* Drupal generates when the run gets the lock.
Generate(r) ==
    /\ waiting[r] = None
    /\ holder # r
    /\ \E reindex \in BOOLEAN :
          waiting' = [waiting EXCEPT ![r] = [gen |-> drupal.generator,
                                             reindex |-> reindex]]
    /\ UNCHANGED <<fs, host, loaded, drupal, holder, pc, run, base, budget>>

AcquireLock(r) ==
    /\ holder = None
    /\ waiting[r] # None
    /\ holder' = r
    /\ run' = [NoRun EXCEPT !.gen = waiting[r].gen, !.reindex = waiting[r].reindex]
    /\ waiting' = [waiting EXCEPT ![r] = None]
    /\ pc' = "resume"
    /\ UNCHANGED <<fs, host, loaded, drupal, base, budget>>

\* Mutant: the end of the run forgets the lock.
ReleaseKeepsLock ==
    pc \in {"succeeded", "failed"} /\ Decide("idle") /\ run' = NoRun /\ UNCHANGED outside

\* The deferred releaseLock, and the end of the process.
Release ==
    /\ pc \in {"succeeded", "failed"}
    /\ Decide("idle")
    /\ holder' = None
    /\ run' = NoRun
    /\ UNCHANGED <<host, loaded, drupal, waiting, base>>

-----------------------------------------------------------------------------
(* resumePendingSolrConfig and restartPendingSolrConfig.                   *)

\* Reads the marker; without one, whether the pending directory exists.
Resume ==
    /\ pc = "resume"
    /\ \/ /\ Decide(CASE fs.marker = None /\ ~fs.pending -> "compare"
                      [] fs.marker = None /\ fs.pending -> "failed"
                      [] fs.marker # None /\ fs.marker.reconciled -> "resumeAccepted"
                      [] OTHER -> IF fs.marker.desired # run.gen THEN "rollback"
                                  ELSE IF run.reindex /\ ~fs.marker.reindex
                                  THEN "recordReindex" ELSE "activate")
          /\ run' = [run EXCEPT !.mark = fs.marker]
       \/ ReadFails("failed") /\ UNCHANGED run
    /\ UNCHANGED outside

\* Mutant: an accepted transaction whose tree is outdated is an error.
ResumeAcceptedOrFail ==
    /\ pc = "resumeAccepted"
    /\ Decide(IF run.mark.desired # run.gen \/ fs.conf # run.mark.desired THEN "failed"
              ELSE IF run.reindex /\ ~run.mark.reindex THEN "recordReindex" ELSE "finish")
    /\ UNCHANGED <<run, outside>>

\* An accepted transaction resumes only while conf is still what it accepted.
ResumeAccepted ==
    /\ pc = "resumeAccepted"
    /\ LET activeMatches == fs.conf = run.mark.desired
       IN \/ Decide(IF run.mark.desired # run.gen \/ ~activeMatches
                    THEN IF activeMatches THEN "clearPrevious" ELSE "clearStaged"
                    ELSE IF run.reindex /\ ~run.mark.reindex
                         THEN "recordReindex" ELSE "finish")
          \/ ReadFails("failed")
    /\ UNCHANGED <<run, outside>>

RecordReindex ==
    /\ pc = "recordReindex"
    /\ run' = [run EXCEPT !.mark.reindex = TRUE]
    /\ WriteMarker(run'.mark, IF run.mark.reconciled THEN "finish" ELSE "activate",
                   "failed")
    /\ UNCHANGED outside

\* The accepted configuration is live: its rollback copy is superseded.
ClearPrevious == RemoveStep("clearPrevious", "previous", "clearStaged")
ClearStaged == RemoveStep("clearStaged", "new", "clearAbandoned")
ClearAbandoned == RemoveStep("clearAbandoned", "abandoned", "supersede")

\* Mutants: the request to reindex of the superseded transaction is dropped;
\* its progress is kept.
DropReindex(mark) == NewMarker(run.gen, run.reindex)
KeepProgress(mark) ==
    [mark EXCEPT !.desired = run.gen, !.reindex = @ \/ run.reindex]

\* The new transaction keeps the request to reindex of the superseded one.
Superseding(mark) == NewMarker(run.gen, mark.reindex \/ run.reindex)

Supersede ==
    /\ pc = "supersede"
    /\ run' = [run EXCEPT !.mark = Superseding(@)]
    /\ WriteMarker(run'.mark, "stageClear", "failed")
    /\ UNCHANGED outside

-----------------------------------------------------------------------------
(* The comparison, and startPendingSolrConfig.                             *)

\* Both copies are compared before either is changed.
Compare ==
    /\ pc = "compare"
    /\ LET hostDrift == host # run.gen
           runtimeDrift == fs.conf # run.gen
       IN \/ /\ Decide(IF hostDrift THEN "publish"
                       ELSE IF runtimeDrift THEN "start" ELSE "succeeded")
             /\ run' = [run EXCEPT !.runtimeDrift = runtimeDrift]
          \/ ReadFails("failed") /\ UNCHANGED run
    /\ UNCHANGED outside

\* Mutant: a run that updates the tracked copy stops there.
PublishOnly ==
    /\ pc = "publish" /\ Decide("succeeded") /\ host' = run.gen
    /\ UNCHANGED <<loaded, drupal, waiting, holder, run, base>>

\* PublishTree (module HostTreeStore): a failed one leaves the old copy, the
\* new one, or neither when the old one could not be restored.
Publish ==
    /\ pc = "publish"
    /\ \/ /\ host' = run.gen
          /\ pc' = IF run.runtimeDrift THEN "start" ELSE "succeeded"
          /\ UNCHANGED budget
       \/ /\ Spend("fault")
          /\ host' \in {host, run.gen, None}
          /\ pc' = "failed"
    /\ UNCHANGED <<fs, loaded, drupal, waiting, holder, run, base>>

\* mkdir of the pending directory, refused when it exists.
Start ==
    /\ pc = "start"
    /\ run' = [run EXCEPT !.started = TRUE]
    /\ IF fs.pending
       THEN Decide("failed")
       ELSE Call([fs EXCEPT !.pending = TRUE], {}, "begin", "failed")
    /\ UNCHANGED outside

Begin ==
    /\ pc = "begin"
    /\ run' = [run EXCEPT !.mark = NewMarker(run.gen, run.reindex)]
    /\ WriteMarker(run'.mark, "stageClear", "failed")
    /\ UNCHANGED outside

-----------------------------------------------------------------------------
(* stagePendingSolrConfig: all of its errors end the run without a rollback, *)
(* even those of the call within activatePendingSolrConfig.                  *)

StageClear == RemoveStep("stageClear", "new", "stageCopy")

StageCopy ==
    /\ pc = "stageCopy"
    /\ Call([fs EXCEPT !.new = run.gen], {[fs EXCEPT !.new = Torn]},
            "stageVerify", "failed")
    /\ UNCHANGED <<run, outside>>

StageVerify ==
    /\ pc = "stageVerify"
    /\ \/ Decide(IF fs.new = run.gen THEN run.then ELSE "failed")
       \/ ReadFails("failed")
    /\ run' = [run EXCEPT !.then = "activate"]
    /\ UNCHANGED outside

-----------------------------------------------------------------------------
(* activatePendingSolrConfig.                                              *)

\* Mutant: a conf that is missing is an error instead of a half-done swap.
MakeRoomInAFullDirectory(confExists, previousExists) ==
    CASE confExists /\ ~previousExists -> "retainPrevious"
      [] confExists /\ previousExists -> "clearInterrupted"
      [] ~confExists /\ previousExists -> "failed"
      [] OTHER -> "install"

\* The first step of the swap of the directories.
MakeRoom(confExists, previousExists) ==
    CASE confExists /\ ~previousExists -> "retainPrevious"
      [] confExists /\ previousExists -> "clearInterrupted"
      [] OTHER -> "install"

\* Reads conf, previous and new, stages again what is not the desired tree,
\* and chooses how to make room for it.
Activate ==
    /\ pc = "activate"
    /\ LET confExists == fs.conf # None
           previousExists == fs.previous # None
           active == fs.conf = run.mark.desired
           swap == MakeRoom(confExists, previousExists)
           staged == fs.new = run.mark.desired
       IN \/ /\ Decide(IF active THEN "status"
                       ELSE IF staged THEN swap
                       ELSE IF run.gen # run.mark.desired THEN "failed"
                       ELSE "stageClear")
             /\ run' = [run EXCEPT !.hadPrevious = previousExists,
                                   !.then = IF active \/ staged THEN @ ELSE swap]
          \/ ReadFails("failed") /\ UNCHANGED run
    /\ UNCHANGED outside

RetainPrevious ==
    /\ pc = "retainPrevious"
    /\ Move("conf", "previous", "install", "failed")
    /\ run' = [run EXCEPT !.hadPrevious = (pc' = "install")]
    /\ UNCHANGED outside

ClearInterrupted == RemoveStep("clearInterrupted", "abandoned", "retainInterrupted")

RetainInterrupted ==
    MoveStep("retainInterrupted", "conf", "abandoned", "install", "failed")

\* Mutant: an error of the second move ends the run at once.
InstallWithoutRestore ==
    MoveStep("install", "new", "conf", "verify", "failed")

Install ==
    MoveStep("install", "new", "conf", "verify", IF run.hadPrevious THEN "restore" ELSE "failed")

\* The restore within activatePendingSolrConfig; whatever comes of it, the
\* caller rolls back.
Restore ==
    /\ pc = "restore"
    /\ Move("previous", "conf", "rollback", "rollback")
    /\ run' = [run EXCEPT !.recovering = TRUE]
    /\ UNCHANGED outside

Verify ==
    /\ pc = "verify"
    /\ \/ Decide(IF fs.conf = run.mark.desired THEN "status" ELSE Recovery)
       \/ ReadFails(Recovery)
    /\ run' = [run EXCEPT !.recovering = (pc' = "rollback")]
    /\ UNCHANGED outside

-----------------------------------------------------------------------------
(* rollbackPendingSolrConfig: before a transaction is superseded, or as the  *)
(* recovery from a failed activation, which also reloads the previous tree.  *)

RolledBack == IF run.recovering THEN "status" ELSE "clearStaged"

\* Mutant: a transaction to supersede is discarded, not rolled back.
RollbackDiscards ==
    /\ pc = "rollback" /\ Decide(IF run.recovering THEN "status" ELSE "cleanup")
    /\ UNCHANGED <<run, outside>>

Rollback ==
    /\ pc = "rollback"
    /\ \/ Decide(IF fs.previous = None THEN RolledBack
                 ELSE IF fs.conf # None THEN "rollbackClear" ELSE "rollbackRestore")
       \/ ReadFails("failed")
    /\ UNCHANGED <<run, outside>>

RollbackClear == RemoveStep("rollbackClear", "new", "rollbackRetain")

RollbackRetain ==
    MoveStep("rollbackRetain", "conf", "new", "rollbackRestore", "failed")

\* Mutant: the error of the restoring move is ignored.
RollbackRestoreIgnoresError ==
    MoveStep("rollbackRestore", "previous", "conf", RolledBack, RolledBack)

RollbackRestore ==
    MoveStep("rollbackRestore", "previous", "conf", RolledBack, "failed")

-----------------------------------------------------------------------------
(* reconcileSolrCore: CREATE or RELOAD, by what STATUS answered.           *)

\* Mutant: an error of the core API is ignored.
NotReconciledIgnored == IF run.recovering THEN "failed" ELSE "accept"

NotReconciled == IF run.recovering THEN "failed" ELSE Recovery

Status ==
    /\ pc = "status"
    /\ \/ Decide(IF loaded = None THEN "create" ELSE "reload")
       \/ ReadFails(NotReconciled)
    /\ run' = [run EXCEPT !.recovering = @ \/ pc' = "rollback"]
    /\ UNCHANGED outside

\* Solr reads conf if it can do what was asked.  The core may be loaded even
\* when the call fails: curl gives up after 30 seconds, Solr does not.
Reconcile(possible) ==
    /\ \/ /\ possible
          /\ loaded' = fs.conf
          /\ pc' = IF run.recovering THEN "failed" ELSE "accept"
          /\ UNCHANGED budget
       \/ /\ ~possible
          /\ pc' = NotReconciled
          /\ UNCHANGED <<loaded, budget>>
       \/ /\ Spend("fault")
          /\ loaded' \in {loaded} \cup (IF possible THEN {fs.conf} ELSE {})
          /\ pc' = NotReconciled
    /\ run' = [run EXCEPT !.recovering = @ \/ pc' = "rollback"]
    /\ UNCHANGED <<fs, host, drupal, waiting, holder, base>>

Create == pc = "create" /\ Reconcile(loaded = None /\ fs.conf \in Acceptable)
Reload == pc = "reload" /\ Reconcile(loaded # None /\ fs.conf \in Acceptable)

\* Once the marker says so, the accepted tree is what the core must keep.
Accept ==
    /\ pc = "accept"
    /\ LET mark == [run.mark EXCEPT !.reconciled = TRUE]
       IN /\ WriteMarker(mark, "finish", Recovery)
          /\ base' = IF fs'.marker = mark THEN mark.desired ELSE base
          /\ run' = [run EXCEPT !.mark = mark, !.recovering = (pc' = "rollback")]
    /\ UNCHANGED <<host, loaded, drupal, waiting, holder>>

-----------------------------------------------------------------------------
(* finishReconciledPendingSolrConfig.                                      *)

\* Mutant: nothing is indexed after the trackers were reset.
RemainingWithoutIndex(mark) ==
    IF mark.reindex /\ ~mark.reset THEN "resetTrackers" ELSE "cleanup"

\* Reset trackers, index, then remove the pending directory, each once.
Remaining(mark) ==
    CASE mark.reindex /\ ~mark.reset -> "resetTrackers"
      [] mark.reindex /\ mark.reset /\ ~mark.complete -> "index"
      [] OTHER -> "cleanup"

Finish ==
    /\ pc = "finish"
    /\ \/ Decide(IF fs.conf = run.mark.desired THEN "dropPrevious" ELSE "failed")
       \/ ReadFails("failed")
    /\ UNCHANGED <<run, outside>>

DropPrevious == RemoveStep("dropPrevious", "previous", Remaining(run.mark))

\* A Drush command of which the caller only knows that it succeeded, or that
\* it may have done its work and failed.
Drush(effect, next) ==
    /\ \/ drupal' = effect /\ pc' = next /\ UNCHANGED budget
       \/ Spend("fault") /\ drupal' \in {drupal, effect} /\ pc' = "failed"
    /\ UNCHANGED <<fs, host, loaded, waiting, holder, run, base>>

\* search-api:reset-tracker: every item has to be indexed again.
ResetTrackers ==
    /\ pc = "resetTrackers"
    /\ Drush([drupal EXCEPT !.dirty = TRUE], "recordReset")

RecordReset ==
    /\ pc = "recordReset"
    /\ run' = [run EXCEPT !.mark.reset = TRUE]
    /\ WriteMarker(run'.mark, Remaining(run'.mark), "failed")
    /\ UNCHANGED outside

\* search-api:index indexes what the trackers hold.  indexedUnder is the tree
\* the core had loaded when every item was last indexed.
Index ==
    /\ pc = "index"
    /\ Drush([drupal EXCEPT !.dirty = FALSE,
                            !.indexedUnder = IF drupal.dirty THEN loaded ELSE @],
             "recordIndexed")

RecordIndexed ==
    /\ pc = "recordIndexed"
    /\ run' = [run EXCEPT !.mark.complete = TRUE]
    /\ WriteMarker(run'.mark, Remaining(run'.mark), "failed")
    /\ UNCHANGED outside

\* rm -rf of the pending directory; an interrupted one leaves some of it.
Emptied == [fs EXCEPT !.new = None, !.previous = None, !.abandoned = None,
                      !.marker = None]
Rests(d) == IF d = None THEN {None} ELSE {d, Torn, None}
HalfEmptied ==
    [conf : {fs.conf}, new : Rests(fs.new), previous : Rests(fs.previous),
     abandoned : Rests(fs.abandoned), pending : {fs.pending}, marker : {fs.marker, None}]
Cleanup ==
    /\ pc = "cleanup"
    /\ Call([Emptied EXCEPT !.pending = FALSE], HalfEmptied,
            IF run.started THEN "succeeded" ELSE "compare", "failed")
    /\ run' = [run EXCEPT !.updated = TRUE, !.reindexed = run.mark.reindex]
    /\ UNCHANGED outside

-----------------------------------------------------------------------------
(* What happens around the runs.                                           *)

\* A run dies, or loses its lock and with it the context of every later call.
Crash ==
    /\ holder # None
    /\ Spend("crash")
    /\ holder' = None
    /\ run' = NoRun
    /\ pc' = "idle"
    /\ UNCHANGED <<fs, host, loaded, drupal, waiting, base>>

\* A deployment changes what Drupal generates.
ModuleUpdate ==
    /\ Spend("update")
    /\ \E t \in Trees \ {drupal.generator} :
          drupal' = [drupal EXCEPT !.generator = t]
    /\ UNCHANGED <<fs, host, loaded, waiting, holder, pc, run, base>>

\* Someone edits the running configuration between two runs.  Amid a pending
\* transaction nothing is promised for the tree they overwrite.
ExternalEdit ==
    /\ holder = None
    /\ Spend("edit")
    /\ \E t \in Trees \ {fs.conf} :
          /\ fs' = [fs EXCEPT !.conf = t]
          /\ base' = IF fs.pending THEN None ELSE t
    /\ UNCHANGED <<host, loaded, drupal, waiting, holder, pc, run>>

\* Solr restarts and reads what is in conf.  A core that was not loaded may be
\* one that failed to load before.
SolrRestart ==
    /\ Spend("restart")
    /\ loaded' \in IF fs.conf \notin Acceptable THEN {None}
                   ELSE IF loaded # None THEN {fs.conf} ELSE {None, fs.conf}
    /\ UNCHANGED <<fs, host, drupal, waiting, holder, pc, run, base>>

\* What the error for a pending directory without a marker asks for.
OperatorRemovesPending ==
    /\ holder = None
    /\ fs.pending /\ fs.marker = None
    /\ fs' = [Emptied EXCEPT !.pending = FALSE]
    /\ UNCHANGED <<host, loaded, drupal, waiting, holder, pc, run, base, budget>>

-----------------------------------------------------------------------------
\* Nothing is pending, and the core serves what is in its directory.
Settled ==
    /\ \E t \in Trees \cup {None} :
          /\ fs = [conf |-> t, new |-> None, previous |-> None, abandoned |-> None,
                   pending |-> FALSE, marker |-> None]
          /\ loaded = IF t \in Acceptable THEN t ELSE None
          /\ base = t
    /\ host \in Trees \cup {None}
    /\ \E t \in Trees : drupal = [generator |-> t, dirty |-> FALSE, indexedUnder |-> None]
    /\ waiting = [r \in Runs |-> None]
    /\ holder = None
    /\ pc = "idle"
    /\ run = NoRun

Init == Settled /\ budget = Budget

HolderStep ==
    \/ Resume \/ ResumeAccepted \/ RecordReindex
    \/ ClearPrevious \/ ClearStaged \/ ClearAbandoned \/ Supersede
    \/ Compare \/ Publish \/ Start \/ Begin
    \/ StageClear \/ StageCopy \/ StageVerify
    \/ Activate \/ RetainPrevious \/ ClearInterrupted \/ RetainInterrupted
    \/ Install \/ Restore \/ Verify
    \/ Rollback \/ RollbackClear \/ RollbackRetain \/ RollbackRestore
    \/ Status \/ Create \/ Reload \/ Accept
    \/ Finish \/ DropPrevious \/ ResetTrackers \/ RecordReset
    \/ Index \/ RecordIndexed \/ Cleanup
    \/ Release

Environment ==
    Crash \/ ModuleUpdate \/ ExternalEdit \/ SolrRestart \/ OperatorRemovesPending

Next == (\E r \in Runs : Generate(r) \/ AcquireLock(r)) \/ HolderStep \/ Environment

Spec == Init /\ [][Next]_vars

\* The holder runs to its end, somebody runs the command again, and one of
\* the runs that wait gets the free lock.
Fairness == /\ WF_vars(HolderStep)
            /\ WF_vars(\E r \in Runs : Generate(r))
            /\ WF_vars(\E r \in Runs : AcquireLock(r))
FairSpec == Spec /\ Fairness

\* An operator who keeps trying finds a moment without a run.
OperatedSpec == FairSpec /\ SF_vars(OperatorRemovesPending)

=============================================================================
