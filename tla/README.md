# A TLA+ development of sitectl-drupal

`sitectl-drupal` is the Drupal plugin of `sitectl`, a command line program that
operates containerised sites ("contexts") over the Docker API and over SFTP.
Many of its commands are a docker exec with an argument list. Four are
protocols: they take several steps on state that outlives the process, and a
step may fail, the process may die, or somebody else may act in between. Three
more parts decide something over several steps of their own: the readers of
archives, the checks before a deploy, and the command that runs Crosswalk. This
directory models those seven, checks them with TLC and proves with TLAPS part of
what matters most.

All source paths below are relative to the repository.

## 1. Inventory

| Component | Source | State that outlives a call | Operations | Hard behaviour |
|---|---|---|---|---|
| Solr configuration refresh | `cmd/solr_config.go`, `cmd/solr_config_transaction.go`, `cmd/solr_config_target_lock.go` | the core directory in the Solr container (`conf`, the pending directory with `new`, `previous`, `abandoned`, `state.json`), the loaded core, Drupal's index trackers | generate, lock, resume, supersede, compare, start, stage, activate, roll back, reconcile, accept, reindex, clean up | every call may fail, the process may die anywhere, runs race for the lock, generation is before the lock, Solr restarts, conf is edited by hand |
| Tracked copy on the host | `cmd/solr_config_host.go` | a directory of the project, its stages and backups | ReadTree, PublishTree (local, SFTP) | two renames that are not one; no lock of its own |
| Configuration jobs and sync | `pkg/jobs/register.go`, `cmd/sync.go` | a site's active configuration, its `config/sync`, caches; archives | config-export, config-import, `sync config` | no lock; `config/sync` is emptied and filled file by file; overlap, crash and rerun |
| Database jobs and sync | `pkg/jobs/register.go`, `cmd/sync.go` | a site's database, the artifact of the day | db-backup, db-import, `sync database` | an artifact is reused for a day; an import is not atomic |
| Archive readers and writers | `cmd/solr_config.go`, `cmd/solr_config_host.go` | none | the tar, zip and directory readers, the tar writer, path cleaning, digests | bounds that add up over entries, in any order; unsigned arithmetic; what one part accepts another has to read back |
| Output path resolution | `cmd/solr_config.go`, `cmd/solr_config_host.go` | none | containment and symlink checks | string and file-system arithmetic |
| Deploy checks | `cmd/deploy.go`, `cmd/create.go`, `cmd/runtime_programs.go` | the services | PreDown, stop, build, rollout | several Compose files that override each other, read by the plugin and merged by Compose; the image changes after it was probed |
| Verification checks | `cmd/verify.go`, `cmd/healthcheck.go` | none | read-only probes | none |
| Crosswalk | `cmd/crosswalk.go`, writer of `pkg/jobs/register.go` | a temporary snapshot, the child process | profile create, serve, pass-through | removal on every way out; cancellation and a child that ignores it; one argument list with three readers |
| Debug report | `cmd/extensions.go` | none | report | none |
| Memcached, ingress, dev-mode components | `cmd/memcached.go`, `cmd/extensions.go` | files the core library writes | declarations | in the core library |
| Command pass-through | `cmd/drush.go`, `cmd/composer.go`, `cmd/uli.go`, `pkg/endpoint` | none | one exec each | none |
| Registration | `main.go`, `cmd/root.go` | none | start-up | none |

How they interact. A refresh calls Drush in the Drupal container, PublishTree on
the host, and file commands, curl and Drush again in the containers. `sync
config` is config-export on the source, a copy, and config-import on the target;
crosswalk's profile create streams the same export into a bounded file. The tree
that the archive readers make of Drush's zip is what a refresh stages in the
container and publishes on the host; it is read from both with the same limits. `sync database` is db-backup
(or an artifact found), a copy, and db-import. The refresh is the only command
that takes a lock, the one of the Solr core directory; the lock, the Docker and
SFTP clients, the artifact cache and the confirmation prompt are in the
`sitectl` library, which is not in this repository.

What makes each component correct:

* *Refresh*: a configuration to go back to is on disk until Solr has accepted
  another; Solr is given whole trees only; the durable marker tells the truth and
  goes through its phases in order; a requested reindex is not lost and not
  claimed early; a success is one; interrupted work is finished; all copies
  converge.
* *Tracked copy*: the last whole copy is never lost; success and failure mean
  what they say; a copy that went missing comes back.
* *Configuration sync*: what is exported is the active configuration, what is
  imported is exactly the archive, deletions included, whatever was left by
  earlier runs; an archive that does not unpack changes nothing, and one without
  `config/sync` nothing but that directory; running again is enough.
* *Archive readers*: entry by entry they accept exactly what is allowed as a
  whole; nothing ever exceeds a limit; what was generated can be read back.
* *Deploy*: services stop only when the rollout can work, and a checkout as it
  should be is deployed.
* *Crosswalk*: the child has what it needs from the site, and only that decides
  whether it is started; the command ends, and no snapshot is left.
* *Database sync*: a fresh run copies a fresh state, a reused artifact is of that
  day, a success brings every dumped table.

## 2. Modules

| Module | What it is |
|---|---|
| `SolrConfigRefresh` | the state machine of the refresh: one action per call with the decisions on its result |
| `SolrConfigRefreshProperties` | its properties, and the refinement mapping to the next |
| `PendingTransaction` | the abstract transaction that the durable marker implements |
| `SolrConfigRefreshProofs` | theorems about the refresh, whatever an error means: types, the refinement, requests |
| `SolrConfigRefreshRollback` | theorems for calls that do nothing or part of their work when they fail: the swap, what a run reports |
| `HostTreeStore`, `HostTreeStoreProofs` | PublishTree, and theorems |
| `ConfigSync`, `ConfigSyncProofs` | configuration jobs and sync, and theorems |
| `DatabaseSync`, `DatabaseSyncProofs` | database jobs and sync, and theorems |
| `ConfigTreeReaders`, `ConfigTreeReadersProofs` | the readers and writers of configuration trees, and theorems |
| `DeployPreflight`, `DeployPreflightProofs` | PreDown and the rollout, and theorems |
| `Crosswalk`, `CrosswalkProofs` | profile create and serve, and theorems |
| `MC*` | budgets and small definitions for TLC |

### SolrConfigRefresh

| Variable | In the code |
|---|---|
| `fs` | the directories of `pendingSolrConfigPaths`, and `state.json` (`marker`, the struct `pendingSolrConfigState`) |
| `host` | the tree the host store reads and publishes |
| `loaded` | what the Solr core runs; read only through `STATUS`, changed by `CREATE`, `RELOAD` and a restart of Solr |
| `drupal` | what Drupal generates, and the state of the search trackers |
| `waiting`, `holder`, `pc`, `run` | the invocations: those with a generated tree and no lock, the one with the lock, its next call, its local variables |
| `base` | history: the tree that must not get lost |
| `budget` | how many failures, crashes, updates, edits and restarts may still come |

The actions follow the functions: `Generate`, `AcquireLock` and `Release` are
`refreshSolrConfig` around the lock; `Resume`, `ResumeAccepted`,
`RecordReindex`, `Clear*` and `Supersede` are `resumePendingSolrConfig` and
`restartPendingSolrConfig`; `Compare`, `Publish`, `Start` and `Begin` the
comparison and `startPendingSolrConfig`; `Stage*` is `stagePendingSolrConfig`;
`Activate` to `Verify` is `activatePendingSolrConfig`; `Rollback*` is
`rollbackPendingSolrConfig`; `Status`, `Create`, `Reload` and `Accept` are
`reconcileSolrCore` and the record of acceptance; `Finish` to `Cleanup` is
`finishReconciledPendingSolrConfig`. Each has the failing result of its call
next to the successful one. A failing `rm -rf` or copy may leave part of a tree
(`Torn`); `mv` onto an existing directory nests, as the shell's does; with
`AmbiguousFailures` a call may report an error although it took effect.

A tree is an element of `Trees` and is its own digest. `Acceptable` are the trees
Solr can load: a tree it rejects is one of the interesting cases.

### HostTreeStore

`root` is the tracked copy; `pub[p]` the locals of a publisher with its stage and
its backup; `orphans` the backups of processes that ended, which no code reads.
The lock of a refresh is of a Solr core, so two cores with one `--output` publish
at once: hence several publishers. The remote store makes the same calls but the
fsync (`Sync`); a lost SFTP connection, after which no call succeeds, the
deferred ones included, is a crash. In `SolrConfigRefresh` the whole of PublishTree is
the one action `Publish`; `PublishContract` is what that action assumes of it.

### ConfigSync

`active`, `dir` and `cache` are, per site, the configuration in the database, the
directory `config/sync`, and what the caches were built from. `run` holds the
locals of each process, and two history fields: `expected`, what the job should
bring to its target, and `disturbed`, which another's step sets when it changes
what this run has yet to read. No lock exists, so a run promises something about
a site nobody else changed under it; the earlier remains of other runs are not
excused. `CutShort` is what each step leaves when it fails or is killed: any
per-file mixture of old and new.

### DatabaseSync

`db` is the database of each site by tables; `cached` whether its caches are of that
database; `store` the backup directory of each site, whose artifacts are of
today or of an earlier day, and whole or cut off. The library chooses the artifact:
modelled is what `resolveSourceDBArtifact` asks of it. `run` holds the locals of each
process, with two histories: `recent`, the states of its source a run may say it
copied (since it began when the backup must be new, since midnight when it may be
reused), and `disturbed` as in `ConfigSync`. `Upload` and `Uploaded` are the two ends
of one call, since another run may find the artifact between them.

### ConfigTreeReaders

`reader` is one of the four readers, `input` the entries it has been given, `tree`,
`directories` and `total` what it holds, `verdict` what came of it. `Consume` is
one turn of a reader's loop, `End` what it asks of the whole. `origin` and `staged`
take an accepted tree through the writer of `buildSolrConfigTreeTar`, or of
PublishTree, to the reader on the other side. An entry is its kind, its name, the
size its header announces and the bytes that follow. The zip reader computes in
words of 64 bits; `Word` is 8 in the run.

### DeployPreflight

`sources` is what the checkout holds, `files` the Compose files reduced to the
volumes with a program's target, `list` the configured names. The upper half of the module
is what the plugin sees (`Matches`, `Conflict`), the lower half what Compose does
with the same files (`Used`, `Effective`, `Usable`): the properties relate the two.
Each check of `PreDown` is an action, `Search(f)` one turn of its loop over the files;
`Build` may change what the image holds; `RunProgram` is an exec of the rollout.

### Crosswalk

`pc` is where the command is, `file` and `remaining` the snapshot and the count of
`maximumBytesWriter`, `child` and `passed` the process and its arguments. `Write(n)` takes a chunk of any size;
`Unwind` is the removal on every error return. `Cancel`, `Abort`, `Interrupt`, `Kill`
are the cancellation of the context and what follows from it. An argument is an option
with or without a value, or a word: `OptionValue` reads a list as the command does,
`ReadAs` as the child.

## 3. What the runs check

| Run | Instance | Properties | What it shows |
|---|---|---|---|
| `SolrRefreshSafety` | 1 run repeated, 2 trees of which Solr takes one, 2 failing calls, 1 crash, 2 updates, 1 edit, 1 Solr restart | `RollbackAvailable`, `SolrReadsWholeTrees`, `AcceptedIsServed`, `MarkerlessPendingIsDisposable`, types | the swap never loses the tree to go back to; Solr reads only whole trees; what the marker calls accepted is live |
| `SolrRefreshContested` | 2 runs; one event of each kind, edits included, or the budget of `SolrRefreshLiveness`; failed calls may have worked, and Solr loads even a mixed tree | `SuccessIsReal`, `ReindexProgressIsTrue`, `MarkerIsATransaction`, `ReindexRequestIsKept` | runs that generate before they get the lock report nothing that is untrue; the marker implements `PendingTransaction` under the weakest assumption on failures |
| `SolrRefreshLiveness` | 2 failing calls, 1 crash, 2 updates, 1 restart | `PendingCompletes`, `ConfRestored`, `OneFailureLeavesConf` | repeated runs finish the transaction and mend a half-done swap; after one failing call, and at most one restart of Solr, the double handling of errors in the swap has left the core with a whole conf |
| `SolrRefreshConvergence` | 2 runs, 1 failure, crash, update and restart each | `Converges` | an outdated tree that a waiting run installs over a newer one does not stay |
| `HostStore` | 2 publishers, 2 failing calls, 2 crashes | `PublishContract`, `TrackedIsNeverLost`, `OneFailureKeepsRoot`, `RootReturns`, types | what success and failure of an undisturbed PublishTree mean; the last whole copy stays on the host and comes back under its name; one failing call alone does not take it away |
| `ConfigSyncOverlap` | 2 runs that meet on one site as source and as target, 1 failing step, torn and foreign archives | `ExportIsFaithful`, `ImportIsFaithful`, `BadArchiveIsNotImported`, types | undisturbed runs move exactly the configuration; an import, from its first step to its last, changes no configuration by a bad archive, and no directory by one that does not unpack |
| `ConfigSyncRecovery` | 1 sync repeated, 2 failing steps, 2 crashes, 2 edits | `ImportIsFaithful`, `TargetCatchesUp` | running again is enough after any of them |
| `DatabaseSyncOverlap` | 2 runs of backup and sync, with and without `--fresh`, 1 edit, any number of midnights | `CopyIsRecent`, `ImportIsComplete` | a copy is as recent as was asked and an import brings all of a whole dump, also when runs find each other's half-written artifacts |
| `DatabaseSyncRecovery` | 1 run repeated, a sync without `--fresh` or an import of another file, 1 failing step, 1 crash, 2 edits | the same, `CutArtifactIsOutlived`, types | the same over what failures leave behind; a cut-off artifact blocks the syncs of its day and no longer |
| `ConfigTreeReaders` | archives of up to 4 entries in any order with 6 names, 3 files, files of 0, 2 and 5 bytes, 4 bytes in all | `ReadersAreExact`, `WrittenTreeIsReadBack`, types | the verdict depends on the archive and not on the order; what the zip reader accepts can be read back from container and host, but for implied directories over the limit |
| `DeployPreflight` | 2 programs, up to 3 Compose files, 6 and 2 forms of volumes, at most one source that is not fit | `StoppedOnlyWhenBound`, `RolloutHasItsPrograms`, `ConformingIsDeployed`, types | no override is missed and no right checkout is refused; whatever Compose reads, every program was usable in the service that is stopped |
| `Crosswalk` | archives of 0, 1, 3 and 4 bytes with 3 allowed; all argument lists up to 3, some of 4 and 5 | `InputsDecide`, `EndingLeavesNothing`, types | what is passed to the child, what decides, and that nothing stays behind |

*Why the bounds are enough.* All state of the refresh is small: two trees tell
"old" from "new", "desired" from "generated", and a third one would only be
another tree that is not the desired one. Two failures are the number at which
the recovery itself fails (the swap's second rename, then the rename that would
undo it), and a crash comes on top. Two updates supersede a transaction that
superseded another. Runs under the lock are sequential, so one run repeated shows
all of their sequences, and a second one adds what waiting does. The number of
repetitions is not bounded. In `HostTreeStore` two publishers are the least that
can take each other's directory between a look and a rename, and two failing
calls are the installation and its undoing. In `ConfigSync` the second configuration changes
one file and lacks another, which is what tells replacing from merging; the two
databases of `DatabaseSync` differ likewise. Two paths per backup directory are one artifact
to reuse and one to make; one path is enough for a run that only reuses.
`ConfigTreeReaders` has a name beneath another, one that is not clean and one with
a drive, and each limit is met and passed by some archive; what a reader refuses under any name
is offered under one: a file too long, cut short, or, where the medium allows it, longer than
announced, within the limit and beyond it. In `DeployPreflight` a third program or a fourth file would only be another
of the two sorts (run or read) or another override; two sources unfit at once are
refused at the first. In `Crosswalk` four bytes are one too many, in one chunk or
several; the longer argument lists are those in which an option takes another for its value.

Symmetry is used only where no liveness is checked.
Deadlock is checked where a run can always be started again; a read, a deploy
and a Crosswalk command end, and there it is not.

*Fairness.* `FairSpec` of the refresh says three things: the process with the
lock goes on (the program is sequential and its calls have time limits), somebody runs the
command again after it ended, and a free lock goes to one of those who wait for it. Failures,
crashes, updates, edits and restarts are not fair; that they are finitely many is
the budget, which is the "once failures stop" of each statement. `OperatedSpec`
adds that the operator who is asked to remove a pending directory without a
marker eventually does so between two runs; it is strongly fair since runs come
and go meanwhile, and without it a refresh refuses for ever, as the code says. The other modules
assume that a process goes on and that the command is run again. `DatabaseSync` adds
that days pass, that whoever is asked agrees to the import of a sync now and then, and that outdated artifacts
do not use up the names for new ones. In
`Crosswalk` calls on the host return, while calls on the site are only known to
once they are cancelled; the child may run for ever or ignore the interrupt, but
the signals reach it.

## 4. What is proved

For every number of runs, publishers, sites, files and trees and every budget:

| Theorem | Module | Statement |
|---|---|---|
| `TypeCorrect` | `SolrConfigRefreshProofs` | `Spec => []TypeOK` |
| `MarkerImplementsTransaction` | `SolrConfigRefreshProofs` | `Spec => MarkerIsATransaction`, the refinement of `PendingTransaction` |
| `ReindexRequestsAreKept` | `SolrConfigRefreshProofs` | `Spec => ReindexRequestIsKept` |
| `SuccessIsComplete` | `SolrConfigRefreshProofs` | the part of `SuccessIsReal` about the directories: nothing pending, and both copies at the run's tree |
| `RollbackAlwaysAvailable` | `SolrConfigRefreshRollback` | `~AmbiguousFailures` implies `Spec => []RollbackAvailable` |
| `PendingWithoutMarkerIsDisposable`, `SolrLoadsWholeTrees`, `WhatIsAcceptedIsServed` | `SolrConfigRefreshRollback` | the same for `MarkerlessPendingIsDisposable`, `SolrReadsWholeTrees`, `AcceptedIsServed` |
| `SuccessReportsTheTruth`, `RecordedProgressIsTrue` | `SolrConfigRefreshRollback` | the same for `SuccessIsReal` and `ReindexProgressIsTrue` |
| `OneFailureLeavesAConf` | `SolrConfigRefreshRollback` | the same for `OneFailureLeavesConf`, if also `Trees \subseteq Acceptable` |
| `TypeCorrect`, `NeverLost`, `ContractIsKept` | `HostTreeStoreProofs` | types; `Spec => TrackedIsNeverLost`; `Spec => []PublishContract` |
| `OneFailureIsRepaired` | `HostTreeStoreProofs` | `Spec => []OneFailureKeepsRoot` |
| `TypeCorrect`, `ExportsAreFaithful`, `ImportsAreFaithful` | `ConfigSyncProofs` | types; both invariants of undisturbed runs |
| `BadArchivesAreNotImported` | `ConfigSyncProofs` | `Spec => BadArchiveIsNotImported` |
| `TypeCorrect`, `CopiesAreRecent`, `ImportsAreComplete` | `DatabaseSyncProofs` | types; how recent a copy is, and what an undisturbed import brings |
| `ReadersStayWithinLimits` | `ConfigTreeReadersProofs` | types, with every limit at every step |
| `ReadersDecideTheWhole`, `WrittenTreesAreReadBack` | `ConfigTreeReadersProofs` | `ReadersAreExact` and `WrittenTreeIsReadBack` |
| `TypeCorrect`, `StopsOnlyWhenBound`, `RolloutFindsItsPrograms`, `ConformingIsNotRefused` | `DeployPreflightProofs` | types; the three invariants of a deploy |
| `TypeCorrect`, `CreateDecidesByInputs` | `CrosswalkProofs` | types, the count of the bounded writer included; `InputsDecide` for profile create |

*Refinement.* `TransactionInv` holds whatever an error means: a run that has
the marker in hand has the one on disk, the label says whether it is accepted and how
far its reindexing is, and without a pending directory there is no marker. From it
every step leaves the marker alone or changes it in one of seven ways (`MarkerStep`), and
each of these is a step of `PendingTransaction` or a stutter.

*Rollback.* That `base` is `conf` or `previous` says nothing of how a step got there,
so it is not inductive. The invariant adds three parts. `DirectoryInv` ties
the directories to the marker: without a marker there is no `previous`, without a
pending directory no marker; a reconciled marker desires `base`, and `conf` is it;
under any other marker `previous`, if there is one, is `base`.
`MarkerInv` ties the marker on disk to the one the holder has in memory and to its
label: which labels are reached with an accepted marker and which without.
`StepInv` says what the next call finds: no `previous` before `conf` is moved
there, no `conf` before one is installed or restored, no `previous` when a
transaction is superseded or reindexes, and when Solr is asked the desired `conf`, or
`base` in a recovery. `ServedInv` adds that the core has loaded what is about to be,
or has been, recorded as accepted.
It is needed for the moves, which destroy a tree when their target exists.
The step theorem goes action by action. The assumption that a call which reports an error did not complete is needed: with
it gone, a move that reports an error and worked is repeated into the directory
it made. What remains true then is in the run `SolrRefreshContested`.

*What a run reports.* `ProgressInv` ties the marker's progress to the trackers: after the
reset the items are marked for indexing or were indexed under the desired tree, and once complete, or
about to be recorded as such, indexed under it. `ReportInv` carries
that from the marker, which the cleanup deletes, to the report at the end. Both rest on
`ServedInv`: Drupal indexes under what the core runs. The part of
`SuccessIsReal` about the directories needs none of this, nor the assumption on failures.

*One failure.* `SwapInv` and `OneFailureInv` follow the swap: while nothing has
failed the way is `Straight`; `conf` is missing only where the next call puts one
in its place (`NeverBare`); and Solr is asked for what it can do (`Possible`). One restart of Solr is
admitted: it may leave the core absent. A second one may bring the core back between `STATUS` and
`CREATE`, which then fails although no call did; the rollback begins, and the one failing
call can still come in it. A restart and an edit can do the same. `OneFailure` leaves these out.

*Tracked copy.* `TypeOK` carries the one fact that matters: a publisher that is
about to install or to restore has a whole stage, and a whole backup if it moved
one aside. The step theorem then goes action by action. `RootInv`, for one failing call and no
crash, says who will put a missing copy back: a publisher that is about to install with a
tree aside, whose second call is then the restoration, or one that is about to restore after the
one failure has come. `PublishContract` is about
a call that no other ran beside. Its invariant, `AloneInv`, follows such a call from
label to label: what is under the name, in the stage and in the backup, and whether
a failure came before. A step of another publisher ends the call's being alone, so
only its own steps have to keep it.

*Configuration.* The invariant has, for every run nobody disturbed, `Progress`:
what of the archive is in `config/sync` (all but `todo`), then that it is
the active configuration, then that the caches show it. A lemma on bystanders
shows that a step of one run keeps the progress of every other or sets its
`disturbed`. That a bad archive is not imported is said of every step of the run that
has it. An import takes its archive as given and comes past `drush cim` only with a
configuration (`ImportOrder`); together with the types, which say what archive clearing, uploading
and `cim` are reached with, this leaves a bad archive only the steps that change nothing it may not.

*Database.* `CopyInv` says where a copy comes from: the database a site has is one of
those it had `today`; an artifact dated today holds such a one, whole or cut off; two
processes never write the same artifact, and from `stage` on what a run carries is
in its `recent`. That last part needs the others, since a run may find what
another left or is still writing. `ImportInv` follows an undisturbed import: the target has
all tables but `todo`, then all of a whole dump, then caches of them. As for the
configuration, a lemma on bystanders says what a step of one run leaves of the others.

*Readers.* The types are inductive once the total is tied to the limit; the wrap of
the zip reader's subtraction is excluded by the test in front of it, from
`MaxFile <= MaxTotal` and `MaxTotal < 2^64`. `ExactInv` says that what a reader has is
what `Permitted` asks of the entries so far: the tree is what they hold, and each limit
on the whole is at least what has been used, so that a refusal, once, is a
refusal of the whole. The bytes of a tree are counted as the
elements of a finite set, `Marks` (a file's name with each number up to its length), and
`PermittedTree` bounds them so: a sum by recursion over a set could not be reasoned about, while the
cardinality of a union can. `BackInv` follows a written tree: `Lists` describes the tar as a sequence in
which every file of the tree comes once, among directories, and `Halfway` ties what has been read back to
what is left of it.

*Deploy.* The invariant says, label by label, what the checks behind it have
established about `sources` and `files`, which do not change. That the effective volume of a
program is one of its volumes needs a last position of a finite order, found by
well-foundedness of the naturals; from it follows that a rollout program is fit or
its volume is anonymous, whatever the image holds. `ProbedAreUsable` carries what the
probes found to the stop; it needs nothing of the files, and so holds also where the plugin and
Compose read different ones.

*Crosswalk.* The invariant ties `sent`, `file` and the label, and says what
`passed` holds from `locate` on. The parsing of arguments for `serve` is a
recursion over data and stays with TLC.

*Only model-checked.* Liveness under fairness, which is out of the prover's reach:
`PendingCompletes`, `ConfRestored`, `Converges`, `RootReturns`, `TargetCatchesUp`,
`CutArtifactIsOutlived`, `EndingLeavesNothing`. `InputsDecide` for `serve`, which recurs over
argument lists: an induction over data. And, where a call that reports
an error may have worked (`AmbiguousFailures`), the properties of
`SolrConfigRefreshRollback`: the run `SolrRefreshContested` has `SuccessIsReal` and `ReindexProgressIsTrue` under two small
budgets, and nothing is claimed beyond them.

## 5. Assumptions

* The lock of `cmd/solr_config_target_lock.go` excludes other refreshes of the
  core, and is lost only when the holder ends. Nobody edits `conf` while it is held.
  After an edit amid a pending transaction (`base = None`) the properties that speak of a
  tree to go back to, or of what the core serves, claim nothing, and `SolrReadsWholeTrees` would fail: an accepted
  transaction that could not remove all of `previous` is superseded without removing it,
  since `conf` was edited (`solr_config_transaction.go:117`), and when Solr
  rejects the next tree the rollback installs the remains.
* `search_api_solr` is enabled. A run that finds it disabled reports that it skipped
  the refresh and changes nothing, a pending transaction included
  (`solr_config.go:216`); the liveness properties assume runs that get further. A lock that cannot be released
  turns the result into an error and ends with its process (`solr_config.go:247`): `Release` leaves this out,
  which only makes more runs successful.
* Renaming `state.json` replaces it at once. A crash is of the process, not a
  loss of power.
* `CREATE` works when the core is absent and `RELOAD` when it is present, if
  Solr can load `conf`. When curl's time is up, Solr has either done it or never will.
* A tree left partly written can be read: `validateSolrConfigTreeShape` checks the
  shape of paths, and the digest tells it from a generated tree.
* `config/sync` under the project on the host is the directory the container
  sees. `tar` and `drush cim` read it at one instant; interrupted, `cex` and
  `cim` leave any mixture. Artifacts on the way are private to a run.
* `drush sql-dump` gives one consistent state; `drush sql:cli` replaces the tables
  of the dump one by one and leaves others alone. `cli.Exec` reports an error of reading
  its standard input, which is how a cut-off dump is noticed. No two runs are given the same path
  for a new artifact.
* An archive without `config/sync` is found out only after the old directory was
  emptied, as in the code, where the walk fails.
* Docker Compose uses the configured files, or the first default name and
  `compose.override.yaml`; the last volume with a target wins; a long volume has a
  type, and a short one whose source is no path names an undeclared volume. The
  checkout does not change during a deploy. A file has at most one volume with a program's
  target, so that the loop over several (`deploy.go:183`) ends at its first.
* `README.md:46` of the repository says without exception that PreDown verifies the read-only mounts
  before it stops the containers. The model does not bear that out everywhere: where the plugin and Compose read different
  files (`SeesWhatIsUsed` is false), or a volume has a target and no source (`Anonymous`), the services
  may be stopped though a program is not bound from the checkout. What is claimed there is
  only that the service that is stopped could use every program; the rollout's new image need
  not have it.
* Connecting to Docker (`register.go:392`), which takes no context that could be cancelled,
  returns.
* The context filter of the core library drops `--context` and its value; the child
  reads options as pflag does. For lists in which the readers differ, those with a
  repeated option, a missing value or a separator, nothing is claimed (`WellFormed`).
* A staged tar is read back in the order it was written; the order does not matter,
  as `ReadersAreExact` shows. The directory at its top is one clean name (`RootAssumption`):
  `buildSolrConfigTreeTar` refuses any other.
* Absence is not confused with data (`MarkersAssumption`, `TransactionsAssumption`, `NoneAssumption`):
  `None` is the missing file, directory or value of the code.

## 6. Not modelled

* The tar, gzip, zip and YAML codecs, digests, the character rules of path
  cleaning, containment and symlink checks: pure functions on bytes and strings,
  with tests in the repository. Their error returns are in the models.
* Verification, debug report, pass-through: each is one read and a judgement on it alone,
  with no state or order in which something could go wrong.
* Components and registration: declarations that the core library applies.

## 7. Plan

Done: `SolrConfigRefresh` first, because most can go wrong there, with the
abstract `PendingTransaction`; then `HostTreeStore`, the part of it that is used
without a lock; `ConfigSync` and `DatabaseSync`; then `ConfigTreeReaders`,
`DeployPreflight` and `Crosswalk`. What would come next:

1. `PublishedRefresh`: `HostTreeStore` in the place of `Publish`, with two cores that share
   one tracked copy; abstractly, each publication is one step.
2. Theorems: which of the rollback invariant survives ambiguous failures, the nested
   trees that repeated moves leave included; `Publish` of the refresh as a call that keeps
   `PublishContract`; the split of `InputsDecide` into what is proved and what recurs.
