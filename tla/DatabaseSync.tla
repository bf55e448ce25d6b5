---------------------------- MODULE DatabaseSync ----------------------------
(***************************************************************************)
(* Drupal databases between sites: the jobs db-backup and db-import        *)
(* (pkg/jobs/register.go) and `sitectl drupal sync database` (cmd/sync.go),*)
(* which takes a backup of the source, or reuses one of the same day, and  *)
(* imports it into the target.                                             *)
(*                                                                         *)
(* A backup is a compressed dump of whole tables.  It is uploaded in       *)
(* place, so another run may find it half written, and a crash leaves it   *)
(* so.  An import streams the dump into the database table by table and    *)
(* rebuilds the caches; nothing undoes what it did before it failed.  No   *)
(* lock is taken.  The choice of the artifact, external code, is modelled  *)
(* by what sync.go asks of it: with --fresh a new one, else one of today.  *)
(***************************************************************************)
EXTENDS Naturals

CONSTANTS
    Runs,       \* processes
    Sites,      \* contexts
    Jobs,       \* what a process may be asked: see Ask
    Paths,      \* files in the backup directory of a source
    Tables,     \* tables of a database, but those that hold caches
    Values,     \* what a table may hold
    Absent,     \* no such table
    Part,       \* a table that an import dropped and did not finish
    States,     \* databases that the sites come to by themselves
    None,       \* no such file
    Budget      \* how many steps fail, processes die and databases change

Events == {"fault", "crash", "edit"}
Kinds == {"sync", "backup", "import"}
Databases == [Tables -> Values \cup {Absent, Part}]

\* A dump as a file: not whole is one whose upload was cut off.
Dumps == [tables : Databases, whole : BOOLEAN]

\* An artifact in the backup directory, and whether it is of today.
Artifacts == [dump : Dumps, today : BOOLEAN]

ASSUME JobsAssumption ==
    Jobs # {} /\ Jobs \subseteq [kind : Kinds, source : Sites, target : Sites,
                                 fresh : BOOLEAN]
ASSUME StatesAssumption ==
    States # {} /\ States \subseteq [Tables -> Values \cup {Absent}]
ASSUME NoneAssumption == None \notin Artifacts \cup Dumps \cup Paths
ASSUME BudgetAssumption == Budget \in [Events -> Nat]

VARIABLES
    db,         \* the database of each site
    cached,     \* whether each site's caches are of its database
    store,      \* the backup directory of each site
    today,      \* history: the databases each source has had since midnight
    run,        \* the locals of each process
    budget      \* events that may still happen

vars == <<db, cached, store, today, run, budget>>

Labels == {"idle", "resolve", "dump", "upload", "uploading", "stage", "confirm",
           "import", "cr", "returned"}

-----------------------------------------------------------------------------
At(r, label) == run[r].pc = label
Source(r) == run[r].job.source
Target(r) == run[r].job.target

Sources == {job.source : job \in {j \in Jobs : j.kind # "import"}}

Present(tables) == {t \in Tables : tables[t] # Absent}

\* History: a database that a run may still have to read or report on changed
\* and it was not the run that changed it.
Overtaken(q) ==
    run[q].pc \in {"import", "cr", "returned"} /\ db'[Target(q)] # db[Target(q)]

\* History: the databases of its source that a run may say it copied are those
\* since it began, or, when it may reuse an artifact, since midnight.
Noticed(local) ==
    IF local.pc = "idle" \/ local.job.kind = "import" THEN local
    ELSE [local EXCEPT !.recent = @ \cup {db'[local.job.source]}]

Continue(r, local) ==
    run' = [q \in Runs |->
              IF q = r THEN Noticed(local)
              ELSE Noticed([run[q] EXCEPT !.disturbed = @ \/ Overtaken(q)])]

\* Caches are outdated by a database that changes under them.
KeepCaches == cached' = [s \in Sites |-> cached[s] /\ db'[s] = db[s]]

RecordHistory == today' = [s \in Sources |-> today[s] \cup {db'[s]}]

Spend(event) ==
    /\ budget[event] > 0
    /\ budget' = [budget EXCEPT ![event] = @ - 1]

\* `dated` is FALSE when midnight passes between the clock and the upload.
Start(job, label, file, recent) ==
    [pc |-> label, job |-> job, path |-> None, file |-> file, todo |-> {},
     dated |-> TRUE, recent |-> recent, disturbed |-> FALSE, failed |-> FALSE]

Idle == Start(CHOOSE job \in Jobs : TRUE, "idle", None, {})

Failing(r) ==
    [run[r] EXCEPT !.pc = "returned", !.failed = TRUE, !.todo = {}, !.dated = TRUE]

\* An import is given a file, whole or not; the others make or find theirs.
Ask(r) ==
    /\ At(r, "idle")
    /\ UNCHANGED <<db, cached, store, today, budget>>
    /\ \E job \in Jobs :
          IF job.kind = "import"
          THEN \E tables \in States, whole \in BOOLEAN :
                  Continue(r, Start(job, "confirm", [tables |-> tables, whole |-> whole], {}))
          ELSE Continue(r, Start(job, "resolve", None,
                  IF job.kind = "sync" /\ ~job.fresh THEN today[job.source] ELSE {}))

\* Mutant: --fresh is not looked at.
ReuseAlways(r) == run[r].job.kind = "sync"

MayReuse(r) == run[r].job.kind = "sync" /\ ~run[r].job.fresh
Reusable(r, p) == store[Source(r)][p] # None /\ store[Source(r)][p].today

\* An artifact of today, or a new path, which EnsurePathAbsentOnContext finds
\* free and which no other run was given.
Resolve(r) ==
    /\ At(r, "resolve")
    /\ UNCHANGED <<db, cached, store, today, budget>>
    /\ \E p \in Paths :
          IF MayReuse(r) /\ \E q \in Paths : Reusable(r, q)
          THEN /\ Reusable(r, p)
               /\ Continue(r, [run[r] EXCEPT !.pc = "stage", !.path = p])
          ELSE /\ store[Source(r)][p] = None
               /\ \A q \in Runs : Source(q) = Source(r) => run[q].path # p
               /\ Continue(r, [run[r] EXCEPT !.pc = "dump", !.path = p])

\* Mutant: the backup job is handed the other context.
DumpTarget(r) ==
    /\ At(r, "dump")
    /\ UNCHANGED <<db, cached, store, today, budget>>
    /\ Continue(r, [run[r] EXCEPT !.pc = "upload",
                                  !.file = [tables |-> db[Target(r)], whole |-> TRUE]])

\* drush sql-dump to a temporary file; whether it failed is known before the
\* upload.
Dump(r) ==
    /\ At(r, "dump")
    /\ UNCHANGED <<db, cached, store, today, budget>>
    /\ Continue(r, [run[r] EXCEPT !.pc = "upload",
                                  !.file = [tables |-> db[Source(r)], whole |-> TRUE]])

Put(r, artifact) == store' = [store EXCEPT ![Source(r)][run[r].path] = artifact]

\* UploadFile: the file is there from its first byte on.
Upload(r) ==
    /\ At(r, "upload")
    /\ Put(r, [dump |-> [run[r].file EXCEPT !.whole = FALSE], today |-> run[r].dated])
    /\ UNCHANGED <<db, cached, today, budget>>
    /\ Continue(r, [run[r] EXCEPT !.pc = "uploading"])

Uploaded(r) ==
    /\ At(r, "uploading")
    /\ Put(r, [dump |-> run[r].file, today |-> run[r].dated])
    /\ UNCHANGED <<db, cached, today, budget>>
    /\ Continue(r, [run[r] EXCEPT
          !.pc = IF run[r].job.kind = "backup" THEN "returned" ELSE "stage",
          !.dated = TRUE])

\* Mutant: an artifact that could not be copied is an empty file.
StageNothing(r) ==
    /\ At(r, "stage")
    /\ UNCHANGED <<db, cached, store, today, budget>>
    /\ Continue(r, [run[r] EXCEPT !.pc = "confirm", !.path = None, !.file = None])

\* StageArtifactBetweenContexts: a private copy of what the artifact is now.
Stage(r) ==
    /\ At(r, "stage")
    /\ UNCHANGED <<db, cached, store, today, budget>>
    /\ Continue(r, [run[r] EXCEPT !.pc = "confirm", !.path = None,
                                  !.file = store[Source(r)][run[r].path].dump])

\* Mutant: only tables that the target lacks are imported.
ConfirmMissing(r) ==
    /\ At(r, "confirm")
    /\ UNCHANGED <<db, cached, store, today, budget>>
    /\ Continue(r, [run[r] EXCEPT !.pc = "import",
          !.todo = Present(run[r].file.tables) \ Present(db[Target(r)])])

\* ConfirmDatabaseReplacement, which --yolo answers; then the temporary copy.
Confirm(r) ==
    /\ At(r, "confirm")
    /\ UNCHANGED <<db, cached, store, today, budget>>
    /\ \/ Continue(r, [run[r] EXCEPT !.pc = "import", !.todo = Present(run[r].file.tables)])
       \/ Continue(r, Failing(r))

\* What an import leaves that fails or is cut off within a table.
CutTable(r) ==
    \E t \in run[r].todo :
       \E c \in {Part, run[r].file.tables[t]} :
          db' = [db EXCEPT ![Target(r)][t] = c]

\* Mutant: the end of a cut-off dump is taken for the end of the dump.
ImportForgivesCut(r) ==
    /\ At(r, "import")
    /\ UNCHANGED <<store, budget>>
    /\ \/ \E t \in run[r].todo :
             /\ db' = [db EXCEPT ![Target(r)][t] = run[r].file.tables[t]]
             /\ Continue(r, [run[r] EXCEPT !.todo = @ \ {t}])
       \/ /\ run[r].todo = {} \/ ~run[r].file.whole
          /\ UNCHANGED db
          /\ Continue(r, [run[r] EXCEPT !.pc = "cr", !.todo = {}])
    /\ RecordHistory /\ KeepCaches

\* drush sql:cli replaces the tables of the dump, and only those, one after the
\* other; where a dump was cut off, reading it is an error.
Import(r) ==
    /\ At(r, "import")
    /\ UNCHANGED <<store, budget>>
    /\ \/ \E t \in run[r].todo :
             /\ db' = [db EXCEPT ![Target(r)][t] = run[r].file.tables[t]]
             /\ Continue(r, [run[r] EXCEPT !.todo = @ \ {t}])
       \/ /\ run[r].file.whole /\ run[r].todo = {}
          /\ UNCHANGED db
          /\ Continue(r, [run[r] EXCEPT !.pc = "cr"])
       \/ /\ ~run[r].file.whole
          /\ CutTable(r) \/ UNCHANGED db
          /\ Continue(r, Failing(r))
    /\ RecordHistory /\ KeepCaches

\* drush cr.
Cr(r) ==
    /\ At(r, "cr")
    /\ cached' = [cached EXCEPT ![Target(r)] = TRUE]
    /\ UNCHANGED <<db, store, today, budget>>
    /\ Continue(r, [run[r] EXCEPT !.pc = "returned"])

Return(r) ==
    /\ At(r, "returned")
    /\ UNCHANGED <<db, cached, store, today, budget>>
    /\ Continue(r, Idle)

\* What a step leaves behind that fails or is cut off: an artifact that is
\* half written is not removed.
CutShort(r) ==
    /\ \/ At(r, "import") /\ CutTable(r) /\ UNCHANGED store
       \/ At(r, "uploading") /\ UNCHANGED db
            /\ Put(r, [dump |-> run[r].file, today |-> run[r].dated])
       \/ UNCHANGED <<db, store>>
    /\ KeepCaches
    /\ RecordHistory

Busy(r) == run[r].pc \notin {"idle", "returned"}

Fail(r) == Busy(r) /\ Spend("fault") /\ CutShort(r) /\ Continue(r, Failing(r))

Crash(r) == Busy(r) /\ Spend("crash") /\ CutShort(r) /\ Continue(r, Idle)

-----------------------------------------------------------------------------
(* What happens around the runs.                                           *)

\* The users and administrators of a site change its database.
Edit ==
    /\ Spend("edit")
    /\ \E s \in Sites, tables \in States :
          /\ db' = [db EXCEPT ![s] = tables]
          /\ cached' = [cached EXCEPT ![s] = TRUE]
    /\ UNCHANGED store
    /\ run' = [q \in Runs |-> Noticed([run[q] EXCEPT !.disturbed = @ \/ Overtaken(q)])]
    /\ RecordHistory

\* The UTC day ends: time.Now().UTC() was read once, when the run began.
Midnight ==
    /\ today' = [s \in Sources |-> {db[s]}]
    /\ store' = [s \in Sites |-> [p \in Paths |->
                   IF store[s][p] = None THEN None
                   ELSE [store[s][p] EXCEPT !.today = FALSE]]]
    /\ run' = [q \in Runs |-> IF run[q].pc \in {"dump", "upload", "uploading"}
                               THEN [run[q] EXCEPT !.dated = FALSE] ELSE run[q]]
    /\ UNCHANGED <<db, cached, budget>>

\* Something cleans /tmp of what is not of today and not in use.
Expire(s, p) ==
    /\ store[s][p] # None /\ ~store[s][p].today
    /\ \A q \in Runs : Source(q) = s => run[q].path # p
    /\ store' = [store EXCEPT ![s][p] = None]
    /\ UNCHANGED <<db, cached, today, run, budget>>

-----------------------------------------------------------------------------
Init ==
    /\ db \in [Sites -> States]
    /\ cached = [s \in Sites |-> TRUE]
    /\ store = [s \in Sites |-> [p \in Paths |-> None]]
    /\ today = [s \in Sources |-> {db[s]}]
    /\ run = [r \in Runs |-> Idle]
    /\ budget = Budget

Step(r) ==
    \/ Resolve(r) \/ Dump(r) \/ Upload(r) \/ Uploaded(r) \/ Stage(r)
    \/ Confirm(r) \/ Import(r) \/ Cr(r) \/ Return(r)

Next ==
    \/ \E r \in Runs : Ask(r) \/ Step(r) \/ Fail(r) \/ Crash(r)
    \/ Edit \/ Midnight
    \/ \E s \in Sites, p \in Paths : Expire(s, p)

Spec == Init /\ [][Next]_vars

\* A process runs to its end, somebody asks for a sync again and, often enough,
\* agrees to the import, days pass, and names for artifacts do not run out.
FairSpec ==
    /\ Spec
    /\ \A r \in Runs :
          /\ WF_vars(Step(r))
          /\ SF_vars(Ask(r) /\ run'[r].job.kind = "sync")
          /\ SF_vars(Confirm(r) /\ run[r].job.kind = "sync" /\ run'[r].pc = "import")
    /\ WF_vars(Midnight)
    /\ \A s \in Sites, p \in Paths : WF_vars(Expire(s, p))

-----------------------------------------------------------------------------
(* What the jobs promise.                                                  *)

\* Every variable has its type, and what a process has yet to use is there: the
\* path it was given, the artifact it found or made, the file it imports.
TypeOK ==
    /\ db \in [Sites -> Databases]
    /\ cached \in [Sites -> BOOLEAN]
    /\ store \in [Sites -> [Paths -> Artifacts \cup {None}]]
    /\ today \in [Sources -> SUBSET Databases]
    /\ run \in [Runs -> [pc : Labels, job : Jobs, path : Paths \cup {None},
                         file : Dumps \cup {None}, todo : SUBSET Tables,
                         dated : BOOLEAN, recent : SUBSET Databases,
                         disturbed : BOOLEAN, failed : BOOLEAN]]
    /\ budget \in [Events -> Nat]
    /\ \A r \in Runs :
          /\ run[r].pc \in {"dump", "upload", "uploading", "stage"} => run[r].path \in Paths
          /\ At(r, "uploading") \/ At(r, "stage") => store[Source(r)][run[r].path] # None
          /\ run[r].pc \in {"upload", "uploading", "confirm", "import", "cr"}
                => run[r].file \in Dumps

\* A backup or a sync that reports success has dealt with a database that the
\* source really had: since the run began when it had to take a new backup, since
\* midnight when it could reuse one, whatever half-written, outdated or
\* foreign artifacts lie in the backup directory.
CopyIsRecent ==
    \A r \in Runs :
        At(r, "returned") /\ ~run[r].failed /\ run[r].job.kind # "import"
        => run[r].file.whole /\ run[r].file.tables \in run[r].recent

\* An import or a sync that reports success, and under which nobody else changed
\* the target, has brought it every table of a whole dump, and its caches show it,
\* also when an earlier import was cut off within a table.
ImportIsComplete ==
    \A r \in Runs :
        /\ At(r, "returned") /\ run[r].job.kind # "backup"
        /\ ~run[r].failed /\ ~run[r].disturbed
        => /\ run[r].file.whole
           /\ \A t \in Present(run[r].file.tables) :
                 db[Target(r)][t] = run[r].file.tables[t]
           /\ cached[Target(r)]

\* An artifact that a run left half written makes the syncs that reuse it fail
\* for the rest of its day and no longer: without --fresh, too, the target comes
\* to hold what the source holds.
CutArtifactIsOutlived ==
    []<>(\A job \in Jobs : \A t \in Present(db[job.source]) :
            db[job.target][t] = db[job.source][t])

=============================================================================
