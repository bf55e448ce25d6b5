----------------------------- MODULE ConfigSync -----------------------------
(***************************************************************************)
(* Drupal configuration between sites: the jobs config-export and          *)
(* config-import (pkg/jobs/register.go), `sitectl drupal sync config`,     *)
(* which is one after the other (cmd/sync.go), and the snapshot that       *)
(* `crosswalk profile create` takes (cmd/crosswalk.go), an export.         *)
(*                                                                         *)
(* A site has its active configuration, in the database, its directory     *)
(* config/sync, and caches built from the active configuration.  `drush    *)
(* cex` rewrites the directory; an import empties it, uploads file by      *)
(* file, and runs `drush cim` and `drush cr`.  No lock is taken: runs on   *)
(* one site overlap, and what a run may promise is what it does to a site  *)
(* that nobody else changed under it.                                      *)
(***************************************************************************)
EXTENDS Naturals

CONSTANTS
    Runs,       \* processes
    Sites,      \* contexts
    Jobs,       \* what a process may be asked: records of kind, source, target
    Files,      \* names below config/sync
    Values,     \* contents
    Absent,     \* no such file
    Cut,        \* a file whose upload did not finish
    Configs,    \* the configurations that the sites' administrators make
    Torn,       \* an archive that does not unpack
    Foreign,    \* an archive without config/sync
    Budget      \* how many steps fail, processes die and configurations change

Events == {"fault", "crash", "edit"}
Kinds == {"sync", "export", "import"}

Contents == Values \cup {Absent, Cut}
Directories == [Files -> Contents]
Archives == Directories \cup {Torn, Foreign}

ASSUME JobsAssumption ==
    Jobs # {} /\ Jobs \subseteq [kind : Kinds, source : Sites, target : Sites]
ASSUME ConfigsAssumption == Configs \subseteq [Files -> Values \cup {Absent}]
ASSUME ArchivesAssumption ==
    Torn \notin Directories /\ Foreign \notin Directories /\ Torn # Foreign
ASSUME BudgetAssumption == Budget \in [Events -> Nat]

VARIABLES
    active,     \* the configuration in each site's database
    dir,        \* each site's config/sync
    cache,      \* the configuration each site's caches are built from
    run,        \* the locals of each process
    budget      \* events that may still happen

vars == <<active, dir, cache, run, budget>>

Labels == {"idle", "cex", "archive", "unpack", "clear", "upload", "cim", "cr",
           "returned"}

-----------------------------------------------------------------------------
At(r, label) == run[r].pc = label
Source(r) == run[r].job.source
Target(r) == run[r].job.target

Empty == [f \in Files |-> Absent]
Present(tree) == {f \in Files : tree[f] # Absent}

\* What a command that replaces `old` by `new` file by file may leave behind.
Mixed(old, new) == {m \in Directories : \A f \in Files : m[f] \in {old[f], new[f]}}

\* History: a step changed what q has still to read, and it was not q's.
Overtaken(q) ==
    \/ At(q, "archive") /\ dir'[Source(q)] # dir[Source(q)]
    \/ (At(q, "upload") \/ At(q, "cim")) /\ dir'[Target(q)] # dir[Target(q)]
    \/ (At(q, "cr") \/ At(q, "returned")) /\ active'[Target(q)] # active[Target(q)]

Noticed(q) == [run[q] EXCEPT !.disturbed = @ \/ Overtaken(q)]

Continue(r, local) ==
    run' = [q \in Runs |-> IF q = r THEN local ELSE Noticed(q)]

Spend(event) ==
    /\ budget[event] > 0
    /\ budget' = [budget EXCEPT ![event] = @ - 1]

\* `expected` is history: what the job should bring to the target.
Start(job, label, archive) ==
    [pc |-> label, job |-> job, archive |-> archive, expected |-> archive,
     todo |-> {}, disturbed |-> FALSE, failed |-> FALSE]

Idle == Start(CHOOSE job \in Jobs : TRUE, "idle", Torn)

Failing(r) == [run[r] EXCEPT !.pc = "returned", !.failed = TRUE, !.todo = {}]

Ask(r) ==
    /\ At(r, "idle")
    /\ UNCHANGED <<active, dir, cache, budget>>
    /\ \E job \in Jobs :
          IF job.kind = "import"
          THEN \E archive \in Configs \cup {Torn, Foreign} :
                  Continue(r, Start(job, "unpack", archive))
          ELSE Continue(r, Start(job, "cex", Torn))

\* Mutant: config/sync is archived as an earlier step left it.
CexSkipped(r) ==
    /\ At(r, "cex")
    /\ UNCHANGED <<active, dir, cache, budget>>
    /\ Continue(r, [run[r] EXCEPT !.pc = "archive", !.expected = active[Source(r)]])

\* drush cex, after the check that the output path is free.
Cex(r) ==
    /\ At(r, "cex")
    /\ dir' = [dir EXCEPT ![Source(r)] = active[Source(r)]]
    /\ UNCHANGED <<active, cache, budget>>
    /\ Continue(r, [run[r] EXCEPT !.pc = "archive", !.expected = active[Source(r)]])

\* tar of config/sync, bounded, to a temporary file and from there to the output.
Archive(r) ==
    /\ At(r, "archive")
    /\ UNCHANGED <<active, dir, cache, budget>>
    /\ Continue(r, [run[r] EXCEPT
          !.pc = IF run[r].job.kind = "export" THEN "returned" ELSE "unpack",
          !.archive = dir[Source(r)]])

\* Stages the archive, downloads it and unpacks it in a temporary directory.
Unpack(r) ==
    /\ At(r, "unpack")
    /\ UNCHANGED <<active, dir, cache, budget>>
    /\ Continue(r, IF run[r].archive = Torn THEN Failing(r)
                   ELSE [run[r] EXCEPT !.pc = "clear"])

Uploads(r) == IF run[r].archive = Foreign THEN {} ELSE Present(run[r].archive)

\* Mutant: the files of the old configuration stay.
ClearNothing(r) ==
    /\ At(r, "clear")
    /\ UNCHANGED <<active, dir, cache, budget>>
    /\ Continue(r, [run[r] EXCEPT !.pc = "upload", !.todo = Uploads(r)])

\* Mutant: it is an error that config/sync is missing.
ClearNeedsDirectory(r) ==
    /\ At(r, "clear")
    /\ dir' = [dir EXCEPT ![Target(r)] = Empty]
    /\ UNCHANGED <<active, cache, budget>>
    /\ Continue(r, IF dir[Target(r)] = Empty THEN Failing(r)
                   ELSE [run[r] EXCEPT !.pc = "upload", !.todo = Uploads(r)])

\* RemoveAll and MkdirAll of config/sync.
Clear(r) ==
    /\ At(r, "clear")
    /\ dir' = [dir EXCEPT ![Target(r)] = Empty]
    /\ UNCHANGED <<active, cache, budget>>
    /\ Continue(r, [run[r] EXCEPT !.pc = "upload", !.todo = Uploads(r)])

\* Mutant: the walk passes over a directory that is missing.
UploadForgivesMissing(r) ==
    /\ At(r, "upload")
    /\ UNCHANGED <<active, cache, budget>>
    /\ \/ /\ run[r].todo = {}
          /\ UNCHANGED dir
          /\ Continue(r, [run[r] EXCEPT !.pc = "cim"])
       \/ \E f \in run[r].todo :
             /\ dir' = [dir EXCEPT ![Target(r)][f] = run[r].archive[f]]
             /\ Continue(r, [run[r] EXCEPT !.todo = @ \ {f}])

\* One file of the walk over the unpacked config/sync, or the walk's end.
Upload(r) ==
    /\ At(r, "upload")
    /\ UNCHANGED <<active, cache, budget>>
    /\ \/ /\ run[r].archive = Foreign
          /\ UNCHANGED dir
          /\ Continue(r, Failing(r))
       \/ /\ run[r].archive # Foreign /\ run[r].todo = {}
          /\ UNCHANGED dir
          /\ Continue(r, [run[r] EXCEPT !.pc = "cim"])
       \/ \E f \in run[r].todo :
             /\ dir' = [dir EXCEPT ![Target(r)][f] = run[r].archive[f]]
             /\ Continue(r, [run[r] EXCEPT !.todo = @ \ {f}])

Cim(r) ==
    /\ At(r, "cim")
    /\ active' = [active EXCEPT ![Target(r)] = dir[Target(r)]]
    /\ UNCHANGED <<dir, cache, budget>>
    /\ Continue(r, [run[r] EXCEPT !.pc = "cr"])

Cr(r) ==
    /\ At(r, "cr")
    /\ cache' = [cache EXCEPT ![Target(r)] = active[Target(r)]]
    /\ UNCHANGED <<active, dir, budget>>
    /\ Continue(r, [run[r] EXCEPT !.pc = "returned"])

Return(r) ==
    /\ At(r, "returned")
    /\ UNCHANGED <<active, dir, cache, budget>>
    /\ Continue(r, Idle)

\* What a step leaves behind that fails or is cut short.
CutShort(r) ==
    /\ \/ /\ At(r, "cex")
          /\ \E m \in Mixed(dir[Source(r)], active[Source(r)])
                      \cup Mixed(Empty, active[Source(r)]) :
                dir' = [dir EXCEPT ![Source(r)] = m]
          /\ UNCHANGED active
       \/ /\ At(r, "clear")
          /\ \E m \in Mixed(dir[Target(r)], Empty) :
                dir' = [dir EXCEPT ![Target(r)] = m]
          /\ UNCHANGED active
       \/ /\ At(r, "upload")
          /\ \E f \in run[r].todo :
                \E c \in {Cut, run[r].archive[f]} :
                   dir' = [dir EXCEPT ![Target(r)][f] = c]
          /\ UNCHANGED active
       \/ /\ At(r, "cim")
          /\ \E m \in Mixed(active[Target(r)], dir[Target(r)]) :
                active' = [active EXCEPT ![Target(r)] = m]
          /\ UNCHANGED dir
       \/ ~At(r, "cex") /\ ~At(r, "cim") /\ UNCHANGED <<active, dir>>
    /\ UNCHANGED cache

\* Mutant: an upload that fails is not an error, and the walk goes on.
FailForgivesUpload(r) ==
    /\ run[r].pc \notin {"idle", "returned"}
    /\ Spend("fault")
    /\ CutShort(r)
    /\ Continue(r, IF At(r, "upload") THEN [run[r] EXCEPT !.pc = "cim"] ELSE Failing(r))

Fail(r) ==
    /\ run[r].pc \notin {"idle", "returned"}
    /\ Spend("fault")
    /\ CutShort(r)
    /\ Continue(r, Failing(r))

Crash(r) ==
    /\ run[r].pc \notin {"idle", "returned"}
    /\ Spend("crash")
    /\ CutShort(r)
    /\ Continue(r, Idle)

\* An administrator changes the configuration of a site.
Edit ==
    /\ Spend("edit")
    /\ \E s \in Sites, c \in Configs :
          /\ active' = [active EXCEPT ![s] = c]
          /\ cache' = [cache EXCEPT ![s] = c]
    /\ UNCHANGED dir
    /\ run' = [q \in Runs |-> Noticed(q)]

-----------------------------------------------------------------------------
Init ==
    /\ active \in [Sites -> Configs]
    /\ dir \in [Sites -> Configs]
    /\ cache = active
    /\ run = [r \in Runs |-> Idle]
    /\ budget = Budget

Step(r) ==
    \/ Cex(r) \/ Archive(r) \/ Unpack(r) \/ Clear(r) \/ Upload(r)
    \/ Cim(r) \/ Cr(r) \/ Return(r)

Next ==
    \/ \E r \in Runs : Ask(r) \/ Step(r) \/ Fail(r) \/ Crash(r)
    \/ Edit

Spec == Init /\ [][Next]_vars

\* A process runs to its end, and somebody runs the command again.
FairSpec == Spec /\ \A r \in Runs : WF_vars(Step(r)) /\ WF_vars(Ask(r))

-----------------------------------------------------------------------------
(* What the jobs promise.                                                  *)

\* Every variable has its type; what is uploaded was unpacked, and drush cim waits
\* for the last file.
TypeOK ==
    /\ active \in [Sites -> Directories]
    /\ dir \in [Sites -> Directories]
    /\ cache \in [Sites -> Directories]
    /\ run \in [Runs -> [pc : Labels, job : Jobs, archive : Archives,
                         expected : Archives, todo : SUBSET Files,
                         disturbed : BOOLEAN, failed : BOOLEAN]]
    /\ budget \in [Events -> Nat]
    /\ \A r \in Runs :
          /\ At(r, "clear") \/ At(r, "upload") => run[r].archive # Torn
          /\ At(r, "upload") => run[r].archive \in Directories \/ run[r].todo = {}
          /\ At(r, "cim") => run[r].archive \in Directories /\ run[r].todo = {}

\* Whatever earlier or overlapping runs left in config/sync, an export or the
\* first half of a sync that nobody disturbed holds the active configuration the
\* source had.
ExportIsFaithful ==
    \A r \in Runs :
        /\ At(r, "returned") \/ At(r, "unpack")
        /\ run[r].job.kind # "import" /\ ~run[r].failed /\ ~run[r].disturbed
        => run[r].archive = run[r].expected

\* An import or a sync that reports success, and that nobody disturbed, has
\* brought the target exactly the archived configuration, deletions included,
\* and its caches show it: no crash, failure or overlapping run before it matters.
ImportIsFaithful ==
    \A r \in Runs :
        /\ At(r, "returned") /\ run[r].job.kind # "export"
        /\ ~run[r].failed /\ ~run[r].disturbed
        => /\ active[Target(r)] = run[r].expected
           /\ cache[Target(r)] = run[r].expected

\* The step is r's own, not one that r notices.
Moves(r) == run'[r] # Noticed(r)

\* From its start to its end, failing and dying included, an import whose archive
\* does not unpack changes nothing on any site, and one whose archive has no
\* config/sync, which is found out when its target's directory is empty already,
\* does not bring that emptiness into any site's configuration or caches.
BadArchiveIsNotImported ==
    [][\A r \in Runs :
          Moves(r) /\ run[r].job.kind = "import" /\ run[r].archive \in {Torn, Foreign}
             => /\ UNCHANGED <<active, cache>>
                /\ run[r].archive = Torn => UNCHANGED dir]_vars

\* After the last crash, failure and edit, a sync that is run again gives every
\* target its source's configuration, also when a run died with config/sync empty
\* or with half of an import done.
TargetCatchesUp ==
    <>[](\A job \in Jobs :
            /\ active[job.target] = active[job.source]
            /\ cache[job.target] = cache[job.source])

=============================================================================
