------------------------- MODULE DatabaseSyncProofs -------------------------
(***************************************************************************)
(* Proofs about DatabaseSync: types, that what a backup or a sync reports  *)
(* is recent, and that an undisturbed import is complete, for any number   *)
(* of processes, sites, artifacts, tables and events.                      *)
(***************************************************************************)
EXTENDS DatabaseSync, TLAPS

Local == [pc : Labels, job : Jobs, path : Paths \cup {None},
          file : Dumps \cup {None}, todo : SUBSET Tables,
          dated : BOOLEAN, recent : SUBSET Databases,
          disturbed : BOOLEAN, failed : BOOLEAN]

Backup == {"dump", "upload", "uploading"}

\* The conjuncts of TypeOK about one process.
Ready(r) ==
    /\ run[r].pc \in Backup \cup {"stage"} => run[r].path \in Paths
    /\ At(r, "uploading") \/ At(r, "stage") => store[Source(r)][run[r].path] # None
    /\ run[r].pc \in {"upload", "uploading", "confirm", "import", "cr"}
          => run[r].file \in Dumps

Succeeded(r) == At(r, "returned") /\ ~run[r].failed

-----------------------------------------------------------------------------
(* Types.                                                                  *)

LEMMA Constants ==
    /\ States \subseteq Databases
    /\ \A job \in Jobs : job.kind \in Kinds /\ job.source \in Sites /\ job.target \in Sites
    /\ Sources \subseteq Sites
    /\ \A job \in Jobs : job.kind # "import" => job.source \in Sources
  BY JobsAssumption, StatesAssumption DEF Databases, Sources

LEMMA StartType ==
    ASSUME NEW job \in Jobs, NEW label \in Labels, NEW file \in Dumps \cup {None},
           NEW recent \in SUBSET Databases
    PROVE  Start(job, label, file, recent) \in Local
  BY DEF Start, Local

LEMMA IdleType == Idle \in Local /\ Idle.pc = "idle" /\ Idle.path = None
<1>1. (CHOOSE job \in Jobs : TRUE) \in Jobs
  BY JobsAssumption
<1>2. Idle \in Local
  BY <1>1, StartType DEF Idle, Labels
<1> QED
  BY <1>2 DEF Idle, Start

\* What noticing the databases leaves of a process's locals.
Keeps(new, old) ==
    /\ new \in Local
    /\ new.pc = old.pc /\ new.job = old.job /\ new.path = old.path
    /\ new.file = old.file /\ new.todo = old.todo /\ new.dated = old.dated
    /\ new.failed = old.failed
    /\ old.recent \subseteq new.recent
    /\ old.pc # "idle" /\ old.job.kind # "import" => db'[old.job.source] \in new.recent

LEMMA NoticedKeeps ==
    ASSUME NEW local \in Local, db' \in [Sites -> Databases]
    PROVE  Keeps(Noticed(local), local) /\ Noticed(local).disturbed = local.disturbed
<1>1. local.job \in Jobs /\ local.job.source \in Sites
  BY Constants DEF Local
<1>2. db'[local.job.source] \in Databases
  BY <1>1
<1>3. CASE local.pc = "idle" \/ local.job.kind = "import"
  BY <1>3 DEF Noticed, Keeps
<1>4. CASE ~(local.pc = "idle" \/ local.job.kind = "import")
  BY <1>2, <1>4 DEF Noticed, Keeps, Local
<1> QED
  BY <1>3, <1>4

LEMMA OvertakenKeeps ==
    ASSUME run \in [Runs -> Local], NEW q \in Runs, db' \in [Sites -> Databases],
           run'[q] = Noticed([run[q] EXCEPT !.disturbed = @ \/ Overtaken(q)])
    PROVE  /\ Keeps(run'[q], run[q])
           /\ run'[q].disturbed = (run[q].disturbed \/ Overtaken(q))
<1> DEFINE old == [run[q] EXCEPT !.disturbed = @ \/ Overtaken(q)]
<1>1. run[q] \in Local /\ Overtaken(q) \in BOOLEAN
  BY DEF Overtaken
<1>2. /\ old \in Local /\ old.pc = run[q].pc /\ old.job = run[q].job
      /\ old.path = run[q].path /\ old.file = run[q].file /\ old.todo = run[q].todo
      /\ old.dated = run[q].dated /\ old.recent = run[q].recent
      /\ old.failed = run[q].failed
      /\ old.disturbed = (run[q].disturbed \/ Overtaken(q))
  BY <1>1 DEF Local
<1>3. Keeps(Noticed(old), old) /\ Noticed(old).disturbed = old.disturbed
  BY <1>2, NoticedKeeps
<1> QED
  BY <1>2, <1>3 DEF Keeps

LEMMA ContinueKeeps ==
    ASSUME run \in [Runs -> Local], NEW r \in Runs, NEW local \in Local,
           Continue(r, local), db' \in [Sites -> Databases]
    PROVE  /\ run' \in [Runs -> Local]
           /\ Keeps(run'[r], local) /\ run'[r].disturbed = local.disturbed
           /\ \A q \in Runs \ {r} :
                 /\ Keeps(run'[q], run[q])
                 /\ run'[q].disturbed = (run[q].disturbed \/ Overtaken(q))
<1>1. Keeps(run'[r], local) /\ run'[r].disturbed = local.disturbed
  BY NoticedKeeps DEF Continue
<1>2. ASSUME NEW q \in Runs \ {r}
      PROVE  /\ Keeps(run'[q], run[q])
             /\ run'[q].disturbed = (run[q].disturbed \/ Overtaken(q))
  <2>1. run'[q] = Noticed([run[q] EXCEPT !.disturbed = @ \/ Overtaken(q)])
    BY <1>2 DEF Continue
  <2> QED
    BY <1>2, <2>1, OvertakenKeeps
<1>3. \A q \in Runs : run'[q] \in Local
  BY <1>1, <1>2 DEF Keeps
<1>4. run' = [q \in Runs |-> run'[q]]
  BY DEF Continue
<1> QED
  BY <1>1, <1>2, <1>3, <1>4

\* What the steps of others leave of what a process is ready for.
LEMMA BystanderReady ==
    ASSUME TypeOK, NEW q \in Runs, Keeps(run'[q], run[q]),
           run[q].pc \in {"uploading", "stage"} /\ run[q].path \in Paths
              => store'[Source(q)][run[q].path] # None
    PROVE  Ready(q)'
<1>1. Ready(q)
  BY DEF TypeOK, Ready, Backup
<1>2. Source(q)' = Source(q)
  BY DEF Keeps, Source
<1> QED
  BY <1>1, <1>2 DEF Keeps, Ready, At, Backup

\* A step of r keeps the types when it keeps them for r.
LEMMA OwnStepType ==
    ASSUME TypeOK, NEW r \in Runs, NEW local \in Local, Continue(r, local),
           db' \in [Sites -> Databases], cached' \in [Sites -> BOOLEAN],
           store' \in [Sites -> [Paths -> Artifacts \cup {None}]],
           today' \in [Sources -> SUBSET Databases], budget' \in [Events -> Nat],
           \A s \in Sites, p \in Paths : store[s][p] # None => store'[s][p] # None,
           local.pc \in Backup \cup {"stage"} => local.path \in Paths,
           local.pc \in {"uploading", "stage"}
              => store'[local.job.source][local.path] # None,
           local.pc \in {"upload", "uploading", "confirm", "import", "cr"}
              => local.file \in Dumps
    PROVE  TypeOK'
<1>1. run \in [Runs -> Local]
  BY DEF TypeOK, Local
<1>2. /\ run' \in [Runs -> Local] /\ Keeps(run'[r], local)
      /\ \A q \in Runs \ {r} : Keeps(run'[q], run[q])
  BY <1>1, ContinueKeeps
<1>3. Ready(r)'
  BY <1>2 DEF Keeps, Ready, At, Source, Backup
<1>4. ASSUME NEW q \in Runs \ {r} PROVE Ready(q)'
  <2>1. Source(q) \in Sites
    BY <1>1, Constants DEF Local, Source
  <2>2. run[q].pc \in {"uploading", "stage"} => store[Source(q)][run[q].path] # None
    BY DEF TypeOK, At
  <2> QED
    BY <1>2, <2>1, <2>2, BystanderReady
<1> QED
  BY <1>2, <1>3, <1>4 DEF TypeOK, Local, Ready, Backup

LEMMA SpendType ==
    ASSUME budget \in [Events -> Nat], NEW event \in Events, Spend(event)
    PROVE  budget' \in [Events -> Nat]
  BY DEF Spend

LEMMA RecordHistoryType ==
    ASSUME today \in [Sources -> SUBSET Databases], db' \in [Sites -> Databases],
           RecordHistory
    PROVE  today' \in [Sources -> SUBSET Databases]
  BY Constants DEF RecordHistory

LEMMA FailingType ==
    ASSUME run \in [Runs -> Local], NEW r \in Runs
    PROVE  Failing(r) \in Local
  BY DEF Failing, Local, Labels

LEMMA AgedType ==
    ASSUME NEW artifact \in Artifacts
    PROVE  [artifact EXCEPT !.today = FALSE] \in Artifacts
  BY DEF Artifacts

\* A half-written or a finished artifact is one, and only its place changes.
LEMMA PutType ==
    ASSUME TypeOK, NEW r \in Runs, run[r].path \in Paths, NEW artifact \in Artifacts,
           Put(r, artifact)
    PROVE  /\ store' \in [Sites -> [Paths -> Artifacts \cup {None}]]
           /\ store'[Source(r)][run[r].path] = artifact
           /\ \A s \in Sites, p \in Paths :
                 s # Source(r) \/ p # run[r].path => store'[s][p] = store[s][p]
           /\ \A s \in Sites, p \in Paths : store[s][p] # None => store'[s][p] # None
<1>1. Source(r) \in Sites
  BY Constants DEF TypeOK, Source
<1>2. artifact # None
  BY NoneAssumption
<1> QED
  BY <1>1, <1>2 DEF TypeOK, Put

\* What a step that is cut short leaves is of the right type.
LEMMA CutShortType ==
    ASSUME TypeOK, NEW r \in Runs, CutShort(r)
    PROVE  /\ db' \in [Sites -> Databases]
           /\ store' \in [Sites -> [Paths -> Artifacts \cup {None}]]
           /\ \A s \in Sites, p \in Paths : store[s][p] # None => store'[s][p] # None
           /\ cached' \in [Sites -> BOOLEAN] /\ today' \in [Sources -> SUBSET Databases]
<1>0. run[r] \in Local /\ Target(r) \in Sites
  BY Constants DEF TypeOK, Local, Target
<1>1. ASSUME At(r, "import"), CutTable(r) PROVE db' \in [Sites -> Databases]
  <2>1. PICK t \in run[r].todo : \E c \in {Part, run[r].file.tables[t]} :
           db' = [db EXCEPT ![Target(r)][t] = c]
    BY <1>1 DEF CutTable
  <2>2. t \in Tables /\ run[r].file.tables \in Databases
    BY <1>0, <1>1 DEF TypeOK, At, Local, Dumps
  <2>3. {Part, run[r].file.tables[t]} \subseteq Values \cup {Absent, Part}
    BY <2>2 DEF Databases
  <2>4. \A c \in Values \cup {Absent, Part} :
           [db EXCEPT ![Target(r)][t] = c] \in [Sites -> Databases]
    BY <1>0, <2>2 DEF TypeOK, Databases
  <2> QED
    BY <2>1, <2>3, <2>4
<1>2. ASSUME At(r, "uploading"),
             Put(r, [dump |-> run[r].file, today |-> run[r].dated])
      PROVE  /\ store' \in [Sites -> [Paths -> Artifacts \cup {None}]]
             /\ \A s \in Sites, p \in Paths : store[s][p] # None => store'[s][p] # None
  <2>1. [dump |-> run[r].file, today |-> run[r].dated] \in Artifacts
    BY <1>0, <1>2 DEF TypeOK, At, Local, Artifacts
  <2>2. run[r].path \in Paths
    BY <1>2 DEF TypeOK, At
  <2> QED
    BY <1>2, <2>1, <2>2, PutType
<1>3. db' \in [Sites -> Databases]
  BY <1>1 DEF CutShort, TypeOK
<1> QED
  BY <1>1, <1>2, <1>3, RecordHistoryType DEF CutShort, KeepCaches, TypeOK

\* Every step keeps the types.
LEMMA TypeOKStep == TypeOK /\ [Next]_vars => TypeOK'
<1> SUFFICES ASSUME TypeOK, [Next]_vars PROVE TypeOK'
  OBVIOUS
<1>type. run \in [Runs -> Local] /\ \A r \in Runs : Ready(r)
  BY DEF TypeOK, Local, Ready, Backup
<1>idle. Idle \in Local /\ Idle.pc = "idle"
  BY IdleType
<1>1. ASSUME NEW r \in Runs, Ask(r) PROVE TypeOK'
  <2>1. ASSUME NEW job \in Jobs, NEW tables \in States, NEW whole \in BOOLEAN,
               Continue(r, Start(job, "confirm", [tables |-> tables, whole |-> whole], {}))
        PROVE  TypeOK'
    <3> DEFINE file == [tables |-> tables, whole |-> whole]
               local == Start(job, "confirm", file, {})
    <3>1. file \in Dumps
      BY Constants DEF Dumps
    <3>2. local \in Local /\ local.pc = "confirm" /\ local.file = file
      BY <3>1, StartType DEF Labels, Start
    <3> HIDE DEF local
    <3> QED
      BY <1>1, <2>1, <3>1, <3>2, OwnStepType DEF Ask, TypeOK, Backup, local
  <2>2. ASSUME NEW job \in Jobs, job.kind # "import",
               NEW recent \in SUBSET Databases, Continue(r, Start(job, "resolve", None, recent))
        PROVE  TypeOK'
    <3> DEFINE local == Start(job, "resolve", None, recent)
    <3>1. local \in Local /\ local.pc = "resolve"
      BY StartType DEF Labels, Start
    <3> HIDE DEF local
    <3> QED
      BY <1>1, <2>2, <3>1, OwnStepType DEF Ask, TypeOK, Backup, local
  <2>3. \A job \in Jobs : job.kind # "import" => today[job.source] \in SUBSET Databases
    BY Constants DEF TypeOK
  <2> QED
    <3>1. PICK job \in Jobs :
             IF job.kind = "import"
             THEN \E tables \in States, whole \in BOOLEAN :
                     Continue(r, Start(job, "confirm", [tables |-> tables, whole |-> whole], {}))
             ELSE Continue(r, Start(job, "resolve", None,
                     IF job.kind = "sync" /\ ~job.fresh THEN today[job.source] ELSE {}))
      BY <1>1 DEF Ask
    <3>2. CASE job.kind = "import"
      BY <2>1, <3>1, <3>2
    <3>3. CASE job.kind # "import"
      <4> DEFINE recent == IF job.kind = "sync" /\ ~job.fresh THEN today[job.source] ELSE {}
      <4>1. recent \in SUBSET Databases
        BY <2>3, <3>3
      <4>2. Continue(r, Start(job, "resolve", None, recent))
        BY <3>1, <3>3
      <4> HIDE DEF recent
      <4> QED
        BY <2>2, <3>3, <4>1, <4>2
    <3> QED
      BY <3>2, <3>3
<1>2. ASSUME NEW r \in Runs, Resolve(r) PROVE TypeOK'
  <2>1. ASSUME NEW p \in Paths, Reusable(r, p),
               Continue(r, [run[r] EXCEPT !.pc = "stage", !.path = p])
        PROVE  TypeOK'
    <3> DEFINE local == [run[r] EXCEPT !.pc = "stage", !.path = p]
    <3>1. /\ local \in Local /\ local.pc = "stage" /\ local.path = p
          /\ local.job = run[r].job
      BY <1>type DEF Local, Labels
    <3> HIDE DEF local
    <3> QED
      BY <1>2, <2>1, <3>1, OwnStepType DEF Resolve, TypeOK, Backup, Reusable, Source, local
  <2>2. ASSUME NEW p \in Paths,
               Continue(r, [run[r] EXCEPT !.pc = "dump", !.path = p])
        PROVE  TypeOK'
    <3> DEFINE local == [run[r] EXCEPT !.pc = "dump", !.path = p]
    <3>1. local \in Local /\ local.pc = "dump" /\ local.path = p
      BY <1>type DEF Local, Labels
    <3> HIDE DEF local
    <3> QED
      BY <1>2, <2>2, <3>1, OwnStepType DEF Resolve, TypeOK, Backup, local
  <2> QED
    BY <1>2, <2>1, <2>2 DEF Resolve
<1>3. ASSUME NEW r \in Runs, Dump(r) PROVE TypeOK'
  <2> DEFINE file == [tables |-> db[Source(r)], whole |-> TRUE]
             local == [run[r] EXCEPT !.pc = "upload", !.file = file]
  <2>1. file \in Dumps
    BY <1>type, Constants DEF Local, Source, Dumps, TypeOK
  <2>2. /\ local \in Local /\ local.pc = "upload" /\ local.file = file
        /\ local.path = run[r].path
    BY <1>type, <2>1 DEF Local, Labels
  <2>3. Continue(r, local)
    BY <1>3 DEF Dump
  <2> HIDE DEF local
  <2> QED
    BY <1>3, <1>type, <2>1, <2>2, <2>3, OwnStepType DEF Dump, TypeOK, Backup, Ready, At
<1>4. ASSUME NEW r \in Runs, Upload(r) PROVE TypeOK'
  <2> DEFINE artifact == [dump |-> [run[r].file EXCEPT !.whole = FALSE],
                          today |-> run[r].dated]
             local == [run[r] EXCEPT !.pc = "uploading"]
  <2>1. run[r].path \in Paths /\ run[r].file \in Dumps
    BY <1>4, <1>type DEF Upload, At, Ready, Backup
  <2>2. artifact \in Artifacts
    BY <1>type, <2>1 DEF Local, Artifacts, Dumps
  <2>3. /\ store' \in [Sites -> [Paths -> Artifacts \cup {None}]]
        /\ store'[Source(r)][run[r].path] # None
        /\ \A s \in Sites, p \in Paths : store[s][p] # None => store'[s][p] # None
    BY <1>4, <2>1, <2>2, PutType, NoneAssumption DEF Upload
  <2>4. /\ local \in Local /\ local.pc = "uploading" /\ local.file = run[r].file
        /\ local.path = run[r].path /\ local.job = run[r].job
    BY <1>type DEF Local, Labels
  <2>5. Continue(r, local)
    BY <1>4 DEF Upload
  <2> HIDE DEF local
  <2> QED
    BY <1>4, <2>1, <2>3, <2>4, <2>5, OwnStepType DEF Upload, TypeOK, Backup, Source
<1>5. ASSUME NEW r \in Runs, Uploaded(r) PROVE TypeOK'
  <2> DEFINE artifact == [dump |-> run[r].file, today |-> run[r].dated]
             local == [run[r] EXCEPT
                         !.pc = IF run[r].job.kind = "backup" THEN "returned" ELSE "stage",
                         !.dated = TRUE]
  <2>1. run[r].path \in Paths /\ run[r].file \in Dumps
    BY <1>5, <1>type DEF Uploaded, At, Ready, Backup
  <2>2. artifact \in Artifacts
    BY <1>type, <2>1 DEF Local, Artifacts
  <2>3. /\ store' \in [Sites -> [Paths -> Artifacts \cup {None}]]
        /\ store'[Source(r)][run[r].path] # None
        /\ \A s \in Sites, p \in Paths : store[s][p] # None => store'[s][p] # None
    BY <1>5, <2>1, <2>2, PutType, NoneAssumption DEF Uploaded
  <2>4. /\ local \in Local /\ local.pc \in {"returned", "stage"}
        /\ local.path = run[r].path /\ local.job = run[r].job
    BY <1>type DEF Local, Labels
  <2>5. Continue(r, local)
    BY <1>5 DEF Uploaded
  <2> HIDE DEF local
  <2> QED
    BY <1>5, <2>1, <2>3, <2>4, <2>5, OwnStepType DEF Uploaded, TypeOK, Backup, Source
<1>6. ASSUME NEW r \in Runs, Stage(r) PROVE TypeOK'
  <2> DEFINE file == store[Source(r)][run[r].path].dump
             local == [run[r] EXCEPT !.pc = "confirm", !.path = None, !.file = file]
  <2>1. file \in Dumps
    <3>1. /\ Source(r) \in Sites /\ run[r].path \in Paths
          /\ store[Source(r)][run[r].path] # None
      BY <1>6, <1>type, Constants DEF Stage, At, Ready, Backup, Local, Source
    <3> QED
      BY <3>1 DEF TypeOK, Artifacts
  <2>2. local \in Local /\ local.pc = "confirm" /\ local.file = file
    BY <1>type, <2>1 DEF Local, Labels
  <2>3. Continue(r, local)
    BY <1>6 DEF Stage
  <2> HIDE DEF local
  <2> QED
    BY <1>6, <2>1, <2>2, <2>3, OwnStepType DEF Stage, TypeOK, Backup
<1>failing. ASSUME NEW r \in Runs, Continue(r, Failing(r)),
                   db' \in [Sites -> Databases], cached' \in [Sites -> BOOLEAN],
                   store' \in [Sites -> [Paths -> Artifacts \cup {None}]],
                   today' \in [Sources -> SUBSET Databases], budget' \in [Events -> Nat],
                   \A s \in Sites, p \in Paths : store[s][p] # None => store'[s][p] # None
            PROVE  TypeOK'
  <2>1. Failing(r) \in Local /\ Failing(r).pc = "returned"
    BY <1>type, FailingType DEF Failing, Local
  <2> QED
    BY <1>failing, <2>1, OwnStepType DEF Backup
<1>7. ASSUME NEW r \in Runs, Confirm(r) PROVE TypeOK'
  <2> DEFINE local == [run[r] EXCEPT !.pc = "import", !.todo = Present(run[r].file.tables)]
  <2>1. /\ local \in Local /\ local.pc = "import" /\ local.file = run[r].file
    BY <1>type DEF Local, Labels, Present
  <2>2. run[r].file \in Dumps
    BY <1>7, <1>type DEF Confirm, At, Ready
  <2>3. CASE Continue(r, local)
    <3> HIDE DEF local
    <3> QED
      BY <1>7, <2>1, <2>2, <2>3, OwnStepType DEF Confirm, TypeOK, Backup
  <2>4. CASE Continue(r, Failing(r))
    BY <1>7, <1>failing, <2>4 DEF Confirm, TypeOK
  <2> QED
    BY <1>7, <2>3, <2>4 DEF Confirm
<1>8. ASSUME NEW r \in Runs, Import(r) PROVE TypeOK'
  <2>1. run[r].file \in Dumps /\ Target(r) \in Sites /\ run[r].todo \subseteq Tables
    BY <1>8, <1>type, Constants DEF Import, At, Ready, Local, Target
  <2>2. ASSUME NEW t \in run[r].todo,
               NEW c \in {Part, run[r].file.tables[t]},
               db' = [db EXCEPT ![Target(r)][t] = c]
        PROVE  db' \in [Sites -> Databases]
    BY <2>1, <2>2 DEF TypeOK, Databases, Dumps
  <2>3. db' \in [Sites -> Databases]
    BY <1>8, <2>2 DEF Import, CutTable, TypeOK
  <2>4. cached' \in [Sites -> BOOLEAN] /\ today' \in [Sources -> SUBSET Databases]
    BY <1>8, <2>3, RecordHistoryType DEF Import, KeepCaches, TypeOK
  <2>5. ASSUME NEW t \in run[r].todo, Continue(r, [run[r] EXCEPT !.todo = @ \ {t}])
        PROVE  TypeOK'
    <3> DEFINE local == [run[r] EXCEPT !.todo = @ \ {t}]
    <3>1. local \in Local /\ local.pc = "import" /\ local.file = run[r].file
      BY <1>8, <1>type DEF Local, Import, At
    <3> HIDE DEF local
    <3> QED
      BY <1>8, <2>1, <2>3, <2>4, <2>5, <3>1, OwnStepType DEF Import, TypeOK, Backup, local
  <2>6. ASSUME Continue(r, [run[r] EXCEPT !.pc = "cr"]) PROVE TypeOK'
    <3> DEFINE local == [run[r] EXCEPT !.pc = "cr"]
    <3>1. local \in Local /\ local.pc = "cr" /\ local.file = run[r].file
      BY <1>type DEF Local, Labels
    <3> HIDE DEF local
    <3> QED
      BY <1>8, <2>1, <2>3, <2>4, <2>6, <3>1, OwnStepType DEF Import, TypeOK, Backup, local
  <2>7. ASSUME Continue(r, Failing(r)) PROVE TypeOK'
    BY <1>8, <1>failing, <2>3, <2>4, <2>7 DEF Import, TypeOK
  <2> QED
    BY <1>8, <2>5, <2>6, <2>7 DEF Import
<1>9. ASSUME NEW r \in Runs, Cr(r) PROVE TypeOK'
  <2> DEFINE local == [run[r] EXCEPT !.pc = "returned"]
  <2>1. local \in Local /\ local.pc = "returned"
    BY <1>type DEF Local, Labels
  <2>2. Continue(r, local)
    BY <1>9 DEF Cr
  <2> HIDE DEF local
  <2> QED
    BY <1>9, <2>1, <2>2, OwnStepType DEF Cr, TypeOK, Backup
<1>10. ASSUME NEW r \in Runs, Return(r) PROVE TypeOK'
  BY <1>10, <1>idle, OwnStepType DEF Return, TypeOK, Backup
<1>11. ASSUME NEW r \in Runs, Fail(r) PROVE TypeOK'
  <2>1. budget' \in [Events -> Nat]
    BY <1>11, SpendType DEF Fail, TypeOK, Events
  <2> QED
    BY <1>11, <1>failing, <2>1, CutShortType DEF Fail
<1>12. ASSUME NEW r \in Runs, Crash(r) PROVE TypeOK'
  <2>1. budget' \in [Events -> Nat]
    BY <1>12, SpendType DEF Crash, TypeOK, Events
  <2> QED
    BY <1>12, <1>idle, <2>1, CutShortType, OwnStepType DEF Crash, Backup
<1>13. ASSUME Edit PROVE TypeOK'
  <2>1. budget' \in [Events -> Nat]
    BY <1>13, SpendType DEF Edit, TypeOK, Events
  <2>2. db' \in [Sites -> Databases] /\ cached' \in [Sites -> BOOLEAN]
    BY <1>13, Constants DEF Edit, TypeOK
  <2>3. today' \in [Sources -> SUBSET Databases]
    BY <1>13, <2>2, RecordHistoryType DEF Edit, TypeOK
  <2>4. ASSUME NEW q \in Runs PROVE Keeps(run'[q], run[q])
    <3>1. run'[q] = Noticed([run[q] EXCEPT !.disturbed = @ \/ Overtaken(q)])
      BY <1>13 DEF Edit
    <3> QED
      BY <1>type, <2>2, <3>1, OvertakenKeeps
  <2>5. ASSUME NEW q \in Runs PROVE Ready(q)'
    BY <1>13, <1>type, <2>4, BystanderReady DEF Edit, Ready, At
  <2>6. run' \in [Runs -> Local]
    BY <1>13, <2>4 DEF Edit, Keeps
  <2> QED
    BY <1>13, <2>1, <2>2, <2>3, <2>5, <2>6 DEF Edit, TypeOK, Local, Ready, Backup
<1>14. ASSUME Midnight PROVE TypeOK'
  <2>1. store' \in [Sites -> [Paths -> Artifacts \cup {None}]]
    <3>1. ASSUME NEW s \in Sites, NEW p \in Paths, store[s][p] # None
          PROVE  [store[s][p] EXCEPT !.today = FALSE] \in Artifacts
      BY <3>1, AgedType DEF TypeOK
    <3> QED
      BY <1>14, <3>1 DEF Midnight
  <2>2. \A s \in Sites, p \in Paths : store[s][p] # None => store'[s][p] # None
    <3>1. ASSUME NEW s \in Sites, NEW p \in Paths, store[s][p] # None
          PROVE  [store[s][p] EXCEPT !.today = FALSE] # None
      BY <3>1, AgedType, NoneAssumption DEF TypeOK
    <3> QED
      BY <1>14, <3>1 DEF Midnight
  <2>3. ASSUME NEW q \in Runs
        PROVE  /\ run'[q] \in Local /\ run'[q].pc = run[q].pc /\ run'[q].job = run[q].job
               /\ run'[q].path = run[q].path /\ run'[q].file = run[q].file
    BY <1>14, <1>type DEF Midnight, Local
  <2>4. ASSUME NEW q \in Runs PROVE Ready(q)'
    <3>1. Source(q)' = Source(q) /\ Source(q) \in Sites
      BY <1>type, <2>3, Constants DEF Source, Local
    <3> QED
      BY <1>type, <2>2, <2>3, <3>1 DEF Ready, At, Backup
  <2>5. today' \in [Sources -> SUBSET Databases]
    BY <1>14, Constants DEF Midnight, TypeOK
  <2>6. run' \in [Runs -> Local]
    BY <1>14, <2>3 DEF Midnight
  <2> QED
    BY <1>14, <2>1, <2>4, <2>5, <2>6 DEF Midnight, TypeOK, Local, Ready, Backup
<1>15. ASSUME NEW s \in Sites, NEW p \in Paths, Expire(s, p) PROVE TypeOK'
  <2>1. ASSUME NEW q \in Runs PROVE Ready(q)'
    <3>1. Source(q) \in Sites /\ Source(q)' = Source(q) /\ run'[q] = run[q]
      BY <1>15, <1>type, Constants DEF Expire, Source, Local
    <3>2. run[q].pc \in {"uploading", "stage"}
             => store'[Source(q)][run[q].path] = store[Source(q)][run[q].path]
      BY <1>15, <1>type, <3>1 DEF Expire, Ready, Backup, TypeOK
    <3> QED
      BY <1>type, <3>1, <3>2 DEF Ready, At, Backup
  <2>2. store' \in [Sites -> [Paths -> Artifacts \cup {None}]]
    BY <1>15 DEF Expire, TypeOK
  <2> QED
    BY <1>15, <2>1, <2>2 DEF Expire, TypeOK, Local, Ready, Backup
<1>16. CASE UNCHANGED vars
  BY <1>16 DEF vars, TypeOK, At, Source
<1> QED
  BY <1>1, <1>2, <1>3, <1>4, <1>5, <1>6, <1>7, <1>8, <1>9, <1>10, <1>11, <1>12,
     <1>13, <1>14, <1>15, <1>16 DEF Next, Step

LEMMA TypeOKInit == Init => TypeOK
<1> SUFFICES ASSUME Init PROVE TypeOK
  OBVIOUS
<1>1. run \in [Runs -> Local] /\ \A r \in Runs : run[r].pc = "idle"
  BY IdleType DEF Init
<1>2. /\ db \in [Sites -> Databases] /\ today \in [Sources -> SUBSET Databases]
  BY Constants DEF Init
<1> QED
  BY <1>1, <1>2, BudgetAssumption DEF Init, TypeOK, Local, At

\* Every variable has its type, and what a process has yet to use is there.
THEOREM TypeCorrect == Spec => []TypeOK
  BY TypeOKInit, TypeOKStep, PTL DEF Spec

-----------------------------------------------------------------------------
(* What is copied is recent.                                               *)

\* Where a process that makes or finds an artifact has the database it copies.
Copied(r) ==
    run[r].job.kind # "import" =>
    /\ run[r].pc # "idle" => db[Source(r)] \in run[r].recent
    /\ At(r, "resolve") /\ MayReuse(r) => today[Source(r)] \subseteq run[r].recent
    /\ run[r].pc \in {"dump", "upload"} => store[Source(r)][run[r].path] = None
    /\ run[r].pc \in {"upload", "uploading"}
          => /\ run[r].file.whole /\ run[r].file.tables \in run[r].recent
             /\ run[r].dated => run[r].file.tables \in today[Source(r)]
    /\ At(r, "uploading")
          => store[Source(r)][run[r].path].dump.tables = run[r].file.tables
    /\ At(r, "stage") => store[Source(r)][run[r].path].dump.tables \in run[r].recent
    /\ run[r].pc \in {"confirm", "import", "cr"} \/ Succeeded(r)
          => run[r].file.tables \in run[r].recent
    /\ At(r, "cr") \/ Succeeded(r) => run[r].file.whole

Making(r) == run[r].pc \in Backup \cup {"resolve", "stage"} => run[r].job.kind # "import"

\* Nobody else writes the artifact that a process writes.
Alone(q, r) ==
    run[q].pc \in Backup /\ run[r].pc \in Backup /\ Source(q) = Source(r)
        => run[q].path # run[r].path

\* An artifact of today holds a database of today.
Dated(s, p) ==
    store[s][p] # None /\ store[s][p].today => store[s][p].dump.tables \in today[s]

CopyInv ==
    /\ \A r \in Runs : Copied(r) /\ Making(r)
    /\ \A q, r \in Runs : q # r => Alone(q, r)
    /\ \A s \in Sources : db[s] \in today[s] /\ \A p \in Paths : Dated(s, p)

\* What a step of r may do to the backup directories.
StoreStep(r) ==
    \A s \in Sites, p \in Paths :
        \/ store'[s][p] = store[s][p]
        \/ /\ run[r].pc \in {"upload", "uploading"} /\ s = Source(r) /\ p = run[r].path
           /\ store'[s][p].dump.tables = run[r].file.tables
           /\ store'[s][p].today = run[r].dated

TodayStep == \A s \in Sources : today'[s] = today[s] \cup {db'[s]}

LEMMA RecordHistoryStep == RecordHistory => TodayStep
  BY DEF RecordHistory, TodayStep

LEMMA SameTodayStep == CopyInv /\ UNCHANGED <<db, today>> => TodayStep
  BY DEF CopyInv, TodayStep

LEMMA SameStoreStep == \A r \in Runs : UNCHANGED store => StoreStep(r)
  BY DEF StoreStep

LEMMA BystanderCopied ==
    ASSUME TypeOK, CopyInv, NEW r \in Runs, NEW q \in Runs \ {r},
           Keeps(run'[q], run[q]), StoreStep(r), TodayStep
    PROVE  Copied(q)' /\ Making(q)'
<1>1. run[q] \in Local /\ Ready(q) /\ run[r] \in Local
  BY DEF TypeOK, Local, Ready, Backup
<1>2. Copied(q) /\ Making(q) /\ Alone(q, r) /\ Copied(r) /\ Making(r)
  BY DEF CopyInv
<1>3. /\ Source(q)' = Source(q) /\ Source(q) \in Sites
      /\ MayReuse(q)' = MayReuse(q)
      /\ run[q].job.kind # "import" => Source(q) \in Sources
  BY <1>1, Constants DEF Keeps, Source, MayReuse, Local
<1>4. CASE run[q].job.kind = "import"
  BY <1>2, <1>4 DEF Keeps, Copied, Making
<1>5. CASE run[q].job.kind # "import"
  <2>1. ASSUME run[q].pc \in Backup
        PROVE  store'[Source(q)][run[q].path] = store[Source(q)][run[q].path]
    <3>1. run[q].path \in Paths
      BY <1>1, <2>1 DEF Ready
    <3>2. \/ store'[Source(q)][run[q].path] = store[Source(q)][run[q].path]
          \/ /\ run[r].pc \in {"upload", "uploading"} /\ Source(q) = Source(r)
             /\ run[q].path = run[r].path
      BY <1>3, <3>1 DEF StoreStep
    <3> QED
      BY <1>2, <2>1, <3>2 DEF Alone, Backup
  <2>2. ASSUME At(q, "stage")
        PROVE  store'[Source(q)][run[q].path].dump.tables
                  = store[Source(q)][run[q].path].dump.tables
    <3>1. run[q].path \in Paths /\ store[Source(q)][run[q].path] # None
      BY <1>1, <2>2 DEF Ready, At
    <3>2. \/ store'[Source(q)][run[q].path] = store[Source(q)][run[q].path]
          \/ /\ run[r].pc \in {"upload", "uploading"} /\ Source(q) = Source(r)
             /\ run[q].path = run[r].path
             /\ store'[Source(q)][run[q].path].dump.tables = run[r].file.tables
      BY <1>3, <3>1 DEF StoreStep
    <3> QED
      BY <1>2, <3>1, <3>2 DEF Copied, Making, At, Backup
  <2>3. today'[Source(q)] = today[Source(q)] \cup {db'[Source(q)]}
    BY <1>3, <1>5 DEF TodayStep
  <2>4. /\ run'[q].pc = run[q].pc /\ run'[q].job = run[q].job
        /\ run'[q].path = run[q].path /\ run'[q].file = run[q].file
        /\ run'[q].dated = run[q].dated /\ run'[q].failed = run[q].failed
        /\ run[q].recent \subseteq run'[q].recent
        /\ run[q].pc # "idle" => db'[Source(q)] \in run'[q].recent
    BY <1>5 DEF Keeps, Source
  <2> QED
    BY <1>2, <1>3, <1>5, <2>1, <2>2, <2>3, <2>4
    DEF Copied, Making, At, Succeeded, Backup
<1> QED
  BY <1>4, <1>5

\* A step of r keeps the invariant when it keeps it for r.
LEMMA OwnStepCopy ==
    ASSUME TypeOK, db' \in [Sites -> Databases], CopyInv, NEW r \in Runs,
           NEW local \in Local, Continue(r, local), StoreStep(r), TodayStep,
           Copied(r)', local.pc \in Backup \cup {"resolve", "stage"}
                          => local.job.kind # "import",
           local.pc \in Backup =>
              /\ local.job = run[r].job
              /\ \/ run[r].pc \in Backup /\ local.path = run[r].path
                 \/ \A q \in Runs : Source(q) = Source(r) => run[q].path # local.path
    PROVE  CopyInv'
<1>1. run \in [Runs -> Local]
  BY DEF TypeOK, Local
<1>2. /\ Keeps(run'[r], local)
      /\ \A q \in Runs \ {r} : Keeps(run'[q], run[q])
  BY <1>1, ContinueKeeps
<1>3. ASSUME NEW q \in Runs PROVE Copied(q)' /\ Making(q)'
  <2>1. CASE q = r
    BY <1>2, <2>1 DEF Keeps, Making
  <2>2. CASE q # r
    BY <1>2, <2>2, BystanderCopied
  <2> QED
    BY <2>1, <2>2
<1>4. ASSUME NEW q \in Runs \ {r} PROVE Alone(q, r)' /\ Alone(r, q)'
  <2>1. Alone(q, r)
    BY DEF CopyInv
  <2>2. run'[q].pc = run[q].pc /\ Source(q)' = Source(q) /\ run'[q].path = run[q].path
    BY <1>2 DEF Keeps, Source
  <2>3. run'[r].pc = local.pc /\ run'[r].job = local.job /\ run'[r].path = local.path
    BY <1>2 DEF Keeps
  <2> QED
    BY <2>1, <2>2, <2>3 DEF Alone, Source
<1>5. ASSUME NEW p \in Runs \ {r}, NEW q \in Runs \ {r}, p # q PROVE Alone(p, q)'
  <2>1. Alone(p, q)
    BY <1>5 DEF CopyInv
  <2> QED
    BY <1>2, <2>1 DEF Alone, Keeps, Source
<1>6. ASSUME NEW s \in Sources, NEW p \in Paths PROVE Dated(s, p)'
  <2>1. Dated(s, p) /\ s \in Sites /\ today'[s] = today[s] \cup {db'[s]}
    BY Constants DEF CopyInv, TodayStep
  <2>2. CASE store'[s][p] = store[s][p]
    BY <2>1, <2>2 DEF Dated
  <2>3. CASE /\ run[r].pc \in {"upload", "uploading"} /\ s = Source(r)
             /\ store'[s][p].dump.tables = run[r].file.tables
             /\ store'[s][p].today = run[r].dated
    <3>1. Copied(r) /\ Making(r)
      BY DEF CopyInv
    <3> QED
      BY <2>1, <2>3, <3>1 DEF Dated, Copied, Making, Backup
  <2> QED
    BY <2>1, <2>2, <2>3 DEF StoreStep
<1>7. \A s \in Sources : db'[s] \in today'[s]
  BY DEF TodayStep
<1> QED
  BY <1>3, <1>4, <1>5, <1>6, <1>7 DEF CopyInv

\* A step that ends a run, in failure or altogether, leaves nothing to claim.
LEMMA EndStepCopy ==
    ASSUME TypeOK, db' \in [Sites -> Databases], CopyInv, NEW r \in Runs,
           NEW local \in {Failing(r), Idle}, Continue(r, local), StoreStep(r), TodayStep
    PROVE  CopyInv'
<1>1. run \in [Runs -> Local] /\ run[r] \in Local
  BY DEF TypeOK, Local
<1>2. /\ local \in Local
      /\ local.pc = "idle" \/ (local.pc = "returned" /\ local.failed)
  BY <1>1, FailingType, IdleType DEF Failing, Local
<1>3. Keeps(run'[r], local)
  BY <1>1, <1>2, ContinueKeeps
<1>4. Copied(r)'
  BY <1>2, <1>3 DEF Copied, Keeps, At, Succeeded, Source
<1> QED
  BY <1>2, <1>4, OwnStepCopy DEF Backup

\* What a step that is cut short leaves of the backup directories.
LEMMA CutShortCopy ==
    ASSUME TypeOK, NEW r \in Runs, CutShort(r)
    PROVE  StoreStep(r) /\ TodayStep
<1>1. CASE At(r, "uploading") /\ Put(r, [dump |-> run[r].file, today |-> run[r].dated])
  <2>1. run[r].path \in Paths /\ [dump |-> run[r].file, today |-> run[r].dated] \in Artifacts
    BY <1>1 DEF TypeOK, At, Artifacts
  <2> QED
    BY <1>1, <2>1, PutType, RecordHistoryStep DEF CutShort, StoreStep, At
<1>2. CASE UNCHANGED store
  BY <1>2, SameStoreStep, RecordHistoryStep DEF CutShort
<1> QED
  BY <1>1, <1>2 DEF CutShort

LEMMA CopyInvStep == TypeOK /\ TypeOK' /\ CopyInv /\ [Next]_vars => CopyInv'
<1> SUFFICES ASSUME TypeOK, TypeOK', CopyInv, [Next]_vars PROVE CopyInv'
  OBVIOUS
<1>type. run \in [Runs -> Local] /\ db' \in [Sites -> Databases] /\ \A r \in Runs : Ready(r)
  BY DEF TypeOK, Local, Ready, Backup
<1>inv. \A r \in Runs : Copied(r) /\ Making(r)
  BY DEF CopyInv
<1>own. ASSUME NEW r \in Runs, NEW local \in Local, Continue(r, local)
        PROVE  Keeps(run'[r], local) /\ Source(r)' = local.job.source
  BY <1>type, <1>own, ContinueKeeps DEF Keeps, Source
<1>1. ASSUME NEW r \in Runs, Ask(r) PROVE CopyInv'
  <2>1. PICK job \in Jobs :
           IF job.kind = "import"
           THEN \E tables \in States, whole \in BOOLEAN :
                   Continue(r, Start(job, "confirm", [tables |-> tables, whole |-> whole], {}))
           ELSE Continue(r, Start(job, "resolve", None,
                   IF job.kind = "sync" /\ ~job.fresh THEN today[job.source] ELSE {}))
    BY <1>1 DEF Ask
  <2>2. StoreStep(r) /\ TodayStep
    BY <1>1, SameStoreStep, SameTodayStep DEF Ask
  <2>3. CASE job.kind = "import"
    <3>1. PICK tables \in States, whole \in BOOLEAN :
             Continue(r, Start(job, "confirm", [tables |-> tables, whole |-> whole], {}))
      BY <2>1, <2>3
    <3> DEFINE local == Start(job, "confirm", [tables |-> tables, whole |-> whole], {})
    <3>2. local \in Local /\ local.pc = "confirm" /\ local.job = job
      <4>1. [tables |-> tables, whole |-> whole] \in Dumps
        BY Constants DEF Dumps
      <4> QED
        BY <4>1, StartType DEF Labels, Start
    <3>3. Continue(r, local)
      BY <3>1
    <3> HIDE DEF local
    <3>4. Copied(r)'
      BY <1>own, <2>3, <3>2, <3>3 DEF Copied, Keeps
    <3> QED
      BY <1>type, <2>2, <3>2, <3>3, <3>4, OwnStepCopy DEF Backup
  <2>4. CASE job.kind # "import"
    <3> DEFINE recent == IF job.kind = "sync" /\ ~job.fresh THEN today[job.source] ELSE {}
               local == Start(job, "resolve", None, recent)
    <3>1. recent \in SUBSET Databases
      BY <2>4, Constants DEF TypeOK
    <3>2. local \in Local /\ local.pc = "resolve" /\ local.job = job /\ local.recent = recent
      <4> HIDE DEF recent
      <4> QED
        BY <3>1, StartType DEF Labels, Start
    <3>3. Continue(r, local)
      BY <2>1, <2>4
    <3>4. job.kind = "sync" /\ ~job.fresh => local.recent = today[job.source]
      BY <3>2
    <3> HIDE DEF local
    <3>5. today'[job.source] = today[job.source]
      BY <1>1 DEF Ask
    <3>6. Copied(r)'
      BY <1>own, <2>4, <3>2, <3>3, <3>4, <3>5
      DEF Copied, Keeps, At, Succeeded, MayReuse, Source
    <3> QED
      BY <1>type, <2>2, <2>4, <3>2, <3>3, <3>6, OwnStepCopy DEF Backup
  <2> QED
    BY <2>3, <2>4
<1>2. ASSUME NEW r \in Runs, Resolve(r) PROVE CopyInv'
  <2>0. /\ StoreStep(r) /\ TodayStep /\ run[r].job.kind # "import" /\ run[r] \in Local
        /\ Source(r) \in Sources
    BY <1>2, <1>type, <1>inv, SameStoreStep, SameTodayStep, Constants
    DEF Resolve, At, Making, Source, Local
  <2>1. ASSUME NEW p \in Paths, MayReuse(r), Reusable(r, p),
               Continue(r, [run[r] EXCEPT !.pc = "stage", !.path = p])
        PROVE  CopyInv'
    <3> DEFINE local == [run[r] EXCEPT !.pc = "stage", !.path = p]
    <3>1. /\ local \in Local /\ local.pc = "stage" /\ local.path = p
          /\ local.job = run[r].job /\ local.recent = run[r].recent
      BY <1>type DEF Local, Labels
    <3>2. Continue(r, local)
      BY <2>1
    <3> HIDE DEF local
    <3>3. store[Source(r)][p].dump.tables \in run[r].recent
      BY <1>2, <1>inv, <2>0, <2>1 DEF Resolve, Copied, CopyInv, Dated, Reusable
    <3>4. Copied(r)'
      BY <1>2, <1>own, <3>1, <3>2, <3>3 DEF Copied, Keeps, At, Succeeded, Resolve, Source
    <3> QED
      BY <1>type, <2>0, <3>1, <3>2, <3>4, OwnStepCopy DEF Backup
  <2>2. ASSUME NEW p \in Paths, store[Source(r)][p] = None,
               \A q \in Runs : Source(q) = Source(r) => run[q].path # p,
               Continue(r, [run[r] EXCEPT !.pc = "dump", !.path = p])
        PROVE  CopyInv'
    <3> DEFINE local == [run[r] EXCEPT !.pc = "dump", !.path = p]
    <3>1. /\ local \in Local /\ local.pc = "dump" /\ local.path = p
          /\ local.job = run[r].job
      BY <1>type DEF Local, Labels
    <3>2. Continue(r, local)
      BY <2>2
    <3> HIDE DEF local
    <3>3. Copied(r)'
      BY <1>2, <1>own, <2>2, <3>1, <3>2 DEF Copied, Keeps, At, Succeeded, Resolve, Source
    <3> QED
      BY <1>type, <2>0, <2>2, <3>1, <3>2, <3>3, OwnStepCopy DEF Backup
  <2> QED
    BY <1>2, <2>1, <2>2 DEF Resolve
<1>3. ASSUME NEW r \in Runs, Dump(r) PROVE CopyInv'
  <2> DEFINE file == [tables |-> db[Source(r)], whole |-> TRUE]
             local == [run[r] EXCEPT !.pc = "upload", !.file = file]
  <2>1. /\ StoreStep(r) /\ TodayStep /\ run[r].job.kind # "import" /\ run[r] \in Local
        /\ At(r, "dump") /\ Source(r) \in Sources
    BY <1>3, <1>type, <1>inv, SameStoreStep, SameTodayStep, Constants
    DEF Dump, At, Making, Backup, Source, Local
  <2>2. file \in Dumps
    BY <1>type, Constants DEF Local, Source, Dumps, TypeOK
  <2>3. /\ local \in Local /\ local.pc = "upload" /\ local.file = file
        /\ local.path = run[r].path /\ local.job = run[r].job
        /\ local.recent = run[r].recent
    BY <2>1, <2>2 DEF Local, Labels
  <2>4. Continue(r, local)
    BY <1>3 DEF Dump
  <2> HIDE DEF local
  <2>5. store[Source(r)][run[r].path] = None /\ db[Source(r)] \in today[Source(r)]
    BY <1>inv, <2>1 DEF Copied, At, CopyInv
  <2>6. Copied(r)'
    BY <1>3, <1>own, <2>1, <2>3, <2>4, <2>5 DEF Copied, Keeps, At, Succeeded, Dump, Source
  <2> QED
    BY <1>type, <2>1, <2>3, <2>4, <2>6, OwnStepCopy DEF Backup, At
<1>4. ASSUME NEW r \in Runs, Upload(r) PROVE CopyInv'
  <2> DEFINE dump == [run[r].file EXCEPT !.whole = FALSE]
             artifact == [dump |-> dump, today |-> run[r].dated]
             local == [run[r] EXCEPT !.pc = "uploading"]
  <2>1. /\ run[r].path \in Paths /\ run[r].file \in Dumps /\ run[r] \in Local
        /\ At(r, "upload") /\ run[r].job.kind # "import"
    BY <1>4, <1>type, <1>inv DEF Upload, At, Ready, Backup, Making
  <2>2. dump \in Dumps /\ dump.tables = run[r].file.tables
    BY <2>1 DEF Dumps
  <2>3. artifact \in Artifacts /\ artifact.dump = dump /\ artifact.today = run[r].dated
    BY <2>1, <2>2 DEF Local, Artifacts
  <2>4. Put(r, artifact)
    BY <1>4 DEF Upload
  <2>5. Continue(r, local)
    BY <1>4 DEF Upload
  <2>6. /\ local \in Local /\ local.pc = "uploading" /\ local.file = run[r].file
        /\ local.path = run[r].path /\ local.job = run[r].job
        /\ local.recent = run[r].recent /\ local.dated = run[r].dated
    BY <2>1 DEF Local, Labels
  <2> HIDE DEF artifact, dump, local
  <2>7. StoreStep(r) /\ store'[Source(r)][run[r].path] = artifact
    BY <2>1, <2>2, <2>3, <2>4, PutType DEF StoreStep, At
  <2>8. TodayStep
    BY <1>4, SameTodayStep DEF Upload
  <2>9. Copied(r)'
    <3>1. Keeps(run'[r], local) /\ Source(r)' = Source(r)
      BY <1>own, <2>5, <2>6 DEF Source
    <3>2. today'[Source(r)] = today[Source(r)]
      BY <1>4 DEF Upload
    <3>3. /\ run[r].file.whole /\ run[r].file.tables \in run[r].recent
          /\ run[r].dated => run[r].file.tables \in today[Source(r)]
      BY <1>inv, <2>1 DEF Copied, At
    <3>4. store'[Source(r)][run[r].path].dump.tables = run[r].file.tables
      BY <2>2, <2>3, <2>7
    <3> QED
      BY <2>1, <2>6, <3>1, <3>2, <3>3, <3>4 DEF Copied, Keeps, At, Succeeded, Source
  <2> QED
    BY <1>type, <2>1, <2>5, <2>6, <2>7, <2>8, <2>9, OwnStepCopy DEF Backup, At
<1>5. ASSUME NEW r \in Runs, Uploaded(r) PROVE CopyInv'
  <2> DEFINE artifact == [dump |-> run[r].file, today |-> run[r].dated]
             local == [run[r] EXCEPT
                         !.pc = IF run[r].job.kind = "backup" THEN "returned" ELSE "stage",
                         !.dated = TRUE]
  <2>1. /\ run[r].path \in Paths /\ run[r].file \in Dumps /\ run[r] \in Local
        /\ At(r, "uploading") /\ run[r].job.kind # "import"
    BY <1>5, <1>type, <1>inv DEF Uploaded, At, Ready, Backup, Making
  <2>2. artifact \in Artifacts /\ artifact.dump = run[r].file /\ artifact.today = run[r].dated
    BY <2>1 DEF Local, Artifacts
  <2>3. Put(r, artifact)
    BY <1>5 DEF Uploaded
  <2>4. Continue(r, local)
    BY <1>5 DEF Uploaded
  <2>5. /\ local \in Local /\ local.pc \in {"returned", "stage"} /\ local.file = run[r].file
        /\ local.path = run[r].path /\ local.job = run[r].job
        /\ local.recent = run[r].recent
    BY <2>1 DEF Local, Labels
  <2> HIDE DEF artifact, local
  <2>6. StoreStep(r) /\ store'[Source(r)][run[r].path] = artifact
    BY <2>1, <2>2, <2>3, PutType DEF StoreStep, At
  <2>7. TodayStep
    BY <1>5, SameTodayStep DEF Uploaded
  <2>8. Copied(r)'
    <3>1. Keeps(run'[r], local) /\ Source(r)' = Source(r)
      BY <1>own, <2>4, <2>5 DEF Source
    <3>2. run[r].file.whole /\ run[r].file.tables \in run[r].recent
      BY <1>inv, <2>1 DEF Copied, At
    <3>3. store'[Source(r)][run[r].path].dump.tables = run[r].file.tables
      BY <2>2, <2>6
    <3> QED
      BY <2>1, <2>5, <3>1, <3>2, <3>3 DEF Copied, Keeps, At, Succeeded, Source
  <2> QED
    BY <1>type, <2>1, <2>4, <2>5, <2>6, <2>7, <2>8, OwnStepCopy DEF Backup
<1>6. ASSUME NEW r \in Runs, Stage(r) PROVE CopyInv'
  <2> DEFINE file == store[Source(r)][run[r].path].dump
             local == [run[r] EXCEPT !.pc = "confirm", !.path = None, !.file = file]
  <2>1. /\ run[r] \in Local /\ At(r, "stage") /\ run[r].job.kind # "import"
        /\ StoreStep(r) /\ TodayStep
    BY <1>6, <1>type, <1>inv, SameStoreStep, SameTodayStep DEF Stage, At, Making
  <2>2. file \in Dumps
    <3>1. /\ Source(r) \in Sites /\ run[r].path \in Paths
          /\ store[Source(r)][run[r].path] # None
      BY <2>1, <1>type, Constants DEF At, Ready, Backup, Local, Source
    <3> QED
      BY <3>1 DEF TypeOK, Artifacts
  <2>3. /\ local \in Local /\ local.pc = "confirm" /\ local.file = file
        /\ local.job = run[r].job /\ local.recent = run[r].recent
    BY <2>1, <2>2 DEF Local, Labels
  <2>4. Continue(r, local)
    BY <1>6 DEF Stage
  <2> HIDE DEF local
  <2>5. Copied(r)'
    BY <1>own, <1>inv, <2>1, <2>3, <2>4 DEF Copied, Keeps, At, Succeeded, Source
  <2> QED
    BY <1>type, <2>1, <2>3, <2>4, <2>5, OwnStepCopy DEF Backup
<1>7. ASSUME NEW r \in Runs, Confirm(r) PROVE CopyInv'
  <2> DEFINE local == [run[r] EXCEPT !.pc = "import", !.todo = Present(run[r].file.tables)]
  <2>1. run[r] \in Local /\ At(r, "confirm") /\ StoreStep(r) /\ TodayStep
    BY <1>7, <1>type, SameStoreStep, SameTodayStep DEF Confirm
  <2>2. CASE Continue(r, local)
    <3>1. /\ local \in Local /\ local.pc = "import" /\ local.file = run[r].file
          /\ local.job = run[r].job /\ local.recent = run[r].recent
      BY <2>1 DEF Local, Labels, Present
    <3> HIDE DEF local
    <3>2. Copied(r)'
      BY <1>own, <1>inv, <2>1, <2>2, <3>1 DEF Copied, Keeps, At, Succeeded, Source
    <3> QED
      BY <1>type, <2>1, <2>2, <3>1, <3>2, OwnStepCopy DEF Backup
  <2>3. CASE Continue(r, Failing(r))
    BY <1>type, <2>1, <2>3, EndStepCopy
  <2> QED
    BY <1>7, <2>2, <2>3 DEF Confirm
<1>8. ASSUME NEW r \in Runs, Import(r) PROVE CopyInv'
  <2>1. run[r] \in Local /\ At(r, "import") /\ StoreStep(r) /\ TodayStep
    BY <1>8, <1>type, SameStoreStep, RecordHistoryStep DEF Import
  <2>2. ASSUME NEW local \in Local, Continue(r, local), local.file = run[r].file,
               local.job = run[r].job, local.recent = run[r].recent,
               local.pc = "import" \/ (local.pc = "cr" /\ run[r].file.whole)
        PROVE  CopyInv'
    <3>1. Copied(r)'
      BY <1>own, <1>inv, <2>1, <2>2 DEF Copied, Keeps, At, Succeeded, Source
    <3> QED
      BY <1>type, <2>1, <2>2, <3>1, OwnStepCopy DEF Backup
  <2>3. ASSUME NEW t \in run[r].todo, Continue(r, [run[r] EXCEPT !.todo = @ \ {t}])
        PROVE  CopyInv'
    <3> DEFINE local == [run[r] EXCEPT !.todo = @ \ {t}]
    <3>1. /\ local \in Local /\ local.pc = "import" /\ local.file = run[r].file
          /\ local.job = run[r].job /\ local.recent = run[r].recent
      BY <2>1 DEF Local, At
    <3> QED
      BY <2>2, <2>3, <3>1
  <2>4. ASSUME run[r].file.whole, Continue(r, [run[r] EXCEPT !.pc = "cr"]) PROVE CopyInv'
    <3> DEFINE local == [run[r] EXCEPT !.pc = "cr"]
    <3>1. /\ local \in Local /\ local.pc = "cr" /\ local.file = run[r].file
          /\ local.job = run[r].job /\ local.recent = run[r].recent
      BY <2>1 DEF Local, Labels
    <3> QED
      BY <2>2, <2>4, <3>1
  <2>5. ASSUME Continue(r, Failing(r)) PROVE CopyInv'
    BY <1>type, <2>1, <2>5, EndStepCopy
  <2> QED
    BY <1>8, <2>3, <2>4, <2>5 DEF Import
<1>9. ASSUME NEW r \in Runs, Cr(r) PROVE CopyInv'
  <2> DEFINE local == [run[r] EXCEPT !.pc = "returned"]
  <2>1. run[r] \in Local /\ At(r, "cr") /\ StoreStep(r) /\ TodayStep
    BY <1>9, <1>type, SameStoreStep, SameTodayStep DEF Cr
  <2>2. /\ local \in Local /\ local.pc = "returned" /\ local.file = run[r].file
        /\ local.job = run[r].job /\ local.recent = run[r].recent
    BY <2>1 DEF Local, Labels
  <2>3. Continue(r, local)
    BY <1>9 DEF Cr
  <2> HIDE DEF local
  <2>4. Copied(r)'
    BY <1>own, <1>inv, <2>1, <2>2, <2>3 DEF Copied, Keeps, At, Succeeded, Source
  <2> QED
    BY <1>type, <2>1, <2>2, <2>3, <2>4, OwnStepCopy DEF Backup
<1>10. ASSUME NEW r \in Runs, Return(r) PROVE CopyInv'
  BY <1>10, <1>type, SameStoreStep, SameTodayStep, EndStepCopy DEF Return
<1>11. ASSUME NEW r \in Runs, Fail(r) \/ Crash(r) PROVE CopyInv'
  BY <1>11, <1>type, CutShortCopy, EndStepCopy DEF Fail, Crash
<1>12. ASSUME Edit PROVE CopyInv'
  <2>1. TodayStep
    BY <1>12, RecordHistoryStep DEF Edit
  <2>2. ASSUME NEW q \in Runs PROVE Keeps(run'[q], run[q])
    <3>1. run'[q] = Noticed([run[q] EXCEPT !.disturbed = @ \/ Overtaken(q)])
      BY <1>12 DEF Edit
    <3> QED
      BY <1>type, <3>1, OvertakenKeeps
  <2>3. ASSUME NEW q \in Runs PROVE Copied(q)' /\ Making(q)'
    <3>1. /\ Source(q)' = Source(q) /\ MayReuse(q)' = MayReuse(q)
          /\ run[q].job.kind # "import" => Source(q) \in Sources
      BY <1>type, <2>2, Constants DEF Keeps, Source, MayReuse, Local
    <3>2. run[q].job.kind # "import"
             => today'[Source(q)] = today[Source(q)] \cup {db'[Source(q)]}
      BY <2>1, <3>1 DEF TodayStep
    <3>3. store' = store
      BY <1>12 DEF Edit
    <3>4. /\ run'[q].pc = run[q].pc /\ run'[q].job = run[q].job
          /\ run'[q].path = run[q].path /\ run'[q].file = run[q].file
          /\ run'[q].dated = run[q].dated /\ run'[q].failed = run[q].failed
          /\ run[q].recent \subseteq run'[q].recent
          /\ run[q].pc # "idle" /\ run[q].job.kind # "import"
                => db'[Source(q)] \in run'[q].recent
      BY <2>2 DEF Keeps, Source
    <3>5. Making(q)'
      BY <1>inv, <3>4 DEF Making
    <3>6. CASE run[q].job.kind = "import"
      BY <3>4, <3>5, <3>6 DEF Copied
    <3>7. CASE run[q].job.kind # "import"
      BY <1>inv, <3>1, <3>2, <3>3, <3>4, <3>5, <3>7 DEF Copied, At, Succeeded
    <3> QED
      BY <3>6, <3>7
  <2>4. ASSUME NEW p \in Runs, NEW q \in Runs, p # q PROVE Alone(p, q)'
    BY <2>2, <2>4 DEF CopyInv, Alone, Keeps, Source
  <2>5. ASSUME NEW s \in Sources PROVE db'[s] \in today'[s] /\ \A p \in Paths : Dated(s, p)'
    BY <1>12, <2>1 DEF Edit, CopyInv, Dated, TodayStep
  <2> QED
    BY <2>3, <2>4, <2>5 DEF CopyInv
<1>13. ASSUME Midnight PROVE CopyInv'
  <2>1. ASSUME NEW q \in Runs
        PROVE  /\ run'[q].pc = run[q].pc /\ run'[q].job = run[q].job
               /\ run'[q].path = run[q].path /\ run'[q].file = run[q].file
               /\ run'[q].recent = run[q].recent /\ run'[q].failed = run[q].failed
               /\ Source(q)' = Source(q) /\ MayReuse(q)' = MayReuse(q)
               /\ run[q].pc \in Backup => ~run'[q].dated
               /\ Source(q) \in Sites
               /\ run[q].job.kind # "import" => Source(q) \in Sources
    <3>1. run'[q] = IF run[q].pc \in {"dump", "upload", "uploading"}
                    THEN [run[q] EXCEPT !.dated = FALSE] ELSE run[q]
      BY <1>13 DEF Midnight
    <3>2. run[q] \in Local
      BY <1>type
    <3> QED
      BY <3>1, <3>2, Constants DEF Local, Source, MayReuse, Backup
  <2>2. ASSUME NEW s \in Sites, NEW p \in Paths
        PROVE  /\ store[s][p] = None => store'[s][p] = None
               /\ store[s][p] # None => /\ store'[s][p].dump = store[s][p].dump
                                        /\ ~store'[s][p].today
    <3>1. store'[s][p] = IF store[s][p] = None THEN None
                         ELSE [store[s][p] EXCEPT !.today = FALSE]
      BY <1>13 DEF Midnight
    <3>2. store[s][p] \in Artifacts \cup {None}
      BY DEF TypeOK
    <3> QED
      BY <3>1, <3>2 DEF Artifacts
  <2>3. \A s \in Sources : today'[s] = {db[s]} /\ db'[s] = db[s]
    BY <1>13 DEF Midnight
  <2>4. ASSUME NEW q \in Runs PROVE Copied(q)' /\ Making(q)'
    <3>1. Copied(q) /\ Making(q) /\ Ready(q)
      BY <1>type, <1>inv
    <3>2. CASE run[q].job.kind = "import"
      BY <2>1, <3>1, <3>2 DEF Copied, Making
    <3>3. CASE run[q].job.kind # "import"
      <4>1. Making(q)'
        BY <2>1, <3>3 DEF Making
      <4>2. today'[Source(q)] = {db[Source(q)]} /\ db'[Source(q)] = db[Source(q)]
        BY <2>1, <2>3, <3>3
      <4>3. ASSUME run[q].pc \in Backup \cup {"stage"}
            PROVE  /\ store[Source(q)][run[q].path] = None
                        => store'[Source(q)][run[q].path] = None
                   /\ store[Source(q)][run[q].path] # None
                        => store'[Source(q)][run[q].path].dump
                             = store[Source(q)][run[q].path].dump
        BY <2>1, <2>2, <3>1, <4>3 DEF Ready
      <4> QED
        BY <2>1, <3>1, <3>3, <4>1, <4>2, <4>3
        DEF Copied, Ready, At, Succeeded, Backup
    <3> QED
      BY <3>2, <3>3
  <2>5. ASSUME NEW p \in Runs, NEW q \in Runs, p # q PROVE Alone(p, q)'
    BY <2>1, <2>5 DEF CopyInv, Alone
  <2>6. ASSUME NEW s \in Sources PROVE db'[s] \in today'[s] /\ \A p \in Paths : Dated(s, p)'
    BY <2>2, <2>3, Constants DEF Dated
  <2> QED
    BY <2>4, <2>5, <2>6 DEF CopyInv
<1>14. ASSUME NEW s \in Sites, NEW p \in Paths, Expire(s, p) PROVE CopyInv'
  <2>1. \A t \in Sites, q \in Paths :
           store'[t][q] = IF t = s /\ q = p THEN None ELSE store[t][q]
    BY <1>14 DEF Expire, TypeOK
  <2>2. ASSUME NEW q \in Runs PROVE Copied(q)' /\ Making(q)'
    <3>1. /\ Copied(q) /\ Making(q) /\ Ready(q) /\ run'[q] = run[q]
          /\ Source(q) \in Sites /\ Source(q)' = Source(q) /\ MayReuse(q)' = MayReuse(q)
      BY <1>14, <1>type, <1>inv, Constants DEF Expire, Local, Source, MayReuse
    <3>2. run[q].pc \in Backup \cup {"stage"}
             => store'[Source(q)][run[q].path] = store[Source(q)][run[q].path]
      BY <1>14, <2>1, <3>1 DEF Expire, Ready
    <3> QED
      BY <1>14, <3>1, <3>2 DEF Expire, Copied, Making, At, Succeeded, Backup
  <2>3. ASSUME NEW u \in Runs, NEW q \in Runs, u # q PROVE Alone(u, q)'
    BY <1>14, <2>3 DEF Expire, CopyInv, Alone, Source
  <2>4. ASSUME NEW t \in Sources
        PROVE  db'[t] \in today'[t] /\ \A q \in Paths : Dated(t, q)'
    BY <1>14, <2>1, Constants DEF Expire, CopyInv, Dated
  <2> QED
    BY <2>2, <2>3, <2>4 DEF CopyInv
<1>15. CASE UNCHANGED vars
  BY <1>15 DEF vars, CopyInv, Copied, Making, Alone, Dated, At, Succeeded, Source, MayReuse
<1> QED
  BY <1>1, <1>2, <1>3, <1>4, <1>5, <1>6, <1>7, <1>8, <1>9, <1>10, <1>11, <1>12,
     <1>13, <1>14, <1>15 DEF Next, Step

LEMMA CopyInvInit == Init => CopyInv
<1> SUFFICES ASSUME Init PROVE CopyInv
  OBVIOUS
<1>1. \A r \in Runs : run[r].pc = "idle"
  BY IdleType DEF Init
<1>2. \A s \in Sources : db[s] \in today[s] /\ \A p \in Paths : store[s][p] = None
  BY Constants DEF Init
<1> QED
  BY <1>1, <1>2 DEF CopyInv, Copied, Making, Alone, Dated, At, Succeeded, Backup

\* A backup or a sync that reports success has dealt with a database that the
\* source really had in the time it was asked for, whatever half-written, outdated
\* or foreign artifacts lie in the backup directory.
THEOREM CopiesAreRecent == Spec => []CopyIsRecent
<1>1. TypeOK /\ CopyInv => CopyIsRecent
  BY DEF CopyInv, Copied, CopyIsRecent, Succeeded, At
<1> QED
  BY <1>1, TypeOKInit, TypeOKStep, CopyInvInit, CopyInvStep, PTL DEF Spec

-----------------------------------------------------------------------------
(* What is imported is complete.                                           *)

Holds(r, tables) == \A t \in tables : db[Target(r)][t] = run[r].file.tables[t]

\* What an undisturbed import has achieved at each point.
Imported(r) ==
    run[r].job.kind # "backup" /\ ~run[r].disturbed =>
    /\ At(r, "import") => Holds(r, Present(run[r].file.tables) \ run[r].todo)
    /\ At(r, "cr") \/ Succeeded(r)
          => run[r].file.whole /\ Holds(r, Present(run[r].file.tables))
    /\ Succeeded(r) => cached[Target(r)]

ImportInv == \A r \in Runs : Imported(r)

\* Caches are outdated only by a change of their database.
CacheStep == \A s \in Sites : db'[s] = db[s] /\ cached[s] => cached'[s]

LEMMA BystanderImported ==
    ASSUME TypeOK, NEW q \in Runs, Imported(q), Keeps(run'[q], run[q]),
           run'[q].disturbed = (run[q].disturbed \/ Overtaken(q)), CacheStep
    PROVE  Imported(q)'
<1>1. run[q] \in Local /\ Target(q) \in Sites /\ Target(q)' = Target(q)
  BY Constants DEF TypeOK, Local, Target, Keeps
<1>2. CASE run[q].disturbed \/ Overtaken(q)
  BY <1>2 DEF Imported
<1>3. CASE ~run[q].disturbed /\ ~Overtaken(q)
  <2>1. run[q].pc \in {"import", "cr", "returned"} => db'[Target(q)] = db[Target(q)]
    BY <1>3 DEF Overtaken
  <2>2. /\ run'[q].pc = run[q].pc /\ run'[q].job = run[q].job
        /\ run'[q].file = run[q].file /\ run'[q].todo = run[q].todo
        /\ run'[q].failed = run[q].failed
    BY DEF Keeps
  <2>3. CASE run[q].pc \in {"import", "cr", "returned"}
    BY <1>1, <1>3, <2>1, <2>2, <2>3
    DEF Imported, Holds, Present, At, Succeeded, CacheStep
  <2>4. CASE run[q].pc \notin {"import", "cr", "returned"}
    BY <2>2, <2>4 DEF Imported, At, Succeeded
  <2> QED
    BY <2>3, <2>4
<1> QED
  BY <1>2, <1>3

\* A step of r keeps the invariant when it keeps it for r.
LEMMA OwnStepImport ==
    ASSUME TypeOK, db' \in [Sites -> Databases], ImportInv, NEW r \in Runs,
           NEW local \in Local, Continue(r, local), CacheStep, Imported(r)'
    PROVE  ImportInv'
<1>1. run \in [Runs -> Local]
  BY DEF TypeOK, Local
<1>2. ASSUME NEW q \in Runs \ {r} PROVE Imported(q)'
  BY <1>1, <1>2, ContinueKeeps, BystanderImported DEF ImportInv
<1> QED
  BY <1>2 DEF ImportInv

\* Most steps come to a place where an import claims nothing.
LEMMA QuietStepImport ==
    ASSUME TypeOK, db' \in [Sites -> Databases], ImportInv, NEW r \in Runs,
           NEW local \in Local, Continue(r, local), CacheStep,
           \/ local.pc \notin {"import", "cr", "returned"}
           \/ local.pc = "returned" /\ (local.failed \/ local.job.kind = "backup")
    PROVE  ImportInv'
<1>1. run \in [Runs -> Local]
  BY DEF TypeOK, Local
<1>2. Keeps(run'[r], local)
  BY <1>1, ContinueKeeps
<1>3. Imported(r)'
  BY <1>2 DEF Imported, Keeps, At, Succeeded
<1> QED
  BY <1>3, OwnStepImport

LEMMA KeepCachesStep == TypeOK /\ KeepCaches => CacheStep
  BY DEF TypeOK, KeepCaches, CacheStep

LEMMA ImportInvStep == TypeOK /\ TypeOK' /\ ImportInv /\ [Next]_vars => ImportInv'
<1> SUFFICES ASSUME TypeOK, TypeOK', ImportInv, [Next]_vars PROVE ImportInv'
  OBVIOUS
<1>type. run \in [Runs -> Local] /\ db' \in [Sites -> Databases]
  BY DEF TypeOK, Local
<1>quiet. ASSUME NEW r \in Runs, NEW local, Continue(r, local), UNCHANGED <<db, cached>>,
                 local \in Local,
                 \/ local.pc \notin {"import", "cr", "returned"}
                 \/ local.pc = "returned" /\ (local.failed \/ local.job.kind = "backup")
          PROVE  ImportInv'
  BY <1>type, <1>quiet, QuietStepImport DEF CacheStep
<1>own. ASSUME NEW r \in Runs, NEW local \in Local, Continue(r, local)
        PROVE  /\ Keeps(run'[r], local) /\ run'[r].disturbed = local.disturbed
               /\ Target(r)' = local.job.target
  BY <1>type, <1>own, ContinueKeeps DEF Keeps, Target
<1>idle. Idle \in Local /\ Idle.pc = "idle"
  BY IdleType
<1>failing. \A r \in Runs : /\ Failing(r) \in Local /\ Failing(r).pc = "returned"
                            /\ Failing(r).failed
  BY <1>type, FailingType DEF Failing, Local
<1>1. ASSUME NEW r \in Runs, Ask(r) PROVE ImportInv'
  <2>1. PICK job \in Jobs :
           IF job.kind = "import"
           THEN \E tables \in States, whole \in BOOLEAN :
                   Continue(r, Start(job, "confirm", [tables |-> tables, whole |-> whole], {}))
           ELSE Continue(r, Start(job, "resolve", None,
                   IF job.kind = "sync" /\ ~job.fresh THEN today[job.source] ELSE {}))
    BY <1>1 DEF Ask
  <2>2. CASE job.kind = "import"
    <3>1. PICK tables \in States, whole \in BOOLEAN :
             Continue(r, Start(job, "confirm", [tables |-> tables, whole |-> whole], {}))
      BY <2>1, <2>2
    <3>2. [tables |-> tables, whole |-> whole] \in Dumps
      BY Constants DEF Dumps
    <3> DEFINE local == Start(job, "confirm", [tables |-> tables, whole |-> whole], {})
    <3>3. local \in Local /\ local.pc = "confirm"
      BY <3>2, StartType DEF Labels, Start
    <3> HIDE DEF local
    <3> QED
      BY <1>1, <1>quiet, <3>1, <3>3 DEF Ask, local
  <2>3. CASE job.kind # "import"
    <3> DEFINE recent == IF job.kind = "sync" /\ ~job.fresh THEN today[job.source] ELSE {}
               local == Start(job, "resolve", None, recent)
    <3>1. recent \in SUBSET Databases
      BY <2>3, Constants DEF TypeOK
    <3>2. Continue(r, local)
      BY <2>1, <2>3
    <3>3. local \in Local /\ local.pc = "resolve"
      <4> HIDE DEF recent
      <4> QED
        BY <3>1, StartType DEF Labels, Start
    <3> HIDE DEF local
    <3> QED
      BY <1>1, <1>quiet, <3>2, <3>3 DEF Ask
  <2> QED
    BY <2>2, <2>3
<1>2. ASSUME NEW r \in Runs, Resolve(r) PROVE ImportInv'
  <2>1. PICK p \in Paths : \/ Continue(r, [run[r] EXCEPT !.pc = "stage", !.path = p])
                           \/ Continue(r, [run[r] EXCEPT !.pc = "dump", !.path = p])
    BY <1>2 DEF Resolve
  <2>2. ASSUME NEW label \in {"stage", "dump"},
               Continue(r, [run[r] EXCEPT !.pc = label, !.path = p])
        PROVE  ImportInv'
    <3> DEFINE local == [run[r] EXCEPT !.pc = label, !.path = p]
    <3>1. local \in Local /\ local.pc = label
      BY <1>type DEF Local, Labels
    <3> HIDE DEF local
    <3> QED
      BY <1>2, <1>quiet, <2>2, <3>1 DEF Resolve, local
  <2> QED
    BY <2>1, <2>2
<1>3. ASSUME NEW r \in Runs, Dump(r) PROVE ImportInv'
  <2> DEFINE file == [tables |-> db[Source(r)], whole |-> TRUE]
             local == [run[r] EXCEPT !.pc = "upload", !.file = file]
  <2>1. file \in Dumps
    BY <1>type, Constants DEF Local, Source, Dumps, TypeOK
  <2>2. local \in Local /\ local.pc = "upload"
    BY <1>type, <2>1 DEF Local, Labels
  <2>3. Continue(r, local)
    BY <1>3 DEF Dump
  <2> HIDE DEF local
  <2> QED
    BY <1>3, <1>quiet, <2>2, <2>3 DEF Dump
<1>4. ASSUME NEW r \in Runs, Upload(r) PROVE ImportInv'
  <2> DEFINE local == [run[r] EXCEPT !.pc = "uploading"]
  <2>1. local \in Local /\ local.pc = "uploading"
    BY <1>type DEF Local, Labels
  <2>2. Continue(r, local)
    BY <1>4 DEF Upload
  <2> HIDE DEF local
  <2> QED
    BY <1>4, <1>quiet, <2>1, <2>2 DEF Upload
<1>5. ASSUME NEW r \in Runs, Uploaded(r) PROVE ImportInv'
  <2> DEFINE local == [run[r] EXCEPT
                         !.pc = IF run[r].job.kind = "backup" THEN "returned" ELSE "stage",
                         !.dated = TRUE]
  <2>1. /\ local \in Local
        /\ local.pc = "stage" \/ (local.pc = "returned" /\ local.job.kind = "backup")
    BY <1>type DEF Local, Labels
  <2>2. Continue(r, local)
    BY <1>5 DEF Uploaded
  <2> HIDE DEF local
  <2> QED
    BY <1>5, <1>quiet, <2>1, <2>2 DEF Uploaded
<1>6. ASSUME NEW r \in Runs, Stage(r) PROVE ImportInv'
  <2> DEFINE file == store[Source(r)][run[r].path].dump
             local == [run[r] EXCEPT !.pc = "confirm", !.path = None, !.file = file]
  <2>1. file \in Dumps
    <3>1. /\ Source(r) \in Sites /\ run[r].path \in Paths
          /\ store[Source(r)][run[r].path] # None
      BY <1>6, <1>type, Constants DEF Stage, At, TypeOK, Local, Source
    <3> QED
      BY <3>1 DEF TypeOK, Artifacts
  <2>2. local \in Local /\ local.pc = "confirm"
    BY <1>type, <2>1 DEF Local, Labels
  <2>3. Continue(r, local)
    BY <1>6 DEF Stage
  <2> HIDE DEF local
  <2> QED
    BY <1>6, <1>quiet, <2>2, <2>3 DEF Stage
<1>7. ASSUME NEW r \in Runs, Confirm(r) PROVE ImportInv'
  <2> DEFINE local == [run[r] EXCEPT !.pc = "import", !.todo = Present(run[r].file.tables)]
  <2>1. CASE Continue(r, local)
    <3>1. /\ local \in Local /\ local.pc = "import" /\ local.file = run[r].file
          /\ local.todo = Present(run[r].file.tables)
      BY <1>type DEF Local, Labels, Present
    <3> HIDE DEF local
    <3>2. Imported(r)'
      BY <1>own, <2>1, <3>1 DEF Imported, Holds, Present, Keeps, At, Succeeded
    <3> QED
      BY <1>7, <1>type, <2>1, <3>1, <3>2, OwnStepImport DEF Confirm, CacheStep
  <2>2. CASE Continue(r, Failing(r))
    BY <1>7, <1>quiet, <1>failing, <2>2 DEF Confirm
  <2> QED
    BY <1>7, <2>1, <2>2 DEF Confirm
<1>8. ASSUME NEW r \in Runs, Import(r) PROVE ImportInv'
  <2>1. /\ run[r] \in Local /\ At(r, "import") /\ CacheStep /\ Imported(r)
        /\ run[r].file \in Dumps /\ Target(r) \in Sites
    BY <1>8, <1>type, KeepCachesStep, Constants
    DEF Import, ImportInv, At, TypeOK, Local, Target
  <2>2. ASSUME NEW t \in run[r].todo,
               db' = [db EXCEPT ![Target(r)][t] = run[r].file.tables[t]],
               Continue(r, [run[r] EXCEPT !.todo = @ \ {t}])
        PROVE  ImportInv'
    <3> DEFINE local == [run[r] EXCEPT !.todo = @ \ {t}]
    <3>1. /\ local \in Local /\ local.pc = "import" /\ local.file = run[r].file
          /\ local.todo = run[r].todo \ {t} /\ local.job = run[r].job
          /\ local.disturbed = run[r].disturbed
      BY <2>1 DEF Local, At
    <3>2. Continue(r, local)
      BY <2>2
    <3> HIDE DEF local
    <3>3. \A u \in Tables : db'[Target(r)][u] =
             IF u = t THEN run[r].file.tables[t] ELSE db[Target(r)][u]
      BY <2>1, <2>2 DEF TypeOK, Databases
    <3>4. Target(r)' = Target(r)
      BY <1>own, <3>1, <3>2 DEF Target
    <3>5. Imported(r)'
      BY <1>own, <2>1, <3>1, <3>2, <3>3, <3>4
      DEF Imported, Holds, Present, Keeps, At, Succeeded
    <3> QED
      BY <1>type, <2>1, <3>1, <3>2, <3>5, OwnStepImport
  <2>3. ASSUME run[r].file.whole, run[r].todo = {}, UNCHANGED db,
               Continue(r, [run[r] EXCEPT !.pc = "cr"])
        PROVE  ImportInv'
    <3> DEFINE local == [run[r] EXCEPT !.pc = "cr"]
    <3>1. /\ local \in Local /\ local.pc = "cr" /\ local.file = run[r].file
          /\ local.job = run[r].job /\ local.disturbed = run[r].disturbed
      BY <2>1 DEF Local, Labels
    <3>2. Continue(r, local)
      BY <2>3
    <3> HIDE DEF local
    <3>3. Target(r)' = Target(r)
      BY <1>own, <3>1, <3>2 DEF Target
    <3>4. Imported(r)'
      BY <1>own, <2>1, <2>3, <3>1, <3>2, <3>3
      DEF Imported, Holds, Present, Keeps, At, Succeeded
    <3> QED
      BY <1>type, <2>1, <3>1, <3>2, <3>4, OwnStepImport
  <2>4. ASSUME Continue(r, Failing(r)) PROVE ImportInv'
    BY <1>type, <1>failing, <2>1, <2>4, QuietStepImport
  <2> QED
    BY <1>8, <2>2, <2>3, <2>4 DEF Import
<1>9. ASSUME NEW r \in Runs, Cr(r) PROVE ImportInv'
  <2> DEFINE local == [run[r] EXCEPT !.pc = "returned"]
  <2>1. /\ run[r] \in Local /\ At(r, "cr") /\ Imported(r) /\ Target(r) \in Sites
        /\ db' = db
    BY <1>9, <1>type, Constants DEF Cr, ImportInv, Local, Target
  <2>2. cached' = [cached EXCEPT ![Target(r)] = TRUE] /\ cached \in [Sites -> BOOLEAN]
    BY <1>9 DEF Cr, TypeOK
  <2>3. CacheStep /\ cached'[Target(r)]
    BY <2>1, <2>2 DEF CacheStep
  <2>4. /\ local \in Local /\ local.pc = "returned" /\ local.file = run[r].file
        /\ local.job = run[r].job /\ local.disturbed = run[r].disturbed
    BY <2>1 DEF Local, Labels
  <2>5. Continue(r, local)
    BY <1>9 DEF Cr
  <2> HIDE DEF local
  <2>6. Target(r)' = Target(r)
    BY <1>own, <2>4, <2>5 DEF Target
  <2>7. Imported(r)'
    BY <1>own, <2>1, <2>3, <2>4, <2>5, <2>6
    DEF Imported, Holds, Present, Keeps, At, Succeeded
  <2> QED
    BY <1>type, <2>3, <2>4, <2>5, <2>7, OwnStepImport
<1>10. ASSUME NEW r \in Runs, Return(r) PROVE ImportInv'
  BY <1>10, <1>quiet, <1>idle DEF Return
<1>11. ASSUME NEW r \in Runs, Fail(r) \/ Crash(r) PROVE ImportInv'
  <2>1. CacheStep
    BY <1>11, KeepCachesStep DEF Fail, Crash, CutShort
  <2>2. CASE Continue(r, Failing(r))
    BY <1>type, <1>failing, <2>1, <2>2, QuietStepImport
  <2>3. CASE Continue(r, Idle)
    BY <1>type, <1>idle, <2>1, <2>3, QuietStepImport
  <2> QED
    BY <1>11, <2>2, <2>3 DEF Fail, Crash
<1>12. ASSUME Edit PROVE ImportInv'
  <2>1. CacheStep
    BY <1>12 DEF Edit, CacheStep, TypeOK
  <2>2. ASSUME NEW q \in Runs PROVE Imported(q)'
    <3>1. run'[q] = Noticed([run[q] EXCEPT !.disturbed = @ \/ Overtaken(q)])
      BY <1>12 DEF Edit
    <3> QED
      BY <1>type, <2>1, <3>1, OvertakenKeeps, BystanderImported DEF ImportInv
  <2> QED
    BY <2>2 DEF ImportInv
<1>13. ASSUME Midnight PROVE ImportInv'
  <2>1. ASSUME NEW q \in Runs PROVE Imported(q)'
    <3>1. run'[q] = IF run[q].pc \in {"dump", "upload", "uploading"}
                    THEN [run[q] EXCEPT !.dated = FALSE] ELSE run[q]
      BY <1>13 DEF Midnight
    <3>2. run[q] \in Local /\ Imported(q)
      BY <1>type DEF ImportInv
    <3>3. /\ run'[q].pc = run[q].pc /\ run'[q].job = run[q].job
          /\ run'[q].file = run[q].file /\ run'[q].todo = run[q].todo
          /\ run'[q].failed = run[q].failed /\ run'[q].disturbed = run[q].disturbed
      BY <3>1, <3>2 DEF Local
    <3> QED
      BY <1>13, <3>2, <3>3
      DEF Midnight, Imported, Holds, Present, At, Succeeded, Target
  <2> QED
    BY <2>1 DEF ImportInv
<1>14. ASSUME NEW s \in Sites, NEW p \in Paths, Expire(s, p) PROVE ImportInv'
  BY <1>14 DEF Expire, ImportInv, Imported, Holds, Present, At, Succeeded, Target
<1>15. CASE UNCHANGED vars
  BY <1>15 DEF vars, ImportInv, Imported, Holds, Present, At, Succeeded, Target
<1> QED
  BY <1>1, <1>2, <1>3, <1>4, <1>5, <1>6, <1>7, <1>8, <1>9, <1>10, <1>11, <1>12,
     <1>13, <1>14, <1>15 DEF Next, Step

\* An import or a sync that reports success, and under which nobody else changed
\* the target, has brought it every table of a whole dump, and its caches show it.
THEOREM ImportsAreComplete == Spec => []ImportIsComplete
<1>1. Init => ImportInv
  <2> SUFFICES ASSUME Init, NEW r \in Runs PROVE Imported(r)
    BY DEF ImportInv
  <2>1. run[r].pc = "idle"
    BY IdleType DEF Init
  <2> QED
    BY <2>1 DEF Imported, At, Succeeded
<1>2. TypeOK /\ ImportInv => ImportIsComplete
  BY DEF ImportInv, Imported, Holds, ImportIsComplete, Succeeded, At
<1> QED
  BY <1>1, <1>2, TypeOKInit, TypeOKStep, ImportInvStep, PTL DEF Spec
=============================================================================
