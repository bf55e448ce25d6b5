-------------------------- MODULE ConfigSyncProofs --------------------------
(***************************************************************************)
(* Proofs about ConfigSync: types, and that undisturbed exports and        *)
(* imports are faithful for any number of processes, sites, files and      *)
(* events.                                                                 *)
(***************************************************************************)
EXTENDS ConfigSync, TLAPS

Local == [pc : Labels, job : Jobs, archive : Archives, expected : Archives,
          todo : SUBSET Files, disturbed : BOOLEAN, failed : BOOLEAN]

\* The conjuncts of TypeOK about one process.
Phases(r) ==
    /\ At(r, "clear") \/ At(r, "upload") => run[r].archive # Torn
    /\ At(r, "upload") => run[r].archive \in Directories \/ run[r].todo = {}
    /\ At(r, "cim") => run[r].archive \in Directories /\ run[r].todo = {}

\* What an undisturbed process has achieved at each point of its run.
Progress(r) ==
    /\ run[r].pc \in {"unpack", "clear", "upload", "cim", "cr"}
          => run[r].archive = run[r].expected
    /\ At(r, "archive") => dir[Source(r)] = run[r].expected
    /\ At(r, "upload") /\ run[r].archive \in Directories
          => \A f \in Files :
                dir[Target(r)][f] = IF f \in run[r].todo THEN Absent
                                    ELSE run[r].archive[f]
    /\ At(r, "cim") => dir[Target(r)] = run[r].expected
    /\ At(r, "cr") => active[Target(r)] = run[r].expected
    /\ At(r, "returned") /\ ~run[r].failed
          => /\ run[r].archive = run[r].expected
             /\ run[r].job.kind # "export"
                   => /\ active[Target(r)] = run[r].expected
                      /\ cache[Target(r)] = run[r].expected

IInv == TypeOK /\ \A r \in Runs : run[r].disturbed \/ Progress(r)

-----------------------------------------------------------------------------
\* The contents of directories and archives are directories.
LEMMA Constants ==
    /\ Empty \in Directories
    /\ Configs \subseteq Directories
    /\ \A old, new : Mixed(old, new) \subseteq Directories
    /\ Torn \in Archives /\ Foreign \in Archives
    /\ Directories \subseteq Archives
    /\ \A job \in Jobs : job.source \in Sites /\ job.target \in Sites
  BY ConfigsAssumption, JobsAssumption
  DEF Empty, Directories, Contents, Mixed, Archives

\* The locals of a new and of an idle process have their type.
LEMMA StartType ==
    ASSUME NEW job \in Jobs, NEW label \in Labels, NEW archive \in Archives
    PROVE  Start(job, label, archive) \in Local
  BY DEF Start, Local

LEMMA IdleType == Idle \in Local
<1>1. (CHOOSE job \in Jobs : TRUE) \in Jobs
  BY JobsAssumption
<1> QED
  BY <1>1, StartType, Constants DEF Idle, Labels

\* A process that only notices what others do keeps its type.
LEMMA NoticedType ==
    ASSUME NEW local \in Local, NEW o \in BOOLEAN
    PROVE  [local EXCEPT !.disturbed = @ \/ o] \in Local
  BY DEF Local

LEMMA ContinueType ==
    ASSUME run \in [Runs -> Local], NEW r \in Runs, NEW local \in Local,
           Continue(r, local)
    PROVE  /\ run' \in [Runs -> Local]
           /\ run'[r] = local
           /\ \A q \in Runs \ {r} : run'[q] = Noticed(q)
<1>1. ASSUME NEW q \in Runs PROVE Noticed(q) \in Local
  <2>1. Overtaken(q) \in BOOLEAN
    BY DEF Overtaken
  <2> QED
    BY <2>1, NoticedType DEF Noticed
<1> QED
  BY <1>1 DEF Continue

\* What the steps of others, and of administrators, leave of a process's progress.
LEMMA Bystander ==
    ASSUME TypeOK, NEW q \in Runs, run[q].disturbed \/ Progress(q),
           run'[q] = Noticed(q),
           \A s \in Sites : cache'[s] = cache[s] \/ cache'[s] = active'[s]
    PROVE  run'[q].disturbed \/ Progress(q)'
<1>1. run[q] \in Local
  BY DEF TypeOK, Local
<1>2. CASE run[q].disturbed
  BY <1>1, <1>2 DEF Noticed, Local
<1>3. CASE Overtaken(q)
  BY <1>1, <1>3 DEF Noticed, Local
<1>4. CASE ~run[q].disturbed /\ ~Overtaken(q)
  <2>1. run'[q] = run[q]
    BY <1>1, <1>4 DEF Noticed, Local
  <2>2. Source(q) \in Sites /\ Target(q) \in Sites
    BY <1>1, Constants DEF Local, Source, Target
  <2>3. Source(q)' = Source(q) /\ Target(q)' = Target(q)
    BY <2>1 DEF Source, Target
  <2>4. Progress(q)
    BY <1>4
  <2> QED
    BY <1>4, <2>1, <2>2, <2>3, <2>4 DEF Progress, At, Overtaken
<1> QED
  BY <1>2, <1>3, <1>4

LEMMA BystanderPhases ==
    ASSUME TypeOK, NEW q \in Runs, run'[q] = Noticed(q)
    PROVE  Phases(q)'
<1>1. run[q] \in Local /\ Phases(q)
  BY DEF TypeOK, Local, Phases
<1>2. /\ run'[q].pc = run[q].pc /\ run'[q].archive = run[q].archive
      /\ run'[q].todo = run[q].todo
  BY <1>1 DEF Noticed, Local
<1> QED
  BY <1>1, <1>2 DEF Phases, At

-----------------------------------------------------------------------------
\* A step of r keeps the invariant when it keeps it for r.
LEMMA OwnStep ==
    ASSUME IInv, NEW r \in Runs, NEW local \in Local, Continue(r, local),
           active' \in [Sites -> Directories], dir' \in [Sites -> Directories],
           cache' \in [Sites -> Directories], budget' \in [Events -> Nat],
           \A s \in Sites : cache'[s] = cache[s] \/ cache'[s] = active'[s],
           Phases(r)', run'[r].disturbed \/ Progress(r)'
    PROVE  IInv'
<1>1. TypeOK /\ run \in [Runs -> Local]
  BY DEF IInv, TypeOK, Local
<1>2. /\ run' \in [Runs -> Local]
      /\ \A q \in Runs \ {r} : run'[q] = Noticed(q)
  BY <1>1, ContinueType
<1>3. ASSUME NEW q \in Runs PROVE Phases(q)' /\ (run'[q].disturbed \/ Progress(q)')
  BY <1>1, <1>2, Bystander, BystanderPhases DEF IInv
<1> QED
  BY <1>2, <1>3 DEF IInv, TypeOK, Local, Phases

\* An event that is spent leaves a budget.
LEMMA SpendType ==
    ASSUME budget \in [Events -> Nat], NEW event \in Events, Spend(event)
    PROVE  budget' \in [Events -> Nat]
  BY DEF Spend

-----------------------------------------------------------------------------
LEMMA Initially == Init => IInv
<1> SUFFICES ASSUME Init PROVE IInv
  OBVIOUS
<1>1. Idle \in Local /\ Idle.pc = "idle"
  BY IdleType DEF Idle, Start
<1>2. active \in [Sites -> Directories] /\ dir \in [Sites -> Directories]
  BY Constants DEF Init
<1>3. \A r \in Runs : run[r].pc = "idle"
  BY <1>1 DEF Init
<1> QED
  BY <1>1, <1>2, <1>3, BudgetAssumption DEF Init, IInv, TypeOK, Local, Progress, At

\* One step for every action, with the locals it leaves.
LEMMA StepPreserves ==
    ASSUME IInv, NEW r \in Runs, Step(r)
    PROVE  IInv'
<1> DEFINE me == run[r]
<1>1. /\ me \in Local /\ TypeOK /\ Phases(r) /\ (me.disturbed \/ Progress(r))
      /\ active \in [Sites -> Directories] /\ dir \in [Sites -> Directories]
      /\ cache \in [Sites -> Directories] /\ budget \in [Events -> Nat]
      /\ run \in [Runs -> Local]
  BY DEF IInv, TypeOK, Local, Phases
<1>2. Source(r) \in Sites /\ Target(r) \in Sites
  BY <1>1, Constants DEF Local, Source, Target
<1>3. ASSUME NEW local \in Local, Continue(r, local)
      PROVE  run'[r] = local
  BY <1>1, <1>3, ContinueType
<1>cex. CASE Cex(r)
  <2> DEFINE next == [me EXCEPT !.pc = "archive", !.expected = active[Source(r)]]
  <2>1. next \in Local
    BY <1>1, <1>2, Constants DEF Local, Labels
  <2>2. Continue(r, next) /\ run'[r] = next
    BY <1>cex, <1>3, <2>1 DEF Cex
  <2>3. dir' \in [Sites -> Directories] /\ dir'[Source(r)] = active[Source(r)]
    BY <1>cex, <1>1, <1>2 DEF Cex
  <2>4. UNCHANGED <<active, cache, budget>>
    BY <1>cex DEF Cex
  <2>5. Phases(r)' /\ Progress(r)'
    BY <1>1, <2>2, <2>3 DEF Phases, Progress, At, Source, Local
  <2> QED
    BY <1>1, <2>1, <2>2, <2>3, <2>4, <2>5, OwnStep
<1>archive. CASE Archive(r)
  <2> DEFINE next == [me EXCEPT
                !.pc = IF me.job.kind = "export" THEN "returned" ELSE "unpack",
                !.archive = dir[Source(r)]]
  <2>1. next \in Local
    BY <1>1, <1>2, Constants DEF Local, Labels
  <2>2. Continue(r, next) /\ run'[r] = next
    BY <1>archive, <1>3, <2>1 DEF Archive
  <2>3. UNCHANGED <<active, dir, cache, budget>> /\ At(r, "archive")
    BY <1>archive DEF Archive
  <2>4. Phases(r)'
    BY <1>1, <2>2 DEF Phases, At, Local
  <2>5. run'[r].disturbed \/ Progress(r)'
    BY <1>1, <2>2, <2>3 DEF Progress, At, Source, Local
  <2> QED
    BY <1>1, <2>1, <2>2, <2>3, <2>4, <2>5, OwnStep
<1>unpack. CASE Unpack(r)
  <2> DEFINE next == IF me.archive = Torn THEN Failing(r) ELSE [me EXCEPT !.pc = "clear"]
  <2>1. next \in Local
    BY <1>1 DEF Local, Labels, Failing
  <2>2. Continue(r, next) /\ run'[r] = next
    BY <1>unpack, <1>3, <2>1 DEF Unpack
  <2>3. UNCHANGED <<active, dir, cache, budget>> /\ At(r, "unpack")
    BY <1>unpack DEF Unpack
  <2>4. Phases(r)'
    BY <1>1, <2>2 DEF Phases, At, Local, Failing
  <2>5. run'[r].disturbed \/ Progress(r)'
    BY <1>1, <2>2, <2>3 DEF Progress, At, Local, Failing
  <2> QED
    BY <1>1, <2>1, <2>2, <2>3, <2>4, <2>5, OwnStep
<1>clear. CASE Clear(r)
  <2> DEFINE next == [me EXCEPT !.pc = "upload", !.todo = Uploads(r)]
  <2>1. next \in Local /\ Uploads(r) \in SUBSET Files
    BY <1>1 DEF Local, Labels, Uploads, Present
  <2>2. Continue(r, next) /\ run'[r] = next
    BY <1>clear, <1>3, <2>1 DEF Clear
  <2>3. /\ dir' \in [Sites -> Directories] /\ dir'[Target(r)] = Empty
        /\ UNCHANGED <<active, cache, budget>> /\ At(r, "clear")
    BY <1>clear, <1>1, <1>2, Constants DEF Clear
  <2>4. Phases(r)'
    BY <1>1, <2>2, <2>3 DEF Phases, At, Local, Uploads, Archives
  <2>5. me.archive \in Directories => Uploads(r) = Present(me.archive)
    BY ArchivesAssumption DEF Uploads
  <2>6. run'[r].disturbed \/ Progress(r)'
    BY <1>1, <2>2, <2>3, <2>5 DEF Progress, At, Target, Local, Empty, Present
  <2> QED
    BY <1>1, <2>1, <2>2, <2>3, <2>4, <2>6, OwnStep
<1>upload. CASE Upload(r)
  <2>0. UNCHANGED <<active, cache, budget>> /\ At(r, "upload")
    BY <1>upload DEF Upload
  <2>1. CASE UNCHANGED dir /\ Continue(r, Failing(r))
    <3>1. Failing(r) \in Local
      BY <1>1 DEF Local, Labels, Failing
    <3>2. run'[r] = Failing(r)
      BY <1>3, <2>1, <3>1
    <3>3. Phases(r)' /\ Progress(r)'
      BY <1>1, <3>2 DEF Phases, Progress, At, Local, Failing
    <3> QED
      BY <1>1, <2>0, <2>1, <3>1, <3>3, OwnStep
  <2>2. CASE /\ me.archive # Foreign /\ me.todo = {} /\ UNCHANGED dir
             /\ Continue(r, [me EXCEPT !.pc = "cim"])
    <3> DEFINE next == [me EXCEPT !.pc = "cim"]
    <3>1. next \in Local
      BY <1>1 DEF Local, Labels
    <3>2. run'[r] = next
      BY <1>3, <2>2, <3>1
    <3>3. me.archive \in Directories
      BY <1>1, <2>0, <2>2 DEF Phases, Local, Archives
    <3>4. Phases(r)'
      BY <1>1, <2>2, <3>2, <3>3 DEF Phases, At, Local
    <3>5. run'[r].disturbed \/ dir[Target(r)] = me.archive
      BY <1>1, <1>2, <2>0, <2>2, <3>2, <3>3 DEF Progress, Directories, Local
    <3>6. run'[r].disturbed \/ Progress(r)'
      BY <1>1, <2>0, <2>2, <3>2, <3>5 DEF Progress, At, Target, Local
    <3> QED
      BY <1>1, <2>0, <2>2, <3>1, <3>4, <3>6, OwnStep
  <2>3. ASSUME NEW f \in me.todo,
               dir' = [dir EXCEPT ![Target(r)][f] = me.archive[f]],
               Continue(r, [me EXCEPT !.todo = @ \ {f}])
        PROVE  IInv'
    <3> DEFINE next == [me EXCEPT !.todo = @ \ {f}]
    <3>1. next \in Local /\ f \in Files
      BY <1>1 DEF Local
    <3>2. run'[r] = next
      BY <1>3, <2>3, <3>1
    <3>3. me.archive \in Directories
      BY <1>1, <2>0, <2>3 DEF Phases
    <3>4. dir' \in [Sites -> Directories]
      BY <1>1, <1>2, <2>3, <3>1, <3>3 DEF Directories
    <3>5. \A g \in Files : dir'[Target(r)][g] = IF g = f THEN me.archive[f]
                                                ELSE dir[Target(r)][g]
      BY <1>1, <1>2, <2>3, <3>1 DEF Directories
    <3>6. Phases(r)'
      BY <1>1, <2>0, <3>2, <3>3 DEF Phases, At, Local
    <3>7. run'[r].disturbed \/ Progress(r)'
      BY <1>1, <2>0, <3>2, <3>3, <3>5 DEF Progress, At, Target, Local
    <3> QED
      BY <1>1, <2>0, <2>3, <3>1, <3>4, <3>6, <3>7, OwnStep
  <2> QED
    BY <1>upload, <2>1, <2>2, <2>3 DEF Upload
<1>cim. CASE Cim(r)
  <2> DEFINE next == [me EXCEPT !.pc = "cr"]
  <2>1. next \in Local
    BY <1>1 DEF Local, Labels
  <2>2. Continue(r, next) /\ run'[r] = next
    BY <1>cim, <1>3, <2>1 DEF Cim
  <2>3. /\ active' \in [Sites -> Directories] /\ active'[Target(r)] = dir[Target(r)]
        /\ UNCHANGED <<dir, cache, budget>> /\ At(r, "cim")
    BY <1>cim, <1>1, <1>2 DEF Cim
  <2>4. Phases(r)'
    BY <1>1, <2>2 DEF Phases, At, Local
  <2>5. run'[r].disturbed \/ Progress(r)'
    BY <1>1, <2>2, <2>3 DEF Progress, At, Target, Local
  <2> QED
    BY <1>1, <2>1, <2>2, <2>3, <2>4, <2>5, OwnStep
<1>cr. CASE Cr(r)
  <2> DEFINE next == [me EXCEPT !.pc = "returned"]
  <2>1. next \in Local
    BY <1>1 DEF Local, Labels
  <2>2. Continue(r, next) /\ run'[r] = next
    BY <1>cr, <1>3, <2>1 DEF Cr
  <2>3. /\ cache' \in [Sites -> Directories] /\ cache'[Target(r)] = active[Target(r)]
        /\ \A s \in Sites : cache'[s] = cache[s] \/ cache'[s] = active[s]
        /\ UNCHANGED <<active, dir, budget>> /\ At(r, "cr")
    BY <1>cr, <1>1, <1>2 DEF Cr
  <2>4. Phases(r)'
    BY <1>1, <2>2 DEF Phases, At, Local
  <2>5. run'[r].disturbed \/ Progress(r)'
    BY <1>1, <2>2, <2>3 DEF Progress, At, Target, Local
  <2> QED
    BY <1>1, <2>1, <2>2, <2>3, <2>4, <2>5, OwnStep
<1>return. CASE Return(r)
  <2>1. Continue(r, Idle) /\ run'[r] = Idle
    BY <1>return, <1>3, IdleType DEF Return
  <2>2. Phases(r)' /\ Progress(r)'
    BY <2>1 DEF Phases, Progress, At, Idle, Start
  <2> QED
    BY <1>return, <1>1, <2>1, <2>2, IdleType, OwnStep DEF Return
<1> QED
  BY <1>cex, <1>archive, <1>unpack, <1>clear, <1>upload, <1>cim, <1>cr, <1>return DEF Step

LEMMA AskPreserves ==
    ASSUME IInv, NEW r \in Runs, Ask(r)
    PROVE  IInv'
<1>1. /\ run \in [Runs -> Local] /\ UNCHANGED <<active, dir, cache, budget>>
      /\ active \in [Sites -> Directories] /\ dir \in [Sites -> Directories]
      /\ cache \in [Sites -> Directories] /\ budget \in [Events -> Nat]
  BY DEF IInv, TypeOK, Local, Ask
<1>2. PICK job \in Jobs, label \in {"unpack", "cex"}, archive \in Archives :
         Continue(r, Start(job, label, archive))
  BY Constants DEF Ask
<1>3. Start(job, label, archive) \in Local
  BY StartType DEF Labels
<1>4. run'[r] = Start(job, label, archive)
  BY <1>1, <1>2, <1>3, ContinueType
<1>5. Phases(r)' /\ Progress(r)'
  BY <1>4 DEF Phases, Progress, At, Start
<1> QED
  BY <1>1, <1>2, <1>3, <1>5, OwnStep

\* What is cut short leaves directories, and the caches alone.
LEMMA CutShortType ==
    ASSUME IInv, NEW r \in Runs, CutShort(r)
    PROVE  /\ active' \in [Sites -> Directories] /\ dir' \in [Sites -> Directories]
           /\ cache' = cache
<1>1. /\ run[r] \in Local /\ Phases(r)
      /\ active \in [Sites -> Directories] /\ dir \in [Sites -> Directories]
  BY DEF IInv, TypeOK, Local, Phases
<1>2. cache' = cache
  BY DEF CutShort
<1>3. CASE /\ UNCHANGED active
           /\ \E s \in Sites, m \in Directories : dir' = [dir EXCEPT ![s] = m]
  BY <1>1, <1>2, <1>3
<1>4. CASE /\ UNCHANGED dir
           /\ \E s \in Sites, m \in Directories : active' = [active EXCEPT ![s] = m]
  BY <1>1, <1>2, <1>4
<1>5. CASE /\ UNCHANGED active /\ At(r, "upload")
           /\ \E f \in run[r].todo : \E c \in {Cut, run[r].archive[f]} :
                 dir' = [dir EXCEPT ![Target(r)][f] = c]
  <2>0. PICK f \in run[r].todo :
           \E c \in {Cut, run[r].archive[f]} : dir' = [dir EXCEPT ![Target(r)][f] = c]
    BY <1>5
  <2>1. PICK c \in {Cut, run[r].archive[f]} : dir' = [dir EXCEPT ![Target(r)][f] = c]
    BY <2>0
  <2>2. run[r].archive \in Directories /\ f \in Files
    BY <1>1, <1>5, <2>0 DEF Phases, Local
  <2>3. c \in Contents
    BY <2>1, <2>2 DEF Directories, Contents
  <2> QED
    BY <1>1, <1>2, <1>5, <2>1, <2>2, <2>3 DEF Directories
<1>6. CASE UNCHANGED <<active, dir>>
  BY <1>1, <1>2, <1>6
<1>7. Source(r) \in Sites /\ Target(r) \in Sites
  BY <1>1, Constants DEF Local, Source, Target
<1> QED
  BY <1>3, <1>4, <1>5, <1>6, <1>7, Constants DEF CutShort

LEMMA BreakPreserves ==
    ASSUME IInv, NEW r \in Runs, Fail(r) \/ Crash(r)
    PROVE  IInv'
<1>1. run[r] \in Local /\ run \in [Runs -> Local] /\ budget \in [Events -> Nat]
      /\ cache \in [Sites -> Directories]
  BY DEF IInv, TypeOK, Local
<1>2. budget' \in [Events -> Nat]
  BY <1>1, SpendType DEF Fail, Crash, Events
<1>3. /\ active' \in [Sites -> Directories] /\ dir' \in [Sites -> Directories]
      /\ cache' = cache
  BY CutShortType DEF Fail, Crash
<1>4. Failing(r) \in Local /\ Failing(r).pc = "returned" /\ Failing(r).failed
  BY <1>1 DEF Local, Labels, Failing
<1>5. Idle \in Local /\ Idle.pc = "idle"
  BY IdleType DEF Idle, Start
<1>6. PICK local \in {Failing(r), Idle} : Continue(r, local)
  BY DEF Fail, Crash
<1>7. run'[r] = local
  BY <1>1, <1>4, <1>5, <1>6, ContinueType
<1>8. Phases(r)' /\ Progress(r)'
  BY <1>4, <1>5, <1>6, <1>7 DEF Phases, Progress, At
<1> QED
  BY <1>1, <1>2, <1>3, <1>4, <1>5, <1>6, <1>8, OwnStep

LEMMA EditPreserves ==
    ASSUME IInv, Edit
    PROVE  IInv'
<1>1. /\ TypeOK /\ run \in [Runs -> Local] /\ budget \in [Events -> Nat]
      /\ active \in [Sites -> Directories] /\ dir \in [Sites -> Directories]
      /\ cache \in [Sites -> Directories]
  BY DEF IInv, TypeOK, Local
<1>2. budget' \in [Events -> Nat]
  BY <1>1, SpendType DEF Edit, Events
<1>3. /\ active' \in [Sites -> Directories] /\ dir' \in [Sites -> Directories]
      /\ cache' \in [Sites -> Directories]
      /\ \A s \in Sites : cache'[s] = cache[s] \/ cache'[s] = active'[s]
  BY <1>1, Constants DEF Edit
<1>4. ASSUME NEW q \in Runs PROVE Noticed(q) \in Local /\ run'[q] = Noticed(q)
  <2>1. Overtaken(q) \in BOOLEAN
    BY DEF Overtaken
  <2> QED
    BY <1>1, <2>1, NoticedType DEF Noticed, Edit
<1>5. run' \in [Runs -> Local]
  BY <1>4 DEF Edit
<1>6. ASSUME NEW q \in Runs PROVE Phases(q)' /\ (run'[q].disturbed \/ Progress(q)')
  BY <1>1, <1>3, <1>4, Bystander, BystanderPhases DEF IInv
<1> QED
  BY <1>2, <1>3, <1>5, <1>6 DEF IInv, TypeOK, Local, Phases

LEMMA Inductive == IInv /\ [Next]_vars => IInv'
<1> SUFFICES ASSUME IInv, [Next]_vars PROVE IInv'
  OBVIOUS
<1>1. CASE UNCHANGED vars
  BY <1>1 DEF vars, IInv, TypeOK, Progress, At, Source, Target
<1>2. CASE Next
  BY <1>2, AskPreserves, StepPreserves, BreakPreserves, EditPreserves DEF Next
<1> QED
  BY <1>1, <1>2

LEMMA Invariance == Spec => []IInv
<1> QED
  BY Initially, Inductive, PTL DEF Spec

-----------------------------------------------------------------------------
\* The types, and the order of unpacking, uploading and importing: drush cim waits
\* for the last file of an archive that was unpacked.
THEOREM TypeCorrect == Spec => []TypeOK
<1>1. IInv => TypeOK
  BY DEF IInv
<1> QED
  BY <1>1, Invariance, PTL

\* Every export that nobody disturbed holds the source's active configuration,
\* whatever ran, failed or died there before or elsewhere meanwhile.
THEOREM ExportsAreFaithful == Spec => []ExportIsFaithful
<1>1. IInv => ExportIsFaithful
  BY DEF IInv, ExportIsFaithful, Progress, At
<1> QED
  BY <1>1, Invariance, PTL

\* Every import or sync that reports success and that nobody disturbed has made
\* the target's configuration and caches those of the archive.
THEOREM ImportsAreFaithful == Spec => []ImportIsFaithful
<1>1. IInv => ImportIsFaithful
  BY DEF IInv, ImportIsFaithful, Progress, At
<1> QED
  BY <1>1, Invariance, PTL

-----------------------------------------------------------------------------
\* What is no step of a process itself leaves it as it notices.
LEMMA OwnSteps ==
    ASSUME NEW r \in Runs, Moves(r), Next
    PROVE  Ask(r) \/ Step(r) \/ Fail(r) \/ Crash(r)
<1>1. ~Edit
  BY DEF Edit, Moves
<1>2. ASSUME NEW q \in Runs, q # r, NEW local, Continue(q, local)
      PROVE  FALSE
  BY <1>2 DEF Continue, Moves
<1>3. PICK q \in Runs : Ask(q) \/ Step(q) \/ Fail(q) \/ Crash(q)
  BY <1>1 DEF Next
<1>4. \E local : Continue(q, local)
  <2>1. CASE Ask(q)
    BY <2>1 DEF Ask
  <2>2. CASE Upload(q)
    BY <2>2 DEF Upload
  <2>3. CASE Cex(q) \/ Archive(q) \/ Unpack(q) \/ Clear(q) \/ Cim(q) \/ Cr(q) \/ Return(q)
    BY <2>3 DEF Cex, Archive, Unpack, Clear, Cim, Cr, Return
  <2>4. CASE Fail(q) \/ Crash(q)
    BY <2>4 DEF Fail, Crash
  <2> QED
    BY <1>3, <2>1, <2>2, <2>3, <2>4 DEF Step
<1> QED
  BY <1>2, <1>3, <1>4

\* An import takes its archive as given, and past drush cim only a configuration.
ImportOrder(r) ==
    /\ run[r].job.kind = "import" => ~At(r, "cex") /\ ~At(r, "archive")
    /\ At(r, "cr") => run[r].archive \in Directories

LEMMA ImportOrderStep ==
    ASSUME TypeOK, NEW r \in Runs, ImportOrder(r), [Next]_vars
    PROVE  ImportOrder(r)'
<1>type. run \in [Runs -> Local]
  BY DEF TypeOK, Local
<1> USE DEF ImportOrder, At
<1>1. CASE UNCHANGED vars
  BY <1>1 DEF vars
<1>2. CASE ~Moves(r)
  BY <1>2, <1>type DEF Moves, Noticed, Local
<1>3. ASSUME NEW local \in Local, Continue(r, local),
             local.job.kind = "import" => local.pc \notin {"cex", "archive"},
             local.pc = "cr" => local.archive \in Directories
      PROVE  ImportOrder(r)'
  BY <1>3 DEF Continue
<1>idle. Idle \in Local /\ Idle.pc = "idle"
  BY IdleType DEF Idle, Start
<1>4. CASE Ask(r)
  <2>1. PICK job \in Jobs :
          IF job.kind = "import"
          THEN \E archive \in Configs \cup {Torn, Foreign} :
                  Continue(r, Start(job, "unpack", archive))
          ELSE Continue(r, Start(job, "cex", Torn))
    BY <1>4 DEF Ask
  <2>2. CASE job.kind = "import"
    <3>1. PICK archive \in Archives : Continue(r, Start(job, "unpack", archive))
      BY <2>1, <2>2, Constants
    <3>2. Start(job, "unpack", archive) \in Local
      BY StartType DEF Labels
    <3> QED
      BY <3>1, <3>2, <1>3 DEF Start
  <2>3. CASE job.kind # "import"
    <3>1. Start(job, "cex", Torn) \in Local
      BY StartType, Constants DEF Labels
    <3> QED
      BY <2>1, <2>3, <3>1, <1>3 DEF Start
  <2> QED
    BY <2>2, <2>3
<1>5. CASE Fail(r)
  <2>1. Failing(r) \in Local /\ Failing(r).pc = "returned"
    BY <1>type DEF Failing, Local, Labels
  <2> QED
    BY <1>5, <2>1, <1>3 DEF Fail
<1>6. CASE Crash(r) \/ Return(r)
  BY <1>6, <1>idle, <1>3 DEF Crash, Return
<1>7. CASE Step(r) /\ ~Return(r)
  <2>1. run'[r].pc # "cex" /\ run'[r].job = run[r].job
    <3>1. run[r] \in Local
      BY <1>type
    <3>2. CASE Cex(r) \/ Archive(r)
      BY <3>1, <3>2 DEF Cex, Archive, Continue, Local
    <3>3. CASE Unpack(r) \/ Clear(r)
      BY <3>1, <3>3 DEF Unpack, Clear, Continue, Failing, Local
    <3>4. CASE Upload(r)
      BY <3>1, <3>4 DEF Upload, Continue, Failing, Local, At
    <3>5. CASE Cim(r) \/ Cr(r)
      BY <3>1, <3>5 DEF Cim, Cr, Continue, Local
    <3> QED
      BY <1>7, <3>2, <3>3, <3>4, <3>5 DEF Step
  <2>2. run'[r].pc = "archive" => At(r, "cex")
    BY <1>7, <1>type
    DEF Step, Cex, Archive, Unpack, Clear, Upload, Cim, Cr, Continue, Failing, Local
  <2>3. run'[r].pc = "cr" => At(r, "cim") /\ run'[r].archive = run[r].archive
    BY <1>7, <1>type
    DEF Step, Cex, Archive, Unpack, Clear, Upload, Cim, Cr, Continue, Failing, Local
  <2>4. At(r, "cim") => run[r].archive \in Directories
    BY DEF TypeOK
  <2> QED
    BY <2>1, <2>2, <2>3, <2>4
<1> QED
  BY <1>1, <1>2, <1>4, <1>5, <1>6, <1>7, OwnSteps

LEMMA ImportOrderHolds == Spec => [](\A r \in Runs : ImportOrder(r))
<1> DEFINE Ordered == \A r \in Runs : ImportOrder(r)
<1>1. Init => Ordered
  <2>1. Idle.pc = "idle"
    BY DEF Idle, Start
  <2>2. ASSUME Init, NEW r \in Runs PROVE ImportOrder(r)
    <3>1. run[r] = Idle
      BY <2>2 DEF Init
    <3> QED
      BY <2>1, <3>1 DEF ImportOrder, At
  <2> QED
    BY <2>2, Zenon
<1>2. TypeOK /\ Ordered /\ [Next]_vars => Ordered'
  BY ImportOrderStep
<1> HIDE DEF Ordered
<1>3. Spec => []Ordered
  BY <1>1, <1>2, TypeCorrect, PTL DEF Spec
<1> QED
  BY <1>3 DEF Ordered

\* No step of an import, by which it goes on, fails or dies, changes a site's
\* configuration or caches when its archive holds no configuration, nor a
\* directory when it does not unpack: what empties and fills config/sync comes
\* behind the unpacking, and drush cim behind the walk.
THEOREM BadArchivesAreNotImported == Spec => BadArchiveIsNotImported
<1> DEFINE Ordered == \A r \in Runs : ImportOrder(r)
           Harmless ==
             \A r \in Runs :
                Moves(r) /\ run[r].job.kind = "import" /\ run[r].archive \in {Torn, Foreign}
                   => /\ UNCHANGED <<active, cache>>
                      /\ run[r].archive = Torn => UNCHANGED dir
<1>1. ASSUME TypeOK, Ordered, Next PROVE Harmless
  <2> SUFFICES ASSUME NEW r \in Runs, Moves(r), run[r].job.kind = "import",
                      run[r].archive \in {Torn, Foreign}
               PROVE  /\ UNCHANGED <<active, cache>>
                      /\ run[r].archive = Torn => UNCHANGED dir
    OBVIOUS
  <2>1. Ask(r) \/ Step(r) \/ Fail(r) \/ Crash(r)
    BY <1>1, OwnSteps
  <2>2. run[r].pc \notin {"cex", "archive", "cim", "cr"}
    BY <1>1, ArchivesAssumption DEF TypeOK, ImportOrder, At
  <2>3. run[r].pc \in {"clear", "upload"} => run[r].archive # Torn
    BY <1>1 DEF TypeOK, At
  <2>4. CASE Ask(r)
    BY <2>4 DEF Ask
  <2>5. CASE Step(r)
    BY <2>2, <2>3, <2>5 DEF Step, Cex, Archive, Unpack, Clear, Upload, Cim, Cr, Return, At
  <2>6. CASE Fail(r) \/ Crash(r)
    BY <2>2, <2>3, <2>6 DEF Fail, Crash, CutShort, At
  <2> QED
    BY <2>1, <2>4, <2>5, <2>6
<1>2. TypeOK /\ Ordered /\ [Next]_vars => [Harmless]_vars
  BY <1>1
<1>3. Spec => []Ordered
  BY ImportOrderHolds
<1> HIDE DEF Harmless, Ordered
<1>4. Spec => [][Harmless]_vars
  BY <1>2, <1>3, TypeCorrect, PTL DEF Spec
<1> QED
  BY <1>4 DEF BadArchiveIsNotImported, Harmless

=============================================================================
