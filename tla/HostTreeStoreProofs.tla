------------------------ MODULE HostTreeStoreProofs ------------------------
(***************************************************************************)
(* Proofs about HostTreeStore, for every set of publishers and trees and   *)
(* every number of failures and crashes.                                   *)
(***************************************************************************)
EXTENDS HostTreeStore, TLAPS

USE TreesAssumption, BudgetAssumption

LEMMA SpendType ==
    ASSUME NEW event \in Events, budget \in [Events -> Nat], Spend(event)
    PROVE  budget' \in [Events -> Nat]
BY DEF Spend

\* The locals of a publisher.
Locals == [pc : Labels, tree : Trees \cup {None}, before : Trees \cup {None},
           alone : BOOLEAN, exists : BOOLEAN, stage : Dirs, backup : Dirs,
           failed : BOOLEAN]

\* What TypeOK says of one publisher.
Sound(local) ==
    /\ local \in Locals
    /\ IF local.pc = "idle" THEN local.backup = None ELSE local.tree \in Trees
    /\ local.pc \in {"retain", "install"} => local.stage \in Trees
    /\ local.pc = "restore" => local.exists
    /\ local.pc \in {"install", "restore"} => (local.exists => local.backup \in Trees)

LEMMA TypeOKIsSound ==
    TypeOK <=> /\ root \in Trees \cup {None}
               /\ pub \in [Publishers -> Locals]
               /\ \A p \in Publishers : Sound(pub[p])
               /\ orphans \subseteq Trees \cup {Torn}
               /\ budget \in [Events -> Nat]
BY DEF TypeOK, Sound, Locals, At

\* A publisher goes on, with or without an error.
LEMMA LocalStep ==
    ASSUME TypeOK, NEW p \in Publishers, NEW local, Sound(local),
           Continue(p, local) \/ Fault(p, local),
           root' \in Trees \cup {None}, UNCHANGED orphans
    PROVE  TypeOK'
<1>1. pub' = [pub EXCEPT ![p] = local]
  BY DEF Continue, Fault
<1>2. budget' \in [Events -> Nat]
  BY SpendType, TypeOKIsSound DEF Continue, Fault, Events
<1>3. pub' \in [Publishers -> Locals] /\ \A q \in Publishers : Sound(pub'[q])
  BY <1>1, TypeOKIsSound DEF Sound
<1> QED
  BY <1>2, <1>3, TypeOKIsSound DEF TypeOK, Sound, Locals, At

LEMMA FailingIsSound ==
    ASSUME TypeOK, NEW p \in Publishers, ~At(p, "idle"),
           NEW label \in {"clearStage", "returned"}
    PROVE  Sound(Failing(p, label))
BY TypeOKIsSound DEF At, Sound, Locals, Labels, Failing

LEMMA IdleIsSound == Sound(Idle)
BY DEF Sound, Locals, Labels, Idle, Dirs

LEMMA TypeOKStep == TypeOK /\ [Next]_vars => TypeOK'
<1> SUFFICES ASSUME TypeOK, [Next]_vars PROVE TypeOK'
  OBVIOUS
<1>type. /\ root \in Trees \cup {None} /\ orphans \subseteq Trees \cup {Torn}
         /\ pub \in [Publishers -> Locals]
         /\ budget \in [Events -> Nat]
  BY TypeOKIsSound
<1>sound. \A p \in Publishers : Sound(pub[p])
  BY TypeOKIsSound
<1>1. ASSUME NEW p \in Publishers, Call(p) PROVE TypeOK'
  <2>1. PICK t \in Trees \ {root} :
           pub' = [q \in Publishers |->
                     IF q = p THEN Called(p, t) ELSE [pub[q] EXCEPT !.alone = FALSE]]
    BY <1>1 DEF Call
  <2>2. Sound(Called(p, t))
    BY <1>type DEF Called, Idle, Sound, Locals, Labels, Dirs
  <2>3. \A q \in Publishers : Sound([pub[q] EXCEPT !.alone = FALSE])
    BY <1>type, <1>sound DEF Sound, Locals
  <2>4. pub' \in [Publishers -> Locals] /\ \A q \in Publishers : Sound(pub'[q])
    BY <2>1, <2>2, <2>3 DEF Sound
  <2> QED
    BY <1>1, <2>4, <1>type DEF Call, TypeOK, Sound, Locals, At
<1>2. ASSUME NEW p \in Publishers, Inspect(p) PROVE TypeOK'
  <2> DEFINE local == [pub[p] EXCEPT !.pc = "makeStage", !.exists = (root # None)]
  <2>1. Sound(local)
    BY <1>2, <1>type, <1>sound, ZenonT(60) DEF Inspect, At, Sound, Locals, Labels, Dirs
  <2>2. Sound(Failing(p, "returned"))
    BY <1>2, FailingIsSound DEF Inspect, At
  <2>3. Continue(p, local) \/ Fault(p, Failing(p, "returned"))
    BY <1>2 DEF Inspect
  <2> QED
    BY <1>2, <1>type, <2>1, <2>2, <2>3, LocalStep DEF Inspect
<1>3. ASSUME NEW p \in Publishers, MakeStage(p) PROVE TypeOK'
  <2> DEFINE local == [pub[p] EXCEPT !.pc = "write", !.stage = Torn]
  <2>1. Sound(local)
    BY <1>3, <1>type, <1>sound, ZenonT(60) DEF MakeStage, At, Sound, Locals, Labels, Dirs
  <2>2. Sound(Failing(p, "returned"))
    BY <1>3, FailingIsSound DEF MakeStage, At
  <2>3. Continue(p, local) \/ Fault(p, Failing(p, "returned"))
    BY <1>3 DEF MakeStage
  <2> QED
    BY <1>3, <1>type, <2>1, <2>2, <2>3, LocalStep DEF MakeStage
<1>4. ASSUME NEW p \in Publishers, WriteTree(p) PROVE TypeOK'
  <2> DEFINE local == [pub[p] EXCEPT !.pc = IF pub[p].exists THEN "retain" ELSE "install",
                                    !.stage = pub[p].tree]
  <2>1. Sound(local)
    BY <1>4, <1>type, <1>sound, ZenonT(60) DEF WriteTree, At, Sound, Locals, Labels, Dirs
  <2>2. Sound(Failing(p, "clearStage"))
    BY <1>4, FailingIsSound DEF WriteTree, At
  <2>3. Continue(p, local) \/ Fault(p, Failing(p, "clearStage"))
    BY <1>4 DEF WriteTree
  <2> QED
    BY <1>4, <1>type, <2>1, <2>2, <2>3, LocalStep DEF WriteTree
<1>5. ASSUME NEW p \in Publishers, Sync(p) PROVE TypeOK'
  <2> DEFINE local == [pub[p] EXCEPT !.pc = IF pub[p].exists THEN "dropBackup"
                                              ELSE "clearStage"]
  <2>1. Sound(local)
    BY <1>5, <1>type, <1>sound DEF Sync, At, Sound, Locals, Labels, Dirs
  <2>2. Sound(Failing(p, "clearStage"))
    BY <1>5, FailingIsSound DEF Sync, At
  <2>3. Continue(p, local) \/ Fault(p, Failing(p, "clearStage"))
    BY <1>5 DEF Sync
  <2> QED
    BY <1>5, <1>type, <2>1, <2>2, <2>3, LocalStep DEF Sync
<1>6. ASSUME NEW p \in Publishers, ClearStage(p) PROVE TypeOK'
  <2> DEFINE local == [pub[p] EXCEPT !.pc = "returned", !.stage = None]
  <2>1. Sound(local)
    BY <1>6, <1>type, <1>sound, ZenonT(60) DEF ClearStage, At, Sound, Locals, Labels, Dirs
  <2>2. Sound(Failing(p, "returned"))
    BY <1>6, FailingIsSound DEF ClearStage, At
  <2>3. Continue(p, local) \/ Fault(p, Failing(p, "returned"))
    BY <1>6 DEF ClearStage
  <2> QED
    BY <1>6, <1>type, <2>1, <2>2, <2>3, LocalStep DEF ClearStage
<1>7. ASSUME NEW p \in Publishers, Retain(p) PROVE TypeOK'
  <2> DEFINE local == [pub[p] EXCEPT !.pc = "install", !.backup = root]
  <2>1. CASE root # None /\ Continue(p, local) /\ root' = None
    <3>1. Sound(local) /\ None \in Trees \cup {None}
      BY <1>7, <1>type, <1>sound, <2>1, ZenonT(60) DEF Retain, At, Sound, Locals, Labels, Dirs
    <3> QED
      BY <1>7, <2>1, <3>1, LocalStep DEF Retain
  <2>2. CASE /\ Continue(p, Failing(p, "clearStage")) \/ Fault(p, Failing(p, "clearStage"))
             /\ UNCHANGED root
    <3>1. Sound(Failing(p, "clearStage"))
      BY <1>7, FailingIsSound DEF Retain, At
    <3> QED
      BY <1>7, <1>type, <2>2, <3>1, LocalStep DEF Retain
  <2> QED
    BY <1>7, <2>1, <2>2 DEF Retain
<1>8. ASSUME NEW p \in Publishers, Install(p) PROVE TypeOK'
  <2> DEFINE local == [pub[p] EXCEPT !.pc = "sync", !.stage = None]
  <2>1. CASE Continue(p, local) /\ root' = pub[p].stage
    <3>1. Sound(local) /\ pub[p].stage \in Trees \cup {None}
      BY <1>8, <1>type, <1>sound, <2>1, ZenonT(60) DEF Install, At, Sound, Locals, Labels, Dirs
    <3> QED
      BY <1>8, <2>1, <3>1, LocalStep DEF Install
  <2>2. CASE /\ Continue(p, Failing(p, AfterRejection(p))) \/ Fault(p, Failing(p, AfterRejection(p)))
             /\ UNCHANGED root
    <3>1. Sound(Failing(p, AfterRejection(p)))
      <4>1. CASE pub[p].exists
        BY <4>1, <1>8, <1>type, <1>sound, ZenonT(60)
           DEF Install, AfterRejection, At, Sound, Locals, Labels, Failing
      <4>2. CASE ~pub[p].exists
        BY <4>2, <1>8, FailingIsSound DEF Install, AfterRejection, At
      <4> QED
        BY <4>1, <4>2
    <3> QED
      BY <1>8, <1>type, <2>2, <3>1, LocalStep DEF Install
  <2> QED
    BY <1>8, <2>1, <2>2 DEF Install
<1>9. ASSUME NEW p \in Publishers, Restore(p) PROVE TypeOK'
  <2> DEFINE local == [pub[p] EXCEPT !.pc = "clearStage", !.backup = None]
  <2>1. CASE Continue(p, local) /\ root' = pub[p].backup
    <3>1. Sound(local) /\ pub[p].backup \in Trees \cup {None}
      BY <1>9, <1>type, <1>sound, <2>1, ZenonT(60) DEF Restore, At, Sound, Locals, Labels, Dirs
    <3> QED
      BY <1>9, <2>1, <3>1, LocalStep DEF Restore
  <2>2. CASE /\ Continue(p, Failing(p, "clearStage")) \/ Fault(p, Failing(p, "clearStage"))
             /\ UNCHANGED root
    <3>1. Sound(Failing(p, "clearStage"))
      BY <1>9, FailingIsSound DEF Restore, At
    <3> QED
      BY <1>9, <1>type, <2>2, <3>1, LocalStep DEF Restore
  <2> QED
    BY <1>9, <2>1, <2>2 DEF Restore
<1>10. ASSUME NEW p \in Publishers, DropBackup(p) PROVE TypeOK'
  <2>1. Sound([pub[p] EXCEPT !.pc = "clearStage", !.backup = None])
    BY <1>10, <1>type, <1>sound, ZenonT(60) DEF DropBackup, At, Sound, Locals, Labels, Dirs
  <2>2. \A left \in {pub[p].backup, Torn, None} :
           Sound([Failing(p, "clearStage") EXCEPT !.backup = left])
    BY <1>10, <1>type, <1>sound, ZenonT(60)
       DEF DropBackup, At, Sound, Locals, Labels, Dirs, Failing
  <2> QED
    BY <1>10, <1>type, <2>1, <2>2, LocalStep DEF DropBackup
<1>11. ASSUME NEW p \in Publishers, Return(p) \/ Crash(p) PROVE TypeOK'
  <2>1. End(p) /\ budget' \in [Events -> Nat]
    BY <1>11, <1>type, SpendType DEF Return, Crash, Events
  <2>2. pub' \in [Publishers -> Locals] /\ \A q \in Publishers : Sound(pub'[q])
    BY <2>1, <1>type, <1>sound, IdleIsSound DEF End, Sound
  <2>3. orphans' \subseteq Trees \cup {Torn}
    BY <2>1, <1>type DEF End, Locals, Dirs
  <2> QED
    BY <2>1, <2>2, <2>3, <1>type DEF End, TypeOK, Sound, Locals, At
<1>12. CASE UNCHANGED vars
  BY <1>12 DEF vars, TypeOK, At
<1> QED
  BY <1>1, <1>2, <1>3, <1>4, <1>5, <1>6, <1>7, <1>8, <1>9, <1>10, <1>11, <1>12 DEF Next, Step

\* Every variable keeps its type; what may be installed or restored is whole.
THEOREM TypeCorrect == Spec => []TypeOK
<1>1. Init => TypeOK
  BY DEF Init, TypeOK, Idle, Labels, Dirs, At
<1> QED
  BY <1>1, TypeOKStep, PTL DEF Spec

-----------------------------------------------------------------------------
(* The last whole copy.                                                    *)

LEMMA KeptStep == TypeOK /\ [Next]_vars => (Kept => Kept')
<1> SUFFICES ASSUME TypeOK, [Next]_vars, Kept PROVE Kept'
  OBVIOUS
<1>type. /\ root \in Trees \cup {None} /\ pub \in [Publishers -> Locals]
         /\ \A p \in Publishers : Sound(pub[p])
  BY TypeOKIsSound
<1> USE DEF Kept, At
\* A step that leaves the root, the orphans and its own backup alone, and is
\* not about to remove that backup.
<1>quiet. ASSUME NEW p \in Publishers, NEW local, pub' = [pub EXCEPT ![p] = local],
                 local.backup = pub[p].backup,
                 local.pc \notin {"sync", "dropBackup"} \/ pub[p].pc \in {"sync", "dropBackup"},
                 UNCHANGED <<root, orphans>>
          PROVE  Kept'
  BY <1>quiet, <1>type
<1>1. ASSUME NEW p \in Publishers, Call(p) PROVE Kept'
  <2>1. ASSUME NEW q \in Publishers, pub[q].pc \notin {"sync", "dropBackup"},
               pub[q].backup \in Trees
        PROVE  /\ pub'[q].pc \notin {"sync", "dropBackup"}
               /\ pub'[q].backup \in Trees
    <3>1. q # p /\ pub'[q] = [pub[q] EXCEPT !.alone = FALSE]
      BY <1>1, <2>1, <1>type DEF Call, Sound
    <3> QED
      BY <2>1, <3>1, <1>type DEF Locals
  <2> QED
    BY <1>1, <2>1 DEF Call
<1>2. ASSUME NEW p \in Publishers, Inspect(p) PROVE Kept'
  BY <1>2, <1>quiet, <1>type DEF Inspect, Continue, Fault, Failing, Sound, Locals
<1>3. ASSUME NEW p \in Publishers, MakeStage(p) PROVE Kept'
  BY <1>3, <1>quiet, <1>type DEF MakeStage, Continue, Fault, Failing, Sound, Locals
<1>4. ASSUME NEW p \in Publishers, WriteTree(p) PROVE Kept'
  BY <1>4, <1>quiet, <1>type, ZenonT(60) DEF WriteTree, Continue, Fault, Failing, Sound, Locals
<1>5. ASSUME NEW p \in Publishers, Sync(p) PROVE Kept'
  BY <1>5, <1>quiet, <1>type DEF Sync, Continue, Fault, Failing, Sound, Locals
<1>6. ASSUME NEW p \in Publishers, ClearStage(p) PROVE Kept'
  BY <1>6, <1>quiet, <1>type DEF ClearStage, Continue, Fault, Failing, Sound, Locals
<1>7. ASSUME NEW p \in Publishers, Retain(p) PROVE Kept'
  <2>1. CASE root # None /\ Continue(p, [pub[p] EXCEPT !.pc = "install", !.backup = root])
    BY <1>7, <2>1, <1>type DEF Retain, Continue, Sound, Locals
  <2>2. CASE /\ Continue(p, Failing(p, "clearStage")) \/ Fault(p, Failing(p, "clearStage"))
             /\ UNCHANGED root
    BY <1>7, <2>2, <1>quiet, <1>type
       DEF Retain, AfterRejection, Continue, Fault, Failing, Sound, Locals
  <2> QED
    BY <1>7, <2>1, <2>2 DEF Retain
<1>8. ASSUME NEW p \in Publishers, Install(p) PROVE Kept'
  <2>1. CASE root' = pub[p].stage
    BY <1>8, <2>1, <1>type DEF Install, Continue, Sound, Locals
  <2>2. CASE /\ Continue(p, Failing(p, AfterRejection(p))) \/ Fault(p, Failing(p, AfterRejection(p)))
             /\ UNCHANGED root
    BY <1>8, <2>2, <1>quiet, <1>type, ZenonT(60)
       DEF Install, AfterRejection, Continue, Fault, Failing, Sound, Locals
  <2> QED
    BY <1>8, <2>1, <2>2 DEF Install
<1>9. ASSUME NEW p \in Publishers, Restore(p) PROVE Kept'
  <2>1. CASE root' = pub[p].backup
    BY <1>9, <2>1, <1>type DEF Restore, Continue, Sound, Locals
  <2>2. CASE /\ Continue(p, Failing(p, "clearStage")) \/ Fault(p, Failing(p, "clearStage"))
             /\ UNCHANGED root
    BY <1>9, <2>2, <1>quiet, <1>type
       DEF Restore, AfterRejection, Continue, Fault, Failing, Sound, Locals
  <2> QED
    BY <1>9, <2>1, <2>2 DEF Restore
<1>10. ASSUME NEW p \in Publishers, DropBackup(p) PROVE Kept'
  BY <1>10, <1>type DEF DropBackup, Continue, Fault, Failing, Sound, Locals
<1>11. ASSUME NEW p \in Publishers, Return(p) \/ Crash(p) PROVE Kept'
  BY <1>11, <1>type DEF Return, Crash, End, Sound, Locals, Idle
<1>12. CASE UNCHANGED vars
  BY <1>12 DEF vars
<1> QED
  BY <1>1, <1>2, <1>3, <1>4, <1>5, <1>6, <1>7, <1>8, <1>9, <1>10, <1>11, <1>12 DEF Next, Step

\* Whatever the publishers do to each other, and whichever calls fail, a whole
\* copy that nobody is about to remove stays on the host.
THEOREM NeverLost == Spec => TrackedIsNeverLost
<1>1. Init => TypeOK
  BY DEF Init, TypeOK, Idle, Labels, Dirs, At
<1>2. TypeOK /\ [Next]_vars => [Kept => Kept']_vars
  BY KeptStep
<1> QED
  BY <1>1, <1>2, TypeOKStep, PTL DEF Spec, TrackedIsNeverLost

-----------------------------------------------------------------------------
(* The contract of a call that has the directory to itself.                *)

\* Where such a call and the tracked copy are.
Course(l, r) ==
    /\ l.pc \in {"inspect", "makeStage", "write", "retain"} => r = l.before /\ ~l.failed
    /\ l.pc \in {"makeStage", "write", "retain", "install"} => (l.exists <=> l.before # None)
    /\ l.pc = "retain" => l.exists
    /\ l.pc \in {"retain", "install"} => l.stage = l.tree
    /\ l.pc = "install" => r = None /\ ~l.failed /\ (l.exists => l.backup = l.before)
    /\ l.pc = "restore" => r = None /\ l.failed /\ l.backup = l.before
    /\ l.pc \in {"sync", "dropBackup"} => r = l.tree /\ ~l.failed
    /\ l.pc \in {"clearStage", "returned"} =>
          IF l.failed THEN r \in {l.before, l.tree} \/ (r = None /\ l.backup = l.before)
          ELSE r = l.tree

AloneInv ==
    \A p \in Publishers :
        pub[p].alone => /\ \A q \in Publishers \ {p} : pub[q].pc = "idle"
                        /\ Course(pub[p], root)

\* A step of p, alone or not: the others are not alone while p runs.
LEMMA AloneStep ==
    ASSUME TypeOK, AloneInv, NEW p \in Publishers, pub[p].pc # "idle", NEW local,
           pub' = [pub EXCEPT ![p] = local], local.alone = pub[p].alone,
           local.alone => Course(local, root')
    PROVE  AloneInv'
<1>1. pub \in [Publishers -> Locals]
  BY TypeOKIsSound
<1>2. ASSUME NEW q \in Publishers, q # p PROVE ~pub[q].alone
  BY <1>2 DEF AloneInv
<1>3. /\ pub'[p] = local
      /\ \A q \in Publishers \ {p} : pub'[q] = pub[q]
  BY <1>1
<1> QED
  BY <1>2, <1>3 DEF AloneInv

LEMMA AloneInvStep == TypeOK /\ AloneInv /\ [Next]_vars => AloneInv'
<1> SUFFICES ASSUME TypeOK, AloneInv, [Next]_vars PROVE AloneInv'
  OBVIOUS
<1>type. /\ root \in Trees \cup {None} /\ pub \in [Publishers -> Locals]
         /\ \A p \in Publishers : Sound(pub[p])
  BY TypeOKIsSound
<1>course. \A p \in Publishers : pub[p].alone => Course(pub[p], root)
  BY DEF AloneInv
\* A call that failed, and goes on at `label`.
<1>failing. ASSUME NEW p \in Publishers, ~At(p, "idle"),
                   NEW label \in {"clearStage", "returned", "restore"},
                   Continue(p, Failing(p, label)) \/ Fault(p, Failing(p, label)),
                   pub[p].alone => Course(Failing(p, label), root')
            PROVE  AloneInv'
  <2>1. pub' = [pub EXCEPT ![p] = Failing(p, label)] /\ Failing(p, label).alone = pub[p].alone
    BY <1>failing, <1>type DEF Continue, Fault, Failing, Locals
  <2> QED
    BY <1>failing, <2>1, AloneStep DEF At
<1> USE DEF At, Continue, Fault
<1>1. ASSUME NEW p \in Publishers, Call(p) PROVE AloneInv'
  <2>1. PICK t \in Trees \ {root} :
           pub' = [q \in Publishers |->
                     IF q = p THEN Called(p, t) ELSE [pub[q] EXCEPT !.alone = FALSE]]
    BY <1>1 DEF Call
  <2>2. \A q \in Publishers \ {p} : ~pub'[q].alone /\ pub'[q].pc = pub[q].pc
    BY <2>1, <1>type DEF Locals
  <2>3. /\ pub'[p] = Called(p, t) /\ root' = root
        /\ Called(p, t).alone => \A q \in Publishers \ {p} : pub[q].pc = "idle"
    BY <1>1, <2>1 DEF Call, Called, Idle
  <2>4. Course(Called(p, t), root)
    BY DEF Called, Idle, Course
  <2> QED
    BY <2>2, <2>3, <2>4 DEF AloneInv
<1>2. ASSUME NEW p \in Publishers, Inspect(p) PROVE AloneInv'
  <2> DEFINE local == [pub[p] EXCEPT !.pc = "makeStage", !.exists = (root # None)]
  <2>1. CASE pub' = [pub EXCEPT ![p] = local]
    <3>1. local.alone = pub[p].alone /\ (local.alone => Course(local, root'))
      BY <1>2, <1>type, <1>course DEF Inspect, Course, Locals
    <3> QED
      BY <1>2, <2>1, <3>1, AloneStep DEF Inspect
  <2>2. pub[p].alone => Course(Failing(p, "returned"), root')
    BY <1>2, <1>type, <1>course DEF Inspect, Course, Locals, Failing
  <2> QED
    BY <1>2, <2>1, <2>2, <1>failing DEF Inspect
<1>3. ASSUME NEW p \in Publishers, MakeStage(p) PROVE AloneInv'
  <2> DEFINE local == [pub[p] EXCEPT !.pc = "write", !.stage = Torn]
  <2>1. CASE pub' = [pub EXCEPT ![p] = local]
    <3>1. local.alone = pub[p].alone /\ (local.alone => Course(local, root'))
      BY <1>3, <1>type, <1>course DEF MakeStage, Course, Locals
    <3> QED
      BY <1>3, <2>1, <3>1, AloneStep DEF MakeStage
  <2>2. pub[p].alone => Course(Failing(p, "returned"), root')
    BY <1>3, <1>type, <1>course DEF MakeStage, Course, Locals, Failing
  <2> QED
    BY <1>3, <2>1, <2>2, <1>failing DEF MakeStage
<1>4. ASSUME NEW p \in Publishers, WriteTree(p) PROVE AloneInv'
  <2> DEFINE local == [pub[p] EXCEPT !.pc = IF pub[p].exists THEN "retain" ELSE "install",
                                    !.stage = pub[p].tree]
  <2>1. CASE pub' = [pub EXCEPT ![p] = local]
    <3>1. local.alone = pub[p].alone /\ (local.alone => Course(local, root'))
      BY <1>4, <1>type, <1>course DEF WriteTree, Course, Locals
    <3> QED
      BY <1>4, <2>1, <3>1, AloneStep DEF WriteTree
  <2>2. pub[p].alone => Course(Failing(p, "clearStage"), root')
    BY <1>4, <1>type, <1>course DEF WriteTree, Course, Locals, Failing
  <2> QED
    BY <1>4, <2>1, <2>2, <1>failing DEF WriteTree
<1>5. ASSUME NEW p \in Publishers, Retain(p) PROVE AloneInv'
  <2> DEFINE local == [pub[p] EXCEPT !.pc = "install", !.backup = root]
  <2>1. CASE pub' = [pub EXCEPT ![p] = local] /\ root' = None
    <3>1. local.alone = pub[p].alone /\ (local.alone => Course(local, root'))
      BY <1>5, <2>1, <1>type, <1>course DEF Retain, Course, Locals
    <3> QED
      BY <1>5, <2>1, <3>1, AloneStep DEF Retain
  <2>2. CASE UNCHANGED root
    <3>1. pub[p].alone => Course(Failing(p, "clearStage"), root')
      BY <1>5, <2>2, <1>type, <1>course DEF Retain, Course, Locals, Failing
    <3>2. (Continue(p, local) /\ root' = None) \/ Continue(p, Failing(p, "clearStage"))
             \/ Fault(p, Failing(p, "clearStage"))
      BY <1>5 DEF Retain
    <3> QED
      BY <1>5, <2>1, <3>1, <3>2, <1>failing DEF Retain
  <2> QED
    BY <1>5, <2>1, <2>2 DEF Retain
<1>6. ASSUME NEW p \in Publishers, Install(p) PROVE AloneInv'
  <2> DEFINE local == [pub[p] EXCEPT !.pc = "sync", !.stage = None]
  <2>1. CASE pub' = [pub EXCEPT ![p] = local] /\ root' = pub[p].stage
    <3>1. local.alone = pub[p].alone /\ (local.alone => Course(local, root'))
      BY <1>6, <2>1, <1>type, <1>course DEF Install, Course, Locals
    <3> QED
      BY <1>6, <2>1, <3>1, AloneStep DEF Install
  <2>2. CASE /\ Continue(p, Failing(p, AfterRejection(p))) \/ Fault(p, Failing(p, AfterRejection(p)))
             /\ UNCHANGED root
    <3>1. CASE pub[p].exists
      <4>1. AfterRejection(p) = "restore"
        BY <3>1 DEF AfterRejection
      <4>2. pub[p].alone => Course(Failing(p, "restore"), root')
        BY <1>6, <2>2, <3>1, <1>type, <1>course DEF Install, Course, Locals, Failing
      <4> QED
        BY <1>6, <2>2, <4>1, <4>2, <1>failing DEF Install
    <3>2. CASE ~pub[p].exists
      <4>1. AfterRejection(p) = "clearStage"
        BY <3>2 DEF AfterRejection
      <4>2. pub[p].alone => Course(Failing(p, "clearStage"), root')
        BY <1>6, <2>2, <3>2, <1>type, <1>course DEF Install, Course, Locals, Failing
      <4> QED
        BY <1>6, <2>2, <4>1, <4>2, <1>failing DEF Install
    <3> QED
      BY <3>1, <3>2
  <2> QED
    BY <1>6, <2>1, <2>2 DEF Install
<1>7. ASSUME NEW p \in Publishers, Restore(p) PROVE AloneInv'
  <2> DEFINE local == [pub[p] EXCEPT !.pc = "clearStage", !.backup = None]
  <2>1. CASE pub' = [pub EXCEPT ![p] = local] /\ root' = pub[p].backup
    <3>1. local.alone = pub[p].alone /\ (local.alone => Course(local, root'))
      BY <1>7, <2>1, <1>type, <1>course DEF Restore, Course, Locals
    <3> QED
      BY <1>7, <2>1, <3>1, AloneStep DEF Restore
  <2>2. CASE /\ Continue(p, Failing(p, "clearStage")) \/ Fault(p, Failing(p, "clearStage"))
             /\ UNCHANGED root
    <3>1. pub[p].alone => Course(Failing(p, "clearStage"), root')
      BY <1>7, <2>2, <1>type, <1>course DEF Restore, Course, Locals, Failing
    <3> QED
      BY <1>7, <2>2, <3>1, <1>failing DEF Restore
  <2> QED
    BY <1>7, <2>1, <2>2 DEF Restore
<1>8. ASSUME NEW p \in Publishers, Sync(p) PROVE AloneInv'
  <2> DEFINE local == [pub[p] EXCEPT !.pc = IF pub[p].exists THEN "dropBackup"
                                              ELSE "clearStage"]
  <2>1. CASE pub' = [pub EXCEPT ![p] = local]
    <3>1. local.alone = pub[p].alone /\ (local.alone => Course(local, root'))
      BY <1>8, <1>type, <1>course DEF Sync, Course, Locals
    <3> QED
      BY <1>8, <2>1, <3>1, AloneStep DEF Sync
  <2>2. pub[p].alone => Course(Failing(p, "clearStage"), root')
    BY <1>8, <1>type, <1>course DEF Sync, Course, Locals, Failing
  <2> QED
    BY <1>8, <2>1, <2>2, <1>failing DEF Sync
<1>9. ASSUME NEW p \in Publishers, DropBackup(p) PROVE AloneInv'
  <2> DEFINE gone == [pub[p] EXCEPT !.pc = "clearStage", !.backup = None]
             rest(left) == [Failing(p, "clearStage") EXCEPT !.backup = left]
  <2>1. CASE pub' = [pub EXCEPT ![p] = gone]
    <3>1. gone.alone = pub[p].alone /\ (gone.alone => Course(gone, root'))
      BY <1>9, <1>type, <1>course DEF DropBackup, Course, Locals
    <3> QED
      BY <1>9, <2>1, <3>1, AloneStep DEF DropBackup
  <2>2. ASSUME NEW left \in {pub[p].backup, Torn, None},
               pub' = [pub EXCEPT ![p] = rest(left)]
        PROVE  AloneInv'
    <3>1. rest(left).alone = pub[p].alone /\ (rest(left).alone => Course(rest(left), root'))
      BY <1>9, <1>type, <1>course DEF DropBackup, Course, Locals, Failing
    <3> QED
      BY <1>9, <2>2, <3>1, AloneStep DEF DropBackup
  <2> QED
    BY <1>9, <2>1, <2>2 DEF DropBackup
<1>10. ASSUME NEW p \in Publishers, ClearStage(p) PROVE AloneInv'
  <2> DEFINE local == [pub[p] EXCEPT !.pc = "returned", !.stage = None]
  <2>1. CASE pub' = [pub EXCEPT ![p] = local]
    <3>1. local.alone = pub[p].alone /\ (local.alone => Course(local, root'))
      BY <1>10, <1>type, <1>course DEF ClearStage, Course, Locals
    <3> QED
      BY <1>10, <2>1, <3>1, AloneStep DEF ClearStage
  <2>2. pub[p].alone => Course(Failing(p, "returned"), root')
    BY <1>10, <1>type, <1>course DEF ClearStage, Course, Locals, Failing
  <2> QED
    BY <1>10, <2>1, <2>2, <1>failing DEF ClearStage
<1>11. ASSUME NEW p \in Publishers, Return(p) \/ Crash(p) PROVE AloneInv'
  <2>1. pub' = [pub EXCEPT ![p] = Idle] /\ pub[p].pc # "idle"
    BY <1>11 DEF Return, Crash, End
  <2>2. \A q \in Publishers \ {p} : pub'[q] = pub[q] /\ ~pub[q].alone
    BY <2>1, <1>type DEF AloneInv
  <2>3. ~pub'[p].alone
    BY <2>1, <1>type DEF Idle
  <2> QED
    BY <2>2, <2>3 DEF AloneInv
<1>12. CASE UNCHANGED vars
  BY <1>12 DEF vars, AloneInv
<1> QED
  BY <1>1, <1>2, <1>3, <1>4, <1>5, <1>6, <1>7, <1>8, <1>9, <1>10, <1>11, <1>12 DEF Next, Step

\* PublishTree keeps its contract in every call that no other one runs beside,
\* whatever earlier calls left behind and however many of its own fail.
THEOREM ContractIsKept == Spec => []PublishContract
<1>1. Init => TypeOK /\ AloneInv
  BY DEF Init, TypeOK, Idle, Labels, Dirs, At, AloneInv
<1>2. TypeOK /\ AloneInv => PublishContract
  BY DEF AloneInv, Course, PublishContract, At
<1> QED
  BY <1>1, <1>2, TypeOKStep, AloneInvStep, PTL DEF Spec

-----------------------------------------------------------------------------
(* One failing call.                                                       *)

\* There is a copy next to the tracked one, or where that one was.
LeftBehind == orphans # {} \/ \E p \in Publishers : pub[p].backup # None

\* The publisher that has moved the tracked copy aside puts one back with its
\* next call, or with the one after that if its next call is the one to fail.
PutsBack(p) ==
    \/ At(p, "install") /\ pub[p].exists
    \/ At(p, "restore") /\ budget["fault"] < Budget["fault"]

\* A publisher that has a backup to remove has made one.
HasBackup(l) ==
    /\ l.pc = "retain" => l.exists
    /\ l.pc = "sync" /\ l.exists => l.backup # None
    /\ l.pc = "dropBackup" => l.backup # None

RootInv ==
    /\ \A e \in Events : budget[e] <= Budget[e]
    /\ \A p \in Publishers : HasBackup(pub[p])
    /\ OneFailure /\ root = None /\ LeftBehind => \E p \in Publishers : PutsBack(p)

\* A call that works, and one that fails, in the life of one failing call.
LEMMA BudgetStep ==
    ASSUME TypeOK, RootInv, NEW p \in Publishers, NEW local, Continue(p, local) \/ Fault(p, local)
    PROVE  /\ \A e \in Events : budget'[e] <= Budget[e]
           /\ OneFailure' => OneFailure
           /\ OneFailure' /\ Fault(p, local) =>
                 /\ budget["fault"] = Budget["fault"]
                 /\ budget'["fault"] < Budget["fault"]
           /\ budget'["fault"] <= budget["fault"]
<1>1. budget \in [Events -> Nat] /\ Budget \in [Events -> Nat]
  BY DEF TypeOK
<1>2. CASE budget' = budget
  <2>1. ~Fault(p, local)
    BY <1>1, <1>2 DEF Fault, Spend, Events
  <2> QED
    BY <1>1, <1>2, <2>1 DEF OneFailure, RootInv, Events
<1>3. CASE Fault(p, local)
  <2>1. budget["fault"] > 0 /\ budget' = [budget EXCEPT !["fault"] = budget["fault"] - 1]
    BY <1>3 DEF Fault, Spend
  <2> QED
    BY <1>1, <2>1 DEF OneFailure, RootInv, Events
<1> QED
  BY <1>2, <1>3 DEF Continue

\* A call of p that leaves the tracked copy alone, while p is not the one to
\* put it back, and that makes no copy.
LEMMA AsideStep ==
    ASSUME TypeOK, RootInv, NEW p \in Publishers, NEW local,
           Continue(p, local) \/ Fault(p, local), UNCHANGED <<root, orphans>>,
           HasBackup(local), local.backup # None => pub[p].backup # None,
           root = None /\ OneFailure' /\ PutsBack(p) =>
              local.pc = "restore" /\ budget'["fault"] < Budget["fault"]
    PROVE  RootInv'
<1>1. pub \in [Publishers -> Locals] /\ pub' = [pub EXCEPT ![p] = local]
      /\ budget \in [Events -> Nat] /\ Budget \in [Events -> Nat]
      /\ budget' \in [Events -> Nat]
  BY TypeOKIsSound, SpendType DEF Continue, Fault, Events
<1>2. \A q \in Publishers : HasBackup(pub'[q])
  BY <1>1 DEF RootInv
<1>3. ASSUME OneFailure', root' = None, LeftBehind'
      PROVE  \E q \in Publishers : PutsBack(q)'
  <2>1. OneFailure /\ root = None /\ budget'["fault"] <= budget["fault"]
    BY <1>3, BudgetStep
  <2>2. LeftBehind
    BY <1>1, <1>3 DEF LeftBehind
  <2>3. PICK q \in Publishers : PutsBack(q)
    BY <2>1, <2>2 DEF RootInv
  <2>4. CASE q = p
    BY <1>1, <1>3, <2>1, <2>3, <2>4 DEF PutsBack, At
  <2>5. CASE q # p
    <3>1. pub'[q] = pub[q]
      BY <1>1, <2>5
    <3> QED
      BY <1>1, <2>1, <2>3, <3>1 DEF PutsBack, At, Events
  <2> QED
    BY <2>4, <2>5
<1> QED
  BY <1>2, <1>3, BudgetStep DEF RootInv

\* A call of p after which the tracked copy is there.
LEMMA PresentStep ==
    ASSUME TypeOK, RootInv, NEW p \in Publishers, NEW local, Continue(p, local),
           HasBackup(local), root' # None
    PROVE  RootInv'
<1>1. pub' = [pub EXCEPT ![p] = local] /\ pub \in [Publishers -> Locals] /\ budget' = budget
  BY TypeOKIsSound DEF Continue
<1> QED
  BY <1>1 DEF RootInv

LEMMA RootInvStep == TypeOK /\ RootInv /\ [Next]_vars => RootInv'
<1> SUFFICES ASSUME TypeOK, RootInv, [Next]_vars PROVE RootInv'
  OBVIOUS
<1>type. /\ root \in Trees \cup {None} /\ pub \in [Publishers -> Locals]
         /\ budget \in [Events -> Nat]
         /\ \A p \in Publishers : Sound(pub[p])
  BY TypeOKIsSound
<1>has. \A p \in Publishers : HasBackup(pub[p])
  BY DEF RootInv
\* A call that fails while p need not put the tracked copy back.
<1>failing. ASSUME NEW p \in Publishers, NEW label \in {"clearStage", "returned"},
                   ~At(p, "install") \/ ~pub[p].exists, ~At(p, "restore"),
                   Continue(p, Failing(p, label)) \/ Fault(p, Failing(p, label)),
                   UNCHANGED <<root, orphans>>
            PROVE  RootInv'
  <2>1. HasBackup(Failing(p, label)) /\ Failing(p, label).backup = pub[p].backup
    BY <1>failing, <1>type DEF Failing, HasBackup, Locals
  <2> QED
    BY <1>failing, <2>1, AsideStep DEF PutsBack
<1>1. ASSUME NEW p \in Publishers, Call(p) PROVE RootInv'
  <2>1. PICK t \in Trees \ {root} :
           pub' = [q \in Publishers |->
                     IF q = p THEN Called(p, t) ELSE [pub[q] EXCEPT !.alone = FALSE]]
    BY <1>1 DEF Call
  <2>2. \A q \in Publishers \ {p} :
           /\ pub'[q].pc = pub[q].pc /\ pub'[q].exists = pub[q].exists
           /\ pub'[q].backup = pub[q].backup
    BY <2>1, <1>type DEF Locals
  <2>3. pub'[p].pc = "inspect" /\ pub'[p].backup = None
    BY <2>1 DEF Called, Idle
  <2>4. \A q \in Publishers : HasBackup(pub'[q])
    BY <2>2, <2>3, <1>has DEF HasBackup
  <2>5. ~PutsBack(p)
    BY <1>1 DEF Call, PutsBack, At
  <2> QED
    BY <1>1, <2>2, <2>3, <2>4, <2>5 DEF Call, RootInv, OneFailure, LeftBehind, PutsBack, At
<1>2. ASSUME NEW p \in Publishers, Inspect(p) PROVE RootInv'
  <2> DEFINE local == [pub[p] EXCEPT !.pc = "makeStage", !.exists = (root # None)]
  <2>1. HasBackup(local) /\ local.backup = pub[p].backup
    BY <1>type DEF HasBackup, Locals
  <2>2. CASE Continue(p, local)
    BY <1>2, <2>1, <2>2, AsideStep DEF Inspect, PutsBack, At
  <2> QED
    BY <1>2, <2>2, <1>failing DEF Inspect, At
<1>3. ASSUME NEW p \in Publishers, MakeStage(p) PROVE RootInv'
  <2> DEFINE local == [pub[p] EXCEPT !.pc = "write", !.stage = Torn]
  <2>1. HasBackup(local) /\ local.backup = pub[p].backup
    BY <1>type DEF HasBackup, Locals
  <2>2. CASE Continue(p, local)
    BY <1>3, <2>1, <2>2, AsideStep DEF MakeStage, PutsBack, At
  <2> QED
    BY <1>3, <2>2, <1>failing DEF MakeStage, At
<1>4. ASSUME NEW p \in Publishers, WriteTree(p) PROVE RootInv'
  <2> DEFINE local == [pub[p] EXCEPT !.pc = IF pub[p].exists THEN "retain" ELSE "install",
                                    !.stage = pub[p].tree]
  <2>1. HasBackup(local) /\ local.backup = pub[p].backup
    BY <1>type, ZenonT(60) DEF HasBackup, Locals
  <2>2. CASE Continue(p, local)
    BY <1>4, <2>1, <2>2, AsideStep DEF WriteTree, PutsBack, At
  <2> QED
    BY <1>4, <2>2, <1>failing DEF WriteTree, At
<1>5. ASSUME NEW p \in Publishers, Retain(p) PROVE RootInv'
  <2> DEFINE local == [pub[p] EXCEPT !.pc = "install", !.backup = root]
  <2>1. CASE Continue(p, local) /\ root' = None
    <3>1. local.pc = "install" /\ local.exists
      BY <1>5, <1>type, <1>has DEF Retain, At, HasBackup, Locals
    <3>2. /\ pub' = [pub EXCEPT ![p] = local] /\ budget' = budget
          /\ pub'[p] = local
      BY <2>1, <1>type DEF Continue
    <3>3. PutsBack(p)'
      BY <3>1, <3>2 DEF PutsBack, At
    <3>4. \A q \in Publishers : HasBackup(pub'[q])
      BY <3>1, <3>2, <1>type, <1>has DEF HasBackup
    <3> QED
      BY <3>2, <3>3, <3>4 DEF RootInv
  <2>2. CASE /\ Continue(p, Failing(p, "clearStage")) \/ Fault(p, Failing(p, "clearStage"))
             /\ UNCHANGED root
    BY <1>5, <2>2, <1>failing DEF Retain, At
  <2> QED
    BY <1>5, <2>1, <2>2 DEF Retain
<1>6. ASSUME NEW p \in Publishers, Install(p) PROVE RootInv'
  <2> DEFINE local == [pub[p] EXCEPT !.pc = "sync", !.stage = None]
  <2>1. CASE Continue(p, local) /\ root' = pub[p].stage
    <3>1. HasBackup(local) /\ root' # None
      BY <1>6, <2>1, <1>type, ZenonT(60) DEF Install, At, Sound, HasBackup, Locals
    <3> QED
      BY <2>1, <3>1, PresentStep
  <2>2. CASE /\ Continue(p, Failing(p, AfterRejection(p))) \/ Fault(p, Failing(p, AfterRejection(p)))
             /\ UNCHANGED root
             /\ root = None => Fault(p, Failing(p, AfterRejection(p)))
    <3>1. CASE ~pub[p].exists
      BY <1>6, <2>2, <3>1, <1>failing DEF Install, AfterRejection, At
    <3>2. CASE pub[p].exists
      <4>1. AfterRejection(p) = "restore"
        BY <3>2 DEF AfterRejection
      <4>2. /\ HasBackup(Failing(p, "restore")) /\ Failing(p, "restore").pc = "restore"
            /\ Failing(p, "restore").backup = pub[p].backup
        BY <1>type DEF Failing, HasBackup, Locals
      <4>3. root = None /\ OneFailure' => budget'["fault"] < Budget["fault"]
        BY <2>2, BudgetStep
      <4> QED
        BY <1>6, <2>2, <4>1, <4>2, <4>3, AsideStep DEF Install
    <3> QED
      BY <3>1, <3>2
  <2> QED
    BY <1>6, <2>1, <2>2 DEF Install
<1>7. ASSUME NEW p \in Publishers, Restore(p) PROVE RootInv'
  <2> DEFINE local == [pub[p] EXCEPT !.pc = "clearStage", !.backup = None]
  <2>1. CASE Continue(p, local) /\ root' = pub[p].backup
    <3>1. HasBackup(local) /\ root' # None
      BY <1>7, <2>1, <1>type DEF Restore, At, Sound, HasBackup, Locals
    <3> QED
      BY <2>1, <3>1, PresentStep
  <2>2. CASE /\ Continue(p, Failing(p, "clearStage")) \/ Fault(p, Failing(p, "clearStage"))
             /\ UNCHANGED root
             /\ root = None => Fault(p, Failing(p, "clearStage"))
    <3>1. HasBackup(Failing(p, "clearStage")) /\ Failing(p, "clearStage").backup = pub[p].backup
      BY <1>type DEF Failing, HasBackup, Locals
    <3>2. root = None /\ OneFailure' => budget["fault"] = Budget["fault"]
      BY <2>2, BudgetStep
    <3>3. root = None /\ OneFailure' => ~PutsBack(p)
      BY <1>7, <3>2, <1>type DEF Restore, PutsBack, At, Events
    <3> QED
      BY <1>7, <2>2, <3>1, <3>3, AsideStep DEF Restore
  <2> QED
    BY <1>7, <2>1, <2>2 DEF Restore
<1>8. ASSUME NEW p \in Publishers, Sync(p) PROVE RootInv'
  <2> DEFINE local == [pub[p] EXCEPT !.pc = IF pub[p].exists THEN "dropBackup"
                                              ELSE "clearStage"]
  <2>1. HasBackup(local) /\ local.backup = pub[p].backup
    BY <1>8, <1>type, <1>has DEF Sync, At, HasBackup, Locals
  <2>2. CASE Continue(p, local)
    BY <1>8, <2>1, <2>2, AsideStep DEF Sync, PutsBack, At
  <2> QED
    BY <1>8, <2>2, <1>failing DEF Sync, At
<1>9. ASSUME NEW p \in Publishers, DropBackup(p) PROVE RootInv'
  <2> DEFINE gone == [pub[p] EXCEPT !.pc = "clearStage", !.backup = None]
             rest(left) == [Failing(p, "clearStage") EXCEPT !.backup = left]
  <2>1. HasBackup(gone) /\ gone.backup = None
    BY <1>type DEF HasBackup, Locals
  <2>2. \A left \in {pub[p].backup, Torn, None} : HasBackup(rest(left))
    BY <1>type DEF HasBackup, Locals, Failing
  <2>3. pub[p].backup # None /\ ~PutsBack(p)
    BY <1>9, <1>has DEF DropBackup, At, HasBackup, PutsBack
  <2>4. CASE Continue(p, gone)
    BY <1>9, <2>1, <2>3, <2>4, AsideStep DEF DropBackup
  <2>5. ASSUME NEW left \in {pub[p].backup, Torn, None}, Fault(p, rest(left))
        PROVE  RootInv'
    BY <1>9, <2>2, <2>3, <2>5, AsideStep DEF DropBackup
  <2> QED
    BY <1>9, <2>4, <2>5 DEF DropBackup
<1>10. ASSUME NEW p \in Publishers, ClearStage(p) PROVE RootInv'
  <2> DEFINE local == [pub[p] EXCEPT !.pc = "returned", !.stage = None]
  <2>1. HasBackup(local) /\ local.backup = pub[p].backup
    BY <1>type DEF HasBackup, Locals
  <2>2. CASE Continue(p, local)
    BY <1>10, <2>1, <2>2, AsideStep DEF ClearStage, PutsBack, At
  <2> QED
    BY <1>10, <2>2, <1>failing DEF ClearStage, At
\* The end of a process turns its backup into an orphan.
<1>end. ASSUME NEW p \in Publishers, End(p)
        PROVE  /\ pub'[p] = Idle /\ \A q \in Publishers \ {p} : pub'[q] = pub[q]
               /\ \A q \in Publishers : HasBackup(pub'[q])
               /\ LeftBehind' => LeftBehind
  <2>1. pub'[p] = Idle /\ \A q \in Publishers \ {p} : pub'[q] = pub[q]
    BY <1>end, <1>type DEF End
  <2>2. orphans' = orphans \/ pub[p].backup # None
    BY <1>end DEF End
  <2> QED
    BY <2>1, <2>2, <1>has DEF HasBackup, Idle, LeftBehind
<1>11. ASSUME NEW p \in Publishers, Return(p) PROVE RootInv'
  <2>1. /\ End(p) /\ root' = root /\ budget' = budget /\ ~PutsBack(p)
    BY <1>11 DEF Return, End, PutsBack, At
  <2> QED
    BY <2>1, <1>end DEF RootInv, OneFailure, PutsBack, At
<1>12. ASSUME NEW p \in Publishers, Crash(p) PROVE RootInv'
  <2>1. /\ End(p) /\ budget["crash"] > 0
        /\ budget' = [budget EXCEPT !["crash"] = budget["crash"] - 1]
    BY <1>12 DEF Crash, Spend
  <2>2. ~OneFailure' /\ \A e \in Events : budget'[e] <= Budget[e]
    BY <2>1, <1>type DEF RootInv, OneFailure, Events
  <2> QED
    BY <2>1, <2>2, <1>end DEF RootInv
<1>13. CASE UNCHANGED vars
  BY <1>13 DEF vars, RootInv, OneFailure, LeftBehind, PutsBack, At
<1> QED
  BY <1>1, <1>2, <1>3, <1>4, <1>5, <1>6, <1>7, <1>8, <1>9, <1>10, <1>11, <1>12, <1>13
     DEF Next, Step

\* However many publishers meet in the directory, one failing call never leaves
\* the project without its tracked copy while a backup lies next to it.
THEOREM OneFailureIsRepaired == Spec => []OneFailureKeepsRoot
<1>1. Init => TypeOK /\ RootInv
  BY DEF Init, TypeOK, Idle, Labels, Dirs, At, RootInv, HasBackup, LeftBehind, Events
<1>2. RootInv => OneFailureKeepsRoot
  BY DEF RootInv, LeftBehind, PutsBack, At, OneFailureKeepsRoot
<1> QED
  BY <1>1, <1>2, TypeOKStep, RootInvStep, PTL DEF Spec

=============================================================================
