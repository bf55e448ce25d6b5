--------------------------- MODULE HostTreeStore ---------------------------
(***************************************************************************)
(* PublishTree of the local and of the remote host store                   *)
(* (cmd/solr_config_host.go): the tracked copy of a Solr configuration, a  *)
(* directory of the project on the context host, is replaced by writing    *)
(* the new tree next to it and renaming both.                              *)
(*                                                                         *)
(* The lock of a refresh belongs to a Solr core, not to the tracked copy:  *)
(* the refreshes of two cores, or of two environments of one project,      *)
(* publish to one directory at the same time.  Each action is one call on  *)
(* the file system; calls fail and processes die.  The remote store does   *)
(* the same calls over SFTP but for Sync, and a lost connection, after     *)
(* which no call succeeds, is a crash.                                     *)
(***************************************************************************)
EXTENDS Naturals

CONSTANTS
    Publishers,     \* processes that publish to this directory
    Trees,          \* the trees they publish
    None,           \* an absent directory
    Torn,           \* a directory holding only part of a tree
    Budget          \* how many calls may fail and how many processes die

Events == {"fault", "crash"}

ASSUME TreesAssumption ==
    None \notin Trees /\ Torn \notin Trees /\ None # Torn
ASSUME BudgetAssumption == Budget \in [Events -> Nat]

VARIABLES
    root,       \* the tracked copy
    pub,        \* the locals of each publisher, with its stage and its backup
    orphans,    \* backups of processes that have ended: nothing reads them
    budget      \* failures and crashes that may still happen

vars == <<root, pub, orphans, budget>>

Dirs == Trees \cup {None, Torn}
Labels == {"idle", "inspect", "makeStage", "write", "retain", "install",
           "restore", "sync", "dropBackup", "clearStage", "returned"}

\* `before` and `alone` are history: the tracked copy when the call began, and
\* whether no other call has run since.
Idle == [pc |-> "idle", tree |-> None, before |-> None, alone |-> FALSE,
         exists |-> FALSE, stage |-> None, backup |-> None, failed |-> FALSE]

-----------------------------------------------------------------------------
Spend(event) ==
    /\ budget[event] > 0
    /\ budget' = [budget EXCEPT ![event] = @ - 1]

At(p, label) == pub[p].pc = label

\* The publisher goes on with `local`, or a call fails and it goes on at
\* `label` with an error to return.
Continue(p, local) == pub' = [pub EXCEPT ![p] = local] /\ UNCHANGED budget
Failing(p, label) == [pub[p] EXCEPT !.pc = label, !.failed = TRUE]
Fault(p, local) == Spend("fault") /\ pub' = [pub EXCEPT ![p] = local]

\* refreshSolrConfig publishes a tree that differs from the tracked copy.
Called(p, t) ==
    [Idle EXCEPT !.pc = "inspect", !.tree = t, !.before = root,
                 !.alone = \A q \in Publishers \ {p} : At(q, "idle")]

Call(p) ==
    /\ At(p, "idle")
    /\ \E t \in Trees \ {root} :
          pub' = [q \in Publishers |->
                    IF q = p THEN Called(p, t) ELSE [pub[q] EXCEPT !.alone = FALSE]]
    /\ UNCHANGED <<root, orphans, budget>>

\* Mutant: a tracked copy that is missing is an error.
InspectRequiresRoot(p) ==
    /\ At(p, "inspect")
    /\ Continue(p, IF root = None THEN Failing(p, "returned")
                   ELSE [pub[p] EXCEPT !.pc = "makeStage", !.exists = TRUE])
    /\ UNCHANGED <<root, orphans>>

\* Containment checks, mkdir -p of the parent, and Lstat of the root.
Inspect(p) ==
    /\ At(p, "inspect")
    /\ \/ Continue(p, [pub[p] EXCEPT !.pc = "makeStage", !.exists = (root # None)])
       \/ Fault(p, Failing(p, "returned"))
    /\ UNCHANGED <<root, orphans>>

\* From here on a deferred call removes the stage.
MakeStage(p) ==
    /\ At(p, "makeStage")
    /\ \/ Continue(p, [pub[p] EXCEPT !.pc = "write", !.stage = Torn])
       \/ Fault(p, Failing(p, "returned"))
    /\ UNCHANGED <<root, orphans>>

\* Mutant: an error of a write is not returned.
WriteIgnoresError(p) ==
    /\ At(p, "write")
    /\ LET next == IF pub[p].exists THEN "retain" ELSE "install"
       IN \/ Continue(p, [pub[p] EXCEPT !.pc = next, !.stage = pub[p].tree])
          \/ Fault(p, [pub[p] EXCEPT !.pc = next])
    /\ UNCHANGED <<root, orphans>>

WriteTree(p) ==
    /\ At(p, "write")
    /\ \/ Continue(p, [pub[p] EXCEPT !.pc = IF pub[p].exists THEN "retain" ELSE "install",
                                     !.stage = pub[p].tree])
       \/ Fault(p, Failing(p, "clearStage"))
    /\ UNCHANGED <<root, orphans>>

\* Mutant: the old tree is removed, not moved aside.
RetainNothing(p) ==
    /\ At(p, "retain")
    /\ root' = None
    /\ Continue(p, [pub[p] EXCEPT !.pc = "install"])
    /\ UNCHANGED orphans

\* rename(2) of a directory: the source has to be there, and what is there at
\* the target is not replaced, since a tree is never empty.
Retain(p) ==
    /\ At(p, "retain")
    /\ \/ /\ root # None
          /\ Continue(p, [pub[p] EXCEPT !.pc = "install", !.backup = root])
          /\ root' = None
       \/ /\ root = None
          /\ Continue(p, Failing(p, "clearStage"))
          /\ UNCHANGED root
       \/ Fault(p, Failing(p, "clearStage")) /\ UNCHANGED root
    /\ UNCHANGED orphans

\* Mutant: the old tree is not put back.
GiveUp(p) == "clearStage"

AfterRejection(p) == IF pub[p].exists THEN "restore" ELSE "clearStage"

Install(p) ==
    /\ At(p, "install")
    /\ \/ /\ root = None
          /\ Continue(p, [pub[p] EXCEPT !.pc = "sync", !.stage = None])
          /\ root' = pub[p].stage
       \/ /\ root # None
          /\ Continue(p, Failing(p, AfterRejection(p)))
          /\ UNCHANGED root
       \/ Fault(p, Failing(p, AfterRejection(p))) /\ UNCHANGED root
    /\ UNCHANGED orphans

\* Mutant: the result of the restore replaces the error of the installation.
RestoreForgetsError(p) ==
    /\ At(p, "restore")
    /\ \/ /\ root = None
          /\ Continue(p, [pub[p] EXCEPT !.pc = "clearStage", !.backup = None,
                                        !.failed = FALSE])
          /\ root' = pub[p].backup
       \/ Fault(p, Failing(p, "clearStage")) /\ UNCHANGED root
    /\ UNCHANGED orphans

Restore(p) ==
    /\ At(p, "restore")
    /\ \/ /\ root = None
          /\ Continue(p, [pub[p] EXCEPT !.pc = "clearStage", !.backup = None])
          /\ root' = pub[p].backup
       \/ /\ root # None
          /\ Continue(p, Failing(p, "clearStage"))
          /\ UNCHANGED root
       \/ Fault(p, Failing(p, "clearStage")) /\ UNCHANGED root
    /\ UNCHANGED orphans

\* Local store only: fsync of the parent directory.
Sync(p) ==
    /\ At(p, "sync")
    /\ \/ Continue(p, [pub[p] EXCEPT !.pc = IF pub[p].exists THEN "dropBackup"
                                            ELSE "clearStage"])
       \/ Fault(p, Failing(p, "clearStage"))
    /\ UNCHANGED <<root, orphans>>

\* Removes the backup; an error leaves some of it, or is one of the last fsync.
DropBackup(p) ==
    /\ At(p, "dropBackup")
    /\ \/ Continue(p, [pub[p] EXCEPT !.pc = "clearStage", !.backup = None])
       \/ \E left \in {pub[p].backup, Torn, None} :
             Fault(p, [Failing(p, "clearStage") EXCEPT !.backup = left])
    /\ UNCHANGED <<root, orphans>>

\* The deferred removal of the stage.
ClearStage(p) ==
    /\ At(p, "clearStage")
    /\ \/ Continue(p, [pub[p] EXCEPT !.pc = "returned", !.stage = None])
       \/ Fault(p, Failing(p, "returned"))
    /\ UNCHANGED <<root, orphans>>

\* The end of a process: its backup stays where it is.
End(p) ==
    /\ pub' = [pub EXCEPT ![p] = Idle]
    /\ orphans' = orphans \cup ({pub[p].backup} \ {None})
    /\ UNCHANGED root

Return(p) == At(p, "returned") /\ End(p) /\ UNCHANGED budget

Crash(p) == ~At(p, "idle") /\ Spend("crash") /\ End(p)

-----------------------------------------------------------------------------
Init ==
    /\ root \in Trees \cup {None}
    /\ pub = [p \in Publishers |-> Idle]
    /\ orphans = {}
    /\ budget = Budget

Step(p) ==
    \/ Inspect(p) \/ MakeStage(p) \/ WriteTree(p) \/ Retain(p) \/ Install(p)
    \/ Restore(p) \/ Sync(p) \/ DropBackup(p) \/ ClearStage(p) \/ Return(p)

Next == \E p \in Publishers : Call(p) \/ Step(p) \/ Crash(p)

Spec == Init /\ [][Next]_vars

\* A process runs to its end, and somebody runs the command again.
FairSpec == Spec /\ \A p \in Publishers : WF_vars(Step(p)) /\ WF_vars(Call(p))

-----------------------------------------------------------------------------
(* What the store promises.                                                *)

\* Every variable has its type, a stage to install is whole, and so is every
\* backup of a publisher that may have to put it back.
TypeOK ==
    /\ root \in Trees \cup {None}
    /\ pub \in [Publishers ->
                  [pc : Labels, tree : Trees \cup {None}, before : Trees \cup {None},
                   alone : BOOLEAN, exists : BOOLEAN, stage : Dirs, backup : Dirs,
                   failed : BOOLEAN]]
    /\ orphans \subseteq Trees \cup {Torn}
    /\ budget \in [Events -> Nat]
    /\ \A p \in Publishers :
          /\ IF At(p, "idle") THEN pub[p].backup = None ELSE pub[p].tree \in Trees
          /\ At(p, "retain") \/ At(p, "install") => pub[p].stage \in Trees
          /\ At(p, "restore") => pub[p].exists
          /\ At(p, "install") \/ At(p, "restore")
                => (pub[p].exists => pub[p].backup \in Trees)

\* Somewhere on the host is a whole tree that nobody is about to remove.
Kept ==
    \/ root \in Trees
    \/ \E p \in Publishers :
          ~At(p, "sync") /\ ~At(p, "dropBackup") /\ pub[p].backup \in Trees
    \/ orphans \cap Trees # {}

\* No interleaving of publishers, failure or crash loses the last whole copy.
TrackedIsNeverLost == [][Kept => Kept']_vars

\* The contract a refresh relies on when it has the directory to itself: after
\* a success the tracked copy is the tree, after a failure it is the old one or
\* the new one, and if it is neither, the backup is the old one.
PublishContract ==
    \A p \in Publishers :
        At(p, "returned") /\ pub[p].alone =>
            IF pub[p].failed
            THEN \/ root \in {pub[p].before, pub[p].tree}
                 \/ root = None /\ pub[p].backup = pub[p].before
            ELSE root = pub[p].tree

OneFailure ==
    budget["fault"] + 1 >= Budget["fault"] /\ budget["crash"] = Budget["crash"]

\* Whatever two publishers do to each other, one failing call never leaves the
\* project without its tracked copy while a backup lies next to it.
OneFailureKeepsRoot ==
    OneFailure /\ (\A p \in Publishers : At(p, "idle")) /\ root = None => orphans = {}

\* After failures stop, a tracked copy lost between the two renames comes back.
RootReturns == (root = None) ~> (root # None)

=============================================================================
