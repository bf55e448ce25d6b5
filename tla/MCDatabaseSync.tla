--------------------------- MODULE MCDatabaseSync ---------------------------
(* Small instances of DatabaseSync for TLC. *)
EXTENDS DatabaseSync, TLC

\* The second database changes one table of the first and lacks the other.
MCStates == {("node" :> "old" @@ "file" :> "old"), ("node" :> "new" @@ "file" :> Absent)}

Job(kind, source, target, fresh) ==
    [kind |-> kind, source |-> source, target |-> target, fresh |-> fresh]

Sync(fresh) == Job("sync", "production", "staging", fresh)

\* Jobs that make artifacts, and jobs that import one of them or another file.
Exports == {Sync(FALSE), Sync(TRUE), Job("backup", "production", "production", TRUE)}
Imports == {Sync(FALSE), Job("import", "staging", "staging", FALSE)}

Counts(f, c, e) == [fault |-> f, crash |-> c, edit |-> e]
OverlapBudget == Counts(0, 0, 1)
RecoveryBudget == Counts(1, 1, 2)

Interchangeable == Permutations(Runs) \cup Permutations(Paths)
=============================================================================
