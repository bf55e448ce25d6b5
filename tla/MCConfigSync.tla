--------------------------- MODULE MCConfigSync ---------------------------
(* Small instances of ConfigSync for TLC. *)
EXTENDS ConfigSync, TLC

\* The second configuration changes one file of the first and lacks the other.
MCConfigs == {("block" :> "old" @@ "view" :> "old"), ("block" :> "new" @@ "view" :> Absent)}

Job(kind, source, target) == [kind |-> kind, source |-> source, target |-> target]

\* Two processes meet on the site "staging", as a source and as a target.
MeetingJobs ==
    {Job("sync", "production", "staging"), Job("export", "staging", "staging"),
     Job("import", "staging", "staging")}
OneSync == {Job("sync", "production", "staging")}

OverlapBudget == [fault |-> 1, crash |-> 0, edit |-> 0]
RecoveryBudget == [fault |-> 2, crash |-> 2, edit |-> 2]
=============================================================================
