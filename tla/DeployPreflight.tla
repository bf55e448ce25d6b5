-------------------------- MODULE DeployPreflight --------------------------
(***************************************************************************)
(* `sitectl deploy` of a Drupal site: what PreDown (cmd/deploy.go) checks  *)
(* before the services are stopped, and the rollout of cmd/create.go, which *)
(* runs programs of the site's template in the drupal service.             *)
(*                                                                         *)
(* The programs are files of the checkout, bound read-only to paths in the *)
(* service.  The plugin reads Compose files itself, file by file; Docker   *)
(* Compose merges those that it uses, where the last volume with a target  *)
(* wins.  Which files Compose uses, and what it makes of a volume, is      *)
(* external to the repository.  The checkout stays as it is during a       *)
(* deploy.                                                                 *)
(***************************************************************************)
EXTENDS Naturals, Sequences

CONSTANTS
    Programs,       \* the template's programs
    Executables,    \* those that are run, not read
    Preflight,      \* the preflight script, a source but no mount
    Rollout,        \* the programs the rollout runs, in order
    Files,          \* names of Compose files
    Defaults,       \* the names searched when none is configured, in order
    Override,       \* the file Compose adds to a default one
    Lists,          \* the settings of ComposeFile
    Volumes,        \* for each program, the volumes that may have its target
    None,           \* no such file, or no volume with this target
    Malformed       \* a file that is not YAML

\* A volume whose target is a program's.  Only a short volume has no source.
VolumeRecords ==
    [form : {"short", "long"}, type : {"", "bind", "volume"},
     source : {"", "checkout", "bare", "elsewhere"}, readOnly : BOOLEAN]

Kinds == {"missing", "irregular", "plain", "executable"}
Sources == Programs \cup {Preflight}

ASSUME ProgramsAssumption ==
    /\ Programs # {} /\ Executables \subseteq Programs /\ Preflight \notin Programs
    /\ Rollout \in Seq(Executables)
ASSUME FilesAssumption ==
    /\ Override \in Files /\ Defaults \in Seq(Files) /\ Lists \subseteq Seq(Files)
    /\ Volumes \in [Programs -> SUBSET VolumeRecords]
ASSUME ContentsAssumption ==
    /\ None \notin VolumeRecords /\ None # Malformed
    /\ {None, Malformed} \cap [Programs -> VolumeRecords \cup {None}] = {}

VARIABLES
    sources,    \* what is at each path of the checkout
    files,      \* the Compose files: for each program its volume
    list,       \* the configured Compose files, perhaps none
    elsewhere,  \* programs usable where they do not come from the checkout
    pc,
    searched,   \* Compose files that the plugin has searched
    found,      \* programs it has found bound
    left,       \* programs still to probe, or to run
    faulted     \* a call failed, or the preflight script said no

vars == <<sources, files, list, elsewhere, pc, searched, found, left, faulted>>
checkout == <<sources, files, list>>

Labels == {"sources", "search", "preflight", "config", "probe", "stop", "build",
           "start", "run", "up", "refused", "failed"}

-----------------------------------------------------------------------------
(* What the plugin sees.                                                   *)

SourceFits(s) ==
    IF s \in Executables \cup {Preflight} THEN sources[s] = "executable"
    ELSE sources[s] \in {"plain", "executable"}

\* drupalComposePaths.
Candidates == IF list = <<>> THEN Defaults ELSE list

\* composeVolumeMatchesDrupalProgram: a short volume without a source is not
\* seen to have the target; a source is resolved against the checkout.
SeesTarget(v) == v.form = "long" \/ v.source # ""

Matches(v) ==
    /\ SeesTarget(v) /\ v.source \in {"checkout", "bare"} /\ v.readOnly
    /\ v.form = "long" => v.type \in {"", "bind"}

\* composeHasReadOnlyDrupalProgram, for a file that parses.
Parsed(f) == files[f] \notin {None, Malformed}
Mentions(f, p) == Parsed(f) /\ files[f][p] # None
Conflict(f) == \E p \in Programs :
    Mentions(f, p) /\ SeesTarget(files[f][p]) /\ ~Matches(files[f][p])
Bound(f) == {p \in Programs : Mentions(f, p) /\ Matches(files[f][p])}

-----------------------------------------------------------------------------
(* What Docker Compose does.                                               *)

Exists(f) == files[f] # None

\* The configured files; or the first of the default names, and the override.
Used ==
    IF list # <<>> THEN {list[i] : i \in DOMAIN list}
    ELSE {f \in Files :
            /\ Exists(f)
            /\ \/ f = Override
               \/ \E i \in DOMAIN Defaults :
                     Defaults[i] = f /\ \A j \in 1 .. i - 1 : ~Exists(Defaults[j])}

\* The order in which volumes replace each other.
Order == IF list # <<>> THEN list ELSE Append(Defaults, Override)

\* A short source that is no path names a volume that is not declared, and the
\* long form has to say its type.
WellFormed(v) ==
    IF v.form = "short" THEN v.source # "bare" ELSE v.type # ""

Acceptable(f) ==
    Parsed(f) /\ \A p \in Programs : Mentions(f, p) => WellFormed(files[f][p])

Mounts(p) == {files[f][p] : f \in {g \in Used : Mentions(g, p)}}

Places(p) == {i \in DOMAIN Order : Order[i] \in Used /\ Mentions(Order[i], p)}
Last(positions) == CHOOSE i \in positions : \A j \in positions : j <= i

Effective(p) ==
    IF Places(p) = {} THEN None ELSE files[Order[Last(Places(p))]][p]

FromCheckout(v) ==
    /\ v # None
    /\ IF v.form = "short" THEN v.source = "checkout"
       ELSE v.type = "bind" /\ v.source \in {"checkout", "bare"}

\* test -x or test -r in the service.
Usable(p) ==
    IF FromCheckout(Effective(p)) THEN SourceFits(p) ELSE p \in elsewhere

-----------------------------------------------------------------------------
Go(label) == pc' = label /\ UNCHANGED faulted
Refuse == Go("refused")
Fault(label) == pc' = label /\ faulted' = TRUE

\* validateDrupalTemplatePrograms, first half: exists, is a regular file and no
\* link, is executable.
CheckSources ==
    /\ pc = "sources"
    /\ \/ Go(IF \A s \in Sources : SourceFits(s) THEN "search" ELSE "refused")
       \/ Fault("refused")
    /\ UNCHANGED <<checkout, elsewhere, searched, found, left>>

IsNext(f) ==
    \E i \in DOMAIN Candidates :
        Candidates[i] = f /\ f \notin searched
            /\ \A j \in 1 .. i - 1 : Candidates[j] \in searched

\* Mutant: what another file binds is forgotten.
SearchLastOnly(f) ==
    /\ pc = "search" /\ IsNext(f)
    /\ searched' = searched \cup {f}
    /\ \/ /\ files[f] = None
          /\ Go(pc) /\ UNCHANGED found
       \/ /\ files[f] = Malformed \/ (Parsed(f) /\ Conflict(f))
          /\ Refuse /\ UNCHANGED found
       \/ /\ Parsed(f) /\ ~Conflict(f)
          /\ Go(pc) /\ found' = Bound(f)
       \/ Fault("refused") /\ UNCHANGED found
    /\ UNCHANGED <<checkout, elsewhere, left>>

\* Mutant: a file that is bound right elsewhere may bind wrong here.
SearchWithoutConflict(f) ==
    /\ pc = "search" /\ IsNext(f)
    /\ searched' = searched \cup {f}
    /\ \/ files[f] = None /\ Go(pc) /\ UNCHANGED found
       \/ files[f] = Malformed /\ Refuse /\ UNCHANGED found
       \/ Parsed(f) /\ Go(pc) /\ found' = found \cup Bound(f)
       \/ Fault("refused") /\ UNCHANGED found
    /\ UNCHANGED <<checkout, elsewhere, left>>

\* One Compose file, for every program.
Search(f) ==
    /\ pc = "search" /\ IsNext(f)
    /\ searched' = searched \cup {f}
    /\ \/ /\ files[f] = None
          /\ Go(pc) /\ UNCHANGED found
       \/ /\ files[f] = Malformed \/ (Parsed(f) /\ Conflict(f))
          /\ Refuse /\ UNCHANGED found
       \/ /\ Parsed(f) /\ ~Conflict(f)
          /\ Go(pc) /\ found' = found \cup Bound(f)
       \/ Fault("refused") /\ UNCHANGED found
    /\ UNCHANGED <<checkout, elsewhere, left>>

AllSearched == \A i \in DOMAIN Candidates : Candidates[i] \in searched

\* Mutant: one file is enough, whatever it binds.
SearchedAnyFile ==
    /\ pc = "search" /\ AllSearched
    /\ IF \E f \in searched : Exists(f) THEN Go("preflight") ELSE Refuse
    /\ UNCHANGED <<checkout, elsewhere, searched, found, left>>

Searched ==
    /\ pc = "search" /\ AllSearched
    /\ IF (\E f \in searched : Exists(f)) /\ found = Programs
       THEN Go("preflight") ELSE Refuse
    /\ UNCHANGED <<checkout, elsewhere, searched, found, left>>

\* The tracked script is run on the host; what else it checks is its own.
RunPreflight ==
    /\ pc = "preflight"
    /\ Go("config") \/ Fault("refused")
    /\ UNCHANGED <<checkout, elsewhere, searched, found, left>>

\* Mutant: the preflight script, which is no mount, is probed as well.
ComposeConfigForRequired ==
    /\ pc = "config"
    /\ \/ Go(IF \A f \in Used : Acceptable(f) THEN "probe" ELSE "refused")
       \/ Fault("refused")
    /\ left' = Sources
    /\ UNCHANGED <<checkout, elsewhere, searched, found>>

\* docker compose config.
ComposeConfig ==
    /\ pc = "config"
    /\ \/ Go(IF \A f \in Used : Acceptable(f) THEN "probe" ELSE "refused")
       \/ Fault("refused")
    /\ left' = Programs
    /\ UNCHANGED <<checkout, elsewhere, searched, found>>

\* docker compose run --entrypoint test, for each program.
Probe(p) ==
    /\ pc = "probe" /\ p \in left
    /\ \/ Go(IF Usable(p) THEN pc ELSE "refused")
       \/ Fault("refused")
    /\ left' = left \ {p}
    /\ UNCHANGED <<checkout, elsewhere, searched, found>>

Approve ==
    /\ pc = "probe" /\ left = {}
    /\ Go("stop")
    /\ UNCHANGED <<checkout, elsewhere, searched, found, left>>

\* docker compose down.
Stop ==
    /\ pc = "stop"
    /\ Go("build") \/ Fault("failed")
    /\ UNCHANGED <<checkout, elsewhere, searched, found, left>>

\* docker compose pull and build: another image, with or without programs.
Build ==
    /\ pc = "build"
    /\ Go("start") \/ Fault("failed")
    /\ elsewhere' \in SUBSET Programs
    /\ UNCHANGED <<checkout, searched, found, left>>

\* docker compose up of the drupal service alone.
StartDrupal ==
    /\ pc = "start"
    /\ Go("run") \/ Fault("failed")
    /\ left' = {Rollout[i] : i \in DOMAIN Rollout}
    /\ UNCHANGED <<checkout, elsewhere, searched, found>>

\* docker compose exec of the next program of the rollout.
RunProgram ==
    /\ pc = "run" /\ left # {}
    /\ \E i \in DOMAIN Rollout :
          /\ Rollout[i] \in left
          /\ \A j \in 1 .. i - 1 : Rollout[j] \notin left
          /\ Go(IF Usable(Rollout[i]) THEN pc ELSE "failed") \/ Fault("failed")
          /\ left' = left \ {Rollout[i]}
    /\ UNCHANGED <<checkout, elsewhere, searched, found>>

\* docker compose up of all services.
StartAll ==
    /\ pc = "run" /\ left = {}
    /\ Go("up") \/ Fault("failed")
    /\ UNCHANGED <<checkout, elsewhere, searched, found, left>>

Contents == {None, Malformed} \cup
    {volumes \in [Programs -> UNION {Volumes[p] : p \in Programs} \cup {None}] :
        \A p \in Programs : volumes[p] \in Volumes[p] \cup {None}}

Started ==
    /\ elsewhere \in SUBSET Programs
    /\ pc = "sources" /\ searched = {} /\ found = {} /\ left = {} /\ faulted = FALSE

Init ==
    /\ list \in Lists
    /\ sources \in [Sources -> Kinds]
    /\ files \in [Files -> Contents]
    /\ Started

Next ==
    \/ CheckSources \/ (\E f \in Files : Search(f)) \/ Searched
    \/ RunPreflight \/ ComposeConfig \/ (\E p \in Programs : Probe(p)) \/ Approve
    \/ Stop \/ Build \/ StartDrupal \/ RunProgram \/ StartAll

Spec == Init /\ [][Next]_vars

-----------------------------------------------------------------------------
(* What the checks are for.                                                *)

\* Every variable has its type; what is found is bound in a file searched.
TypeOK ==
    /\ pc \in Labels /\ faulted \in BOOLEAN
    /\ sources \in [Sources -> Kinds] /\ list \in Lists
    /\ searched \subseteq Files /\ found \subseteq Programs
    /\ left \subseteq Programs /\ elsewhere \subseteq Programs
    /\ \A p \in found : \E f \in searched : Parsed(f) /\ p \in Bound(f)

\* The plugin reads the files that Compose uses, and no others.
SeesWhatIsUsed == {f \in {Candidates[i] : i \in DOMAIN Candidates} : Exists(f)} = Used

Anonymous(v) == v # None /\ v.form = "short" /\ v.source = ""
Required(v) == v.readOnly /\ FromCheckout(v)

Stopped == pc \in {"build", "start", "run", "up", "failed"}

\* The services are stopped only when every program is bound from the checkout,
\* read-only and fit for its use, in every Compose file that has its target: no
\* later file takes the bind back.  A volume without a source is not seen.
\* Whichever files Compose uses and whatever it makes of them, every program
\* can then be used in the service.
StoppedOnlyWhenBound ==
    /\ Stopped /\ SeesWhatIsUsed =>
         \A p \in Programs :
             /\ SourceFits(p)
             /\ Mounts(p) # {}
             /\ \A v \in Mounts(p) : Anonymous(v) \/ Required(v)
    /\ pc \in {"stop", "build"} => \A p \in Programs : Usable(p)

\* Once the services are stopped, the rollout does not fail for want of a
\* program, whatever image is pulled or built in between.
RolloutHasItsPrograms ==
    pc = "failed" /\ SeesWhatIsUsed =>
        faulted \/ \E p \in Programs : Anonymous(Effective(p))

\* A checkout that binds every program as it should, in any of the files and
\* in any of the forms, is not refused.
Conforming ==
    /\ SeesWhatIsUsed
    /\ \A s \in Sources : SourceFits(s)
    /\ \A f \in Used : Acceptable(f)
    /\ \A p \in Programs : Mounts(p) # {} /\ \A v \in Mounts(p) : Required(v)

ConformingIsDeployed == pc = "refused" => faulted \/ ~Conforming
=============================================================================
