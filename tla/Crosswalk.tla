----------------------------- MODULE Crosswalk -----------------------------
(***************************************************************************)
(* `sitectl drupal crosswalk profile create` and `... crosswalk serve`     *)
(* (cmd/crosswalk.go): one command, which gathers what the Crosswalk        *)
(* executable needs from the site and runs it as a child.                  *)
(*                                                                         *)
(* `create` exports the configuration and streams part of it through the   *)
(* bounded writer of pkg/jobs into a private temporary file, which is      *)
(* removed when the command ends.  `serve` filters the arguments it is     *)
(* given and adds the JSON:API endpoint of the site.  The context of the   *)
(* command may be cancelled at any time; the child is then interrupted and, *)
(* ten seconds later, killed.  Docker, the files of the host, the context  *)
(* arguments of sitectl and the executable are external.                   *)
(***************************************************************************)
EXTENDS Integers, Sequences

CONSTANTS
    Maximum,    \* bytes of an archive, compressed
    Archives,   \* sizes of the archive the site makes; 0 is no matching file
    Words,      \* arguments that are not options, "" among them
    Arguments,  \* argument lists of serve
    Current,    \* the site when no context is named
    None

Institution == {"scheme", "namespace", "pattern"}
Options == {"context", "jsonapi", "profile", "address"}

\* An argument: a word, --name or --name=value.  Flag("") is the separator --.
Word(w) == [name |-> None, value |-> w]
Flag(n) == [name |-> n, value |-> None]
Set(n, w) == [name |-> n, value |-> w]
IsBare(a) == a.name # None /\ a.value = None

Tokens ==
    {Word(w) : w \in Words} \cup {Flag(n) : n \in Options \cup {"help", ""}}
        \cup {Set(n, w) : n \in Options, w \in Words}

Outcomes == {"help", "refused", "failed", "cancelled", "ok"}

Requests ==
    [command : {"create"}, blank : BOOLEAN,
     institution : SUBSET Institution, policy : BOOLEAN]
        \cup [command : {"serve"}, args : Arguments]

ASSUME SizesAssumption == Maximum \in Nat \ {0} /\ Archives \subseteq Nat
ASSUME ArgumentsAssumption ==
    /\ "" \in Words /\ Arguments \subseteq Seq(Tokens)
    /\ None \notin Nat \cup Outcomes \cup Words \cup Options \cup {"help", ""}

VARIABLES
    request,    \* the command and its options; never changes
    archive,    \* the size of the archive that the site makes
    pc,
    file,       \* bytes in the temporary file, or None
    sent,       \* bytes the site has sent
    remaining,  \* maximumBytesWriter.remaining
    child,      \* the Crosswalk process
    passed,     \* the arguments of serve's child, the options of create's
    result,     \* what the command returns
    cancelled,  \* the context of the command is
    faulted,    \* a call failed
    kept        \* the removal of the file did

vars == <<request, archive, pc, file, sent, remaining, child, passed, result,
          cancelled, faulted, kept>>
inputs == <<request, archive>>
stream == <<sent, remaining>>
process == <<child, passed>>

Labels == {"validate", "context", "temp", "export", "stream", "sync", "inspect",
           "endpoint", "locate", "start", "child", "cleanup", "ended", "crashed"}
Results == Outcomes \cup {None}

-----------------------------------------------------------------------------
(* The options of create and the arguments of serve.                       *)

\* crosswalkProfileCreateOptions.validate; policy is an institution attribute
\* or identity level that is not the default.
CreateIsValid ==
    /\ ~request.blank
    /\ request.institution \in {{}, Institution}
    /\ request.policy => request.institution # {}

\* What create's child is told of the institution.
CreatePasses == IF "scheme" \in request.institution
                THEN request.institution \cup {"policy"} ELSE {}

\* helpers.GetContextFromArgs: an option without a value takes what follows.
WithoutContext(args) ==
    LET consumed[i \in 1 .. Len(args)] ==
            i > 1 /\ args[i - 1] = Flag("context") /\ ~consumed[i - 1]
        keep[i \in 0 .. Len(args)] ==
            IF i = 0 THEN <<>>
            ELSE IF consumed[i] \/ args[i].name = "context" THEN keep[i - 1]
            ELSE Append(keep[i - 1], args[i])
    IN keep[Len(args)]

ContextValue(args) ==
    LET named == {i \in DOMAIN args : args[i].name = "context" /\
                    ~(IsBare(args[i]) /\ i = Len(args))}
    IN IF named = {} THEN ""
       ELSE LET i == CHOOSE j \in named : \A k \in named : k <= j
            IN IF IsBare(args[i]) THEN args[i + 1].value ELSE args[i].value

\* optionValue: of the first argument with this name.
OptionValue(args, name) ==
    LET at == {i \in DOMAIN args : args[i].name = name}
    IN IF at = {} THEN None
       ELSE LET i == CHOOSE j \in at : \A k \in at : j <= k
            IN IF ~IsBare(args[i]) THEN args[i].value
               ELSE IF i < Len(args) /\ args[i + 1].name = None
               THEN args[i + 1].value ELSE ""

\* optionMissingValue.
MissesValue(args, name) ==
    \E i \in DOMAIN args : args[i].name = name /\
        \/ IsBare(args[i]) /\ (i = Len(args) \/ args[i + 1].name # None)
        \/ args[i].value = ""

ServeIsValid ==
    LET filtered == WithoutContext(request.args)
    IN /\ ~MissesValue(request.args, "context")
       /\ OptionValue(filtered, "jsonapi") = None
       /\ OptionValue(filtered, "profile") \notin {None, ""}

\* The command line as pflag reads it: the last value of every option.  An
\* option takes what follows it, and nothing is read behind the separator.
ReadAs(args, name) ==
    LET read[i \in 1 .. Len(args) + 2] ==
            IF i > Len(args) \/ args[i] = Flag("") THEN None
            ELSE LET bare == IsBare(args[i])
                     rest == read[IF bare THEN i + 2 ELSE i + 1]
                     value == IF ~bare THEN args[i].value
                              ELSE IF i < Len(args) THEN args[i + 1].value ELSE None
                 IN IF rest = None /\ args[i].name = name THEN value ELSE rest
    IN read[1]

\* The site that `--context` names.
Site(context) == IF context \in {None, ""} THEN Current ELSE context

-----------------------------------------------------------------------------
(* How a step ends.                                                        *)

Go(label) == pc' = label /\ UNCHANGED <<result, faulted>>

\* Mutant: the file is removed only when the child had its turn.
UnwindAfterChild ==
    IF pc \in {"locate", "start", "child"} /\ file # None THEN "cleanup" ELSE "ended"

\* Every error return behind CreateTemp comes past the removal of the file.
Unwind == IF file = None THEN "ended" ELSE "cleanup"
End(r) == pc' = Unwind /\ result' = r /\ UNCHANGED faulted
Refuse == End("refused")
Fault == pc' = Unwind /\ result' = "failed" /\ faulted' = TRUE

Quiet == UNCHANGED <<inputs, cancelled, kept>>

Validate ==
    /\ pc = "validate"
    /\ \/ /\ request.command = "create"
          /\ IF CreateIsValid THEN Go("context") ELSE Refuse
       \/ /\ request.command = "serve"
          /\ IF \E i \in DOMAIN request.args : request.args[i] = Flag("help")
             THEN End("help")
             ELSE IF ServeIsValid THEN Go("context") ELSE Refuse
    /\ Quiet /\ UNCHANGED <<file, stream, process>>

ResolveContext ==
    /\ pc = "context"
    /\ Go(IF request.command = "create" THEN "temp" ELSE "endpoint") \/ Fault
    /\ Quiet /\ UNCHANGED <<file, stream, process>>

\* endpoint.JSONAPI; an empty URL is an error too.
ResolveEndpoint ==
    /\ pc = "endpoint"
    /\ \/ /\ Go("locate")
          /\ passed' = WithoutContext(request.args) \o
                 <<Flag("jsonapi"), Word(Site(ContextValue(request.args)))>>
       \/ Fault /\ UNCHANGED passed
    /\ Quiet /\ UNCHANGED <<file, stream, child>>

CreateTemp ==
    /\ pc = "temp"
    /\ \/ Go("export") /\ file' = 0
       \/ Fault /\ UNCHANGED file
    /\ Quiet /\ UNCHANGED <<stream, process>>

\* The Drupal container is found and drush cex run.
Export ==
    /\ pc = "export"
    /\ Go("stream") \/ Fault
    /\ Quiet /\ UNCHANGED <<file, stream, process>>

\* Mutant: what exceeds the maximum is dropped in silence.
WriteSilently(n) ==
    /\ pc = "stream" /\ n \in 1 .. archive - sent
    /\ \E taken \in 0 .. IF n <= remaining THEN n ELSE remaining :
          /\ file' = file + taken
          /\ remaining' = remaining - taken
          /\ taken = n \/ taken = remaining
          /\ Go(pc)
    /\ sent' = sent + n
    /\ Quiet /\ UNCHANGED process

\* Mutant: bytes that a failing file took are not counted.
WriteUncounted(n) ==
    /\ pc = "stream" /\ n \in 1 .. archive - sent
    /\ \E taken \in 0 .. IF n <= remaining THEN n ELSE remaining :
          /\ file' = file + taken
          /\ \/ taken = n /\ Go(pc) /\ remaining' = remaining - n
             \/ taken < n /\ Fault /\ UNCHANGED remaining
    /\ sent' = sent + n
    /\ Quiet /\ UNCHANGED process

\* maximumBytesWriter.Write of n bytes, to a file that takes fewer when it
\* fails.  An error of the writer ends the stream.
Write(n) ==
    /\ pc = "stream" /\ n \in 1 .. archive - sent
    /\ \E taken \in 0 .. IF n <= remaining THEN n ELSE remaining :
          /\ file' = file + taken
          /\ remaining' = remaining - taken
          /\ \/ taken = n /\ Go(pc)
             \/ taken < n /\ taken = remaining /\ Refuse
             \/ taken < n /\ Fault
    /\ sent' = sent + n
    /\ Quiet /\ UNCHANGED process

\* The script has sent everything; it fails when no file matched.
StreamEnds ==
    /\ pc = "stream"
    /\ \/ sent = archive /\ (IF archive > 0 THEN Go("sync") ELSE Refuse)
       \/ Fault
    /\ Quiet /\ UNCHANGED <<file, stream, process>>

SyncAndClose ==
    /\ pc = "sync"
    /\ Go("inspect") \/ Fault
    /\ Quiet /\ UNCHANGED <<file, stream, process>>

InspectSnapshot ==
    /\ pc = "inspect"
    /\ \/ /\ file \in 1 .. Maximum
          /\ Go("locate") /\ passed' = CreatePasses
       \/ /\ file \notin 1 .. Maximum
          /\ Refuse /\ UNCHANGED passed
       \/ Fault /\ UNCHANGED passed
    /\ Quiet /\ UNCHANGED <<file, stream, child>>

Locate ==
    /\ pc = "locate"
    /\ Go("start") \/ Fault
    /\ Quiet /\ UNCHANGED <<file, stream, process>>

StartChild ==
    /\ pc = "start"
    /\ \/ ~cancelled /\ Go("child") /\ child' = "running"
       \/ cancelled /\ End("cancelled") /\ UNCHANGED child
       \/ Fault /\ UNCHANGED child
    /\ Quiet /\ UNCHANGED <<file, stream, passed>>

\* The context is cancelled while the child runs.
Interrupt ==
    /\ pc = "child" /\ cancelled /\ child = "running"
    /\ child' = "interrupted"
    /\ Go(pc) /\ Quiet /\ UNCHANGED <<file, stream, passed>>

\* A success after the interrupt is reported as the cancellation.
ChildExits(success) ==
    /\ pc = "child"
    /\ child' = "exited"
    /\ IF success
       THEN End(IF child = "interrupted" THEN "cancelled" ELSE "ok")
       ELSE Fault
    /\ Quiet /\ UNCHANGED <<file, stream, passed>>

\* Ten seconds after the interrupt.
Kill ==
    /\ pc = "child" /\ child = "interrupted"
    /\ child' = "exited" /\ Fault
    /\ Quiet /\ UNCHANGED <<file, stream, passed>>

\* The deferred removal, whose error is ignored.
Cleanup ==
    /\ pc = "cleanup" /\ Go("ended")
    /\ \/ file' = None /\ UNCHANGED kept
       \/ kept' = TRUE /\ UNCHANGED file
    /\ UNCHANGED <<inputs, stream, process, cancelled>>

-----------------------------------------------------------------------------
(* The environment.                                                        *)

Cancel ==
    /\ ~cancelled /\ pc \notin {"ended", "crashed"}
    /\ cancelled' = TRUE
    /\ UNCHANGED <<inputs, pc, file, stream, process, result, faulted, kept>>

\* A call that was given the cancelled context returns.
Abort ==
    /\ cancelled /\ pc \in {"endpoint", "export", "stream"}
    /\ Fault /\ Quiet /\ UNCHANGED <<file, stream, process>>

\* The process dies, the child with it or not.
Crash ==
    /\ pc \notin {"ended", "crashed"}
    /\ pc' = "crashed"
    /\ UNCHANGED <<inputs, file, stream, process, result, cancelled, faulted, kept>>

Init ==
    /\ request \in Requests
    /\ archive \in IF request.command = "create" THEN Archives ELSE {0}
    /\ pc = "validate" /\ file = None /\ sent = 0 /\ remaining = Maximum
    /\ child = "none" /\ passed = None /\ result = None
    /\ cancelled = FALSE /\ faulted = FALSE /\ kept = FALSE

Next ==
    \/ Validate \/ ResolveContext \/ ResolveEndpoint
    \/ CreateTemp \/ Export \/ (\E n \in 1 .. archive : Write(n)) \/ StreamEnds
    \/ SyncAndClose \/ InspectSnapshot
    \/ Locate \/ StartChild \/ Interrupt
    \/ (\E success \in BOOLEAN : ChildExits(success)) \/ Kill
    \/ Cleanup \/ Cancel \/ Abort \/ Crash

Local ==
    \/ Validate \/ ResolveContext \/ CreateTemp \/ SyncAndClose
    \/ InspectSnapshot \/ Locate \/ StartChild \/ Cleanup

Spec == Init /\ [][Next]_vars

\* Calls on the host return; those on the site only once they are cancelled.
\* The child may run forever, but the signals reach it.
FairSpec ==
    Spec /\ WF_vars(Local) /\ WF_vars(Abort) /\ WF_vars(Interrupt) /\ WF_vars(Kill)

-----------------------------------------------------------------------------
(* What the command promises.                                              *)

\* Every variable has its type, and what the writer still takes and what the
\* file holds make up the maximum.
TypeOK ==
    /\ pc \in Labels /\ result \in Results
    /\ request \in Requests /\ archive \in Archives \cup {0}
    /\ file \in 0 .. Maximum \cup {None} /\ sent \in 0 .. archive
    /\ remaining \in 0 .. Maximum
    /\ file # None => file + remaining = Maximum
    /\ child \in {"none", "running", "interrupted", "exited"}
    /\ cancelled \in BOOLEAN /\ faulted \in BOOLEAN /\ kept \in BOOLEAN

\* Arguments that every reader understands alike: no option takes another for its
\* value, none is given twice.
WellFormed(args) ==
    /\ \A i \in DOMAIN args :
          /\ args[i].name \notin {"", "help"}
          /\ IsBare(args[i]) => i < Len(args) /\ args[i + 1].name = None
    /\ \A i, j \in DOMAIN args :
          args[i].name = args[j].name /\ args[i].name # None => i = j

\* What create's child reads is the whole archive; the institution it is told
\* of is the one that was given, policy included.
CreateIsServed ==
    /\ file = archive /\ archive \in 1 .. Maximum
    /\ passed \ {"policy"} = request.institution
    /\ request.policy => "policy" \in passed

\* What serve's child reads is the endpoint of the site that was named, a
\* profile, and every other option as it was given.
ServeIsServed ==
    /\ ReadAs(passed, "jsonapi") = Site(ReadAs(request.args, "context"))
    /\ ReadAs(passed, "profile") \notin {None, ""}
    /\ ReadAs(passed, "context") = None
    /\ ReadAs(passed, "address") = ReadAs(request.args, "address")

\* What a command that is not refused looks like.
Servable ==
    \/ /\ request.command = "create" /\ CreateIsValid
       /\ archive \in 1 .. Maximum
    \/ /\ request.command = "serve" /\ WellFormed(request.args)
       /\ ReadAs(request.args, "jsonapi") = None
       /\ ReadAs(request.args, "profile") \notin {None, ""}
       /\ ReadAs(request.args, "context") # ""

\* The child is started with what it needs from the site, and only lack of it,
\* or a call that failed, keeps it from being started: an archive of exactly
\* the maximum is taken, and no option of another spelling is let past.
InputsDecide ==
    /\ pc = "child" =>
          \/ request.command = "create" /\ CreateIsServed
          \/ /\ request.command = "serve"
             /\ WellFormed(request.args) => ServeIsServed
    /\ result = "refused" => ~Servable

\* Once the command is cancelled, refused or failed, or its child has ended, the
\* command ends and leaves no snapshot, although the child may ignore the
\* interrupt; unless the process dies or the file cannot be removed.
EndingLeavesNothing ==
    (cancelled \/ result # None) ~>
        \/ pc = "crashed"
        \/ pc = "ended" /\ result # None /\ (file = None \/ kept)
=============================================================================
