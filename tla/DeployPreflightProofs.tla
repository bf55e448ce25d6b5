----------------------- MODULE DeployPreflightProofs -----------------------
(***************************************************************************)
(* Proofs about DeployPreflight: for any programs, Compose files, volumes  *)
(* and settings.                                                           *)
(***************************************************************************)
EXTENDS DeployPreflight, WellFoundedInduction, TLAPS

-----------------------------------------------------------------------------
(* The first and the last of some positions.                               *)

LEMMA Smallest ==
    ASSUME NEW T \in SUBSET Nat, T # {}
    PROVE  \E x \in T : \A y \in T : x <= y
<1> DEFINE Less == {ss \in Nat \X Nat : ss[1] < ss[2]}
<1>1. IsWellFoundedOn(Less, Nat)
  BY NatLessThanWellFounded DEF OpToRel
<1>2. PICK x \in T : \A y \in T : <<y, x>> \notin Less
  <2> HIDE DEF Less
  <2> QED
    BY <1>1, WFMin
<1>3. \A y \in T : ~(y < x)
  <2> TAKE y \in T
  <2>1. x \in Nat /\ y \in Nat
    OBVIOUS
  <2>2. y < x => <<y, x>> \in Less
    BY <2>1, Z3
  <2> QED
    BY <2>2, <1>2
<1>4. \A y \in T : x <= y
  <2> HIDE DEF Less
  <2> QED
    BY <1>3
<1> QED
  BY <1>4

LEMMA Largest ==
    ASSUME NEW n \in Nat, NEW T \in SUBSET (1 .. n), T # {}
    PROVE  \E x \in T : \A y \in T : y <= x
<1> DEFINE R == {n - x : x \in T}
<1>1. R # {}
  OBVIOUS
<1>2. R \in SUBSET Nat
  <2>1. \A x \in T : n - x \in Nat
    OBVIOUS
  <2> QED
    BY <2>1
<1>3. PICK m \in R : \A k \in R : m <= k
  <2> HIDE DEF R
  <2> QED
    BY <1>1, <1>2, Smallest
<1>4. PICK x \in T : m = n - x
  OBVIOUS
<1>5. \A y \in T : n - x <= n - y
  <2>1. \A y \in T : n - y \in R
    OBVIOUS
  <2> HIDE DEF R
  <2> QED
    BY <1>3, <1>4, <2>1
<1>6. \A y \in T : y <= x
  <2> HIDE DEF R
  <2> QED
    BY <1>5
<1> QED
  BY <1>6

-----------------------------------------------------------------------------
(* The inductive invariant.                                                *)

FilesTyped == files \in [Files -> Contents] /\ sources \in [Sources -> Kinds]

OnlyCandidates == \A f \in searched : \E i \in DOMAIN Candidates : Candidates[i] = f

SourcesFit == \A s \in Sources : SourceFits(s)

\* No file that was searched takes back what another one binds.
SearchedIsClean ==
    \A f \in searched :
        files[f] = None \/ (Parsed(f) /\ ~Conflict(f) /\ Bound(f) \subseteq found)

Accepted == \A f \in Used : Acceptable(f)

\* What every approved checkout has.
AllRequired ==
    SeesWhatIsUsed =>
        \A p \in Programs :
            /\ Mounts(p) # {}
            /\ \A v \in Mounts(p) : Anonymous(v) \/ Required(v)

HasItsPrograms ==
    SeesWhatIsUsed => faulted \/ \E p \in Programs : Anonymous(Effective(p))

\* The probes that are over found their programs.
ProbedAreUsable ==
    /\ pc = "probe" => \A p \in Programs \ left : Usable(p)
    /\ pc \in {"stop", "build"} => \A p \in Programs : Usable(p)

IInv ==
    /\ ProbedAreUsable
    /\ TypeOK /\ FilesTyped /\ OnlyCandidates
    /\ pc \notin {"sources", "refused"} => SourcesFit
    /\ pc # "refused" => SearchedIsClean
    /\ pc \notin {"sources", "search", "refused"} => AllSearched /\ found = Programs
    /\ pc \notin {"sources", "search", "preflight", "config", "refused"} => Accepted
    /\ pc = "run" => left \subseteq {Rollout[i] : i \in DOMAIN Rollout}
    /\ pc = "failed" => HasItsPrograms
    /\ ConformingIsDeployed

-----------------------------------------------------------------------------
(* What holds of a checkout.                                               *)

LEMMA MentionedIsVolume ==
    ASSUME FilesTyped, NEW f \in Files, NEW p \in Programs, Mentions(f, p)
    PROVE  files[f][p] \in VolumeRecords /\ files[f][p] # None
<1>1. files[f] \in Contents /\ files[f] \notin {None, Malformed}
  BY DEF FilesTyped, Mentions, Parsed
<1>2. files[f][p] \in Volumes[p] \cup {None}
  BY <1>1 DEF Contents
<1>3. Volumes[p] \subseteq VolumeRecords
  BY FilesAssumption
<1> QED
  BY <1>2, <1>3 DEF Mentions

LEMMA CandidatesAreFiles ==
    ASSUME list \in Lists
    PROVE  \A i \in DOMAIN Candidates : Candidates[i] \in Files
BY FilesAssumption DEF Candidates

LEMMA UsedAreFiles == ASSUME list \in Lists PROVE Used \subseteq Files
BY FilesAssumption DEF Used

\* A volume that the search accepts and Compose too is one as required.
LEMMA AcceptedVolume ==
    ASSUME NEW v \in VolumeRecords, v # None, WellFormed(v),
           SeesTarget(v) => Matches(v)
    PROVE  Anonymous(v) \/ Required(v)
<1>1. v.form \in {"short", "long"} /\ v.type \in {"", "bind", "volume"}
      /\ v.source \in {"", "checkout", "bare", "elsewhere"}
  BY DEF VolumeRecords
<1> QED
  BY <1>1 DEF WellFormed, SeesTarget, Matches, Anonymous, Required, FromCheckout

\* The reverse: what is required and accepted is seen as a match.
LEMMA RequiredMatches ==
    ASSUME NEW v \in VolumeRecords, WellFormed(v), Required(v)
    PROVE  SeesTarget(v) /\ Matches(v)
<1>1. v.form \in {"short", "long"}
  BY DEF VolumeRecords
<1> QED
  BY <1>1 DEF WellFormed, SeesTarget, Matches, Required, FromCheckout

LEMMA ApprovedIsRequired ==
    ASSUME TypeOK, FilesTyped, OnlyCandidates, SearchedIsClean, AllSearched,
           found = Programs, Accepted
    PROVE  AllRequired
<1> SUFFICES ASSUME SeesWhatIsUsed, NEW p \in Programs
             PROVE  /\ Mounts(p) # {}
                    /\ \A v \in Mounts(p) : Anonymous(v) \/ Required(v)
  BY DEF AllRequired
<1>1. list \in Lists /\ searched \subseteq Files
  BY DEF TypeOK
<1>2. \A f \in Used : f \in Files /\ f \in searched /\ files[f] # None
  BY <1>1, CandidatesAreFiles DEF SeesWhatIsUsed, AllSearched, Exists
<1>3. Mounts(p) # {}
  <2>1. PICK f \in searched : Parsed(f) /\ p \in Bound(f)
    BY DEF TypeOK
  <2>2. Mentions(f, p)
    BY <2>1 DEF Bound
  <2>3. f \in Used
    <3>1. Exists(f)
      BY <2>1 DEF Exists, Parsed
    <3> QED
      BY <2>1, <3>1 DEF SeesWhatIsUsed, OnlyCandidates
  <2> QED
    BY <2>2, <2>3 DEF Mounts
<1>4. ASSUME NEW v \in Mounts(p) PROVE Anonymous(v) \/ Required(v)
  <2>1. PICK f \in Used : Mentions(f, p) /\ v = files[f][p]
    BY DEF Mounts
  <2>2. v \in VolumeRecords /\ v # None
    BY <1>2, <2>1, MentionedIsVolume
  <2>3. WellFormed(v)
    BY <2>1 DEF Accepted, Acceptable
  <2>4. ~Conflict(f)
    BY <1>2, <2>1 DEF SearchedIsClean
  <2>5. SeesTarget(v) => Matches(v)
    BY <2>1, <2>4 DEF Conflict
  <2> QED
    BY <2>2, <2>3, <2>5, AcceptedVolume
<1> QED
  BY <1>3, <1>4

LEMMA EffectiveIsMounted ==
    ASSUME list \in Lists, NEW p \in Programs, Mounts(p) # {}
    PROVE  Effective(p) \in Mounts(p)
<1>1. Order \in Seq(Files)
  BY FilesAssumption DEF Order
<1>2. \A f \in Used : \E i \in DOMAIN Order : Order[i] = f
  <2>1. CASE list # <<>>
    BY <2>1 DEF Used, Order
  <2>2. CASE list = <<>>
    <3>1. Order = Append(Defaults, Override) /\ Defaults \in Seq(Files)
      BY <2>2, FilesAssumption DEF Order
    <3>2. /\ Len(Defaults) \in Nat /\ DOMAIN Defaults = 1 .. Len(Defaults)
          /\ DOMAIN Order = 1 .. Len(Defaults) + 1
          /\ Order[Len(Defaults) + 1] = Override
          /\ \A i \in DOMAIN Defaults : Order[i] = Defaults[i]
      BY <3>1
    <3>3. \A f \in Used : f = Override \/ \E i \in DOMAIN Defaults : Defaults[i] = f
      BY <2>2 DEF Used
    <3> QED
      BY <3>2, <3>3
  <2> QED
    BY <2>1, <2>2
<1>3. Places(p) \in SUBSET (1 .. Len(Order)) /\ Len(Order) \in Nat
  BY <1>1 DEF Places
<1>4. Places(p) # {}
  <2>1. PICK f \in Used : Mentions(f, p)
    BY DEF Mounts
  <2> QED
    BY <1>2, <2>1 DEF Places
<1>5. Last(Places(p)) \in Places(p)
  <2>1. \E i \in Places(p) : \A j \in Places(p) : j <= i
    BY <1>3, <1>4, Largest
  <2> QED
    BY <2>1 DEF Last
<1> QED
  BY <1>4, <1>5 DEF Effective, Mounts, Places

LEMMA RequiredIsUsable ==
    ASSUME list \in Lists, AllRequired, SeesWhatIsUsed, SourcesFit,
           NEW p \in Programs, ~Usable(p)
    PROVE  Anonymous(Effective(p))
<1>1. Effective(p) \in Mounts(p)
  BY EffectiveIsMounted DEF AllRequired
<1>2. Anonymous(Effective(p)) \/ FromCheckout(Effective(p))
  BY <1>1 DEF AllRequired, Required
<1>3. SourceFits(p)
  BY DEF SourcesFit, Sources
<1> QED
  BY <1>2, <1>3 DEF Usable
-----------------------------------------------------------------------------
(* The steps.                                                              *)

\* The checkout stays, and what is said of it alone stays true.
LEMMA CheckoutStays ==
    ASSUME UNCHANGED checkout
    PROVE  /\ FilesTyped => FilesTyped'
           /\ Candidates' = Candidates /\ Used' = Used
           /\ SourcesFit' = SourcesFit /\ Accepted' = Accepted
           /\ SeesWhatIsUsed' = SeesWhatIsUsed /\ Conforming' = Conforming
           /\ \A p : Effective(p)' = Effective(p)
           /\ elsewhere' = elsewhere => \A p : Usable(p)' = Usable(p)
           /\ \A f : /\ Parsed(f)' = Parsed(f) /\ Conflict(f)' = Conflict(f)
                     /\ Bound(f)' = Bound(f)
<1>1. files' = files /\ list' = list /\ sources' = sources
  BY DEF checkout
<1>2. Candidates' = Candidates /\ Order' = Order
  BY <1>1 DEF Candidates, Order
<1>3. \A f : Exists(f)' = Exists(f) /\ Parsed(f)' = Parsed(f)
  BY <1>1 DEF Exists, Parsed
<1>4. \A f, p : Mentions(f, p)' = Mentions(f, p)
  BY <1>1, <1>3 DEF Mentions
<1>5. Used' = Used
  BY <1>1, <1>3 DEF Used
<1>6. \A f : Conflict(f)' = Conflict(f) /\ Bound(f)' = Bound(f)
  BY <1>1, <1>4 DEF Conflict, Bound
<1>7. \A f : Acceptable(f)' = Acceptable(f)
  BY <1>1, <1>3, <1>4 DEF Acceptable
<1>8. \A p : Mounts(p)' = Mounts(p)
  BY <1>1, <1>4, <1>5 DEF Mounts
<1>9. \A p : Effective(p)' = Effective(p)
  <2>1. \A p : Places(p)' = Places(p)
    BY <1>2, <1>4, <1>5 DEF Places
  <2> QED
    BY <1>1, <1>2, <2>1 DEF Effective
<1>10. \A s : SourceFits(s)' = SourceFits(s)
  BY <1>1 DEF SourceFits
<1>11. SeesWhatIsUsed' = SeesWhatIsUsed
  BY <1>2, <1>3, <1>5 DEF SeesWhatIsUsed
<1>12. Accepted' = Accepted /\ SourcesFit' = SourcesFit
  BY <1>5, <1>7, <1>10 DEF Accepted, SourcesFit
<1>13. Conforming' = Conforming
  BY <1>5, <1>7, <1>8, <1>10, <1>11 DEF Conforming
<1>14. FilesTyped => FilesTyped'
  BY <1>1 DEF FilesTyped
<1>15. elsewhere' = elsewhere => \A p : Usable(p)' = Usable(p)
  BY <1>9, <1>10 DEF Usable
<1> QED
  BY <1>2, <1>3, <1>5, <1>6, <1>9, <1>11, <1>12, <1>13, <1>14, <1>15

\* A conforming checkout has a bind of every program in a file that is searched.
LEMMA ConformingIsFound ==
    ASSUME TypeOK, FilesTyped, SearchedIsClean, AllSearched, Conforming
    PROVE  /\ \E f \in searched : Exists(f)
           /\ found = Programs
<1>1. list \in Lists /\ SeesWhatIsUsed /\ found \subseteq Programs
  BY DEF TypeOK, Conforming
<1>2. \A f \in Used : f \in Files /\ f \in searched /\ Exists(f)
  BY <1>1, CandidatesAreFiles DEF SeesWhatIsUsed, AllSearched
<1>3. ASSUME NEW p \in Programs
      PROVE  p \in found /\ \E f \in searched : Exists(f)
  <2>1. PICK f \in Used : Mentions(f, p)
    BY DEF Conforming, Mounts
  <2>2. files[f][p] \in VolumeRecords /\ WellFormed(files[f][p])
    BY <1>2, <2>1, MentionedIsVolume DEF Conforming, Acceptable
  <2>3. Required(files[f][p])
    BY <2>1 DEF Conforming, Mounts
  <2>4. Matches(files[f][p])
    BY <2>2, <2>3, RequiredMatches
  <2>5. p \in Bound(f)
    BY <2>1, <2>4 DEF Bound
  <2>6. Bound(f) \subseteq found
    BY <1>2 DEF SearchedIsClean, Exists
  <2> QED
    BY <1>2, <2>5, <2>6
<1>4. \E p : p \in Programs
  BY ProgramsAssumption
<1> QED
  BY <1>1, <1>3, <1>4

\* Nor is one of its files refused.
LEMMA ConformingIsClean ==
    ASSUME TypeOK, FilesTyped, Conforming, NEW f \in Files,
           \E i \in DOMAIN Candidates : Candidates[i] = f
    PROVE  files[f] # Malformed /\ ~(Parsed(f) /\ Conflict(f))
<1>1. Exists(f) => f \in Used
  BY DEF Conforming, SeesWhatIsUsed
<1>2. files[f] # Malformed
  <2>1. SUFFICES ASSUME files[f] = Malformed PROVE FALSE
    OBVIOUS
  <2>2. Exists(f) /\ ~Parsed(f)
    BY <2>1, ContentsAssumption DEF Exists, Parsed
  <2> QED
    BY <1>1, <2>2 DEF Conforming, Acceptable
<1>3. ~(Parsed(f) /\ Conflict(f))
  <2>1. SUFFICES ASSUME Parsed(f), Conflict(f) PROVE FALSE
    OBVIOUS
  <2>2. f \in Used
    BY <1>1, <2>1 DEF Exists, Parsed
  <2>3. PICK p \in Programs : Mentions(f, p) /\ ~Matches(files[f][p])
    BY <2>1 DEF Conflict
  <2>4. files[f][p] \in VolumeRecords /\ WellFormed(files[f][p])
    BY <2>2, <2>3, MentionedIsVolume DEF Conforming, Acceptable
  <2>5. Required(files[f][p])
    BY <2>2, <2>3 DEF Conforming, Mounts
  <2> QED
    BY <2>3, <2>4, <2>5, RequiredMatches
<1> QED
  BY <1>2, <1>3

LEMMA IInvInit == Init => IInv
<1> SUFFICES ASSUME Init PROVE IInv
  OBVIOUS
<1> USE DEF Init, Started
<1>1. TypeOK
  BY DEF TypeOK, Labels
<1>2. FilesTyped
  BY DEF FilesTyped
<1> QED
  BY <1>1, <1>2 DEF IInv, OnlyCandidates, SearchedIsClean, ConformingIsDeployed, ProbedAreUsable

\* The types, for every step.
LEMMA TypesStay == ASSUME TypeOK, OnlyCandidates, [Next]_vars PROVE TypeOK' /\ OnlyCandidates'
<1> USE DEF TypeOK, OnlyCandidates
<1>1. CASE UNCHANGED <<checkout, searched, found>>
  <2>1. /\ sources' = sources /\ list' = list /\ files' = files
        /\ searched' = searched /\ found' = found
    BY <1>1 DEF checkout
  <2>2. /\ Candidates' = Candidates
        /\ \A f : Parsed(f)' = Parsed(f) /\ Bound(f)' = Bound(f)
    BY <1>1, CheckoutStays
  <2>3. pc' \in Labels /\ faulted' \in BOOLEAN
    BY DEF Next, CheckSources, Search, Searched, RunPreflight, ComposeConfig, Probe,
           Approve, Stop, Build, StartDrupal, RunProgram, StartAll, Go, Refuse, Fault,
           Labels, vars
  <2>4. left' \subseteq Programs
    <3>1. {Rollout[i] : i \in DOMAIN Rollout} \subseteq Programs
      BY ProgramsAssumption
    <3> QED
      BY <3>1 DEF Next, CheckSources, Search, Searched, RunPreflight, ComposeConfig,
           Probe, Approve, Stop, Build, StartDrupal, RunProgram, StartAll, vars
  <2>5. elsewhere' \subseteq Programs
    BY DEF Next, CheckSources, Search, Searched, RunPreflight, ComposeConfig, Probe,
           Approve, Stop, Build, StartDrupal, RunProgram, StartAll, vars
  <2> QED
    BY <2>1, <2>2, <2>3, <2>4, <2>5
<1>2. ASSUME NEW f \in Files, Search(f) PROVE TypeOK' /\ OnlyCandidates'
  <2>1. /\ sources' = sources /\ list' = list /\ files' = files
        /\ elsewhere' = elsewhere /\ left' = left
    BY <1>2 DEF Search, checkout
  <2>2. /\ Candidates' = Candidates
        /\ \A g : Parsed(g)' = Parsed(g) /\ Bound(g)' = Bound(g)
    BY <1>2, CheckoutStays DEF Search
  <2>3. pc' \in Labels /\ faulted' \in BOOLEAN
    BY <1>2 DEF Search, Go, Refuse, Fault, Labels
  <2>4. \E i \in DOMAIN Candidates : Candidates[i] = f
    BY <1>2 DEF Search, IsNext
  <2>5. searched' = searched \cup {f}
    BY <1>2 DEF Search
  <2>6. found' = found \/ (Parsed(f) /\ found' = found \cup Bound(f))
    BY <1>2 DEF Search
  <2>7. Bound(f) \subseteq Programs
    BY DEF Bound
  <2>8. \A p \in found' : \E g \in searched' : Parsed(g) /\ p \in Bound(g)
    BY <2>5, <2>6
  <2> QED
    BY <2>1, <2>2, <2>3, <2>4, <2>5, <2>6, <2>7, <2>8
<1>3. [Next]_vars => UNCHANGED <<checkout, searched, found>> \/ \E f \in Files : Search(f)
  BY DEF Next, CheckSources, Searched, RunPreflight, ComposeConfig, Probe, Approve, Stop,
         Build, StartDrupal, RunProgram, StartAll, vars, checkout
<1> QED
  BY <1>1, <1>2, <1>3
\* Steps behind the search: nothing is searched or found any more.
LEMMA LaterStepsKeepIInv ==
    ASSUME IInv, TypeOK', UNCHANGED <<checkout, searched, found>>,
           pc \in {"preflight", "config", "probe", "stop", "build", "start", "run"},
           pc' \notin {"sources", "search"},
           pc' \notin {"preflight", "config", "refused"} => Accepted,
           pc' = "run" => left' \subseteq {Rollout[i] : i \in DOMAIN Rollout},
           pc' = "failed" => HasItsPrograms',
           pc' = "refused" => faulted' \/ ~Conforming,
           ProbedAreUsable'
    PROVE  IInv'
<1>1. FilesTyped' /\ OnlyCandidates'
  BY CheckoutStays DEF IInv, OnlyCandidates
<1>2. SourcesFit' /\ AllSearched' /\ found' = Programs
  BY CheckoutStays DEF IInv, AllSearched
<1>3. SearchedIsClean'
  BY CheckoutStays DEF IInv, SearchedIsClean, checkout
<1>4. pc' \notin {"preflight", "config", "refused"} => Accepted'
  BY CheckoutStays
<1>5. ConformingIsDeployed'
  BY CheckoutStays DEF ConformingIsDeployed
<1> QED
  BY <1>1, <1>2, <1>3, <1>4, <1>5 DEF IInv

LEMMA CheckSourcesKeepsIInv == ASSUME IInv, TypeOK', OnlyCandidates', CheckSources PROVE IInv'
<1>1. UNCHANGED <<checkout, searched, found>>
  BY DEF CheckSources
<1>2. FilesTyped' /\ SearchedIsClean'
  BY <1>1, CheckoutStays DEF IInv, SearchedIsClean, checkout, CheckSources
<1>3. CASE Go(IF \A s \in Sources : SourceFits(s) THEN "search" ELSE "refused")
  <2>1. CASE pc' = "search"
    <3>1. SourcesFit'
      BY <1>1, <1>3, <2>1, CheckoutStays DEF Go, SourcesFit
    <3> QED
      BY <1>2, <2>1, <3>1 DEF IInv, ProbedAreUsable, ConformingIsDeployed
  <2>2. CASE pc' = "refused"
    <3>1. ~Conforming'
      BY <1>1, <1>3, <2>2, CheckoutStays DEF Go, Conforming
    <3> QED
      BY <1>2, <2>2, <3>1 DEF IInv, ProbedAreUsable, ConformingIsDeployed
  <2> QED
    BY <1>3, <2>1, <2>2 DEF Go
<1>4. CASE Fault("refused")
  BY <1>2, <1>4 DEF IInv, ProbedAreUsable, ConformingIsDeployed, Fault
<1> QED
  BY <1>3, <1>4 DEF CheckSources

LEMMA SearchKeepsIInv ==
    ASSUME IInv, TypeOK', OnlyCandidates', NEW f \in Files, Search(f)
    PROVE  IInv'
<1>1. /\ UNCHANGED checkout /\ files' = files /\ sources' = sources
      /\ pc = "search" /\ searched' = searched \cup {f}
      /\ \E i \in DOMAIN Candidates : Candidates[i] = f
  BY DEF Search, IsNext, checkout
<1>2. FilesTyped'
  BY <1>1, CheckoutStays DEF IInv
<1>3. CASE pc' = "search"
  <2>1. \/ files[f] = None /\ found' = found
        \/ Parsed(f) /\ ~Conflict(f) /\ found' = found \cup Bound(f)
    BY <1>3 DEF Search, Refuse, Fault, Go
  <2>2. SearchedIsClean'
    BY <1>1, <2>1, CheckoutStays DEF IInv, SearchedIsClean
  <2>3. SourcesFit'
    BY <1>1, CheckoutStays DEF IInv
  <2> QED
    BY <1>2, <1>3, <2>2, <2>3 DEF IInv, ProbedAreUsable, ConformingIsDeployed
<1>4. CASE pc' = "refused"
  <2>1. faulted' \/ files[f] = Malformed \/ (Parsed(f) /\ Conflict(f))
    BY <1>1, <1>4 DEF Search, Refuse, Fault, Go
  <2>2. faulted' \/ ~Conforming'
    BY <1>1, <2>1, CheckoutStays, ConformingIsClean DEF IInv
  <2> QED
    BY <1>2, <1>4, <2>2 DEF IInv, ProbedAreUsable, ConformingIsDeployed
<1> QED
  BY <1>1, <1>3, <1>4 DEF Search, Go, Refuse, Fault

LEMMA SearchedKeepsIInv == ASSUME IInv, TypeOK', OnlyCandidates', Searched PROVE IInv'
<1>1. /\ UNCHANGED <<checkout, searched, found>> /\ pc = "search" /\ AllSearched
      /\ faulted' = faulted
  BY DEF Searched, Go, Refuse
<1>2. /\ FilesTyped' /\ SearchedIsClean' /\ AllSearched' /\ SourcesFit'
  BY <1>1, CheckoutStays DEF IInv, SearchedIsClean, AllSearched, checkout
<1>3. CASE pc' = "preflight" /\ found = Programs
  BY <1>1, <1>2, <1>3 DEF IInv, ProbedAreUsable, ConformingIsDeployed
<1>4. CASE pc' = "refused" /\ ~((\E f \in searched : Exists(f)) /\ found = Programs)
  <2>1. ~Conforming
    BY <1>1, <1>4, ConformingIsFound DEF IInv
  <2> QED
    BY <1>1, <1>2, <1>4, <2>1, CheckoutStays DEF IInv, ProbedAreUsable, ConformingIsDeployed
<1> QED
  BY <1>3, <1>4 DEF Searched, Go, Refuse

\* A program that cannot be used is not bound as required.
LEMMA UnusableProgram ==
    ASSUME IInv, pc \in {"probe", "run"}, NEW p \in Programs, ~Usable(p)
    PROVE  HasItsPrograms /\ ~Conforming
<1>1. AllRequired /\ list \in Lists /\ SourcesFit /\ Accepted
  BY ApprovedIsRequired DEF IInv, TypeOK
<1>2. SeesWhatIsUsed => Anonymous(Effective(p))
  BY <1>1, RequiredIsUsable
<1>3. ~Conforming
  <2>1. SUFFICES ASSUME Conforming PROVE FALSE
    OBVIOUS
  <2>2. SeesWhatIsUsed /\ Mounts(p) # {}
    BY <2>1 DEF Conforming
  <2>3. Required(Effective(p))
    BY <1>1, <2>1, <2>2, EffectiveIsMounted DEF Conforming
  <2>4. Effective(p) # None /\ FromCheckout(Effective(p)) /\ SourceFits(p)
    BY <1>1, <2>3 DEF Required, FromCheckout, SourcesFit, Sources
  <2> QED
    BY <2>4 DEF Usable
<1> QED
  BY <1>2, <1>3 DEF HasItsPrograms

LEMMA IInvNext == IInv /\ [Next]_vars => IInv'
<1> SUFFICES ASSUME IInv, [Next]_vars PROVE IInv'
  OBVIOUS
<1>1. TypeOK' /\ OnlyCandidates'
  BY TypesStay DEF IInv
<1>2. CASE CheckSources
  BY <1>1, <1>2, CheckSourcesKeepsIInv
<1>3. ASSUME NEW f \in Files, Search(f) PROVE IInv'
  BY <1>1, <1>3, SearchKeepsIInv
<1>4. CASE Searched
  BY <1>1, <1>4, SearchedKeepsIInv
<1>5. CASE RunPreflight
  BY <1>1, <1>5, LaterStepsKeepIInv DEF RunPreflight, Go, Fault, ProbedAreUsable
<1>6. CASE ComposeConfig
  <2>1. pc' # "refused" => Accepted
    BY <1>6 DEF ComposeConfig, Go, Fault, Accepted
  <2>2. pc' = "refused" => faulted' \/ ~Conforming
    BY <1>6 DEF ComposeConfig, Go, Fault, Conforming
  <2>3. ProbedAreUsable'
    BY <1>6 DEF ComposeConfig, Go, Fault, ProbedAreUsable
  <2> QED
    BY <1>1, <1>6, <2>1, <2>2, <2>3, LaterStepsKeepIInv DEF ComposeConfig, Go, Fault
<1>7. ASSUME NEW p \in Programs, Probe(p) PROVE IInv'
  <2>1. pc = "probe" /\ UNCHANGED <<checkout, searched, found>> /\ pc' \in {"probe", "refused"}
    BY <1>7 DEF Probe, Go, Fault
  <2>2. pc' = "refused" => faulted' \/ ~Usable(p)
    BY <1>7, <2>1 DEF Probe, Go, Fault
  <2>3. Accepted
    BY <2>1 DEF IInv
  <2>4. ProbedAreUsable'
    <3>1. pc' = "probe" => Usable(p)
      BY <1>7 DEF Probe, Go, Fault
    <3>2. elsewhere' = elsewhere /\ left' = left \ {p}
      BY <1>7 DEF Probe
    <3> QED
      BY <2>1, <3>1, <3>2, CheckoutStays DEF IInv, ProbedAreUsable
  <2> QED
    BY <1>1, <2>1, <2>2, <2>3, <2>4, UnusableProgram, LaterStepsKeepIInv
<1>8. CASE Approve
  <2>1. ProbedAreUsable'
    BY <1>8, CheckoutStays DEF Approve, Go, IInv, ProbedAreUsable
  <2> QED
    BY <1>1, <1>8, <2>1, LaterStepsKeepIInv DEF Approve, Go, IInv
<1>9. CASE Stop
  <2>1. ProbedAreUsable'
    BY <1>9, CheckoutStays DEF Stop, Go, Fault, IInv, ProbedAreUsable
  <2> QED
    BY <1>1, <1>9, <2>1, LaterStepsKeepIInv DEF Stop, Go, Fault, IInv, HasItsPrograms
<1>10. CASE Build
  BY <1>1, <1>10, LaterStepsKeepIInv
  DEF Build, Go, Fault, IInv, HasItsPrograms, ProbedAreUsable
<1>11. CASE StartDrupal
  BY <1>1, <1>11, LaterStepsKeepIInv
  DEF StartDrupal, Go, Fault, IInv, HasItsPrograms, ProbedAreUsable
<1>12. CASE RunProgram
  <2>1. PICK i \in DOMAIN Rollout :
           /\ Go(IF Usable(Rollout[i]) THEN pc ELSE "failed") \/ Fault("failed")
           /\ left' = left \ {Rollout[i]}
    BY <1>12 DEF RunProgram
  <2>2. /\ pc = "run" /\ UNCHANGED <<checkout, searched, found>> /\ pc' \in {"run", "failed"}
        /\ Rollout[i] \in Programs /\ Accepted
        /\ left' \subseteq {Rollout[j] : j \in DOMAIN Rollout}
    BY <1>12, <2>1, ProgramsAssumption DEF RunProgram, Go, Fault, IInv
  <2>3. pc' = "failed" => HasItsPrograms'
    <3>1. CASE faulted'
      BY <3>1 DEF HasItsPrograms
    <3>2. CASE pc' = "failed" /\ ~faulted'
      <4>1. ~Usable(Rollout[i]) /\ faulted' = faulted
        BY <2>1, <2>2, <3>2 DEF Go, Fault
      <4> QED
        BY <2>2, <3>2, <4>1, UnusableProgram, CheckoutStays DEF HasItsPrograms
    <3> QED
      BY <3>1, <3>2
  <2> QED
    BY <1>1, <2>2, <2>3, LaterStepsKeepIInv DEF ProbedAreUsable
<1>13. CASE StartAll
  BY <1>1, <1>13, LaterStepsKeepIInv
  DEF StartAll, Go, Fault, IInv, HasItsPrograms, ProbedAreUsable
<1>14. CASE UNCHANGED vars
  <2>1. /\ UNCHANGED <<checkout, searched, found>> /\ pc' = pc /\ faulted' = faulted
        /\ left' = left /\ elsewhere' = elsewhere /\ files' = files
    BY <1>14 DEF vars, checkout
  <2> QED
    BY <1>1, <2>1, CheckoutStays
    DEF IInv, SearchedIsClean, AllSearched, HasItsPrograms, ConformingIsDeployed, ProbedAreUsable
<1> QED
  BY <1>2, <1>3, <1>4, <1>5, <1>6, <1>7, <1>8, <1>9, <1>10, <1>11, <1>12, <1>13, <1>14
  DEF Next

LEMMA SpecIInv == Spec => []IInv
BY IInvInit, IInvNext, PTL DEF Spec

-----------------------------------------------------------------------------
(* The results.                                                            *)

\* The types, and that what the search found is bound in a file it searched
\* (the loop of validateDrupalTemplatePrograms).
THEOREM TypeCorrect == Spec => []TypeOK
<1>1. IInv => TypeOK
  BY DEF IInv
<1> QED
  BY <1>1, SpecIInv, PTL

\* PreDown lets the services be stopped only when every program is bound from
\* the checkout, read-only, in every Compose file in use that has its target,
\* and, whichever files are in use, only when the service has every program.
THEOREM StopsOnlyWhenBound == Spec => []StoppedOnlyWhenBound
<1>1. IInv => StoppedOnlyWhenBound
  <2> SUFFICES ASSUME IInv, Stopped, SeesWhatIsUsed PROVE
                 \A p \in Programs :
                     /\ SourceFits(p)
                     /\ Mounts(p) # {}
                     /\ \A v \in Mounts(p) : Anonymous(v) \/ Required(v)
    BY DEF StoppedOnlyWhenBound, IInv, ProbedAreUsable
  <2>1. SourcesFit /\ AllRequired
    BY ApprovedIsRequired DEF IInv, Stopped
  <2> QED
    BY <2>1 DEF SourcesFit, Sources, AllRequired
<1> QED
  BY <1>1, SpecIInv, PTL

\* The rollout of cmd/create.go does not fail for want of a program, whatever
\* image was pulled or built after the checks of PreDown.
THEOREM RolloutFindsItsPrograms == Spec => []RolloutHasItsPrograms
<1>1. IInv => RolloutHasItsPrograms
  BY DEF IInv, RolloutHasItsPrograms, HasItsPrograms
<1> QED
  BY <1>1, SpecIInv, PTL

\* PreDown refuses no checkout that binds every program as required.
THEOREM ConformingIsNotRefused == Spec => []ConformingIsDeployed
<1>1. IInv => ConformingIsDeployed
  BY DEF IInv
<1> QED
  BY <1>1, SpecIInv, PTL
=============================================================================
