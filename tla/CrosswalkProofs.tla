-------------------------- MODULE CrosswalkProofs --------------------------
(***************************************************************************)
(* Proofs about Crosswalk, for archives of any size, any maximum and any   *)
(* argument lists.                                                         *)
(***************************************************************************)
EXTENDS Crosswalk, TLAPS

\* The snapshot holds what was sent as long as nothing went wrong, and the
\* steps behind a check know what was checked.
Inv ==
    /\ TypeOK
    /\ pc \in {"validate", "context", "temp"} =>
          file = None /\ sent = 0 /\ remaining = Maximum
    /\ pc \in {"temp", "export", "stream", "sync", "inspect"} => request.command = "create"
    /\ pc \in {"export", "stream", "sync", "inspect"} => file = sent
    /\ pc = "endpoint" => request.command = "serve"
    /\ pc \in {"sync", "inspect"} => sent = archive
    /\ request.command = "create" =>
          /\ pc \in {"context", "temp", "export", "stream", "sync", "inspect",
                     "locate", "start", "child"} => CreateIsValid
          /\ pc \in {"locate", "start", "child"} =>
                /\ file = archive /\ archive \in 1 .. Maximum
                /\ passed = CreatePasses
          /\ result = "refused" => ~(CreateIsValid /\ archive \in 1 .. Maximum)

LEMMA SizesAreNaturals == Maximum \in Nat /\ Maximum # 0
BY SizesAssumption

LEMMA NoneIsNothing == None \notin Nat /\ None \notin Outcomes
BY ArgumentsAssumption

LEMMA InitInv == Init => Inv
<1> SUFFICES ASSUME Init PROVE Inv
  OBVIOUS
<1>1. archive \in Nat /\ archive \in Archives \cup {0}
  BY SizesAssumption DEF Init
<1>2. TypeOK
  <2>1. sent \in 0 .. archive /\ remaining \in 0 .. Maximum
    BY <1>1, SizesAreNaturals DEF Init
  <2> QED
    BY <1>1, <2>1 DEF Init, TypeOK, Labels, Results, Outcomes
<1> QED
  BY <1>2, NoneIsNothing DEF Init, Inv, Outcomes

\* The sizes of a step that leaves the file and the stream alone.
LEMMA QuietStep ==
    ASSUME Inv, UNCHANGED <<request, archive, file, sent, remaining>>,
           pc' \in Labels, result' \in Results,
           child' \in {"none", "running", "interrupted", "exited"},
           cancelled' \in BOOLEAN, faulted' \in BOOLEAN, kept' \in BOOLEAN
    PROVE  TypeOK'
BY DEF Inv, TypeOK

LEMMA NextInv == Inv /\ [Next]_vars => Inv'
<1> SUFFICES ASSUME Inv, [Next]_vars PROVE Inv'
  OBVIOUS
<1>0. UNCHANGED inputs => CreateIsValid' = CreateIsValid /\ CreatePasses' = CreatePasses
  BY DEF inputs, CreateIsValid, CreatePasses
<1> USE DEF Go, Unwind, End, Refuse, Fault, Quiet, inputs, stream, process
<1>1. CASE Validate
  <2>1. TypeOK'
    BY <1>1, QuietStep DEF Validate, Inv, TypeOK, Labels, Results, Outcomes
  <2> QED
    BY <1>0, <1>1, <2>1 DEF Validate, Inv
<1>2. CASE ResolveContext
  <2>1. TypeOK'
    BY <1>2, QuietStep DEF ResolveContext, Inv, TypeOK, Labels, Results, Outcomes
  <2>2. request.command \in {"create", "serve"}
    BY DEF Inv, TypeOK, Requests
  <2> QED
    BY <1>0, <1>2, <2>1, <2>2 DEF ResolveContext, Inv
<1>3. CASE ResolveEndpoint
  <2>1. TypeOK'
    BY <1>3, QuietStep DEF ResolveEndpoint, Inv, TypeOK, Labels, Results, Outcomes
  <2> QED
    BY <1>0, <1>3, <2>1 DEF ResolveEndpoint, Inv
<1>4. CASE CreateTemp
  <2>1. CASE file' = 0
    <3>1. /\ UNCHANGED <<request, archive, sent, remaining, child, cancelled, kept>>
          /\ remaining = Maximum /\ pc' \in Labels /\ result' \in Results
          /\ faulted' \in BOOLEAN
      BY <1>4 DEF CreateTemp, Inv, TypeOK, Labels, Results, Outcomes
    <3>2. file' \in 0 .. Maximum /\ file' + remaining' = Maximum
      BY <2>1, <3>1, SizesAreNaturals
    <3>3. TypeOK'
      BY <3>1, <3>2 DEF Inv, TypeOK
    <3> QED
      BY <1>0, <1>4, <2>1, <3>3, NoneIsNothing DEF CreateTemp, Inv
  <2>2. CASE UNCHANGED file
    <3>1. TypeOK'
      BY <1>4, <2>2, QuietStep DEF CreateTemp, Inv, TypeOK, Labels, Results, Outcomes
    <3> QED
      BY <1>0, <1>4, <2>2, <3>1 DEF CreateTemp, Inv
  <2> QED
    BY <1>4, <2>1, <2>2 DEF CreateTemp
<1>5. CASE Export
  <2>1. TypeOK'
    BY <1>5, QuietStep DEF Export, Inv, TypeOK, Labels, Results, Outcomes
  <2> QED
    BY <1>0, <1>5, <2>1 DEF Export, Inv
<1>6. ASSUME NEW n \in 1 .. archive, Write(n) PROVE Inv'
  <2>1. PICK taken \in 0 .. IF n <= remaining THEN n ELSE remaining :
           /\ file' = file + taken
           /\ remaining' = remaining - taken
           /\ \/ taken = n /\ Go(pc)
              \/ taken < n /\ taken = remaining /\ Refuse
              \/ taken < n /\ Fault
    BY <1>6 DEF Write
  <2>2. /\ pc = "stream" /\ n \in 1 .. archive - sent /\ sent' = sent + n
        /\ request.command = "create" /\ CreateIsValid /\ file = sent
        /\ UNCHANGED <<request, archive, cancelled, kept, child, passed>>
    BY <1>6 DEF Write, Inv
  <2>3. /\ archive \in Nat /\ sent \in 0 .. archive /\ remaining \in 0 .. Maximum
        /\ file # None => file + remaining = Maximum
        /\ n \in Nat
    BY <2>2, SizesAssumption DEF Inv, TypeOK
  <2>4. file # None /\ file' # None
    BY <2>1, <2>2, <2>3, NoneIsNothing
  <2>5. file' = sent + taken /\ remaining' \in 0 .. Maximum /\ file' + remaining' = Maximum
        /\ sent' \in 0 .. archive /\ file' \in 0 .. Maximum
    BY <2>1, <2>2, <2>3, <2>4, SizesAreNaturals
  <2>6. TypeOK'
    BY <2>1, <2>2, <2>5 DEF Inv, TypeOK, Labels, Results, Outcomes
  <2>7. CASE taken = n /\ Go(pc)
    BY <1>0, <2>2, <2>4, <2>5, <2>6, <2>7 DEF Inv
  <2>8. CASE taken < n /\ taken = remaining /\ Refuse
    <3>1. archive > Maximum
      BY <2>2, <2>3, <2>4, <2>8, SizesAreNaturals
    <3> QED
      BY <2>2, <2>3, <2>4, <2>6, <2>8, <3>1, SizesAreNaturals DEF Inv
  <2>9. CASE taken < n /\ Fault
    BY <1>0, <2>2, <2>4, <2>6, <2>9 DEF Inv
  <2> QED
    BY <2>1, <2>7, <2>8, <2>9
<1>7. CASE StreamEnds
  <2>1. TypeOK'
    BY <1>7, QuietStep DEF StreamEnds, Inv, TypeOK, Labels, Results, Outcomes
  <2> QED
    BY <1>0, <1>7, <2>1 DEF StreamEnds, Inv
<1>8. CASE SyncAndClose
  <2>1. TypeOK'
    BY <1>8, QuietStep DEF SyncAndClose, Inv, TypeOK, Labels, Results, Outcomes
  <2> QED
    BY <1>0, <1>8, <2>1 DEF SyncAndClose, Inv
<1>9. CASE InspectSnapshot
  <2>1. TypeOK'
    BY <1>9, QuietStep DEF InspectSnapshot, Inv, TypeOK, Labels, Results, Outcomes
  <2> QED
    BY <1>0, <1>9, <2>1 DEF InspectSnapshot, Inv
<1>10. CASE Locate
  <2>1. TypeOK'
    BY <1>10, QuietStep DEF Locate, Inv, TypeOK, Labels, Results, Outcomes
  <2> QED
    BY <1>0, <1>10, <2>1 DEF Locate, Inv
<1>11. CASE StartChild
  <2>1. TypeOK'
    BY <1>11, QuietStep DEF StartChild, Inv, TypeOK, Labels, Results, Outcomes
  <2> QED
    BY <1>0, <1>11, <2>1 DEF StartChild, Inv
<1>12. CASE Interrupt
  <2>1. TypeOK'
    BY <1>12, QuietStep DEF Interrupt, Inv, TypeOK, Labels, Results, Outcomes
  <2> QED
    BY <1>0, <1>12, <2>1 DEF Interrupt, Inv
<1>13. ASSUME NEW success \in BOOLEAN, ChildExits(success) PROVE Inv'
  <2>1. TypeOK'
    BY <1>13, QuietStep DEF ChildExits, Inv, TypeOK, Labels, Results, Outcomes
  <2> QED
    BY <1>0, <1>13, <2>1 DEF ChildExits, Inv
<1>14. CASE Kill
  <2>1. TypeOK'
    BY <1>14, QuietStep DEF Kill, Inv, TypeOK, Labels, Results, Outcomes
  <2> QED
    BY <1>0, <1>14, <2>1 DEF Kill, Inv
<1>15. CASE Cleanup
  <2>1. TypeOK'
    BY <1>15 DEF Cleanup, Inv, TypeOK, Labels
  <2> QED
    BY <1>0, <1>15, <2>1 DEF Cleanup, Inv
<1>16. CASE Cancel
  <2>1. TypeOK'
    BY <1>16, QuietStep DEF Cancel, Inv, TypeOK, Labels, Results, Outcomes
  <2> QED
    BY <1>0, <1>16, <2>1 DEF Cancel, Inv
<1>17. CASE Abort
  <2>1. TypeOK'
    BY <1>17, QuietStep DEF Abort, Inv, TypeOK, Labels, Results, Outcomes
  <2> QED
    BY <1>0, <1>17, <2>1 DEF Abort, Inv
<1>18. CASE Crash
  <2>1. TypeOK'
    BY <1>18, QuietStep DEF Crash, Inv, TypeOK, Labels, Results, Outcomes
  <2> QED
    BY <1>0, <1>18, <2>1 DEF Crash, Inv
<1>19. CASE UNCHANGED vars
  <2>1. UNCHANGED <<request, archive, pc, file, sent, remaining, child, passed, result,
                    cancelled, faulted, kept>>
    BY <1>19 DEF vars
  <2> QED
    BY <1>0, <2>1 DEF Inv, TypeOK
<1> QED
  BY <1>1, <1>2, <1>3, <1>4, <1>5, <1>6, <1>7, <1>8, <1>9, <1>10, <1>11, <1>12, <1>13, <1>14, <1>15, <1>16, <1>17, <1>18, <1>19 DEF Next

LEMMA SpecInv == Spec => []Inv
BY InitInv, NextInv, PTL DEF Spec

\* The types; what the bounded writer still takes and what the file holds make
\* up the maximum, so the file never exceeds it (maximumBytesWriter).
THEOREM TypeCorrect == Spec => []TypeOK
<1>1. Inv => TypeOK
  BY DEF Inv
<1> QED
  BY <1>1, SpecInv, PTL

\* `profile create` starts Crosswalk with the whole archive and the institution
\* it was given, and refuses no archive of at most the maximum, for whatever
\* chunks it comes in (acquireCrosswalkConfigSnapshot).
THEOREM CreateDecidesByInputs == Spec => [](request.command = "create" => InputsDecide)
<1>1. Inv => (request.command = "create" => InputsDecide)
  <2> SUFFICES ASSUME Inv, request.command = "create" PROVE InputsDecide
    OBVIOUS
  <2>1. request.institution \subseteq Institution /\ request.policy \in BOOLEAN
    BY DEF Inv, TypeOK, Requests
  <2>2. CreateIsValid /\ passed = CreatePasses =>
           /\ passed \ {"policy"} = request.institution
           /\ request.policy => "policy" \in passed
    BY <2>1 DEF CreateIsValid, CreatePasses, Institution
  <2> QED
    BY <2>2 DEF Inv, InputsDecide, CreateIsServed, Servable
<1> QED
  BY <1>1, SpecInv, PTL
=============================================================================
