---------------------- MODULE ConfigTreeReadersProofs ----------------------
(***************************************************************************)
(* Proofs about ConfigTreeReaders, for all limits, names and lengths: the  *)
(* limits hold at every step, a written tree is read back as it was, and the *)
(* verdict on the entries one by one is the verdict on the whole.          *)
(***************************************************************************)
EXTENDS ConfigTreeReaders, FiniteSetTheorems, SequenceTheorems, TLAPS

LEMMA LimitsAreNaturals ==
    /\ MaxEntries \in Nat /\ MaxFiles \in Nat /\ MaxFile \in Nat
    /\ MaxTotal \in Nat /\ MaxZip \in Nat /\ Word \in Nat
    /\ MaxFile <= MaxTotal /\ MaxTotal < Word
<1>1. Limits = <<MaxEntries, MaxFiles, MaxFile, MaxTotal, MaxZip, Word>> /\ DOMAIN Limits = 1 .. 6
  BY DEF Limits
<1>2. /\ \A i \in 1 .. 6 : Limits[i] \in Nat
      /\ MaxFile <= MaxTotal /\ MaxTotal < Word
  BY <1>1, LimitsAssumption
<1>3. /\ Limits[1] \in Nat /\ Limits[2] \in Nat /\ Limits[3] \in Nat
      /\ Limits[4] \in Nat /\ Limits[5] \in Nat /\ Limits[6] \in Nat
  BY <1>2
<1> QED
  BY <1>1, <1>2, <1>3

\* The type invariant holds a single archive that is still empty to zero bytes.
Inv == TypeOK /\ (reader = "single" /\ tree = NoFiles => total = 0)

\* A file that fits in what is left of a tree leaves it within its limits.
FitsInTree(e) ==
    /\ RoomForFile
    /\ e.size \in 0 .. MaxFile /\ e.data = e.size
    /\ total <= MaxTotal - e.size

\* The unsigned difference is the difference, as no file is longer than a tree.
LEMMA UnsignedIsSigned ==
    ASSUME NEW e, total \in Nat, UnsignedFits(e), ReadsExactly(e, MaxFile)
    PROVE  total <= MaxTotal - e.size
<1>1. e.size \in 0 .. MaxFile
  BY DEF ReadsExactly
<1>2. MaxTotal - e.size \in 0 .. Word - 1
  BY <1>1, LimitsAreNaturals
<1>3. \A a, w \in Nat : a < w => a % w = a
  OBVIOUS
<1> QED
  BY <1>2, <1>3, LimitsAreNaturals DEF UnsignedFits

LEMMA TakenFileFits ==
    ASSUME Inv, NEW e, Takes(e), e.kind = "file", reader # "single"
    PROVE  FitsInTree(e)
<1> USE DEF Takes
<1>1. CASE reader = "tar"
  BY <1>1 DEF TarTakes, Fits, ReadsExactly, FitsInTree
<1>2. CASE reader = "walk"
  BY <1>2 DEF WalkTakes, Fits, ReadsExactly, FitsInTree
<1>3. CASE reader = "zip"
  <2>1. ZipTakes(e)
    BY <1>3
  <2>2. RoomForFile /\ UnsignedFits(e) /\ ReadsExactly(e, MaxFile)
    BY <2>1 DEF ZipTakes
  <2> QED
    BY <2>2, UnsignedIsSigned DEF Inv, TypeOK, ReadsExactly, FitsInTree
<1> QED
  BY <1>1, <1>2, <1>3 DEF Inv, TypeOK, Readers

LEMMA ConsumeKeepsInv == ASSUME Inv, NEW e, Consume(e) PROVE Inv'
<1>1. CASE UNCHANGED <<tree, total>>
  <2>1. verdict' \in Verdicts
    BY DEF Consume, Inv, TypeOK, Verdicts
  <2> QED
    BY <1>1, <2>1 DEF Consume, Inv, TypeOK, FilesOf
<1>2. CASE Takes(e) /\ e.kind = "file" /\ UNCHANGED verdict
  <2> DEFINE name == IF reader = "tar" THEN Tail(e.name) ELSE e.name
  <2>1. /\ tree' = [n \in FilesOf(tree) \cup {name} |-> IF n = name THEN e.data ELSE tree[n]]
        /\ total' = total + e.data
        /\ reader' = reader
    BY <1>2 DEF Consume
  <2>2. FilesOf(tree') = FilesOf(tree) \cup {name}
    BY <2>1 DEF FilesOf
  <2>3. /\ IsFiniteSet(FilesOf(tree) \cup {name})
        /\ Cardinality(FilesOf(tree) \cup {name}) <= Cardinality(FilesOf(tree)) + 1
        /\ Cardinality(FilesOf(tree) \cup {name}) \in Nat
        /\ Cardinality(FilesOf(tree)) \in Nat
    <3>1. IsFiniteSet(FilesOf(tree))
      BY DEF Inv, TypeOK
    <3>2. /\ IsFiniteSet(FilesOf(tree) \cup {name})
          /\ Cardinality(FilesOf(tree) \cup {name})
               = IF name \in FilesOf(tree) THEN Cardinality(FilesOf(tree))
                 ELSE Cardinality(FilesOf(tree)) + 1
      BY <3>1, FS_AddElement
    <3>3. Cardinality(FilesOf(tree)) \in Nat
      BY <3>1, FS_CardinalityType
    <3> QED
      BY <3>2, <3>3
  <2>4. CASE reader = "single"
    <3>1. e.name = ZipFile /\ tree = NoFiles /\ e.size \in 0 .. MaxZip /\ e.data = e.size
      BY <2>4, <1>2 DEF Takes, SingleTakes, ReadsExactly
    <3>2. total = 0
      BY <3>1, <2>4 DEF Inv
    <3>3. FilesOf(tree') \subseteq {ZipFile} /\ tree' \in [FilesOf(tree') -> Nat] /\ tree' # NoFiles
      BY <2>1, <2>2, <2>4, <3>1, LimitsAreNaturals DEF NoFiles, FilesOf
    <3>4. total' \in Nat /\ total' <= MaxZip
      BY <2>1, <3>1, <3>2, LimitsAreNaturals
    <3> QED
      BY <1>2, <2>1, <2>2, <2>3, <2>4, <3>3, <3>4 DEF Inv, TypeOK
  <2>5. CASE reader # "single"
    <3>1. FitsInTree(e)
      BY <1>2, <2>5, TakenFileFits
    <3>2. e.data \in Nat /\ e.data <= MaxFile /\ total' \in Nat /\ total' <= MaxTotal
      BY <2>1, <3>1, LimitsAreNaturals DEF FitsInTree, Inv, TypeOK
    <3>3. Cardinality(FilesOf(tree')) <= MaxFiles
      BY <2>2, <2>3, <3>1, LimitsAreNaturals DEF FitsInTree, RoomForFile
    <3>4. tree' \in [FilesOf(tree') -> Nat] /\ \A n \in FilesOf(tree') : tree'[n] <= MaxFile
      BY <2>1, <2>2, <2>5, <3>2 DEF Inv, TypeOK
    <3> QED
      BY <1>2, <2>1, <2>2, <2>3, <2>5, <3>2, <3>3, <3>4 DEF Inv, TypeOK
  <2> QED
    BY <2>4, <2>5
<1> QED
  BY <1>1, <1>2 DEF Consume

LEMMA EmptyTree ==
    /\ FilesOf(NoFiles) = {} /\ IsFiniteSet({}) /\ Cardinality({}) = 0
    /\ NoFiles \in [{} -> Nat]
BY FS_EmptySet DEF FilesOf, NoFiles

LEMMA FreshKeepsInv == ASSUME NEW r \in Readers, Fresh(r) PROVE Inv'
BY EmptyTree, LimitsAreNaturals DEF Fresh, Inv, TypeOK, Verdicts

LEMMA InvStep == Inv /\ [Next]_vars => Inv'
<1> SUFFICES ASSUME Inv, [Next]_vars PROVE Inv'
  OBVIOUS
<1>1. CASE Entry \/ StagedEntry
  BY <1>1, ConsumeKeepsInv DEF Entry, StagedEntry
<1>2. CASE End \/ Break
  BY <1>2 DEF End, Break, Inv, TypeOK, Verdicts, FilesOf
<1>3. CASE Unzip \/ Stage \/ Publish
  BY <1>3, FreshKeepsInv DEF Unzip, Stage, Publish, Readers
<1>4. CASE UNCHANGED vars
  BY <1>4 DEF vars, Inv, TypeOK, FilesOf
<1> QED
  BY <1>1, <1>2, <1>3, <1>4 DEF Next

\* Whatever an archive or a directory holds, and whatever its readers still
\* refuse of it, they never hold more files, longer files or more bytes than
\* the limits allow; the unsigned arithmetic of the zip reader does not wrap.
THEOREM ReadersStayWithinLimits == Spec => []TypeOK
<1>1. Init => Inv
  <2> SUFFICES ASSUME Init PROVE Inv
    OBVIOUS
  <2>1. /\ reader \in Readers /\ verdict \in Verdicts /\ total = 0 /\ tree = NoFiles
    BY DEF Init, Readers, Verdicts
  <2>2. /\ IsFiniteSet(FilesOf(tree)) /\ tree \in [FilesOf(tree) -> Nat]
        /\ FilesOf(tree) = {} /\ Cardinality(FilesOf(tree)) = 0
    BY <2>1, EmptyTree
  <2> QED
    BY <2>1, <2>2, LimitsAreNaturals DEF Inv, TypeOK
<1>2. Inv => TypeOK
  BY DEF Inv
<1> QED
  BY <1>1, <1>2, InvStep, PTL DEF Spec

-----------------------------------------------------------------------------
(* Counting bytes without summing: one mark for every byte of every file.  *)

Marks(t) == {mark \in FilesOf(t) \X Nat : mark[2] \in 1 .. t[mark[1]]}
Bytes(t) == Cardinality(Marks(t))

Added(t, name, size) ==
    [n \in FilesOf(t) \cup {name} |-> IF n = name THEN size ELSE t[n]]

\* A tree of finitely many files, none longer than allowed.
IsTree(t) ==
    /\ IsFiniteSet(FilesOf(t)) /\ t \in [FilesOf(t) -> Nat]
    /\ \A n \in FilesOf(t) : t[n] <= MaxFile

LEMMA BytesType ==
    ASSUME NEW t, IsTree(t)
    PROVE  IsFiniteSet(Marks(t)) /\ Bytes(t) \in Nat
<1>1. IsFiniteSet(0 .. MaxFile)
  BY FS_Interval, LimitsAreNaturals
<1>2. IsFiniteSet(FilesOf(t) \X (0 .. MaxFile))
  BY <1>1, FS_Product DEF IsTree
<1>3. Marks(t) \subseteq FilesOf(t) \X (0 .. MaxFile)
  BY LimitsAreNaturals DEF Marks, IsTree
<1> QED
  BY <1>2, <1>3, FS_Subset, FS_CardinalityType DEF Bytes

\* A file that is new to a tree adds its length.
LEMMA AddedBytes ==
    ASSUME NEW t, IsTree(t), NEW name, name \notin FilesOf(t), NEW size \in 0 .. MaxFile
    PROVE  /\ FilesOf(Added(t, name, size)) = FilesOf(t) \cup {name}
           /\ IsTree(Added(t, name, size))
           /\ Bytes(Added(t, name, size)) = Bytes(t) + size
<1> DEFINE u == Added(t, name, size)
           fresh == {name} \X (1 .. size)
<1>1. FilesOf(u) = FilesOf(t) \cup {name}
  BY DEF Added, FilesOf
<1>2. u[name] = size /\ \A n \in FilesOf(t) : u[n] = t[n]
  BY DEF Added
<1>3. IsTree(u)
  <2>1. IsFiniteSet(FilesOf(u))
    BY <1>1, FS_AddElement DEF IsTree
  <2>2. \A n \in FilesOf(u) : u[n] \in Nat /\ u[n] <= MaxFile
    BY <1>1, <1>2, LimitsAreNaturals DEF IsTree
  <2>3. u = [n \in FilesOf(u) |-> u[n]]
    BY <1>1 DEF Added
  <2> QED
    BY <2>1, <2>2, <2>3 DEF IsTree
<1>4. Marks(u) = Marks(t) \cup fresh
  BY <1>1, <1>2 DEF Marks
<1>5. Marks(t) \cap fresh = {}
  BY DEF Marks
<1>6. IsFiniteSet(fresh) /\ Cardinality(fresh) = size
  <2>1. IsFiniteSet({name}) /\ Cardinality({name}) = 1
    BY FS_Singleton
  <2>2. IsFiniteSet(1 .. size) /\ Cardinality(1 .. size) = size
    BY FS_Interval, LimitsAreNaturals
  <2> QED
    <3>1. IsFiniteSet(fresh) /\ Cardinality(fresh) = Cardinality({name}) * Cardinality(1 .. size)
      BY <2>1, <2>2, FS_Product
    <3> QED
      BY <3>1, <2>1, <2>2, LimitsAreNaturals
<1>7. Cardinality(Marks(t) \cup fresh) = Bytes(t) + size - Cardinality(Marks(t) \cap fresh)
  BY <1>6, BytesType, FS_Union DEF Bytes
<1>8. Bytes(u) = Bytes(t) + size
  <2>1. Bytes(t) \in Nat /\ size \in Nat
    BY BytesType, LimitsAreNaturals
  <2>2. Cardinality(Marks(t) \cap fresh) = 0
    BY <1>5, FS_EmptySet
  <2>3. Bytes(u) = Cardinality(Marks(t) \cup fresh)
    BY <1>4 DEF Bytes
  <2> HIDE DEF u, fresh
  <2> QED
    BY <1>7, <2>1, <2>2, <2>3
<1> HIDE DEF u
<1> QED
  BY <1>1, <1>3, <1>8 DEF u

\* A part of a tree and one more of its files are no longer than the tree.
PartOf(t, whole) == FilesOf(t) \subseteq FilesOf(whole) /\ \A n \in FilesOf(t) : t[n] = whole[n]

LEMMA PartBytes ==
    ASSUME NEW t, NEW whole, IsTree(t), IsTree(whole), PartOf(t, whole),
           NEW name \in FilesOf(whole) \ FilesOf(t)
    PROVE  /\ Bytes(t) + whole[name] <= Bytes(whole)
           /\ Cardinality(FilesOf(t)) < Cardinality(FilesOf(whole))
           /\ PartOf(Added(t, name, whole[name]), whole)
<1> DEFINE u == Added(t, name, whole[name])
<1>1. whole[name] \in 0 .. MaxFile
  BY LimitsAreNaturals DEF IsTree
<1>2. FilesOf(u) = FilesOf(t) \cup {name} /\ IsTree(u) /\ Bytes(u) = Bytes(t) + whole[name]
  BY <1>1, AddedBytes
<1>3. PartOf(u, whole)
  BY <1>2 DEF PartOf, Added
<1> HIDE DEF u
<1>4. Marks(u) \subseteq Marks(whole)
  BY <1>3 DEF PartOf, Marks
<1>5. Bytes(u) <= Bytes(whole)
  BY <1>4, BytesType, FS_Subset DEF Bytes
<1>6. /\ Cardinality(FilesOf(t)) \in Nat /\ Cardinality(FilesOf(whole)) \in Nat
      /\ Cardinality(FilesOf(t)) <= Cardinality(FilesOf(whole))
      /\ Cardinality(FilesOf(t)) # Cardinality(FilesOf(whole))
  <2>1. IsFiniteSet(FilesOf(t)) /\ IsFiniteSet(FilesOf(whole)) /\ FilesOf(t) \subseteq FilesOf(whole)
        /\ FilesOf(t) # FilesOf(whole)
    BY DEF IsTree, PartOf
  <2> QED
    BY <2>1, FS_Subset, FS_CardinalityType
<1> QED
  BY <1>2, <1>3, <1>5, <1>6 DEF u

-----------------------------------------------------------------------------
(* The entries of a tree that was written.                                 *)

LEMMA FiniteRange ==
    ASSUME NEW f, IsFiniteSet(DOMAIN f)
    PROVE  IsFiniteSet({f[x] : x \in DOMAIN f})
<1> DEFINE g == [x \in DOMAIN f |-> f[x]]
<1>1. g \in Surjection(DOMAIN f, {f[x] : x \in DOMAIN f})
  BY DEF Surjection
<1> QED
  BY <1>1, FS_Surjection

\* SetToSeq lists a finite set, each element once.
LEMMA Enumerated ==
    ASSUME NEW S, IsFiniteSet(S)
    PROVE  /\ SetToSeq(S) \in Seq(S)
           /\ \A x \in S : \E i \in 1 .. Len(SetToSeq(S)) : SetToSeq(S)[i] = x
           /\ \A i, j \in 1 .. Len(SetToSeq(S)) : SetToSeq(S)[i] = SetToSeq(S)[j] => i = j
<1> DEFINE N == Cardinality(S)
           s == SetToSeq(S)
<1>1. N \in Nat /\ \E f \in [1 .. N -> S] : f \in Bijection(1 .. N, S)
  BY FS_CardinalityType DEF ExistsBijection, Bijection, Injection
<1>2. \E f \in [1 .. N -> S] : IsInjective(f)
  BY <1>1 DEF Bijection, Injection
<1>3. s \in [1 .. N -> S] /\ IsInjective(s)
  BY <1>2 DEF SetToSeq
<1> HIDE DEF s
<1>4. s \in Injection(1 .. N, S)
  BY <1>3 DEF Injection
<1>5. Cardinality(1 .. N) = N
  BY <1>1, FS_Interval
<1>6. s \in Surjection(1 .. N, S)
  BY <1>4, <1>5, FS_Injection
<1>7. s \in Seq(S) /\ Len(s) = N
  BY <1>1, <1>3
<1>8. \A x \in S : \E i \in 1 .. N : s[i] = x
  BY <1>6 DEF Surjection
<1>9. \A i, j \in 1 .. N : s[i] = s[j] => i = j
  BY <1>3 DEF IsInjective
<1> QED
  BY <1>7, <1>8, <1>9 DEF s

Component == STRING \cup {Root}

LEMMA NamesAreSequences ==
    /\ \A n \in Names : n \in Seq(Component) /\ n # <<>>
    /\ <<Root>> \in Seq(Component) /\ <<>> \in Seq(Component)
<1>1. \A n \in Names : n \in Seq(STRING) /\ n # <<>>
  BY NamesAssumption
<1>2. \A n \in Seq(STRING) : n \in Seq(Component)
  BY SeqMonotonic DEF Component
<1>3. Root \in Component
  BY DEF Component
<1> QED
  BY <1>1, <1>2, <1>3

\* A directory above a clean name is clean.
LEMMA CleanAbove ==
    ASSUME NEW n \in Seq(Component), CleanName(n), NEW k \in 1 .. Len(n) - 1
    PROVE  SubSeq(n, 1, k) \in Seq(Component) /\ CleanName(SubSeq(n, 1, k))
<1> DEFINE d == SubSeq(n, 1, k)
<1>1. Len(n) \in Nat /\ k \in Nat /\ 1 <= k /\ k < Len(n)
      /\ \A i \in 1 .. Len(n) : n[i] \in Component
  BY LenProperties
<1>2. d \in Seq(Component) /\ Len(d) = k /\ \A i \in 1 .. k : d[i] = n[i]
  <2>1. \A i \in 1 .. k : n[i] \in Component
    BY <1>1
  <2> QED
    BY <1>1, <2>1, SubSeqProperties
<1> HIDE DEF d
<1>3. DOMAIN d = 1 .. k /\ DOMAIN n = 1 .. Len(n)
  BY <1>2, LenProperties
<1>4. ToSet(d) \subseteq ToSet(n)
  BY <1>1, <1>2, <1>3 DEF ToSet
<1>5. d # <<>> /\ Head(d) = Head(n)
  BY <1>1, <1>2
<1> QED
  BY <1>2, <1>4, <1>5 DEF CleanName, d

\* A clean name below the root is clean, and the root comes off again.
LEMMA CleanBelow ==
    ASSUME NEW n \in Seq(Component), CleanName(n)
    PROVE  /\ CleanName(<<Root>> \o n)
           /\ Head(<<Root>> \o n) = Root /\ Tail(<<Root>> \o n) = n
<1> DEFINE r == <<Root>> \o n
<1>1. /\ <<Root>> \in Seq(Component) /\ Len(<<Root>>) = 1 /\ <<Root>>[1] = Root
      /\ Len(n) \in Nat /\ DOMAIN n = 1 .. Len(n)
  BY NamesAreSequences, LenProperties
<1>2. /\ r \in Seq(Component) /\ Len(r) = 1 + Len(n)
      /\ \A i \in 1 .. 1 + Len(n) : r[i] = IF i <= 1 THEN Root ELSE n[i - 1]
  BY <1>1, ConcatProperties
<1> HIDE DEF r
<1>3. DOMAIN r = 1 .. 1 + Len(n) /\ r # <<>> /\ r[1] = Root
  BY <1>1, <1>2, LenProperties
<1>4. Head(r) = Root
  BY <1>2, <1>3
<1>5. ToSet(r) \subseteq {Root} \cup ToSet(n)
  <2> SUFFICES ASSUME NEW i \in 1 .. 1 + Len(n) PROVE r[i] \in {Root} \cup ToSet(n)
    BY <1>3 DEF ToSet
  <2>1. CASE i <= 1
    BY <2>1, <1>2
  <2>2. CASE ~(i <= 1)
    <3>1. i - 1 \in DOMAIN n /\ r[i] = n[i - 1]
      BY <1>1, <1>2, <2>2
    <3> QED
      BY <3>1 DEF ToSet
  <2> QED
    BY <2>1, <2>2
<1>6. CleanName(r)
  BY <1>3, <1>4, <1>5, RootAssumption DEF CleanName
<1>7. Tail(r) = n
  <2>1. /\ Tail(r) \in Seq(Component) /\ Len(Tail(r)) = Len(r) - 1
        /\ \A i \in 1 .. Len(Tail(r)) : Tail(r)[i] = r[i + 1]
    BY <1>2, <1>3, HeadTailProperties
  <2>2. Len(Tail(r)) = Len(n) /\ \A i \in 1 .. Len(Tail(r)) : Tail(r)[i] = n[i]
    BY <1>1, <1>2, <2>1
  <2> QED
    BY <2>1, <2>2, SeqEqual
<1> QED
  BY <1>4, <1>6, <1>7 DEF r

LEMMA CleanRoot == CleanName(<<Root>>) /\ Head(<<Root>>) = Root
<1>1. DOMAIN <<Root>> = 1 .. 1 /\ <<Root>>[1] = Root /\ <<Root>> # <<>> /\ Head(<<Root>>) = Root
  OBVIOUS
<1>2. ToSet(<<Root>>) = {Root}
  BY <1>1 DEF ToSet
<1> QED
  BY <1>1, <1>2, RootAssumption DEF CleanName

WrittenEntries ==
    [kind : {"directory", "file"}, name : Seq(Component), size : Nat, data : Nat]

IsFolder(e, top) ==
    e.kind = "directory" /\ (top = <<Root>> => CleanName(e.name) /\ Head(e.name) = Root)

\* `s` holds the files of `t` in `left`, each once, and directories.
Lists(s, t, top, left) ==
    /\ s \in Seq(WrittenEntries)
    /\ \A i \in 1 .. Len(s) :
          IsFolder(s[i], top) \/ \E n \in left : s[i] = FileEntry(top \o n, t[n])
    /\ \A n \in left : \E i \in 1 .. Len(s) : s[i] = FileEntry(top \o n, t[n])
    /\ \A i, j \in 1 .. Len(s) : s[i] = s[j] /\ s[i].kind = "file" => i = j

Tops == {<<>>, <<Root>>}

\* A tree that can be written: the zip reader accepts no other.
IsSource(t) == IsTree(t) /\ FilesOf(t) \subseteq Names /\ Shaped(t)

LEMMA SourceNames ==
    ASSUME NEW t, IsSource(t), NEW n \in FilesOf(t)
    PROVE  n \in Seq(Component) /\ n # <<>> /\ CleanName(n) /\ t[n] \in Nat
BY NamesAreSequences DEF IsSource, Shaped, IsTree

LEMMA FoldersOf ==
    ASSUME NEW t, IsSource(t)
    PROVE  /\ IsFiniteSet(Directories(t))
           /\ \A d \in Directories(t) : d \in Seq(Component) /\ CleanName(d)
<1> DEFINE above == [n \in FilesOf(t) |-> {SubSeq(n, 1, k) : k \in 1 .. Len(n) - 1}]
<1>1. ASSUME NEW n \in FilesOf(t)
      PROVE  IsFiniteSet({SubSeq(n, 1, k) : k \in 1 .. Len(n) - 1})
  <2> DEFINE f == [k \in 1 .. Len(n) - 1 |-> SubSeq(n, 1, k)]
  <2>1. Len(n) \in Nat
    BY SourceNames, LenProperties
  <2>2. IsFiniteSet(1 .. Len(n) - 1)
    BY <2>1, FS_Interval
  <2>3. DOMAIN f = 1 .. Len(n) - 1
    OBVIOUS
  <2>4. IsFiniteSet({f[k] : k \in DOMAIN f})
    BY <2>2, <2>3, FiniteRange
  <2> QED
    BY <2>3, <2>4
<1>2. IsFiniteSet({above[n] : n \in FilesOf(t)})
  <2>1. DOMAIN above = FilesOf(t) /\ IsFiniteSet(FilesOf(t))
    BY DEF IsSource, IsTree
  <2> HIDE DEF above
  <2> QED
    BY <2>1, FiniteRange
<1>3. Directories(t) = UNION {above[n] : n \in FilesOf(t)}
  BY DEF Directories
<1>4. \A T \in {above[n] : n \in FilesOf(t)} : IsFiniteSet(T)
  BY <1>1
<1>5. IsFiniteSet(Directories(t))
  <2> HIDE DEF above
  <2> QED
    BY <1>2, <1>3, <1>4, FS_UNION
<1>6. ASSUME NEW d \in Directories(t) PROVE d \in Seq(Component) /\ CleanName(d)
  <2>1. PICK n \in FilesOf(t) : \E k \in 1 .. Len(n) - 1 : d = SubSeq(n, 1, k)
    BY <1>6 DEF Directories
  <2> QED
    BY <2>1, SourceNames, CleanAbove
<1> QED
  BY <1>5, <1>6

LEMMA TopsAreNames ==
    ASSUME NEW top \in Tops, NEW n \in Seq(Component)
    PROVE  /\ top \o n \in Seq(Component)
           /\ \A m \in Seq(Component) : top \o n = top \o m => n = m
<1>1. top \in Seq(Component)
  BY NamesAreSequences DEF Tops
<1>2. top \o n \in Seq(Component)
  BY <1>1, ConcatProperties
<1>3. ASSUME NEW m \in Seq(Component), top \o n = top \o m PROVE n = m
  <2>1. \A S : \A s, u, v \in Seq(S) : s \o u = s \o v => u = v
    BY ConcatSimplifications
  <2> QED
    BY <1>1, <1>3, <2>1
<1> QED
  BY <1>2, <1>3

\* What Listing and Tar write.
LEMMA ListingLists ==
    ASSUME NEW t, IsSource(t), NEW top \in Tops
    PROVE  Lists(Listing(t, top), t, top, FilesOf(t))
<1> DEFINE Folders == {DirectoryEntry(top \o d) : d \in Directories(t)}
           Files == {FileEntry(top \o n, t[n]) : n \in FilesOf(t)}
           s1 == SetToSeq(Folders)
           s2 == SetToSeq(Files)
<1>1. IsFiniteSet(Folders)
  <2> DEFINE f == [d \in Directories(t) |-> DirectoryEntry(top \o d)]
  <2>1. DOMAIN f = Directories(t) /\ Folders = {f[d] : d \in Directories(t)}
    OBVIOUS
  <2> HIDE DEF f, Folders
  <2> QED
    BY <2>1, FoldersOf, FiniteRange
<1>2. IsFiniteSet(Files)
  <2> DEFINE f == [n \in FilesOf(t) |-> FileEntry(top \o n, t[n])]
  <2>1. DOMAIN f = FilesOf(t) /\ Files = {f[n] : n \in FilesOf(t)} /\ IsFiniteSet(FilesOf(t))
    BY DEF IsSource, IsTree
  <2> HIDE DEF f, Files
  <2> QED
    BY <2>1, FiniteRange
<1>3. \A e \in Folders : e \in WrittenEntries /\ IsFolder(e, top)
  <2> SUFFICES ASSUME NEW d \in Directories(t)
               PROVE  DirectoryEntry(top \o d) \in WrittenEntries
                      /\ IsFolder(DirectoryEntry(top \o d), top)
    OBVIOUS
  <2>1. d \in Seq(Component) /\ CleanName(d)
    BY FoldersOf
  <2>2. top \o d \in Seq(Component)
    BY <2>1, TopsAreNames
  <2>3. top = <<Root>> => CleanName(top \o d) /\ Head(top \o d) = Root
    BY <2>1, CleanBelow
  <2> QED
    BY <2>2, <2>3 DEF DirectoryEntry, WrittenEntries, IsFolder
<1>4. \A e \in Files : e \in WrittenEntries /\ e.kind = "file"
                       /\ \E n \in FilesOf(t) : e = FileEntry(top \o n, t[n])
  <2> SUFFICES ASSUME NEW n \in FilesOf(t)
               PROVE  FileEntry(top \o n, t[n]) \in WrittenEntries
                      /\ FileEntry(top \o n, t[n]).kind = "file"
    OBVIOUS
  <2>1. top \o n \in Seq(Component) /\ t[n] \in Nat
    BY SourceNames, TopsAreNames
  <2> QED
    BY <2>1 DEF FileEntry, WrittenEntries
<1>5. /\ s1 \in Seq(Folders) /\ s2 \in Seq(Files)
      /\ \A e \in Files : \E i \in 1 .. Len(s2) : s2[i] = e
      /\ \A i, j \in 1 .. Len(s2) : s2[i] = s2[j] => i = j
  BY <1>1, <1>2, Enumerated
<1>6. \A n \in FilesOf(t) : FileEntry(top \o n, t[n]) \in Files
  OBVIOUS
<1>7. Listing(t, top) = s1 \o s2
  BY DEF Listing
<1> HIDE DEF Folders, Files, s1, s2
<1> DEFINE s == s1 \o s2
<1>8. /\ Len(s1) \in Nat /\ \A i \in 1 .. Len(s1) : s1[i] \in Folders
      /\ Len(s2) \in Nat /\ \A i \in 1 .. Len(s2) : s2[i] \in Files
  BY <1>5, LenProperties
<1>9. s1 \in Seq(WrittenEntries) /\ s2 \in Seq(WrittenEntries)
  BY <1>3, <1>4, <1>5, SeqMonotonic
<1>10. /\ s \in Seq(WrittenEntries) /\ Len(s) = Len(s1) + Len(s2)
       /\ \A i \in 1 .. Len(s1) + Len(s2) : s[i] = IF i <= Len(s1) THEN s1[i] ELSE s2[i - Len(s1)]
  BY <1>9, ConcatProperties
<1> HIDE DEF s
<1>11. ASSUME NEW i \in 1 .. Len(s)
       PROVE  \/ i <= Len(s1) /\ s[i] \in Folders
              \/ i > Len(s1) /\ i - Len(s1) \in 1 .. Len(s2) /\ s[i] = s2[i - Len(s1)] /\ s[i] \in Files
  BY <1>8, <1>10
<1>12. ASSUME NEW e \in Files PROVE \E i \in 1 .. Len(s) : s[i] = e
  <2>1. PICK i \in 1 .. Len(s2) : s2[i] = e
    BY <1>5
  <2>2. Len(s1) + i \in 1 .. Len(s) /\ ~(Len(s1) + i <= Len(s1)) /\ Len(s1) + i - Len(s1) = i
    BY <1>8, <1>10
  <2>3. s[Len(s1) + i] = s2[i]
    BY <1>10, <2>2
  <2> QED
    BY <2>1, <2>2, <2>3
<1>13. ASSUME NEW i \in 1 .. Len(s), NEW j \in 1 .. Len(s), s[i] = s[j], s[i].kind = "file"
       PROVE  i = j
  <2>1. s[i] \notin Folders /\ s[j] \notin Folders
    BY <1>3, <1>13 DEF IsFolder
  <2>2. /\ i - Len(s1) \in 1 .. Len(s2) /\ s[i] = s2[i - Len(s1)]
        /\ j - Len(s1) \in 1 .. Len(s2) /\ s[j] = s2[j - Len(s1)]
    BY <1>11, <2>1
  <2>3. i - Len(s1) = j - Len(s1)
    BY <1>5, <1>13, <2>2
  <2> QED
    BY <1>8, <1>10, <2>3
<1>14. \A i \in 1 .. Len(s) :
          IsFolder(s[i], top) \/ \E n \in FilesOf(t) : s[i] = FileEntry(top \o n, t[n])
  BY <1>3, <1>4, <1>11
<1>15. \A n \in FilesOf(t) : \E i \in 1 .. Len(s) : s[i] = FileEntry(top \o n, t[n])
  BY <1>6, <1>12
<1>16. Lists(s, t, top, FilesOf(t))
  BY <1>10, <1>13, <1>14, <1>15 DEF Lists
<1> QED
  BY <1>7, <1>16 DEF s

LEMMA FolderFirst ==
    ASSUME NEW s, NEW t, NEW top, NEW left, Lists(s, t, top, left),
           NEW f \in WrittenEntries, IsFolder(f, top)
    PROVE  Lists(<<f>> \o s, t, top, left)
<1> DEFINE u == <<f>> \o s
<1>1. s \in Seq(WrittenEntries) /\ <<f>> \in Seq(WrittenEntries) /\ Len(<<f>>) = 1 /\ <<f>>[1] = f
      /\ Len(s) \in Nat
  BY LenProperties DEF Lists
<1>2. /\ u \in Seq(WrittenEntries) /\ Len(u) = 1 + Len(s)
      /\ \A i \in 1 .. 1 + Len(s) : u[i] = IF i <= 1 THEN <<f>>[i] ELSE s[i - 1]
  BY <1>1, ConcatProperties
<1> HIDE DEF u
<1>3. u[1] = f /\ f.kind # "file"
  BY <1>1, <1>2 DEF IsFolder
<1>4. \A i \in 1 .. Len(s) : i + 1 \in 1 .. Len(u) /\ u[i + 1] = s[i]
  <2> SUFFICES ASSUME NEW i \in 1 .. Len(s) PROVE i + 1 \in 1 .. Len(u) /\ u[i + 1] = s[i]
    OBVIOUS
  <2>1. i + 1 \in 1 .. 1 + Len(s) /\ ~(i + 1 <= 1) /\ i + 1 - 1 = i
    BY <1>1
  <2> QED
    BY <1>2, <2>1
<1>5. \A i \in 1 .. Len(u) : i # 1 => i - 1 \in 1 .. Len(s) /\ u[i] = s[i - 1]
  BY <1>1, <1>2
<1>6. \A i \in 1 .. Len(u) :
         IsFolder(u[i], top) \/ \E n \in left : u[i] = FileEntry(top \o n, t[n])
  <2>1. \A i \in 1 .. Len(s) :
           IsFolder(s[i], top) \/ \E n \in left : s[i] = FileEntry(top \o n, t[n])
    BY DEF Lists
  <2>2. IsFolder(u[1], top)
    BY <1>3
  <2> QED
    BY <1>5, <2>1, <2>2
<1>7. \A n \in left : \E i \in 1 .. Len(u) : u[i] = FileEntry(top \o n, t[n])
  <2> SUFFICES ASSUME NEW n \in left PROVE \E i \in 1 .. Len(u) : u[i] = FileEntry(top \o n, t[n])
    OBVIOUS
  <2>1. PICK i \in 1 .. Len(s) : s[i] = FileEntry(top \o n, t[n])
    BY DEF Lists
  <2> QED
    BY <2>1, <1>4
<1>8. ASSUME NEW i \in 1 .. Len(u), NEW j \in 1 .. Len(u), u[i] = u[j], u[i].kind = "file"
      PROVE  i = j
  <2>1. i # 1 /\ j # 1
    BY <1>3, <1>8
  <2>2. i - 1 = j - 1
    BY <1>5, <1>8, <2>1 DEF Lists
  <2> QED
    BY <1>1, <1>2, <2>2
<1> QED
  BY <1>2, <1>6, <1>7, <1>8 DEF Lists, u

LEMMA TarLists ==
    ASSUME NEW t, IsSource(t)
    PROVE  Lists(Tar(t), t, <<Root>>, FilesOf(t))
<1>1. DirectoryEntry(<<Root>>) \in WrittenEntries /\ IsFolder(DirectoryEntry(<<Root>>), <<Root>>)
  BY NamesAreSequences, CleanRoot DEF DirectoryEntry, WrittenEntries, IsFolder
<1>2. <<Root>> \in Tops
  BY DEF Tops
<1>3. Lists(Listing(t, <<Root>>), t, <<Root>>, FilesOf(t))
  BY <1>2, ListingLists
<1> QED
  BY <1>1, <1>3, FolderFirst DEF Tar

\* Taking the first entry leaves the rest: a file that was read is not met again.
LEMMA HeadOfList ==
    ASSUME NEW s, NEW t, IsSource(t), NEW top \in Tops, NEW left \in SUBSET FilesOf(t),
           Lists(s, t, top, left), s # <<>>
    PROVE  /\ Head(s) \in WrittenEntries
           /\ Len(s) \in Nat /\ Len(s) > 0 /\ Len(Tail(s)) = Len(s) - 1
           /\ \/ IsFolder(Head(s), top) /\ Lists(Tail(s), t, top, left)
              \/ \E n \in left : /\ Head(s) = FileEntry(top \o n, t[n])
                                 /\ Lists(Tail(s), t, top, left \ {n})
<1> DEFINE u == Tail(s)
<1>1. s \in Seq(WrittenEntries) /\ Len(s) \in Nat /\ Len(s) > 0 /\ Head(s) = s[1]
  BY EmptySeq, LenProperties DEF Lists
<1>2. /\ Head(s) \in WrittenEntries
      /\ u \in Seq(WrittenEntries) /\ Len(u) = Len(s) - 1
      /\ \A i \in 1 .. Len(u) : u[i] = s[i + 1]
  BY <1>1, HeadTailProperties
<1> HIDE DEF u
<1>3. \A i, j \in 1 .. Len(u) : u[i] = u[j] /\ u[i].kind = "file" => i = j
  <2> SUFFICES ASSUME NEW i \in 1 .. Len(u), NEW j \in 1 .. Len(u), u[i] = u[j], u[i].kind = "file"
               PROVE  i = j
    OBVIOUS
  <2>1. i + 1 \in 1 .. Len(s) /\ j + 1 \in 1 .. Len(s) /\ s[i + 1] = s[j + 1] /\ s[i + 1].kind = "file"
    BY <1>1, <1>2
  <2>2. i + 1 = j + 1
    BY <2>1 DEF Lists
  <2> QED
    BY <1>1, <1>2, <2>2
<1>4. \A i \in 1 .. Len(u) : i + 1 \in 1 .. Len(s) /\ i + 1 # 1 /\ u[i] = s[i + 1]
  BY <1>1, <1>2
<1>5. \A i \in 1 .. Len(s) : i # 1 => i - 1 \in 1 .. Len(u) /\ u[i - 1] = s[i]
  <2> SUFFICES ASSUME NEW i \in 1 .. Len(s), i # 1
               PROVE  i - 1 \in 1 .. Len(u) /\ u[i - 1] = s[i]
    OBVIOUS
  <2>1. i - 1 \in 1 .. Len(u) /\ (i - 1) + 1 = i
    BY <1>1, <1>2
  <2> QED
    BY <1>2, <2>1
<1>6. 1 \in 1 .. Len(s)
  BY <1>1
<1>7. CASE IsFolder(Head(s), top)
  <2>1. s[1].kind # "file" /\ \A n : FileEntry(top \o n, t[n]).kind = "file"
    BY <1>1, <1>7 DEF IsFolder, FileEntry
  <2>2. ASSUME NEW n \in left PROVE \E i \in 1 .. Len(u) : u[i] = FileEntry(top \o n, t[n])
    <3>1. PICK i \in 1 .. Len(s) : s[i] = FileEntry(top \o n, t[n])
      BY DEF Lists
    <3>2. i # 1
      BY <2>1, <3>1
    <3> QED
      BY <1>5, <3>1, <3>2
  <2>3. \A i \in 1 .. Len(u) :
           IsFolder(u[i], top) \/ \E n \in left : u[i] = FileEntry(top \o n, t[n])
    BY <1>4 DEF Lists
  <2>4. Lists(u, t, top, left)
    BY <1>2, <1>3, <2>2, <2>3 DEF Lists
  <2> QED
    BY <1>1, <1>2, <1>7, <2>4 DEF u
<1>8. CASE ~IsFolder(Head(s), top)
  <2>1. PICK n \in left : s[1] = FileEntry(top \o n, t[n])
    BY <1>1, <1>6, <1>8 DEF Lists
  <2>2. s[1].kind = "file"
    BY <2>1 DEF FileEntry
  <2>3. ASSUME NEW i \in 1 .. Len(u)
        PROVE  IsFolder(u[i], top) \/ \E m \in left \ {n} : u[i] = FileEntry(top \o m, t[m])
    <3>1. u[i] # s[1]
      <4>1. i + 1 \in 1 .. Len(s) /\ i + 1 # 1 /\ u[i] = s[i + 1]
        BY <1>4
      <4> QED
        BY <1>6, <2>2, <4>1 DEF Lists
    <3>2. IsFolder(u[i], top) \/ \E m \in left : u[i] = FileEntry(top \o m, t[m])
      BY <1>4 DEF Lists
    <3> QED
      BY <2>1, <3>1, <3>2
  <2>4. ASSUME NEW m \in left \ {n} PROVE \E i \in 1 .. Len(u) : u[i] = FileEntry(top \o m, t[m])
    <3>1. PICK i \in 1 .. Len(s) : s[i] = FileEntry(top \o m, t[m])
      BY DEF Lists
    <3>2. m \in Seq(Component) /\ n \in Seq(Component) /\ m # n
      BY SourceNames
    <3>3. top \o m # top \o n
      BY <3>2, TopsAreNames
    <3>4. s[1].name = top \o n /\ s[i].name = top \o m
      BY <2>1, <3>1 DEF FileEntry
    <3>5. i # 1
      BY <3>3, <3>4
    <3> QED
      BY <1>5, <3>1, <3>5
  <2>5. Lists(u, t, top, left \ {n})
    BY <1>2, <1>3, <2>3, <2>4 DEF Lists
  <2> QED
    BY <1>1, <1>2, <2>1, <2>5 DEF u
<1> QED
  BY <1>7, <1>8

-----------------------------------------------------------------------------
(* The tree that is read back.                                             *)

\* What the zip reader holds can be written.
Generated ==
    reader = "zip" =>
        FilesOf(tree) \subseteq Names /\ total = Bytes(tree)
        /\ (verdict = "accepted" => Shaped(tree))

\* Nothing was written while the generated tree is still read.
Unwritten == reader \in {"single", "zip"} => origin = None /\ staged = <<>>

Top == IF reader = "tar" THEN <<Root>> ELSE <<>>

\* The tree that was written is one the zip reader accepts: it is within the
\* limits that the reader of the copy has too.
WithinLimits(t) ==
    IsSource(t) /\ Cardinality(FilesOf(t)) <= MaxFiles /\ Bytes(t) <= MaxTotal

\* What was read of it and what is left to read make up the tree, each file
\* once, and the entries of its archive.
Halfway ==
    /\ PartOf(tree, origin) /\ total = Bytes(tree)
    /\ Lists(staged, origin, Top, FilesOf(origin) \ FilesOf(tree))
    /\ input \in Seq(WrittenEntries)
    /\ reader = "tar" => Len(input) + Len(staged) = Len(Tar(origin))

TooManyEntries == reader = "tar" /\ Len(Tar(origin)) > MaxEntries

ReadBack ==
    /\ reader \in {"tar", "walk"}
    /\ WithinLimits(origin)
    /\ verdict = "reading" => Halfway
    /\ verdict = "accepted" => tree = origin
    /\ verdict \in {"refused", "incomplete"} => TooManyEntries

BackInv == Inv /\ Generated /\ Unwritten /\ (origin # None => ReadBack)

LEMMA NoBytes ==
    /\ IsTree(NoFiles) /\ Bytes(NoFiles) = 0 /\ FilesOf(NoFiles) = {}
    /\ \A t : PartOf(NoFiles, t)
<1>1. FilesOf(NoFiles) = {} /\ IsTree(NoFiles)
  BY EmptyTree DEF IsTree, FilesOf
<1>2. Marks(NoFiles) = {}
  BY <1>1 DEF Marks
<1> QED
  BY <1>1, <1>2, FS_EmptySet DEF Bytes, PartOf

LEMMA HeldTree == ASSUME Inv, reader # "single" PROVE IsTree(tree)
BY DEF Inv, TypeOK, IsTree

LEMMA WrittenLimits ==
    ASSUME BackInv, reader = "zip", verdict = "accepted"
    PROVE  WithinLimits(tree)
BY HeldTree DEF BackInv, Inv, TypeOK, Generated, WithinLimits, IsSource

LEMMA StagePublishBack ==
    ASSUME BackInv, Stage \/ Publish
    PROVE  Generated' /\ Unwritten' /\ ReadBack'
<1>1. reader = "zip" /\ verdict = "accepted"
  BY DEF Stage, Publish
<1>2. /\ origin' = tree /\ tree' = NoFiles /\ total' = 0 /\ input' = <<>>
      /\ verdict' = "reading" /\ reader' \in {"tar", "walk"}
  BY DEF Stage, Publish, Fresh
<1>3. WithinLimits(origin')
  BY <1>1, <1>2, WrittenLimits
<1>4. IsSource(tree) /\ FilesOf(origin') \ FilesOf(tree') = FilesOf(tree)
  BY <1>2, <1>3, NoBytes DEF WithinLimits
<1>5. Lists(staged', origin', Top', FilesOf(origin') \ FilesOf(tree'))
  <2>1. CASE Stage
    <3>1. staged' = Tar(tree) /\ Top' = <<Root>>
      BY <2>1 DEF Stage, Fresh, Top
    <3> QED
      BY <1>2, <1>4, <3>1, TarLists
  <2>2. CASE Publish
    <3>1. staged' = Listing(tree, <<>>) /\ Top' = <<>>
      BY <2>2 DEF Publish, Fresh, Top
    <3>2. Lists(Listing(tree, <<>>), tree, <<>>, FilesOf(tree))
      BY <1>4, ListingLists DEF Tops
    <3> QED
      BY <1>2, <1>4, <3>1, <3>2
  <2> QED
    BY <2>1, <2>2
<1>6. reader' = "tar" => Len(input') + Len(staged') = Len(Tar(origin'))
  <2> SUFFICES ASSUME reader' = "tar" PROVE Len(input') + Len(staged') = Len(Tar(origin'))
    OBVIOUS
  <2>1. staged' = Tar(origin')
    BY <1>2 DEF Stage, Publish, Fresh
  <2>2. Len(input') = 0 /\ Len(staged') \in Nat
    BY <1>2, <1>5, LenProperties, EmptySeq DEF Lists
  <2> QED
    BY <2>1, <2>2
<1>7. PartOf(tree', origin') /\ total' = Bytes(tree')
  BY <1>2, NoBytes
<1>8. input' \in Seq(WrittenEntries)
  BY <1>2, EmptySeq
<1>9. Halfway'
  BY <1>5, <1>6, <1>7, <1>8 DEF Halfway
<1>10. ReadBack'
  BY <1>2, <1>3, <1>9 DEF ReadBack
<1> QED
  BY <1>2, <1>10 DEF Generated, Unwritten

\* An entry that is not a file leaves the files it holds alone.
LEMMA ConsumedTree ==
    ASSUME NEW e, Consume(e)
    PROVE  /\ reader' = reader /\ origin' = origin /\ input' = Append(input, e)
           /\ verdict = "reading" /\ verdict' \in {"reading", "refused"}
           /\ verdict' = "refused" <=> ~Takes(e)
           /\ (Takes(e) /\ e.kind = "file") =>
                 /\ tree' = Added(tree, IF reader = "tar" THEN Tail(e.name) ELSE e.name, e.data)
                 /\ total' = total + e.data
           /\ ~(Takes(e) /\ e.kind = "file") => UNCHANGED <<tree, total>>
<1>1. verdict = "reading" /\ reader' = reader /\ origin' = origin /\ input' = Append(input, e)
  BY DEF Consume
<1>2. CASE ~Takes(e) /\ verdict' = "refused" /\ UNCHANGED <<tree, directories, total>>
  BY <1>1, <1>2
<1>3. CASE Takes(e) /\ e.kind = "directory" /\ UNCHANGED <<tree, total, verdict>>
  BY <1>1, <1>3
<1>4. CASE /\ Takes(e) /\ e.kind = "file"
           /\ LET name == IF reader = "tar" THEN Tail(e.name) ELSE e.name
              IN tree' = [n \in FilesOf(tree) \cup {name} |-> IF n = name THEN e.data ELSE tree[n]]
           /\ total' = total + e.data
           /\ UNCHANGED <<directories, verdict>>
  BY <1>1, <1>4 DEF Added
<1> QED
  BY <1>2, <1>3, <1>4 DEF Consume

\* The files that the entries a reader refuses are made of.
OddFiles ==
    {FileEntry(n, size) :
        n \in OfferedNames \cap {ZipFile, SolrConfig, <<Root>> \o SolrConfig}, size \in Sizes}

\* An entry made of one of them.
MadeOf(e, f) ==
    \/ e = f
    \/ e = [f EXCEPT !.kind = "other"]
    \/ \E length \in Sizes : e = [f EXCEPT !.data = length]
    \/ e = [f EXCEPT !.kind = "directory"]

LEMMA OfferedForms ==
    ASSUME NEW e \in Offered
    PROVE  \/ \E n \in OfferedNames, size \in {s \in Sizes : s <= MaxFile} : e = FileEntry(n, size)
           \/ \E n \in OfferedNames \ directories : e = DirectoryEntry(n)
           \/ \E f \in OddFiles : MadeOf(e, f)
BY DEF Offered, OddFiles, MadeOf

\* An archive holds no other names than it was offered.
LEMMA OfferedHasName ==
    ASSUME NEW e \in Offered
    PROVE  e.name \in OfferedNames
<1>1. \A n, size : FileEntry(n, size).name = n /\ DirectoryEntry(n).name = n
  BY DEF FileEntry, DirectoryEntry
<1>2. CASE \E f \in OddFiles : MadeOf(e, f)
  <2>1. PICK f \in OddFiles : MadeOf(e, f)
    BY <1>2
  <2>2. PICK n \in OfferedNames, size \in Sizes : f = FileEntry(n, size)
    BY DEF OddFiles
  <2>3. e.name = n
    BY <2>1, <2>2 DEF MadeOf, FileEntry
  <2> QED
    BY <2>2, <2>3
<1>3. CASE \E n \in OfferedNames : e = DirectoryEntry(n) \/ \E size : e = FileEntry(n, size)
  BY <1>1, <1>3
<1> QED
  BY OfferedForms, <1>2, <1>3

LEMMA EntryBack ==
    ASSUME BackInv, Entry
    PROVE  Generated' /\ Unwritten' /\ origin' = None
<1>1. PICK e \in Offered : Consume(e)
  BY DEF Entry
<1>2. origin = None /\ origin' = None /\ staged' = staged /\ reader' = reader
  BY <1>1 DEF Entry, Consume
<1>3. Unwritten'
  BY <1>2 DEF BackInv, Unwritten
<1>4. Generated'
  <2> SUFFICES ASSUME reader' = "zip"
               PROVE  FilesOf(tree') \subseteq Names /\ total' = Bytes(tree') /\ verdict' # "accepted"
    BY DEF Generated
  <2>1. reader = "zip" /\ FilesOf(tree) \subseteq Names /\ total = Bytes(tree) /\ IsTree(tree)
    BY <1>2, HeldTree DEF BackInv, Generated
  <2>2. verdict' # "accepted"
    BY <1>1, ConsumedTree
  <2>3. CASE Takes(e) /\ e.kind = "file"
    <3>1. e.name \in Names
      BY <2>1, <1>1, OfferedHasName DEF OfferedNames
    <3>2. ZipTakes(e)
      BY <2>1, <2>3 DEF Takes
    <3>3. e.name \notin FilesOf(tree) /\ e.data \in 0 .. MaxFile
      BY <2>3, <3>2 DEF ZipTakes, ReadsExactly
    <3>4. tree' = Added(tree, e.name, e.data) /\ total' = total + e.data
      BY <1>1, <2>1, <2>3, ConsumedTree
    <3> QED
      BY <2>1, <2>2, <3>1, <3>3, <3>4, AddedBytes
  <2>4. CASE ~(Takes(e) /\ e.kind = "file")
    <3>1. tree' = tree /\ total' = total
      BY <1>1, <2>4, ConsumedTree
    <3> QED
      BY <2>1, <2>2, <3>1
  <2> QED
    BY <2>3, <2>4
<1> QED
  BY <1>2, <1>3, <1>4

\* A directory of the tree is read again, unless the archive has too many entries.
LEMMA FolderTaken ==
    ASSUME reader \in {"tar", "walk"}, NEW e \in WrittenEntries, IsFolder(e, Top),
           reader = "tar" => RoomForEntry
    PROVE  Takes(e) /\ e.kind = "directory"
<1>1. CASE reader = "tar"
  <2>1. Top = <<Root>>
    BY <1>1 DEF Top
  <2> QED
    BY <1>1, <2>1 DEF IsFolder, Takes, TarTakes
<1>2. CASE reader = "walk"
  BY <1>2 DEF IsFolder, Takes, WalkTakes
<1> QED
  BY <1>1, <1>2

\* A file of the tree that is not read yet is read, under the same condition.
LEMMA FileTaken ==
    ASSUME Inv, reader \in {"tar", "walk"}, WithinLimits(origin), Halfway,
           NEW n \in FilesOf(origin) \ FilesOf(tree),
           reader = "tar" => RoomForEntry
    PROVE  LET e == FileEntry(Top \o n, origin[n])
           IN  /\ Takes(e) /\ e.kind = "file" /\ e.data = origin[n]
               /\ (IF reader = "tar" THEN Tail(e.name) ELSE e.name) = n
<1> DEFINE e == FileEntry(Top \o n, origin[n])
<1>1. e.kind = "file" /\ e.name = Top \o n /\ e.size = origin[n] /\ e.data = origin[n]
  BY DEF FileEntry
<1> HIDE DEF e
<1>2. n \in Seq(Component) /\ n # <<>> /\ CleanName(n)
  BY SourceNames DEF WithinLimits
<1>3. origin[n] \in 0 .. MaxFile /\ IsTree(tree) /\ IsTree(origin)
  BY HeldTree, LimitsAreNaturals DEF WithinLimits, IsSource, IsTree
<1>4. /\ total + origin[n] <= Bytes(origin)
      /\ Cardinality(FilesOf(tree)) < Cardinality(FilesOf(origin))
  BY <1>3, PartBytes DEF Halfway
<1>5. RoomForFile
  <2>1. Cardinality(FilesOf(tree)) \in Nat /\ Cardinality(FilesOf(origin)) \in Nat
    BY <1>3, FS_CardinalityType DEF IsTree
  <2> QED
    BY <1>4, <2>1, LimitsAreNaturals DEF RoomForFile, WithinLimits
<1>6. Fits(e)
  <2>1. total \in Nat /\ Bytes(origin) \in Nat /\ Bytes(origin) <= MaxTotal
    BY <1>3, BytesType DEF Inv, TypeOK, WithinLimits
  <2>2. total <= MaxTotal - origin[n]
    BY <1>3, <1>4, <2>1, LimitsAreNaturals
  <2> QED
    BY <1>1, <1>3, <2>2 DEF Fits
<1>7. ReadsExactly(e, MaxFile)
  BY <1>1, <1>3 DEF ReadsExactly
<1>8. CASE reader = "tar"
  <2>1. e.name = <<Root>> \o n
    BY <1>1, <1>8 DEF Top
  <2>2. CleanName(e.name) /\ Head(e.name) = Root /\ Tail(e.name) = n
    BY <1>2, <2>1, CleanBelow
  <2>3. TarTakes(e)
    BY <1>1, <1>2, <1>5, <1>6, <1>7, <1>8, <2>2 DEF TarTakes
  <2> QED
    BY <1>1, <1>8, <2>2, <2>3 DEF Takes, e
<1>9. CASE reader = "walk"
  <2>1. e.name = n
    <3>1. e.name = <<>> \o n
      BY <1>1, <1>9 DEF Top
    <3> QED
      BY <3>1, <1>2, ConcatEmptySeq
  <2>2. WalkTakes(e)
    BY <1>1, <1>2, <1>5, <1>6, <1>7, <2>1 DEF WalkTakes
  <2> QED
    BY <1>1, <1>9, <2>1, <2>2 DEF Takes, e
<1> QED
  BY <1>8, <1>9

LEMMA StagedEntryBack ==
    ASSUME BackInv, StagedEntry, origin # None
    PROVE  ReadBack'
<1> DEFINE e == Head(staged)
           left == FilesOf(origin) \ FilesOf(tree)
<1>1. /\ staged # <<>> /\ Consume(e) /\ staged' = Tail(staged)
      /\ verdict = "reading" /\ reader' = reader /\ origin' = origin
      /\ input' = Append(input, e) /\ verdict' \in {"reading", "refused"}
  BY ConsumedTree DEF StagedEntry
<1>2. ReadBack /\ Halfway /\ Inv
  BY <1>1 DEF BackInv, ReadBack
<1>3. reader \in {"tar", "walk"} /\ WithinLimits(origin) /\ Top' = Top
  BY <1>1, <1>2 DEF ReadBack, Top
<1>4. IsSource(origin) /\ Top \in Tops /\ left \in SUBSET FilesOf(origin)
  BY <1>3 DEF WithinLimits, Top, Tops
<1>5. Lists(staged, origin, Top, left)
  BY <1>2 DEF Halfway
<1> HIDE DEF e, left
<1>6. /\ e \in WrittenEntries
      /\ Len(staged) \in Nat /\ Len(staged) > 0 /\ Len(staged') = Len(staged) - 1
      /\ \/ IsFolder(e, Top) /\ Lists(staged', origin, Top, left)
         \/ \E n \in left : /\ e = FileEntry(Top \o n, origin[n])
                            /\ Lists(staged', origin, Top, left \ {n})
  BY <1>1, <1>4, <1>5, HeadOfList DEF e
<1>7. Len(input) \in Nat /\ input' \in Seq(WrittenEntries) /\ Len(input') = Len(input) + 1
  BY <1>1, <1>2, <1>6, AppendProperties, LenProperties DEF Halfway
<1>8. reader' = "tar" => Len(input') + Len(staged') = Len(Tar(origin'))
  BY <1>1, <1>2, <1>6, <1>7 DEF Halfway
<1>9. CASE TooManyEntries /\ verdict' = "refused"
  BY <1>1, <1>3, <1>9 DEF ReadBack, TooManyEntries
<1>10. reader = "tar" => RoomForEntry \/ TooManyEntries
  <2>1. ASSUME reader = "tar" PROVE Len(input) < Len(Tar(origin))
    BY <1>2, <1>6, <1>7, <2>1 DEF Halfway
  <2>2. ASSUME reader = "tar" PROVE Len(Tar(origin)) \in Nat
    BY <1>2, <1>6, <1>7, <2>2 DEF Halfway
  <2> QED
    BY <2>1, <2>2, <1>7, LimitsAreNaturals DEF RoomForEntry, TooManyEntries
<1>11. CASE IsFolder(e, Top) /\ Lists(staged', origin, Top, left)
  <2>1. CASE Takes(e)
    <3>1. e.kind # "file" /\ verdict' = "reading"
      BY <1>1, <1>11, <2>1, ConsumedTree DEF IsFolder
    <3>2. tree' = tree /\ total' = total
      BY <1>1, <3>1, ConsumedTree
    <3>3. Halfway'
      BY <1>1, <1>2, <1>3, <1>7, <1>8, <1>11, <3>2 DEF Halfway, left
    <3> QED
      BY <1>1, <1>3, <3>1, <3>3 DEF ReadBack
  <2>2. CASE ~Takes(e)
    <3>1. TooManyEntries
      BY <1>3, <1>6, <1>10, <1>11, <2>2, FolderTaken
    <3>2. verdict' = "refused"
      BY <1>1, <2>2, ConsumedTree
    <3> QED
      BY <1>9, <3>1, <3>2
  <2> QED
    BY <2>1, <2>2
<1>12. ASSUME NEW n \in left,
              e = FileEntry(Top \o n, origin[n]), Lists(staged', origin, Top, left \ {n})
       PROVE  ReadBack'
  <2>1. n \in FilesOf(origin) \ FilesOf(tree)
    BY DEF left
  <2>2. CASE reader = "tar" => RoomForEntry
    <3>1. /\ Takes(e) /\ e.kind = "file" /\ e.data = origin[n]
          /\ (IF reader = "tar" THEN Tail(e.name) ELSE e.name) = n
      BY <1>2, <1>3, <1>12, <2>1, <2>2, FileTaken
    <3>2. verdict' = "reading" /\ tree' = Added(tree, n, origin[n]) /\ total' = total + origin[n]
      BY <1>1, <3>1, ConsumedTree
    <3>3. IsTree(tree) /\ IsTree(origin) /\ PartOf(tree, origin) /\ total = Bytes(tree)
      BY <1>2, <1>3, HeldTree DEF WithinLimits, IsSource, Halfway
    <3>4. origin[n] \in 0 .. MaxFile
      BY <2>1, <3>3, LimitsAreNaturals DEF IsTree
    <3>5. PartOf(tree', origin)
      BY <2>1, <3>2, <3>3, PartBytes
    <3>6. FilesOf(tree') = FilesOf(tree) \cup {n} /\ total' = Bytes(tree')
      BY <2>1, <3>2, <3>3, <3>4, AddedBytes
    <3>7. FilesOf(origin) \ FilesOf(tree') = left \ {n}
      BY <3>6 DEF left
    <3>8. Halfway'
      BY <1>1, <1>3, <1>7, <1>8, <1>12, <3>5, <3>6, <3>7 DEF Halfway
    <3> QED
      BY <1>1, <1>3, <3>2, <3>8 DEF ReadBack
  <2>3. CASE ~(reader = "tar" => RoomForEntry)
    <3>1. TooManyEntries
      BY <1>10, <2>3
    <3>2. ~Takes(e)
      BY <2>3 DEF Takes, TarTakes
    <3>3. verdict' = "refused"
      BY <1>1, <3>2, ConsumedTree
    <3> QED
      BY <1>9, <3>1, <3>3
  <2> QED
    BY <2>2, <2>3
<1> QED
  BY <1>6, <1>11, <1>12

LEMMA EndBack ==
    ASSUME BackInv, End
    PROVE  Generated' /\ Unwritten' /\ (origin' # None => ReadBack')
<1>1. /\ verdict = "reading" /\ staged = <<>>
      /\ verdict' = IF Complete THEN "accepted" ELSE "incomplete"
      /\ UNCHANGED <<reader, input, tree, directories, total, origin, staged>>
  BY DEF End
<1>2. Unwritten'
  BY <1>1 DEF BackInv, Unwritten
<1>3. Generated'
  <2>1. reader = "zip" /\ verdict' = "accepted" => Shaped(tree)
    BY <1>1 DEF Complete
  <2> QED
    BY <1>1, <2>1 DEF BackInv, Generated, FilesOf
<1>4. ASSUME origin # None PROVE ReadBack'
  <2>1. ReadBack /\ Halfway /\ reader \in {"tar", "walk"} /\ WithinLimits(origin)
    BY <1>1, <1>4 DEF BackInv, ReadBack
  <2>2. FilesOf(origin) \ FilesOf(tree) = {}
    <3>1. Len(staged) = 0
      BY <1>1
    <3> QED
      BY <2>1, <3>1 DEF Halfway, Lists
  <2>3. FilesOf(tree) = FilesOf(origin) /\ \A n \in FilesOf(tree) : tree[n] = origin[n]
    BY <2>1, <2>2 DEF Halfway, PartOf
  <2>4. IsTree(tree) /\ IsTree(origin)
    BY <2>1, HeldTree DEF BackInv, WithinLimits, IsSource
  <2>5. tree = origin
    BY <2>3, <2>4 DEF IsTree
  <2>6. Shaped(tree)
    BY <2>1, <2>5 DEF WithinLimits, IsSource
  <2>7. verdict' = "accepted"
    BY <1>1, <2>1, <2>6 DEF Complete
  <2> QED
    BY <1>1, <2>1, <2>5, <2>7 DEF ReadBack
<1> QED
  BY <1>1, <1>2, <1>3, <1>4

LEMMA BackStep == BackInv /\ [Next]_vars => BackInv'
<1> SUFFICES ASSUME BackInv, [Next]_vars PROVE BackInv'
  OBVIOUS
<1>1. Inv'
  BY InvStep DEF BackInv
<1>2. CASE Entry
  BY <1>1, <1>2, EntryBack DEF BackInv
<1>3. CASE StagedEntry
  <2>1. staged # <<>> /\ reader' = reader /\ origin' = origin
    BY <1>3 DEF StagedEntry, Consume
  <2>2. reader \notin {"single", "zip"}
    BY <2>1 DEF BackInv, Unwritten
  <2>3. Generated' /\ Unwritten'
    BY <2>1, <2>2 DEF Generated, Unwritten
  <2> QED
    BY <1>1, <1>3, <2>1, <2>3, StagedEntryBack DEF BackInv
<1>4. CASE End
  BY <1>1, <1>4, EndBack DEF BackInv
<1>5. CASE Break
  <2>1. origin' = None /\ staged' = staged /\ tree' = tree /\ total' = total /\ reader' = reader
        /\ verdict' = "broken"
    BY <1>5 DEF Break
  <2>2. Generated' /\ Unwritten'
    BY <2>1, <1>5 DEF BackInv, Generated, Unwritten, Break
  <2> QED
    BY <1>1, <2>1, <2>2 DEF BackInv
<1>6. CASE Unzip
  <2>1. /\ reader' = "zip" /\ tree' = NoFiles /\ total' = 0 /\ verdict' = "reading"
        /\ origin' = origin /\ staged' = staged
    BY <1>6 DEF Unzip, Fresh
  <2>2. origin = None /\ staged = <<>>
    BY <1>6 DEF BackInv, Unwritten, Unzip
  <2>3. Generated' /\ Unwritten'
    BY <2>1, <2>2, NoBytes DEF Generated, Unwritten
  <2> QED
    BY <1>1, <2>1, <2>2, <2>3 DEF BackInv
<1>7. CASE Stage \/ Publish
  BY <1>1, <1>7, StagePublishBack DEF BackInv
<1>8. CASE UNCHANGED vars
  <2>1. /\ UNCHANGED <<reader, input, tree, total>>
        /\ UNCHANGED <<verdict, origin, staged>>
    BY <1>8 DEF vars
  <2>2. Generated' /\ Unwritten'
    BY <2>1 DEF BackInv, Generated, Unwritten
  <2>3. ReadBack => ReadBack'
    BY <2>1 DEF ReadBack, Halfway, TooManyEntries, Top
  <2> QED
    BY <1>1, <2>1, <2>2, <2>3 DEF BackInv
<1> QED
  BY <1>2, <1>3, <1>4, <1>5, <1>6, <1>7, <1>8 DEF Next

LEMMA InitBack == ASSUME Init PROVE BackInv
<1>1. Inv
  <2>1. reader \in Readers /\ verdict \in Verdicts /\ total = 0 /\ tree = NoFiles
    BY DEF Init, Readers, Verdicts
  <2>2. /\ IsFiniteSet(FilesOf(tree)) /\ tree \in [FilesOf(tree) -> Nat]
        /\ FilesOf(tree) = {} /\ Cardinality(FilesOf(tree)) = 0
    BY <2>1, EmptyTree
  <2> QED
    BY <2>1, <2>2, LimitsAreNaturals DEF Inv, TypeOK
<1> QED
  BY <1>1 DEF Init, BackInv, Generated, Unwritten

\* Whatever tree the zip reader accepted, however long its names and many its
\* files, the tar reader reads the same tree back from the container and the walk
\* from the host; they refuse it only when its directories take the archive over
\* the limit on entries.  The root's name must be clean, or every tar is refused.
THEOREM WrittenTreesAreReadBack == Spec => []WrittenTreeIsReadBack
<1>1. Init => BackInv
  BY InitBack
<1>2. BackInv => WrittenTreeIsReadBack
  BY DEF BackInv, ReadBack, TooManyEntries, WrittenTreeIsReadBack
<1> QED
  BY <1>1, <1>2, BackStep, PTL DEF Spec

-----------------------------------------------------------------------------
(* Entry by entry and as a whole.                                          *)

AnyEntry ==
    [kind : {"directory", "file", "other"}, name : Seq(Component) \cup {ZipFile},
     size : Nat, data : Nat]

\* A file that drush wrote, and a tree, as they were taken.
TakenFile == \A i \in Positions("file") : input[i].name = ZipFile /\ input[i].size <= MaxZip

TakenTree ==
    /\ \A i \in DOMAIN input : input[i].name \in Seq(Component)
    /\ Cardinality(Positions("file")) = Cardinality(FilesOf(tree))
    /\ total = Cardinality(ByteMarks(input, Positions("file")))
    /\ \A i \in Positions("file") : input[i].size <= MaxFile

\* Every entry so far was taken, and every file of the tree comes from one.
Taken ==
    /\ input \in Seq(AnyEntry)
    /\ Positions("other") = {}
    /\ \A i \in Positions("file") : input[i].data = input[i].size
    /\ reader # "walk" =>
          Len(input) <= MaxEntries /\ \A i \in DOMAIN input : CleanName(input[i].name)
    /\ FilesOf(tree) = {NameAt(i) : i \in Positions("file")}
    /\ \A i \in Positions("file") : tree[NameAt(i)] = input[i].size
    /\ \A i, j \in Positions("file") : NameAt(i) = NameAt(j) => i = j
    /\ reader = "single" => TakenFile
    /\ reader # "single" => TakenTree
    /\ reader = "tar" => \A i \in DOMAIN input : input[i].name[1] = Root
    /\ reader = "zip" =>
          /\ directories = {input[i].name : i \in Positions("directory")}
          /\ \A i \in Positions("directory") : input[i].size = 0

ExactInv ==
    /\ BackInv /\ (origin = None => staged = <<>>)
    /\ verdict # "refused" => Taken
    /\ verdict = "accepted" => Complete
    /\ verdict = "incomplete" => ~Complete
    /\ verdict = "refused" => ~Permitted

EntryName(e) == IF reader = "tar" THEN Tail(e.name) ELSE e.name

\* What is known of an entry before it is read.
IsMet(e) ==
    /\ e \in AnyEntry
    /\ reader # "single" => e.name \in Seq(Component)
    /\ reader = "walk" /\ e.kind = "file" => e.name \notin FilesOf(tree)

LEMMA Appended ==
    ASSUME NEW s \in Seq(AnyEntry), NEW e \in AnyEntry
    PROVE  /\ Len(s) \in Nat /\ DOMAIN s = 1 .. Len(s) /\ Len(s) + 1 \notin DOMAIN s
           /\ Append(s, e) \in Seq(AnyEntry) /\ Len(Append(s, e)) = Len(s) + 1
           /\ DOMAIN Append(s, e) = DOMAIN s \cup {Len(s) + 1}
           /\ Append(s, e)[Len(s) + 1] = e
           /\ \A i \in DOMAIN s : Append(s, e)[i] = s[i]
<1>1. Len(s) \in Nat /\ DOMAIN s = 1 .. Len(s)
  BY LenProperties
<1>2. /\ Append(s, e) \in Seq(AnyEntry) /\ Len(Append(s, e)) = Len(s) + 1
      /\ \A i \in 1 .. Len(s) : Append(s, e)[i] = s[i]
      /\ Append(s, e)[Len(s) + 1] = e
  BY AppendProperties
<1>3. DOMAIN Append(s, e) = 1 .. Len(s) + 1
  BY <1>2, LenProperties
<1> QED
  BY <1>1, <1>2, <1>3

LEMMA AppendedPositions ==
    ASSUME input \in Seq(AnyEntry), NEW e \in AnyEntry, NEW N, N = Len(input) + 1,
           input' = Append(input, e), reader' = reader
    PROVE  /\ N \notin DOMAIN input /\ DOMAIN input' = DOMAIN input \cup {N}
           /\ input'[N] = e /\ NameAt(N)' = EntryName(e)
           /\ \A i \in DOMAIN input : input'[i] = input[i] /\ NameAt(i)' = NameAt(i)
           /\ \A kind : Positions(kind) \subseteq DOMAIN input
           /\ \A kind : Positions(kind)' =
                 IF e.kind = kind THEN Positions(kind) \cup {N} ELSE Positions(kind)
<1>1. /\ DOMAIN input' = DOMAIN input \cup {N} /\ input'[N] = e
      /\ \A i \in DOMAIN input : input'[i] = input[i]
      /\ N \notin DOMAIN input
  BY Appended
<1>2. ASSUME NEW kind
      PROVE  Positions(kind)' = IF e.kind = kind THEN Positions(kind) \cup {N} ELSE Positions(kind)
  BY <1>1 DEF Positions
<1>3. \A i \in DOMAIN input : NameAt(i)' = NameAt(i)
  BY <1>1 DEF NameAt
<1>4. NameAt(N)' = EntryName(e)
  BY <1>1 DEF NameAt, EntryName
<1>5. \A kind : Positions(kind) \subseteq DOMAIN input
  BY DEF Positions
<1> QED
  BY <1>1, <1>2, <1>3, <1>4, <1>5

LEMMA UpTo == ASSUME NEW n \in Nat PROVE IsFiniteSet(1 .. n) /\ Cardinality(1 .. n) = n
BY FS_Interval

LEMMA FinitePositions ==
    ASSUME input \in Seq(AnyEntry), NEW kind
    PROVE  IsFiniteSet(Positions(kind)) /\ Cardinality(Positions(kind)) \in Nat
<1>1. DOMAIN input = 1 .. Len(input) /\ Len(input) \in Nat
  BY LenProperties
<1>2. IsFiniteSet(1 .. Len(input))
  BY <1>1, FS_Interval
<1>3. Positions(kind) \subseteq 1 .. Len(input)
  BY <1>1 DEF Positions
<1> QED
  BY <1>2, <1>3, FS_Subset, FS_CardinalityType

LEMMA MarksType ==
    ASSUME NEW s \in Seq(AnyEntry), NEW p \in SUBSET DOMAIN s
    PROVE  IsFiniteSet(ByteMarks(s, p)) /\ Cardinality(ByteMarks(s, p)) \in Nat
<1> DEFINE f == [i \in p |-> {i} \X (1 .. s[i].size)]
<1>1. DOMAIN s = 1 .. Len(s) /\ Len(s) \in Nat /\ \A i \in DOMAIN s : s[i] \in AnyEntry
  BY LenProperties
<1>2. IsFiniteSet(p)
  <2>1. IsFiniteSet(1 .. Len(s)) /\ p \subseteq 1 .. Len(s)
    BY <1>1, UpTo
  <2> QED
    BY <2>1, FS_Subset
<1>3. ASSUME NEW i \in p PROVE IsFiniteSet({i} \X (1 .. s[i].size))
  <2>1. IsFiniteSet({i}) /\ IsFiniteSet(1 .. s[i].size)
    <3>1. s[i].size \in Nat
      BY <1>1 DEF AnyEntry
    <3> QED
      BY <3>1, FS_Singleton, UpTo
  <2> QED
    BY <2>1, FS_Product
<1>4. IsFiniteSet({f[i] : i \in DOMAIN f})
  <2>1. DOMAIN f = p
    OBVIOUS
  <2> HIDE DEF f
  <2> QED
    BY <1>2, <2>1, FiniteRange
<1>5. ByteMarks(s, p) = UNION {f[i] : i \in DOMAIN f} /\ \A T \in {f[i] : i \in DOMAIN f} : IsFiniteSet(T)
  BY <1>3 DEF ByteMarks
<1> HIDE DEF f
<1>6. IsFiniteSet(ByteMarks(s, p))
  BY <1>4, <1>5, FS_UNION
<1> QED
  BY <1>6, FS_CardinalityType

\* One more file has as many marks as it has bytes; one more directory has none.
LEMMA AppendedMarks ==
    ASSUME NEW s \in Seq(AnyEntry), NEW e \in AnyEntry, NEW p \in SUBSET DOMAIN s
    PROVE  /\ ByteMarks(Append(s, e), p) = ByteMarks(s, p)
           /\ Cardinality(ByteMarks(Append(s, e), p \cup {Len(s) + 1}))
                = Cardinality(ByteMarks(s, p)) + e.size
<1> DEFINE N == Len(s) + 1
           u == Append(s, e)
           fresh == {N} \X (1 .. e.size)
<1>1. u[N] = e /\ N \notin p /\ \A i \in p : u[i] = s[i]
  BY Appended
<1>2. e.size \in Nat
  BY DEF AnyEntry
<1> HIDE DEF u, N
<1>3. ByteMarks(u, p) = ByteMarks(s, p)
  BY <1>1 DEF ByteMarks
<1>4. ByteMarks(u, p \cup {N}) = ByteMarks(s, p) \cup fresh
  <2>1. \A i \in p : {i} \X (1 .. u[i].size) = {i} \X (1 .. s[i].size)
    BY <1>1
  <2>2. {N} \X (1 .. u[N].size) = fresh
    BY <1>1
  <2> HIDE DEF fresh
  <2>3. \A x : x \in ByteMarks(u, p \cup {N}) <=> x \in ByteMarks(s, p) \/ x \in fresh
    BY <2>1, <2>2 DEF ByteMarks
  <2> QED
    BY <2>3
<1>5. ByteMarks(s, p) \cap fresh = {}
  <2>1. \A x \in fresh : x[1] = N
    OBVIOUS
  <2>2. \A x \in ByteMarks(s, p) : x[1] \in p
    BY DEF ByteMarks
  <2> QED
    BY <1>1, <2>1, <2>2
<1>6. IsFiniteSet(fresh) /\ Cardinality(fresh) = e.size
  <2>1. IsFiniteSet({N}) /\ Cardinality({N}) = 1
    BY FS_Singleton
  <2>2. IsFiniteSet(1 .. e.size) /\ Cardinality(1 .. e.size) = e.size
    BY <1>2, UpTo
  <2>3. IsFiniteSet(fresh) /\ Cardinality(fresh) = Cardinality({N}) * Cardinality(1 .. e.size)
    BY <2>1, <2>2, FS_Product
  <2> QED
    BY <2>1, <2>2, <2>3, <1>2
<1>7. /\ IsFiniteSet(ByteMarks(s, p)) /\ Cardinality(ByteMarks(s, p)) \in Nat
  BY MarksType
<1> HIDE DEF fresh
<1>8. Cardinality(ByteMarks(s, p) \cup fresh)
        = Cardinality(ByteMarks(s, p)) + e.size - Cardinality(ByteMarks(s, p) \cap fresh)
  BY <1>6, <1>7, FS_Union
<1>9. Cardinality(ByteMarks(s, p) \cap fresh) = 0
  BY <1>5, FS_EmptySet
<1>10. Cardinality(ByteMarks(u, p \cup {N})) = Cardinality(ByteMarks(s, p)) + e.size
  <2>1. Cardinality(ByteMarks(s, p) \cup fresh) = Cardinality(ByteMarks(s, p)) + e.size
    BY <1>2, <1>7, <1>8, <1>9
  <2> QED
    BY <1>4, <2>1
<1> QED
  BY <1>3, <1>10 DEF u, N

LEMMA TakenEntry ==
    ASSUME reader \in Readers, NEW e, IsMet(e), Takes(e)
    PROVE  /\ e.kind = "directory" \/ e.kind = "file"
           /\ reader # "walk" => RoomForEntry /\ CleanName(e.name)
           /\ reader = "tar" => Head(e.name) = Root
           /\ e.kind = "file" => e.data = e.size /\ EntryName(e) \notin FilesOf(tree)
           /\ e.kind = "file" /\ reader = "single" => e.name = ZipFile /\ e.size <= MaxZip
           /\ e.kind = "file" /\ reader # "single" => e.size <= MaxFile
           /\ e.kind = "directory" /\ reader = "zip" => e.size = 0
<1>1. CASE reader = "single"
  <2>1. SingleTakes(e)
    BY <1>1 DEF Takes
  <2> QED
    BY <1>1, <2>1, EmptyTree, LimitsAreNaturals DEF SingleTakes, ReadsExactly, EntryName
<1>2. CASE reader = "tar"
  <2>1. TarTakes(e)
    BY <1>2 DEF Takes
  <2> QED
    BY <1>2, <2>1, LimitsAreNaturals DEF TarTakes, ReadsExactly, EntryName
<1>3. CASE reader = "zip"
  <2>1. ZipTakes(e)
    BY <1>3 DEF Takes
  <2> QED
    BY <1>3, <2>1, LimitsAreNaturals DEF ZipTakes, ReadsExactly, EntryName
<1>4. CASE reader = "walk"
  <2>1. WalkTakes(e)
    BY <1>4 DEF Takes
  <2> QED
    BY <1>4, <2>1, LimitsAreNaturals DEF WalkTakes, ReadsExactly, EntryName, IsMet
<1> QED
  BY <1>1, <1>2, <1>3, <1>4 DEF Readers

LEMMA TakenStep ==
    ASSUME Inv, Taken, NEW e, IsMet(e), Consume(e), Takes(e)
    PROVE  Taken'
<1> PICK N : N = Len(input) + 1
  OBVIOUS
<1>1. reader \in Readers /\ reader' = reader /\ input' = Append(input, e)
      /\ input \in Seq(AnyEntry) /\ e \in AnyEntry
  BY ConsumedTree DEF Inv, TypeOK, Taken, IsMet
<1>2. /\ e.kind = "directory" \/ e.kind = "file"
      /\ reader # "walk" => RoomForEntry /\ CleanName(e.name)
      /\ reader = "tar" => Head(e.name) = Root
      /\ e.kind = "file" => e.data = e.size /\ EntryName(e) \notin FilesOf(tree)
      /\ e.kind = "file" /\ reader = "single" => e.name = ZipFile /\ e.size <= MaxZip
      /\ e.kind = "file" /\ reader # "single" => e.size <= MaxFile
      /\ e.kind = "directory" /\ reader = "zip" => e.size = 0
  BY <1>1, TakenEntry
<1>3. /\ N \notin DOMAIN input /\ DOMAIN input' = DOMAIN input \cup {N}
      /\ input'[N] = e /\ NameAt(N)' = EntryName(e)
      /\ \A i \in DOMAIN input : input'[i] = input[i] /\ NameAt(i)' = NameAt(i)
      /\ \A kind : Positions(kind) \subseteq DOMAIN input
      /\ \A kind : Positions(kind)' =
            IF e.kind = kind THEN Positions(kind) \cup {N} ELSE Positions(kind)
  BY <1>1, AppendedPositions
<1>4. input' \in Seq(AnyEntry) /\ Len(input') = Len(input) + 1 /\ Len(input) \in Nat
  BY <1>1, Appended
<1>5. Positions("other")' = {}
  BY <1>2, <1>3 DEF Taken
<1>6. reader' # "walk" =>
         Len(input') <= MaxEntries /\ \A i \in DOMAIN input' : CleanName(input'[i].name)
  <2>1. reader # "walk" => Len(input) + 1 <= MaxEntries
    BY <1>2, <1>4, LimitsAreNaturals DEF RoomForEntry
  <2> QED
    BY <1>1, <1>2, <1>3, <1>4, <2>1 DEF Taken
<1>7. reader' = "tar" => \A i \in DOMAIN input' : input'[i].name[1] = Root
  <2>1. reader = "tar" => e.name \in Seq(Component) /\ e.name # <<>>
    BY <1>2 DEF IsMet, CleanName
  <2>2. reader = "tar" => e.name[1] = Root
    BY <1>2, <2>1
  <2> QED
    BY <1>1, <1>3, <2>2 DEF Taken
<1>8. reader' # "single" => \A i \in DOMAIN input' : input'[i].name \in Seq(Component)
  BY <1>1, <1>3 DEF Taken, TakenTree, IsMet
<1>9. CASE e.kind = "directory"
  <2>1. tree' = tree /\ total' = total /\ directories' = directories \cup {e.name}
    BY <1>9, ConsumedTree DEF Consume
  <2>2. Positions("file")' = Positions("file")
        /\ Positions("directory")' = Positions("directory") \cup {N}
    BY <1>3, <1>9
  <2>3. \A i \in Positions("file")' : input'[i] = input[i] /\ NameAt(i)' = NameAt(i)
    BY <1>3, <2>2
  <2>4. \A i \in Positions("file")' : input'[i].data = input'[i].size
    BY <2>2, <2>3 DEF Taken
  <2>5. /\ FilesOf(tree') = {NameAt(i)' : i \in Positions("file")'}
        /\ \A i \in Positions("file")' : tree'[NameAt(i)'] = input'[i].size
        /\ \A i, j \in Positions("file")' : NameAt(i)' = NameAt(j)' => i = j
    BY <2>1, <2>2, <2>3 DEF Taken
  <2>6. reader' = "single" => TakenFile'
    BY <1>1, <2>2, <2>3 DEF Taken, TakenFile
  <2>7. reader' # "single" => TakenTree'
    <3>1. ByteMarks(input', Positions("file")') = ByteMarks(input, Positions("file"))
      BY <1>1, <1>3, <2>2, AppendedMarks
    <3> QED
      BY <1>1, <1>8, <2>1, <2>2, <2>3, <3>1 DEF Taken, TakenTree
  <2>8. reader' = "zip" =>
           /\ directories' = {input'[i].name : i \in Positions("directory")'}
           /\ \A i \in Positions("directory")' : input'[i].size = 0
    BY <1>1, <1>2, <1>3, <1>9, <2>1, <2>2 DEF Taken
  <2> QED
    BY <1>4, <1>5, <1>6, <1>7, <2>4, <2>5, <2>6, <2>7, <2>8 DEF Taken
<1>10. CASE e.kind = "file"
  <2> DEFINE name == EntryName(e)
  <2>1. tree' = Added(tree, name, e.data) /\ total' = total + e.data /\ directories' = directories
    BY <1>10, ConsumedTree DEF Consume, EntryName
  <2>2. name \notin FilesOf(tree) /\ e.data = e.size
    BY <1>2, <1>10
  <2>3. Positions("file")' = Positions("file") \cup {N}
        /\ Positions("directory")' = Positions("directory")
        /\ N \notin Positions("file")
    BY <1>3, <1>10
  <2>4. /\ \A i \in Positions("file") : input'[i] = input[i] /\ NameAt(i)' = NameAt(i)
        /\ input'[N] = e /\ NameAt(N)' = name
    BY <1>3
  <2>5. /\ FilesOf(tree') = FilesOf(tree) \cup {name} /\ tree'[name] = e.size
        /\ \A n \in FilesOf(tree) : tree'[n] = tree[n]
    BY <2>1, <2>2 DEF Added, FilesOf
  <2>6. /\ FilesOf(tree) = {NameAt(i) : i \in Positions("file")}
        /\ \A i \in Positions("file") : tree[NameAt(i)] = input[i].size
        /\ \A i, j \in Positions("file") : NameAt(i) = NameAt(j) => i = j
        /\ \A i \in Positions("file") : input[i].data = input[i].size
    BY DEF Taken
  <2> HIDE DEF name
  <2>7. \A i \in Positions("file")' : input'[i].data = input'[i].size
    BY <2>2, <2>3, <2>4, <2>6
  <2>8. FilesOf(tree') = {NameAt(i)' : i \in Positions("file")'}
    BY <2>3, <2>4, <2>5, <2>6
  <2>9. \A i \in Positions("file") : NameAt(i) \in FilesOf(tree) /\ NameAt(i) # name
    BY <2>2, <2>6
  <2>10. \A i \in Positions("file")' : tree'[NameAt(i)'] = input'[i].size
    BY <2>3, <2>4, <2>5, <2>6, <2>9
  <2>11. \A i, j \in Positions("file")' : NameAt(i)' = NameAt(j)' => i = j
    BY <2>3, <2>4, <2>6, <2>9
  <2>12. reader' = "single" => TakenFile'
    BY <1>1, <1>2, <1>10, <2>3, <2>4 DEF Taken, TakenFile
  <2>13. ASSUME reader # "single" PROVE TakenTree'
    <3>1. TakenTree
      BY <2>13 DEF Taken
    <3>2. Cardinality(ByteMarks(input', Positions("file")'))
            = Cardinality(ByteMarks(input, Positions("file"))) + e.size
      BY <1>1, <1>3, <2>3, AppendedMarks
    <3>3. total' = Cardinality(ByteMarks(input', Positions("file")'))
      BY <2>1, <2>2, <3>1, <3>2 DEF TakenTree
    <3>4. Cardinality(Positions("file")') = Cardinality(FilesOf(tree'))
      <4>1. IsFiniteSet(Positions("file")) /\ IsFiniteSet(FilesOf(tree))
        BY <1>1, FinitePositions DEF Inv, TypeOK
      <4>2. Cardinality(Positions("file") \cup {N}) = Cardinality(Positions("file")) + 1
        BY <2>3, <4>1, FS_AddElement
      <4>3. Cardinality(FilesOf(tree) \cup {name}) = Cardinality(FilesOf(tree)) + 1
        BY <2>2, <4>1, FS_AddElement
      <4> QED
        BY <2>3, <2>5, <3>1, <4>2, <4>3 DEF TakenTree
    <3>5. \A i \in Positions("file")' : input'[i].size <= MaxFile
      BY <1>2, <1>10, <2>3, <2>4, <2>13, <3>1 DEF TakenTree
    <3> QED
      BY <1>1, <1>8, <2>13, <3>3, <3>4, <3>5 DEF TakenTree
  <2>14. reader' = "zip" =>
           /\ directories' = {input'[i].name : i \in Positions("directory")'}
           /\ \A i \in Positions("directory")' : input'[i].size = 0
    BY <1>1, <1>3, <2>1, <2>3 DEF Taken
  <2> QED
    BY <1>1, <1>4, <1>5, <1>6, <1>7, <2>7, <2>8, <2>10, <2>11, <2>12, <2>13, <2>14 DEF Taken
<1> QED
  BY <1>2, <1>9, <1>10

LEMMA BeneathOrSame ==
    ASSUME NEW a \in Seq(Component), NEW b \in Seq(Component), a # <<>>
    PROVE  IsPrefix(a, b) <=> (a = b \/ \E k \in 1 .. Len(b) - 1 : a = SubSeq(b, 1, k))
<1>1. /\ Len(a) \in Nat /\ Len(b) \in Nat /\ Len(a) > 0
      /\ SubSeq(a, 1, Len(a)) = a /\ SubSeq(b, 1, Len(b)) = b
  BY LenProperties, EmptySeq, SubSeqFull
<1>2. ASSUME IsPrefix(a, b) PROVE a = b \/ \E k \in 1 .. Len(b) - 1 : a = SubSeq(b, 1, k)
  <2>1. \A k : k = Len(a) => k <= Len(b) /\ SubSeq(a, 1, k) = SubSeq(b, 1, k)
    BY <1>2 DEF IsPrefix
  <2> PICK k : k = Len(a)
    OBVIOUS
  <2>2. k \in Nat /\ k > 0 /\ k <= Len(b)
    BY <1>1, <2>1
  <2>3. SubSeq(a, 1, k) = a
    BY <1>1, Zenon
  <2>4. a = SubSeq(b, 1, k)
    BY <2>1, <2>3, Zenon
  <2>5. k = Len(b) \/ k \in 1 .. Len(b) - 1
    <3>1. Len(b) \in Nat
      BY <1>1
    <3> QED
      BY <2>2, <3>1
  <2>6. CASE k = Len(b)
    BY <1>1, <2>4, <2>6, Zenon
  <2> QED
    BY <2>4, <2>5, <2>6, Zenon
<1>3. ASSUME a = b PROVE IsPrefix(a, b)
  BY <1>1, <1>3 DEF IsPrefix
<1>4. ASSUME NEW k \in 1 .. Len(b) - 1, a = SubSeq(b, 1, k) PROVE IsPrefix(a, b)
  <2>1. k \in 1 .. Len(b) /\ k \in Nat /\ k <= Len(b) /\ 1 <= k
    BY <1>1
  <2>2. \A i \in 1 .. k : b[i] \in Component
    BY <1>1, <2>1, LenProperties
  <2>3. Len(SubSeq(b, 1, k)) = IF 1 <= k THEN k - 1 + 1 ELSE 0
    BY <2>1, <2>2, SubSeqProperties
  <2>4. Len(a) = k
    BY <1>4, <2>1, <2>3
  <2> QED
    BY <1>1, <1>4, <2>1, <2>4 DEF IsPrefix
<1> QED
  BY <1>2, <1>3, <1>4

LEMMA TakenNames ==
    ASSUME Taken, reader # "single", NEW i \in Positions("file")
    PROVE  NameAt(i) \in Seq(Component) /\ i \in DOMAIN input
<1>1. i \in DOMAIN input /\ input[i].name \in Seq(Component)
  BY DEF Positions, Taken, TakenTree
<1>2. reader = "tar" => input[i].name # <<>>
  BY <1>1 DEF Taken, CleanName
<1> QED
  BY <1>1, <1>2, HeadTailProperties DEF NameAt

\* A tree that lies right is one that holds clean names of which none is above another.
LEMMA ShapeOfArchive ==
    ASSUME Taken, reader # "single"
    PROVE  Shaped(tree) <=>
              /\ \A i \in Positions("file") : CleanName(NameAt(i))
              /\ \A i, j \in Positions("file") : i # j => ~IsPrefix(NameAt(i), NameAt(j))
<1> DEFINE files == Positions("file")
<1>1. /\ FilesOf(tree) = {NameAt(i) : i \in files}
      /\ \A i, j \in files : NameAt(i) = NameAt(j) => i = j
      /\ \A i \in files : NameAt(i) \in Seq(Component)
  BY TakenNames DEF Taken
<1> HIDE DEF files
<1>2. ASSUME Shaped(tree), NEW i \in files, NEW j \in files, i # j
      PROVE  ~IsPrefix(NameAt(i), NameAt(j))
  <2>1. NameAt(i) # NameAt(j) /\ NameAt(i) \in FilesOf(tree) /\ NameAt(j) \in FilesOf(tree)
    BY <1>1, <1>2
  <2>2. NameAt(i) # <<>> /\ \A k \in 1 .. Len(NameAt(j)) - 1 : SubSeq(NameAt(j), 1, k) # NameAt(i)
    BY <1>2, <2>1 DEF Shaped, CleanName
  <2> QED
    BY <1>1, <2>1, <2>2, BeneathOrSame
<1>3. ASSUME Shaped(tree), NEW i \in files PROVE CleanName(NameAt(i))
  BY <1>1, <1>3 DEF Shaped
<1>4. ASSUME \A i \in files : CleanName(NameAt(i)),
             \A i, j \in files : i # j => ~IsPrefix(NameAt(i), NameAt(j)),
             NEW n \in FilesOf(tree)
      PROVE  CleanName(n) /\ \A k \in 1 .. Len(n) - 1 : SubSeq(n, 1, k) \notin FilesOf(tree)
  <2>1. PICK j \in files : n = NameAt(j)
    BY <1>1
  <2>2. ASSUME NEW k \in 1 .. Len(n) - 1, SubSeq(n, 1, k) \in FilesOf(tree) PROVE FALSE
    <3>1. PICK i \in files : SubSeq(n, 1, k) = NameAt(i)
      BY <1>1, <2>2
    <3>2. NameAt(i) # <<>>
      BY <1>4 DEF CleanName
    <3>3. IsPrefix(NameAt(i), NameAt(j))
      BY <1>1, <2>1, <3>1, <3>2, BeneathOrSame
    <3>4. i = j
      BY <1>4, <3>3
    <3>5. Len(n) \in Nat /\ k \in Nat /\ 1 <= k /\ k < Len(n) /\ n \in Seq(Component)
      BY <1>1, <2>1, LenProperties
    <3>6. \A m \in 1 .. k : n[m] \in Component
      BY <3>5, LenProperties
    <3>7. Len(SubSeq(n, 1, k)) = IF 1 <= k THEN k - 1 + 1 ELSE 0
      BY <3>5, <3>6, SubSeqProperties
    <3> QED
      BY <2>1, <3>1, <3>4, <3>5, <3>7
  <2> QED
    BY <1>4, <2>1, <2>2
<1> QED
  BY <1>2, <1>3, <1>4 DEF Shaped, files

\* An entry that a permitted whole ends with is taken.
LEMMA PermittedIsTaken ==
    ASSUME Inv, Taken, NEW e, IsMet(e), Consume(e), Permitted'
    PROVE  Takes(e)
<1> PICK N : N = Len(input) + 1
  OBVIOUS
<1>1. reader \in Readers /\ reader' = reader /\ input' = Append(input, e)
      /\ input \in Seq(AnyEntry) /\ e \in AnyEntry
  BY ConsumedTree DEF Inv, TypeOK, Taken, IsMet
<1>2. /\ N \notin DOMAIN input /\ DOMAIN input' = DOMAIN input \cup {N}
      /\ input'[N] = e /\ NameAt(N)' = EntryName(e)
      /\ \A i \in DOMAIN input : input'[i] = input[i] /\ NameAt(i)' = NameAt(i)
      /\ \A kind : Positions(kind) \subseteq DOMAIN input
      /\ \A kind : Positions(kind)' =
            IF e.kind = kind THEN Positions(kind) \cup {N} ELSE Positions(kind)
  BY <1>1, AppendedPositions
<1>3. /\ Positions("other")' = {}
      /\ \A i \in Positions("file")' : input'[i].data = input'[i].size
      /\ reader' # "walk" =>
            Len(input') <= MaxEntries /\ \A i \in DOMAIN input' : CleanName(input'[i].name)
      /\ reader' = "tar" => \A i \in DOMAIN input' : input'[i].name[1] = Root
      /\ reader' = "zip" => \A i \in Positions("directory")' : input'[i].size = 0
  BY DEF Permitted
<1>4. e.kind = "directory" \/ e.kind = "file"
  <2>1. e.kind # "other"
    BY <1>2, <1>3
  <2> QED
    BY <1>1, <2>1 DEF AnyEntry
<1>5. reader # "walk" => RoomForEntry /\ CleanName(e.name)
  <2>1. Len(input') = Len(input) + 1 /\ Len(input) \in Nat
    BY <1>1, Appended
  <2> QED
    BY <1>1, <1>2, <1>3, <2>1, LimitsAreNaturals DEF RoomForEntry
<1>6. reader = "tar" => e.name \in Seq(Component) /\ e.name # <<>> /\ Head(e.name) = Root
  <2>1. reader = "tar" => e.name \in Seq(Component) /\ e.name # <<>>
    BY <1>5 DEF IsMet, CleanName
  <2>2. reader = "tar" => e.name[1] = Root
    BY <1>1, <1>2, <1>3
  <2> QED
    BY <2>1, <2>2
<1>7. reader = "zip" /\ e.kind = "directory" => e.size = 0
  BY <1>1, <1>2, <1>3
<1>8. e.kind = "file" => e.data = e.size
  BY <1>2, <1>3
<1>9. e.size \in Nat
  BY <1>1 DEF AnyEntry
<1>10. CASE reader = "single"
  <2>1. ASSUME e.kind = "file"
        PROVE  e.name = ZipFile /\ e.size <= MaxZip /\ tree = NoFiles
    <3>1. /\ Cardinality(Positions("file")') <= 1
          /\ \A i \in Positions("file")' : input'[i].name = ZipFile /\ input'[i].size <= MaxZip
      BY <1>1, <1>10 DEF Permitted
    <3>2. Positions("file")' = Positions("file") \cup {N} /\ N \notin Positions("file")
      BY <1>2, <2>1
    <3>3. IsFiniteSet(Positions("file")) /\ Cardinality(Positions("file")) \in Nat
      BY <1>1, FinitePositions
    <3>4. Cardinality(Positions("file") \cup {N}) = Cardinality(Positions("file")) + 1
      BY <3>2, <3>3, FS_AddElement
    <3>5. Cardinality(Positions("file")) = 0
      <4>1. Cardinality(Positions("file") \cup {N}) <= 1
        BY <3>1, <3>2, Zenon
      <4>2. \A c \in Nat : c + 1 <= 1 => c = 0
        OBVIOUS
      <4> QED
        BY <3>3, <3>4, <4>1, <4>2
    <3>6. Positions("file") = {}
      BY <3>3, <3>5, FS_EmptySet
    <3>7. FilesOf(tree) = {}
      BY <3>6 DEF Taken
    <3>8. tree = NoFiles
      <4>1. DOMAIN tree = {} /\ tree = [n \in DOMAIN tree |-> tree[n]]
        BY <3>7 DEF Inv, TypeOK, FilesOf
      <4> QED
        BY <4>1 DEF NoFiles
    <3> QED
      BY <1>2, <3>1, <3>2, <3>8
  <2>2. SingleTakes(e)
    BY <1>4, <1>5, <1>8, <1>9, <1>10, <2>1, LimitsAreNaturals DEF SingleTakes, ReadsExactly
  <2> QED
    BY <1>10, <2>2 DEF Takes
<1>11. CASE reader # "single"
  <2>1. PermittedTree' /\ TakenTree
    BY <1>1, <1>11 DEF Permitted, Taken
  <2>2. ASSUME e.kind = "file"
        PROVE  /\ RoomForFile /\ Fits(e) /\ UnsignedFits(e) /\ ReadsExactly(e, MaxFile)
               /\ CleanName(EntryName(e)) /\ EntryName(e) \notin FilesOf(tree)
    <3>1. Positions("file")' = Positions("file") \cup {N} /\ N \notin Positions("file")
      BY <1>2, <2>2
    <3>2. /\ Cardinality(Positions("file") \cup {N}) <= MaxFiles
          /\ Cardinality(ByteMarks(input', Positions("file") \cup {N})) <= MaxTotal
          /\ \A i \in Positions("file") \cup {N} : CleanName(NameAt(i)') /\ input'[i].size <= MaxFile
          /\ \A i, j \in Positions("file") \cup {N} : i # j => ~IsPrefix(NameAt(i)', NameAt(j)')
      BY <2>1, <3>1 DEF PermittedTree
    <3>3. RoomForFile
      <4>1. IsFiniteSet(Positions("file")) /\ Cardinality(Positions("file")) \in Nat
        BY <1>1, FinitePositions
      <4>2. Cardinality(Positions("file") \cup {N}) = Cardinality(Positions("file")) + 1
        BY <3>1, <4>1, FS_AddElement
      <4> QED
        BY <2>1, <3>2, <4>1, <4>2, LimitsAreNaturals DEF RoomForFile, TakenTree
    <3>4. e.size <= MaxFile /\ total <= MaxTotal - e.size /\ total \in Nat
      <4>1. Cardinality(ByteMarks(input', Positions("file") \cup {N}))
              = Cardinality(ByteMarks(input, Positions("file"))) + e.size
        BY <1>1, <1>2, AppendedMarks
      <4>2. total = Cardinality(ByteMarks(input, Positions("file"))) /\ total \in Nat
        BY <2>1 DEF TakenTree, Inv, TypeOK
      <4>3. total + e.size <= MaxTotal
        BY <3>2, <4>1, <4>2
      <4> QED
        BY <1>2, <1>9, <3>2, <4>2, <4>3, LimitsAreNaturals
    <3>5. Fits(e) /\ ReadsExactly(e, MaxFile)
      BY <1>8, <1>9, <2>2, <3>4, LimitsAreNaturals DEF Fits, ReadsExactly
    <3>6. UnsignedFits(e)
      <4>1. MaxTotal - e.size \in 0 .. Word - 1
        BY <1>9, <3>4, LimitsAreNaturals
      <4>2. \A a, w \in Nat : a < w => a % w = a
        OBVIOUS
      <4>3. (MaxTotal - e.size) % Word = MaxTotal - e.size
        BY <4>1, <4>2, LimitsAreNaturals
      <4> QED
        BY <3>4, <4>3 DEF UnsignedFits
    <3>7. CleanName(EntryName(e))
      BY <1>2, <3>2
    <3>8. EntryName(e) \in Seq(Component) /\ EntryName(e) # <<>>
      BY <1>6, <1>11, <3>7, HeadTailProperties DEF EntryName, IsMet, CleanName
    <3>9. EntryName(e) \notin FilesOf(tree)
      <4> SUFFICES ASSUME EntryName(e) \in FilesOf(tree) PROVE FALSE
        OBVIOUS
      <4>1. PICK i \in Positions("file") : NameAt(i) = EntryName(e)
        BY DEF Taken
      <4>2. NameAt(i)' = EntryName(e) /\ NameAt(N)' = EntryName(e) /\ i # N
        BY <1>2, <3>1, <4>1
      <4>3. IsPrefix(EntryName(e), EntryName(e))
        BY <3>8, BeneathOrSame
      <4> QED
        BY <3>2, <4>2, <4>3
    <3> QED
      BY <3>3, <3>5, <3>6, <3>7, <3>9
  <2>3. CASE reader = "tar"
    <3>1. e.kind = "file" => EntryName(e) = Tail(e.name) /\ Tail(e.name) # <<>>
      BY <2>2, <2>3 DEF EntryName, CleanName
    <3>2. TarTakes(e)
      BY <1>4, <1>5, <1>6, <2>2, <2>3, <3>1 DEF TarTakes
    <3> QED
      BY <2>3, <3>2 DEF Takes
  <2>4. CASE reader = "zip"
    <3>1. e.kind = "file" => e.name \notin FilesOf(tree)
      BY <2>2, <2>4 DEF EntryName
    <3>2. ZipTakes(e)
      BY <1>4, <1>5, <1>7, <2>2, <2>4, <3>1 DEF ZipTakes
    <3> QED
      BY <2>4, <3>2 DEF Takes
  <2>5. CASE reader = "walk"
    <3>1. e.kind = "file" => CleanName(e.name)
      BY <2>2, <2>5 DEF EntryName
    <3>2. WalkTakes(e)
      BY <1>4, <2>2, <3>1 DEF WalkTakes
    <3> QED
      BY <2>5, <3>2 DEF Takes
  <2> QED
    BY <1>1, <1>11, <2>3, <2>4, <2>5 DEF Readers
<1> QED
  BY <1>10, <1>11

\* At the end, what was taken is complete when the whole is as it must be.
LEMMA CompleteIsPermitted ==
    ASSUME Inv, Taken
    PROVE  Complete <=> (Permitted /\ Required)
<1> DEFINE files == Positions("file")
           names == {input[i].name : i \in files}
<1>1. /\ reader \in Readers /\ input \in Seq(AnyEntry)
      /\ FilesOf(tree) = {NameAt(i) : i \in files}
      /\ \A i, j \in files : NameAt(i) = NameAt(j) => i = j
  BY DEF Inv, TypeOK, Taken
<1>2. CASE reader = "single"
  <2>1. \A i \in files : NameAt(i) = input[i].name /\ NameAt(i) = ZipFile /\ input[i].size <= MaxZip
    BY <1>2 DEF NameAt, Taken, TakenFile
  <2>2. Cardinality(files) <= 1
    <3>1. CASE files = {}
      BY <3>1, FS_EmptySet
    <3>2. CASE files # {}
      <4>1. PICK i \in files : TRUE
        BY <3>2
      <4>2. files = {i}
        BY <1>1, <2>1, <4>1
      <4> QED
        BY <4>2, FS_Singleton
    <3> QED
      BY <3>1, <3>2
  <2>3. Permitted
    BY <1>2, <2>1, <2>2 DEF Permitted, Taken
  <2>4. Complete <=> tree # NoFiles
    BY <1>2 DEF Complete
  <2>5. Required <=> names # {}
    BY <1>2 DEF Required
  <2>6. tree # NoFiles <=> FilesOf(tree) # {}
    BY EmptyTree DEF Inv, TypeOK, NoFiles, FilesOf
  <2> QED
    BY <1>1, <2>3, <2>4, <2>5, <2>6
<1>3. CASE reader # "single"
  <2>1. TakenTree /\ Cardinality(FilesOf(tree)) <= MaxFiles /\ total <= MaxTotal
    BY <1>3 DEF Taken, Inv, TypeOK
  <2>2. PermittedTree <=> Shaped(tree)
    BY <1>3, <2>1, ShapeOfArchive DEF PermittedTree, TakenTree
  <2>3. CASE reader # "zip"
    <3>1. Complete <=> Shaped(tree)
      BY <1>1, <1>3, <2>3 DEF Complete, Readers
    <3>2. Permitted <=> PermittedTree
      BY <1>3, <2>3 DEF Permitted, Taken
    <3>3. Required
      BY <1>3, <2>3 DEF Required
    <3> QED
      BY <2>2, <3>1, <3>2, <3>3
  <2>4. CASE reader = "zip"
    <3>1. \A i \in files : NameAt(i) = input[i].name
      BY <2>4 DEF NameAt
    <3>2. FilesOf(tree) = names
      BY <1>1, <3>1
    <3>3. /\ directories = {input[i].name : i \in Positions("directory")}
          /\ \A i \in Positions("directory") : input[i].size = 0
      BY <2>4 DEF Taken
    <3>4. FilesOf(tree) \cap directories = {} <=>
             \A i \in Positions("directory"), j \in files : input[i].name # input[j].name
      BY <3>2, <3>3
    <3>5. Permitted <=> (PermittedTree /\ FilesOf(tree) \cap directories = {})
      BY <1>3, <2>4, <3>3, <3>4 DEF Permitted, Taken
    <3>6. Required <=> (SolrConfig \in FilesOf(tree) /\ FilesOf(tree) \cap Schemas # {})
      BY <2>4, <3>2 DEF Required
    <3>7. Complete <=> /\ FilesOf(tree) \cap directories = {}
                       /\ Shaped(tree)
                       /\ SolrConfig \in FilesOf(tree)
                       /\ FilesOf(tree) \cap Schemas # {}
      BY <2>4 DEF Complete
    <3> QED
      BY <2>2, <3>5, <3>6, <3>7
  <2> QED
    BY <2>3, <2>4
<1> QED
  BY <1>2, <1>3

LEMMA OfferedType ==
    ASSUME NEW e \in Offered, e.name \in Seq(Component) \cup {ZipFile}
    PROVE  e \in AnyEntry
<1>1. MaxFile + 1 \in Nat /\ MaxFile \in Nat /\ \A s \in Sizes : s \in Nat
  BY LimitsAreNaturals, LimitsAssumption
<1>2. CASE \E n : e = DirectoryEntry(n) \/ \E size \in Sizes : e = FileEntry(n, size)
  <2>1. PICK n : e = DirectoryEntry(n) \/ \E size \in Sizes : e = FileEntry(n, size)
    BY <1>2
  <2>2. e.name = n
    BY <2>1 DEF DirectoryEntry, FileEntry
  <2> QED
    BY <2>1, <2>2, <1>1 DEF DirectoryEntry, FileEntry, AnyEntry
<1>3. CASE \E f \in OddFiles : MadeOf(e, f)
  <2>1. PICK f \in OddFiles : MadeOf(e, f)
    BY <1>3
  <2>2. PICK n \in OfferedNames, size \in Sizes : f = FileEntry(n, size)
    BY DEF OddFiles
  <2>3. \/ e = [kind |-> "file", name |-> n, size |-> size, data |-> size]
        \/ e = [kind |-> "other", name |-> n, size |-> size, data |-> size]
        \/ \E length \in Sizes : e = [kind |-> "file", name |-> n, size |-> size, data |-> length]
        \/ e = [kind |-> "directory", name |-> n, size |-> size, data |-> size]
    BY <2>1, <2>2 DEF MadeOf, FileEntry
  <2>4. e.name = n
    BY <2>3
  <2> QED
    BY <2>3, <2>4, <1>1 DEF AnyEntry
<1>4. \/ \E n : e = DirectoryEntry(n)
      \/ \E n : \E size \in Sizes : e = FileEntry(n, size)
      \/ \E f \in OddFiles : MadeOf(e, f)
  <2> HIDE DEF OddFiles, FileEntry, DirectoryEntry, MadeOf
  <2>1. CASE \E n \in OfferedNames : \E size \in {s \in Sizes : s <= MaxFile} : e = FileEntry(n, size)
    BY <2>1
  <2> QED
    BY OfferedForms, <2>1
<1> QED
  BY <1>2, <1>3, <1>4

LEMMA OfferedIsMet ==
    ASSUME ExactInv, NEW e \in Offered, verdict = "reading"
    PROVE  IsMet(e)
<1>1. MaxFile + 1 \in Nat /\ MaxFile \in Nat /\ \A s \in Sizes : s \in Nat
  BY LimitsAreNaturals, LimitsAssumption
<1>2. e.name \in OfferedNames
  BY OfferedHasName
<1>3. reader \in Readers /\ Taken
  BY DEF ExactInv, BackInv, Inv, TypeOK
<1>4. OfferedNames \subseteq Seq(Component) \cup {ZipFile}
      /\ (reader # "single" => OfferedNames \subseteq Seq(Component))
  <2>1. SolrConfig \in Names /\ Names \subseteq Seq(Component)
    BY NamesAssumption, NamesAreSequences
  <2>2. \A n \in Names : <<Root>> \o n \in Seq(Component)
    BY <2>1, NamesAreSequences, ConcatProperties
  <2>3. <<Root>> \in Seq(Component)
    BY NamesAreSequences
  <2>4. CASE reader = "single"
    BY <2>1, <2>4 DEF OfferedNames
  <2>5. CASE reader = "tar"
    <3>1. OfferedNames = {SolrConfig, <<Root>>} \cup {<<Root>> \o n : n \in Names}
      BY <2>5 DEF OfferedNames
    <3> QED
      BY <2>1, <2>2, <2>3, <3>1
  <2>6. CASE reader = "zip"
    BY <2>1, <2>6 DEF OfferedNames
  <2>7. CASE reader = "walk"
    <3>1. OfferedNames \subseteq Names
      BY <2>7 DEF OfferedNames
    <3> QED
      BY <2>1, <3>1
  <2> QED
    BY <1>3, <2>4, <2>5, <2>6, <2>7 DEF Readers
<1>5. e \in AnyEntry
  BY <1>1, <1>2, <1>4, OfferedType
<1>6. ASSUME reader = "walk" PROVE e.name \notin FilesOf(tree)
  <2>1. \A i \in DOMAIN input : e.name # input[i].name
    BY <1>2, <1>6 DEF OfferedNames
  <2>2. FilesOf(tree) = {NameAt(i) : i \in Positions("file")}
    BY <1>3 DEF Taken
  <2>3. \A i \in Positions("file") : i \in DOMAIN input /\ NameAt(i) = input[i].name
    BY <1>6 DEF NameAt, Positions
  <2> QED
    BY <2>1, <2>2, <2>3
<1> QED
  BY <1>2, <1>4, <1>5, <1>6 DEF IsMet

\* A written tree is read on entry by entry.
LEMMA StagedIsMet ==
    ASSUME ExactInv, StagedEntry
    PROVE  IsMet(Head(staged))
<1> DEFINE e == Head(staged)
           left == FilesOf(origin) \ FilesOf(tree)
<1>1. staged # <<>> /\ verdict = "reading" /\ origin # None
  BY DEF StagedEntry, Consume, ExactInv
<1>2. ReadBack /\ Halfway
  BY <1>1 DEF ExactInv, BackInv, ReadBack
<1>3. IsSource(origin) /\ Top \in Tops /\ left \in SUBSET FilesOf(origin)
      /\ Lists(staged, origin, Top, left)
  BY <1>2 DEF ReadBack, WithinLimits, Top, Tops, Halfway
<1> HIDE DEF e, left
<1>4. /\ e \in WrittenEntries
      /\ IsFolder(e, Top) \/ \E n \in left : e = FileEntry(Top \o n, origin[n])
  <2>1. /\ e \in WrittenEntries
        /\ \/ IsFolder(e, Top) /\ Lists(Tail(staged), origin, Top, left)
           \/ \E n \in left : /\ e = FileEntry(Top \o n, origin[n])
                              /\ Lists(Tail(staged), origin, Top, left \ {n})
    BY <1>1, <1>3, HeadOfList DEF e
  <2> QED
    BY <2>1
<1>5. e \in AnyEntry /\ e.name \in Seq(Component)
  BY <1>4 DEF WrittenEntries, AnyEntry
<1>6. ASSUME reader = "walk", e.kind = "file" PROVE e.name \notin FilesOf(tree)
  <2>1. PICK n \in left : e = FileEntry(Top \o n, origin[n])
    BY <1>4, <1>6 DEF IsFolder
  <2>2. n \in Seq(Component) /\ n \notin FilesOf(tree)
    BY <1>3, SourceNames DEF left
  <2>3. e.name = <<>> \o n
    BY <1>6, <2>1 DEF FileEntry, Top
  <2> QED
    BY <2>2, <2>3, ConcatEmptySeq
<1> QED
  BY <1>5, <1>6 DEF IsMet, e

LEMMA ConsumeExact ==
    ASSUME ExactInv, NEW e, Consume(e), IsMet(e)
    PROVE  /\ verdict' # "refused" => Taken'
           /\ verdict' # "accepted" /\ verdict' # "incomplete"
           /\ verdict' = "refused" => ~Permitted'
<1>1. verdict = "reading" /\ verdict' \in {"reading", "refused"} /\ (verdict' = "refused" <=> ~Takes(e))
  BY ConsumedTree
<1>2. Inv /\ Taken
  BY <1>1 DEF ExactInv, BackInv
<1>3. Takes(e) => Taken'
  BY <1>2, TakenStep
<1>4. ~Takes(e) => ~Permitted'
  BY <1>2, PermittedIsTaken
<1> QED
  BY <1>1, <1>3, <1>4

LEMMA FreshTaken == ASSUME NEW r, Fresh(r) PROVE Taken'
<1>1. /\ reader' = r /\ input' = <<>> /\ tree' = NoFiles /\ directories' = {} /\ total' = 0
  BY DEF Fresh
<1>2. DOMAIN input' = {} /\ Len(input') = 0 /\ input' \in Seq(AnyEntry)
  BY <1>1
<1>3. Positions("file")' = {} /\ Positions("other")' = {} /\ Positions("directory")' = {}
  BY <1>2 DEF Positions
<1>4. ByteMarks(input', {}) = {}
  BY DEF ByteMarks
<1>5. FilesOf(tree') = {} /\ Cardinality({}) = 0
  BY <1>1, EmptyTree
<1>6. TakenFile' /\ TakenTree'
  BY <1>1, <1>2, <1>3, <1>4, <1>5 DEF TakenFile, TakenTree
<1> QED
  BY <1>1, <1>2, <1>3, <1>5, <1>6, LimitsAreNaturals DEF Taken

LEMMA TakenKept ==
    ASSUME UNCHANGED <<reader, input, tree, directories, total>>
    PROVE  (Taken => Taken') /\ (Complete' <=> Complete)
BY DEF Taken, TakenFile, TakenTree, Positions, NameAt, FilesOf, Complete

LEMMA ExactStep == ExactInv /\ [Next]_vars => ExactInv'
<1> SUFFICES ASSUME ExactInv, [Next]_vars PROVE ExactInv'
  OBVIOUS
<1>1. BackInv'
  BY BackStep DEF ExactInv
<1>2. CASE Entry
  <2>1. PICK e \in Offered : Consume(e)
    BY <1>2 DEF Entry
  <2>2. IsMet(e) /\ origin' = origin /\ staged' = staged
    BY <1>2, <2>1, OfferedIsMet DEF Entry, Consume
  <2> QED
    BY <1>1, <2>1, <2>2, ConsumeExact DEF ExactInv
<1>3. CASE StagedEntry
  <2>1. Consume(Head(staged)) /\ IsMet(Head(staged)) /\ origin' = origin /\ origin # None
    BY <1>3, StagedIsMet DEF StagedEntry, Consume, ExactInv
  <2> QED
    BY <1>1, <2>1, ConsumeExact DEF ExactInv
<1>4. CASE End
  <2>1. /\ UNCHANGED <<reader, input, tree, directories, total, origin, staged>>
        /\ verdict = "reading" /\ verdict' = IF Complete THEN "accepted" ELSE "incomplete"
    BY <1>4 DEF End
  <2>2. (Taken => Taken') /\ (Complete' <=> Complete)
    BY <2>1, TakenKept
  <2> QED
    BY <1>1, <2>1, <2>2 DEF ExactInv
<1>5. CASE Break
  <2>1. /\ UNCHANGED <<reader, input, tree, directories, total, origin, staged>>
        /\ verdict = "reading" /\ verdict' = "broken"
    BY <1>5 DEF Break
  <2>2. Taken => Taken'
    BY <2>1, TakenKept
  <2> QED
    BY <1>1, <2>1, <2>2 DEF ExactInv
<1>6. CASE Unzip
  <2>1. Fresh("zip") /\ verdict' = "reading" /\ origin' = origin /\ staged' = staged
    BY <1>6 DEF Unzip, Fresh
  <2> QED
    BY <1>1, <2>1, FreshTaken DEF ExactInv
<1>7. CASE Stage \/ Publish
  <2>1. /\ Fresh("tar") \/ Fresh("walk")
        /\ verdict' = "reading" /\ origin' = tree /\ reader = "zip"
    BY <1>7 DEF Stage, Publish, Fresh
  <2>2. Taken'
    BY <2>1, FreshTaken
  <2>3. origin' # None
    <3>1. FilesOf(tree) \in SUBSET Names /\ tree \in [FilesOf(tree) -> Nat]
      BY <2>1 DEF ExactInv, BackInv, Generated, Inv, TypeOK
    <3> QED
      BY <2>1, <3>1, NoneAssumption
  <2> QED
    BY <1>1, <2>1, <2>2, <2>3 DEF ExactInv
<1>8. CASE UNCHANGED vars
  <2>1. UNCHANGED <<reader, input, tree, directories, total, verdict, origin, staged>>
    BY <1>8 DEF vars
  <2>2. (Taken => Taken') /\ (Complete' <=> Complete)
    BY <2>1, TakenKept
  <2>3. Permitted' <=> Permitted
    BY <2>1 DEF Permitted, PermittedTree, Positions, NameAt
  <2> QED
    BY <1>1, <2>1, <2>2, <2>3 DEF ExactInv
<1> QED
  BY <1>2, <1>3, <1>4, <1>5, <1>6, <1>7, <1>8 DEF Next

\* Taking one entry at a time and stopping at the first they refuse, the four
\* readers accept exactly the archives and directories that are permitted as a
\* whole, in whatever order the entries come, and return what these hold: for all
\* limits and names, and any number of entries.
THEOREM ReadersDecideTheWhole == Spec => []ReadersAreExact
<1>1. Init => ExactInv
  <2> SUFFICES ASSUME Init PROVE ExactInv
    OBVIOUS
  <2>1. BackInv
    BY InitBack
  <2>2. Taken
    <3>1. DOMAIN input = {} /\ Len(input) = 0 /\ input \in Seq(AnyEntry)
      BY DEF Init
    <3>2. Positions("file") = {} /\ Positions("other") = {} /\ Positions("directory") = {}
      BY <3>1 DEF Positions
    <3>3. ByteMarks(input, {}) = {}
      BY DEF ByteMarks
    <3>4. FilesOf(tree) = {} /\ Cardinality({}) = 0 /\ total = 0 /\ directories = {}
      BY EmptyTree DEF Init
    <3>5. TakenFile /\ TakenTree
      BY <3>1, <3>2, <3>3, <3>4 DEF TakenFile, TakenTree
    <3> QED
      BY <3>1, <3>2, <3>4, <3>5, LimitsAreNaturals DEF Taken
  <2> QED
    BY <2>1, <2>2 DEF Init, ExactInv
<1>2. ExactInv => ReadersAreExact
  <2> SUFFICES ASSUME ExactInv PROVE ReadersAreExact
    OBVIOUS
  <2>1. Inv
    BY DEF ExactInv, BackInv
  <2>2. ASSUME verdict = "accepted"
        PROVE  /\ Permitted /\ Required
               /\ FilesOf(tree) = {NameAt(i) : i \in Positions("file")}
               /\ \A i \in Positions("file") : tree[NameAt(i)] = input[i].size
    <3>1. Taken /\ Complete
      BY <2>2 DEF ExactInv
    <3>2. Permitted /\ Required
      BY <2>1, <3>1, CompleteIsPermitted
    <3> QED
      BY <3>1, <3>2 DEF Taken
  <2>3. verdict = "refused" => ~Permitted
    BY DEF ExactInv
  <2>4. ASSUME verdict = "incomplete" PROVE ~(Permitted /\ Required)
    <3>1. Taken /\ ~Complete
      BY <2>4 DEF ExactInv
    <3> QED
      BY <2>1, <3>1, CompleteIsPermitted
  <2> QED
    BY <2>2, <2>3, <2>4 DEF ReadersAreExact
<1> QED
  BY <1>1, <1>2, ExactStep, PTL DEF Spec
=============================================================================
