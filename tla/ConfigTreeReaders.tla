------------------------- MODULE ConfigTreeReaders -------------------------
(***************************************************************************)
(* How a Solr configuration tree is read and written (cmd/solr_config.go,  *)
(* cmd/solr_config_host.go): the archive in which Docker hands out the     *)
(* file that drush generated, the zip in that file, the archive of a       *)
(* directory of the Solr container, and the walk over the tracked copy.    *)
(*                                                                         *)
(* Every reader takes one entry at a time and stops at the first it        *)
(* refuses.  The tree of the zip is what a refresh stages and publishes:   *)
(* it is written to the container as a tar and to the host as files, and   *)
(* read back from both with readers that have limits of their own.         *)
(*                                                                         *)
(* A name is the sequence of its components; a file is its length.         *)
(***************************************************************************)
EXTENDS Integers, FiniteSets, SequencesExt

CONSTANTS
    Names,          \* the names that archives and directories hold
    Unclean,        \* components cleanArchivePath refuses: "..", "", control characters
    Drives,         \* components with a colon, refused in front
    Sizes,          \* the lengths of files
    Root,           \* the directory a tree is read from in a container
    ZipFile,        \* the file drush writes
    SolrConfig,     \* solrconfig.xml
    Schemas,        \* schema.xml and managed-schema
    MaxEntries, MaxFiles, MaxFile, MaxTotal, MaxZip,
    Word,           \* 2^64
    None

Readers == {"single", "zip", "tar", "walk"}
Verdicts == {"reading", "accepted", "refused", "incomplete", "broken"}
Limits == <<MaxEntries, MaxFiles, MaxFile, MaxTotal, MaxZip, Word>>

ASSUME LimitsAssumption ==
    /\ \A i \in DOMAIN Limits : Limits[i] \in Nat
    /\ MaxFile <= MaxTotal /\ MaxTotal < Word
    /\ Sizes \subseteq 0 .. Word - 1
ASSUME NamesAssumption ==
    /\ Names \subseteq Seq(STRING) \ {<<>>}
    /\ SolrConfig \in Names /\ Schemas \subseteq Names
\* None is no tree.
ASSUME NoneAssumption == \A names \in SUBSET Names : None \notin [names -> Nat]
\* A tree is written under no other root.
ASSUME RootAssumption == Root \notin Unclean \cup Drives

VARIABLES
    reader,         \* which of the readers is at work
    input,          \* the entries it was given
    tree,           \* the files it holds: a length for every name
    directories,    \* the directories a zip names
    total,          \* the bytes it has read
    verdict,        \* what came of it
    origin,         \* the tree that was written and is read back, or None
    staged          \* what is left of it to read

vars == <<reader, input, tree, directories, total, verdict, origin, staged>>

NoFiles == [n \in {} |-> 0]
FilesOf(t) == DOMAIN t

-----------------------------------------------------------------------------
(* Names, limits and contents.                                             *)

\* cleanArchivePath: a relative path that path.Clean leaves alone.
CleanName(name) ==
    /\ name # <<>>
    /\ ToSet(name) \cap Unclean = {}
    /\ Head(name) \notin Drives

\* Mutant: files are not looked for above a file.
ShapedFlat(t) == \A n \in FilesOf(t) : CleanName(n)

\* validateSolrConfigTreeShape: no file lies beneath another.
Shaped(t) ==
    \A n \in FilesOf(t) :
        CleanName(n) /\ \A k \in 1 .. Len(n) - 1 : SubSeq(n, 1, k) \notin FilesOf(t)

\* readLimitedExact: as many bytes as announced, and no more than allowed.
ReadsExactly(e, maximum) == e.size \in 0 .. maximum /\ e.data = e.size

\* Mutant: one byte less than allowed.
FitsStrictly(e) == e.size \in 0 .. MaxFile /\ total < MaxTotal - e.size

Fits(e) == e.size \in 0 .. MaxFile /\ total <= MaxTotal - e.size

\* The zip reader computes with unsigned words.
UnsignedFits(e) == e.size <= MaxFile /\ total <= (MaxTotal - e.size) % Word

\* Mutant: one file too many.
RoomForOneMore == Cardinality(FilesOf(tree)) <= MaxFiles

RoomForFile == Cardinality(FilesOf(tree)) < MaxFiles
RoomForEntry == Len(input) < MaxEntries

-----------------------------------------------------------------------------
(* The entries each reader takes.                                          *)

SingleTakes(e) ==
    /\ RoomForEntry /\ CleanName(e.name)
    /\ \/ e.kind = "directory"
       \/ /\ e.kind = "file" /\ e.name = ZipFile /\ tree = NoFiles
          /\ ReadsExactly(e, MaxZip)

TarTakes(e) ==
    /\ RoomForEntry /\ CleanName(e.name) /\ Head(e.name) = Root
    /\ \/ e.kind = "directory"
       \/ /\ e.kind = "file" /\ Tail(e.name) # <<>>
          /\ RoomForFile /\ Fits(e) /\ Tail(e.name) \notin FilesOf(tree)
          /\ ReadsExactly(e, MaxFile)

\* The number of entries is checked before the first one, with the same result.
ZipTakes(e) ==
    /\ RoomForEntry /\ CleanName(e.name)
    /\ \/ e.kind = "directory" /\ e.size = 0
       \/ /\ e.kind = "file"
          /\ RoomForFile /\ UnsignedFits(e) /\ e.name \notin FilesOf(tree)
          /\ ReadsExactly(e, MaxFile)

\* ReadTree of the local and of the remote host store.
WalkTakes(e) ==
    \/ e.kind = "directory"
    \/ /\ e.kind = "file"
       /\ RoomForFile /\ Fits(e) /\ CleanName(e.name)
       /\ ReadsExactly(e, MaxFile)

Takes(e) ==
    CASE reader = "single" -> SingleTakes(e)
      [] reader = "tar" -> TarTakes(e)
      [] reader = "zip" -> ZipTakes(e)
      [] reader = "walk" -> WalkTakes(e)

\* What a reader asks of the whole when there are no more entries.
Complete ==
    CASE reader = "single" -> tree # NoFiles
      [] reader = "zip" -> /\ FilesOf(tree) \cap directories = {}
                           /\ Shaped(tree)
                           /\ SolrConfig \in FilesOf(tree)
                           /\ FilesOf(tree) \cap Schemas # {}
      [] OTHER -> Shaped(tree)

-----------------------------------------------------------------------------
(* Writing a tree.                                                         *)

Directories(t) ==
    UNION {{SubSeq(n, 1, k) : k \in 1 .. Len(n) - 1} : n \in FilesOf(t)}

DirectoryEntry(name) == [kind |-> "directory", name |-> name, size |-> 0, data |-> 0]
FileEntry(name, size) == [kind |-> "file", name |-> name, size |-> size, data |-> size]

\* The directories of a tree and then its files, below `top`.
Listing(t, top) ==
    SetToSeq({DirectoryEntry(top \o d) : d \in Directories(t)})
        \o SetToSeq({FileEntry(top \o n, t[n]) : n \in FilesOf(t)})

\* buildSolrConfigTreeTar.
Tar(t) == <<DirectoryEntry(<<Root>>)>> \o Listing(t, <<Root>>)

-----------------------------------------------------------------------------
\* The names that an archive or a directory may hold: a walk meets no name twice
\* and nothing beneath a file.
OfferedNames ==
    CASE reader = "single" -> {SolrConfig, ZipFile}
      [] reader = "tar" -> {SolrConfig, <<Root>>} \cup {<<Root>> \o n : n \in Names}
      [] reader = "zip" -> Names
      [] reader = "walk" ->
           {n \in Names : \A i \in DOMAIN input :
               n # input[i].name
               /\ (input[i].kind # "directory" => ~IsPrefix(input[i].name, n))
               /\ ~IsStrictPrefix(n, input[i].name)}

\* The entries under these names, each directory once.  What a reader refuses
\* under any name is offered under one: a file that is too long or whose data is
\* cut short, data in a directory, and what is neither.  A zip may also hold, and
\* a file on the host grow by, more data than announced; in a tar what follows
\* the announced data is the next entry.
Offered ==
    LET plain == {FileEntry(n, size) : n \in OfferedNames, size \in {s \in Sizes : s <= MaxFile}}
        odd == OfferedNames \cap {ZipFile, SolrConfig, <<Root>> \o SolrConfig}
        some == {FileEntry(n, size) : n \in odd, size \in Sizes}
        misread == {[e EXCEPT !.data = length] : e \in some, length \in Sizes}
    IN  plain \cup {DirectoryEntry(n) : n \in OfferedNames \ directories}
        \cup some
        \cup {[e EXCEPT !.kind = "other"] : e \in some}
        \cup {e \in misread : e.data < e.size \/ reader \in {"zip", "walk"}}
        \cup {[e EXCEPT !.kind = "directory"] : e \in {f \in some : f.size > 0 /\ reader = "zip"}}

Consume(e) ==
    /\ verdict = "reading"
    /\ input' = Append(input, e)
    /\ \/ /\ ~Takes(e)
          /\ verdict' = "refused"
          /\ UNCHANGED <<tree, directories, total>>
       \/ /\ Takes(e) /\ e.kind = "directory"
          /\ directories' = directories \cup {e.name}
          /\ UNCHANGED <<tree, total, verdict>>
       \/ /\ Takes(e) /\ e.kind = "file"
          /\ LET name == IF reader = "tar" THEN Tail(e.name) ELSE e.name
             IN tree' = [n \in FilesOf(tree) \cup {name} |->
                           IF n = name THEN e.data ELSE tree[n]]
          /\ total' = total + e.data
          /\ UNCHANGED <<directories, verdict>>
    /\ UNCHANGED <<reader, origin>>

Entry == origin = None /\ (\E e \in Offered : Consume(e)) /\ UNCHANGED staged

StagedEntry ==
    /\ staged # <<>>
    /\ Consume(Head(staged))
    /\ staged' = Tail(staged)

End ==
    /\ verdict = "reading" /\ staged = <<>>
    /\ verdict' = IF Complete THEN "accepted" ELSE "incomplete"
    /\ UNCHANGED <<reader, input, tree, directories, total, origin, staged>>

\* The stream or the walk fails.
Break ==
    /\ verdict = "reading" /\ origin = None
    /\ verdict' = "broken"
    /\ UNCHANGED <<reader, input, tree, directories, total, origin, staged>>

Fresh(r) ==
    /\ reader' = r /\ input' = <<>> /\ tree' = NoFiles /\ directories' = {}
    /\ total' = 0 /\ verdict' = "reading"

\* generateSolrConfig: the file, which is no longer than a zip may be, is
\* opened as one.
Unzip ==
    /\ reader = "single" /\ verdict = "accepted"
    /\ Fresh("zip")
    /\ UNCHANGED <<origin, staged>>

\* The generated tree goes into the Solr container, and is read from there.
Stage ==
    /\ reader = "zip" /\ verdict = "accepted"
    /\ Fresh("tar")
    /\ origin' = tree /\ staged' = Tar(tree)

\* The generated tree is published on the host, and is read from there.
Publish ==
    /\ reader = "zip" /\ verdict = "accepted"
    /\ Fresh("walk")
    /\ origin' = tree /\ staged' = Listing(tree, <<>>)

Init ==
    /\ reader \in {"single", "tar", "walk"}
    /\ input = <<>> /\ tree = NoFiles /\ directories = {} /\ total = 0
    /\ verdict = "reading" /\ origin = None /\ staged = <<>>

Next == Entry \/ StagedEntry \/ End \/ Break \/ Unzip \/ Stage \/ Publish

Spec == Init /\ [][Next]_vars

-----------------------------------------------------------------------------
(* What the readers promise.                                               *)

\* Every variable has its type, and no reader ever holds more files, longer
\* files or more bytes than the limits allow.
TypeOK ==
    /\ reader \in Readers /\ verdict \in Verdicts
    /\ IsFiniteSet(FilesOf(tree)) /\ tree \in [FilesOf(tree) -> Nat]
    /\ total \in Nat
    /\ IF reader = "single"
       THEN FilesOf(tree) \subseteq {ZipFile} /\ total <= MaxZip
       ELSE /\ Cardinality(FilesOf(tree)) <= MaxFiles
            /\ \A n \in FilesOf(tree) : tree[n] <= MaxFile
            /\ total <= MaxTotal

\* An archive as a whole, without the order it is read in.
Positions(kind) == {i \in DOMAIN input : input[i].kind = kind}
NameAt(i) == IF reader = "tar" THEN Tail(input[i].name) ELSE input[i].name

\* One mark for every byte of the files at these positions.
ByteMarks(archive, positions) == UNION {{i} \X (1 .. archive[i].size) : i \in positions}

PermittedTree ==
    LET files == Positions("file")
    IN /\ Cardinality(files) <= MaxFiles
       /\ Cardinality(ByteMarks(input, files)) <= MaxTotal
       /\ \A i \in files : CleanName(NameAt(i)) /\ input[i].size <= MaxFile
       /\ \A i, j \in files : i # j => ~IsPrefix(NameAt(i), NameAt(j))

Permitted ==
    /\ Positions("other") = {}
    /\ \A i \in Positions("file") : input[i].data = input[i].size
    /\ reader # "walk" =>
          Len(input) <= MaxEntries /\ \A i \in DOMAIN input : CleanName(input[i].name)
    /\ IF reader = "single"
       THEN /\ Cardinality(Positions("file")) <= 1
            /\ \A i \in Positions("file") :
                  input[i].name = ZipFile /\ input[i].size <= MaxZip
       ELSE PermittedTree
    /\ reader = "tar" => \A i \in DOMAIN input : input[i].name[1] = Root
    /\ reader = "zip" => \A i \in Positions("directory") :
          input[i].size = 0 /\ \A j \in Positions("file") : input[i].name # input[j].name

Required ==
    LET names == {input[i].name : i \in Positions("file")}
    IN CASE reader = "single" -> names # {}
         [] reader = "zip" -> SolrConfig \in names /\ names \cap Schemas # {}
         [] OTHER -> TRUE

\* Entry by entry, the readers accept exactly the archives that are permitted
\* as a whole, whatever the order of the entries, refuse one before its end
\* only for what it already holds, and return what it holds.
ReadersAreExact ==
    /\ verdict = "accepted" =>
          /\ Permitted /\ Required
          /\ FilesOf(tree) = {NameAt(i) : i \in Positions("file")}
          /\ \A i \in Positions("file") : tree[NameAt(i)] = input[i].size
    /\ verdict = "refused" => ~Permitted
    /\ verdict = "incomplete" => ~(Permitted /\ Required)

\* The tree that drush generated comes back as it is from the container and
\* from the host: nothing that the zip reader accepts is refused there, but for
\* a tree whose directories, which a zip need not name, take a tar over the
\* limit on entries.
WrittenTreeIsReadBack ==
    origin # None =>
        /\ verdict = "accepted" => tree = origin
        /\ verdict \in {"refused", "incomplete"} =>
              reader = "tar" /\ Len(Tar(origin)) > MaxEntries
=============================================================================
