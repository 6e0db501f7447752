-------------------------- MODULE RamBackendProofs --------------------------
(***************************************************************************)
(* Proofs about RamBackend, for every set of paths, attributes and buffers *)
(* and every bound.  TypeOK is inductive; UniquePaths, ParentsPresent and  *)
(* SubdirectoriesReal need each other and the types (IInv): a mkdir keeps  *)
(* the listings real because its parent is present, and a removal keeps    *)
(* paths unique because the index the search answers is the only one.      *)
(* On IInv rest the requests that end the process, the refinement of       *)
(* FileTree request by request, the names of the files in the top          *)
(* directory, and the list of the directories that a growth loses.         *)
(***************************************************************************)
EXTENDS RamBackend, ContentLemmas

\* What the linear searches return: the place of an element with the path, or
\* none if there is none.
LEMMA IndexInProperties ==
  ASSUME NEW S, NEW vector \in Seq(S), NEW p
  PROVE  /\ IndexIn(vector, p) \in 0..Len(vector)
         /\ IndexIn(vector, p) = 0 <=> \A i \in 1..Len(vector) : vector[i].path # p
         /\ IndexIn(vector, p) # 0 =>
              /\ IndexIn(vector, p) \in 1..Len(vector)
              /\ vector[IndexIn(vector, p)].path = p
<1> DEFINE hits == {i \in 1..Len(vector) : vector[i].path = p}
<1>1. Len(vector) \in Nat
  BY LenProperties
<1>2. CASE hits = {}
  <2>1. IndexIn(vector, p) = 0
    BY <1>2 DEF IndexIn
  <2> QED
    BY <1>1, <1>2, <2>1
<1>3. CASE hits # {}
  <2>1. IndexIn(vector, p) = Min(hits)
    BY <1>3 DEF IndexIn
  <2>2. hits \in SUBSET Nat
    BY <1>1
  <2> HIDE DEF hits
  <2>3. Min(hits) \in hits
    BY <1>3, <2>2, MinProperties
  <2>4. Min(hits) \in 1..Len(vector) /\ vector[Min(hits)].path = p
    BY <2>3 DEF hits
  <2>5. Min(hits) # 0
    BY <1>1, <2>4
  <2> QED
    BY <1>1, <2>1, <2>4, <2>5
<1> QED
  BY <1>2, <1>3

-----------------------------------------------------------------------------
(* Types of what the requests compute.                                      *)

\* The parent of a path a client uses is a path; its last component is a name.
LEMMA PathTypes ==
  ASSUME NEW p \in Paths
  PROVE  /\ p \in AnyPath
         /\ Parent(p) \in AnyPath
         /\ BaseName(p) \in Seq(STRING)
         /\ p # Root
<1>1. p \in Seq(STRING) /\ p # <<>> /\ Front(p) \in Paths \cup {Root}
  BY PathsAssumption DEF Root
<1>2. Len(p) \in 1..Len(p)
  BY <1>1, EmptySeq, LenProperties
<1>3. Last(p) \in STRING
  BY <1>1, <1>2, ElementOfSeq DEF Last
<1> QED
  BY <1>1, <1>3 DEF AnyPath, Parent, BaseName, Root

-----------------------------------------------------------------------------
(* TypeOK is inductive on its own.                                          *)

\* What the constructor makes is well formed.
LEMMA MountedType ==
  ASSUME NEW fs, NEW ds, NEW cap, NEW up, NEW rq, Mounted(fs, ds, cap, up, rq)
  PROVE  /\ fs \in Seq(File)
         /\ ds \in Seq(Directory)
         /\ cap \in Nat
         /\ up \in BOOLEAN
         /\ rq \in Request
<1>1. MgFile1 \in Paths /\ MgDir1 \in Paths /\ MgFile1 \in Seq(STRING) /\ Root \in AnyPath
  BY PathsAssumption DEF AnyPath
<1>2. PICK t \in Times : fs = <<MountedFile(t)>>
  BY DEF Mounted
<1>3. MountedFile(t) \in File
  BY <1>1, AttributesAssumption, ContentAssumption DEF MountedFile, File
<1>4. /\ [path |-> MgDir1, sub |-> {}] \in Directory
      /\ [path |-> Root, sub |-> {MgDir1}] \in Directory
  BY <1>1 DEF Directory, AnyPath
<1>5. rq \in Request
  BY <1>1 DEF Mounted, Request
<1>6. fs \in Seq(File)
  BY <1>2, <1>3
<1>7. ds \in Seq(Directory)
  BY <1>4 DEF Mounted
<1> QED
  BY <1>5, <1>6, <1>7 DEF Mounted

\* A file that file_exists finds has a well-formed entry at its index.
LEMMA FileFound ==
  ASSUME TypeOK, NEW p, FileExists(p)
  PROVE  /\ FileIndex(p) \in 1..Len(files)
         /\ files[FileIndex(p)] \in File
         /\ files[FileIndex(p)].path = p
<1>1. files \in Seq(File)
  BY DEF TypeOK
<1>2. FileIndex(p) \in 1..Len(files) /\ files[FileIndex(p)].path = p
  BY <1>1, IndexInProperties DEF FileExists, FileIndex
<1> QED
  BY <1>1, <1>2, ElementOfSeq

\* The handlers that change one field of one file keep the entry well formed.
LEMMA ChangeFileType ==
  ASSUME TypeOK, NEW op \in FileOps, NEW p \in AnyPath, NEW size \in Nat, NEW changed,
         FileExists(p) => changed \in File,
         ChangeFile(op, p, size, changed)
  PROVE  TypeOK'
<1>1. req' \in Request
  BY DEF ChangeFile, Handle, Request
<1>2. alive' \in BOOLEAN
  BY DEF ChangeFile, FileExists
<1>3. files' \in Seq(File)
  <2>1. CASE FileExists(p)
    <3>1. files' = [files EXCEPT ![FileIndex(p)] = changed]
      BY <2>1 DEF ChangeFile, ReplaceAt
    <3> QED
      BY <2>1, <3>1, FileFound, ExceptSeq DEF TypeOK
  <2>2. CASE ~FileExists(p)
    BY <2>2 DEF ChangeFile, TypeOK
  <2> QED
    BY <2>1, <2>2
<1> QED
  BY <1>1, <1>2, <1>3 DEF TypeOK, ChangeFile

\* Removing the destination of a rename leaves a well-formed vector.
LEMMA WithoutFileType ==
  ASSUME TypeOK, NEW p
  PROVE  WithoutFile(p) \in Seq(File)
<1>1. CASE FileExists(p)
  BY <1>1, FileFound, RemoveAtProperties DEF WithoutFile, TypeOK
<1>2. CASE ~FileExists(p)
  BY <1>2 DEF WithoutFile, TypeOK
<1> QED
  BY <1>1, <1>2

\* Giving an entry a new path and name leaves a well-formed vector.
LEMMA RelabelledType ==
  ASSUME NEW vector \in Seq(File), NEW index \in 0..Len(vector),
         NEW p \in Paths, NEW n \in Seq(STRING)
  PROVE  Relabelled(vector, index, p, n) \in Seq(File)
<1>1. CASE index = 0
  BY <1>1 DEF Relabelled
<1>2. CASE index # 0
  <2>1. index \in 1..Len(vector) /\ vector[index] \in File
    BY <1>2, LenProperties, ElementOfSeq
  <2> DEFINE entry == [vector[index] EXCEPT !.path = p, !.name = n]
  <2>2. entry \in File
    BY <2>1 DEF File
  <2>3. Relabelled(vector, index, p, n) = [vector EXCEPT ![index] = entry]
    BY <1>2, <2>1, LenProperties DEF Relabelled, File
  <2> QED
    BY <2>1, <2>2, <2>3, ExceptSeq
<1> QED
  BY <1>1, <1>2

\* No request breaks the types; one step below per request.
LEMMA TypeStep == TypeOK /\ [Next]_vars => TypeOK'
<1> SUFFICES ASSUME TypeOK, [Next]_vars
             PROVE  TypeOK'
  OBVIOUS
<1>1. CASE Remount
  BY <1>1, MountedType DEF Remount, TypeOK
<1>2. ASSUME NEW p \in Paths, NEW m \in Modes, NEW o \in Owners, NEW t \in Times,
             CreateFile(p, m, o, t)
      PROVE  TypeOK'
  <2> DEFINE new == [path |-> p, name |-> BaseName(p), content |-> <<>>,
                     mode |-> m, owner |-> o, times |-> t]
  <2>1. new \in File
    BY PathTypes, EmptySeq DEF File
  <2>2. files' \in Seq(File)
    BY <1>2, <2>1, AppendProperties DEF CreateFile, TypeOK
  <2>3. req' \in Request /\ alive' \in BOOLEAN
    BY <1>2, PathTypes DEF CreateFile, Handle, Request, DirectoryExists
  <2> QED
    BY <1>2, <2>2, <2>3 DEF CreateFile, TypeOK
<1>3. ASSUME NEW p \in Paths, RemoveFile(p)
      PROVE  TypeOK'
  <2>1. files' \in Seq(File)
    BY <1>3, FileFound, RemoveAtProperties DEF RemoveFile, TypeOK
  <2>2. req' \in Request
    BY <1>3, PathTypes DEF RemoveFile, Handle, Request
  <2> QED
    BY <1>3, <2>1, <2>2 DEF RemoveFile, TypeOK
<1>4. ASSUME NEW p \in Paths, CreateDirectory(p)
      PROVE  TypeOK'
  <2> DEFINE new   == [path |-> p, sub |-> {}]
             added == Append(dirs, new)
             d     == DirIndex(Parent(p))
  <2>1. new \in Directory
    BY PathTypes DEF Directory
  <2>2. added \in Seq(Directory) /\ dirCap \in Nat
    BY <2>1, AppendProperties DEF TypeOK
  <2> HIDE DEF added
  <2>3. [added EXCEPT ![d].sub = @ \cup {p}] \in Seq(Directory)
    <3>1. CASE d \in 1..Len(added)
      <4>1. added[d] \in Directory
        BY <2>2, <3>1, ElementOfSeq
      <4>2. [added[d] EXCEPT !.sub = @ \cup {p}] \in Directory
        BY <4>1 DEF Directory
      <4>3. [added EXCEPT ![d].sub = @ \cup {p}]
              = [added EXCEPT ![d] = [added[d] EXCEPT !.sub = @ \cup {p}]]
        BY <4>1 DEF Directory
      <4> QED
        BY <2>2, <3>1, <4>2, <4>3, ExceptSeq
    <3>2. CASE d \notin 1..Len(added)
      BY <2>2, <3>2, LenProperties
    <3> QED
      BY <3>1, <3>2
  <2>4. dirs' \in Seq(Directory)
    BY <1>4, <2>2, <2>3 DEF CreateDirectory, added
  <2>5. dirCap' \in Nat
    BY <1>4, <2>2 DEF CreateDirectory
  <2>6. req' \in Request /\ alive' \in BOOLEAN
    BY <1>4, PathTypes DEF CreateDirectory, MkdirRequested, Handle, Request
  <2> QED
    BY <1>4, <2>4, <2>5, <2>6 DEF CreateDirectory, TypeOK
<1>5. ASSUME NEW p \in Paths, RemoveDirectory(p)
      PROVE  TypeOK'
  BY <1>5, PathTypes DEF RemoveDirectory, RmdirRequested, Handle, Request, TypeOK
<1>6. ASSUME NEW p \in Paths, NEW q \in Paths, RenameFile(p, q)
      PROVE  TypeOK'
  <2> DEFINE index == IndexIn(WithoutFile(q), p)
  <2>1. WithoutFile(q) \in Seq(File)
    BY WithoutFileType
  <2>2. index \in 0..Len(WithoutFile(q))
    BY <2>1, IndexInProperties
  <2>3. q \in Seq(STRING)
    BY PathsAssumption
  <2>4. files' \in Seq(File)
    BY <1>6, <2>1, <2>2, <2>3, RelabelledType DEF RenameFile
  <2>5. req' \in Request /\ alive' \in BOOLEAN
    BY <1>6, PathTypes DEF RenameFile, RenameRequested, Handle, Request
  <2> QED
    BY <1>6, <2>4, <2>5 DEF RenameFile, RenameRequested, TypeOK
<1>7. ASSUME NEW p \in AnyPath, NEW m \in Modes, SetFileMode(p, m)
      PROVE  TypeOK'
  <2>1. FileExists(p) => [files[FileIndex(p)] EXCEPT !.mode = m] \in File
    BY FileFound DEF File
  <2> QED
    BY <1>7, <2>1, ChangeFileType DEF SetFileMode, FileOps
<1>8. ASSUME NEW p \in AnyPath, NEW o \in Owners, ChangeOwnership(p, o)
      PROVE  TypeOK'
  <2>1. FileExists(p) => [files[FileIndex(p)] EXCEPT !.owner = o] \in File
    BY FileFound DEF File
  <2> QED
    BY <1>8, <2>1, ChangeFileType DEF ChangeOwnership, FileOps
<1>9. ASSUME NEW p \in AnyPath, NEW t \in Times, SetAccessAndModificationTimes(p, t)
      PROVE  TypeOK'
  <2>1. FileExists(p) => [files[FileIndex(p)] EXCEPT !.times = t] \in File
    BY FileFound DEF File
  <2> QED
    BY <1>9, <2>1, ChangeFileType DEF SetAccessAndModificationTimes, FileOps
<1>10. ASSUME NEW p \in Paths, NEW data \in Data, NEW offset \in 0..MaxLen,
              Write(p, data, offset)
       PROVE  TypeOK'
  <2> DEFINE written == WriteFileContent(files[FileIndex(p)].content, data, offset)
  <2>1. FileExists(p) /\ p \in AnyPath
    BY <1>10, PathTypes DEF Write
  <2>2. offset \in Nat /\ data \in Seq(Byte) /\ files[FileIndex(p)].content \in Seq(Byte)
    BY <2>1, FileFound, BoundsAssumption, ContentAssumption DEF File
  <2>3. written \in Seq(Byte)
    BY <2>2, WriteFileContentProperties
  <2> HIDE DEF written
  <2>4. [files[FileIndex(p)] EXCEPT !.content = written] \in File
    BY <2>1, <2>3, FileFound DEF File
  <2>5. ChangeFile("write", p, 0, [files[FileIndex(p)] EXCEPT !.content = written])
    BY <1>10 DEF Write, written
  <2> QED
    BY <2>1, <2>4, <2>5, ChangeFileType DEF FileOps
<1>11. ASSUME NEW p \in Paths, NEW new_length \in 0..MaxLen, Truncate(p, new_length)
       PROVE  TypeOK'
  <2> DEFINE cut == TruncateFile(files[FileIndex(p)].content, new_length)
  <2>1. FileExists(p) /\ p \in AnyPath
    BY <1>11, PathTypes DEF Truncate
  <2>2. new_length \in Nat /\ files[FileIndex(p)].content \in Seq(Byte)
    BY <2>1, FileFound, BoundsAssumption DEF File
  <2>3. cut \in Seq(Byte)
    BY <2>2, TruncateFileProperties
  <2>4. ChangeFile("truncate", p, new_length, [files[FileIndex(p)] EXCEPT !.content = cut])
    BY <1>11 DEF Truncate
  <2> HIDE DEF cut
  <2>5. [files[FileIndex(p)] EXCEPT !.content = cut] \in File
    BY <2>1, <2>3, FileFound DEF File
  <2> QED
    BY <2>1, <2>4, <2>5, ChangeFileType DEF FileOps
<1>12. CASE UNCHANGED vars
  BY <1>12 DEF vars, TypeOK
<1>13. ASSUME NEW p, NothingMade(p) \/ NothingDone(p)
       PROVE  TypeOK'
  BY <1>13 DEF NothingMade, NothingDone, Handle, Request, AnyPath, TypeOK
<1> QED
  BY <1>1, <1>2, <1>3, <1>4, <1>5, <1>6, <1>7, <1>8, <1>9, <1>10, <1>11, <1>12, <1>13 DEF Next

\* Whatever the requests, and however many files and directories they make,
\* the two vectors hold well-formed entries.
THEOREM TypeCorrect == Spec => []TypeOK
<1>1. Init => TypeOK
  BY MountedType DEF Init, TypeOK
<1> QED
  BY <1>1, TypeStep, PTL DEF Spec

-----------------------------------------------------------------------------
(* What each kind of request does to the paths in the two vectors.          *)

\* Each search answers 0 exactly if no element has the path.
LEMMA Searches ==
  ASSUME NEW S, NEW vector \in Seq(S), NEW p
  PROVE  IndexIn(vector, p) # 0 <=> \E i \in 1..Len(vector) : vector[i].path = p
BY IndexInProperties

\* file_exists answers yes exactly if some file has the path.
LEMMA FileExistsMeans ==
  ASSUME TypeOK, NEW p
  PROVE  FileExists(p) <=> \E i \in 1..Len(files) : files[i].path = p
BY Searches DEF TypeOK, FileExists, FileIndex

\* directory_exists answers yes exactly if some directory has the path.
LEMMA DirectoryExistsMeans ==
  ASSUME TypeOK, NEW p
  PROVE  DirectoryExists(p) <=> \E i \in 1..Len(dirs) : dirs[i].path = p
BY Searches DEF TypeOK, DirectoryExists, DirIndex

\* The indices of both vectors are 1 to their sizes.
LEMMA Domains ==
  ASSUME TypeOK
  PROVE  /\ Len(files) \in Nat /\ DOMAIN files = 1..Len(files)
         /\ Len(dirs) \in Nat /\ DOMAIN dirs = 1..Len(dirs)
BY LenProperties DEF TypeOK

\* chmod, chown, utimens, write and truncate move no entry and change no path.
LEMMA ChangeKeepsPaths ==
  ASSUME TypeOK, NEW op, NEW p, NEW size, NEW changed,
         FileExists(p) => changed.path = p,
         ChangeFile(op, p, size, changed)
  PROVE  /\ Len(files') = Len(files)
         /\ DOMAIN files' = DOMAIN files
         /\ \A i \in DOMAIN files : files'[i].path = files[i].path
<1>1. CASE FileExists(p)
  <2>1. files' = [files EXCEPT ![FileIndex(p)] = changed]
    BY <1>1 DEF ChangeFile, ReplaceAt
  <2>2. FileIndex(p) \in DOMAIN files /\ files[FileIndex(p)].path = p /\ changed.path = p
    BY <1>1, FileFound, Domains
  <2>3. Len(files') = Len(files) /\ DOMAIN files' = DOMAIN files
    BY <2>1, <2>2, Domains DEF TypeOK
  <2> QED
    BY <2>1, <2>2, <2>3
<1>2. CASE ~FileExists(p)
  BY <1>2 DEF ChangeFile
<1> QED
  BY <1>1, <1>2

\* After the destination of a rename is removed no file has its path, and every
\* other file is still there once.
LEMMA WithoutFilePaths ==
  ASSUME TypeOK, UniquePaths, NEW p
  PROVE  /\ WithoutFile(p) \in Seq(File)
         /\ \A j \in 1..Len(WithoutFile(p)) :
              /\ \E i \in DOMAIN files : WithoutFile(p)[j].path = files[i].path
              /\ WithoutFile(p)[j].path # p
         /\ \A j, k \in 1..Len(WithoutFile(p)) :
              WithoutFile(p)[j].path = WithoutFile(p)[k].path => j = k
<1>1. WithoutFile(p) \in Seq(File)
  BY WithoutFileType
<1>2. CASE FileExists(p)
  <2> DEFINE at == FileIndex(p)
             place(j) == IF j < at THEN j ELSE j + 1
  <2>1. at \in 1..Len(files) /\ files[at].path = p /\ Len(files) \in Nat
    BY <1>2, FileFound, Domains
  <2>2. /\ Len(WithoutFile(p)) = Len(files) - 1
        /\ \A j \in 1..(Len(files) - 1) : WithoutFile(p)[j] = files[place(j)]
    BY <1>2, <2>1, RemoveAtProperties DEF WithoutFile, TypeOK
  <2> HIDE DEF at
  <2>3. \A j \in 1..(Len(files) - 1) : place(j) \in DOMAIN files /\ place(j) # at
    BY <2>1, Domains
  <2>4. \A j, k \in 1..(Len(files) - 1) : place(j) = place(k) => j = k
    BY <2>1
  <2> HIDE DEF place
  <2>5. at \in DOMAIN files
    BY <2>1, Domains
  <2>6. \A i, j \in DOMAIN files : files[i].path = files[j].path => i = j
    BY DEF UniquePaths
  <2>7. ASSUME NEW j \in 1..Len(WithoutFile(p))
        PROVE  /\ \E i \in DOMAIN files : WithoutFile(p)[j].path = files[i].path
               /\ WithoutFile(p)[j].path # p
    BY <2>1, <2>2, <2>3, <2>5, <2>6
  <2>8. ASSUME NEW j \in 1..Len(WithoutFile(p)), NEW k \in 1..Len(WithoutFile(p)),
               WithoutFile(p)[j].path = WithoutFile(p)[k].path
        PROVE  j = k
    <3>1. j \in 1..(Len(files) - 1) /\ k \in 1..(Len(files) - 1)
      BY <2>2
    <3>2. files[place(j)].path = files[place(k)].path
      BY <2>2, <2>8, <3>1
    <3> QED
      BY <2>3, <2>4, <2>6, <3>1, <3>2
  <2> QED
    BY <1>1, <2>7, <2>8
<1>3. CASE ~FileExists(p)
  <2>1. WithoutFile(p) = files
    BY <1>3 DEF WithoutFile
  <2>2. \A i \in 1..Len(files) : files[i].path # p
    BY <1>3, FileExistsMeans
  <2> QED
    BY <1>1, <2>1, <2>2, Domains DEF UniquePaths
<1> QED
  BY <1>2, <1>3

\* A rename of a file: its entry gets the new path, the entry that had that
\* path is gone, and no other path changes.
LEMMA RenamedPaths ==
  ASSUME TypeOK, UniquePaths, NEW p \in Paths, NEW q \in Paths, RenameFile(p, q)
  PROVE  /\ \A i \in DOMAIN files' :
              files'[i].path = q \/ \E j \in DOMAIN files : files'[i].path = files[j].path
         /\ \A i \in DOMAIN files' : files'[i].path = q => ~DirectoryExists(q)
         /\ \A i, j \in DOMAIN files' : files'[i].path = files'[j].path => i = j
<1> DEFINE rest  == WithoutFile(q)
           index == IndexIn(rest, p)
<1>1. /\ rest \in Seq(File)
      /\ DOMAIN rest = 1..Len(rest)
      /\ \A j \in 1..Len(rest) :
           (\E i \in DOMAIN files : rest[j].path = files[i].path) /\ rest[j].path # q
      /\ \A j, k \in 1..Len(rest) : rest[j].path = rest[k].path => j = k
  BY WithoutFilePaths, LenProperties
<1>2. files' = Relabelled(rest, index, q, q)
  BY DEF RenameFile
<1> HIDE DEF rest
<1>3. CASE index = 0
  <2>1. files' = rest
    BY <1>2, <1>3 DEF Relabelled
  <2> QED
    BY <1>1, <2>1
<1>4. CASE index # 0
  <2>1. index \in DOMAIN rest /\ rest[index].path = p
    BY <1>1, <1>4, IndexInProperties
  <2>2. PICK i \in DOMAIN files : files[i].path = p
    BY <1>1, <2>1
  <2>3. FileExists(p)
    BY <2>2, FileExistsMeans, Domains
  <2>4. ~DirectoryExists(q)
    <3>1. CASE FileExists(q)
      <4>1. PICK j \in DOMAIN files : files[j].path = q
        BY <3>1, FileExistsMeans, Domains
      <4> QED
        BY <4>1, DirectoryExistsMeans, Domains DEF UniquePaths
    <3>2. CASE ~FileExists(q)
      BY <2>3, <3>2 DEF RenameFile, RenameRequested, Resolves
    <3> QED
      BY <3>1, <3>2
  <2>5. DOMAIN files' = DOMAIN rest
    BY <1>2, <1>4 DEF Relabelled
  <2>6. rest[index] \in File
    BY <1>1, <2>1, ElementOfSeq
  <2>7. \A j \in DOMAIN rest : files'[j].path = IF j = index THEN q ELSE rest[j].path
    BY <1>2, <1>4, <2>1, <2>6 DEF Relabelled, File
  <2> HIDE DEF index
  <2> QED
    BY <1>1, <2>4, <2>5, <2>7
<1> QED
  BY <1>3, <1>4

\* After a mkdir the vector holds the old directories and the new one, and at
\* most the parent lists one more.
LEMMA AddedDirectory ==
  ASSUME TypeOK, NEW p \in Paths, CreateDirectory(p)
  PROVE  /\ Len(dirs') = Len(dirs) + 1
         /\ DOMAIN dirs' = DOMAIN dirs \cup {Len(dirs) + 1}
         /\ \A i \in DOMAIN dirs :
              /\ dirs'[i].path = dirs[i].path
              /\ \/ dirs'[i].sub = dirs[i].sub
                 \/ i = DirIndex(Parent(p)) /\ dirs'[i].sub = dirs[i].sub \cup {p}
         /\ dirs'[Len(dirs) + 1] = [path |-> p, sub |-> {}]
<1> DEFINE new   == [path |-> p, sub |-> {}]
           added == Append(dirs, new)
           d     == DirIndex(Parent(p))
<1>1. new \in Directory /\ dirs \in Seq(Directory) /\ Len(dirs) \in Nat
  BY PathTypes, Domains DEF Directory, TypeOK
<1>2. /\ added \in Seq(Directory)
      /\ Len(added) = Len(dirs) + 1
      /\ \A i \in 1..Len(dirs) : added[i] = dirs[i]
      /\ added[Len(dirs) + 1] = new
  BY <1>1, AppendProperties
<1>3. d \in 0..Len(dirs)
  BY <1>1, IndexInProperties DEF DirIndex
<1>4. dirs' = added \/ dirs' = [added EXCEPT ![d].sub = @ \cup {p}]
  BY DEF CreateDirectory
<1> HIDE DEF added, d
<1>5. DOMAIN added = DOMAIN dirs \cup {Len(dirs) + 1} /\ DOMAIN added = 1..Len(added)
  BY <1>1, <1>2, LenProperties, Domains
<1>6. CASE dirs' = added
  BY <1>2, <1>5, <1>6, Domains
<1>7. CASE dirs' = [added EXCEPT ![d].sub = @ \cup {p}]
  <2>1. DOMAIN dirs' = DOMAIN added /\ Len(dirs') = Len(added)
    BY <1>2, <1>7, LenProperties
  <2>2. \A i \in DOMAIN added : i # d => dirs'[i] = added[i]
    BY <1>7
  <2>3. ASSUME d \in DOMAIN dirs
        PROVE  dirs'[d].path = dirs[d].path /\ dirs'[d].sub = dirs[d].sub \cup {p}
    <3>1. dirs[d] \in Directory /\ added[d] = dirs[d] /\ d \in DOMAIN added
      BY <1>1, <1>2, <1>5, <2>3, ElementOfSeq, Domains
    <3> QED
      BY <1>7, <3>1 DEF Directory
  <2>4. Len(dirs) + 1 # d
    BY <1>1, <1>3
  <2> QED
    BY <1>2, <1>5, <2>1, <2>2, <2>3, <2>4, Domains DEF d
<1> QED
  BY <1>4, <1>6, <1>7

-----------------------------------------------------------------------------
(* The vectors stay consistent.  IInv is the inductive invariant: the type  *)
(* invariant says the searches return what they claim, unique paths that    *)
(* erasing and relabelling one entry cannot uncover another with the same   *)
(* path, and the parents that the target of a rename or create has one.     *)

IInv == TypeOK /\ UniquePaths /\ ParentsPresent /\ SubdirectoriesReal

\* A freshly mounted file system is consistent.
LEMMA MountedConsistent ==
  Init => UniquePaths /\ ParentsPresent /\ SubdirectoriesReal
<1> SUFFICES ASSUME Init
             PROVE  UniquePaths /\ ParentsPresent /\ SubdirectoriesReal
  OBVIOUS
<1>1. TypeOK
  BY MountedType DEF Init, TypeOK
<1>2. /\ DOMAIN files = {1} /\ files[1].path = MgFile1
      /\ DOMAIN dirs = {1, 2}
      /\ dirs[1] = [path |-> MgDir1, sub |-> {}]
      /\ dirs[2] = [path |-> Root, sub |-> {MgDir1}]
  BY DEF Init, Mounted, MountedFile
<1>3. Parent(MgFile1) = Root /\ Parent(MgDir1) = Root
  BY DEF Parent, MgFile1, MgDir1, Front, Root
<1>4. MgFile1 # MgDir1 /\ MgFile1 # Root /\ MgDir1 # Root
  BY DEF MgFile1, MgDir1, Root
<1>5. DirectoryExists(Root) /\ DirectoryExists(MgDir1)
  BY <1>1, <1>2, DirectoryExistsMeans, Domains
<1>6. UniquePaths
  BY <1>2, <1>4 DEF UniquePaths
<1>7. ParentsPresent
  BY <1>2, <1>3, <1>5 DEF ParentsPresent
<1>8. SubdirectoriesReal
  BY <1>2, <1>3, <1>5 DEF SubdirectoriesReal
<1> QED
  BY <1>6, <1>7, <1>8

\* Requests that touch no entry's path keep all three.
LEMMA SamePathsConsistent ==
  ASSUME IInv, TypeOK', UNCHANGED dirs,
         DOMAIN files' = DOMAIN files,
         \A i \in DOMAIN files : files'[i].path = files[i].path
  PROVE  UniquePaths' /\ ParentsPresent' /\ SubdirectoriesReal'
<1>1. \A p : DirectoryExists(p)' <=> DirectoryExists(p)
  BY DEF DirectoryExists, DirIndex
<1>2. UniquePaths'
  BY DEF IInv, UniquePaths
<1>3. ParentsPresent'
  BY <1>1 DEF IInv, ParentsPresent
<1>4. SubdirectoriesReal'
  BY <1>1 DEF IInv, SubdirectoriesReal
<1> QED
  BY <1>2, <1>3, <1>4

\* What the kernel takes for a directory is a directory of the vector.
LEMMA ParentOfTarget ==
  ASSUME TypeOK, ParentsPresent, NEW p, SeenAsDirectory(Parent(p))
  PROVE  DirectoryExists(Parent(p))
BY DEF SeenAsDirectory, ParentsPresent

\* unlink keeps the vectors consistent.
LEMMA RemovalConsistent ==
  ASSUME IInv, TypeOK', NEW p, RemoveFile(p)
  PROVE  UniquePaths' /\ ParentsPresent' /\ SubdirectoriesReal'
<1>1. files' = WithoutFile(p) /\ dirs' = dirs
  BY DEF RemoveFile, WithoutFile
<1>2. DOMAIN files' = 1..Len(files')
  BY LenProperties DEF TypeOK
<1>3. /\ \A j \in DOMAIN files' : \E i \in DOMAIN files : files'[j].path = files[i].path
      /\ \A j, k \in DOMAIN files' : files'[j].path = files'[k].path => j = k
  BY <1>1, <1>2, WithoutFilePaths DEF IInv
<1>4. \A q : DirectoryExists(q)' <=> DirectoryExists(q)
  BY <1>1 DEF DirectoryExists, DirIndex
<1>5. UniquePaths'
  BY <1>1, <1>3 DEF IInv, UniquePaths
<1>6. ParentsPresent'
  BY <1>1, <1>3, <1>4 DEF IInv, ParentsPresent
<1>7. SubdirectoriesReal'
  BY <1>1, <1>4 DEF IInv, SubdirectoriesReal
<1> QED
  BY <1>5, <1>6, <1>7

\* create keeps the vectors consistent.
LEMMA CreationConsistent ==
  ASSUME IInv, TypeOK', NEW p \in Paths, NEW m \in Modes, NEW o \in Owners, NEW t \in Times,
         CreateFile(p, m, o, t)
  PROVE  UniquePaths' /\ ParentsPresent' /\ SubdirectoriesReal'
<1> DEFINE new == [path |-> p, name |-> BaseName(p), content |-> <<>>,
                   mode |-> m, owner |-> o, times |-> t]
<1>1. new \in File /\ new.path = p
  BY PathTypes, EmptySeq DEF File
<1>2. files' = Append(files, new) /\ dirs' = dirs
  BY DEF CreateFile
<1> HIDE DEF new
<1>3. /\ DOMAIN files' = DOMAIN files \cup {Len(files) + 1}
      /\ Len(files) + 1 \notin DOMAIN files
      /\ \A i \in DOMAIN files : files'[i] = files[i]
      /\ files'[Len(files) + 1].path = p
  <2>1. /\ Len(files') = Len(files) + 1
        /\ \A i \in 1..Len(files) : files'[i] = files[i]
        /\ files'[Len(files) + 1] = new
        /\ DOMAIN files' = 1..Len(files')
    BY <1>1, <1>2, AppendProperties, LenProperties DEF IInv, TypeOK
  <2> QED
    BY <1>1, <2>1, Domains DEF IInv
<1>4. \A q : DirectoryExists(q)' <=> DirectoryExists(q)
  BY <1>2 DEF DirectoryExists, DirIndex
<1>5. ~FileExists(p) /\ ~DirectoryExists(p) /\ DirectoryExists(Parent(p))
  BY ParentOfTarget DEF CreateFile, Resolves, IInv
<1>6. /\ \A i \in DOMAIN files : files[i].path # p
      /\ \A i \in DOMAIN dirs : dirs[i].path # p
  BY <1>5, FileExistsMeans, DirectoryExistsMeans, Domains DEF IInv
<1>7. UniquePaths'
  BY <1>2, <1>3, <1>6 DEF IInv, UniquePaths
<1>8. ParentsPresent'
  BY <1>2, <1>3, <1>4, <1>5 DEF IInv, ParentsPresent
<1>9. SubdirectoriesReal'
  BY <1>2, <1>4 DEF IInv, SubdirectoriesReal
<1> QED
  BY <1>7, <1>8, <1>9

\* rename keeps the vectors consistent.
LEMMA RenameConsistent ==
  ASSUME IInv, TypeOK', NEW p \in Paths, NEW q \in Paths, RenameFile(p, q)
  PROVE  UniquePaths' /\ ParentsPresent' /\ SubdirectoriesReal'
<1>1. dirs' = dirs /\ DirectoryExists(Parent(q))
  BY ParentOfTarget DEF RenameFile, RenameRequested, IInv
<1>2. \A d : DirectoryExists(d)' <=> DirectoryExists(d)
  BY <1>1 DEF DirectoryExists, DirIndex
<1>3. /\ \A i \in DOMAIN files' :
           files'[i].path = q \/ \E j \in DOMAIN files : files'[i].path = files[j].path
      /\ \A i \in DOMAIN files' : files'[i].path = q => ~DirectoryExists(q)
      /\ \A i, j \in DOMAIN files' : files'[i].path = files'[j].path => i = j
  BY RenamedPaths DEF IInv
<1>4. ~DirectoryExists(q) => \A i \in DOMAIN dirs : dirs[i].path # q
  BY DirectoryExistsMeans, Domains DEF IInv
<1>5. UniquePaths'
  BY <1>1, <1>3, <1>4 DEF IInv, UniquePaths
<1>6. ParentsPresent'
  BY <1>1, <1>2, <1>3 DEF IInv, ParentsPresent
<1>7. SubdirectoriesReal'
  BY <1>1, <1>2 DEF IInv, SubdirectoriesReal
<1> QED
  BY <1>5, <1>6, <1>7

\* mkdir keeps the vectors consistent.
LEMMA MkdirConsistent ==
  ASSUME IInv, TypeOK', NEW p \in Paths, CreateDirectory(p)
  PROVE  UniquePaths' /\ ParentsPresent' /\ SubdirectoriesReal'
<1> DEFINE last == Len(dirs) + 1
<1>1. /\ DOMAIN dirs' = DOMAIN dirs \cup {last}
      /\ \A i \in DOMAIN dirs :
           /\ dirs'[i].path = dirs[i].path
           /\ \/ dirs'[i].sub = dirs[i].sub
              \/ i = DirIndex(Parent(p)) /\ dirs'[i].sub = dirs[i].sub \cup {p}
      /\ dirs'[last].path = p /\ dirs'[last].sub = {}
  <2>1. TypeOK
    BY DEF IInv
  <2>2. dirs'[last] = [path |-> p, sub |-> {}]
    BY <2>1, AddedDirectory
  <2>3. dirs'[last].path = p /\ dirs'[last].sub = {}
    BY <2>2
  <2> QED
    BY <2>1, <2>3, AddedDirectory
<1>2. files' = files /\ ~FileExists(p) /\ ~DirectoryExists(p) /\ DirectoryExists(Parent(p))
  BY ParentOfTarget DEF CreateDirectory, MkdirRequested, Resolves, IInv
<1>3. \A q : DirectoryExists(q) => \E i \in DOMAIN dirs : dirs[i].path = q
  BY DirectoryExistsMeans, Domains DEF IInv
<1>4. \A q : DirectoryExists(q)' <=> \E i \in DOMAIN dirs' : dirs'[i].path = q
  BY Searches, LenProperties DEF TypeOK, DirectoryExists, DirIndex
<1>5. \A q : DirectoryExists(q) \/ q = p => DirectoryExists(q)'
  BY <1>1, <1>3, <1>4
<1>6. dirs[DirIndex(Parent(p))].path = Parent(p)
  BY <1>2, IndexInProperties DEF DirectoryExists, DirIndex, IInv, TypeOK
<1>7. /\ \A i \in DOMAIN files : files[i].path # p
      /\ \A i \in DOMAIN dirs : dirs[i].path # p
  BY <1>2, FileExistsMeans, DirectoryExistsMeans, Domains DEF IInv
<1> HIDE DEF last
<1>8. UniquePaths'
  BY <1>1, <1>2, <1>7 DEF IInv, UniquePaths
<1>9. ParentsPresent'
  BY <1>1, <1>2, <1>5 DEF IInv, ParentsPresent
<1>10. SubdirectoriesReal'
  BY <1>1, <1>2, <1>5, <1>6 DEF IInv, SubdirectoriesReal
<1> QED
  BY <1>8, <1>9, <1>10

\* IInv is inductive; one step below per request.
LEMMA ConsistentStep == IInv /\ [Next]_vars => IInv'
<1> SUFFICES ASSUME IInv, [Next]_vars
             PROVE  IInv'
  OBVIOUS
<1>1. TypeOK /\ TypeOK'
  BY TypeStep DEF IInv
<1> DEFINE Goal == UniquePaths' /\ ParentsPresent' /\ SubdirectoriesReal'
<1>2. ASSUME Remount PROVE Goal
  <2>1. Init'
    BY <1>2 DEF Remount, Init
  <2>2. (Init => UniquePaths /\ ParentsPresent /\ SubdirectoriesReal)'
    BY MountedConsistent, PTL
  <2> QED
    BY <2>1, <2>2
<1>3. ASSUME NEW p \in Paths, NEW m \in Modes, NEW o \in Owners, NEW t \in Times,
             CreateFile(p, m, o, t)
      PROVE  Goal
  BY <1>1, <1>3, CreationConsistent
<1>4. ASSUME NEW p \in Paths, RemoveFile(p)
      PROVE  Goal
  BY <1>1, <1>4, RemovalConsistent
<1>5. ASSUME NEW p \in Paths, CreateDirectory(p)
      PROVE  Goal
  BY <1>1, <1>5, MkdirConsistent
<1>6. ASSUME NEW p \in Paths, RemoveDirectory(p)
      PROVE  Goal
  BY <1>1, <1>6, SamePathsConsistent DEF RemoveDirectory
<1>7. ASSUME NEW p \in Paths, NEW q \in Paths, RenameFile(p, q)
      PROVE  Goal
  BY <1>1, <1>7, RenameConsistent
<1>8. ASSUME NEW op, NEW p, NEW size, NEW changed, FileExists(p) => changed.path = p,
             ChangeFile(op, p, size, changed)
      PROVE  Goal
  <2>1. UNCHANGED dirs
    BY <1>8 DEF ChangeFile
  <2> QED
    BY <1>1, <1>8, <2>1, ChangeKeepsPaths, SamePathsConsistent
<1>9. ASSUME NEW p, FileExists(p)
      PROVE  /\ \A m : [files[FileIndex(p)] EXCEPT !.mode = m].path = p
             /\ \A o : [files[FileIndex(p)] EXCEPT !.owner = o].path = p
             /\ \A t : [files[FileIndex(p)] EXCEPT !.times = t].path = p
             /\ \A c : [files[FileIndex(p)] EXCEPT !.content = c].path = p
  BY <1>1, <1>9, FileFound DEF File
<1>10. ASSUME NEW p \in AnyPath, NEW m \in Modes, SetFileMode(p, m)
       PROVE  Goal
  BY <1>8, <1>9, <1>10 DEF SetFileMode
<1>11. ASSUME NEW p \in AnyPath, NEW o \in Owners, ChangeOwnership(p, o)
       PROVE  Goal
  BY <1>8, <1>9, <1>11 DEF ChangeOwnership
<1>12. ASSUME NEW p \in AnyPath, NEW t \in Times, SetAccessAndModificationTimes(p, t)
       PROVE  Goal
  BY <1>8, <1>9, <1>12 DEF SetAccessAndModificationTimes
<1>13. ASSUME NEW p \in Paths, NEW data \in Data, NEW offset \in 0..MaxLen,
              Write(p, data, offset)
       PROVE  Goal
  BY <1>8, <1>9, <1>13 DEF Write
<1>14. ASSUME NEW p \in Paths, NEW new_length \in 0..MaxLen, Truncate(p, new_length)
       PROVE  Goal
  BY <1>8, <1>9, <1>14 DEF Truncate
<1>15. ASSUME UNCHANGED vars PROVE Goal
  <2>1. UNCHANGED <<files, dirs>>
    BY <1>15 DEF vars
  <2> QED
    BY <1>1, <2>1, SamePathsConsistent
<1>16. ASSUME NEW p, NothingMade(p) \/ NothingDone(p) PROVE Goal
  <2>1. UNCHANGED <<files, dirs>>
    BY <1>16 DEF NothingMade, NothingDone
  <2> QED
    BY <1>1, <2>1, SamePathsConsistent
<1>17. Goal
  BY <1>2, <1>3, <1>4, <1>5, <1>6, <1>7, <1>10, <1>11, <1>12, <1>13, <1>14, <1>15, <1>16
     DEF Next, IInv
<1> QED
  BY <1>1, <1>17 DEF IInv

\* IInv holds in every state.
LEMMA Consistent == Spec => []IInv
<1>1. Init => IInv
  BY MountedType, MountedConsistent DEF Init, TypeOK, IInv
<1> QED
  BY <1>1, ConsistentStep, PTL DEF Spec

\* No history of requests leaves two entries with one path: every linear
\* search of files and dirs has at most one hit.
THEOREM PathsStayUnique == Spec => []UniquePaths
<1>1. IInv => UniquePaths
  BY DEF IInv
<1> QED
  BY <1>1, Consistent, PTL

\* The directory of every file and directory is in the vector, as the
\* assertions of create_file and the pointer of create_directory need it.
THEOREM ParentsStayPresent == Spec => []ParentsPresent
<1>1. IInv => ParentsPresent
  BY DEF IInv
<1> QED
  BY <1>1, Consistent, PTL

\* The copies a directory's listing points to are of existing directories
\* right below it.
THEOREM ListedDirectoriesReal == Spec => []SubdirectoriesReal
<1>1. IInv => SubdirectoriesReal
  BY DEF IInv
<1> QED
  BY <1>1, Consistent, PTL

-----------------------------------------------------------------------------
(* Which requests can end the process.                                      *)

\* A path that resolves to no file is a directory.
LEMMA UnfoundIsDirectory ==
  ASSUME NEW p, Resolves(p), ~FileExists(p), UNCHANGED <<files, dirs>>
  PROVE  SeenAsDirectory(p)'
BY DEF Resolves, SeenAsDirectory, FileExists, FileIndex, DirectoryExists, DirIndex

\* A request that changes a file's attributes ends the process only if its path
\* is a directory's.
LEMMA ChangeAborts ==
  ASSUME NEW op \in {"chmod", "chown", "utimens"}, NEW p, NEW size, NEW changed,
         Resolves(p), ChangeFile(op, p, size, changed)
  PROVE  AbortsOnlyOnDirectories'
<1>1. CASE FileExists(p)
  BY <1>1 DEF ChangeFile, AbortsOnlyOnDirectories
<1>2. CASE ~FileExists(p)
  <2>1. UNCHANGED <<files, dirs>> /\ req' = [op |-> op, path |-> p, to |-> p, size |-> size]
    BY <1>2 DEF ChangeFile, Handle
  <2>2. SeenAsDirectory(p)'
    BY <1>2, <2>1, UnfoundIsDirectory
  <2>3. req'.op = op /\ req'.path = p
    BY <2>1
  <2>4. SeenAsDirectory(req.path)'
    BY <2>2, <2>3 DEF SeenAsDirectory, FileExists, FileIndex, DirectoryExists, DirIndex
  <2> QED
    BY <2>3, <2>4 DEF AbortsOnlyOnDirectories
<1> QED
  BY <1>1, <1>2

\* A rename ends the process only if its source is a directory.
LEMMA RenameAborts ==
  ASSUME IInv, TypeOK', NEW p \in Paths, NEW q \in Paths, RenameFile(p, q)
  PROVE  AbortsOnlyOnDirectories'
<1> DEFINE index == IndexIn(WithoutFile(q), p)
<1>1. /\ alive' = (index # 0)
      /\ req' = [op |-> "rename", path |-> p, to |-> q, size |-> 0]
      /\ dirs' = dirs
      /\ files' = Relabelled(WithoutFile(q), index, q, q)
  BY DEF RenameFile, RenameRequested, Handle
<1>2. CASE index # 0
  BY <1>1, <1>2 DEF AbortsOnlyOnDirectories
<1>3. CASE index = 0
  <2>1. files' = WithoutFile(q)
    BY <1>1, <1>3 DEF Relabelled
  <2>2. FileIndex(p)' = 0
    BY <1>3, <2>1 DEF FileIndex
  <2>3. ~FileExists(p)'
    BY <2>2 DEF FileExists
  <2>4. ~FileExists(p)
    <3>1. SUFFICES ASSUME FileExists(p) PROVE FALSE
      OBVIOUS
    <3> DEFINE i == FileIndex(p)
               at == FileIndex(q)
    <3>2. i \in 1..Len(files) /\ files[i].path = p /\ Len(files) \in Nat
      BY <3>1, FileFound, Domains DEF IInv
    <3>3. \A j \in 1..Len(files') : files'[j].path # p
      BY <1>3, <2>1, IndexInProperties DEF TypeOK
    <3>4. CASE FileExists(q)
      <4>1. at \in 1..Len(files) /\ files[at].path = q
        BY <3>4, FileFound DEF IInv
      <4>2. p # q
        <5>1. Len(p) \in Nat
          BY PathsAssumption, LenProperties
        <5> QED
          BY <5>1 DEF RenameFile, RenameRequested, IsPrefix
      <4>3. /\ Len(files') = Len(files) - 1
            /\ \A j \in 1..(Len(files) - 1) : files'[j] = IF j < at THEN files[j] ELSE files[j + 1]
        BY <2>1, <3>4, <4>1, RemoveAtProperties DEF WithoutFile, IInv, TypeOK
      <4>4. i # at
        BY <3>2, <4>1, <4>2
      <4> HIDE DEF i, at
      <4>5. CASE i < at
        <5>1. i \in 1..(Len(files) - 1)
          BY <3>2, <4>1, <4>5
        <5> QED
          BY <3>2, <3>3, <4>3, <4>5, <5>1
      <4>6. CASE i > at
        <5>1. i - 1 \in 1..(Len(files) - 1) /\ ~(i - 1 < at) /\ (i - 1) + 1 = i
          BY <3>2, <4>1, <4>6
        <5> QED
          BY <3>2, <3>3, <4>3, <5>1
      <4> QED
        BY <3>2, <4>1, <4>4, <4>5, <4>6
    <3>5. CASE ~FileExists(q)
      BY <2>1, <3>2, <3>3, <3>5 DEF WithoutFile
    <3> QED
      BY <3>4, <3>5
  <2>5. DirectoryExists(p)
    BY <2>4 DEF RenameFile, RenameRequested, Resolves
  <2>6. DirectoryExists(p)'
    BY <1>1, <2>5 DEF DirectoryExists, DirIndex
  <2>7. req'.op = "rename" /\ req'.path = p
    BY <1>1
  <2>8. SeenAsDirectory(req.path)'
    BY <2>3, <2>6, <2>7 DEF SeenAsDirectory, FileExists, FileIndex, DirectoryExists, DirIndex
  <2> QED
    BY <2>7, <2>8 DEF AbortsOnlyOnDirectories
<1> QED
  BY <1>2, <1>3

\* No request but those on directories ends the process; one step per request.
LEMMA AbortStep == IInv /\ AbortsOnlyOnDirectories /\ [Next]_vars => AbortsOnlyOnDirectories'
<1> SUFFICES ASSUME IInv, AbortsOnlyOnDirectories, [Next]_vars
             PROVE  AbortsOnlyOnDirectories'
  OBVIOUS
<1>1. TypeOK'
  BY TypeStep DEF IInv
<1>2. CASE alive'
  BY <1>2 DEF AbortsOnlyOnDirectories
<1>3. ASSUME NEW p \in Paths, NEW m \in Modes, NEW o \in Owners, NEW t \in Times,
             CreateFile(p, m, o, t)
      PROVE  AbortsOnlyOnDirectories'
  <2>1. alive'
    BY <1>3, ParentOfTarget DEF CreateFile, IInv
  <2> QED
    BY <2>1 DEF AbortsOnlyOnDirectories
<1>4. ASSUME NEW p \in Paths, CreateDirectory(p)
      PROVE  AbortsOnlyOnDirectories'
  <2>1. CASE Len(dirs) = dirCap
    <3>1. dirCap' = 2 * dirCap /\ Len(dirs') = Len(dirs) + 1 /\ Len(dirs) \in Nat
      BY <1>4, <2>1, AddedDirectory, Domains DEF CreateDirectory, IInv
    <3>2. dirCap' = 2 * (Len(dirs') - 1)
      BY <2>1, <3>1
    <3>3. req'.op = "mkdir"
      BY <1>4 DEF CreateDirectory, MkdirRequested, Handle
    <3> QED
      BY <3>2, <3>3 DEF AbortsOnlyOnDirectories
  <2>2. CASE Len(dirs) # dirCap
    BY <1>4, <2>2 DEF CreateDirectory, AbortsOnlyOnDirectories
  <2> QED
    BY <2>1, <2>2
<1>5. ASSUME NEW p \in Paths, NEW q \in Paths, RenameFile(p, q)
      PROVE  AbortsOnlyOnDirectories'
  BY <1>1, <1>5, RenameAborts
<1>6. ASSUME NEW p \in Paths, RemoveFile(p) \/ RemoveDirectory(p)
      PROVE  alive'
  BY <1>6 DEF RemoveFile, RemoveDirectory, RmdirRequested, Handle
<1>7. ASSUME NEW p \in AnyPath,
             \/ \E m \in Modes : SetFileMode(p, m)
             \/ \E o \in Owners : ChangeOwnership(p, o)
             \/ \E t \in Times : SetAccessAndModificationTimes(p, t)
      PROVE  AbortsOnlyOnDirectories'
  <2>1. ASSUME NEW m \in Modes, SetFileMode(p, m) PROVE AbortsOnlyOnDirectories'
    BY <2>1, ChangeAborts DEF SetFileMode
  <2>2. ASSUME NEW o \in Owners, ChangeOwnership(p, o) PROVE AbortsOnlyOnDirectories'
    BY <2>2, ChangeAborts DEF ChangeOwnership
  <2>3. ASSUME NEW t \in Times, SetAccessAndModificationTimes(p, t)
        PROVE  AbortsOnlyOnDirectories'
    BY <2>3, ChangeAborts DEF SetAccessAndModificationTimes
  <2> QED
    BY <1>7, <2>1, <2>2, <2>3
<1>8. ASSUME NEW p, \/ \E data \in Data, offset \in 0..MaxLen : Write(p, data, offset)
                    \/ \E new_length \in 0..MaxLen : Truncate(p, new_length)
      PROVE  alive'
  BY <1>8 DEF Write, Truncate, ChangeFile
<1>9. CASE Remount
  BY <1>2, <1>9 DEF Remount, Mounted
<1>10. ASSUME UNCHANGED vars PROVE AbortsOnlyOnDirectories'
  BY <1>10 DEF vars, AbortsOnlyOnDirectories, SeenAsDirectory, FileExists, FileIndex,
               DirectoryExists, DirIndex
<1>11. ASSUME NEW p, NothingMade(p) \/ NothingDone(p) PROVE alive'
  BY <1>11 DEF NothingMade, NothingDone, Handle
<1> QED
  BY <1>2, <1>3, <1>4, <1>5, <1>6, <1>7, <1>8, <1>9, <1>10, <1>11 DEF Next

\* Only chmod, chown, utimens and rename of a directory, and a mkdir that
\* grows the vector, can end the process: no request on a file ever does.
THEOREM FileRequestsSurvive == Spec => []AbortsOnlyOnDirectories
<1>1. Init => AbortsOnlyOnDirectories
  BY DEF Init, Mounted, AbortsOnlyOnDirectories
<1> QED
  BY <1>1, AbortStep, Consistent, PTL DEF Spec


-----------------------------------------------------------------------------
(* The backend is the tree its clients see (ImplementsTree).  The tree is a *)
(* view of the vector of files: unique paths make it a function of them.    *)

Held(f) == [content |-> f.content, mode |-> f.mode, owner |-> f.owner, times |-> f.times]

View(fs) == [p \in {fs[i].path : i \in DOMAIN fs} |-> Held(fs[IndexIn(fs, p)])]

Distinct(fs) == \A i, j \in DOMAIN fs : fs[i].path = fs[j].path => i = j

\* While the process runs the tree has the paths and the data of the entries;
\* then there is none.
LEMMA TreeIsView ==
  /\ alive => TreeFile = View(files) /\ TreeFolder = {dirs[i].path : i \in DOMAIN dirs}
  /\ ~alive => TreeFile = [p \in {} |-> <<>>] /\ TreeFolder = {}
BY DEF TreeFile, TreeFolder, View, Held, FileIndex

\* The same of the next state.
LEMMA TreeIsViewNext ==
  /\ alive' => TreeFile' = View(files') /\ TreeFolder' = {dirs'[i].path : i \in DOMAIN dirs'}
  /\ ~alive' => TreeFile' = [p \in {} |-> <<>>] /\ TreeFolder' = {}
<1>1. (/\ alive => TreeFile = View(files) /\ TreeFolder = {dirs[i].path : i \in DOMAIN dirs}
       /\ ~alive => TreeFile = [p \in {} |-> <<>>] /\ TreeFolder = {})'
  BY TreeIsView, PTL
<1> QED
  BY <1>1

\* Each entry shows in the view, with all it holds.
LEMMA ViewAt ==
  ASSUME NEW fs \in Seq(File), Distinct(fs), NEW i \in DOMAIN fs
  PROVE  /\ fs[i].path \in DOMAIN View(fs)
         /\ View(fs)[fs[i].path] = Held(fs[i])
<1>1. DOMAIN fs = 1..Len(fs)
  BY LenProperties
<1>2. IndexIn(fs, fs[i].path) \in DOMAIN fs /\ fs[IndexIn(fs, fs[i].path)].path = fs[i].path
  BY <1>1, IndexInProperties
<1>3. IndexIn(fs, fs[i].path) = i
  BY <1>2 DEF Distinct
<1> QED
  BY <1>3 DEF View

\* So whatever agrees with the entries is the view.
LEMMA ViewIs ==
  ASSUME NEW fs \in Seq(File), Distinct(fs), NEW g, g = [x \in DOMAIN g |-> g[x]],
         \A x : x \in DOMAIN g <=> \E i \in DOMAIN fs : fs[i].path = x,
         \A i \in DOMAIN fs : g[fs[i].path] = Held(fs[i])
  PROVE  View(fs) = g
<1>1. DOMAIN View(fs) = DOMAIN g
  BY DEF View
<1>2. ASSUME NEW x \in DOMAIN g PROVE View(fs)[x] = g[x]
  BY <1>2, ViewAt
<1>3. View(fs) = [x \in DOMAIN View(fs) |-> View(fs)[x]]
  BY DEF View
<1> QED
  BY <1>1, <1>2, <1>3

\* What the vectors have, the tree has.
LEMMA TreeHas ==
  ASSUME TypeOK, alive
  PROVE  /\ \A p : p \in DOMAIN TreeFile <=> FileExists(p)
         /\ \A p : p \in TreeFolder <=> DirectoryExists(p)
<1>1. DOMAIN TreeFile = {files[i].path : i \in DOMAIN files} /\ TreeFolder = {dirs[i].path : i \in DOMAIN dirs}
  BY TreeIsView DEF View
<1> QED
  BY <1>1, FileExistsMeans, DirectoryExistsMeans, Domains

\* The end of the process is the end of the tree.
LEMMA EndIsCrash ==
  ASSUME alive, ~alive', alive' \in BOOLEAN, req'.op # "mount"
  PROVE  Tree!Crash
<1>1. TreeFile' = [p \in {} |-> <<>>] /\ TreeFolder' = {}
  BY TreeIsViewNext
<1> QED
  BY <1>1 DEF Tree!Crash, Tree!Nothing

\* Mounting makes the tree of the constructor.
LEMMA MountedTree == Init => Tree!Init
<1> SUFFICES ASSUME Init PROVE Tree!Init
  OBVIOUS
<1>1. PICK t \in Times : files = <<MountedFile(t)>>
  BY DEF Init, Mounted
<1>2. /\ alive /\ req = [op |-> "mount", path |-> Root, to |-> Root, size |-> 0]
      /\ dirs = <<[path |-> MgDir1, sub |-> {}], [path |-> Root, sub |-> {MgDir1}]>>
  BY DEF Init, Mounted
<1>3. TypeOK
  BY MountedType DEF Init, TypeOK
<1> DEFINE first == [p \in {MgFile1} |-> [content |-> InitContent, mode |-> MountMode,
                                          owner |-> MountOwner, times |-> t]]
<1>4. TreeFile = first
  <2>1. DOMAIN files = {1} /\ files[1] = MountedFile(t) /\ files[1].path = MgFile1
    BY <1>1 DEF MountedFile
  <2>2. Held(files[1]) = first[MgFile1]
    BY <2>1 DEF Held, MountedFile
  <2>3. View(files) = first
    <3>1. first = [x \in DOMAIN first |-> first[x]] /\ DOMAIN first = {MgFile1}
      OBVIOUS
    <3> HIDE DEF first
    <3> QED
      BY <1>3, <2>1, <2>2, <3>1, ViewIs DEF TypeOK, Distinct
  <2> QED
    BY <1>2, <2>3, TreeIsView
<1>5. TreeFolder = {MgDir1, Root}
  <2>1. DOMAIN dirs = {1, 2} /\ dirs[1].path = MgDir1 /\ dirs[2].path = Root
    BY <1>2
  <2> QED
    BY <1>2, <2>1, TreeIsView
<1> QED
  BY <1>2, <1>4, <1>5 DEF Tree!Init, Tree!Fresh, Root


-----------------------------------------------------------------------------
(* Each request is a step of the tree.                                      *)

\* Requests on one file change its data and no other file.
LEMMA ChangeIsChange ==
  ASSUME IInv, IInv', NEW op, NEW p, NEW size, NEW changed, FileExists(p),
         changed \in File, changed.path = p,
         ChangeFile(op, p, size, changed)
  PROVE  Tree!Change(op, p, size, Held(changed))
<1> DEFINE at == FileIndex(p)
           g  == [View(files) EXCEPT ![p] = Held(changed)]
<1>1. /\ files \in Seq(File) /\ files' \in Seq(File) /\ Distinct(files) /\ Distinct(files')
      /\ at \in DOMAIN files /\ files[at].path = p
  BY FileFound, Domains DEF IInv, TypeOK, UniquePaths, Distinct
<1>2. /\ files' = [files EXCEPT ![at] = changed] /\ alive /\ alive'
      /\ req' = [op |-> op, path |-> p, to |-> p, size |-> size] /\ UNCHANGED dirs
  BY DEF ChangeFile, Handle, ReplaceAt
<1> HIDE DEF at
<1>3. \A x : x \in DOMAIN View(files) <=> \E i \in DOMAIN files : files[i].path = x
  BY DEF View
<1>4. View(files') = g
  <2>1. DOMAIN g = DOMAIN View(files) /\ g = [x \in DOMAIN g |-> g[x]]
    OBVIOUS
  <2>2. DOMAIN files' = DOMAIN files /\ \A i \in DOMAIN files : files'[i].path = files[i].path
    BY <1>1, <1>2
  <2>3. ASSUME NEW i \in DOMAIN files PROVE g[files'[i].path] = Held(files'[i])
    <3>1. files[i].path \in DOMAIN View(files) /\ View(files)[files[i].path] = Held(files[i])
      BY <1>1, <2>3, ViewAt
    <3>2. CASE i = at
      BY <1>1, <1>2, <3>1, <3>2
    <3>3. CASE i # at
      <4>1. files'[i] = files[i] /\ files[i].path # p
        BY <1>1, <1>2, <2>3, <3>3 DEF Distinct
      <4> QED
        BY <3>1, <4>1
    <3> QED
      BY <3>2, <3>3
  <2>4. \A x : x \in DOMAIN g <=> \E i \in DOMAIN files' : files'[i].path = x
    BY <1>3, <2>1, <2>2
  <2> HIDE DEF g
  <2>5. \A i \in DOMAIN files' : g[files'[i].path] = Held(files'[i])
    BY <2>2, <2>3
  <2> QED
    BY <1>1, <2>1, <2>4, <2>5, ViewIs
<1>5. p \in DOMAIN View(files)
  BY <1>1, <1>3
<1>6. TreeFile = View(files) /\ TreeFile' = View(files') /\ TreeFolder' = TreeFolder
  BY <1>2, TreeIsView, TreeIsViewNext
<1> QED
  BY <1>2, <1>4, <1>5, <1>6 DEF Tree!Change, Tree!Did

\* What the tree holds at the path of a file.
LEMMA TreeFileAt ==
  ASSUME IInv, alive, NEW p, FileExists(p)
  PROVE  /\ p \in DOMAIN TreeFile
         /\ TreeFile[p] = Held(files[FileIndex(p)])
<1>1. files \in Seq(File) /\ Distinct(files) /\ FileIndex(p) \in DOMAIN files /\ files[FileIndex(p)].path = p
  BY FileFound, Domains DEF IInv, TypeOK, UniquePaths, Distinct
<1> QED
  BY <1>1, ViewAt, TreeIsView

\* create.
LEMMA CreateIsCreate ==
  ASSUME IInv, IInv', NEW p \in Paths, NEW m \in Modes, NEW o \in Owners, NEW t \in Times,
         CreateFile(p, m, o, t)
  PROVE  Tree!Create(p, m, o, t)
<1> DEFINE new == [path |-> p, name |-> BaseName(p), content |-> <<>>,
                   mode |-> m, owner |-> o, times |-> t]
           made == [content |-> <<>>, mode |-> m, owner |-> o, times |-> t]
           g == [x \in DOMAIN View(files) \cup {p} |-> IF x = p THEN made ELSE View(files)[x]]
<1>1. /\ files \in Seq(File) /\ files' \in Seq(File) /\ Distinct(files) /\ Distinct(files') /\ TypeOK
  BY DEF IInv, TypeOK, UniquePaths, Distinct
<1>2. /\ files' = Append(files, new) /\ UNCHANGED dirs /\ alive
      /\ req' = [op |-> "create", path |-> p, to |-> p, size |-> 0]
      /\ ~FileExists(p) /\ ~DirectoryExists(p) /\ DirectoryExists(Parent(p)) /\ alive'
  BY ParentOfTarget DEF CreateFile, Handle, Resolves, IInv
<1>3. Held(new) = made /\ new \in File /\ new.path = p
  BY PathTypes, EmptySeq DEF Held, File
<1> HIDE DEF new
<1>4. /\ DOMAIN files' = DOMAIN files \cup {Len(files) + 1}
      /\ \A i \in DOMAIN files : files'[i] = files[i]
      /\ files'[Len(files) + 1] = new
  <2>1. /\ Len(files') = Len(files) + 1
        /\ \A i \in 1..Len(files) : files'[i] = files[i]
        /\ files'[Len(files) + 1] = new
        /\ DOMAIN files' = 1..Len(files')
    BY <1>1, <1>2, <1>3, AppendProperties, LenProperties
  <2> QED
    BY <1>1, <2>1, Domains
<1>5. \A x : x \in DOMAIN View(files) <=> \E i \in DOMAIN files : files[i].path = x
  BY DEF View
<1>6. \A i \in DOMAIN files : files[i].path # p
  BY <1>1, <1>2, FileExistsMeans, Domains
<1>7. View(files') = g
  <2>1. DOMAIN g = DOMAIN View(files) \cup {p} /\ g = [x \in DOMAIN g |-> g[x]] /\ g[p] = made
    OBVIOUS
  <2>2. ASSUME NEW i \in DOMAIN files PROVE g[files[i].path] = Held(files[i])
    BY <1>1, <1>6, <2>2, ViewAt
  <2>3. \A x : x \in DOMAIN g <=> \E i \in DOMAIN files' : files'[i].path = x
    BY <1>3, <1>4, <1>5, <2>1
  <2> HIDE DEF g, made
  <2>4. \A i \in DOMAIN files' : g[files'[i].path] = Held(files'[i])
    BY <1>3, <1>4, <2>1, <2>2
  <2> QED
    BY <1>1, <2>1, <2>3, <2>4, ViewIs
<1>8. TreeFile = View(files) /\ TreeFile' = View(files') /\ TreeFolder' = TreeFolder
  BY <1>2, TreeIsView, TreeIsViewNext
<1>9. p \notin DOMAIN TreeFile /\ p \notin TreeFolder /\ Parent(p) \in TreeFolder
  BY <1>1, <1>2, TreeHas
<1> QED
  BY <1>2, <1>7, <1>8, <1>9 DEF Tree!Create, Tree!Exists, Tree!Did, Tree!Front, Parent, Front

\* After a file is removed the others are still there.
LEMMA WithoutFileRest ==
  ASSUME TypeOK, UniquePaths, NEW p
  PROVE  /\ WithoutFile(p) \in Seq(File) /\ Distinct(WithoutFile(p))
         /\ \A j \in DOMAIN WithoutFile(p) :
              \E i \in DOMAIN files : WithoutFile(p)[j] = files[i] /\ files[i].path # p
         /\ \A i \in DOMAIN files : files[i].path # p =>
              \E j \in DOMAIN WithoutFile(p) : WithoutFile(p)[j] = files[i]
<1> DEFINE rest == WithoutFile(p)
<1>1. /\ rest \in Seq(File) /\ DOMAIN rest = 1..Len(rest)
      /\ \A j \in 1..Len(rest) : rest[j].path # p
      /\ Distinct(rest)
  BY WithoutFilePaths, LenProperties DEF Distinct
<1>2. CASE FileExists(p)
  <2> DEFINE at == FileIndex(p)
  <2>1. at \in 1..Len(files) /\ files[at].path = p /\ Len(files) \in Nat /\ DOMAIN files = 1..Len(files)
    BY <1>2, FileFound, Domains
  <2>2. /\ Len(rest) = Len(files) - 1
        /\ \A j \in 1..(Len(files) - 1) : rest[j] = IF j < at THEN files[j] ELSE files[j + 1]
    BY <1>2, <2>1, RemoveAtProperties DEF WithoutFile, TypeOK
  <2> HIDE DEF at, rest
  <2>3. ASSUME NEW j \in DOMAIN rest PROVE \E i \in DOMAIN files : rest[j] = files[i] /\ files[i].path # p
    <3>1. j \in DOMAIN files /\ j + 1 \in DOMAIN files /\ (rest[j] = files[j] \/ rest[j] = files[j + 1])
      BY <1>1, <2>1, <2>2, <2>3
    <3> QED
      BY <1>1, <2>3, <3>1
  <2>4. ASSUME NEW i \in DOMAIN files, files[i].path # p PROVE \E j \in DOMAIN rest : rest[j] = files[i]
    <3>1. CASE i < at
      <4>1. i \in 1..(Len(files) - 1)
        BY <2>1, <3>1
      <4> QED
        BY <1>1, <2>2, <3>1, <4>1
    <3>2. CASE i > at
      <4>1. i - 1 \in 1..(Len(files) - 1) /\ ~(i - 1 < at) /\ (i - 1) + 1 = i
        BY <2>1, <3>2
      <4> QED
        BY <1>1, <2>2, <4>1
    <3>3. i # at
      BY <2>1, <2>4
    <3> QED
      BY <2>1, <3>1, <3>2, <3>3
  <2> QED
    BY <1>1, <2>3, <2>4 DEF rest
<1>3. CASE ~FileExists(p)
  <2>1. rest = files
    BY <1>3 DEF WithoutFile
  <2> QED
    BY <1>1, <2>1
<1> QED
  BY <1>2, <1>3

\* unlink.
LEMMA RemoveIsUnlink ==
  ASSUME IInv, NEW p \in Paths, RemoveFile(p)
  PROVE  Tree!Unlink(p)
<1> DEFINE g == [x \in DOMAIN View(files) \ {p} |-> View(files)[x]]
<1>1. files \in Seq(File) /\ Distinct(files) /\ TypeOK /\ UniquePaths
  BY DEF IInv, TypeOK, UniquePaths, Distinct
<1>2. /\ files' = WithoutFile(p) /\ FileExists(p) /\ UNCHANGED dirs /\ alive /\ alive'
      /\ req' = [op |-> "unlink", path |-> p, to |-> p, size |-> 0]
  BY DEF RemoveFile, WithoutFile, Handle
<1>3. /\ files' \in Seq(File) /\ Distinct(files')
      /\ \A j \in DOMAIN files' : \E i \in DOMAIN files : files'[j] = files[i] /\ files[i].path # p
      /\ \A i \in DOMAIN files : files[i].path # p => \E j \in DOMAIN files' : files'[j] = files[i]
  BY <1>1, <1>2, WithoutFileRest
<1>4. \A x : x \in DOMAIN View(files) <=> \E i \in DOMAIN files : files[i].path = x
  BY DEF View
<1>5. View(files') = g
  <2>1. DOMAIN g = DOMAIN View(files) \ {p} /\ g = [x \in DOMAIN g |-> g[x]]
    OBVIOUS
  <2>2. ASSUME NEW i \in DOMAIN files, files[i].path # p PROVE g[files[i].path] = Held(files[i])
    BY <1>1, <2>2, ViewAt
  <2>3. \A x : x \in DOMAIN g <=> \E j \in DOMAIN files' : files'[j].path = x
    BY <1>3, <1>4, <2>1
  <2> HIDE DEF g
  <2>4. \A j \in DOMAIN files' : g[files'[j].path] = Held(files'[j])
    BY <1>3, <2>2
  <2> QED
    BY <1>3, <2>1, <2>3, <2>4, ViewIs
<1>6. TreeFile = View(files) /\ TreeFile' = View(files') /\ TreeFolder' = TreeFolder
  BY <1>2, TreeIsView, TreeIsViewNext
<1>7. p \in DOMAIN TreeFile
  BY <1>1, <1>2, TreeHas
<1> QED
  BY <1>2, <1>5, <1>6, <1>7 DEF Tree!Unlink, Tree!Did


\* rename of a file: the entry at the destination is erased, then that of the
\* source, wherever it is now, gets the new path and keeps what it holds.
LEMMA RenameIsRename ==
  ASSUME IInv, NEW p \in Paths, NEW q \in Paths, RenameFile(p, q), alive'
  PROVE  Tree!Rename(p, q)
<1> DEFINE rest  == WithoutFile(q)
           index == IndexIn(rest, p)
           source == View(files)[p]
           g == [x \in (DOMAIN View(files) \ {p}) \cup {q} |-> IF x = q THEN source ELSE View(files)[x]]
<1>1. files \in Seq(File) /\ Distinct(files) /\ TypeOK /\ UniquePaths
  BY DEF IInv, TypeOK, UniquePaths, Distinct
<1>2. /\ files' = Relabelled(rest, index, q, q) /\ UNCHANGED dirs /\ alive /\ index # 0
      /\ req' = [op |-> "rename", path |-> p, to |-> q, size |-> 0]
      /\ Resolves(q) => (FileExists(p) <=> FileExists(q))
      /\ SeenAsDirectory(Parent(q))
  BY DEF RenameFile, RenameRequested, Handle
<1>3. /\ rest \in Seq(File) /\ Distinct(rest)
      /\ \A j \in DOMAIN rest : \E i \in DOMAIN files : rest[j] = files[i] /\ files[i].path # q
      /\ \A i \in DOMAIN files : files[i].path # q => \E j \in DOMAIN rest : rest[j] = files[i]
  BY <1>1, WithoutFileRest
<1> HIDE DEF rest
<1>4. index \in DOMAIN rest /\ rest[index].path = p /\ rest[index] \in File
  BY <1>2, <1>3, IndexInProperties, LenProperties, ElementOfSeq
<1> HIDE DEF index
<1>5. p # q
  BY <1>3, <1>4
<1>6. PICK at \in DOMAIN files : rest[index] = files[at] /\ files[at].path = p
  BY <1>3, <1>4
<1>7. FileExists(p)
  BY <1>1, <1>6, FileExistsMeans, Domains
<1>8. ~DirectoryExists(q)
  <2>1. CASE FileExists(q)
    <3>1. PICK i \in DOMAIN files : files[i].path = q
      BY <1>1, <2>1, FileExistsMeans, Domains
    <3> QED
      BY <1>1, <3>1, DirectoryExistsMeans, Domains DEF UniquePaths
  <2>2. CASE ~FileExists(q)
    BY <1>2, <1>7, <2>2 DEF Resolves
  <2> QED
    BY <2>1, <2>2
<1>9. /\ DOMAIN files' = DOMAIN rest
      /\ files'[index].path = q /\ Held(files'[index]) = Held(rest[index])
      /\ \A j \in DOMAIN rest : j # index => files'[j] = rest[j]
  <2> DEFINE entry == [rest[index] EXCEPT !.path = q, !.name = q]
  <2>1. entry.path = q /\ Held(entry) = Held(rest[index])
    BY <1>4 DEF File, Held
  <2>2. files' = [rest EXCEPT ![index] = entry]
    BY <1>2, <1>4 DEF Relabelled, File
  <2> HIDE DEF entry
  <2> QED
    BY <1>4, <2>1, <2>2
<1>10. \A x : x \in DOMAIN View(files) <=> \E i \in DOMAIN files : files[i].path = x
  BY DEF View
<1>11. source = Held(rest[index])
  BY <1>1, <1>6, ViewAt
<1>12. View(files') = g
  <2>1. DOMAIN g = (DOMAIN View(files) \ {p}) \cup {q} /\ g = [x \in DOMAIN g |-> g[x]] /\ g[q] = source
    OBVIOUS
  <2>2. ASSUME NEW i \in DOMAIN files, files[i].path \notin {p, q} PROVE g[files[i].path] = Held(files[i])
    BY <1>1, <2>2, ViewAt
  <2>3. \A j \in DOMAIN rest : j # index => rest[j].path \notin {p, q}
    BY <1>3, <1>4 DEF Distinct
  <2> HIDE DEF g, source
  <2>4. \A j \in DOMAIN files' : g[files'[j].path] = Held(files'[j])
    BY <1>3, <1>9, <1>11, <2>1, <2>2, <2>3
  <2>5. \A x : x \in DOMAIN g <=> \E j \in DOMAIN files' : files'[j].path = x
    <3>1. ASSUME NEW x \in DOMAIN g PROVE \E j \in DOMAIN files' : files'[j].path = x
      <4>1. CASE x = q
        BY <1>4, <1>9, <4>1
      <4>2. CASE x # q
        <5>1. PICK i \in DOMAIN files : files[i].path = x /\ x # p
          BY <1>10, <2>1, <3>1, <4>2
        <5>2. PICK j \in DOMAIN rest : rest[j] = files[i]
          BY <1>3, <4>2, <5>1
        <5> QED
          BY <1>4, <1>9, <5>1, <5>2
      <4> QED
        BY <4>1, <4>2
    <3>2. ASSUME NEW j \in DOMAIN files' PROVE files'[j].path \in DOMAIN g
      <4>1. CASE j = index
        BY <1>9, <2>1, <4>1
      <4>2. CASE j # index
        BY <1>3, <1>9, <1>10, <2>1, <2>3, <3>2, <4>2
      <4> QED
        BY <4>1, <4>2
    <3> QED
      BY <3>1, <3>2
  <2>6. files' \in Seq(File)
    <3>1. q \in Seq(STRING) /\ index \in 0..Len(rest)
      BY <1>3, <1>4, PathsAssumption, LenProperties
    <3> QED
      BY <1>2, <1>3, <3>1, RelabelledType
  <2>7. Distinct(files')
    BY <1>3, <1>9, <2>3 DEF Distinct
  <2> QED
    BY <2>1, <2>4, <2>5, <2>6, <2>7, ViewIs
<1>13. TreeFile = View(files) /\ TreeFile' = View(files') /\ TreeFolder' = TreeFolder
  BY <1>2, TreeIsView, TreeIsViewNext
<1>14. p \in DOMAIN TreeFile /\ q \notin TreeFolder /\ Parent(q) \in TreeFolder
  BY <1>1, <1>2, <1>7, <1>8, TreeHas, ParentOfTarget DEF IInv
<1> QED
  BY <1>2, <1>5, <1>12, <1>13, <1>14 DEF Tree!Rename, Tree!Did, Tree!Front, Parent, Front

\* mkdir, if the process outlives it.
LEMMA MkdirIsMakeFolder ==
  ASSUME IInv, NEW p \in Paths, CreateDirectory(p), alive'
  PROVE  Tree!MakeFolder(p)
<1>1. TypeOK
  BY DEF IInv
<1>2. /\ UNCHANGED files /\ alive /\ req' = [op |-> "mkdir", path |-> p, to |-> p, size |-> 0]
      /\ ~FileExists(p) /\ ~DirectoryExists(p) /\ DirectoryExists(Parent(p))
  BY ParentOfTarget DEF CreateDirectory, MkdirRequested, Handle, Resolves, IInv
<1>3. TreeFile' = TreeFile /\ TreeFolder' = TreeFolder \cup {p}
  <2>1. TreeFile = View(files) /\ TreeFile' = View(files')
    BY <1>2, TreeIsView, TreeIsViewNext
  <2>2. TreeFolder = {dirs[i].path : i \in DOMAIN dirs} /\ TreeFolder' = {dirs'[i].path : i \in DOMAIN dirs'}
    BY <1>2, TreeIsView, TreeIsViewNext
  <2>3. /\ DOMAIN dirs' = DOMAIN dirs \cup {Len(dirs) + 1}
        /\ \A i \in DOMAIN dirs : dirs'[i].path = dirs[i].path
        /\ dirs'[Len(dirs) + 1].path = p
    <3>1. dirs'[Len(dirs) + 1] = [path |-> p, sub |-> {}]
      BY <1>1, AddedDirectory
    <3>2. dirs'[Len(dirs) + 1].path = p
      BY <3>1
    <3>3. /\ DOMAIN dirs' = DOMAIN dirs \cup {Len(dirs) + 1}
          /\ \A i \in DOMAIN dirs : dirs'[i].path = dirs[i].path
      BY <1>1, AddedDirectory
    <3> QED
      BY <3>2, <3>3
  <2> QED
    BY <1>2, <2>1, <2>2, <2>3
<1>4. p \notin DOMAIN TreeFile /\ p \notin TreeFolder /\ Parent(p) \in TreeFolder
  BY <1>1, <1>2, TreeHas
<1> QED
  BY <1>2, <1>3, <1>4 DEF Tree!MakeFolder, Tree!Exists, Tree!Did, Tree!Front, Parent, Front


\* chmod, chown and utimens of a file.
LEMMA AttributesAreAttributes ==
  ASSUME IInv, IInv', alive', NEW p \in AnyPath
  PROVE  /\ \A m \in Modes : SetFileMode(p, m) => p \in DOMAIN TreeFile /\ Tree!SetMode(p, m)
         /\ \A o \in Owners : ChangeOwnership(p, o) => p \in DOMAIN TreeFile /\ Tree!SetOwner(p, o)
         /\ \A t \in Times : SetAccessAndModificationTimes(p, t) =>
              p \in DOMAIN TreeFile /\ Tree!SetTimes(p, t)
<1> DEFINE f == files[FileIndex(p)]
<1>1. ASSUME NEW op, NEW size, NEW changed, ChangeFile(op, p, size, changed) PROVE FileExists(p) /\ alive
  BY <1>1 DEF ChangeFile, Handle
<1>2. ASSUME FileExists(p) PROVE f \in File /\ f.path = p
  BY <1>2, FileFound DEF IInv
<1>3. ASSUME FileExists(p), alive PROVE p \in DOMAIN TreeFile /\ TreeFile[p] = Held(f)
  BY <1>3, TreeFileAt
<1> HIDE DEF f
<1>4. ASSUME NEW m \in Modes, SetFileMode(p, m) PROVE p \in DOMAIN TreeFile /\ Tree!SetMode(p, m)
  <2> DEFINE changed == [f EXCEPT !.mode = m]
  <2>1. ChangeFile("chmod", p, 0, changed)
    BY <1>4 DEF SetFileMode, f
  <2>2. changed \in File /\ changed.path = p /\ Held(changed) = [Held(f) EXCEPT !.mode = m]
    BY <1>1, <1>2, <2>1 DEF File, Held
  <2> HIDE DEF changed
  <2>3. Tree!Change("chmod", p, 0, Held(changed))
    BY <1>1, <2>1, <2>2, ChangeIsChange
  <2> QED
    BY <1>1, <1>3, <2>1, <2>2, <2>3 DEF Tree!SetMode
<1>5. ASSUME NEW o \in Owners, ChangeOwnership(p, o) PROVE p \in DOMAIN TreeFile /\ Tree!SetOwner(p, o)
  <2> DEFINE changed == [f EXCEPT !.owner = o]
  <2>1. ChangeFile("chown", p, 0, changed)
    BY <1>5 DEF ChangeOwnership, f
  <2>2. changed \in File /\ changed.path = p /\ Held(changed) = [Held(f) EXCEPT !.owner = o]
    BY <1>1, <1>2, <2>1 DEF File, Held
  <2> HIDE DEF changed
  <2>3. Tree!Change("chown", p, 0, Held(changed))
    BY <1>1, <2>1, <2>2, ChangeIsChange
  <2> QED
    BY <1>1, <1>3, <2>1, <2>2, <2>3 DEF Tree!SetOwner
<1>6. ASSUME NEW t \in Times, SetAccessAndModificationTimes(p, t)
      PROVE  p \in DOMAIN TreeFile /\ Tree!SetTimes(p, t)
  <2> DEFINE changed == [f EXCEPT !.times = t]
  <2>1. ChangeFile("utimens", p, 0, changed)
    BY <1>6 DEF SetAccessAndModificationTimes, f
  <2>2. changed \in File /\ changed.path = p /\ Held(changed) = [Held(f) EXCEPT !.times = t]
    BY <1>1, <1>2, <2>1 DEF File, Held
  <2> HIDE DEF changed
  <2>3. Tree!Change("utimens", p, 0, Held(changed))
    BY <1>1, <2>1, <2>2, ChangeIsChange
  <2> QED
    BY <1>1, <1>3, <2>1, <2>2, <2>3 DEF Tree!SetTimes
<1> QED
  BY <1>4, <1>5, <1>6

\* write.
LEMMA WriteIsWrite ==
  ASSUME IInv, IInv', NEW p \in Paths, NEW data \in Data, NEW offset \in 0..MaxLen, Write(p, data, offset)
  PROVE  p \in DOMAIN TreeFile /\ Tree!WriteTo(p)
<1> DEFINE f       == files[FileIndex(p)]
           written == WriteFileContent(f.content, data, offset)
           changed == [f EXCEPT !.content = written]
<1>1. FileExists(p) /\ alive /\ ChangeFile("write", p, 0, changed)
  BY DEF Write, ChangeFile, Handle
<1>2. f \in File /\ f.path = p
  BY <1>1, FileFound DEF IInv
<1>3. p \in DOMAIN TreeFile /\ TreeFile[p] = Held(f)
  BY <1>1, TreeFileAt
<1> HIDE DEF f
<1>4. written \in Seq(Byte)
  <2>1. f.content \in Seq(Byte) /\ data \in Seq(Byte) /\ offset \in Nat
    BY <1>2, ContentAssumption, BoundsAssumption DEF File
  <2> QED
    BY <2>1, WriteFileContentProperties
<1> HIDE DEF written
<1>5. /\ changed \in File /\ changed.path = p
      /\ Held(changed) = [Held(f) EXCEPT !.content = written] /\ Held(changed).content = written
  BY <1>2, <1>4 DEF File, Held
<1> HIDE DEF changed
<1>6. Tree!Change("write", p, 0, Held(changed))
  BY <1>1, <1>5, ChangeIsChange
<1>7. TreeFile' = [TreeFile EXCEPT ![p] = Held(changed)]
  BY <1>6 DEF Tree!Change
<1>8. p \in DOMAIN TreeFile' /\ TreeFile'[p].content = written
  BY <1>3, <1>5, <1>7
<1> QED
  BY <1>3, <1>4, <1>5, <1>6, <1>8 DEF Tree!WriteTo

\* truncate: substr cuts to the length asked for, or leaves all there is.
LEMMA TruncateIsCut ==
  ASSUME IInv, IInv', NEW p \in Paths, NEW new_length \in 0..MaxLen, Truncate(p, new_length)
  PROVE  p \in DOMAIN TreeFile /\ (Tree!Cut(p) \/ NotCarriedOut)
<1> DEFINE f       == files[FileIndex(p)]
           cut     == TruncateFile(f.content, new_length)
           changed == [f EXCEPT !.content = cut]
<1>1. /\ FileExists(p) /\ alive /\ req' = [op |-> "truncate", path |-> p, to |-> p, size |-> new_length]
      /\ ChangeFile("truncate", p, new_length, [f EXCEPT !.content = TruncateFile(@, new_length)])
  BY DEF Truncate, ChangeFile, Handle
<1>2. f \in File /\ f.path = p
  BY <1>1, FileFound DEF IInv
<1>3. p \in DOMAIN TreeFile /\ TreeFile[p] = Held(f)
  BY <1>1, TreeFileAt
<1> HIDE DEF f
<1>4. Len(f.content) \in Nat /\ new_length \in Nat /\ f.content \in Seq(Byte)
  BY <1>2, BoundsAssumption, LenProperties DEF File
<1>5. cut \in Seq(Byte) /\ cut = SubSeq(f.content, 1, Min({new_length, Len(f.content)}))
  BY <1>4, TruncateFileProperties DEF TruncateFile
<1>6. ChangeFile("truncate", p, new_length, changed)
  BY <1>1, <1>2 DEF File
<1> HIDE DEF cut
<1>7. /\ changed \in File /\ changed.path = p
      /\ Held(changed) = [Held(f) EXCEPT !.content = cut]
      /\ Held(f).content = f.content
  <2>1. cut \in Seq(Byte)
    BY <1>5
  <2>2. Held(f).content = f.content
    BY DEF Held
  <2> QED
    BY <1>2, <2>1, <2>2 DEF File, Held
<1> HIDE DEF changed
<1>8. Tree!Change("truncate", p, new_length, Held(changed))
  BY <1>1, <1>6, <1>7, ChangeIsChange
<1>9. CASE new_length <= Len(f.content)
  <2>1. Min({new_length, Len(f.content)}) = new_length
    BY <1>4, <1>9, MinOfTwo
  <2>2. Tree!PosixTruncate(f.content, new_length) = cut
    <3>1. ~(new_length > Len(f.content))
      BY <1>4, <1>9
    <3>2. Tree!PaddedTo(f.content, new_length) = f.content
      BY <3>1, Zenon DEF Tree!PaddedTo
    <3>3. cut = SubSeq(f.content, 1, new_length)
      BY <1>5, <2>1
    <3> QED
      BY <3>2, <3>3, Zenon DEF Tree!PosixTruncate
  <2>3. [TreeFile[p] EXCEPT !.content = Tree!PosixTruncate(@, new_length)] = Held(changed)
    BY <1>3, <1>7, <2>2 DEF Held
  <2>4. req'.size = new_length
    BY <1>1
  <2> QED
    BY <1>3, <1>8, <2>3, <2>4 DEF Tree!Cut
<1>10. CASE new_length > Len(f.content)
  <2>1. Min({new_length, Len(f.content)}) = Len(f.content)
    BY <1>4, <1>10, MinOfTwo
  <2>2. cut = f.content
    BY <1>4, <1>5, <2>1
  <2>3. Held(changed) = TreeFile[p]
    BY <1>3, <1>7, <2>2 DEF Held
  <2>4. TreeFile = [x \in DOMAIN TreeFile |-> TreeFile[x]]
    BY <1>1, TreeIsView DEF View
  <2>5. TreeFile' = TreeFile /\ TreeFolder' = TreeFolder /\ alive' = alive
    BY <1>8, <2>3, <2>4 DEF Tree!Change
  <2>6. req'.op = "truncate" /\ req'.size > Len(TreeFile[req'.path].content)
    BY <1>1, <1>3, <1>7, <1>10
  <2> QED
    BY <1>3, <2>5, <2>6 DEF NotCarriedOut
<1> QED
  BY <1>4, <1>9, <1>10

\* One step below per request.
LEMMA TreeStep == IInv /\ IInv' /\ [Next]_vars => [Tree!Next \/ NotCarriedOut]_(Tree!vars)
<1> SUFFICES ASSUME IInv, IInv', [Next]_vars PROVE [Tree!Next \/ NotCarriedOut]_(Tree!vars)
  OBVIOUS
<1> DEFINE Goal == [Tree!Next \/ NotCarriedOut]_(Tree!vars)
<1>1. alive' \in BOOLEAN /\ TypeOK
  BY DEF IInv, TypeOK
<1>2. ASSUME alive, ~alive', req'.op # "mount" PROVE Goal
  BY <1>1, <1>2, EndIsCrash DEF Tree!Next
<1>3. ASSUME UNCHANGED <<files, dirs, alive>> PROVE TreeFile' = TreeFile /\ TreeFolder' = TreeFolder
  BY <1>3, TreeIsView, TreeIsViewNext
<1>4. CASE UNCHANGED vars
  BY <1>3, <1>4 DEF vars, Tree!vars
<1>5. CASE Remount
  <2>1. Init'
    BY <1>5 DEF Remount, Init
  <2>2. (Init => Tree!Init)'
    BY MountedTree, PTL
  <2>3. Tree!Mount
    BY <2>1, <2>2 DEF Tree!Mount, Tree!Init
  <2> QED
    BY <2>3 DEF Tree!Next
<1>6. ASSUME NEW p \in AnyPath, NothingMade(p) \/ NothingDone(p) PROVE Goal
  <2>1. UNCHANGED <<files, dirs, alive>> /\ alive /\ req' = [op |-> "none", path |-> <<>>, to |-> <<>>, size |-> 0]
    BY <1>6 DEF NothingMade, NothingDone, Handle, Root
  <2>2. Tree!Answer
    BY <1>3, <2>1 DEF Tree!Answer, Tree!Did
  <2> QED
    BY <2>2 DEF Tree!Next
<1>7. ASSUME NEW p \in Paths, NEW m \in Modes, NEW o \in Owners, NEW t \in Times, CreateFile(p, m, o, t)
      PROVE  Goal
  <2>1. Tree!Create(p, m, o, t)
    BY <1>7, CreateIsCreate
  <2> QED
    BY <2>1 DEF Tree!Next
<1>8. ASSUME NEW p \in Paths, RemoveFile(p) PROVE Goal
  <2>1. Tree!Unlink(p)
    BY <1>8, RemoveIsUnlink
  <2> QED
    BY <2>1 DEF Tree!Next
<1>9. ASSUME NEW p \in Paths, CreateDirectory(p) PROVE Goal
  <2>1. alive /\ req'.op = "mkdir"
    BY <1>9 DEF CreateDirectory, MkdirRequested, Handle
  <2>2. CASE alive'
    <3>1. Tree!MakeFolder(p)
      BY <1>9, <2>2, MkdirIsMakeFolder
    <3> QED
      BY <3>1 DEF Tree!Next
  <2> QED
    BY <1>2, <2>1, <2>2
<1>10. ASSUME NEW p \in Paths, RemoveDirectory(p) PROVE Goal
  <2>1. UNCHANGED <<files, dirs, alive>> /\ req'.op = "rmdir"
    BY <1>10 DEF RemoveDirectory, RmdirRequested, Handle
  <2>2. NotCarriedOut
    BY <1>3, <2>1 DEF NotCarriedOut
  <2> QED
    BY <2>2
<1>11. ASSUME NEW p \in Paths, NEW q \in Paths, RenameFile(p, q) PROVE Goal
  <2>1. alive /\ req'.op = "rename"
    BY <1>11 DEF RenameFile, RenameRequested, Handle
  <2>2. CASE alive'
    <3>1. Tree!Rename(p, q)
      BY <1>11, <2>2, RenameIsRename
    <3> QED
      BY <3>1 DEF Tree!Next
  <2> QED
    BY <1>2, <2>1, <2>2
<1>12. ASSUME NEW p \in AnyPath,
              \/ \E m \in Modes : SetFileMode(p, m)
              \/ \E o \in Owners : ChangeOwnership(p, o)
              \/ \E t \in Times : SetAccessAndModificationTimes(p, t)
       PROVE  Goal
  <2>1. alive /\ req'.op # "mount"
    <3>1. ASSUME NEW op \in {"chmod", "chown", "utimens"}, NEW size, NEW changed, ChangeFile(op, p, size, changed)
          PROVE  alive /\ req'.op # "mount"
      BY <3>1 DEF ChangeFile, Handle
    <3> QED
      BY <1>12, <3>1 DEF SetFileMode, ChangeOwnership, SetAccessAndModificationTimes
  <2>2. CASE alive'
    <3>1. \/ \E m \in Modes : p \in DOMAIN TreeFile /\ Tree!SetMode(p, m)
          \/ \E o \in Owners : p \in DOMAIN TreeFile /\ Tree!SetOwner(p, o)
          \/ \E t \in Times : p \in DOMAIN TreeFile /\ Tree!SetTimes(p, t)
      BY <1>12, <2>2, AttributesAreAttributes
    <3> QED
      BY <3>1 DEF Tree!Next
  <2> QED
    BY <1>2, <2>1, <2>2
<1>13. ASSUME NEW p \in Paths, NEW data \in Data, NEW offset \in 0..MaxLen, Write(p, data, offset)
       PROVE  Goal
  <2>1. p \in DOMAIN TreeFile /\ Tree!WriteTo(p)
    BY <1>13, WriteIsWrite
  <2> QED
    BY <2>1 DEF Tree!Next
<1>14. ASSUME NEW p \in Paths, NEW new_length \in 0..MaxLen, Truncate(p, new_length)
       PROVE  Goal
  <2>1. p \in DOMAIN TreeFile /\ (Tree!Cut(p) \/ NotCarriedOut)
    BY <1>14, TruncateIsCut
  <2> QED
    BY <2>1 DEF Tree!Next
<1>15. Paths \subseteq AnyPath
  BY DEF AnyPath
<1> QED
  BY <1>4, <1>5, <1>6, <1>7, <1>8, <1>9, <1>10, <1>11, <1>12, <1>13, <1>14, <1>15 DEF Next

\* Every request on the RAM backend that is carried out does to the tree what its
\* name says and nothing else, however the vectors are ordered and whatever was
\* erased, relabelled and grown before; a rename carries the file along.  An rmdir
\* and a truncate beyond the end, which are not carried out, leave the tree alone.
THEOREM BackendIsTree == Spec => ImplementsTree
<1>1. IInv /\ IInv' /\ [Next]_vars => [Tree!Next \/ NotCarriedOut]_(Tree!vars)
  BY TreeStep
<1> QED
  BY MountedTree, <1>1, Consistent, PTL DEF Spec, ImplementsTree

-----------------------------------------------------------------------------
(* Listings of the top directory.                                           *)

\* What makes the files of the top directory appear: create_file and
\* rename_file give them the name their path ends with.
Named(fs) == \A i \in DOMAIN fs : Len(fs[i].path) = 1 => fs[i].name = fs[i].path

\* A change of data keeps the name.
LEMMA ChangeKeepsNames ==
  ASSUME TypeOK, Named(files), NEW op, NEW p, NEW size, NEW changed,
         FileExists(p) => changed.path = p /\ changed.name = files[FileIndex(p)].name,
         ChangeFile(op, p, size, changed)
  PROVE  Named(files')
<1>1. CASE FileExists(p)
  <2>1. files' = [files EXCEPT ![FileIndex(p)] = changed]
    BY <1>1 DEF ChangeFile, ReplaceAt
  <2>2. FileIndex(p) \in DOMAIN files /\ files[FileIndex(p)].path = p
    BY <1>1, FileFound, Domains
  <2> QED
    BY <1>1, <2>1, <2>2 DEF Named
<1>2. CASE ~FileExists(p)
  BY <1>2 DEF ChangeFile
<1> QED
  BY <1>1, <1>2

\* No request renames a file of the top directory to anything but its path.
LEMMA NamedStep == IInv /\ Named(files) /\ [Next]_vars => Named(files')
<1> SUFFICES ASSUME IInv, Named(files), [Next]_vars PROVE Named(files')
  OBVIOUS
<1>1. TypeOK /\ UniquePaths /\ files \in Seq(File)
  BY DEF IInv, TypeOK
<1>2. CASE UNCHANGED files
  BY <1>2
<1>3. CASE Remount
  BY <1>3 DEF Remount, Mounted, MountedFile, Named
<1>4. ASSUME NEW p \in Paths, NEW m \in Modes, NEW o \in Owners, NEW t \in Times, CreateFile(p, m, o, t)
      PROVE  Named(files')
  <2> DEFINE new == [path |-> p, name |-> BaseName(p), content |-> <<>>,
                     mode |-> m, owner |-> o, times |-> t]
  <2>1. new \in File /\ new.path = p /\ new.name = BaseName(p)
    BY PathTypes, EmptySeq DEF File
  <2>2. files' = Append(files, new)
    BY <1>4 DEF CreateFile
  <2> HIDE DEF new
  <2>3. /\ DOMAIN files' = 1..(Len(files) + 1)
        /\ \A i \in 1..Len(files) : files'[i] = files[i]
        /\ files'[Len(files) + 1] = new
    BY <1>1, <2>1, <2>2, AppendProperties, LenProperties
  <2>4. Len(p) = 1 => BaseName(p) = p
    <3>1. p \in Seq(STRING)
      BY PathsAssumption
    <3>2. Len(p) = 1 => p = <<p[1]>>
      BY <3>1
    <3> QED
      BY <3>2 DEF BaseName, Last
  <2>5. ASSUME NEW i \in DOMAIN files', Len(files'[i].path) = 1 PROVE files'[i].name = files'[i].path
    <3>1. CASE i = Len(files) + 1
      BY <2>1, <2>3, <2>4, <2>5, <3>1
    <3>2. CASE i # Len(files) + 1
      <4>1. i \in DOMAIN files /\ files'[i] = files[i]
        BY <1>1, <2>3, <2>5, <3>2, Domains
      <4> QED
        BY <2>5, <4>1 DEF Named
    <3> QED
      BY <3>1, <3>2
  <2> QED
    BY <2>5 DEF Named
<1>5. ASSUME NEW p PROVE Named(WithoutFile(p))
  BY <1>1, WithoutFileRest DEF Named
<1>6. ASSUME NEW p \in Paths, RemoveFile(p) PROVE Named(files')
  BY <1>5, <1>6 DEF RemoveFile, WithoutFile
<1>7. ASSUME NEW p \in Paths, NEW q \in Paths, RenameFile(p, q) PROVE Named(files')
  <2> DEFINE rest  == WithoutFile(q)
             index == IndexIn(rest, p)
  <2>1. files' = Relabelled(rest, index, q, q) /\ rest \in Seq(File) /\ Named(rest)
    BY <1>1, <1>5, <1>7, WithoutFileType DEF RenameFile
  <2> HIDE DEF rest
  <2>2. CASE index = 0
    BY <2>1, <2>2 DEF Relabelled
  <2>3. CASE index # 0
    <3>1. index \in DOMAIN rest /\ rest[index] \in File
      BY <2>1, <2>3, IndexInProperties, LenProperties, ElementOfSeq
    <3> HIDE DEF index
    <3> DEFINE entry == [rest[index] EXCEPT !.path = q, !.name = q]
    <3>2. files' = [rest EXCEPT ![index] = entry]
      BY <2>1, <2>3, <3>1 DEF Relabelled, File
    <3>3. entry.path = q /\ entry.name = q
      BY <3>1 DEF File
    <3> HIDE DEF entry
    <3> QED
      BY <2>1, <3>1, <3>2, <3>3 DEF Named
  <2> QED
    BY <2>2, <2>3
<1>8. ASSUME NEW p, \/ \E m \in Modes : SetFileMode(p, m)
                    \/ \E o \in Owners : ChangeOwnership(p, o)
                    \/ \E t \in Times : SetAccessAndModificationTimes(p, t)
                    \/ \E data \in Data, offset \in 0..MaxLen : Write(p, data, offset)
                    \/ \E new_length \in 0..MaxLen : Truncate(p, new_length)
      PROVE  Named(files')
  <2> DEFINE f == files[FileIndex(p)]
  <2>1. FileExists(p) => f \in File /\ f.path = p
    BY <1>1, FileFound
  <2>2. \E op, size, changed :
          /\ FileExists(p) => changed.path = p /\ changed.name = f.name
          /\ ChangeFile(op, p, size, changed)
    <3>1. CASE \E m \in Modes : SetFileMode(p, m)
      <4>1. PICK m \in Modes : ChangeFile("chmod", p, 0, [f EXCEPT !.mode = m])
        BY <3>1 DEF SetFileMode
      <4> QED
        BY <2>1, <4>1 DEF File
    <3>2. CASE \E o \in Owners : ChangeOwnership(p, o)
      <4>1. PICK o \in Owners : ChangeFile("chown", p, 0, [f EXCEPT !.owner = o])
        BY <3>2 DEF ChangeOwnership
      <4> QED
        BY <2>1, <4>1 DEF File
    <3>3. CASE \E t \in Times : SetAccessAndModificationTimes(p, t)
      <4>1. PICK t \in Times : ChangeFile("utimens", p, 0, [f EXCEPT !.times = t])
        BY <3>3 DEF SetAccessAndModificationTimes
      <4> QED
        BY <2>1, <4>1 DEF File
    <3>4. CASE \E data \in Data, offset \in 0..MaxLen : Write(p, data, offset)
      <4>1. PICK written : ChangeFile("write", p, 0, [f EXCEPT !.content = written])
        BY <3>4 DEF Write
      <4> QED
        BY <2>1, <4>1 DEF File
    <3>5. CASE \E new_length \in 0..MaxLen : Truncate(p, new_length)
      <4>1. PICK new_length :
              ChangeFile("truncate", p, new_length, [f EXCEPT !.content = TruncateFile(@, new_length)])
        BY <3>5 DEF Truncate
      <4> QED
        BY <2>1, <4>1 DEF File
    <3> QED
      BY <1>8, <3>1, <3>2, <3>3, <3>4, <3>5
  <2> QED
    BY <1>1, <2>2, ChangeKeepsNames
<1> QED
  BY <1>2, <1>3, <1>4, <1>6, <1>7, <1>8
     DEF Next, vars, NothingMade, NothingDone, CreateDirectory, RemoveDirectory

\* A file of the top directory is in its listing, however often it was created
\* anew, renamed into a folder and back, or replaced.
THEOREM TopFilesAreListed == Spec => []TopFilesListed
<1>1. Init => Named(files)
  BY DEF Init, Mounted, MountedFile, Named
<1>2. IInv /\ Named(files) /\ [Next]_vars => Named(files)'
  BY NamedStep DEF Named
<1>3. Named(files) => TopFilesListed
  BY DEF Named, TopFilesListed, Listing
<1> QED
  BY <1>1, <1>2, <1>3, Consistent, PTL DEF Spec

-----------------------------------------------------------------------------
(* The capacity of dirs doubles, so a directory is lost from its parent's   *)
(* listing exactly if the vector was full, at a power of two, before it.    *)

PowerOf2(n) == \E k \in 1..n : n = 2^k

Listed(ds, i) == \E j \in DOMAIN ds : ds[j].path = Parent(ds[i].path) /\ ds[i].path \in ds[j].sub

Doubling(ds, cap) == \E j \in Nat \ {0} : cap = 2^j /\ 2^(j - 1) < Len(ds) /\ Len(ds) <= cap

\* The i-th directory found i - 1 there.
LostAtPowers(ds) == \A i \in DOMAIN ds : ds[i].path # Root => (PowerOf2(i - 1) <=> ~Listed(ds, i))

\* The constructor's two directories fill a vector of two.
LEMMA MountedGrowth ==
  ASSUME NEW fs, NEW ds, NEW cap, NEW up, NEW rq, Mounted(fs, ds, cap, up, rq)
  PROVE  Doubling(ds, cap) /\ LostAtPowers(ds)
<1>1. /\ DOMAIN ds = {1, 2} /\ Len(ds) = 2 /\ cap = 2
      /\ ds[1].path = MgDir1 /\ ds[2].path = Root /\ ds[2].sub = {MgDir1}
  BY DEF Mounted
<1>2. Parent(MgDir1) = Root
  BY DEF Parent, MgDir1, Front, Root
<1>3. Doubling(ds, cap)
  <2>1. 1 \in Nat \ {0} /\ 2 = 2^1 /\ 2^(1 - 1) < 2 /\ 2 <= 2
    OBVIOUS
  <2> QED
    BY <1>1, <2>1 DEF Doubling
<1>4. ~PowerOf2(0) /\ Listed(ds, 1)
  BY <1>1, <1>2 DEF PowerOf2, Listed
<1>5. LostAtPowers(ds)
  BY <1>1, <1>4 DEF LostAtPowers
<1> QED
  BY <1>3, <1>5

\* The vector is full exactly if its size is a power of two.
LEMMA FullAtPowers ==
  ASSUME NEW ds, NEW cap, Len(ds) \in Nat, Doubling(ds, cap)
  PROVE  PowerOf2(Len(ds)) <=> Len(ds) = cap
<1>1. PICK j \in Nat \ {0} : cap = 2^j /\ 2^(j - 1) < Len(ds) /\ Len(ds) <= cap
  BY DEF Doubling
<1>2. j - 1 \in Nat /\ (j - 1) + 1 = j /\ 2^j \in Nat /\ 2^(j - 1) \in Nat
  BY PowerOfTwo
<1>3. ASSUME Len(ds) = cap PROVE PowerOf2(Len(ds))
  <2>1. j < cap
    BY <1>1, BelowItsPower
  <2>2. j \in 1..Len(ds)
    BY <1>2, <1>1, <1>3, <2>1
  <2> QED
    BY <1>1, <1>3, <2>2 DEF PowerOf2
<1>4. ASSUME PowerOf2(Len(ds)) PROVE Len(ds) = cap
  <2>1. PICK k \in 1..Len(ds) : Len(ds) = 2^k
    BY <1>4 DEF PowerOf2
  <2>2. k \in Nat
    BY <2>1
  <2>3. CASE k <= j - 1
    <3>1. 2^k <= 2^(j - 1)
      BY <1>2, <2>2, <2>3, PowersGrow
    <3> QED
      BY <1>1, <1>2, <2>1, <3>1
  <2>4. CASE j <= k
    <3>1. 2^j <= 2^k
      BY <2>2, <2>4, PowersGrow
    <3> QED
      BY <1>1, <1>2, <2>1, <3>1
  <2> QED
    BY <2>2, <2>3, <2>4
<1> QED
  BY <1>3, <1>4

\* One more directory: there was room for it, or the capacity doubles.
LEMMA DoublingStep ==
  ASSUME TypeOK, Doubling(dirs, dirCap), NEW p \in Paths, CreateDirectory(p)
  PROVE  Doubling(dirs', dirCap')
<1>1. PICK j \in Nat \ {0} : dirCap = 2^j /\ 2^(j - 1) < Len(dirs) /\ Len(dirs) <= dirCap
  BY DEF Doubling
<1>2. Len(dirs') = Len(dirs) + 1 /\ Len(dirs) \in Nat
  BY AddedDirectory, Domains
<1>3. /\ j \in Nat /\ j < 2^j /\ 2^j \in Nat /\ 2^(j - 1) \in Nat
      /\ 2^(j + 1) = 2 * 2^j
  BY PowerOfTwo, BelowItsPower
<1>4. CASE Len(dirs) = dirCap
  <2>1. dirCap' = 2^(j + 1)
    BY <1>1, <1>3, <1>4 DEF CreateDirectory
  <2>2. j + 1 \in Nat \ {0} /\ (j + 1) - 1 = j
    BY <1>1
  <2>3. 2^j < Len(dirs') /\ Len(dirs') <= dirCap'
    BY <1>1, <1>2, <1>3, <1>4, <2>1
  <2> QED
    BY <2>1, <2>2, <2>3 DEF Doubling
<1>5. CASE Len(dirs) # dirCap
  <2>1. dirCap' = dirCap
    BY <1>5 DEF CreateDirectory
  <2>2. 2^(j - 1) < Len(dirs') /\ Len(dirs') <= dirCap'
    BY <1>1, <1>2, <1>3, <1>5, <2>1
  <2> QED
    BY <1>1, <2>1, <2>2 DEF Doubling
<1> QED
  BY <1>4, <1>5

\* The new directory is entered in its parent exactly if the vector had room.
LEMMA EnteredInParent ==
  ASSUME IInv, NEW p \in Paths, CreateDirectory(p)
  PROVE  /\ Len(dirs) = dirCap => \A i \in DOMAIN dirs : dirs'[i].sub = dirs[i].sub
         /\ Len(dirs) # dirCap => \E i \in DOMAIN dirs : dirs[i].path = Parent(p) /\ p \in dirs'[i].sub
<1> DEFINE new   == [path |-> p, sub |-> {}]
           added == Append(dirs, new)
           d     == DirIndex(Parent(p))
<1>1. new \in Directory /\ dirs \in Seq(Directory) /\ Len(dirs) \in Nat /\ DOMAIN dirs = 1..Len(dirs)
  BY PathTypes, Domains DEF Directory, TypeOK, IInv
<1>2. /\ added \in Seq(Directory) /\ DOMAIN added = 1..(Len(dirs) + 1)
      /\ \A i \in 1..Len(dirs) : added[i] = dirs[i]
  BY <1>1, AppendProperties, LenProperties
<1>3. d \in DOMAIN dirs /\ dirs[d].path = Parent(p)
  <2>1. DirectoryExists(Parent(p))
    BY ParentOfTarget DEF CreateDirectory, MkdirRequested, IInv
  <2> QED
    BY <1>1, <2>1, IndexInProperties DEF DirectoryExists, DirIndex
<1>4. dirs' = IF Len(dirs) = dirCap THEN added ELSE [added EXCEPT ![d].sub = @ \cup {p}]
  BY DEF CreateDirectory
<1> HIDE DEF added, d
<1>5. CASE Len(dirs) = dirCap
  BY <1>1, <1>2, <1>4, <1>5
<1>6. CASE Len(dirs) # dirCap
  <2>1. added[d] \in Directory /\ d \in DOMAIN added
    BY <1>1, <1>2, <1>3, ElementOfSeq
  <2>2. dirs'[d].sub = added[d].sub \cup {p}
    BY <1>4, <1>6, <2>1 DEF Directory
  <2> QED
    BY <1>3, <1>6, <2>2
<1> QED
  BY <1>5, <1>6

\* A mkdir leaves every earlier directory listed or lost, and is itself lost
\* exactly if it found the vector full.
LEMMA LostStep ==
  ASSUME IInv, Doubling(dirs, dirCap), LostAtPowers(dirs), NEW p \in Paths, CreateDirectory(p)
  PROVE  LostAtPowers(dirs')
<1> DEFINE last == Len(dirs) + 1
<1>1. /\ Len(dirs) \in Nat /\ DOMAIN dirs = 1..Len(dirs) /\ last \notin DOMAIN dirs
      /\ last - 1 = Len(dirs)
  BY Domains DEF IInv
<1>2. /\ DOMAIN dirs' = DOMAIN dirs \cup {last}
      /\ \A i \in DOMAIN dirs :
           /\ dirs'[i].path = dirs[i].path
           /\ dirs'[i].sub = dirs[i].sub \/ dirs'[i].sub = dirs[i].sub \cup {p}
      /\ dirs'[last].path = p /\ dirs'[last].sub = {}
  <2>1. dirs'[last] = [path |-> p, sub |-> {}]
    BY AddedDirectory DEF IInv
  <2>2. dirs'[last].path = p /\ dirs'[last].sub = {}
    BY <2>1
  <2>3. /\ DOMAIN dirs' = DOMAIN dirs \cup {last}
        /\ \A i \in DOMAIN dirs :
             /\ dirs'[i].path = dirs[i].path
             /\ \/ dirs'[i].sub = dirs[i].sub
                \/ i = DirIndex(Parent(p)) /\ dirs'[i].sub = dirs[i].sub \cup {p}
    BY AddedDirectory DEF IInv
  <2> QED
    BY <2>2, <2>3
<1>3. /\ \A i \in DOMAIN dirs : dirs[i].path # p
      /\ \A i \in DOMAIN dirs : p \notin dirs[i].sub
  <2>1. ~DirectoryExists(p)
    BY DEF CreateDirectory, MkdirRequested, Resolves
  <2>2. \A i \in DOMAIN dirs : dirs[i].path # p
    BY <2>1, DirectoryExistsMeans, Domains DEF IInv
  <2>3. \A i \in DOMAIN dirs : p \notin dirs[i].sub
    BY <2>1 DEF IInv, SubdirectoriesReal
  <2> QED
    BY <2>2, <2>3
<1>4. /\ Len(dirs) = dirCap => \A i \in DOMAIN dirs : dirs'[i].sub = dirs[i].sub
      /\ Len(dirs) # dirCap => \E i \in DOMAIN dirs : dirs[i].path = Parent(p) /\ p \in dirs'[i].sub
  BY EnteredInParent
<1>5. PowerOf2(Len(dirs)) <=> Len(dirs) = dirCap
  BY <1>1, FullAtPowers
<1> HIDE DEF last
<1>6. \A i \in DOMAIN dirs : Listed(dirs', i) <=> Listed(dirs, i)
  BY <1>2, <1>3 DEF Listed
<1>7. Listed(dirs', last) <=> Len(dirs) # dirCap
  BY <1>2, <1>3, <1>4 DEF Listed
<1> QED
  BY <1>1, <1>2, <1>5, <1>6, <1>7 DEF LostAtPowers

\* For every number of directories, each is in its parent's listing for good, but
\* at most those that had two, four, eight, ... before them.
THEOREM OnlyPowersOfTwoLost == Spec => []OnlyGrowthLosesEntries
<1> DEFINE Growth == Doubling(dirs, dirCap) /\ LostAtPowers(dirs)
<1>1. Init => Growth
  BY MountedGrowth DEF Init
<1>2. IInv /\ Growth /\ [Next]_vars => Growth'
  <2> SUFFICES ASSUME IInv, Growth, [Next]_vars
               PROVE  Doubling(dirs', dirCap') /\ LostAtPowers(dirs')
    BY DEF Doubling, LostAtPowers, Listed
  <2>1. CASE Remount
    BY <2>1, MountedGrowth DEF Remount
  <2>2. ASSUME NEW p \in Paths, CreateDirectory(p)
        PROVE  Doubling(dirs', dirCap') /\ LostAtPowers(dirs')
    BY <2>2, DoublingStep, LostStep DEF IInv
  <2>3. CASE UNCHANGED <<dirs, dirCap>>
    BY <2>3
  <2> QED
    BY <2>1, <2>2, <2>3 DEF Next, vars, NothingMade, NothingDone, CreateFile, RemoveFile,
         RemoveDirectory, RenameFile, RenameRequested, SetFileMode, ChangeOwnership,
         SetAccessAndModificationTimes, Write, Truncate, ChangeFile
<1>3. IInv /\ Growth => OnlyGrowthLosesEntries
  <2> SUFFICES ASSUME IInv, LostAtPowers(dirs), NEW i \in DOMAIN dirs, dirs[i].path # Root,
                      dirs[i].path \notin dirs[DirIndex(Parent(dirs[i].path))].sub
               PROVE  \E k \in 1..Len(dirs) : i = 2^k + 1
    BY DEF OnlyGrowthLosesEntries
  <2>1. DOMAIN dirs = 1..Len(dirs) /\ Len(dirs) \in Nat /\ dirs \in Seq(Directory)
    BY Domains DEF IInv, TypeOK
  <2> DEFINE d == DirIndex(Parent(dirs[i].path))
  <2>2. d \in DOMAIN dirs /\ dirs[d].path = Parent(dirs[i].path)
    BY <2>1, IndexInProperties DEF IInv, ParentsPresent, DirectoryExists, DirIndex
  <2> HIDE DEF d
  <2>3. Listed(dirs, i) <=> dirs[i].path \in dirs[d].sub
    BY <2>2 DEF Listed, IInv, UniquePaths
  <2>4. PowerOf2(i - 1)
    BY <2>3 DEF LostAtPowers, d
  <2>5. PICK k \in 1..(i - 1) : i - 1 = 2^k
    BY <2>4 DEF PowerOf2
  <2>6. k \in 1..Len(dirs) /\ i = 2^k + 1
    BY <2>1, <2>5
  <2> QED
    BY <2>6
<1> QED
  BY <1>1, <1>2, <1>3, Consistent, PTL DEF Spec
=============================================================================
