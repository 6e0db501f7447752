----------------------------- MODULE RamBackend -----------------------------
(***************************************************************************)
(* The in-RAM storage backend (class filesystem_data) behind the FUSE      *)
(* handlers of mg_operations.h, one request at a time.                     *)
(*                                                                         *)
(* A path is the sequence of its components, so "/" is <<>> and a file's   *)
(* `_name` is a sequence of length 1 unless it contains a slash.           *)
(* A handler answers every request with success; what it does, the         *)
(* assertions it may fail and the undefined behaviour it may run into are  *)
(* the actions below.  Requests reach a handler only after the kernel has  *)
(* looked their path up, which is a call of mg_getattr.                    *)
(***************************************************************************)
EXTENDS RamContent

CONSTANTS
  Paths,        \* the paths clients use, all but "/"
  Modes,        \* values of a file's mode
  Owners,       \* values of a file's user and group
  Times,        \* values of a file's access and modification time
  MountMode,    \* S_IFREG | 0777, the mode of /mg_file_1 after mounting
  MountOwner,   \* the user and group of the mounting process
  Data,         \* the buffers clients write
  InitContent,  \* the content of /mg_file_1 after mounting
  MaxFiles,     \* bound: most files at a time
  MaxDirs,      \* bound: most directories at a time
  MaxLen        \* bound: longest content

Root     == <<>>
MgFile1  == <<"mg_file_1">>
MgDir1   == <<"mg_dir_1">>

ASSUME PathsAssumption ==
  /\ MgFile1 \in Paths
  /\ MgDir1 \in Paths
  /\ \A p \in Paths : p \in Seq(STRING) /\ p # Root
  /\ \A p \in Paths : Front(p) \in Paths \cup {Root}
ASSUME AttributesAssumption == MountMode \in Modes /\ MountOwner \in Owners
ASSUME ContentAssumption ==
  /\ InitContent \in Seq(Byte)
  /\ \A d \in Data : d \in Seq(Byte)
ASSUME BoundsAssumption == MaxFiles \in Nat /\ MaxDirs \in Nat /\ MaxLen \in Nat

VARIABLES
  files,   \* filesystem_data::_the_files, a vector of simple_file
  dirs,    \* filesystem_data::_the_directories; of each directory its path and
           \* `sub`, the paths of _contained_directories
  dirCap,  \* the capacity of the vector dirs
  alive,   \* FALSE once an assertion or a bad memory access ended the process
  req      \* the last request a handler ran: its operation, its paths, and the
           \* length a truncate asks for

vars == <<files, dirs, dirCap, alive, req>>

AnyPath == Paths \cup {Root}

File == [path : Paths, name : Seq(STRING), content : Seq(Byte),
         mode : Modes, owner : Owners, times : Times]
Directory == [path : AnyPath, sub : SUBSET Paths]

FileOps == {"chmod", "chown", "utimens", "write", "truncate"}
Request == [op : {"mount", "none", "create", "unlink", "rename", "mkdir", "rmdir"} \cup FileOps,
            path : AnyPath, to : AnyPath, size : Nat]

-----------------------------------------------------------------------------
(* Lookups.  Index 0 stands for the code's -1.                              *)

\* The first vector element with this path, as both linear searches find it.
IndexIn(vector, p) ==
  LET hits == {i \in 1..Len(vector) : vector[i].path = p}
  IN  IF hits = {} THEN 0 ELSE Min(hits)

FileIndex(p)       == IndexIn(files, p)
DirIndex(p)        == IndexIn(dirs, p)
FileExists(p)      == FileIndex(p) # 0
DirectoryExists(p) == DirIndex(p) # 0

\* mg_getattr answers 0 (and not -ENOENT); "/" is not looked up.
Resolves(p) == p = Root \/ FileExists(p) \/ DirectoryExists(p)

\* The kernel takes p for a directory: the mode mg_getattr filled in says so.
\* A file hides a directory of the same path.
SeenAsDirectory(p) == p = Root \/ (~FileExists(p) /\ DirectoryExists(p))

Parent(p) == Front(p)
BaseName(p) == <<Last(p)>>

\* The names mg_readdir hands to the filler: the names of the contained
\* directories, then those of all files, wherever they are.
Listing(d) ==
  {BaseName(s) : s \in dirs[DirIndex(d)].sub} \cup {files[i].name : i \in DOMAIN files}

-----------------------------------------------------------------------------
(* Mounting.                                                                *)

MountedFile(t) ==
  [path |-> MgFile1, name |-> MgFile1, content |-> InitContent,
   mode |-> MountMode, owner |-> MountOwner, times |-> t]

\* The constructor pushes mg_dir_1, then the root that contains it, into an
\* empty vector, which leaves a capacity of two.
Mounted(fs, ds, cap, up, rq) ==
  /\ \E t \in Times : fs = <<MountedFile(t)>>
  /\ ds = <<[path |-> MgDir1, sub |-> {}], [path |-> Root, sub |-> {MgDir1}]>>
  /\ cap = 2
  /\ up = TRUE
  /\ rq = [op |-> "mount", path |-> Root, to |-> Root, size |-> 0]

Init == Mounted(files, dirs, dirCap, alive, req)

\* Unmounting, or mounting again after a crash: a new process, a new
\* filesystem_data, nothing kept.
Remount == Mounted(files', dirs', dirCap', alive', req')

-----------------------------------------------------------------------------
(* Handlers.                                                                *)

Handle(op, p, q, size) == alive /\ req' = [op |-> op, path |-> p, to |-> q, size |-> size]

CreateFile(p, m, o, t) ==
  /\ Handle("create", p, p, 0)
  /\ ~Resolves(p)
  /\ SeenAsDirectory(Parent(p))
  /\ Len(files) < MaxFiles
  /\ files' = Append(files, [path |-> p, name |-> BaseName(p), content |-> <<>>,
                             mode |-> m, owner |-> o, times |-> t])
  /\ alive' = DirectoryExists(Parent(p))      \* assert(dir_index >= 0)
  /\ UNCHANGED <<dirs, dirCap>>

\* Mutated form: the entry is only marked, not erased.
MarksRemoved(p) ==
  /\ Handle("unlink", p, p, 0)
  /\ FileExists(p)
  /\ files' = [files EXCEPT ![FileIndex(p)].path = Root]
  /\ UNCHANGED <<dirs, dirCap, alive>>

RemoveFile(p) ==
  /\ Handle("unlink", p, p, 0)
  /\ FileExists(p)
  /\ files' = RemoveAt(files, FileIndex(p))
  /\ UNCHANGED <<dirs, dirCap, alive>>

MkdirRequested(p) ==
  /\ Handle("mkdir", p, p, 0)
  /\ ~Resolves(p)
  /\ SeenAsDirectory(Parent(p))
  /\ Len(dirs) < MaxDirs

\* Mutated forms: the new directory is entered in the directory created before
\* it; the vector grows by one slot at a time.
EntersInNewest(p) ==
  /\ MkdirRequested(p)
  /\ dirs' = Append([dirs EXCEPT ![Len(dirs)].sub = @ \cup {p}], [path |-> p, sub |-> {}])
  /\ UNCHANGED <<files, dirCap, alive>>

GrowsByOne(p) ==
  /\ MkdirRequested(p)
  /\ dirCap' = Len(dirs) + 1
  /\ dirs' = Append(dirs, [path |-> p, sub |-> {}])
  /\ UNCHANGED <<files, alive>>

\* The handler looks the parent up before the push_back and uses the pointer
\* after it.  If the push_back reallocates, the entry goes into the freed old
\* copy of the parent: it is lost, or the write ends the process.
CreateDirectory(p) ==
  LET grows == Len(dirs) = dirCap
      added == Append(dirs, [path |-> p, sub |-> {}])
  IN  /\ MkdirRequested(p)
      /\ dirCap' = IF grows THEN 2 * dirCap ELSE dirCap
      /\ dirs' = IF grows THEN added
                 ELSE [added EXCEPT ![DirIndex(Parent(p))].sub = @ \cup {p}]
      /\ alive' \in IF grows THEN BOOLEAN ELSE {TRUE}
      /\ UNCHANGED files

RmdirRequested(p) ==
  /\ Handle("rmdir", p, p, 0)
  /\ p # Root
  /\ SeenAsDirectory(p)

\* Mutated form: the directory goes, empty or not.
RemovesNonEmpty(p) ==
  /\ RmdirRequested(p)
  /\ dirs' = RemoveAt(dirs, DirIndex(p))
  /\ UNCHANGED <<files, dirCap, alive>>

\* "rmdir not implemented yet", answered with success.
RemoveDirectory(p) ==
  /\ RmdirRequested(p)
  /\ UNCHANGED <<files, dirs, dirCap, alive>>

\* The kernel refuses to rename a path onto or into itself, and a file and a
\* directory onto each other.
RenameRequested(p, q) ==
  /\ Handle("rename", p, q, 0)
  /\ p # Root /\ Resolves(p) /\ SeenAsDirectory(Parent(q))
  /\ ~IsPrefix(p, q) /\ ~IsPrefix(q, p)
  /\ Resolves(q) => (FileExists(p) <=> FileExists(q))
  /\ UNCHANGED <<dirs, dirCap>>

WithoutFile(p) == IF FileExists(p) THEN RemoveAt(files, FileIndex(p)) ELSE files

Relabelled(vector, index, p, n) ==
  IF index = 0 THEN vector ELSE [vector EXCEPT ![index].path = p, ![index].name = n]

\* Mutated forms: the destination stays; the name stays; the index of the
\* source is taken before the destination is removed.
KeepsDestination(p, q) ==
  /\ RenameRequested(p, q)
  /\ files' = Relabelled(files, FileIndex(p), q, q)
  /\ alive' = FileExists(p)

KeepsName(p, q) ==
  /\ RenameRequested(p, q)
  /\ files' = Relabelled(WithoutFile(q), IndexIn(WithoutFile(q), p), q, BaseName(p))
  /\ alive' = FileExists(p)

IndexesTooEarly(p, q) ==
  /\ RenameRequested(p, q)
  /\ files' = LET index == FileIndex(p)
              IN  IF index \in DOMAIN WithoutFile(q)
                    THEN Relabelled(WithoutFile(q), index, q, q) ELSE WithoutFile(q)
  /\ alive' = FileExists(p)

\* An existing file at the destination is removed first; only then is the
\* source looked up, so its index counts from what is left.  A directory has
\* no index: the assertion fails.  `_name` becomes the whole new path but for
\* its first slash.
RenameFile(p, q) ==
  LET index == IndexIn(WithoutFile(q), p)
  IN  /\ RenameRequested(p, q)
      /\ files' = Relabelled(WithoutFile(q), index, q, q)
      /\ alive' = (index # 0)                 \* assert(index >= 0)

\* Mutated form: assert(index > 0), as the trace output next to it tests.
FirstFileFails(op, p, size, changed) ==
  /\ Handle(op, p, p, size)
  /\ files' = IF FileExists(p) THEN ReplaceAt(files, FileIndex(p), changed) ELSE files
  /\ alive' = (FileIndex(p) > 1)
  /\ UNCHANGED <<dirs, dirCap>>

\* A handler that finds one file, asserts that it did, and changes it.
ChangeFile(op, p, size, changed) ==
  /\ Handle(op, p, p, size)
  /\ files' = IF FileExists(p) THEN ReplaceAt(files, FileIndex(p), changed) ELSE files
  /\ alive' = FileExists(p)                    \* assert(index >= 0)
  /\ UNCHANGED <<dirs, dirCap>>

SetFileMode(p, m) ==
  /\ Resolves(p)
  /\ ChangeFile("chmod", p, 0, [files[FileIndex(p)] EXCEPT !.mode = m])

ChangeOwnership(p, o) ==
  /\ Resolves(p)
  /\ ChangeFile("chown", p, 0, [files[FileIndex(p)] EXCEPT !.owner = o])

SetAccessAndModificationTimes(p, t) ==
  /\ Resolves(p)
  /\ ChangeFile("utimens", p, 0, [files[FileIndex(p)] EXCEPT !.times = t])

\* The kernel sends writes and truncates for regular files only.
Write(p, data, offset) ==
  /\ FileExists(p)
  /\ LET written == WriteFileContent(files[FileIndex(p)].content, data, offset)
     IN  /\ Len(written) <= MaxLen
         /\ ChangeFile("write", p, 0, [files[FileIndex(p)] EXCEPT !.content = written])

Truncate(p, new_length) ==
  /\ FileExists(p)
  /\ ChangeFile("truncate", p, new_length,
       [files[FileIndex(p)] EXCEPT !.content = TruncateFile(@, new_length)])

\* mknod (of anything but a regular file) and symlink, and open, flush, fsync,
\* release, opendir, ... are answered with success and call no backend.  They
\* leave no trace, so the request is kept without its name and path.
NothingMade(p) ==
  /\ Handle("none", Root, Root, 0)
  /\ ~Resolves(p) /\ SeenAsDirectory(Parent(p))
  /\ UNCHANGED <<files, dirs, dirCap, alive>>

NothingDone(p) ==
  /\ Handle("none", Root, Root, 0)
  /\ Resolves(p)
  /\ UNCHANGED <<files, dirs, dirCap, alive>>

-----------------------------------------------------------------------------
Next ==
  \/ Remount
  \/ \E p \in Paths : NothingMade(p)
  \/ \E p \in AnyPath : NothingDone(p)
  \/ \E p \in Paths, m \in Modes, o \in Owners, t \in Times : CreateFile(p, m, o, t)
  \/ \E p \in Paths : RemoveFile(p)
  \/ \E p \in Paths : CreateDirectory(p)
  \/ \E p \in Paths : RemoveDirectory(p)
  \/ \E p, q \in Paths : RenameFile(p, q)
  \/ \E p \in AnyPath, m \in Modes : SetFileMode(p, m)
  \/ \E p \in AnyPath, o \in Owners : ChangeOwnership(p, o)
  \/ \E p \in AnyPath, t \in Times : SetAccessAndModificationTimes(p, t)
  \/ \E p \in Paths, data \in Data, offset \in 0..MaxLen : Write(p, data, offset)
  \/ \E p \in Paths, new_length \in 0..MaxLen : Truncate(p, new_length)

Spec == Init /\ [][Next]_vars

-----------------------------------------------------------------------------
(* Properties.                                                              *)

TypeOK ==
  /\ files \in Seq(File)
  /\ dirs \in Seq(Directory)
  /\ dirCap \in Nat
  /\ alive \in BOOLEAN
  /\ req \in Request

\* Every linear search has at most one hit: no history of create, mkdir and
\* rename (which replaces its target) leaves two entries with one path, so
\* which of them "the first" is never matters.
UniquePaths ==
  /\ \A i, j \in DOMAIN files : files[i].path = files[j].path => i = j
  /\ \A i, j \in DOMAIN dirs : dirs[i].path = dirs[j].path => i = j
  /\ \A i \in DOMAIN files, j \in DOMAIN dirs : files[i].path # dirs[j].path

\* create_file's assert(dir_index >= 0) and create_directory's use of the
\* parent pointer rely on it: everything lies in a directory the vector has.
ParentsPresent ==
  /\ DirectoryExists(Root)
  /\ \A i \in DOMAIN files : DirectoryExists(Parent(files[i].path))
  /\ \A i \in DOMAIN dirs : dirs[i].path # Root => DirectoryExists(Parent(dirs[i].path))

\* The heap copies _contained_directories points to never go stale: each is
\* the entry of an existing directory, below the directory that lists it.
SubdirectoriesReal ==
  \A i \in DOMAIN dirs : \A s \in dirs[i].sub :
    DirectoryExists(s) /\ Parent(s) = dirs[i].path

\* create_directory's pointer into a vector it then grows loses an entry only
\* when the vector was full: every directory is in its parent's listing but,
\* at most, those made when a power of two (but one) were there before them.
OnlyGrowthLosesEntries ==
  \A i \in DOMAIN dirs :
    LET p == dirs[i].path IN
    p # Root /\ p \notin dirs[DirIndex(Parent(p))].sub
      => \E k \in 1..Len(dirs) : i = 2^k + 1

\* The process survives every request on files.  It can end only in a request
\* that looks a directory up among the files, or in a mkdir that grew dirs.
AbortsOnlyOnDirectories ==
  ~alive =>
    \/ req.op \in {"chmod", "chown", "utimens", "rename"} /\ SeenAsDirectory(req.path)
    \/ req.op = "mkdir" /\ dirCap = 2 * (Len(dirs) - 1)

\* A file of the top directory is found by listing it, however often it was
\* renamed there and back: create_file and rename_file agree on `_name`.
TopFilesListed ==
  \A i \in DOMAIN files : Len(files[i].path) = 1 => files[i].path \in Listing(Root)

\* The backend as the tree its clients see.
TreeFile ==
  IF ~alive THEN [p \in {} |-> <<>>]
  ELSE [p \in {files[i].path : i \in DOMAIN files} |->
          LET f == files[FileIndex(p)]
          IN  [content |-> f.content, mode |-> f.mode, owner |-> f.owner, times |-> f.times]]

TreeFolder == IF ~alive THEN {} ELSE {dirs[i].path : i \in DOMAIN dirs}

Tree == INSTANCE FileTree WITH
  file <- TreeFile, folder <- TreeFolder, up <- alive, last <- req,
  FirstFiles <- {[p \in {MgFile1} |-> [content |-> InitContent, mode |-> MountMode,
                                      owner |-> MountOwner, times |-> t]] : t \in Times},
  FirstFolders <- {MgDir1, Root}

\* Answered with success and not carried out: an rmdir ("directory deletion
\* failed" to tests/test_rmdir.py), and a truncate beyond the end of the file.
\* The tree stays as it is.
NotCarriedOut ==
  /\ \/ req'.op = "rmdir"
     \/ req'.op = "truncate" /\ req'.size > Len(TreeFile[req'.path].content)
  /\ UNCHANGED <<TreeFile, TreeFolder, alive>>

\* Every request that is carried out does to the tree what its name says and
\* nothing else: the searches, erases and index computations hit the entry of
\* the named path, a rename carries content and attributes along, a truncate
\* leaves the length asked for.  (Which bytes a write leaves is not said here:
\* see FileIO.)  The two kinds that are not carried out do nothing at all.
ImplementsTree == Tree!Init /\ [][Tree!Next \/ NotCarriedOut]_(Tree!vars)

-----------------------------------------------------------------------------
(* What the repository says and the code does not do.                       *)

\* assert(index >= 0) in set_file_mode, change_ownership, rename_file, ...:
\* no request the kernel lets through fails an assertion.
AssertionsHold == alive \/ req.op = "mkdir"

\* tests/test_mkdir.py, "directory was not created": while the process lives,
\* every directory made is in the listing of its parent.
MadeDirectoriesListed ==
  alive => \A i \in DOMAIN dirs :
    LET p == dirs[i].path IN p # Root => p \in dirs[DirIndex(Parent(p))].sub
=============================================================================
