------------------------------ MODULE FileTree ------------------------------
(***************************************************************************)
(* What a storage backend promises its clients (storage_backend.h): a tree *)
(* of named files and folders.  A request does what it says to the paths   *)
(* it names and changes nothing at any other: a file keeps its bytes and   *)
(* attributes until a request that names it.  A crash or an unmount loses  *)
(* everything.  `last` is the request answered last, so that an            *)
(* implementation cannot pass off a lost rename as an unlink, or a         *)
(* truncate as another one.                                                *)
(***************************************************************************)
EXTENDS RamContent

CONSTANTS Paths, Modes, Owners, Times, FirstFiles, FirstFolders

VARIABLES
  file,    \* function from the paths of the existing files to their data
  folder,  \* the set of paths of the existing folders
  up,      \* the file system is mounted
  last     \* the last request, its paths, and the length a truncate asks for

vars == <<file, folder, up, last>>

Nothing == [p \in {} |-> <<>>]

Exists(p) == p \in DOMAIN file \/ p \in folder

Did(op, p, q, size) == last' = [op |-> op, path |-> p, to |-> q, size |-> size]

Fresh ==
  /\ file \in FirstFiles /\ folder = FirstFolders /\ up = TRUE
  /\ last = [op |-> "mount", path |-> <<>>, to |-> <<>>, size |-> 0]

Init  == Fresh
Mount == Fresh'

\* A request for something else leaves everything as it is.
Answer ==
  /\ up
  /\ Did("none", <<>>, <<>>, 0)
  /\ UNCHANGED <<file, folder, up>>

\* A request may be the end of the process.
Crash ==
  /\ up
  /\ file' = Nothing /\ folder' = {} /\ up' = FALSE
  /\ last'.op # "mount"

Create(p, m, o, t) ==
  /\ up /\ ~Exists(p) /\ Front(p) \in folder
  /\ file' = [x \in DOMAIN file \cup {p} |->
                IF x = p THEN [content |-> <<>>, mode |-> m, owner |-> o, times |-> t] ELSE file[x]]
  /\ Did("create", p, p, 0)
  /\ UNCHANGED <<folder, up>>

Unlink(p) ==
  /\ up /\ p \in DOMAIN file
  /\ file' = [x \in DOMAIN file \ {p} |-> file[x]]
  /\ Did("unlink", p, p, 0)
  /\ UNCHANGED <<folder, up>>

MakeFolder(p) ==
  /\ up /\ ~Exists(p) /\ Front(p) \in folder
  /\ folder' = folder \cup {p}
  /\ Did("mkdir", p, p, 0)
  /\ UNCHANGED <<file, up>>

\* Only an empty folder goes.
RemoveFolder(p) ==
  /\ up /\ p \in folder
  /\ \A x \in DOMAIN file \cup folder : x # p => Front(x) # p
  /\ folder' = folder \ {p}
  /\ Did("rmdir", p, p, 0)
  /\ UNCHANGED <<file, up>>

\* The file at p, whole, becomes the file at q; a file there is replaced.
Rename(p, q) ==
  /\ up /\ p \in DOMAIN file /\ p # q /\ q \notin folder /\ Front(q) \in folder
  /\ file' = [x \in (DOMAIN file \ {p}) \cup {q} |-> IF x = q THEN file[p] ELSE file[x]]
  /\ Did("rename", p, q, 0)
  /\ UNCHANGED <<folder, up>>

\* One field of one file changes.
Change(op, p, size, data) ==
  /\ up /\ p \in DOMAIN file
  /\ file' = [file EXCEPT ![p] = data]
  /\ Did(op, p, p, size)
  /\ UNCHANGED <<folder, up>>

SetMode(p, m)  == Change("chmod", p, 0, [file[p] EXCEPT !.mode = m])
SetOwner(p, o) == Change("chown", p, 0, [file[p] EXCEPT !.owner = o])
SetTimes(p, t) == Change("utimens", p, 0, [file[p] EXCEPT !.times = t])

\* Which bytes a write leaves is for each backend to say.
WriteTo(p) ==
  /\ p \in DOMAIN file'
  /\ file'[p].content \in Seq(Byte)
  /\ Change("write", p, 0, [file[p] EXCEPT !.content = file'[p].content])

\* truncate(2): the file gets the length asked for, cut or padded with NUL.
Cut(p) ==
  /\ p \in DOMAIN file
  /\ Change("truncate", p, last'.size,
            [file[p] EXCEPT !.content = PosixTruncate(@, last'.size)])

Next ==
  \/ Mount \/ Crash \/ Answer
  \/ \E p \in Paths, m \in Modes, o \in Owners, t \in Times : Create(p, m, o, t)
  \/ \E p \in Paths : Unlink(p) \/ MakeFolder(p) \/ RemoveFolder(p)
  \/ \E p, q \in Paths : Rename(p, q)
  \/ \E p \in DOMAIN file :
       \/ \E m \in Modes : SetMode(p, m)
       \/ \E o \in Owners : SetOwner(p, o)
       \/ \E t \in Times : SetTimes(p, t)
       \/ WriteTo(p) \/ Cut(p)

Spec == Init /\ [][Next]_vars
=============================================================================
