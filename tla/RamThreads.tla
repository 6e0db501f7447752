----------------------------- MODULE RamThreads -----------------------------
(***************************************************************************)
(* The vector _the_files of the RAM backend under the worker threads of    *)
(* libfuse.  main.cpp never passes `-s`, so every request runs on a thread *)
(* of its own, and filesystem_data takes no lock: a handler looks its file *)
(* up by a linear search, one element at a time, and uses the index or the *)
(* pointer later, when another thread may have erased an element.          *)
(*                                                                         *)
(* One evaluation of _the_files[i], one erase and one assignment of a path *)
(* is one step, a push_back two; what is inside an entry, but for its      *)
(* path, is left out.  Directories are only ever added, behind the others, *)
(* so their indices stay good, and are left out too.                       *)
(***************************************************************************)
EXTENDS SequencesExt

CONSTANTS
  Threads,   \* the worker threads
  Paths,     \* the paths of files
  Layouts,   \* ways to lay them out in directories: of each path its directory
  FirstFile, \* the path of the file the constructor makes
  MaxFiles   \* bound: most files at a time

ASSUME ThreadsAssumption == Threads # {} /\ IsFiniteSet(Threads)
ASSUME PathsAssumption == FirstFile \in Paths /\ \A layout \in Layouts : Paths \subseteq DOMAIN layout
ASSUME MaxFilesAssumption == MaxFiles \in Nat \ {0}

VARIABLES
  dirOf,   \* the layout, which stays
  files,   \* _the_files, of each entry its path
  fileCap, \* the capacity of the vector: when it changes, the elements moved
  alive,   \* FALSE once the process has ended
  thread   \* of each thread the request it runs, or its last answer

vars == <<dirOf, files, fileCap, alive, thread>>

Modifiers == {"create", "unlink", "rename"}
Erasers   == {"unlink", "rename"}
Updates   == {"change", "read"}   \* "change": chmod, chown, utimens, write, truncate
DirectoryOps == Modifiers \cup {"readdir"}
Ops       == DirectoryOps \cup Updates \cup {"getattr"}

\* Places in the handlers: four searches, and five places without one.
Searches == {"exists",   \* file_exists, in mg_getattr and mg_read
             "target",   \* rename_file, for the destination
             "remove",   \* remove_file
             "find"}     \* before the file is used
Holds    == {"erase", "use", "fill"}

\* "missed": a listing without a file that was there all the time; "lost": a
\* create whose file is not in the vector.
Failures == {"unfilled", "assert", "crash", "missed", "lost"}
Replies  == {"none", "ok", "ENOENT"} \cup Failures

Thread == [op : Ops \cup {"none"}, path : Paths, to : Paths,
           pc : Searches \cup Holds \cup {"push", "store", "list", "idle"},
           i : 1..(MaxFiles + 1),     \* the next element to compare or list
           index : 0..(MaxFiles + 1), \* what the last search returned, or
                                      \* where the push_back puts its element
           cap : Nat,                 \* the buffer the pointer of "fill" is into
           there : BOOLEAN,           \* history: the file existed at the start
           due : SUBSET Paths,        \* history: what the listing still has to show
           clean : BOOLEAN,           \* history: nothing disturbed the request
           reply : Replies]

Idle == [op |-> "none", path |-> FirstFile, to |-> FirstFile, pc |-> "idle",
         i |-> 1, index |-> 0, cap |-> 0, there |-> FALSE,
         due |-> {}, clean |-> TRUE, reply |-> "none"]

Init ==
  /\ dirOf \in Layouts
  /\ files = <<FirstFile>>
  /\ fileCap = 1
  /\ alive = TRUE
  /\ thread = [t \in Threads |-> Idle]

-----------------------------------------------------------------------------
(* What the kernel and libfuse keep apart.                                  *)

Busy(t)  == thread[t].pc # "idle"
\* A listing is of the directory its path lies in and names no file.
Names(t) == IF thread[t].op = "readdir" THEN {} ELSE {thread[t].path, thread[t].to}
Dirs(t)  == {dirOf[thread[t].path], dirOf[thread[t].to]}

\* An unlink or rename has its paths to itself (libfuse's path locks), and two
\* requests that change one directory, or one that changes and one that lists
\* it, do not overlap (the kernel's lock on it).
MayRun(op, p, q) ==
  \A s \in Threads : Busy(s) =>
    /\ {op, thread[s].op} \cap Erasers # {} =>
         op = "readdir" \/ Names(s) \cap {p, q} = {}
    /\ {op, thread[s].op} \subseteq DirectoryOps /\ {op, thread[s].op} # {"readdir"} =>
         Dirs(s) \cap {dirOf[p], dirOf[q]} = {}

\* The kernel's own lookup comes first: only a create is for a missing file.
LookedUp(op, p, q) ==
  CASE op = "create"  -> /\ p \notin ToSet(files)
                         /\ Len(files) + Quantify(Threads, LAMBDA s : thread[s].op = "create") < MaxFiles
    [] op = "getattr" -> TRUE
    [] op = "readdir" -> p = CHOOSE n \in Paths : dirOf[n] = dirOf[p]
    [] OTHER          -> p \in ToSet(files)

FirstPlace(op) ==
  CASE op = "create" -> "push" [] op = "unlink" -> "remove" [] op = "rename" -> "target"
    [] op = "change" -> "find" [] op = "readdir" -> "list" [] OTHER -> "exists"

Start(t, op, p, q) ==
  /\ alive
  /\ ~Busy(t)
  /\ (op = "rename") <=> (p # q)
  /\ LookedUp(op, p, q)
  /\ MayRun(op, p, q)
  /\ thread' = [thread EXCEPT ![t] =
       [Idle EXCEPT !.op = op, !.path = p, !.to = q, !.pc = FirstPlace(op),
                    !.there = p \in ToSet(files),
                    !.due = IF op = "readdir" THEN {n \in ToSet(files) : dirOf[n] = dirOf[p]} ELSE {}]]
  /\ UNCHANGED <<files, fileCap, alive>>

-----------------------------------------------------------------------------
(* get_index_for_filename, one comparison per step.                         *)

\* Which path the search is for.
Sought(t) ==
  IF thread[t].op = "rename" /\ thread[t].pc \in {"target", "remove", "erase"}
    THEN thread[t].to ELSE thread[t].path

Searching(t) == alive /\ thread[t].pc \in Searches

GoTo(t, place) == thread' = [thread EXCEPT ![t].pc = place, ![t].i = 1]
Answered(t, r) == [Idle EXCEPT !.there = thread[t].there, !.clean = thread[t].clean, !.reply = r]
Answer(t, r)   == thread' = [thread EXCEPT ![t] = Answered(t, r)]
Abort(t, r)    == Answer(t, r) /\ alive' = FALSE

\* Mutated form: the last element is not looked at.
AdvanceShort(t) ==
  /\ Searching(t)
  /\ thread[t].i <= Len(files)
  /\ files[thread[t].i] # Sought(t) \/ thread[t].i = Len(files)
  /\ thread' = [thread EXCEPT ![t].i = @ + 1]
  /\ UNCHANGED <<files, fileCap, alive>>

Advance(t) ==
  /\ Searching(t)
  /\ thread[t].i <= Len(files)
  /\ files[thread[t].i] # Sought(t)
  /\ thread' = [thread EXCEPT ![t].i = @ + 1]
  /\ UNCHANGED <<files, fileCap, alive>>

\* Mutated form: a rename that found its target keeps it.
KeepsTarget(t) ==
  CASE thread[t].pc = "exists" -> "find"
    [] thread[t].pc = "target" -> "find"
    [] thread[t].pc = "remove" -> "erase"
    [] thread[t].pc = "find"   -> IF thread[t].op = "getattr" THEN "fill" ELSE "use"

AfterHit(t) ==
  CASE thread[t].pc = "exists" -> "find"
    [] thread[t].pc = "target" -> "remove"
    [] thread[t].pc = "remove" -> "erase"
    [] thread[t].pc = "find"   -> IF thread[t].op = "getattr" THEN "fill" ELSE "use"

\* Mutated form: what is kept is the element before the match.
HitBefore(t) ==
  /\ Searching(t)
  /\ thread[t].i <= Len(files)
  /\ files[thread[t].i] = Sought(t)
  /\ thread' = [thread EXCEPT ![t].pc = AfterHit(t), ![t].i = 1,
                              ![t].index = thread[t].i - 1, ![t].cap = fileCap]
  /\ UNCHANGED <<files, fileCap, alive>>

\* A hit in file_exists or on the destination only decides what comes next;
\* the other two leave an index, or in get_fileptr_for_filename a pointer.
Hit(t) ==
  /\ Searching(t)
  /\ thread[t].i <= Len(files)
  /\ files[thread[t].i] = Sought(t)
  /\ thread' = [thread EXCEPT ![t].pc = AfterHit(t), ![t].i = 1,
                              ![t].index = thread[t].i, ![t].cap = fileCap]
  /\ UNCHANGED <<files, fileCap, alive>>

\* The size is read again at every turn of the loop.
Miss(t) ==
  /\ Searching(t)
  /\ thread[t].i > Len(files)
  /\ UNCHANGED <<files, fileCap>>
  /\ \/ thread[t].pc = "exists" /\ Answer(t, "ENOENT") /\ UNCHANGED alive
     \/ thread[t].pc = "target" /\ GoTo(t, "find") /\ UNCHANGED alive
     \/ /\ thread[t].pc = "remove" /\ UNCHANGED alive
        /\ IF thread[t].op = "rename" THEN GoTo(t, "find") ELSE Answer(t, "ok")
     \/ /\ thread[t].pc = "find"
        /\ IF thread[t].op = "getattr"
             THEN Answer(t, "unfilled") /\ UNCHANGED alive   \* fileptr == NULL
             ELSE Abort(t, "assert")                          \* assert(index >= 0)

-----------------------------------------------------------------------------
(* What is done with the index.                                             *)

\* The files whose loss is to be seen in the answer.
Wants(t) == Names(t) \cup thread[t].due

\* Losing the element at k disturbs a search that is past it, a thread that
\* holds the index of it or of a later one, and whoever wants that very file.
Disturbs(k, t) ==
  \/ files[k] \in Wants(t)
  \/ thread[t].pc \in Searches \cup {"list"} /\ k < thread[t].i
  \/ thread[t].pc \in Holds /\ k <= thread[t].index

Disturbed(hit) == [s \in Threads |-> [thread[s] EXCEPT !.clean = @ /\ s \notin hit]]

\* _the_files.erase(begin() + index).  Past the end it is undefined: what the
\* library does is to drop the last element, if it does not crash.
Erase(t) ==
  LET k    == Min({thread[t].index, Len(files)})
      hit  == {s \in Threads \ {t} : Busy(s) /\ Disturbs(k, s)}
      next == IF thread[t].op = "rename" THEN [thread[t] EXCEPT !.pc = "find", !.i = 1]
                                         ELSE Answered(t, "ok")
  IN  /\ alive /\ thread[t].pc = "erase"
      /\ UNCHANGED fileCap
      /\ \/ /\ k > 0
            /\ files' = RemoveAt(files, k)
            /\ thread' = [Disturbed(hit) EXCEPT ![t] = next]
            /\ UNCHANGED alive
         \/ thread[t].index > Len(files) /\ Abort(t, "crash") /\ UNCHANGED files

\* create_file: the push_back takes the end of the vector ...
Push(t) ==
  /\ alive /\ thread[t].pc = "push"
  /\ thread' = [thread EXCEPT ![t].pc = "store", ![t].index = Len(files) + 1, ![t].cap = fileCap]
  /\ UNCHANGED <<files, fileCap, alive>>

Grown == IF Len(files) = fileCap THEN 2 * fileCap ELSE fileCap

\* Mutated forms: the new entry goes to the front; the growth is not recorded.
StoreFront(t) ==
  /\ alive /\ thread[t].pc = "store"
  /\ files' = <<thread[t].path>> \o files
  /\ fileCap' = Grown
  /\ Answer(t, "ok")
  /\ UNCHANGED alive

StoreUncounted(t) ==
  /\ alive /\ thread[t].pc = "store"
  /\ files' = Append(files, thread[t].path)
  /\ Answer(t, "ok")
  /\ UNCHANGED <<fileCap, alive>>

Undisturbed(t) == Len(files) + 1 = thread[t].index /\ fileCap = thread[t].cap

\* ... and puts the element there.  If the vector is full it moves all elements
\* to a new buffer, and pointers into the old one dangle.
Store(t) ==
  LET grows == Len(files) = fileCap
      hit   == {s \in Threads : grows /\ thread[s].pc = "fill"}
  IN  /\ alive /\ thread[t].pc = "store"
      /\ Undisturbed(t)
      /\ files' = Append(files, thread[t].path)
      /\ fileCap' = Grown
      /\ thread' = [Disturbed(hit) EXCEPT ![t] = Answered(t, "ok")]
      /\ UNCHANGED alive

\* If another thread has put in, erased or moved elements since, the element
\* overwrites another one, is lost or comes in all the same, or the process
\* ends: by the freed buffer or the slot counted but never filled.
StoreRaced(t) ==
  LET slot == thread[t].index
      over == IF slot \in DOMAIN files THEN {files[slot]} ELSE {}
      hit  == {t} \cup {s \in Threads : thread[s].pc = "fill" \/ Wants(s) \cap over # {}}
      End(r) == thread' = [Disturbed(hit) EXCEPT ![t] = [Answered(t, r) EXCEPT !.clean = FALSE]]
  IN  /\ alive /\ thread[t].pc = "store"
      /\ ~Undisturbed(t)
      /\ \/ /\ over # {}
            /\ files' = [files EXCEPT ![slot] = thread[t].path]
            /\ End("ok") /\ UNCHANGED <<fileCap, alive>>
         \/ End("lost") /\ UNCHANGED <<files, fileCap, alive>>
         \/ /\ files' = Append(files, thread[t].path)
            /\ fileCap' = Grown
            /\ End("ok") /\ UNCHANGED alive
         \/ End("crash") /\ alive' = FALSE /\ UNCHANGED <<files, fileCap>>

\* set_file_mode, write_file_content, read_file_content, ... touch the entry at
\* the index, rename_file gives it the new path.  An index past the end is
\* into destroyed or foreign memory.
Use(t) ==
  LET k   == thread[t].index
      hit == {s \in Threads \ {t} : Busy(s) /\ files[k] \in Wants(s)}
  IN  /\ alive /\ thread[t].pc = "use"
      /\ UNCHANGED fileCap
      /\ \/ /\ thread[t].op = "rename" /\ k \in DOMAIN files
            /\ files' = [files EXCEPT ![k] = thread[t].to]
            /\ thread' = [Disturbed(hit) EXCEPT ![t] = Answered(t, "ok")]
            /\ UNCHANGED alive
         \/ /\ thread[t].op # "rename" \/ k \notin DOMAIN files
            /\ Answer(t, "ok")
            /\ UNCHANGED <<files, alive>>
         \/ /\ k \notin DOMAIN files
            /\ Abort(t, "crash")
            /\ UNCHANGED files

\* get_attributes reads field after field through its pointer.
Fill(t) ==
  /\ alive /\ thread[t].pc = "fill"
  /\ UNCHANGED <<files, fileCap>>
  /\ \/ Answer(t, "ok") /\ UNCHANGED alive
     \/ /\ thread[t].cap # fileCap \/ thread[t].index \notin DOMAIN files
        /\ Abort(t, "crash")

\* Mutated form: the walk stops before the last element.
ListShort(t) ==
  /\ alive /\ thread[t].pc = "list"
  /\ IF thread[t].i < Len(files)
       THEN thread' = [thread EXCEPT ![t].i = @ + 1, ![t].due = @ \ {files[thread[t].i]}]
       ELSE Answer(t, IF thread[t].due = {} THEN "ok" ELSE "missed")
  /\ UNCHANGED <<files, fileCap, alive>>

\* list_files_in_dir hands on the name of one file after the other, the size
\* read again at every turn, and is answered with success.
List(t) ==
  /\ alive /\ thread[t].pc = "list"
  /\ IF thread[t].i <= Len(files)
       THEN thread' = [thread EXCEPT ![t].i = @ + 1, ![t].due = @ \ {files[thread[t].i]}]
       ELSE Answer(t, IF thread[t].due = {} THEN "ok" ELSE "missed")
  /\ UNCHANGED <<files, fileCap, alive>>

-----------------------------------------------------------------------------
Step(t) ==
  \/ Advance(t) \/ Hit(t) \/ Miss(t) \/ Erase(t) \/ Use(t) \/ Fill(t)
  \/ Push(t) \/ Store(t) \/ StoreRaced(t) \/ List(t)

\* After an abort nothing more happens here; RamBackend has the remount.
Next ==
  /\ UNCHANGED dirOf
  /\ \E t \in Threads :
       \/ \E op \in Ops, p, q \in Paths : Start(t, op, p, q)
       \/ Step(t)

Spec == Init /\ [][Next]_vars

-----------------------------------------------------------------------------
(* Properties.                                                              *)

TypeOK ==
  /\ dirOf \in Layouts
  /\ files \in Seq(Paths) /\ Len(files) <= MaxFiles
  /\ fileCap \in Nat /\ Len(files) <= fileCap
  /\ alive \in BOOLEAN
  /\ thread \in [Threads -> Thread]

Held(t) == thread[t].index \in DOMAIN files /\ files[thread[t].index] = Sought(t)

\* Only an erase behind the search, or of an element at or before the one
\* found, makes an index wrong: creates, other renames and changes running at
\* the same time never do, so a request none of these hit uses its own file.
CleanHitsNamed ==
  alive => \A t \in Threads :
    thread[t].pc \in Holds /\ thread[t].clean =>
      Held(t) /\ (thread[t].pc = "fill" => thread[t].cap = fileCap)

\* No assertion fails, nothing crashes, no attributes stay unfilled, no new
\* file is lost, and no existing one left out of a listing or reported missing,
\* except in a request an erase disturbed, one that waited on a pointer while
\* the vector grew, or a create that overlapped another change of the vector.
CleanAnswered ==
  \A t \in Threads : thread[t].clean =>
    /\ thread[t].reply \notin Failures
    /\ thread[t].reply = "ENOENT" => ~thread[t].there

OneDirectory == \A p, q \in Paths : dirOf[p] = dirOf[q]

\* As long as one directory's lock keeps all creates, unlinks and renames
\* apart, no thread erases or relabels another file than the one it was asked
\* to, whatever reads and changes run in between.
ModifiersHitNamed ==
  OneDirectory /\ alive => \A t \in Threads :
    thread[t].op \in Modifiers /\ thread[t].pc \in {"erase", "use"} => Held(t)

\* Likewise no path is ever in the vector twice.
UniquePaths ==
  OneDirectory => \A i, j \in DOMAIN files : files[i] = files[j] => i = j

\* Likewise a listing shows every file of the directory, and a new file is in
\* the vector when its create is answered: although a listing walks over the
\* files of all directories, only changes in another one can harm it.
ListingsAndCreatesWhole ==
  OneDirectory => \A t \in Threads : thread[t].reply \notin {"missed", "lost"}

-----------------------------------------------------------------------------
(* What the repository says and the code does not do.                       *)

\* README "remove files with rm": the file erased is the file named.
RemovesNamed ==
  \A t \in Threads : alive /\ thread[t].pc = "erase" => Held(t)
=============================================================================
