# MGFileSystem in TLA+

TLA+ modules, TLC configurations and TLAPS proofs about MGFileSystem, a FUSE
file system with exchangeable storage backends and a small daemon that watches
storage nodes. Every definition is translated from the C++ code; `PROJECT.json`
("map") names the lines each one stands for. Paths below are relative to `src/`.

## 1. The system

| Part | State it keeps | Operations | Code |
|---|---|---|---|
| FUSE handlers | a trace counter | one function per FUSE operation: calls the backend, answers 0 or a size | `include/mg_operations.h` |
| Backend interface | none | 15 virtual operations | `include/storage_backend.h` |
| In-RAM backend | `_the_files`, `_the_directories` (vectors), listings as pointers to heap copies of directories | searches, create, remove, rename, read, write, truncate, chmod, chown, utimens, mkdir, (rmdir) | `src/filesystem_data.cpp` |
| ssh backend | one ssh and one sftp session, the remote root | each operation is one or more sftp calls | `src/ssh_backend.cpp` |
| Entry point | the pointer to the chosen backend | parse arguments, mount, serve, clean up | `src/main.cpp` |
| FSmanager | one ssh session and two flags per storage node | connect once; every 10 s ask every node in turn | `FSmanager/src/` |
| System tests | - | shell commands on a mount | `tests/` |

**Interaction.** The kernel looks a path up (a `getattr`), then sends the
request; libfuse runs the handler on a worker thread, since `main.cpp` never
passes `-s` (the switch is declared at line 91 and its `cmd.add` is commented
out). The handler calls the backend through the global pointer. Neither
handlers nor backends take a lock: what keeps requests apart is the kernel's
lock on a directory and libfuse's lock on a path. FSmanager is a process of its
own and shares nothing with the mounts; it talks to the storage nodes over ssh.

**What is hard in each part, and what makes it correct.**

* *In-RAM backend, one request at a time.* Everything rests on linear searches
  that return the first entry with a path, and on pointers and indices into
  vectors that grow and shrink. It is right if a path is never in a vector
  twice, nothing lies outside an existing directory, each request changes the
  entry it names and no other, listings show real directories, and no request
  ends the process.
* *File contents.* Reads and writes go through C strings, writes insert instead
  of overwriting, truncate cannot extend. It is right as far as a client cannot
  tell it from POSIX.
* *In-RAM backend on several threads.* A search is not atomic, and its result
  is used later. It is right if the entry used is still the one found.
* *ssh backend.* Errors are printed and answered with success; handles are used
  after a failed open; all threads share one session without a lock; other
  clients change the tree between two calls; nothing has a timeout; truncate is
  not implemented. It is right as far as one can say what an answered success is
  worth, when the process ends, and which requests are never answered.
* *Entry point with the ssh backend.* The argument is taken apart by arithmetic
  on positions that may be `npos`; a denied login and a refused sftp session go
  unnoticed. It is right if well-formed arguments lose nothing and each session
  is released once.
* *FSmanager.* Blocking calls in sequence, no timeouts, no reconnection, a
  buffer that may hold another node's answer. It is right if what it shows
  rests on the node's own answer and follows what the nodes do.

The hazards, each at its line, are listed in `PROJECT.json`.

## 2. Modules

| Module | Models | Built on |
|---|---|---|
| `RamContent` | byte operations of write, truncate, read of the RAM backend; the POSIX ones beside them | - |
| `FileIO` | one file behind either backend under any history of writes and truncates, next to its POSIX twin | `RamContent` |
| `FileTree` | abstract specification: what a backend promises (`storage_backend.h`) | `RamContent` (types) |
| `RamBackend` | the in-RAM backend behind the handlers, one request at a time, crash and remount | `RamContent`, refines `FileTree` |
| `RamThreads` | `_the_files` under worker threads, one element comparison per step | - |
| `SshBackend` | the ssh backend under worker threads: each request a sequence of sftp calls; the server, the link and other clients | - |
| `SshMount` | one run of the program with `--backend=ssh`: argument, connection, login, sessions, clean-up | - |
| `FsManager` | the daemon, its main loop, the hosts it asks | - |
| `VectorLemmas` | lemmas about vectors (remove an element, take a slice), minima and powers of two | SequencesExt, TLAPS |
| `ContentLemmas` | lemmas about the byte operations: length, type and every byte of the result | `RamContent`, `VectorLemmas` |
| `FileIOProofs`, `RamBackendProofs` | theorems about `FileIO`, `RamBackend` | the module each names, `ContentLemmas` |
| `RamThreadsProofs`, `SshBackendProofs` | theorems about `RamThreads`, `SshBackend` | the module each names, `VectorLemmas` |
| `SshMountProofs`, `FsManagerProofs` | theorems about `SshMount`, `FsManager` | the module each names, TLAPS |
| `MCFileIO`, `MCRamBackend`, `MCRamThreads`, `MCSshBackend`, `MCSshMount` | values for TLC | the module each names |

### How state and actions correspond to the code

`RamBackend`: `files` and `dirs` are the two vectors in their order; an index is
one more than in C++ and 0 is -1. Of `_contained_directories` only the paths
are kept: the pointers go to heap copies that are never changed or freed.
`_contained_files` is written and never read, and is left out. `dirCap` is the
capacity of `_the_directories`; it doubles (libstdc++), which decides when the
parent pointer of `create_directory` dangles. One action per request; `alive`
turns FALSE where an assertion fails or the dangling write hits something
vital. `Remount` is unmounting or restarting after a crash: nothing is kept.
`req` is the last request with its paths and, of a truncate, the length it
asks for. Requests come as the kernel sends them: `mkdir` and `create` only for a missing
name in an existing directory, `rename` only between things of one kind and
never onto or into itself. `chmod`, `chown` and `utimens` come for directories
too, and end the process. `NothingMade` and `NothingDone` are the handlers that
answer success and call no backend: `mknod` and `symlink`, which make nothing,
and `open`, `flush`, `fsync`, `opendir`, `setxattr` and the like.

`RamThreads`: a handler is its sequence of searches (`exists`, `target`,
`remove`, `find`) and of places where an index or a pointer is held (`erase`,
`use`, `fill`). A comparison with one element, one turn of the listing, an
erase and a use are each one step; a push_back is two (`Push` takes the end of
the vector, `Store` puts the element there; `StoreRaced` is what may come of it
when the vector changed in between). `dirOf` says which directory each path lies
in; it is fixed at the start, and decides what the kernel keeps apart. `Start` has the guards the kernel and libfuse provide. An
index past the end is undefined behaviour: the process crashes, or nothing
visible happens, or (erase) the last element goes. `clean` is a history
variable: FALSE once another thread's step may have harmed the request. `due` is
what a listing still has to show of the files that were there when it began.

`SshBackend`: `thread[t].pc` is the sftp call a request is at. `Send` puts the
call on the session, then it is granted, declined for what the server holds, or
refused for other reasons; each of these steps contains what the handler does
with the answer (`Handler`), so `ReadFileContent` and the others read like the C++
functions, with `ok` for the test of the result. NULL handles are undefined
behaviour: a read ends the process in any case (`new char[-1]` at the latest), a
write or create may. Two calls under way at once are undefined too: whatever
libssh makes of them is abstracted to "as if one after the other", the end of the
process, a broken session, or both waiting for ever (`Garbled`). A truncate
sends nothing: `TruncateFile` answers it and leaves the server alone. `link` is the
session; `handles` counts what the server holds open for it. `clean` is FALSE
once a failure, another client or an overlapping call touched the request.

`SshMount`: characters are model values, positions count from 0 and wrap at
`NPos`, as `size_t` does at its largest value. A session is `null`, `open`, or
`freed` but still pointed to.

`FileIO`: `stale` is a history variable, the positions at which a request had an
effect POSIX does not give it: with the RAM backend all from an insertion on,
with ssh those a truncate should have cut or padded and those the server did not
take. `backend` is chosen at the start, as in `main`.

`FsManager`: each blocking libssh call of `check_storage_nodes` is one step
that needs the host to answer; it fails at once on a broken session. `buffer` is
`buffer[0]`: kept from one turn of the loop to the next, arbitrary in the next
call of the function. `verdict` is a history variable. The hosts and their
directory are the environment. A machine that loses power without closing its
connection is a "silent" one, one that resets its connection is "down".

### Properties worth a look

* `OnlyStaleDiffers`: the file is the POSIX file but for the positions named in
  `stale`. With the RAM backend appending, copying and rewriting after a truncate
  are right, overwriting in place is not; with ssh appending and overwriting are
  right, rewriting after a truncate is not.
* `ReadToEndIsPosix`: a read that reaches the end of an undamaged text file has
  exactly one answer, the right one, despite strcpy, memcpy and strlen.
* `ReadsPrefix`: what mg_read answers from a file is never another part of it,
  whatever strlen makes of the missing terminator.
* `OnlyGrowthLosesEntries`: a directory is missing from its parent's listing only
  if it was the one that found the vector full (the 3rd, 5th, 9th, ...). That any is
  missing is a fault (`MadeDirectoriesListed`, violated).
* `AbortsOnlyOnDirectories`: requests on files never end the process.
* `ImplementsTree`: the refinement of `FileTree`, in which every request does
  what its name says: `rmdir` removes an empty folder, `truncate` leaves the length
  asked for. Two kinds of request do not, and are named (`NotCarriedOut`): every
  `rmdir`, and a truncate to more than the length. Of them the property says that
  they do nothing at all.
* `CleanHitsNamed`, `CleanAnswered`: what can go wrong between threads goes
  wrong only by an erase at or before a search or index, or a growth under a
  held pointer.
* `ModifiersHitNamed`, `ListingsAndCreatesWhole`: in one directory the kernel's
  lock is enough for unlink, rename, create and ls.
* `CleanTakesEffect`: although no ssh handler looks at an error, success means
  what it says for every request but a truncate that met no failure, no other
  client at its names and no overlapping call; what other threads of the mount do
  between its calls does not harm it. A truncate is left out: it is answered with
  success and not done (`TruncateFile`).
* `DisturbedOpensEnd`: only requests that open a file end the process, unless two
  calls overlapped.
* `HandlesAccounted`: handles left open on the server come from listings that
  failed, and from nothing else.
* `RequestsAnswered`: what can leave a request without an answer.
* `PositionsInside`: each `substr` of the ssh argument starts inside it, behind the
  first separator, or at 0 where the separator is missing and `npos + 1` wraps.
* `OwnAnswer`, `DownIsShown`, `ReadyIsShown`, `RoundsGoOn`: what the daemon
  shows, and what stops it.

## 3. Runs

| Run | Shows | Bounds |
|---|---|---|
| `file_io` | `TypeOK`, `OnlyStaleDiffers`, `ReadToEndIsPosix`, `ReadsPrefix` | contents of up to four bytes over two letters and NUL; buffers of one or two bytes; every offset and length up to the bound, every part of a buffer taken |
| `ram_files` | `TypeOK`, `UniquePaths`, `ParentsPresent`, `AbortsOnlyOnDirectories`, `TopFilesListed`, `SubdirectoriesReal`, `OnlyGrowthLosesEntries`, `ImplementsTree` | four paths on two levels, 2 files, 5 directories, 2 modes, 2 owners |
| `threads` | `TypeOK`, `CleanHitsNamed`, `CleanAnswered`; for files in one directory `ModifiersHitNamed`, `UniquePaths`, `ListingsAndCreatesWhole` | 2 threads, 3 files in one directory or in two |
| `monitor` | `TypeOK`, `OwnAnswer`, `DownIsShown`, `ReadyIsShown`, `RoundsGoOn` | 2 nodes (as in the code), 2 faults; commands without output, writes that fail |
| `ssh_files` | `TypeOK`, `HandlesAccounted`, `CleanTakesEffect` | 2 threads, 2 names, 1 fault, 1 step of another client; create, unlink, rename, readdir, write |
| `ssh_answered` | `RequestsAnswered`, `DisturbedOpensEnd`, `CleanTakesEffect` | the same at one name; create, mkdir, rmdir, getattr, read, write, chmod, chown, utimens, truncate |
| `ssh_mount` | `TypeOK`, `WellFormedSplit`, `PositionsInside`, `SessionsReleased` | every argument of up to five characters, both separators among them |
| `ram_asserts` | *violated*: no assertion fails (`AssertionsHold`) | small namespace |
| `ram_mkdir` | *violated*: a directory that was made is listed (`MadeDirectoriesListed`) | small namespace |
| `threads_rm` | *violated*: `rm` erases the file it names (`RemovesNamed`) | as `threads`, two directories |
| `monitor_reconnect` | *violated*: a node that came back is shown as available again (`ReturningIsShown`) | as `monitor`, 1 fault |
| `ssh_mv` | *violated*: a rename answered with success was done (`MovesTakeEffect`) | 1 thread, 2 names, no fault; a server of sftp version 3 |

*Why the bounds are enough.* `ram_files`: two files are the least for a rename
that replaces its target and shifts the index of its source, for an erase in
front of another entry, and for one name in two directories; with five
directories the vector of capacity two grows at the third and at the fifth, with
the fourth in between, so lost entries and kept ones both occur. `threads`: an
interference has one eraser and one victim, or two creates; three files leave
elements before, at and behind the victim's place, and the vector grows from 1
to 2 to 4. `ssh_*`: a request has at most three calls, one fault or one step of
another client fits between any two of them, and two threads are what it takes
to overlap; two names are the least for a rename and for a listing that sees one
name and not the other; requests on one name need no second one. `ssh_mount`:
five characters hold one of each part and both separators, in every order, or
one of them twice; the arithmetic depends on nothing else. `file_io`: four bytes
hold a gap, an overlap and a byte behind either. `monitor*`: with two nodes one
can be stuck while the other is asked; two faults allow one for each, or a loss
and a failed call of one node, and hosts boot and resume freely.
`monitor_reconnect` has one fault, the loss of a connected node, so that nothing
else can be to blame. Deadlock checking is off where the system stops for good:
a dead process in `RamThreads`; in `FsManager` a daemon that exited or waits for
a silent host.

*Fairness.* `DaemonSpec`: weak fairness of the daemon's steps: it is one
process, scheduled by the system, and each step but a blocked one is enabled
until taken. It leaves out the turns of the inner loop (`spin`): nothing says
that a write that fails will ever stop failing. `DownIsShown` and `ReadyIsShown`
have "no host stays silent for ever" as a premise, and name the inner loop as the
exception; `RoundsGoOn` does without and names the blocked case. `AwakeSpec`, for
`monitor_reconnect`, has the premise as fairness. `FairSpec` of `SshBackend`: weak
fairness of each thread's calls: threads are scheduled, and a server that can be
reached answers. A silent link comes back only if it likes, and nothing is
promised of refusals and overlapping calls. The RAM modules and `SshMount` claim
safety only.

*Divergences.* The five violated runs are described under "findings" in
`PROJECT.json`, each with the line that says otherwise. Others that a passing
property delimits:

* RAM, one thread: a read that ends before its file does may answer more bytes
  than were asked for, up to whatever the heap holds (`MgRead`: the two
  properties about reads say what is right of it); `rmdir` is answered with success
  and does nothing, which `tests/test_rmdir.py:26` calls "directory deletion failed",
  and a truncate to more than the length does not extend the file (`NotCarriedOut`
  in `ImplementsTree`).
* RAM, several threads: a chmod or read that overlaps an unlink of another file
  may fail an assertion or answer ENOENT for a file that is there, a listing may
  miss a file, and a create that overlaps a change in another directory may lose
  its own file or overwrite another (`CleanAnswered` says when).
* ssh: once the link is down every file is reported as missing, with the answer
  `mg_operations.h:62` explains by "no such file or directory", and every change
  is reported as done (`CleanTakesEffect`); after `echo ... >` onto a longer file
  its end is still there (`OnlyStaleDiffers` says which bytes; `README.md:42` lists
  "overwrite file", `TODO:32` has "implement truncate for ssh-backend"); a read of
  a file another client just removed ends the process for the whole mount
  (`DisturbedOpensEnd`); without a timeout one silent server holds all threads
  (`RequestsAnswered`).
* ssh mount: the check "bad ssh mount argument" (`main.cpp:139`) only sees empty
  parts, so "x" is user x on host x with directory x; `WellFormedSplit` and
  `PositionsInside` say what is right of it. A denied login goes on to mount
  (`TODO:34`: "no error, if public key authentication is chosen, but keys are not
  installed !?"), and a session `sftp_init` refused is used after it was freed
  (`SessionsReleased`).
* FSmanager: a command that prints nothing is judged by an uninitialised byte or
  by the answer of the node before (the exception in `OwnAnswer`); one silent
  host, or one failed write to standard output (`continue` at `FSmanager.cpp:140`
  continues the inner loop), keeps the daemon from all other nodes (`RoundsGoOn`).

Seen while modelling, and visible in the definitions: `mknod` and `symlink` answer
success and do nothing with both backends (`NothingMade`); every directory lists all files (`Listing`); a
file moved into a subdirectory gets a name with a slash in it (`RenameFile`); a
node that answered "no such directory" is shown as not responsive (`Verdict`,
against the comment at `FSmanager.cpp:167`).

## 4. Proofs

Every safety invariant and every safety property of steps that a passing run
checks is a theorem, for every value of the constants that satisfies the named
assumptions of its module. `CleanTakesEffect` has a condition, explained below.

### `RamBackendProofs`

For every set of paths, attributes and buffers and every bound, from the
assumptions of `RamBackend` and `RamContent` (paths are sequences closed under
taking the parent; the mounted attributes and contents are of their types; NUL
is a byte):

| Theorem | States |
|---|---|
| `TypeCorrect` | `Spec => []TypeOK` |
| `PathsStayUnique` | `Spec => []UniquePaths` |
| `ParentsStayPresent` | `Spec => []ParentsPresent` |
| `ListedDirectoriesReal` | `Spec => []SubdirectoriesReal` |
| `FileRequestsSurvive` | `Spec => []AbortsOnlyOnDirectories` |
| `BackendIsTree` | `Spec => ImplementsTree`: the refinement of `FileTree` |
| `TopFilesAreListed` | `Spec => []TopFilesListed` |
| `OnlyPowersOfTwoLost` | `Spec => []OnlyGrowthLosesEntries` |

*The argument.* `TypeOK` is inductive by itself: `ContentLemmas` and the lemmas
up to `RelabelledType` give the type of what each request writes. The rest needs
`IInv == TypeOK /\ UniquePaths /\ ParentsPresent /\ SubdirectoriesReal`:

* what a search returns (`IndexInProperties`) is known only for well-typed
  vectors;
* `UniquePaths` survives an unlink or a rename because the index erased or
  relabelled is the only one with its path, so no second entry appears from
  behind it (`WithoutFilePaths`, `RenamedPaths`);
* `ParentsPresent` survives because directories are never removed and the
  target of a create, mkdir or rename lies in what the kernel takes for a
  directory (`ParentOfTarget`);
* `SubdirectoriesReal` survives a mkdir because the entry goes to the parent's
  index or is lost, and `UniquePaths` makes that index the parent's alone.

Each part of `IInv` is also checked by TLC in `ram_files`. On it rest:

* *Requests that end the process* (`FileRequestsSurvive`). A file request that
  fails its assertion had no file, so its path was a directory's; the assertion
  of `create_file` holds by `ParentsPresent`.
* *The refinement* (`BackendIsTree`). `View` reads the vector of files as one entry
  per path, as the refinement mapping does. With unique paths the element at the
  index a search returns is the entry its path names, and the rest of the vector
  the rest of the tree (`ViewAt`, `ViewIs`); so each request takes the tree to
  where the action of `FileTree` named for it takes it (`ChangeIsChange` to
  `TruncateIsCut`, joined in `TreeStep`), and a request that ends the process is
  `Tree!Crash`. An `rmdir`, and a truncate to more than the length, leave the tree
  as it was, which is `NotCarriedOut`. The rename that replaces its target is the long one: an erase that
  shifts the source's index, then a relabelling.
* *Names in the top directory* (`TopFilesAreListed`). The name a listing shows
  is set at create and rename only, and is the path's then (`Named`).
* *Lost entries* (`OnlyPowersOfTwoLost`). `Doubling` says that the capacity is the
  least power of two that holds the vector; a directory then finds the vector
  full exactly if the number before it is a power of two (`FullAtPowers`). What
  is needed of powers of two is in `VectorLemmas`; induction being out of reach,
  it goes through the number of subsets of a set of n elements and through a
  least counterexample.

### `FileIOProofs`

For every set of buffers, every bound, and every first content within the bound
(the only assumption beside the types of the constants):

| Theorem | States |
|---|---|
| `TypeCorrect` | `Spec => []TypeOK` |
| `FileIsPosixButStale` | `Spec => []OnlyStaleDiffers` |
| `WholeTextIsRead` | `Spec => []ReadToEndIsPosix` |
| `AnswersBeginTheRead` | `Spec => []ReadsPrefix` |

*The argument.* The file and its twin agree outside `stale` (`AgreeBut`). For
the RAM backend this is not inductive: a truncate in front of the stale
positions makes the file right again and empties `stale`, which is sound only
if nothing in front of them differs. `TailStale` says so: `stale` is empty, or
everything from one position on, at most one behind the end of the twin. What
each operation does to each byte is in `ContentLemmas`; a write at the end of a
text is where inserting and overwriting agree (`AppendingIsPosix`). The two theorems
about reads need no more of the invariant; they are about strlen over a buffer
with an arbitrary byte behind it (`CStringProperties`, `RamReadIsPart`).

### `RamThreadsProofs`

For every finite set of threads, every set of paths with the mounted file in it,
and every assignment of paths to directories:

| Theorem | States |
|---|---|
| `TypeCorrect` | `Spec => []TypeOK` |
| `UndisturbedHitTheirFile` | `Spec => []CleanHitsNamed` |
| `UndisturbedAreAnswered` | `Spec => []CleanAnswered` |
| `LockedModifiersHit` | `Spec => []ModifiersHitNamed` |
| `LockedPathsUnique` | `Spec => []UniquePaths` |
| `LockedListingsWhole` | `Spec => []ListingsAndCreatesWhole` |

*The argument.* `TypeOK` needs to know at which places a request can be, and that
each create under way has room for its entry (`Base`; here the threads must be
finite in number). Then there are two invariants, and in both a step is looked at
twice: by the thread that takes it, and by another thread whose search, index or
listing it may spoil.

* `CleanInv`: as long as a request is `clean`, what it looks for is still ahead of its
  search, the element at the index it holds is the one it found, a held pointer
  points into the current buffer, and what a listing still has to show is ahead
  of it (`Sure`). Another thread's step keeps this or turns `clean` FALSE
  (`OthersSure`): that is what makes the list of disturbances (an erase at or before
  the place, a growth under a pointer) complete.
* `OneDirInv`: if all files are in one directory, at most one create, unlink or
  rename runs, and no listing beside it (`OneAtATime`, from the guards of `Start`);
  so the index it holds stays right whatever reads do (`Alone`). `UniquePaths` is part
  of it: a create is for a missing path, and stays so until its `Store`; a rename
  has erased its target by the time it relabels.

### `SshBackendProofs`

For every finite set of threads and of names, every set of contents, and any
number of failures and steps of other clients:

| Theorem | States |
|---|---|
| `TypeCorrect` | `Spec => []TypeOK` |
| `HandlesAreAccounted` | `Spec => []HandlesAccounted` |
| `UndisturbedNeverEnd` | `Spec => DisturbedOpensEnd` |
| `AllButTruncatesTakeEffect` | `Spec => CleanTakesEffect`, if the server's rename replaces its target or no client renames |
| `AllButTruncatesAndRenamesTakeEffect` | undisturbed requests that are neither a truncate nor a rename take effect, on any server |

*The argument.* `Base` ties each operation to the calls of its handler, and the
count of handles to the requests that hold one. That a new file always finds a
number of its own is a pigeonhole argument (`NumbersRange`, `NewNode`): there are as
many numbers as names and threads, and the name that needs one has none. `IInv` adds what the locks keep apart
(`LocksHold`), and that a request which is still `clean` has before it what it
needs (`Ready`): the file it names is of the right kind, an open handle is that
file's, and a listing has seen what there is. The server accepts such a call
(`ReadyAccepted`), which is what `UndisturbedNeverEnd` comes down to; a granted call leaves
every other clean request ready (`GrantedKeeps`), because the lock keeps their names
apart; and the last call of a request leaves the server as its answer says
(`GrantedTakes`).

The hypothesis about renames is not one of convenience. With a server of sftp
version 3, which refuses to rename onto a file that is there, the conclusion is
false: `ssh_mv` is the counterexample. Both cases of the hypothesis are
configurations that run (`ssh_files`, `ssh_answered`), and
`AllButTruncatesAndRenamesTakeEffect` says what is left without it. That truncates are
left out is in the formulas themselves: the handler answers one with success and
sends nothing, so for a truncate the conclusion is false.

### `FsManagerProofs`

For every number of nodes and of faults:

| Theorem | States |
|---|---|
| `TypeCorrect` | `Spec => []TypeOK` |
| `OwnAnswerShown` | `Spec => []OwnAnswer` |
| `OwnYesShown` | `Spec => []OwnYes` (no node shown available after an empty answer either), if no command ends without output and no write to standard output fails |

*The argument.* `OwnAnswer` alone is not inductive: the verdict reads the
buffer, so one must know that an answer is in it at that place. `IInv` adds that
the buffer holds "0" or "1" from the first read to the verdict (`BufferFilled`).
`OwnYes` follows from `OwnAnswer` and the fact that no verdict is ever taken
without an answer (`NoDetour`), which is what the two assumptions are for.

### `SshMountProofs`

For every set of arguments and every width of `size_t`, if each argument is shorter than `npos`:

| Theorem | States |
|---|---|
| `TypeCorrect` | `Spec => []TypeOK` |
| `SessionsAreReleased` | `Spec => []SessionsReleased` |
| `ArgumentTakenApart` | `Spec => []WellFormedSplit` |
| `ArgumentNeverThrows` | `Spec => []PositionsInside` |

*The argument.* What `clean_up` frees depends on what the pointer was while
requests ran: `IInv` adds that until then `opened` and `freed` can be read off
`_sftp_session` (`CountersFollow`). The other two rest on what `find` returns
(`FindProperties`, `NotFound`) and on the size_t arithmetic (`SizeT`): of the starts of
a `substr` only `npos + 1` wraps, to 0, so each start is behind the first separator or
0 (`StartInside`). For a well-formed argument nothing wraps, and the cuts of the
three `substr` calls are adjacent (`PartsOf`, `NothingLost`).

### Only model-checked

Liveness under fairness is beyond the prover: `DownIsShown`, `ReadyIsShown` and
`RoundsGoOn` (`monitor`) and `RequestsAnswered` (`ssh_answered`) are checked by TLC on
their instances alone. So are the violated runs, whose counterexamples are
instances by nature.

## 5. Not modelled

* The kernel's page cache and the `.fuse_hidden` renames libfuse makes when an
  open file is removed; the handlers `main.cpp` does not register (`mg_link`,
  `mg_statfs`, `mg_access`, `mg_lock`, `mg_bmap`, `mg_ioctl`, `mg_poll`,
  `mg_read_buf`, ...) and `mg_readlink`, which is never asked, as no backend shows a
  symbolic link; the trace counter.
* The heap: the byte `strcpy` writes behind its buffer in
  `read_file_content`, and memory never freed.
* Inside an element: races on one `std::string`. Inside libssh: two calls at once
  are abstracted to their outcomes.
* The remote tree is flat: what lies in a subdirectory behaves like what lies
  beside it; rmdir of a directory that is not empty is a refusal.
* `remote_command` and `send_remote_command` of the ssh backend, which nothing
  calls; the fork `fuse_main` makes between login and the first request.
* Directory attributes (never changed after mkdir), TCLAP's parsing, logging.
* In FSmanager the functions nothing calls (`send_remote_command`,
  `password_authentication` with the built-in method, `check_client_nodes`) and
  the build with `daemonize` defined, which closes standard output.

## 6. Plan

1. *(done)* `RamContent`, `RamBackend`, `FileTree` and the refinement;
   `RamBackendProofs`; `RamThreads`; `FsManager` and its proofs.
2. *(done)* `SshBackend`, `SshMount`, both backends in `FileIO`; listings and
   push_back in two steps in `RamThreads`; the handlers without a backend call;
   `SshMountProofs`.
3. *(done)* `VectorLemmas`, `ContentLemmas`; `FileIOProofs`, `RamThreadsProofs`,
   `SshBackendProofs`; in `RamBackendProofs` the refinement of `FileTree`,
   `TopFilesListed` and `OnlyGrowthLosesEntries`.
4. Proofs of what the liveness properties rest on (a daemon that is not blocked
   has a step; a request that was not garbled has a call left), and of the
   conditions `threads_rm` and `ssh_mv` show to be necessary.

## 7. Running

In this directory: `tlc -config ram_files.cfg MCRamBackend.tla` (each run's module
and configuration are in `PROJECT.json`), and `tlapm M.tla` for each module `M` of
section 4 and the two modules of lemmas. `RamThreadsProofs` and `SshBackendProofs`
take several minutes each.
