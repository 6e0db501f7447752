----------------------------- MODULE SshBackend -----------------------------
(***************************************************************************)
(* The ssh storage backend (class ssh_backend) under the worker threads of *)
(* libfuse.  A request is a sequence of sftp calls over the one session    *)
(* all threads share; each call is a message to the server and the wait    *)
(* for its answer.  Between two calls other clients of the server change   *)
(* the same directory.  No handler hands an sftp error on: it is printed,  *)
(* and the request goes on or is answered with success.                    *)
(*                                                                         *)
(* The mounted remote directory is flat here: what lies in a subdirectory  *)
(* behaves like what lies beside it.                                       *)
(***************************************************************************)
EXTENDS Naturals, FiniteSets

CONSTANTS
  Threads,         \* the worker threads
  Paths,           \* the names in the mounted remote directory
  Data,            \* what clients write: contents, and attributes
  Fresh,           \* the content and the attributes of something new
  Ops,             \* the requests clients send
  RenameReplaces,  \* the server renames onto an existing target
  MaxFaults,       \* bound: refusals and failures of the link
  MaxOthers        \* bound: steps of other clients

Changes   == {"chmod", "chown", "utimens"}
Modifiers == {"create", "unlink", "rename", "mkdir", "rmdir"}
Erasers   == {"unlink", "rename", "rmdir"}
Writers   == {"write", "truncate"}
OneCall   == Changes \cup {"unlink", "rename", "mkdir", "rmdir"}
AllOps    == Changes \cup Modifiers \cup Writers \cup {"getattr", "readdir", "read"}

ASSUME ThreadsAssumption == Threads # {} /\ IsFiniteSet(Threads)
ASSUME PathsAssumption == Paths # {} /\ IsFiniteSet(Paths)
ASSUME DataAssumption == Fresh \in Data
ASSUME OpsAssumption == Ops \subseteq AllOps
ASSUME BoundsAssumption ==
  RenameReplaces \in BOOLEAN /\ MaxFaults \in Nat /\ MaxOthers \in Nat

VARIABLES
  remote,   \* what each name stands for on the server
  handles,  \* how many handles the server holds open for the session
  link,     \* "up", "silent", "down", or "stuck" once its stream is garbled
  alive,    \* FALSE once the process has ended
  thread,   \* of each thread the request it runs, or its last answer
  call,     \* of each thread: waiting for an answer of the server?
  clean,    \* history: no failure and no other client touched the request
  lost,     \* history: listings that gave up before sftp_closedir
  faults,   \* how many failures there were
  others    \* how many steps other clients have taken

vars == <<remote, handles, link, alive, thread, call, clean, lost, faults, others>>

\* Files and directories are told apart by a number; 0 is nothing.  There are
\* never more than the names and the open files.
Numbers == 1..(Cardinality(Paths) + Cardinality(Threads))
Node    == [kind : {"none", "file", "dir"}, id : Numbers \cup {0}, text : Data, attr : Data]
Absent  == [kind |-> "none", id |-> 0, text |-> Fresh, attr |-> Fresh]

Present(p) == remote[p].kind # "none"
IsFile(p)  == remote[p].kind = "file"
IsDir(p)   == remote[p].kind = "dir"

Stats    == {"exists", "isdir", "attrs"}
Opens    == {"open", "creat", "opendir"}
Uses     == {"read", "write", "list"}
Closes   == {"close", "closedir"}
Places   == Stats \cup Opens \cup Uses \cup Closes \cup OneCall
Replies  == {"none", "ok", "ENOENT", "unfilled"}

Thread == [op : Ops \cup {"none"}, path : Paths, to : Paths, val : Data,
           pc : Places \cup {"idle", "truncate"},
           at : Numbers \cup {0},             \* the file it has open
           seen : SUBSET Paths,               \* names handed to the filler
           reply : Replies]

Waiting == {"no", "sent", "mixed"}            \* "mixed": another call was under way too

AnyPath == CHOOSE p \in Paths : TRUE
Idle == [op |-> "none", path |-> AnyPath, to |-> AnyPath, val |-> Fresh, pc |-> "idle",
         at |-> 0, seen |-> {}, reply |-> "none"]

Init ==
  /\ remote = [p \in Paths |-> Absent]
  /\ handles = 0 /\ link = "up" /\ alive = TRUE
  /\ thread = [t \in Threads |-> Idle]
  /\ call = [t \in Threads |-> "no"]
  /\ clean = [t \in Threads |-> TRUE]
  /\ lost = 0 /\ faults = 0 /\ others = 0

-----------------------------------------------------------------------------
(* Requests: what the kernel and libfuse send, and when.                    *)

Busy(t)  == thread[t].op # "none"
Names(t) == IF thread[t].op = "readdir" THEN Paths ELSE {thread[t].path, thread[t].to}

\* libfuse's path locks keep an unlink, rmdir or rename apart from all else on
\* its paths; the kernel's lock on the directory keeps changes of it apart from
\* each other and from a listing, its lock on a file two writes or truncates.
MayRun(op, p, q) ==
  \A s \in Threads : Busy(s) =>
    /\ op \in Erasers \/ thread[s].op \in Erasers => Names(s) \cap {p, q} = {}
    /\ ~(op \in Modifiers /\ thread[s].op \in Modifiers \cup {"readdir"})
    /\ ~(op = "readdir" /\ thread[s].op \in Modifiers)
    /\ ~(op \in Writers /\ thread[s].op \in Writers /\ thread[s].path = p)

\* The kernel's own lookup came first and found the name so.
LookedUp(op, p, q) ==
  CASE op \in {"create", "mkdir"} -> ~Present(p)
    [] op \in {"unlink", "read", "write", "truncate"} -> IsFile(p)
    [] op = "rmdir"  -> IsDir(p)
    [] op \in Changes -> Present(p)
    [] op = "rename" -> Present(p) /\ remote[q].kind \in {"none", remote[p].kind}
    [] OTHER -> TRUE

FirstPlace(op) ==
  CASE op \in {"getattr", "read"} -> "exists"
    [] op = "readdir" -> "opendir"
    [] op = "write"   -> "open"
    [] op = "create"  -> "creat"
    [] op \in OneCall \cup {"truncate"} -> op

Start(t, op, p, q, v) ==
  /\ alive /\ ~Busy(t)
  /\ (op = "rename") <=> (p # q)
  /\ op \in Changes \cup {"write"} \/ v = Fresh
  /\ op = "readdir" => p = AnyPath
  /\ LookedUp(op, p, q)
  /\ MayRun(op, p, q)
  /\ thread' = [thread EXCEPT ![t] =
       [Idle EXCEPT !.op = op, !.path = p, !.to = q, !.val = v, !.pc = FirstPlace(op)]]
  /\ clean' = [clean EXCEPT ![t] = link # "down"]
  /\ UNCHANGED <<remote, handles, link, alive, call, lost, faults, others>>

-----------------------------------------------------------------------------
(* The handlers: what each does with the answer `ok` to its present call.   *)

Place(t) == thread[t].pc
Go(t, place) == thread' = [thread EXCEPT ![t].pc = place] /\ UNCHANGED <<alive, lost>>
Answer(t, r) == thread' = [thread EXCEPT ![t] = [Idle EXCEPT !.reply = r]] /\ UNCHANGED <<alive, lost>>
End(t)       == alive' = FALSE /\ UNCHANGED <<thread, lost>>
Opened(t, place) ==
  /\ thread' = [thread EXCEPT ![t].pc = place, ![t].at = remote'[thread[t].path].id]
  /\ UNCHANGED <<alive, lost>>

\* Mutated form: a file not found is looked for again.
AsksAgain(t, ok) ==
  /\ Place(t) = "exists"
  /\ CASE ok /\ thread[t].op = "getattr" -> Go(t, "attrs")
       [] ok /\ thread[t].op = "read"    -> Go(t, "open")
       [] ~ok -> Go(t, "exists")

FileExists(t, ok) ==
  /\ Place(t) = "exists"
  /\ CASE ok /\ thread[t].op = "getattr" -> Go(t, "attrs")
       [] ok /\ thread[t].op = "read"    -> Go(t, "open")
       [] ~ok /\ thread[t].op = "getattr" -> Go(t, "isdir")
       [] ~ok /\ thread[t].op = "read"    -> Answer(t, "ENOENT")

DirectoryExists(t, ok) ==
  /\ Place(t) = "isdir"
  /\ IF ok THEN Go(t, "attrs") ELSE Answer(t, "ENOENT")

\* Mutated form: the attributes of a failed sftp_stat are read.
ReadsThroughNull(t, ok) ==
  /\ Place(t) = "attrs"
  /\ IF ok THEN Answer(t, "ok") ELSE End(t)

\* A failed sftp_stat leaves the struct as the handler found it.
GetAttributes(t, ok) ==
  /\ Place(t) = "attrs"
  /\ Answer(t, IF ok THEN "ok" ELSE "unfilled")

\* Mutated form: one turn is taken for all.
ListsOnce(t, ok) ==
  \/ Place(t) = "opendir" /\ IF ok THEN Go(t, "list") ELSE Answer(t, "ok")
  \/ /\ Place(t) = "list"
     /\ \E some \in SUBSET {p \in Paths : Present(p)} :
          thread' = [thread EXCEPT ![t].seen = some, ![t].pc = "closedir"]
     /\ UNCHANGED <<alive, lost>>
  \/ Place(t) = "closedir" /\ Answer(t, "ok")

\* Each turn of the loop hands on some names not handed on yet; when none are
\* left the directory is at its end.  A turn that fails gives up without
\* sftp_closedir.  The answer is success in every case.
ListFilesInDir(t, ok) ==
  \/ /\ Place(t) = "opendir"
     /\ IF ok THEN Go(t, "list") ELSE Answer(t, "ok")
  \/ /\ Place(t) = "list"
     /\ LET left == {p \in Paths : Present(p)} \ thread[t].seen
        IN  \/ /\ ok /\ left # {}
               /\ \E some \in SUBSET left \ {{}} :
                    thread' = [thread EXCEPT ![t].seen = @ \cup some]
               /\ UNCHANGED <<alive, lost>>
            \/ ok /\ left = {} /\ Go(t, "closedir")
            \/ /\ ~ok
               /\ thread' = [thread EXCEPT ![t] = [Idle EXCEPT !.reply = "ok"]]
               /\ lost' = lost + 1
               /\ UNCHANGED alive
  \/ Place(t) = "closedir" /\ Answer(t, "ok")

\* sftp_read takes the NULL handle of a failed open, or answers -1: either way
\* `new char[read_size]` or the NULL access ends the process.
ReadFileContent(t, ok) ==
  \/ Place(t) = "open" /\ thread[t].op = "read" /\ IF ok THEN Opened(t, "read") ELSE End(t)
  \/ Place(t) = "read" /\ IF ok THEN Go(t, "close") ELSE End(t)
  \/ Place(t) = "close" /\ thread[t].op = "read" /\ Answer(t, "ok")

\* Mutated form: the file is opened and closed, not written.
SkipsWrite(t, ok) ==
  \/ Place(t) = "open" /\ thread[t].op = "write" /\ ok /\ Opened(t, "close")
  \/ Place(t) = "open" /\ thread[t].op = "write" /\ ~ok /\ (Answer(t, "ok") \/ End(t))
  \/ Place(t) = "close" /\ thread[t].op = "write" /\ Answer(t, "ok")

\* sftp_write and sftp_close of a NULL handle are undefined: they end the
\* process or answer an error, which is printed.
WriteFileContent(t, ok) ==
  \/ Place(t) = "open" /\ thread[t].op = "write" /\ ok /\ Opened(t, "write")
  \/ Place(t) = "open" /\ thread[t].op = "write" /\ ~ok /\ (Answer(t, "ok") \/ End(t))
  \/ Place(t) = "write" /\ Go(t, "close")
  \/ Place(t) = "close" /\ thread[t].op = "write" /\ Answer(t, "ok")

\* Mutated forms: the handle stays open; one that was not opened is closed.
KeepsHandle(t, ok) == Place(t) = "creat" /\ Answer(t, "ok")

ClosesUnopened(t, ok) ==
  \/ Place(t) = "creat" /\ Go(t, "close")
  \/ Place(t) = "close" /\ thread[t].op = "create" /\ Answer(t, "ok")

CreateFile(t, ok) ==
  \/ Place(t) = "creat" /\ ok /\ Opened(t, "close")
  \/ Place(t) = "creat" /\ ~ok /\ (Answer(t, "ok") \/ End(t))
  \/ Place(t) = "close" /\ thread[t].op = "create" /\ Answer(t, "ok")

\* "truncate not implemented": no call goes out, and the answer is success.
TruncateFile(t) ==
  /\ alive /\ Place(t) = "truncate"
  /\ Answer(t, "ok")
  /\ UNCHANGED <<remote, handles, link, call, clean, faults, others>>

\* One call each; an error is printed.
SetFileMode(t)     == Place(t) = "chmod"   /\ Answer(t, "ok")
RenameFile(t)      == Place(t) = "rename"  /\ Answer(t, "ok")
CreateDirectory(t) == Place(t) = "mkdir"   /\ Answer(t, "ok")
RemoveDirectory(t) == Place(t) = "rmdir"   /\ Answer(t, "ok")
RemoveFile(t)      == Place(t) = "unlink"  /\ Answer(t, "ok")
SetTimes(t)        == Place(t) = "utimens" /\ Answer(t, "ok")
ChangeOwnership(t) == Place(t) = "chown"   /\ Answer(t, "ok")

Handler(t, ok) ==
  \/ FileExists(t, ok) \/ DirectoryExists(t, ok) \/ GetAttributes(t, ok)
  \/ ListFilesInDir(t, ok) \/ ReadFileContent(t, ok) \/ WriteFileContent(t, ok)
  \/ CreateFile(t, ok) \/ SetFileMode(t) \/ RenameFile(t) \/ CreateDirectory(t)
  \/ RemoveDirectory(t) \/ RemoveFile(t) \/ SetTimes(t) \/ ChangeOwnership(t)

-----------------------------------------------------------------------------
(* The server, the link and the shared session.                             *)

\* The server can carry the present call of t out.
Accepts(t) ==
  LET p == thread[t].path  q == thread[t].to IN
  CASE Place(t) \in Stats \cup Changes -> Present(p)
    [] Place(t) \in {"open", "unlink"} -> IsFile(p)
    [] Place(t) = "creat"  -> ~IsDir(p)
    [] Place(t) = "mkdir"  -> ~Present(p)
    [] Place(t) = "rmdir"  -> IsDir(p)
    [] Place(t) = "rename" -> /\ Present(p)
                              /\ \/ ~Present(q)
                                 \/ RenameReplaces /\ remote[q].kind = remote[p].kind
    [] OTHER -> TRUE

\* Something new, under a number nothing has.
New(kind) ==
  LET used == {remote[p].id : p \in Paths} \cup {thread[s].at : s \in Threads}
      id   == CHOOSE n \in Numbers \ used : \A m \in Numbers \ used : n <= m
  IN  [Absent EXCEPT !.kind = kind, !.id = id]

\* What it leaves behind when it does.
Effect(t) ==
  LET p == thread[t].path  q == thread[t].to IN
  CASE Place(t) = "creat" /\ ~Present(p) -> [remote EXCEPT ![p] = New("file")]
    [] Place(t) = "mkdir"  -> [remote EXCEPT ![p] = New("dir")]
    [] Place(t) \in {"unlink", "rmdir"} -> [remote EXCEPT ![p] = Absent]
    [] Place(t) = "rename" -> [remote EXCEPT ![q] = remote[p], ![p] = Absent]
    [] Place(t) \in Changes -> [remote EXCEPT ![p].attr = thread[t].val]
    [] Place(t) = "write" -> [n \in Paths |-> IF remote[n].id = thread[t].at
                                THEN [remote[n] EXCEPT !.text = thread[t].val] ELSE remote[n]]
    [] OTHER -> remote

Holding(t) == Place(t) \in Uses \cup Closes

\* A call goes out.  libssh keeps no lock: two at once on one session are
\* undefined behaviour.
Send(t) ==
  LET peers == {s \in Threads \ {t} : call[s] # "no"} IN
  /\ alive /\ Place(t) \in Places /\ call[t] = "no"
  /\ call' = [s \in Threads |-> IF peers # {} /\ s \in peers \cup {t} THEN "mixed"
                                ELSE IF s = t THEN "sent" ELSE call[s]]
  /\ clean' = [s \in Threads |-> clean[s] /\ (peers = {} \/ s \notin peers \cup {t})]
  /\ UNCHANGED <<remote, handles, link, alive, thread, lost, faults, others>>

Waits(t)    == alive /\ call[t] # "no"
Returns(t)  == call' = [call EXCEPT ![t] = "no"]
Spoilt(hit) == clean' = [s \in Threads |-> clean[s] /\ s \notin hit]

\* A write goes to the file that was opened, wherever another client has moved
\* it: whoever is at work there is disturbed.
Strays(t) == {s \in Threads \ {t} : Place(t) = "write" /\
                \E p \in Names(s) \ Names(t) : remote[p].id = thread[t].at}

\* The answer comes: the call done, or declined for what the server holds, or
\* refused for reasons of its own (rights, quota, a full disk).
Granted(t) ==
  /\ Waits(t) /\ link = "up" /\ Accepts(t)
  /\ remote' = Effect(t)
  /\ handles' = CASE Place(t) \in Opens  -> handles + 1
                  [] Place(t) \in Closes -> handles - 1
                  [] OTHER -> handles
  /\ Handler(t, TRUE)
  /\ Returns(t) /\ Spoilt(Strays(t))
  /\ UNCHANGED <<link, faults, others>>

Declined(t) ==
  /\ Waits(t) /\ link = "up" /\ ~Accepts(t)
  /\ Handler(t, FALSE)
  /\ Returns(t)
  /\ UNCHANGED <<remote, handles, link, clean, faults, others>>

Refused(t) ==
  /\ Waits(t) /\ link = "up" /\ Accepts(t)
  /\ faults < MaxFaults
  /\ handles' = IF Place(t) \in Closes THEN handles - 1 ELSE handles
  /\ Handler(t, FALSE)
  /\ Returns(t) /\ Spoilt({t})
  /\ faults' = faults + 1
  /\ UNCHANGED <<remote, link, others>>

\* The link breaks before the answer is here, the call carried out or not.
Breaks(t) ==
  /\ remote' \in {remote} \cup (IF Accepts(t) THEN {Effect(t)} ELSE {})
  /\ link' = "down" /\ handles' = 0
  /\ Handler(t, FALSE)
  /\ Returns(t) /\ Spoilt(Threads)
  /\ UNCHANGED others

CutOff(t) ==
  /\ Waits(t) /\ link = "up" /\ faults < MaxFaults
  /\ Breaks(t)
  /\ faults' = faults + 1

\* On a broken session every call fails at once.
NoLink(t) ==
  /\ Waits(t) /\ link = "down"
  /\ Handler(t, FALSE)
  /\ Returns(t)
  /\ UNCHANGED <<remote, handles, link, clean, faults, others>>

\* What overlapping calls may come to, besides going well: the process ends,
\* the session breaks, or both wait for answers the other one has taken.
Garbled(t) ==
  /\ Waits(t) /\ link = "up" /\ call[t] = "mixed"
  /\ \/ /\ alive' = FALSE
        /\ UNCHANGED <<remote, handles, link, thread, call, clean, lost, faults, others>>
     \/ Breaks(t) /\ UNCHANGED faults
     \/ /\ link' = "stuck"
        /\ UNCHANGED <<remote, handles, alive, thread, call, clean, lost, faults, others>>

Drop ==
  /\ alive /\ link \in {"up", "silent"} /\ faults < MaxFaults
  /\ link' = "down" /\ handles' = 0
  /\ faults' = faults + 1
  /\ Spoilt(Threads)
  /\ UNCHANGED <<remote, alive, thread, call, lost, others>>

Hush ==
  /\ alive /\ link = "up" /\ faults < MaxFaults
  /\ link' = "silent"
  /\ faults' = faults + 1
  /\ UNCHANGED <<remote, handles, alive, thread, call, clean, lost, others>>

Resume ==
  /\ alive /\ link = "silent"
  /\ link' = "up"
  /\ UNCHANGED <<remote, handles, alive, thread, call, clean, lost, faults, others>>

\* Another client makes something at p, removes it, or moves it to q.
Other(hit, tree) ==
  /\ alive /\ others < MaxOthers
  /\ remote' = tree
  /\ Spoilt({s \in Threads : Names(s) \cap hit # {}})
  /\ others' = others + 1
  /\ UNCHANGED <<handles, link, alive, thread, call, lost, faults>>

OtherMakes(p, kind) == ~Present(p) /\ Other({p}, [remote EXCEPT ![p] = New(kind)])
OtherRemoves(p)     == Present(p) /\ Other({p}, [remote EXCEPT ![p] = Absent])
OtherMoves(p, q)    == p # q /\ Present(p) /\ Other({p, q}, [remote EXCEPT ![q] = remote[p], ![p] = Absent])

-----------------------------------------------------------------------------
Step(t) == Send(t) \/ Granted(t) \/ Declined(t) \/ NoLink(t) \/ TruncateFile(t)

Next ==
  \/ \E t \in Threads, op \in Ops, p, q \in Paths, v \in Data : Start(t, op, p, q, v)
  \/ \E t \in Threads : Step(t) \/ Refused(t) \/ CutOff(t) \/ Garbled(t)
  \/ Drop \/ Hush \/ Resume
  \/ \E p \in Paths, kind \in {"file", "dir"} : OtherMakes(p, kind)
  \/ \E p \in Paths : OtherRemoves(p) \/ \E q \in Paths : OtherMoves(p, q)

Spec == Init /\ [][Next]_vars

\* Worker threads are scheduled, and a server that can be reached answers.
FairSpec == Spec /\ \A t \in Threads : WF_vars(Step(t))

-----------------------------------------------------------------------------
(* Properties.                                                              *)

TypeOK ==
  /\ remote \in [Paths -> Node]
  /\ handles \in Nat /\ lost \in Nat
  /\ link \in {"up", "silent", "down", "stuck"}
  /\ alive \in BOOLEAN
  /\ thread \in [Threads -> Thread]
  /\ call \in [Threads -> Waiting]
  /\ clean \in [Threads -> BOOLEAN]
  /\ faults \in 0..MaxFaults /\ others \in 0..MaxOthers

Answers(t) == Busy(t) /\ thread'[t].op = "none"

\* The step that answers t's request leaves the server as the request asked.
Took(t) ==
  LET r == thread[t]  reply == thread'[t].reply IN
  CASE r.op = "create" -> remote'[r.path].kind = "file"
    [] r.op = "mkdir"  -> remote'[r.path].kind = "dir"
    [] r.op \in {"unlink", "rmdir"} -> remote'[r.path] = Absent
    [] r.op = "rename" -> remote'[r.to] = remote[r.path] /\ remote'[r.path] = Absent
    [] r.op \in Changes -> remote'[r.path].attr = r.val
    [] r.op = "write"  -> remote'[r.path].text = r.val
    [] r.op = "readdir" -> r.seen = {p \in Paths : Present(p)}
    [] r.op \in {"getattr", "read"} -> reply = IF Present(r.path) THEN "ok" ELSE "ENOENT"

\* What a success is worth although no handler looks at an error: every request
\* but a truncate takes effect when it ran without a failure, without another
\* client at its names and without a second call on the session.  What other
\* threads of the same mount do between its calls never harms it.  A truncate
\* is left out: truncate_file does nothing, and mg_truncate answers success all
\* the same.  What that leaves of the file is the matter of FileIO.
CleanTakesEffect ==
  [][\A t \in Threads : Answers(t) /\ clean'[t] /\ thread[t].op # "truncate" => Took(t)]_vars

\* A request that nothing disturbed never ends the process.  One that was
\* disturbed does only if it opens a file, or if two calls overlapped.
DisturbedOpensEnd ==
  [][alive /\ ~alive' => \E t \in Threads :
       \/ call[t] = "mixed"
       \/ ~clean'[t] /\ thread[t].op \in {"read", "write", "create"}]_vars

\* Each handle of the server belongs to a request that still runs, but for
\* those of listings that failed: list_files_in_dir returns without closing.
HandlesAccounted ==
  alive /\ link # "down" =>
    handles = Cardinality({t \in Threads : Holding(t)}) + lost

\* Every request is answered, whatever fails, unless the process ends, or the
\* link falls silent or gets garbled for good: then none is, for no call has a
\* timeout.
RequestsAnswered ==
  \A t \in Threads :
    [](Busy(t) => <>(~Busy(t) \/ ~alive \/ [](link \in {"silent", "stuck"})))

-----------------------------------------------------------------------------
(* What the repository says and the code does not do.                       *)

\* README "rename files with mv": a rename answered with success is done.
MovesTakeEffect ==
  [][\A t \in Threads : Answers(t) /\ thread[t].op = "rename" => Took(t)]_vars
=============================================================================
