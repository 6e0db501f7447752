--------------------------- MODULE SshBackendProofs ---------------------------
(***************************************************************************)
(* Proofs about SshBackend, for every number of threads, names, contents   *)
(* and failures, and whatever requests clients send.                       *)
(***************************************************************************)
EXTENDS SshBackend, VectorLemmas, FiniteSetTheorems

-----------------------------------------------------------------------------
(* The invariant.                                                           *)

\* At which places of its handler a request can be.
Fits(t) ==
  LET op == thread[t].op  pc == thread[t].pc IN
  /\ op = "truncate" => pc = "truncate"
  /\ op = "none"    <=> pc = "idle"
  /\ op = "getattr" => pc \in {"exists", "isdir", "attrs"}
  /\ op = "read"    => pc \in {"exists", "open", "read", "close"}
  /\ op = "write"   => pc \in {"open", "write", "close"}
  /\ op = "create"  => pc \in {"creat", "close"}
  /\ op = "readdir" => pc \in {"opendir", "list", "closedir"}
  /\ op \in OneCall => pc = op
  /\ op # "none"    => (op = "rename" <=> thread[t].path # thread[t].to)

\* What is there has a number.
Numbered(tree) == \A p \in Paths : tree[p].kind # "none" <=> tree[p].id # 0

\* Who waits for the server runs a request, and no truncate.
Called(t) == call[t] # "no" => Busy(t) /\ thread[t].op # "truncate"

\* Types, places and handles: what holds of every request.
Base ==
  /\ TypeOK
  /\ Numbered(remote)
  /\ \A t \in Threads : Fits(t)
  /\ \A t \in Threads : Called(t)
  /\ HandlesAccounted

\* What the locks keep apart while both run.
Apart(s, t) ==
  /\ thread[s].op \in Erasers => Names(s) \cap Names(t) = {}
  /\ thread[s].op \in Modifiers => thread[t].op \notin Modifiers \cup {"readdir"}
  /\ thread[s].op = "write" /\ thread[t].op = "write" => thread[s].path # thread[t].path

LocksHold == \A s, t \in Threads : s # t /\ Busy(s) /\ Busy(t) => Apart(s, t)

\* What a request that nothing disturbed can count on.
Ready(t) ==
  LET r == thread[t]  here == remote[thread[t].path] IN
  /\ link # "down"
  /\ r.op \in {"read", "write", "unlink"} => here.kind = "file"
  /\ r.op \in {"create"} => IF r.pc = "close" THEN here.kind = "file" ELSE here.kind # "dir"
  /\ r.op = "mkdir" => here.kind = "none"
  /\ r.op = "rmdir" => here.kind = "dir"
  /\ r.op \in Changes => here.kind # "none"
  /\ r.op = "rename" => here.kind # "none" /\ remote[r.to].kind \in {"none", here.kind}
  /\ r.op = "getattr" /\ r.pc = "attrs" => here.kind # "none"
  /\ r.op = "write" /\ r.pc = "write" => here.id = r.at
  /\ r.op = "write" /\ r.pc = "close" => here.text = r.val
  /\ r.op = "readdir" => r.seen \subseteq {p \in Paths : Present(p)}
  /\ r.pc = "closedir" => r.seen = {p \in Paths : Present(p)}

IInv ==
  /\ Base
  /\ LocksHold
  /\ \A t \in Threads : Busy(t) /\ clean[t] => Ready(t)

-----------------------------------------------------------------------------
(* Numbers of files: one is always free for a new file.                     *)

\* A function takes at most as many values as it has arguments.
LEMMA ImageCardinality ==
  ASSUME NEW S, IsFiniteSet(S), NEW f, DOMAIN f = S, f = [x \in S |-> f[x]]
  PROVE  IsFiniteSet({f[x] : x \in S}) /\ Cardinality({f[x] : x \in S}) <= Cardinality(S)
<1> DEFINE T == {f[x] : x \in S}
<1>1. f \in Surjection(S, T)
  BY DEF Surjection
<1> QED
  BY <1>1, FS_Surjection

\* There are as many numbers as names and threads.
LEMMA NumbersRange ==
  /\ IsFiniteSet(Numbers) /\ Numbers \subseteq Nat /\ 0 \notin Numbers
  /\ Cardinality(Paths) \in Nat /\ Cardinality(Threads) \in Nat
  /\ Cardinality(Numbers) = Cardinality(Paths) + Cardinality(Threads)
<1>1. Cardinality(Paths) \in Nat /\ Cardinality(Threads) \in Nat
  BY PathsAssumption, ThreadsAssumption, FS_CardinalityType
<1> DEFINE last == Cardinality(Paths) + Cardinality(Threads)
<1>2. 1 \in Int /\ last \in Int /\ last >= 0
  BY <1>1
<1> HIDE DEF last
<1>3. IsFiniteSet(1..last) /\ Cardinality(1..last) = IF 1 > last THEN 0 ELSE last - 1 + 1
  BY <1>2, FS_Interval
<1>4. Cardinality(1..last) = last
  BY <1>2, <1>3
<1> QED
  BY <1>1, <1>3, <1>4 DEF Numbers, last

\* A new file finds a free number: each name and each thread holds one at most.
LEMMA NewNode ==
  ASSUME TypeOK, NEW p \in Paths, remote[p].id = 0, NEW kind \in {"file", "dir"}
  PROVE  New(kind) \in Node /\ New(kind).kind = kind /\ New(kind).id # 0
<1> DEFINE ids  == [n \in Paths \ {p} |-> remote[n].id]
           ats  == [s \in Threads |-> thread[s].at]
           used == {remote[n].id : n \in Paths} \cup {thread[s].at : s \in Threads}
           A == {ids[n] : n \in Paths \ {p}}
           B == {ats[s] : s \in Threads}
           id == CHOOSE n \in Numbers \ used : \A m \in Numbers \ used : n <= m
<1>1. /\ IsFiniteSet(Paths \ {p})
      /\ Cardinality(Paths \ {p}) = Cardinality(Paths) - 1
  BY PathsAssumption, FS_RemoveElement
<1>2. IsFiniteSet(A) /\ Cardinality(A) <= Cardinality(Paths) - 1
  <2> HIDE DEF A
  <2>1. A = {ids[n] : n \in Paths \ {p}} /\ DOMAIN ids = Paths \ {p} /\ ids = [x \in Paths \ {p} |-> ids[x]]
    BY DEF A
  <2> HIDE DEF ids
  <2> QED
    BY <1>1, <2>1, ImageCardinality
<1>3. IsFiniteSet(B) /\ Cardinality(B) <= Cardinality(Threads)
  <2> HIDE DEF B
  <2>1. B = {ats[s] : s \in Threads} /\ DOMAIN ats = Threads /\ ats = [x \in Threads |-> ats[x]]
    BY DEF B
  <2> HIDE DEF ats
  <2> QED
    BY ThreadsAssumption, <2>1, ImageCardinality
<1>4. \A n \in used : n = 0 \/ n \in A \cup B
  OBVIOUS
<1> HIDE DEF A, B, used, ids, ats
<1>5. IsFiniteSet(A \cup B) /\ Cardinality(A \cup B) < Cardinality(Numbers)
  <2>1. /\ IsFiniteSet(A \cup B)
        /\ Cardinality(A \cup B) = Cardinality(A) + Cardinality(B) - Cardinality(A \cap B)
    BY <1>2, <1>3, FS_Union
  <2>2. IsFiniteSet(A \cap B) /\ Cardinality(A \cap B) \in Nat
    <3>1. IsFiniteSet(A \cap B)
      BY <1>2, FS_Subset
    <3> QED
      BY <3>1, FS_CardinalityType
  <2>3. Cardinality(A) \in Nat /\ Cardinality(B) \in Nat
    BY <1>2, <1>3, FS_CardinalityType
  <2> QED
    BY <1>2, <1>3, <2>1, <2>2, <2>3, NumbersRange
<1>6. Numbers \ used # {}
  <2>1. SUFFICES ASSUME Numbers \subseteq used PROVE FALSE
    OBVIOUS
  <2>2. Numbers \subseteq A \cup B
    BY <1>4, <2>1, NumbersRange
  <2>3. Cardinality(Numbers) <= Cardinality(A \cup B)
    BY <1>5, <2>2, FS_Subset
  <2>4. Cardinality(Numbers) \in Nat /\ Cardinality(A \cup B) \in Nat
    BY <1>5, NumbersRange, FS_CardinalityType
  <2> QED
    BY <1>5, <2>3, <2>4
<1>7. id \in Numbers
  <2>1. Numbers \ used \in SUBSET Nat
    BY NumbersRange
  <2>2. Min(Numbers \ used) \in Numbers \ used
    BY <1>6, <2>1, MinProperties
  <2> QED
    BY <2>2 DEF Min
<1>8. New(kind) = [Absent EXCEPT !.kind = kind, !.id = id]
  BY DEF New, used
<1> HIDE DEF id
<1> QED
  BY <1>7, <1>8, NumbersRange, DataAssumption DEF Absent, Node

-----------------------------------------------------------------------------
(* What a call leaves on the server.                                        *)

\* What the server makes of a call it accepts is a tree with numbered files.
LEMMA EffectType ==
  ASSUME TypeOK, Numbered(remote), NEW t \in Threads, Accepts(t)
  PROVE  Effect(t) \in [Paths -> Node] /\ Numbered(Effect(t))
<1> DEFINE p == thread[t].path
           q == thread[t].to
<1>1. /\ p \in Paths /\ q \in Paths /\ remote \in [Paths -> Node] /\ remote[p] \in Node
      /\ thread[t].val \in Data
  BY DEF TypeOK, Thread
<1>2. Absent \in Node /\ Absent.kind = "none" /\ Absent.id = 0
  BY DataAssumption DEF Absent, Node
<1>3. ASSUME NEW n \in Paths, remote[n].kind = "none"
      PROVE  /\ New("file") \in Node /\ New("file").kind = "file" /\ New("file").id # 0
             /\ New("dir") \in Node /\ New("dir").kind = "dir" /\ New("dir").id # 0
  <2>1. remote[n].id = 0
    BY <1>3 DEF Numbered
  <2> QED
    BY <2>1, NewNode
<1>4. ASSUME NEW tree \in [Paths -> Node], Numbered(tree),
             NEW n \in Paths, NEW v \in Node, v.kind # "none" <=> v.id # 0,
             NEW new, new = [tree EXCEPT ![n] = v]
      PROVE  new \in [Paths -> Node] /\ Numbered(new)
  BY <1>4 DEF Numbered
<1>5. CASE Place(t) = "creat" /\ ~Present(p)
  <2>1. Effect(t) = [remote EXCEPT ![p] = New("file")]
    BY <1>5 DEF Effect, Changes
  <2>2. New("file") \in Node /\ New("file").kind # "none" /\ New("file").id # 0
    BY <1>1, <1>3, <1>5 DEF Present
  <2> QED
    BY <1>1, <1>4, <2>1, <2>2
<1>6. CASE Place(t) = "mkdir"
  <2>1. Effect(t) = [remote EXCEPT ![p] = New("dir")] /\ ~Present(p)
    BY <1>6 DEF Effect, Accepts, Stats, Changes
  <2>2. New("dir") \in Node /\ New("dir").kind # "none" /\ New("dir").id # 0
    BY <1>1, <1>3, <2>1 DEF Present
  <2> QED
    BY <1>1, <1>4, <2>1, <2>2
<1>7. CASE Place(t) \in {"unlink", "rmdir"}
  <2>1. Effect(t) = [remote EXCEPT ![p] = Absent]
    BY <1>7 DEF Effect, Changes
  <2> QED
    BY <1>1, <1>2, <1>4, <2>1
<1>8. CASE Place(t) = "rename"
  <2>1. Effect(t) = [[remote EXCEPT ![q] = remote[p]] EXCEPT ![p] = Absent]
    BY <1>1, <1>8 DEF Effect, Changes
  <2>2. remote[p].kind # "none" <=> remote[p].id # 0
    BY <1>1 DEF Numbered
  <2>3. [remote EXCEPT ![q] = remote[p]] \in [Paths -> Node] /\ Numbered([remote EXCEPT ![q] = remote[p]])
    BY <1>1, <1>4, <2>2
  <2> HIDE DEF p, q
  <2> QED
    BY <1>1, <1>2, <1>4, <2>1, <2>3
<1>9. CASE Place(t) \in Changes
  <2> DEFINE v == [remote[p] EXCEPT !.attr = thread[t].val]
  <2>1. Effect(t) = [remote EXCEPT ![p] = v]
    BY <1>1, <1>9 DEF Effect, Changes
  <2>2. v \in Node /\ v.kind = remote[p].kind /\ v.id = remote[p].id
    BY <1>1 DEF Node
  <2>3. remote[p].kind # "none" <=> remote[p].id # 0
    BY <1>1 DEF Numbered
  <2> HIDE DEF v
  <2> QED
    BY <1>1, <1>4, <2>1, <2>2, <2>3
<1>10. CASE Place(t) = "write"
  <2>1. Effect(t) = [n \in Paths |-> IF remote[n].id = thread[t].at
                                       THEN [remote[n] EXCEPT !.text = thread[t].val] ELSE remote[n]]
    BY <1>10 DEF Effect, Changes
  <2>2. ASSUME NEW n \in Paths
        PROVE  /\ Effect(t)[n] \in Node
               /\ Effect(t)[n].kind = remote[n].kind /\ Effect(t)[n].id = remote[n].id
    BY <1>1, <2>1 DEF Node
  <2> QED
    BY <2>1, <2>2 DEF Numbered
<1>11. CASE /\ ~(Place(t) = "creat" /\ ~Present(p))
            /\ Place(t) \notin {"mkdir", "unlink", "rmdir", "rename", "write"} \cup Changes
  BY <1>1, <1>11 DEF Effect
<1> QED
  BY <1>5, <1>6, <1>7, <1>8, <1>9, <1>10, <1>11

-----------------------------------------------------------------------------
(* The handlers as one table: at which place an answer has which outcome.   *)

Lists(t) ==
  /\ \E some \in SUBSET ({p \in Paths : Present(p)} \ thread[t].seen) :
       thread' = [thread EXCEPT ![t].seen = @ \cup some]
  /\ UNCHANGED <<alive, lost>>

GivesUp(t) ==
  /\ thread' = [thread EXCEPT ![t] = [Idle EXCEPT !.reply = "ok"]]
  /\ lost' = lost + 1
  /\ UNCHANGED alive

Outcome(t, ok) ==
  LET pc == thread[t].pc  op == thread[t].op IN
  \/ pc = "exists" /\ ok /\ op = "getattr" /\ Go(t, "attrs")
  \/ pc = "exists" /\ ok /\ op = "read" /\ Go(t, "open")
  \/ pc = "exists" /\ ~ok /\ op = "getattr" /\ Go(t, "isdir")
  \/ pc = "exists" /\ ~ok /\ op = "read" /\ Answer(t, "ENOENT")
  \/ pc = "isdir" /\ ok /\ Go(t, "attrs")
  \/ pc = "isdir" /\ ~ok /\ Answer(t, "ENOENT")
  \/ pc = "attrs" /\ ok /\ Answer(t, "ok")
  \/ pc = "attrs" /\ ~ok /\ Answer(t, "unfilled")
  \/ pc = "opendir" /\ ok /\ Go(t, "list")
  \/ pc = "opendir" /\ ~ok /\ Answer(t, "ok")
  \/ pc = "list" /\ ok /\ Lists(t)
  \/ pc = "list" /\ ok /\ {p \in Paths : Present(p)} \subseteq thread[t].seen /\ Go(t, "closedir")
  \/ pc = "list" /\ ~ok /\ GivesUp(t)
  \/ pc = "open" /\ op = "read" /\ ok /\ Opened(t, "read")
  \/ pc = "open" /\ op = "read" /\ ~ok /\ End(t)
  \/ pc = "open" /\ op = "write" /\ ok /\ Opened(t, "write")
  \/ pc = "open" /\ op = "write" /\ ~ok /\ (Answer(t, "ok") \/ End(t))
  \/ pc = "read" /\ ok /\ Go(t, "close")
  \/ pc = "read" /\ ~ok /\ End(t)
  \/ pc = "write" /\ Go(t, "close")
  \/ pc = "creat" /\ ok /\ Opened(t, "close")
  \/ pc = "creat" /\ ~ok /\ (Answer(t, "ok") \/ End(t))
  \/ pc \in {"close", "closedir"} \cup OneCall /\ Answer(t, "ok")

\* Whose place each place is.
LEMMA PlacesOfOps ==
  ASSUME TypeOK, NEW t \in Threads, Fits(t)
  PROVE  /\ thread[t].op \in {"none", "getattr", "read", "write", "create", "readdir", "truncate"} \cup OneCall
         /\ thread[t].pc = "exists" => thread[t].op \in {"getattr", "read"}
         /\ thread[t].pc \in {"isdir", "attrs"} => thread[t].op = "getattr"
         /\ thread[t].pc = "open" => thread[t].op \in {"read", "write"}
         /\ thread[t].pc = "read" => thread[t].op = "read"
         /\ thread[t].pc = "write" => thread[t].op = "write"
         /\ thread[t].pc = "creat" => thread[t].op = "create"
         /\ thread[t].pc \in {"opendir", "list", "closedir"} => thread[t].op = "readdir"
         /\ thread[t].pc = "close" => thread[t].op \in {"read", "write", "create"}
         /\ thread[t].pc \in OneCall \cup {"truncate"} => thread[t].op = thread[t].pc
<1>1. thread[t].op \in Ops \cup {"none"}
  BY DEF TypeOK, Thread
<1> QED
  BY <1>1, OpsAssumption DEF Fits, AllOps, Modifiers, Writers, Changes, OneCall

\* Each handler does with the answer of a call what the table says.
LEMMA HandlerTable ==
  ASSUME TypeOK, NEW t \in Threads, Fits(t), NEW ok \in BOOLEAN, Handler(t, ok)
  PROVE  Outcome(t, ok)
<1>1. CASE FileExists(t, ok)
  <2>1. thread[t].pc = "exists" /\ thread[t].op \in {"getattr", "read"}
    BY <1>1, PlacesOfOps DEF FileExists, Place
  <2> QED
    BY <1>1, <2>1 DEF FileExists, Outcome
<1>2. CASE DirectoryExists(t, ok) \/ GetAttributes(t, ok)
  BY <1>2 DEF DirectoryExists, GetAttributes, Place, Outcome
<1>3. CASE ListFilesInDir(t, ok)
  <2>1. CASE Place(t) # "list"
    BY <1>3, <2>1 DEF ListFilesInDir, Place, Outcome
  <2>2. CASE Place(t) = "list"
    BY <1>3, <2>2 DEF ListFilesInDir, Place, Outcome, Lists, GivesUp
  <2> QED
    BY <2>1, <2>2
<1>4. CASE ReadFileContent(t, ok)
  BY <1>4 DEF ReadFileContent, Place, Outcome
<1>5. CASE WriteFileContent(t, ok)
  BY <1>5 DEF WriteFileContent, Place, Outcome
<1>6. CASE CreateFile(t, ok)
  BY <1>6 DEF CreateFile, Place, Outcome
<1>7. CASE \/ SetFileMode(t) \/ RenameFile(t) \/ CreateDirectory(t) \/ RemoveDirectory(t)
           \/ RemoveFile(t) \/ SetTimes(t) \/ ChangeOwnership(t)
  BY <1>7 DEF SetFileMode, RenameFile, CreateDirectory, RemoveDirectory, RemoveFile, SetTimes,
              ChangeOwnership, Place, Outcome, OneCall, Changes
<1> QED
  BY <1>1, <1>2, <1>3, <1>4, <1>5, <1>6, <1>7 DEF Handler

\* What each outcome leaves of the thread.
Only(t) == thread' \in [Threads -> Thread] /\ \A s \in Threads : s # t => thread'[s] = thread[s]

On(t, place) ==
  /\ Only(t)
  /\ thread'[t].op = thread[t].op /\ thread'[t].path = thread[t].path /\ thread'[t].to = thread[t].to
  /\ thread'[t].val = thread[t].val /\ thread'[t].pc = place

Done(t, r) == Only(t) /\ thread'[t].op = "none" /\ thread'[t].pc = "idle" /\ thread'[t].reply = r

\* A request that goes to its next call keeps its handle and what it saw.
LEMMA GoOn ==
  ASSUME TypeOK, NEW t \in Threads, NEW place \in Places, Go(t, place)
  PROVE  On(t, place) /\ thread'[t].at = thread[t].at /\ thread'[t].seen = thread[t].seen
<1>1. thread[t] \in Thread /\ thread \in [Threads -> Thread]
  BY DEF TypeOK
<1>2. thread'[t] = [thread[t] EXCEPT !.pc = place] /\ thread' = [thread EXCEPT ![t] = thread'[t]]
  BY <1>1 DEF Go
<1>3. thread'[t] \in Thread
  BY <1>1, <1>2 DEF Thread
<1> QED
  BY <1>1, <1>2, <1>3 DEF On, Only, Thread

\* A request that opened a file has the handle of the one that is there.
LEMMA OpenedOn ==
  ASSUME TypeOK, remote' \in [Paths -> Node], NEW t \in Threads, NEW place \in Places, Opened(t, place)
  PROVE  /\ On(t, place) /\ thread'[t].at = remote'[thread[t].path].id
         /\ thread'[t].seen = thread[t].seen
<1>1. thread[t] \in Thread /\ thread \in [Threads -> Thread] /\ remote'[thread[t].path].id \in Numbers \cup {0}
  BY DEF TypeOK, Thread, Node
<1>2. /\ thread'[t] = [thread[t] EXCEPT !.pc = place, !.at = remote'[thread[t].path].id]
      /\ thread' = [thread EXCEPT ![t] = thread'[t]]
  BY <1>1 DEF Opened
<1>3. thread'[t] \in Thread
  BY <1>1, <1>2 DEF Thread
<1> QED
  BY <1>1, <1>2, <1>3 DEF On, Only, Thread

\* One turn of a listing adds names that are there.
LEMMA ListsOn ==
  ASSUME TypeOK, NEW t \in Threads, Lists(t)
  PROVE  /\ On(t, thread[t].pc)
         /\ \E some \in SUBSET {p \in Paths : Present(p)} : thread'[t].seen = thread[t].seen \cup some
<1>1. thread[t] \in Thread /\ thread \in [Threads -> Thread]
  BY DEF TypeOK
<1>2. PICK some \in SUBSET {p \in Paths : Present(p)} : thread' = [thread EXCEPT ![t].seen = @ \cup some]
  BY DEF Lists
<1>3. /\ thread'[t] = [thread[t] EXCEPT !.seen = thread[t].seen \cup some]
      /\ thread' = [thread EXCEPT ![t] = thread'[t]]
  BY <1>1, <1>2
<1>4. thread'[t] \in Thread
  BY <1>1, <1>3 DEF Thread
<1> QED
  BY <1>1, <1>3, <1>4 DEF On, Only, Thread

\* A thread without a request is well formed.
LEMMA IdleType == Idle \in Thread /\ Idle.op = "none" /\ Idle.pc = "idle"
<1>1. AnyPath \in Paths
  BY PathsAssumption DEF AnyPath
<1> QED
  BY <1>1, DataAssumption DEF Idle, Thread, Replies

\* An answer ends the request.
LEMMA AnswerDone ==
  ASSUME TypeOK, NEW t \in Threads, NEW r \in Replies, thread' = [thread EXCEPT ![t] = [Idle EXCEPT !.reply = r]]
  PROVE  Done(t, r)
<1>1. [Idle EXCEPT !.reply = r] \in Thread
  BY IdleType DEF Thread
<1>2. [Idle EXCEPT !.reply = r].op = "none" /\ [Idle EXCEPT !.reply = r].pc = "idle" /\ [Idle EXCEPT !.reply = r].reply = r
  BY DEF Idle
<1> HIDE DEF Idle
<1> QED
  BY <1>1, <1>2 DEF Done, Only, TypeOK

\* A request that goes on is the same request; one that does not is over, or
\* the process is.
Same(t) ==
  thread'[t].op = thread[t].op /\ thread'[t].path = thread[t].path /\ thread'[t].to = thread[t].to
  /\ thread'[t].val = thread[t].val

\* Whatever the answer, the request goes on to a place of its handler.
LEMMA OutcomeFits ==
  ASSUME TypeOK, remote' \in [Paths -> Node], NEW t \in Threads, Fits(t), NEW ok \in BOOLEAN, Outcome(t, ok)
  PROVE  Only(t) /\ Fits(t)' /\ (Same(t) \/ thread'[t].op = "none")
<1>1. ASSUME NEW place \in Places, On(t, place),
             thread[t].op = "getattr" => place \in {"isdir", "attrs"},
             thread[t].op = "read"    => place \in {"open", "read", "close"},
             thread[t].op = "write"   => place \in {"write", "close"},
             thread[t].op = "create"  => place = "close",
             thread[t].op = "readdir" => place \in {"list", "closedir"},
             thread[t].op \notin OneCall \cup {"none", "truncate"}
      PROVE  Only(t) /\ Fits(t)' /\ Same(t)
  <2>1. Only(t) /\ Same(t) /\ thread'[t].pc = place
    BY <1>1 DEF On, Same
  <2>2. place # "idle"
    BY DEF Places, Stats, Opens, Uses, Closes, OneCall, Changes
  <2> QED
    BY <1>1, <2>1, <2>2 DEF Fits, Same
<1>2. ASSUME NEW r, Done(t, r) PROVE Only(t) /\ Fits(t)' /\ thread'[t].op = "none"
  BY <1>2 DEF Done, Fits, OneCall, Changes
<1>3. ASSUME NEW r \in Replies, Answer(t, r) PROVE Only(t) /\ Fits(t)' /\ thread'[t].op = "none"
  BY <1>2, <1>3, AnswerDone DEF Answer
<1>4. "ok" \in Replies /\ "ENOENT" \in Replies /\ "unfilled" \in Replies
  BY DEF Replies
<1>5. /\ "attrs" \in Places /\ "isdir" \in Places /\ "open" \in Places /\ "read" \in Places
      /\ "write" \in Places /\ "close" \in Places /\ "list" \in Places /\ "closedir" \in Places
  BY DEF Places, Stats, Opens, Uses, Closes
<1>6. CASE thread[t].pc \in {"exists", "isdir", "attrs"}
  <2>1. /\ thread[t].op \in {"getattr", "read"} /\ thread[t].op \notin OneCall
        /\ thread[t].pc # "exists" => thread[t].op = "getattr"
    BY <1>6, PlacesOfOps DEF OneCall, Changes
  <2>2. CASE \E r \in {"ok", "ENOENT", "unfilled"} : Answer(t, r)
    BY <1>3, <1>4, <2>2
  <2>3. CASE thread[t].op = "getattr" /\ (Go(t, "attrs") \/ Go(t, "isdir"))
    BY <1>1, <1>5, <2>1, <2>3, GoOn
  <2>4. CASE thread[t].op = "read" /\ Go(t, "open")
    BY <1>1, <1>5, <2>1, <2>4, GoOn
  <2> QED
    BY <1>6, <2>1, <2>2, <2>3, <2>4 DEF Outcome, OneCall, Changes
<1>7. CASE thread[t].pc \in {"opendir", "list", "closedir"}
  <2>1. thread[t].op = "readdir" /\ thread[t].op \notin OneCall
    BY <1>7, PlacesOfOps DEF OneCall, Changes
  <2>2. CASE Answer(t, "ok")
    BY <1>3, <1>4, <2>2
  <2>3. CASE Go(t, "list") \/ Go(t, "closedir")
    BY <1>1, <1>5, <2>1, <2>3, GoOn
  <2>4. CASE GivesUp(t)
    BY <1>2, <1>4, <2>4, AnswerDone DEF GivesUp
  <2>5. CASE thread[t].pc = "list" /\ Lists(t)
    BY <1>1, <1>5, <2>1, <2>5, ListsOn
  <2> QED
    BY <1>7, <2>2, <2>3, <2>4, <2>5 DEF Outcome, OneCall, Changes
<1>8. CASE thread[t].pc \in {"open", "read", "write", "creat", "close"}
  <2>1. /\ thread[t].op \in {"read", "write", "create"} /\ thread[t].op \notin OneCall
        /\ thread[t].pc = "creat" => thread[t].op = "create"
        /\ thread[t].pc = "read" => thread[t].op = "read"
        /\ thread[t].pc = "write" => thread[t].op = "write"
    BY <1>8, PlacesOfOps DEF OneCall, Changes
  <2>2. CASE Answer(t, "ok")
    BY <1>3, <1>4, <2>2
  <2>3. CASE End(t)
    BY <2>3 DEF End, Only, Same, Fits, TypeOK
  <2>4. CASE Go(t, "close")
    BY <1>1, <1>5, <2>1, <2>4, GoOn
  <2>5. CASE \/ thread[t].op = "read" /\ Opened(t, "read")
             \/ thread[t].op = "write" /\ Opened(t, "write")
             \/ thread[t].op = "create" /\ Opened(t, "close")
    BY <1>1, <1>5, <2>1, <2>5, OpenedOn
  <2> QED
    BY <1>8, <2>1, <2>2, <2>3, <2>4, <2>5 DEF Outcome, OneCall, Changes
<1>9. CASE thread[t].pc \in OneCall
  BY <1>3, <1>4, <1>9 DEF Outcome, OneCall, Changes
<1> QED
  BY <1>6, <1>7, <1>8, <1>9 DEF Outcome

-----------------------------------------------------------------------------
(* Handles.                                                                 *)

Holders == {t \in Threads : Holding(t)}

\* A step of one thread changes the number of those that hold a handle by its
\* own.
LEMMA HoldersStep ==
  ASSUME NEW t \in Threads, \A s \in Threads : s # t => thread'[s] = thread[s]
  PROVE  /\ Cardinality(Holders) \in Nat /\ Cardinality(Holders') \in Nat
         /\ (Holding(t)' <=> Holding(t)) => Cardinality(Holders') = Cardinality(Holders)
         /\ ~Holding(t) /\ Holding(t)' => Cardinality(Holders') = Cardinality(Holders) + 1
         /\ Holding(t) /\ ~Holding(t)' => Cardinality(Holders) = Cardinality(Holders') + 1
<1>1. IsFiniteSet(Holders) /\ IsFiniteSet(Holders')
  <2>1. Holders \in SUBSET Threads /\ Holders' \in SUBSET Threads
    BY DEF Holders
  <2> QED
    BY <2>1, ThreadsAssumption, FS_Subset
<1>2. \A s \in Threads : s # t => (Holding(s)' <=> Holding(s))
  BY DEF Holding, Place
<1>3. ASSUME Holding(t)' <=> Holding(t) PROVE Holders' = Holders
  BY <1>2, <1>3 DEF Holders
<1>4. ASSUME ~Holding(t), Holding(t)' PROVE Holders' = Holders \cup {t} /\ t \notin Holders
  BY <1>2, <1>4 DEF Holders
<1>5. ASSUME Holding(t), ~Holding(t)' PROVE Holders = Holders' \cup {t} /\ t \notin Holders'
  BY <1>2, <1>5 DEF Holders
<1> QED
  BY <1>1, <1>3, <1>4, <1>5, FS_CardinalityType, FS_AddElement

\* Which outcome gives a request a handle, and which takes it away.
LEMMA OutcomeHolding ==
  ASSUME TypeOK, remote' \in [Paths -> Node], NEW t \in Threads, Fits(t), NEW ok \in BOOLEAN, Outcome(t, ok),
         alive, alive'
  PROVE  /\ thread[t].pc \in Opens =>
              ~Holding(t) /\ (Holding(t)' <=> ok) /\ lost' = lost
         /\ thread[t].pc \in Closes => Holding(t) /\ ~Holding(t)' /\ lost' = lost
         /\ thread[t].pc \in Uses =>
              /\ Holding(t)
              /\ (Holding(t)' /\ lost' = lost) \/ (~Holding(t)' /\ lost' = lost + 1)
         /\ thread[t].pc \notin Opens \cup Closes \cup Uses =>
              ~Holding(t) /\ ~Holding(t)' /\ lost' = lost
<1>1. ASSUME NEW place, On(t, place) PROVE Holding(t)' <=> place \in Uses \cup Closes
  BY <1>1 DEF On, Holding, Place
<1>2. ASSUME NEW r, Done(t, r) PROVE ~Holding(t)'
  BY <1>2 DEF Done, Holding, Place, Uses, Closes
<1>3. ASSUME NEW r \in {"ok", "ENOENT", "unfilled"}, Answer(t, r) PROVE ~Holding(t)' /\ lost' = lost
  <2>1. r \in Replies
    BY DEF Replies
  <2> QED
    BY <1>2, <1>3, <2>1, AnswerDone DEF Answer
<1>4. ASSUME GivesUp(t) PROVE ~Holding(t)' /\ lost' = lost + 1
  BY <1>2, <1>4, AnswerDone DEF GivesUp, Replies
<1>5. /\ "attrs" \in Places /\ "isdir" \in Places /\ "open" \in Places /\ "read" \in Places
      /\ "write" \in Places /\ "close" \in Places /\ "list" \in Places /\ "closedir" \in Places
  BY DEF Places, Stats, Opens, Uses, Closes
<1>6. ASSUME NEW place \in {"attrs", "isdir", "open", "close", "list", "closedir"}, Go(t, place)
      PROVE  (Holding(t)' <=> place \in Uses \cup Closes) /\ lost' = lost
  BY <1>1, <1>5, <1>6, GoOn DEF Go
<1>7. ASSUME NEW place \in {"read", "write", "close"}, Opened(t, place)
      PROVE  Holding(t)' /\ lost' = lost
  <2>1. Holding(t)' <=> place \in Uses \cup Closes
    BY <1>1, <1>5, <1>7, OpenedOn
  <2> QED
    BY <1>7, <2>1 DEF Opened, Uses, Closes
<1>8. ~End(t)
  BY DEF End
<1>9. Holding(t) <=> thread[t].pc \in Uses \cup Closes
  BY DEF Holding, Place
<1>10. CASE thread[t].pc \in {"exists", "isdir", "attrs"} \cup OneCall
  <2>1. \/ \E r \in {"ok", "ENOENT", "unfilled"} : Answer(t, r)
        \/ \E place \in {"attrs", "isdir", "open"} : Go(t, place)
    BY <1>10 DEF Outcome, OneCall, Changes
  <2> QED
    BY <1>3, <1>6, <1>9, <1>10, <2>1 DEF Opens, Closes, Uses, OneCall, Changes
<1>11. CASE thread[t].pc \in {"open", "opendir", "creat"}
  <2>1. \/ ok /\ (Go(t, "list") \/ Opened(t, "read") \/ Opened(t, "write") \/ Opened(t, "close"))
        \/ ~ok /\ Answer(t, "ok")
    BY <1>8, <1>11 DEF Outcome, OneCall, Changes
  <2>2. thread[t].pc \in Opens /\ thread[t].pc \notin Closes \cup Uses /\ "list" \in Uses
    BY <1>11 DEF Opens, Closes, Uses
  <2>3. CASE ok /\ Go(t, "list")
    BY <1>6, <1>9, <2>2, <2>3
  <2>4. CASE ok /\ (Opened(t, "read") \/ Opened(t, "write") \/ Opened(t, "close"))
    BY <1>7, <1>9, <2>2, <2>4
  <2>5. CASE ~ok /\ Answer(t, "ok")
    BY <1>3, <1>9, <2>2, <2>5
  <2> QED
    BY <2>1, <2>3, <2>4, <2>5
<1>12. CASE thread[t].pc \in {"close", "closedir"}
  <2>1. Answer(t, "ok")
    BY <1>12 DEF Outcome, OneCall, Changes
  <2> QED
    BY <1>3, <1>9, <1>12, <2>1 DEF Opens, Closes, Uses
<1>13. CASE thread[t].pc \in {"read", "write", "list"}
  <2>1. \/ Go(t, "close") \/ Go(t, "closedir")
        \/ thread[t].pc = "list" /\ Lists(t)
        \/ GivesUp(t)
    BY <1>8, <1>13 DEF Outcome, OneCall, Changes
  <2>2. thread[t].pc \in Uses /\ thread[t].pc \notin Opens \cup Closes /\ {"close", "closedir"} \subseteq Closes
    BY <1>13 DEF Opens, Closes, Uses
  <2>3. CASE Go(t, "close") \/ Go(t, "closedir")
    BY <1>6, <1>9, <2>2, <2>3
  <2>4. CASE thread[t].pc = "list" /\ Lists(t)
    <3>1. Holding(t)' <=> thread[t].pc \in Uses \cup Closes
      BY <1>1, <2>4, ListsOn
    <3> QED
      BY <1>9, <2>2, <2>4, <3>1 DEF Lists
  <2>5. CASE GivesUp(t)
    BY <1>4, <1>9, <2>2, <2>5
  <2> QED
    BY <2>1, <2>3, <2>4, <2>5
<1> QED
  BY <1>10, <1>11, <1>12, <1>13 DEF Outcome

-----------------------------------------------------------------------------
(* Types, places and handles are kept.                                      *)

\* The parts of Base a step proves one by one.
KeepsTypes ==
  /\ remote' \in [Paths -> Node] /\ Numbered(remote')
  /\ thread' \in [Threads -> Thread] /\ \A s \in Threads : Fits(s)'
  /\ call' \in [Threads -> Waiting] /\ \A s \in Threads : Called(s)'
  /\ alive' \in BOOLEAN /\ lost' \in Nat

KeepsRest ==
  /\ link' \in {"up", "silent", "down", "stuck"}
  /\ clean' \in [Threads -> BOOLEAN]
  /\ faults' \in 0..MaxFaults /\ others' \in 0..MaxOthers

KeepsHandles == handles' \in Nat /\ HandlesAccounted'

\* The three parts a step has to keep.
LEMMA BaseParts ==
  ASSUME KeepsTypes, KeepsRest, KeepsHandles
  PROVE  Base'
  BY DEF KeepsTypes, KeepsRest, KeepsHandles, Base, TypeOK

\* An answered call keeps types and places.
LEMMA CallTypes ==
  ASSUME Base, NEW t \in Threads, Waits(t), NEW ok \in BOOLEAN, Handler(t, ok), Returns(t),
         remote' \in [Paths -> Node], Numbered(remote')
  PROVE  KeepsTypes /\ Outcome(t, ok) /\ Only(t) /\ (Same(t) \/ thread'[t].op = "none")
<1>1. TypeOK /\ Fits(t) /\ call \in [Threads -> Waiting] /\ alive \in BOOLEAN /\ lost \in Nat
  BY DEF Base, TypeOK
<1>2. Outcome(t, ok)
  BY <1>1, HandlerTable
<1>3. Only(t) /\ Fits(t)' /\ (Same(t) \/ thread'[t].op = "none")
  BY <1>1, <1>2, OutcomeFits
<1>4. ASSUME NEW s \in Threads PROVE Fits(s)'
  <2>1. CASE s = t
    BY <1>3, <2>1
  <2>2. CASE s # t
    <3>1. thread'[s] = thread[s]
      BY <1>3, <2>2 DEF Only
    <3> QED
      BY <3>1 DEF Base, Fits
  <2> QED
    BY <2>1, <2>2
<1>5. call' \in [Threads -> Waiting] /\ \A s \in Threads : Called(s)'
  <2>1. call'[t] = "no" /\ \A s \in Threads : s # t => call'[s] = call[s]
    BY <1>1 DEF Returns
  <2>2. call' \in [Threads -> Waiting]
    BY <1>1 DEF Returns, Waiting
  <2>3. \A s \in Threads : s # t => thread'[s] = thread[s]
    BY <1>3 DEF Only
  <2> QED
    BY <2>1, <2>2, <2>3 DEF Base, Busy, Called
<1>6. alive' \in BOOLEAN /\ lost' \in Nat
  <2>1. \/ UNCHANGED <<alive, lost>>
        \/ alive' = FALSE /\ UNCHANGED lost
        \/ UNCHANGED alive /\ lost' = lost + 1
    BY <1>2 DEF Outcome, Go, Answer, End, Opened, Lists, GivesUp
  <2>2. alive' = alive \/ alive' = FALSE
    BY <2>1
  <2>3. lost' = lost \/ lost' = lost + 1
    BY <2>1
  <2>4. alive' \in BOOLEAN
    BY <1>1, <2>2
  <2>5. lost' \in Nat
    BY <1>1, <2>3
  <2> QED
    BY <2>4, <2>5
<1> QED
  BY <1>2, <1>3, <1>4, <1>5, <1>6 DEF KeepsTypes, Only

\* A call that is answered leaves as many handles as are held.
LEMMA CallHandles ==
  ASSUME Base, NEW t \in Threads, Waits(t), NEW ok \in BOOLEAN, Outcome(t, ok), Only(t), lost' \in Nat,
         remote' \in [Paths -> Node], link = "up",
         handles' = IF thread[t].pc \in Opens /\ ok THEN handles + 1
                    ELSE IF thread[t].pc \in Closes THEN handles - 1
                    ELSE handles
  PROVE  KeepsHandles
<1>1. /\ TypeOK /\ Fits(t) /\ handles \in Nat /\ lost \in Nat /\ alive
      /\ handles = Cardinality(Holders) + lost
  BY DEF Base, TypeOK, Waits, HandlesAccounted, Holders
<1>2. /\ Cardinality(Holders) \in Nat /\ Cardinality(Holders') \in Nat
      /\ (Holding(t)' <=> Holding(t)) => Cardinality(Holders') = Cardinality(Holders)
      /\ ~Holding(t) /\ Holding(t)' => Cardinality(Holders') = Cardinality(Holders) + 1
      /\ Holding(t) /\ ~Holding(t)' => Cardinality(Holders) = Cardinality(Holders') + 1
  BY HoldersStep DEF Only
<1>3. Opens \cap Closes = {} /\ Opens \cap Uses = {} /\ Closes \cap Uses = {}
  BY DEF Opens, Closes, Uses
<1>4. handles' \in Nat
  <2>1. CASE thread[t].pc \in Closes
    <3>1. Holding(t)
      BY <2>1 DEF Holding, Place
    <3>2. Cardinality(Holders) # 0
      <4>1. t \in Holders /\ IsFiniteSet(Holders)
        BY <3>1, ThreadsAssumption, FS_Subset DEF Holders
      <4> QED
        BY <4>1, FS_EmptySet
    <3> QED
      BY <1>1, <1>2, <1>3, <2>1, <3>2
  <2>2. CASE thread[t].pc \notin Closes
    BY <1>1, <2>2
  <2> QED
    BY <2>1, <2>2
<1>5. ASSUME alive' PROVE handles' = Cardinality(Holders') + lost'
  <2>1. CASE thread[t].pc \in Opens
    <3>1. ~Holding(t) /\ (Holding(t)' <=> ok) /\ lost' = lost
      BY <1>1, <1>5, <2>1, OutcomeHolding
    <3>2. thread[t].pc \notin Closes
      BY <1>3, <2>1
    <3>3. CASE ok
      BY <1>1, <1>2, <2>1, <3>1, <3>3
    <3>4. CASE ~ok
      BY <1>1, <1>2, <3>1, <3>2, <3>4
    <3> QED
      BY <3>3, <3>4
  <2>2. CASE thread[t].pc \in Closes
    <3>1. Holding(t) /\ ~Holding(t)' /\ lost' = lost
      BY <1>1, <1>5, <2>2, OutcomeHolding
    <3>2. thread[t].pc \notin Opens
      BY <1>3, <2>2
    <3> QED
      BY <1>1, <1>2, <2>2, <3>1, <3>2
  <2>3. CASE thread[t].pc \in Uses
    <3>1. Holding(t) /\ ((Holding(t)' /\ lost' = lost) \/ (~Holding(t)' /\ lost' = lost + 1))
      BY <1>1, <1>5, <2>3, OutcomeHolding
    <3>2. thread[t].pc \notin Opens \cup Closes
      BY <1>3, <2>3
    <3> QED
      BY <1>1, <1>2, <3>1, <3>2
  <2>4. CASE thread[t].pc \notin Opens \cup Closes \cup Uses
    <3>1. ~Holding(t) /\ ~Holding(t)' /\ lost' = lost
      BY <1>1, <1>5, <2>4, OutcomeHolding
    <3> QED
      BY <1>1, <1>2, <2>4, <3>1
  <2> QED
    BY <2>1, <2>2, <2>3, <2>4
<1> QED
  BY <1>4, <1>5 DEF KeepsHandles, HandlesAccounted, Holders

\* Steps that leave the handlers where they are.
LEMMA QuietHandles ==
  ASSUME Base, UNCHANGED <<handles, lost>>, alive' => alive, link' # "down" => link # "down",
         \A s \in Threads : Holding(s)' <=> Holding(s)
  PROVE  KeepsHandles
<1>1. Holders' = Holders
  BY DEF Holders
<1> QED
  BY <1>1 DEF KeepsHandles, HandlesAccounted, Base, TypeOK, Holders

\* Once the link is down no handle needs to be accounted for.
LEMMA DownHandles ==
  ASSUME link' = "down", handles' \in Nat
  PROVE  KeepsHandles
  BY DEF KeepsHandles, HandlesAccounted

\* Marking requests as disturbed keeps the marks well formed.
LEMMA SpoiltType ==
  ASSUME TypeOK, NEW hit, Spoilt(hit)
  PROVE  clean' \in [Threads -> BOOLEAN]
  BY DEF TypeOK, Spoilt

\* Every answer of the server keeps Base.
LEMMA SystemTypes ==
  ASSUME Base, NEW t \in Threads, Granted(t) \/ Declined(t) \/ Refused(t)
  PROVE  Base'
<1>1. TypeOK /\ Numbered(remote) /\ remote \in [Paths -> Node]
  BY DEF Base, TypeOK
<1>2. Place(t) = thread[t].pc /\ Opens \cap Closes = {}
  BY DEF Place, Opens, Closes
<1>3. CASE Granted(t)
  <2>1. remote' \in [Paths -> Node] /\ Numbered(remote')
    BY <1>1, <1>3, EffectType DEF Granted
  <2>2. KeepsTypes /\ Outcome(t, TRUE) /\ Only(t)
    BY <1>3, <2>1, CallTypes DEF Granted
  <2>3. handles' = IF thread[t].pc \in Opens /\ TRUE THEN handles + 1
                   ELSE IF thread[t].pc \in Closes THEN handles - 1
                   ELSE handles
    BY <1>2, <1>3 DEF Granted
  <2>4. KeepsHandles
    BY <1>3, <2>1, <2>2, <2>3, CallHandles DEF Granted, KeepsTypes
  <2>5. KeepsRest
    BY <1>1, <1>3, SpoiltType DEF Granted, KeepsRest, TypeOK
  <2> QED
    BY <2>2, <2>4, <2>5, BaseParts
<1>4. CASE Declined(t)
  <2>1. remote' \in [Paths -> Node] /\ Numbered(remote')
    BY <1>1, <1>4 DEF Declined
  <2>2. KeepsTypes /\ Outcome(t, FALSE) /\ Only(t)
    BY <1>4, <2>1, CallTypes DEF Declined
  <2>3. thread[t].pc \notin Closes
    BY <1>2, <1>4 DEF Declined, Accepts, Closes, Stats, Changes
  <2>4. handles' = IF thread[t].pc \in Opens /\ FALSE THEN handles + 1
                   ELSE IF thread[t].pc \in Closes THEN handles - 1
                   ELSE handles
    BY <1>4, <2>3 DEF Declined
  <2>5. KeepsHandles
    BY <1>4, <2>1, <2>2, <2>4, CallHandles DEF Declined, KeepsTypes
  <2>6. KeepsRest
    BY <1>1, <1>4 DEF Declined, KeepsRest, TypeOK
  <2> QED
    BY <2>2, <2>5, <2>6, BaseParts
<1>5. CASE Refused(t)
  <2>1. remote' \in [Paths -> Node] /\ Numbered(remote')
    BY <1>1, <1>5 DEF Refused
  <2>2. KeepsTypes /\ Outcome(t, FALSE) /\ Only(t)
    BY <1>5, <2>1, CallTypes DEF Refused
  <2>4. handles' = IF thread[t].pc \in Opens /\ FALSE THEN handles + 1
                   ELSE IF thread[t].pc \in Closes THEN handles - 1
                   ELSE handles
    BY <1>2, <1>5 DEF Refused
  <2>5. KeepsHandles
    BY <1>5, <2>1, <2>2, <2>4, CallHandles DEF Refused, KeepsTypes
  <2>6. KeepsRest
    BY <1>1, <1>5, BoundsAssumption, SpoiltType DEF Refused, KeepsRest, TypeOK
  <2> QED
    BY <2>2, <2>5, <2>6, BaseParts
<1> QED
  BY <1>3, <1>4, <1>5

\* The link breaks, or is broken.
LEMMA BreaksTypes ==
  ASSUME Base, NEW t \in Threads, Waits(t), Breaks(t)
  PROVE  /\ KeepsTypes /\ KeepsHandles /\ Outcome(t, FALSE) /\ Only(t)
         /\ (Same(t) \/ thread'[t].op = "none")
         /\ link' = "down" /\ clean' \in [Threads -> BOOLEAN] /\ \A s \in Threads : ~clean'[s]
<1>1. TypeOK /\ Numbered(remote) /\ remote \in [Paths -> Node]
  BY DEF Base, TypeOK
<1>2. remote' = remote \/ (Accepts(t) /\ remote' = Effect(t))
  BY DEF Breaks
<1>3. remote' \in [Paths -> Node] /\ Numbered(remote')
  BY <1>1, <1>2, EffectType
<1>4. KeepsTypes /\ Outcome(t, FALSE) /\ Only(t) /\ (Same(t) \/ thread'[t].op = "none")
  BY <1>3, CallTypes DEF Breaks
<1>5. clean' \in [Threads -> BOOLEAN] /\ \A s \in Threads : ~clean'[s]
  BY <1>1 DEF Breaks, Spoilt, TypeOK
<1> QED
  BY <1>4, <1>5, DownHandles DEF Breaks

\* A call without a link keeps types and places.
LEMMA NoLinkTypes ==
  ASSUME Base, NEW t \in Threads, NoLink(t)
  PROVE  /\ KeepsTypes /\ KeepsHandles /\ KeepsRest /\ Outcome(t, FALSE) /\ Only(t)
         /\ (Same(t) \/ thread'[t].op = "none")
<1>1. TypeOK /\ Numbered(remote) /\ remote \in [Paths -> Node] /\ handles \in Nat
  BY DEF Base, TypeOK
<1>2. KeepsTypes /\ Outcome(t, FALSE) /\ Only(t) /\ (Same(t) \/ thread'[t].op = "none")
  BY <1>1, CallTypes DEF NoLink
<1>3. KeepsRest
  BY <1>1 DEF NoLink, KeepsRest, TypeOK
<1> QED
  BY <1>1, <1>2, <1>3, DownHandles DEF NoLink

\* A request that starts.
LEMMA StartThread ==
  ASSUME Base, NEW t \in Threads, NEW op \in Ops, NEW p \in Paths, NEW q \in Paths, NEW v \in Data,
         Start(t, op, p, q, v)
  PROVE  /\ Only(t) /\ Fits(t)' /\ ~Holding(t) /\ ~Holding(t)'
         /\ thread'[t].op = op /\ thread'[t].path = p /\ thread'[t].to = q /\ thread'[t].val = v
         /\ thread'[t].pc = FirstPlace(op) /\ thread'[t].seen = {}
<1> DEFINE pc == FirstPlace(op)
           r  == [Idle EXCEPT !.op = op, !.path = p, !.to = q, !.val = v, !.pc = pc]
<1>1. TypeOK /\ thread[t].pc = "idle"
  BY DEF Base, Start, Busy, Fits
<1>2. ~Holding(t)
  BY <1>1 DEF Holding, Place, Uses, Closes
<1>3. thread' = [thread EXCEPT ![t] = r] /\ (op = "rename" <=> p # q)
  BY DEF Start
<1>4. op \in {"getattr", "read", "readdir", "write", "create", "truncate"} \cup OneCall
  BY OpsAssumption DEF AllOps, OneCall, Modifiers, Writers, Changes
<1>5. /\ pc \in Places \cup {"truncate"} /\ pc \notin Uses \cup Closes /\ pc # "idle"
      /\ op \in {"getattr", "read"} => pc = "exists"
      /\ op = "readdir" => pc = "opendir"
      /\ op = "write" => pc = "open"
      /\ op = "create" => pc = "creat"
      /\ op \in OneCall \cup {"truncate"} => pc = op
  BY <1>4 DEF FirstPlace, Places, Stats, Opens, Uses, Closes, OneCall, Changes
<1> HIDE DEF pc
<1>6. Idle \in Thread /\ Idle.seen = {}
  BY IdleType DEF Idle
<1>7. r \in Thread /\ r.op = op /\ r.path = p /\ r.to = q /\ r.val = v /\ r.pc = pc /\ r.seen = {}
  <2> HIDE DEF Idle
  <2> QED
    BY <1>5, <1>6 DEF Thread
<1> HIDE DEF r
<1>8. Only(t) /\ thread'[t] = r
  BY <1>1, <1>3, <1>7 DEF Only, TypeOK
<1>9. Fits(t)'
  BY <1>3, <1>4, <1>5, <1>7, <1>8 DEF Fits, OneCall, Changes
<1> QED
  BY <1>2, <1>5, <1>7, <1>8, <1>9 DEF Holding, Place, pc

\* A truncate sends nothing and changes nothing but its thread, which is done.
LEMMA TruncateThread ==
  ASSUME Base, NEW t \in Threads, TruncateFile(t)
  PROVE  /\ Only(t) /\ thread[t].op = "truncate" /\ thread'[t].op = "none" /\ thread'[t].pc = "idle"
         /\ call[t] = "no"
         /\ UNCHANGED <<remote, handles, link, alive, call, clean, lost, faults, others>>
<1>1. TypeOK /\ Fits(t) /\ Called(t)
  BY DEF Base
<1>2. thread[t].op = "truncate"
  BY <1>1, PlacesOfOps DEF TruncateFile, Place
<1>3. Done(t, "ok")
  BY <1>1, AnswerDone DEF TruncateFile, Answer, Replies
<1> QED
  BY <1>1, <1>2, <1>3 DEF TruncateFile, Answer, Done, Called

\* What happens without the threads keeps types, places and holders.
LEMMA QuietTypes ==
  ASSUME Base, UNCHANGED <<thread, call, lost>>, alive' \in BOOLEAN,
         remote' \in [Paths -> Node], Numbered(remote')
  PROVE  KeepsTypes /\ \A s \in Threads : Holding(s)' <=> Holding(s)
  BY DEF Base, TypeOK, KeepsTypes, Fits, Called, Busy, Holding, Place

\* Every step keeps Base,
LEMMA BaseStep ==
  ASSUME Base, [Next]_vars
  PROVE  Base'
<1>1. /\ TypeOK /\ Numbered(remote) /\ remote \in [Paths -> Node] /\ alive \in BOOLEAN
      /\ thread \in [Threads -> Thread] /\ call \in [Threads -> Waiting]
      /\ lost \in Nat /\ handles \in Nat /\ clean \in [Threads -> BOOLEAN]
  BY DEF Base, TypeOK
<1>2. CASE UNCHANGED vars
  <2>1. KeepsTypes /\ \A s \in Threads : Holding(s)' <=> Holding(s)
    BY <1>1, <1>2, QuietTypes DEF vars
  <2>2. KeepsRest
    BY <1>1, <1>2 DEF vars, KeepsRest, TypeOK
  <2> QED
    BY <1>2, <2>1, <2>2, QuietHandles, BaseParts DEF vars
<1>3. ASSUME NEW t \in Threads, NEW op \in Ops, NEW p \in Paths, NEW q \in Paths, NEW v \in Data,
             Start(t, op, p, q, v)
      PROVE  Base'
  <2>1. /\ UNCHANGED <<remote, handles, link, alive, call, lost, faults, others>>
        /\ clean' = [clean EXCEPT ![t] = link # "down"] /\ ~Busy(t)
    BY <1>3 DEF Start
  <2>2. Only(t) /\ Fits(t)' /\ ~Holding(t) /\ ~Holding(t)'
    BY <1>3, StartThread
  <2>3. \A s \in Threads : s # t => thread'[s] = thread[s]
    BY <2>2 DEF Only
  <2>4. \A s \in Threads : Holding(s)' <=> Holding(s)
    BY <2>2, <2>3 DEF Holding, Place
  <2>5. KeepsTypes
    <3>1. \A s \in Threads : Fits(s)'
      BY <2>2, <2>3 DEF Base, Fits
    <3>2. \A s \in Threads : Called(s)'
      BY <2>1, <2>3 DEF Base, Busy, Called
    <3> QED
      BY <1>1, <2>1, <2>2, <3>1, <3>2 DEF KeepsTypes, Only
  <2>6. KeepsRest
    BY <1>1, <2>1 DEF KeepsRest, TypeOK
  <2>7. KeepsHandles
    BY <2>1, <2>4, QuietHandles
  <2> QED
    BY <2>5, <2>6, <2>7, BaseParts
<1>4. ASSUME NEW t \in Threads, Send(t) PROVE Base'
  <2> DEFINE peers == {s \in Threads \ {t} : call[s] # "no"}
  <2>1. /\ UNCHANGED <<remote, handles, link, alive, thread, lost, faults, others>> /\ Place(t) \in Places
        /\ call' = [s \in Threads |-> IF peers # {} /\ s \in peers \cup {t} THEN "mixed"
                                      ELSE IF s = t THEN "sent" ELSE call[s]]
        /\ clean' = [s \in Threads |-> clean[s] /\ (peers = {} \/ s \notin peers \cup {t})]
    BY <1>4 DEF Send
  <2>2. call' \in [Threads -> Waiting]
    BY <1>1, <2>1 DEF Waiting
  <2>3. \A s \in Threads : Holding(s)' <=> Holding(s)
    BY <2>1 DEF Holding, Place
  <2>4. ASSUME NEW s \in Threads PROVE Fits(s)' /\ Called(s)'
    <3>1. Busy(t) /\ thread[t].op # "truncate"
      <4>1. Fits(t) /\ thread[t].pc \in Places
        BY <2>1 DEF Base, Place
      <4> QED
        BY <4>1 DEF Fits, Busy, Places, Stats, Opens, Uses, Closes, OneCall, Changes
    <3> QED
      BY <2>1, <3>1 DEF Base, Fits, Busy, Called
  <2>5. KeepsTypes
    BY <1>1, <2>1, <2>2, <2>4 DEF KeepsTypes
  <2>6. KeepsRest
    BY <1>1, <2>1 DEF KeepsRest, TypeOK
  <2>7. KeepsHandles
    BY <2>1, <2>3, QuietHandles
  <2> QED
    BY <2>5, <2>6, <2>7, BaseParts
<1>5. ASSUME NEW t \in Threads, Granted(t) \/ Declined(t) \/ Refused(t) PROVE Base'
  BY <1>5, SystemTypes
<1>6. ASSUME NEW t \in Threads, NoLink(t) PROVE Base'
  BY <1>6, NoLinkTypes, BaseParts
<1>7. ASSUME NEW t \in Threads, CutOff(t) PROVE Base'
  <2>1. KeepsTypes /\ KeepsHandles /\ link' = "down" /\ clean' \in [Threads -> BOOLEAN]
    BY <1>7, BreaksTypes DEF CutOff
  <2>2. KeepsRest
    BY <1>1, <1>7, <2>1, BoundsAssumption DEF CutOff, Breaks, KeepsRest, TypeOK
  <2> QED
    BY <2>1, <2>2, BaseParts
<1>8. ASSUME NEW t \in Threads, Garbled(t) PROVE Base'
  <2>1. CASE Breaks(t) /\ UNCHANGED faults
    <3>1. KeepsTypes /\ KeepsHandles /\ link' = "down" /\ clean' \in [Threads -> BOOLEAN]
      BY <1>8, <2>1, BreaksTypes DEF Garbled
    <3>2. KeepsRest
      BY <1>1, <2>1, <3>1 DEF Breaks, KeepsRest, TypeOK
    <3> QED
      BY <3>1, <3>2, BaseParts
  <2>2. CASE /\ UNCHANGED <<remote, handles, thread, call, clean, lost, faults, others>>
             /\ \/ alive' = FALSE /\ UNCHANGED link
                \/ link' = "stuck" /\ UNCHANGED alive
    <3>1. KeepsTypes /\ \A s \in Threads : Holding(s)' <=> Holding(s)
      BY <1>1, <2>2, QuietTypes
    <3>2. KeepsRest
      BY <1>1, <2>2 DEF KeepsRest, TypeOK
    <3>3. link # "down"
      BY <1>8 DEF Garbled
    <3> QED
      BY <2>2, <3>1, <3>2, <3>3, QuietHandles, BaseParts
  <2> QED
    BY <1>8, <2>1, <2>2 DEF Garbled
<1>9. CASE Drop
  <2>1. KeepsTypes
    BY <1>1, <1>9, QuietTypes DEF Drop
  <2>2. KeepsRest
    BY <1>1, <1>9, BoundsAssumption, SpoiltType DEF Drop, KeepsRest, TypeOK
  <2> QED
    BY <1>9, <2>1, <2>2, DownHandles, BaseParts DEF Drop
<1>10. CASE Hush \/ Resume
  <2>1. /\ UNCHANGED <<remote, handles, alive, thread, call, clean, lost, others>>
        /\ link # "down" /\ link' \in {"up", "silent"}
    BY <1>10 DEF Hush, Resume
  <2>2. KeepsTypes /\ \A s \in Threads : Holding(s)' <=> Holding(s)
    BY <1>1, <2>1, QuietTypes
  <2>3. faults' \in 0..MaxFaults
    BY <1>1, <1>10, BoundsAssumption DEF Hush, Resume, TypeOK
  <2>4. KeepsRest
    BY <1>1, <2>1, <2>3 DEF KeepsRest, TypeOK
  <2> QED
    BY <2>1, <2>2, <2>4, QuietHandles, BaseParts
<1>11. ASSUME NEW hit, NEW tree \in [Paths -> Node], Numbered(tree), Other(hit, tree) PROVE Base'
  <2>1. KeepsTypes /\ \A s \in Threads : Holding(s)' <=> Holding(s)
    BY <1>1, <1>11, QuietTypes DEF Other
  <2>2. KeepsRest
    BY <1>1, <1>11, BoundsAssumption, SpoiltType DEF Other, KeepsRest, TypeOK
  <2> QED
    BY <1>11, <2>1, <2>2, QuietHandles, BaseParts DEF Other
<1>12. ASSUME NEW p \in Paths, NEW kind \in {"file", "dir"}, OtherMakes(p, kind) PROVE Base'
  <2>1. remote[p].id = 0
    BY <1>1, <1>12 DEF OtherMakes, Present, Numbered
  <2>2. New(kind) \in Node /\ New(kind).kind = kind /\ New(kind).id # 0
    BY <1>1, <2>1, NewNode
  <2> DEFINE tree == [remote EXCEPT ![p] = New(kind)]
  <2>3. tree \in [Paths -> Node] /\ Numbered(tree)
    BY <1>1, <2>2 DEF Numbered
  <2>4. Other({p}, tree)
    BY <1>12 DEF OtherMakes
  <2> HIDE DEF tree
  <2> QED
    BY <1>11, <2>3, <2>4
<1>13. Absent \in Node /\ Absent.kind = "none" /\ Absent.id = 0
  BY DataAssumption DEF Absent, Node
<1>14. ASSUME NEW p \in Paths, OtherRemoves(p) PROVE Base'
  <2> DEFINE tree == [remote EXCEPT ![p] = Absent]
  <2>1. tree \in [Paths -> Node] /\ Numbered(tree)
    BY <1>1, <1>13 DEF Numbered
  <2>2. Other({p}, tree)
    BY <1>14 DEF OtherRemoves
  <2> HIDE DEF tree
  <2> QED
    BY <1>11, <2>1, <2>2
<1>15. ASSUME NEW p \in Paths, NEW q \in Paths, OtherMoves(p, q) PROVE Base'
  <2> DEFINE tree == [remote EXCEPT ![q] = remote[p], ![p] = Absent]
  <2>1. tree \in [Paths -> Node] /\ Numbered(tree)
    BY <1>1, <1>13 DEF Numbered
  <2>2. Other({p, q}, tree)
    BY <1>15 DEF OtherMoves
  <2> HIDE DEF tree
  <2> QED
    BY <1>11, <2>1, <2>2
<1>16. ASSUME NEW t \in Threads, TruncateFile(t) PROVE Base'
  <2>1. /\ Only(t) /\ thread[t].op = "truncate" /\ thread'[t].op = "none" /\ thread'[t].pc = "idle"
        /\ call[t] = "no"
        /\ UNCHANGED <<remote, handles, link, alive, call, clean, lost, faults, others>>
    BY <1>16, TruncateThread
  <2>2. \A s \in Threads : s # t => thread'[s] = thread[s]
    BY <2>1 DEF Only
  <2>3. \A s \in Threads : Holding(s)' <=> Holding(s)
    <3>1. ~Holding(t) /\ ~Holding(t)'
      BY <1>16, <2>1 DEF TruncateFile, Holding, Place, Uses, Closes
    <3> QED
      BY <2>2, <3>1 DEF Holding, Place
  <2>4. KeepsTypes
    <3>1. Fits(t)' /\ Called(t)'
      BY <2>1 DEF Fits, Called, OneCall, Changes
    <3>2. \A s \in Threads : Fits(s)' /\ Called(s)'
      BY <2>1, <2>2, <3>1 DEF Base, Fits, Called, Busy
    <3> QED
      BY <1>1, <2>1, <3>2 DEF KeepsTypes, Only
  <2>5. KeepsRest
    BY <1>1, <2>1 DEF KeepsRest, TypeOK
  <2> QED
    BY <2>1, <2>3, <2>4, <2>5, QuietHandles, BaseParts
<1> QED
  BY <1>2, <1>3, <1>4, <1>5, <1>6, <1>7, <1>8, <1>9, <1>10, <1>12, <1>14, <1>15, <1>16 DEF Next, Step

\* and the start has it.
LEMMA BaseInit ==
  ASSUME Init
  PROVE  Base
<1>1. /\ \A t \in Threads : thread[t] = Idle /\ call[t] = "no"
      /\ \A p \in Paths : remote[p] = Absent
  BY DEF Init
<1>2. Absent \in Node /\ Absent.kind = "none" /\ Absent.id = 0
  BY DataAssumption DEF Absent, Node
<1>3. TypeOK
  BY <1>2, IdleType, BoundsAssumption DEF Init, TypeOK, Waiting
<1>4. \A t \in Threads : Fits(t) /\ ~Holding(t)
  BY <1>1, IdleType DEF Fits, Holding, Place, Uses, Closes, OneCall, Changes
<1>5. HandlesAccounted
  <2>1. {t \in Threads : Holding(t)} = {}
    BY <1>4
  <2> QED
    BY <2>1, FS_EmptySet DEF Init, HandlesAccounted
<1> QED
  BY <1>1, <1>2, <1>3, <1>4, <1>5 DEF Base, Numbered, Called

\* Whatever fails and whoever interferes, no request leaves its handler, and
\* each new file finds a number of its own.
THEOREM TypeCorrect == Spec => []TypeOK
<1>1. Base /\ [Next]_vars => Base'
  BY BaseStep
<1> QED
  BY BaseInit, <1>1, PTL DEF Spec, Base

\* No handle of the server is leaked but by listings that failed.
THEOREM HandlesAreAccounted == Spec => []HandlesAccounted
<1>1. Base /\ [Next]_vars => Base'
  BY BaseStep
<1> QED
  BY BaseInit, <1>1, PTL DEF Spec, Base


-----------------------------------------------------------------------------
(* Locks and what they keep.                                                *)

\* s goes on as it was, and what it counts on stays: names that stand for
\* nothing may be taken, unless s changes the directory or lists it.
Kept(s) ==
  /\ thread'[s] = thread[s]
  /\ link' # "down"
  /\ \A n \in Names(s) :
       \/ remote[n].kind = "none" /\ thread[s].op \notin Modifiers \cup {"readdir"}
       \/ /\ remote'[n].kind = remote[n].kind /\ remote'[n].id = remote[n].id
          /\ thread[s].op = "write" => remote'[n].text = remote[n].text

\* What a request counts on survives a change that keeps to the locks.
LEMMA KeptReady ==
  ASSUME Base, NEW s \in Threads, Busy(s), Ready(s), Kept(s)
  PROVE  Ready(s)'
<1> DEFINE p == thread[s].path
           q == thread[s].to
           op == thread[s].op
<1>1. thread'[s] = thread[s] /\ Fits(s) /\ TypeOK /\ p \in Paths /\ q \in Paths
  BY DEF Base, Kept, TypeOK, Thread
<1>2. CASE op = "readdir"
  <2>1. \A n \in Paths : remote'[n].kind = remote[n].kind
    BY <1>2 DEF Kept, Names
  <2>2. {n \in Paths : Present(n)}' = {n \in Paths : Present(n)}
    BY <2>1 DEF Present
  <2>3. op \notin OneCall \cup {"read", "write", "create", "getattr"}
    BY <1>2 DEF OneCall, Changes
  <2> QED
    BY <1>1, <1>2, <2>2, <2>3 DEF Ready, Kept, OneCall
<1>3. CASE op \in Modifiers
  <2>1. /\ remote'[p].kind = remote[p].kind /\ remote'[q].kind = remote[q].kind
        /\ op \notin {"readdir", "read", "write", "getattr"} \cup Changes
    BY <1>3 DEF Kept, Names, Modifiers, Changes
  <2>2. thread[s].pc # "closedir"
    BY <1>1, <2>1, PlacesOfOps
  <2> QED
    BY <1>1, <2>1, <2>2 DEF Ready, Kept
<1>4. CASE op \notin Modifiers \cup {"readdir"}
  <2>1. remote[p].kind # "none" => /\ remote'[p].kind = remote[p].kind /\ remote'[p].id = remote[p].id
                                   /\ op = "write" => remote'[p].text = remote[p].text
    BY <1>4 DEF Kept, Names
  <2>2. thread[s].pc # "closedir" /\ op \notin {"readdir", "unlink", "create", "mkdir", "rmdir", "rename"}
    BY <1>1, <1>4, PlacesOfOps DEF Modifiers
  <2> QED
    BY <1>1, <2>1, <2>2 DEF Ready, Kept
<1> QED
  BY <1>2, <1>3, <1>4

\* The call of t is answered: another request that counts as undisturbed
\* afterwards finds what it counts on.
LEMMA GrantedKeeps ==
  ASSUME Base, LocksHold, NEW t \in Threads, Granted(t), NEW s \in Threads, s # t,
         Busy(s), clean[s], clean'[s], Ready(s), thread'[s] = thread[s]
  PROVE  Kept(s)
<1> DEFINE p == thread[t].path
           q == thread[t].to
<1>1. /\ Busy(t) /\ Fits(t) /\ TypeOK /\ p \in Paths /\ q \in Paths /\ remote \in [Paths -> Node]
      /\ Names(s) \subseteq Paths
  BY DEF Base, Called, Granted, Waits, TypeOK, Thread, Names
<1>2. Apart(t, s) /\ Apart(s, t) /\ link' # "down" /\ remote' = Effect(t) /\ Accepts(t) /\ s \notin Strays(t)
  BY <1>1 DEF LocksHold, Granted, Spoilt
<1>3. /\ Place(t) = thread[t].pc
      /\ Place(t) \in OneCall => thread[t].op = Place(t)
      /\ Place(t) = "creat" => thread[t].op = "create"
      /\ Place(t) = "write" => thread[t].op = "write"
  BY <1>1, PlacesOfOps DEF Place
<1>4. ASSUME \A n \in Names(s) : remote'[n] = remote[n] PROVE Kept(s)
  BY <1>2, <1>4 DEF Kept
<1>5. CASE (Place(t) = "creat" /\ ~Present(p)) \/ Place(t) = "mkdir"
  <2>1. /\ ~Present(p)
        /\ \E v : remote' = [remote EXCEPT ![p] = v]
    BY <1>2, <1>5 DEF Effect, Accepts, Stats, Changes
  <2>2. thread[s].op \notin Modifiers \cup {"readdir"}
    BY <1>2, <1>3, <1>5 DEF Apart, Modifiers, OneCall
  <2>3. \A n \in Names(s) : n # p => remote'[n] = remote[n]
    BY <1>1, <2>1
  <2> QED
    BY <1>2, <2>1, <2>2, <2>3 DEF Kept, Present
<1>6. CASE Place(t) \in Erasers
  <2>1. thread[t].op = Place(t) /\ Names(t) = {p, q}
    BY <1>3, <1>6 DEF Erasers, OneCall, Names
  <2>2. Names(s) \cap {p, q} = {}
    BY <1>2, <1>6, <2>1 DEF Apart
  <2>3. CASE Place(t) \in {"unlink", "rmdir"}
    <3>1. remote' = [remote EXCEPT ![p] = Absent]
      BY <1>2, <2>3 DEF Effect, Changes
    <3> QED
      BY <1>1, <1>4, <2>2, <3>1
  <2>4. CASE Place(t) = "rename"
    <3>1. remote' = [[remote EXCEPT ![q] = remote[p]] EXCEPT ![p] = Absent]
      BY <1>1, <1>2, <2>4 DEF Effect, Changes
    <3> QED
      BY <1>1, <1>4, <2>2, <3>1
  <2> QED
    BY <1>6, <2>3, <2>4 DEF Erasers
<1>7. CASE Place(t) \in Changes
  <2>1. remote' = [remote EXCEPT ![p] = [remote[p] EXCEPT !.attr = thread[t].val]]
    BY <1>1, <1>2, <1>7 DEF Effect, Changes
  <2>2. ASSUME NEW n \in Paths
        PROVE  /\ remote'[n].kind = remote[n].kind /\ remote'[n].id = remote[n].id
               /\ remote'[n].text = remote[n].text
    BY <1>1, <2>1 DEF Node
  <2> QED
    BY <1>1, <1>2, <2>2 DEF Kept
<1>8. CASE Place(t) = "write"
  <2>1. remote' = [n \in Paths |-> IF remote[n].id = thread[t].at
                                     THEN [remote[n] EXCEPT !.text = thread[t].val] ELSE remote[n]]
    BY <1>2, <1>8 DEF Effect, Changes
  <2>2. ASSUME NEW n \in Paths
        PROVE  /\ remote'[n].kind = remote[n].kind /\ remote'[n].id = remote[n].id
               /\ remote[n].id # thread[t].at => remote'[n].text = remote[n].text
    BY <1>1, <2>1 DEF Node
  <2>3. ASSUME thread[s].op = "write", NEW n \in Names(s) PROVE remote[n].id # thread[t].at
    <3>1. Fits(s) /\ thread[s].path = thread[s].to /\ p = q /\ thread[t].op = "write"
      BY <1>1, <1>3, <1>8, <2>3 DEF Base, Fits
    <3>2. n = thread[s].path /\ n # p
      BY <1>2, <2>3, <3>1 DEF Names, Apart
    <3>3. n \in Names(s) \ Names(t)
      BY <2>3, <3>1, <3>2 DEF Names
    <3> QED
      BY <1>2, <1>8, <3>3 DEF Strays
  <2> QED
    BY <1>1, <1>2, <2>2, <2>3 DEF Kept
<1>9. CASE /\ ~(Place(t) = "creat" /\ ~Present(p))
           /\ Place(t) \notin {"mkdir", "write"} \cup Erasers \cup Changes
  <2>1. remote' = remote
    BY <1>2, <1>9 DEF Effect, Erasers
  <2> QED
    BY <1>4, <2>1
<1> QED
  BY <1>5, <1>6, <1>7, <1>8, <1>9


-----------------------------------------------------------------------------
(* What an undisturbed request does with an answer.                         *)

\* It counts on what it needs at its next place ...
LEMMA GrantedReady ==
  ASSUME Base, NEW t \in Threads, Granted(t), Ready(t), Outcome(t, TRUE), Base', Busy(t)'
  PROVE  Ready(t)'
<1> DEFINE p == thread[t].path
           op == thread[t].op
           pc == thread[t].pc
<1>1. /\ TypeOK /\ Fits(t) /\ Busy(t) /\ p \in Paths /\ remote \in [Paths -> Node] /\ remote' \in [Paths -> Node]
      /\ Numbered(remote) /\ alive' \in BOOLEAN
  BY DEF Base, Called, Granted, Waits, TypeOK, Thread
<1>2. remote' = Effect(t) /\ Accepts(t) /\ link' # "down" /\ Place(t) = pc
  BY DEF Granted, Place
<1>3. ASSUME NEW r \in {"ok", "ENOENT", "unfilled"}, Answer(t, r) PROVE FALSE
  <2>1. thread' = [thread EXCEPT ![t] = [Idle EXCEPT !.reply = r]] /\ r \in Replies
    BY <1>3 DEF Answer, Replies
  <2> QED
    BY <1>1, <2>1, AnswerDone DEF Busy, Done
<1>4. CASE pc \in {"exists", "isdir"}
  <2>1. remote' = remote /\ Present(p)
    BY <1>2, <1>4 DEF Effect, Accepts, Stats, Changes
  <2>2. op \in {"getattr", "read"} /\ (pc = "isdir" => op = "getattr")
    BY <1>1, <1>4, PlacesOfOps
  <2>3. \/ op = "getattr" /\ Go(t, "attrs")
        \/ op = "read" /\ Go(t, "open")
    BY <1>4, <2>2 DEF Outcome, OneCall, Changes
  <2>4. "attrs" \in Places /\ "open" \in Places
    BY DEF Places, Stats, Opens
  <2>5. thread'[t].op = op /\ thread'[t].path = p /\ thread'[t].pc \in {"attrs", "open"}
    BY <1>1, <2>3, <2>4, GoOn DEF On
  <2> QED
    BY <1>2, <2>1, <2>2, <2>5 DEF Ready, Present, Changes
<1>5. CASE pc \in {"opendir", "list"}
  <2>1. remote' = remote
    BY <1>2, <1>5 DEF Effect, Changes
  <2>2. op = "readdir"
    BY <1>1, <1>5, PlacesOfOps
  <2>3. "list" \in Places /\ "closedir" \in Places
    BY DEF Places, Uses, Closes
  <2>4. {n \in Paths : Present(n)}' = {n \in Paths : Present(n)}
    BY <2>1 DEF Present
  <2>5. thread[t].seen \subseteq {n \in Paths : Present(n)}
    BY <2>2 DEF Ready
  <2>6. CASE pc = "opendir"
    <3>1. Go(t, "list")
      BY <2>6 DEF Outcome, OneCall, Changes
    <3>2. thread'[t].op = op /\ thread'[t].pc = "list" /\ thread'[t].seen = thread[t].seen
      BY <1>1, <2>3, <3>1, GoOn DEF On
    <3> QED
      BY <1>2, <2>2, <2>4, <2>5, <3>2 DEF Ready, Changes
  <2>7. CASE pc = "list" /\ Lists(t)
    <3>1. /\ thread'[t].op = op /\ thread'[t].pc = "list"
          /\ thread'[t].seen \subseteq {n \in Paths : Present(n)}
      BY <1>1, <2>5, <2>7, ListsOn DEF On
    <3> QED
      BY <1>2, <2>2, <2>4, <3>1 DEF Ready, Changes
  <2>8. CASE pc = "list" /\ {n \in Paths : Present(n)} \subseteq thread[t].seen /\ Go(t, "closedir")
    <3>1. thread'[t].op = op /\ thread'[t].pc = "closedir" /\ thread'[t].seen = thread[t].seen
      BY <1>1, <2>3, <2>8, GoOn DEF On
    <3>2. thread'[t].seen = {n \in Paths : Present(n)}
      BY <2>5, <2>8, <3>1
    <3> QED
      BY <1>2, <2>2, <2>4, <3>1, <3>2 DEF Ready, Changes
  <2> QED
    BY <1>5, <2>6, <2>7, <2>8 DEF Outcome, OneCall, Changes
<1>6. CASE pc \in {"open", "read"}
  <2>1. remote' = remote
    BY <1>2, <1>6 DEF Effect, Changes
  <2>2. op \in {"read", "write"} /\ (pc = "read" => op = "read")
    BY <1>1, <1>6, PlacesOfOps
  <2>3. \/ op = "read" /\ Opened(t, "read")
        \/ op = "write" /\ Opened(t, "write")
        \/ op = "read" /\ Go(t, "close")
    BY <1>6, <2>2 DEF Outcome, OneCall, Changes, End
  <2>4. "read" \in Places /\ "write" \in Places /\ "close" \in Places
    BY DEF Places, Uses, Closes
  <2>5. CASE op = "read" /\ (Opened(t, "read") \/ Go(t, "close"))
    <3>1. thread'[t].op = op /\ thread'[t].path = p /\ thread'[t].pc \in {"read", "close"}
      BY <1>1, <2>4, <2>5, GoOn, OpenedOn DEF On
    <3> QED
      BY <1>2, <2>1, <2>5, <3>1 DEF Ready, Changes
  <2>6. CASE op = "write" /\ Opened(t, "write")
    <3>1. thread'[t].op = op /\ thread'[t].path = p /\ thread'[t].pc = "write" /\ thread'[t].at = remote'[p].id
      BY <1>1, <2>4, <2>6, OpenedOn DEF On
    <3> QED
      BY <1>2, <2>1, <2>6, <3>1 DEF Ready, Changes
  <2> QED
    BY <2>3, <2>5, <2>6
<1>7. CASE pc = "write"
  <2>1. op = "write" /\ Go(t, "close")
    BY <1>1, <1>7, PlacesOfOps DEF Outcome, OneCall, Changes
  <2>2. remote'[p] = [remote[p] EXCEPT !.text = thread[t].val]
    <3>1. remote[p].id = thread[t].at
      BY <1>7, <2>1 DEF Ready
    <3>2. remote' = [n \in Paths |-> IF remote[n].id = thread[t].at
                                       THEN [remote[n] EXCEPT !.text = thread[t].val] ELSE remote[n]]
      BY <1>2, <1>7 DEF Effect, Changes
    <3> QED
      BY <1>1, <3>1, <3>2
  <2>3. remote'[p].kind = remote[p].kind /\ remote'[p].text = thread[t].val
    BY <1>1, <2>2 DEF Node
  <2>4. "close" \in Places
    BY DEF Places, Closes
  <2>5. thread'[t].op = op /\ thread'[t].path = p /\ thread'[t].pc = "close" /\ thread'[t].val = thread[t].val
    BY <1>1, <2>1, <2>4, GoOn DEF On
  <2> QED
    BY <1>2, <2>1, <2>3, <2>5 DEF Ready, Changes
<1>8. CASE pc = "creat"
  <2>1. op = "create" /\ Opened(t, "close")
    BY <1>1, <1>8, PlacesOfOps DEF Outcome, OneCall, Changes, End
  <2>2. remote'[p].kind = "file"
    <3>1. CASE Present(p)
      <4>1. remote' = remote
        BY <1>2, <1>8, <3>1 DEF Effect, Changes
      <4>2. remote[p].kind \notin {"none", "dir"} /\ remote[p] \in Node
        BY <1>1, <1>2, <1>8, <3>1 DEF Accepts, Stats, Changes, Present, IsDir
      <4> QED
        BY <4>1, <4>2 DEF Node
    <3>2. CASE ~Present(p)
      <4>1. remote' = [remote EXCEPT ![p] = New("file")]
        BY <1>2, <1>8, <3>2 DEF Effect, Changes
      <4>2. New("file").kind = "file"
        BY <1>1, <3>2, NewNode DEF Numbered, Present
      <4> QED
        BY <1>1, <4>1, <4>2
    <3> QED
      BY <3>1, <3>2
  <2>3. "close" \in Places
    BY DEF Places, Closes
  <2>4. thread'[t].op = op /\ thread'[t].path = p /\ thread'[t].pc = "close"
    BY <1>1, <2>1, <2>3, OpenedOn DEF On
  <2> QED
    BY <1>2, <2>1, <2>2, <2>4 DEF Ready, Changes
<1>9. CASE pc \in {"attrs", "close", "closedir"} \cup OneCall
  <2>1. \E r \in {"ok", "ENOENT", "unfilled"} : Answer(t, r)
    BY <1>9 DEF Outcome, OneCall, Changes
  <2> QED
    BY <1>3, <2>1
<1> QED
  BY <1>4, <1>5, <1>6, <1>7, <1>8, <1>9 DEF Outcome

\* ... and the server declines nothing it needs: only a name that is not
\* there, looked for, and a rename onto a name that is taken.
LEMMA ReadyAccepted ==
  ASSUME Base, NEW t \in Threads, Busy(t), Ready(t), ~Accepts(t)
  PROVE  \/ thread[t].op = "getattr" /\ thread[t].pc \in {"exists", "isdir"} /\ ~Present(thread[t].path)
         \/ thread[t].op = "rename" /\ thread[t].pc = "rename" /\ ~RenameReplaces
<1> DEFINE p == thread[t].path
           op == thread[t].op
           pc == thread[t].pc
<1>1. TypeOK /\ Fits(t) /\ p \in Paths /\ Place(t) = pc
  BY DEF Base, TypeOK, Thread, Place
<1>2. CASE pc \in {"exists", "isdir", "attrs"}
  <2>1. ~Present(p)
    BY <1>1, <1>2 DEF Accepts, Stats
  <2>2. op \in {"getattr", "read"} /\ (pc # "exists" => op = "getattr")
    BY <1>1, <1>2, PlacesOfOps
  <2> QED
    BY <1>2, <2>1, <2>2 DEF Ready, Present
<1>3. CASE pc \in Changes
  <2>1. ~Present(p) /\ op = pc
    BY <1>1, <1>3, PlacesOfOps DEF Accepts, Stats, OneCall, Changes
  <2> QED
    BY <1>3, <2>1 DEF Ready, Present, Changes
<1>4. CASE pc \in {"open", "unlink"}
  <2>1. ~IsFile(p) /\ op \in {"read", "write", "unlink"}
    BY <1>1, <1>4, PlacesOfOps DEF Accepts, Stats, OneCall, Changes
  <2> QED
    BY <2>1 DEF Ready, IsFile
<1>5. CASE pc = "creat"
  <2>1. IsDir(p) /\ op = "create"
    BY <1>1, <1>5, PlacesOfOps DEF Accepts, Stats, OneCall, Changes
  <2> QED
    BY <1>5, <2>1 DEF Ready, IsDir
<1>6. CASE pc \in {"mkdir", "rmdir"}
  <2>1. /\ op = pc
        /\ pc = "mkdir" => Present(p)
        /\ pc = "rmdir" => ~IsDir(p)
    BY <1>1, <1>6, PlacesOfOps DEF Accepts, Stats, OneCall, Changes
  <2> QED
    BY <1>6, <2>1 DEF Ready, IsDir, Present
<1>7. CASE pc = "rename"
  <2>1. /\ op = pc
        /\ ~(/\ Present(p)
             /\ \/ ~Present(thread[t].to)
                \/ RenameReplaces /\ remote[thread[t].to].kind = remote[p].kind)
    BY <1>1, <1>7, PlacesOfOps DEF Accepts, Stats, OneCall, Changes
  <2> QED
    BY <1>7, <2>1 DEF Ready, Present
<1>8. CASE pc \notin {"exists", "isdir", "attrs", "open", "unlink", "creat", "mkdir", "rmdir", "rename"} \cup Changes
  BY <1>1, <1>8 DEF Accepts, Stats
<1> QED
  BY <1>2, <1>3, <1>4, <1>5, <1>6, <1>7, <1>8


-----------------------------------------------------------------------------
(* The invariant is kept.                                                   *)

\* Locks depend on which requests run, and on what.
LEMMA LocksKept ==
  ASSUME LocksHold, \A s \in Threads : Busy(s)' => Busy(s) /\ Same(s)
  PROVE  LocksHold'
<1>1. SUFFICES ASSUME NEW s \in Threads, NEW t \in Threads, s # t, Busy(s)', Busy(t)' PROVE Apart(s, t)'
  BY DEF LocksHold
<1>2. Busy(s) /\ Same(s) /\ Busy(t) /\ Same(t) /\ Apart(s, t)
  BY <1>1 DEF LocksHold
<1>3. Names(s)' = Names(s) /\ Names(t)' = Names(t)
  BY <1>2 DEF Same, Names
<1> QED
  BY <1>2, <1>3 DEF Apart, Same

\* A handler goes on with its request, or is done with it.
LEMMA CallSame ==
  ASSUME Base, NEW t \in Threads, NEW ok \in BOOLEAN, Outcome(t, ok), remote' \in [Paths -> Node]
  PROVE  Only(t) /\ \A s \in Threads : Busy(s)' => Busy(s) /\ Same(s)
<1>1. Only(t) /\ (Same(t) \/ thread'[t].op = "none")
  BY OutcomeFits DEF Base
<1> QED
  BY <1>1 DEF Only, Same, Busy

\* Steps after which no request counts as undisturbed, or none is.
LEMMA NoneClean ==
  ASSUME IInv, Base', \A s \in Threads : Busy(s)' => Busy(s) /\ Same(s),
         \A s \in Threads : Busy(s)' => ~clean'[s]
  PROVE  IInv'
  BY LocksKept DEF IInv

\* Steps of the server, the link and other clients.
LEMMA AllKept ==
  ASSUME IInv, Base', UNCHANGED thread,
         \A s \in Threads : Busy(s) /\ clean'[s] => clean[s] /\ (Ready(s) => Kept(s))
  PROVE  IInv'
<1>1. \A s \in Threads : Busy(s)' => Busy(s) /\ Same(s)
  BY DEF Busy, Same
<1>2. ASSUME NEW s \in Threads, Busy(s)', clean'[s] PROVE Ready(s)'
  <2>1. Busy(s) /\ clean[s] /\ Ready(s) /\ Kept(s)
    BY <1>1, <1>2 DEF IInv
  <2> QED
    BY <2>1, KeptReady DEF IInv
<1> QED
  BY <1>1, <1>2, LocksKept DEF IInv

\* A request the kernel starts finds what it counts on, and disturbs no other,
LEMMA StartKeeps ==
  ASSUME IInv, Base', NEW t \in Threads, NEW op \in Ops, NEW p \in Paths, NEW q \in Paths, NEW v \in Data,
         Start(t, op, p, q, v)
  PROVE  IInv'
<1>1. /\ Only(t) /\ ~Busy(t)
      /\ UNCHANGED <<remote, link>>
      /\ \A s \in Threads : s # t => clean'[s] = clean[s]
      /\ clean'[t] => link # "down"
      /\ MayRun(op, p, q) /\ LookedUp(op, p, q)
      /\ op = "readdir" => p = AnyPath
  <2>1. clean \in [Threads -> BOOLEAN]
    BY DEF IInv, Base, TypeOK
  <2> QED
    BY <2>1, StartThread DEF Start, IInv
<1>2. \A s \in Threads : s # t => thread'[s] = thread[s]
  BY <1>1 DEF Only
<1>3. ASSUME Busy(t)'
      PROVE  /\ thread'[t].op = op /\ thread'[t].path = p /\ thread'[t].to = q /\ thread'[t].val = v
             /\ thread'[t].pc = FirstPlace(op) /\ thread'[t].seen = {}
  BY <1>3, StartThread DEF IInv, Busy
<1>4. LocksHold'
  <2>1. ASSUME NEW s \in Threads, s # t, Busy(s), Busy(t)' PROVE Apart(s, t)' /\ Apart(t, s)'
    <3>1. thread'[s] = thread[s] /\ Names(s)' = Names(s)
      BY <1>2, <2>1 DEF Names
    <3>2. /\ op \in Erasers \/ thread[s].op \in Erasers => Names(s) \cap {p, q} = {}
          /\ ~(op \in Modifiers /\ thread[s].op \in Modifiers \cup {"readdir"})
          /\ ~(op = "readdir" /\ thread[s].op \in Modifiers)
          /\ ~(op = "write" /\ thread[s].op = "write" /\ thread[s].path = p)
      BY <1>1, <2>1 DEF MayRun, Writers
    <3>3. thread'[t].op = op /\ thread'[t].path = p /\ Names(t)' = IF op = "readdir" THEN Paths ELSE {p, q}
      BY <1>3, <2>1 DEF Names
    <3>4. op = "readdir" => op \notin Erasers /\ thread[s].op \notin Erasers
      BY <3>2 DEF Erasers, Modifiers
    <3>5. op \in Erasers \/ thread[s].op \in Erasers => Names(s) \cap Names(t)' = {}
      BY <3>2, <3>3, <3>4
    <3> QED
      BY <3>1, <3>2, <3>3, <3>5 DEF Apart
  <2>2. ASSUME NEW s \in Threads, NEW u \in Threads, s # t, u # t, s # u, Busy(s)', Busy(u)'
        PROVE  Apart(s, u)'
    <3>1. thread'[s] = thread[s] /\ thread'[u] = thread[u]
      BY <1>2, <2>2
    <3>2. Busy(s) /\ Busy(u) /\ Names(s)' = Names(s) /\ Names(u)' = Names(u)
      BY <2>2, <3>1 DEF Busy, Names
    <3>3. Apart(s, u)
      BY <2>2, <3>2 DEF IInv, LocksHold
    <3> QED
      BY <3>1, <3>2, <3>3 DEF Apart
  <2>3. \A s \in Threads : s # t => (Busy(s)' <=> Busy(s))
    BY <1>2 DEF Busy
  <2> QED
    BY <2>1, <2>2, <2>3 DEF LocksHold
<1>5. ASSUME NEW s \in Threads, Busy(s)', clean'[s] PROVE Ready(s)'
  <2>1. CASE s # t
    <3>1. Busy(s) /\ clean[s] /\ Ready(s)
      BY <1>1, <1>2, <1>5, <2>1 DEF IInv, Busy
    <3>2. Kept(s)
      BY <1>1, <1>2, <2>1, <3>1 DEF Kept, Ready
    <3> QED
      BY <3>1, <3>2, KeptReady DEF IInv
  <2>2. CASE s = t
    <3>1. op \in {"getattr", "read", "readdir", "write", "create", "truncate"} \cup OneCall
      BY OpsAssumption DEF AllOps, OneCall, Modifiers, Writers, Changes
    <3>2. /\ op \in {"getattr", "read"} => FirstPlace(op) = "exists"
          /\ op = "readdir" => FirstPlace(op) = "opendir"
          /\ op = "write" => FirstPlace(op) = "open"
          /\ op = "create" => FirstPlace(op) = "creat"
          /\ op \in OneCall \cup {"truncate"} => FirstPlace(op) = op
      BY <3>1 DEF FirstPlace, OneCall, Changes
    <3>3. /\ op \in {"create", "mkdir"} => remote[p].kind = "none"
          /\ op \in {"read", "write", "unlink"} => remote[p].kind = "file"
          /\ op = "rmdir" => remote[p].kind = "dir"
          /\ op \in Changes => remote[p].kind # "none"
          /\ op = "rename" => remote[p].kind # "none" /\ remote[q].kind \in {"none", remote[p].kind}
      BY <1>1 DEF LookedUp, Present, IsFile, IsDir, Changes
    <3> DEFINE pc == FirstPlace(op)
    <3>4. pc \notin {"close", "closedir", "attrs", "write"}
      BY <3>1, <3>2 DEF OneCall, Changes
    <3>5. /\ link' # "down" /\ remote' = remote
          /\ thread'[t].op = op /\ thread'[t].path = p /\ thread'[t].to = q
          /\ thread'[t].pc = pc /\ thread'[t].seen = {}
      BY <1>1, <1>3, <1>5, <2>2
    <3> HIDE DEF pc
    <3> QED
      BY <2>2, <3>3, <3>4, <3>5 DEF Ready, Changes
  <2> QED
    BY <2>1, <2>2
<1> QED
  BY <1>4, <1>5 DEF IInv

\* a truncate leaves everything to the others as it was,
LEMMA TruncateKeeps ==
  ASSUME IInv, Base', NEW t \in Threads, TruncateFile(t)
  PROVE  IInv'
<1>1. /\ Only(t) /\ thread'[t].op = "none"
      /\ UNCHANGED <<remote, handles, link, alive, call, clean, lost, faults, others>>
  BY TruncateThread DEF IInv
<1>2. \A s \in Threads : s # t => thread'[s] = thread[s]
  BY <1>1 DEF Only
<1>3. \A s \in Threads : Busy(s)' => s # t /\ Busy(s) /\ Same(s)
  BY <1>1, <1>2 DEF Busy, Same
<1>4. ASSUME NEW s \in Threads, Busy(s)', clean'[s] PROVE Ready(s)'
  <2>1. Busy(s) /\ Ready(s) /\ thread'[s] = thread[s]
    BY <1>1, <1>2, <1>3, <1>4 DEF IInv
  <2>2. Kept(s)
    BY <1>1, <2>1 DEF Kept, Ready
  <2> QED
    BY <2>1, <2>2, KeptReady DEF IInv
<1> QED
  BY <1>3, <1>4, LocksKept DEF IInv

\* a call and its answer leave the others what they count on,
LEMMA CallKeeps ==
  ASSUME IInv, Base', NEW t \in Threads, Granted(t) \/ Declined(t) \/ Refused(t) \/ NoLink(t)
  PROVE  IInv'
<1>1. /\ Base /\ LocksHold /\ TypeOK /\ Fits(t) /\ Busy(t)
      /\ clean \in [Threads -> BOOLEAN] /\ remote' \in [Paths -> Node]
  BY DEF IInv, Base, Called, TypeOK, Granted, Declined, Refused, NoLink, Waits
<1>2. CASE Granted(t)
  <2>1. Outcome(t, TRUE)
    BY <1>1, <1>2, HandlerTable DEF Granted
  <2>2. Only(t) /\ \A s \in Threads : Busy(s)' => Busy(s) /\ Same(s)
    BY <1>1, <2>1, CallSame
  <2>3. \A s \in Threads : clean'[s] => clean[s]
    BY <1>1, <1>2 DEF Granted, Spoilt
  <2>4. ASSUME NEW s \in Threads, Busy(s)', clean'[s] PROVE Ready(s)'
    <3>1. Busy(s) /\ clean[s] /\ Ready(s)
      BY <2>2, <2>3, <2>4 DEF IInv
    <3>2. CASE s = t
      BY <1>1, <1>2, <2>1, <2>4, <3>1, <3>2, GrantedReady
    <3>3. CASE s # t
      <4>1. thread'[s] = thread[s]
        BY <2>2, <3>3 DEF Only
      <4> QED
        BY <1>1, <1>2, <2>4, <3>1, <3>3, <4>1, GrantedKeeps, KeptReady
    <3> QED
      BY <3>2, <3>3
  <2> QED
    BY <2>2, <2>4, LocksKept DEF IInv
<1>3. CASE Declined(t) \/ Refused(t) \/ NoLink(t)
  <2>1. Outcome(t, FALSE)
    BY <1>1, <1>3, HandlerTable DEF Declined, Refused, NoLink
  <2>2. Only(t) /\ \A s \in Threads : Busy(s)' => Busy(s) /\ Same(s)
    BY <1>1, <2>1, CallSame
  <2>3. \A s \in Threads : clean'[s] => clean[s] /\ (Refused(t) => s # t)
    BY <1>1, <1>3 DEF Declined, Refused, NoLink, Spoilt
  <2>4. UNCHANGED <<remote, link>>
    BY <1>3 DEF Declined, Refused, NoLink
  <2>5. ASSUME NEW s \in Threads, Busy(s)', clean'[s] PROVE Ready(s)'
    <3>1. Busy(s) /\ clean[s] /\ Ready(s)
      BY <2>2, <2>3, <2>5 DEF IInv
    <3>2. link # "down"
      BY <3>1 DEF Ready
    <3>3. CASE s # t
      <4>1. thread'[s] = thread[s]
        BY <2>2, <3>3 DEF Only
      <4>2. Kept(s)
        BY <2>4, <3>2, <4>1 DEF Kept
      <4> QED
        BY <1>1, <3>1, <4>2, KeptReady
    <3>4. CASE s = t
      <4>1. Declined(t)
        BY <1>3, <2>3, <2>5, <3>2, <3>4 DEF NoLink
      <4>2. ~Accepts(t)
        BY <4>1 DEF Declined
      <4>3. \/ thread[t].op = "getattr" /\ thread[t].pc \in {"exists", "isdir"}
            \/ thread[t].pc = "rename"
        BY <1>1, <3>1, <3>4, <4>2, ReadyAccepted
      <4>4. ASSUME NEW r \in {"ok", "ENOENT", "unfilled"}, Answer(t, r) PROVE FALSE
        <5>1. thread' = [thread EXCEPT ![t] = [Idle EXCEPT !.reply = r]] /\ r \in Replies
          BY <4>4 DEF Answer, Replies
        <5> QED
          BY <1>1, <2>5, <3>4, <5>1, AnswerDone DEF Busy, Done
      <4>5. thread[t].op = "getattr" /\ Go(t, "isdir")
        BY <2>1, <4>3, <4>4 DEF Outcome, OneCall, Changes
      <4>6. "isdir" \in Places
        BY DEF Places, Stats
      <4>7. thread'[t].op = "getattr" /\ thread'[t].pc = "isdir"
        BY <1>1, <4>5, <4>6, GoOn DEF On
      <4> QED
        BY <2>4, <3>2, <3>4, <4>7 DEF Ready, Changes
    <3> QED
      BY <3>3, <3>4
  <2> QED
    BY <2>2, <2>5, LocksKept DEF IInv
<1> QED
  BY <1>2, <1>3


\* a link that breaks disturbs every request that runs,
LEMMA BreaksKeeps ==
  ASSUME IInv, Base', NEW t \in Threads, Waits(t), Breaks(t)
  PROVE  IInv'
<1>1. Outcome(t, FALSE) /\ \A s \in Threads : ~clean'[s]
  BY BreaksTypes DEF IInv
<1>2. remote' \in [Paths -> Node]
  BY DEF Base, TypeOK
<1>3. \A s \in Threads : Busy(s)' => Busy(s) /\ Same(s)
  BY <1>1, <1>2, CallSame DEF IInv
<1> QED
  BY <1>1, <1>3, NoneClean

\* another client disturbs the requests at the names it changes;
LEMMA OtherKeeps ==
  ASSUME IInv, Base', NEW hit, NEW tree, Other(hit, tree), \A n \in Paths \ hit : tree[n] = remote[n]
  PROVE  IInv'
<1>1. UNCHANGED <<thread, link>> /\ remote' = tree /\ Spoilt({s \in Threads : Names(s) \cap hit # {}})
  BY DEF Other
<1>2. ASSUME NEW s \in Threads, Busy(s), clean'[s] PROVE clean[s] /\ (Ready(s) => Kept(s))
  <2>1. clean[s] /\ Names(s) \cap hit = {}
    BY <1>1, <1>2 DEF Spoilt
  <2>2. Names(s) \subseteq Paths
    BY DEF IInv, Base, TypeOK, Thread, Names
  <2>3. \A n \in Names(s) : remote'[n] = remote[n]
    BY <1>1, <2>1, <2>2
  <2> QED
    BY <1>1, <2>1, <2>3 DEF Kept, Ready
<1> QED
  BY <1>1, <1>2, AllKept

\* so every step keeps IInv,
LEMMA IInvStep ==
  ASSUME IInv, [Next]_vars
  PROVE  IInv'
<1>1. Base /\ Base' /\ TypeOK /\ remote \in [Paths -> Node] /\ clean \in [Threads -> BOOLEAN]
  BY BaseStep DEF IInv, Base, TypeOK
<1>2. ASSUME UNCHANGED <<remote, thread>>, link' = link \/ link' # "down", \A s \in Threads : clean'[s] => clean[s]
      PROVE  IInv'
  <2>1. \A s \in Threads : Busy(s) /\ clean'[s] => clean[s] /\ (Ready(s) => Kept(s))
    BY <1>2 DEF Kept, Ready
  <2> QED
    BY <1>1, <1>2, <2>1, AllKept
<1>3. CASE UNCHANGED vars
  BY <1>2, <1>3 DEF vars
<1>4. ASSUME NEW t \in Threads, NEW op \in Ops, NEW p \in Paths, NEW q \in Paths, NEW v \in Data,
             Start(t, op, p, q, v)
      PROVE  IInv'
  BY <1>1, <1>4, StartKeeps
<1>5. ASSUME NEW t \in Threads, Send(t) PROVE IInv'
  BY <1>1, <1>2, <1>5 DEF Send
<1>6. ASSUME NEW t \in Threads, Granted(t) \/ Declined(t) \/ Refused(t) \/ NoLink(t) PROVE IInv'
  BY <1>1, <1>6, CallKeeps
<1>7. ASSUME NEW t \in Threads, CutOff(t) PROVE IInv'
  BY <1>1, <1>7, BreaksKeeps DEF CutOff
<1>8. ASSUME NEW t \in Threads, Garbled(t) PROVE IInv'
  <2>1. CASE Breaks(t)
    BY <1>1, <1>8, <2>1, BreaksKeeps DEF Garbled
  <2>2. CASE UNCHANGED <<remote, thread, clean>> /\ (link' = link \/ link' = "stuck")
    BY <1>2, <2>2
  <2> QED
    BY <1>8, <2>1, <2>2 DEF Garbled
<1>9. CASE Drop
  <2>1. UNCHANGED thread /\ \A s \in Threads : ~clean'[s]
    BY <1>9 DEF Drop, Spoilt
  <2> QED
    BY <1>1, <2>1, AllKept
<1>10. CASE Hush \/ Resume
  BY <1>2, <1>10 DEF Hush, Resume
<1>11. ASSUME NEW p \in Paths, NEW kind \in {"file", "dir"}, OtherMakes(p, kind) PROVE IInv'
  <2> DEFINE tree == [remote EXCEPT ![p] = New(kind)]
  <2>1. Other({p}, tree) /\ \A n \in Paths \ {p} : tree[n] = remote[n]
    BY <1>1, <1>11 DEF OtherMakes
  <2> HIDE DEF tree
  <2> QED
    BY <1>1, <2>1, OtherKeeps
<1>12. ASSUME NEW p \in Paths, OtherRemoves(p) PROVE IInv'
  <2> DEFINE tree == [remote EXCEPT ![p] = Absent]
  <2>1. Other({p}, tree) /\ \A n \in Paths \ {p} : tree[n] = remote[n]
    BY <1>1, <1>12 DEF OtherRemoves
  <2> HIDE DEF tree
  <2> QED
    BY <1>1, <2>1, OtherKeeps
<1>13. ASSUME NEW p \in Paths, NEW q \in Paths, OtherMoves(p, q) PROVE IInv'
  <2> DEFINE tree == [remote EXCEPT ![q] = remote[p], ![p] = Absent]
  <2>1. Other({p, q}, tree) /\ \A n \in Paths \ {p, q} : tree[n] = remote[n]
    BY <1>1, <1>13 DEF OtherMoves
  <2> HIDE DEF tree
  <2> QED
    BY <1>1, <2>1, OtherKeeps
<1>14. ASSUME NEW t \in Threads, TruncateFile(t) PROVE IInv'
  BY <1>1, <1>14, TruncateKeeps
<1> QED
  BY <1>3, <1>4, <1>5, <1>6, <1>7, <1>8, <1>9, <1>10, <1>11, <1>12, <1>13, <1>14 DEF Next, Step

\* and the start has it.
LEMMA IInvInit ==
  ASSUME Init
  PROVE  IInv
<1>1. \A t \in Threads : ~Busy(t)
  BY IdleType DEF Init, Busy
<1> QED
  BY <1>1, BaseInit DEF IInv, LocksHold

-----------------------------------------------------------------------------
(* The process ends, and requests take effect.                              *)

\* Who can end the process: a request refused what it needs.
LEMMA EndsRefused ==
  ASSUME Base, NEW t \in Threads, NEW ok \in BOOLEAN, Outcome(t, ok), alive, ~alive'
  PROVE  ~ok /\ thread[t].op \in {"read", "write", "create"} /\ thread[t].pc \in {"open", "read", "creat"}
<1>1. TypeOK /\ Fits(t)
  BY DEF Base
<1>2. \A place, r : ~Go(t, place) /\ ~Answer(t, r) /\ ~Opened(t, place) /\ ~Lists(t) /\ ~GivesUp(t)
  BY DEF Go, Answer, Opened, Lists, GivesUp
<1>3. ~ok /\ thread[t].pc \in {"open", "read", "creat"}
  BY <1>2 DEF Outcome
<1> QED
  BY <1>1, <1>3, PlacesOfOps

\* A request that nothing disturbed never ends the process: one that does had
\* a failure or another client in its way and opens a file, or ran into
\* another call on the session.
THEOREM UndisturbedNeverEnd == Spec => DisturbedOpensEnd
<1>1. ASSUME IInv, [Next]_vars, alive, ~alive'
      PROVE  \E t \in Threads :
               \/ call[t] = "mixed"
               \/ ~clean'[t] /\ thread[t].op \in {"read", "write", "create"}
  <2>1. Base /\ TypeOK
    BY <1>1 DEF IInv, Base
  <2>2. ASSUME NEW t \in Threads, Granted(t) \/ Declined(t) \/ Refused(t) \/ NoLink(t)
        PROVE  ~clean'[t] /\ thread[t].op \in {"read", "write", "create"}
    <3>1. Fits(t) /\ Busy(t)
      BY <2>1, <2>2 DEF Base, Called, Granted, Declined, Refused, NoLink, Waits
    <3>2. CASE Granted(t)
      <4>1. Outcome(t, TRUE)
        BY <2>1, <3>1, <3>2, HandlerTable DEF Granted
      <4> QED
        BY <1>1, <2>1, <4>1, EndsRefused
    <3>3. CASE Declined(t) \/ Refused(t) \/ NoLink(t)
      <4>1. Outcome(t, FALSE)
        BY <2>1, <3>1, <3>3, HandlerTable DEF Declined, Refused, NoLink
      <4>2. /\ thread[t].op \in {"read", "write", "create"}
            /\ thread[t].pc \in {"open", "read", "creat"}
        BY <1>1, <2>1, <4>1, EndsRefused
      <4>3. ASSUME clean'[t] PROVE FALSE
        <5>1. ~Refused(t) /\ clean' = clean
          BY <3>3, <4>3 DEF Declined, Refused, NoLink, Spoilt
        <5>2. Ready(t)
          BY <1>1, <3>1, <4>3, <5>1 DEF IInv
        <5>3. ~NoLink(t)
          BY <5>2 DEF Ready, NoLink
        <5>4. ~Accepts(t)
          BY <3>3, <5>1, <5>3 DEF Declined
        <5> QED
          BY <2>1, <3>1, <4>2, <5>2, <5>4, ReadyAccepted
      <4> QED
        BY <4>2, <4>3
    <3> QED
      BY <2>2, <3>2, <3>3
  <2>3. ASSUME NEW t \in Threads, CutOff(t)
        PROVE  ~clean'[t] /\ thread[t].op \in {"read", "write", "create"}
    <3>1. Outcome(t, FALSE) /\ ~clean'[t]
      BY <2>1, <2>3, BreaksTypes DEF CutOff
    <3> QED
      BY <1>1, <2>1, <3>1, EndsRefused
  <2>4. ASSUME NEW t \in Threads, Garbled(t) PROVE call[t] = "mixed"
    BY <2>4 DEF Garbled
  <2>5. \/ \E t \in Threads : \/ Granted(t) \/ Declined(t) \/ Refused(t) \/ NoLink(t)
                              \/ CutOff(t) \/ Garbled(t)
        \/ alive' = alive
    <3>1. CASE UNCHANGED vars
      BY <3>1 DEF vars
    <3>2. CASE Next
      <4>1. ASSUME Drop \/ Hush \/ Resume PROVE alive' = alive
        BY <4>1 DEF Drop, Hush, Resume
      <4>2. ASSUME NEW p \in Paths, NEW q \in Paths, NEW kind \in {"file", "dir"},
                   OtherMakes(p, kind) \/ OtherRemoves(p) \/ OtherMoves(p, q)
            PROVE  alive' = alive
        BY <4>2 DEF OtherMakes, OtherRemoves, OtherMoves, Other
      <4>3. ASSUME NEW t \in Threads, NEW op \in Ops, NEW p \in Paths, NEW q \in Paths, NEW v \in Data,
                   Start(t, op, p, q, v)
            PROVE  alive' = alive
        BY <4>3 DEF Start
      <4>4. ASSUME NEW t \in Threads, Step(t)
            PROVE  alive' = alive \/ Granted(t) \/ Declined(t) \/ NoLink(t)
        BY <4>4 DEF Step, Send, TruncateFile, Answer
      <4> QED
        BY <3>2, <4>1, <4>2, <4>3, <4>4 DEF Next
    <3> QED
      BY <1>1, <3>1, <3>2
  <2> QED
    BY <1>1, <2>2, <2>3, <2>4, <2>5
<1>2. IInv /\ [Next]_vars => IInv'
  BY IInvStep
<1>3. IInv /\ [Next]_vars =>
        [alive /\ ~alive' => \E t \in Threads :
           \/ call[t] = "mixed"
           \/ ~clean'[t] /\ thread[t].op \in {"read", "write", "create"}]_vars
  BY <1>1
<1> QED
  BY IInvInit, <1>2, <1>3, PTL DEF Spec, DisturbedOpensEnd


\* The last call of an undisturbed request is carried out.
LEMMA GrantedTakes ==
  ASSUME Base, NEW t \in Threads, Granted(t), Ready(t), Outcome(t, TRUE), Answers(t)
  PROVE  Took(t)
<1> DEFINE p == thread[t].path
           q == thread[t].to
           op == thread[t].op
           pc == thread[t].pc
<1>1. /\ TypeOK /\ Fits(t) /\ Busy(t) /\ p \in Paths /\ q \in Paths /\ thread[t].val \in Data
      /\ remote \in [Paths -> Node] /\ Numbered(remote) /\ thread'[t].op = "none"
  BY DEF Base, Called, Granted, Waits, Answers, TypeOK, Thread
<1>2. remote' = Effect(t) /\ Accepts(t) /\ Place(t) = pc /\ op # "none"
  BY <1>1 DEF Granted, Place, Busy
<1>3. ASSUME NEW place \in Places, On(t, place) PROVE FALSE
  BY <1>1, <1>2, <1>3 DEF On
<1>4. pc \in {"attrs", "close", "closedir"} \cup OneCall /\ Answer(t, "ok")
  <2>1. /\ "attrs" \in Places /\ "isdir" \in Places /\ "open" \in Places /\ "read" \in Places
        /\ "write" \in Places /\ "close" \in Places /\ "list" \in Places /\ "closedir" \in Places
    BY DEF Places, Stats, Opens, Uses, Closes
  <2>2. \A place \in Places : ~Go(t, place)
    BY <1>1, <1>3, GoOn
  <2>3. remote' \in [Paths -> Node]
    BY <1>1, <1>2, EffectType
  <2>4. \A place \in Places : ~Opened(t, place)
    BY <1>1, <1>3, <2>3, OpenedOn
  <2>5. ~Lists(t)
    BY <1>1, <1>2, ListsOn DEF On
  <2> QED
    BY <2>1, <2>2, <2>4, <2>5 DEF Outcome, OneCall, Changes
<1>5. thread'[t].reply = "ok"
  <2>1. thread' = [thread EXCEPT ![t] = [Idle EXCEPT !.reply = "ok"]] /\ "ok" \in Replies
    BY <1>4 DEF Answer, Replies
  <2> QED
    BY <1>1, <2>1, AnswerDone DEF Done
<1>6. CASE pc = "attrs"
  <2>1. op = "getattr" /\ Present(p)
    BY <1>1, <1>2, <1>6, PlacesOfOps DEF Accepts, Stats, Changes
  <2> QED
    BY <1>5, <2>1 DEF Took, Changes
<1>7. CASE pc = "closedir"
  <2>1. op = "readdir" /\ thread[t].seen = {n \in Paths : Present(n)}
    BY <1>1, <1>7, PlacesOfOps DEF Ready
  <2> QED
    BY <2>1 DEF Took, Changes
<1>8. CASE pc = "close"
  <2>1. remote' = remote /\ op \in {"read", "write", "create"}
    BY <1>1, <1>2, <1>8, PlacesOfOps DEF Effect, Changes
  <2>2. CASE op = "read"
    BY <1>5, <2>2 DEF Ready, Took, Present, Changes
  <2>3. CASE op = "write"
    BY <1>8, <2>1, <2>3 DEF Ready, Took, Changes
  <2>4. CASE op = "create"
    BY <1>8, <2>1, <2>4 DEF Ready, Took, Changes
  <2> QED
    BY <2>1, <2>2, <2>3, <2>4
<1>9. CASE pc \in OneCall
  <2>1. op = pc
    BY <1>1, <1>9, PlacesOfOps
  <2>2. CASE pc = "mkdir"
    <3>1. remote' = [remote EXCEPT ![p] = New("dir")] /\ ~Present(p)
      BY <1>2, <2>2 DEF Effect, Accepts, Stats, Changes
    <3>2. New("dir").kind = "dir"
      BY <1>1, <3>1, NewNode DEF Numbered, Present
    <3>3. remote'[p].kind = "dir"
      BY <1>1, <3>1, <3>2
    <3> QED
      BY <2>1, <2>2, <3>3 DEF Took, Changes
  <2>3. CASE pc \in {"unlink", "rmdir"}
    <3>1. remote' = [remote EXCEPT ![p] = Absent]
      BY <1>2, <2>3 DEF Effect, Changes
    <3>2. remote'[p] = Absent
      BY <1>1, <3>1
    <3> QED
      BY <2>1, <2>3, <3>2 DEF Took, Changes
  <2>4. CASE pc = "rename"
    <3>1. remote' = [[remote EXCEPT ![q] = remote[p]] EXCEPT ![p] = Absent] /\ p # q
      BY <1>1, <1>2, <2>1, <2>4 DEF Effect, Changes, Fits
    <3>2. remote'[q] = remote[p] /\ remote'[p] = Absent
      BY <1>1, <3>1
    <3> QED
      BY <2>1, <2>4, <3>2 DEF Took, Changes
  <2>5. CASE pc \in Changes
    <3>1. remote' = [remote EXCEPT ![p] = [remote[p] EXCEPT !.attr = thread[t].val]]
      BY <1>1, <1>2, <2>5 DEF Effect, Changes
    <3>2. remote'[p].attr = thread[t].val
      BY <1>1, <3>1 DEF Node
    <3> QED
      BY <2>1, <2>5, <3>2 DEF Took, Changes
  <2> QED
    BY <1>9, <2>2, <2>3, <2>4, <2>5 DEF OneCall
<1> QED
  BY <1>4, <1>6, <1>7, <1>8, <1>9

\* The step that answers an undisturbed request: a truncate is left out, and a
\* rename where the server does not replace the target.
LEMMA AnswerTakes ==
  ASSUME IInv, [Next]_vars, NEW t \in Threads, Answers(t), clean'[t],
         thread[t].op # "truncate", RenameReplaces \/ thread[t].op # "rename"
  PROVE  Took(t)
<1>1. Base /\ TypeOK /\ clean \in [Threads -> BOOLEAN] /\ remote' \in [Paths -> Node] /\ Fits(t)
  BY BaseStep DEF IInv, Base, TypeOK
<1>2. Busy(t) /\ thread'[t].op = "none" /\ thread'[t] # thread[t]
  BY DEF Answers, Busy
<1>3. ASSUME NEW s \in Threads, NEW ok \in BOOLEAN, Outcome(s, ok) PROVE s = t
  BY <1>1, <1>2, <1>3, CallSame DEF Only
<1>4. ASSUME NEW s \in Threads, Granted(s) \/ Declined(s) \/ Refused(s) \/ NoLink(s) PROVE s = t
  <2>1. Fits(s)
    BY <1>1 DEF Base
  <2>2. Outcome(s, TRUE) \/ Outcome(s, FALSE)
    BY <1>1, <1>4, <2>1, HandlerTable DEF Granted, Declined, Refused, NoLink
  <2> QED
    BY <1>3, <2>2
<1>5. ASSUME NEW s \in Threads, CutOff(s) \/ Garbled(s) PROVE FALSE
  <2>1. CASE UNCHANGED thread
    BY <1>2, <2>1
  <2>2. CASE Waits(s) /\ Breaks(s)
    BY <1>1, <2>2, BreaksTypes
  <2> QED
    BY <1>5, <2>1, <2>2 DEF CutOff, Garbled
<1>6. ASSUME NEW s \in Threads, NEW op \in Ops, NEW p \in Paths, NEW q \in Paths, NEW v \in Data,
             Start(s, op, p, q, v)
      PROVE  FALSE
  <2>1. Only(s) /\ ~Busy(s)
    BY <1>1, <1>6, StartThread DEF Start
  <2> QED
    BY <1>2, <2>1 DEF Only
<1>7. ASSUME NEW s \in Threads, TruncateFile(s) PROVE FALSE
  <2>1. Only(s) /\ thread[s].op = "truncate"
    BY <1>1, <1>7, TruncateThread
  <2> QED
    BY <1>2, <2>1 DEF Only
<1>8. Granted(t) \/ Declined(t) \/ Refused(t) \/ NoLink(t)
  <2>1. thread' # thread
    BY <1>2
  <2>2. \E s \in Threads : Granted(s) \/ Declined(s) \/ Refused(s) \/ NoLink(s)
    BY <1>5, <1>6, <1>7, <2>1
       DEF Next, Step, Send, Drop, Hush, Resume, OtherMakes, OtherRemoves, OtherMoves, Other, vars
  <2> QED
    BY <1>4, <2>2
<1>9. clean[t] /\ ~Refused(t)
  BY <1>1, <1>8 DEF Granted, Declined, Refused, NoLink, Spoilt
<1>10. Ready(t) /\ ~NoLink(t)
  BY <1>2, <1>9 DEF IInv, Ready, NoLink
<1>11. CASE Granted(t)
  <2>1. Outcome(t, TRUE)
    BY <1>1, <1>11, HandlerTable DEF Granted
  <2> QED
    BY <1>1, <1>10, <1>11, <2>1, GrantedTakes
<1>12. CASE Declined(t)
  <2>1. /\ thread[t].op = "getattr" /\ thread[t].pc \in {"exists", "isdir"}
        /\ ~Present(thread[t].path) /\ Outcome(t, FALSE)
    BY <1>1, <1>2, <1>10, <1>12, ReadyAccepted, HandlerTable DEF Declined
  <2>2. Answer(t, "ENOENT") \/ Go(t, "isdir")
    BY <2>1 DEF Outcome, OneCall, Changes
  <2>3. ~Go(t, "isdir")
    BY <1>1, <1>2, <2>1, GoOn DEF On, Places, Stats
  <2>4. thread'[t].reply = "ENOENT"
    BY <1>1, <2>2, <2>3, AnswerDone DEF Answer, Done, Replies
  <2> QED
    BY <2>1, <2>4 DEF Took, Changes
<1> QED
  BY <1>8, <1>9, <1>10, <1>11, <1>12

\* Although no handler looks at an error, a request other than a truncate that
\* nothing disturbed leaves the server as it asked, or answers what is there:
\* provided that the server renames onto an existing target, as rename(2) does
\* and version 3 of sftp does not, or that nobody renames.
THEOREM AllButTruncatesTakeEffect ==
  ASSUME RenameReplaces \/ "rename" \notin Ops
  PROVE  Spec => CleanTakesEffect
<1>1. ASSUME IInv, NEW t \in Threads, Answers(t) PROVE RenameReplaces \/ thread[t].op # "rename"
  BY <1>1 DEF IInv, Base, TypeOK, Thread, Answers, Busy
<1>2. IInv /\ [Next]_vars => IInv'
  BY IInvStep
<1>3. IInv /\ [Next]_vars =>
        [\A t \in Threads : Answers(t) /\ clean'[t] /\ thread[t].op # "truncate" => Took(t)]_vars
  BY <1>1, AnswerTakes
<1> QED
  BY IInvInit, <1>2, <1>3, PTL DEF Spec, CleanTakesEffect

\* On any server every undisturbed request that is neither a truncate nor a
\* rename does.
THEOREM AllButTruncatesAndRenamesTakeEffect ==
  Spec => [][\A t \in Threads :
               Answers(t) /\ clean'[t] /\ thread[t].op \notin {"truncate", "rename"} => Took(t)]_vars
<1>1. IInv /\ [Next]_vars => IInv'
  BY IInvStep
<1>2. IInv /\ [Next]_vars =>
        [\A t \in Threads :
           Answers(t) /\ clean'[t] /\ thread[t].op \notin {"truncate", "rename"} => Took(t)]_vars
  BY AnswerTakes
<1> QED
  BY IInvInit, <1>1, <1>2, PTL DEF Spec
=============================================================================
