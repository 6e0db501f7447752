--------------------------- MODULE RamThreadsProofs ---------------------------
(***************************************************************************)
(* Proofs about RamThreads, for every number of threads, every set of      *)
(* paths and every way to lay them out in directories.                     *)
(***************************************************************************)
EXTENDS RamThreads, VectorLemmas, FiniteSetTheorems

-----------------------------------------------------------------------------
(* Types, and which places of the handlers a request can be at.             *)

PlaceFits(t) ==
  LET op == thread[t].op  pc == thread[t].pc IN
  /\ op = "none"    <=> pc = "idle"
  /\ op = "create"  => pc \in {"push", "store"}
  /\ op = "unlink"  => pc \in {"remove", "erase"}
  /\ op = "rename"  => pc \in {"target", "remove", "erase", "find", "use"}
  /\ op = "change"  => pc \in {"find", "use"}
  /\ op = "read"    => pc \in {"exists", "find", "use"}
  /\ op = "getattr" => pc \in {"exists", "find", "fill"}
  /\ op = "readdir" => pc = "list"

\* Each create that runs will add one entry at most.
Creators == {s \in Threads : thread[s].op = "create"}
Room == Len(files) + Cardinality(Creators) <= MaxFiles

Base ==
  /\ TypeOK
  /\ fileCap # 0
  /\ Room
  /\ \A t \in Threads : PlaceFits(t)

\* What a step of another thread leaves of s: everything but the history
\* variable that says whether it was disturbed.
Resembles(s) ==
  /\ thread'[s].op = thread[s].op /\ thread'[s].path = thread[s].path /\ thread'[s].to = thread[s].to
  /\ thread'[s].pc = thread[s].pc /\ thread'[s].i = thread[s].i /\ thread'[s].index = thread[s].index
  /\ thread'[s].cap = thread[s].cap /\ thread'[s].there = thread[s].there /\ thread'[s].due = thread[s].due
  /\ thread'[s].reply = thread[s].reply
  /\ thread'[s] \in Thread
  /\ thread'[s].clean => thread[s].clean

\* A step of one thread changes nothing of another's request but `clean`.
LEMMA OthersResemble ==
  ASSUME TypeOK, NEW t \in Threads, Step(t), NEW s \in Threads, s # t
  PROVE  Resembles(s)
<1>1. thread[s] \in Thread
  BY DEF TypeOK
<1>2. ASSUME NEW hit, NEW r, thread' = [Disturbed(hit) EXCEPT ![t] = r]
      PROVE  Resembles(s)
  <2>1. thread'[s] = [thread[s] EXCEPT !.clean = thread[s].clean /\ s \notin hit]
    BY <1>2 DEF Disturbed
  <2> QED
    BY <1>1, <2>1 DEF Resembles, Thread
<1>3. ASSUME NEW r, thread' = [thread EXCEPT ![t] = r]
      PROVE  Resembles(s)
  <2>1. thread'[s] = thread[s]
    BY <1>3 DEF TypeOK
  <2> QED
    BY <1>1, <2>1 DEF Resembles
<1>4. ASSUME thread'[s] = thread[s]
      PROVE  Resembles(s)
  BY <1>1, <1>4 DEF Resembles
<1>5. CASE Advance(t) \/ Hit(t) \/ Push(t) \/ List(t)
  <2>1. thread'[s] = thread[s]
    BY <1>5 DEF Advance, Hit, Push, List, Answer, TypeOK
  <2> QED
    BY <1>4, <2>1
<1>6. CASE Miss(t)
  <2>1. thread'[s] = thread[s]
    BY <1>6 DEF Miss, Answer, Abort, GoTo, TypeOK
  <2> QED
    BY <1>4, <2>1
<1>7. CASE Erase(t)
  BY <1>2, <1>3, <1>7 DEF Erase, Abort, Answer
<1>8. CASE Use(t)
  BY <1>2, <1>3, <1>8 DEF Use, Abort, Answer
<1>9. CASE Fill(t)
  BY <1>3, <1>9 DEF Fill, Abort, Answer
<1>10. CASE Store(t)
  BY <1>2, <1>10 DEF Store
<1>11. CASE StoreRaced(t)
  BY <1>2, <1>11 DEF StoreRaced
<1> QED
  BY <1>5, <1>6, <1>7, <1>8, <1>9, <1>10, <1>11 DEF Step

\* The ways a step changes the vector.
Unmoved == UNCHANGED <<files, fileCap>>
Erased(k)      == k \in 1..Len(files) /\ files' = RemoveAt(files, k) /\ UNCHANGED fileCap
Added(p)       == files' = Append(files, p) /\ fileCap' = Grown
Replaced(k, p) == k \in 1..Len(files) /\ files' = [files EXCEPT ![k] = p] /\ UNCHANGED fileCap

\* Which of them a thread can cause, and at which place.
LEMMA StepsOnVector ==
  ASSUME TypeOK, NEW t \in Threads, Step(t)
  PROVE  \/ Unmoved
         \/ thread[t].pc = "erase" /\ \E k \in Nat : Erased(k)
         \/ thread[t].pc = "store" /\ Added(thread[t].path)
         \/ thread[t].pc = "store" /\ ~Undisturbed(t) /\ Replaced(thread[t].index, thread[t].path)
         \/ thread[t].pc = "use" /\ thread[t].op = "rename" /\ Replaced(thread[t].index, thread[t].to)
<1>1. Len(files) \in Nat /\ DOMAIN files = 1..Len(files) /\ thread[t] \in Thread
  BY LenProperties DEF TypeOK
<1>2. CASE Advance(t) \/ Hit(t) \/ Push(t) \/ List(t)
  BY <1>2 DEF Advance, Hit, Push, List, Unmoved
<1>3. CASE Miss(t) \/ Fill(t)
  BY <1>3 DEF Miss, Fill, Unmoved
<1>4. CASE Erase(t)
  <2> DEFINE k == Min({thread[t].index, Len(files)})
  <2>1. k \in Nat /\ k <= Len(files)
    BY <1>1, MinOfTwo DEF Thread
  <2>2. thread[t].pc = "erase" /\ UNCHANGED fileCap /\ (UNCHANGED files \/ (k > 0 /\ files' = RemoveAt(files, k)))
    BY <1>4 DEF Erase
  <2> HIDE DEF k
  <2> QED
    BY <1>1, <2>1, <2>2 DEF Unmoved, Erased
<1>5. CASE Use(t)
  BY <1>1, <1>5 DEF Use, Unmoved, Replaced
<1>6. CASE Store(t)
  BY <1>6 DEF Store, Added
<1>7. CASE StoreRaced(t)
  BY <1>1, <1>7 DEF StoreRaced, Added, Replaced, Unmoved
<1> QED
  BY <1>2, <1>3, <1>4, <1>5, <1>6, <1>7 DEF Step

-----------------------------------------------------------------------------
(* What a step leaves of its own request.                                   *)

Places == Searches \cup Holds \cup {"push", "store", "list", "idle"}

\* It runs on, at another place,
Stays(t) ==
  /\ thread'[t] \in Thread
  /\ thread'[t].op = thread[t].op /\ thread'[t].path = thread[t].path /\ thread'[t].to = thread[t].to
  /\ thread'[t].there = thread[t].there /\ thread'[t].clean = thread[t].clean
  /\ thread'[t].reply = thread[t].reply

StaysAt(t, pc, i) ==
  Stays(t) /\ thread'[t].due = thread[t].due /\ thread'[t].pc = pc /\ thread'[t].i = i

\* or it is answered.
Ends(t, r) ==
  /\ thread'[t] \in Thread
  /\ thread'[t].op = "none" /\ thread'[t].pc = "idle" /\ thread'[t].reply = r
  /\ thread'[t].there = thread[t].there
  /\ thread'[t].clean => thread[t].clean

\* Answering a request, also beside disturbing others, ends it.
LEMMA EndsBy ==
  ASSUME TypeOK, NEW t \in Threads, NEW r \in Replies, NEW hit,
         \/ Answer(t, r)
         \/ thread' = [Disturbed(hit) EXCEPT ![t] = Answered(t, r)]
         \/ thread' = [Disturbed(hit) EXCEPT ![t] = [Answered(t, r) EXCEPT !.clean = FALSE]]
  PROVE  Ends(t, r)
<1>1. Idle \in Thread
  BY PathsAssumption, MaxFilesAssumption DEF Idle, Thread, Replies
<1>2. Answered(t, r) \in Thread
  BY <1>1 DEF Answered, Thread, TypeOK
<1>3. /\ Answered(t, r).op = "none" /\ Answered(t, r).pc = "idle" /\ Answered(t, r).reply = r
      /\ Answered(t, r).clean = thread[t].clean /\ Answered(t, r).there = thread[t].there
  BY DEF Answered, Idle
<1>4. \/ thread'[t] = Answered(t, r)
      \/ thread'[t] = [Answered(t, r) EXCEPT !.clean = FALSE]
  BY DEF Answer, Disturbed, TypeOK
<1> HIDE DEF Answered
<1>5. [Answered(t, r) EXCEPT !.clean = FALSE] \in Thread
  BY <1>2 DEF Thread
<1>6. CASE thread'[t] = Answered(t, r)
  BY <1>2, <1>3, <1>6 DEF Ends
<1>7. CASE thread'[t] = [Answered(t, r) EXCEPT !.clean = FALSE]
  <2>1. /\ thread'[t] \in Thread /\ thread'[t].clean = FALSE /\ thread'[t].op = Answered(t, r).op
        /\ thread'[t].pc = Answered(t, r).pc /\ thread'[t].reply = Answered(t, r).reply
        /\ thread'[t].there = Answered(t, r).there
    BY <1>2, <1>5, <1>7 DEF Thread
  <2> QED
    BY <1>3, <2>1 DEF Ends
<1> QED
  BY <1>4, <1>6, <1>7

\* A comparison that fails moves the search on by one.
LEMMA OwnAdvance ==
  ASSUME TypeOK, NEW t \in Threads, Advance(t)
  PROVE  StaysAt(t, thread[t].pc, thread[t].i + 1) /\ thread'[t].index = thread[t].index
<1>1. thread[t] \in Thread /\ Len(files) \in Nat /\ Len(files) <= MaxFiles /\ MaxFiles \in Nat
  BY LenProperties, MaxFilesAssumption DEF TypeOK
<1>2. thread'[t] = [thread[t] EXCEPT !.i = thread[t].i + 1] /\ thread[t].i <= Len(files)
  BY DEF Advance, TypeOK
<1>3. thread[t].i + 1 \in 1..(MaxFiles + 1)
  BY <1>1, <1>2 DEF Thread
<1>4. thread'[t] \in Thread
  BY <1>1, <1>2, <1>3 DEF Thread
<1> QED
  BY <1>1, <1>2, <1>4 DEF StaysAt, Stays, Thread

\* A comparison that succeeds keeps the index and the capacity it saw.
LEMMA OwnHit ==
  ASSUME TypeOK, NEW t \in Threads, Hit(t)
  PROVE  /\ StaysAt(t, AfterHit(t), 1)
         /\ thread'[t].index = thread[t].i /\ thread'[t].cap = fileCap
<1>1. thread[t] \in Thread /\ MaxFiles \in Nat /\ 1 \in 1..(MaxFiles + 1) /\ fileCap \in Nat
  BY MaxFilesAssumption DEF TypeOK
<1>2. /\ thread'[t] = [thread[t] EXCEPT !.pc = AfterHit(t), !.i = 1, !.index = thread[t].i, !.cap = fileCap]
      /\ thread[t].pc \in Searches
  BY DEF Hit, Searching, TypeOK
<1>3. AfterHit(t) \in Places
  BY <1>2 DEF AfterHit, Searches, Places, Holds
<1>4. thread[t].i \in 0..(MaxFiles + 1)
  BY <1>1 DEF Thread
<1>5. thread'[t] \in Thread
  BY <1>1, <1>2, <1>3, <1>4 DEF Thread, Places
<1> HIDE DEF AfterHit
<1> QED
  BY <1>1, <1>2, <1>5 DEF StaysAt, Stays, Thread

\* push_back takes the end of the vector as its place.
LEMMA OwnPush ==
  ASSUME TypeOK, NEW t \in Threads, Push(t)
  PROVE  /\ StaysAt(t, "store", thread[t].i)
         /\ thread'[t].index = Len(files) + 1 /\ thread'[t].cap = fileCap
<1>1. /\ thread[t] \in Thread /\ Len(files) \in Nat /\ Len(files) <= MaxFiles
      /\ MaxFiles \in Nat /\ fileCap \in Nat
  BY LenProperties, MaxFilesAssumption DEF TypeOK
<1>2. thread'[t] = [thread[t] EXCEPT !.pc = "store", !.index = Len(files) + 1, !.cap = fileCap]
  BY DEF Push, TypeOK
<1>3. Len(files) + 1 \in 0..(MaxFiles + 1) /\ "store" \in Places
  BY <1>1 DEF Places
<1>4. thread'[t] \in Thread
  BY <1>1, <1>2, <1>3 DEF Thread, Places
<1> QED
  BY <1>1, <1>2, <1>4 DEF StaysAt, Stays, Thread

\* One turn of the listing ticks one file off.
LEMMA OwnList ==
  ASSUME TypeOK, NEW t \in Threads, List(t), thread[t].i <= Len(files)
  PROVE  /\ Stays(t) /\ thread'[t].pc = "list" /\ thread'[t].i = thread[t].i + 1
         /\ thread'[t].due = thread[t].due \ {files[thread[t].i]}
<1>1. thread[t] \in Thread /\ Len(files) \in Nat /\ Len(files) <= MaxFiles /\ MaxFiles \in Nat
  BY LenProperties, MaxFilesAssumption DEF TypeOK
<1>2. /\ thread'[t] = [thread[t] EXCEPT !.i = thread[t].i + 1, !.due = thread[t].due \ {files[thread[t].i]}]
      /\ thread[t].pc = "list"
  BY DEF List, TypeOK
<1>3. thread[t].i + 1 \in 1..(MaxFiles + 1)
  BY <1>1 DEF Thread
<1>4. thread'[t] \in Thread
  BY <1>1, <1>2, <1>3 DEF Thread
<1> QED
  BY <1>1, <1>2, <1>4 DEF Stays, Thread

\* A search that begins, begins at the first element.
LEMMA OwnJump ==
  ASSUME TypeOK, NEW t \in Threads, NEW place \in {"find"}, NEW hit,
         \/ GoTo(t, place)
         \/ thread' = [Disturbed(hit) EXCEPT ![t] = [thread[t] EXCEPT !.pc = place, !.i = 1]]
  PROVE  StaysAt(t, place, 1)
<1>1. thread[t] \in Thread /\ MaxFiles \in Nat /\ 1 \in 1..(MaxFiles + 1)
  BY MaxFilesAssumption DEF TypeOK
<1>2. thread'[t] = [thread[t] EXCEPT !.pc = place, !.i = 1]
  BY DEF GoTo, Disturbed, TypeOK
<1>3. place \in Places
  BY DEF Places, Searches
<1>4. thread'[t] \in Thread
  BY <1>1, <1>2, <1>3 DEF Thread, Places
<1> QED
  BY <1>1, <1>2, <1>4 DEF StaysAt, Stays, Thread

\* What each search is followed by when it finds nothing.
LEMMA OwnMiss ==
  ASSUME TypeOK, NEW t \in Threads, Miss(t)
  PROVE  \/ thread[t].pc = "exists" /\ Ends(t, "ENOENT")
         \/ thread[t].pc = "target" /\ StaysAt(t, "find", 1)
         \/ thread[t].pc = "remove" /\ thread[t].op = "rename" /\ StaysAt(t, "find", 1)
         \/ thread[t].pc = "remove" /\ thread[t].op # "rename" /\ Ends(t, "ok")
         \/ thread[t].pc = "find" /\ (Ends(t, "unfilled") \/ Ends(t, "assert"))
<1>1. "ENOENT" \in Replies /\ "ok" \in Replies /\ "unfilled" \in Replies /\ "assert" \in Replies
  BY DEF Replies, Failures
<1>2. ASSUME NEW r \in Replies, Answer(t, r) PROVE Ends(t, r)
  BY <1>2, EndsBy
<1>3. ASSUME GoTo(t, "find") PROVE StaysAt(t, "find", 1)
  BY <1>3, OwnJump
<1>4. \/ thread[t].pc = "exists" /\ Answer(t, "ENOENT")
      \/ thread[t].pc = "target" /\ GoTo(t, "find")
      \/ thread[t].pc = "remove" /\ thread[t].op = "rename" /\ GoTo(t, "find")
      \/ thread[t].pc = "remove" /\ thread[t].op # "rename" /\ Answer(t, "ok")
      \/ thread[t].pc = "find" /\ (Answer(t, "unfilled") \/ Answer(t, "assert"))
  BY DEF Miss, Abort
<1> QED
  BY <1>1, <1>2, <1>3, <1>4

\* An erase goes on to the rename's next search, ends, or runs past the end.
LEMMA OwnErase ==
  ASSUME TypeOK, NEW t \in Threads, Erase(t)
  PROVE  \/ thread[t].op = "rename" /\ StaysAt(t, "find", 1)
         \/ thread[t].op # "rename" /\ Ends(t, "ok")
         \/ thread[t].index > Len(files) /\ Ends(t, "crash")
<1>1. "ok" \in Replies /\ "crash" \in Replies
  BY DEF Replies, Failures
<1>2. ASSUME NEW r \in Replies, Answer(t, r) PROVE Ends(t, r)
  BY <1>2, EndsBy
<1>3. ASSUME NEW hit, thread' = [Disturbed(hit) EXCEPT ![t] = Answered(t, "ok")]
      PROVE  Ends(t, "ok")
  BY <1>1, <1>3, EndsBy
<1>4. ASSUME NEW hit, thread' = [Disturbed(hit) EXCEPT ![t] = [thread[t] EXCEPT !.pc = "find", !.i = 1]]
      PROVE  StaysAt(t, "find", 1)
  BY <1>4, OwnJump
<1>5. \/ /\ thread[t].op = "rename"
         /\ \E hit : thread' = [Disturbed(hit) EXCEPT ![t] = [thread[t] EXCEPT !.pc = "find", !.i = 1]]
      \/ /\ thread[t].op # "rename"
         /\ \E hit : thread' = [Disturbed(hit) EXCEPT ![t] = Answered(t, "ok")]
      \/ thread[t].index > Len(files) /\ Answer(t, "crash")
  BY DEF Erase, Abort
<1> QED
  BY <1>1, <1>2, <1>3, <1>4, <1>5

\* A use of an index ends the request, well unless it is past the end.
LEMMA OwnUse ==
  ASSUME TypeOK, NEW t \in Threads, Use(t)
  PROVE  Ends(t, "ok") \/ (thread[t].index \notin DOMAIN files /\ Ends(t, "crash"))
<1>1. "ok" \in Replies /\ "crash" \in Replies
  BY DEF Replies, Failures
<1>2. ASSUME NEW r \in Replies, Answer(t, r) PROVE Ends(t, r)
  BY <1>2, EndsBy
<1>3. ASSUME NEW hit, thread' = [Disturbed(hit) EXCEPT ![t] = Answered(t, "ok")]
      PROVE  Ends(t, "ok")
  BY <1>1, <1>3, EndsBy
<1>4. \/ \E hit : thread' = [Disturbed(hit) EXCEPT ![t] = Answered(t, "ok")]
      \/ Answer(t, "ok")
      \/ thread[t].index \notin DOMAIN files /\ Answer(t, "crash")
  BY DEF Use, Abort
<1> QED
  BY <1>1, <1>2, <1>3, <1>4

\* A use of a pointer ends the request, well unless the vector moved.
LEMMA OwnFill ==
  ASSUME TypeOK, NEW t \in Threads, Fill(t)
  PROVE  \/ Ends(t, "ok")
         \/ (thread[t].cap # fileCap \/ thread[t].index \notin DOMAIN files) /\ Ends(t, "crash")
<1>1. "ok" \in Replies /\ "crash" \in Replies
  BY DEF Replies, Failures
<1>2. ASSUME NEW r \in Replies, Answer(t, r) PROVE Ends(t, r)
  BY <1>2, EndsBy
<1> QED
  BY <1>1, <1>2 DEF Fill, Abort

\* An element stored where push_back meant to ends the create well.
LEMMA OwnStore ==
  ASSUME TypeOK, NEW t \in Threads, Store(t)
  PROVE  Ends(t, "ok")
<1>1. "ok" \in Replies
  BY DEF Replies
<1>2. \E hit : thread' = [Disturbed(hit) EXCEPT ![t] = Answered(t, "ok")]
  BY DEF Store
<1> QED
  BY <1>1, <1>2, EndsBy

\* A push_back that was overtaken may end in any way, and is not clean.
LEMMA OwnStoreRaced ==
  ASSUME TypeOK, NEW t \in Threads, StoreRaced(t)
  PROVE  ~thread'[t].clean /\ \E r \in {"ok", "lost", "crash"} : Ends(t, r)
<1>1. "ok" \in Replies /\ "lost" \in Replies /\ "crash" \in Replies
  BY DEF Replies, Failures
<1>2. PICK r \in {"ok", "lost", "crash"}, hit \in SUBSET Threads :
        thread' = [Disturbed(hit) EXCEPT ![t] = [Answered(t, r) EXCEPT !.clean = FALSE]]
  <2> DEFINE over == IF thread[t].index \in DOMAIN files THEN {files[thread[t].index]} ELSE {}
             reached == {t} \cup {s \in Threads : thread[s].pc = "fill" \/ Wants(s) \cap over # {}}
  <2>1. reached \in SUBSET Threads
    OBVIOUS
  <2>2. \E r \in {"ok", "lost", "crash"} :
          thread' = [Disturbed(reached) EXCEPT ![t] = [Answered(t, r) EXCEPT !.clean = FALSE]]
    BY DEF StoreRaced
  <2> QED
    BY <2>1, <2>2
<1>3. Ends(t, r)
  BY <1>1, <1>2, EndsBy
<1>4. thread'[t] = [Answered(t, r) EXCEPT !.clean = FALSE]
  BY <1>2 DEF Disturbed, TypeOK
<1>5. ~thread'[t].clean
  BY <1>4 DEF Answered, Idle
<1> QED
  BY <1>3, <1>5

\* A listing ends as a whole one only if nothing is left to show.
LEMMA OwnListed ==
  ASSUME TypeOK, NEW t \in Threads, List(t), ~(thread[t].i <= Len(files))
  PROVE  Ends(t, IF thread[t].due = {} THEN "ok" ELSE "missed")
<1>1. "ok" \in Replies /\ "missed" \in Replies
  BY DEF Replies, Failures
<1>2. Answer(t, IF thread[t].due = {} THEN "ok" ELSE "missed")
  BY DEF List
<1> QED
  BY <1>1, <1>2, EndsBy

\* A step either leaves its own request at a place that fits, or answers it.
LEMMA OwnStep ==
  ASSUME Base, NEW t \in Threads, Step(t)
  PROVE  /\ thread'[t] \in Thread
         /\ PlaceFits(t)'
         /\ thread'[t].op \in {thread[t].op, "none"}
         /\ thread[t].op # "none"
         /\ thread[t].pc = "store" => thread'[t].op = "none"
<1>1. TypeOK /\ PlaceFits(t)
  BY DEF Base
<1>2. thread[t].pc # "idle"
  BY DEF Step, Advance, Hit, Miss, Erase, Use, Fill, Push, Store, StoreRaced, List, Searching, Searches
<1>3. thread[t].op # "none"
  BY <1>1, <1>2 DEF PlaceFits
<1> DEFINE Goal == /\ thread'[t] \in Thread /\ PlaceFits(t)' /\ thread'[t].op \in {thread[t].op, "none"}
                   /\ thread[t].pc = "store" => thread'[t].op = "none"
<1>4. ASSUME NEW r, Ends(t, r) PROVE Goal
  BY <1>4 DEF PlaceFits, Ends
<1>5. ASSUME Stays(t), PlaceFits(t)', thread[t].pc # "store" PROVE Goal
  BY <1>5 DEF Stays
<1> HIDE DEF Goal
<1> SUFFICES Goal
  BY <1>3 DEF Goal
<1>6. CASE Advance(t)
  <2>1. StaysAt(t, thread[t].pc, thread[t].i + 1)
    BY <1>1, <1>6, OwnAdvance
  <2>2. thread[t].pc # "store"
    BY <1>6 DEF Advance, Searching, Searches
  <2>3. PlaceFits(t)'
    BY <1>1, <2>1 DEF PlaceFits, StaysAt, Stays
  <2> QED
    BY <1>5, <2>1, <2>2, <2>3 DEF StaysAt
<1>7. CASE Hit(t)
  <2>1. StaysAt(t, AfterHit(t), 1)
    BY <1>1, <1>7, OwnHit
  <2>2. thread[t].pc \in {"exists", "target", "remove", "find"}
    BY <1>7 DEF Hit, Searching, Searches
  <2>3. PlaceFits(t)'
    BY <1>1, <2>1, <2>2 DEF PlaceFits, StaysAt, Stays, AfterHit
  <2> QED
    BY <1>5, <2>1, <2>2, <2>3 DEF StaysAt
<1>8. ASSUME StaysAt(t, "find", 1), thread[t].op = "rename", thread[t].pc # "store"
      PROVE  Goal
  <2>1. PlaceFits(t)'
    BY <1>8 DEF PlaceFits, StaysAt, Stays
  <2> QED
    BY <1>5, <1>8, <2>1 DEF StaysAt
<1>9. CASE Miss(t)
  <2>1. thread[t].pc = "target" => thread[t].op = "rename"
    BY <1>1 DEF PlaceFits, TypeOK, Thread, Ops, DirectoryOps, Modifiers, Updates
  <2> QED
    BY <1>1, <1>4, <1>8, <1>9, <2>1, OwnMiss
<1>10. CASE Erase(t)
  <2>1. thread[t].pc = "erase"
    BY <1>10 DEF Erase
  <2> QED
    BY <1>1, <1>4, <1>8, <1>10, <2>1, OwnErase
<1>11. CASE Use(t) \/ Fill(t) \/ Store(t) \/ StoreRaced(t)
  BY <1>1, <1>4, <1>11, OwnUse, OwnFill, OwnStore, OwnStoreRaced
<1>12. CASE Push(t)
  <2>1. StaysAt(t, "store", thread[t].i)
    BY <1>1, <1>12, OwnPush
  <2>2. thread[t].pc = "push"
    BY <1>12 DEF Push
  <2>3. PlaceFits(t)'
    BY <1>1, <2>1, <2>2 DEF PlaceFits, StaysAt, Stays
  <2> QED
    BY <1>5, <2>1, <2>2, <2>3 DEF StaysAt
<1>13. CASE List(t)
  <2>1. CASE thread[t].i <= Len(files)
    <3>1. Stays(t) /\ thread'[t].pc = "list"
      BY <1>1, <1>13, <2>1, OwnList
    <3>2. thread[t].pc = "list"
      BY <1>13 DEF List
    <3>3. PlaceFits(t)'
      BY <1>1, <3>1, <3>2 DEF PlaceFits, Stays
    <3> QED
      BY <1>5, <3>1, <3>2, <3>3
  <2>2. CASE ~(thread[t].i <= Len(files))
    BY <1>1, <1>4, <1>13, <2>2, OwnListed
  <2> QED
    BY <2>1, <2>2
<1> QED
  BY <1>6, <1>7, <1>9, <1>10, <1>11, <1>12, <1>13 DEF Step

-----------------------------------------------------------------------------
(* A request that starts.                                                   *)

\* Where the handler of each request begins.
LEMMA FirstPlaces ==
  ASSUME NEW op \in Ops
  PROVE  /\ FirstPlace(op) \in Places
         /\ FirstPlace(op) # "idle" /\ FirstPlace(op) \notin Holds /\ FirstPlace(op) # "store"
         /\ op = "create" => FirstPlace(op) = "push"
         /\ op = "unlink" => FirstPlace(op) = "remove"
         /\ op = "rename" => FirstPlace(op) = "target"
         /\ op = "change" => FirstPlace(op) = "find"
         /\ op = "readdir" => FirstPlace(op) = "list"
         /\ op \in {"read", "getattr"} => FirstPlace(op) = "exists"
  BY DEF Ops, DirectoryOps, Modifiers, Updates, FirstPlace, Places, Searches, Holds

\* The vector's elements, as the set the listing has to show.
LEMMA ListedPaths ==
  ASSUME TypeOK
  PROVE  /\ ToSet(files) = {files[j] : j \in 1..Len(files)}
         /\ ToSet(files) \subseteq Paths
  BY LenProperties, ElementOfSeq DEF TypeOK, ToSet

\* What a new request looks like, which leaves the others alone.
LEMMA StartThread ==
  ASSUME TypeOK, NEW t \in Threads, NEW op \in Ops, NEW p \in Paths, NEW q \in Paths, Start(t, op, p, q)
  PROVE  /\ thread'[t] \in Thread
         /\ thread'[t].op = op /\ thread'[t].path = p /\ thread'[t].to = q
         /\ thread'[t].pc = FirstPlace(op) /\ thread'[t].i = 1 /\ thread'[t].reply = "none"
         /\ thread'[t].there => p \in ToSet(files)
         /\ op = "readdir" => thread'[t].due \subseteq ToSet(files)
         /\ thread' = [thread EXCEPT ![t] = thread'[t]]
         /\ \A s \in Threads : s # t => thread'[s] = thread[s]
<1> DEFINE due == IF op = "readdir" THEN {n \in ToSet(files) : dirOf[n] = dirOf[p]} ELSE {}
           pc  == FirstPlace(op)
           th  == p \in ToSet(files)
<1>1. Idle \in Thread /\ Idle.reply = "none" /\ Idle.i = 1
  BY PathsAssumption, MaxFilesAssumption DEF Idle, Thread, Replies
<1>2. due \in SUBSET Paths /\ due \subseteq ToSet(files) /\ th \in BOOLEAN /\ pc \in Places
  BY ListedPaths, FirstPlaces
<1>3. thread' = [thread EXCEPT ![t] = [Idle EXCEPT !.op = op, !.path = p, !.to = q, !.pc = pc,
                                                 !.there = th, !.due = due]]
  BY DEF Start
<1> HIDE DEF due, pc, th
<1>4. thread'[t] = [Idle EXCEPT !.op = op, !.path = p, !.to = q, !.pc = pc, !.there = th, !.due = due]
  BY <1>3 DEF TypeOK
<1>5. thread'[t] \in Thread
  <2> HIDE DEF Idle
  <2>1. op \in Ops \cup {"none"}
    OBVIOUS
  <2>2. [Idle EXCEPT !.op = op, !.path = p, !.to = q] \in Thread
    BY <1>1, <2>1 DEF Thread
  <2>3. ASSUME NEW r \in Thread PROVE [r EXCEPT !.pc = pc, !.there = th, !.due = due] \in Thread
    BY <1>2, <2>3 DEF Thread, Places
  <2>4. thread'[t] = [[Idle EXCEPT !.op = op, !.path = p, !.to = q] EXCEPT !.pc = pc, !.there = th, !.due = due]
    BY <1>4, Zenon
  <2> QED
    BY <2>2, <2>3, <2>4
<1>6. /\ thread'[t].op = op /\ thread'[t].path = p /\ thread'[t].to = q /\ thread'[t].pc = pc
      /\ thread'[t].i = 1 /\ thread'[t].reply = "none" /\ thread'[t].there = th /\ thread'[t].due = due
  <2> HIDE DEF Idle
  <2> QED
    BY <1>1, <1>4 DEF Thread
<1>7. thread' = [thread EXCEPT ![t] = thread'[t]] /\ \A s \in Threads : s # t => thread'[s] = thread[s]
  BY <1>3 DEF TypeOK
<1> QED
  BY <1>2, <1>5, <1>6, <1>7 DEF pc, th

\* A new request begins at a place of its handler.
LEMMA StartFits ==
  ASSUME Base, NEW t \in Threads, NEW op \in Ops, NEW p \in Paths, NEW q \in Paths, Start(t, op, p, q)
  PROVE  \A s \in Threads : thread'[s] \in Thread /\ PlaceFits(s)'
<1>1. TypeOK /\ \A s \in Threads : thread[s] \in Thread /\ PlaceFits(s)
  BY DEF Base, TypeOK
<1>2. thread'[t] \in Thread /\ thread'[t].op = op /\ thread'[t].pc = FirstPlace(op)
  BY <1>1, StartThread
<1>3. PlaceFits(t)'
  <2>1. op # "none"
    BY DEF Ops, DirectoryOps, Modifiers, Updates
  <2> QED
    BY <1>2, <2>1, FirstPlaces DEF PlaceFits
<1>4. ASSUME NEW s \in Threads, s # t PROVE thread'[s] \in Thread /\ PlaceFits(s)'
  <2>1. thread'[s] = thread[s]
    BY <1>1, <1>4, StartThread
  <2> QED
    BY <1>1, <2>1 DEF PlaceFits
<1> QED
  BY <1>2, <1>3, <1>4

-----------------------------------------------------------------------------
(* The vector has room for the files of all creates that run.               *)

\* Growing makes room for one more.
LEMMA GrownFits ==
  ASSUME TypeOK, fileCap # 0
  PROVE  Grown \in Nat /\ fileCap <= Grown /\ Len(files) + 1 <= Grown
<1>1. Len(files) \in Nat /\ Len(files) <= fileCap /\ fileCap \in Nat
  BY LenProperties DEF TypeOK
<1> QED
  BY <1>1 DEF Grown

\* No step puts a stranger into the vector or runs over its capacity.
LEMMA VectorTypes ==
  ASSUME Base, NEW t \in Threads, Step(t)
  PROVE  /\ files' \in Seq(Paths) /\ fileCap' \in Nat /\ fileCap' # 0 /\ Len(files') <= fileCap'
         /\ Len(files') <= Len(files) + (IF thread[t].pc = "store" THEN 1 ELSE 0)
<1>1. /\ TypeOK /\ fileCap # 0 /\ thread[t].path \in Paths /\ thread[t].to \in Paths
      /\ Len(files) \in Nat /\ files \in Seq(Paths) /\ fileCap \in Nat /\ Len(files) <= fileCap
  BY LenProperties DEF Base, TypeOK, Thread
<1>2. CASE Unmoved
  BY <1>1, <1>2 DEF Unmoved
<1>3. ASSUME NEW k, Erased(k) PROVE files' \in Seq(Paths) /\ fileCap' = fileCap /\ Len(files') = Len(files) - 1
  BY <1>1, <1>3, RemoveAtProperties DEF Erased
<1>4. ASSUME NEW p \in Paths, Added(p)
      PROVE  /\ files' \in Seq(Paths) /\ fileCap' \in Nat /\ fileCap' # 0 /\ Len(files') = Len(files) + 1
             /\ Len(files) + 1 <= fileCap'
  BY <1>1, <1>4, GrownFits, AppendProperties DEF Added
<1>5. ASSUME NEW k, NEW p \in Paths, Replaced(k, p)
      PROVE  files' \in Seq(Paths) /\ fileCap' = fileCap /\ Len(files') = Len(files)
  BY <1>1, <1>5, ExceptSeq DEF Replaced
<1>6. CASE \E k \in Nat : Erased(k)
  BY <1>1, <1>3, <1>6
<1>7. CASE thread[t].pc = "store" /\ Added(thread[t].path)
  BY <1>1, <1>4, <1>7
<1>8. CASE Replaced(thread[t].index, thread[t].path) \/ Replaced(thread[t].index, thread[t].to)
  BY <1>1, <1>5, <1>8
<1> QED
  BY <1>1, <1>2, <1>6, <1>7, <1>8, StepsOnVector

\* A store uses up the room its create was given, no other step any.
LEMMA RoomStep ==
  ASSUME Base, NEW t \in Threads, Step(t)
  PROVE  Room' /\ Len(files') <= MaxFiles
<1>1. TypeOK /\ Len(files) \in Nat /\ PlaceFits(t) /\ MaxFiles \in Nat /\ Room
  BY LenProperties, MaxFilesAssumption DEF Base, TypeOK
<1>2. /\ IsFiniteSet(Creators) /\ Cardinality(Creators) \in Nat /\ Creators' \subseteq Creators
      /\ thread[t].pc = "store" => t \in Creators /\ t \notin Creators'
  <2>1. \A s \in Threads : s # t => thread'[s].op = thread[s].op
    BY <1>1, OthersResemble DEF Resembles
  <2>2. thread'[t].op \in {thread[t].op, "none"} /\ (thread[t].pc = "store" => thread'[t].op = "none")
    BY OwnStep
  <2>3. thread[t].pc = "store" => thread[t].op = "create"
    BY <1>1 DEF PlaceFits, TypeOK, Thread, Ops, DirectoryOps, Modifiers, Updates
  <2>4. Creators \subseteq Threads /\ IsFiniteSet(Creators)
    BY ThreadsAssumption, FS_Subset DEF Creators
  <2>5. Creators' \subseteq Creators
    BY <2>1, <2>2 DEF Creators
  <2>6. thread[t].pc = "store" => t \in Creators /\ t \notin Creators'
    BY <2>2, <2>3 DEF Creators
  <2> QED
    BY <2>4, <2>5, <2>6, FS_CardinalityType
<1> DEFINE added == IF thread[t].pc = "store" THEN 1 ELSE 0
<1>3. Cardinality(Creators') \in Nat /\ Cardinality(Creators') <= Cardinality(Creators) - added
  <2>1. CASE thread[t].pc = "store"
    <3>1. Creators' \subseteq Creators \ {t} /\ t \in Creators
      BY <1>2, <2>1
    <3>2. IsFiniteSet(Creators \ {t}) /\ Cardinality(Creators \ {t}) = Cardinality(Creators) - 1
      BY <1>2, <3>1, FS_RemoveElement
    <3>3. /\ Cardinality(Creators') <= Cardinality(Creators \ {t})
          /\ IsFiniteSet(Creators')
      BY <3>1, <3>2, FS_Subset
    <3> QED
      BY <2>1, <3>2, <3>3, FS_CardinalityType
  <2>2. CASE thread[t].pc # "store"
    <3>1. Cardinality(Creators') <= Cardinality(Creators) /\ IsFiniteSet(Creators')
      BY <1>2, FS_Subset
    <3> QED
      BY <1>2, <2>2, <3>1, FS_CardinalityType
  <2> QED
    BY <2>1, <2>2
<1>4. /\ added \in Nat /\ Len(files') \in Nat /\ Len(files') <= Len(files) + added
      /\ Len(files) + Cardinality(Creators) <= MaxFiles
  BY <1>1, VectorTypes, LenProperties DEF Room
<1> HIDE DEF added
<1>5. Len(files') + Cardinality(Creators') <= MaxFiles
  BY <1>1, <1>2, <1>3, <1>4
<1>6. Cardinality(Creators)' = Cardinality(Creators')
  OBVIOUS
<1> QED
  BY <1>1, <1>3, <1>4, <1>5 DEF Room

\* A create starts only if there is room for it beside the running ones.
LEMMA RoomStart ==
  ASSUME Base, NEW t \in Threads, NEW op \in Ops, NEW p \in Paths, NEW q \in Paths, Start(t, op, p, q)
  PROVE  Room'
<1>1. /\ TypeOK /\ Len(files) \in Nat /\ PlaceFits(t) /\ MaxFiles \in Nat
      /\ Len(files) + Cardinality(Creators) <= MaxFiles /\ UNCHANGED files
  BY LenProperties, MaxFilesAssumption DEF Base, TypeOK, Room, Start
<1>2. /\ thread'[t].op = op
      /\ \A s \in Threads : s # t => thread'[s] = thread[s]
  BY <1>1, StartThread
<1>3. IsFiniteSet(Creators) /\ t \notin Creators /\ Cardinality(Creators) \in Nat
  <2>1. IsFiniteSet(Creators)
    BY ThreadsAssumption, FS_Subset DEF Creators
  <2>2. t \notin Creators
    BY <1>1 DEF Creators, Start, Busy, PlaceFits
  <2> QED
    BY <2>1, <2>2, FS_CardinalityType
<1>4. CASE op = "create"
  <2>1. Creators' = Creators \cup {t}
    BY <1>2, <1>4 DEF Creators
  <2>2. Cardinality(Creators') = Cardinality(Creators) + 1
    BY <1>3, <2>1, FS_AddElement
  <2>3. Len(files) + Cardinality(Creators) < MaxFiles
    BY <1>4 DEF Start, LookedUp, Quantify, Creators
  <2> QED
    BY <1>1, <1>3, <2>2, <2>3 DEF Room
<1>5. CASE op # "create"
  <2>1. Creators' = Creators
    BY <1>2, <1>3, <1>5 DEF Creators
  <2> QED
    BY <1>1, <2>1 DEF Room
<1> QED
  BY <1>4, <1>5

\* Every step keeps Base,
LEMMA BaseStep ==
  ASSUME Base, [Next]_vars
  PROVE  Base'
<1>1. TypeOK
  BY DEF Base
<1>2. CASE UNCHANGED vars
  BY <1>2 DEF vars, Base, TypeOK, PlaceFits, Room, Creators
<1>3. ASSUME NEW t \in Threads, NEW op \in Ops, NEW p \in Paths, NEW q \in Paths, Start(t, op, p, q),
             UNCHANGED dirOf
      PROVE  Base'
  <2>1. UNCHANGED <<files, fileCap, alive>>
    BY <1>3 DEF Start
  <2>2. thread' \in [Threads -> Thread] /\ \A s \in Threads : PlaceFits(s)'
    <3>1. thread' = [thread EXCEPT ![t] = thread'[t]]
      BY <1>1, <1>3, StartThread
    <3>2. \A s \in Threads : thread'[s] \in Thread /\ PlaceFits(s)'
      BY <1>3, StartFits
    <3> QED
      BY <1>1, <3>1, <3>2 DEF TypeOK
  <2>3. Room'
    BY <1>3, RoomStart
  <2>4. TypeOK'
    BY <1>1, <1>3, <2>1, <2>2 DEF TypeOK
  <2> QED
    BY <2>1, <2>2, <2>3, <2>4 DEF Base
<1>4. ASSUME NEW t \in Threads, Step(t), UNCHANGED dirOf
      PROVE  Base'
  <2>1. ASSUME NEW s \in Threads PROVE thread'[s] \in Thread /\ PlaceFits(s)'
    <3>1. CASE s = t
      BY <1>4, <3>1, OwnStep
    <3>2. CASE s # t
      <4>1. Resembles(s)
        BY <1>1, <1>4, <3>2, OthersResemble
      <4> QED
        BY <2>1, <4>1 DEF Resembles, PlaceFits, Base
    <3> QED
      BY <3>1, <3>2
  <2>2. thread' \in [Threads -> Thread]
    <3>1. \E f : thread' = [s \in Threads |-> f[s]]
      <4>1. CASE Advance(t) \/ Hit(t) \/ Push(t) \/ List(t)
        BY <1>1, <4>1 DEF Advance, Hit, Push, List, Answer, GoTo, TypeOK
      <4>2. CASE Miss(t) \/ Fill(t)
        BY <1>1, <4>2 DEF Miss, Fill, Answer, Abort, GoTo, TypeOK
      <4>3. CASE Erase(t) \/ Use(t)
        BY <1>1, <4>3 DEF Erase, Use, Answer, Abort, GoTo, Disturbed, TypeOK
      <4>4. CASE Store(t) \/ StoreRaced(t)
        BY <1>1, <4>4 DEF Store, StoreRaced, Answer, Disturbed, TypeOK
      <4> QED
        BY <1>4, <4>1, <4>2, <4>3, <4>4 DEF Step
    <3> QED
      BY <2>1, <3>1
  <2>3. alive' \in BOOLEAN
    BY <1>1, <1>4 DEF Step, Advance, Hit, Miss, Erase, Use, Fill, Push, Store, StoreRaced, List, Abort, TypeOK
  <2>4. /\ files' \in Seq(Paths) /\ fileCap' \in Nat /\ fileCap' # 0 /\ Len(files') <= fileCap'
        /\ Room' /\ Len(files') <= MaxFiles
    BY <1>4, VectorTypes, RoomStep
  <2>5. TypeOK'
    BY <1>1, <1>4, <2>2, <2>3, <2>4 DEF TypeOK
  <2> QED
    BY <2>1, <2>4, <2>5 DEF Base
<1> QED
  BY <1>2, <1>3, <1>4 DEF Next

\* and the start has it.
LEMMA BaseInit ==
  ASSUME Init
  PROVE  Base
<1>1. Idle \in Thread /\ Idle.op = "none" /\ Idle.pc = "idle"
  BY PathsAssumption, MaxFilesAssumption DEF Idle, Thread, Replies
<1>2. \A t \in Threads : thread[t] = Idle
  BY DEF Init
<1>3. <<FirstFile>> \in Seq(Paths) /\ Len(<<FirstFile>>) = 1
  BY PathsAssumption
<1>4. TypeOK
  BY <1>1, <1>3, MaxFilesAssumption DEF Init, TypeOK
<1>5. \A t \in Threads : PlaceFits(t)
  BY <1>1, <1>2 DEF PlaceFits
<1>6. Room
  <2>1. Creators = {}
    BY <1>1, <1>2 DEF Creators
  <2> QED
    BY <1>3, <2>1, FS_EmptySet, MaxFilesAssumption DEF Init, Room
<1> QED
  BY <1>4, <1>5, <1>6 DEF Base, Init

\* The vector never outgrows its bound or its capacity, and no request is at a
\* place its handler does not have.
THEOREM TypeCorrect == Spec => []TypeOK
<1>1. Base /\ [Next]_vars => Base'
  BY BaseStep
<1> QED
  BY BaseInit, <1>1, PTL DEF Spec, Base

-----------------------------------------------------------------------------
(* What an undisturbed request can count on.                                *)

\* The file is at position n of a vector or behind it.
Ahead(v, p, n) == \E j \in 1..Len(v) : n <= j /\ v[j] = p

\* What an undisturbed request can count on: what it looks for is still ahead
\* of the search, what it holds the index of is there, and what a listing has
\* to show is still to come.
Sure(t) ==
  /\ thread[t].pc = "exists" /\ thread[t].there => Ahead(files, thread[t].path, thread[t].i)
  /\ thread[t].pc = "find" => Ahead(files, thread[t].path, thread[t].i)
  /\ thread[t].op = "rename" /\ thread[t].pc \in {"target", "remove", "erase"} =>
       Ahead(files, thread[t].path, 1)
  /\ thread[t].pc \in Holds => Held(t)
  /\ thread[t].pc = "fill" => thread[t].cap = fileCap
  /\ thread[t].pc = "list" => \A p \in thread[t].due : Ahead(files, p, thread[t].i)
  /\ thread[t].reply \notin Failures
  /\ thread[t].reply = "ENOENT" => ~thread[t].there

RenamesApart == \A t \in Threads : thread[t].op = "rename" => thread[t].path # thread[t].to

CleanInv ==
  /\ Base
  /\ RenamesApart
  /\ \A t \in Threads : thread[t].clean => Sure(t)

\* A change of the vector that leaves what a search from n for p will find.
Spares(p, n) ==
  \/ Unmoved
  \/ \E k \in Nat : Erased(k) /\ files[k] # p /\ n <= k
  \/ \E q \in Paths : Added(q)
  \/ \E k \in Nat, q \in Paths : Replaced(k, q) /\ files[k] # p

\* A change that spares what is looked for leaves it ahead of the search.
LEMMA AheadStays ==
  ASSUME TypeOK, NEW p, NEW n \in Nat, Ahead(files, p, n), Spares(p, n)
  PROVE  Ahead(files', p, n)
<1>1. files \in Seq(Paths) /\ Len(files) \in Nat
  BY LenProperties DEF TypeOK
<1>2. PICK j \in 1..Len(files) : n <= j /\ files[j] = p
  BY DEF Ahead
<1>3. CASE Unmoved
  BY <1>2, <1>3 DEF Unmoved, Ahead
<1>4. CASE \E k \in Nat : Erased(k) /\ files[k] # p /\ n <= k
  <2>1. PICK k \in Nat : Erased(k) /\ files[k] # p /\ n <= k
    BY <1>4
  <2>2. /\ k \in 1..Len(files) /\ Len(files') = Len(files) - 1
        /\ \A m \in 1..(Len(files) - 1) : files'[m] = IF m < k THEN files[m] ELSE files[m + 1]
    BY <1>1, <2>1, RemoveAtProperties DEF Erased
  <2> DEFINE m == IF j < k THEN j ELSE j - 1
  <2>3. j # k
    BY <1>2, <2>1
  <2>4. m \in 1..(Len(files) - 1) /\ n <= m /\ files'[m] = files[j]
    BY <1>1, <1>2, <2>1, <2>2, <2>3
  <2> QED
    BY <1>2, <2>2, <2>4 DEF Ahead
<1>5. CASE \E q \in Paths : Added(q)
  <2>1. PICK q \in Paths : files' = Append(files, q)
    BY <1>5 DEF Added
  <2>2. Len(files') = Len(files) + 1 /\ files'[j] = files[j]
    BY <1>1, <2>1, AppendProperties
  <2> QED
    BY <1>1, <1>2, <2>2 DEF Ahead
<1>6. CASE \E k \in Nat, q \in Paths : Replaced(k, q) /\ files[k] # p
  <2>1. PICK k \in Nat, q \in Paths : Replaced(k, q) /\ files[k] # p
    BY <1>6
  <2>2. Len(files') = Len(files) /\ files'[j] = files[j]
    BY <1>1, <1>2, <2>1, ExceptSeq DEF Replaced
  <2> QED
    BY <1>2, <2>2 DEF Ahead
<1> QED
  BY <1>3, <1>4, <1>5, <1>6 DEF Spares

\* A file is in the vector exactly if a search from the start will find it.
LEMMA AheadHere ==
  ASSUME TypeOK, NEW p
  PROVE  p \in ToSet(files) <=> Ahead(files, p, 1)
  BY ListedPaths, LenProperties DEF Ahead, TypeOK

\* A search goes on only past what it does not look for.
LEMMA AheadMoves ==
  ASSUME TypeOK, NEW p, NEW i \in Nat, Ahead(files, p, i), i > Len(files) \/ files[i] # p
  PROVE  i <= Len(files) /\ Ahead(files, p, i + 1)
  BY LenProperties DEF TypeOK, Ahead

\* What another thread does to the vector is no loss for a request that stays
\* undisturbed.
LEMMA OthersSpare ==
  ASSUME Base, NEW t \in Threads, Step(t), NEW s \in Threads, s # t, Busy(s), thread'[s].clean
  PROVE  /\ \/ Unmoved
            \/ \E k \in Nat : Erased(k) /\ ~Disturbs(k, s)
            \/ \E q \in Paths : Added(q)
            \/ \E k \in Nat, q \in Paths : Replaced(k, q) /\ files[k] \notin Wants(s)
         /\ thread[s].pc = "fill" => fileCap' = fileCap
<1>1. /\ TypeOK /\ fileCap # 0 /\ Len(files) \in Nat /\ DOMAIN files = 1..Len(files)
      /\ thread[t] \in Thread /\ thread[t].path \in Paths /\ thread[t].to \in Paths
  BY LenProperties DEF Base, TypeOK, Thread
<1>2. ASSUME NEW hit, NEW r, thread' = [Disturbed(hit) EXCEPT ![t] = r]
      PROVE  s \notin hit
  <2>1. thread'[s] = [thread[s] EXCEPT !.clean = thread[s].clean /\ s \notin hit] /\ thread[s] \in Thread
    BY <1>1, <1>2 DEF Disturbed, TypeOK
  <2>2. thread'[s].clean = (thread[s].clean /\ s \notin hit)
    BY <2>1 DEF Thread
  <2> QED
    BY <2>2
<1>3. CASE Advance(t) \/ Hit(t) \/ Miss(t) \/ Push(t) \/ List(t) \/ Fill(t)
  BY <1>3 DEF Advance, Hit, Miss, Push, List, Fill, Unmoved
<1>4. CASE Erase(t)
  <2> DEFINE k == Min({thread[t].index, Len(files)})
             hit == {u \in Threads \ {t} : Busy(u) /\ Disturbs(k, u)}
  <2>1. k \in Nat /\ k <= Len(files)
    <3>1. thread[t].index \in Nat
      BY <1>1 DEF Thread
    <3> QED
      BY <1>1, <3>1, MinOfTwo
  <2>2. /\ UNCHANGED fileCap
        /\ \/ k > 0 /\ files' = RemoveAt(files, k) /\ \E r : thread' = [Disturbed(hit) EXCEPT ![t] = r]
           \/ UNCHANGED files
    BY <1>4 DEF Erase
  <2>3. s \notin hit => ~Disturbs(k, s)
    OBVIOUS
  <2> HIDE DEF k, hit
  <2>4. CASE UNCHANGED files
    BY <2>2, <2>4 DEF Unmoved
  <2>5. CASE k > 0 /\ files' = RemoveAt(files, k) /\ \E r : thread' = [Disturbed(hit) EXCEPT ![t] = r]
    <3>1. Erased(k)
      BY <1>1, <2>1, <2>2, <2>5 DEF Erased
    <3>2. ~Disturbs(k, s)
      BY <1>2, <2>3, <2>5
    <3> QED
      BY <2>1, <2>2, <3>1, <3>2
  <2> QED
    BY <2>2, <2>4, <2>5
<1>5. CASE Use(t)
  <2> DEFINE k == thread[t].index
             hit == {u \in Threads \ {t} : Busy(u) /\ files[k] \in Wants(u)}
  <2>1. /\ UNCHANGED fileCap
        /\ \/ /\ k \in DOMAIN files /\ files' = [files EXCEPT ![k] = thread[t].to]
              /\ \E r : thread' = [Disturbed(hit) EXCEPT ![t] = r]
           \/ UNCHANGED files
    BY <1>5 DEF Use
  <2>2. s \notin hit => files[k] \notin Wants(s)
    OBVIOUS
  <2> HIDE DEF hit
  <2>3. CASE UNCHANGED files
    BY <2>1, <2>3 DEF Unmoved
  <2>4. CASE /\ k \in DOMAIN files /\ files' = [files EXCEPT ![k] = thread[t].to]
             /\ \E r : thread' = [Disturbed(hit) EXCEPT ![t] = r]
    <3>1. Replaced(k, thread[t].to) /\ k \in Nat
      BY <1>1, <2>1, <2>4 DEF Replaced
    <3>2. files[k] \notin Wants(s)
      BY <1>2, <2>2, <2>4
    <3> QED
      BY <1>1, <2>1, <3>1, <3>2
  <2> QED
    BY <2>1, <2>3, <2>4
<1>6. CASE Store(t)
  <2> DEFINE hit == {u \in Threads : Len(files) = fileCap /\ thread[u].pc = "fill"}
  <2>1. Added(thread[t].path) /\ \E r : thread' = [Disturbed(hit) EXCEPT ![t] = r]
    BY <1>6 DEF Store, Added
  <2>2. s \notin hit
    BY <1>2, <2>1
  <2>3. thread[s].pc = "fill" => fileCap' = fileCap
    BY <2>1, <2>2 DEF Added, Grown
  <2> QED
    BY <1>1, <2>1, <2>3
<1>7. CASE StoreRaced(t)
  <2> DEFINE slot == thread[t].index
             over == IF slot \in DOMAIN files THEN {files[slot]} ELSE {}
             hit == {t} \cup {u \in Threads : thread[u].pc = "fill" \/ Wants(u) \cap over # {}}
  <2>1. \E r : thread' = [Disturbed(hit) EXCEPT ![t] = r]
    BY <1>7 DEF StoreRaced
  <2>2. \/ Unmoved
        \/ over # {} /\ files' = [files EXCEPT ![slot] = thread[t].path] /\ UNCHANGED fileCap
        \/ Added(thread[t].path)
    BY <1>7 DEF StoreRaced, Unmoved, Added
  <2>3. s \notin hit
    BY <1>2, <2>1
  <2>4. thread[s].pc # "fill" /\ Wants(s) \cap over = {}
    BY <2>3
  <2>5. over # {} => slot \in DOMAIN files /\ over = {files[slot]}
    OBVIOUS
  <2> HIDE DEF over, hit
  <2> QED
    BY <1>1, <2>2, <2>4, <2>5 DEF Replaced
<1> QED
  BY <1>3, <1>4, <1>5, <1>6, <1>7 DEF Step

\* What an undisturbed request counts on survives the steps of others,
LEMMA OthersSure ==
  ASSUME CleanInv, NEW t \in Threads, Step(t), NEW s \in Threads, s # t, thread'[s].clean
  PROVE  Sure(s)'
<1>1. /\ Base /\ TypeOK /\ Resembles(s) /\ thread[s] \in Thread /\ PlaceFits(s)
      /\ files \in Seq(Paths) /\ Len(files) \in Nat
  BY OthersResemble, LenProperties DEF CleanInv, Base, TypeOK
<1>2. Sure(s)
  BY <1>1 DEF CleanInv, Resembles
<1>3. CASE ~Busy(s)
  BY <1>1, <1>2, <1>3 DEF Sure, Resembles, Busy, PlaceFits, Holds
<1>4. CASE Busy(s)
  <2>1. /\ \/ Unmoved
           \/ \E k \in Nat : Erased(k) /\ ~Disturbs(k, s)
           \/ \E q \in Paths : Added(q)
           \/ \E k \in Nat, q \in Paths : Replaced(k, q) /\ files[k] \notin Wants(s)
        /\ thread[s].pc = "fill" => fileCap' = fileCap
    BY <1>1, <1>4, OthersSpare
  <2>2. thread[s].i \in Nat /\ thread[s].index \in Nat /\ 1 \in Nat /\ thread[s].i >= 1
    BY <1>1, MaxFilesAssumption DEF Thread
  <2>3. ASSUME NEW p \in Wants(s), NEW n \in Nat, Ahead(files, p, n),
               n = 1 \/ (thread[s].pc \in Searches \cup {"list"} /\ n = thread[s].i)
        PROVE  Ahead(files', p, n)
    <3>1. ASSUME NEW k \in Nat, Erased(k), ~Disturbs(k, s) PROVE files[k] # p /\ n <= k
      BY <1>1, <2>2, <2>3, <3>1 DEF Disturbs, Erased
    <3>2. Spares(p, n)
      BY <2>1, <3>1 DEF Spares
    <3> QED
      BY <1>1, <2>3, <3>2, AheadStays
  <2>4. thread[s].op # "readdir" => thread[s].path \in Wants(s) /\ Sought(s) \in Wants(s)
    BY DEF Wants, Names, Sought
  <2>5. thread[s].op = "readdir" <=> thread[s].pc = "list"
    BY <1>1 DEF PlaceFits, TypeOK, Thread, Ops, DirectoryOps, Modifiers, Updates
  <2>6. thread'[s].pc = "exists" /\ thread'[s].there => Ahead(files', thread'[s].path, thread'[s].i)
    BY <1>1, <1>2, <2>2, <2>3, <2>4, <2>5 DEF Sure, Resembles, Searches
  <2>7. thread'[s].pc = "find" => Ahead(files', thread'[s].path, thread'[s].i)
    BY <1>1, <1>2, <2>2, <2>3, <2>4, <2>5 DEF Sure, Resembles, Searches
  <2>8. thread'[s].op = "rename" /\ thread'[s].pc \in {"target", "remove", "erase"} => Ahead(files', thread'[s].path, 1)
    BY <1>1, <1>2, <2>2, <2>3, <2>4 DEF Sure, Resembles
  <2>9. thread'[s].pc = "list" => \A p \in thread'[s].due : Ahead(files', p, thread'[s].i)
    <3>1. thread[s].due \subseteq Wants(s)
      BY DEF Wants
    <3> QED
      BY <1>1, <1>2, <2>2, <2>3, <3>1 DEF Sure, Resembles
  <2>10. thread'[s].pc \in Holds => Held(s)'
    <3> SUFFICES ASSUME thread[s].pc \in Holds PROVE Held(s)'
      BY <1>1 DEF Resembles
    <3>1. thread[s].index \in 1..Len(files) /\ files[thread[s].index] = Sought(s)
      BY <1>1, <1>2, LenProperties DEF Sure, Held
    <3>2. Sought(s) \in Wants(s)
      BY <2>4, <2>5 DEF Holds
    <3>3. thread'[s].index = thread[s].index /\ Sought(s)' = Sought(s)
      BY <1>1 DEF Resembles, Sought
    <3>4. /\ Len(files') \in Nat /\ DOMAIN files' = 1..Len(files') /\ thread[s].index <= Len(files')
          /\ files'[thread[s].index] = files[thread[s].index]
      <4>1. files' \in Seq(Paths)
        BY <1>1, VectorTypes
      <4>2. Len(files') \in Nat /\ DOMAIN files' = 1..Len(files')
        BY <4>1, LenProperties
      <4>3. CASE Unmoved
        BY <3>1, <4>2, <4>3 DEF Unmoved
      <4>4. ASSUME NEW k \in Nat, Erased(k), ~Disturbs(k, s)
            PROVE  thread[s].index <= Len(files') /\ files'[thread[s].index] = files[thread[s].index]
        <5>1. k > thread[s].index /\ k \in 1..Len(files)
          BY <2>2, <4>4 DEF Disturbs, Erased
        <5>2. /\ Len(files') = Len(files) - 1
              /\ \A m \in 1..(Len(files) - 1) : files'[m] = IF m < k THEN files[m] ELSE files[m + 1]
          BY <1>1, <4>4, RemoveAtProperties DEF Erased
        <5> QED
          BY <1>1, <2>2, <3>1, <5>1, <5>2
      <4>5. ASSUME NEW q \in Paths, Added(q)
            PROVE  thread[s].index <= Len(files') /\ files'[thread[s].index] = files[thread[s].index]
        BY <1>1, <3>1, <4>5, AppendProperties DEF Added
      <4>6. ASSUME NEW k \in Nat, NEW q \in Paths, Replaced(k, q), files[k] \notin Wants(s)
            PROVE  thread[s].index <= Len(files') /\ files'[thread[s].index] = files[thread[s].index]
        <5>1. k # thread[s].index
          BY <3>1, <3>2, <4>6
        <5> QED
          BY <1>1, <3>1, <4>6, <5>1, ExceptSeq DEF Replaced
      <4> QED
        BY <2>1, <4>2, <4>3, <4>4, <4>5, <4>6
    <3> QED
      BY <3>1, <3>3, <3>4 DEF Held
  <2> QED
    BY <1>1, <1>2, <2>1, <2>6, <2>7, <2>8, <2>9, <2>10 DEF Sure, Resembles
<1> QED
  BY <1>3, <1>4

\* is there when it starts,
LEMMA StartSure ==
  ASSUME CleanInv, NEW t \in Threads, NEW op \in Ops, NEW p \in Paths, NEW q \in Paths, Start(t, op, p, q)
  PROVE  Sure(t)'
<1>1. Base /\ TypeOK /\ files' = files
  BY DEF CleanInv, Base, Start
<1>2. /\ thread'[t].op = op /\ thread'[t].path = p /\ thread'[t].pc = FirstPlace(op)
      /\ thread'[t].i = 1 /\ thread'[t].reply = "none"
      /\ thread'[t].there => p \in ToSet(files)
      /\ op = "readdir" => thread'[t].due \subseteq ToSet(files)
  BY <1>1, StartThread
<1>3. thread'[t].pc = "exists" /\ thread'[t].there => Ahead(files', p, 1)
  BY <1>1, <1>2, AheadHere
<1>4. thread'[t].pc = "find" => Ahead(files', p, 1)
  <2>1. FirstPlace(op) = "find" => op = "change"
    BY FirstPlaces DEF Ops, DirectoryOps, Modifiers, Updates
  <2>2. op = "change" => p \in ToSet(files)
    BY DEF Start, LookedUp
  <2> QED
    BY <1>1, <1>2, <2>1, <2>2, AheadHere
<1>5. op = "rename" => Ahead(files', p, 1)
  <2>1. op = "rename" => p \in ToSet(files)
    BY DEF Start, LookedUp
  <2> QED
    BY <1>1, <2>1, AheadHere
<1>6. thread'[t].pc = "list" => \A n \in thread'[t].due : Ahead(files', n, 1)
  <2>1. FirstPlace(op) = "list" => op = "readdir"
    BY FirstPlaces DEF Ops, DirectoryOps, Modifiers, Updates
  <2> QED
    BY <1>1, <1>2, <2>1, AheadHere
<1>7. thread'[t].pc \notin Holds /\ thread'[t].pc # "fill"
  BY <1>2, FirstPlaces DEF Holds
<1> QED
  BY <1>2, <1>3, <1>4, <1>5, <1>6, <1>7 DEF Sure, Failures

\* A step of a request whose answer is none of the bad ones.
LEMMA EndsSure ==
  ASSUME NEW t \in Threads, NEW r, Ends(t, r), r \notin Failures, r = "ENOENT" => ~thread[t].there
  PROVE  Sure(t)'
  BY DEF Sure, Ends, Holds

\* and survives its own steps.
LEMMA OwnSure ==
  ASSUME CleanInv, NEW t \in Threads, Step(t), thread'[t].clean
  PROVE  Sure(t)'
<1>1. /\ Base /\ TypeOK /\ thread[t] \in Thread /\ PlaceFits(t) /\ PlaceFits(t)'
      /\ files \in Seq(Paths) /\ Len(files) \in Nat /\ thread[t].i \in Nat
      /\ thread[t].op = "rename" => thread[t].path # thread[t].to
  BY OwnStep, LenProperties DEF CleanInv, Base, TypeOK, Thread, RenamesApart
<1>2. ASSUME thread[t].clean PROVE Sure(t)
  BY <1>2 DEF CleanInv
<1>3. "ok" \notin Failures /\ "ENOENT" \notin Failures
  BY DEF Failures
<1>4. CASE Advance(t)
  <2>1. StaysAt(t, thread[t].pc, thread[t].i + 1) /\ UNCHANGED <<files, fileCap>>
    BY <1>1, <1>4, OwnAdvance DEF Advance
  <2>2. Sure(t)
    BY <1>2, <2>1 DEF StaysAt, Stays
  <2>3. thread[t].pc \in Searches /\ files[thread[t].i] # Sought(t)
    BY <1>4 DEF Advance, Searching
  <2>4. thread[t].pc \in {"exists", "find"} => Sought(t) = thread[t].path
    BY DEF Sought
  <2>5. thread[t].pc \in {"exists", "find"} /\ Ahead(files, thread[t].path, thread[t].i)
          => Ahead(files, thread[t].path, thread[t].i + 1)
    BY <1>1, <2>3, <2>4, AheadMoves
  <2>6. thread[t].pc \notin Holds /\ thread[t].pc # "fill" /\ thread[t].pc # "list"
    BY <2>3 DEF Searches, Holds
  <2> QED
    BY <2>1, <2>2, <2>5, <2>6 DEF Sure, StaysAt, Stays
<1>5. CASE Hit(t)
  <2>1. /\ StaysAt(t, AfterHit(t), 1) /\ UNCHANGED <<files, fileCap>>
        /\ thread'[t].index = thread[t].i /\ thread'[t].cap = fileCap
    BY <1>1, <1>5, OwnHit DEF Hit
  <2>2. Sure(t)
    BY <1>2, <2>1 DEF StaysAt, Stays
  <2>3. /\ thread[t].pc \in {"exists", "target", "remove", "find"}
        /\ thread[t].i \in 1..Len(files) /\ files[thread[t].i] = Sought(t)
    BY <1>1, <1>5 DEF Hit, Searching, Searches, Thread
  <2>4. thread'[t].pc = AfterHit(t) /\ thread'[t].op = thread[t].op
        /\ thread'[t].path = thread[t].path /\ thread'[t].to = thread[t].to
    BY <2>1 DEF StaysAt, Stays
  <2>5. thread'[t].pc \in Holds => Held(t)'
    <3>1. thread'[t].pc \in Holds => thread[t].pc \in {"remove", "find"}
      BY <2>3, <2>4 DEF AfterHit, Holds
    <3>2. thread[t].pc \in {"remove", "find"} => Sought(t)' = Sought(t)
      BY <2>4 DEF Sought, AfterHit
    <3>3. thread[t].i \in DOMAIN files
      BY <1>1, <2>3, LenProperties
    <3> QED
      BY <2>1, <2>3, <3>1, <3>2, <3>3 DEF Held
  <2>6. thread'[t].pc = "find" => Ahead(files', thread'[t].path, 1)
    <3>1. thread'[t].pc = "find" => thread[t].pc = "exists"
      BY <2>3, <2>4 DEF AfterHit
    <3>2. thread[t].pc = "exists" => Sought(t) = thread[t].path
      BY DEF Sought
    <3> QED
      BY <2>1, <2>3, <2>4, <3>1, <3>2 DEF Ahead
  <2>7. thread'[t].op = "rename" /\ thread'[t].pc \in {"target", "remove", "erase"} =>
          Ahead(files', thread'[t].path, 1)
    <3>1. thread'[t].pc \in {"target", "remove", "erase"} => thread[t].pc \in {"target", "remove"}
      BY <2>3, <2>4 DEF AfterHit
    <3> QED
      BY <2>1, <2>2, <2>4, <3>1 DEF Sure
  <2>8. thread'[t].pc # "exists" /\ thread'[t].pc # "list"
    BY <2>3, <2>4 DEF AfterHit
  <2> QED
    BY <2>1, <2>2, <2>5, <2>6, <2>7, <2>8 DEF Sure, StaysAt, Stays
<1>6. ASSUME StaysAt(t, "find", 1), thread[t].op = "rename", Ahead(files', thread[t].path, 1),
             thread[t].clean
      PROVE  Sure(t)'
  BY <1>2, <1>6 DEF Sure, StaysAt, Stays, Holds
<1>7. CASE Miss(t)
  <2>1. thread[t].i > Len(files) /\ UNCHANGED <<files, fileCap>>
    BY <1>7 DEF Miss
  <2>2. \A p : ~Ahead(files, p, thread[t].i)
    BY <1>1, <2>1 DEF Ahead
  <2>3. CASE thread[t].pc = "exists" /\ Ends(t, "ENOENT")
    BY <1>2, <1>3, <2>2, <2>3, EndsSure DEF Sure, Ends
  <2>4. CASE thread[t].pc \in {"target", "remove"} /\ thread[t].op = "rename" /\ StaysAt(t, "find", 1)
    <3>1. thread[t].clean /\ Sure(t)
      BY <1>2, <2>4 DEF StaysAt, Stays
    <3>2. Ahead(files, thread[t].path, 1)
      BY <2>4, <3>1 DEF Sure
    <3> QED
      BY <1>6, <2>1, <2>4, <3>1, <3>2
  <2>5. CASE Ends(t, "ok")
    BY <1>3, <2>5, EndsSure
  <2>6. CASE thread[t].pc = "find" /\ (Ends(t, "unfilled") \/ Ends(t, "assert"))
    <3>1. Sure(t)
      BY <1>2, <2>6 DEF Ends
    <3> QED
      BY <2>2, <2>6, <3>1 DEF Sure
  <2>7. thread[t].pc = "target" => thread[t].op = "rename"
    BY <1>1 DEF PlaceFits, TypeOK, Thread, Ops, DirectoryOps, Modifiers, Updates
  <2> QED
    BY <1>1, <1>7, <2>3, <2>4, <2>5, <2>6, <2>7, OwnMiss
<1>8. CASE Erase(t)
  <2>1. thread[t].pc = "erase" /\ thread[t].index \in Nat
    BY <1>1, <1>8 DEF Erase, Thread
  <2>2. CASE thread[t].op = "rename" /\ StaysAt(t, "find", 1)
    <3>1. thread[t].clean /\ Sure(t)
      BY <1>2, <2>2 DEF StaysAt, Stays
    <3>2. /\ thread[t].index \in 1..Len(files) /\ files[thread[t].index] = thread[t].to
          /\ Ahead(files, thread[t].path, 1)
      BY <1>1, <2>1, <2>2, <3>1, LenProperties DEF Sure, Held, Holds, Sought
    <3>3. Min({thread[t].index, Len(files)}) = thread[t].index
      BY <1>1, <3>2, MinOfTwo
    <3>4. \/ files' = RemoveAt(files, thread[t].index) /\ UNCHANGED fileCap
          \/ thread[t].index > Len(files)
      BY <1>8, <3>3 DEF Erase
    <3>5. Spares(thread[t].path, 1)
      BY <1>1, <2>1, <2>2, <3>2, <3>4 DEF Spares, Erased
    <3>6. Ahead(files', thread[t].path, 1)
      BY <1>1, <3>2, <3>5, AheadStays
    <3> QED
      BY <1>6, <2>2, <3>1, <3>6
  <2>3. CASE Ends(t, "ok")
    BY <1>3, <2>3, EndsSure
  <2>4. CASE thread[t].index > Len(files) /\ Ends(t, "crash")
    <3>1. Sure(t)
      BY <1>2, <2>4 DEF Ends
    <3>2. thread[t].index \in 1..Len(files)
      BY <1>1, <2>1, <3>1, LenProperties DEF Sure, Held, Holds
    <3> QED
      BY <1>1, <2>1, <2>4, <3>2
  <2> QED
    BY <1>1, <1>8, <2>2, <2>3, <2>4, OwnErase
<1>9. CASE Use(t)
  <2>1. thread[t].pc = "use"
    BY <1>9 DEF Use
  <2>2. CASE thread[t].index \notin DOMAIN files /\ Ends(t, "crash")
    <3>1. Sure(t)
      BY <1>2, <2>2 DEF Ends
    <3> QED
      BY <2>1, <2>2, <3>1 DEF Sure, Held, Holds
  <2> QED
    BY <1>1, <1>3, <1>9, <2>2, OwnUse, EndsSure
<1>10. CASE Fill(t)
  <2>1. thread[t].pc = "fill"
    BY <1>10 DEF Fill
  <2>2. CASE (thread[t].cap # fileCap \/ thread[t].index \notin DOMAIN files) /\ Ends(t, "crash")
    <3>1. Sure(t)
      BY <1>2, <2>2 DEF Ends
    <3> QED
      BY <2>1, <2>2, <3>1 DEF Sure, Held, Holds
  <2> QED
    BY <1>1, <1>3, <1>10, <2>2, OwnFill, EndsSure
<1>11. CASE Push(t)
  <2>1. StaysAt(t, "store", thread[t].i)
    BY <1>1, <1>11, OwnPush
  <2>2. Sure(t)
    BY <1>2, <2>1 DEF StaysAt, Stays
  <2> QED
    BY <2>1, <2>2 DEF Sure, StaysAt, Stays, Holds
<1>12. CASE Store(t)
  BY <1>1, <1>3, <1>12, OwnStore, EndsSure
<1>13. CASE StoreRaced(t)
  BY <1>1, <1>13, OwnStoreRaced
<1>14. CASE List(t)
  <2>1. thread[t].pc = "list" /\ UNCHANGED <<files, fileCap>>
    BY <1>14 DEF List
  <2>2. CASE thread[t].i <= Len(files)
    <3>1. /\ Stays(t) /\ thread'[t].pc = "list" /\ thread'[t].i = thread[t].i + 1
          /\ thread'[t].due = thread[t].due \ {files[thread[t].i]}
      BY <1>1, <1>14, <2>2, OwnList
    <3>2. Sure(t)
      BY <1>2, <3>1 DEF Stays
    <3>3. ASSUME NEW p \in thread'[t].due PROVE Ahead(files', p, thread'[t].i)
      <4>1. Ahead(files, p, thread[t].i) /\ files[thread[t].i] # p
        BY <2>1, <3>1, <3>2, <3>3 DEF Sure
      <4> QED
        BY <1>1, <2>1, <3>1, <4>1, AheadMoves
    <3> QED
      BY <1>1, <3>1, <3>2, <3>3 DEF Sure, Stays, Holds, PlaceFits
  <2>3. CASE ~(thread[t].i <= Len(files))
    <3>1. Ends(t, IF thread[t].due = {} THEN "ok" ELSE "missed")
      BY <1>1, <1>14, <2>3, OwnListed
    <3>2. Sure(t)
      BY <1>2, <3>1 DEF Ends
    <3>3. thread[t].due = {}
      BY <1>1, <2>1, <2>3, <3>2 DEF Sure, Ahead
    <3> QED
      BY <1>3, <3>1, <3>3, EndsSure
  <2> QED
    BY <2>2, <2>3
<1> QED
  BY <1>4, <1>5, <1>7, <1>8, <1>9, <1>10, <1>11, <1>12, <1>13, <1>14 DEF Step

\* Every step keeps CleanInv,
LEMMA CleanInvStep ==
  ASSUME CleanInv, [Next]_vars
  PROVE  CleanInv'
<1>1. Base /\ TypeOK /\ RenamesApart /\ Base' /\ \A s \in Threads : thread[s].clean => Sure(s)
  BY BaseStep DEF CleanInv, Base
<1>2. CASE UNCHANGED vars
  BY <1>1, <1>2 DEF vars, CleanInv, RenamesApart, Sure, Held, Sought
<1>3. ASSUME NEW t \in Threads, NEW op \in Ops, NEW p \in Paths, NEW q \in Paths, Start(t, op, p, q)
      PROVE  CleanInv'
  <2>1. /\ files' = files /\ fileCap' = fileCap /\ (op = "rename" => p # q)
        /\ thread'[t].op = op /\ thread'[t].path = p /\ thread'[t].to = q
        /\ \A s \in Threads : s # t => thread'[s] = thread[s]
    <3>1. files' = files /\ fileCap' = fileCap /\ (op = "rename" => p # q)
      BY <1>3 DEF Start
    <3>2. /\ thread'[t].op = op /\ thread'[t].path = p /\ thread'[t].to = q
          /\ \A s \in Threads : s # t => thread'[s] = thread[s]
      BY <1>1, <1>3, StartThread
    <3> QED
      BY <3>1, <3>2
  <2>2. ASSUME NEW s \in Threads, s # t, thread'[s].clean PROVE Sure(s)'
    BY <1>1, <2>1, <2>2 DEF Sure, Held, Sought
  <2>3. RenamesApart'
    BY <1>1, <2>1 DEF RenamesApart
  <2> QED
    BY <1>1, <1>3, <2>2, <2>3, StartSure DEF CleanInv
<1>4. ASSUME NEW t \in Threads, Step(t)
      PROVE  CleanInv'
  <2>1. RenamesApart'
    <3>1. ASSUME NEW s \in Threads, s # t, thread'[s].op = "rename" PROVE thread'[s].path # thread'[s].to
      BY <1>1, <1>4, <3>1, OthersResemble DEF Resembles, RenamesApart
    <3>2. thread'[t].op = "rename" => thread'[t].path # thread'[t].to
      <4>1. Stays(t) \/ thread'[t].op = "none"
        BY <1>1, <1>4, OwnAdvance, OwnHit, OwnMiss, OwnErase, OwnUse, OwnFill, OwnPush, OwnStore,
           OwnStoreRaced, OwnList, OwnListed DEF Step, StaysAt, Ends
      <4> QED
        BY <1>1, <4>1 DEF Stays, RenamesApart
    <3> QED
      BY <3>1, <3>2 DEF RenamesApart
  <2>2. ASSUME NEW s \in Threads, thread'[s].clean PROVE Sure(s)'
    BY <1>4, <2>2, OwnSure, OthersSure
  <2> QED
    BY <1>1, <2>1, <2>2 DEF CleanInv
<1> QED
  BY <1>2, <1>3, <1>4 DEF Next

\* and the start has it.
LEMMA CleanInvInit ==
  ASSUME Init
  PROVE  CleanInv
<1>1. \A t \in Threads : thread[t] = Idle
  BY DEF Init
<1>2. \A t \in Threads : thread[t].op = "none" /\ thread[t].pc = "idle" /\ thread[t].reply = "none"
  BY <1>1 DEF Idle
<1> QED
  BY <1>2, BaseInit DEF CleanInv, RenamesApart, Sure, Failures, Holds

\* A request no erase and no growth disturbed uses the file it was asked for.
THEOREM UndisturbedHitTheirFile == Spec => []CleanHitsNamed
<1>1. CleanInv /\ [Next]_vars => CleanInv'
  BY CleanInvStep
<1>2. CleanInv => CleanHitsNamed
  BY DEF CleanInv, CleanHitsNamed, Sure, Holds
<1> QED
  BY CleanInvInit, <1>1, <1>2, PTL DEF Spec

\* It neither fails nor reports a file missing that was there when it began.
THEOREM UndisturbedAreAnswered == Spec => []CleanAnswered
<1>1. CleanInv /\ [Next]_vars => CleanInv'
  BY CleanInvStep
<1>2. CleanInv => CleanAnswered
  BY DEF CleanInv, CleanAnswered, Sure
<1> QED
  BY CleanInvInit, <1>1, <1>2, PTL DEF Spec

-----------------------------------------------------------------------------
(* One directory: its lock lets one create, unlink or rename run at a time, *)
(* and no listing beside it.                                                *)

\* What a create, unlink, rename or listing that has the lock can count on.
Alone(t) ==
  /\ thread[t].op = "create" => ~Ahead(files, thread[t].path, 1)
  /\ thread[t].pc = "store" => Undisturbed(t)
  /\ thread[t].op \in Modifiers /\ thread[t].pc \in {"erase", "use"} => Held(t)
  /\ thread[t].op = "rename" /\ thread[t].pc \in {"target", "remove"} =>
       \A j \in 1..Len(files) : j < thread[t].i => files[j] # thread[t].to
  /\ thread[t].op = "rename" /\ thread[t].pc \in {"find", "use"} => ~Ahead(files, thread[t].to, 1)
  /\ thread[t].pc = "list" => \A p \in thread[t].due : Ahead(files, p, thread[t].i)
  /\ thread[t].reply \notin {"missed", "lost"}

OneAtATime ==
  \A s, t \in Threads :
    thread[s].op \in Modifiers /\ thread[t].op \in DirectoryOps => s = t

OneDirInv ==
  /\ Base
  /\ OneDirectory => /\ OneAtATime
                     /\ UniquePaths
                     /\ \A t \in Threads : Alone(t)

\* Whose place each place is.
LEMMA PlacesOfOps ==
  ASSUME TypeOK, NEW t \in Threads, PlaceFits(t)
  PROVE  /\ thread[t].pc \in {"push", "store"} => thread[t].op = "create"
         /\ thread[t].pc = "erase" => thread[t].op \in {"unlink", "rename"}
         /\ thread[t].pc = "remove" => thread[t].op \in {"unlink", "rename"}
         /\ thread[t].pc = "target" => thread[t].op = "rename"
         /\ thread[t].pc = "list" => thread[t].op = "readdir"
         /\ thread[t].op = "rename" => thread[t].pc \notin {"exists", "push", "store", "list", "fill"}
  BY DEF PlaceFits, TypeOK, Thread, Ops, DirectoryOps, Modifiers, Updates

\* Nobody else changes the vector while a request of the lock's holder runs.
LEMMA VectorRests ==
  ASSUME Base, OneAtATime, NEW t \in Threads, Step(t), NEW s \in Threads, s # t,
         thread[s].op \in DirectoryOps
  PROVE  Unmoved
<1>1. TypeOK /\ PlaceFits(t)
  BY DEF Base
<1>2. Unmoved \/ thread[t].pc \in {"erase", "store"} \/ thread[t].op = "rename"
  BY <1>1, StepsOnVector
<1>3. thread[t].pc \in {"erase", "store"} => thread[t].op \in {"create", "unlink", "rename"}
  BY <1>1, PlacesOfOps
<1>4. thread[t].op \notin Modifiers
  BY DEF OneAtATime
<1> QED
  BY <1>2, <1>3, <1>4 DEF Modifiers

\* What the lock's holder counts on survives the steps of others,
LEMMA OthersAlone ==
  ASSUME Base, OneAtATime, NEW t \in Threads, Step(t), NEW s \in Threads, s # t, Alone(s)
  PROVE  Alone(s)'
<1>1. TypeOK /\ PlaceFits(s) /\ Resembles(s)
  BY OthersResemble DEF Base
<1>2. CASE thread[s].op \in DirectoryOps
  <2>1. UNCHANGED <<files, fileCap>>
    BY <1>2, VectorRests DEF Unmoved
  <2>2. Held(s)' = Held(s) /\ Undisturbed(s)' = Undisturbed(s)
    BY <1>1, <2>1 DEF Held, Undisturbed, Sought, Resembles
  <2> QED
    BY <1>1, <2>1, <2>2 DEF Alone, Resembles
<1>3. CASE thread[s].op \notin DirectoryOps
  <2>1. thread[s].op \notin {"create", "rename", "readdir"} /\ thread[s].op \notin Modifiers
    BY <1>3 DEF DirectoryOps, Modifiers
  <2>2. thread[s].pc # "store" /\ thread[s].pc # "list"
    BY <1>1, <2>1, PlacesOfOps
  <2>3. thread'[s].op = thread[s].op /\ thread'[s].pc = thread[s].pc /\ thread'[s].reply = thread[s].reply
    BY <1>1 DEF Resembles
  <2>4. thread'[s].reply \notin {"missed", "lost"}
    BY <2>3 DEF Alone
  <2> QED
    BY <2>1, <2>2, <2>3, <2>4 DEF Alone
<1> QED
  BY <1>2, <1>3

\* an answer leaves nothing to count on,
LEMMA EndsAlone ==
  ASSUME NEW t \in Threads, NEW r, Ends(t, r), r \notin {"missed", "lost"}
  PROVE  Alone(t)'
  BY DEF Alone, Ends, Modifiers

\* it survives the holder's own steps,
LEMMA OwnAlone ==
  ASSUME Base, IsInjective(files), NEW t \in Threads, Step(t), Alone(t)
  PROVE  Alone(t)'
<1>1. /\ TypeOK /\ PlaceFits(t) /\ files \in Seq(Paths) /\ Len(files) \in Nat /\ DOMAIN files = 1..Len(files)
      /\ thread[t].i \in Nat /\ thread[t].i >= 1 /\ thread[t].index \in Nat
  BY LenProperties, MaxFilesAssumption DEF Base, TypeOK, Thread
<1>2. ASSUME StaysAt(t, "find", 1), thread[t].op = "rename", ~Ahead(files', thread[t].to, 1)
      PROVE  Alone(t)'
  BY <1>2 DEF Alone, StaysAt, Stays
<1>3. CASE Advance(t)
  <2>1. StaysAt(t, thread[t].pc, thread[t].i + 1) /\ UNCHANGED <<files, fileCap>>
    BY <1>1, <1>3, OwnAdvance DEF Advance
  <2>2. thread[t].pc \in Searches /\ files[thread[t].i] # Sought(t) /\ thread[t].i <= Len(files)
    BY <1>3 DEF Advance, Searching
  <2>3. thread[t].op = "rename" /\ thread[t].pc \in {"target", "remove"} =>
          \A j \in 1..Len(files) : j < thread[t].i + 1 => files[j] # thread[t].to
    BY <1>1, <2>2 DEF Alone, Sought
  <2>4. thread[t].pc \notin {"store", "erase", "use", "list"}
    BY <2>2 DEF Searches
  <2> QED
    BY <2>1, <2>3, <2>4 DEF Alone, StaysAt, Stays
<1>4. CASE Hit(t)
  <2>1. /\ StaysAt(t, AfterHit(t), 1) /\ UNCHANGED <<files, fileCap>>
        /\ thread'[t].index = thread[t].i
    BY <1>1, <1>4, OwnHit DEF Hit
  <2>2. /\ thread[t].pc \in {"exists", "target", "remove", "find"}
        /\ thread[t].i \in 1..Len(files) /\ files[thread[t].i] = Sought(t)
    BY <1>1, <1>4 DEF Hit, Searching, Searches
  <2>3. /\ thread'[t].pc = AfterHit(t) /\ thread'[t].op = thread[t].op /\ thread'[t].i = 1
        /\ thread'[t].path = thread[t].path /\ thread'[t].to = thread[t].to
        /\ thread'[t].reply = thread[t].reply
    BY <2>1 DEF StaysAt, Stays
  <2>4. thread'[t].pc \in {"erase", "use"} => Held(t)'
    <3>1. thread'[t].pc \in {"erase", "use"} => thread[t].pc \in {"remove", "find"}
      BY <2>2, <2>3 DEF AfterHit
    <3>2. thread[t].pc \in {"remove", "find"} => Sought(t)' = Sought(t)
      BY <2>3 DEF Sought, AfterHit
    <3> QED
      BY <1>1, <2>1, <2>2, <3>1, <3>2 DEF Held
  <2>5. thread[t].op = "rename" /\ thread'[t].pc \in {"find", "use"} => thread[t].pc = "find"
    BY <1>1, <2>2, <2>3, PlacesOfOps DEF AfterHit
  <2>6. thread'[t].pc \notin {"store", "list"}
    BY <2>2, <2>3 DEF AfterHit
  <2>7. thread'[t].op = "rename" /\ thread'[t].pc \in {"target", "remove"} =>
          \A j \in 1..Len(files') : j < thread'[t].i => files'[j] # thread'[t].to
    BY <1>1, <2>1, <2>3
  <2> QED
    BY <2>1, <2>3, <2>4, <2>5, <2>6, <2>7 DEF Alone
<1>5. CASE Miss(t)
  <2>1. thread[t].i > Len(files) /\ UNCHANGED <<files, fileCap>>
    BY <1>5 DEF Miss
  <2>2. CASE thread[t].pc \in {"target", "remove"} /\ thread[t].op = "rename" /\ StaysAt(t, "find", 1)
    <3>1. ~Ahead(files, thread[t].to, 1)
      BY <1>1, <2>1, <2>2 DEF Alone, Ahead
    <3> QED
      BY <1>2, <2>1, <2>2, <3>1
  <2>3. thread[t].pc = "target" => thread[t].op = "rename"
    BY <1>1, PlacesOfOps
  <2>4. CASE Ends(t, "ENOENT") \/ Ends(t, "ok") \/ Ends(t, "unfilled") \/ Ends(t, "assert")
    BY <2>4, EndsAlone
  <2> QED
    BY <1>1, <1>5, <2>2, <2>3, <2>4, OwnMiss
<1>6. CASE Erase(t)
  <2>1. CASE thread[t].op = "rename" /\ StaysAt(t, "find", 1)
    <3> DEFINE k == thread[t].index
    <3>1. thread[t].pc = "erase" /\ thread[t].op \in Modifiers
      BY <1>6, <2>1 DEF Erase, Modifiers
    <3>2. k \in 1..Len(files) /\ files[k] = thread[t].to
      BY <1>1, <2>1, <3>1 DEF Alone, Held, Sought
    <3>3. Min({k, Len(files)}) = k
      BY <1>1, <3>2, MinOfTwo
    <3>4. files' = RemoveAt(files, k)
      <4>1. \/ files' = RemoveAt(files, k)
            \/ k > Len(files)
        BY <1>6, <3>3 DEF Erase
      <4> QED
        BY <1>1, <3>2, <4>1
    <3>5. /\ Len(files') = Len(files) - 1
          /\ \A m \in 1..(Len(files) - 1) : files'[m] = IF m < k THEN files[m] ELSE files[m + 1]
      BY <1>1, <3>2, <3>4, RemoveAtProperties
    <3>6. ~Ahead(files', thread[t].to, 1)
      <4>1. ASSUME NEW m \in 1..Len(files'), files'[m] = thread[t].to PROVE FALSE
        <5>1. PICK j \in 1..Len(files) : j # k /\ files[j] = thread[t].to
          BY <1>1, <3>2, <3>5, <4>1
        <5> QED
          BY <1>1, <3>2, <5>1 DEF IsInjective
      <4> QED
        BY <4>1 DEF Ahead
    <3> QED
      BY <1>2, <2>1, <3>6
  <2>2. CASE Ends(t, "ok") \/ Ends(t, "crash")
    BY <2>2, EndsAlone
  <2> QED
    BY <1>1, <1>6, <2>1, <2>2, OwnErase
<1>7. CASE Use(t) \/ Fill(t) \/ Store(t)
  BY <1>1, <1>7, OwnUse, OwnFill, OwnStore, EndsAlone
<1>8. CASE Push(t)
  <2>1. StaysAt(t, "store", thread[t].i) /\ thread'[t].index = Len(files) + 1 /\ thread'[t].cap = fileCap
    BY <1>1, <1>8, OwnPush
  <2>2. UNCHANGED <<files, fileCap>> /\ thread[t].pc = "push"
    BY <1>8 DEF Push
  <2>3. Undisturbed(t)'
    BY <2>1, <2>2 DEF Undisturbed
  <2> QED
    BY <2>1, <2>2, <2>3 DEF Alone, StaysAt, Stays
<1>9. CASE StoreRaced(t)
  BY <1>9 DEF StoreRaced, Alone
<1>10. CASE List(t)
  <2>1. thread[t].pc = "list" /\ UNCHANGED <<files, fileCap>>
    BY <1>10 DEF List
  <2>2. CASE thread[t].i <= Len(files)
    <3>1. /\ Stays(t) /\ thread'[t].pc = "list" /\ thread'[t].i = thread[t].i + 1
          /\ thread'[t].due = thread[t].due \ {files[thread[t].i]}
      BY <1>1, <1>10, <2>2, OwnList
    <3>2. ASSUME NEW p \in thread'[t].due PROVE Ahead(files', p, thread'[t].i)
      <4>1. Ahead(files, p, thread[t].i) /\ files[thread[t].i] # p
        BY <2>1, <3>1, <3>2 DEF Alone
      <4> QED
        BY <1>1, <2>1, <3>1, <4>1, AheadMoves
    <3> QED
      BY <2>1, <3>1, <3>2 DEF Alone, Stays
  <2>3. CASE ~(thread[t].i <= Len(files))
    <3>1. Ends(t, IF thread[t].due = {} THEN "ok" ELSE "missed")
      BY <1>1, <1>10, <2>3, OwnListed
    <3>2. thread[t].due = {}
      BY <1>1, <2>1, <2>3 DEF Alone, Ahead
    <3> QED
      BY <3>1, <3>2, EndsAlone
  <2> QED
    BY <2>2, <2>3
<1> QED
  BY <1>3, <1>4, <1>5, <1>6, <1>7, <1>8, <1>9, <1>10 DEF Step

\* Erasing, adding a new path and relabelling with one keep the paths apart.
LEMMA UniqueStep ==
  ASSUME Base, IsInjective(files), NEW t \in Threads, Step(t), Alone(t)
  PROVE  IsInjective(files')
<1>1. /\ TypeOK /\ PlaceFits(t) /\ files \in Seq(Paths) /\ Len(files) \in Nat /\ DOMAIN files = 1..Len(files)
      /\ thread[t].path \in Paths /\ thread[t].to \in Paths
      /\ files' \in Seq(Paths) /\ Len(files') \in Nat /\ DOMAIN files' = 1..Len(files')
  BY VectorTypes, LenProperties DEF Base, TypeOK, Thread
<1>2. \A i, j \in 1..Len(files) : files[i] = files[j] => i = j
  BY <1>1 DEF IsInjective
<1> SUFFICES \A i, j \in 1..Len(files') : files'[i] = files'[j] => i = j
  BY <1>1 DEF IsInjective
<1>3. CASE Unmoved
  BY <1>1, <1>2, <1>3 DEF Unmoved
<1>4. CASE \E k \in Nat : Erased(k)
  <2>1. PICK k \in 1..Len(files) : files' = RemoveAt(files, k)
    BY <1>4 DEF Erased
  <2>2. /\ Len(files') = Len(files) - 1
        /\ \A m \in 1..(Len(files) - 1) : files'[m] = IF m < k THEN files[m] ELSE files[m + 1]
    BY <1>1, <2>1, RemoveAtProperties
  <2>3. ASSUME NEW i \in 1..Len(files'), NEW j \in 1..Len(files'), files'[i] = files'[j] PROVE i = j
    <3> DEFINE I == IF i < k THEN i ELSE i + 1
               J == IF j < k THEN j ELSE j + 1
    <3>1. I \in 1..Len(files) /\ J \in 1..Len(files) /\ files[I] = files[J]
      BY <1>1, <2>2, <2>3
    <3>2. I = J
      BY <1>2, <3>1
    <3> QED
      BY <1>1, <3>2
  <2> QED
    BY <1>1, <2>3
<1>5. CASE thread[t].pc = "store" /\ Added(thread[t].path)
  <2>1. /\ Len(files') = Len(files) + 1 /\ files'[Len(files) + 1] = thread[t].path
        /\ \A m \in 1..Len(files) : files'[m] = files[m]
    BY <1>1, <1>5, AppendProperties DEF Added
  <2>2. thread[t].op = "create"
    BY <1>1, <1>5, PlacesOfOps
  <2>3. \A m \in 1..Len(files) : files[m] # thread[t].path
    BY <1>1, <2>2 DEF Alone, Ahead
  <2>4. \A m \in 1..Len(files') : m \in 1..Len(files) \/ m = Len(files) + 1
    BY <1>1, <2>1
  <2> QED
    BY <1>1, <1>2, <2>1, <2>3, <2>4
<1>6. CASE thread[t].pc = "store" /\ ~Undisturbed(t)
  BY <1>6 DEF Alone
<1>7. CASE thread[t].pc = "use" /\ thread[t].op = "rename" /\ Replaced(thread[t].index, thread[t].to)
  <2> DEFINE k == thread[t].index
  <2>1. /\ Len(files') = Len(files) /\ files'[k] = thread[t].to
        /\ \A m \in 1..Len(files) : m # k => files'[m] = files[m]
    BY <1>1, <1>7, ExceptSeq DEF Replaced
  <2>2. \A m \in 1..Len(files) : files[m] # thread[t].to
    BY <1>1, <1>7 DEF Alone, Ahead
  <2> QED
    BY <1>1, <1>2, <2>1, <2>2
<1> QED
  BY <1>1, <1>3, <1>4, <1>5, <1>6, <1>7, StepsOnVector

\* and is there when a request starts.
LEMMA StartAlone ==
  ASSUME Base, NEW t \in Threads, NEW op \in Ops, NEW p \in Paths, NEW q \in Paths, Start(t, op, p, q)
  PROVE  Alone(t)'
<1>1. /\ TypeOK /\ UNCHANGED <<files, fileCap>>
      /\ op = "create" => p \notin ToSet(files)
  BY DEF Base, Start, LookedUp
<1>2. /\ thread'[t].op = op /\ thread'[t].path = p /\ thread'[t].pc = FirstPlace(op)
      /\ thread'[t].i = 1 /\ thread'[t].reply = "none"
      /\ op = "readdir" => thread'[t].due \subseteq ToSet(files)
  BY <1>1, StartThread
<1>3. op = "create" => ~Ahead(files', p, 1)
  BY <1>1, AheadHere
<1>4. thread'[t].pc = "list" => \A n \in thread'[t].due : Ahead(files', n, 1)
  <2>1. FirstPlace(op) = "list" => op = "readdir"
    BY FirstPlaces DEF Ops, DirectoryOps, Modifiers, Updates
  <2> QED
    BY <1>1, <1>2, <2>1, AheadHere
<1>5. thread'[t].pc \notin {"store", "erase", "use"} /\ (op = "rename" => thread'[t].pc = "target")
  BY <1>2, FirstPlaces DEF Holds
<1>6. \A j \in 1..Len(files') : ~(j < 1)
  BY <1>1, LenProperties DEF TypeOK
<1> QED
  BY <1>2, <1>3, <1>4, <1>5, <1>6 DEF Alone

\* The kernel starts nothing beside a request that changes the directory.
LEMMA StartOneAtATime ==
  ASSUME Base, OneAtATime, OneDirectory, NEW t \in Threads, NEW op \in Ops, NEW p \in Paths, NEW q \in Paths,
         Start(t, op, p, q)
  PROVE  OneAtATime'
<1>1. TypeOK /\ MayRun(op, p, q)
  BY DEF Base, Start
<1>2. thread'[t].op = op /\ \A s \in Threads : s # t => thread'[s].op = thread[s].op
  BY <1>1, StartThread
<1>3. ASSUME NEW s \in Threads, s # t, thread[s].op \in DirectoryOps, op \in DirectoryOps,
             thread[s].op \in Modifiers \/ op \in Modifiers
      PROVE  FALSE
  <2>1. Busy(s) /\ thread[s].path \in Paths
    <3>1. thread[s].op # "none"
      BY <1>3 DEF DirectoryOps, Modifiers
    <3> QED
      BY <1>1, <3>1 DEF Base, PlaceFits, Busy, TypeOK, Thread
  <2>2. {op, thread[s].op} # {"readdir"}
    BY <1>3 DEF Modifiers
  <2>3. Dirs(s) \cap {dirOf[p], dirOf[q]} = {}
    BY <1>1, <1>3, <2>1, <2>2 DEF MayRun
  <2>4. dirOf[thread[s].path] = dirOf[p]
    BY <2>1 DEF OneDirectory
  <2> QED
    BY <2>3, <2>4 DEF Dirs
<1>4. \A s \in Threads : thread[s].op \in Modifiers => thread[s].op \in DirectoryOps
  BY DEF DirectoryOps
<1>5. op \in Modifiers => op \in DirectoryOps
  BY DEF DirectoryOps
<1> QED
  BY <1>2, <1>3, <1>4, <1>5 DEF OneAtATime

\* Every step keeps OneDirInv,
LEMMA OneDirInvStep ==
  ASSUME OneDirInv, [Next]_vars
  PROVE  OneDirInv'
<1>1. Base /\ TypeOK /\ Base' /\ (OneDirectory' <=> OneDirectory)
  BY BaseStep DEF OneDirInv, Base, OneDirectory, Next, vars
<1> SUFFICES ASSUME OneDirectory
             PROVE  OneAtATime' /\ UniquePaths' /\ \A s \in Threads : Alone(s)'
  BY <1>1 DEF OneDirInv
<1>2. OneAtATime /\ UniquePaths /\ IsInjective(files) /\ \A s \in Threads : Alone(s)
  BY DEF OneDirInv, UniquePaths, IsInjective
<1>3. CASE UNCHANGED vars
  BY <1>2, <1>3 DEF vars, OneAtATime, UniquePaths, Alone, Held, Sought, Undisturbed
<1>4. ASSUME NEW t \in Threads, NEW op \in Ops, NEW p \in Paths, NEW q \in Paths, Start(t, op, p, q)
      PROVE  OneAtATime' /\ UniquePaths' /\ \A s \in Threads : Alone(s)'
  <2>1. UNCHANGED <<files, fileCap>>
    BY <1>4 DEF Start
  <2>2. \A s \in Threads : s # t => thread'[s] = thread[s]
    BY <1>1, <1>4, StartThread
  <2>3. \A s \in Threads : s # t => Alone(s)'
    BY <1>2, <2>1, <2>2 DEF Alone, Held, Sought, Undisturbed
  <2>4. UniquePaths'
    BY <1>2, <2>1 DEF UniquePaths
  <2> QED
    BY <1>1, <1>2, <1>4, <2>3, <2>4, StartAlone, StartOneAtATime
<1>5. ASSUME NEW t \in Threads, Step(t)
      PROVE  OneAtATime' /\ UniquePaths' /\ \A s \in Threads : Alone(s)'
  <2>1. \A s \in Threads : thread'[s].op \in {thread[s].op, "none"}
    BY <1>1, <1>5, OwnStep, OthersResemble DEF Resembles
  <2>2. OneAtATime'
    <3>1. "none" \notin Modifiers /\ "none" \notin DirectoryOps
      BY DEF Modifiers, DirectoryOps
    <3> QED
      BY <1>2, <2>1, <3>1 DEF OneAtATime
  <2>3. UniquePaths'
    BY <1>1, <1>2, <1>5, UniqueStep DEF UniquePaths, IsInjective
  <2> QED
    BY <1>1, <1>2, <1>5, <2>2, <2>3, OwnAlone, OthersAlone
<1> QED
  BY <1>3, <1>4, <1>5 DEF Next

\* and the start has it.
LEMMA OneDirInvInit ==
  ASSUME Init
  PROVE  OneDirInv
<1>1. \A t \in Threads : thread[t] = Idle
  BY DEF Init
<1>2. \A t \in Threads : thread[t].op = "none" /\ thread[t].pc = "idle" /\ thread[t].reply = "none"
  BY <1>1 DEF Idle
<1>3. UniquePaths
  BY DEF Init, UniquePaths
<1> QED
  BY <1>2, <1>3, BaseInit DEF OneDirInv, OneAtATime, Alone, Modifiers

\* While one directory's lock keeps the changes of the vector apart, each hits
\* the file it was asked for,
THEOREM LockedModifiersHit == Spec => []ModifiersHitNamed
<1>1. OneDirInv /\ [Next]_vars => OneDirInv'
  BY OneDirInvStep
<1>2. OneDirInv => ModifiersHitNamed
  BY DEF OneDirInv, ModifiersHitNamed, Alone
<1> QED
  BY OneDirInvInit, <1>1, <1>2, PTL DEF Spec

\* no path is in the vector twice,
THEOREM LockedPathsUnique == Spec => []UniquePaths
<1>1. OneDirInv /\ [Next]_vars => OneDirInv'
  BY OneDirInvStep
<1>2. OneDirInv => UniquePaths
  BY DEF OneDirInv, UniquePaths
<1> QED
  BY OneDirInvInit, <1>1, <1>2, PTL DEF Spec

\* and no listing leaves a file out, no create loses its own.
THEOREM LockedListingsWhole == Spec => []ListingsAndCreatesWhole
<1>1. OneDirInv /\ [Next]_vars => OneDirInv'
  BY OneDirInvStep
<1>2. OneDirInv => ListingsAndCreatesWhole
  BY DEF OneDirInv, ListingsAndCreatesWhole, Alone
<1> QED
  BY OneDirInvInit, <1>1, <1>2, PTL DEF Spec
=============================================================================
