--------------------------- MODULE FsManagerProofs ---------------------------
(***************************************************************************)
(* Proofs about FsManager, for every number of nodes and of faults.        *)
(* OwnAnswer holds because the buffer has the node's answer in it whenever *)
(* a verdict on an answer is taken.  That no verdict is taken without one  *)
(* needs every command to print something and every write to standard      *)
(* output to work.                                                         *)
(***************************************************************************)
EXTENDS FsManager, TLAPS

\* The places at which the answer of the node at hand is in the buffer.
Answered == {"write", "more", "judge"}

BufferFilled == pc \in Answered => buffer \in {"0", "1"}

IInv == TypeOK /\ OwnAnswer /\ BufferFilled

\* No verdict is taken without an answer.
NoDetour == pc \notin {"spin", "empty"} /\ \A n \in Nodes : verdict[n] # "empty"

\* The two values the daemon gives a node's flags.
LEMMA FlagTypes ==
  /\ Available \in [reachable : BOOLEAN, responsive : BOOLEAN]
  /\ Unavailable \in [reachable : BOOLEAN, responsive : BOOLEAN]
BY DEF Available, Unavailable

\* What a step to the next node does to the position and the place.
LEMMA NextNodeType ==
  ASSUME TypeOK, NextNode
  PROVE  /\ at' \in Nodes
         /\ pc' \in {"open", "sleep"}
         /\ buffer' \in Bytes
BY NAssumption DEF TypeOK, NextNode, Nodes, Bytes

\* A fault leaves the count within its bound.
LEMMA FaultType ==
  ASSUME TypeOK, Fault \/ UNCHANGED faults
  PROVE  faults' \in 0..MaxFaults
BY FaultsAssumption DEF TypeOK, Fault

\* The types of what a verdict on the node at hand writes.
LEMMA JudgeType ==
  ASSUME TypeOK, NEW s \in [reachable : BOOLEAN, responsive : BOOLEAN],
         NEW v \in {"failed", "empty", "junk", "0", "1"},
         UNCHANGED environment, Fault \/ UNCHANGED faults, Judge(s, v)
  PROVE  TypeOK'
BY NextNodeType, FaultType DEF TypeOK, Judge, environment

\* A call that goes through, or a turn of the inner loop, moves only the place.
LEMMA ProceedType ==
  ASSUME TypeOK, UNCHANGED environment, buffer' \in Bytes,
         NEW place \in {"open", "exec", "read", "write", "spin", "more", "judge", "empty"},
         Proceed(place)
  PROVE  TypeOK'
BY DEF TypeOK, Proceed, environment

\* A failed call is a verdict: both flags off.
LEMMA GiveUpType ==
  ASSUME TypeOK, UNCHANGED environment, Fault \/ UNCHANGED faults, GiveUp
  PROVE  TypeOK'
BY JudgeType, FlagTypes DEF GiveUp

\* The verdict on whatever is in the buffer is well formed.
LEMMA VerdictType ==
  ASSUME TypeOK, UNCHANGED environment, NEW v \in {"empty"} \cup Bytes, Verdict(v)
  PROVE  TypeOK'
<1>1. status[at] \in [reachable : BOOLEAN, responsive : BOOLEAN]
  BY DEF TypeOK
<1>2. v \in {"failed", "empty", "junk", "0", "1"}
  BY DEF Bytes
<1>3. Judge(Available, v) \/ Judge(Unavailable, v) \/ Judge(status[at], v)
  BY DEF Verdict
<1> QED
  BY <1>1, <1>2, <1>3, JudgeType, FlagTypes DEF Verdict

-----------------------------------------------------------------------------
(* TypeOK is inductive on its own; one step per action.                     *)

\* No step breaks the types.
LEMMA TypeStep == TypeOK /\ [Next]_vars => TypeOK'
<1> SUFFICES ASSUME TypeOK, [Next]_vars PROVE TypeOK'
  OBVIOUS
<1>1. ASSUME Connect PROVE TypeOK'
  <2>1. at' \in Nodes /\ pc' \in {"connect", "open"}
    BY <1>1, NAssumption DEF Connect, TypeOK, Nodes
  <2>2. faults' \in 0..MaxFaults
    BY <1>1, FaultType DEF Connect, Established, Refused, AuthError
  <2>3. session' \in [Nodes -> {"new", "ready", "broken"}]
    BY <1>1 DEF Connect, TypeOK
  <2>4. status' \in [Nodes -> [reachable : BOOLEAN, responsive : BOOLEAN]]
    BY <1>1, FlagTypes DEF Connect, TypeOK
  <2>5. verdict' \in [Nodes -> {"none", "connected", "failed", "empty", "junk", "0", "1"}]
    BY <1>1 DEF Connect, TypeOK
  <2>6. alive' \in BOOLEAN
    BY <1>1 DEF Connect, TypeOK
  <2> QED
    BY <1>1, <2>1, <2>2, <2>3, <2>4, <2>5, <2>6 DEF Connect, TypeOK, environment
<1>2. ASSUME OpenChannel PROVE TypeOK'
  BY <1>2, ProceedType, GiveUpType DEF OpenChannel, Check, CallFails, TypeOK
<1>3. ASSUME Execute PROVE TypeOK'
  BY <1>3, ProceedType, GiveUpType DEF Execute, Check, CallFails, TypeOK
<1>4. ASSUME Read PROVE TypeOK'
  <2>1. Answer(at) \in Bytes /\ buffer \in Bytes
    BY DEF Answer, Bytes, TypeOK
  <2> QED
    BY <1>4, <2>1, ProceedType, GiveUpType DEF Read, Check, CallFails
<1>5. ASSUME Write PROVE TypeOK'
  <2>1. CASE Proceed("more") /\ UNCHANGED buffer
    BY <1>5, <2>1, ProceedType DEF Write, Check, TypeOK
  <2>2. ASSUME status' = [status EXCEPT ![at] = Unavailable], pc' = "spin",
               UNCHANGED <<faults, session, at, buffer, alive, verdict>>
        PROVE  TypeOK'
    <3>1. status' \in [Nodes -> [reachable : BOOLEAN, responsive : BOOLEAN]]
      BY <2>2, FlagTypes DEF TypeOK
    <3> QED
      BY <1>5, <2>2, <3>1 DEF Write, Check, TypeOK, environment
  <2> QED
    BY <1>5, <2>1, <2>2 DEF Write
<1>6. ASSUME Spin PROVE TypeOK'
  <2>1. ASSUME alive' = FALSE, UNCHANGED <<faults, session, status, pc, at, buffer, verdict>>
        PROVE  TypeOK'
    BY <1>6, <2>1 DEF Spin, Check, TypeOK, environment
  <2> QED
    BY <1>6, <2>1, ProceedType, GiveUpType DEF Spin, Check, TypeOK
<1>7. ASSUME ReadEnd PROVE TypeOK'
  BY <1>7, ProceedType, GiveUpType DEF ReadEnd, Check, CallFails, TypeOK
<1>8. ASSUME JudgeAnswer PROVE TypeOK'
  BY <1>8, VerdictType DEF JudgeAnswer, Check, TypeOK
<1>9. ASSUME JudgeEmpty PROVE TypeOK'
  BY <1>9, VerdictType DEF JudgeEmpty, Check
<1>10. ASSUME Sleep PROVE TypeOK'
  BY <1>10, ProceedType DEF Sleep, Check, TypeOK
<1>11. ASSUME NEW n \in Nodes, Lose(n) \/ Boot(n) \/ Hush(n) \/ Resume(n) \/ MoveFolder(n)
       PROVE  TypeOK'
  <2>1. faults' \in 0..MaxFaults
    BY <1>11, FaultType DEF Lose, Boot, Hush, Resume, MoveFolder
  <2> QED
    BY <1>11, <2>1 DEF Lose, Boot, Hush, Resume, MoveFolder, Environment, TypeOK
<1>12. CASE UNCHANGED vars
  BY <1>12 DEF vars, TypeOK
<1> QED
  BY <1>1, <1>2, <1>3, <1>4, <1>5, <1>6, <1>7, <1>8, <1>9, <1>10, <1>11, <1>12 DEF Next, Daemon

\* Whatever the hosts do, and however many nodes there are, the daemon's state
\* is well formed: in particular its position is always that of a node.
THEOREM TypeCorrect == Spec => []TypeOK
<1>1. Init => TypeOK
  BY NAssumption, FaultsAssumption DEF Init, TypeOK, Nodes, Unavailable
<1> QED
  BY <1>1, TypeStep, PTL DEF Spec

-----------------------------------------------------------------------------
(* What is shown rests on the node's own last answer.                       *)

\* Taking both flags off one node, or showing it after a yes or after no
\* answer at all, keeps it so.
LEMMA JudgeOwn ==
  ASSUME TypeOK, OwnAnswer, NEW s, NEW v, Judge(s, v),
         s.reachable => v \in {"0", "empty"}
  PROVE  OwnAnswer' /\ BufferFilled'
<1>1. OwnAnswer'
  BY DEF Judge, OwnAnswer, TypeOK
<1> QED
  BY <1>1, NextNodeType DEF Judge, BufferFilled, Answered

\* A failed call is covered by that.
LEMMA GiveUpOwn ==
  ASSUME TypeOK, OwnAnswer, GiveUp
  PROVE  OwnAnswer' /\ BufferFilled'
BY JudgeOwn DEF GiveUp, Unavailable

\* A call that goes through shows nothing new.
LEMMA ProceedOwn ==
  ASSUME OwnAnswer, BufferFilled, NEW place, Proceed(place),
         place \in Answered => buffer' \in {"0", "1"}
  PROVE  OwnAnswer' /\ BufferFilled'
BY DEF Proceed, OwnAnswer, BufferFilled

\* IInv is inductive; one step per action.
LEMMA OwnAnswerStep ==
  ASSUME IInv, [Next]_vars
  PROVE  IInv'
<1>1. TypeOK'
  BY TypeStep DEF IInv
<1> SUFFICES OwnAnswer' /\ BufferFilled'
  BY <1>1 DEF IInv
<1>2. ASSUME Connect PROVE OwnAnswer' /\ BufferFilled'
  <2>1. OwnAnswer'
    BY <1>2 DEF Connect, OwnAnswer, IInv, TypeOK
  <2> QED
    BY <1>2, <2>1 DEF Connect, BufferFilled, Answered
<1>3. ASSUME OpenChannel PROVE OwnAnswer' /\ BufferFilled'
  BY <1>3, ProceedOwn, GiveUpOwn DEF OpenChannel, IInv, Answered
<1>4. ASSUME Execute PROVE OwnAnswer' /\ BufferFilled'
  BY <1>4, ProceedOwn, GiveUpOwn DEF Execute, IInv, Answered
<1>5. ASSUME Read PROVE OwnAnswer' /\ BufferFilled'
  <2>1. Answer(at) \in {"0", "1"}
    BY DEF Answer
  <2> QED
    BY <1>5, <2>1, ProceedOwn, GiveUpOwn DEF Read, IInv, Answered
<1>6. ASSUME Write PROVE OwnAnswer' /\ BufferFilled'
  <2>1. buffer \in {"0", "1"}
    BY <1>6 DEF Write, Check, IInv, BufferFilled, Answered
  <2>2. ASSUME status' = [status EXCEPT ![at] = Unavailable], pc' = "spin",
               UNCHANGED <<faults, session, at, buffer, alive, verdict>>
        PROVE  OwnAnswer' /\ BufferFilled'
    BY <2>2 DEF Unavailable, OwnAnswer, BufferFilled, Answered, IInv, TypeOK
  <2> QED
    BY <1>6, <2>1, <2>2, ProceedOwn DEF Write, IInv
<1>7. ASSUME Spin PROVE OwnAnswer' /\ BufferFilled'
  <2>1. ASSUME alive' = FALSE, UNCHANGED <<faults, session, status, pc, at, buffer, verdict>>
        PROVE  OwnAnswer' /\ BufferFilled'
    BY <2>1 DEF OwnAnswer, BufferFilled, IInv
  <2> QED
    BY <1>7, <2>1, ProceedOwn, GiveUpOwn DEF Spin, IInv, Answered
<1>8. ASSUME ReadEnd PROVE OwnAnswer' /\ BufferFilled'
  <2>1. buffer \in {"0", "1"}
    BY <1>8 DEF ReadEnd, Check, IInv, BufferFilled, Answered
  <2> QED
    BY <1>8, <2>1, ProceedOwn, GiveUpOwn DEF ReadEnd, IInv
<1>9. ASSUME JudgeAnswer PROVE OwnAnswer' /\ BufferFilled'
  <2>1. buffer \in {"0", "1"}
    BY <1>9 DEF JudgeAnswer, Check, IInv, BufferFilled, Answered
  <2>2. \/ buffer = "0" /\ Judge(Available, buffer)
        \/ buffer = "1" /\ Judge(Unavailable, buffer)
    BY <1>9, <2>1 DEF JudgeAnswer, Verdict
  <2>3. ~Unavailable.reachable
    BY DEF Unavailable
  <2> QED
    BY <2>2, <2>3, JudgeOwn DEF IInv
<1>10. ASSUME JudgeEmpty PROVE OwnAnswer' /\ BufferFilled'
  <2>1. \E s : Judge(s, "empty")
    BY <1>10 DEF JudgeEmpty, Verdict
  <2> QED
    BY <2>1, JudgeOwn DEF IInv
<1>11. ASSUME Sleep PROVE OwnAnswer' /\ BufferFilled'
  BY <1>11, ProceedOwn DEF Sleep, IInv, Answered
<1>12. ASSUME NEW n \in Nodes, Lose(n) \/ Boot(n) \/ Hush(n) \/ Resume(n) \/ MoveFolder(n)
       PROVE  OwnAnswer' /\ BufferFilled'
  <2>1. UNCHANGED <<status, verdict, pc, buffer>>
    BY <1>12 DEF Lose, Boot, Hush, Resume, MoveFolder, Environment
  <2> QED
    BY <2>1 DEF IInv, OwnAnswer, BufferFilled
<1>13. CASE UNCHANGED vars
  BY <1>13 DEF vars, IInv, OwnAnswer, BufferFilled
<1> QED
  BY <1>2, <1>3, <1>4, <1>5, <1>6, <1>7, <1>8, <1>9, <1>10, <1>11, <1>12, <1>13 DEF Next, Daemon

\* IInv holds in every state.
LEMMA IInvHolds == Spec => []IInv
<1>1. Init => IInv
  <2>1. Init => TypeOK
    BY NAssumption, FaultsAssumption DEF Init, TypeOK, Nodes, Unavailable
  <2> QED
    BY <2>1 DEF Init, IInv, OwnAnswer, BufferFilled, Answered, Unavailable
<1>2. IInv /\ [Next]_vars => IInv'
  BY OwnAnswerStep
<1> QED
  BY <1>1, <1>2, PTL DEF Spec

\* A node is shown available only on its own word, or after it gave none, for
\* any number of nodes, whatever the hosts do and whatever fails in between.
THEOREM OwnAnswerShown == Spec => []OwnAnswer
<1>1. IInv => OwnAnswer
  BY DEF IInv
<1> QED
  BY <1>1, IInvHolds, PTL

-----------------------------------------------------------------------------
(* If every command prints something and standard output takes it.          *)

\* The branch "directory exists on the node", taken at its word.
OwnYes == \A n \in Nodes : status[n].reachable => verdict[n] \in {"connected", "0"}

\* Then nothing is judged without an answer.
LEMMA NeverEmptyStep ==
  ASSUME ~EmptyAnswers, ~StdoutFails, NoDetour, [Next]_vars, TypeOK
  PROVE  NoDetour'
<1>1. ASSUME NEW s, NEW v, v # "empty", Judge(s, v) PROVE NoDetour'
  BY <1>1, NextNodeType DEF Judge, NoDetour, TypeOK
<1>2. ASSUME GiveUp PROVE NoDetour'
  BY <1>1, <1>2 DEF GiveUp
<1>3. ASSUME NEW place, place \notin {"spin", "empty"}, Proceed(place) PROVE NoDetour'
  BY <1>3 DEF Proceed, NoDetour
<1>4. ASSUME Connect PROVE NoDetour'
  BY <1>4 DEF Connect, NoDetour, TypeOK
<1>5. ASSUME OpenChannel \/ Execute \/ Read \/ Write \/ ReadEnd \/ Sleep PROVE NoDetour'
  BY <1>2, <1>3, <1>5 DEF OpenChannel, Execute, Read, Write, ReadEnd, Sleep
<1>6. ASSUME JudgeAnswer PROVE NoDetour'
  <2>1. buffer # "empty"
    BY DEF TypeOK, Bytes
  <2>2. \E s : Judge(s, buffer)
    BY <1>6 DEF JudgeAnswer, Verdict
  <2> QED
    BY <1>1, <2>1, <2>2
<1>7. ASSUME Spin \/ JudgeEmpty PROVE FALSE
  BY <1>7 DEF Spin, JudgeEmpty, Check, NoDetour
<1>8. ASSUME NEW n \in Nodes, Lose(n) \/ Boot(n) \/ Hush(n) \/ Resume(n) \/ MoveFolder(n)
      PROVE  NoDetour'
  BY <1>8 DEF Lose, Boot, Hush, Resume, MoveFolder, Environment, NoDetour
<1>9. CASE UNCHANGED vars
  BY <1>9 DEF vars, NoDetour
<1> QED
  BY <1>4, <1>5, <1>6, <1>7, <1>8, <1>9 DEF Next, Daemon

\* As long as every command prints something and standard output takes it, a
\* node is shown available only on its own yes.
THEOREM OwnYesShown ==
  ASSUME ~EmptyAnswers, ~StdoutFails
  PROVE  Spec => []OwnYes
<1>1. Init => NoDetour
  BY DEF Init, NoDetour
<1>2. IInv /\ NoDetour /\ [Next]_vars => NoDetour'
  BY NeverEmptyStep DEF IInv
<1>3. IInv /\ NoDetour => OwnYes
  BY DEF IInv, OwnAnswer, NoDetour, OwnYes
<1> QED
  BY <1>1, <1>2, <1>3, IInvHolds, PTL DEF Spec
=============================================================================
