---------------------------- MODULE SshMountProofs ----------------------------
(***************************************************************************)
(* Proofs about SshMount, for every set of arguments and every size_t.     *)
(* SessionsReleased is not inductive: what is freed at the end depends on  *)
(* what the pointer was when the requests ran.  IInv keeps the two         *)
(* counters and the pointer in step at every place.  The second part is    *)
(* about the argument, of any length, and the three calls of substr.       *)
(***************************************************************************)
EXTENDS SshMount, VectorLemmas

\* How often a session was opened and freed is to be seen from the pointer
\* until clean_up has run.
CountersFollow ==
  pc \notin {"done", "crash"} =>
    /\ sftp = "null" => opened = 0 /\ freed = 0
    /\ sftp = "open" => opened = 1 /\ freed = 0
    /\ sftp = "freed" => opened = 0 /\ freed = 1

\* Before init_sftp_session there is no sftp session.
NothingYet == pc \in {"parse", "connect", "login", "open"} => sftp = "null"

\* A session libssh was handed after its end is one sftp_init refused.
DanglingRefused == dangling => freed > opened

ReleasedAtEnd == pc = "done" => session = "freed" /\ (~dangling => freed = opened)

IInv == TypeOK /\ CountersFollow /\ NothingYet /\ DanglingRefused /\ ReleasedAtEnd

\* The start has IInv.
LEMMA InitIInv == Init => IInv
<1> SUFFICES ASSUME Init PROVE IInv
  OBVIOUS
<1>1. TypeOK
  <2>1. dangling \in BOOLEAN /\ arg \in Args /\ auth \in {"pw", "key"}
    BY DEF Init
  <2> QED
    BY <2>1 DEF Init, TypeOK
<1>2. CountersFollow /\ NothingYet
  BY DEF Init, CountersFollow, NothingYet
<1>3. DanglingRefused /\ ReleasedAtEnd
  <2>1. ~dangling /\ pc = "parse"
    BY DEF Init
  <2> QED
    BY <2>1 DEF DanglingRefused, ReleasedAtEnd
<1> QED
  BY <1>1, <1>2, <1>3 DEF IInv

\* One step per action.
LEMMA StepIInv == IInv /\ [Next]_vars => IInv'
<1> SUFFICES ASSUME IInv, [Next]_vars PROVE IInv'
  OBVIOUS
<1> USE DEF IInv, TypeOK, CountersFollow, NothingYet, DanglingRefused, ReleasedAtEnd, At, Goto
<1>1. CASE Parse
  BY <1>1 DEF Parse
<1>2. CASE Connect
  BY <1>2 DEF Connect
<1>3. CASE PasswordAuthentication \/ PublicKeyAuthentication
  BY <1>3 DEF PasswordAuthentication, PublicKeyAuthentication, Login
<1>4. CASE OpenSftp
  <2>1. pc = "open" /\ UNCHANGED <<arg, auth, session, login>>
    BY <1>4 DEF OpenSftp
  <2>2. sftp = "null" /\ opened = 0 /\ freed = 0
    BY <2>1
  <2>3. ~dangling
    BY <2>2
  <2>4. CASE UNCHANGED <<sftp, opened, freed, dangling>> /\ pc' = "serve"
    BY <2>1, <2>2, <2>3, <2>4
  <2>5. CASE sftp' = "open" /\ opened' = 1 /\ UNCHANGED <<freed, dangling>> /\ pc' = "serve"
    BY <2>1, <2>2, <2>3, <2>5
  <2>6. CASE sftp' = "freed" /\ freed' = freed + 1 /\ UNCHANGED opened /\ MayEnd("serve")
    <3>1. pc' \in {"serve", "crash"} /\ dangling' \in BOOLEAN /\ dangling'
      BY <2>6 DEF MayEnd
    <3>2. opened' = 0 /\ freed' = 1
      BY <2>2, <2>6
    <3>3. TypeOK' /\ CountersFollow' /\ NothingYet'
      BY <2>1, <2>6, <3>1, <3>2
    <3>4. DanglingRefused' /\ ReleasedAtEnd'
      BY <3>1, <3>2
    <3> QED
      BY <3>3, <3>4
  <2> QED
    BY <1>4, <2>4, <2>5, <2>6 DEF OpenSftp
<1>5. CASE Request
  <2>1. pc = "serve" /\ pc' \in {"serve", "crash"} /\ UNCHANGED <<arg, auth, session, sftp, login, opened, freed>>
    BY <1>5 DEF Request, MayEnd
  <2>2. dangling' = dangling \/ (dangling' = TRUE /\ sftp = "freed")
    BY <1>5 DEF Request, MayEnd
  <2>3. TypeOK' /\ CountersFollow' /\ NothingYet' /\ ReleasedAtEnd'
    BY <2>1, <2>2
  <2>4. DanglingRefused'
    <3>1. sftp = "freed" => freed > opened
      BY <2>1
    <3> QED
      BY <2>1, <2>2, <3>1
  <2> QED
    BY <2>3, <2>4
<1>6. CASE Unmount
  BY <1>6 DEF Unmount
<1>7. CASE CleanUp
  <2>1. pc = "clean_up" /\ session' = "freed" /\ UNCHANGED <<arg, auth, login, opened>>
    BY <1>7 DEF CleanUp
  <2>2. CASE sftp = "null"
    <3>1. pc' = "done" /\ UNCHANGED <<sftp, freed, dangling>>
      BY <1>7, <2>2 DEF CleanUp
    <3>2. opened = 0 /\ freed = 0
      BY <2>1, <2>2
    <3> QED
      BY <2>1, <2>2, <3>1, <3>2
  <2>3. CASE sftp = "open"
    <3>1. pc' = "done" /\ sftp' = "freed" /\ freed' = freed + 1 /\ UNCHANGED dangling
      BY <1>7, <2>3 DEF CleanUp
    <3>2. opened = 1 /\ freed = 0
      BY <2>1, <2>3
    <3>3. ~dangling
      BY <3>2
    <3> QED
      BY <2>1, <3>1, <3>2, <3>3
  <2>4. CASE sftp = "freed"
    <3>1. pc' \in {"done", "crash"} /\ dangling' = TRUE /\ freed' = freed + 1 /\ UNCHANGED sftp
      BY <1>7, <2>4 DEF CleanUp, MayEnd
    <3>2. opened = 0 /\ freed = 1
      BY <2>1, <2>4
    <3>3. dangling' \in BOOLEAN /\ dangling'
      BY <3>1
    <3>4. opened' = 0 /\ freed' = 2
      BY <2>1, <3>1, <3>2
    <3>5. TypeOK' /\ CountersFollow' /\ NothingYet'
      BY <2>1, <2>4, <3>1, <3>3, <3>4
    <3>6. DanglingRefused' /\ ReleasedAtEnd'
      BY <2>1, <3>3, <3>4
    <3> QED
      BY <3>5, <3>6
  <2> QED
    BY <2>2, <2>3, <2>4
<1>8. CASE UNCHANGED vars
  BY <1>8 DEF vars
<1> QED
  BY <1>1, <1>2, <1>3, <1>4, <1>5, <1>6, <1>7, <1>8 DEF Next

\* IInv holds in every state.
LEMMA IInvHolds == Spec => []IInv
BY InitIInv, StepIInv, PTL DEF Spec

\* The run is well formed for every argument: in particular at most one sftp
\* session is opened and sftp_free is called at most twice.
THEOREM TypeCorrect == Spec => []TypeOK
<1>1. IInv => TypeOK
  BY DEF IInv
<1> QED
  BY <1>1, IInvHolds, PTL

\* Freed memory is used only after sftp_init refused the session, and without
\* that main releases each session once.
THEOREM SessionsAreReleased == Spec => []SessionsReleased
<1>1. IInv => SessionsReleased
  BY DEF IInv, DanglingRefused, ReleasedAtEnd, SessionsReleased
<1> QED
  BY <1>1, IInvHolds, PTL

-----------------------------------------------------------------------------
(* Taking the argument apart, for an argument of any length.                *)

\* std::string::find: the first place with the character, or npos.
LEMMA FindProperties ==
  ASSUME NEW s \in Seq(STRING), NEW c, Find(s, c) # NPos
  PROVE  /\ Find(s, c) \in Nat /\ Find(s, c) < Len(s)
         /\ s[Find(s, c) + 1] = c
         /\ \A i \in 1..Find(s, c) : s[i] # c
<1> DEFINE hits == {i \in 1..Len(s) : s[i] = c}
<1>1. hits # {} /\ Find(s, c) = Min(hits) - 1
  BY DEF Find
<1>2. Len(s) \in Nat
  BY LenProperties
<1>3. hits \in SUBSET Nat
  BY <1>2
<1>4. Min(hits) \in hits /\ \A y \in hits : Min(hits) <= y
  <2> HIDE DEF hits
  <2> QED
    BY <1>1, <1>3, MinProperties
<1>5. Min(hits) \in 1..Len(s) /\ s[Min(hits)] = c
  BY <1>4
<1>6. ASSUME NEW i \in 1..Find(s, c) PROVE s[i] # c
  <2>1. i < Min(hits) /\ i \in 1..Len(s)
    <3> HIDE DEF hits
    <3> QED
      BY <1>1, <1>2, <1>5
  <2>2. i \notin hits
    <3> HIDE DEF hits
    <3>1. Min(hits) \in Nat /\ i \in Nat /\ ~(Min(hits) <= i)
      BY <1>2, <1>5, <2>1
    <3> QED
      BY <1>4, <3>1
  <2> QED
    BY <2>1, <2>2
<1>7. Find(s, c) \in Nat /\ Find(s, c) < Len(s) /\ Find(s, c) + 1 = Min(hits)
  <2> HIDE DEF hits
  <2> QED
    BY <1>1, <1>2, <1>5
<1> QED
  BY <1>5, <1>6, <1>7

\* npos means that the character is not there.
LEMMA NotFound ==
  ASSUME NEW s \in Seq(STRING), Len(s) < NPos, NEW c, Find(s, c) = NPos,
         NEW i \in 1..Len(s)
  PROVE  s[i] # c
<1> DEFINE hits == {k \in 1..Len(s) : s[k] = c}
<1>1. Len(s) \in Nat /\ NPos \in Nat
  BY LenProperties, NPosAssumption
<1>2. SUFFICES ASSUME s[i] = c PROVE FALSE
  OBVIOUS
<1>3. hits # {} /\ hits \in SUBSET Nat /\ hits \subseteq 1..Len(s)
  BY <1>1, <1>2
<1>4. Min(hits) - 1 = NPos
  BY <1>3 DEF Find
<1> HIDE DEF hits
<1>5. Min(hits) \in 1..Len(s)
  BY <1>3, MinProperties
<1> QED
  BY <1>1, <1>4, <1>5

\* Size_t arithmetic: only npos + 1 wraps, and a difference is a difference.
LEMMA SizeT ==
  /\ \A a \in Nat : a < NPos => Plus(a, 1) = a + 1
  /\ Plus(NPos, 1) = 0
  /\ \A a, b \in Nat : b <= a /\ a <= NPos => Minus(a, b) = a - b
<1>1. NPos \in Nat
  BY NPosAssumption
<1> QED
  BY <1>1 DEF Plus, Minus

\* For an argument whose first "@" comes before its first ":" the three
\* calls of substr cut it at these places.
LEMMA PartsOf ==
  ASSUME NEW s \in Seq(STRING), Len(s) < NPos, WellFormed(s)
  PROVE  /\ Find(s, "@") \in Nat /\ Find(s, ":") \in Nat
         /\ Find(s, "@") < Find(s, ":") /\ Find(s, ":") < Len(s)
         /\ RemoteUser(s) = SubSeq(s, 1, Find(s, "@"))
         /\ IpAddr(s) = SubSeq(s, Find(s, "@") + 2, Find(s, ":"))
         /\ RemoteDir(s) = SubSeq(s, Find(s, ":") + 2, Len(s))
<1> DEFINE a == Find(s, "@")
           c == Find(s, ":")
           n == Len(s)
<1>1. NPos \in Nat /\ n \in Nat /\ n < NPos
  BY NPosAssumption, LenProperties
<1>2. c \in Nat /\ c < n
  BY FindProperties DEF WellFormed
<1>3. a # NPos
  <2>1. a < c
    BY DEF WellFormed
  <2> HIDE DEF a, c, n
  <2> QED
    BY <1>1, <1>2, <2>1
<1>4. a \in Nat /\ a < c
  BY <1>3, FindProperties DEF WellFormed
<1>5. HostPosition(s) = a + 1 /\ DirPosition(s) = c + 1
  <2>1. Plus(a, 1) = a + 1 /\ Plus(c, 1) = c + 1
    <3> HIDE DEF a, c, n
    <3> QED
      BY <1>1, <1>2, <1>4, SizeT
  <2> QED
    BY <2>1 DEF HostPosition, DirPosition
<1>6. Minus(Minus(c, a), 1) = c - a - 1 /\ Minus(n, c) = n - c
  <2> HIDE DEF a, c, n
  <2>1. Minus(c, a) = c - a /\ Minus(n, c) = n - c
    BY <1>1, <1>2, <1>4, SizeT
  <2>2. c - a \in Nat /\ 1 <= c - a /\ c - a <= NPos
    BY <1>1, <1>2, <1>4
  <2>3. Minus(c - a, 1) = c - a - 1
    BY <2>2, SizeT
  <2> QED
    BY <2>1, <2>3
<1>7. /\ Min({0 + a, n}) = a
      /\ Min({a + 1 + (c - a - 1), n}) = c
      /\ Min({c + 1 + (n - c), n}) = n
  <2> HIDE DEF a, c, n
  <2>1. 0 + a = a /\ a + 1 + (c - a - 1) = c /\ c + 1 + (n - c) = n + 1
    BY <1>1, <1>2, <1>4
  <2>2. a <= n /\ c <= n /\ ~(n + 1 <= n) /\ n + 1 \in Nat
    BY <1>1, <1>2, <1>4
  <2>3. Min({a, n}) = a /\ Min({c, n}) = c /\ Min({n + 1, n}) = n
    BY <1>1, <1>2, <1>4, <2>2, MinOfTwo
  <2> QED
    BY <2>1, <2>3
<1>8. RemoteUser(s) = SubSeq(s, 0 + 1, a)
  BY <1>7 DEF RemoteUser, Substr
<1>9. IpAddr(s) = SubSeq(s, a + 1 + 1, c)
  BY <1>5, <1>6, <1>7 DEF IpAddr, Substr
<1>10. RemoteDir(s) = SubSeq(s, c + 1 + 1, n)
  BY <1>5, <1>6, <1>7 DEF RemoteDir, Substr
<1>11. 0 + 1 = 1 /\ a + 1 + 1 = a + 2 /\ c + 1 + 1 = c + 2
  <2> HIDE DEF a, c, n
  <2> QED
    BY <1>2, <1>4
<1> QED
  BY <1>2, <1>4, <1>8, <1>9, <1>10, <1>11

\* Put together again with their separators, the parts are the argument.
LEMMA NothingLost ==
  ASSUME NEW s \in Seq(STRING), Len(s) < NPos, WellFormed(s)
  PROVE  s = RemoteUser(s) \o <<"@">> \o IpAddr(s) \o <<":">> \o RemoteDir(s)
<1> DEFINE a == Find(s, "@")
           c == Find(s, ":")
           n == Len(s)
<1>1. a \in Nat /\ c \in Nat /\ a < c /\ c < n /\ n \in Nat
  BY PartsOf, LenProperties
<1>2. s[a + 1] = "@" /\ s[c + 1] = ":"
  BY FindProperties, NPosAssumption, <1>1 DEF WellFormed
<1> HIDE DEF a, c
<1>3. SubSeq(s, 1, a) \o <<"@">> = SubSeq(s, 1, a + 1)
  <2>1. a + 1 \in 1..Len(s) /\ 1 \in 1..Len(s) /\ (a + 1) - 1 = a
    BY <1>1
  <2> QED
    BY <1>2, <2>1, SubSeqRecursiveSecond
<1>4. SubSeq(s, 1, a + 1) \o SubSeq(s, a + 2, c) = SubSeq(s, 1, c)
  <2>1. 1 \in 1..Len(s) + 1 /\ a + 1 \in (1 - 1)..Len(s) /\ c \in (a + 1)..Len(s) /\ (a + 1) + 1 = a + 2
    BY <1>1
  <2> QED
    BY <2>1, ConcatAdjacentSubSeq
<1>5. SubSeq(s, 1, c) \o <<":">> = SubSeq(s, 1, c + 1)
  <2>1. c + 1 \in 1..Len(s) /\ 1 \in 1..Len(s) /\ (c + 1) - 1 = c
    BY <1>1
  <2> QED
    BY <1>2, <2>1, SubSeqRecursiveSecond
<1>6. SubSeq(s, 1, c + 1) \o SubSeq(s, c + 2, n) = s
  <2>1. 1 \in 1..Len(s) + 1 /\ c + 1 \in (1 - 1)..Len(s) /\ n \in (c + 1)..Len(s) /\ (c + 1) + 1 = c + 2
    BY <1>1
  <2>2. SubSeq(s, 1, c + 1) \o SubSeq(s, c + 2, n) = SubSeq(s, 1, n)
    BY <2>1, ConcatAdjacentSubSeq
  <2> QED
    BY <2>2, SubSeqFull
<1>7. RemoteUser(s) = SubSeq(s, 1, a) /\ IpAddr(s) = SubSeq(s, a + 2, c) /\ RemoteDir(s) = SubSeq(s, c + 2, n)
  BY PartsOf DEF a, c
<1> QED
  BY <1>3, <1>4, <1>5, <1>6, <1>7

\* No user has an "@" and no host a ":", as each is cut at the first.
LEMMA SeparatorsGone ==
  ASSUME NEW s \in Seq(STRING), Len(s) < NPos, WellFormed(s)
  PROVE  "@" \notin ToSet(RemoteUser(s)) /\ ":" \notin ToSet(IpAddr(s))
<1> DEFINE a == Find(s, "@")
           c == Find(s, ":")
<1>1. a \in Nat /\ c \in Nat /\ a < c /\ c < Len(s) /\ Len(s) \in Nat
  BY PartsOf, LenProperties
<1>2. (\A i \in 1..a : s[i] # "@") /\ (\A i \in 1..c : s[i] # ":")
  BY FindProperties, NPosAssumption, <1>1 DEF WellFormed
<1>3. RemoteUser(s) = SubSeq(s, 1, a) /\ IpAddr(s) = SubSeq(s, a + 2, c)
  BY PartsOf
<1> HIDE DEF a, c
<1>4. ASSUME NEW m \in 1..Len(s) + 1, NEW n \in 0..Len(s), NEW ch, \A i \in 1..n : s[i] # ch
      PROVE  ch \notin ToSet(SubSeq(s, m, n))
  <2>1. \A i \in m..n : s[i] \in STRING
    BY <1>1, ElementOfSeq
  <2>2. SubSeq(s, m, n) \in Seq(STRING)
    BY <1>1, <2>1, SubSeqProperties
  <2>3. Len(SubSeq(s, m, n)) = IF m <= n THEN n - m + 1 ELSE 0
    BY <1>1, <2>1, SubSeqProperties
  <2>4. ASSUME NEW i \in 1..Len(SubSeq(s, m, n)) PROVE SubSeq(s, m, n)[i] # ch
    <3>1. i \in 1..n - m + 1 /\ m + i - 1 \in 1..n
      BY <1>1, <2>3
    <3>2. SubSeq(s, m, n)[i] = s[m + i - 1]
      BY <1>1, <2>1, <3>1, SubSeqProperties
    <3> QED
      BY <1>4, <3>1, <3>2
  <2> QED
    BY <2>2, <2>4, LenProperties DEF ToSet
<1>5. a \in 0..Len(s) /\ c \in 0..Len(s) /\ 1 \in 1..Len(s) + 1 /\ a + 2 \in 1..Len(s) + 1
  BY <1>1
<1> QED
  BY <1>2, <1>3, <1>4, <1>5

\* A separator that is missing makes substr start at 0, any other one inside.
LEMMA StartInside ==
  ASSUME NEW c, arg \in Seq(STRING), Len(arg) < NPos
  PROVE  StartsBehind(Plus(Find(arg, c), 1), c)
<1>1. Len(arg) \in Nat
  BY LenProperties
<1>2. CASE Find(arg, c) = NPos
  <2>1. Plus(Find(arg, c), 1) = 0
    BY <1>2, SizeT
  <2>2. ASSUME NEW i \in 1..Len(arg), arg[i] = c PROVE FALSE
    BY <1>1, <1>2, <2>2, NotFound
  <2> QED
    BY <1>1, <2>1, <2>2 DEF StartsBehind
<1>3. CASE Find(arg, c) # NPos
  <2>1. /\ Find(arg, c) \in Nat /\ Find(arg, c) < Len(arg)
        /\ arg[Find(arg, c) + 1] = c
        /\ \A i \in 1..Find(arg, c) : arg[i] # c
    BY <1>3, FindProperties
  <2>2. Plus(Find(arg, c), 1) = Find(arg, c) + 1
    BY <1>1, <2>1, NPosAssumption, SizeT
  <2>3. ASSUME NEW i \in 1..Len(arg), arg[i] = c PROVE Find(arg, c) + 1 <= i
    BY <1>1, <2>1, <2>3
  <2> QED
    BY <1>1, <2>1, <2>2, <2>3 DEF StartsBehind
<1> QED
  BY <1>2, <1>3

\* An argument <user>@<ip-addr>:<directory> of any length is taken apart
\* without loss at its first "@" and its first ":".
THEOREM ArgumentTakenApart == Spec => []WellFormedSplit
<1>1. TypeOK => WellFormedSplit
  <2> SUFFICES ASSUME TypeOK, WellFormed(arg)
               PROVE  /\ arg = RemoteUser(arg) \o <<"@">> \o IpAddr(arg) \o <<":">> \o RemoteDir(arg)
                      /\ "@" \notin ToSet(RemoteUser(arg)) /\ ":" \notin ToSet(IpAddr(arg))
    BY DEF WellFormedSplit
  <2>1. arg \in Seq(STRING) /\ Len(arg) < NPos
    BY NPosAssumption DEF TypeOK
  <2> QED
    BY <2>1, NothingLost, SeparatorsGone
<1> QED
  BY <1>1, TypeCorrect, PTL

\* Whatever the argument, well formed or not, substr starts behind the first
\* separator, or at 0 if that is missing, and throws no out_of_range.
THEOREM ArgumentNeverThrows == Spec => []PositionsInside
<1>1. TypeOK => PositionsInside
  <2> SUFFICES ASSUME TypeOK PROVE PositionsInside
    OBVIOUS
  <2>1. arg \in Seq(STRING) /\ Len(arg) < NPos
    BY NPosAssumption DEF TypeOK
  <2> QED
    BY <2>1, StartInside DEF PositionsInside, HostPosition, DirPosition
<1> QED
  BY <1>1, TypeCorrect, PTL
=============================================================================
