------------------------------ MODULE SshMount ------------------------------
(***************************************************************************)
(* One run of the program with --backend=ssh: main.cpp takes the argument  *)
(* <user>@<ip-addr>:<directory> apart, ssh_backend connects, logs in and   *)
(* opens its sftp session, fuse_main serves requests, clean_up releases    *)
(* both sessions.  The positions std::string::find returns are size_t, and *)
(* npos, its "not found", is the largest of them: the arithmetic wraps.    *)
(***************************************************************************)
EXTENDS Naturals, SequencesExt

CONSTANTS
  Args,  \* the --ssh arguments, as sequences of characters
  NPos   \* bound: the largest size_t, std::string::npos

ASSUME NPosAssumption == NPos \in Nat /\ \A a \in Args : a \in Seq(STRING) /\ Len(a) < NPos

VARIABLES
  arg,      \* ssh_dir
  auth,     \* the authentication method; TCLAP lets no other through
  pc,       \* where the run is
  session,  \* _session: "null", "open", or "freed" but still pointed to
  sftp,     \* _sftp_session, likewise
  login,    \* what the server said to the login
  opened,   \* history: how many sftp sessions were opened
  freed,    \* history: how many calls of sftp_free with something to free
  dangling  \* history: a freed session was passed to libssh

vars == <<arg, auth, pc, session, sftp, login, opened, freed, dangling>>

-----------------------------------------------------------------------------
(* Taking the argument apart.  Positions count from 0.                      *)

Find(s, c) == LET hits == {i \in 1..Len(s) : s[i] = c} IN IF hits = {} THEN NPos ELSE Min(hits) - 1

Plus(a, b)  == (a + b) % (NPos + 1)
Minus(a, b) == (a + NPos + 1 - b) % (NPos + 1)

\* std::string::substr, for a position inside; it takes at most n characters.
Substr(s, position, n) == SubSeq(s, position + 1, Min({position + n, Len(s)}))

\* Mutated forms: one separator is looked for behind the other; its
\* character is not skipped.
HostAfterColon(s) == Plus(Find(s, ":"), 1)
LastCharacterToo(s) == Plus(Find(s, ":"), 2)

HostPosition(s) == Plus(Find(s, "@"), 1)
DirPosition(s)  == Plus(Find(s, ":"), 1)

RemoteUser(s) == Substr(s, 0, Find(s, "@"))
IpAddr(s)     == Substr(s, HostPosition(s), Minus(Minus(Find(s, ":"), Find(s, "@")), 1))
RemoteDir(s)  == Substr(s, DirPosition(s), Minus(Len(s), Find(s, ":")))

-----------------------------------------------------------------------------
Init ==
  /\ arg \in Args /\ auth \in {"pw", "key"}
  /\ pc = "parse" /\ session = "null" /\ sftp = "null" /\ login = "none"
  /\ opened = 0 /\ freed = 0 /\ dangling = FALSE

At(place)  == pc = place /\ UNCHANGED <<arg, auth>>
Goto(place) == pc' = place

\* An argument that is missing or has an empty part ends the program.
Parse ==
  /\ At("parse")
  /\ Goto(IF <<>> \in {arg, RemoteUser(arg), IpAddr(arg), RemoteDir(arg)} THEN "exit" ELSE "connect")
  /\ UNCHANGED <<session, sftp, login, opened, freed, dangling>>

\* ssh_new and ssh_connect; a failure of either ends the program.
Connect ==
  /\ At("connect")
  /\ \/ session' = "open" /\ Goto("login")
     \/ UNCHANGED session /\ Goto("exit")
  /\ UNCHANGED <<sftp, login, opened, freed, dangling>>

\* An error ends the program; a refusal is returned and nobody looks at it.
Login ==
  /\ \/ login' \in {"granted", "denied"} /\ Goto("open")
     \/ UNCHANGED login /\ Goto("exit")
  /\ UNCHANGED <<session, sftp, opened, freed, dangling>>

PasswordAuthentication  == At("login") /\ auth = "pw" /\ Login
PublicKeyAuthentication == At("login") /\ auth = "key" /\ Login

\* A freed session handed to libssh: the process ends, or nothing shows.
MayEnd(place) == pc' \in {place, "crash"} /\ dangling' = TRUE

\* Mutated form: a session sftp_init refuses is opened anew.
TriesAgain ==
  /\ At("open")
  /\ freed' = freed + 1
  /\ UNCHANGED <<pc, session, sftp, login, opened, dangling>>

\* init_sftp_session.  Without a login sftp_new fails.  A session that sftp_init
\* refuses is freed, the pointer kept, and sftp_get_error then reads from it.
\* The caller only prints the error.
OpenSftp ==
  /\ At("open")
  /\ \/ /\ UNCHANGED <<sftp, opened, freed, dangling>>
        /\ Goto("serve")
     \/ /\ login = "granted"
        /\ sftp' = "open" /\ opened' = 1 /\ UNCHANGED <<freed, dangling>>
        /\ Goto("serve")
     \/ /\ login = "granted"
        /\ sftp' = "freed" /\ freed' = freed + 1 /\ UNCHANGED opened
        /\ MayEnd("serve")
  /\ UNCHANGED <<session, login>>

\* A request on a path reaches libssh with whatever _sftp_session points to;
\* on NULL it fails or ends the process.
Request ==
  /\ At("serve")
  /\ \/ sftp = "open" /\ UNCHANGED <<pc, dangling>>
     \/ sftp = "null" /\ pc' \in {"serve", "crash"} /\ UNCHANGED dangling
     \/ sftp = "freed" /\ MayEnd("serve")
  /\ UNCHANGED <<session, sftp, login, opened, freed>>

\* fuse_main returns: unmounted, or it could not mount at all.
Unmount ==
  /\ At("serve") /\ Goto("clean_up")
  /\ UNCHANGED <<session, sftp, login, opened, freed, dangling>>

\* Mutated form: only the sftp session is released.
KeepsSession ==
  /\ At("clean_up") /\ Goto("done")
  /\ sftp' = IF sftp = "null" THEN "null" ELSE "freed"
  /\ freed' = IF sftp = "null" THEN freed ELSE freed + 1
  /\ UNCHANGED <<session, login, opened, dangling>>

CleanUp ==
  /\ At("clean_up")
  /\ \/ sftp = "null" /\ Goto("done") /\ UNCHANGED <<sftp, freed, dangling>>
     \/ sftp = "open" /\ sftp' = "freed" /\ freed' = freed + 1 /\ Goto("done") /\ UNCHANGED dangling
     \/ sftp = "freed" /\ freed' = freed + 1 /\ MayEnd("done") /\ UNCHANGED sftp
  /\ session' = "freed"
  /\ UNCHANGED <<login, opened>>

Next ==
  \/ Parse \/ Connect \/ PasswordAuthentication \/ PublicKeyAuthentication
  \/ OpenSftp \/ Request \/ Unmount \/ CleanUp

Spec == Init /\ [][Next]_vars

-----------------------------------------------------------------------------
(* Properties.                                                              *)

TypeOK ==
  /\ arg \in Args /\ auth \in {"pw", "key"}
  /\ pc \in {"parse", "connect", "login", "open", "serve", "clean_up", "done", "exit", "crash"}
  /\ session \in {"null", "open", "freed"} /\ sftp \in {"null", "open", "freed"}
  /\ login \in {"none", "granted", "denied"}
  /\ opened \in 0..1 /\ freed \in 0..2 /\ dangling \in BOOLEAN

WellFormed(s) == Find(s, "@") < Find(s, ":") /\ Find(s, ":") # NPos

\* An argument whose first "@" comes before its first ":" is taken apart so
\* that nothing is lost, whatever further "@" and ":" the directory holds.
WellFormedSplit ==
  WellFormed(arg) =>
    /\ arg = RemoteUser(arg) \o <<"@">> \o IpAddr(arg) \o <<":">> \o RemoteDir(arg)
    /\ "@" \notin ToSet(RemoteUser(arg)) /\ ":" \notin ToSet(IpAddr(arg))

\* std::out_of_range is none of the exceptions main catches: whatever the
\* argument, the position a substr starts at lies inside it.  It is the one
\* behind the first separator; a separator that is missing makes npos + 1 wrap,
\* to 0, and there it starts.
StartsBehind(position, c) ==
  /\ position <= Len(arg)
  /\ position > 0 => arg[position] = c
  /\ \A i \in 1..Len(arg) : arg[i] = c => 0 < position /\ position <= i
PositionsInside == StartsBehind(HostPosition(arg), "@") /\ StartsBehind(DirPosition(arg), ":")

\* Memory of a freed sftp session is used only after sftp_init refused it;
\* without that, each session opened is freed once by the time main returns,
\* and none that was not opened.
SessionsReleased ==
  /\ dangling => freed > opened
  /\ pc = "done" => session = "freed" /\ (~dangling => freed = opened)
=============================================================================
