------------------------------ MODULE FsManager ------------------------------
(***************************************************************************)
(* The daemon that is to know which storage nodes are available: class     *)
(* FSmanager and its main loop.  The constructor opens one ssh session per *)
(* node; every round asks each node in turn, over its session, whether the *)
(* directory /root/local_filesystem is there, and sets the node's flags.   *)
(*                                                                         *)
(* Each blocking call of libssh is a step that waits while the host is     *)
(* silent (a partition, a hung machine), and fails at once when the        *)
(* session is broken.  The hosts are the environment.                      *)
(***************************************************************************)
EXTENDS Integers

CONSTANTS
  N,            \* the number of storage nodes
  MaxFaults,    \* bound: most things that go wrong
  EmptyAnswers, \* a remote command may end without output
  StdoutFails   \* the daemon's write to its standard output may fail

ASSUME NAssumption == N \in Nat \ {0}
ASSUME FaultsAssumption == MaxFaults \in Nat
ASSUME SwitchesAssumption == EmptyAnswers \in BOOLEAN /\ StdoutFails \in BOOLEAN

Nodes == 1..N

VARIABLES
  host,      \* environment: "up", "silent" or "down"
  folder,    \* environment: the directory is there
  faults,    \* environment: how many things went wrong
  session,   \* _storage_sessions: "new", "ready" or "broken"
  status,    \* of each storage_node: _reachable and _responsive
  pc,        \* where the daemon is
  at,        \* the node it is at
  buffer,    \* buffer[0], a local that is not initialised
  alive,     \* the daemon runs
  verdict    \* history: what the last check of each node came to

environment == <<host, folder>>
vars == <<host, folder, faults, session, status, pc, at, buffer, alive, verdict>>

Bytes == {"0", "1", "junk"}

Unavailable == [reachable |-> FALSE, responsive |-> FALSE]
Available   == [reachable |-> TRUE,  responsive |-> TRUE]

Init ==
  /\ host \in [Nodes -> {"up", "silent", "down"}]
  /\ folder \in [Nodes -> BOOLEAN]
  /\ faults = 0
  /\ session = [n \in Nodes |-> "new"]
  /\ status = [n \in Nodes |-> Unavailable]
  /\ pc = "connect" /\ at = 1
  /\ buffer \in Bytes
  /\ alive = TRUE
  /\ verdict = [n \in Nodes |-> "none"]

Fault == faults < MaxFaults /\ faults' = faults + 1

-----------------------------------------------------------------------------
(* The hosts.                                                               *)

Environment(n) == UNCHANGED <<status, pc, at, buffer, alive, verdict>>

\* The host goes away and takes its session with it.
Lose(n) ==
  /\ host[n] # "down" /\ Fault
  /\ host' = [host EXCEPT ![n] = "down"]
  /\ session' = [session EXCEPT ![n] = IF @ = "ready" THEN "broken" ELSE @]
  /\ UNCHANGED folder /\ Environment(n)

Boot(n) ==
  /\ host[n] = "down"
  /\ host' = [host EXCEPT ![n] = "up"]
  /\ UNCHANGED <<folder, faults, session>> /\ Environment(n)

Hush(n) ==
  /\ host[n] = "up" /\ Fault
  /\ host' = [host EXCEPT ![n] = "silent"]
  /\ UNCHANGED <<folder, session>> /\ Environment(n)

Resume(n) ==
  /\ host[n] = "silent"
  /\ host' = [host EXCEPT ![n] = "up"]
  /\ UNCHANGED <<folder, faults, session>> /\ Environment(n)

MoveFolder(n) ==
  /\ Fault
  /\ folder' = [folder EXCEPT ![n] = ~@]
  /\ UNCHANGED <<host, session>> /\ Environment(n)

-----------------------------------------------------------------------------
(* The constructor.                                                         *)

\* What establish_ssh_connection comes to: a session; one nothing can be done
\* with, of a node that does not answer or refuses the key; or the exit(-1) of
\* public_key_authentication.  Refusals and errors count as faults.
Established == host[at] = "up" /\ UNCHANGED faults
Refused     == IF host[at] = "up" THEN Fault ELSE UNCHANGED faults
AuthError   == host[at] = "up" /\ Fault

Connect ==
  /\ alive /\ pc = "connect"
  /\ \/ /\ Established
        /\ session' = [session EXCEPT ![at] = "ready"]
        /\ status' = [status EXCEPT ![at] = Available]
        /\ verdict' = [verdict EXCEPT ![at] = "connected"]
        /\ UNCHANGED alive
     \/ /\ Refused
        /\ session' = [session EXCEPT ![at] = "broken"]
        /\ UNCHANGED <<status, verdict, alive>>
     \/ /\ AuthError
        /\ alive' = FALSE
        /\ UNCHANGED <<session, status, verdict>>
  /\ IF at < N THEN at' = at + 1 /\ pc' = "connect" ELSE at' = 1 /\ pc' = "open"
  /\ UNCHANGED <<environment, buffer>>

-----------------------------------------------------------------------------
(* One round of check_storage_nodes.                                        *)

Check(place) == alive /\ pc = place /\ UNCHANGED environment

\* Mutated forms: the loop runs one turn too many; the next round starts where
\* the last one ended.
OneTurnMore ==
  /\ IF at <= N THEN at' = at + 1 /\ pc' = "open" ELSE at' = 1 /\ pc' = "sleep"
  /\ buffer' \in IF at < N THEN {buffer} ELSE Bytes

NoRewind ==
  /\ IF at < N THEN at' = at + 1 /\ pc' = "open" ELSE at' = at /\ pc' = "sleep"
  /\ buffer' \in IF at < N THEN {buffer} ELSE Bytes

\* The next turn of the for loop finds the buffer as the last one left it; the
\* next call of check_storage_nodes finds there whatever is on the stack.
NextNode ==
  /\ IF at < N THEN at' = at + 1 /\ pc' = "open" ELSE at' = 1 /\ pc' = "sleep"
  /\ buffer' \in IF at < N THEN {buffer} ELSE Bytes

Judge(s, v) ==
  /\ status' = [status EXCEPT ![at] = s]
  /\ verdict' = [verdict EXCEPT ![at] = v]
  /\ NextNode
  /\ UNCHANGED <<session, alive>>

\* Mutated forms: the flags stay as they were; the same node is tried again.
KeepsFlags == Judge(status[at], "failed")

TriesAgain ==
  /\ status' = [status EXCEPT ![at] = Unavailable]
  /\ verdict' = [verdict EXCEPT ![at] = "failed"]
  /\ pc' = "open"
  /\ UNCHANGED <<at, buffer, session, alive>>

\* Every error path: both flags off, on to the next node.
GiveUp == Judge(Unavailable, "failed")

\* The session is in order and the host answers.
Served == session[at] = "ready" /\ host[at] = "up"

\* A call fails on a session that is not in order, and now and then on one
\* that is; it waits while the host of a good session is silent.
CallFails == IF session[at] = "ready" THEN host[at] # "silent" /\ Fault ELSE UNCHANGED faults

Proceed(place) == pc' = place /\ UNCHANGED <<faults, session, status, at, alive, verdict>>

\* ssh_channel_new and ssh_channel_open_session
OpenChannel ==
  /\ Check("open")
  /\ \/ Served /\ Proceed("exec") /\ UNCHANGED buffer
     \/ CallFails /\ GiveUp

\* ssh_channel_request_exec
Execute ==
  /\ Check("exec")
  /\ \/ Served /\ Proceed("read") /\ UNCHANGED buffer
     \/ CallFails /\ GiveUp

Answer(n) == IF folder[n] THEN "0" ELSE "1"

\* The first ssh_channel_read: the answer, the end of the output, or an error.
Read ==
  /\ Check("read")
  /\ \/ Served /\ Proceed("write") /\ buffer' = Answer(at)
     \/ EmptyAnswers /\ Served /\ Proceed("empty") /\ UNCHANGED buffer
     \/ CallFails /\ GiveUp

\* The answer goes to the standard output.  If that fails the channel is
\* freed, the flags are cleared, and `continue` continues the inner loop, with
\* nbytes as it was.
Write ==
  /\ Check("write")
  /\ \/ Proceed("more") /\ UNCHANGED buffer
     \/ /\ StdoutFails
        /\ status' = [status EXCEPT ![at] = Unavailable]
        /\ pc' = "spin"
        /\ UNCHANGED <<faults, session, at, buffer, alive, verdict>>

\* Turns of the inner loop on a freed channel: a write that fails again, or a
\* read of whatever is there now, which may end the daemon.
Spin ==
  /\ Check("spin")
  /\ \/ Proceed("spin") /\ UNCHANGED buffer
     \/ Proceed("empty") /\ UNCHANGED buffer
     \/ GiveUp /\ UNCHANGED faults
     \/ alive' = FALSE /\ UNCHANGED <<faults, session, status, pc, at, buffer, verdict>>

\* The second ssh_channel_read, to the end of the output.
ReadEnd ==
  /\ Check("more")
  /\ \/ Served /\ Proceed("judge") /\ UNCHANGED buffer
     \/ CallFails /\ GiveUp

\* Mutated form: an available node is left as it was.
OnlyClears(v) ==
  /\ UNCHANGED faults
  /\ IF buffer = "1" THEN Judge(Unavailable, v) ELSE Judge(status[at], v)

\* The verdict on the first byte: "0" is available, "1" unavailable, anything
\* else changes nothing.
Verdict(v) ==
  /\ UNCHANGED faults
  /\ CASE buffer = "0" -> Judge(Available, v)
       [] buffer = "1" -> Judge(Unavailable, v)
       [] OTHER        -> Judge(status[at], v)

JudgeAnswer == Check("judge") /\ Verdict(buffer)
JudgeEmpty  == Check("empty") /\ Verdict("empty")

\* sleep(10), then the next round.
Sleep == Check("sleep") /\ Proceed("open") /\ UNCHANGED buffer

Daemon == Connect \/ OpenChannel \/ Execute \/ Read \/ Write \/ Spin \/ ReadEnd
            \/ JudgeAnswer \/ JudgeEmpty \/ Sleep

Next ==
  \/ Daemon
  \/ \E n \in Nodes : Lose(n) \/ Boot(n) \/ Hush(n) \/ Resume(n) \/ MoveFolder(n)

Spec == Init /\ [][Next]_vars

\* The daemon is a process the system schedules.  Nothing is promised of the
\* inner loop on a freed channel: as long as the write fails it turns.
DaemonSpec == Spec /\ WF_vars(pc # "spin" /\ Daemon)

\* Moreover no host stays silent for ever: it answers again or goes down.
AwakeSpec == DaemonSpec /\ \A n \in Nodes : WF_vars(Resume(n))

-----------------------------------------------------------------------------
(* Properties.                                                              *)

TypeOK ==
  /\ host \in [Nodes -> {"up", "silent", "down"}]
  /\ folder \in [Nodes -> BOOLEAN]
  /\ faults \in 0..MaxFaults
  /\ session \in [Nodes -> {"new", "ready", "broken"}]
  /\ status \in [Nodes -> [reachable : BOOLEAN, responsive : BOOLEAN]]
  /\ pc \in {"connect", "open", "exec", "read", "write", "spin", "more", "judge", "empty", "sleep"}
  /\ at \in Nodes
  /\ buffer \in Bytes
  /\ alive \in BOOLEAN
  /\ verdict \in [Nodes -> {"none", "connected", "failed", "empty", "junk", "0", "1"}]

\* "directory exists on the node": a node is shown available only if it was
\* just connected to, its own last answer was yes, or its command gave no
\* output, which is judged by whatever byte the buffer holds.  No error on the
\* way and no answer of another node makes or keeps it so.
OwnAnswer ==
  \A n \in Nodes : status[n].reachable => verdict[n] \in {"connected", "0", "empty"}

Dead == <>(~alive)

\* Round follows round, with three exceptions: the daemon ended, it waits for
\* one host that stays silent, or it turns in the inner loop of one node whose
\* answer it could not write.  No broken session and no refusal stops it.
RoundsGoOn ==
  \/ []<>(pc = "sleep")
  \/ Dead
  \/ <>[](pc = "spin")
  \/ \E n \in Nodes : <>[](at = n /\ host[n] = "silent")

HostsAwake == \A n \in Nodes : []<>(host[n] # "silent")

\* "knowing which storage nodes are available and online" (TODO), one half: a
\* node that went down for good is in the end shown as not available, if no
\* host stays silent and the daemon not in the inner loop of one node.
DownIsShown ==
  HostsAwake => \A n \in Nodes :
    <>[](host[n] = "down") => <>[](~status[n].reachable) \/ Dead \/ <>[](pc = "spin")

\* The other half, for a node whose first session is never interrupted: one
\* that has the directory for good is in the end shown as available, whatever
\* happens to the others, unless answers keep getting lost on the way.
ReadyIsShown ==
  HostsAwake => \A n \in Nodes :
    <>[](host[n] = "up" /\ folder[n] /\ session[n] = "ready")
      => <>[](status[n].reachable) \/ Dead \/ []<>(pc \in {"spin", "empty"})

-----------------------------------------------------------------------------
(* What the repository says and the code does not do.                       *)

\* TODO, "knowing which storage nodes are available and online": a node the
\* daemon had a session with, that then went down, came back and is up with the
\* directory for good, is in the end shown as available again.
ReturningIsShown ==
  \A n \in Nodes :
    /\ <>(session[n] = "ready" /\ <>(host[n] = "down"))
    /\ <>[](host[n] = "up" /\ folder[n])
    => <>[](status[n].reachable) \/ Dead
=============================================================================
