-------------------------------- MODULE FileIO --------------------------------
(***************************************************************************)
(* One file behind either backend, under a history of write and truncate   *)
(* requests, next to the file POSIX would have made of the same requests.  *)
(* The RAM backend inserts instead of overwriting, stops at a NUL byte and *)
(* cannot extend a file by truncate.  The ssh backend overwrites in place, *)
(* but its truncate does nothing, and a write the server takes only a part *)
(* of, or refuses, is answered with its full size.  The module states at   *)
(* which positions a client can tell the difference, and what it reads.    *)
(***************************************************************************)
EXTENDS RamContent

CONSTANTS
  Data,         \* the buffers a client passes to write
  InitContent,  \* the content the file starts with
  MaxLen,       \* bound: longest content
  MaxRead       \* bound: largest read request

ASSUME DataAssumption ==
  /\ \A d \in Data : d \in Seq(Byte)
  /\ InitContent \in Seq(Byte)
  /\ MaxLen \in Nat
  /\ Len(InitContent) <= MaxLen
  /\ MaxRead \in Nat

VARIABLES
  backend,  \* which_backend: "ram" or "ssh"
  content,  \* simple_file::_content, or the bytes on the server
  posix,    \* what a POSIX file would hold after the same requests
  stale     \* history: the positions at which a request may have had an
            \* effect POSIX does not give it

vars == <<backend, content, posix, stale>>

HasNUL(s) == NUL \in ToSet(s)

Init ==
  /\ backend \in {"ram", "ssh"}
  /\ content = InitContent
  /\ posix = InitContent
  /\ stale = {}

Behind(which) == backend = which /\ UNCHANGED backend
Within(n) == Len(content') <= n /\ Len(posix') <= n

-----------------------------------------------------------------------------
(* filesystem_data.                                                         *)

\* mg_write hands the request to write_file_content and answers `size`.  Only
\* NUL-free data put at or past the end is what POSIX would do.
RamWrite(data, offset) ==
  /\ Behind("ram")
  /\ content' = WriteFileContent(content, data, offset)
  /\ posix' = PosixWrite(posix, data, offset)
  /\ Within(MaxLen)
  /\ stale' = IF stale = {} /\ offset >= Len(posix) /\ ~HasNUL(data)
                THEN {} ELSE stale \cup (offset + 1)..MaxLen

\* mg_truncate hands the request to truncate_file and answers 0.  Cutting the
\* file before the first stale position heals it; an extension is not made.
RamTruncate(new_length) ==
  /\ Behind("ram")
  /\ content' = TruncateFile(content, new_length)
  /\ posix' = PosixTruncate(posix, new_length)
  /\ stale' = IF stale = {} /\ new_length > Len(posix) THEN (Len(posix) + 1)..MaxLen
              ELSE IF stale \cap 1..new_length = {} THEN {}
              ELSE stale

-----------------------------------------------------------------------------
(* ssh_backend.                                                             *)

\* What sftp_seek and sftp_write leave; a write of nothing does not even pad.
SftpWrite(text, taken, offset) ==
  IF taken = <<>> THEN text ELSE PosixWrite(text, taken, offset)

\* Mutated form: the seek is forgotten.
WritesAtStart(data, offset, n) ==
  /\ Behind("ssh")
  /\ content' = SftpWrite(content, SubSeq(data, 1, n), 0)
  /\ posix' = PosixWrite(posix, data, offset)
  /\ Within(MaxLen)
  /\ stale' = (stale \ (offset + 1)..(offset + n)) \cup (offset + n + 1)..(offset + Len(data))

\* The server takes the first n bytes; none if it refuses the open, too.  The
\* handler answers `size` in any case.
SshWrite(data, offset, n) ==
  LET sent   == (offset + 1)..(offset + Len(data))
      landed == (offset + 1)..(offset + n)
      unpadded == IF n = 0 THEN (Len(posix) + 1)..offset ELSE {}
  IN  /\ Behind("ssh")
      /\ content' = SftpWrite(content, SubSeq(data, 1, n), offset)
      /\ posix' = PosixWrite(posix, data, offset)
      /\ Within(MaxLen)
      /\ stale' = (stale \cup sent \cup unpadded) \ landed

\* "truncate not implemented", answered with success: old bytes stay where
\* POSIX cuts, and are missing where it pads.
SshTruncate(new_length) ==
  /\ Behind("ssh")
  /\ posix' = PosixTruncate(posix, new_length)
  /\ stale' = stale \cup (new_length + 1)..Len(content) \cup (Len(posix) + 1)..new_length
  /\ UNCHANGED content

-----------------------------------------------------------------------------
Next ==
  \/ \E data \in Data, offset \in 0..MaxLen :
       \/ RamWrite(data, offset)
       \/ \E n \in 0..Len(data) : SshWrite(data, offset, n)
  \/ \E new_length \in 0..MaxLen : RamTruncate(new_length) \/ SshTruncate(new_length)

Spec == Init /\ [][Next]_vars

-----------------------------------------------------------------------------
(* Reading, which changes nothing; MgRead is what the RAM backend answers.  *)

\* Mutated form: the offset is taken as a position in the answer.
SeeksInAnswer(offset, size, short) ==
  LET end  == Min({offset + size, Len(content)})
      text == CString(SubSeq(content, 1, end - short))
  IN  {[ret |-> Len(text), text |-> text]}

\* All that mg_read may answer when the server hands over `short` bytes less
\* than it could: read_file_content copies the bytes read, without terminator,
\* and mg_read counts up to the first NUL, in the copy or behind it.
MgReadSsh(offset, size, short) ==
  LET end  == Min({offset + size, Len(content)})
      read == SubSeq(content, offset + 1, end - short)
      text == CString(read)
      lengths == IF Len(text) < Len(read) THEN {Len(text)}
                 ELSE Len(read)..(Len(read) + Overrun)
  IN  {[ret |-> n, text |-> text] : n \in lengths}

-----------------------------------------------------------------------------
(* Properties.                                                              *)

TypeOK ==
  /\ backend \in {"ram", "ssh"}
  /\ content \in Seq(Byte)
  /\ posix \in Seq(Byte)
  /\ stale \subseteq 1..MaxLen

\* Nothing at i, in both; or the same byte.
SameAt(i) ==
  /\ i \in DOMAIN content <=> i \in DOMAIN posix
  /\ i \in DOMAIN content => content[i] = posix[i]

\* However long the history, the file is the POSIX file but for the positions
\* where it is known to differ.  With the RAM backend appending (`>>`), copying
\* and rewriting after a truncate (`>`) leave it identical, and nothing damages
\* bytes before a write.  With ssh only what a truncate cut or padded, or the
\* server did not take, differs, until a later write covers it.
OnlyStaleDiffers == \A i \in 1..MaxLen : i \in stale \/ SameAt(i)

\* A read that reaches the end of an undamaged text file of the RAM backend has
\* one possible answer, the one read(2) gives: the strcpy of read_file_content,
\* its cut and the strlen of mg_read agree on length and bytes.
ReadToEndIsPosix ==
  \A offset \in 0..Len(content), size \in 1..MaxRead :
    LET wanted == PosixRead(posix, offset, size) IN
    backend = "ram" /\ stale = {} /\ ~HasNUL(content) /\ offset + size > Len(content) =>
      MgRead(content, offset, size) = {[ret |-> Len(wanted), text |-> wanted]}

Answers(offset, size, short) ==
  IF backend = "ram" THEN MgRead(content, offset, size) ELSE MgReadSsh(offset, size, short)

\* Whatever strlen counts behind the buffer of either backend, the bytes mg_read
\* answers from the file are those read(2) answers, from the first on, also when
\* offsets lie behind the end; with ssh it leaves some out only at a NUL byte or
\* if the server handed over less.
ReadsPrefix ==
  \A offset \in 0..MaxLen, size \in 1..MaxRead : \A short \in 0..1 :
    LET wanted == PosixRead(posix, offset, size) IN
    stale \cap (offset + 1)..(offset + size) = {} =>
      \A answer \in Answers(offset, size, short) :
        /\ IsPrefix(answer.text, wanted)
        /\ backend = "ssh" /\ short = 0 /\ answer.ret < Len(wanted)
             => wanted[answer.ret + 1] = NUL
=============================================================================
