----------------------------- MODULE RamContent -----------------------------
(***************************************************************************)
(* What the RAM backend does to the bytes of one file: the string          *)
(* operations inside filesystem_data::write_file_content, ::truncate_file  *)
(* and ::read_file_content, together with the part of mg_read that turns   *)
(* the returned buffer into an answer.  A content is a sequence of bytes;  *)
(* of a byte only "is it the terminator NUL" matters.  Beside each stands  *)
(* the POSIX operation a client of the mount expects.                      *)
(***************************************************************************)
EXTENDS SequencesExt

CONSTANTS
  Byte,     \* the bytes a client writes
  NUL,      \* the C string terminator, one of them
  Overrun   \* bound: how far strlen may run past an unterminated buffer

ASSUME ByteAssumption == NUL \in Byte
ASSUME OverrunAssumption == Overrun \in Nat

\* The text a C string function sees: everything before the first NUL.
CString(s) ==
  LET terminators == {i \in 1..Len(s) : s[i] = NUL}
  IN  IF terminators = {} THEN s ELSE SubSeq(s, 1, Min(terminators) - 1)

\* Mutated form: padding that is none of the client's bytes.
Blanks(n) == [i \in 1..n |-> " "]

NULs(n) == [i \in 1..n |-> NUL]

\* content.resize(offset), which only ever grows the string here.
PaddedTo(content, offset) ==
  IF offset > Len(content) THEN content \o NULs(offset - Len(content)) ELSE content

\* Mutated form: the insertion point is one byte early.
InsertsOneEarly(content, data, offset) ==
  LET padded == PaddedTo(content, offset)
      at     == IF offset > 0 THEN offset - 1 ELSE 0
  IN  SubSeq(padded, 1, at) \o CString(data) \o SubSeq(padded, at + 1, Len(padded))

\* The data goes through std::string(const char* ), so it ends at its first
\* NUL, and std::string::insert moves the bytes from offset on to the right.
WriteFileContent(content, data, offset) ==
  LET padded == PaddedTo(content, offset)
  IN  SubSeq(padded, 1, offset) \o CString(data) \o SubSeq(padded, offset + 1, Len(padded))

\* content.substr(0, new_length) can shorten a file, never lengthen it.
TruncateFile(content, new_length) ==
  SubSeq(content, 1, Min({new_length, Len(content)}))

\* Mutated form: `size` bytes are copied first and the offset taken in those.
CutsBeforeOffset(content, offset, size) ==
  LET text == SubSeq(CString(content), offset + 1, Min({size, Len(CString(content))}))
  IN  {[ret |-> Len(text), text |-> text]}

\* read_file_content copies the content with strcpy and cuts `size` bytes out
\* at `offset`; mg_read answers strlen of the cut.  The strlen is defined only
\* if the terminator lies in the cut; otherwise it depends on the heap.
\* `text` is the part of the answer the copy defines.
MgRead(content, offset, size) ==
  LET copied == CString(content)
      end    == offset + size
      text   == SubSeq(copied, offset + 1, Min({end, Len(copied)}))
      Answers(lengths) == {[ret |-> n, text |-> text] : n \in lengths}
  IN  IF offset > Len(copied) THEN Answers(0..(size + Overrun))
      ELSE IF end > Len(copied) THEN Answers({Len(text)})
      ELSE Answers(size..(size + Overrun))

-----------------------------------------------------------------------------
\* write(2), ftruncate(2) and read(2) on a regular file.
PosixWrite(content, data, offset) ==
  LET padded == PaddedTo(content, offset)
  IN  SubSeq(padded, 1, offset) \o data
        \o SubSeq(padded, offset + Len(data) + 1, Len(padded))

PosixTruncate(content, new_length) ==
  SubSeq(PaddedTo(content, new_length), 1, new_length)

PosixRead(content, offset, size) ==
  SubSeq(content, offset + 1, Min({offset + size, Len(content)}))
=============================================================================
