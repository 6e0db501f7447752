---------------------------- MODULE ContentLemmas ----------------------------
(***************************************************************************)
(* The operators of RamContent position by position: which byte stands     *)
(* where after write_file_content, truncate_file and the POSIX operations  *)
(* beside them, for contents of every length.                              *)
(***************************************************************************)
EXTENDS RamContent, VectorLemmas

\* A C string function sees the bytes before the first NUL.
LEMMA CStringProperties ==
  ASSUME NEW s \in Seq(Byte)
  PROVE  /\ CString(s) \in Seq(Byte)
         /\ Len(CString(s)) <= Len(s)
         /\ \A i \in 1..Len(CString(s)) : CString(s)[i] = s[i]
         /\ Len(CString(s)) < Len(s) => s[Len(CString(s)) + 1] = NUL
<1> DEFINE terminators == {i \in 1..Len(s) : s[i] = NUL}
<1>1. Len(s) \in Nat
  BY LenProperties
<1>2. CASE terminators = {}
  BY <1>1, <1>2 DEF CString
<1>3. CASE terminators # {}
  <2> DEFINE first == Min(terminators)
  <2>1. CString(s) = SubSeq(s, 1, first - 1)
    BY <1>3 DEF CString
  <2>2. terminators \in SUBSET Nat
    BY <1>1
  <2>3. first \in terminators
    BY <1>3, <2>2, MinProperties
  <2>4. first \in 1..Len(s) /\ s[first] = NUL
    BY <2>3
  <2> HIDE DEF first
  <2>5. /\ SubSeq(s, 1, first - 1) \in Seq(Byte)
        /\ Len(SubSeq(s, 1, first - 1)) = first - 1
        /\ \A i \in 1..(first - 1) : SubSeq(s, 1, first - 1)[i] = s[i]
    BY <1>1, <2>4, SliceProperties
  <2> QED
    BY <1>1, <2>1, <2>4, <2>5
<1> QED
  BY <1>2, <1>3

\* A text without a NUL is seen as a whole.
LEMMA CStringOfText ==
  ASSUME NEW s \in Seq(Byte), NUL \notin ToSet(s)
  PROVE  CString(s) = s
<1>1. {i \in 1..Len(s) : s[i] = NUL} = {}
  BY LenProperties DEF ToSet
<1> QED
  BY <1>1 DEF CString

\* resize pads with NUL bytes, and never shortens here.
LEMMA PaddedToProperties ==
  ASSUME NEW s \in Seq(Byte), NEW offset \in Nat
  PROVE  /\ PaddedTo(s, offset) \in Seq(Byte)
         /\ Len(PaddedTo(s, offset)) = IF offset > Len(s) THEN offset ELSE Len(s)
         /\ \A i \in 1..Len(PaddedTo(s, offset)) :
              PaddedTo(s, offset)[i] = IF i <= Len(s) THEN s[i] ELSE NUL
<1>1. Len(s) \in Nat
  BY LenProperties
<1>2. CASE offset > Len(s)
  <2> DEFINE tail == NULs(offset - Len(s))
  <2>1. offset - Len(s) \in Nat
    BY <1>1, <1>2
  <2>2. /\ tail \in Seq(Byte) /\ Len(tail) = offset - Len(s)
        /\ \A i \in 1..(offset - Len(s)) : tail[i] = NUL
    BY <2>1, ByteAssumption DEF NULs
  <2>3. PaddedTo(s, offset) = s \o tail
    BY <1>2 DEF PaddedTo
  <2> HIDE DEF tail
  <2>4. /\ s \o tail \in Seq(Byte) /\ Len(s \o tail) = offset
        /\ \A i \in 1..offset : (s \o tail)[i] = IF i <= Len(s) THEN s[i] ELSE tail[i - Len(s)]
    BY <1>1, <2>2, ConcatProperties
  <2> QED
    BY <1>1, <1>2, <2>2, <2>3, <2>4
<1>3. CASE ~(offset > Len(s))
  BY <1>1, <1>3 DEF PaddedTo
<1> QED
  BY <1>2, <1>3

\* Three parts in a row, as write_file_content and write(2) put them together.
LEMMA JoinedProperties ==
  ASSUME NEW a \in Seq(Byte), NEW b \in Seq(Byte), NEW c \in Seq(Byte)
  PROVE  /\ a \o b \o c \in Seq(Byte)
         /\ Len(a \o b \o c) = Len(a) + Len(b) + Len(c)
         /\ \A i \in 1..Len(a \o b \o c) :
              (a \o b \o c)[i] = IF i <= Len(a) THEN a[i]
                                 ELSE IF i <= Len(a) + Len(b) THEN b[i - Len(a)]
                                 ELSE c[i - Len(a) - Len(b)]
<1>1. Len(a) \in Nat /\ Len(b) \in Nat /\ Len(c) \in Nat
  BY LenProperties
<1>2. /\ a \o b \in Seq(Byte) /\ Len(a \o b) = Len(a) + Len(b)
      /\ \A i \in 1..(Len(a) + Len(b)) : (a \o b)[i] = IF i <= Len(a) THEN a[i] ELSE b[i - Len(a)]
  BY ConcatProperties
<1> DEFINE ab == a \o b
<1> HIDE DEF ab
<1>3. /\ ab \o c \in Seq(Byte) /\ Len(ab \o c) = Len(ab) + Len(c)
      /\ \A i \in 1..(Len(ab) + Len(c)) : (ab \o c)[i] = IF i <= Len(ab) THEN ab[i] ELSE c[i - Len(ab)]
  BY <1>2, ConcatProperties DEF ab
<1> QED
  BY <1>1, <1>2, <1>3 DEF ab

\* write_file_content pads up to the offset and moves what lies behind it.
LEMMA WriteFileContentProperties ==
  ASSUME NEW s \in Seq(Byte), NEW data \in Seq(Byte), NEW offset \in Nat
  PROVE  LET written == WriteFileContent(s, data, offset)
             padded  == PaddedTo(s, offset)
             text    == CString(data)
         IN  /\ written \in Seq(Byte)
             /\ Len(written) = Len(padded) + Len(text)
             /\ \A i \in 1..Len(written) :
                  written[i] = IF i <= offset THEN padded[i]
                               ELSE IF i <= offset + Len(text) THEN text[i - offset]
                               ELSE padded[i - Len(text)]
<1> DEFINE padded == PaddedTo(s, offset)
           text   == CString(data)
           before == SubSeq(padded, 1, offset)
           behind == SubSeq(padded, offset + 1, Len(padded))
<1>1. padded \in Seq(Byte) /\ Len(padded) \in Nat /\ offset <= Len(padded)
  BY PaddedToProperties, LenProperties
<1>2. text \in Seq(Byte) /\ Len(text) \in Nat
  BY CStringProperties, LenProperties
<1>3. WriteFileContent(s, data, offset) = before \o text \o behind
  BY DEF WriteFileContent
<1> HIDE DEF padded, text
<1>4. /\ before \in Seq(Byte) /\ Len(before) = offset
      /\ \A i \in 1..offset : before[i] = padded[i]
  BY <1>1, SliceProperties
<1>5. /\ behind \in Seq(Byte) /\ Len(behind) = Len(padded) - offset
      /\ \A i \in 1..(Len(padded) - offset) : behind[i] = padded[offset + i]
  BY <1>1, SliceProperties
<1> HIDE DEF before, behind
<1> DEFINE whole == before \o text \o behind
<1>6. /\ whole \in Seq(Byte)
      /\ Len(whole) = Len(padded) + Len(text)
      /\ \A i \in 1..Len(whole) :
           whole[i] = IF i <= offset THEN before[i]
                      ELSE IF i <= offset + Len(text) THEN text[i - offset]
                      ELSE behind[i - offset - Len(text)]
  <2>1. /\ whole \in Seq(Byte)
        /\ Len(whole) = Len(before) + Len(text) + Len(behind)
        /\ \A i \in 1..Len(whole) :
             whole[i] = IF i <= Len(before) THEN before[i]
                        ELSE IF i <= Len(before) + Len(text) THEN text[i - Len(before)]
                        ELSE behind[i - Len(before) - Len(text)]
    BY <1>2, <1>4, <1>5, JoinedProperties
  <2> HIDE DEF whole
  <2>2. Len(whole) = Len(padded) + Len(text)
    BY <1>1, <1>2, <1>4, <1>5, <2>1
  <2>3. ASSUME NEW i \in 1..Len(whole)
        PROVE  whole[i] = IF i <= offset THEN before[i]
                          ELSE IF i <= offset + Len(text) THEN text[i - offset]
                          ELSE behind[i - offset - Len(text)]
    BY <1>4, <2>1
  <2> QED
    BY <2>1, <2>2, <2>3
<1>7. ASSUME NEW i \in 1..(Len(padded) + Len(text)), i > offset, i > offset + Len(text)
      PROVE  behind[i - offset - Len(text)] = padded[i - Len(text)]
  <2>1. i - offset - Len(text) \in 1..(Len(padded) - offset)
    BY <1>1, <1>2, <1>7
  <2>2. offset + (i - offset - Len(text)) = i - Len(text)
    BY <1>1, <1>2
  <2> QED
    BY <1>5, <2>1, <2>2
<1>8. ASSUME NEW i \in 1..Len(whole)
      PROVE  whole[i] = IF i <= offset THEN padded[i]
                        ELSE IF i <= offset + Len(text) THEN text[i - offset]
                        ELSE padded[i - Len(text)]
  <2>1. CASE i <= offset
    BY <1>4, <1>6, <2>1
  <2>2. CASE i > offset /\ i <= offset + Len(text)
    BY <1>6, <2>2
  <2>3. CASE i > offset /\ i > offset + Len(text)
    BY <1>1, <1>2, <1>6, <1>7, <2>3
  <2> QED
    BY <1>1, <1>2, <2>1, <2>2, <2>3
<1> HIDE DEF whole
<1>9. WriteFileContent(s, data, offset) = whole
  BY <1>3 DEF whole
<1> QED
  BY <1>6, <1>8, <1>9 DEF padded, text

\* truncate_file keeps the bytes up to the new length.
LEMMA TruncateFileProperties ==
  ASSUME NEW s \in Seq(Byte), NEW new_length \in Nat
  PROVE  LET cut == TruncateFile(s, new_length)
         IN  /\ cut \in Seq(Byte)
             /\ Len(cut) = IF new_length <= Len(s) THEN new_length ELSE Len(s)
             /\ \A i \in 1..Len(cut) : cut[i] = s[i]
<1> DEFINE end == Min({new_length, Len(s)})
<1>1. Len(s) \in Nat
  BY LenProperties
<1>2. end = IF new_length <= Len(s) THEN new_length ELSE Len(s)
  BY <1>1, MinOfTwo
<1>3. TruncateFile(s, new_length) = SubSeq(s, 1, end)
  BY DEF TruncateFile
<1> HIDE DEF end
<1>4. /\ SubSeq(s, 1, end) \in Seq(Byte) /\ Len(SubSeq(s, 1, end)) = end
      /\ \A i \in 1..end : SubSeq(s, 1, end)[i] = s[i]
  BY <1>1, <1>2, SliceProperties
<1> QED
  BY <1>2, <1>3, <1>4

\* write(2) pads up to the offset and overwrites what lies behind it.
LEMMA PosixWriteProperties ==
  ASSUME NEW s \in Seq(Byte), NEW data \in Seq(Byte), NEW offset \in Nat
  PROVE  LET written == PosixWrite(s, data, offset)
             padded  == PaddedTo(s, offset)
             end     == offset + Len(data)
         IN  /\ written \in Seq(Byte)
             /\ Len(written) = IF end > Len(padded) THEN end ELSE Len(padded)
             /\ \A i \in 1..Len(written) :
                  written[i] = IF i <= offset THEN padded[i]
                               ELSE IF i <= end THEN data[i - offset]
                               ELSE padded[i]
<1> DEFINE padded == PaddedTo(s, offset)
           before == SubSeq(padded, 1, offset)
           behind == SubSeq(padded, offset + Len(data) + 1, Len(padded))
           end    == offset + Len(data)
           size   == IF end > Len(padded) THEN end ELSE Len(padded)
<1>1. padded \in Seq(Byte) /\ Len(padded) \in Nat /\ offset <= Len(padded) /\ Len(data) \in Nat
  BY PaddedToProperties, LenProperties
<1>2. PosixWrite(s, data, offset) = before \o data \o behind
  BY DEF PosixWrite
<1> HIDE DEF padded
<1>3. /\ before \in Seq(Byte) /\ Len(before) = offset
      /\ \A i \in 1..offset : before[i] = padded[i]
  BY <1>1, SliceProperties
<1>4. /\ behind \in Seq(Byte) /\ Len(behind) = size - end
      /\ \A i \in 1..(Len(padded) - end) : behind[i] = padded[end + i]
  <2>1. end + 1 \in Nat \ {0} /\ Len(padded) - (end + 1) + 1 = Len(padded) - end
    BY <1>1
  <2> QED
    BY <1>1, <2>1, SliceProperties
<1> HIDE DEF before, behind
<1> DEFINE whole == before \o data \o behind
<1>5. /\ whole \in Seq(Byte)
      /\ Len(whole) = size
      /\ \A i \in 1..Len(whole) :
           whole[i] = IF i <= offset THEN before[i]
                      ELSE IF i <= end THEN data[i - offset]
                      ELSE behind[i - offset - Len(data)]
  <2>1. /\ whole \in Seq(Byte)
        /\ Len(whole) = Len(before) + Len(data) + Len(behind)
        /\ \A i \in 1..Len(whole) :
             whole[i] = IF i <= Len(before) THEN before[i]
                        ELSE IF i <= Len(before) + Len(data) THEN data[i - Len(before)]
                        ELSE behind[i - Len(before) - Len(data)]
    BY <1>3, <1>4, JoinedProperties
  <2> HIDE DEF whole
  <2>2. Len(whole) = size
    <3> HIDE DEF size
    <3>1. size \in Nat
      BY <1>1 DEF size
    <3> QED
      BY <1>1, <1>3, <1>4, <2>1, <3>1
  <2>3. ASSUME NEW i \in 1..Len(whole)
        PROVE  whole[i] = IF i <= offset THEN before[i]
                          ELSE IF i <= end THEN data[i - offset]
                          ELSE behind[i - offset - Len(data)]
    BY <1>3, <2>1
  <2> QED
    BY <2>1, <2>2, <2>3
<1>6. ASSUME NEW i \in 1..size, i > end
      PROVE  behind[i - offset - Len(data)] = padded[i]
  <2>1. i - offset - Len(data) \in 1..(Len(padded) - end) /\ end + (i - offset - Len(data)) = i
    BY <1>1, <1>6
  <2> QED
    BY <1>4, <2>1
<1>7. ASSUME NEW i \in 1..Len(whole)
      PROVE  whole[i] = IF i <= offset THEN padded[i]
                        ELSE IF i <= end THEN data[i - offset] ELSE padded[i]
  <2>1. CASE i <= offset
    BY <1>3, <1>5, <2>1
  <2>2. CASE i > offset /\ i <= end
    BY <1>5, <2>2
  <2>3. CASE i > offset /\ i > end
    <3>1. whole[i] = behind[i - offset - Len(data)]
      BY <1>1, <1>5, <2>3
    <3>2. i \in 1..size
      BY <1>5
    <3> HIDE DEF whole
    <3>3. behind[i - offset - Len(data)] = padded[i]
      BY <1>6, <2>3, <3>2
    <3> QED
      BY <1>1, <2>3, <3>1, <3>3
  <2> QED
    BY <1>1, <2>1, <2>2, <2>3
<1> HIDE DEF whole
<1>8. PosixWrite(s, data, offset) = whole
  BY <1>2 DEF whole
<1> QED
  BY <1>5, <1>7, <1>8 DEF padded

\* ftruncate(2) cuts, or pads with NUL bytes.
LEMMA PosixTruncateProperties ==
  ASSUME NEW s \in Seq(Byte), NEW new_length \in Nat
  PROVE  LET cut == PosixTruncate(s, new_length)
         IN  /\ cut \in Seq(Byte)
             /\ Len(cut) = new_length
             /\ \A i \in 1..new_length : cut[i] = IF i <= Len(s) THEN s[i] ELSE NUL
<1> DEFINE padded == PaddedTo(s, new_length)
<1>1. /\ padded \in Seq(Byte) /\ Len(padded) \in Nat /\ new_length <= Len(padded)
      /\ \A i \in 1..Len(padded) : padded[i] = IF i <= Len(s) THEN s[i] ELSE NUL
  BY PaddedToProperties, LenProperties
<1>2. PosixTruncate(s, new_length) = SubSeq(padded, 1, new_length)
  BY DEF PosixTruncate
<1> HIDE DEF padded
<1>3. /\ SubSeq(padded, 1, new_length) \in Seq(Byte) /\ Len(SubSeq(padded, 1, new_length)) = new_length
      /\ \A i \in 1..new_length : SubSeq(padded, 1, new_length)[i] = padded[i]
  BY <1>1, SliceProperties
<1> QED
  BY <1>1, <1>2, <1>3
=============================================================================
