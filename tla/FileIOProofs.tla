---------------------------- MODULE FileIOProofs -----------------------------
(***************************************************************************)
(* Proofs about FileIO, for every set of buffers, every first content and  *)
(* every bound: after every history of writes and truncates the file is    *)
(* the POSIX file but at the stale positions, and what a read answers is   *)
(* as described.  The history variable needs a shape of its own: with the  *)
(* RAM backend the stale positions are none, or all from one on that lies  *)
(* at most one behind the POSIX file.  Without it a truncate in front of   *)
(* them could not be known to heal the file.                               *)
(***************************************************************************)
EXTENDS FileIO, ContentLemmas

\* Two contents hold nothing at i, both; or the same byte.
Same(c, p, i) ==
  /\ i <= Len(c) <=> i <= Len(p)
  /\ i <= Len(c) => c[i] = p[i]

AgreeBut(c, p, s) == \A i \in 1..MaxLen : i \in s \/ Same(c, p, i)

NoneOrTail(p, s) == s = {} \/ \E k \in 1..(Len(p) + 1) : s = k..MaxLen

Fits == Len(content) <= MaxLen /\ Len(posix) <= MaxLen

TailStale == backend = "ram" => NoneOrTail(posix, stale)

IInv == TypeOK /\ Fits /\ TailStale /\ AgreeBut(content, posix, stale)

\* What the two contents and the bounds are made of.
LEMMA Known ==
  ASSUME TypeOK
  PROVE  /\ content \in Seq(Byte) /\ Len(content) \in Nat /\ DOMAIN content = 1..Len(content)
         /\ posix \in Seq(Byte) /\ Len(posix) \in Nat /\ DOMAIN posix = 1..Len(posix)
         /\ MaxLen \in Nat /\ MaxRead \in Nat
BY LenProperties, DataAssumption DEF TypeOK

-----------------------------------------------------------------------------
(* The requests, position by position.                                      *)

\* What both operations pad with before the offset stays alike.
LEMMA PaddedAlike ==
  ASSUME NEW c \in Seq(Byte), NEW p \in Seq(Byte), NEW offset \in Nat, NEW i \in 1..offset,
         Same(c, p, i)
  PROVE  PaddedTo(c, offset)[i] = PaddedTo(p, offset)[i]
<1>1. /\ i <= Len(PaddedTo(c, offset)) /\ i <= Len(PaddedTo(p, offset))
      /\ PaddedTo(c, offset)[i] = IF i <= Len(c) THEN c[i] ELSE NUL
      /\ PaddedTo(p, offset)[i] = IF i <= Len(p) THEN p[i] ELSE NUL
  <2>1. Len(c) \in Nat /\ Len(p) \in Nat
    BY LenProperties
  <2>2. i <= Len(PaddedTo(c, offset)) /\ i <= Len(PaddedTo(p, offset))
    BY <2>1, PaddedToProperties
  <2>3. i \in 1..Len(PaddedTo(c, offset)) /\ i \in 1..Len(PaddedTo(p, offset))
    BY <2>1, <2>2, PaddedToProperties
  <2> QED
    BY <2>2, <2>3, PaddedToProperties
<1> QED
  BY <1>1 DEF Same

\* Inserting and overwriting leave what lies before the offset alike.
LEMMA BeforeOffsetAlike ==
  ASSUME NEW c \in Seq(Byte), NEW p \in Seq(Byte), NEW data \in Seq(Byte),
         NEW offset \in Nat, NEW i \in 1..offset, Same(c, p, i)
  PROVE  Same(WriteFileContent(c, data, offset), PosixWrite(p, data, offset), i)
<1> DEFINE cc == WriteFileContent(c, data, offset)
           pp == PosixWrite(p, data, offset)
<1>1. /\ cc \in Seq(Byte) /\ Len(cc) = Len(PaddedTo(c, offset)) + Len(CString(data))
      /\ \A j \in 1..Len(cc) : j <= offset => cc[j] = PaddedTo(c, offset)[j]
  BY WriteFileContentProperties
<1>2. /\ pp \in Seq(Byte) /\ Len(PaddedTo(p, offset)) <= Len(pp)
      /\ \A j \in 1..Len(pp) : j <= offset => pp[j] = PaddedTo(p, offset)[j]
  <2>1. Len(PaddedTo(p, offset)) \in Nat /\ Len(data) \in Nat
    BY PaddedToProperties, LenProperties
  <2> DEFINE size == Len(PaddedTo(p, offset))
             end  == offset + Len(data)
  <2>2. pp \in Seq(Byte) /\ Len(pp) = IF end > size THEN end ELSE size
    BY PosixWriteProperties
  <2>3. \A j \in 1..Len(pp) : j <= offset => pp[j] = PaddedTo(p, offset)[j]
    BY PosixWriteProperties
  <2> HIDE DEF pp
  <2> QED
    BY <2>1, <2>2, <2>3
<1>3. /\ Len(PaddedTo(c, offset)) \in Nat /\ offset <= Len(PaddedTo(c, offset))
      /\ Len(PaddedTo(p, offset)) \in Nat /\ offset <= Len(PaddedTo(p, offset))
      /\ Len(CString(data)) \in Nat
  BY PaddedToProperties, CStringProperties, LenProperties
<1> HIDE DEF cc, pp
<1>4. Len(cc) \in Nat /\ Len(pp) \in Nat
  BY <1>1, <1>2, LenProperties
<1>5. i \in 1..Len(cc) /\ i \in 1..Len(pp)
  BY <1>1, <1>2, <1>3, <1>4
<1>6. cc[i] = pp[i]
  BY <1>1, <1>2, <1>5, PaddedAlike
<1>7. Same(cc, pp, i)
  BY <1>5, <1>6 DEF Same
<1> QED
  BY <1>7 DEF cc, pp

\* Where two contents agree at every position they are the same.
LEMMA AlikeIsEqual ==
  ASSUME NEW c \in Seq(Byte), NEW p \in Seq(Byte), Len(c) <= MaxLen, Len(p) <= MaxLen,
         AgreeBut(c, p, {})
  PROVE  c = p
<1>1. Len(c) \in Nat /\ Len(p) \in Nat /\ MaxLen \in Nat
  BY LenProperties, DataAssumption
<1>2. \A i \in 1..MaxLen : Same(c, p, i)
  BY DEF AgreeBut
<1>3. Len(c) = Len(p)
  <2>1. CASE Len(c) < Len(p)
    <3>1. Len(p) \in 1..MaxLen
      BY <1>1, <2>1
    <3> QED
      BY <1>1, <1>2, <2>1, <3>1 DEF Same
  <2>2. CASE Len(p) < Len(c)
    <3>1. Len(c) \in 1..MaxLen
      BY <1>1, <2>2
    <3> QED
      BY <1>1, <1>2, <2>2, <3>1 DEF Same
  <2> QED
    BY <1>1, <2>1, <2>2
<1>4. \A i \in 1..Len(c) : c[i] = p[i]
  BY <1>1, <1>2 DEF Same
<1> QED
  BY <1>3, <1>4, SeqEqual

\* Text put at or behind the end: inserting is overwriting.
LEMMA AppendingIsPosix ==
  ASSUME NEW c \in Seq(Byte), NEW data \in Seq(Byte), NEW offset \in Nat,
         offset >= Len(c), ~HasNUL(data)
  PROVE  WriteFileContent(c, data, offset) = PosixWrite(c, data, offset)
<1> DEFINE cc == WriteFileContent(c, data, offset)
           pp == PosixWrite(c, data, offset)
           padded == PaddedTo(c, offset)
<1>1. CString(data) = data
  BY CStringOfText DEF HasNUL
<1>2. Len(padded) = offset /\ Len(data) \in Nat /\ Len(c) \in Nat
  BY PaddedToProperties, LenProperties
<1>3. /\ cc \in Seq(Byte) /\ Len(cc) = Len(padded) + Len(data)
      /\ \A i \in 1..Len(cc) :
           cc[i] = IF i <= offset THEN padded[i]
                   ELSE IF i <= offset + Len(data) THEN data[i - offset] ELSE padded[i - Len(data)]
  <2> DEFINE text == CString(data)
  <2>1. /\ cc \in Seq(Byte) /\ Len(cc) = Len(padded) + Len(text)
        /\ \A i \in 1..Len(cc) :
             cc[i] = IF i <= offset THEN padded[i]
                     ELSE IF i <= offset + Len(text) THEN text[i - offset] ELSE padded[i - Len(text)]
    BY WriteFileContentProperties
  <2> HIDE DEF cc, padded
  <2> QED
    BY <1>1, <2>1
<1>4. /\ pp \in Seq(Byte)
      /\ Len(pp) = IF offset + Len(data) > Len(padded) THEN offset + Len(data) ELSE Len(padded)
      /\ \A i \in 1..Len(pp) :
           pp[i] = IF i <= offset THEN padded[i]
                   ELSE IF i <= offset + Len(data) THEN data[i - offset] ELSE padded[i]
  BY PosixWriteProperties
<1> HIDE DEF cc, pp, padded
<1>5. Len(cc) = Len(pp) /\ Len(cc) = offset + Len(data)
  BY <1>2, <1>3, <1>4
<1>6. \A i \in 1..Len(cc) : cc[i] = pp[i]
  <2> SUFFICES ASSUME NEW i \in 1..Len(cc) PROVE cc[i] = pp[i]
    OBVIOUS
  <2>1. i \in 1..Len(pp) /\ i <= offset + Len(data)
    BY <1>2, <1>5
  <2> QED
    BY <1>2, <1>3, <1>4, <2>1
<1>7. cc = pp
  BY <1>3, <1>4, <1>5, <1>6, SeqEqual
<1> QED
  BY <1>7 DEF cc, pp

-----------------------------------------------------------------------------
(* One lemma per request.                                                   *)

\* A write to the RAM backend: text appended keeps the file whole; anything
\* else spoils it from the offset on, and leaves it alone before.
LEMMA RamWriteStep ==
  ASSUME IInv, NEW data \in Data, NEW offset \in 0..MaxLen, RamWrite(data, offset)
  PROVE  /\ TypeOK' /\ Fits'
         /\ NoneOrTail(posix', stale')
         /\ AgreeBut(content', posix', stale')
<1>1. /\ TypeOK /\ Fits /\ backend = "ram" /\ backend' = "ram"
      /\ NoneOrTail(posix, stale) /\ AgreeBut(content, posix, stale)
      /\ data \in Seq(Byte) /\ offset \in Nat /\ offset <= MaxLen /\ MaxLen \in Nat
  BY DataAssumption DEF IInv, RamWrite, Behind, TailStale
<1>2. /\ content \in Seq(Byte) /\ Len(content) \in Nat
      /\ posix \in Seq(Byte) /\ Len(posix) \in Nat
      /\ stale \subseteq 1..MaxLen
  BY <1>1, Known DEF TypeOK
<1>3. /\ content' = WriteFileContent(content, data, offset)
      /\ posix' = PosixWrite(posix, data, offset)
      /\ Len(content') <= MaxLen /\ Len(posix') <= MaxLen
      /\ stale' = IF stale = {} /\ offset >= Len(posix) /\ ~HasNUL(data)
                    THEN {} ELSE stale \cup (offset + 1)..MaxLen
  BY DEF RamWrite, Within
<1>4. content' \in Seq(Byte) /\ posix' \in Seq(Byte)
  BY <1>1, <1>2, <1>3, WriteFileContentProperties, PosixWriteProperties
<1>5. Len(posix) <= Len(posix') /\ offset <= Len(posix') /\ Len(posix') \in Nat
  <2> DEFINE size == Len(PaddedTo(posix, offset))
             end  == offset + Len(data)
  <2>1. size \in Nat /\ Len(posix) <= size /\ offset <= size /\ Len(data) \in Nat
    BY <1>1, <1>2, PaddedToProperties, LenProperties
  <2>2. Len(posix') = IF end > size THEN end ELSE size
    BY <1>1, <1>2, <1>3, PosixWriteProperties
  <2> HIDE DEF size
  <2> QED
    BY <1>1, <2>1, <2>2
<1>6. CASE stale = {} /\ offset >= Len(posix) /\ ~HasNUL(data)
  <2>1. stale' = {}
    BY <1>3, <1>6
  <2>2. content = posix
    BY <1>1, <1>2, <1>6, AlikeIsEqual DEF Fits
  <2>3. content' = posix'
    BY <1>1, <1>2, <1>3, <1>6, <2>2, AppendingIsPosix
  <2>4. AgreeBut(content', posix', stale')
    BY <2>3 DEF AgreeBut, Same
  <2> QED
    BY <1>1, <1>3, <1>4, <2>1, <2>4 DEF TypeOK, Fits, NoneOrTail
<1>7. CASE ~(stale = {} /\ offset >= Len(posix) /\ ~HasNUL(data))
  <2>1. stale' = stale \cup (offset + 1)..MaxLen
    BY <1>3, <1>7
  <2>2. stale' \subseteq 1..MaxLen
    BY <1>1, <1>2, <2>1
  <2>3. NoneOrTail(posix', stale')
    <3>1. CASE stale = {}
      <4>1. offset + 1 \in 1..(Len(posix') + 1) /\ stale' = (offset + 1)..MaxLen
        BY <1>1, <1>5, <2>1, <3>1
      <4> QED
        BY <4>1 DEF NoneOrTail
    <3>2. CASE \E k \in 1..(Len(posix) + 1) : stale = k..MaxLen
      <4>1. PICK k \in 1..(Len(posix) + 1) : stale = k..MaxLen
        BY <3>2
      <4> DEFINE first == IF k <= offset THEN k ELSE offset + 1
      <4>2. first \in 1..(Len(posix') + 1)
        BY <1>1, <1>2, <1>5
      <4>3. stale' = first..MaxLen
        BY <1>1, <2>1, <4>1
      <4> QED
        BY <4>2, <4>3 DEF NoneOrTail
    <3> QED
      BY <1>1, <3>1, <3>2 DEF NoneOrTail
  <2>4. AgreeBut(content', posix', stale')
    <3> SUFFICES ASSUME NEW i \in 1..MaxLen, i \notin stale'
                 PROVE  Same(content', posix', i)
      BY DEF AgreeBut
    <3>1. i \in 1..offset /\ i \notin stale
      BY <1>1, <2>1
    <3>2. Same(content, posix, i)
      BY <1>1, <3>1 DEF AgreeBut
    <3> QED
      BY <1>1, <1>2, <1>3, <3>1, <3>2, BeforeOffsetAlike
  <2> QED
    BY <1>1, <1>3, <1>4, <2>2, <2>3, <2>4 DEF TypeOK, Fits
<1> QED
  BY <1>6, <1>7

\* A truncate of the RAM backend: in front of the stale positions it heals the
\* file, behind the end the padding is missing.
LEMMA RamTruncateStep ==
  ASSUME IInv, NEW new_length \in 0..MaxLen, RamTruncate(new_length)
  PROVE  /\ TypeOK' /\ Fits'
         /\ NoneOrTail(posix', stale')
         /\ AgreeBut(content', posix', stale')
<1>1. /\ TypeOK /\ Fits /\ backend = "ram" /\ backend' = "ram"
      /\ NoneOrTail(posix, stale) /\ AgreeBut(content, posix, stale)
      /\ new_length \in Nat /\ new_length <= MaxLen /\ MaxLen \in Nat
  BY DataAssumption DEF IInv, RamTruncate, Behind, TailStale
<1>2. /\ content \in Seq(Byte) /\ Len(content) \in Nat /\ Len(content) <= MaxLen
      /\ posix \in Seq(Byte) /\ Len(posix) \in Nat
      /\ stale \subseteq 1..MaxLen
  BY <1>1, Known DEF TypeOK, Fits
<1>3. /\ content' = TruncateFile(content, new_length)
      /\ posix' = PosixTruncate(posix, new_length)
      /\ stale' = IF stale = {} /\ new_length > Len(posix) THEN (Len(posix) + 1)..MaxLen
                  ELSE IF stale \cap 1..new_length = {} THEN {}
                  ELSE stale
  BY DEF RamTruncate
<1>4. /\ content' \in Seq(Byte)
      /\ Len(content') = IF new_length <= Len(content) THEN new_length ELSE Len(content)
      /\ \A i \in 1..Len(content') : content'[i] = content[i]
  BY <1>1, <1>2, <1>3, TruncateFileProperties
<1>5. /\ posix' \in Seq(Byte) /\ Len(posix') = new_length
      /\ \A i \in 1..new_length : posix'[i] = IF i <= Len(posix) THEN posix[i] ELSE NUL
  BY <1>1, <1>2, <1>3, PosixTruncateProperties
<1>6. Fits'
  BY <1>1, <1>2, <1>4, <1>5 DEF Fits
<1>7. ASSUME NEW i \in 1..MaxLen, i <= Len(posix) \/ i > new_length, Same(content, posix, i)
      PROVE  Same(content', posix', i)
  <2>1. CASE i > new_length
    BY <1>1, <1>2, <1>4, <1>5, <2>1 DEF Same
  <2>2. CASE i <= new_length
    <3>1. i <= Len(content) /\ i <= Len(posix) /\ content[i] = posix[i]
      BY <1>1, <1>7, <2>2 DEF Same
    <3>2. i \in 1..Len(content') /\ i \in 1..new_length
      BY <1>1, <1>2, <1>4, <2>2, <3>1
    <3> QED
      BY <1>4, <1>5, <3>1, <3>2 DEF Same
  <2> QED
    BY <1>1, <2>1, <2>2
<1>8. CASE stale = {} /\ new_length > Len(posix)
  <2>1. stale' = (Len(posix) + 1)..MaxLen
    BY <1>3, <1>8
  <2>2. NoneOrTail(posix', stale')
    <3>1. Len(posix) + 1 \in 1..(Len(posix') + 1)
      BY <1>1, <1>2, <1>5, <1>8
    <3> QED
      BY <2>1, <3>1 DEF NoneOrTail
  <2>3. AgreeBut(content', posix', stale')
    <3> SUFFICES ASSUME NEW i \in 1..MaxLen, i \notin stale'
                 PROVE  Same(content', posix', i)
      BY DEF AgreeBut
    <3>1. i <= Len(posix)
      BY <1>1, <1>2, <2>1
    <3> QED
      BY <1>1, <1>7, <1>8, <3>1 DEF AgreeBut
  <2> QED
    BY <1>1, <1>2, <1>4, <1>5, <1>6, <2>1, <2>2, <2>3 DEF TypeOK
<1>9. CASE ~(stale = {} /\ new_length > Len(posix)) /\ stale \cap 1..new_length = {}
  <2>1. stale' = {}
    BY <1>3, <1>9
  <2>2. new_length <= Len(posix)
    <3>1. CASE stale = {}
      BY <1>1, <1>2, <1>9, <3>1
    <3>2. CASE stale # {}
      <4>1. PICK k \in 1..(Len(posix) + 1) : stale = k..MaxLen
        BY <1>1, <3>2 DEF NoneOrTail
      <4>2. k <= MaxLen /\ k \in stale
        BY <1>1, <1>2, <3>2, <4>1
      <4>3. ~(k <= new_length)
        BY <1>1, <1>9, <4>2
      <4> QED
        BY <1>1, <1>2, <4>1, <4>3
    <3> QED
      BY <3>1, <3>2
  <2>3. AgreeBut(content', posix', stale')
    <3> SUFFICES ASSUME NEW i \in 1..MaxLen
                 PROVE  Same(content', posix', i)
      BY DEF AgreeBut
    <3>1. CASE i > new_length
      BY <1>1, <1>2, <1>4, <1>5, <3>1 DEF Same
    <3>2. CASE i <= new_length
      <4>1. i \notin stale /\ i <= Len(posix)
        BY <1>1, <1>2, <1>9, <2>2, <3>2
      <4> QED
        BY <1>1, <1>7, <4>1 DEF AgreeBut
    <3> QED
      BY <1>1, <3>1, <3>2
  <2> QED
    BY <1>1, <1>4, <1>5, <1>6, <2>1, <2>3 DEF TypeOK, NoneOrTail
<1>10. CASE stale \cap 1..new_length # {}
  <2>1. stale' = stale
    BY <1>3, <1>10
  <2>2. PICK k \in 1..(Len(posix) + 1) : stale = k..MaxLen
    BY <1>1, <1>10 DEF NoneOrTail
  <2>3. k <= new_length
    BY <1>1, <1>10, <2>2
  <2>4. NoneOrTail(posix', stale')
    <3>1. k \in 1..(Len(posix') + 1)
      BY <1>1, <1>5, <2>3
    <3> QED
      BY <2>1, <2>2, <3>1 DEF NoneOrTail
  <2>5. AgreeBut(content', posix', stale')
    <3> SUFFICES ASSUME NEW i \in 1..MaxLen, i \notin stale
                 PROVE  Same(content', posix', i)
      BY <2>1 DEF AgreeBut
    <3>1. i <= Len(posix)
      BY <1>1, <1>2, <2>2
    <3> QED
      BY <1>1, <1>7, <3>1 DEF AgreeBut
  <2> QED
    BY <1>1, <1>2, <1>4, <1>5, <1>6, <2>1, <2>4, <2>5 DEF TypeOK
<1> QED
  BY <1>8, <1>9, <1>10

\* What write(2) leaves at each position.
LEMMA WrittenAt ==
  ASSUME NEW s \in Seq(Byte), NEW data \in Seq(Byte), NEW offset \in Nat
  PROVE  LET written == PosixWrite(s, data, offset)
             sent    == (offset + 1)..(offset + Len(data))
         IN  /\ written \in Seq(Byte) /\ Len(written) \in Nat
             /\ \A i \in 1..MaxLen :
                  /\ i <= Len(written) <=> (i <= Len(s) \/ i <= offset + Len(data))
                  /\ i <= offset => written[i] = IF i <= Len(s) THEN s[i] ELSE NUL
                  /\ i \in sent => written[i] = data[i - offset]
                  /\ i > offset /\ i \notin sent /\ i <= Len(s) => written[i] = s[i]
<1> DEFINE written == PosixWrite(s, data, offset)
           padded  == PaddedTo(s, offset)
           end     == offset + Len(data)
           sent    == (offset + 1)..end
<1>1. /\ written \in Seq(Byte) /\ Len(written) \in Nat
      /\ Len(written) = IF end > Len(padded) THEN end ELSE Len(padded)
      /\ \A i \in 1..Len(written) :
           written[i] = IF i <= offset THEN padded[i]
                        ELSE IF i <= end THEN data[i - offset]
                        ELSE padded[i]
  BY PosixWriteProperties, LenProperties
<1>2. /\ Len(s) \in Nat /\ Len(data) \in Nat
      /\ Len(padded) = IF offset > Len(s) THEN offset ELSE Len(s)
      /\ \A i \in 1..Len(padded) : padded[i] = IF i <= Len(s) THEN s[i] ELSE NUL
  BY PaddedToProperties, LenProperties
<1> HIDE DEF written, padded
<1>3. ASSUME NEW i \in 1..MaxLen
      PROVE  /\ i <= Len(written) <=> (i <= Len(s) \/ i <= end)
             /\ i <= offset => written[i] = IF i <= Len(s) THEN s[i] ELSE NUL
             /\ i \in sent => written[i] = data[i - offset]
             /\ i > offset /\ i \notin sent /\ i <= Len(s) => written[i] = s[i]
  <2>1. i \in Nat /\ i >= 1 /\ offset <= end /\ end \in Nat
    BY <1>2, DataAssumption
  <2>2. i <= Len(written) <=> (i <= Len(s) \/ i <= end)
    BY <1>1, <1>2, <2>1
  <2>3. CASE i <= offset
    <3>1. i \in 1..Len(written) /\ i \in 1..Len(padded)
      BY <1>1, <1>2, <2>1, <2>3
    <3> QED
      BY <1>1, <1>2, <2>1, <2>2, <2>3, <3>1
  <2>4. CASE i > offset /\ i <= end
    <3>1. i \in 1..Len(written)
      BY <1>1, <1>2, <2>1, <2>4
    <3> QED
      BY <1>1, <2>1, <2>2, <2>4, <3>1
  <2>5. CASE i > offset /\ i > end
    <3>1. i \notin sent
      BY <2>1, <2>5
    <3>2. i <= Len(s) => i \in 1..Len(written) /\ i \in 1..Len(padded)
      BY <1>1, <1>2, <2>1, <2>2, <2>5
    <3> QED
      BY <1>1, <1>2, <2>1, <2>2, <2>5, <3>1, <3>2
  <2> QED
    BY <1>2, <2>1, <2>3, <2>4, <2>5
<1> QED
  BY <1>1, <1>3 DEF written

\* A buffer that is not empty ends within the written file.
LEMMA EndWithin ==
  ASSUME NEW s \in Seq(Byte), NEW data \in Seq(Byte), NEW offset \in Nat,
         Len(PosixWrite(s, data, offset)) <= MaxLen
  PROVE  (offset + 1)..(offset + Len(data)) \subseteq 1..MaxLen
<1> DEFINE size == Len(PaddedTo(s, offset))
           end  == offset + Len(data)
<1>1. /\ Len(PosixWrite(s, data, offset)) = IF end > size THEN end ELSE size
      /\ size \in Nat /\ end \in Nat /\ MaxLen \in Nat
  <2>1. Len(PosixWrite(s, data, offset)) = IF end > size THEN end ELSE size
    BY PosixWriteProperties
  <2>2. PaddedTo(s, offset) \in Seq(Byte) /\ Len(data) \in Nat
    BY PaddedToProperties, LenProperties
  <2> QED
    BY <2>1, <2>2, LenProperties, DataAssumption
<1> HIDE DEF size, end
<1>2. end <= MaxLen
  BY <1>1
<1> QED
  BY <1>1, <1>2 DEF end

\* A write to ssh_backend: what the server took is there; the rest of the
\* buffer, and the padding if it took nothing, is not.
LEMMA SshWriteStep ==
  ASSUME IInv, NEW data \in Data, NEW offset \in 0..MaxLen, NEW n \in 0..Len(data),
         SshWrite(data, offset, n)
  PROVE  /\ TypeOK' /\ Fits' /\ backend' = "ssh"
         /\ AgreeBut(content', posix', stale')
<1> DEFINE taken  == SubSeq(data, 1, n)
           size   == Len(data)
           sent   == (offset + 1)..(offset + size)
           landed == (offset + 1)..(offset + n)
           unpadded == IF n = 0 THEN (Len(posix) + 1)..offset ELSE {}
<1>1. /\ TypeOK /\ Fits /\ backend = "ssh" /\ backend' = "ssh"
      /\ AgreeBut(content, posix, stale)
      /\ data \in Seq(Byte) /\ size \in Nat /\ offset \in Nat /\ offset <= MaxLen /\ MaxLen \in Nat
      /\ n \in Nat /\ n <= size
  BY DataAssumption, LenProperties DEF IInv, SshWrite, Behind
<1>2. /\ content \in Seq(Byte) /\ Len(content) \in Nat
      /\ posix \in Seq(Byte) /\ Len(posix) \in Nat
      /\ stale \subseteq 1..MaxLen
  BY <1>1, Known DEF TypeOK
<1>3. /\ taken \in Seq(Byte) /\ Len(taken) = n
      /\ \A i \in 1..n : taken[i] = data[i]
  BY <1>1, SliceProperties
<1>4. /\ content' = IF n = 0 THEN content ELSE PosixWrite(content, taken, offset)
      /\ posix' = PosixWrite(posix, data, offset)
      /\ Len(content') <= MaxLen /\ Len(posix') <= MaxLen
      /\ stale' = (stale \cup sent \cup unpadded) \ landed
  <2>1. taken = <<>> <=> n = 0
    BY <1>1, <1>3, EmptySeq
  <2> QED
    BY <2>1 DEF SshWrite, SftpWrite, Within
<1> HIDE DEF taken
<1>5. /\ posix' \in Seq(Byte) /\ Len(posix') \in Nat
      /\ \A i \in 1..MaxLen :
           /\ i <= Len(posix') <=> (i <= Len(posix) \/ i <= offset + size)
           /\ i <= offset => posix'[i] = IF i <= Len(posix) THEN posix[i] ELSE NUL
           /\ i \in sent => posix'[i] = data[i - offset]
           /\ i > offset /\ i \notin sent /\ i <= Len(posix) => posix'[i] = posix[i]
  <2> DEFINE written == PosixWrite(posix, data, offset)
  <2>1. /\ written \in Seq(Byte) /\ Len(written) \in Nat
        /\ \A i \in 1..MaxLen :
             /\ i <= Len(written) <=> (i <= Len(posix) \/ i <= offset + size)
             /\ i <= offset => written[i] = IF i <= Len(posix) THEN posix[i] ELSE NUL
             /\ i \in sent => written[i] = data[i - offset]
             /\ i > offset /\ i \notin sent /\ i <= Len(posix) => written[i] = posix[i]
    BY <1>1, <1>2, WrittenAt
  <2>2. written = posix'
    BY <1>4
  <2> HIDE DEF written, sent, size
  <2> QED
    BY <2>1, <2>2
<1>6. sent \subseteq 1..MaxLen
  BY <1>1, <1>2, <1>4, EndWithin
<1>7. CASE n = 0
  <2>1. content' = content /\ landed = {} /\ unpadded = (Len(posix) + 1)..offset
    BY <1>1, <1>4, <1>7
  <2>2. ASSUME NEW i \in 1..MaxLen, i \notin stale'
        PROVE  Same(content', posix', i)
    <3>1. i \notin stale /\ i \notin sent /\ ~(i > Len(posix) /\ i <= offset)
      <4>1. stale' = stale \cup sent \cup (Len(posix) + 1)..offset
        BY <1>4, <2>1
      <4>2. i \notin stale /\ i \notin sent /\ i \notin (Len(posix) + 1)..offset
        BY <2>2, <4>1
      <4> QED
        BY <1>1, <1>2, <4>2
    <3>2. Same(content, posix, i)
      BY <1>1, <3>1 DEF AgreeBut
    <3>3. i <= Len(posix') <=> i <= Len(posix)
      BY <1>1, <1>2, <1>5, <3>1
    <3>4. i <= Len(posix) => posix'[i] = posix[i]
      BY <1>1, <1>2, <1>5, <3>1
    <3> QED
      BY <2>1, <3>2, <3>3, <3>4 DEF Same
  <2>3. stale' \subseteq 1..MaxLen
    <3>1. unpadded \subseteq 1..MaxLen
      BY <1>1, <1>2, <2>1
    <3> QED
      BY <1>2, <1>4, <1>6, <3>1
  <2> QED
    BY <1>1, <1>2, <1>4, <1>5, <2>1, <2>2, <2>3 DEF TypeOK, Fits, AgreeBut
<1>8. CASE n # 0
  <2>1. content' = PosixWrite(content, taken, offset) /\ unpadded = {}
    BY <1>4, <1>8
  <2>2. /\ content' \in Seq(Byte) /\ Len(content') \in Nat
        /\ \A i \in 1..MaxLen :
             /\ i <= Len(content') <=> (i <= Len(content) \/ i <= offset + n)
             /\ i <= offset => content'[i] = IF i <= Len(content) THEN content[i] ELSE NUL
             /\ i \in landed => content'[i] = taken[i - offset]
             /\ i > offset /\ i \notin landed /\ i <= Len(content) => content'[i] = content[i]
    <3> DEFINE written == PosixWrite(content, taken, offset)
    <3>1. /\ written \in Seq(Byte) /\ Len(written) \in Nat
          /\ \A i \in 1..MaxLen :
               /\ i <= Len(written) <=> (i <= Len(content) \/ i <= offset + Len(taken))
               /\ i <= offset => written[i] = IF i <= Len(content) THEN content[i] ELSE NUL
               /\ i \in (offset + 1)..(offset + Len(taken)) => written[i] = taken[i - offset]
               /\ i > offset /\ i \notin (offset + 1)..(offset + Len(taken)) /\ i <= Len(content) =>
                    written[i] = content[i]
      BY <1>1, <1>2, <1>3, WrittenAt
    <3>2. written = content' /\ Len(taken) = n
      BY <1>3, <2>1
    <3> HIDE DEF written
    <3> QED
      BY <3>1, <3>2
  <2>3. ASSUME NEW i \in 1..MaxLen, i \notin stale'
        PROVE  Same(content', posix', i)
    <3>1. CASE i \in landed
      <4>1. i - offset \in 1..n /\ i \in sent /\ i <= offset + n /\ i <= offset + size
        BY <1>1, <3>1
      <4>2. content'[i] = data[i - offset] /\ posix'[i] = data[i - offset]
        BY <1>3, <1>5, <2>2, <3>1, <4>1
      <4>3. i <= Len(content') /\ i <= Len(posix')
        BY <1>5, <2>2, <4>1
      <4> QED
        BY <4>2, <4>3 DEF Same
    <3>2. CASE i \notin landed
      <4>1. i \notin stale /\ i \notin sent /\ Same(content, posix, i)
        BY <1>1, <1>4, <2>1, <2>3, <3>2 DEF AgreeBut
      <4>2. CASE i <= offset
        <5>1. i <= Len(content') /\ i <= Len(posix')
          BY <1>1, <1>5, <2>2, <4>2
        <5>2. content'[i] = posix'[i]
          BY <1>5, <2>2, <4>1, <4>2 DEF Same
        <5> QED
          BY <5>1, <5>2 DEF Same
      <4>3. CASE i > offset
        <5>1. i > offset + size /\ i > offset + n
          BY <1>1, <4>1, <4>3
        <5>2. (i <= Len(content') <=> i <= Len(content)) /\ (i <= Len(posix') <=> i <= Len(posix))
          BY <1>1, <1>2, <1>5, <2>2, <5>1
        <5>3. /\ i <= Len(content) => content'[i] = content[i]
              /\ i <= Len(posix) => posix'[i] = posix[i]
          BY <1>5, <2>2, <3>2, <4>1, <4>3
        <5> QED
          BY <4>1, <5>2, <5>3 DEF Same
      <4> QED
        BY <1>1, <4>2, <4>3
    <3> QED
      BY <3>1, <3>2
  <2>4. stale' \subseteq 1..MaxLen
    BY <1>2, <1>4, <1>6, <2>1
  <2> QED
    BY <1>1, <1>2, <1>4, <1>5, <2>2, <2>3, <2>4 DEF TypeOK, Fits, AgreeBut
<1> QED
  BY <1>7, <1>8

\* A truncate of ssh_backend, which does nothing: what POSIX cuts stays, what
\* it pads is missing.
LEMMA SshTruncateStep ==
  ASSUME IInv, NEW new_length \in 0..MaxLen, SshTruncate(new_length)
  PROVE  /\ TypeOK' /\ Fits' /\ backend' = "ssh"
         /\ AgreeBut(content', posix', stale')
<1>1. /\ TypeOK /\ Fits /\ backend = "ssh" /\ backend' = "ssh"
      /\ AgreeBut(content, posix, stale)
      /\ new_length \in Nat /\ new_length <= MaxLen /\ MaxLen \in Nat
  BY DataAssumption DEF IInv, SshTruncate, Behind
<1>2. /\ content \in Seq(Byte) /\ Len(content) \in Nat /\ Len(content) <= MaxLen
      /\ posix \in Seq(Byte) /\ Len(posix) \in Nat
      /\ stale \subseteq 1..MaxLen
  BY <1>1, Known DEF TypeOK, Fits
<1>3. /\ content' = content
      /\ posix' = PosixTruncate(posix, new_length)
      /\ stale' = stale \cup (new_length + 1)..Len(content) \cup (Len(posix) + 1)..new_length
  BY DEF SshTruncate
<1>4. /\ posix' \in Seq(Byte) /\ Len(posix') = new_length
      /\ \A i \in 1..new_length : posix'[i] = IF i <= Len(posix) THEN posix[i] ELSE NUL
  BY <1>1, <1>2, <1>3, PosixTruncateProperties
<1>5. stale' \subseteq 1..MaxLen
  <2>1. /\ (new_length + 1)..Len(content) \subseteq 1..MaxLen
        /\ (Len(posix) + 1)..new_length \subseteq 1..MaxLen
    BY <1>1, <1>2
  <2> QED
    BY <1>2, <1>3, <2>1
<1>6. ASSUME NEW i \in 1..MaxLen, i \notin stale'
      PROVE  Same(content', posix', i)
  <2>1. /\ i \notin stale
        /\ ~(i > new_length /\ i <= Len(content))
        /\ ~(i > Len(posix) /\ i <= new_length)
    BY <1>1, <1>2, <1>3, <1>6
  <2>2. Same(content, posix, i)
    BY <1>1, <2>1 DEF AgreeBut
  <2>3. CASE i <= new_length
    <3>1. i \in 1..new_length /\ i <= Len(posix)
      BY <1>1, <1>2, <2>1, <2>3
    <3> QED
      BY <1>3, <1>4, <2>2, <3>1 DEF Same
  <2>4. CASE i > new_length
    BY <1>1, <1>2, <1>3, <1>4, <2>1, <2>4 DEF Same
  <2> QED
    BY <1>1, <2>3, <2>4
<1> QED
  BY <1>1, <1>2, <1>3, <1>4, <1>5, <1>6 DEF TypeOK, Fits, AgreeBut

-----------------------------------------------------------------------------
(* The invariant.                                                           *)

\* SameAt, as the module states it, is Same at that position.
LEMMA SameIsSameAt ==
  ASSUME TypeOK
  PROVE  AgreeBut(content, posix, stale) <=> OnlyStaleDiffers
<1>1. ASSUME NEW i \in 1..MaxLen PROVE Same(content, posix, i) <=> SameAt(i)
  <2>1. (i \in DOMAIN content <=> i <= Len(content)) /\ (i \in DOMAIN posix <=> i <= Len(posix))
    BY Known
  <2> QED
    BY <2>1 DEF Same, SameAt
<1> QED
  BY <1>1 DEF AgreeBut, OnlyStaleDiffers

\* Before the first request the two are one.
LEMMA InvInit == Init => IInv
<1> SUFFICES ASSUME Init PROVE IInv
  OBVIOUS
<1>1. TypeOK /\ Fits
  BY DataAssumption DEF Init, TypeOK, Fits
<1>2. NoneOrTail(posix, stale) /\ AgreeBut(content, posix, stale)
  BY DEF Init, NoneOrTail, AgreeBut, Same
<1> QED
  BY <1>1, <1>2 DEF IInv, TailStale

\* Every request keeps the invariant.
LEMMA InvStep == IInv /\ [Next]_vars => IInv'
<1> SUFFICES ASSUME IInv, [Next]_vars PROVE IInv'
  OBVIOUS
<1> DEFINE Goal == /\ TypeOK' /\ Fits'
                   /\ backend' = "ram" => NoneOrTail(posix', stale')
                   /\ AgreeBut(content', posix', stale')
<1>1. ASSUME NEW data \in Data, NEW offset \in 0..MaxLen, RamWrite(data, offset)
      PROVE  Goal
  BY <1>1, RamWriteStep
<1>2. ASSUME NEW data \in Data, NEW offset \in 0..MaxLen, NEW n \in 0..Len(data),
             SshWrite(data, offset, n)
      PROVE  Goal
  BY <1>2, SshWriteStep
<1>3. ASSUME NEW new_length \in 0..MaxLen, RamTruncate(new_length)
      PROVE  Goal
  BY <1>3, RamTruncateStep
<1>4. ASSUME NEW new_length \in 0..MaxLen, SshTruncate(new_length)
      PROVE  Goal
  BY <1>4, SshTruncateStep
<1>5. ASSUME UNCHANGED vars PROVE Goal
  BY <1>5 DEF vars, IInv, TypeOK, Fits, TailStale
<1>6. Goal
  BY <1>1, <1>2, <1>3, <1>4, <1>5 DEF Next
<1> QED
  BY <1>6 DEF IInv, TailStale, NoneOrTail, AgreeBut, Same

\* IInv holds in every state.
LEMMA Invariant == Spec => []IInv
BY InvInit, InvStep, PTL DEF Spec

\* The contents stay sequences of bytes, the stale positions within the bound.
THEOREM TypeCorrect == Spec => []TypeOK
<1>1. IInv => TypeOK
  BY DEF IInv
<1> QED
  BY <1>1, Invariant, PTL

\* After every history of writes and truncates through either backend the file
\* is the POSIX file, byte for byte, but at the positions called stale.
THEOREM FileIsPosixButStale == Spec => []OnlyStaleDiffers
<1>1. IInv => OnlyStaleDiffers
  BY SameIsSameAt DEF IInv
<1> QED
  BY <1>1, Invariant, PTL

-----------------------------------------------------------------------------
(* Reading.                                                                 *)

\* A read of an undamaged text file that reaches its end answers what read(2)
\* answers, with its length, from any offset.
THEOREM WholeTextIsRead == Spec => []ReadToEndIsPosix
<1>1. IInv => ReadToEndIsPosix
  <2> SUFFICES ASSUME IInv, NEW offset \in 0..Len(content), NEW size \in 1..MaxRead,
                      backend = "ram", stale = {}, ~HasNUL(content),
                      offset + size > Len(content)
               PROVE  MgRead(content, offset, size) =
                        {[ret |-> Len(PosixRead(posix, offset, size)),
                          text |-> PosixRead(posix, offset, size)]}
    BY DEF ReadToEndIsPosix
  <2>1. content = posix
    BY AlikeIsEqual, Known DEF IInv, Fits
  <2>2. CString(content) = content
    BY CStringOfText, Known DEF HasNUL, IInv
  <2>3. Len(content) \in Nat /\ ~(offset > Len(content))
    BY Known DEF IInv
  <2> DEFINE text == SubSeq(content, offset + 1, Min({offset + size, Len(content)}))
  <2>4. PosixRead(posix, offset, size) = text
    BY <2>1 DEF PosixRead
  <2>5. MgRead(content, offset, size) = {[ret |-> n, text |-> text] : n \in {Len(text)}}
    BY <2>2, <2>3 DEF MgRead
  <2> HIDE DEF text
  <2> QED
    BY <2>4, <2>5
<1> QED
  BY <1>1, Invariant, PTL

\* What read(2) answers: the bytes from the offset on, up to the end.
LEMMA ReadProperties ==
  ASSUME NEW s \in Seq(Byte), NEW offset \in Nat, NEW size \in Nat
  PROVE  LET end  == Min({offset + size, Len(s)})
             part == SubSeq(s, offset + 1, end)
         IN  /\ end \in Nat /\ end <= Len(s) /\ end <= offset + size
             /\ end = offset + size \/ end = Len(s)
             /\ part \in Seq(Byte) /\ Len(part) \in Nat
             /\ Len(part) = IF offset < end THEN end - offset ELSE 0
             /\ \A i \in 1..Len(part) : part[i] = s[offset + i]
<1> DEFINE end  == Min({offset + size, Len(s)})
           part == SubSeq(s, offset + 1, end)
<1>1. Len(s) \in Nat /\ offset + size \in Nat
  BY LenProperties
<1>2. end = IF offset + size <= Len(s) THEN offset + size ELSE Len(s)
  BY <1>1, MinOfTwo
<1> HIDE DEF end
<1>3. end \in Nat /\ end <= Len(s) /\ end <= offset + size /\ (end = offset + size \/ end = Len(s))
  BY <1>1, <1>2
<1>4. /\ part \in Seq(Byte)
      /\ Len(part) = IF offset + 1 <= end THEN end - (offset + 1) + 1 ELSE 0
      /\ \A i \in 1..(end - (offset + 1) + 1) : part[i] = s[offset + 1 + i - 1]
  BY <1>1, <1>3, SliceProperties
<1> HIDE DEF part
<1>5. Len(part) = IF offset < end THEN end - offset ELSE 0
  BY <1>3, <1>4
<1>6. ASSUME NEW i \in 1..Len(part) PROVE part[i] = s[offset + i]
  <2>1. i \in 1..(end - (offset + 1) + 1) /\ offset + 1 + i - 1 = offset + i
    BY <1>3, <1>5
  <2> QED
    BY <1>4, <2>1
<1> QED
  BY <1>3, <1>4, <1>5, <1>6, LenProperties DEF part, end

\* One text begins another if it is not longer and its bytes are the other's.
LEMMA PrefixMeans ==
  ASSUME NEW s \in Seq(Byte), NEW t \in Seq(Byte), Len(s) <= Len(t),
         \A i \in 1..Len(s) : s[i] = t[i]
  PROVE  IsPrefix(s, t)
<1>1. Len(s) \in Nat /\ Len(t) \in Nat
  BY LenProperties
<1>2. /\ SubSeq(s, 1, Len(s)) \in Seq(Byte) /\ Len(SubSeq(s, 1, Len(s))) = Len(s)
      /\ \A i \in 1..Len(s) : SubSeq(s, 1, Len(s))[i] = s[i]
  BY <1>1, SliceProperties
<1>3. /\ SubSeq(t, 1, Len(s)) \in Seq(Byte) /\ Len(SubSeq(t, 1, Len(s))) = Len(s)
      /\ \A i \in 1..Len(s) : SubSeq(t, 1, Len(s))[i] = t[i]
  BY <1>1, SliceProperties
<1>4. SubSeq(s, 1, Len(s)) = SubSeq(t, 1, Len(s))
  BY <1>2, <1>3, SeqEqual
<1> QED
  BY <1>4 DEF IsPrefix

\* Where nothing in the range read is stale, any part of the file read from the
\* offset on begins what read(2) answers.
LEMMA PartIsPrefix ==
  ASSUME IInv, NEW offset \in Nat, NEW size \in Nat,
         stale \cap (offset + 1)..(offset + size) = {},
         NEW part \in Seq(Byte), Len(part) <= size,
         \A i \in 1..Len(part) : offset + i <= Len(content) /\ part[i] = content[offset + i]
  PROVE  LET wanted == PosixRead(posix, offset, size)
         IN  /\ wanted \in Seq(Byte) /\ Len(wanted) \in Nat
             /\ IsPrefix(part, wanted)
             /\ \A i \in 1..Len(wanted) :
                  /\ i <= size
                  /\ offset + i <= Len(content)
                  /\ wanted[i] = content[offset + i]
<1> DEFINE end    == Min({offset + size, Len(posix)})
           wanted == PosixRead(posix, offset, size)
<1>1. /\ content \in Seq(Byte) /\ Len(content) \in Nat /\ Len(content) <= MaxLen
      /\ posix \in Seq(Byte) /\ Len(posix) \in Nat /\ Len(posix) <= MaxLen
      /\ MaxLen \in Nat /\ Len(part) \in Nat
  BY Known, LenProperties DEF IInv, Fits
<1>2. /\ end \in Nat /\ end <= Len(posix) /\ end <= offset + size
      /\ end = offset + size \/ end = Len(posix)
      /\ wanted \in Seq(Byte) /\ Len(wanted) \in Nat
      /\ Len(wanted) = IF offset < end THEN end - offset ELSE 0
      /\ \A i \in 1..Len(wanted) : wanted[i] = posix[offset + i]
  <2>1. wanted = SubSeq(posix, offset + 1, end)
    BY DEF PosixRead
  <2>2. posix \in Seq(Byte) /\ offset \in Nat /\ size \in Nat
    BY <1>1
  <2> DEFINE range == SubSeq(posix, offset + 1, end)
  <2>3. /\ end \in Nat /\ end <= Len(posix) /\ end <= offset + size
        /\ end = offset + size \/ end = Len(posix)
        /\ range \in Seq(Byte) /\ Len(range) \in Nat
        /\ Len(range) = IF offset < end THEN end - offset ELSE 0
        /\ \A i \in 1..Len(range) : range[i] = posix[offset + i]
    BY <2>2, ReadProperties
  <2> HIDE DEF wanted, range, end
  <2>4. wanted = range
    BY <2>1 DEF range
  <2> QED
    BY <2>3, <2>4
<1> HIDE DEF end, wanted
<1>3. ASSUME NEW i \in 1..size, offset + i <= Len(content) \/ offset + i <= Len(posix)
      PROVE  Same(content, posix, offset + i)
  <2>1. offset + i \in 1..MaxLen /\ offset + i \in (offset + 1)..(offset + size)
    BY <1>1, <1>3
  <2>2. offset + i \notin stale
    BY <2>1
  <2> QED
    BY <2>1, <2>2 DEF IInv, AgreeBut
<1>4. ASSUME NEW i \in 1..Len(part)
      PROVE  offset + i <= Len(posix) /\ part[i] = posix[offset + i]
  <2>1. i \in 1..size /\ offset + i <= Len(content) /\ part[i] = content[offset + i]
    BY <1>1
  <2> QED
    BY <1>3, <2>1 DEF Same
<1>5. Len(part) <= Len(wanted)
  <2>1. CASE Len(part) = 0
    BY <1>2, <2>1
  <2>2. CASE Len(part) # 0
    <3>1. offset + Len(part) <= Len(posix)
      BY <1>1, <1>4, <2>2
    <3> QED
      BY <1>1, <1>2, <2>2, <3>1
  <2> QED
    BY <2>1, <2>2
<1>6. \A i \in 1..Len(part) : part[i] = wanted[i]
  <2> SUFFICES ASSUME NEW i \in 1..Len(part) PROVE part[i] = wanted[i]
    OBVIOUS
  <2>1. i \in 1..Len(wanted)
    BY <1>1, <1>2, <1>5
  <2> QED
    BY <1>2, <1>4, <2>1
<1>7. IsPrefix(part, wanted)
  BY <1>2, <1>5, <1>6, PrefixMeans
<1>8. ASSUME NEW i \in 1..Len(wanted)
      PROVE  i <= size /\ offset + i <= Len(content) /\ wanted[i] = content[offset + i]
  <2>1. i \in 1..size /\ offset + i <= Len(posix)
    BY <1>1, <1>2
  <2> QED
    BY <1>2, <1>3, <2>1 DEF Same
<1> QED
  BY <1>2, <1>7, <1>8 DEF wanted

\* The answer of the RAM backend is such a part, up to the first NUL.
LEMMA RamReadIsPart ==
  ASSUME IInv, NEW offset \in Nat, NEW size \in Nat, NEW answer \in MgRead(content, offset, size)
  PROVE  /\ answer.text \in Seq(Byte) /\ Len(answer.text) <= size
         /\ \A i \in 1..Len(answer.text) :
              offset + i <= Len(content) /\ answer.text[i] = content[offset + i]
<1> DEFINE copied == CString(content)
           end    == Min({offset + size, Len(copied)})
           text   == SubSeq(copied, offset + 1, end)
<1>1. /\ content \in Seq(Byte) /\ Len(content) \in Nat
      /\ copied \in Seq(Byte) /\ Len(copied) \in Nat /\ Len(copied) <= Len(content)
      /\ \A i \in 1..Len(copied) : copied[i] = content[i]
  BY Known, CStringProperties, LenProperties DEF IInv
<1>2. answer.text = text
  <2>1. \E lengths : answer \in {[ret |-> n, text |-> text] : n \in lengths}
    <3> DEFINE Of(lengths) == {[ret |-> n, text |-> text] : n \in lengths}
    <3>1. MgRead(content, offset, size) =
            IF offset > Len(copied) THEN Of(0..(size + Overrun))
            ELSE IF offset + size > Len(copied) THEN Of({Len(text)})
            ELSE Of(size..(size + Overrun))
      BY DEF MgRead
    <3> HIDE DEF Of
    <3>2. \E lengths : answer \in Of(lengths)
      BY <3>1
    <3> QED
      BY <3>2 DEF Of
  <2>2. PICK lengths : answer \in {[ret |-> n, text |-> text] : n \in lengths}
    BY <2>1
  <2> HIDE DEF text
  <2> QED
    BY <2>2
<1> HIDE DEF copied
<1>3. /\ end \in Nat /\ end <= Len(copied) /\ end <= offset + size
      /\ text \in Seq(Byte) /\ Len(text) \in Nat
      /\ Len(text) = IF offset < end THEN end - offset ELSE 0
      /\ \A i \in 1..Len(text) : text[i] = copied[offset + i]
  BY <1>1, ReadProperties
<1> HIDE DEF end, text
<1>4. ASSUME NEW i \in 1..Len(text)
      PROVE  offset + i <= Len(content) /\ text[i] = content[offset + i]
  <2>1. offset + i \in 1..Len(copied)
    BY <1>1, <1>3
  <2> QED
    BY <1>1, <1>3, <2>1
<1>5. Len(text) <= size
  BY <1>3
<1> QED
  BY <1>2, <1>3, <1>4, <1>5

\* So is the answer of ssh_backend; if it is shorter than what the server
\* handed over, it stops at a NUL.
LEMMA SshReadIsPart ==
  ASSUME IInv, NEW offset \in Nat, NEW size \in Nat, NEW short \in 0..1,
         NEW answer \in MgReadSsh(offset, size, short)
  PROVE  /\ answer.text \in Seq(Byte) /\ Len(answer.text) <= size
         /\ \A i \in 1..Len(answer.text) :
              offset + i <= Len(content) /\ answer.text[i] = content[offset + i]
         /\ answer.ret \in Nat
         /\ short = 0 /\ answer.ret < size /\ offset + answer.ret < Len(content)
              => content[offset + answer.ret + 1] = NUL
<1> DEFINE end  == Min({offset + size, Len(content)})
           read == SubSeq(content, offset + 1, end - short)
           text == CString(read)
           lengths == IF Len(text) < Len(read) THEN {Len(text)} ELSE Len(read)..(Len(read) + Overrun)
<1>1. content \in Seq(Byte) /\ Len(content) \in Nat
  BY Known DEF IInv
<1>2. answer.text = text /\ answer.ret \in lengths
  <2>1. answer \in {[ret |-> n, text |-> text] : n \in lengths}
    BY DEF MgReadSsh
  <2> HIDE DEF text, lengths
  <2> QED
    BY <2>1
<1>3. end = IF offset + size <= Len(content) THEN offset + size ELSE Len(content)
  BY <1>1, MinOfTwo
<1> HIDE DEF end
<1> DEFINE last == end - short
<1>4. last \in Int /\ last <= Len(content) /\ last <= offset + size
  BY <1>1, <1>3
<1>5. /\ read \in Seq(Byte)
      /\ Len(read) = IF offset < last THEN last - offset ELSE 0
      /\ \A i \in 1..Len(read) : read[i] = content[offset + i]
  <2>1. /\ read \in Seq(Byte)
        /\ Len(read) = IF offset + 1 <= last THEN last - (offset + 1) + 1 ELSE 0
        /\ \A i \in 1..(last - (offset + 1) + 1) : read[i] = content[offset + 1 + i - 1]
    BY <1>1, <1>4, SliceProperties
  <2> HIDE DEF read, last
  <2>2. Len(read) = IF offset < last THEN last - offset ELSE 0
    BY <1>4, <2>1
  <2>3. ASSUME NEW i \in 1..Len(read) PROVE read[i] = content[offset + i]
    <3>1. i \in 1..(last - (offset + 1) + 1) /\ offset + 1 + i - 1 = offset + i
      BY <1>4, <2>2
    <3> QED
      BY <2>1, <3>1
  <2> QED
    BY <2>1, <2>2, <2>3
<1> HIDE DEF read
<1>6. /\ text \in Seq(Byte) /\ Len(text) \in Nat /\ Len(text) <= Len(read) /\ Len(read) \in Nat
      /\ \A i \in 1..Len(text) : text[i] = read[i]
      /\ Len(text) < Len(read) => read[Len(text) + 1] = NUL
  BY <1>5, CStringProperties, LenProperties
<1> HIDE DEF text, last
<1>7. ASSUME NEW i \in 1..Len(text)
      PROVE  offset + i <= Len(content) /\ text[i] = content[offset + i]
  <2>1. i \in 1..Len(read) /\ offset + i <= last
    BY <1>4, <1>5, <1>6
  <2> QED
    BY <1>1, <1>4, <1>5, <1>6, <2>1
<1>8. Len(text) <= size
  BY <1>4, <1>5, <1>6
<1>9. answer.ret \in Nat
  BY <1>2, <1>6, OverrunAssumption
<1>10. ASSUME short = 0, answer.ret < size, offset + answer.ret < Len(content)
       PROVE  content[offset + answer.ret + 1] = NUL
  <2>1. offset + answer.ret < last
    BY <1>1, <1>3, <1>9, <1>10 DEF last
  <2>2. answer.ret < Len(read)
    BY <1>4, <1>5, <1>9, <2>1
  <2>3. answer.ret = Len(text) /\ Len(text) < Len(read)
    BY <1>2, <1>6, <2>2, OverrunAssumption
  <2>4. Len(text) + 1 \in 1..Len(read) /\ offset + (Len(text) + 1) = offset + Len(text) + 1
    BY <1>6, <2>3
  <2>5. read[Len(text) + 1] = content[offset + Len(text) + 1]
    BY <1>5, <2>4
  <2> QED
    BY <1>6, <2>3, <2>5
<1> QED
  BY <1>2, <1>6, <1>7, <1>8, <1>9, <1>10

\* Wherever nothing read is stale, every answer of either backend begins what
\* read(2) answers; ssh leaves some out only at a NUL or on a short read.
THEOREM AnswersBeginTheRead == Spec => []ReadsPrefix
<1>1. IInv => ReadsPrefix
  <2> SUFFICES ASSUME IInv, NEW offset \in 0..MaxLen, NEW size \in 1..MaxRead, NEW short \in 0..1,
                      stale \cap (offset + 1)..(offset + size) = {},
                      NEW answer \in Answers(offset, size, short)
               PROVE  LET wanted == PosixRead(posix, offset, size) IN
                      /\ IsPrefix(answer.text, wanted)
                      /\ backend = "ssh" /\ short = 0 /\ answer.ret < Len(wanted)
                           => wanted[answer.ret + 1] = NUL
    BY DEF ReadsPrefix
  <2> DEFINE wanted == PosixRead(posix, offset, size)
  <2>1. offset \in Nat /\ size \in Nat
    BY DataAssumption
  <2>2. CASE backend = "ram"
    <3>1. answer \in MgRead(content, offset, size)
      BY <2>2 DEF Answers
    <3>2. IsPrefix(answer.text, wanted)
      BY <2>1, <3>1, RamReadIsPart, PartIsPrefix
    <3> QED
      BY <2>2, <3>2
  <2>3. CASE backend # "ram"
    <3>1. answer \in MgReadSsh(offset, size, short)
      BY <2>3 DEF Answers
    <3>2. /\ answer.text \in Seq(Byte) /\ Len(answer.text) <= size
          /\ \A i \in 1..Len(answer.text) :
               offset + i <= Len(content) /\ answer.text[i] = content[offset + i]
          /\ answer.ret \in Nat
          /\ short = 0 /\ answer.ret < size /\ offset + answer.ret < Len(content)
               => content[offset + answer.ret + 1] = NUL
      BY <2>1, <3>1, SshReadIsPart
    <3>3. /\ Len(wanted) \in Nat
          /\ IsPrefix(answer.text, wanted)
          /\ \A i \in 1..Len(wanted) :
               i <= size /\ offset + i <= Len(content) /\ wanted[i] = content[offset + i]
      BY <2>1, <3>2, PartIsPrefix
    <3> HIDE DEF wanted
    <3>4. ASSUME short = 0, answer.ret < Len(wanted)
          PROVE  wanted[answer.ret + 1] = NUL
      <4>1. answer.ret + 1 \in 1..Len(wanted)
        BY <3>2, <3>3, <3>4
      <4>2. /\ answer.ret + 1 <= size /\ offset + (answer.ret + 1) <= Len(content)
            /\ wanted[answer.ret + 1] = content[offset + (answer.ret + 1)]
        BY <3>3, <4>1
      <4>3. /\ answer.ret < size /\ offset + answer.ret < Len(content)
            /\ offset + (answer.ret + 1) = offset + answer.ret + 1
        BY <2>1, <3>2, <4>2, Known DEF IInv
      <4> QED
        BY <3>2, <3>4, <4>2, <4>3
    <3> QED
      BY <3>3, <3>4 DEF wanted
  <2> QED
    BY <2>2, <2>3
<1> QED
  BY <1>1, Invariant, PTL
=============================================================================
