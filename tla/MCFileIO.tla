------------------------------- MODULE MCFileIO -------------------------------
(* FileIO with two letters and the terminator as bytes.                      *)
EXTENDS FileIO

MCByte == {"a", "b", "NUL"}
MCData == BoundedSeq(MCByte, 2) \ {<<>>}
MCInitContent == <<"a", "b">>
=============================================================================
