------------------------------ MODULE MCSshMount ------------------------------
(* SshMount with every argument of at most five characters, of which one is  *)
(* a letter.                                                                 *)
EXTENDS SshMount

MCArgs == BoundedSeq({"@", ":", "x"}, 5)
=============================================================================
