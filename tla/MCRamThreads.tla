---------------------------- MODULE MCRamThreads ----------------------------
(* RamThreads with three files in one directory or in two.                   *)
EXTENDS RamThreads

MCPaths == {"f", "g", "h"}
AllInOne       == [p \in MCPaths |-> "/"]
TwoDirectories == [p \in MCPaths |-> IF p = "h" THEN "/mg_dir_1" ELSE "/"]
OneOrTwo == {AllInOne, TwoDirectories}
OnlyTwo  == {TwoDirectories}
=============================================================================
