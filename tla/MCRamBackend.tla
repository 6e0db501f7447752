---------------------------- MODULE MCRamBackend ----------------------------
(* Small namespaces for RamBackend.                                          *)
EXTENDS RamBackend

MCByte == {"a", "NUL"}

\* The top directory and one level below.  Each of the three that are not
\* mg_dir_1 may be a file or a directory, so the vector of directories grows
\* up to twice.
FilePaths == {<<"mg_file_1">>, <<"mg_dir_1">>, <<"a">>, <<"mg_dir_1", "a">>}

Text == <<"a">>
Texts == {<<"a">>}
=============================================================================
