---------------------------- MODULE MCImportSources ----------------------------
(* A drive (1) with the library (2) and a directory (3), which holds a file (4)  *)
(* and a directory (5) with files of its own (6, 7).                             *)
EXTENDS ImportSources

MCParent == <<1, 1, 1, 3, 3, 5, 5>>

================================================================================
