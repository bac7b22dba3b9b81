---------------------------- MODULE MCFileLife ------------------------------
(* Values for FileLife: three files, the first and the last in the same      *)
(* directory, the second in one that cannot be opened.                       *)
EXTENDS FileLife

MCDirs == {"here", "there"}
MCDirOf == [f \in Files |-> IF f = 2 THEN "there" ELSE "here"]
MCSearchable == {"here"}
=============================================================================
