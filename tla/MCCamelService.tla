--------------------------- MODULE MCCamelService ---------------------------
(* CamelService with all folder tasks on one folder.                       *)
EXTENDS CamelService

CONSTANT f1

OneFolder == [t \in FolderTasks |-> f1]
=============================================================================
