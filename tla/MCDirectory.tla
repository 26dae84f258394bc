------------------------------ MODULE MCDirectory ------------------------------
(***************************************************************************)
(* What is on disk, on small instances: the files one process writes while  *)
(* its requests go on, and the data directory that several processes share.  *)
(* One of the two moves in a behaviour, the one that "focus" names.          *)
(***************************************************************************)
EXTENDS MCPersistence, Updater

VARIABLE focus

DirectoryInit == focus \in {"files", "processes"} /\ PInit /\ UpdaterInit

FilesMove == focus = "files" /\ PNext /\ UNCHANGED <<focus, updaterVars>>
ProcessesMove == focus = "processes" /\ UpdaterNext /\ UNCHANGED <<focus, allVars>>
DirectoryNext == FilesMove \/ ProcessesMove

DirectorySpec == DirectoryInit /\ [][DirectoryNext]_<<focus, allVars, updaterVars>>

\* Once a second process changes the data, the properties of Updater claim nothing.
NotShared == ~ shared
===============================================================================
