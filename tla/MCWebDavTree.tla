---------------------------- MODULE MCWebDavTree ----------------------------
(* Instances of WebDavTree for TLC: a directory with two directories,      *)
(* which can have each other's name, with a file called like one of them,  *)
(* which the server has in its place, and with a file in that one.         *)
EXTENDS WebDavTree

CONSTANTS root, dir, file, sub, leaf, twin

MCNodes == {dir, file, sub, leaf, twin}
MCDirs == {dir, sub, twin}
MCParent ==
  [n \in MCNodes |->
     CASE n = dir -> root [] n = leaf -> sub [] n \in {file, sub, twin} -> dir]
MCName == [n \in MCNodes |-> IF n = sub THEN file ELSE n]
MCTitles == [d \in MCDirs |-> IF d = dir THEN {dir} ELSE {file, twin}]
(* No directory has a displayname. *)
MCUntitled == [d \in MCDirs |-> {MCName[d]}]
=============================================================================
