------------------------------ MODULE MCReruns ------------------------------
(***************************************************************************)
(* The importers of items and of folders, each on its own: `part', chosen  *)
(* by Init, says which one a behaviour is about.                           *)
(***************************************************************************)
EXTENDS ExchangeItems, DavItems, FileItems, SieveItems,
        ExchangeFolders, PathFolders, JmapTree, GraphDrive, ArchiveSources

(* Items 1 and 2 have the same UID.                                        *)
MCUid == <<1, 1, 3>>

Init ==
  \/ EwsInit \/ GraphInit \/ DavInit \/ MaildirInit \/ SieveInit \/ TakeoutInit
  \/ ExchangeTreeInit \/ PathTreeInit \/ JmapTreeInit \/ DriveInit
  \/ SourcesInit
Next ==
  \/ EwsNext \/ GraphNext \/ DavNext \/ MaildirNext \/ SieveNext \/ TakeoutNext
  \/ ExchangeTreeNext \/ PathTreeNext \/ JmapTreeNext \/ DriveNext
  \/ SourcesNext
Spec == Init /\ [][Next]_vars

(* Runs go on and are repeated: steps that are neither a change of the     *)
(* server nor a fault are taken again and again.  As some step of the      *)
(* part's run can always be taken (the type invariants say so), this is    *)
(* weak fairness of Next without the changes, faults and crashes.          *)
Progress == UNCHANGED <<server, faults>>
FairSpec == Spec /\ []<><<Progress>>_vars

-----------------------------------------------------------------------------
IsTreePart == IsExchangeTree \/ IsPathTree \/ IsJmapTree \/ IsDrive

MCTypeOK ==
  IF IsTreePart THEN ExchangeTreeTypeOK /\ PathTreeTypeOK /\ JmapTreeTypeOK /\ DriveTypeOK
  ELSE IF IsSources THEN SourcesTypeOK
  ELSE IF IsTakeout THEN TakeoutTypeOK
  ELSE TypeOK /\ EwsTypeOK /\ GraphTypeOK /\ DavTypeOK /\ MaildirTypeOK /\ SieveTypeOK

(* However folders move, and wherever a run stops, the rows stay a tree.   *)
RowsAreTrees == Rooted /\ DriveRooted

(* A mail folder in a calendar has no parent in the archive.               *)
CopiedBut(unseen) ==
  IF IsExchangeTree THEN Mixed \/ ExchangeTreeMirrored
  ELSE IF IsPathTree THEN PathTreeMirrored
  ELSE IF IsJmapTree THEN JmapTreeMirrored
  ELSE IF IsDrive THEN DriveMirroredBut(unseen)
  ELSE IF IsTakeout THEN TakeoutMirroredBut(unseen)
  ELSE IF IsSources THEN SourceMirroredBut(unseen)
  ELSE MirroredBut(unseen)

(* A run that reports no failure, on a server that did not change in the   *)
(* meantime, leaves a copy of what the server has, whatever earlier runs   *)
(* left, but for what the run may have left out: what no listing could     *)
(* see, a message of EWS that came without content, the files of a Takeout *)
(* at paths that could not be read.                                        *)
CleanRunMirrors ==
  [][Running /\ run' = Over(FALSE) /\ ~past.moved => CopiedBut(past.unseen)']_vars

(* Once the server is quiet and the faults are over, rerunning ends with a *)
(* copy, README.md:65: "Re-running an interrupted import or export picks   *)
(* up where it left off".  The folders of Exchange and OneDrive may not,   *)
(* when one was given the place of another: deletions come after the       *)
(* writes, and the archive refuses two siblings of one name, so every      *)
(* later run ends there.  A run over a Takeout writes an object as often   *)
(* as it finds it, the last time as it is to be.  An archive that is given *)
(* now one account and now the other need not settle.                      *)
Converges ==
  <>[](\/ CopiedBut({})
       \/ (IsExchangeTree \/ IsDrive) /\ Reused
       \/ IsTakeout /\ Running
       \/ IsSources)
=============================================================================
