------------------------------- MODULE Documents -------------------------------
(***************************************************************************)
(* Files that come in: those whose records are uploaded in bulk, by a      *)
(* worker that outlives the request (BulkUpload), and those attached to a  *)
(* request (Uploads).  They share no state, so each behaviour is one of    *)
(* them, chosen at the beginning.                                          *)
(***************************************************************************)
EXTENDS BulkUpload

CONSTANTS Attached, Paths, MaxFailures  \* the files attached to requests, and where they go

VARIABLES
  which,
  endpoint, path, at, disk, store, sending, stream, named, late, broken, twins, failures,
  restarted

uploadVars ==
  <<endpoint, path, at, disk, store, sending, stream, named, late, broken, twins, failures,
    restarted>>

Upload == INSTANCE Uploads WITH Files <- Attached

\* A file and a path are not the lack of one.
UploadAssumption == None \notin Attached \cup Paths /\ MaxFailures \in Nat

ASSUME DocumentsAssumption == UploadAssumption

DocumentsInit ==
  /\ which \in {"bulk", "attached"}
  /\ Init /\ Upload!Init

DocumentsNext ==
  \/ which = "bulk" /\ Next /\ UNCHANGED <<which, uploadVars>>
  \/ which = "attached" /\ Upload!Next /\ UNCHANGED <<which, vars>>

DocumentsSpec == DocumentsInit /\ [][DocumentsNext]_<<which, vars, uploadVars>>

(* A file that a row names is kept, arrives in S3, and one that no row     *)
(* names is removed, but for the causes Uploads names.                     *)
FilesKept ==
  which = "attached" => Upload!NamedIsKept /\ Upload!NamedArrives /\ Upload!NothingIsLeft
-----------------------------------------------------------------------------
(* What TLC checks: one file has a single record and the others two; what   *)
(* is not looked at is in one state.                                       *)
MCRows == [f \in Files |-> IF f = CHOOSE single \in Files : TRUE THEN 1 ELSE 2]

MCInit == DocumentsInit /\ (which = "bulk" => endpoint = Upload!CreateLeave)

MCSpec == MCInit /\ [][DocumentsNext]_<<which, vars, uploadVars>> /\ Fairness
=============================================================================
