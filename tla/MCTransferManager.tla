-------------------------- MODULE MCTransferManager --------------------------
(***************************************************************************)
(* Small instances of TransferManager: a folder f with the children c1,    *)
(* c2, ... in this order, and the flat task x1. Each .cfg picks the tables *)
(* it needs.                                                               *)
(***************************************************************************)
EXTENDS TransferManager, TLC

CONSTANTS f, c1, c2, c3, x1

\* A folder of downloads beside a flat upload.
DownloadsParent == c1 :> f @@ c2 :> f @@ c3 :> f @@ x1 :> NoGroup
DownloadsOrder == f :> <<c1, c2, c3>>
DownloadsDirection == c1 :> "download" @@ c2 :> "download" @@ c3 :> "download" @@ x1 :> "upload"

\* A folder upload of a directory and one file beside a flat download that
\* retains its bytes, as the command line's background tasks enqueue it.
SmallParent == c1 :> f @@ c2 :> f @@ x1 :> NoGroup
SmallOrder == f :> <<c1, c2>>
SmallDirection == c1 :> "mkdir" @@ c2 :> "upload" @@ x1 :> "download"
=============================================================================
