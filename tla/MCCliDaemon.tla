----------------------------- MODULE MCCliDaemon -----------------------------
(* Small instances of CliDaemon. *)
EXTENDS CliDaemon, TLC

\* A private download and an SMB copy.
TwoKinds == 1 :> "download" @@ 2 :> "smb"
=============================================================================
