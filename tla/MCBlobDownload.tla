--------------------------- MODULE MCBlobDownload ---------------------------
(***************************************************************************)
(* BlobDownload with blobs of a few units.                                 *)
(***************************************************************************)
EXTENDS BlobDownload, TLC

\* Calls are alike; for the run that checks no liveness property.
ClientSymmetry == Permutations(Clients)
=============================================================================
