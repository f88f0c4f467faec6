--------------------------- MODULE MCArchiveStore ---------------------------
(* A first, a middle and a last file: the Rust commands write an archive    *)
(* and its sidecar, write_hbp_hbi two files and their sidecars.             *)
EXTENDS ArchiveStore

MCOutputs == <<"data", "index", "sidecar">>
=============================================================================
