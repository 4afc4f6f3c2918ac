--------------------------- MODULE MCTrustedApps ---------------------------
(***************************************************************************)
(* Model values for TrustedApps.                                           *)
(***************************************************************************)
EXTENDS TrustedApps

\* The suffix the signer looks for and the one of doc/opteesign.md.
KnownSuffixes == {".stripped.elf", ".stripped-elf"}
=============================================================================
