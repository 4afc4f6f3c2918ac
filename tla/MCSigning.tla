----------------------------- MODULE MCSigning ------------------------------
(***************************************************************************)
(* Model values for Signing: every program of SignerPrograms, loops        *)
(* unrolled up to MaxFiles times, every subset of the program's keys in    *)
(* the store.                                                              *)
(***************************************************************************)
EXTENDS SignerDiscipline

CONSTANT MaxFiles

Table == INSTANCE SignerPrograms

MCPrograms == Table!AllPrograms(MaxFiles)
MCKeyNames == UNION {KeysOf(p) : p \in MCPrograms}
=============================================================================
