---------------------------- MODULE ArtifactStore ----------------------------
(***************************************************************************)
(* What the signing of Mender artifacts promises the owner of a URI: what  *)
(* is found there is a whole artifact, the one the client put there last,  *)
(* unsigned or signed; once signed it stays so; and no request is answered *)
(* with success while it is unsigned.  The exception is a late job, which  *)
(* has fetched an artifact the client has replaced since: it may put that  *)
(* one back, and other jobs may then sign and answer for it.               *)
(***************************************************************************)

VARIABLES
  artifact,   \* under the URI: the last one, "unsigned" or "signed", or "another"
  promised,   \* some request since it was put there was answered with 200
  late        \* a job is at work on another one

storeVars == <<artifact, promised, late>>

Init == artifact = "unsigned" /\ promised = FALSE /\ late = FALSE

Sign ==
  /\ artifact' = "signed"
  /\ UNCHANGED <<promised, late>>

Promise ==
  /\ artifact # "unsigned"
  /\ promised' = TRUE
  /\ UNCHANGED <<artifact, late>>

\* The client puts the next artifact under the same URI.
Replace ==
  /\ artifact' = "unsigned"
  /\ promised' = FALSE
  /\ late' \in BOOLEAN

\* A late job writes.
Spoil ==
  /\ late
  /\ artifact' = "another"
  /\ late' \in BOOLEAN
  /\ UNCHANGED promised

\* A job fetches what a late one has written.
Spread ==
  /\ artifact = "another"
  /\ late' = TRUE
  /\ UNCHANGED <<artifact, promised>>

\* The last late job ends without writing.
Pass ==
  /\ late' = FALSE
  /\ UNCHANGED <<artifact, promised>>

Next == Sign \/ Promise \/ Replace \/ Spoil \/ Spread \/ Pass

Spec == Init /\ [][Next]_storeVars
=============================================================================
