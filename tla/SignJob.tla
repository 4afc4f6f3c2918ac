------------------------------ MODULE SignJob ------------------------------
(***************************************************************************)
(* The interface between a sign method and the server that runs it as a    *)
(* job: what the rest of the server may rely on about keys and result.     *)
(* Signing implements it, with the keys, tools and results of each method; *)
(* Server uses no more of a job than this.                                 *)
(***************************************************************************)

VARIABLES
  state,   \* "none", "running", or how the method ended
  keys     \* "held" while its key directory is on disk, otherwise "none"

jobVars == <<state, keys>>

Init == state = "none" /\ keys = "none"

Start ==
  /\ state = "none"
  /\ state' = "running"
  /\ UNCHANGED keys

\* The signer's constructor raises.
Stillborn ==
  /\ state = "none"
  /\ state' = "raised"
  /\ UNCHANGED keys

Fetch ==
  /\ state = "running"
  /\ keys' = "held"
  /\ UNCHANGED state

Release ==
  /\ state = "running"
  /\ keys' = "none"
  /\ UNCHANGED state

\* A method that returns has no keys left.
Return ==
  /\ state = "running"
  /\ keys = "none"
  /\ state' \in {"true", "false"}
  /\ UNCHANGED keys

\* An exception may strike while the keys are being fetched.
Raise ==
  /\ state = "running"
  /\ state' = "raised"
  /\ keys' \in {keys, "held"}

\* The finalizer of the key directory.
Collect ==
  /\ state = "raised"
  /\ keys' = "none"
  /\ UNCHANGED state

\* The process dies.
Kill ==
  /\ state' = "none"
  /\ UNCHANGED keys

Next == Start \/ Stillborn \/ Fetch \/ Release \/ Return \/ Raise \/ Collect \/ Kill

Spec == Init /\ [][Next]_jobVars
=============================================================================
