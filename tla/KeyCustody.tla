----------------------------- MODULE KeyCustody -----------------------------
(***************************************************************************)
(* What a signing operation promises about private keys: they are brought  *)
(* to the server's disk at most once, and a verdict is only given when     *)
(* they are gone again.  An operation that ends in an exception is the     *)
(* exception: its keys may outlive it for a while.                         *)
(***************************************************************************)

VARIABLES
  custody,   \* "none", "held" or "released"
  verdict    \* "pending", "signed", "failed", "refused" or "raised"

custodyVars == <<custody, verdict>>

Init == custody = "none" /\ verdict = "pending"

Fetch ==
  /\ verdict = "pending"
  /\ custody = "none"
  /\ custody' = "held"
  /\ UNCHANGED verdict

Release ==
  /\ custody = "held"
  /\ custody' = "released"
  /\ UNCHANGED verdict

\* The request is turned down before any key is fetched.
Refuse ==
  /\ verdict = "pending"
  /\ custody = "none"
  /\ verdict' = "refused"
  /\ UNCHANGED custody

Decide ==
  /\ verdict = "pending"
  /\ custody # "held"
  /\ verdict' \in {"signed", "failed"}
  /\ UNCHANGED custody

\* An exception may strike while the first key is being fetched.
Break ==
  /\ verdict = "pending"
  /\ verdict' = "raised"
  /\ \/ UNCHANGED custody
     \/ custody = "none" /\ custody' = "held"

Next == Fetch \/ Release \/ Refuse \/ Decide \/ Break

Spec == Init /\ [][Next]_custodyVars
=============================================================================
