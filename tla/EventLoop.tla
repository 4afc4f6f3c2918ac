----------------------------- MODULE EventLoop -----------------------------
(***************************************************************************)
(* Server with the event loop in view.  In Server a handler goes from one  *)
(* await to the next in one step.  Two of these steps wait for a           *)
(* subprocess on the event loop itself: the constructor of a signer runs   *)
(* "aws s3 ls" (keyfiles.py, mendersign.py, utils.py), and return_tarball  *)
(* runs tar (server.py, utils.py).  Meanwhile no handler goes on and no    *)
(* timer fires, while the executor's threads work on.                      *)
(***************************************************************************)
EXTENDS Server

CONSTANTS
  Nobody,   \* no request
  Scheme    \* of KEYFILE_URI: "file" or "s3"

ASSUME LoopAssumption ==
  /\ Nobody \notin Requests
  /\ Scheme \in {"file", "s3"}

VARIABLE loop   \* the request whose handler waits for a subprocess, or Nobody

loopVars == <<route, pc, stage, job, queue, disk, reply, signed, crashes, loop>>

Free == loop = Nobody

LoopInit == Init /\ loop = Nobody

\* KeyFiles lists the key directory unless the keys are files; MenderSigner
\* looks for the artifact, wherever the keys are.
MayList(r) == Scheme = "s3" \/ route[r].name = "mender"

\* With PKCS#11 two constructors make no KeyFiles.
MayPass(r) == Scheme # "s3" \/ route[r].name \in {"fitimage", "swupdate"}

BeginListing(r) ==
  /\ Free
  /\ pc[r] = "idle" /\ MayList(r)
  /\ loop' = r
  /\ UNCHANGED vars

EndListing(r) ==
  /\ loop = r
  /\ Accept(r) \/ Refuse(r) \/ StartRaises(r) \/ DecodeRaises(r)
  /\ loop' = Nobody

\* Parameters are checked, and other exceptions raised, before the listing too.
StartAtOnce(r) ==
  /\ Free
  /\ \/ Refuse(r) \/ StartRaises(r)
     \/ MayPass(r) /\ (Accept(r) \/ DecodeRaises(r))
  /\ UNCHANGED loop

BeginRepack(r) ==
  /\ Free
  /\ Resumes(r, "sign", "true") /\ route[r].body = "tarball"
  /\ loop' = r
  /\ UNCHANGED vars

\* Mutant of EndRepack: what tar says is not looked at.
EndRepackUnseen(r) ==
  /\ loop = r
  /\ Resumes(r, "sign", "true") /\ route[r].body = "tarball"
  /\ pc' = [pc EXCEPT ![r] = "streaming"]
  /\ loop' = Nobody
  /\ UNCHANGED <<route, stage, job, queue, disk, reply, signed, crashes>>

EndRepack(r) ==
  /\ loop = r
  /\ RepackFails(r) \/ RepackRaises(r) \/ (route[r].body = "tarball" /\ StartStream(r))
  /\ loop' = Nobody

HandleAtOnce(r) ==
  /\ Free
  /\ \/ Extracted(r) \/ BadManifest(r) \/ ManifestRaises(r)
     \/ JobFailed(r) \/ JobRaised(r)
     \/ AnswerText(r) \/ (route[r].body = "file" /\ StartStream(r))
     \/ EndStream(r) \/ LeaveBlock(r)
  /\ UNCHANGED loop

\* Mutants of Timeout: a timer that does not need the loop, and one that
\* covers the sending of the response only.
TimeoutAnyTime(r) == ResponseTimeout(r) /\ UNCHANGED loop
TimeoutWhenStreaming(r) ==
  Free /\ pc[r] = "streaming" /\ ResponseTimeout(r) /\ UNCHANGED loop

\* The timer is a callback of the loop.
Timeout(r) == Free /\ ResponseTimeout(r) /\ UNCHANGED loop
Leave(r) == Free /\ Disconnect(r) /\ UNCHANGED loop

Interrupt(r) == Timeout(r) \/ Leave(r)

\* The threads of the executor, and finalizers.
Elsewhere(r) ==
  /\ \/ TakeJob(r) \/ FetchKeys(r) \/ UnpackKeys(r) \/ RemakeWorkdir(r)
     \/ ReleaseKeys(r) \/ Finish(r) \/ Collect(r)
  /\ UNCHANGED loop

Die == Crash /\ loop' = Nobody

LoopNext ==
  \/ \E r \in Requests :
       \/ BeginListing(r) \/ EndListing(r) \/ StartAtOnce(r)
       \/ BeginRepack(r) \/ EndRepack(r) \/ HandleAtOnce(r)
       \/ Interrupt(r) \/ Elsewhere(r)
  \/ Die

LoopSpec == LoopInit /\ [][LoopNext]_loopVars

\* As FairSpec; what the loop gets to is taken in turn.
LoopFairness ==
  \A r \in Requests :
    /\ WF_loopVars(BeginRepack(r))
    /\ WF_loopVars(HandleAtOnce(r))
    /\ WF_loopVars(Timeout(r))
    /\ WF_loopVars(TakeJob(r) /\ UNCHANGED loop)
    /\ WF_loopVars(Collect(r) /\ UNCHANGED loop)

\* aws and tar come to an end.
SubprocessesEnd == \A r \in Requests : WF_loopVars(EndListing(r)) /\ WF_loopVars(EndRepack(r))

FairLoopSpec == LoopSpec /\ LoopFairness

LiveLoopSpec == FairLoopSpec /\ SubprocessesEnd

-----------------------------------------------------------------------------
(* Properties.                                                             *)

\* While tar reads the working directory of r nothing writes to it or removes
\* it: its job has ended, its keys are gone, neither the timeout nor a
\* disconnection can reach the handler.
RepackUndisturbed ==
  \A r \in Requests : loop = r /\ pc[r] # "idle" =>
    /\ Resumes(r, "sign", "true")
    /\ "workdir" \in disk[r] /\ "keys" \notin disk[r]

\* The inductive invariant of the proofs, beside IInv.
LoopInv ==
  /\ loop \in Requests \cup {Nobody}
  /\ RepackUndisturbed
  /\ \A r \in Requests : pc[r] \in {"waiting", "streaming"} => "workdir" \in disk[r]

\* With its subprocesses on the event loop the server is still the one of
\* Server, with all that holds of that.
IsServer == Spec

\* If the subprocesses end, also its progress is that of Server.
KeepsServing == FairSpec
=============================================================================
