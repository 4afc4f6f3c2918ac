-------------------------- MODULE EventLoopProofs --------------------------
(***************************************************************************)
(* Proofs about EventLoop: with its subprocesses on the event loop the     *)
(* server is still the one of Server, and a directory is packed in peace.  *)
(***************************************************************************)
EXTENDS EventLoop, ServerProofs

(* Every step of the loop is one of the server, or none.                   *)
LEMMA StepOfServer == [LoopNext]_loopVars => [Next]_vars
<1> SUFFICES ASSUME LoopNext, ~UNCHANGED vars
             PROVE  Next
  BY DEF loopVars, vars
<1>1. ASSUME NEW r \in Requests, BeginListing(r) \/ BeginRepack(r)
      PROVE  FALSE
  BY <1>1 DEF BeginListing, BeginRepack
<1>2. ASSUME NEW r \in Requests, EndListing(r) \/ StartAtOnce(r)
      PROVE  Next
  BY <1>2 DEF EndListing, StartAtOnce, Next
<1>3. ASSUME NEW r \in Requests, EndRepack(r) \/ HandleAtOnce(r)
      PROVE  Next
  BY <1>3 DEF EndRepack, HandleAtOnce, Handle, Next
<1>4. ASSUME NEW r \in Requests, Interrupt(r) \/ Elsewhere(r)
      PROVE  Next
  BY <1>4 DEF Interrupt, Timeout, Leave, Elsewhere, Next
<1>5. ASSUME Die
      PROVE  Next
  BY <1>5 DEF Die, Next
<1> QED
  BY <1>1, <1>2, <1>3, <1>4, <1>5 DEF LoopNext

(* The event loop implements the server.                                   *)
THEOREM LoopImplements == LoopSpec => IsServer
<1>1. LoopInit => Init
  BY DEF LoopInit
<1> QED
  BY <1>1, StepOfServer, PTL DEF LoopSpec, IsServer, Spec

(* So nothing that was proved of the server depends on its subprocesses    *)
(* not blocking the loop.                                                  *)
THEOREM LoopKeepsPromises ==
  LoopSpec => /\ [](TypeOK /\ LeftoversAccounted /\ KeysHaveAnOwner)
              /\ [](QueueIsPendingJobs /\ HandlerAndJob)
              /\ []SecretsGoWithTheAnswer
              /\ NoJobStartsAfterTheEnd
              /\ AnswersHonestly
              /\ JobsAreSigning
<1>1. LoopSpec => Spec
  BY LoopImplements DEF IsServer
<1>2. IInv => /\ TypeOK /\ LeftoversAccounted /\ KeysHaveAnOwner
              /\ QueueIsPendingJobs /\ HandlerAndJob
  BY DEF IInv
<1> QED
  BY <1>1, <1>2, Invariance, NoSecretsAfterAnAnswer, EndedRequestsStartNothing, Implements,
     UsesJobs, PTL

-----------------------------------------------------------------------------
(* A handler that is under way has its working directory.                  *)
LEMMA WorkdirStep ==
  ASSUME TypeOK, [Next]_vars, NEW s \in Requests,
         pc[s] \in {"waiting", "streaming"} => "workdir" \in disk[s],
         pc'[s] \in {"waiting", "streaming"}
  PROVE  "workdir" \in disk'[s]
<1> USE DEF TypeOK
<1>1. CASE \E r \in Requests : Ends(r) \/ ResponseTimeout(r) \/ Disconnect(r)
  <2>1. PICK r, how, code, left :
           r \in Requests /\ how \in Ended /\ Exit(r, how, code, left)
    BY <1>1 DEF Ends, Refuse, StartRaises, DecodeRaises, BadManifest, ManifestRaises,
       JobFailed, JobRaised, AnswerText, RepackFails, RepackRaises, LeaveBlock,
       ResponseTimeout, Disconnect, Cancel, CancelRacesJob, Ended
  <2>2. s # r
    BY <2>1 DEF Exit, Ended
  <2> QED
    BY <2>1, <2>2 DEF Exit
<1>2. CASE \E r \in Requests : Accept(r) \/ Extracted(r) \/ Streams(r)
  BY <1>2 DEF Accept, Extracted, Streams, StartStream, EndStream, Submit, Resumes
<1>3. CASE \E r \in Requests : TakeJob(r) \/ FetchKeys(r) \/ UnpackKeys(r) \/ RemakeWorkdir(r)
             \/ ReleaseKeys(r) \/ Finish(r) \/ Collect(r)
  <2>1. pc' = pc
    BY <1>3 DEF TakeJob, FetchKeys, UnpackKeys, RemakeWorkdir, ReleaseKeys, Finish, EndJob, Collect
  <2>2. "workdir" \in disk[s] => "workdir" \in disk'[s]
    BY <1>3 DEF TakeJob, FetchKeys, UnpackKeys, RemakeWorkdir, ReleaseKeys, Finish, EndJob, Collect
  <2> QED
    BY <2>1, <2>2
<1>4. CASE Crash
  BY <1>4, CrashOf DEF Ended
<1>5. CASE UNCHANGED vars
  BY <1>5 DEF vars
<1> QED
  BY <1>1, <1>2, <1>3, <1>4, <1>5 DEF Next, Handle, Ends, Streams

(* LoopInv is inductive, given the server's invariant.                     *)
LEMMA LoopStep == IInv /\ LoopInv /\ [LoopNext]_loopVars => LoopInv'
<1> SUFFICES ASSUME IInv, LoopInv, [LoopNext]_loopVars
             PROVE  LoopInv'
  OBVIOUS
<1>1. \A r \in Requests : pc'[r] \in {"waiting", "streaming"} => "workdir" \in disk'[r]
  BY StepOfServer, WorkdirStep DEF IInv, LoopInv
<1>2. loop' \in Requests \cup {Nobody}
  BY DEF LoopInv, LoopNext, loopVars, BeginListing, EndListing, StartAtOnce, BeginRepack,
     EndRepack, HandleAtOnce, Interrupt, Timeout, Leave, Elsewhere, Die
<1>3. ASSUME NEW s \in Requests, loop' = s, pc'[s] # "idle"
      PROVE  (Resumes(s, "sign", "true") /\ "workdir" \in disk[s] /\ "keys" \notin disk[s])'
  <2> USE DEF TypeOK
  <2>1. s # Nobody
    BY LoopAssumption
  <2>2. CASE BeginListing(s)
    BY <1>3, <2>2 DEF BeginListing, vars
  <2>3. CASE BeginRepack(s)
    <3>1. UNCHANGED vars /\ Resumes(s, "sign", "true")
      BY <2>3 DEF BeginRepack
    <3>2. "workdir" \in disk[s] /\ "keys" \notin disk[s]
      BY <3>1 DEF Resumes, LoopInv, IInv, KeysHaveAnOwner
    <3> QED
      BY <3>1, <3>2 DEF vars, Resumes
  <2>4. CASE \E r \in Requests : Elsewhere(r)
    <3>1. PICK r \in Requests : Elsewhere(r)
      BY <2>4
    <3>2. UNCHANGED <<loop, pc, stage>>
      BY <3>1 DEF Elsewhere, TakeJob, FetchKeys, UnpackKeys, RemakeWorkdir, ReleaseKeys,
         Finish, EndJob, Collect
    <3>3. Resumes(s, "sign", "true") /\ "workdir" \in disk[s] /\ "keys" \notin disk[s]
      BY <1>3, <3>2 DEF LoopInv, RepackUndisturbed
    \* TakeJob concerns a pending job, the others one that runs or has raised.
    <3>4. s # r
      <4>1. CASE TakeJob(r)
        <5>1. 1 \in 1..Len(queue) /\ queue[1] = r
          BY <4>1, HeadTailProperties DEF TakeJob, IInv
        <5> QED
          BY <3>3, <5>1 DEF IInv, QueueIsPendingJobs, Resumes
      <4>2. CASE ~TakeJob(r)
        BY <3>1, <3>3, <4>2 DEF Elsewhere, FetchKeys, UnpackKeys, RemakeWorkdir, ReleaseKeys,
           Finish, EndJob, Collect, Resumes
      <4> QED
        BY <4>1, <4>2
    <3>5. job'[s] = job[s] /\ disk'[s] = disk[s]
      BY <3>1, <3>4 DEF Elsewhere, TakeJob, FetchKeys, UnpackKeys, RemakeWorkdir,
         ReleaseKeys, Finish, EndJob, Collect, IInv
    <3> QED
      BY <3>2, <3>3, <3>5 DEF Resumes
  <2>5. CASE UNCHANGED loopVars
    BY <1>3, <2>5 DEF loopVars, LoopInv, RepackUndisturbed, Resumes
  \* Every other step leaves the loop free.
  <2>6. loop' = Nobody \/ (\E r \in Requests : r = s /\ (BeginListing(r) \/ BeginRepack(r)))
        \/ (\E r \in Requests : Elsewhere(r)) \/ UNCHANGED loopVars
    BY <1>3 DEF LoopNext, BeginListing, EndListing, StartAtOnce, BeginRepack, EndRepack,
       HandleAtOnce, Interrupt, Timeout, Leave, Die, Free
  <2> QED
    BY <1>3, <2>1, <2>2, <2>3, <2>4, <2>5, <2>6
<1> QED
  BY <1>1, <1>2, <1>3 DEF LoopInv, RepackUndisturbed

(* While the event loop packs a working directory nobody is at work in it, *)
(* and nobody removes it.                                                  *)
THEOREM PackedInPeace == LoopSpec => []RepackUndisturbed
<1>1. LoopInit => LoopInv
  BY LoopAssumption DEF LoopInit, Init, LoopInv, RepackUndisturbed
<1>2. LoopSpec => []IInv
  BY LoopImplements, Invariance, PTL DEF IsServer
<1>3. LoopInv => RepackUndisturbed
  BY DEF LoopInv
<1> QED
  BY <1>1, <1>2, <1>3, LoopStep, PTL DEF LoopSpec
=============================================================================
