---------------------------- MODULE ServerProofs ----------------------------
(***************************************************************************)
(* Proofs about Server: for any set of requests and routes, any number of  *)
(* worker threads and any number of crashes.                               *)
(***************************************************************************)
EXTENDS Server, SequenceTheorems, TLAPS

(* What a crash does to one request: nothing if it has not come or has     *)
(* ended, unless its keys are there; it keeps an answer it has; otherwise  *)
(* it is cut off.                                                          *)
LEMMA CrashOf ==
  ASSUME TypeOK, Crash, NEW s \in Requests
  PROVE  /\ job'[s] = "none" /\ stage'[s] = stage[s] /\ signed' = signed
         /\ \/ /\ pc[s] \notin {"waiting", "streaming", "answered"} /\ "keys" \notin disk[s]
               /\ pc'[s] = pc[s] /\ reply'[s] = reply[s] /\ disk'[s] = disk[s]
            \/ /\ pc[s] = "answered" \/ (pc[s] \in Ended /\ "keys" \in disk[s])
               /\ pc'[s] = "crashed" /\ reply'[s] = reply[s] /\ disk'[s] = disk[s]
            \/ /\ pc[s] \in {"idle", "waiting", "streaming"}
               /\ pc'[s] = "crashed"
               /\ \/ reply'[s] = IF pc[s] = "streaming" THEN "cut" ELSE "lost"
                  \/ pc[s] = "idle" /\ "keys" \in disk[s] /\ reply'[s] = reply[s]
               /\ disk'[s] \in SUBSET Things
               /\ "keys" \in disk'[s] <=> "keys" \in disk[s]
               /\ "unpacked" \in disk'[s] => "unpacked" \in disk[s]
<1> USE DEF TypeOK
<1> DEFINE Dies(busy, made) ==
      LET open == {r \in Requests : \/ pc[r] \in {"waiting", "streaming"}
                                    \/ pc[r] = "idle" /\ r \in busy}
      IN  /\ pc' = [r \in Requests |->
                      IF r \in open \/ pc[r] = "answered" \/ "keys" \in disk[r]
                      THEN "crashed" ELSE pc[r]]
          /\ reply' = [r \in Requests |->
                         IF r \notin open THEN reply[r]
                         ELSE IF pc[r] = "streaming" THEN "cut" ELSE "lost"]
          /\ disk' = [r \in Requests |-> IF r \in busy THEN disk[r] \cup made ELSE disk[r]]
<1>0. PICK busy \in {{}} \cup {{r} : r \in Requests} :
        \E made \in SUBSET UNION {MadeSoFar(r) : r \in busy} : Dies(busy, made)
  BY DEF Crash
<1>1. PICK made \in SUBSET UNION {MadeSoFar(r) : r \in busy} : Dies(busy, made)
  BY <1>0
<1>2. /\ job' = [r \in Requests |-> "none"]
      /\ UNCHANGED <<stage, signed>>
  BY DEF Crash
<1>3. s \in busy => made \subseteq MadeSoFar(s)
  BY <1>1
<1>4. /\ MadeSoFar(s) \subseteq Things \ {"keys", "unpacked"}
      /\ pc[s] \in Ended \cup {"answered"} => MadeSoFar(s) = {}
  BY DEF MadeSoFar, Things, Ended, Resumes
<1>5. /\ disk'[s] \in SUBSET Things
      /\ "keys" \in disk'[s] <=> "keys" \in disk[s]
      /\ "unpacked" \in disk'[s] => "unpacked" \in disk[s]
      /\ pc[s] \in Ended \cup {"answered"} \/ s \notin busy => disk'[s] = disk[s]
  BY <1>1, <1>3, <1>4
<1>6. CASE pc[s] \in {"waiting", "streaming"}
  BY <1>1, <1>2, <1>5, <1>6
<1>7. CASE pc[s] = "idle"
  BY <1>1, <1>2, <1>5, <1>7
<1>8. CASE pc[s] \in Ended \cup {"answered"}
  BY <1>1, <1>2, <1>5, <1>8 DEF Ended
<1> QED
  BY <1>6, <1>7, <1>8

(* The same, of all requests: the functions have their types.              *)
LEMMA CrashTypes ==
  ASSUME TypeOK, Crash
  PROVE  /\ pc' \in [Requests -> {"idle", "waiting", "streaming", "answered"} \cup Ended]
         /\ reply' \in [Requests -> {"none", "200", "400", "500", "503", "cut", "lost"}]
         /\ disk' \in [Requests -> SUBSET Things]
<1>1. \A s \in Requests :
        /\ pc'[s] \in {"idle", "waiting", "streaming", "answered"} \cup Ended
        /\ reply'[s] \in {"none", "200", "400", "500", "503", "cut", "lost"}
        /\ disk'[s] \in SUBSET Things
  <2> SUFFICES ASSUME NEW s \in Requests
               PROVE  /\ pc'[s] \in {"idle", "waiting", "streaming", "answered"} \cup Ended
                      /\ reply'[s] \in {"none", "200", "400", "500", "503", "cut", "lost"}
                      /\ disk'[s] \in SUBSET Things
    OBVIOUS
  <2>1. /\ pc[s] \in {"idle", "waiting", "streaming", "answered"} \cup Ended
        /\ reply[s] \in {"none", "200", "400", "500", "503", "cut", "lost"}
        /\ disk[s] \in SUBSET Things
    BY DEF TypeOK
  <2>2. \/ pc'[s] = pc[s] /\ reply'[s] = reply[s] /\ disk'[s] = disk[s]
        \/ /\ pc'[s] = "crashed" /\ disk'[s] \in SUBSET Things
           /\ reply'[s] \in {reply[s], "cut", "lost"}
    BY <2>1, CrashOf
  <2> QED
    BY <2>1, <2>2 DEF Ended
<1>2. /\ pc' = [s \in Requests |-> pc'[s]]
      /\ reply' = [s \in Requests |-> reply'[s]]
      /\ disk' = [s \in Requests |-> disk'[s]]
  BY DEF Crash
<1> QED
  BY <1>1, <1>2

(* The handlers that end in one step, and those that go on to send: used   *)
(* wherever only the way the handler ends matters.                         *)
Ends(r) ==
  Refuse(r) \/ StartRaises(r) \/ DecodeRaises(r) \/ BadManifest(r) \/ ManifestRaises(r)
    \/ JobFailed(r) \/ JobRaised(r) \/ AnswerText(r) \/ RepackFails(r) \/ RepackRaises(r)
    \/ LeaveBlock(r)

Streams(r) == StartStream(r) \/ EndStream(r)

(* Every step of the handlers and of the executor keeps the types.         *)
LEMMA TypeStep == TypeOK /\ [Next]_vars => TypeOK'
<1> SUFFICES ASSUME TypeOK, [Next]_vars PROVE TypeOK'
  OBVIOUS
<1> USE DEF TypeOK
<1>1. ASSUME NEW r \in Requests, NEW how \in Ended,
             NEW code \in {"none", "200", "400", "500", "503", "cut", "lost"},
             NEW left \in SUBSET Things, Exit(r, how, code, left)
      PROVE  /\ pc' \in [Requests -> {"idle", "waiting", "streaming", "answered"} \cup Ended]
             /\ reply' \in [Requests -> {"none", "200", "400", "500", "503", "cut", "lost"}]
             /\ disk' \in [Requests -> SUBSET Things]
  BY <1>1 DEF Exit
<1>2. ASSUME NEW r \in Requests, NEW st \in {"extract", "sign"}, Submit(r, st)
      PROVE  /\ pc' \in [Requests -> {"idle", "waiting", "streaming", "answered"} \cup Ended]
             /\ stage' \in [Requests -> {"none", "extract", "sign"}]
             /\ job' \in [Requests -> {"none", "queued", "cancelled", "running",
                                       "true", "false", "raised"}]
             /\ queue' \in Seq(Requests)
  BY <1>2, AppendProperties DEF Submit
<1>3. ASSUME NEW r \in Requests PROVE disk[r] \in SUBSET Things
  OBVIOUS
<1>4. ASSUME NEW r \in Requests, Ends(r) PROVE TypeOK'
  <2>1. reply[r] \in {"none", "200", "400", "500", "503", "cut", "lost"}
    OBVIOUS
  <2>2. PICK how \in Ended, code \in {"200", "400", "500", reply[r]}, left \in SUBSET Things :
          Exit(r, how, code, left)
    BY <1>3, <1>4 DEF Ends, Ended, Things, Refuse, StartRaises, DecodeRaises, BadManifest,
         ManifestRaises, JobFailed, JobRaised, AnswerText, RepackFails, RepackRaises,
         LeaveBlock
  <2>3. UNCHANGED <<route, stage, job, queue, signed, crashes>>
    BY <1>4 DEF Ends, Refuse, StartRaises, DecodeRaises, BadManifest, ManifestRaises,
         JobFailed, JobRaised, AnswerText, RepackFails, RepackRaises, LeaveBlock
  <2> QED
    BY <1>1, <2>1, <2>2, <2>3
<1>5. ASSUME NEW r \in Requests, Accept(r) PROVE TypeOK'
  <2>1. \E st \in {"extract", "sign"} : Submit(r, st)
    BY <1>5 DEF Accept
  <2>2. disk' \in [Requests -> SUBSET Things]
    BY <1>5 DEF Accept, Things
  <2> QED
    BY <1>2, <1>5, <2>1, <2>2 DEF Accept
<1>6. ASSUME NEW r \in Requests, Extracted(r) PROVE TypeOK'
  BY <1>2, <1>6 DEF Extracted
<1>7. ASSUME NEW r \in Requests, Streams(r) PROVE TypeOK'
  BY <1>7 DEF Streams, StartStream, EndStream, Things
<1>8. ASSUME NEW r \in Requests, NEW code \in {"503", "lost"}, Cancel(r, code) PROVE TypeOK'
  <2>1. job' \in [Requests -> {"none", "queued", "cancelled", "running",
                               "true", "false", "raised"}]
    BY <1>8 DEF Cancel, CancelJob
  <2>2. \E c \in {"503", "lost", "cut"} : Exit(r, "cancelled", c, disk[r] \ Workdir)
    BY <1>8 DEF Cancel
  <2>3. disk[r] \ Workdir \in SUBSET Things
    BY <1>3
  <2> QED
    BY <1>1, <1>8, <2>1, <2>2, <2>3 DEF Cancel, Ended
<1>9. ASSUME NEW r \in Requests, NEW code \in {"503", "lost"}, CancelRacesJob(r, code)
      PROVE  TypeOK'
  <2>1. \E c \in {"500", "lost"} : Exit(r, "cancelled", c, disk[r])
    BY <1>9 DEF CancelRacesJob
  <2> QED
    BY <1>1, <1>3, <1>9, <2>1 DEF CancelRacesJob, Ended
<1>10. ASSUME NEW r \in Requests, TakeJob(r) PROVE TypeOK'
  <2>1. Tail(queue) \in Seq(Requests)
    BY <1>10, HeadTailProperties DEF TakeJob
  <2> QED
    BY <1>10, <2>1 DEF TakeJob
<1>11. ASSUME NEW r \in Requests,
              FetchKeys(r) \/ UnpackKeys(r) \/ RemakeWorkdir(r) \/ ReleaseKeys(r) \/ Collect(r)
       PROVE  TypeOK'
  <2>1. disk' \in [Requests -> SUBSET Things]
    BY <1>11 DEF FetchKeys, UnpackKeys, RemakeWorkdir, ReleaseKeys, Collect, Things
  <2> QED
    BY <1>11, <2>1 DEF FetchKeys, UnpackKeys, RemakeWorkdir, ReleaseKeys, Collect
<1>12. ASSUME NEW r \in Requests, NEW v \in {"true", "false", "raised"}, EndJob(r, v)
       PROVE  TypeOK'
  BY <1>12 DEF EndJob
<1>13. CASE Crash
  <2>1. crashes' \in 0..MaxCrashes
    BY <1>13, ServerAssumption DEF Crash
  <2>2. /\ pc' \in [Requests -> {"idle", "waiting", "streaming", "answered"} \cup Ended]
        /\ reply' \in [Requests -> {"none", "200", "400", "500", "503", "cut", "lost"}]
        /\ disk' \in [Requests -> SUBSET Things]
    BY <1>13, CrashTypes
  <2>4. queue' \in Seq(Requests)
    BY <1>13, EmptySeq DEF Crash
  <2> QED
    BY <1>13, <2>1, <2>2, <2>4 DEF Crash
<1>14. CASE UNCHANGED vars
  BY <1>14 DEF vars
<1> QED
  BY <1>4, <1>5, <1>6, <1>7, <1>8, <1>9, <1>10, <1>11, <1>12, <1>13, <1>14
     DEF Next, Ends, Streams, Handle, Finish, ResponseTimeout, Disconnect

-----------------------------------------------------------------------------
(* What is on disk stays within what the state of its handler allows.      *)
LEMMA LeftoversStep == IInv /\ [Next]_vars => LeftoversAccounted'
<1> SUFFICES ASSUME IInv, [Next]_vars, NEW s \in Requests
             PROVE  (disk[s] \ {"keys"} \subseteq Leftovers(s))'
  BY DEF LeftoversAccounted
<1> USE DEF IInv, TypeOK
<1>1. /\ disk[s] \ {"keys"} \subseteq Leftovers(s)
      /\ disk[s] \subseteq Things
  BY DEF LeftoversAccounted
<1>2. route' = route
  BY DEF Next, vars, Handle, Finish, ResponseTimeout, Disconnect, Refuse, StartRaises,
     DecodeRaises, Accept, Extracted, BadManifest, ManifestRaises, JobFailed, JobRaised,
     AnswerText, StartStream, RepackFails, RepackRaises, EndStream, LeaveBlock, Cancel,
     CancelRacesJob, TakeJob, FetchKeys, UnpackKeys, RemakeWorkdir, ReleaseKeys, EndJob,
     Collect, Crash
\* A request that keeps its handler's state and gains nothing on disk.
<1>3. ASSUME pc'[s] = pc[s], disk'[s] \ {"keys"} \subseteq disk[s]
      PROVE  (disk[s] \ {"keys"} \subseteq Leftovers(s))'
  BY <1>1, <1>2, <1>3 DEF Leftovers, Has
<1>4. ASSUME NEW r \in Requests, Ends(r) PROVE (disk[s] \ {"keys"} \subseteq Leftovers(s))'
  <2>1. CASE s # r
    <3>1. pc'[s] = pc[s] /\ disk'[s] = disk[s]
      BY <1>4, <2>1 DEF Ends, Streams, Exit, Refuse, StartRaises, DecodeRaises,
         BadManifest, ManifestRaises, JobFailed, JobRaised, AnswerText, RepackFails,
         RepackRaises, EndStream, LeaveBlock
    <3> QED
      BY <1>3, <3>1
  <2>2. CASE s = r
    <3>1. CASE Refuse(r) \/ StartRaises(r)
      <4>1. disk'[s] = {}
        BY <2>2, <3>1 DEF Refuse, StartRaises, Exit
      <4> QED
        BY <4>1
    <3>2. CASE DecodeRaises(r)
      <4>1. disk'[s] = {"outfile"} /\ pc'[s] = "raised" /\ Has(s, "outfile")
        BY <2>2, <3>2, ServerAssumption DEF DecodeRaises, Exit, Has
      <4> QED
        BY <4>1, <1>2 DEF Leftovers, Has
    <3>3. CASE BadManifest(r) \/ JobFailed(r) \/ AnswerText(r) \/ RepackFails(r)
      <4>1. pc[s] = "waiting" /\ pc'[s] = "orderly" /\ disk'[s] = disk[s] \ Tidy(s)
        BY <2>2, <3>3 DEF BadManifest, JobFailed, AnswerText, RepackFails, Exit, Resumes
      <4> QED
        BY <4>1, <1>1, <1>2 DEF Leftovers, Has, Tidy, Workdir
    <3>4. CASE ManifestRaises(r) \/ JobRaised(r) \/ RepackRaises(r)
      <4>1. pc[s] = "waiting" /\ pc'[s] = "raised"
            /\ disk'[s] \subseteq (disk[s] \ Workdir) \cup {"tarball"}
        BY <2>2, <3>4 DEF ManifestRaises, JobRaised, RepackRaises, Exit, Resumes
      <4> QED
        BY <4>1, <1>1, <1>2 DEF Leftovers, Has, Workdir
    <3>5. CASE LeaveBlock(r)
      <4>1. pc[s] = "answered" /\ pc'[s] = "orderly"
            /\ disk'[s] = disk[s] \ (Tidy(s) \cup {"tarball"})
        BY <2>2, <3>5 DEF LeaveBlock, Exit
      <4> QED
        BY <4>1, <1>1, <1>2 DEF Leftovers, Has, Tidy, Workdir
    <3> QED
      BY <1>4, <3>1, <3>2, <3>3, <3>4, <3>5 DEF Ends
  <2> QED
    BY <2>1, <2>2
<1>5. ASSUME NEW r \in Requests, Accept(r) PROVE (disk[s] \ {"keys"} \subseteq Leftovers(s))'
  <2>1. CASE s # r
    BY <1>3, <1>5, <2>1 DEF Accept, Submit
  <2>2. CASE s = r
    <3>1. pc'[s] = "waiting"
          /\ disk'[s] = {"workdir"} \cup (IF Has(s, "outfile") THEN {"outfile"} ELSE {})
      BY <1>5, <2>2 DEF Accept, Submit
    <3> QED
      BY <3>1, <1>2 DEF Leftovers, Has, Workdir
  <2> QED
    BY <2>1, <2>2
<1>6. ASSUME NEW r \in Requests, Extracted(r) PROVE (disk[s] \ {"keys"} \subseteq Leftovers(s))'
  <2>1. pc'[s] = pc[s] /\ disk' = disk
    BY <1>6 DEF Extracted, Submit, Resumes
  <2> QED
    BY <1>3, <2>1
<1>7. ASSUME NEW r \in Requests, Streams(r) PROVE (disk[s] \ {"keys"} \subseteq Leftovers(s))'
  <2>1. CASE s # r
    BY <1>3, <1>7, <2>1 DEF Streams, StartStream, EndStream
  <2>2. CASE s = r
    <3>1. \/ /\ pc[s] = "waiting" /\ pc'[s] = "streaming"
             /\ disk'[s] \subseteq disk[s] \cup {"tarball"}
          \/ /\ pc[s] = "streaming" /\ pc'[s] = "answered"
             /\ disk'[s] = disk[s]
      BY <1>7, <2>2 DEF Streams, StartStream, EndStream, Resumes
    <3> QED
      BY <3>1, <1>1, <1>2 DEF Leftovers, Has
  <2> QED
    BY <2>1, <2>2
<1>8. ASSUME NEW r \in Requests, NEW code, Cancel(r, code) \/ CancelRacesJob(r, code)
      PROVE  (disk[s] \ {"keys"} \subseteq Leftovers(s))'
  <2>1. CASE s # r
    BY <1>3, <1>8, <2>1 DEF Cancel, CancelRacesJob, Exit
  <2>2. CASE s = r
    <3>1. pc[s] \in {"waiting", "streaming"} /\ pc'[s] = "cancelled" /\ disk'[s] \subseteq disk[s]
      BY <1>8, <2>2 DEF Cancel, CancelRacesJob, Exit
    <3> QED
      BY <3>1, <1>1, <1>2 DEF Leftovers, Has, Workdir
  <2> QED
    BY <2>1, <2>2
<1>9. ASSUME NEW r \in Requests,
             TakeJob(r) \/ Finish(r) \/ Collect(r) \/ FetchKeys(r) \/ ReleaseKeys(r)
      PROVE  (disk[s] \ {"keys"} \subseteq Leftovers(s))'
  <2>1. pc'[s] = pc[s] /\ disk'[s] \ {"keys"} \subseteq disk[s]
    BY <1>9 DEF TakeJob, Finish, EndJob, Collect, FetchKeys, ReleaseKeys
  <2> QED
    BY <1>3, <2>1
\* Only the job of a handler that waits, or was cancelled, can be running.
<1>10. ASSUME NEW r \in Requests, UnpackKeys(r) \/ RemakeWorkdir(r)
       PROVE  (disk[s] \ {"keys"} \subseteq Leftovers(s))'
  <2>1. CASE s # r
    BY <1>3, <1>10, <2>1 DEF UnpackKeys, RemakeWorkdir
  <2>2. CASE s = r
    <3>1. job[s] = "running" /\ pc'[s] = pc[s] /\ disk'[s] \subseteq disk[s] \cup Workdir
      BY <1>10, <2>2 DEF UnpackKeys, RemakeWorkdir, Workdir
    <3>2. pc[s] \in {"waiting", "cancelled"}
      BY <3>1 DEF HandlerAndJob, Ended
    <3> QED
      BY <3>1, <3>2, <1>1, <1>2 DEF Leftovers, Has, Workdir
  <2> QED
    BY <2>1, <2>2
<1>11. CASE Crash
  <2>1. CASE pc'[s] = "crashed"
    BY <1>11, <2>1, CrashOf, <1>1 DEF Leftovers
  <2>2. CASE pc'[s] # "crashed"
    BY <1>11, <2>2, CrashOf, <1>3
  <2> QED
    BY <2>1, <2>2
<1>12. CASE UNCHANGED vars
  BY <1>3, <1>12 DEF vars
<1> QED
  BY <1>4, <1>5, <1>6, <1>7, <1>8, <1>9, <1>10, <1>11, <1>12
     DEF Next, Ends, Streams, Handle, ResponseTimeout, Disconnect

-----------------------------------------------------------------------------
(* Key directories keep their owner.                                       *)
LEMMA OwnerStep == IInv /\ [Next]_vars => KeysHaveAnOwner'
<1> SUFFICES ASSUME IInv, [Next]_vars, NEW s \in Requests, "keys" \in disk'[s]
             PROVE  \/ stage'[s] = "sign" /\ job'[s] \in {"running", "raised"}
                    \/ pc'[s] = "crashed"
  BY DEF KeysHaveAnOwner
<1> USE DEF IInv, TypeOK
<1>1. "keys" \in disk[s] =>
        \/ stage[s] = "sign" /\ job[s] \in {"running", "raised"}
        \/ pc[s] = "crashed"
  BY DEF KeysHaveAnOwner
<1>2. ASSUME "keys" \in disk[s], stage'[s] = stage[s], job'[s] = job[s],
             pc[s] = "crashed" => pc'[s] = "crashed"
      PROVE  \/ stage'[s] = "sign" /\ job'[s] \in {"running", "raised"}
             \/ pc'[s] = "crashed"
  BY <1>1, <1>2
\* A handler that ends, or starts to stream, is not in state "crashed".
<1>3. ASSUME NEW r \in Requests, Ends(r) \/ Streams(r)
      PROVE  \/ stage'[s] = "sign" /\ job'[s] \in {"running", "raised"}
             \/ pc'[s] = "crashed"
  <2>1. /\ pc[r] \in {"idle", "waiting", "streaming", "answered"}
        /\ UNCHANGED <<stage, job>>
    BY <1>3 DEF Ends, Streams, Refuse, StartRaises, DecodeRaises, BadManifest,
       ManifestRaises, JobFailed, JobRaised, AnswerText, StartStream, RepackFails,
       RepackRaises, EndStream, LeaveBlock, Resumes
  <2>2. s # r => pc'[s] = pc[s]
    BY <1>3 DEF Ends, Streams, Refuse, StartRaises, DecodeRaises, BadManifest,
       ManifestRaises, JobFailed, JobRaised, AnswerText, StartStream, RepackFails,
       RepackRaises, EndStream, LeaveBlock, Exit
  <2>3. "keys" \in disk[s]
    BY <1>3 DEF Ends, Streams, Refuse, StartRaises, DecodeRaises, BadManifest,
       ManifestRaises, JobFailed, JobRaised, AnswerText, StartStream, RepackFails,
       RepackRaises, EndStream, LeaveBlock, Exit
  <2> QED
    BY <1>2, <2>1, <2>2, <2>3
<1>4. ASSUME NEW r \in Requests, Accept(r) \/ Extracted(r)
      PROVE  \/ stage'[s] = "sign" /\ job'[s] \in {"running", "raised"}
             \/ pc'[s] = "crashed"
  <2>1. pc[r] \in {"idle", "waiting"} /\ job[r] \in {"none", "true"}
    BY <1>4 DEF Accept, Extracted, Resumes, HandlerAndJob
  <2>2. "keys" \notin disk[r]
    BY <2>1 DEF KeysHaveAnOwner
  <2>3. s # r /\ "keys" \in disk[s]
    BY <1>4, <2>2 DEF Accept, Extracted
  <2>4. stage'[s] = stage[s] /\ job'[s] = job[s] /\ pc'[s] = pc[s]
    BY <1>4, <2>3 DEF Accept, Extracted, Submit
  <2> QED
    BY <1>2, <2>3, <2>4
<1>5. ASSUME NEW r \in Requests, NEW code, Cancel(r, code) \/ CancelRacesJob(r, code)
      PROVE  \/ stage'[s] = "sign" /\ job'[s] \in {"running", "raised"}
             \/ pc'[s] = "crashed"
  <2>1. "keys" \in disk[s] /\ stage' = stage /\ pc[r] \in {"waiting", "streaming"}
    BY <1>5 DEF Cancel, CancelRacesJob, Exit
  <2>2. s # r => pc'[s] = pc[s]
    BY <1>5 DEF Cancel, CancelRacesJob, Exit
  <2>3. job[s] \in {"running", "raised"} => job'[s] = job[s]
    BY <1>5 DEF Cancel, CancelRacesJob, CancelJob
  <2> QED
    BY <1>1, <2>1, <2>2, <2>3
<1>6. ASSUME NEW r \in Requests, TakeJob(r) \/ Finish(r)
      PROVE  \/ stage'[s] = "sign" /\ job'[s] \in {"running", "raised"}
             \/ pc'[s] = "crashed"
  <2>1. CASE s # r
    BY <1>2, <1>6, <2>1 DEF TakeJob, Finish, EndJob
  <2>2. CASE s = r /\ TakeJob(r)
    <3>1. job[s] \in {"queued", "cancelled"}
      <4>1. queue # <<>> /\ r = Head(queue)
        BY <2>2 DEF TakeJob
      <4>2. 1 \in 1..Len(queue) /\ queue[1] = r
        BY <4>1, HeadTailProperties
      <4> QED
        BY <2>2, <4>2 DEF QueueIsPendingJobs
    <3>2. pc[s] = "crashed" /\ pc'[s] = pc[s]
      BY <1>1, <2>2, <3>1 DEF TakeJob
    <3> QED
      BY <3>2
  <2>3. CASE s = r /\ Finish(r)
    <3>1. PICK v \in {"true", "false", "raised"} : EndJob(r, v)
      BY <2>3 DEF Finish
    <3>2. job[s] = "running" /\ job'[s] = v /\ stage'[s] = stage[s] /\ pc'[s] = pc[s]
          /\ (v # "raised" => "keys" \notin disk'[s]) /\ "keys" \in disk[s]
      BY <2>3, <3>1 DEF EndJob
    <3> QED
      BY <1>1, <3>2
  <2> QED
    BY <1>6, <2>1, <2>2, <2>3
<1>7. ASSUME NEW r \in Requests, FetchKeys(r)
      PROVE  \/ stage'[s] = "sign" /\ job'[s] \in {"running", "raised"}
             \/ pc'[s] = "crashed"
  BY <1>1, <1>7 DEF FetchKeys
<1>8. ASSUME NEW r \in Requests,
             UnpackKeys(r) \/ RemakeWorkdir(r) \/ ReleaseKeys(r) \/ Collect(r)
      PROVE  \/ stage'[s] = "sign" /\ job'[s] \in {"running", "raised"}
             \/ pc'[s] = "crashed"
  <2>1. "keys" \in disk[s] /\ UNCHANGED <<pc, stage, job>>
    BY <1>8 DEF UnpackKeys, RemakeWorkdir, ReleaseKeys, Collect
  <2> QED
    BY <1>1, <2>1
<1>9. CASE Crash
  BY <1>9, CrashOf
<1>10. CASE UNCHANGED vars
  BY <1>1, <1>10 DEF vars
<1> QED
  BY <1>3, <1>4, <1>5, <1>6, <1>7, <1>8, <1>9, <1>10
     DEF Next, Ends, Streams, Handle, ResponseTimeout, Disconnect

-----------------------------------------------------------------------------
(* Handlers and jobs keep agreeing.                                        *)
Agree(r) ==
  /\ pc[r] = "idle" => job[r] = "none"
  /\ pc[r] = "waiting" => stage[r] # "none" /\ job[r] \notin {"none", "cancelled"}
  /\ pc[r] = "orderly" => job[r] \in {"none", "true", "false"}
  /\ pc[r] = "raised" => job[r] \in {"none", "true", "raised"}
  /\ pc[r] \in {"streaming", "answered", "crashed"} => job[r] \in {"none", "true"}
  /\ stage[r] = "sign" /\ job[r] = "true" => r \in signed
  /\ pc[r] = "streaming" \/ reply[r] \in {"200", "cut"} => r \in signed
  /\ reply[r] = "none" <=> pc[r] \in {"idle", "waiting", "streaming"}
  /\ pc[r] = "answered" => reply[r] = "200"
  /\ reply[r] = "200" => pc[r] \in {"answered", "orderly", "crashed"}
  /\ reply[r] = "400" => pc[r] = "orderly"

(* Handlers and jobs keep agreeing on who waits for whom and what is signed. *)
LEMMA HandlerStep == IInv /\ [Next]_vars => HandlerAndJob'
<1> SUFFICES ASSUME IInv, [Next]_vars, NEW s \in Requests PROVE Agree(s)'
  BY DEF HandlerAndJob, Agree
<1> USE DEF IInv, TypeOK
<1>1. Agree(s)
  BY DEF HandlerAndJob, Agree
<1>2. ASSUME NEW r \in Requests, Ends(r) PROVE Agree(s)'
  <2>1. UNCHANGED <<stage, job, signed>>
    BY <1>2 DEF Ends, Streams, Refuse, StartRaises, DecodeRaises, BadManifest,
       ManifestRaises, JobFailed, JobRaised, AnswerText, RepackFails, RepackRaises,
       EndStream, LeaveBlock
  <2>2. CASE s # r
    <3>1. pc'[s] = pc[s] /\ reply'[s] = reply[s]
      BY <1>2, <2>2 DEF Ends, Streams, Exit, Refuse, StartRaises, DecodeRaises,
         BadManifest, ManifestRaises, JobFailed, JobRaised, AnswerText, RepackFails,
         RepackRaises, EndStream, LeaveBlock
    <3> QED
      BY <1>1, <2>1, <3>1 DEF Agree
  <2>3. CASE s = r
    <3>1. /\ pc'[s] = "orderly" => job[s] \in {"none", "true", "false"}
          /\ pc'[s] = "raised" => job[s] \in {"none", "true", "raised"}
          /\ pc'[s] \in {"orderly", "raised"}
          /\ reply'[s] \in {"200", "400"} => pc'[s] = "orderly"
          /\ reply'[s] \in {"200", "400", "500"}
          /\ \/ reply'[s] # "200" /\ pc[s] = "idle"
             \/ reply'[s] # "200" /\ pc[s] = "waiting" /\ job[s] \in {"true", "false", "raised"}
             \/ pc[s] = "waiting" /\ stage[s] = "sign" /\ job[s] = "true"
             \/ pc[s] = "answered" /\ reply'[s] = reply[s]
      BY <1>1, <1>2, <2>3 DEF Ends, Streams, Exit, Refuse, StartRaises, DecodeRaises,
         BadManifest, ManifestRaises, JobFailed, JobRaised, AnswerText, RepackFails,
         RepackRaises, EndStream, LeaveBlock, Resumes, Agree
    <3> QED
      BY <1>1, <2>1, <3>1 DEF Agree
  <2> QED
    BY <2>2, <2>3
<1>3. ASSUME NEW r \in Requests, Accept(r) \/ Extracted(r) PROVE Agree(s)'
  <2>1. CASE s # r
    BY <1>1, <1>3, <2>1 DEF Accept, Extracted, Submit, Agree
  <2>2. CASE s = r
    <3>1. /\ pc[s] \in {"idle", "waiting"} /\ pc'[s] = "waiting" /\ job'[s] = "queued"
          /\ stage'[s] # "none" /\ reply'[s] = reply[s] /\ signed' = signed
      BY <1>3, <2>2 DEF Accept, Extracted, Submit, Resumes
    <3> QED
      BY <1>1, <3>1 DEF Agree
  <2> QED
    BY <2>1, <2>2
<1>4. ASSUME NEW r \in Requests, Streams(r) PROVE Agree(s)'
  BY <1>1, <1>4 DEF Streams, StartStream, EndStream, Resumes, Agree
<1>5. ASSUME NEW r \in Requests, NEW code \in {"503", "lost"},
             Cancel(r, code) \/ CancelRacesJob(r, code)
      PROVE  Agree(s)'
  <2>1. CASE s # r
    BY <1>1, <1>5, <2>1 DEF Cancel, CancelRacesJob, CancelJob, Exit, Agree
  <2>2. CASE s = r
    <3>1. /\ pc[s] \in {"waiting", "streaming"} /\ pc'[s] = "cancelled"
          /\ reply'[s] \in {"500", "503", "lost", "cut"}
          /\ reply'[s] = "cut" => pc[s] = "streaming"
          /\ UNCHANGED <<stage, signed>>
          /\ job'[s] = "true" => job[s] = "true"
      BY <1>5, <2>2 DEF Cancel, CancelRacesJob, CancelJob, Exit
    <3> QED
      BY <1>1, <3>1 DEF Agree
  <2> QED
    BY <2>1, <2>2
<1>6. ASSUME NEW r \in Requests, TakeJob(r) PROVE Agree(s)'
  <2>1. CASE s # r
    BY <1>1, <1>6, <2>1 DEF TakeJob, Agree
  <2>2. CASE s = r
    <3>1. queue # <<>> /\ r = Head(queue)
      BY <1>6 DEF TakeJob
    <3>2. 1 \in 1..Len(queue) /\ queue[1] = r
      BY <3>1, HeadTailProperties
    <3>3. job[s] \in {"queued", "cancelled"} /\ (job[s] = "queued" => pc[s] = "waiting")
      BY <2>2, <3>2 DEF QueueIsPendingJobs
    <3>4. /\ job'[s] = IF job[s] = "cancelled" THEN "none" ELSE "running"
          /\ UNCHANGED <<pc, stage, reply, signed>>
      BY <1>6, <2>2 DEF TakeJob
    <3> QED
      BY <1>1, <3>3, <3>4 DEF Agree
  <2> QED
    BY <2>1, <2>2
<1>7. ASSUME NEW r \in Requests, Finish(r) PROVE Agree(s)'
  <2>1. PICK v \in {"true", "false", "raised"} : EndJob(r, v)
    BY <1>7 DEF Finish
  <2>2. CASE s # r
    BY <1>1, <2>1, <2>2 DEF EndJob, Agree
  <2>3. CASE s = r
    <3>1. /\ job[s] = "running" /\ job'[s] = v /\ UNCHANGED <<pc, stage, reply>>
          /\ signed \subseteq signed'
          /\ stage[s] = "sign" /\ v = "true" => s \in signed'
      BY <2>1, <2>3 DEF EndJob
    <3> QED
      BY <1>1, <3>1 DEF Agree
  <2> QED
    BY <2>2, <2>3
<1>8. ASSUME NEW r \in Requests,
             FetchKeys(r) \/ UnpackKeys(r) \/ RemakeWorkdir(r) \/ ReleaseKeys(r) \/ Collect(r)
      PROVE  Agree(s)'
  BY <1>1, <1>8 DEF FetchKeys, UnpackKeys, RemakeWorkdir, ReleaseKeys, Collect, Agree
<1>9. CASE Crash
  <2>1. pc[s] \in {"idle", "orderly"} => "keys" \notin disk[s]
    BY <1>1 DEF Agree, KeysHaveAnOwner
  <2> QED
    BY <1>1, <1>9, <2>1, CrashOf DEF Agree, Ended
<1>10. CASE UNCHANGED vars
  BY <1>1, <1>10 DEF vars, Agree
<1> QED
  BY <1>2, <1>3, <1>4, <1>5, <1>6, <1>7, <1>8, <1>9, <1>10
     DEF Next, Ends, Streams, Handle, ResponseTimeout, Disconnect

-----------------------------------------------------------------------------
(* A queue without duplicates, and what appending to it and taking its     *)
(* head do to its elements.                                                *)
In(q, r) == \E i \in 1..Len(q) : q[i] = r
NoDuplicates(q) == \A i, j \in 1..Len(q) : q[i] = q[j] => i = j

(* A request that is not in the queue joins it.                           *)
LEMMA AppendNew ==
  ASSUME NEW q \in Seq(Requests), NEW r \in Requests, ~In(q, r), NoDuplicates(q)
  PROVE  /\ NoDuplicates(Append(q, r))
         /\ \A s \in Requests : In(Append(q, r), s) <=> In(q, s) \/ s = r
<1>1. /\ Len(Append(q, r)) = Len(q) + 1 /\ Len(q) \in Nat
      /\ \A i \in 1..Len(q) : Append(q, r)[i] = q[i]
      /\ Append(q, r)[Len(q) + 1] = r
  BY AppendProperties
<1>2. 1..(Len(q) + 1) = (1..Len(q)) \cup {Len(q) + 1}
  BY <1>1
<1> QED
  BY <1>1, <1>2 DEF In, NoDuplicates

(* The request at the head of the queue leaves it.                        *)
LEMMA TakeHead ==
  ASSUME NEW q \in Seq(Requests), q # <<>>, NoDuplicates(q)
  PROVE  /\ NoDuplicates(Tail(q))
         /\ \A s \in Requests : In(Tail(q), s) <=> In(q, s) /\ s # Head(q)
         /\ In(q, Head(q))
<1>1. /\ Len(q) \in Nat \ {0} /\ Len(Tail(q)) = Len(q) - 1
      /\ Head(q) = q[1]
      /\ \A i \in 1..Len(Tail(q)) : Tail(q)[i] = q[i + 1]
  BY HeadTailProperties, LenProperties, EmptySeq
<1>2. NoDuplicates(Tail(q))
  <2> SUFFICES ASSUME NEW i \in 1..Len(Tail(q)), NEW j \in 1..Len(Tail(q)),
                      Tail(q)[i] = Tail(q)[j]
               PROVE  i = j
    BY DEF NoDuplicates
  <2>1. i + 1 \in 1..Len(q) /\ j + 1 \in 1..Len(q) /\ q[i + 1] = q[j + 1]
    BY <1>1
  <2>2. i + 1 = j + 1
    BY <2>1 DEF NoDuplicates
  <2> QED
    BY <1>1, <2>2
<1>3. ASSUME NEW s \in Requests PROVE In(Tail(q), s) <=> In(q, s) /\ s # Head(q)
  <2>1. ASSUME NEW i \in 1..Len(Tail(q)), Tail(q)[i] = s PROVE In(q, s) /\ s # Head(q)
    <3>1. i + 1 \in 1..Len(q) /\ q[i + 1] = s /\ 1 \in 1..Len(q) /\ i + 1 # 1
      BY <1>1, <2>1
    <3> QED
      BY <1>1, <3>1 DEF In, NoDuplicates
  <2>2. ASSUME NEW i \in 1..Len(q), q[i] = s, s # Head(q) PROVE In(Tail(q), s)
    <3>1. i # 1 /\ i - 1 \in 1..Len(Tail(q)) /\ (i - 1) + 1 = i
      BY <1>1, <2>2
    <3>2. Tail(q)[i - 1] = s
      BY <1>1, <2>2, <3>1
    <3> QED
      BY <3>1, <3>2 DEF In
  <2> QED
    BY <2>1, <2>2 DEF In
<1> QED
  BY <1>1, <1>2, <1>3 DEF In

(* The queue holds the pending jobs, after every step.                     *)
LEMMA QueueStep == IInv /\ [Next]_vars => QueueIsPendingJobs'
<1> SUFFICES ASSUME IInv, [Next]_vars
             PROVE  /\ \A s \in Requests :
                         job'[s] \in {"queued", "cancelled"} <=> In(queue', s)
                    /\ NoDuplicates(queue')
                    /\ \A s \in Requests : job'[s] = "queued" => pc'[s] = "waiting"
  BY DEF QueueIsPendingJobs, In, NoDuplicates
<1> USE DEF IInv, TypeOK
<1>1. /\ \A s \in Requests : job[s] \in {"queued", "cancelled"} <=> In(queue, s)
      /\ NoDuplicates(queue)
      /\ \A s \in Requests : job[s] = "queued" => pc[s] = "waiting"
  BY DEF QueueIsPendingJobs, In, NoDuplicates
<1>2. ASSUME NEW r \in Requests, Ends(r) \/ Streams(r)
      PROVE  /\ queue' = queue /\ job' = job
             /\ \A s \in Requests : job'[s] = "queued" => pc'[s] = "waiting"
  <2>1. queue' = queue /\ job' = job
    BY <1>2 DEF Ends, Streams, Refuse, StartRaises, DecodeRaises, BadManifest,
       ManifestRaises, JobFailed, JobRaised, AnswerText, StartStream, RepackFails,
       RepackRaises, EndStream, LeaveBlock
  <2>2. job[r] # "queued"
    BY <1>2 DEF Ends, Streams, Refuse, StartRaises, DecodeRaises, BadManifest,
       ManifestRaises, JobFailed, JobRaised, AnswerText, StartStream, RepackFails,
       RepackRaises, EndStream, LeaveBlock, Resumes, HandlerAndJob
  <2>3. \A s \in Requests : s # r => pc'[s] = pc[s]
    BY <1>2 DEF Ends, Streams, Refuse, StartRaises, DecodeRaises, BadManifest,
       ManifestRaises, JobFailed, JobRaised, AnswerText, StartStream, RepackFails,
       RepackRaises, EndStream, LeaveBlock, Exit
  <2> QED
    BY <1>1, <2>1, <2>2, <2>3
<1>3. ASSUME NEW r \in Requests, Accept(r) \/ Extracted(r)
      PROVE  /\ \A s \in Requests :
                  job'[s] \in {"queued", "cancelled"} <=> In(queue', s)
             /\ NoDuplicates(queue')
             /\ \A s \in Requests : job'[s] = "queued" => pc'[s] = "waiting"
  <2>1. job[r] \in {"none", "true"}
    BY <1>3 DEF Accept, Extracted, Resumes, HandlerAndJob
  <2>2. queue' = Append(queue, r) /\ pc' = [pc EXCEPT ![r] = "waiting"]
        /\ job' = [job EXCEPT ![r] = "queued"]
    BY <1>3 DEF Accept, Extracted, Submit
  <2>3. ~In(queue, r)
    BY <1>1, <2>1
  <2>4. /\ NoDuplicates(queue')
        /\ \A s \in Requests : In(queue', s) <=> In(queue, s) \/ s = r
    BY <1>1, <2>2, <2>3, AppendNew
  <2> QED
    BY <1>1, <2>2, <2>4
<1>4. ASSUME NEW r \in Requests, NEW code, Cancel(r, code) \/ CancelRacesJob(r, code)
      PROVE  /\ queue' = queue
             /\ \A s \in Requests :
                  job'[s] \in {"queued", "cancelled"} <=> job[s] \in {"queued", "cancelled"}
             /\ \A s \in Requests : job'[s] = "queued" => pc'[s] = "waiting"
  <2>1. queue' = queue /\ pc' = [pc EXCEPT ![r] = "cancelled"]
    BY <1>4 DEF Cancel, CancelRacesJob, Exit
  <2>2. \A s \in Requests : s # r => job'[s] = job[s]
    BY <1>4 DEF Cancel, CancelRacesJob, CancelJob
  <2>3. job'[r] # "queued" /\ (job[r] = "queued" => job'[r] = "cancelled")
        /\ (job[r] # "queued" => job'[r] = job[r])
    BY <1>4 DEF Cancel, CancelRacesJob, CancelJob
  <2> QED
    BY <1>1, <2>1, <2>2, <2>3
<1>5. ASSUME NEW r \in Requests, TakeJob(r)
      PROVE  /\ \A s \in Requests :
                  job'[s] \in {"queued", "cancelled"} <=> In(queue', s)
             /\ NoDuplicates(queue')
             /\ \A s \in Requests : job'[s] = "queued" => pc'[s] = "waiting"
  <2>1. /\ queue # <<>> /\ r = Head(queue) /\ queue' = Tail(queue) /\ pc' = pc
        /\ job'[r] \in {"none", "running"}
        /\ \A s \in Requests : s # r => job'[s] = job[s]
    BY <1>5 DEF TakeJob
  <2>2. /\ NoDuplicates(queue')
        /\ \A s \in Requests : In(queue', s) <=> In(queue, s) /\ s # r
    BY <1>1, <2>1, TakeHead
  <2> QED
    BY <1>1, <2>1, <2>2
<1>6. ASSUME NEW r \in Requests, Finish(r)
      PROVE  /\ queue' = queue /\ pc' = pc
             /\ \A s \in Requests : job'[s] = job[s] \/ {job[s], job'[s]} \cap {"queued", "cancelled"} = {}
  <2>1. PICK v \in {"true", "false", "raised"} : EndJob(r, v)
    BY <1>6 DEF Finish
  <2> QED
    BY <2>1 DEF EndJob
<1>7. ASSUME NEW r \in Requests,
             FetchKeys(r) \/ UnpackKeys(r) \/ RemakeWorkdir(r) \/ ReleaseKeys(r) \/ Collect(r)
      PROVE  UNCHANGED <<queue, pc, job>>
  BY <1>7 DEF FetchKeys, UnpackKeys, RemakeWorkdir, ReleaseKeys, Collect
<1>8. CASE Crash
  <2>1. queue' = <<>> /\ \A s \in Requests : job'[s] = "none"
    BY <1>8 DEF Crash
  <2>2. Len(queue') = 0
    BY <2>1
  <2> QED
    BY <2>1, <2>2 DEF In, NoDuplicates
<1>9. CASE UNCHANGED vars
  BY <1>1, <1>9 DEF vars
<1>10. ASSUME NEW r \in Requests, Finish(r)
       PROVE  /\ \A s \in Requests :
                   job'[s] \in {"queued", "cancelled"} <=> In(queue', s)
              /\ NoDuplicates(queue')
              /\ \A s \in Requests : job'[s] = "queued" => pc'[s] = "waiting"
  BY <1>1, <1>6, <1>10
<1> QED
  BY <1>1, <1>2, <1>3, <1>4, <1>5, <1>7, <1>8, <1>9, <1>10
     DEF Next, Ends, Streams, Handle, ResponseTimeout, Disconnect

-----------------------------------------------------------------------------
(* The inductive invariant holds in the initial states.                    *)
LEMMA InitIInv == Init => IInv
<1> SUFFICES ASSUME Init PROVE IInv
  OBVIOUS
<1>1. TypeOK
  BY ServerAssumption, EmptySeq DEF Init, TypeOK
<1>2. QueueIsPendingJobs
  BY DEF Init, QueueIsPendingJobs
<1>3. LeftoversAccounted /\ KeysHaveAnOwner /\ HandlerAndJob
  BY DEF Init, LeftoversAccounted, KeysHaveAnOwner, HandlerAndJob
<1> QED
  BY <1>1, <1>2, <1>3 DEF IInv

(* It is kept by every step, so it always holds.                           *)
THEOREM Invariance == Spec => []IInv
<1>1. IInv /\ [Next]_vars => IInv'
  BY TypeStep, LeftoversStep, OwnerStep, QueueStep, HandlerStep DEF IInv
<1> QED
  BY <1>1, InitIInv, PTL DEF Spec

(* Whatever the requests, routes, workers and crashes, each file a request *)
(* leaves behind is one its handler's way of ending explains.              *)
THEOREM NothingElseIsLeft == Spec => []LeftoversAccounted
<1>1. IInv => LeftoversAccounted
  BY DEF IInv
<1> QED
  BY <1>1, Invariance, PTL

(* Key directories outlive their job only by a crash.                      *)
THEOREM KeysAreOwned == Spec => []KeysHaveAnOwner
<1>1. IInv => KeysHaveAnOwner
  BY DEF IInv
<1> QED
  BY <1>1, Invariance, PTL

(* The executor's queue and the handlers agree on what is pending.         *)
THEOREM QueueIsConsistent == Spec => []QueueIsPendingJobs
<1>1. IInv => QueueIsPendingJobs
  BY DEF IInv
<1> QED
  BY <1>1, Invariance, PTL

(* The handler and its job never disagree.                                 *)
THEOREM HandlersAndJobsAgree == Spec => []HandlerAndJob
<1>1. IInv => HandlerAndJob
  BY DEF IInv
<1> QED
  BY <1>1, Invariance, PTL

\* Only the tarball of keys that the i.MX signer gets is unpacked.
UnpackedIsAsked == \A r \in Requests : "unpacked" \in disk[r] => Has(r, "keysInWorkdir")

\* What NoUnpackedKeysRetained forbids happens to no other route, and only by a
\* cancellation that races the job or by a crash.
UnpackedKeysExplained ==
  \A r \in Requests : pc[r] \in Ended /\ "unpacked" \in disk[r] =>
    Has(r, "keysInWorkdir") /\ pc[r] \in {"cancelled", "crashed"}

(* No step but the unpacking itself puts unpacked keys anywhere.           *)
LEMMA UnpackedStep == IInv /\ UnpackedIsAsked /\ [Next]_vars => UnpackedIsAsked'
<1> SUFFICES ASSUME IInv, UnpackedIsAsked, [Next]_vars, NEW s \in Requests,
                    "unpacked" \in disk'[s]
             PROVE  Has(s, "keysInWorkdir")'
  BY DEF UnpackedIsAsked
<1> USE DEF IInv, TypeOK
<1>1. route' = route
  BY DEF Next, Handle, Refuse, StartRaises, DecodeRaises, Accept, Extracted, BadManifest,
     ManifestRaises, JobFailed, JobRaised, AnswerText, StartStream, RepackFails,
     RepackRaises, EndStream, LeaveBlock, ResponseTimeout, Disconnect, Cancel,
     CancelRacesJob, TakeJob, FetchKeys, UnpackKeys, RemakeWorkdir, ReleaseKeys, Finish,
     EndJob, Collect, Crash, vars
<1>2. CASE "unpacked" \in disk[s]
  BY <1>1, <1>2 DEF UnpackedIsAsked, Has
<1>3. CASE \E r \in Requests : UnpackKeys(r)
  BY <1>1, <1>2, <1>3 DEF UnpackKeys, Has
<1>4. CASE \E r \in Requests : Ends(r)
  BY <1>2, <1>4 DEF Ends, Streams, Exit, Refuse, StartRaises, DecodeRaises, BadManifest,
     ManifestRaises, JobFailed, JobRaised, AnswerText, RepackFails, RepackRaises,
     EndStream, LeaveBlock
<1>5. CASE \E r \in Requests : \/ Accept(r) \/ Extracted(r) \/ Streams(r) \/ TakeJob(r)
                              \/ FetchKeys(r) \/ RemakeWorkdir(r) \/ ReleaseKeys(r)
                              \/ Finish(r) \/ Collect(r)
  BY <1>2, <1>5 DEF Accept, Extracted, Streams, StartStream, EndStream, TakeJob, FetchKeys,
     RemakeWorkdir, ReleaseKeys, Finish, EndJob, Collect
<1>6. CASE \E r \in Requests : ResponseTimeout(r) \/ Disconnect(r)
  BY <1>2, <1>6 DEF ResponseTimeout, Disconnect, Cancel, CancelRacesJob, Exit
<1>7. CASE Crash
  BY <1>2, <1>7, CrashOf
<1>8. CASE UNCHANGED vars
  BY <1>2, <1>8 DEF vars
<1> QED
  BY <1>3, <1>4, <1>5, <1>6, <1>7, <1>8 DEF Next, Handle, Ends, Streams

(* No step brings the key files of an answered request back.               *)
LEMMA AnsweredStep ==
  ASSUME IInv, [Next]_vars, NEW s \in Requests,
         reply[s] \in {"200", "400"} => "keys" \notin disk[s],
         reply'[s] \in {"200", "400"}
  PROVE  "keys" \notin disk'[s]
<1> USE DEF IInv, TypeOK
<1>1. "keys" \in disk[s] => job[s] \in {"running", "raised"} \/ pc[s] = "crashed"
  BY DEF KeysHaveAnOwner
<1>2. CASE \E r \in Requests : Ends(r) \/ Streams(r)
  <2>1. PICK r \in Requests : Ends(r) \/ Streams(r)
    BY <1>2
  <2>2. CASE s # r
    BY <2>1, <2>2 DEF Ends, Streams, Exit, Refuse, StartRaises, DecodeRaises, BadManifest,
       ManifestRaises, JobFailed, JobRaised, AnswerText, StartStream, RepackFails,
       RepackRaises, EndStream, LeaveBlock
  <2>3. CASE s = r
    <3>1. /\ pc[s] # "crashed" /\ job[s] \notin {"running", "raised"}
          /\ "keys" \in disk'[s] => "keys" \in disk[s]
      BY <2>1, <2>3 DEF Ends, Streams, Exit, Refuse, StartRaises, DecodeRaises, BadManifest,
         ManifestRaises, JobFailed, JobRaised, AnswerText, StartStream, RepackFails,
         RepackRaises, EndStream, LeaveBlock, Resumes, HandlerAndJob
    <3> QED
      BY <1>1, <3>1
  <2> QED
    BY <2>2, <2>3
<1>3. CASE \E r \in Requests : \/ Accept(r) \/ Extracted(r) \/ TakeJob(r) \/ UnpackKeys(r)
                              \/ RemakeWorkdir(r) \/ ReleaseKeys(r) \/ Finish(r) \/ Collect(r)
  BY <1>3 DEF Accept, Extracted, Submit, TakeJob, UnpackKeys, RemakeWorkdir, ReleaseKeys,
     Finish, EndJob, Collect
<1>4. CASE \E r \in Requests : FetchKeys(r)
  BY <1>4 DEF FetchKeys, HandlerAndJob
<1>5. CASE \E r \in Requests : ResponseTimeout(r) \/ Disconnect(r)
  BY <1>5 DEF ResponseTimeout, Disconnect, Cancel, CancelRacesJob, Exit
<1>6. CASE Crash
  BY <1>6, CrashOf
<1>7. CASE UNCHANGED vars
  BY <1>7 DEF vars
<1> QED
  BY <1>2, <1>3, <1>4, <1>5, <1>6, <1>7 DEF Next, Handle, Ends, Streams

KeyFilesGoWithTheAnswer ==
  \A r \in Requests : reply[r] \in {"200", "400"} => "keys" \notin disk[r]

(* From a 200 or a 400 on none of the request's key files are on disk,     *)
(* whatever comes after, and unpacked keys are there only for i.MX, between *)
(* the end of the answer and that of the handler, or a crash in between.   *)
THEOREM NoSecretsAfterAnAnswer == Spec => []SecretsGoWithTheAnswer
<1>1. Init => UnpackedIsAsked /\ KeyFilesGoWithTheAnswer
  BY DEF Init, UnpackedIsAsked, KeyFilesGoWithTheAnswer
<1>2. IInv /\ KeyFilesGoWithTheAnswer /\ [Next]_vars => KeyFilesGoWithTheAnswer'
  BY AnsweredStep DEF KeyFilesGoWithTheAnswer
<1>3. IInv /\ UnpackedIsAsked /\ KeyFilesGoWithTheAnswer => SecretsGoWithTheAnswer
  BY DEF IInv, HandlerAndJob, LeftoversAccounted, Leftovers, UnpackedIsAsked,
     KeyFilesGoWithTheAnswer, SecretsGoWithTheAnswer
<1> QED
  BY <1>1, <1>2, <1>3, UnpackedStep, Invariance, PTL DEF Spec

(* Unpacked keys stay behind only where the finding says they do.          *)
THEOREM UnpackedKeysAreImx == Spec => []UnpackedKeysExplained
<1>1. Init => UnpackedIsAsked
  BY DEF Init, UnpackedIsAsked
<1>2. IInv /\ UnpackedIsAsked => UnpackedKeysExplained
  BY DEF IInv, LeftoversAccounted, Leftovers, UnpackedIsAsked, UnpackedKeysExplained, Ended
<1> QED
  BY <1>1, <1>2, UnpackedStep, Invariance, PTL DEF Spec

(* The types of the server's state.                                        *)
THEOREM TypeCorrect == Spec => []TypeOK
<1>1. IInv => TypeOK
  BY DEF IInv
<1> QED
  BY <1>1, Invariance, PTL

-----------------------------------------------------------------------------
(* An answered or abandoned request never gets a worker: the only step     *)
(* that starts a job takes the head of the queue, and a queued job has a   *)
(* handler waiting for it.                                                 *)
THEOREM EndedRequestsStartNothing == Spec => NoJobStartsAfterTheEnd
<1>1. IInv /\ [Next]_vars =>
        [\A r \in Requests :
           pc[r] \in Ended /\ job'[r] = "running" => job[r] = "running"]_vars
  <2> SUFFICES ASSUME IInv, [Next]_vars, NEW s \in Requests,
                      pc[s] \in Ended, job'[s] = "running"
               PROVE  job[s] = "running"
    OBVIOUS
  <2> USE DEF IInv, TypeOK
  <2>1. CASE \E r \in Requests : TakeJob(r)
    <3>1. PICK r \in Requests : TakeJob(r)
      BY <2>1
    <3>2. queue # <<>> /\ r = Head(queue)
      BY <3>1 DEF TakeJob
    <3>3. 1 \in 1..Len(queue) /\ queue[1] = r
      BY <3>2, HeadTailProperties
    <3>4. job[r] \in {"queued", "cancelled"} /\ (job[r] = "queued" => pc[r] = "waiting")
      BY <3>3 DEF QueueIsPendingJobs
    <3>5. CASE s = r
      BY <3>1, <3>4, <3>5 DEF TakeJob, Ended
    <3>6. CASE s # r
      BY <3>1, <3>6 DEF TakeJob
    <3> QED
      BY <3>5, <3>6
  <2>2. CASE \E r \in Requests : Ends(r) \/ Streams(r) \/ FetchKeys(r) \/ UnpackKeys(r)
                                 \/ RemakeWorkdir(r) \/ ReleaseKeys(r) \/ Collect(r)
    BY <2>2 DEF Ends, Streams, Refuse, StartRaises, DecodeRaises, BadManifest,
       ManifestRaises, JobFailed, JobRaised, AnswerText, StartStream, RepackFails,
       RepackRaises, EndStream, LeaveBlock, FetchKeys, UnpackKeys, RemakeWorkdir,
       ReleaseKeys, Collect
  <2>3. CASE \E r \in Requests : Accept(r) \/ Extracted(r)
    BY <2>3 DEF Accept, Extracted, Submit
  <2>4. CASE \E r \in Requests : ResponseTimeout(r) \/ Disconnect(r)
    BY <2>4 DEF ResponseTimeout, Disconnect, Cancel, CancelRacesJob, CancelJob
  <2>5. CASE \E r \in Requests : Finish(r)
    BY <2>5 DEF Finish, EndJob
  <2>6. CASE Crash \/ UNCHANGED vars
    BY <2>6 DEF Crash, vars
  <2> QED
    BY <2>1, <2>2, <2>3, <2>4, <2>5, <2>6 DEF Next, Ends, Streams, Handle
<1> QED
  BY <1>1, Invariance, PTL DEF Spec, NoJobStartsAfterTheEnd

-----------------------------------------------------------------------------
(* The answer of SigningService that a request has been given.             *)
Given(r) ==
  IF pc[r] = "streaming" \/ reply[r] \in {"200", "cut"} THEN "200"
  ELSE IF reply[r] = "none" THEN "none" ELSE "other"

(* One answer per request, and 200 only for what has been signed.          *)
THEOREM Implements == Spec => AnswersHonestly
<1> DEFINE answer == [r \in Requests |->
               IF pc[r] = "streaming" \/ reply[r] \in {"200", "cut"} THEN "200"
               ELSE IF reply[r] = "none" THEN "none" ELSE "other"]
<1>1. Init => Service!Init
  BY DEF Init, Service!Init
<1>2. IInv /\ [Next]_vars => [Service!Next]_(Service!serviceVars)
  <2> SUFFICES ASSUME IInv, [Next]_vars
               PROVE  \/ \E r \in Requests : Service!Sign(r)
                      \/ \E r \in Requests : \E a \in {"200", "other"} : Service!Answer(r, a)
                      \/ \E R \in SUBSET Requests : Service!Abandon(R)
                      \/ answer' = answer /\ signed' = signed
    BY DEF Service!Next, Service!serviceVars
  <2> USE DEF IInv, TypeOK
  <2>1. answer = [r \in Requests |-> Given(r)] /\ answer' = [r \in Requests |-> Given(r)']
    BY DEF Given
  <2> HIDE DEF answer
  \* One request gets its answer.
  <2>2. ASSUME NEW r \in Requests, NEW a \in {"200", "other"},
               Given(r) = "none", Given(r)' = a, a = "200" => r \in signed,
               \A s \in Requests : s # r => Given(s)' = Given(s),
               signed' = signed
        PROVE  Service!Answer(r, a)
    <3>1. answer' = [answer EXCEPT ![r] = a] /\ answer[r] = "none"
      BY <2>1, <2>2
    <3> QED
      BY <2>2, <3>1 DEF Service!Answer, answer
  \* No answer is given.
  <2>3. ASSUME \A s \in Requests : Given(s)' = Given(s) PROVE answer' = answer
    BY <2>1, <2>3
  <2>4. ASSUME NEW r \in Requests, Ends(r) \/ Streams(r)
        PROVE  \/ \E a \in {"200", "other"} : Service!Answer(r, a)
               \/ answer' = answer /\ signed' = signed
    <3>1. /\ signed' = signed
          /\ \A s \in Requests : s # r => pc'[s] = pc[s] /\ reply'[s] = reply[s]
      BY <2>4 DEF Ends, Streams, Refuse, StartRaises, DecodeRaises, BadManifest,
         ManifestRaises, JobFailed, JobRaised, AnswerText, StartStream, RepackFails,
         RepackRaises, EndStream, LeaveBlock, Exit
    <3>2. \A s \in Requests : s # r => Given(s)' = Given(s)
      BY <3>1 DEF Given
    <3>3. CASE EndStream(r) \/ LeaveBlock(r)
      <4>1. Given(r) = "200" /\ Given(r)' = "200"
        BY <3>3 DEF EndStream, LeaveBlock, Exit, Given, HandlerAndJob
      <4>2. \A s \in Requests : Given(s)' = Given(s)
        BY <3>2, <4>1
      <4> QED
        BY <2>3, <3>1, <4>2
    <3>4. CASE AnswerText(r) \/ StartStream(r)
      <4>1. Given(r) = "none" /\ Given(r)' = "200" /\ r \in signed
        BY <3>4 DEF AnswerText, StartStream, Resumes, Exit, Given, HandlerAndJob
      <4> QED
        BY <2>2, <3>1, <3>2, <4>1
    <3>5. CASE Refuse(r) \/ StartRaises(r) \/ DecodeRaises(r) \/ BadManifest(r) \/ ManifestRaises(r)
               \/ JobFailed(r) \/ JobRaised(r) \/ RepackFails(r) \/ RepackRaises(r)
      <4>1. /\ pc[r] \in {"idle", "waiting"} /\ pc'[r] \in {"orderly", "raised"}
            /\ reply'[r] \in {"400", "500"}
        BY <3>5 DEF Refuse, StartRaises, DecodeRaises, BadManifest, ManifestRaises,
           JobFailed, JobRaised, RepackFails, RepackRaises, Resumes, Exit
      <4>2. Given(r) = "none" /\ Given(r)' = "other"
        BY <4>1 DEF Given, HandlerAndJob
      <4> QED
        BY <2>2, <3>1, <3>2, <4>2
    <3> QED
      BY <2>4, <3>3, <3>4, <3>5 DEF Ends, Streams
  <2>5. ASSUME NEW r \in Requests, NEW code \in {"503", "lost"},
               Cancel(r, code) \/ CancelRacesJob(r, code)
        PROVE  \/ \E a \in {"200", "other"} : Service!Answer(r, a)
               \/ answer' = answer /\ signed' = signed
    <3>1. /\ signed' = signed
          /\ \A s \in Requests : s # r => pc'[s] = pc[s] /\ reply'[s] = reply[s]
      BY <2>5 DEF Cancel, CancelRacesJob, Exit
    <3>2. \A s \in Requests : s # r => Given(s)' = Given(s)
      BY <3>1 DEF Given
    <3>3. CASE pc[r] = "streaming"
      <4>1. Given(r) = "200" /\ Given(r)' = "200"
        BY <2>5, <3>3 DEF Cancel, CancelRacesJob, Exit, Given
      <4>2. \A s \in Requests : Given(s)' = Given(s)
        BY <3>2, <4>1
      <4> QED
        BY <2>3, <3>1, <4>2
    <3>4. CASE pc[r] = "waiting"
      <4>1. pc'[r] = "cancelled" /\ reply'[r] \in {"500", "503", "lost"}
        BY <2>5, <3>4 DEF Cancel, CancelRacesJob, Exit
      <4>2. Given(r) = "none" /\ Given(r)' = "other"
        BY <3>4, <4>1 DEF Given, HandlerAndJob
      <4> QED
        BY <2>2, <3>1, <3>2, <4>2
    <3> QED
      BY <2>5, <3>3, <3>4 DEF Cancel, CancelRacesJob
  <2>6. ASSUME NEW r \in Requests, Finish(r)
        PROVE  Service!Sign(r) \/ (answer' = answer /\ signed' = signed)
    <3>1. UNCHANGED <<pc, reply>> /\ (signed' = signed \/ signed' = signed \cup {r})
      BY <2>6 DEF Finish, EndJob
    <3>2. answer' = answer
      BY <2>3, <3>1 DEF Given
    <3>3. CASE r \in signed
      BY <3>1, <3>2, <3>3
    <3>4. CASE r \notin signed /\ signed' = signed \cup {r}
      BY <3>2, <3>4 DEF Service!Sign, answer
    <3> QED
      BY <3>1, <3>2, <3>3, <3>4
  <2>7. ASSUME NEW r \in Requests,
               Accept(r) \/ Extracted(r) \/ TakeJob(r) \/ FetchKeys(r) \/ UnpackKeys(r)
                 \/ RemakeWorkdir(r) \/ ReleaseKeys(r) \/ Collect(r)
        PROVE  answer' = answer /\ signed' = signed
    <3>1. /\ signed' = signed /\ reply' = reply
          /\ \A s \in Requests : pc'[s] = "streaming" <=> pc[s] = "streaming"
      BY <2>7 DEF Accept, Extracted, Submit, Resumes, TakeJob, FetchKeys, UnpackKeys,
         RemakeWorkdir, ReleaseKeys, Collect
    <3> QED
      BY <2>3, <3>1 DEF Given
  <2>8. CASE Crash
    <3> DEFINE R == {r \in Requests : Given(r) = "none" /\ Given(r)' = "other"}
    <3>1. \A s \in Requests : Given(s)' = IF s \in R THEN "other" ELSE Given(s)
      <4> SUFFICES ASSUME NEW s \in Requests
                   PROVE  Given(s)' = IF s \in R THEN "other" ELSE Given(s)
        OBVIOUS
      <4>1. pc[s] = "idle" => "keys" \notin disk[s]
        BY DEF HandlerAndJob, KeysHaveAnOwner
      <4>2. pc[s] \in {"idle", "waiting"} => Given(s) = "none"
        BY DEF Given, HandlerAndJob
      <4> QED
        BY <2>8, <4>1, <4>2, CrashOf DEF Given, Ended
    <3>2. signed' = signed
      BY <2>8 DEF Crash
    <3>3. answer' = [r \in Requests |-> IF r \in R THEN "other" ELSE answer[r]]
      BY <2>1, <3>1
    <3>4. \A r \in R : answer[r] = "none"
      BY <2>1
    <3> QED
      BY <3>2, <3>3, <3>4 DEF Service!Abandon, answer
  <2>9. CASE UNCHANGED vars
    BY <2>3, <2>9 DEF vars, Given
  <2> QED
    BY <2>4, <2>5, <2>6, <2>7, <2>8, <2>9
       DEF Next, Ends, Streams, Handle, ResponseTimeout, Disconnect
<1> QED
  BY <1>1, <1>2, Invariance, PTL DEF Spec, AnswersHonestly, Service!Spec

-----------------------------------------------------------------------------
(* What Server lets the sign job of one request be.                        *)
JobState(r) ==
  IF stage[r] = "sign" /\ job[r] \in {"running", "true", "false", "raised"}
  THEN job[r] ELSE "none"

(* The server asks no more of a sign job than SignJob offers, and does not *)
(* touch its keys or its result.                                           *)
THEOREM UsesJobs == Spec => JobsAreSigning
<1>1. Init => \A r \in Requests : Job(r)!Init
  BY DEF Init, Job!Init
<1>2. IInv /\ [Next]_vars => [\A r \in Requests : [Job(r)!Next]_(Job(r)!jobVars)]_vars
  <2> SUFFICES ASSUME IInv, [Next]_vars, NEW s \in Requests
               PROVE  [Job(s)!Next]_(Job(s)!jobVars)
    OBVIOUS
  <2> USE DEF IInv, TypeOK
  <2> DEFINE state == JobState(s)
             keys == IF "keys" \in disk[s] THEN "held" ELSE "none"
  <2>1. SUFFICES \/ state' = state /\ keys' = keys
                 \/ state = "none" /\ state' = "running" /\ keys' = keys
                 \/ state = "running" /\ state' = "running"
                 \/ state = "running" /\ state' \in {"true", "false"}
                    /\ keys = "none" /\ keys' = "none"
                 \/ state = "running" /\ state' = "raised" /\ keys' = keys
                 \/ state = "raised" /\ state' = "raised" /\ keys' = "none"
                 \/ state' = "none" /\ keys' = keys
    BY DEF JobState, Job!Next, Job!jobVars, Job!Start, Job!Fetch, Job!Release, Job!Return,
       Job!Raise, Job!Collect, Job!Kill
  \* Steps of another request, and steps that leave stage, job and keys alone.
  <2>2. ASSUME stage'[s] = stage[s], job'[s] = job[s],
               "keys" \in disk'[s] <=> "keys" \in disk[s]
        PROVE  state' = state /\ keys' = keys
    BY <2>2 DEF JobState
  <2>3. CASE \E r \in Requests : Ends(r) \/ Streams(r)
    <3>1. PICK r \in Requests : Ends(r) \/ Streams(r)
      BY <2>3
    <3>2. UNCHANGED <<stage, job>>
      BY <3>1 DEF Ends, Streams, Refuse, StartRaises, DecodeRaises, BadManifest,
         ManifestRaises, JobFailed, JobRaised, AnswerText, StartStream, RepackFails,
         RepackRaises, EndStream, LeaveBlock
    <3>3. CASE s # r
      <4>1. disk'[s] = disk[s]
        BY <3>1, <3>3 DEF Ends, Streams, Exit, Refuse, StartRaises, DecodeRaises,
           BadManifest, ManifestRaises, JobFailed, JobRaised, AnswerText, StartStream,
           RepackFails, RepackRaises, EndStream, LeaveBlock
      <4> QED
        BY <2>2, <3>2, <4>1
    \* The one handler that may end while its keys are there: its job raised.
    <3>4. CASE s = r
      <4>1. pc[s] = "idle" => "keys" \notin disk[s]
        BY DEF HandlerAndJob, KeysHaveAnOwner
      <4>2. "keys" \in disk'[s] <=> "keys" \in disk[s]
        BY <3>1, <3>4, <4>1 DEF Ends, Streams, Exit, Refuse, StartRaises, DecodeRaises,
           BadManifest, ManifestRaises, JobFailed, JobRaised, AnswerText, StartStream,
           RepackFails, RepackRaises, EndStream, LeaveBlock, Tidy, Workdir
      <4> QED
        BY <2>2, <3>2, <4>2
    <3> QED
      BY <3>3, <3>4
  <2>4. CASE \E r \in Requests : Accept(r) \/ Extracted(r)
    <3>1. PICK r \in Requests : Accept(r) \/ Extracted(r)
      BY <2>4
    <3>2. job[r] \in {"none", "true"}
      BY <3>1 DEF Accept, Extracted, Resumes, HandlerAndJob
    <3>3. CASE s # r
      BY <2>2, <3>1, <3>3 DEF Accept, Extracted, Submit
    <3>4. CASE s = r
      <4>1. job'[s] = "queued"
        BY <3>1, <3>4 DEF Accept, Extracted, Submit
      <4>2. "keys" \notin disk[s]
        <5>1. pc[s] \in {"idle", "waiting"}
          BY <3>1, <3>4 DEF Accept, Extracted, Resumes
        <5> QED
          BY <3>2, <3>4, <5>1 DEF KeysHaveAnOwner
      <4>3. "keys" \notin disk'[s]
        BY <3>1, <3>4, <4>2 DEF Accept, Extracted
      <4> QED
        BY <4>1, <4>2, <4>3 DEF JobState
    <3> QED
      BY <3>3, <3>4
  <2>5. CASE \E r \in Requests : ResponseTimeout(r) \/ Disconnect(r)
    <3>1. PICK r \in Requests, code \in {"503", "lost"} : Cancel(r, code) \/ CancelRacesJob(r, code)
      BY <2>5 DEF ResponseTimeout, Disconnect
    <3>2. stage' = stage /\ ("keys" \in disk'[s] <=> "keys" \in disk[s])
      <4>1. stage' = stage /\ \E left \in {disk[r], disk[r] \ Workdir} :
                               disk' = [disk EXCEPT ![r] = left]
        BY <3>1 DEF Cancel, CancelRacesJob, Exit
      <4>2. disk'[s] \in {disk[s], disk[s] \ Workdir}
        BY <4>1
      <4>3. "keys" \notin Workdir
        BY DEF Workdir
      <4> QED
        BY <4>1, <4>2, <4>3
    <3>3. job'[s] = job[s] \/ (job[s] = "queued" /\ job'[s] = "cancelled")
      BY <3>1 DEF Cancel, CancelRacesJob, CancelJob
    <3>4. state' = state
      BY <3>2, <3>3 DEF JobState
    <3> QED
      BY <3>2, <3>4
  <2>6. CASE \E r \in Requests : TakeJob(r)
    <3>1. PICK r \in Requests : TakeJob(r)
      BY <2>6
    <3>2. UNCHANGED <<stage, disk>>
      BY <3>1 DEF TakeJob
    <3>3. CASE s # r
      BY <2>2, <3>1, <3>2, <3>3 DEF TakeJob
    <3>4. CASE s = r
      <4>1. queue # <<>> /\ s = Head(queue) /\ job'[s] \in {"none", "running"}
        BY <3>1, <3>4 DEF TakeJob
      <4>2. 1 \in 1..Len(queue) /\ queue[1] = s
        BY <4>1, HeadTailProperties
      <4>3. job[s] \in {"queued", "cancelled"}
        BY <4>2 DEF QueueIsPendingJobs
      <4> QED
        BY <3>2, <4>1, <4>3 DEF JobState
    <3> QED
      BY <3>3, <3>4
  <2>7. CASE \E r \in Requests : FetchKeys(r) \/ ReleaseKeys(r)
    <3>1. PICK r \in Requests : FetchKeys(r) \/ ReleaseKeys(r)
      BY <2>7
    <3>2. job[r] = "running" /\ UNCHANGED <<stage, job>>
      BY <3>1 DEF FetchKeys, ReleaseKeys
    <3>3. s # r => disk'[s] = disk[s]
      BY <3>1 DEF FetchKeys, ReleaseKeys
    <3>4. CASE s = r /\ stage[s] = "sign"
      BY <3>2, <3>4 DEF JobState
    <3>5. CASE s = r /\ stage[s] # "sign"
      <4>1. "keys" \in disk[s] => pc[s] = "crashed"
        BY <3>2, <3>5 DEF KeysHaveAnOwner
      <4>2. "keys" \notin disk[s] /\ ReleaseKeys(s)
        BY <3>1, <3>2, <3>5, <4>1 DEF FetchKeys, HandlerAndJob
      <4> QED
        BY <4>2 DEF ReleaseKeys
    <3> QED
      BY <2>2, <3>2, <3>3, <3>4, <3>5
  <2>8. CASE \E r \in Requests : UnpackKeys(r) \/ RemakeWorkdir(r)
    BY <2>2, <2>8 DEF UnpackKeys, RemakeWorkdir
  <2>9. CASE \E r \in Requests : Finish(r)
    <3>1. PICK r \in Requests, v \in {"true", "false", "raised"} : EndJob(r, v)
      BY <2>9 DEF Finish
    <3>2. CASE s # r
      BY <2>2, <3>1, <3>2 DEF EndJob
    <3>3. CASE s = r
      <4>1. /\ job[s] = "running" /\ job'[s] = v /\ UNCHANGED <<stage, disk>>
            /\ v \in {"true", "false"} => "keys" \notin disk[s]
        BY <3>1, <3>3 DEF EndJob
      <4> QED
        BY <4>1 DEF JobState
    <3> QED
      BY <3>2, <3>3
  <2>10. CASE \E r \in Requests : Collect(r)
    <3>1. PICK r \in Requests : Collect(r)
      BY <2>10
    <3>2. CASE s # r
      BY <2>2, <3>1, <3>2 DEF Collect
    <3>3. CASE s = r
      <4>1. /\ job[s] = "raised" /\ pc[s] # "crashed" /\ "keys" \in disk[s]
            /\ "keys" \notin disk'[s] /\ UNCHANGED <<stage, job>>
        BY <3>1, <3>3 DEF Collect, Ended
      <4>2. stage[s] = "sign"
        BY <4>1 DEF KeysHaveAnOwner
      <4> QED
        BY <4>1, <4>2 DEF JobState
    <3> QED
      BY <3>2, <3>3
  <2>11. CASE Crash
    <3>1. job'[s] = "none" /\ stage'[s] = stage[s]
          /\ ("keys" \in disk'[s] <=> "keys" \in disk[s])
      BY <2>11, CrashOf
    <3> QED
      BY <3>1 DEF JobState
  <2>12. CASE UNCHANGED vars
    BY <2>2, <2>12 DEF vars
  <2> QED
    BY <2>3, <2>4, <2>5, <2>6, <2>7, <2>8, <2>9, <2>10, <2>11, <2>12 DEF Next, Ends,
       Streams, Handle
<1> QED
  BY <1>1, <1>2, Invariance, PTL DEF Spec, JobsAreSigning
=============================================================================
