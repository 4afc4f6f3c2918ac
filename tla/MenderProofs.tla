---------------------------- MODULE MenderProofs -----------------------------
(***************************************************************************)
(* Proofs about MenderStore.  With either scheme an artifact once signed   *)
(* is not found unsigned again.  With s3, any number of requests, retries, *)
(* abandoned jobs, crashes and new artifacts leave the client with what it *)
(* was promised, as far as no job is late; and the URI implements          *)
(* ArtifactStore, which says what late ones may do.                        *)
(***************************************************************************)
EXTENDS MenderStore, TLAPS

\* The two forms of an artifact and the torn one are different things.
LEMMA FormsDiffer ==
  ASSUME NEW v, NEW w
  PROVE  Unsigned(v) # Signed(w) /\ Unsigned(v) # Torn /\ Signed(v) # Torn
BY DEF Unsigned, Signed, Torn, Content

\* Every artifact of the client's is one of the contents.
LEMMA FormsAreContents ==
  ASSUME NEW v \in 1..MaxVersions
  PROVE  {Unsigned(v), Signed(v), Torn} \subseteq Contents
BY DEF Unsigned, Signed, Torn, Content, Contents

\* The invariant holds initially.
LEMMA InitIInv == Init => IInv
<1> SUFFICES ASSUME Init PROVE IInv
  OBVIOUS
<1>1. 1 \in 1..MaxVersions
  BY MenderAssumption
<1>a. Unsigned(1) \in Contents /\ Torn \in Contents
  BY <1>1, FormsAreContents
<1>2. TypeOK
  <2>1. store \in Contents /\ latest \in 1..MaxVersions /\ crashes \in 0..MaxCrashes
    BY <1>1, <1>a, MenderAssumption DEF Init
  <2>2. copy \in [Requests -> Contents] /\ mixed = {}
    BY <1>a DEF Init
  <2> QED
    BY <2>1, <2>2 DEF Init, TypeOK, Over
<1>3. store # Torn
  BY FormsDiffer DEF Init
<1> QED
  BY <1>2, <1>3 DEF Init, IInv, JobsSign, ResultsSigned

\* The types are preserved by every step.
LEMMA StepTypeOK == TypeOK /\ [Next]_vars => TypeOK'
<1> SUFFICES ASSUME TypeOK, [Next]_vars PROVE TypeOK'
  OBVIOUS
<1> USE DEF TypeOK, Over, Running, Transfers
<1>t. \A v \in 1..MaxVersions : {Unsigned(v), Signed(v), Torn} \subseteq Contents
  BY FormsAreContents
<1>1. ASSUME NEW r \in Requests, Retry(r) PROVE TypeOK'
  BY <1>1 DEF Retry
<1>2. ASSUME NEW r \in Requests, TurnDown(r) PROVE TypeOK'
  BY <1>2 DEF TurnDown, Answers
<1>3. ASSUME NEW r \in Requests, Accept(r) PROVE TypeOK'
  BY <1>3 DEF Accept
<1>4. ASSUME NEW r \in Requests, Answer(r) PROVE TypeOK'
  BY <1>4 DEF Answer, Answers
<1>5. ASSUME NEW r \in Requests, Cancel(r) \/ CancelRacesJob(r) PROVE TypeOK'
  BY <1>5 DEF Cancel, CancelRacesJob, Answers
<1>6. ASSUME NEW r \in Requests, BeginFetch(r) PROVE TypeOK'
  BY <1>6 DEF BeginFetch
<1>7. ASSUME NEW r \in Requests, EndFetch(r) PROVE TypeOK'
  <2>1. PICK c \in {copy[r], store, Torn} : copy' = [copy EXCEPT ![r] = c]
    BY <1>7 DEF EndFetch
  <2>2. c \in Contents
    BY <2>1, <1>t
  <2> QED
    BY <1>7, <2>1, <2>2 DEF EndFetch
<1>8. ASSUME NEW r \in Requests, FetchFails(r) \/ SignFails(r) \/ NothingToUpload(r)
      PROVE  TypeOK'
  BY <1>8, <1>t DEF FetchFails, SignFails, NothingToUpload, JobEnds
<1>9. ASSUME NEW r \in Requests, SignCopy(r) PROVE TypeOK'
  <2>1. copy[r].version \in 1..MaxVersions
    BY <1>9 DEF SignCopy, Contents
  <2>2. Signed(copy[r].version) \in Contents
    BY <2>1, <1>t
  <2> QED
    BY <1>9, <2>2 DEF SignCopy
<1>10. ASSUME NEW r \in Requests, BeginUpload(r) PROVE TypeOK'
  <2>1. store' \in Contents
    BY <1>10, <1>t, MenderAssumption DEF BeginUpload
  <2>2. mixed' \subseteq {q \in Requests : job'[q] \in Transfers}
    BY <1>10 DEF BeginUpload, Disturb
  <2> QED
    BY <1>10, <2>1, <2>2 DEF BeginUpload
<1>11. ASSUME NEW r \in Requests, EndUpload(r) \/ UploadFails(r) PROVE TypeOK'
  BY <1>11, <1>t DEF EndUpload, UploadFails, JobEnds, Disturb
<1>12. ASSUME Put PROVE TypeOK'
  <2>1. latest' \in 1..MaxVersions
    BY <1>12, MenderAssumption DEF Put
  <2>2. store' \in Contents
    BY <1>12, <2>1, <1>t DEF Put
  <2> QED
    BY <1>12, <2>1, <2>2 DEF Put
<1>13. ASSUME Crash PROVE TypeOK'
  <2>1. crashes' \in 0..MaxCrashes
    BY <1>13, MenderAssumption DEF Crash
  <2> QED
    BY <1>13, <1>t, <2>1 DEF Crash, Answers
<1>14. ASSUME UNCHANGED vars PROVE TypeOK'
  BY <1>14 DEF vars
<1> QED
  BY <1>1, <1>2, <1>3, <1>4, <1>5, <1>6, <1>7, <1>8, <1>9, <1>10, <1>11, <1>12, <1>13, <1>14
     DEF Next

\* JobsSign is inductive.
LEMMA StepJobsSign == TypeOK /\ JobsSign /\ [Next]_vars => JobsSign'
<1> SUFFICES ASSUME TypeOK, JobsSign, [Next]_vars PROVE JobsSign'
  OBVIOUS
<1> USE DEF TypeOK, JobsSign
<1>1. ASSUME NEW r \in Requests,
             \/ Retry(r) \/ TurnDown(r) \/ Accept(r) \/ Answer(r) \/ Cancel(r)
             \/ CancelRacesJob(r) \/ BeginFetch(r) \/ EndFetch(r)
      PROVE  JobsSign'
  BY <1>1 DEF Retry, TurnDown, Accept, Answer, Cancel, CancelRacesJob, BeginFetch, EndFetch
<1>2. ASSUME NEW r \in Requests,
             \/ FetchFails(r) \/ SignFails(r) \/ NothingToUpload(r)
             \/ EndUpload(r) \/ UploadFails(r)
      PROVE  JobsSign'
  BY <1>2 DEF FetchFails, SignFails, NothingToUpload, EndUpload, UploadFails, JobEnds
<1>3. ASSUME NEW r \in Requests, SignCopy(r) \/ BeginUpload(r) PROVE JobsSign'
  BY <1>3 DEF SignCopy, BeginUpload, Signed, Content
<1>4. ASSUME Put \/ Crash \/ UNCHANGED vars PROVE JobsSign'
  BY <1>4 DEF Put, Crash, vars
<1> QED
  BY <1>1, <1>2, <1>3, <1>4 DEF Next

-----------------------------------------------------------------------------
\* The steps that do not touch the store, nor end a job with success.
AwayFromStore(r) ==
  \/ Retry(r) \/ TurnDown(r) \/ Accept(r) \/ Cancel(r) \/ CancelRacesJob(r)
  \/ BeginFetch(r) \/ EndFetch(r) \/ FetchFails(r) \/ SignCopy(r) \/ SignFails(r)
  \/ NothingToUpload(r)

\* The invariant is preserved, if the artifact is in s3.
LEMMA StepIInv ==
  ASSUME Scheme = "s3", IInv, [Next]_vars
  PROVE  IInv'
<1>t. TypeOK /\ TypeOK' /\ JobsSign /\ JobsSign'
  BY StepTypeOK, StepJobsSign DEF IInv
<1> USE DEF TypeOK
<1>s. \A v : Signed(v).form = "signed" /\ Unsigned(v) # Torn
  BY FormsDiffer DEF Signed, Content
<1>f. Torn.form = "torn"
  BY DEF Torn, Content
<1> DEFINE Rest == /\ store' # Torn /\ ResultsSigned'
                   /\ promised' => store'.form = "signed"
<1>1. ASSUME NEW r \in Requests, AwayFromStore(r) PROVE Rest
  <2>1. UNCHANGED <<store, promised>>
    BY <1>1 DEF AwayFromStore, Retry, TurnDown, Accept, Cancel, CancelRacesJob, BeginFetch,
       EndFetch, FetchFails, SignCopy, SignFails, NothingToUpload
  <2>2. \A q \in Requests : client'[q] = "waiting" /\ job'[q] = "true"
                            => client[q] = "waiting" /\ job[q] = "true"
    BY <1>1, <1>t DEF AwayFromStore, Retry, TurnDown, Accept, Cancel, CancelRacesJob,
       BeginFetch, EndFetch, FetchFails, SignCopy, SignFails, NothingToUpload, JobEnds, Over
  <2> QED
    BY <2>1, <2>2 DEF IInv, ResultsSigned
<1>2. ASSUME NEW r \in Requests, Answer(r) PROVE Rest
  <2>1. store' = store /\ job' = job
        /\ \A q \in Requests : client'[q] = "waiting" => client[q] = "waiting"
    BY <1>2, <1>t DEF Answer
  <2>2. promised' => promised \/ (client[r] = "waiting" /\ job[r] = "true")
    BY <1>2, <1>t DEF Answer
  <2> QED
    BY <2>1, <2>2 DEF IInv, ResultsSigned
<1>3. ASSUME NEW r \in Requests, BeginUpload(r) PROVE Rest
  <2>1. UNCHANGED <<store, client, promised>>
        /\ \A q \in Requests : job'[q] = "true" => job[q] = "true"
    BY <1>3, <1>t DEF BeginUpload
  <2> QED
    BY <2>1 DEF IInv, ResultsSigned
<1>4. ASSUME NEW r \in Requests, EndUpload(r) \/ UploadFails(r) PROVE Rest
  <2>1. /\ job[r] = "writing" /\ store' \in {store, copy[r]}
        /\ EndUpload(r) => store' = copy[r]
        /\ UNCHANGED <<client, promised>>
    BY <1>4 DEF EndUpload, UploadFails
  <2>2. copy[r].form = "signed"
    BY <2>1 DEF IInv, JobsSign
  <2>3. \A q \in Requests : job'[q] = "true" => job[q] = "true" \/ EndUpload(r)
    BY <1>4, <1>t DEF UploadFails, JobEnds
  <2> QED
    BY <1>f, <2>1, <2>2, <2>3 DEF IInv, ResultsSigned
<1>5. ASSUME Put PROVE Rest
  BY <1>5, <1>s DEF Put, ResultsSigned
<1>6. ASSUME Crash PROVE Rest
  <2>1. UNCHANGED <<store, promised>> /\ \A q \in Requests : job'[q] # "true"
    BY <1>6 DEF Crash
  <2> QED
    BY <2>1 DEF IInv, ResultsSigned
<1>7. ASSUME UNCHANGED vars PROVE Rest
  BY <1>7 DEF vars, IInv, ResultsSigned
<1> QED
  BY <1>t, <1>1, <1>2, <1>3, <1>4, <1>5, <1>6, <1>7 DEF Next, AwayFromStore, IInv

-----------------------------------------------------------------------------
\* Types hold for either scheme and any client.
THEOREM TypeCorrect == Spec => []TypeOK
<1>1. Init => TypeOK
  BY InitIInv DEF IInv
<1> QED
  BY <1>1, StepTypeOK, PTL DEF Spec

\* The inductive invariant, with s3: nothing unsigned is written, nor answered
\* for with 200.
THEOREM Invariance ==
  ASSUME Scheme = "s3"
  PROVE  Spec => []IInv
<1>1. IInv /\ [Next]_vars => IInv'
  BY StepIInv
<1> QED
  BY <1>1, InitIInv, PTL DEF Spec

\* Where no job is late, no step of another request, of an abandoned job or of
\* a crash makes one late, or puts anything but the signed latest artifact there.
LEMMA SettledStep ==
  ASSUME Scheme = "s3", IInv, Settled, Next
  PROVE  Settled' \/ latest' > latest
<1> USE DEF IInv, TypeOK, Settled, Late, Running, Transfers
<1>1. Torn.version = 0 /\ \A v : Signed(v).version = v
  BY DEF Torn, Signed, Content
<1>2. ASSUME NEW r \in Requests, AwayFromStore(r) \/ Answer(r) PROVE Settled'
  <2>1. UNCHANGED <<store, latest>>
    BY <1>2 DEF AwayFromStore, Retry, TurnDown, Accept, Answer, Cancel, CancelRacesJob,
       BeginFetch, EndFetch, FetchFails, SignCopy, SignFails, NothingToUpload
  <2>2. \A q \in Requests : q # r => job'[q] = job[q] /\ copy'[q] = copy[q]
    BY <1>2 DEF AwayFromStore, Retry, TurnDown, Accept, Answer, Cancel, CancelRacesJob,
       BeginFetch, EndFetch, FetchFails, SignCopy, SignFails, NothingToUpload, JobEnds
  <2>3. CASE BeginFetch(r) \/ EndFetch(r)
    <3>1. copy'[r] \in {copy[r], store, Torn} /\ (BeginFetch(r) => copy'[r] = store)
          /\ (EndFetch(r) => job[r] = "fetching")
      BY <2>3 DEF BeginFetch, EndFetch
    <3>2. copy'[r].version \in {0, latest}
      BY <1>1, <2>3, <3>1
    <3> QED
      BY <2>1, <2>2, <3>2
  <2>4. CASE SignCopy(r)
    <3>1. job[r] = "signing" /\ copy'[r].version = copy[r].version
      BY <1>1, <2>4 DEF SignCopy
    <3> QED
      BY <2>1, <2>2, <3>1
  <2>5. CASE FetchFails(r) \/ SignFails(r) \/ NothingToUpload(r)
    <3>1. copy'[r].version = 0
      BY <1>1, <2>5 DEF FetchFails, SignFails, NothingToUpload, JobEnds
    <3> QED
      BY <2>1, <2>2, <3>1
  <2>6. CASE Retry(r) \/ TurnDown(r) \/ Accept(r) \/ Answer(r) \/ Cancel(r) \/ CancelRacesJob(r)
    <3>1. copy' = copy /\ (job'[r] = job[r] \/ job'[r] \in {"queued", "none"})
      BY <2>6 DEF Retry, TurnDown, Accept, Answer, Cancel, CancelRacesJob
    <3> QED
      BY <2>1, <2>2, <3>1
  <2> QED
    BY <1>2, <2>3, <2>4, <2>5, <2>6 DEF AwayFromStore
<1>3. ASSUME NEW r \in Requests, BeginUpload(r) PROVE Settled'
  BY <1>3 DEF BeginUpload
<1>4. ASSUME NEW r \in Requests, EndUpload(r) \/ UploadFails(r) PROVE Settled'
  <2>1. /\ job[r] = "writing" /\ store' \in {store, copy[r]} /\ latest' = latest
        /\ \A q \in Requests : q # r => job'[q] = job[q] /\ copy'[q] = copy[q]
        /\ job'[r] \in {"true", "failed"}
    BY <1>4 DEF EndUpload, UploadFails, JobEnds
  <2>2. copy[r].form = "signed" /\ copy[r].version \in {0, latest}
    BY <2>1 DEF JobsSign
  <2>3. copy[r].version = latest
    BY <2>2 DEF Contents, Torn, Content
  <2> QED
    BY <2>1, <2>3
<1>5. ASSUME Put PROVE latest' > latest
  BY <1>5 DEF Put
<1>6. ASSUME Crash PROVE Settled'
  <2>1. UNCHANGED <<store, latest>>
        /\ \A q \in Requests : job'[q] = "none" \/ (job'[q] = job[q] /\ copy'[q] = copy[q])
    BY <1>6 DEF Crash
  <2> QED
    BY <2>1
<1> QED
  BY <1>2, <1>3, <1>4, <1>5, <1>6 DEF Next, AwayFromStore

\* Once no job is late a 200 stands until the client's next artifact, whatever
\* the other requests for it, their abandoned jobs and crashes do.
THEOREM PromisesStand ==
  ASSUME Scheme = "s3"
  PROVE  Spec => PromiseStands
<1>1. IInv => (promised /\ Settled => store = Signed(latest))
  BY DEF IInv, TypeOK, Settled, Contents, Torn, Signed, Content
<1>2. IInv /\ [Next]_vars => [promised /\ Settled => Settled' \/ latest' > latest]_vars
  BY SettledStep
<1> QED
  BY <1>1, <1>2, Invariance, PTL DEF Spec, PromiseStands

\* A signed artifact is never found unsigned again, with either scheme.
THEOREM SignedForGood == Spec => NeverUnsignedAgain
<1> DEFINE A == store.form # "unsigned" /\ store'.form = "unsigned" => latest' > latest
<1>1. Init => JobsSign
  BY DEF Init, JobsSign
<1>2. TypeOK /\ JobsSign /\ [Next]_vars => [A]_vars
  <2> SUFFICES ASSUME TypeOK, JobsSign, Next PROVE A
    OBVIOUS
  <2>1. ASSUME store' = store PROVE A
    BY <2>1
  <2>2. ASSUME store' = Torn PROVE A
    BY <2>2 DEF Torn, Content
  <2>3. ASSUME NEW r \in Requests, job[r] = "writing", store' = copy[r] PROVE A
    BY <2>3 DEF JobsSign
  <2>4. ASSUME NEW r \in Requests, EndUpload(r) \/ UploadFails(r) PROVE A
    BY <2>1, <2>2, <2>3, <2>4 DEF EndUpload, UploadFails
  <2>5. ASSUME NEW r \in Requests, BeginUpload(r) PROVE A
    BY <2>1, <2>2, <2>5 DEF BeginUpload
  <2>6. ASSUME Put PROVE A
    BY <2>6 DEF Put, TypeOK
  <2>7. ASSUME NEW r \in Requests,
               \/ Retry(r) \/ TurnDown(r) \/ Accept(r) \/ Answer(r) \/ Cancel(r)
               \/ CancelRacesJob(r) \/ BeginFetch(r) \/ EndFetch(r) \/ FetchFails(r)
               \/ SignCopy(r) \/ SignFails(r) \/ NothingToUpload(r)
        PROVE  A
    <3>1. store' = store
      BY <2>7 DEF Retry, TurnDown, Accept, Answer, Cancel, CancelRacesJob, BeginFetch,
                  EndFetch, FetchFails, SignCopy, SignFails, NothingToUpload
    <3> QED BY <3>1
  <2>8. ASSUME Crash PROVE A
    BY <2>8 DEF Crash
  <2> QED
    BY <2>4, <2>5, <2>6, <2>7, <2>8 DEF Next
<1> QED
  BY <1>1, <1>2, StepJobsSign, InitIInv, StepTypeOK, TypeCorrect, PTL
     DEF Spec, NeverUnsignedAgain

-----------------------------------------------------------------------------
\* The URI implements ArtifactStore, with s3.
THEOREM Implements ==
  ASSUME Scheme = "s3"
  PROVE  Spec => KeepsArtifact
<1> DEFINE found == IF store.version = latest THEN store.form ELSE "another"
           late == \E r \in Requests : Late(r)
<1>u. \A v : Unsigned(v).version = v /\ Unsigned(v).form = "unsigned"
  BY DEF Unsigned, Content
<1>1. Init => Uri!Init
  <2> SUFFICES ASSUME Init PROVE found = "unsigned" /\ promised = FALSE /\ ~late
    BY DEF Uri!Init
  <2> QED
    BY <1>u DEF Init, Late, Running, Transfers
<1>2. IInv /\ [Next]_vars => [Uri!Next]_(Uri!storeVars)
  <2> SUFFICES ASSUME IInv, [Next]_vars
               PROVE  \/ found' = "signed" /\ UNCHANGED <<promised, late>>
                      \/ found # "unsigned" /\ promised' = TRUE /\ UNCHANGED <<found, late>>
                      \/ found' = "unsigned" /\ promised' = FALSE
                      \/ late /\ found' = "another" /\ UNCHANGED promised
                      \/ found = "another" /\ late' = TRUE /\ UNCHANGED <<found, promised>>
                      \/ late' = FALSE /\ UNCHANGED <<found, promised>>
                      \/ UNCHANGED <<found, promised, late>>
    BY DEF Uri!Next, Uri!Sign, Uri!Promise, Uri!Replace, Uri!Spoil, Uri!Spread, Uri!Pass,
       Uri!storeVars
  <2>t. TypeOK
    BY DEF IInv
  \* A step that leaves the store alone makes a job late only by fetching
  \* another artifact.
  <2>1. ASSUME UNCHANGED <<store, latest, promised>>,
               found # "another" => \A q \in Requests : Late(q)' => Late(q)
        PROVE  \/ found = "another" /\ late' = TRUE /\ UNCHANGED <<found, promised>>
               \/ late' = FALSE /\ UNCHANGED <<found, promised>>
               \/ UNCHANGED <<found, promised, late>>
    <3>1. late \in BOOLEAN /\ late' \in BOOLEAN /\ UNCHANGED <<found, promised>>
      BY <2>1
    <3>2. found # "another" => (late' => late)
      BY <2>1
    <3> QED
      BY <3>1, <3>2
  <2>2. ASSUME NEW r \in Requests, AwayFromStore(r)
        PROVE  /\ UNCHANGED <<store, latest, promised>>
               /\ found # "another" => \A q \in Requests : Late(q)' => Late(q)
    <3>1. UNCHANGED <<store, latest, promised>>
      BY <2>2 DEF AwayFromStore, Retry, TurnDown, Accept, Cancel, CancelRacesJob,
         BeginFetch, EndFetch, FetchFails, SignCopy, SignFails, NothingToUpload
    <3>2. ASSUME NEW q \in Requests, q # r PROVE Late(q)' <=> Late(q)
      <4>1. job'[q] = job[q] /\ copy'[q] = copy[q]
        BY <2>2, <3>2, <2>t DEF AwayFromStore, Retry, TurnDown, Accept, Cancel,
           CancelRacesJob, BeginFetch, EndFetch, FetchFails, SignCopy, SignFails,
           NothingToUpload, JobEnds, TypeOK
      <4> QED
        BY <3>1, <4>1 DEF Late
    <3>3. ASSUME found # "another" PROVE Late(r)' => Late(r)
      <4>1. store.version = latest
        BY <3>3, <2>t DEF TypeOK, Contents, Torn, Content
      <4>2. CASE BeginFetch(r) \/ EndFetch(r) \/ SignCopy(r)
        <5>1. \/ copy'[r].version \in {0, latest}
              \/ copy'[r].version = copy[r].version /\ job[r] \in Running
          BY <4>1, <4>2, <2>t DEF BeginFetch, EndFetch, SignCopy, TypeOK, Torn, Signed,
             Content, Running, Transfers
        <5> QED
          BY <3>1, <5>1 DEF Late
      <4>3. CASE ~(BeginFetch(r) \/ EndFetch(r) \/ SignCopy(r))
        <5>1. \/ job'[r] \notin Running
              \/ job'[r] = job[r] /\ copy'[r] = copy[r]
          BY <2>2, <4>3, <2>t DEF AwayFromStore, Retry, TurnDown, Accept, Cancel,
             CancelRacesJob, FetchFails, SignFails, NothingToUpload, JobEnds, TypeOK,
             Running, Transfers
        <5> QED
          BY <3>1, <5>1 DEF Late
      <4> QED
        BY <4>2, <4>3
    <3> QED
      BY <3>1, <3>2, <3>3
  <2>3. ASSUME NEW r \in Requests, Answer(r)
        PROVE  \/ found # "unsigned" /\ promised' = TRUE /\ UNCHANGED <<found, late>>
               \/ UNCHANGED <<found, promised, late>>
    <3>1. UNCHANGED <<store, latest, job, copy>>
      BY <2>3 DEF Answer
    <3>2. late' = late /\ found' = found
      BY <3>1 DEF Late
    <3>3. CASE job[r] = "true"
      <4>1. store.form = "signed" /\ promised' = TRUE
        BY <2>3, <3>3 DEF Answer, IInv, ResultsSigned
      <4> QED
        BY <3>2, <4>1
    <3>4. CASE job[r] # "true"
      BY <2>3, <3>2, <3>4, <2>t DEF Answer, TypeOK
    <3> QED
      BY <3>3, <3>4
  <2>4. ASSUME NEW r \in Requests, BeginUpload(r) PROVE UNCHANGED <<found, promised, late>>
    <3>1. UNCHANGED <<store, latest, copy, promised>>
          /\ \A q \in Requests : job'[q] \in Running <=> job[q] \in Running
      BY <2>4, <2>t DEF BeginUpload, TypeOK, Running, Transfers
    <3> QED
      BY <3>1 DEF Late
  <2>5. ASSUME NEW r \in Requests, EndUpload(r) \/ UploadFails(r)
        PROVE  \/ found' = "signed" /\ UNCHANGED <<promised, late>>
               \/ late /\ found' = "another" /\ UNCHANGED promised
               \/ late' = FALSE /\ UNCHANGED <<found, promised>>
               \/ UNCHANGED <<found, promised, late>>
    <3>1. /\ job[r] = "writing" /\ UNCHANGED <<latest, promised>>
          /\ store' \in {store, copy[r]}
          /\ job'[r] \notin Running
          /\ \A q \in Requests : q # r => job'[q] = job[q] /\ copy'[q] = copy[q]
      BY <2>5, <2>t DEF EndUpload, UploadFails, JobEnds, TypeOK, Running, Transfers
    <3>2. copy[r].form = "signed" /\ copy[r] \in Contents
      BY <3>1, <2>t DEF IInv, JobsSign, TypeOK
    <3>3. \A q \in Requests : q # r => (Late(q)' <=> Late(q))
      BY <3>1 DEF Late
    <3>4. ~Late(r)'
      BY <3>1 DEF Late
    <3>5. CASE Late(r) /\ store' = copy[r]
      <4>1. late /\ found' = "another"
        BY <3>1, <3>5 DEF Late
      <4> QED
        BY <3>1, <4>1
    <3>6. CASE ~Late(r) /\ store' = copy[r]
      <4>1. copy[r].version = latest
        BY <3>1, <3>2, <3>6 DEF Late, Running, Transfers, Contents, Torn, Content
      <4>2. found' = "signed"
        BY <3>1, <3>2, <3>6, <4>1
      <4>3. late' = late
        BY <3>3, <3>4, <3>6
      <4> QED
        BY <3>1, <4>2, <4>3
    <3>7. CASE store' = store
      <4>1. found' = found
        BY <3>1, <3>7
      <4>2. late' => late
        BY <3>3, <3>4
      <4> QED
        BY <3>1, <4>1, <4>2
    <3> QED
      BY <3>1, <3>5, <3>6, <3>7
  <2>6. ASSUME Put PROVE found' = "unsigned" /\ promised' = FALSE
    BY <1>u, <2>6 DEF Put
  <2>7. ASSUME Crash \/ UNCHANGED vars
        PROVE  /\ UNCHANGED <<store, latest, promised>>
               /\ \A q \in Requests : Late(q)' => Late(q)
    <3>1. UNCHANGED <<store, latest, promised>>
          /\ \A q \in Requests : job'[q] = "none" \/ (job'[q] = job[q] /\ copy'[q] = copy[q])
      BY <2>7, <2>t DEF Crash, vars
    <3> QED
      BY <3>1 DEF Late, Running, Transfers
  <2> QED
    BY <2>1, <2>2, <2>3, <2>4, <2>5, <2>6, <2>7 DEF Next, AwayFromStore
<1> QED
  BY <1>1, <1>2, Invariance, PTL DEF Spec, KeepsArtifact, Uri!Spec
=============================================================================
