------------------------ MODULE ReturnedFilesProofs ------------------------
(***************************************************************************)
(* Theorems about ReturnedFiles, for any releases of the BSP and whatever  *)
(* of the modelled files the clients send and the tools leave.             *)
(***************************************************************************)
EXTENDS ReturnedFiles, TLAPS

Methods == {"sign", "bupgen", "signfiles", "multisign", "rk-fit"}

\* What a run of the flash helper may have made.
Makings == {<<"image", "signed">>, Payload} \cup Leavings

\* Where the methods are, and what is then in the directory.
SignInStep ==
  \/ /\ todo = <<"prepare", "list", "run", "remove">>
     /\ dir = sent /\ made = {}
  \/ /\ todo = <<"list", "run", "remove">>
     /\ dir = sent \cup ScriptEntries /\ made = {}
  \/ /\ todo = <<"run", "remove">>
     /\ listed = sent \cup ScriptEntries /\ dir = listed /\ made = {}
  \/ /\ todo = <<"remove">>
     /\ listed = sent \cup ScriptEntries /\ dir = listed \cup made /\ made \subseteq Makings
  \/ /\ todo = <<>>
     /\ listed = sent \cup ScriptEntries /\ made \subseteq Makings
     /\ method = "sign" => dir = made \ (listed \cup Housekeeping)
     /\ method = "bupgen" => dir = (sent \cup made) \cap {Payload}

Signatures == {Sig(f) : f \in sent}

SignfilesInStep ==
  \/ /\ todo = <<"list", "prepare", "run", "remove">>
     /\ dir = sent
  \/ /\ todo = <<"prepare", "run", "remove">>
     /\ listed = sent
  \/ /\ todo = <<"run", "remove">>
     /\ listed = sent
  \/ /\ todo = <<"remove">>
     /\ listed = sent /\ Signatures \subseteq dir \cap made
  \/ /\ todo = <<>>
     /\ dir = Signatures /\ Signatures \subseteq made

MultisignInStep ==
  /\ made \subseteq Makings
  /\ \/ todo \in {<<"prepare", "run", "run", "remove">>, <<"run", "run", "remove">>,
                  <<"run", "remove">>, <<"remove">>}
        /\ sent \cup made \subseteq dir /\ dir \subseteq sent \cup ScriptEntries \cup made
     \/ todo = <<>> /\ dir = (sent \cup made) \cap {Payload}

FitInStep == todo \in {<<"run">>, <<>>} /\ made \subseteq dir

InStep ==
  /\ method \in {"sign", "bupgen"} => SignInStep
  /\ method = "signfiles" => SignfilesInStep
  /\ method = "multisign" => MultisignInStep
  /\ method = "rk-fit" => FitInStep

IInv ==
  /\ method \in Methods \cup {"idle"}
  /\ method = "idle" => todo = <<>> /\ made = {} /\ reply = "none"
  /\ reply \in {"none", "200", "500"}
  /\ reply # "500" => InStep
  /\ reply = "200" => todo = <<>>

-----------------------------------------------------------------------------
\* The initial states satisfy the invariant.
LEMMA InitIInv == Init => IInv
  BY DEF Init, IInv, InStep

\* The scripts and their links never have the name of a result.
LEMMA ScriptsAreNoResults == Makings \cap ScriptEntries = {}
  BY DEF Makings, Leavings, Payload, ScriptEntries, Links

\* What a BUP run keeps is none of the scripts.
LEMMA PayloadIsNoScript == Payload \notin ScriptEntries
  BY ScriptsAreNoResults DEF Makings

\* The first and the other steps of the lists that occur (with what follows
\* the first, written out).
LEMMA Lists ==
  /\ \A t \in {<<"prepare", "list", "run", "remove">>, <<"prepare", "run", "remove">>,
               <<"prepare", "run", "run", "remove">>} :
       Head(t) = "prepare" /\ t # <<>>
  /\ \A t \in {<<"list", "run", "remove">>, <<"list", "prepare", "run", "remove">>} :
       Head(t) = "list" /\ t # <<>>
  /\ \A t \in {<<"run", "remove">>, <<"run", "run", "remove">>, <<"run">>} :
       Head(t) = "run" /\ t # <<>>
  /\ Head(<<"remove">>) = "remove" /\ <<"remove">> # <<>>
  /\ Tail(<<"prepare", "list", "run", "remove">>) = <<"list", "run", "remove">>
  /\ Tail(<<"prepare", "run", "run", "remove">>) = <<"run", "run", "remove">>
  /\ Tail(<<"prepare", "run", "remove">>) = <<"run", "remove">>
  /\ Tail(<<"list", "prepare", "run", "remove">>) = <<"prepare", "run", "remove">>
  /\ Tail(<<"list", "run", "remove">>) = <<"run", "remove">>
  /\ Tail(<<"run", "run", "remove">>) = <<"run", "remove">>
  /\ Tail(<<"run", "remove">>) = <<"remove">>
  /\ Tail(<<"run">>) = <<>>
  /\ Tail(<<"remove">>) = <<>>
  OBVIOUS

\* So does the beginning of a request.
LEMMA BeginIInv ==
  ASSUME IInv, NEW m \in Methods, Begin(m)
  PROVE  IInv'
<1>1. /\ method' = m /\ todo' = Steps(m) /\ dir' = sent' /\ made' = {} /\ reply' = "none"
  BY DEF Begin, IInv
<1> QED
  BY <1>1 DEF Steps, IInv, Methods, InStep, SignInStep, SignfilesInStep,
     MultisignInStep, FitInStep

\* What the request says does not change.
LEMMA Fixed ==
  ASSUME UNCHANGED request
  PROVE  /\ ScriptEntries' = ScriptEntries /\ Signatures' = Signatures
         /\ Makings' = Makings /\ Housekeeping' = Housekeeping
  BY DEF request, ScriptEntries, Signatures, Makings, Leavings, Payload, Housekeeping,
     Links, EncryptedKernel, AtLeast

\* Making the scripts preserves the invariant.
LEMMA PrepareIInv ==
  ASSUME IInv, Prepare
  PROVE  IInv'
<1>1. /\ UNCHANGED <<soc, bsp, method, sent, listed, made, reply>>
      /\ reply = "none" /\ todo # <<>> /\ Head(todo) = "prepare" /\ todo' = Tail(todo)
      /\ dir' = dir \cup ScriptEntries
      /\ method \in Methods /\ InStep
  BY DEF Prepare, Does, request, IInv
<1>2. ScriptEntries' = ScriptEntries /\ Signatures' = Signatures /\ Makings' = Makings
  BY Fixed DEF Prepare
<1>3. CASE method \in {"sign", "bupgen"}
  <2>1. todo = <<"prepare", "list", "run", "remove">> /\ dir = sent /\ made = {}
    BY <1>1, <1>3, Lists DEF InStep, SignInStep
  <2> QED
    BY <1>1, <1>2, <1>3, <2>1, Lists DEF IInv, InStep, SignInStep
<1>4. CASE method = "signfiles"
  <2>1. todo = <<"prepare", "run", "remove">> /\ listed = sent
    BY <1>1, <1>4, Lists DEF InStep, SignfilesInStep
  <2> QED
    BY <1>1, <1>2, <1>4, <2>1, Lists DEF IInv, InStep, SignfilesInStep
<1>5. CASE method = "multisign"
  <2>1. /\ todo = <<"prepare", "run", "run", "remove">>
        /\ made \subseteq Makings /\ sent \cup made \subseteq dir
        /\ dir \subseteq sent \cup ScriptEntries \cup made
    BY <1>1, <1>5, Lists DEF InStep, MultisignInStep
  <2> QED
    BY <1>1, <1>2, <1>5, <2>1, Lists DEF IInv, InStep, MultisignInStep
<1>6. method # "rk-fit"
  BY <1>1, Lists DEF InStep, FitInStep
<1> QED
  BY <1>1, <1>3, <1>4, <1>5, <1>6 DEF Methods

\* Listing the directory preserves the invariant.
LEMMA ListIInv ==
  ASSUME IInv, List
  PROVE  IInv'
<1>1. /\ UNCHANGED <<soc, bsp, method, sent, made, dir, reply>>
      /\ reply = "none" /\ todo # <<>> /\ Head(todo) = "list" /\ todo' = Tail(todo)
      /\ listed' = dir
      /\ method \in Methods /\ InStep
  BY DEF List, Does, request, IInv
<1>2. ScriptEntries' = ScriptEntries /\ Signatures' = Signatures /\ Makings' = Makings
  BY Fixed DEF List
<1>3. CASE method \in {"sign", "bupgen"}
  <2>1. todo = <<"list", "run", "remove">> /\ dir = sent \cup ScriptEntries /\ made = {}
    BY <1>1, <1>3, Lists DEF InStep, SignInStep
  <2> QED
    BY <1>1, <1>2, <1>3, <2>1, Lists DEF IInv, InStep, SignInStep
<1>4. CASE method = "signfiles"
  <2>1. todo = <<"list", "prepare", "run", "remove">> /\ dir = sent
    BY <1>1, <1>4, Lists DEF InStep, SignfilesInStep
  <2> QED
    BY <1>1, <1>2, <1>4, <2>1, Lists DEF IInv, InStep, SignfilesInStep
<1>5. method \notin {"multisign", "rk-fit"}
  BY <1>1, Lists DEF InStep, MultisignInStep, FitInStep
<1> QED
  BY <1>1, <1>3, <1>4, <1>5 DEF Methods

\* A tool that succeeds preserves the invariant.
LEMMA RunIInv ==
  ASSUME IInv, Run
  PROVE  IInv'
<1> PICK out \in Outputs : dir' = dir \cup out /\ made' = made \cup out
  BY DEF Run
<1>1. /\ UNCHANGED <<soc, bsp, method, sent, listed, reply>>
      /\ reply = "none" /\ todo # <<>> /\ Head(todo) = "run" /\ todo' = Tail(todo)
      /\ method \in Methods /\ InStep
  BY DEF Run, Does, request, IInv
<1>2. ScriptEntries' = ScriptEntries /\ Signatures' = Signatures /\ Makings' = Makings
  BY Fixed DEF Run
<1>3. CASE method \in {"sign", "bupgen"}
  <2>1. out \subseteq Makings
    BY <1>3 DEF Outputs, Makings
  <2>2. /\ todo = <<"run", "remove">>
        /\ listed = sent \cup ScriptEntries /\ dir = listed /\ made = {}
    BY <1>1, <1>3, Lists DEF InStep, SignInStep
  <2> QED
    BY <1>1, <1>2, <1>3, <2>1, <2>2, Lists DEF IInv, InStep, SignInStep
<1>4. CASE method = "signfiles"
  <2>1. out = {Sig(f) : f \in listed}
    BY <1>4 DEF Outputs
  <2>2. todo = <<"run", "remove">> /\ listed = sent
    BY <1>1, <1>4, Lists DEF InStep, SignfilesInStep
  <2>3. Signatures' \subseteq dir' \cap made'
    BY <1>2, <2>1, <2>2 DEF Signatures
  <2> QED
    BY <1>1, <1>4, <2>2, <2>3, Lists DEF IInv, InStep, SignfilesInStep
<1>5. CASE method = "multisign"
  <2>1. out \subseteq Makings
    BY <1>5 DEF Outputs, Makings
  <2>2. /\ todo \in {<<"run", "run", "remove">>, <<"run", "remove">>}
        /\ made \subseteq Makings /\ sent \cup made \subseteq dir
        /\ dir \subseteq sent \cup ScriptEntries \cup made
    BY <1>1, <1>5, Lists DEF InStep, MultisignInStep
  <2>3. todo' \in {<<"run", "remove">>, <<"remove">>}
    BY <1>1, <2>2, Lists
  <2> QED
    BY <1>1, <1>2, <1>5, <2>1, <2>2, <2>3 DEF IInv, InStep, MultisignInStep
<1>6. CASE method = "rk-fit"
  <2>1. todo = <<"run">> /\ made \subseteq dir
    BY <1>1, <1>6, Lists DEF InStep, FitInStep
  <2> QED
    BY <1>1, <1>6, <2>1, Lists DEF IInv, InStep, FitInStep
<1> QED
  BY <1>1, <1>3, <1>4, <1>5, <1>6 DEF Methods

\* Removing the files that are not wanted preserves the invariant.
LEMMA RemoveIInv ==
  ASSUME IInv, Remove
  PROVE  IInv'
<1> USE DEF IInv, Remove, Does, request
<1>1. ScriptEntries' = ScriptEntries /\ Signatures' = Signatures
      /\ Makings' = Makings /\ Housekeeping' = Housekeeping
  BY DEF ScriptEntries, Signatures, Makings, Leavings, Payload, Housekeeping,
     Links, EncryptedKernel, AtLeast
<1>2. CASE method = "sign"
  BY <1>1, <1>2 DEF InStep, SignInStep, Unwanted
<1>3. CASE method = "bupgen"
  BY <1>1, <1>3, PayloadIsNoScript DEF InStep, SignInStep, Unwanted
<1>4. CASE method = "signfiles"
  <2>1. /\ UNCHANGED <<method, sent, listed, made, reply>> /\ todo # <<>>
        /\ Head(todo) = "remove" /\ todo' = Tail(todo) /\ dir' = dir \ Unwanted
    OBVIOUS
  <2>2. /\ todo = <<"remove">> /\ listed = sent /\ Signatures \subseteq dir \cap made
    BY <1>4, <2>1, Lists DEF InStep, SignfilesInStep
  <2>3. dir' = Signatures
    BY <1>4, <2>1, <2>2 DEF Unwanted, Signatures
  <2> QED
    BY <1>1, <1>4, <2>1, <2>2, <2>3, Lists DEF InStep, SignfilesInStep
<1>5. CASE method = "multisign"
  BY <1>1, <1>5, PayloadIsNoScript, Lists DEF InStep, MultisignInStep, Unwanted
<1>6. CASE method = "rk-fit"
  BY <1>1, <1>6 DEF InStep, FitInStep
<1>7. method # "idle"
  OBVIOUS
<1> QED
  BY <1>2, <1>3, <1>4, <1>5, <1>6, <1>7 DEF Methods

\* Answers preserve the invariant, and so do the end of a request, a release
\* between requests, and a step that changes nothing.
LEMMA RestIInv ==
  ASSUME IInv, ToolFails \/ Return \/ End \/ Release \/ UNCHANGED vars
  PROVE  IInv'
<1>1. CASE ToolFails
  BY <1>1 DEF ToolFails, Does, request, IInv
<1>2. CASE Return \/ UNCHANGED vars
  <2>1. InStep' <=> InStep
    BY <1>2 DEF Return, request, vars, InStep, SignInStep, SignfilesInStep,
       MultisignInStep, FitInStep, ScriptEntries, Signatures, Makings, Leavings,
       Payload, Housekeeping, Links, EncryptedKernel, AtLeast
  <2> QED
    BY <1>2, <2>1 DEF Return, request, vars, IInv
<1>3. CASE End \/ Release
  BY <1>3 DEF End, Release, IInv, InStep
<1> QED
  BY <1>1, <1>2, <1>3

\* The inductive invariant: what the directory holds at each point of the
\* methods (TegraSigner.sign, signfiles, multisign; RockchipSigner.sign).
THEOREM Invariance == Spec => []IInv
<1>1. IInv /\ [Next]_vars => IInv'
  BY BeginIInv, PrepareIInv, ListIInv, RunIInv, RemoveIInv, RestIInv DEF Next, Methods
<1> QED
  BY <1>1, InitIInv, PTL DEF Spec

\* What is returned: of sign what the tool has written, with flash.xml for
\* tegra210; of signfiles signatures of what was sent; of a BUP run payloads,
\* some the client sent among them (tegrasign.py:229-246, 252-261, 280).
THEOREM ResultsOnly == Spec => []OnlyResultsReturned
<1>1. IInv => OnlyResultsReturned
  <2> SUFFICES ASSUME IInv, reply = "200"
               PROVE  OnlyResultsReturned
    BY DEF OnlyResultsReturned
  <2>1. todo = <<>> /\ InStep /\ method \in Methods
    BY DEF IInv, Methods
  <2>2. CASE method = "sign"
    BY <2>1, <2>2 DEF InStep, SignInStep, OnlyResultsReturned, Housekeeping
  <2>3. CASE method = "bupgen"
    BY <2>1, <2>3 DEF InStep, SignInStep, OnlyResultsReturned
  <2>4. CASE method = "signfiles"
    BY <2>1, <2>4 DEF InStep, SignfilesInStep, Signatures, OnlyResultsReturned
  <2>5. CASE method = "multisign"
    BY <2>1, <2>5 DEF InStep, MultisignInStep, OnlyResultsReturned
  <2>6. CASE method = "rk-fit"
    BY <2>6 DEF OnlyResultsReturned
  <2> QED
    BY <2>1, <2>2, <2>3, <2>4, <2>5, <2>6 DEF Methods
<1> QED
  BY <1>1, Invariance, PTL

\* No result is removed with the rest (the same lines).
THEOREM ResultsStay == Spec => []NoResultLost
<1>1. IInv => NoResultLost
  <2> SUFFICES ASSUME IInv, reply = "200"
               PROVE  NoResultLost
    BY DEF NoResultLost
  <2>1. todo = <<>> /\ InStep /\ method \in Methods
    BY DEF IInv, Methods
  <2>2. Makings \cap FitOutputs = {}
    BY DEF Makings, Leavings, Payload, FitOutputs
  <2>3. CASE method = "sign"
    BY <2>1, <2>3, ScriptsAreNoResults DEF InStep, SignInStep, NoResultLost
  <2>4. CASE method = "bupgen"
    BY <2>1, <2>2, <2>4 DEF InStep, SignInStep, NoResultLost
  <2>5. CASE method = "signfiles"
    BY <2>1, <2>5 DEF InStep, SignfilesInStep, Signatures, NoResultLost
  <2>6. CASE method = "multisign"
    BY <2>1, <2>2, <2>6 DEF InStep, MultisignInStep, NoResultLost
  <2>7. CASE method = "rk-fit"
    BY <2>1, <2>7 DEF InStep, FitInStep, NoResultLost
  <2> QED
    BY <2>1, <2>3, <2>4, <2>5, <2>6, <2>7 DEF Methods
<1> QED
  BY <1>1, Invariance, PTL

-----------------------------------------------------------------------------
(* The release of the product's BSP, and what depends on it.               *)

(* A request leaves the product as it is; what changes it is an upgrade.   *)
LEMMA ProductSteps ==
  ASSUME [Next]_vars
  PROVE  /\ soc' = soc
         /\ bsp' = bsp \/ (bsp' \in Versions /\ Newer(bsp', bsp))
BY DEF Next, vars, request, Begin, Prepare, List, Run, ToolFails, Remove, Return, End,
   Release, Upgrade

(* The state is always a product and a release of its BSP.                 *)
LEMMA ProductTyped == Spec => []Product
<1>1. Init => Product
  BY DEF Init
<1>2. Product /\ [Next]_vars => Product'
  BY ProductSteps DEF Product
<1> QED
  BY <1>1, <1>2, PTL DEF Spec

(* The parts of a version are bytes.                                       *)
LEMMA Parts ==
  ASSUME NEW v \in Versions
  PROVE  /\ v.major \in Nat /\ v.minor \in Nat /\ v.maint \in Nat
         /\ v.major <= 255 /\ v.minor <= 255 /\ v.maint <= 255
<1>1. v.major \in 0..255 /\ v.minor \in 0..255 /\ v.maint \in 0..255
  BY PartsFit
<1> QED
  BY <1>1

(* The packed word orders versions as their parts do.                      *)
LEMMA WordOrder ==
  ASSUME NEW v \in Versions, NEW w \in Versions, Newer(w, v)
  PROVE  CapsuleWord(w) > CapsuleWord(v)
<1>1. ASSUME NEW a \in Nat, NEW b \in Nat, NEW c \in Nat,
             NEW d \in Nat, NEW e \in Nat, NEW f \in Nat, b <= 255, c <= 255,
             d > a \/ (d = a /\ e > b) \/ (d = a /\ e = b /\ f > c)
      PROVE  d * 65536 + e * 256 + f > a * 65536 + b * 256 + c
  BY <1>1
<1>2. \/ w.major > v.major
      \/ w.major = v.major /\ w.minor > v.minor
      \/ w.major = v.major /\ w.minor = v.minor /\ w.maint > v.maint
  BY DEF Newer
<1>3. /\ v.major \in Nat /\ v.minor \in Nat /\ v.maint \in Nat
      /\ w.major \in Nat /\ w.minor \in Nat /\ w.maint \in Nat
      /\ v.minor <= 255 /\ v.maint <= 255
  BY Parts
<1>4. w.major * 65536 + w.minor * 256 + w.maint > v.major * 65536 + v.minor * 256 + v.maint
  BY <1>1, <1>2, <1>3
<1> QED
  BY <1>4 DEF CapsuleWord

(* An upgrade always raises the version number of the capsule.             *)
THEOREM UpgradesAreTaken == Spec => UpgradeRaisesWord
<1>1. Product /\ [Next]_vars => [CapsuleWord(bsp') > CapsuleWord(bsp)]_bsp
  BY WordOrder, ProductSteps DEF Product
<1> QED
  BY <1>1, ProductTyped, PTL DEF Spec, UpgradeRaisesWord

(* Whatever the signer links it has copied.                                *)
THEOREM LinksAreCopied == Spec => []LinksHaveTargets
<1>1. Product => LinksHaveTargets
  BY DEF Product, SocTypes, LinksHaveTargets, Links, Scripts, CommonScripts, LaterScripts, R35Scripts
<1> QED
  BY <1>1, ProductTyped, PTL

(* No upgrade takes a script away that is not of one series.               *)
THEOREM ScriptsStay == Spec => UpgradeKeepsScripts
<1>1. ASSUME NEW s \in SocTypes, NEW v \in Versions, NEW w \in Versions, Newer(w, v)
      PROVE  Scripts(s, v) \ OfOneSeries \subseteq Scripts(s, w)
  <2>1. v.major \in Nat /\ v.minor \in Nat /\ w.major \in Nat /\ w.minor \in Nat
    BY Parts
  <2>2. \A ma, mi \in Nat : AtLeast(v, ma, mi) => AtLeast(w, ma, mi)
    BY <1>1, <2>1 DEF AtLeast, Newer
  <2>3. v.major >= 35 => w.major >= 35
    BY <1>1, <2>1 DEF Newer
  <2>4. v.major >= 36 => w.major >= 36
    BY <1>1, <2>1 DEF Newer
  <2>5. AtLeast(v, 32, 6) => AtLeast(w, 32, 6)
    BY <2>2
  <2>6. AtLeast(v, 32, 5) => AtLeast(w, 32, 5)
    BY <2>2
  <2>7. LaterScripts(v) \subseteq LaterScripts(w)
    BY <2>3 DEF LaterScripts
  <2> QED
    BY <2>4, <2>5, <2>6, <2>7 DEF Scripts, TegrasignV3, OfOneSeries
<1>2. Product /\ [Next]_vars
      => [Scripts(soc, bsp) \ OfOneSeries \subseteq Scripts(soc', bsp')]_bsp
  BY <1>1, ProductSteps DEF Product
<1> QED
  BY <1>2, ProductTyped, PTL DEF Spec, UpgradeKeepsScripts
=============================================================================
