------------------------- MODULE TrustedAppsProofs -------------------------
(***************************************************************************)
(* Theorems about TrustedApps, for any applications and suffixes and any   *)
(* order of the walk.                                                      *)
(***************************************************************************)
EXTENDS TrustedApps, TLAPS

\* The files of an application as they were sent.
SentFiles(a) ==
  {"image"} \cup (IF sent[a].text = Nothing THEN {} ELSE {"ta-version"})

OwnVersion(a) == IF sent[a].text = Nothing THEN 0 ELSE sent[a].text

Untouched(a) == header[a] = Nothing /\ files[a] = SentFiles(a)

Signed(a) == header[a] \in Nat /\ header[a] = OwnVersion(a) /\ files[a] = {"ta"}

TypeOK ==
  /\ files \in [Apps -> SUBSET {"image", "ta-version", "ta"}]
  /\ header \in [Apps -> Int]
  /\ walk \subseteq Apps
  /\ reply \in {"none", "200", "500"}

\* What the walk has not come to is as it was sent; what it has left behind is
\* signed, if it is an image, unless the walk has stopped there.
InOrder ==
  /\ \A a \in Apps : Untouched(a) \/ Signed(a)
  /\ \A a \in walk : Untouched(a)
  /\ \A a \in Apps \ walk :
       sent[a].suffix = Signable => Signed(a) \/ reply = "500"
  /\ reply = "200" => walk = {}

IInv == TypeOK /\ InOrder

-----------------------------------------------------------------------------
\* The initial states satisfy the invariant.
LEMMA InitIInv == Init => IInv
  BY DEF Init, IInv, TypeOK, InOrder, Untouched, Signed, SentFiles, Nothing

\* The version read for an application that has not been signed is its own.
LEMMA ReadsOwn ==
  ASSUME NEW a \in Apps, Untouched(a)
  PROVE  ReadVersion(a) = OwnVersion(a)
  BY DEF Untouched, SentFiles, ReadVersion, OwnVersion

\* Signing one application preserves the invariant.
LEMMA SignIInv ==
  ASSUME IInv, NEW a \in Apps, Sign(a)
  PROVE  IInv'
<1> USE DEF IInv, TypeOK, InOrder
<1>1. a \in walk /\ walk' = walk \ {a} /\ reply = "none"
  BY DEF Sign, ComesTo
<1>2. Untouched(a)
  BY <1>1
<1>3. ReadVersion(a) = OwnVersion(a) /\ ReadVersion(a) \in Nat
  BY <1>2, ReadsOwn, LimitAssumption DEF Sign, Packs
<1>4. /\ header' = [header EXCEPT ![a] = ReadVersion(a)]
      /\ files' = [files EXCEPT ![a] = {"ta"}]
      /\ sent' = sent /\ reply' = reply
  BY DEF Sign
<1>5. TypeOK'
  BY <1>1, <1>3, <1>4
<1>6. Signed(a)'
  BY <1>3, <1>4 DEF Signed, OwnVersion
<1>7. ASSUME NEW b \in Apps, b # a
      PROVE  (Untouched(b)' <=> Untouched(b)) /\ (Signed(b)' <=> Signed(b))
  BY <1>4, <1>7 DEF Untouched, Signed, SentFiles, OwnVersion
<1>8. \A b \in Apps : Untouched(b)' \/ Signed(b)'
  BY <1>6, <1>7
<1>9. \A b \in walk' : Untouched(b)'
  BY <1>1, <1>7
<1>10. \A b \in Apps \ walk' :
         sent'[b].suffix = Signable => Signed(b)' \/ reply' = "500"
  BY <1>1, <1>4, <1>6, <1>7
<1> QED
  BY <1>1, <1>4, <1>5, <1>8, <1>9, <1>10

\* No step leads out of the invariant.
LEMMA StepIInv == IInv /\ [Next]_vars => IInv'
<1> SUFFICES ASSUME IInv, [Next]_vars
             PROVE  IInv'
  OBVIOUS
<1> USE DEF IInv, TypeOK, InOrder, Untouched, Signed, SentFiles, OwnVersion
<1>1. CASE BadKey
  BY <1>1 DEF BadKey
<1>2. CASE Return
  BY <1>2 DEF Return
<1>3. ASSUME NEW a \in Apps, PassOver(a)
      PROVE  IInv'
  BY <1>3 DEF PassOver, ComesTo
<1>4. ASSUME NEW a \in Apps, Sign(a)
      PROVE  IInv'
  BY <1>4, SignIInv
<1>5. ASSUME NEW a \in Apps, SignRaises(a)
      PROVE  IInv'
  BY <1>5 DEF SignRaises, ComesTo
<1>6. CASE UNCHANGED vars
  BY <1>6 DEF vars
<1> QED
  BY <1>1, <1>2, <1>3, <1>4, <1>5, <1>6 DEF Next

\* The inductive invariant (OPTEESigner.sign): the tree at every step of the
\* walk.
THEOREM Invariance == Spec => []IInv
  BY InitIInv, StepIInv, PTL DEF Spec

\* No application gets the version of another one (opteesign.py:89-94).
THEOREM OwnVersions == Spec => []VersionsAreTheirOwn
<1>1. IInv => VersionsAreTheirOwn
  BY DEF IInv, InOrder, Untouched, Signed, OwnVersion, VersionsAreTheirOwn
<1> QED
  BY <1>1, Invariance, PTL

\* A 200 means that every image has been signed (opteesign.py:83-106).
THEOREM AllSigned == Spec => []SignedThroughout
<1>1. IInv => SignedThroughout
  BY DEF IInv, TypeOK, InOrder, Signed, Nothing, SignedThroughout
<1> QED
  BY <1>1, Invariance, PTL
=============================================================================
