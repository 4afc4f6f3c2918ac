------------------------- MODULE SignerTableProofs --------------------------
(***************************************************************************)
(* The sign methods of the repository are disciplined, whatever the number *)
(* of files or specifications their loops go through, so that the theorems *)
(* of SigningProofs hold of every operation of the server.                 *)
(***************************************************************************)
EXTENDS SigningProofs, SequenceTheorems

Table == INSTANCE SignerPrograms

\* Every sign method, with loops of any length.
EveryMethod == UNION {Table!AllPrograms(n) : n \in Nat}

-----------------------------------------------------------------------------
(* A loop of one step is that step n times.                                *)
LEMMA RepeatOne ==
  ASSUME NEW n \in Nat, NEW s
  PROVE  Table!Repeat(n, <<s>>) = [i \in 1..n |-> s]
<1>1. Len(<<s>>) = 1 /\ \A i \in 1..n : ((i - 1) % 1) + 1 = 1
  OBVIOUS
<1>2. n * 1 = n
  OBVIOUS
<1> QED
  BY <1>1, <1>2 DEF Table!Repeat

(* A loop of two steps is a sequence of these.                             *)
LEMMA RepeatTwo ==
  ASSUME NEW n \in Nat, NEW s, NEW t
  PROVE  \E m \in Nat : Table!Repeat(n, <<s, t>>) \in [1..m -> {s, t}]
<1>1. n * 2 \in Nat
  OBVIOUS
<1>2. Len(<<s, t>>) = 2 /\ \A i \in 1..(n * 2) : ((i - 1) % 2) + 1 \in {1, 2}
  OBVIOUS
<1>3. Table!Repeat(n, <<s, t>>) = [i \in 1..(n * 2) |-> <<s, t>>[((i - 1) % 2) + 1]]
  BY <1>2 DEF Table!Repeat
<1>4. \A i \in {1, 2} : <<s, t>>[i] \in {s, t}
  OBVIOUS
<1> QED
  BY <1>1, <1>2, <1>3, <1>4

(* The steps of a method that is put together from three parts.            *)
LEMMA ThreeParts ==
  ASSUME NEW S, NEW a \in Seq(S), NEW b \in Seq(S), NEW c \in Seq(S)
  PROVE  /\ Len(a \o b \o c) = Len(a) + Len(b) + Len(c)
         /\ \A i \in 1..Len(a) : (a \o b \o c)[i] = a[i]
         /\ \A i \in 1..Len(b) : (a \o b \o c)[Len(a) + i] = b[i]
         /\ \A i \in 1..Len(c) : (a \o b \o c)[Len(a) + Len(b) + i] = c[i]
<1>1. Len(a) \in Nat /\ Len(b) \in Nat /\ Len(c) \in Nat
  OBVIOUS
<1>2. /\ a \o b \in Seq(S) /\ Len(a \o b) = Len(a) + Len(b)
      /\ \A i \in 1..(Len(a) + Len(b)) :
           (a \o b)[i] = IF i <= Len(a) THEN a[i] ELSE b[i - Len(a)]
  BY ConcatProperties
<1>3. /\ Len((a \o b) \o c) = Len(a \o b) + Len(c)
      /\ \A i \in 1..(Len(a \o b) + Len(c)) :
           ((a \o b) \o c)[i] = IF i <= Len(a \o b) THEN (a \o b)[i] ELSE c[i - Len(a \o b)]
  BY <1>2, ConcatProperties
<1>4. \A i \in 1..Len(b) : (a \o b \o c)[Len(a) + i] = b[i]
  <2> TAKE i \in 1..Len(b)
  <2>1. Len(a) + i \in 1..(Len(a) + Len(b)) /\ ~(Len(a) + i <= Len(a)) /\ (Len(a) + i) - Len(a) = i
    BY <1>1
  <2> QED
    BY <1>1, <1>2, <1>3, <2>1
<1>5. \A i \in 1..Len(c) : (a \o b \o c)[Len(a) + Len(b) + i] = c[i]
  <2> TAKE i \in 1..Len(c)
  <2> DEFINE k == Len(a) + Len(b) + i
  <2>1. k \in 1..(Len(a \o b) + Len(c)) /\ ~(k <= Len(a \o b)) /\ k - Len(a \o b) = i
    BY <1>1, <1>2
  <2> QED
    BY <1>3, <2>1
<1> QED
  BY <1>1, <1>2, <1>3, <1>4, <1>5

\* A method fetches its keys in its first f steps, runs its tools from there
\* to step c, and cleans up at step c whatever the tools said.
Phased(p, f, c) ==
  /\ p.loads
  /\ f \in Nat /\ c \in Nat /\ Len(p.steps) \in Nat /\ f < c /\ c <= Len(p.steps)
  /\ \A i \in 1..f : ~Tool(p.steps[i])
  /\ \A i \in 1..(c - 1) : ~Closing(p.steps[i])
  /\ Closing(p.steps[c]) /\ p.steps[c].when = "always"
  /\ \A i \in (f + 1)..Len(p.steps) : ~Gets(p.steps[i])
  /\ \A i \in (c + 1)..Len(p.steps) : ~Tool(p.steps[i])
  /\ \A i \in 1..c : Tool(p.steps[i]) => \A k \in p.steps[i].keys :
                       \E j \in 1..f : Gets(p.steps[j]) /\ k \in p.steps[j].keys
  /\ NoMaskedFailure(p.steps)

(* Such a method is disciplined.                                           *)
LEMMA ThreePhases ==
  ASSUME NEW p, NEW f, NEW c, Phased(p, f, c)
  PROVE  Disciplined(p)
<1> DEFINE P == p.steps
<1> USE DEF Phased
<1>1. FetchesFirst(P)
  BY DEF FetchesFirst, ToolBefore, ClosingBefore
<1>2. ToolsBetween(P)
  <2> SUFFICES ASSUME NEW i \in 1..Len(P), Tool(P[i]), NEW k \in P[i].keys
               PROVE  /\ ~ClosingBefore(P, i)
                      /\ \E j \in 1..(i - 1) : Gets(P[j]) /\ k \in P[j].keys
    BY DEF ToolsBetween
  <2>1. i \in 1..c /\ i > f
    OBVIOUS
  <2>2. ~ClosingBefore(P, i)
    BY <2>1 DEF ClosingBefore
  <2> QED
    BY <2>1, <2>2
<1>3. AlwaysCloses(P)
  BY DEF AlwaysCloses, Certain
<1> QED
  BY <1>1, <1>2, <1>3 DEF Disciplined, HasKeyFiles

-----------------------------------------------------------------------------
(* A loader whose key hash is burned: three keys, four tools of which the  *)
(* last cleans up, and a cleanup.                                          *)
LEMMA BurningLoader == Disciplined(Table!RkLoader(TRUE))
<1> DEFINE P == Table!RkLoader(TRUE).steps
           A == <<Table!Get("dev.key"), Table!Get("dev.crt"), Table!Get("dev.pubkey"),
                  Table!Work, Table!RunKeep({}), Table!RunKeep(Table!RkPair)>>
           B == <<Table!RunKeep(Table!RkPair)>>
           C == <<Table!Run(Table!RkPair), Table!Work, Table!CleanAlways>>
<1>1. P = A \o B \o C /\ Table!RkLoader(TRUE).loads
  BY DEF Table!RkLoader, Table!Program
<1> HIDE DEF P
<1>2. /\ Len(P) = 10
      /\ P[1] = Table!Get("dev.key") /\ P[2] = Table!Get("dev.crt")
      /\ P[3] = Table!Get("dev.pubkey") /\ P[4] = Table!Work /\ P[5] = Table!RunKeep({})
      /\ P[6] = Table!RunKeep(Table!RkPair) /\ P[7] = Table!RunKeep(Table!RkPair)
      /\ P[8] = Table!Run(Table!RkPair) /\ P[9] = Table!Work /\ P[10] = Table!CleanAlways
  BY <1>1
<1>3. \A i \in 1..10 : Gets(P[i]) <=> i <= 3
  BY <1>2 DEF Gets, Table!StepOf, Table!Get, Table!Work, Table!Run, Table!RunKeep,
     Table!CleanAlways
<1>4. \A i \in 1..10 : Tool(P[i]) <=> i \in 5..8
  BY <1>2 DEF Tool, Table!StepOf, Table!Get, Table!Work, Table!Run, Table!RunKeep,
     Table!CleanAlways
<1>5. \A i \in 1..10 : Closing(P[i]) <=> i \in {8, 10}
  BY <1>2 DEF Closing, Tool, Table!StepOf, Table!Get, Table!Work, Table!Run,
     Table!RunKeep, Table!CleanAlways
<1>6. /\ P[1].keys = {"dev.key"} /\ P[3].keys = {"dev.pubkey"}
      /\ \A i \in 5..8 : P[i].keys \subseteq {"dev.key", "dev.pubkey"}
      /\ P[10].when = "always"
      /\ \A i \in 1..10 : P[i].op = "run" => P[i].when = "ok"
  BY <1>2 DEF Table!StepOf, Table!Get, Table!Work, Table!Run, Table!RunKeep,
     Table!CleanAlways, Table!RkPair
<1>7. FetchesFirst(P)
  BY <1>2, <1>3, <1>4, <1>5 DEF FetchesFirst, ToolBefore, ClosingBefore
<1>8. ToolsBetween(P)
  <2> SUFFICES ASSUME NEW i \in 5..8, NEW k \in {"dev.key", "dev.pubkey"}
               PROVE  /\ ~ClosingBefore(P, i)
                      /\ \E j \in 1..(i - 1) : Gets(P[j]) /\ k \in P[j].keys
    BY <1>2, <1>4, <1>6 DEF ToolsBetween
  <2>1. ~ClosingBefore(P, i)
    BY <1>5 DEF ClosingBefore
  <2>2. Gets(P[1]) /\ Gets(P[3]) /\ 1 \in 1..(i - 1) /\ 3 \in 1..(i - 1)
    BY <1>3
  <2> QED
    BY <1>6, <2>1, <2>2
<1>9. AlwaysCloses(P)
  BY <1>2, <1>5, <1>6 DEF AlwaysCloses, Certain
<1>10. NoMaskedFailure(P)
  BY <1>2, <1>6 DEF NoMaskedFailure
<1> QED
  BY <1>1, <1>7, <1>8, <1>9, <1>10 DEF P, Disciplined, HasKeyFiles

(* The methods without a loop.                                             *)
LEMMA StraightMethods ==
  /\ \A t \in BOOLEAN : Disciplined(Table!TegraSign(t))
  /\ \A b \in BOOLEAN : Disciplined(Table!RkLoader(b))
  /\ \A v \in BOOLEAN : Disciplined(Table!Ekb(v))
  /\ \A b \in BOOLEAN : Disciplined(Table!SwuUnknown(b))
  /\ Disciplined(Table!TegraSignfiles) /\ Disciplined(Table!RkFit)
  /\ Disciplined(Table!RkTee) /\ Disciplined(Table!UefiSign)
  /\ Disciplined(Table!UefiAttach) /\ Disciplined(Table!Capsule)
  /\ \A d \in BOOLEAN : Disciplined(Table!FitImage(d)) /\ Disciplined(Table!FitImageHsm(d))
  /\ Disciplined(Table!Imx) /\ Disciplined(Table!SwuRsa)
  /\ Disciplined(Table!SwuCms) /\ Disciplined(Table!SwuRsaHsm)
  /\ Disciplined(Table!SwuCmsHsm) /\ Disciplined(Table!Mender)
<1> USE DEF Disciplined, FetchesFirst, ToolsBetween, AlwaysCloses, NoMaskedFailure,
            HasKeyFiles, Gets, Tool, Closing, GetBefore, ToolBefore, ClosingBefore,
            Certain, Table!Program, Table!StepOf, Table!Get, Table!Opt, Table!Load,
            Table!Work, Table!WorkAlways, Table!Transfer, Table!CleanAlways,
            Table!Raise, Table!Run, Table!RunKeep
<1>1. Disciplined(Table!TegraSign(TRUE)) /\ Disciplined(Table!TegraSign(FALSE))
  BY DEF Table!TegraSign, Table!TegraCmd, Table!TegraKeys
<1>2. Disciplined(Table!RkLoader(TRUE))
  BY BurningLoader
<1>3. Disciplined(Table!RkLoader(FALSE))
  BY DEF Table!RkLoader, Table!RkPair
<1>4. Disciplined(Table!Ekb(TRUE)) /\ Disciplined(Table!Ekb(FALSE))
  BY DEF Table!Ekb
<1>5. \A b \in BOOLEAN : Disciplined(Table!SwuUnknown(b))
  BY DEF Table!SwuUnknown
<1>6. Disciplined(Table!TegraSignfiles)
  BY DEF Table!TegraSignfiles
<1>7. Disciplined(Table!RkFit) /\ Disciplined(Table!RkTee)
  BY DEF Table!RkFit, Table!RkTee
<1>8. Disciplined(Table!UefiSign) /\ Disciplined(Table!UefiAttach)
  BY DEF Table!UefiSign, Table!UefiAttach, Table!UefiKeys
<1>9. Disciplined(Table!Capsule)
  BY DEF Table!Capsule, Table!CapsuleKeys
<1>10. Disciplined(Table!Imx)
  BY DEF Table!Imx
<1>11. \A d \in BOOLEAN : Disciplined(Table!FitImage(d)) /\ Disciplined(Table!FitImageHsm(d))
  BY DEF Table!FitImage, Table!FitImageHsm, Table!FitKeys
<1>12. Disciplined(Table!SwuRsa) /\ Disciplined(Table!SwuRsaHsm)
  BY DEF Table!SwuRsa, Table!SwuRsaHsm
<1>13. Disciplined(Table!SwuCms) /\ Disciplined(Table!SwuCmsHsm)
  BY DEF Table!SwuCms, Table!SwuCmsHsm
<1>14. Disciplined(Table!Mender)
  BY DEF Table!Mender
<1> HIDE DEF Disciplined
<1> QED
  BY <1>1, <1>2, <1>3, <1>4, <1>5, <1>6, <1>7, <1>8, <1>9, <1>10, <1>11, <1>12, <1>13,
     <1>14

(* Kernel modules: the keys stay until all n files have been signed.       *)
LEMMA KmodDisciplined ==
  ASSUME NEW n \in Nat
  PROVE  Disciplined(Table!Kmod(n))
<1> DEFINE p == Table!Kmod(n)
           loop == [i \in 1..n |-> Table!RunKeep(Table!KmodKeys)]
<1>1. /\ p.loads = TRUE
      /\ p.steps = <<Table!Get("kernel-signkey.priv"), Table!Get("kernel-signkey.x509")>>
                   \o loop \o <<Table!CleanAlways>>
  BY RepeatOne DEF Table!Kmod, Table!Program
<1>2. Len(loop) = n
  OBVIOUS
<1>3. /\ Len(p.steps) = n + 3
      /\ p.steps[1] = Table!Get("kernel-signkey.priv")
      /\ p.steps[2] = Table!Get("kernel-signkey.x509")
      /\ \A i \in 3..(n + 2) : p.steps[i] = Table!RunKeep(Table!KmodKeys)
      /\ p.steps[n + 3] = Table!CleanAlways
  BY <1>1, <1>2
<1> HIDE DEF p
<1> USE DEF Gets, Tool, Closing, NoMaskedFailure, Table!StepOf, Table!Get, Table!Opt,
            Table!Work, Table!RunKeep, Table!EachKeep, Table!CleanAlways
<1>4. p.loads /\ n + 3 \in Nat /\ 2 < n + 3 /\ n + 3 <= Len(p.steps)
  BY <1>1, <1>3
<1>5. \A i \in 1..2 : ~Tool(p.steps[i])
  BY <1>3
<1>6. \A i \in 1..(n + 3 - 1) : ~Closing(p.steps[i])
  BY <1>3
<1>7. Closing(p.steps[n + 3]) /\ p.steps[n + 3].when = "always"
  BY <1>3
<1>8. \A i \in (2 + 1)..Len(p.steps) : ~Gets(p.steps[i])
  BY <1>3
<1>9. \A i \in (n + 3 + 1)..Len(p.steps) : ~Tool(p.steps[i])
  BY <1>3
<1>10. \A i \in 1..(n + 3) : Tool(p.steps[i]) => \A k \in p.steps[i].keys :
         \E j \in 1..2 : Gets(p.steps[j]) /\ k \in p.steps[j].keys
  BY <1>3 DEF Table!KmodKeys
<1>11. NoMaskedFailure(p.steps)
  BY <1>3
<1>12. Phased(p, 2, n + 3)
  <2> HIDE DEF Gets, Tool, Closing, NoMaskedFailure
  <2> QED
    BY <1>3, <1>4, <1>5, <1>6, <1>7, <1>8, <1>9, <1>10, <1>11 DEF Phased
<1> QED
  BY <1>12, ThreePhases DEF p

(* Trusted applications: the key is parsed before the loop over n files.   *)
LEMMA OpteeDisciplined ==
  ASSUME NEW n \in Nat
  PROVE  Disciplined(Table!Optee(n))
<1> DEFINE p == Table!Optee(n)
           loop == [i \in 1..n |-> Table!Work]
<1>1. /\ p.loads = TRUE
      /\ p.steps = <<Table!Get("optee-signing-key.pem"), Table!RunKeep({"optee-signing-key.pem"})>>
                   \o loop \o <<Table!CleanAlways>>
  BY RepeatOne DEF Table!Optee, Table!Program
<1>2. Len(loop) = n
  OBVIOUS
<1>3. /\ Len(p.steps) = n + 3
      /\ p.steps[1] = Table!Get("optee-signing-key.pem")
      /\ p.steps[2] = Table!RunKeep({"optee-signing-key.pem"})
      /\ \A i \in 3..(n + 2) : p.steps[i] = Table!Work
      /\ p.steps[n + 3] = Table!CleanAlways
  BY <1>1, <1>2
<1> HIDE DEF p
<1> USE DEF Gets, Tool, Closing, NoMaskedFailure, Table!StepOf, Table!Get, Table!Opt,
            Table!Work, Table!RunKeep, Table!EachKeep, Table!CleanAlways
<1>4. p.loads /\ n + 3 \in Nat /\ 1 < n + 3 /\ n + 3 <= Len(p.steps)
  BY <1>1, <1>3
<1>5. \A i \in 1..1 : ~Tool(p.steps[i])
  BY <1>3
<1>6. \A i \in 1..(n + 3 - 1) : ~Closing(p.steps[i])
  BY <1>3
<1>7. Closing(p.steps[n + 3]) /\ p.steps[n + 3].when = "always"
  BY <1>3
<1>8. \A i \in (1 + 1)..Len(p.steps) : ~Gets(p.steps[i])
  BY <1>3
<1>9. \A i \in (n + 3 + 1)..Len(p.steps) : ~Tool(p.steps[i])
  BY <1>3
<1>10. \A i \in 1..(n + 3) : Tool(p.steps[i]) => \A k \in p.steps[i].keys :
         \E j \in 1..1 : Gets(p.steps[j]) /\ k \in p.steps[j].keys
  BY <1>3
<1>11. NoMaskedFailure(p.steps)
  BY <1>3
<1>12. Phased(p, 1, n + 3)
  <2> HIDE DEF Gets, Tool, Closing, NoMaskedFailure
  <2> QED
    BY <1>3, <1>4, <1>5, <1>6, <1>7, <1>8, <1>9, <1>10, <1>11 DEF Phased
<1> QED
  BY <1>12, ThreePhases DEF p

(* Rockchip trusted applications: n directories, one tool run in each.     *)
LEMMA RkTasDisciplined ==
  ASSUME NEW n \in Nat
  PROVE  Disciplined(Table!RkTas(n))
<1> DEFINE p == Table!RkTas(n)
           loop == [i \in 1..n |-> Table!EachKeep({"optee-signing-key.pem"})]
<1>1. /\ p.loads = TRUE
      /\ p.steps = <<Table!Get("optee-signing-key.pem")>> \o loop \o <<Table!CleanAlways>>
  BY RepeatOne DEF Table!RkTas, Table!Program
<1>2. Len(loop) = n
  OBVIOUS
<1>3. /\ Len(p.steps) = n + 2
      /\ p.steps[1] = Table!Get("optee-signing-key.pem")
      /\ \A i \in 2..(n + 1) : p.steps[i] = Table!EachKeep({"optee-signing-key.pem"})
      /\ p.steps[n + 2] = Table!CleanAlways
  BY <1>1, <1>2
<1> HIDE DEF p
<1> USE DEF Gets, Tool, Closing, NoMaskedFailure, Table!StepOf, Table!Get, Table!Opt,
            Table!Work, Table!RunKeep, Table!EachKeep, Table!CleanAlways
<1>4. p.loads /\ n + 2 \in Nat /\ 1 < n + 2 /\ n + 2 <= Len(p.steps)
  BY <1>1, <1>3
<1>5. \A i \in 1..1 : ~Tool(p.steps[i])
  BY <1>3
<1>6. \A i \in 1..(n + 2 - 1) : ~Closing(p.steps[i])
  BY <1>3
<1>7. Closing(p.steps[n + 2]) /\ p.steps[n + 2].when = "always"
  BY <1>3
<1>8. \A i \in (1 + 1)..Len(p.steps) : ~Gets(p.steps[i])
  BY <1>3
<1>9. \A i \in (n + 2 + 1)..Len(p.steps) : ~Tool(p.steps[i])
  BY <1>3
<1>10. \A i \in 1..(n + 2) : Tool(p.steps[i]) => \A k \in p.steps[i].keys :
         \E j \in 1..1 : Gets(p.steps[j]) /\ k \in p.steps[j].keys
  BY <1>3
<1>11. NoMaskedFailure(p.steps)
  BY <1>3
<1>12. Phased(p, 1, n + 2)
  <2> HIDE DEF Gets, Tool, Closing, NoMaskedFailure
  <2> QED
    BY <1>3, <1>4, <1>5, <1>6, <1>7, <1>8, <1>9, <1>10, <1>11 DEF Phased
<1> QED
  BY <1>12, ThreePhases DEF p

(* Jetson BUP payloads: n specifications, with the keys fetched once.      *)
LEMMA TegraMultisignDisciplined ==
  ASSUME NEW t210 \in BOOLEAN, NEW n \in Nat
  PROVE  Disciplined(Table!TegraMultisign(t210, n))
<1> DEFINE p == Table!TegraMultisign(t210, n)
           f == IF t210 THEN 3 ELSE 6
           sign == Table!RunKeep(Table!TegraKeys(t210))
           loop == Table!Repeat(n, <<Table!Work, sign>>)
           fetch == <<Table!Work>> \o Table!TegraCmd(t210)
           asks == {Table!Work, Table!Get("rsa_priv.pem"), Table!Opt("sbk.txt"),
                    Table!Opt("user_key.txt")}
           steps == asks \cup {Table!CleanAlways, sign}
<1>1. PICK m \in Nat : loop \in [1..m -> {Table!Work, sign}]
  BY RepeatTwo
<1>2. /\ p.loads = TRUE
      /\ p.steps = fetch \o loop \o <<Table!CleanAlways, Table!Work>>
  BY DEF Table!TegraMultisign, Table!Program
<1>0. f \in Nat /\ Len(fetch) = f /\ fetch \in Seq(asks)
  <2>1. CASE t210
    BY <2>1 DEF Table!TegraCmd
  <2>2. CASE ~t210
    BY <2>2 DEF Table!TegraCmd
  <2> QED
    BY <2>1, <2>2
\* Every key the helper takes has been asked for.
<1>4. \A k \in Table!TegraKeys(t210) :
        \E j \in 1..f : fetch[j] \in {Table!Get(k), Table!Opt(k)}
  <2>1. CASE t210
    <3>1. fetch[2] = Table!Get("rsa_priv.pem") /\ 2 \in 1..f
      BY <2>1 DEF Table!TegraCmd
    <3> QED
      BY <2>1, <3>1 DEF Table!TegraKeys
  <2>2. CASE ~t210
    <3>1. /\ fetch[2] = Table!Get("rsa_priv.pem") /\ fetch[4] = Table!Opt("sbk.txt")
          /\ fetch[5] = Table!Opt("user_key.txt") /\ 2 \in 1..f /\ 4 \in 1..f /\ 5 \in 1..f
      BY <2>2 DEF Table!TegraCmd
    <3> QED
      BY <2>2, <3>1 DEF Table!TegraKeys
  <2> QED
    BY <2>1, <2>2
<1> HIDE DEF p, loop, fetch, sign, f
<1> USE <1>0
<1>3. /\ Len(p.steps) = f + m + 2
      /\ \A i \in 1..f : p.steps[i] = fetch[i] /\ fetch[i] \in asks
      /\ \A i \in (f + 1)..(f + m) : p.steps[i] = Table!Work \/ p.steps[i] = sign
      /\ p.steps[f + m + 1] = Table!CleanAlways
      /\ p.steps[f + m + 2] = Table!Work
  <2>2. /\ Len(loop) = m /\ loop \in Seq(steps)
        /\ \A i \in 1..m : loop[i] = Table!Work \/ loop[i] = sign
    BY <1>1
  <2> DEFINE tail == <<Table!CleanAlways, Table!Work>>
  <2>3. tail \in Seq(steps) /\ Len(tail) = 2 /\ tail[1] = Table!CleanAlways /\ tail[2] = Table!Work
    OBVIOUS
  <2>1. Len(fetch) = f /\ fetch \in Seq(steps)
    <3>1. asks \subseteq steps
      OBVIOUS
    <3> HIDE DEF asks, steps
    <3> QED
      BY <1>0, <3>1
  <2>13. \A i \in 1..f : fetch[i] \in asks
    <3> HIDE DEF asks
    <3> QED
      BY <1>0
  <2> HIDE DEF tail, steps, asks
  <2>4. p.steps = fetch \o loop \o tail
    BY <1>2 DEF tail
  <2>5. fetch \in Seq(steps) /\ loop \in Seq(steps) /\ tail \in Seq(steps)
    BY <2>1, <2>2, <2>3
  <2>6. Len(p.steps) = Len(fetch) + Len(loop) + Len(tail)
    BY <2>4, <2>5, ThreeParts
  <2>7. \A i \in 1..Len(fetch) : p.steps[i] = fetch[i]
    BY <2>4, <2>5, ThreeParts
  <2>8. \A i \in 1..Len(loop) : p.steps[Len(fetch) + i] = loop[i]
    BY <2>4, <2>5, ThreeParts
  <2>9. \A i \in 1..Len(tail) : p.steps[Len(fetch) + Len(loop) + i] = tail[i]
    BY <2>4, <2>5, ThreeParts
  <2>10. ASSUME NEW i \in (f + 1)..(f + m) PROVE p.steps[i] = Table!Work \/ p.steps[i] = sign
    <3>1. i - f \in 1..m /\ i = f + (i - f)
      BY <1>0
    <3> QED
      BY <2>1, <2>2, <2>8, <3>1
  <2>11. p.steps[f + m + 1] = Table!CleanAlways /\ p.steps[f + m + 2] = Table!Work
    BY <2>1, <2>2, <2>3, <2>9
  <2> QED
    BY <1>0, <2>1, <2>2, <2>3, <2>6, <2>7, <2>10, <2>11, <2>13
<1>5. /\ ~Gets(Table!Work) /\ ~Tool(Table!Work) /\ ~Closing(Table!Work)
      /\ Table!Work.op # "run"
  BY DEF Table!Work, Table!StepOf, Gets, Tool, Closing
<1>6. /\ ~Gets(sign) /\ Tool(sign) /\ ~Closing(sign) /\ sign.when = "ok"
      /\ sign.keys = Table!TegraKeys(t210)
  BY DEF sign, Table!RunKeep, Table!StepOf, Gets, Tool, Closing
<1>7. \A k : LET s == Table!Get(k) IN Gets(s) /\ ~Tool(s) /\ ~Closing(s) /\ k \in s.keys /\ s.op # "run"
  BY DEF Table!Get, Table!StepOf, Gets, Tool, Closing
<1>8. \A k : LET s == Table!Opt(k) IN Gets(s) /\ ~Tool(s) /\ ~Closing(s) /\ k \in s.keys /\ s.op # "run"
  BY DEF Table!Opt, Table!StepOf, Gets, Tool, Closing
<1>9. /\ ~Gets(Table!CleanAlways) /\ ~Tool(Table!CleanAlways) /\ Closing(Table!CleanAlways)
      /\ Table!CleanAlways.when = "always" /\ Table!CleanAlways.op # "run"
  BY DEF Table!CleanAlways, Table!StepOf, Gets, Tool, Closing
<1>10. \A i \in 1..f : ~Tool(p.steps[i]) /\ ~Closing(p.steps[i]) /\ p.steps[i].op # "run"
  BY <1>3, <1>5, <1>7, <1>8
<1>11. \A i \in (f + 1)..(f + m) :
         /\ ~Gets(p.steps[i]) /\ ~Closing(p.steps[i])
         /\ p.steps[i].op = "run" => p.steps[i].when = "ok"
         /\ Tool(p.steps[i]) => p.steps[i] = sign
  BY <1>3, <1>5, <1>6
<1>12. Phased(p, f, f + m + 1)
  <2>1. \A i \in 1..(f + m + 2) : \/ i \in 1..f \/ i \in (f + 1)..(f + m)
                                  \/ i = f + m + 1 \/ i = f + m + 2
    BY <1>0
  <2>2. \A i \in (f + m + 1 + 1)..Len(p.steps) : i = f + m + 2
    BY <1>0, <1>3
  <2>3. p.loads /\ f + m + 1 \in Nat /\ f < f + m + 1 /\ f + m + 1 <= Len(p.steps)
    BY <1>0, <1>2, <1>3
  <2>4. \A i \in 1..(f + m + 1 - 1) : ~Closing(p.steps[i])
    BY <2>1, <1>10, <1>11
  <2>5. Closing(p.steps[f + m + 1]) /\ p.steps[f + m + 1].when = "always"
    BY <1>3, <1>9
  <2>6. \A i \in (f + 1)..Len(p.steps) : ~Gets(p.steps[i])
    BY <2>1, <1>3, <1>5, <1>9, <1>11
  <2>7. \A i \in (f + m + 1 + 1)..Len(p.steps) : ~Tool(p.steps[i])
    BY <2>2, <1>3, <1>5
  <2>8. \A i \in 1..(f + m + 1) : Tool(p.steps[i]) => \A k \in p.steps[i].keys :
          \E j \in 1..f : Gets(p.steps[j]) /\ k \in p.steps[j].keys
    <3> SUFFICES ASSUME NEW i \in 1..(f + m + 1), Tool(p.steps[i]), NEW k \in p.steps[i].keys
                 PROVE  \E j \in 1..f : Gets(p.steps[j]) /\ k \in p.steps[j].keys
      OBVIOUS
    <3>1. i \in (f + 1)..(f + m)
      BY <2>1, <1>3, <1>9, <1>10
    <3>2. PICK j \in 1..f : fetch[j] \in {Table!Get(k), Table!Opt(k)}
      BY <3>1, <1>4, <1>6, <1>11
    <3>3. p.steps[j] \in {Table!Get(k), Table!Opt(k)}
      BY <3>2, <1>3
    <3> QED
      BY <3>3, <1>7, <1>8
  <2>9. NoMaskedFailure(p.steps)
    BY <2>1, <1>3, <1>5, <1>9, <1>10, <1>11 DEF NoMaskedFailure
  <2> QED
    BY <1>3, <1>10, <2>3, <2>4, <2>5, <2>6, <2>7, <2>8, <2>9 DEF Phased
<1> QED
  BY <1>12, ThreePhases DEF p

-----------------------------------------------------------------------------
(* Every sign method of the repository is disciplined, however many files  *)
(* its loop goes through.                                                  *)
THEOREM TableIsDisciplined == \A p \in EveryMethod : Disciplined(p)
<1> SUFFICES ASSUME NEW n \in Nat, NEW p \in Table!AllPrograms(n)
             PROVE  Disciplined(p)
  BY DEF EveryMethod
<1>1. \A m \in 0..n : m \in Nat
  OBVIOUS
<1> QED
  BY <1>1, StraightMethods, KmodDisciplined, OpteeDisciplined, RkTasDisciplined,
     TegraMultisignDisciplined DEF Table!AllPrograms

-----------------------------------------------------------------------------
\* The key files the methods ask for.
TableKeys ==
  {"rsa_priv.pem", "sbk.txt", "user_key.txt", "dev.key", "dev.crt", "dev.pubkey",
   "optee-signing-pubkey.pem", "optee-signing-key.pem", "db.key", "db.crt",
   "signer_private_cert.pem", "other_public_cert.pem", "trusted_public_cert.pem",
   "oem_k1.key", "fixed-vector", "uefi-variable-authentication.key",
   "kernel-encryption.key", "disk-encryption.key", "kernel-signkey.priv",
   "kernel-signkey.x509", "imx-cst-keys.tar.gz", "rsa-private.key", "cms.cert",
   "cms-private.key", "private.key"}

\* A well-typed step, which asks for one key if it asks for any.
GoodStep == {s \in StepType : Gets(s) => \E k \in KeyNames : s.keys = {k}}

(* Every form of a step is such a step.                                    *)
LEMMA StepsAreGood ==
  /\ \A k \in KeyNames : Table!Get(k) \in GoodStep /\ Table!Opt(k) \in GoodStep
  /\ \A K \in SUBSET KeyNames : /\ Table!Run(K) \in GoodStep /\ Table!RunKeep(K) \in GoodStep
                                /\ Table!EachKeep(K) \in GoodStep
  /\ Table!Load \in GoodStep /\ Table!Work \in GoodStep /\ Table!WorkAlways \in GoodStep
  /\ Table!Transfer \in GoodStep /\ Table!CleanAlways \in GoodStep /\ Table!Raise \in GoodStep
BY DEF GoodStep, StepType, Ops, Gets, Table!StepOf, Table!Get, Table!Opt, Table!Load,
   Table!Work, Table!WorkAlways, Table!Transfer, Table!CleanAlways, Table!Raise, Table!Run,
   Table!RunKeep, Table!EachKeep

(* The first three parts of a method are well typed.                       *)
LEMMA TableShape ==
  \A p \in EveryMethod : /\ DOMAIN p = {"signer", "loads", "rejects", "handler", "steps"}
                         /\ p.loads \in BOOLEAN
                         /\ p.rejects \subseteq {"Value", "Other"}
                         /\ p.handler \subseteq {"lists", "extracts", "checks", "repacks"}
<1> DEFINE Shape(p) == /\ DOMAIN p = {"signer", "loads", "rejects", "handler", "steps"}
                       /\ p.loads \in BOOLEAN
                       /\ p.rejects \subseteq {"Value", "Other"}
                       /\ p.handler \subseteq {"lists", "extracts", "checks", "repacks"}
           Routes == SUBSET {"lists", "extracts", "checks", "repacks"}
<1>1. \A signer, steps : \A loads \in BOOLEAN : \A rejects \in SUBSET {"Value", "Other"} :
        \A handler \in Routes : Shape(Table!Program(signer, loads, rejects, handler, steps))
  <2> TAKE signer, steps
  <2> TAKE loads \in BOOLEAN
  <2> TAKE rejects \in SUBSET {"Value", "Other"}
  <2> TAKE handler \in Routes
  <2> DEFINE p == [signer |-> signer, loads |-> loads, rejects |-> rejects,
                   handler |-> handler, steps |-> steps]
  <2>1. p.loads = loads /\ p.rejects = rejects /\ p.handler = handler
    OBVIOUS
  <2>2. DOMAIN p = {"signer", "loads", "rejects", "handler", "steps"}
    OBVIOUS
  <2> QED
    BY <2>1, <2>2 DEF Table!Program
<1>2. /\ {} \in SUBSET {"Value", "Other"} /\ {"Value"} \in SUBSET {"Value", "Other"}
      /\ {"Other"} \in SUBSET {"Value", "Other"}
      /\ {"Value", "Other"} \in SUBSET {"Value", "Other"}
  OBVIOUS
<1>2b. TRUE \in BOOLEAN /\ FALSE \in BOOLEAN /\ \A b \in BOOLEAN : (~b) \in BOOLEAN
  BY ZenonT(20)
<1>2c. /\ {} \in Routes /\ {"checks"} \in Routes /\ {"lists"} \in Routes
       /\ Table!Tarball \in Routes /\ Table!Tarball \cup {"checks"} \in Routes
       /\ \A d \in BOOLEAN : Table!FitHandler(d) \in Routes
  BY DEF Table!Tarball, Table!FitHandler
<1> HIDE DEF Shape, Routes
<1> USE <1>1, <1>2, <1>2b, <1>2c
<1>3. \A n : /\ \A b \in BOOLEAN : Shape(Table!TegraMultisign(b, n))
             /\ Shape(Table!RkTas(n)) /\ Shape(Table!Optee(n)) /\ Shape(Table!Kmod(n))
  BY DEF Table!TegraMultisign, Table!RkTas, Table!Optee, Table!Kmod
<1>4. \A b \in BOOLEAN : /\ Shape(Table!TegraSign(b)) /\ Shape(Table!RkLoader(b))
                         /\ Shape(Table!Ekb(b)) /\ Shape(Table!SwuUnknown(b))
                         /\ Shape(Table!FitImage(b)) /\ Shape(Table!FitImageHsm(b))
  BY DEF Table!TegraSign, Table!RkLoader, Table!Ekb, Table!SwuUnknown, Table!FitImage,
     Table!FitImageHsm
<1>5. /\ Shape(Table!TegraSignfiles) /\ Shape(Table!RkFit)
      /\ Shape(Table!RkTee) /\ Shape(Table!UefiSign)
      /\ Shape(Table!UefiAttach) /\ Shape(Table!Capsule)
      /\ Shape(Table!Imx) /\ Shape(Table!SwuRsa)
      /\ Shape(Table!SwuCms) /\ Shape(Table!SwuRsaHsm)
      /\ Shape(Table!SwuCmsHsm) /\ Shape(Table!Mender)
  BY DEF Table!TegraSignfiles, Table!RkFit, Table!RkTee, Table!UefiSign, Table!UefiAttach,
     Table!Capsule, Table!Imx, Table!SwuRsa, Table!SwuCms, Table!SwuRsaHsm,
     Table!SwuCmsHsm, Table!Mender
<1>6. \A p \in EveryMethod : Shape(p)
  BY <1>3, <1>4, <1>5 DEF EveryMethod, Table!AllPrograms
<1> QED
  BY <1>6 DEF Shape

(* So are its steps, if the names in the table are names of keys.          *)
LEMMA TableSteps ==
  ASSUME TableKeys \subseteq KeyNames
  PROVE  \A p \in EveryMethod : p.steps \in Seq(GoodStep)
<1>1. /\ \A k \in TableKeys : Table!Get(k) \in GoodStep /\ Table!Opt(k) \in GoodStep
      /\ \A K \in SUBSET TableKeys : /\ Table!Run(K) \in GoodStep
                                     /\ Table!RunKeep(K) \in GoodStep
                                     /\ Table!EachKeep(K) \in GoodStep
      /\ Table!Load \in GoodStep /\ Table!Work \in GoodStep /\ Table!WorkAlways \in GoodStep
      /\ Table!Transfer \in GoodStep /\ Table!CleanAlways \in GoodStep
      /\ Table!Raise \in GoodStep
  BY StepsAreGood
<1> HIDE DEF GoodStep
<1> USE <1>1 DEF TableKeys, Table!Program
<1>2. \A b \in BOOLEAN : Table!TegraSign(b).steps \in Seq(GoodStep)
  BY DEF Table!TegraSign, Table!TegraCmd, Table!TegraKeys
<1>3. \A b \in BOOLEAN : Table!RkLoader(b).steps \in Seq(GoodStep)
  BY DEF Table!RkLoader, Table!RkPair
<1>4. \A b \in BOOLEAN : Table!Ekb(b).steps \in Seq(GoodStep)
  BY DEF Table!Ekb
<1>5. /\ Table!TegraSignfiles.steps \in Seq(GoodStep) /\ Table!RkFit.steps \in Seq(GoodStep)
      /\ Table!RkTee.steps \in Seq(GoodStep) /\ Table!UefiSign.steps \in Seq(GoodStep)
      /\ Table!UefiAttach.steps \in Seq(GoodStep) /\ Table!Capsule.steps \in Seq(GoodStep)
      /\ \A d \in BOOLEAN : /\ Table!FitImage(d).steps \in Seq(GoodStep)
                            /\ Table!FitImageHsm(d).steps \in Seq(GoodStep)
      /\ Table!Imx.steps \in Seq(GoodStep) /\ Table!SwuRsa.steps \in Seq(GoodStep)
      /\ Table!SwuCms.steps \in Seq(GoodStep) /\ Table!SwuRsaHsm.steps \in Seq(GoodStep)
      /\ Table!SwuCmsHsm.steps \in Seq(GoodStep) /\ Table!Mender.steps \in Seq(GoodStep)
  BY DEF Table!TegraSignfiles, Table!RkFit, Table!RkTee, Table!UefiSign, Table!UefiAttach,
     Table!Capsule, Table!Imx, Table!FitImage, Table!FitImageHsm, Table!SwuRsa,
     Table!SwuCms, Table!SwuRsaHsm, Table!SwuCmsHsm, Table!Mender, Table!UefiKeys, Table!CapsuleKeys,
     Table!FitKeys
<1>6. \A b \in BOOLEAN : Table!SwuUnknown(b).steps \in Seq(GoodStep)
  BY DEF Table!SwuUnknown
<1>7. ASSUME NEW n \in Nat
      PROVE  /\ \A b \in BOOLEAN : Table!TegraMultisign(b, n).steps \in Seq(GoodStep)
             /\ Table!RkTas(n).steps \in Seq(GoodStep)
             /\ Table!Optee(n).steps \in Seq(GoodStep)
             /\ Table!Kmod(n).steps \in Seq(GoodStep)
  <2>1. /\ \A b \in BOOLEAN : Table!RunKeep(Table!TegraKeys(b)) \in GoodStep
        /\ Table!EachKeep({"optee-signing-key.pem"}) \in GoodStep
        /\ Table!RunKeep(Table!KmodKeys) \in GoodStep
    BY DEF Table!TegraKeys, Table!KmodKeys
  <2>2. /\ \A b \in BOOLEAN :
             Table!Repeat(n, <<Table!Work, Table!RunKeep(Table!TegraKeys(b))>>) \in Seq(GoodStep)
        /\ Table!Repeat(n, <<Table!EachKeep({"optee-signing-key.pem"})>>) \in Seq(GoodStep)
        /\ Table!Repeat(n, <<Table!Work>>) \in Seq(GoodStep)
        /\ Table!Repeat(n, <<Table!RunKeep(Table!KmodKeys)>>) \in Seq(GoodStep)
    <3>1. ASSUME NEW s \in GoodStep PROVE Table!Repeat(n, <<s>>) \in Seq(GoodStep)
      <4>1. Table!Repeat(n, <<s>>) = [i \in 1..n |-> s]
        BY RepeatOne
      <4> QED
        BY ONLY <4>1, n \in Nat, s \in GoodStep
    <3>2. ASSUME NEW s \in GoodStep, NEW t \in GoodStep
          PROVE  Table!Repeat(n, <<s, t>>) \in Seq(GoodStep)
      <4>1. PICK m \in Nat : Table!Repeat(n, <<s, t>>) \in [1..m -> {s, t}]
        BY RepeatTwo
      <4>2. Table!Repeat(n, <<s, t>>) \in [1..m -> GoodStep]
        BY ONLY <4>1, s \in GoodStep, t \in GoodStep
      <4> QED
        BY ONLY <4>2, m \in Nat
    <3> QED
      BY <1>1, <2>1, <3>1, <3>2
  <2>3. /\ \A b \in BOOLEAN : <<Table!Work>> \o Table!TegraCmd(b) \in Seq(GoodStep)
        /\ <<Table!CleanAlways, Table!Work>> \in Seq(GoodStep)
        /\ <<Table!CleanAlways>> \in Seq(GoodStep)
        /\ <<Table!Get("optee-signing-key.pem")>> \in Seq(GoodStep)
        /\ <<Table!Get("optee-signing-key.pem"), Table!RunKeep({"optee-signing-key.pem"})>>
             \in Seq(GoodStep)
        /\ <<Table!Get("kernel-signkey.priv"), Table!Get("kernel-signkey.x509")>>
             \in Seq(GoodStep)
    BY DEF Table!TegraCmd
  <2>4. \A s, t, u \in Seq(GoodStep) : s \o t \o u \in Seq(GoodStep)
    OBVIOUS
  <2> QED
    BY <2>2, <2>3, <2>4 DEF Table!TegraMultisign, Table!RkTas, Table!Optee, Table!Kmod
<1> HIDE <1>1 DEF TableKeys, Table!Program
<1> SUFFICES ASSUME NEW n \in Nat, NEW p \in Table!AllPrograms(n)
             PROVE  p.steps \in Seq(GoodStep)
  BY DEF EveryMethod
<1>8. \A m \in 0..n : /\ \A b \in BOOLEAN : Table!TegraMultisign(b, m).steps \in Seq(GoodStep)
                     /\ Table!RkTas(m).steps \in Seq(GoodStep)
                     /\ Table!Optee(m).steps \in Seq(GoodStep)
                     /\ Table!Kmod(m).steps \in Seq(GoodStep)
  <2>1. \A m \in 0..n : m \in Nat
    OBVIOUS
  <2> QED
    BY <1>7, <2>1
<1> QED
  <2> DEFINE Typed(q) == q.steps \in Seq(GoodStep)
  <2>1. /\ \A m \in 0..n : \A b \in BOOLEAN : Typed(Table!TegraMultisign(b, m))
        /\ \A m \in 0..n : /\ Typed(Table!RkTas(m)) /\ Typed(Table!Optee(m))
                           /\ Typed(Table!Kmod(m))
        /\ \A b \in BOOLEAN : /\ Typed(Table!TegraSign(b)) /\ Typed(Table!RkLoader(b))
                              /\ Typed(Table!Ekb(b)) /\ Typed(Table!SwuUnknown(b))
                              /\ Typed(Table!FitImage(b)) /\ Typed(Table!FitImageHsm(b))
        /\ Typed(Table!TegraSignfiles) /\ Typed(Table!RkFit) /\ Typed(Table!RkTee)
        /\ Typed(Table!UefiSign) /\ Typed(Table!UefiAttach) /\ Typed(Table!Capsule)
        /\ Typed(Table!Imx) /\ Typed(Table!SwuRsa) /\ Typed(Table!SwuCms)
        /\ Typed(Table!SwuRsaHsm) /\ Typed(Table!SwuCmsHsm) /\ Typed(Table!Mender)
    BY <1>2, <1>3, <1>4, <1>5, <1>6, <1>8
  <2> HIDE DEF Typed
  <2>2. Typed(p)
    BY <2>1 DEF Table!AllPrograms
  <2> QED
    BY <2>2 DEF Typed

(* Every sign method of the repository is well typed, however many files   *)
(* its loop goes through: the assumption on Programs is met by the table.  *)
THEOREM TableIsTyped ==
  ASSUME TableKeys \subseteq KeyNames
  PROVE  \A p \in EveryMethod : IsProgram(p)
<1> SUFFICES ASSUME NEW p \in EveryMethod PROVE IsProgram(p)
  OBVIOUS
<1>1. p.steps \in Seq(GoodStep)
  BY TableSteps
<1>2. p.steps \in Seq(StepType)
  BY <1>1, SeqMonotonic DEF GoodStep
<1>3. \A i \in 1..Len(p.steps) : p.steps[i] \in GoodStep
  BY <1>1
<1> QED
  BY <1>2, <1>3, TableShape DEF IsProgram, GoodStep, Gets

-----------------------------------------------------------------------------
\* The sign methods are those of the repository.
RepositoryTable == Programs \subseteq EveryMethod

(* Whichever signer of the repository a request asks for, and however many *)
(* files it loops over: tools find their key files, which are gone when    *)
(* the method returns; the result is true; a key in a directory is used;   *)
(* the operation is what KeyCustody and SignJob promise.                   *)
THEOREM RepositoryIsSafe ==
  RepositoryTable /\ Spec =>
    /\ []TypeOK
    /\ []ToolSeesKeys
    /\ []ReturnLeavesNoKeys
    /\ []ResultMeansEveryToolSucceeded
    /\ []KeyInDirectoryIsUsed
    /\ KeepsCustody
    /\ IsSignJob
<1>1. RepositoryTable => DisciplinedTable
  BY TableIsDisciplined DEF RepositoryTable, DisciplinedTable
<1> QED
  BY <1>1, TypeCorrect, ToolsFindTheirKeys, ReturnedKeysAreGone, ResultIsTheTruth,
     KeysFoundAreUsed, Implements, ProvidesJob, PTL

\* What each answer says of the operation.
AnswerIsOfTheOutcome ==
  /\ reply = "200" => status = "returned" /\ result
  /\ reply = "400" => status = "refused"
  /\ reply # "none" => status \in {"returned", "raised", "refused"}

\* What the client may conclude: after a 200 every tool succeeded, after a 400
\* none was started, and only an exception leaves keys to the finalizer.
ClientsMayConclude ==
  /\ reply = "200" => ~toolFailed /\ ~tmpdir
  /\ reply = "400" => dirs = 0 /\ ~toolFailed
  /\ reply # "none" /\ tmpdir => status = "raised"

(* An operation that has been answered stays as it is but for its keys.    *)
LEMMA AnswerStep ==
  IInv /\ AnswerIsOfTheOutcome /\ [Next]_vars => AnswerIsOfTheOutcome'
<1> SUFFICES ASSUME IInv, AnswerIsOfTheOutcome, [Next]_vars PROVE AnswerIsOfTheOutcome'
  OBVIOUS
<1>1. CASE Answer
  BY <1>1 DEF Answer, AnswerIsOfTheOutcome
<1>2. CASE Collect \/ UNCHANGED vars
  BY <1>2 DEF Collect, vars, opVars, AnswerIsOfTheOutcome
<1>3. CASE status \in {"new", "ready", "running"} /\ reply' = reply
  BY <1>3 DEF IInv, NotAnswered, AnswerIsOfTheOutcome
<1>6. CASE TurnDown
  BY <1>6 DEF TurnDown, AnswerIsOfTheOutcome
<1>4. CASE Refuse \/ ConstructorRaises \/ Construct \/ HandOver \/ PrepareRaises \/ Return
  BY <1>3, <1>4 DEF Refuse, ConstructorRaises, Construct, HandOver, PrepareRaises, Return
<1>5. CASE Skip \/ FetchKey \/ MissOptional \/ MissKey \/ FetchBreaks \/ EnsureLoaded
            \/ LoadRaises \/ ToolSucceeds \/ ToolFails \/ ToolRaises \/ WorkDone
            \/ WorkRaises \/ CleanKeys
  BY <1>3, <1>5 DEF Skip, FetchKey, MissOptional, MissKey, FetchBreaks, EnsureLoaded,
     LoadRaises, ToolSucceeds, ToolFails, ToolRaises, WorkDone, WorkRaises, CleanKeys,
     Ready, Advance, Raise
<1> QED
  BY <1>1, <1>2, <1>4, <1>5, <1>6 DEF Next

(* "The server never retains the key files after a signing operation is    *)
(* complete" (README.md) fails only for an operation that ends in an       *)
(* exception: after a 200 or a 400 there is nothing to collect, and a 200  *)
(* is sent only if every tool that signed has succeeded.                   *)
THEOREM AnswersCanBeTrusted == RepositoryTable /\ Spec => []ClientsMayConclude
<1>1. RepositoryTable => DisciplinedTable
  BY TableIsDisciplined DEF RepositoryTable, DisciplinedTable
<1>2. Init => AnswerIsOfTheOutcome
  BY DEF Init, AnswerIsOfTheOutcome
<1>3. IInv /\ AnswerIsOfTheOutcome => ClientsMayConclude
  BY DEF IInv, AtReturn, Untouched, AnswerIsOfTheOutcome, ClientsMayConclude
<1> QED
  BY <1>1, <1>2, <1>3, AnswerStep, Invariance, PTL DEF Spec
=============================================================================
