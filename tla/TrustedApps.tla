---------------------------- MODULE TrustedApps ----------------------------
(***************************************************************************)
(* Signing a tree of OP-TEE trusted applications, one after the other, in  *)
(* place; the tree is then returned as a whole.  A name or a version that  *)
(* does not go into the header stops the walk half-way.                    *)
(* Sources: digsigserver/signers/opteesign.py, digsigserver/server.py.     *)
(***************************************************************************)
EXTENDS Integers

CONSTANTS
  Apps,      \* trusted applications a client may send
  Suffixes,  \* what their images may be called: <uuid> and one of these
  Limit      \* versions below it fit the header's field (2^32 in the code)

ASSUME LimitAssumption == Limit \in Nat \ {0}

Nothing == -3      \* there is no file, or no header
NotANumber == -2   \* int(text, 0) raises: an empty text, or one like 010

\* What a client may write into a ta-version file, if it sends one.
Texts == {Nothing, NotANumber} \cup -1..Limit

Signable == ".stripped.elf"

VARIABLES
  sent,        \* name and version text of each app's image
  files,       \* which files of each app there are
  header,      \* the version in the header of each app's .ta
  walk,        \* apps os.walk has still to come to
  ta_version,  \* the local variable of the loop
  reply

vars == <<sent, files, header, walk, ta_version, reply>>

Init ==
  /\ sent \in [Apps -> [suffix : Suffixes, uuid : {"good", "bad"}, text : Texts]]
  /\ files = [a \in Apps |-> {"image"} \cup
                (IF sent[a].text = Nothing THEN {} ELSE {"ta-version"})]
  /\ header = [a \in Apps |-> Nothing]
  /\ walk = Apps
  /\ ta_version = Nothing
  /\ reply = "none"

\* The key is not an RSA private key.
BadKey ==
  /\ walk = Apps /\ reply = "none"
  /\ reply' = "500"
  /\ UNCHANGED <<sent, files, header, walk, ta_version>>

\* os.walk comes to the files of a.
ComesTo(a) == reply = "none" /\ a \in walk /\ walk' = walk \ {a}

PassOver(a) ==
  /\ ComesTo(a)
  /\ sent[a].suffix # Signable
  /\ UNCHANGED <<sent, files, header, ta_version, reply>>

\* Mutant of ReadVersion: without a file the loop goes on with the version of
\* the application before.
ReadVersionStale(a) == IF "ta-version" \in files[a] THEN sent[a].text ELSE ta_version

ReadVersion(a) == IF "ta-version" \in files[a] THEN sent[a].text ELSE 0

\* struct.pack('<I', int(ta_version, 0)) and UUID(uuid), before a file is
\* written.
Packs(a) == sent[a].uuid = "good" /\ ReadVersion(a) \in 0..Limit-1

Sign(a) ==
  /\ ComesTo(a)
  /\ sent[a].suffix = Signable /\ Packs(a)
  /\ ta_version' = ReadVersion(a)
  /\ header' = [header EXCEPT ![a] = ta_version']
  /\ files' = [files EXCEPT ![a] = {"ta"}]
  /\ UNCHANGED <<sent, reply>>

\* Mutant of SignRaises: an application that cannot be signed is passed over.
SignRaisesIgnored(a) ==
  /\ ComesTo(a)
  /\ sent[a].suffix = Signable /\ ~Packs(a)
  /\ UNCHANGED <<sent, files, header, ta_version, reply>>

SignRaises(a) ==
  /\ ComesTo(a)
  /\ sent[a].suffix = Signable /\ ~Packs(a)
  /\ reply' = "500"
  /\ UNCHANGED <<sent, files, header, ta_version>>

\* sign returns True; return_tarball packs the tree.
Return ==
  /\ walk = {} /\ reply = "none"
  /\ reply' = "200"
  /\ UNCHANGED <<sent, files, header, walk, ta_version>>

Next ==
  \/ BadKey \/ Return
  \/ \E a \in Apps : PassOver(a) \/ Sign(a) \/ SignRaises(a)

Spec == Init /\ [][Next]_vars

-----------------------------------------------------------------------------
(* Properties.                                                             *)

\* Whatever the order of the walk, an application gets its own version: the
\* one sent with it, 0 if none was, never that of another one.
VersionsAreTheirOwn ==
  \A a \in Apps : header[a] # Nothing =>
    header[a] = IF sent[a].text = Nothing THEN 0 ELSE sent[a].text

\* A 200 means that every image the signer knows by its name is signed, and
\* that of its files only the .ta is returned.
SignedThroughout ==
  reply = "200" =>
    \A a \in Apps : sent[a].suffix = Signable => header[a] # Nothing /\ files[a] = {"ta"}
=============================================================================
