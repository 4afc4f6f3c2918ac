------------------------------ MODULE KeyFiles ------------------------------
(***************************************************************************)
(* The key custodian of one signing operation: class KeyFiles              *)
(* (digsigserver/keyfiles.py) with the URI access it makes through         *)
(* uri_exists and uri_fetch (digsigserver/utils.py).  A signer creates at  *)
(* most one KeyFiles object; the object creates a temporary directory on   *)
(* the first get(), copies key files into it one at a time, and removes it *)
(* in cleanup().                                                           *)
(***************************************************************************)
EXTENDS Naturals

CONSTANT KeyNames   \* the file names the signers ask for

VARIABLES
  scheme,  \* of DIGSIGSERVER_KEYFILE_URI: "file" or "s3"
  store,   \* key files present under the operation's key URI
  loaded,  \* the signer has a KeyFiles object (self.keys is not None)
  tmpdir,  \* self.tmpdir is not None, and the directory exists
  held,    \* key files with an entry in that directory
  whole,   \* those of them that were copied completely
  dirs     \* temporary directories created so far (history)

keyVars == <<scheme, store, loaded, tmpdir, held, whole, dirs>>

KeyTypeOK ==
  /\ scheme \in {"file", "s3"}
  /\ store \subseteq KeyNames
  /\ held \subseteq KeyNames
  /\ whole \subseteq held
  /\ loaded \in BOOLEAN
  /\ tmpdir \in BOOLEAN
  /\ dirs \in Nat
  /\ held # {} => tmpdir

KeyInit ==
  /\ scheme \in {"file", "s3"}
  /\ loaded = FALSE
  /\ tmpdir = FALSE
  /\ held = {}
  /\ whole = {}
  /\ dirs = 0

-----------------------------------------------------------------------------
(* uri_exists(keyfileuri, is_dir=True).  A directory may be there and      *)
(* hold none of the keys, an S3 prefix too; the listing of a prefix may     *)
(* fail for reasons of its own, which the code reads as "no".              *)

CannotLoad == scheme = "s3" \/ store = {}

LoadKeys ==
  /\ loaded' = TRUE
  /\ UNCHANGED <<scheme, store, tmpdir, held, whole, dirs>>

\* The directory is created before anything is looked up, once per object.
OpenDir ==
  /\ tmpdir' = TRUE
  /\ dirs' = IF tmpdir THEN dirs ELSE dirs + 1

\* get(k) returns a path: k was fetched before, or is fetched now.
GetKey(k) ==
  /\ OpenDir
  /\ k \in held \cup store
  /\ held'  = held \cup {k}
  /\ whole' = IF k \in held THEN whole ELSE whole \cup {k}
  /\ UNCHANGED <<scheme, store, loaded>>

\* get(k) raises FileNotFoundError: there is no such file, or the S3 copy
\* failed (uri_fetch's RuntimeError is swallowed).
KeyNotFound(k) ==
  /\ OpenDir
  /\ k \notin held
  /\ k \notin store \/ scheme = "s3"
  /\ UNCHANGED <<scheme, store, loaded, held, whole>>

\* get(k) lets another exception through: the directory cannot be created,
\* or the copy breaks, with nothing or a torn file left under the name.
GetBreaks(k) ==
  \/ ~tmpdir /\ UNCHANGED keyVars
  \/ /\ OpenDir
     /\ k \in store \ held
     /\ held' \in {held, held \cup {k}}
     /\ UNCHANGED <<scheme, store, loaded, whole>>

\* Mutant of DropDir: the directory is forgotten, its files are not removed.
ForgetDir ==
  /\ tmpdir' = FALSE
  /\ UNCHANGED <<scheme, store, loaded, held, whole, dirs>>

\* cleanup(), and also what the finalizer of the TemporaryDirectory does
\* when the object is collected.
DropDir ==
  /\ tmpdir' = FALSE
  /\ held' = {}
  /\ whole' = {}
  /\ UNCHANGED <<scheme, store, loaded, dirs>>
=============================================================================
