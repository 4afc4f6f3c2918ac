----------------------------- MODULE PinAndLogs -----------------------------
(***************************************************************************)
(* The password of the HSM: the signers put it in the place of a           *)
(* placeholder in what the client sent, and a filter on the loggers takes  *)
(* it out of what is logged.  create_app installs the filter, or gives the *)
(* one that is there new secrets.                                          *)
(* Sources: digsigserver/logredaction.py, digsigserver/server.py,          *)
(* signers/swupdsign.py, signers/imxsign.py, signers/fitimagesign.py.      *)
(***************************************************************************)
EXTENDS Naturals, FiniteSets

CONSTANTS
  Passwords,   \* values of YUBIHSM_PASSWORD
  Escaped,     \* those that repr writes with escapes: backslashes, quotes
  Unset,       \* the variable is not set
  Placeholder, \* "pin-value=password"
  MaxApps      \* bound on calls of create_app in one process

ASSUME PinAssumption ==
  MaxApps \in Nat /\ Unset \notin Passwords /\ Escaped \subseteq Passwords

Loggers == {"", "sanic.root", "sanic.error", "sanic.access"}
Operations == {"imx", "swupdate-rsa", "swupdate-cms", "fitimage"}

VARIABLES
  apps,     \* calls of create_app so far
  config,   \* YUBIHSM_PASSWORD of the latest app
  filters,  \* the redaction filters each logger carries, numbered
  secrets,  \* the secrets of each filter
  line      \* the line logged last: a command or a tool's output, the password
            \* a reader finds in it, and the one configured then

vars == <<apps, config, filters, secrets, line>>

Init ==
  /\ apps = 0
  /\ config = Unset
  /\ filters = [l \in Loggers |-> {}]
  /\ secrets = [f \in 1..MaxApps |-> {}]
  /\ line = [form |-> "none", shows |-> Unset, config |-> Unset]

\* set_secrets drops what is empty.
SecretsOf(p) == {p} \ {Unset}

\* Mutants of Install: a filter that is there is left as it is; each call adds
\* its own filter.
InstallOnce(p) ==
  IF \E l \in Loggers : filters[l] # {} THEN UNCHANGED <<filters, secrets>>
  ELSE /\ filters' = [l \in Loggers |-> {apps + 1}]
       /\ secrets' = [secrets EXCEPT ![apps + 1] = SecretsOf(p)]

InstallAnother(p) ==
  /\ filters' = [l \in Loggers |-> filters[l] \cup {apps + 1}]
  /\ secrets' = [secrets EXCEPT ![apps + 1] = SecretsOf(p)]

\* install_log_redaction_filter
Install(p) ==
  \/ \E l \in Loggers : \E f \in filters[l] :
       /\ secrets' = [secrets EXCEPT ![f] = SecretsOf(p)]
       /\ UNCHANGED filters
  \/ /\ \A l \in Loggers : filters[l] = {}
     /\ filters' = [l \in Loggers |-> {apps + 1}]
     /\ secrets' = [secrets EXCEPT ![apps + 1] = SecretsOf(p)]

CreateApp(p) ==
  /\ apps < MaxApps
  /\ apps' = apps + 1
  /\ config' = p
  /\ Install(p)
  /\ UNCHANGED line

\* A command is logged as the repr of a list, what a tool printed as it is.
Forms == {"command", "output"}
Verbatim(p, form) == form = "output" \/ p \notin Escaped

\* What is left of a line with password p in it, once the filters of the logger
\* have replaced the secrets they know, where those stand letter by letter.
Redacted(p, form, l) ==
  IF Verbatim(p, form) /\ \E f \in filters[l] : p \in secrets[f] THEN Unset ELSE p

\* What a tool gets of a client's pin.  FitImageSigner computes the replacement
\* and then passes on what the client sent.
Passed(op, pin) == IF pin = Placeholder /\ op # "fitimage" THEN config ELSE pin

\* The i.MX signer's pin is in a file of the working directory, the others' in
\* an argument.
Shown(op) == IF op = "imx" THEN {"output"} ELSE Forms

\* run_command logs the command and what the tool printed, on any of the
\* loggers; a tool may print its pin.
RunTool(op, pin) ==
  /\ apps > 0 /\ config # Unset
  /\ \E l \in Loggers, form \in Shown(op) :
       line' = [form |-> form, shows |-> Redacted(Passed(op, pin), form, l),
                config |-> config]
  /\ UNCHANGED <<apps, config, filters, secrets>>

\* 'pin-value=' + None raises, whether there is a placeholder or not.
NoPassword(op) ==
  /\ apps > 0 /\ config = Unset
  /\ line' = [form |-> "none", shows |-> Unset, config |-> Unset]
  /\ UNCHANGED <<apps, config, filters, secrets>>

Next ==
  \/ \E p \in Passwords \cup {Unset} : CreateApp(p)
  \/ \E op \in Operations :
       NoPassword(op) \/ \E pin \in Passwords \cup {Placeholder} : RunTool(op, pin)

Spec == Init /\ [][Next]_vars

-----------------------------------------------------------------------------
(* Properties.                                                             *)

\* After any calls of create_app the loggers carry one filter, the same one,
\* with the secret of the latest: nothing stays redacted, or shown, because
\* of an earlier app.
OneFilterUpToDate ==
  apps > 0 =>
    /\ \E f \in 1..MaxApps : \A l \in Loggers : filters[l] = {f}
    /\ \A l \in Loggers : UNION {secrets[f] : f \in filters[l]} = SecretsOf(config)

\* The password that is configured when a line is written stays out of it, but
\* for one case: a command, and a password that its repr writes with escapes,
\* which the filter's replace does not find (signer.py:36, logredaction.py:16).
LogsHideThePassword ==
  line.config # Unset /\ line.shows = line.config =>
    line.form = "command" /\ line.config \in Escaped
=============================================================================
