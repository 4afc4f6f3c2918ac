------------------------- MODULE PinAndLogsProofs --------------------------
(***************************************************************************)
(* Theorems about PinAndLogs, for any passwords and any number of calls of *)
(* create_app.                                                             *)
(***************************************************************************)
EXTENDS PinAndLogs, TLAPS

\* Before the first app no logger has a filter; afterwards one filter is on
\* all of them.
Guarded ==
  IF apps = 0 THEN filters = [l \in Loggers |-> {}]
  ELSE \E f \in 1..MaxApps :
         filters = [l \in Loggers |-> {f}] /\ secrets[f] = SecretsOf(config)

IInv ==
  /\ apps \in 0..MaxApps
  /\ DOMAIN secrets = 1..MaxApps
  /\ Guarded
  /\ LogsHideThePassword

-----------------------------------------------------------------------------
\* The first call of create_app installs one filter, a later one gives the
\* filter that is there the new secret.
LEMMA CreateAppIInv ==
  ASSUME IInv, NEW p \in Passwords \cup {Unset}, CreateApp(p)
  PROVE  IInv'
<1>1. /\ apps < MaxApps /\ apps' = apps + 1 /\ config' = p /\ line' = line
      /\ Install(p) /\ apps \in Nat /\ apps + 1 \in 1..MaxApps
  BY PinAssumption DEF CreateApp, IInv
<1>2. CASE apps = 0
  <2>1. \A l \in Loggers : filters[l] = {}
    BY <1>2 DEF IInv, Guarded
  <2>2. /\ filters' = [l \in Loggers |-> {apps + 1}]
        /\ secrets' = [secrets EXCEPT ![apps + 1] = SecretsOf(p)]
    BY <1>1, <2>1 DEF Install
  <2>3. secrets'[apps + 1] = SecretsOf(config') /\ DOMAIN secrets' = 1..MaxApps
    BY <1>1, <2>2 DEF IInv
  <2> QED
    BY <1>1, <2>2, <2>3 DEF IInv, Guarded, SecretsOf, LogsHideThePassword
<1>3. CASE apps # 0
  <2> PICK f \in 1..MaxApps : filters = [l \in Loggers |-> {f}]
    BY <1>3 DEF IInv, Guarded
  <2>1. /\ filters' = filters
        /\ secrets' = [secrets EXCEPT ![f] = SecretsOf(p)]
    BY <1>1 DEF Install, Loggers
  <2>2. secrets'[f] = SecretsOf(config') /\ DOMAIN secrets' = 1..MaxApps
    BY <1>1, <2>1 DEF IInv
  <2> QED
    BY <1>1, <2>1, <2>2 DEF IInv, Guarded, SecretsOf, LogsHideThePassword
<1> QED
  BY <1>2, <1>3

\* Whatever a tool shows, the filter of its logger knows the password
\* configured now, and finds it wherever it stands letter by letter.
LEMMA RunToolIInv ==
  ASSUME IInv, NEW op, NEW pin, RunTool(op, pin)
  PROVE  IInv'
<1>1. apps # 0 /\ config # Unset /\ UNCHANGED <<apps, config, filters, secrets>>
  BY DEF RunTool, IInv
<1> PICK l \in Loggers, form \in Shown(op) :
      line' = [form |-> form, shows |-> Redacted(Passed(op, pin), form, l),
               config |-> config]
  BY DEF RunTool
<1> PICK f \in 1..MaxApps :
      filters = [k \in Loggers |-> {f}] /\ secrets[f] = SecretsOf(config)
  BY <1>1 DEF IInv, Guarded
<1>2. Verbatim(config, form) => Redacted(config, form, l) = Unset
  BY <1>1 DEF Redacted, SecretsOf
<1>3. Redacted(Passed(op, pin), form, l) = config => ~Verbatim(config, form)
  BY <1>1, <1>2 DEF Redacted
<1>4. form \in Forms
  BY DEF Shown, Forms
<1>5. LogsHideThePassword'
  BY <1>1, <1>3, <1>4 DEF LogsHideThePassword, Verbatim, Forms
<1> QED
  BY <1>1, <1>5 DEF IInv, Guarded, SecretsOf

\* The inductive invariant: the filters that guard the loggers, and the line
\* logged last.
THEOREM Invariance == Spec => []IInv
<1>1. Init => IInv
  BY PinAssumption DEF Init, IInv, Guarded, LogsHideThePassword
<1>2. IInv /\ [Next]_vars => IInv'
  <2> SUFFICES ASSUME IInv, [Next]_vars PROVE IInv'
    OBVIOUS
  <2>1. CASE \E op \in Operations : NoPassword(op)
    BY <2>1 DEF NoPassword, IInv, Guarded, SecretsOf, LogsHideThePassword
  <2>2. CASE UNCHANGED vars
    BY <2>2 DEF vars, IInv, Guarded, SecretsOf, LogsHideThePassword
  <2> QED
    BY <2>1, <2>2, CreateAppIInv, RunToolIInv DEF Next
<1> QED
  BY <1>1, <1>2, PTL DEF Spec

\* One filter, with the secret of the latest app, is on every logger
\* (install_log_redaction_filter).
THEOREM OneFilter == Spec => []OneFilterUpToDate
<1>1. IInv => OneFilterUpToDate
  <2> SUFFICES ASSUME IInv, apps > 0 PROVE OneFilterUpToDate
    BY DEF OneFilterUpToDate
  <2> PICK f \in 1..MaxApps :
        filters = [l \in Loggers |-> {f}] /\ secrets[f] = SecretsOf(config)
    BY DEF IInv, Guarded
  <2>1. \A l \in Loggers : UNION {secrets[g] : g \in filters[l]} = SecretsOf(config)
    OBVIOUS
  <2> QED
    BY <2>1 DEF OneFilterUpToDate
<1> QED
  BY <1>1, Invariance, PTL

\* The password that is configured when a line is written is not in it, unless
\* the line is a command, whose repr has escapes in the password's place
\* (SecretRedactionFilter.filter, Signer.run_command).
THEOREM PasswordHidden == Spec => []LogsHideThePassword
  BY Invariance, PTL DEF IInv
=============================================================================
