\* Three passwords, one of them with a backslash or quotes in it, four calls of
\* create_app, any signing between them.
CONSTANTS
  Passwords = {p1, p2, p3}
  Escaped = {p3}
  Unset = Unset
  Placeholder = Placeholder
  MaxApps = 4
SPECIFICATION Spec
INVARIANTS
  OneFilterUpToDate
  LogsHideThePassword
CHECK_DEADLOCK FALSE
