CONSTANTS
  Calls = {c1, c2, c3, c4}
  Passwords = {p, q}
  Links = {l1, l2}
  None = None
  MAX_FAILED_ATTEMPTS = 2
SYMMETRY Symmetry
SPECIFICATION Spec
CHECK_DEADLOCK FALSE
INVARIANT SessionFollowsPassword
INVARIANT OneLinkAtATime
