CONSTANTS
  Users <- MCUsers
  Servers = {s1, s2}
  Size = 2
  Buckets = 2
  Prompt = TRUE
  None = None
SPECIFICATION Spec
INVARIANT ServerFound
