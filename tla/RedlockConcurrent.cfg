SPECIFICATION Spec
INVARIANTS
  PreventsConcurrentJobs
CONSTANTS
  c1 = c1
  c2 = c2
  c3 = c3
  p1 = p1
  p2 = p2
  Client = {c1, c2, c3}
  Process = {p1, p2}
  ProcessOf <- MCProcessOf
  Name = {h1}
  Server = Server
  NoOne = NoOne
  TTL = 2
