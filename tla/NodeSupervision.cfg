SPECIFICATION Spec
CONSTANTS
  Qemu = {q}
  Iol = {i}
  Dyn = {d}
  OwnUuid = {}
  Linked = {i}
  Starters = {s1}
  Pids = {1, 2}
  MaxLaunch = 2
  MaxCrash = 1
  OneStart = TRUE
  PromptBeat = TRUE
  None = None
INVARIANTS
  
  
  KnownAuthorized
PROPERTIES
  NoStrayKill
