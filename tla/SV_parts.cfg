INIT Init
NEXT Next
CONSTANTS
  None = None
  Absent = Absent
  Nil = Nil
  NoScope = NoScope
  Email = {e1, e2}
  Req = {r1, r2}
  MaxReg = 2
  MaxTok = 2
  MaxForeign = 1
  Ident = {x1, x2}
  MaxPlan = 3
  MaxStation = 2
  MaxCp = 2
  Staff = {a1, a2}
  Ref = {ref1, ref2}
  Cap = {1, 2}
  MaxJobs = 3
  MaxRows <- TableRows
  Call = {c1, c2, c3}
  Panel = {p1, p2}
  Scope = {s1, s2}
  MaxEffect = 3
  MaxTimer = 2
  User = {u1}
  Ip = {ip1}
  Tier = {"login", "throttle"}
  ByIp = {"login"}
  Window = 2
  Stale = 3
  Limit <- OnePerWindow
  MaxTime = 3
  MaxHits = 2
SYMMETRY Alike
INVARIANTS
  UsersMirrored OneLiveToken CatalogueMirrored ControlDurable
  NoSelfReplay ScreenMatchesScope PollAlive WithinLimit
CHECK_DEADLOCK FALSE
