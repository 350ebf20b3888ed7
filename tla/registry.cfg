SPECIFICATION RegLiveSpec
CONSTANTS
  Client = {p1}
  r1 = r1
  r2 = r2
  Repo = {r1, r2}
  v = v
  w = w
  d = d
  e = e
  Tag = {v, w}
  Digest = {d, e}
  Slot = {k1, k2}
  First = k1
  Request = {q1}
  Admin = {a1, a2}
  NoOne = NoOne
  Starting <- MCStarting
  MaxEvents = 2
INVARIANTS OneThread
PROPERTIES CommitsWhatItWasTold Converges
CHECK_DEADLOCK FALSE
