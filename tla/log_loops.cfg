SPECIFICATION Spec
CONSTANTS
  p = p
  q = q
  r = r
  AllPeers = {p, q, r}
  Terms = {0, 1, 2}
  MaxLen = 3
INVARIANTS
  InsertsAsSpliced
  ScanFindsLastCommittable
\* A loop ends.
CHECK_DEADLOCK FALSE
