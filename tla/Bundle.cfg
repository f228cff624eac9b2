SPECIFICATION Spec
CONSTANTS
  v1 = v1
  v2 = v2
  doc = doc
  proof = proof
  Versions = {v1, v2}
  Files = {doc, proof}
  Required = {doc}
  ProofProject = proof
  Ships <- MCShips
  Absent = Absent
  Options <- MCOptions
  MaxCommands = 3
INVARIANTS
  TypeOK
  InstalledIsDecided
  MeetsFloor
CHECK_DEADLOCK FALSE
