SPECIFICATION Spec
CONSTANTS
  CPU = {c1, c2}
  Remote = {r1, r2}
  Local = {l}
  NONE = NONE
  max_entries = 2
INVARIANT TypeOK
INVARIANT OneRecordPerConnection
PROPERTY ImplementsConnTrack
