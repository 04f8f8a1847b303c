SPECIFICATION Spec
CONSTANTS
  Readers = {r1, r2, r3}
  Writers = {w1, w2}
INVARIANTS TypeOK CountersExact Exclusion NoLostWakeup
PROPERTY AllServed
