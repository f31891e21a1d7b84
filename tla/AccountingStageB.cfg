\* Two actors, two operations on one connection, two racing workers.
CONSTANTS
  own = own mgr = mgr i1 = i1 i2 = i2 w1 = w1 w2 = w2
  nobody = nobody nothing = nothing
  Actors = {own, mgr}
  Intents = {i1, i2}
  Workers = {w1, w2}
  NoActor = nobody
  NoIntent = nothing
  MaxConnectionGeneration = 2
  MaxAttempts = 2
SPECIFICATION Spec
INVARIANTS VerifiedIsReal ReviewKeepsQuarantine
PROPERTY KeepsPromise
SYMMETRY Symmetry
