\* Two sessions, one consent and its successor; two processes at the vault;
\* two callers in two services; one capture of two dumps; two runs of the
\* restore helper; two setups.
CONSTANTS
  a1 = a1 a2 = a2 d1 = d1 d2 = d2 u1 = u1 u2 = u2 u3 = u3 c1 = c1 c2 = c2 c3 = c3
  nobody = nobody nothing = nothing
  Sessions <- MCActors
  NoSession = nobody
  MaxGeneration = 3
  Openers <- MCActors
  Updates <- MCUpdates
  NoOpener = nobody
  NoUpdate = nothing
  LastGeneration = 2
  Callers <- MCActors
  Services <- MCServices
  NoCaller = nobody
  MaxVersion = 2
  MaxClaims = 3
  Contents <- MCContents
  RowsOf <- MCRowsOf
  Dumps = 2
  NoContent = nothing
  Runs <- MCActors
  NoRun = nobody
  Setups <- MCActors
  Bindings <- MCBindings
  NoSetup = nobody
SPECIFICATION MCSpec
INVARIANTS GrantRemembered EveryEndCanBeCleaned AnswersAreTrue UsableIsCurrent ChecksumNamesBackup NoClientLeftRunning RestoredOnce PlainFailureChangedNothing GrantAccounted
PROPERTIES DisabledForGood BindingsKept
SYMMETRY Symmetry
\* A service may be stopped for good, and a helper ends.
CHECK_DEADLOCK FALSE
