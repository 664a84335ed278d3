\* Two replicas, three terms, a log of two dispatches.  No symmetry: unsound here.
CONSTANTS
  s1 = s1  s2 = s2
  Schedulers = {s1, s2}
  MaxEpoch = 3
  MaxLog = 2
SPECIFICATION FairSpec
INVARIANTS
  TypeOK
  EpochsNeverGoBackwards
  HolderNeverFenced
  TermsUnique
PROPERTIES
  GrantEndsProperly
  ImplementsTerms
  SupersededStandsDown
  StandbyTakesOver
