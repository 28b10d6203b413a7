CONSTANTS
  collector = collector
  fixture = fixture
  import = import
  Facts <- MCFacts
  InitFacts = 1
  Edits <- AnyEdit
  Calculators <- MCCalculators
  Importers <- MCImporters
  LeaseHolders <- MCCollector
  MaxGeneration = 3
  MaxCreated = 6
SPECIFICATION FairSpec
INVARIANTS
  MarkerMeansCurrent
  OneRevisionPerContent
PROPERTIES
  RevisionsOnlyAdvance
  ReportsRecover
