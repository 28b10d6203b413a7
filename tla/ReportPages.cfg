CONSTANTS
  collector = collector
  import = import
  Nothing = Nothing
  Facts <- MCFacts
  InitFacts = 1
  Edits <- AnyEdit
  Calculators <- MCCollector
  Importers <- MCImporters
  LeaseHolders <- MCCollector
  MaxGeneration = 3
  MaxCreated = 2
  Readers = {"reader"}
  jobs = jobs
  view = view
  Parts <- MCParts
SYMMETRY PartsAreAlike
SPECIFICATION PagesSpec
INVARIANTS
  LinesMatchFacts
  LoadedPageIsOneSnapshot
PROPERTY
  ImplementsContract
