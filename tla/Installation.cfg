CONSTANTS
  MaxReleases = 2
  MaxPasswords = 7
  Settings <- MCSettings
  collector = 99
  Runs <- MCReleases
  Importers <- MCImporters
  CatalogIds = {1, 2}
  Feed <- MCFeed
  Bundled <- MCBundled
SPECIFICATION FairSpec
CHECK_DEADLOCK FALSE
INVARIANTS MarkedReleasesCanCollect RunningCollectorsKeepTheirs
PROPERTIES NeverWithoutCatalog PublishedVersionsAreImmutable CredentialIsRepaired DefaultInstallationsFinish
