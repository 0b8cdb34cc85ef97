CONSTANTS
  p1 = p1
  p2 = p2
  NoProc = NoProc
  NoConfig = NoConfig
  Procs = {p1, p2}
  Files <- Embedded
  Configs <- FileSet
  Kinds = {"down", "recovered"}
  Second = 2
  MaxFaults = 2
SPECIFICATION FairSpec
INVARIANTS TypeOK SchemaWhole RunsOnWholeSchema RoutedIsBuilt SitesSound
PROPERTIES StartHeals RaceHasWinner
