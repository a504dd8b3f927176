SPECIFICATION Spec
CONSTANTS
  w1 = w1
  w2 = w2
  Services = {"traffic export", "bus export", "rest areas", "highway", "references", "places", "place overlap", "prices", "analytics", "flights", "holidays", "road traffic", "statistics", "archive", "backups", "bus timetables", "ferry timetables", "rail timetables", "ferry reference", "rail mapping"}
SYMMETRY Symmetry
INVARIANT TypesOK
PROPERTY ExportPassExact
INVARIANT RestAreasWhole
PROPERTY CursorsUsable
INVARIANT HighwayDerivedExact
PROPERTY HeadsForward
INVARIANT BusHeadsTogether
PROPERTY ManualKept
INVARIANT RowsMatchSource
INVARIANT BudgetsKept
PROPERTY ProvidersSpared
INVARIANT CachesFresh
INVARIANT SingleFlight
PROPERTY ArchiveExact
CHECK_DEADLOCK FALSE
