\* Two entries in each table, so sixteen addresses; at most six tables besides
\* the first four.
SPECIFICATION TablesSpec
CONSTANTS
  Radix = 2
  MaxTables = 10
  Pages = {p}
  Scratch = Scratch
  NoCall = NoCall
  MaxCount = 2
  Areas <- MCAreas
  Starts <- MCStarts
INVARIANT
  CleanMeansFlushed
PROPERTY
  ImplementsFlatTables
