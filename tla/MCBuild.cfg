SPECIFICATION Spec
CONSTANTS
  AddressSpace = 3
  MaxHostStreams = 2
  Budget = 2
  MaxByte = 1
  Path = {"p", "q"}
  EmptyPath = " "
  NoCsv = NoCsv
  Unparsable = Unparsable
  Blank = Blank
  Malformed = Malformed
  Models <- MCModels
  CsvFiles <- MCCsvFiles
  NoTables = NoTables
  MaxEdits = 2
INVARIANT TablesAgree
PROPERTIES BuildIsFresh StreamsGetTheirSamples
