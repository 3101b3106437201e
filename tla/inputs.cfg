SPECIFICATION InputSpec
CONSTANTS
  MaxInt = 99
  Precision = 10  MaxDays = 10  WeekLength = 3  MonthLength = 4  YearLength = 10
  MB = 3  MaxBodyMB = 50
  MaxNameRunes = 4  MaxNameBytes = 7  MaxExtRunes = 2
  files = files  files0 = files0  other = other
  Fields = {files, files0}  OtherFields = {other}  MaxMergeFiles = 3  MaxParts = 4
INVARIANTS SplitDelivers SplitDeterministic SeriesAggregated CrossRounding UploadLimitsAgree NamesSafe NamesKeepExtension MergedAll RefusedLeavesNothing
CHECK_DEADLOCK FALSE
