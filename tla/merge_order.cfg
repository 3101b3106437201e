SPECIFICATION Spec
CONSTANTS
  files = files  files0 = files0  files1 = files1  other = other
  Fields = {files, files0, files1}  OtherFields = {other}
  MaxMergeFiles = 3  MaxParts = 4
SYMMETRY Symmetric
INVARIANT UploadOrder
CHECK_DEADLOCK FALSE
