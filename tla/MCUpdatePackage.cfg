SPECIFICATION Spec
CONSTANTS
  Width = 4
  Items <- MCItems
  Offsets = {0, 1, 2, 3, 4, 5, 6, 7}
  FileSizes = {1, 5, 6, 8, 9}
  HeaderSizes = {0, 1, 2}
  Prefix = 1
  MaxHeader = 1
  MaxFiles = 5
  MaxFileBytes = 2
  MaxTotalBytes = 7
INVARIANTS
  AcceptedFits
