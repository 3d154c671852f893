\* Two clients, two directories, two files, one name.
SPECIFICATION FairSpec
CONSTANTS
  Client = {c1, c2}
  NoClient = none
  Dir = {1, 2}
  File = {11, 12}
  Root = 1
  Name = {a}
  Byte = {0, 1}
  None = None
  MaxSize = 2
  MaxRequests = 2
INVARIANTS EntryHasExtent
PROPERTIES EntriesStay FileBytes RequestsEnd
CHECK_DEADLOCK FALSE
