SPECIFICATION FairSpec
CONSTANTS
  Profiles = {p1, p2}
  FormTests = {"connection"}
  None = None
  New = New
INVARIANTS TypeOK OneTaskAtATime CancelIsForThisRun
PROPERTIES RunStartsAsStored LocksEnd
