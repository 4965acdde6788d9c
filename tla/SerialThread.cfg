SPECIFICATION FairSpec
CONSTANTS
  Users = {u1, u2}
  Owner = Owner
  Callback = Callback
  Free = Free
  MaxBytes = 2
  MaxSections = 2
INVARIANTS StreamIsKept NoStrandedData
PROPERTIES SectionIsExclusive DataIsRead
CHECK_DEADLOCK FALSE
