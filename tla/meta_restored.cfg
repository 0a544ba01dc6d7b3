\* An operation that needs an archived entry restores it.
SPECIFICATION Spec
CONSTANTS
  Entries = {e1, e2}
  archived = e1
  Id <- MCId
  Began <- MCBegan
  MaxChanges = 4
INVARIANT RestoredIsTold
CHECK_DEADLOCK FALSE
