SPECIFICATION Spec
CONSTANTS
  Order <- MCOrder
  Polled = {"info"}
  Batch = 1
INVARIANTS
  FreshAfterReset
PROPERTIES
  LinkRecovers
  SilenceIsSeen
  CacheFills
