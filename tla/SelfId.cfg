CONSTANTS
  Signers = {k}
  Unsigned = u
  Prompts = {p1}
  Slots <- LookupSlots
  MaxReconnects = 2
  None = None
SPECIFICATION FairSpec
PROPERTIES IdentityIsSound IdentityIsLearnt
