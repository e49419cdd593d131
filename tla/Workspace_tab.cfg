SPECIFICATION Spec
CONSTANTS
  None = None
  A = A
  B = B
  n1 = n1
  n2 = n2
  S = S
  T = T
  Campaigns = {A, B}
  Notes = {n1, n2}
  Sessions = {S, T}
  SessionOf <- MCSessionOf
  Stored <- MCStored
  Shared = A
  MaxTokens = 2
  MaxGuests = 2
  MaxLoads = 2
  MaxClicks = 2
INVARIANTS StoredIsSession SavedWhereEdited ShowsSelected
PROPERTIES NeverOlder
CHECK_DEADLOCK FALSE
