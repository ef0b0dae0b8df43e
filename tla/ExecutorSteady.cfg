\* Overlapping calls that fail or time out, and the guest.
SPECIFICATION SteadyFairSpec
CONSTANTS
  e1 = e1
  e2 = e2
  Call <- TwoCalls
  Task = {1, 2, 3, 4}
  Job <- SwitchAndCreate
  MaxAttempts = 2
INVARIANTS FreezeIsOwed LoneCallWorksFrozen
PROPERTY GuestIsResumed
CHECK_DEADLOCK FALSE
