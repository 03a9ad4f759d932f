SPECIFICATION FairSpec
CONSTANTS
  Operations = {o1, o2, o3}
  Forgetful = {o3}
  Cancellers = {c1, c2}
  Owner = owner
  NoToken = NoToken
INVARIANT NoCallbackAfterReturn
INVARIANT RunOnce
PROPERTY CallbackRuns
PROPERTY DeregisterReturns
