CONSTANTS
  Writers = {w1, w2}
  Nobody = Nobody
  Earlier = Earlier
  NRetries = 2
  SilentDamage = TRUE
  SourceSumFails = TRUE
SPECIFICATION FairSpec
INVARIANTS TypeOK TargetNeverPartial ChecksumProtectsTarget SuccessIsPublished
PROPERTIES NeverWithdrawn EveryCallEnds ImplementsAtomicPublish
