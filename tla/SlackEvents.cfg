SPECIFICATION EventsSpec
CONSTANTS
  Deliveries = {d1, d2, d3}
  MaxFaults = 3
  Reactors = {r1, r2}
  Emojis = {"+1", "-1", "eyes"}
  MaxEvents = 3
  MaxCalls = 4
  MaxUuid = 2
SYMMETRY Interchangeable
INVARIANTS TypeOK QueuedOnceBehindTheJob BotsGetNothing LostOnlyByFaults
INVARIANTS FeedbackTypeOK TallyFollowsSlack SeenOnceIndexed
PROPERTIES RowsAreForever IntakeIsOver
CHECK_DEADLOCK FALSE
