SPECIFICATION Spec
CONSTANTS
  w1 = w1
  w2 = w2
  s1 = s1
  s2 = s2
  s3 = s3
  NoStep = NoStep
  NoRoom = NoRoom
  None = None
  Rooms = {}
  Workflows <- MCWorkflows
  Steps <- MCSteps
  Template <- MCTemplate
  FirstOrder <- MCFirstOrder
INVARIANTS
  ActiveRowIsLive
  AnnouncedOutcomeIsStored
  StoredStepNotAhead
PROPERTIES
  OutcomeIsFinal
  OneStepAtATime
  ImplementsLifecycle
