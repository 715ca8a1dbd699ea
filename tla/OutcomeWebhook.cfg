SPECIFICATION Spec
CONSTANTS
  Requests = {q1}
  MaxProposals = 1
  MaxSessions = 1
  Scenarios <- MCWebhookScenario
  Undecided = Undecided
INVARIANTS WebhookHasRun
CHECK_DEADLOCK FALSE
