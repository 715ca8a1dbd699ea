SPECIFICATION Spec
CONSTANTS
  Requests = {q1, q2}
  MaxProposals = 2
  MaxSessions = 1
  Scenarios <- MCScenarios
  Undecided = Undecided
INVARIANTS HumanApproves CreatedWhenAllowed AgentHasRun ApprovalSettles
CHECK_DEADLOCK FALSE
