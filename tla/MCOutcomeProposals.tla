------------------------ MODULE MCOutcomeProposals ------------------------
(* OutcomeProposals for TLC: an organizer that is approved, suspended and    *)
(* verified at any time and proposes, or one in good standing whose match    *)
(* gets results from agents, webhooks and others.                            *)
EXTENDS OutcomeProposals

MCWebhookScenario ==
  {[statuses |-> {"approved"}, kyc |-> {"verified"},
    sources |-> {"organizer_webhook"}, decisions |-> {}, closings |-> {},
    sessions |-> FALSE, proposals |-> 1]}
MCScenarios ==
  MCWebhookScenario \cup
  {[statuses |-> {"approved", "suspended"}, kyc |-> {"verified", Undecided},
    sources |-> {"organizer"}, decisions |-> {}, closings |-> {},
    sessions |-> TRUE, proposals |-> 1],
   [statuses |-> {"approved"}, kyc |-> {"verified"}, sources |-> {"agent", "community"},
    decisions |-> {"approve", "reject"}, closings |-> {"resolve"},
    sessions |-> FALSE, proposals |-> 1],
   [statuses |-> {"approved"}, kyc |-> {"verified"}, sources |-> {"community"},
    decisions |-> {"approve"}, closings |-> {"cancel"},
    sessions |-> FALSE, proposals |-> 2]}
=============================================================================
