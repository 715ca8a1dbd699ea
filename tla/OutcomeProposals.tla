-------------------------- MODULE OutcomeProposals --------------------------
(***************************************************************************)
(* How the result of an organizer's match is proposed, reviewed and        *)
(* settled, and who may create matches and propose: the organizer's        *)
(* profile and its KYC (handlers/organizer.rs), tournaments, matches,      *)
(* proposals and their review (handlers/tournament.rs), and the pipeline   *)
(* of agents and result webhooks (handlers/agent.rs, handlers/webhook.rs,  *)
(* services/agent_pipeline.rs).  One organizer, one match.                 *)
(*                                                                         *)
(* Requests run concurrently, statement by statement, and may break off    *)
(* after any of them.  What a resolution does to the stakes is the subject *)
(* of MatchSettlement: here any stakes may have been indexed.              *)
(* Evidence, its upload to Walrus and the texts of a proposal decide       *)
(* nothing and are left out.                                               *)
(***************************************************************************)
EXTENDS Integers, FiniteSets

CONSTANTS
  Requests,       \* requests that may be under way at the same time
  MaxProposals,   \* rows of outcome_proposals
  MaxSessions,    \* KYC sessions that are started
  Scenarios,      \* what clients and administrators do in a behaviour: the
                  \* statuses given to the organizer, the sources that
                  \* propose, the decisions on proposals, how the match is
                  \* closed without one, whether KYC is started, and how
                  \* many proposals there may be
  Undecided       \* a review that leaves the KYC status as it is

ProfileStatuses == {"pending", "approved", "rejected", "suspended"}
KycStatuses == {"not_started", "pending", "verified", "rejected"}
PipelineSources == {"agent", "organizer_webhook"}
Sources == {"organizer", "community"} \cup PipelineSources
Decisions == {"approve", "reject", "dispute"}

ASSUME OutcomeAssumption ==
  /\ MaxProposals \in Nat /\ MaxSessions \in Nat
  /\ Undecided \notin KycStatuses
  /\ Scenarios \subseteq [statuses : SUBSET ProfileStatuses,
                          kyc : SUBSET (KycStatuses \cup {Undecided}),
                          sources : SUBSET Sources,
                          decisions : SUBSET Decisions,
                          closings : SUBSET {"resolve", "cancel"},
                          sessions : BOOLEAN, proposals : 0..MaxProposals]

VARIABLES
  scenario,    \* one of Scenarios, chosen at the start
  profile,     \* the row of organizer_profiles
  tournament,  \* the organizer has a row in organizer_tournaments
  match,       \* the row of matches
  opponents,   \* its rows in match_opponents, stored in order
  winner,      \* the opponent marked is_winner, 0 if none is
  proposal,    \* table outcome_proposals
  runs,        \* proposals with a row in agent_runs
  request,     \* per request: its next statement and what it has read
  decision,    \* history: the last status an administrator gave the organizer
  cleared,     \* history: an administrator has verified the organizer, and no
               \* KYC session has been started since
  allowedOnce, \* history: administrators have once held both at a time
  made,        \* history: proposals that the pipeline has inserted
  approvals,   \* history: proposals an administrator has approved
  ruled,       \* history: opponents an administrator has named the winner
  interrupted, \* history: proposals whose insertion has broken off
  halted       \* history: proposals a review of which has broken off, and
               \* that have not been approved since

organizer == <<scenario, profile, decision, cleared, allowedOnce>>
market == <<tournament, match, opponents>>
proposals == <<proposal, runs, made, approvals, ruled, interrupted, halted>>
vars == <<organizer, market, winner, proposals, request>>

Sides == {1, 2}
Proposals == 1..MaxProposals

\* OrganizerProfileRecord; the reference is the number of the KYC session.
OrganizerProfileRecord ==
  [status : ProfileStatuses, kyc_status : KycStatuses,
   kyc_reference_id : 0..MaxSessions]
NoProfile == [status |-> "none", kyc_status |-> "not_started",
              kyc_reference_id |-> 0]

\* The columns of MatchRecord that this part of the code writes.
MatchRow == [status : {"upcoming", "completed", "refunded", "cancelled"},
             result_status : {"pending", "proposed", "approved", "rejected",
                              "disputed"}]
NoMatch == [status |-> "none", result_status |-> "pending"]

\* OutcomeProposalRecord; winner 0 is a proposal by name only.
OutcomeProposalRecord ==
  [winner : {0} \cup Sides, source : Sources,
   status : {"pending", "pending_review", "approved", "rejected", "disputed"}]
NoProposal == [status |-> "none"]

Idle == [pc |-> "idle"]
RequestState ==
  {Idle}
  \cup [pc : {"tournament", "match", "opponents"}]
  \cup [pc : {"propose"}, winner : {0} \cup Sides, source : Sources,
        final : {"none", "pending_review"}]
  \cup [pc : {"announce", "verify", "verdict", "run"}, p : Proposals,
        final : {"none", "pending_review"}]
  \cup [pc : {"review", "reviewed", "resolve"}, p : Proposals,
        decision : Decisions]

TypeOK ==
  /\ scenario \in Scenarios
  /\ profile \in OrganizerProfileRecord \cup {NoProfile}
  /\ tournament \in BOOLEAN
  /\ match \in MatchRow \cup {NoMatch}
  /\ opponents \in 0..2
  /\ winner \in {0} \cup Sides
  /\ proposal \in [Proposals -> OutcomeProposalRecord \cup {NoProposal}]
  /\ runs \subseteq Proposals
  /\ request \in [Requests -> RequestState]
  /\ decision \in ProfileStatuses \cup {"none"}
  /\ cleared \in BOOLEAN
  /\ allowedOnce \in BOOLEAN
  /\ made \subseteq Proposals /\ approvals \subseteq Proposals
  /\ ruled \subseteq Sides
  /\ interrupted \subseteq Proposals /\ halted \subseteq Proposals

Init ==
  /\ scenario \in Scenarios
  /\ profile = NoProfile
  /\ tournament = FALSE
  /\ match = NoMatch /\ opponents = 0
  /\ winner = 0
  /\ proposal = [p \in Proposals |-> NoProposal] /\ runs = {}
  /\ request = [q \in Requests |-> Idle]
  /\ decision = "none" /\ cleared = FALSE
  /\ allowedOnce = FALSE
  /\ made = {} /\ approvals = {} /\ ruled = {}
  /\ interrupted = {} /\ halted = {}

-----------------------------------------------------------------------------
(* What the code decides, after faulty forms that the properties must tell *)
(* from it.                                                                *)

\* organizer_can_create_markets.
organizer_can_create_markets ==
  profile.status = "approved" /\ profile.kyc_status = "verified"

\* The status of upsert_organizer_profile: who is approved stays so, anybody
\* else is pending again.
ReappliedStatus == IF profile.status = "approved" THEN "approved" ELSE "pending"

\* A new KYC session has yet to be reviewed.  A variant that keeps the status.
KycRestartedFaulty == profile.kyc_status
KycRestarted == "pending"

\* No provider's result is compared yet.
cross_check_provider == "pending_review"

\* A proposal below the threshold is not verified automatically.
gate_status(verification, confident) ==
  IF verification = "auto_verified" /\ ~confident THEN "pending_review"
  ELSE verification

\* The result_status that apply_agent_verification stores.
VerifiedResult(final) ==
  IF final = "auto_verified" THEN "approved" ELSE "proposed"

\* matches.verification_status holds 30 characters, `<source>_<status>`.
Length == [agent |-> 5, organizer |-> 9, community |-> 9, organizer_webhook |-> 17,
           proposed |-> 8, pending_review |-> 14, auto_verified |-> 13]
\* A variant with a narrower column.
FitsColumnFaulty(source, status) == Length[source] + 1 + Length[status] < 20
FitsColumn(source, status) == Length[source] + 1 + Length[status] <= 30

ReviewedStatus(d) ==
  CASE d = "approve" -> "approved" [] d = "reject" -> "rejected"
    [] d = "dispute" -> "disputed"

Rows == {p \in Proposals : proposal[p] # NoProposal}

\* review_outcome_proposal takes a proposal in any status.  A variant that
\* reviews each once.
ReviewableFaulty(p) ==
  p \in Rows /\ proposal[p].status \in {"pending", "pending_review"}
Reviewable(p) == p \in Rows

\* What a proposal resolves.  Variants that do not look at the decision, or
\* spare a match that has been approved before.
ResolvesFaulty(d, p) == proposal[p].winner # 0
ResolvesOnceFaulty(d, p) ==
  d = "approve" /\ proposal[p].winner # 0 /\ match.result_status # "approved"
Resolves(d, p) == d = "approve" /\ proposal[p].winner # 0

-----------------------------------------------------------------------------
(* The organizer's profile: handlers of one statement.                     *)

\* apply_organizer and upsert_organizer_profile.
Apply ==
  /\ profile' = [profile EXCEPT !.status =
       IF profile = NoProfile THEN "pending" ELSE ReappliedStatus]
  /\ UNCHANGED <<scenario, decision, cleared, allowedOnce, market, winner,
                 proposals, request>>

\* create_organizer_kyc_session.
StartKyc ==
  /\ profile # NoProfile
  /\ scenario.sessions /\ profile.kyc_reference_id < MaxSessions
  /\ profile' = [profile EXCEPT !.kyc_status = KycRestarted,
                                !.kyc_reference_id = @ + 1]
  /\ cleared' = FALSE
  /\ UNCHANGED <<scenario, decision, allowedOnce, market, winner, proposals,
                 request>>

\* review_organizer; the kyc_reference_id of the request is NULL.
ReviewOrganizer(status, kyc) ==
  /\ profile # NoProfile
  /\ profile' = [profile EXCEPT !.status = status,
                                !.kyc_status = IF kyc = Undecided THEN @ ELSE kyc]
  /\ decision' = status
  /\ cleared' = IF kyc = Undecided THEN cleared ELSE kyc = "verified"
  /\ allowedOnce' = (allowedOnce \/ (decision' = "approved" /\ cleared'))
  /\ UNCHANGED <<scenario, market, winner, proposals, request>>

-----------------------------------------------------------------------------
(* Requests of several statements.                                         *)

Continue(q, next) == request' = [request EXCEPT ![q] = next]
Receive(q, next) == request[q] = Idle /\ Continue(q, next)
Under(q, pc) == request[q].pc = pc

\* require_approved_organizer, then the INSERT of create_organizer_tournament.
ReceiveTournament(q) ==
  /\ ~tournament
  /\ organizer_can_create_markets
  /\ Receive(q, [pc |-> "tournament"])
  /\ UNCHANGED <<organizer, market, winner, proposals>>

InsertTournament(q) ==
  /\ Under(q, "tournament")
  /\ tournament' = TRUE
  /\ Continue(q, Idle)
  /\ UNCHANGED <<organizer, match, opponents, winner, proposals>>

\* create_organizer_match up to its INSERT; the model has one match.
ReceiveMatch(q) ==
  /\ match = NoMatch /\ \A o \in Requests : ~Under(o, "match")
  /\ organizer_can_create_markets
  /\ tournament
  /\ Receive(q, [pc |-> "match"])
  /\ UNCHANGED <<organizer, market, winner, proposals>>

InsertMatch(q) ==
  /\ Under(q, "match")
  /\ match' = [status |-> "upcoming", result_status |-> "pending"]
  /\ Continue(q, [pc |-> "opponents"])
  /\ UNCHANGED <<organizer, tournament, opponents, winner, proposals>>

\* Its loop over the two opponents.
InsertOpponent(q) ==
  /\ Under(q, "opponents")
  /\ opponents' = opponents + 1
  /\ Continue(q, IF opponents' = 2 THEN Idle ELSE request[q])
  /\ UNCHANGED <<organizer, tournament, match, winner, proposals>>

RoomForProposal ==
  Cardinality(Rows) + Cardinality({q \in Requests : Under(q, "propose")})
    < scenario.proposals

\* The handler create_outcome_proposal: the client chooses the source, which may
\* be one of the pipeline's, and only the source organizer is gated.
ReceiveProposal(q, source, w) ==
  /\ match # NoMatch /\ RoomForProposal
  /\ source \in scenario.sources
  /\ source = "organizer" => organizer_can_create_markets
  /\ Receive(q, [pc |-> "propose", winner |-> w, source |-> source,
                 final |-> "none"])
  /\ UNCHANGED <<organizer, market, winner, proposals>>

\* What both parts of the pipeline do before they propose.
ReceiveResult(q, source, w, confident) ==
  /\ match # NoMatch /\ RoomForProposal
  /\ source \in scenario.sources
  /\ Receive(q, [pc |-> "propose", winner |-> w, source |-> source,
                 final |-> gate_status(cross_check_provider, confident)])
  /\ UNCHANGED <<organizer, market, winner, proposals>>

\* submit_agent_outcome_proposal: the agent names an opponent's row, or only a
\* name, and says how confident it is.
ReceiveAgentResult(q, w, confident) ==
  /\ w \in 0..opponents
  /\ ReceiveResult(q, "agent", w, confident)

\* process_match_result: the winner's row is looked up by its name, among those
\* that have been stored.
ReceiveWebhookResult(q, name, confident) ==
  ReceiveResult(q, "organizer_webhook", IF name <= opponents THEN name ELSE 0,
                confident)

\* Db::create_outcome_proposal: the row, then the match.
InsertProposal(q) ==
  /\ Under(q, "propose")
  /\ \E p \in Proposals :
       /\ p = Cardinality(Rows) + 1
       /\ proposal' = [proposal EXCEPT ![p] =
            [winner |-> request[q].winner, source |-> request[q].source,
             status |-> "pending"]]
       /\ made' = IF request[q].final = "none" THEN made ELSE made \cup {p}
       /\ Continue(q, [pc |-> "announce", p |-> p, final |-> request[q].final])
  /\ UNCHANGED <<organizer, market, winner, runs, approvals, ruled, interrupted,
                 halted>>

AnnounceProposal(q) ==
  LET r == request[q]
  IN  /\ Under(q, "announce")
      /\ FitsColumn(proposal[r.p].source, "proposed")
      /\ match' = [match EXCEPT !.result_status = "proposed"]
      /\ Continue(q, IF r.final = "none" THEN Idle ELSE [r EXCEPT !.pc = "verify"])
      /\ UNCHANGED <<organizer, tournament, opponents, winner, proposals>>

\* apply_agent_verification: the proposal, then the match, unless the column
\* has no room for the status.
VerifyProposal(q) ==
  LET r == request[q]
  IN  /\ Under(q, "verify")
      /\ proposal' = [proposal EXCEPT ![r.p].status = r.final]
      /\ Continue(q, [r EXCEPT !.pc = "verdict"])
      /\ UNCHANGED <<organizer, market, winner, runs, made, approvals, ruled,
                     interrupted, halted>>

StoreVerdict(q) ==
  LET r == request[q]
  IN  /\ Under(q, "verdict")
      /\ IF FitsColumn(proposal[r.p].source, r.final)
         THEN /\ match' = [match EXCEPT !.result_status = VerifiedResult(r.final)]
              /\ Continue(q, [r EXCEPT !.pc = "run"])
         ELSE /\ UNCHANGED match
              /\ Continue(q, Idle)
      /\ UNCHANGED <<organizer, tournament, opponents, winner, proposals>>

\* create_agent_run_for_proposal.
InsertRun(q) ==
  /\ Under(q, "run")
  /\ runs' = runs \cup {request[q].p}
  /\ Continue(q, Idle)
  /\ UNCHANGED <<organizer, market, winner, proposal, made, approvals, ruled,
                 interrupted, halted>>

\* The handler review_outcome_proposal: the two statements of the Db function,
\* then the resolution.
ReceiveReview(q, p, d) ==
  /\ Reviewable(p)
  /\ Receive(q, [pc |-> "review", p |-> p, decision |-> d])
  /\ UNCHANGED <<organizer, market, winner, proposals>>

StoreReview(q) ==
  LET r == request[q]
  IN  /\ Under(q, "review")
      /\ proposal' = [proposal EXCEPT ![r.p].status = ReviewedStatus(r.decision)]
      /\ approvals' = IF r.decision = "approve" THEN approvals \cup {r.p} ELSE approvals
      /\ halted' = IF r.decision = "approve" THEN halted \ {r.p} ELSE halted
      /\ Continue(q, [r EXCEPT !.pc = "reviewed"])
      /\ UNCHANGED <<organizer, market, winner, runs, made, ruled, interrupted>>

AnnounceReview(q) ==
  LET r == request[q]
  IN  /\ Under(q, "reviewed")
      /\ match' = [match EXCEPT !.result_status = ReviewedStatus(r.decision)]
      /\ Continue(q, IF Resolves(r.decision, r.p) THEN [r EXCEPT !.pc = "resolve"]
                     ELSE Idle)
      /\ UNCHANGED <<organizer, tournament, opponents, winner, proposals>>

\* resolve_match for opponent w, whatever stakes have been indexed: refused if it
\* is completed and has none, else completed without stakes, refunded if they are
\* on one side, or completed for the winner.
Resolution(w) ==
  \/ match.status = "completed" /\ UNCHANGED <<match, winner>>
  \/ match.status # "completed" /\ match' = [match EXCEPT !.status = "completed"]
     /\ UNCHANGED winner
  \/ match' = [match EXCEPT !.status = "refunded"] /\ UNCHANGED winner
  \/ match' = [match EXCEPT !.status = "completed"] /\ winner' = w

ResolveMatch(q) ==
  /\ Under(q, "resolve")
  /\ Resolution(proposal[request[q].p].winner)
  /\ Continue(q, Idle)
  /\ UNCHANGED <<organizer, tournament, opponents, proposals>>

\* resolve_tournament: an administrator names the winner, without a proposal.
ResolveTournament(w) ==
  /\ match # NoMatch /\ "resolve" \in scenario.closings
  /\ Resolution(w)
  /\ ruled' = ruled \cup {w}
  /\ UNCHANGED <<organizer, tournament, opponents, proposal, runs, made, approvals,
                 interrupted, halted, request>>

\* cancel_tournament and cancel_match, which ask for no status.
CancelTournament ==
  /\ match # NoMatch /\ "cancel" \in scenario.closings
  /\ match' = [match EXCEPT !.status = "cancelled"]
  /\ UNCHANGED <<organizer, tournament, opponents, winner, proposals, request>>

\* A statement fails, or the client hangs up.
Fail(q) ==
  LET r == request[q]
  IN  /\ r # Idle
      /\ interrupted' = IF r.pc \in {"announce", "verify", "verdict", "run"}
                        THEN interrupted \cup {r.p} ELSE interrupted
      /\ halted' = IF r.pc \in {"review", "reviewed", "resolve"}
                   THEN halted \cup {r.p} ELSE halted
      /\ Continue(q, Idle)
      /\ UNCHANGED <<organizer, market, winner, proposal, runs, made, approvals, ruled>>

Step(q) ==
  \/ InsertTournament(q) \/ InsertMatch(q) \/ InsertOpponent(q)
  \/ InsertProposal(q) \/ AnnounceProposal(q) \/ VerifyProposal(q)
  \/ StoreVerdict(q) \/ InsertRun(q)
  \/ StoreReview(q) \/ AnnounceReview(q) \/ ResolveMatch(q)

Next ==
  \/ Apply \/ StartKyc
  \/ \E s \in scenario.statuses, k \in scenario.kyc : ReviewOrganizer(s, k)
  \/ \E w \in 1..opponents : ResolveTournament(w)
  \/ CancelTournament
  \/ \E q \in Requests :
       \/ ReceiveTournament(q) \/ ReceiveMatch(q)
       \/ \E source \in Sources, w \in 0..opponents : ReceiveProposal(q, source, w)
       \/ \E w \in {0} \cup Sides, c \in BOOLEAN :
            ReceiveAgentResult(q, w, c) \/ ReceiveWebhookResult(q, w, c)
       \/ \E p \in Proposals, d \in scenario.decisions : ReceiveReview(q, p, d)
       \/ Step(q)
       \/ Fail(q)

Spec == Init /\ [][Next]_vars

-----------------------------------------------------------------------------
(* Properties.                                                             *)

\* A result is approved only after an administrator has approved a proposal, and
\* settled only for a winner that an administrator has approved or named itself:
\* whatever agents, webhooks and clients that call themselves agents write
\* meanwhile.
HumanApproves ==
  /\ match.result_status = "approved" => approvals # {}
  /\ match.status \in {"completed", "refunded"} => approvals # {} \/ ruled # {}
  /\ winner # 0 => winner \in ruled \/ \E p \in approvals : proposal[p].winner = winner
  /\ \A p \in Rows : proposal[p].status = "approved" => p \in approvals

\* Tournaments, matches and the organizer's proposals exist only if the last
\* decisions of administrators once were to approve the organizer and to verify
\* it, with no KYC session started since: whatever it applies for again, and
\* whenever it is suspended or starts over while a request of its is under way.
CreatedWhenAllowed ==
  tournament \/ match # NoMatch \/ (\E p \in Rows : proposal[p].source = "organizer")
    => allowedOnce

\* A proposal that the agent endpoint inserts is backed by the record of the
\* agent's run, as soon as its request has not broken off.
HasRun(source) ==
  \A p \in made \ (runs \cup interrupted) :
    proposal[p].source = source =>
      \E q \in Requests : request[q].pc \in {"announce", "verify", "verdict", "run"}
                          /\ request[q].p = p
AgentHasRun == HasRun("agent")

\* The same of the match-result webhook, whose answer carries the verification
\* that it has stored.
WebhookHasRun == HasRun("organizer_webhook")

\* An approval that stands, of a proposal that names an opponent's row, settles
\* the match: nothing but a review that has broken off, or one under way, leaves
\* it open, however reviews of this and other proposals interleave; and approving
\* once more makes up for one that broke off.
ApprovalSettles ==
  \A p \in Rows \ halted :
    proposal[p].status = "approved" /\ proposal[p].winner # 0 =>
      \/ match.status # "upcoming"
      \/ \E q \in Requests : /\ request[q].pc \in {"reviewed", "resolve"}
                             /\ request[q].p = p /\ request[q].decision = "approve"
=============================================================================
