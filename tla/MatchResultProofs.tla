------------------------- MODULE MatchResultProofs --------------------------
(***************************************************************************)
(* Proofs about how a match comes to its result.                           *)
(*                                                                         *)
(* First the proposals of results, for every number of requests, proposals *)
(* and KYC sessions, and for every scenario of clients and administrators: *)
(* a result is approved by an administrator alone and settled only for a   *)
(* winner that one has approved or named, nothing but its decisions let an *)
(* organizer create, an agent's proposal has its run unless its request    *)
(* broke off, and an approval that stands settles.                         *)
(*                                                                         *)
(* Then the match feed, for every number of reports, every set of workers, *)
(* webhooks and administrators that apply them, and opponents listed in    *)
(* any order: a match is closed only once its provider or an administrator *)
(* has ended it, and stakes on another team than the provider's winner are *)
(* paid only at a position that was renamed or that an administrator made  *)
(* win.                                                                    *)
(***************************************************************************)
EXTENDS OutcomeProposals, MatchFeed, FiniteSetTheorems, SequenceTheorems, TLAPS

-----------------------------------------------------------------------------
(* The proposals of results.                                               *)

\* The statements that follow the INSERT of a proposal, and those of a review.
Pipeline == {"announce", "verify", "verdict", "run"}
Review == {"review", "reviewed", "resolve"}
Building == {"match", "opponents"}

\* Rows are numbered in the order of their INSERTs, so that none is overwritten.
Filled == \E n \in 0..MaxProposals : Rows = 1..n

\* The organizer's standing in the row is what administrators have decided.
Standing ==
  /\ profile.status = "approved" => decision = "approved"
  /\ profile.kyc_status = "verified" => cleared
  /\ decision = "approved" /\ cleared => allowedOnce

\* One request at most is creating the match.
Builders ==
  /\ \A q, o \in Requests :
       request[q].pc \in Building /\ request[o].pc \in Building => q = o
  /\ \A q \in Requests :
       /\ Under(q, "match") => match = NoMatch
       /\ Under(q, "opponents") => match # NoMatch /\ opponents < 2
  /\ match = NoMatch => opponents = 0

\* What a request has checked stays true until it acts on it.
RequestSound(r) ==
  /\ r \in RequestState
  /\ r.pc \in Pipeline \cup Review => r.p \in Rows
  /\ r.pc \in {"verify", "verdict", "run"} => r.final = "pending_review"
  /\ r.pc = "announce" /\ r.p \in made => r.final = "pending_review"
  /\ r.pc \in {"reviewed", "resolve"} /\ r.decision = "approve" => r.p \in approvals
  /\ r.pc = "resolve" => r.decision = "approve" /\ proposal[r.p].winner # 0
  /\ r.pc \in {"tournament", "match", "opponents"} => allowedOnce
  /\ r.pc = "propose" => match # NoMatch /\ (r.source = "organizer" => allowedOnce)

RequestsSound == \A q \in Requests : RequestSound(request[q])

RowsSound ==
  /\ approvals \subseteq Rows /\ made \subseteq Rows
  /\ Rows # {} => match # NoMatch

\* The inductive invariant.
IInv ==
  /\ TypeOK /\ Filled /\ Standing /\ Builders /\ RequestsSound /\ RowsSound
  /\ HumanApproves /\ CreatedWhenAllowed /\ AgentHasRun /\ ApprovalSettles

\* What a step does to the facts that requests rely on.
Advances ==
  /\ Rows \subseteq Rows'
  /\ \A p \in Rows : /\ proposal'[p].source = proposal[p].source
                     /\ proposal'[p].winner = proposal[p].winner
  /\ approvals \subseteq approvals'
  /\ made' \cap Rows \subseteq made
  /\ allowedOnce => allowedOnce'
  /\ match # NoMatch => match' # NoMatch

-----------------------------------------------------------------------------
(* Requests.                                                               *)

\* A request carries the fields of its next statement.
LEMMA FieldTypes ==
  ASSUME NEW r \in RequestState
  PROVE  /\ r.pc = "propose" => /\ r.winner \in {0} \cup Sides /\ r.source \in Sources
                                /\ r.final \in {"none", "pending_review"}
         /\ r.pc \in Pipeline => /\ r.p \in Proposals
                                 /\ r.final \in {"none", "pending_review"}
         /\ r.pc \in Review => r.p \in Proposals /\ r.decision \in Decisions
BY DEF RequestState, Idle, Pipeline, Review

\* A request that does not move stays sound.
LEMMA FrameRequest ==
  ASSUME TypeOK, Advances, NEW r, RequestSound(r)
  PROVE  RequestSound(r)'
<1>1. r \in RequestState
  BY DEF RequestSound
<1>2. r.pc \in Pipeline \cup Review => r.p \in Rows /\ r.p \in Rows'
  BY DEF RequestSound, Advances
<1>3. r.pc = "announce" /\ r.p \in made' => r.final = "pending_review"
  BY <1>2 DEF RequestSound, Advances, Pipeline
<1>4. r.pc = "resolve" => r.decision = "approve" /\ proposal'[r.p].winner # 0
  BY <1>2 DEF RequestSound, Advances, Review
<1> QED
  BY <1>1, <1>2, <1>3, <1>4 DEF RequestSound, Advances

\* A step of request q alone, which becomes r.
LEMMA RequestStep ==
  ASSUME IInv, Advances, NEW q \in Requests, NEW r,
         request' = [request EXCEPT ![q] = r], RequestSound(r)',
         r.pc \notin Building, UNCHANGED opponents,
         match = NoMatch => match' = NoMatch
  PROVE  RequestsSound' /\ Builders' /\ request' \in [Requests -> RequestState]
<1> USE DEF IInv
<1>1. request \in [Requests -> RequestState] /\ r \in RequestState
  BY DEF TypeOK, RequestSound
<1>2. \A o \in Requests : request'[o] = IF o = q THEN r ELSE request[o]
  BY <1>1
<1>3. ASSUME NEW o \in Requests PROVE RequestSound(request[o])'
  <2>1. CASE o = q
    BY <1>2, <2>1 DEF RequestSound
  <2>2. CASE o # q
    <3> DEFINE x == request[o]
    <3>1. request'[o] = x /\ RequestSound(x)
      BY <1>2, <2>2 DEF RequestsSound
    <3> HIDE DEF x
    <3>2. \A y : RequestSound(y) => RequestSound(y)'
      BY FrameRequest
    <3> QED
      BY <3>1, <3>2
  <2> QED
    BY <2>1, <2>2
<1>4. RequestsSound'
  BY <1>3 DEF RequestsSound
<1>5. Builders'
  BY <1>2 DEF Builders, Under, Advances, Building
<1> QED
  BY <1>1, <1>4, <1>5

\* The runs of other requests' proposals are as they were, and q has not left
\* a proposal of an agent without its run.
LEMMA RunStep ==
  ASSUME IInv, NEW q \in Requests, NEW r,
         request' = [request EXCEPT ![q] = r],
         runs \subseteq runs', interrupted \subseteq interrupted',
         made' \cap Rows \subseteq made, made \cup made' \subseteq Rows',
         \A p \in Rows : proposal'[p].source = proposal[p].source,
         \A p \in Rows' \ Rows : r.pc \in Pipeline /\ r.p = p,
         request[q].pc \in Pipeline =>
           \/ proposal[request[q].p].source # "agent" \/ request[q].p \notin made
           \/ request[q].p \in runs' \cup interrupted'
           \/ r.pc \in Pipeline /\ r.p = request[q].p
  PROVE  AgentHasRun'
<1> USE DEF IInv
<1> SUFFICES ASSUME NEW p \in made' \ (runs' \cup interrupted'),
                    proposal'[p].source = "agent"
             PROVE  \E o \in Requests : request'[o].pc \in Pipeline /\ request'[o].p = p
  BY DEF AgentHasRun, HasRun, Pipeline
<1>1. \A o \in Requests : request'[o] = IF o = q THEN r ELSE request[o]
  BY DEF TypeOK
<1>2. CASE p \notin Rows
  <2>1. r.pc \in Pipeline /\ r.p = p
    BY <1>2
  <2> QED
    BY <1>1, <2>1
<1>3. CASE p \in Rows
  <2>1. PICK o \in Requests : request[o].pc \in Pipeline /\ request[o].p = p
    BY <1>3 DEF AgentHasRun, HasRun, Pipeline
  <2> QED
    BY <1>1, <1>3, <2>1
<1> QED
  BY <1>2, <1>3

\* Approvals that stood settle as before, and q gives none that it does not go on
\* to settle.
LEMMA SettleStep ==
  ASSUME IInv, NEW q \in Requests, NEW r,
         request' = [request EXCEPT ![q] = r],
         \A p \in halted \ halted' :
           r.pc = "reviewed" /\ r.p = p /\ r.decision = "approve",
         match # NoMatch /\ match.status # "upcoming" => match'.status # "upcoming",
         \A p \in Rows : proposal'[p].winner = proposal[p].winner,
         \A p \in Rows : proposal'[p].status = "approved" =>
           \/ proposal[p].status = "approved"
           \/ r.pc = "reviewed" /\ r.p = p /\ r.decision = "approve",
         \A p \in Rows' \ Rows : proposal'[p].status # "approved",
         request[q].pc \in {"reviewed", "resolve"} /\ request[q].decision = "approve" =>
           \/ proposal[request[q].p].winner = 0 \/ request[q].p \in halted'
           \/ match'.status # "upcoming"
           \/ /\ r.pc \in {"reviewed", "resolve"} /\ r.p = request[q].p
              /\ r.decision = "approve"
  PROVE  ApprovalSettles'
<1> USE DEF IInv
<1> SUFFICES ASSUME NEW p \in Rows' \ halted', proposal'[p].status = "approved",
                    proposal'[p].winner # 0, match'.status = "upcoming"
             PROVE  \E o \in Requests : /\ request'[o].pc \in {"reviewed", "resolve"}
                                        /\ request'[o].p = p
                                        /\ request'[o].decision = "approve"
  BY DEF ApprovalSettles
<1>1. \A o \in Requests : request'[o] = IF o = q THEN r ELSE request[o]
  BY DEF TypeOK
<1>2. p \in Rows
  OBVIOUS
<1>3. match.status = "upcoming"
  BY <1>2 DEF RowsSound
<1>4. CASE proposal[p].status = "approved" /\ p \notin halted
  <2>1. PICK o \in Requests : /\ request[o].pc \in {"reviewed", "resolve"}
                              /\ request[o].p = p /\ request[o].decision = "approve"
    BY <1>2, <1>3, <1>4 DEF ApprovalSettles
  <2>2. CASE o = q
    BY <1>1, <1>2, <2>1, <2>2
  <2>3. CASE o # q
    BY <1>1, <2>1, <2>3
  <2> QED
    BY <2>2, <2>3
<1>5. CASE proposal[p].status # "approved" \/ p \in halted
  <2>1. r.pc = "reviewed" /\ r.p = p /\ r.decision = "approve"
    BY <1>2, <1>5
  <2> QED
    BY <1>1, <2>1
<1> QED
  BY <1>4, <1>5

-----------------------------------------------------------------------------
(* The organizer's profile.                                                *)

\* A step that leaves the requests and the tables of proposals alone.
LEMMA ProfileStep ==
  ASSUME IInv, TypeOK', Standing', UNCHANGED <<market, winner, proposals, request>>,
         allowedOnce => allowedOnce'
  PROVE  IInv'
<1> USE DEF IInv, market, proposals
<1>1. Filled' /\ RowsSound' /\ Advances
  BY DEF Filled, RowsSound, Advances, Rows
<1>2. RequestsSound'
  <2> SUFFICES ASSUME NEW q \in Requests PROVE RequestSound(request[q])'
    BY DEF RequestsSound
  <2> DEFINE x == request[q]
  <2>1. request'[q] = x /\ RequestSound(x)
    BY DEF RequestsSound
  <2> HIDE DEF x
  <2>2. \A y : RequestSound(y) => RequestSound(y)'
    BY <1>1, FrameRequest
  <2> QED
    BY <2>1, <2>2
<1>3. Builders'
  BY DEF Builders, Under
<1>4. HumanApproves' /\ AgentHasRun' /\ ApprovalSettles'
  BY DEF HumanApproves, AgentHasRun, HasRun, ApprovalSettles, Rows
<1>5. CreatedWhenAllowed'
  BY DEF CreatedWhenAllowed, Rows
<1> QED
  BY <1>1, <1>2, <1>3, <1>4, <1>5

LEMMA ApplyKeepsIInv == IInv /\ Apply => IInv'
<1> SUFFICES ASSUME IInv, Apply PROVE IInv'
  OBVIOUS
<1> USE OutcomeAssumption DEF IInv, Apply
<1>1. profile' \in OrganizerProfileRecord
  BY DEF TypeOK, NoProfile, OrganizerProfileRecord, ReappliedStatus,
         ProfileStatuses, KycStatuses
<1>2. TypeOK'
  BY <1>1 DEF TypeOK, market, proposals
<1>3. /\ profile'.status = "approved" => profile.status = "approved"
      /\ profile'.kyc_status = profile.kyc_status
  BY DEF TypeOK, NoProfile, OrganizerProfileRecord, ReappliedStatus
<1>4. Standing'
  BY <1>3 DEF Standing
<1> QED
  BY <1>2, <1>4, ProfileStep

LEMMA StartKycKeepsIInv == IInv /\ StartKyc => IInv'
<1> SUFFICES ASSUME IInv, StartKyc PROVE IInv'
  OBVIOUS
<1> USE OutcomeAssumption DEF IInv, StartKyc
<1>0. /\ profile \in OrganizerProfileRecord
      /\ profile.kyc_reference_id \in 0..MaxSessions
      /\ profile.kyc_reference_id + 1 \in 0..MaxSessions
  BY DEF TypeOK, OrganizerProfileRecord
<1>1. /\ profile' \in OrganizerProfileRecord
      /\ profile'.status = profile.status /\ profile'.kyc_status = "pending"
  BY <1>0 DEF OrganizerProfileRecord, KycRestarted, KycStatuses
<1>2. TypeOK'
  BY <1>1 DEF TypeOK, market, proposals
<1>3. Standing'
  BY <1>1 DEF Standing
<1> QED
  BY <1>2, <1>3, ProfileStep

LEMMA ReviewOrganizerKeepsIInv ==
  ASSUME IInv, NEW s \in scenario.statuses, NEW k \in scenario.kyc,
         ReviewOrganizer(s, k)
  PROVE  IInv'
<1> USE OutcomeAssumption DEF IInv, ReviewOrganizer
<1>1. s \in ProfileStatuses /\ k \in KycStatuses \cup {Undecided}
  BY DEF TypeOK
<1>2. /\ profile' \in OrganizerProfileRecord
      /\ profile'.status = s
      /\ profile'.kyc_status = IF k = Undecided THEN profile.kyc_status ELSE k
  BY <1>1 DEF TypeOK, OrganizerProfileRecord
<1>3. TypeOK'
  BY <1>1, <1>2 DEF TypeOK, market, proposals
<1>4. Standing'
  <2>1. profile'.kyc_status = "verified" => cleared'
    <3>1. CASE k = Undecided
      BY <1>2, <3>1 DEF Standing
    <3>2. CASE k # Undecided
      BY <1>2, <3>2
    <3> QED
      BY <3>1, <3>2
  <2>2. profile'.status = "approved" => decision' = "approved"
    BY <1>2
  <2>3. decision' = "approved" /\ cleared' => allowedOnce'
    OBVIOUS
  <2> QED
    BY <2>1, <2>2, <2>3 DEF Standing
<1> QED
  BY <1>3, <1>4, ProfileStep

-----------------------------------------------------------------------------
(* Steps of requests.                                                      *)

\* A step of request q alone, which becomes r, whatever tables it writes.
LEMMA WorkStep ==
  ASSUME IInv, NEW q \in Requests, NEW r,
         request' = [request EXCEPT ![q] = r], RequestSound(r)',
         r.pc \notin Building,
         UNCHANGED <<organizer, opponents>>,
         tournament' \in BOOLEAN, tournament' => tournament \/ allowedOnce,
         match' \in MatchRow \cup {NoMatch}, match = NoMatch <=> match' = NoMatch,
         match # NoMatch /\ match.status # "upcoming" => match'.status # "upcoming",
         winner' \in {0} \cup Sides, ruled' \subseteq Sides,
         proposal' \in [Proposals -> OutcomeProposalRecord \cup {NoProposal}],
         Filled', Rows \subseteq Rows',
         \A p \in Rows : /\ proposal'[p].source = proposal[p].source
                         /\ proposal'[p].winner = proposal[p].winner,
         \A p \in Rows' \ Rows :
           /\ r.pc \in Pipeline /\ r.p = p /\ match # NoMatch
           /\ proposal'[p].source = "organizer" => allowedOnce
           /\ proposal'[p].status # "approved",
         \A p \in Rows : proposal'[p].status = "approved" =>
           \/ proposal[p].status = "approved"
           \/ r.pc = "reviewed" /\ r.p = p /\ r.decision = "approve",
         runs \subseteq runs', runs' \subseteq Proposals,
         interrupted \subseteq interrupted', interrupted' \subseteq Proposals,
         \A p \in halted \ halted' :
           r.pc = "reviewed" /\ r.p = p /\ r.decision = "approve",
         halted' \subseteq Proposals,
         made' \cap Rows \subseteq made, made \cup made' \subseteq Rows',
         approvals \subseteq approvals', approvals' \subseteq Rows',
         request[q].pc \in Pipeline =>
           \/ proposal[request[q].p].source # "agent" \/ request[q].p \notin made
           \/ request[q].p \in runs' \cup interrupted'
           \/ r.pc \in Pipeline /\ r.p = request[q].p,
         request[q].pc \in {"reviewed", "resolve"} /\ request[q].decision = "approve" =>
           \/ proposal[request[q].p].winner = 0 \/ request[q].p \in halted'
           \/ match'.status # "upcoming"
           \/ /\ r.pc \in {"reviewed", "resolve"} /\ r.p = request[q].p
              /\ r.decision = "approve",
         HumanApproves'
  PROVE  IInv'
<1> USE DEF IInv, organizer
<1>1. Advances
  BY DEF Advances
<1>2. RequestsSound' /\ Builders' /\ request' \in [Requests -> RequestState]
  BY <1>1, RequestStep
<1>3. TypeOK'
  <2>1. approvals' \subseteq Proposals /\ made' \subseteq Proposals
    BY DEF Rows
  <2> QED
    BY <1>2, <2>1 DEF TypeOK
<1>4. Standing'
  BY DEF Standing
<1>5. RowsSound'
  BY DEF RowsSound
<1>6. CreatedWhenAllowed'
  BY DEF CreatedWhenAllowed
<1>7. AgentHasRun'
  BY RunStep
<1>8. ApprovalSettles'
  BY SettleStep
<1> QED
  BY <1>2, <1>3, <1>4, <1>5, <1>6, <1>7, <1>8

\* A request that is received, or moves on, and writes nothing.
LEMMA ReadStep ==
  ASSUME IInv, NEW q \in Requests, NEW r, request' = [request EXCEPT ![q] = r],
         RequestSound(r)', r.pc \notin Building,
         request[q].pc \notin Pipeline \cup Review,
         UNCHANGED <<organizer, market, winner, proposals>>
  PROVE  IInv'
<1> USE DEF IInv, market, proposals
<1>1. Rows' = Rows /\ Filled'
  BY DEF Rows, Filled
<1>2. HumanApproves'
  BY <1>1 DEF HumanApproves
<1>3. request[q].pc \notin {"reviewed", "resolve"}
  BY DEF Review
<1> QED
  BY <1>1, <1>2, <1>3, WorkStep DEF TypeOK, RowsSound

LEMMA AllowedNow == IInv /\ organizer_can_create_markets => allowedOnce
BY DEF IInv, Standing, organizer_can_create_markets

LEMMA ReceiveTournamentKeepsIInv ==
  ASSUME IInv, NEW q \in Requests, ReceiveTournament(q) PROVE IInv'
<1> DEFINE r == [pc |-> "tournament"]
<1>1. r \in RequestState /\ r.pc = "tournament"
  BY DEF RequestState
<1>2. allowedOnce /\ allowedOnce'
  BY AllowedNow DEF ReceiveTournament, organizer
<1>3. request' = [request EXCEPT ![q] = r] /\ request[q].pc = "idle"
  BY DEF ReceiveTournament, Receive, Continue, Idle
<1> HIDE DEF r
<1>4. RequestSound(r)'
  BY <1>1, <1>2 DEF RequestSound, Pipeline, Review
<1> QED
  BY <1>1, <1>3, <1>4, ReadStep DEF ReceiveTournament, Building, Pipeline, Review

LEMMA ReceiveProposalKeepsIInv ==
  ASSUME IInv, NEW q \in Requests, NEW source \in Sources,
         NEW w \in 0..opponents, ReceiveProposal(q, source, w)
  PROVE  IInv'
<1> DEFINE r == [pc |-> "propose", winner |-> w, source |-> source, final |-> "none"]
<1>1. w \in {0} \cup Sides
  BY DEF IInv, TypeOK, Sides
<1>2. r \in RequestState /\ r.pc = "propose" /\ r.source = source
  BY <1>1 DEF RequestState
<1>3. /\ request' = [request EXCEPT ![q] = r] /\ request[q].pc = "idle"
      /\ match' # NoMatch /\ (source = "organizer" => allowedOnce')
  BY AllowedNow DEF ReceiveProposal, Receive, Continue, Idle, organizer, market
<1> HIDE DEF r
<1>4. RequestSound(r)'
  BY <1>1, <1>2, <1>3 DEF RequestSound, Pipeline, Review
<1> QED
  BY <1>2, <1>3, <1>4, ReadStep DEF ReceiveProposal, Building, Pipeline, Review

LEMMA ReceiveResultKeepsIInv ==
  ASSUME IInv, NEW q \in Requests, NEW source \in PipelineSources,
         NEW w \in {0} \cup Sides, NEW c, ReceiveResult(q, source, w, c)
  PROVE  IInv'
<1> DEFINE r == [pc |-> "propose", winner |-> w, source |-> source,
                 final |-> gate_status(cross_check_provider, c)]
<1>1. gate_status(cross_check_provider, c) = "pending_review"
  BY DEF gate_status, cross_check_provider
<1>2. source \in Sources /\ source # "organizer"
  BY DEF Sources, PipelineSources
<1>3. /\ r \in RequestState /\ r.pc = "propose" /\ r.source = source
      /\ r.final = "pending_review"
  BY <1>1, <1>2 DEF RequestState
<1>4. /\ request' = [request EXCEPT ![q] = r] /\ request[q].pc = "idle"
      /\ match' # NoMatch
  BY DEF ReceiveResult, Receive, Continue, Idle, market
<1> HIDE DEF r
<1>5. RequestSound(r)'
  BY <1>2, <1>3, <1>4 DEF RequestSound, Pipeline, Review
<1> QED
  BY <1>3, <1>4, <1>5, ReadStep DEF ReceiveResult, Building, Pipeline, Review

LEMMA ReceiveReviewKeepsIInv ==
  ASSUME IInv, NEW q \in Requests, NEW p \in Proposals, NEW d \in scenario.decisions,
         ReceiveReview(q, p, d)
  PROVE  IInv'
<1> DEFINE r == [pc |-> "review", p |-> p, decision |-> d]
<1>1. d \in Decisions
  BY OutcomeAssumption DEF IInv, TypeOK
<1>2. r \in RequestState /\ r.pc = "review" /\ r.p = p
  BY <1>1 DEF RequestState
<1>3. /\ request' = [request EXCEPT ![q] = r] /\ request[q].pc = "idle"
      /\ p \in Rows'
  BY DEF ReceiveReview, Reviewable, Receive, Continue, Idle, proposals, Rows
<1> HIDE DEF r
<1>4. RequestSound(r)'
  BY <1>2, <1>3 DEF RequestSound, Pipeline, Review
<1> QED
  BY <1>2, <1>3, <1>4, ReadStep DEF ReceiveReview, Building, Pipeline, Review

\* The request that is under way, with its fields.
LEMMA UnderWay ==
  ASSUME IInv, NEW q \in Requests
  PROVE  RequestSound(request[q]) /\ request[q] \in RequestState
BY DEF IInv, RequestsSound, RequestSound

LEMMA IdleIsSound == IInv => RequestSound(Idle) /\ Idle.pc = "idle"
BY DEF RequestSound, RequestState, Idle, Pipeline, Review

LEMMA IdleIsSoundNext == RequestSound(Idle)'
BY DEF RequestSound, RequestState, Idle, Pipeline, Review

LEMMA InsertTournamentKeepsIInv ==
  ASSUME IInv, NEW q \in Requests, InsertTournament(q) PROVE IInv'
<1> USE DEF IInv, InsertTournament, proposals
<1>1. /\ request' = [request EXCEPT ![q] = Idle]
      /\ request[q].pc \notin Pipeline \cup {"reviewed", "resolve"}
  BY DEF Continue, Under, Pipeline
<1>2. allowedOnce
  BY UnderWay DEF RequestSound, Under
<1>3. Rows' = Rows /\ Filled'
  BY DEF Rows, Filled
<1>4. HumanApproves'
  BY <1>3 DEF HumanApproves
<1> QED
  BY <1>1, <1>2, <1>3, <1>4, IdleIsSound, IdleIsSoundNext, WorkStep
     DEF TypeOK, RowsSound, Building, organizer

\* A step of the request that is creating the match.
LEMMA BuildStep ==
  ASSUME IInv, NEW q \in Requests, NEW r, request' = [request EXCEPT ![q] = r],
         RequestSound(r)', request[q].pc \notin Pipeline \cup {"reviewed", "resolve"},
         r.pc \notin Pipeline,
         UNCHANGED <<organizer, tournament, winner, proposals>>,
         match' \in MatchRow \cup {NoMatch}, match # NoMatch => match' # NoMatch,
         match'.result_status = match.result_status,
         match' # NoMatch => match'.status \notin {"completed", "refunded"}
                             \/ match' = match,
         match # NoMatch => match' = match,
         match' # NoMatch => allowedOnce \/ match # NoMatch,
         opponents' \in 0..2, Builders'
  PROVE  IInv'
<1> USE DEF IInv, proposals, organizer
<1>1. Rows' = Rows /\ Filled'
  BY DEF Rows, Filled
<1>2. Advances
  BY <1>1 DEF Advances
<1>3. request' \in [Requests -> RequestState]
  BY DEF TypeOK, RequestSound
<1>4. TypeOK'
  BY <1>3 DEF TypeOK
<1>5. RequestsSound'
  <2> SUFFICES ASSUME NEW o \in Requests PROVE RequestSound(request[o])'
    BY DEF RequestsSound
  <2>1. CASE o = q
    BY <2>1 DEF TypeOK, RequestSound
  <2>2. CASE o # q
    <3> DEFINE x == request[o]
    <3>1. request'[o] = x /\ RequestSound(x)
      BY <2>2 DEF RequestsSound, TypeOK
    <3> HIDE DEF x
    <3>2. \A y : RequestSound(y) => RequestSound(y)'
      BY <1>2, FrameRequest
    <3> QED
      BY <3>1, <3>2
  <2> QED
    BY <2>1, <2>2
<1>6. HumanApproves'
  BY <1>1 DEF HumanApproves, NoMatch
<1>7. CreatedWhenAllowed'
  BY <1>1 DEF CreatedWhenAllowed
<1>8. AgentHasRun'
  BY <1>1, RunStep DEF RowsSound
<1>9. Standing' /\ RowsSound'
  BY <1>1 DEF Standing, RowsSound
<1>10. ApprovalSettles'
  BY <1>1, SettleStep
<1> QED
  BY <1>1, <1>4, <1>5, <1>6, <1>7, <1>8, <1>9, <1>10

LEMMA ReceiveMatchKeepsIInv ==
  ASSUME IInv, NEW q \in Requests, ReceiveMatch(q) PROVE IInv'
<1> DEFINE r == [pc |-> "match"]
<1> USE DEF ReceiveMatch, market
<1>1. r \in RequestState /\ r.pc = "match"
  BY DEF RequestState
<1>2. allowedOnce /\ allowedOnce'
  BY AllowedNow DEF organizer
<1>3. request' = [request EXCEPT ![q] = r] /\ request[q].pc = "idle"
  BY DEF Receive, Continue, Idle
<1> HIDE DEF r
<1>4. RequestSound(r)'
  BY <1>1, <1>2 DEF RequestSound, Pipeline, Review
<1>5. \A o \in Requests : request'[o] = IF o = q THEN r ELSE request[o]
  BY <1>3 DEF IInv, TypeOK
<1>6. \A o \in Requests : request[o].pc \notin Building
  BY DEF IInv, Builders, Under, Building
<1>7. Builders'
  BY <1>1, <1>5, <1>6 DEF IInv, Builders, Under, Building
<1> QED
  BY <1>1, <1>3, <1>4, <1>7, BuildStep DEF IInv, TypeOK, Pipeline

LEMMA InsertMatchKeepsIInv ==
  ASSUME IInv, NEW q \in Requests, InsertMatch(q) PROVE IInv'
<1> DEFINE r == [pc |-> "opponents"]
<1> USE DEF InsertMatch
<1>1. r \in RequestState /\ r.pc = "opponents"
  BY DEF RequestState
<1>2. request' = [request EXCEPT ![q] = r] /\ request[q].pc = "match"
  BY DEF Continue, Under
<1>3. allowedOnce /\ allowedOnce'
  BY <1>2, UnderWay DEF RequestSound, organizer
<1>4. /\ match = NoMatch /\ opponents = 0
      /\ match' \in MatchRow /\ match' # NoMatch
      /\ match'.result_status = match.result_status /\ match'.status = "upcoming"
  BY <1>2 DEF IInv, Builders, Under, MatchRow, NoMatch
<1> HIDE DEF r
<1>5. RequestSound(r)'
  BY <1>1, <1>3 DEF RequestSound, Pipeline, Review
<1>6. \A o \in Requests : request'[o] = IF o = q THEN r ELSE request[o]
  BY <1>2 DEF IInv, TypeOK
<1>7. Builders'
  BY <1>1, <1>2, <1>4, <1>6 DEF IInv, Builders, Under, Building
<1> QED
  BY <1>1, <1>2, <1>3, <1>4, <1>5, <1>7, BuildStep DEF IInv, TypeOK, Pipeline

LEMMA InsertOpponentKeepsIInv ==
  ASSUME IInv, NEW q \in Requests, InsertOpponent(q) PROVE IInv'
<1> USE DEF InsertOpponent
<1>1. request[q].pc = "opponents" /\ RequestSound(request[q])
  BY UnderWay DEF Under
<1>2. /\ match # NoMatch /\ opponents < 2 /\ opponents \in 0..2
      /\ opponents' \in 0..2 /\ (opponents' # 2 => opponents' < 2)
  BY <1>1 DEF IInv, TypeOK, Builders, Under
<1>3. PICK r : r = IF opponents' = 2 THEN Idle ELSE request[q]
  OBVIOUS
<1>4. request' = [request EXCEPT ![q] = r]
  BY <1>3 DEF Continue
<1>5. RequestSound(r)
  BY <1>1, <1>3, IdleIsSound
<1>6. RequestSound(r)'
  <2>1. Advances
    BY DEF Advances, proposals, organizer, Rows
  <2> QED
    BY <1>5, <2>1, FrameRequest DEF IInv
<1>7. \A o \in Requests : request'[o] = IF o = q THEN r ELSE request[o]
  BY <1>4 DEF IInv, TypeOK
<1>8. r.pc \in {"idle", "opponents"} /\ (r.pc = "opponents" => opponents' < 2)
  BY <1>1, <1>2, <1>3, IdleIsSound
<1>9. Builders'
  BY <1>1, <1>2, <1>7, <1>8 DEF IInv, Builders, Under, Building
<1> QED
  BY <1>1, <1>2, <1>4, <1>6, <1>8, <1>9, BuildStep DEF IInv, TypeOK, Pipeline

\* The INSERT of a proposal takes the next free row.
LEMMA InsertProposalKeepsIInv ==
  ASSUME IInv, NEW q \in Requests, InsertProposal(q) PROVE IInv'
<1> USE OutcomeAssumption DEF InsertProposal
<1>1. /\ request[q].pc = "propose" /\ RequestSound(request[q])
      /\ request[q].winner \in {0} \cup Sides /\ request[q].source \in Sources
      /\ request[q].final \in {"none", "pending_review"}
      /\ match # NoMatch /\ (request[q].source = "organizer" => allowedOnce)
  BY UnderWay, FieldTypes DEF Under, RequestSound
<1>2. PICK p \in Proposals :
        /\ p = Cardinality(Rows) + 1
        /\ proposal' = [proposal EXCEPT ![p] =
             [winner |-> request[q].winner, source |-> request[q].source,
              status |-> "pending"]]
        /\ made' = IF request[q].final = "none" THEN made ELSE made \cup {p}
        /\ request' = [request EXCEPT ![q] =
             [pc |-> "announce", p |-> p, final |-> request[q].final]]
  BY DEF Continue
<1>3. PICK n \in 0..MaxProposals : Rows = 1..n
  BY DEF IInv, Filled
<1>4. Cardinality(Rows) = n
  BY <1>3, FS_Interval
<1>5. p = n + 1 /\ p \notin Rows
  BY <1>2, <1>3, <1>4
<1>6. PICK r : r = [pc |-> "announce", p |-> p, final |-> request[q].final]
  OBVIOUS
<1>7. /\ proposal'[p] \in OutcomeProposalRecord /\ proposal'[p] # NoProposal
      /\ proposal'[p].source = request[q].source
      /\ proposal'[p].status = "pending"
      /\ \A o \in Proposals \ {p} : proposal'[o] = proposal[o]
      /\ proposal' \in [Proposals -> OutcomeProposalRecord \cup {NoProposal}]
  <2>1. [winner |-> request[q].winner, source |-> request[q].source,
         status |-> "pending"] \in OutcomeProposalRecord
    BY <1>1 DEF OutcomeProposalRecord
  <2>2. proposal \in [Proposals -> OutcomeProposalRecord \cup {NoProposal}]
    BY DEF IInv, TypeOK
  <2>3. proposal'[p].status = "pending" /\ proposal'[p].source = request[q].source
    BY <1>2, <2>2
  <2> QED
    BY <1>2, <2>1, <2>2, <2>3 DEF NoProposal
<1>8. Rows' = Rows \cup {p}
  BY <1>7 DEF Rows
<1>9. Filled'
  <2>1. n + 1 \in 0..MaxProposals
    BY <1>5 DEF Proposals
  <2>2. Rows' = 1..(n + 1)
    BY <1>3, <1>5, <1>8
  <2> QED
    BY <2>1, <2>2 DEF Filled
<1>10. /\ r \in RequestState /\ r.pc = "announce" /\ r.p = p
       /\ r.final = request[q].final
  BY <1>1, <1>6 DEF RequestState
<1>11. /\ made' \cap Rows \subseteq made /\ made \cup made' \subseteq Rows'
       /\ p \in made' => request[q].final = "pending_review"
  BY <1>1, <1>2, <1>5, <1>8 DEF IInv, RowsSound
<1>12. RequestSound(r)'
  BY <1>1, <1>7, <1>8, <1>10, <1>11 DEF RequestSound, Pipeline, Review
<1>13. HumanApproves'
  BY <1>5, <1>7, <1>8 DEF IInv, HumanApproves, RowsSound, market
<1>14. \A o \in Rows : proposal'[o] = proposal[o]
  BY <1>5, <1>7 DEF Rows
<1>15. /\ request' = [request EXCEPT ![q] = r]
       /\ request[q].pc \notin Pipeline \cup {"reviewed", "resolve"}
       /\ r.pc \notin Building
  BY <1>1, <1>2, <1>6 DEF Pipeline, Building
<1>16. \A o \in Rows' \ Rows :
         /\ r.pc \in Pipeline /\ r.p = o /\ match # NoMatch
         /\ proposal'[o].source = "organizer" => allowedOnce
         /\ proposal'[o].status # "approved"
  BY <1>1, <1>5, <1>7, <1>8, <1>10 DEF Pipeline
<1>17. /\ UNCHANGED <<organizer, market, winner, runs, approvals, ruled, interrupted,
                     halted>>
       /\ approvals \subseteq Rows' /\ halted \subseteq Proposals
       /\ interrupted \subseteq Proposals /\ runs \subseteq Proposals
       /\ ruled \subseteq Sides /\ Rows \subseteq Rows'
  BY <1>8 DEF IInv, TypeOK, RowsSound
<1> HIDE DEF InsertProposal
<1> QED
  BY <1>7, <1>9, <1>11, <1>12, <1>13, <1>14, <1>15, <1>16, <1>17, WorkStep
     DEF IInv, TypeOK, market

\* A step that writes the result_status of the match, after one that has
\* written the proposal.
LEMMA StatusStep ==
  ASSUME IInv, NEW q \in Requests, NEW r, request' = [request EXCEPT ![q] = r],
         RequestSound(r), r.pc \notin Building,
         match # NoMatch,
         NEW status \in {"proposed", "approved", "rejected", "disputed"},
         match' = [match EXCEPT !.result_status = status],
         status = "approved" => approvals # {},
         UNCHANGED <<organizer, tournament, opponents, winner, proposals>>,
         request[q].pc \in Pipeline =>
           \/ proposal[request[q].p].source # "agent" \/ request[q].p \notin made
           \/ r.pc \in Pipeline /\ r.p = request[q].p,
         request[q].pc \in {"reviewed", "resolve"} /\ request[q].decision = "approve" =>
           \/ proposal[request[q].p].winner = 0
           \/ /\ r.pc \in {"reviewed", "resolve"} /\ r.p = request[q].p
              /\ r.decision = "approve"
  PROVE  IInv'
<1> USE DEF proposals
<1>1. /\ match' \in MatchRow /\ match' # NoMatch
      /\ match'.status = match.status /\ match'.result_status = status
  BY DEF IInv, TypeOK, MatchRow, NoMatch
<1>2. Rows' = Rows /\ Filled'
  BY DEF IInv, Rows, Filled
<1>3. RequestSound(r)'
  BY <1>1, <1>2, FrameRequest DEF IInv, Advances, organizer
<1>4. HumanApproves'
  BY <1>1, <1>2 DEF IInv, HumanApproves
<1> QED
  BY <1>1, <1>2, <1>3, <1>4, WorkStep DEF IInv, TypeOK, RowsSound

LEMMA AnnounceProposalKeepsIInv ==
  ASSUME IInv, NEW q \in Requests, AnnounceProposal(q) PROVE IInv'
<1> USE DEF AnnounceProposal
<1>1. /\ request[q].pc = "announce" /\ RequestSound(request[q])
      /\ request[q].p \in Rows
      /\ request[q].p \in Proposals /\ request[q].final \in {"none", "pending_review"}
  BY UnderWay, FieldTypes DEF Under, Pipeline, RequestSound
<1>2. PICK r : r = IF request[q].final = "none" THEN Idle
                   ELSE [request[q] EXCEPT !.pc = "verify"]
  OBVIOUS
<1>3. request' = [request EXCEPT ![q] = r]
  BY <1>2 DEF Continue
<1>4. CASE request[q].final = "none"
  <2>1. request[q].p \notin made
    BY <1>1, <1>4 DEF RequestSound
  <2> QED
    BY <1>1, <1>2, <1>3, <1>4, <2>1, IdleIsSound, StatusStep
       DEF IInv, RowsSound, Building
<1>5. CASE request[q].final = "pending_review"
  <2>0. request[q] \in [pc : Pipeline, p : Proposals, final : {"none", "pending_review"}]
    BY <1>1, UnderWay DEF RequestState, Idle, Pipeline
  <2>1. /\ r \in [pc : Pipeline, p : Proposals, final : {"none", "pending_review"}]
        /\ r.pc = "verify" /\ r.p = request[q].p /\ r.final = "pending_review"
    BY <1>2, <1>5, <2>0 DEF Pipeline
  <2>2. r \in RequestState
    BY <2>1 DEF RequestState, Pipeline
  <2>3. RequestSound(r)
    BY <1>1, <2>1, <2>2 DEF RequestSound, Pipeline, Review
  <2> QED
    BY <1>1, <1>3, <2>1, <2>3, StatusStep DEF IInv, RowsSound, Building, Pipeline
<1> QED
  BY <1>1, <1>4, <1>5

\* A step that writes the status of a proposal.
LEMMA ProposalStep ==
  ASSUME IInv, NEW q \in Requests, NEW r, request' = [request EXCEPT ![q] = r],
         NEW p \in Rows,
         NEW status \in {"pending_review", "approved", "rejected", "disputed"},
         proposal' = [proposal EXCEPT ![p].status = status],
         approvals' = IF status = "approved" THEN approvals \cup {p} ELSE approvals,
         halted' = IF status = "approved" THEN halted \ {p} ELSE halted,
         UNCHANGED <<organizer, market, winner, runs, made, ruled, interrupted>>,
         r \in RequestState, RequestSound(r)', r.pc \notin Building,
         request[q].pc \notin {"reviewed", "resolve"},
         status = "approved" =>
           r.pc = "reviewed" /\ r.p = p /\ r.decision = "approve",
         request[q].pc \in Pipeline => r.pc \in Pipeline /\ r.p = request[q].p
  PROVE  IInv'
<1> USE DEF market
<1>1. /\ proposal \in [Proposals -> OutcomeProposalRecord \cup {NoProposal}]
      /\ p \in Proposals /\ proposal[p] \in OutcomeProposalRecord
  BY DEF IInv, TypeOK, Rows
<1>2. /\ proposal'[p] \in OutcomeProposalRecord /\ proposal'[p] # NoProposal
      /\ proposal'[p].status = status
      /\ proposal'[p].source = proposal[p].source
      /\ proposal'[p].winner = proposal[p].winner
      /\ \A o \in Proposals \ {p} : proposal'[o] = proposal[o]
      /\ proposal' \in [Proposals -> OutcomeProposalRecord \cup {NoProposal}]
  BY <1>1 DEF OutcomeProposalRecord, NoProposal
<1>3. Rows' = Rows /\ Filled'
  BY <1>2 DEF IInv, Rows, Filled
<1>4. \A o \in Rows : /\ proposal'[o].source = proposal[o].source
                      /\ proposal'[o].winner = proposal[o].winner
  BY <1>2 DEF Rows
<1>5. approvals \subseteq approvals' /\ approvals' \subseteq Rows'
  BY <1>3 DEF IInv, RowsSound
<1>6. HumanApproves'
  <2>1. /\ match.result_status = "approved" => approvals' # {}
        /\ match.status \in {"completed", "refunded"} => approvals' # {} \/ ruled # {}
    BY <1>5 DEF IInv, HumanApproves
  <2>2. winner # 0 =>
          winner \in ruled \/ \E o \in approvals' : proposal'[o].winner = winner
    BY <1>4, <1>5 DEF IInv, HumanApproves, RowsSound
  <2>3. \A o \in Rows : proposal'[o].status = "approved" => o \in approvals'
    BY <1>2, <1>5 DEF IInv, HumanApproves, Rows
  <2> QED
    BY <1>3, <2>1, <2>2, <2>3 DEF HumanApproves
<1>7. \A o \in Rows : proposal'[o].status = "approved" =>
        \/ proposal[o].status = "approved"
        \/ r.pc = "reviewed" /\ r.p = o /\ r.decision = "approve"
  BY <1>2 DEF Rows
<1>8. /\ \A o \in halted \ halted' :
           r.pc = "reviewed" /\ r.p = o /\ r.decision = "approve"
      /\ halted' \subseteq Proposals
  BY DEF IInv, TypeOK
<1> QED
  BY <1>2, <1>3, <1>4, <1>5, <1>6, <1>7, <1>8, WorkStep DEF IInv, TypeOK, RowsSound

\* A request in the pipeline, and one step further.
LEMMA PipelineMoves ==
  ASSUME NEW x \in RequestState, x.pc \in Pipeline, NEW pc \in Pipeline
  PROVE  LET y == [x EXCEPT !.pc = pc]
         IN  y \in RequestState /\ y.pc = pc /\ y.p = x.p /\ y.final = x.final
<1>1. x \in [pc : Pipeline, p : Proposals, final : {"none", "pending_review"}]
  BY DEF RequestState, Idle, Pipeline
<1> QED
  BY <1>1 DEF RequestState, Pipeline

LEMMA ReviewMoves ==
  ASSUME NEW x \in RequestState, x.pc \in Review, NEW pc \in Review
  PROVE  LET y == [x EXCEPT !.pc = pc]
         IN  y \in RequestState /\ y.pc = pc /\ y.p = x.p /\ y.decision = x.decision
<1>1. x \in [pc : Review, p : Proposals, decision : Decisions]
  BY DEF RequestState, Idle, Review
<1> QED
  BY <1>1 DEF RequestState, Review

LEMMA VerifyProposalKeepsIInv ==
  ASSUME IInv, NEW q \in Requests, VerifyProposal(q) PROVE IInv'
<1> USE DEF VerifyProposal
<1>1. /\ request[q].pc = "verify" /\ request[q] \in RequestState
      /\ request[q].p \in Rows /\ request[q].final = "pending_review"
  BY UnderWay DEF Under, Pipeline, RequestSound
<1>2. PICK r : r = [request[q] EXCEPT !.pc = "verdict"]
  OBVIOUS
<1>3. request' = [request EXCEPT ![q] = r]
  BY <1>2 DEF Continue
<1>4. /\ r \in RequestState /\ r.pc = "verdict" /\ r.p = request[q].p
      /\ r.final = "pending_review"
  BY <1>1, <1>2, PipelineMoves DEF Pipeline
<1>5. r.p \in Rows'
  BY <1>1, <1>4 DEF IInv, TypeOK, Rows, NoProposal, OutcomeProposalRecord
<1>6. RequestSound(r)'
  BY <1>4, <1>5 DEF RequestSound, Pipeline, Review
<1> QED
  BY <1>1, <1>3, <1>4, <1>6, ProposalStep DEF Building, Pipeline

LEMMA StoreVerdictKeepsIInv ==
  ASSUME IInv, NEW q \in Requests, StoreVerdict(q) PROVE IInv'
<1> USE DEF StoreVerdict
<1>1. /\ request[q].pc = "verdict" /\ request[q] \in RequestState
      /\ request[q].p \in Rows /\ request[q].final = "pending_review"
      /\ match # NoMatch
  BY UnderWay DEF Under, Pipeline, RequestSound, IInv, RowsSound
<1>2. CASE FitsColumn(proposal[request[q].p].source, request[q].final)
  <2>1. PICK r : r = [request[q] EXCEPT !.pc = "run"]
    OBVIOUS
  <2>2. /\ r \in RequestState /\ r.pc = "run" /\ r.p = request[q].p
        /\ r.final = "pending_review"
    BY <1>1, <2>1, PipelineMoves DEF Pipeline
  <2>3. RequestSound(r)
    BY <1>1, <2>2 DEF RequestSound, Pipeline, Review
  <2>4. request' = [request EXCEPT ![q] = r]
        /\ match' = [match EXCEPT !.result_status = "proposed"]
    BY <1>1, <1>2, <2>1 DEF Continue, VerifiedResult
  <2> QED
    BY <1>1, <2>2, <2>3, <2>4, StatusStep DEF Building, Pipeline
<1>3. CASE ~FitsColumn(proposal[request[q].p].source, request[q].final)
  <2>1. proposal[request[q].p].source # "agent"
    BY <1>1, <1>3 DEF FitsColumn, Length
  <2>2. request' = [request EXCEPT ![q] = Idle] /\ UNCHANGED match
    BY <1>3 DEF Continue
  <2>3. Rows' = Rows /\ Filled'
    BY DEF IInv, Rows, Filled, proposals
  <2>4. HumanApproves'
    BY <2>2, <2>3 DEF IInv, HumanApproves, proposals
  <2> QED
    BY <1>1, <2>1, <2>2, <2>3, <2>4, IdleIsSound, IdleIsSoundNext, WorkStep
       DEF IInv, TypeOK, RowsSound, Building, proposals
<1> QED
  BY <1>2, <1>3

LEMMA InsertRunKeepsIInv ==
  ASSUME IInv, NEW q \in Requests, InsertRun(q) PROVE IInv'
<1> USE DEF InsertRun, market
<1>1. request[q].pc = "run" /\ request[q].p \in Proposals
  BY UnderWay, FieldTypes DEF Under, Pipeline
<1>2. Rows' = Rows /\ Filled'
  BY DEF IInv, Rows, Filled
<1>3. HumanApproves'
  BY <1>2 DEF IInv, HumanApproves
<1>4. request' = [request EXCEPT ![q] = Idle]
  BY DEF Continue
<1> QED
  BY <1>1, <1>2, <1>3, <1>4, IdleIsSound, IdleIsSoundNext, WorkStep
     DEF IInv, TypeOK, RowsSound, Building

\* The step that makes a proposal approved is the administrator's.
LEMMA StoreReviewKeepsIInv ==
  ASSUME IInv, NEW q \in Requests, StoreReview(q) PROVE IInv'
<1> USE DEF StoreReview
<1>1. /\ request[q].pc = "review" /\ request[q] \in RequestState
      /\ request[q].p \in Rows /\ request[q].decision \in Decisions
  BY UnderWay, FieldTypes DEF Under, Review, RequestSound
<1>2. PICK r : r = [request[q] EXCEPT !.pc = "reviewed"]
  OBVIOUS
<1>3. request' = [request EXCEPT ![q] = r]
  BY <1>2 DEF Continue
<1>4. /\ r \in RequestState /\ r.pc = "reviewed" /\ r.p = request[q].p
      /\ r.decision = request[q].decision
  BY <1>1, <1>2, ReviewMoves DEF Review
<1>5. /\ ReviewedStatus(r.decision) \in {"approved", "rejected", "disputed"}
      /\ ReviewedStatus(r.decision) = "approved" <=> r.decision = "approve"
  BY <1>1, <1>4 DEF ReviewedStatus, Decisions
<1>6. r.p \in Rows'
  BY <1>1, <1>4 DEF IInv, TypeOK, Rows, NoProposal, OutcomeProposalRecord
<1>7. RequestSound(r)'
  BY <1>4, <1>6 DEF RequestSound, Pipeline, Review
<1>8. /\ approvals' = IF ReviewedStatus(r.decision) = "approved"
                      THEN approvals \cup {r.p} ELSE approvals
      /\ halted' = IF ReviewedStatus(r.decision) = "approved"
                   THEN halted \ {r.p} ELSE halted
  BY <1>4, <1>5
<1> QED
  BY <1>1, <1>3, <1>4, <1>5, <1>7, <1>8, ProposalStep DEF Building, Pipeline

LEMMA AnnounceReviewKeepsIInv ==
  ASSUME IInv, NEW q \in Requests, AnnounceReview(q) PROVE IInv'
<1> USE DEF AnnounceReview
<1>1. /\ request[q].pc = "reviewed" /\ request[q] \in RequestState
      /\ request[q].p \in Rows /\ request[q].decision \in Decisions
      /\ request[q].decision = "approve" => request[q].p \in approvals
      /\ match # NoMatch
  BY UnderWay, FieldTypes DEF Under, Review, RequestSound, IInv, RowsSound
<1>2. PICK r : r = IF Resolves(request[q].decision, request[q].p)
                   THEN [request[q] EXCEPT !.pc = "resolve"] ELSE Idle
  OBVIOUS
<1>3. request' = [request EXCEPT ![q] = r]
  BY <1>2 DEF Continue
<1>4. /\ RequestSound(r) /\ r.pc \in {"resolve", "idle"}
      /\ request[q].decision = "approve" =>
           \/ proposal[request[q].p].winner = 0
           \/ r.pc = "resolve" /\ r.p = request[q].p /\ r.decision = "approve"
  <2>1. CASE Resolves(request[q].decision, request[q].p)
    <3>1. /\ r \in RequestState /\ r.pc = "resolve" /\ r.p = request[q].p
          /\ r.decision = request[q].decision
      BY <1>1, <1>2, <2>1, ReviewMoves DEF Review
    <3> QED
      BY <1>1, <2>1, <3>1 DEF Resolves, RequestSound, Pipeline, Review
  <2>2. CASE ~Resolves(request[q].decision, request[q].p)
    BY <1>2, <2>2, IdleIsSound DEF Resolves
  <2> QED
    BY <2>1, <2>2
<1>5. PICK status : status = ReviewedStatus(request[q].decision)
  OBVIOUS
<1>6. /\ status \in {"proposed", "approved", "rejected", "disputed"}
      /\ status = "approved" => approvals # {}
  BY <1>1, <1>5 DEF ReviewedStatus, Decisions
<1> QED
  BY <1>1, <1>3, <1>4, <1>5, <1>6, StatusStep DEF Building, Pipeline

\* Whoever resolves a match leaves it closed, for no winner or the one asked for.
LEMMA Resolved ==
  ASSUME match \in MatchRow, NEW w, Resolution(w)
  PROVE  /\ match' \in MatchRow /\ match' # NoMatch
         /\ match'.status \in {"completed", "refunded"}
         /\ match'.result_status = match.result_status
         /\ winner' = winner \/ winner' = w
<1>1. \/ match' = match /\ match.status = "completed"
      \/ match' = [match EXCEPT !.status = "completed"]
      \/ match' = [match EXCEPT !.status = "refunded"]
  BY DEF Resolution
<1>2. /\ match' \in MatchRow /\ match'.status \in {"completed", "refunded"}
      /\ match'.result_status = match.result_status
  BY <1>1 DEF MatchRow
<1>3. match' # NoMatch
  BY <1>2 DEF NoMatch
<1> QED
  BY <1>2, <1>3 DEF Resolution

LEMMA ResolveMatchKeepsIInv ==
  ASSUME IInv, NEW q \in Requests, ResolveMatch(q) PROVE IInv'
<1> USE DEF ResolveMatch, proposals
<1>1. /\ request[q].pc = "resolve" /\ request[q].p \in Rows
      /\ request[q].p \in Proposals /\ request[q].p \in approvals
      /\ proposal[request[q].p].winner # 0
      /\ match # NoMatch
  BY UnderWay, FieldTypes DEF Under, Review, RequestSound, IInv, RowsSound
<1>2. proposal[request[q].p].winner \in Sides
  BY <1>1 DEF IInv, TypeOK, Rows, OutcomeProposalRecord, Sides
<1>3. match \in MatchRow
  BY <1>1 DEF IInv, TypeOK
<1>4. /\ match' \in MatchRow /\ match' # NoMatch
      /\ match'.status \in {"completed", "refunded"}
      /\ match'.result_status = match.result_status
      /\ winner' = winner \/ winner' = proposal[request[q].p].winner
  BY <1>3, Resolved
<1>5. Rows' = Rows /\ Filled'
  BY DEF IInv, Rows, Filled
<1>6. HumanApproves'
  BY <1>1, <1>4, <1>5 DEF IInv, HumanApproves
<1>7. request' = [request EXCEPT ![q] = Idle]
  BY DEF Continue
<1> QED
  BY <1>1, <1>2, <1>4, <1>5, <1>6, <1>7, IdleIsSound, IdleIsSoundNext,
     WorkStep DEF IInv, TypeOK, RowsSound, Building, Pipeline

\* What an administrator does to the match without a request of several
\* statements.
LEMMA MatchStep ==
  ASSUME IInv, match # NoMatch, match' \in MatchRow, match' # NoMatch,
         match'.status # "upcoming", match'.result_status = match.result_status,
         winner' \in {0} \cup Sides, ruled' \subseteq Sides, HumanApproves',
         UNCHANGED <<organizer, tournament, opponents, proposal, runs, made,
                     approvals, interrupted, halted, request>>
  PROVE  IInv'
<1> USE DEF IInv, organizer
<1>1. Filled' /\ RowsSound' /\ Advances
  BY DEF Filled, RowsSound, Advances, Rows
<1>2. RequestsSound'
  <2> SUFFICES ASSUME NEW q \in Requests PROVE RequestSound(request[q])'
    BY DEF RequestsSound
  <2> DEFINE x == request[q]
  <2>1. request'[q] = x /\ RequestSound(x)
    BY DEF RequestsSound
  <2> HIDE DEF x
  <2>2. \A y : RequestSound(y) => RequestSound(y)'
    BY <1>1, FrameRequest
  <2> QED
    BY <2>1, <2>2
<1>3. Builders' /\ TypeOK' /\ Standing'
  BY DEF Builders, Under, TypeOK, Standing
<1>4. AgentHasRun' /\ ApprovalSettles'
  BY DEF AgentHasRun, HasRun, ApprovalSettles, Rows
<1>5. CreatedWhenAllowed'
  BY DEF CreatedWhenAllowed, Rows
<1> QED
  BY <1>1, <1>2, <1>3, <1>4, <1>5

LEMMA ResolveTournamentKeepsIInv ==
  ASSUME IInv, NEW w \in 1..opponents, ResolveTournament(w) PROVE IInv'
<1> USE DEF ResolveTournament
<1>1. w \in Sides /\ match \in MatchRow
  BY DEF IInv, TypeOK, Sides
<1>2. /\ match' \in MatchRow /\ match' # NoMatch
      /\ match'.status \in {"completed", "refunded"}
      /\ match'.result_status = match.result_status
      /\ winner' = winner \/ winner' = w
  BY <1>1, Resolved
<1>3. HumanApproves'
  BY <1>2 DEF IInv, HumanApproves, Rows
<1> QED
  BY <1>1, <1>2, <1>3, MatchStep DEF IInv, TypeOK

LEMMA CancelTournamentKeepsIInv == IInv /\ CancelTournament => IInv'
<1> SUFFICES ASSUME IInv, CancelTournament PROVE IInv'
  OBVIOUS
<1> USE DEF CancelTournament, proposals
<1>1. match \in MatchRow
  BY DEF IInv, TypeOK
<1>2. /\ match' \in MatchRow /\ match'.status = "cancelled"
      /\ match'.result_status = match.result_status
  BY <1>1 DEF MatchRow
<1>3. match' # NoMatch
  BY <1>2 DEF NoMatch
<1>4. HumanApproves'
  BY <1>2 DEF IInv, HumanApproves, Rows
<1> QED
  BY <1>2, <1>3, <1>4, MatchStep DEF IInv, TypeOK

LEMMA FailKeepsIInv ==
  ASSUME IInv, NEW q \in Requests, Fail(q) PROVE IInv'
<1> USE DEF Fail, market
<1>1. request[q].pc \in Pipeline \cup Review => request[q].p \in Proposals
  BY UnderWay, FieldTypes
<1>2. /\ interrupted \subseteq interrupted' /\ interrupted' \subseteq Proposals
      /\ request[q].pc \in Pipeline => request[q].p \in interrupted'
      /\ halted \subseteq halted' /\ halted' \subseteq Proposals
      /\ request[q].pc \in Review => request[q].p \in halted'
  BY <1>1 DEF Pipeline, Review, IInv, TypeOK
<1>3. Rows' = Rows /\ Filled'
  BY DEF IInv, Rows, Filled
<1>4. HumanApproves'
  BY <1>3 DEF IInv, HumanApproves
<1>5. request' = [request EXCEPT ![q] = Idle]
  BY DEF Continue
<1> QED
  BY <1>2, <1>3, <1>4, <1>5, IdleIsSound, IdleIsSoundNext, WorkStep
     DEF IInv, TypeOK, RowsSound, Building, Review

-----------------------------------------------------------------------------
(* The invariant.                                                          *)

LEMMA InitIInv == Init => IInv
<1> SUFFICES ASSUME Init PROVE IInv
  OBVIOUS
<1> USE OutcomeAssumption DEF Init
<1>1. Rows = {} /\ Idle \in RequestState /\ Idle.pc = "idle"
  BY DEF Rows, Idle, RequestState
<1>2. TypeOK
  <2>1. /\ proposal \in [Proposals -> OutcomeProposalRecord \cup {NoProposal}]
        /\ request \in [Requests -> RequestState]
    BY <1>1
  <2>2. /\ scenario \in Scenarios /\ profile \in OrganizerProfileRecord \cup {NoProfile}
        /\ match \in MatchRow \cup {NoMatch}
        /\ winner \in {0} \cup Sides /\ opponents \in 0..2
    OBVIOUS
  <2>3. /\ runs \subseteq Proposals /\ approvals \subseteq Proposals
        /\ interrupted \subseteq Proposals /\ halted \subseteq Proposals
        /\ made \subseteq Proposals /\ ruled \subseteq Sides
        /\ decision \in ProfileStatuses \cup {"none"}
        /\ tournament \in BOOLEAN /\ cleared \in BOOLEAN /\ allowedOnce \in BOOLEAN
    OBVIOUS
  <2> QED
    BY <2>1, <2>2, <2>3 DEF TypeOK
<1>3. Filled
  <2>1. 0 \in 0..MaxProposals /\ 1..0 = {}
    OBVIOUS
  <2> QED
    BY <1>1, <2>1 DEF Filled
<1>4. Standing
  BY DEF Standing, NoProfile
<1>5. Builders
  BY <1>1 DEF Builders, Building, Under
<1>6. RequestsSound
  BY <1>1 DEF RequestsSound, RequestSound, Pipeline, Review
<1>7. /\ RowsSound /\ HumanApproves /\ CreatedWhenAllowed /\ AgentHasRun
      /\ ApprovalSettles
  BY <1>1 DEF RowsSound, HumanApproves, CreatedWhenAllowed, AgentHasRun, HasRun,
              ApprovalSettles, NoMatch
<1> QED
  BY <1>2, <1>3, <1>4, <1>5, <1>6, <1>7 DEF IInv

LEMMA StutterKeepsIInv == IInv /\ UNCHANGED vars => IInv'
<1> SUFFICES ASSUME IInv, UNCHANGED vars PROVE IInv'
  OBVIOUS
<1> USE DEF vars, organizer, market, proposals
<1>1. TypeOK' /\ Standing'
  BY DEF IInv, TypeOK, Standing
<1> QED
  BY <1>1, ProfileStep

LEMMA NextKeepsIInv == IInv /\ [Next]_vars => IInv'
<1> SUFFICES ASSUME IInv, [Next]_vars PROVE IInv'
  OBVIOUS
<1>1. CASE Apply
  BY <1>1, ApplyKeepsIInv
<1>2. CASE StartKyc
  BY <1>2, StartKycKeepsIInv
<1>3. ASSUME NEW s \in scenario.statuses, NEW k \in scenario.kyc, ReviewOrganizer(s, k)
      PROVE  IInv'
  BY <1>3, ReviewOrganizerKeepsIInv
<1>4. ASSUME NEW q \in Requests, ReceiveTournament(q) \/ ReceiveMatch(q) PROVE IInv'
  BY <1>4, ReceiveTournamentKeepsIInv, ReceiveMatchKeepsIInv
<1>5. ASSUME NEW q \in Requests, NEW source \in Sources, NEW w \in 0..opponents,
             ReceiveProposal(q, source, w)
      PROVE  IInv'
  BY <1>5, ReceiveProposalKeepsIInv
<1>6. ASSUME NEW q \in Requests, NEW w \in {0} \cup Sides, NEW c \in BOOLEAN,
             ReceiveAgentResult(q, w, c) \/ ReceiveWebhookResult(q, w, c)
      PROVE  IInv'
  <2>1. CASE ReceiveAgentResult(q, w, c)
    BY <2>1, ReceiveResultKeepsIInv DEF ReceiveAgentResult, PipelineSources
  <2>2. CASE ReceiveWebhookResult(q, w, c)
    <3>1. PICK x \in {0} \cup Sides : ReceiveResult(q, "organizer_webhook", x, c)
      BY <2>2 DEF ReceiveWebhookResult
    <3> QED
      BY <3>1, ReceiveResultKeepsIInv DEF PipelineSources
  <2> QED
    BY <1>6, <2>1, <2>2
<1>7. ASSUME NEW q \in Requests, NEW p \in Proposals, NEW d \in scenario.decisions,
             ReceiveReview(q, p, d)
      PROVE  IInv'
  BY <1>7, ReceiveReviewKeepsIInv
<1>8. ASSUME NEW q \in Requests, Step(q) PROVE IInv'
  BY <1>8, InsertTournamentKeepsIInv, InsertMatchKeepsIInv, InsertOpponentKeepsIInv,
     InsertProposalKeepsIInv, AnnounceProposalKeepsIInv, VerifyProposalKeepsIInv,
     StoreVerdictKeepsIInv, InsertRunKeepsIInv, StoreReviewKeepsIInv,
     AnnounceReviewKeepsIInv, ResolveMatchKeepsIInv DEF Step
<1>9. ASSUME NEW q \in Requests, Fail(q) PROVE IInv'
  BY <1>9, FailKeepsIInv
<1>10. CASE UNCHANGED vars
  BY <1>10, StutterKeepsIInv
<1>11. ASSUME NEW w \in 1..opponents, ResolveTournament(w) PROVE IInv'
  BY <1>11, ResolveTournamentKeepsIInv
<1>12. CASE CancelTournament
  BY <1>12, CancelTournamentKeepsIInv
<1> QED
  BY <1>1, <1>2, <1>3, <1>4, <1>5, <1>6, <1>7, <1>8, <1>9, <1>10, <1>11, <1>12 DEF Next

LEMMA Invariance == Spec => []IInv
BY InitIInv, NextKeepsIInv, PTL DEF Spec

\* Every row and every request keeps the fields of its type.
THEOREM TypeCorrect == Spec => []TypeOK
<1>1. IInv => TypeOK
  BY DEF IInv
<1> QED
  BY <1>1, Invariance, PTL

\* Nothing is approved but by an administrator, and nothing settled but for a
\* winner that one has approved or named itself.
THEOREM ApprovedByHumans == Spec => []HumanApproves
<1>1. IInv => HumanApproves
  BY DEF IInv
<1> QED
  BY <1>1, Invariance, PTL

\* An organizer creates and proposes only on the word of administrators.
THEOREM OrganizersAllowed == Spec => []CreatedWhenAllowed
<1>1. IInv => CreatedWhenAllowed
  BY DEF IInv
<1> QED
  BY <1>1, Invariance, PTL

\* A proposal of the agent endpoint has its run, or its request broke off.
THEOREM AgentsRecorded == Spec => []AgentHasRun
<1>1. IInv => AgentHasRun
  BY DEF IInv
<1> QED
  BY <1>1, Invariance, PTL

\* An approval that stands has closed the match, is about to, or broke off.
THEOREM ApprovalsSettle == Spec => []ApprovalSettles
<1>1. IInv => ApprovalSettles
  BY DEF IInv
<1> QED
  BY <1>1, Invariance, PTL

-----------------------------------------------------------------------------
(* The match feed.                                                         *)

\* The provider's last word is its only final one, and only a final word names
\* a winner.
Finals == {"finished", "canceled"}
EndsLog ==
  /\ Len(published) > 0
  /\ \A n \in DOMAIN published :
       /\ published[n].status \in Finals => n = Len(published)
       /\ published[n].winner # NoTeam => published[n].status = "finished"

\* What a request says of the end of the match is what the provider says now,
\* however long ago the request was received, or what an administrator said.
Asking == {"upsert", "store", "winner"}
ByHand == {"create", "sync"}
SoundEnd(req) == req.status \in Finals => byHand \/ Ended(req.status)
SoundWinner(req) == req.winner # NoTeam => req.winner = Truth.winner
SoundSlot(i) ==
  \/ i \in renamed \cup named
  \/ i \in DOMAIN shown /\ shown[i] = Truth.winner
SoundTask(t, r) ==
  /\ r.pc \in Asking =>
       /\ Len(r.req.opponents) <= 2
       /\ r.pc # "upsert" \/ t \notin ByHand => SoundEnd(r.req)
       /\ t # "sync" => SoundWinner(r.req)
  /\ r.pc = "store" => r.at <= Len(r.req.opponents) /\ r.at <= Len(shown) + 1
  /\ r.pc = "winner" => r.req.status = "finished"
  /\ r.pc = "resolve" => (byHand \/ Ended("finished")) /\ SoundSlot(r.slot)
SoundTasks == \A t \in Kinds : SoundTask(t, task[t])

\* The stakes at a position that was not renamed are on the team it shows.
StakesKept ==
  \A i \in Positions : i \notin renamed =>
     \A team \in active[i] : i \in DOMAIN shown /\ shown[i] = team

FeedInv ==
  /\ FeedTypeOK /\ EndsLog /\ SoundTasks /\ ClosedByProvider
  /\ StakesKept /\ WinnersBackedWinner

\* What a step does to the facts that tasks and histories rely on.
Kept(i) == i \in DOMAIN shown => \/ i \in renamed'
                                 \/ i \in DOMAIN shown' /\ shown'[i] = shown[i]
FeedAdvances ==
  /\ feed' = feed /\ Len(shown) <= Len(shown')
  /\ Truth' = Truth \/ Truth.status \notin Finals
  /\ byHand => byHand'
  /\ renamed \subseteq renamed' /\ named \subseteq named'
  /\ \A t \in Kinds : task[t].pc = "resolve" => Kept(task[t].slot)

LEMMA TruthLast ==
  ASSUME FeedTypeOK, EndsLog
  PROVE  /\ Len(published) \in DOMAIN published /\ Len(published) \in Nat
         /\ Truth = published[Len(published)] /\ Truth \in Report
         /\ DOMAIN published = 1 .. Len(published)
         /\ Truth.winner # NoTeam => Truth.status = "finished"
<1>1. /\ Len(published) \in DOMAIN published /\ Len(published) \in Nat
      /\ Truth = published[Len(published)]
      /\ DOMAIN published = 1 .. Len(published)
  BY DEF FeedTypeOK, EndsLog, Truth, Last
<1> QED
  BY <1>1 DEF FeedTypeOK, EndsLog

LEMMA TaskFields ==
  ASSUME NEW r \in TaskState
  PROVE  /\ r.pc \in Asking => r.req \in CreateMatchRequest
         /\ r.pc = "store" => r.at \in Positions /\ r.unpooled \in BOOLEAN
         /\ r.pc = "resolve" => r.slot \in Positions
                                /\ r = [pc |-> "resolve", slot |-> r.slot]
BY DEF TaskState, AtRest, Asking

LEMMA RequestFields ==
  ASSUME NEW req \in CreateMatchRequest
  PROVE  /\ req.status \in Statuses /\ req.opponents \in Seq(Teams)
         /\ req.winner \in Teams \cup {NoTeam} /\ req.pool \in BOOLEAN
         /\ Len(req.opponents) \in Nat
         /\ DOMAIN req.opponents = 1 .. Len(req.opponents)
         /\ \A i \in DOMAIN req.opponents : req.opponents[i] \in Teams
BY DEF CreateMatchRequest

LEMMA ReportFields ==
  ASSUME NEW report \in Report
  PROVE  /\ report.status \in Statuses /\ report.lineup \in Lineups
         /\ report.lineup \in [1 .. 2 -> Teams \cup {Tbd}]
         /\ report.winner \in Teams \cup {NoTeam}
BY MatchFeedAssumption DEF Report

LEMMA ShownFields ==
  ASSUME FeedTypeOK
  PROVE  /\ Len(shown) \in Nat /\ DOMAIN shown = 1 .. Len(shown)
         /\ DOMAIN shown \subseteq Positions
         /\ \A i \in DOMAIN shown : shown[i] \in Teams /\ shown[i] # NoTeam
BY MatchFeedAssumption DEF FeedTypeOK, Positions

\* A task that does not move stays sound.
LEMMA FrameTask ==
  ASSUME FeedInv, FeedTypeOK', FeedAdvances, NEW t, NEW r \in TaskState,
         SoundTask(t, r), r.pc = "resolve" => Kept(r.slot)
  PROVE  SoundTask(t, r)'
<1>1. \A status \in Finals : Ended(status) => Ended(status)'
  BY DEF Ended, FeedAdvances
<1>2. Truth.winner # NoTeam => Truth' = Truth
  BY TruthLast DEF FeedInv, FeedAdvances, Finals
<1>3. byHand => byHand'
  BY DEF FeedAdvances
<1>4. ASSUME NEW req
      PROVE  (SoundEnd(req) => SoundEnd(req)') /\ (SoundWinner(req) => SoundWinner(req)')
  BY <1>1, <1>2, <1>3 DEF SoundEnd, SoundWinner
<1>5. ASSUME r.pc = "store"
      PROVE  r.at <= Len(r.req.opponents) /\ r.at <= Len(shown') + 1
  <2>1. r.at \in Nat /\ Len(shown) \in Nat /\ Len(shown') \in Nat
    BY <1>5, TaskFields DEF FeedTypeOK, Positions
  <2> QED
    BY <1>5, <2>1 DEF SoundTask, FeedAdvances
<1>6. ASSUME r.pc = "resolve"
      PROVE  (byHand \/ Ended("finished"))' /\ SoundSlot(r.slot)'
  <2>1. (byHand \/ Ended("finished"))'
    BY <1>1, <1>3, <1>6 DEF SoundTask, Finals
  <2>2. CASE r.slot \in renamed \cup named
    BY <2>1, <2>2 DEF FeedAdvances, SoundSlot
  <2>3. CASE r.slot \in DOMAIN shown /\ shown[r.slot] = Truth.winner
    <3>1. Truth' = Truth
      BY <1>2, <2>3, ShownFields DEF FeedInv
    <3> QED
      BY <1>6, <2>1, <2>3, <3>1 DEF Kept, SoundSlot
  <2> QED
    BY <1>6, <2>1, <2>2, <2>3 DEF SoundTask, SoundSlot
<1> QED
  BY <1>4, <1>5, <1>6 DEF SoundTask

LEMMA NoTaskMoves ==
  ASSUME FeedInv, FeedTypeOK', FeedAdvances, UNCHANGED task
  PROVE  SoundTasks'
<1>1. ASSUME NEW t \in Kinds
      PROVE  SoundTask(t, task[t])'
  <2> DEFINE x == task[t]
  <2>1. x \in TaskState /\ SoundTask(t, x) /\ task'[t] = x
    BY DEF FeedInv, FeedTypeOK, SoundTasks
  <2>2. x.pc = "resolve" => Kept(x.slot)
    BY DEF FeedAdvances
  <2> HIDE DEF x
  <2>3. \A y \in TaskState :
          SoundTask(t, y) /\ (y.pc = "resolve" => Kept(y.slot)) => SoundTask(t, y)'
    BY FrameTask
  <2> QED
    BY <2>1, <2>2, <2>3
<1> QED
  BY <1>1 DEF SoundTasks

\* A step of one task, which becomes r.
LEMMA TaskMoves ==
  ASSUME FeedInv, FeedTypeOK', FeedAdvances, NEW t \in Kinds, NEW r \in TaskState,
         task' = [task EXCEPT ![t] = r], SoundTask(t, r)'
  PROVE  SoundTasks'
<1>1. ASSUME NEW u \in Kinds
      PROVE  SoundTask(u, task[u])'
  <2>1. CASE u = t
    BY <2>1 DEF FeedInv, FeedTypeOK
  <2>2. CASE u # t
    <3> DEFINE x == task[u]
    <3>1. x \in TaskState /\ SoundTask(u, x) /\ task'[u] = x
      BY <2>2 DEF FeedInv, FeedTypeOK, SoundTasks
    <3>2. x.pc = "resolve" => Kept(x.slot)
      BY DEF FeedAdvances
    <3> HIDE DEF x
    <3>3. \A y \in TaskState :
            SoundTask(u, y) /\ (y.pc = "resolve" => Kept(y.slot)) => SoundTask(u, y)'
      BY FrameTask
    <3> QED
      BY <3>1, <3>2, <3>3
  <2> QED
    BY <2>1, <2>2
<1> QED
  BY <1>1 DEF SoundTasks

-----------------------------------------------------------------------------
\* What the parsers make of a report.

LEMMA OpponentsParsed ==
  ASSUME NEW lineup \in [1 .. 2 -> Teams \cup {Tbd}]
  PROVE  /\ opponents_from_value(lineup) \in Seq(Teams)
         /\ Len(opponents_from_value(lineup)) <= 2
<1>1. \A i \in 1 .. 2 : Parsed(lineup[i]) \in Seq(Teams) /\ Len(Parsed(lineup[i])) \in 0 .. 1
  <2> SUFFICES ASSUME NEW i \in 1 .. 2
               PROVE  Parsed(lineup[i]) \in Seq(Teams) /\ Len(Parsed(lineup[i])) \in 0 .. 1
    OBVIOUS
  <2>1. CASE lineup[i] = Tbd
    BY <2>1 DEF Parsed
  <2>2. CASE lineup[i] # Tbd
    <3>1. lineup[i] \in Teams
      BY <2>2
    <3> QED
      BY <2>2, <3>1 DEF Parsed
  <2> QED
    BY <2>1, <2>2
<1> DEFINE s == Parsed(lineup[1])
           t == Parsed(lineup[2])
<1>2. opponents_from_value(lineup) = s \o t
  BY DEF opponents_from_value
<1>3. /\ s \in Seq(Teams) /\ Len(s) \in 0 .. 1
      /\ t \in Seq(Teams) /\ Len(t) \in 0 .. 1
  BY <1>1
<1> HIDE DEF s, t
<1>4. s \o t \in Seq(Teams) /\ Len(s \o t) = Len(s) + Len(t)
  BY <1>3, ConcatProperties
<1> QED
  BY <1>2, <1>3, <1>4

\* REST's words mean what PandaScore's do.
LEMMA WordsAgree ==
  ASSUME NEW status \in Statuses
  PROVE  normalize_status(GridWord[status]) = status
BY DEF Statuses, normalize_status, GridWord

\* Any report makes a request; one that the provider has published makes one
\* that is sound.
LEMMA PandascoreRequest ==
  ASSUME NEW report \in Report
  PROVE  /\ pandascore_match_from_value(report) \in CreateMatchRequest
         /\ Len(pandascore_match_from_value(report).opponents) <= 2
<1>1. /\ opponents_from_value(report.lineup) \in Seq(Teams)
      /\ Len(opponents_from_value(report.lineup)) <= 2
  BY ReportFields, OpponentsParsed
<1> QED
  BY <1>1, ReportFields DEF pandascore_match_from_value, CreateMatchRequest

LEMMA PandascoreSound ==
  ASSUME FeedInv, feed # "graphql", NEW n \in DOMAIN published
  PROVE  /\ published[n] \in Report
         /\ SoundEnd(pandascore_match_from_value(published[n]))
         /\ SoundWinner(pandascore_match_from_value(published[n]))
<1> DEFINE report == published[n]
<1>1. report \in Report
  BY DEF FeedInv, FeedTypeOK
<1>2. /\ report.status \in Finals => report = Truth
      /\ report.winner # NoTeam => report.status = "finished"
  BY TruthLast DEF FeedInv, EndsLog
<1> HIDE DEF report
<1>3. SoundEnd(pandascore_match_from_value(report))
  BY <1>2 DEF pandascore_match_from_value, SoundEnd, Ended
<1>4. SoundWinner(pandascore_match_from_value(report))
  BY <1>2 DEF pandascore_match_from_value, SoundWinner, Finals
<1> QED
  BY <1>1, <1>3, <1>4 DEF report

LEMMA GridSound ==
  ASSUME FeedInv
  PROVE  /\ grid_match_from_value(Truth) \in CreateMatchRequest
         /\ Len(grid_match_from_value(Truth).opponents) <= 2
         /\ SoundEnd(grid_match_from_value(Truth))
         /\ SoundWinner(grid_match_from_value(Truth))
<1>1. Truth \in Report
  BY TruthLast DEF FeedInv
<1>2. /\ opponents_from_value(Truth.lineup) \in Seq(Teams)
      /\ Len(opponents_from_value(Truth.lineup)) <= 2
  BY <1>1, ReportFields, OpponentsParsed
<1>3. derive_status_from_schedule \in {"not_started", "running"}
  BY DEF derive_status_from_schedule
<1>4. normalize_status(GridWord[Truth.status]) = Truth.status /\ Truth.status \in Statuses
  BY <1>1, ReportFields, WordsAgree
<1> DEFINE req == grid_match_from_value(Truth)
<1>5. /\ req.opponents = opponents_from_value(Truth.lineup)
      /\ feed = "graphql" => req.status \in {"not_started", "running"} /\ req.winner = NoTeam
      /\ feed # "graphql" => req.status = Truth.status /\ req.winner = Truth.winner
  BY <1>3, <1>4 DEF grid_match_from_value
<1>6. req \in CreateMatchRequest
  BY <1>1, <1>2, <1>3, <1>4, ReportFields
  DEF grid_match_from_value, CreateMatchRequest, Statuses
<1> HIDE DEF req
<1>7. SoundEnd(req) /\ SoundWinner(req)
  BY <1>5 DEF SoundEnd, SoundWinner, Ended, Finals
<1> QED
  BY <1>2, <1>5, <1>6, <1>7 DEF req

LEMMA EnteredRequest ==
  ASSUME NEW lineup \in Lineups, Ready(lineup), NEW status \in Statuses,
         NEW registered \in BOOLEAN, NEW req,
         req = [status |-> status, opponents |-> lineup, winner |-> NoTeam,
                pool |-> registered]
  PROVE  req \in CreateMatchRequest /\ Len(req.opponents) <= 2 /\ SoundWinner(req)
<1>1. lineup \in [1 .. 2 -> Teams \cup {Tbd}]
  BY MatchFeedAssumption
<1>2. Tbd \notin {lineup[i] : i \in DOMAIN lineup}
  BY DEF Ready, Range
<1>3. lineup \in [1 .. 2 -> Teams]
  BY <1>1, <1>2
<1>4. lineup \in Seq(Teams) /\ Len(lineup) = 2
  <2>1. \A n \in Nat : \A f \in [1 .. n -> Teams] : f \in Seq(Teams) /\ Len(f) = n
    OBVIOUS
  <2> QED
    BY <1>3, <2>1
<1>5. req \in CreateMatchRequest /\ req.opponents = lineup /\ req.winner = NoTeam
  BY <1>4 DEF CreateMatchRequest
<1>6. Len(req.opponents) <= 2
  <2>1. \A n : n = 2 => n <= 2
    OBVIOUS
  <2> QED
    BY <1>4, <1>5, <2>1, Zenon
<1> QED
  BY <1>5, <1>6, Zenon DEF SoundWinner

-----------------------------------------------------------------------------
\* The steps.

LEMMA InitFeedInv == FeedInit => FeedInv
<1> SUFFICES ASSUME FeedInit
             PROVE  FeedInv
  OBVIOUS
<1>1. PICK lineup \in setting.lineups :
        published = <<[status |-> "not_started", lineup |-> lineup, winner |-> NoTeam]>>
  BY DEF FeedInit
<1>2. lineup \in Lineups
  BY <1>1, MatchFeedAssumption DEF FeedInit
<1> DEFINE first == [status |-> "not_started", lineup |-> lineup, winner |-> NoTeam]
<1>3. first \in Report
  BY <1>2 DEF Report, Statuses
<1>4. published = <<first>> /\ first.status = "not_started" /\ first.winner = NoTeam
  BY <1>1
<1> HIDE DEF first
<1>5. /\ published \in Seq(Report) /\ Len(published) = 1 /\ DOMAIN published = 1 .. 1
      /\ published[1] = first
  BY <1>3, <1>4
<1>6. FeedTypeOK
  <2>1. clock \in 0 .. Stale /\ setting \in Settings
    BY DEF FeedInit, Stale
  <2>2. shown \in Seq(Teams) /\ Len(shown) <= 2
    BY DEF FeedInit
  <2>3. won \subseteq [slot : Positions, team : Teams]
    BY DEF FeedInit
  <2>4. active \in [Positions -> SUBSET Teams] /\ task \in [Kinds -> TaskState]
    BY DEF FeedInit, TaskState
  <2>5. /\ matchStatus = "none" /\ pool \in BOOLEAN /\ byHand \in BOOLEAN
        /\ renamed \subseteq Positions /\ named \subseteq Positions
    BY DEF FeedInit
  <2> QED
    BY <1>5, <2>1, <2>2, <2>3, <2>4, <2>5 DEF FeedTypeOK
<1>7. EndsLog
  BY <1>4, <1>5 DEF EndsLog
<1>8. SoundTasks
  BY DEF FeedInit, SoundTasks, SoundTask, AtRest, Asking
<1>9. ClosedByProvider /\ StakesKept /\ WinnersBackedWinner
  BY DEF FeedInit, ClosedByProvider, Settled, StakesKept, WinnersBackedWinner
<1> QED
  BY <1>6, <1>7, <1>8, <1>9 DEF FeedInv

\* A step that leaves the log, the opponents and what is excused alone, or adds
\* to it.
LEMMA Stays ==
  ASSUME FeedInv, UNCHANGED <<setting, published, shown>>, byHand => byHand',
         renamed' = renamed, named \subseteq named'
  PROVE  EndsLog' /\ Truth' = Truth /\ feed' = feed /\ FeedAdvances
<1>1. EndsLog' /\ Truth' = Truth /\ feed' = feed
  BY DEF FeedInv, EndsLog, Truth, feed
<1>2. Len(shown) \in Nat
  BY ShownFields DEF FeedInv
<1> QED
  BY <1>1, <1>2 DEF FeedAdvances, Kept

\* Whoever was paid is still excused or still backed the winner.
LEMMA WonStays ==
  ASSUME FeedInv, FeedAdvances, won' = won
  PROVE  WinnersBackedWinner'
<1> SUFFICES ASSUME NEW paid \in won
             PROVE  paid.team = Truth'.winner \/ paid.slot \in renamed' \cup named'
  BY DEF WinnersBackedWinner
<1>1. paid.team = Truth.winner \/ paid.slot \in renamed \cup named
  BY DEF FeedInv, WinnersBackedWinner
<1>2. CASE paid.slot \in renamed \cup named
  BY <1>2 DEF FeedAdvances
<1>3. CASE paid.team = Truth.winner
  <2>1. paid.team \in Teams
    BY DEF FeedInv, FeedTypeOK
  <2>2. Truth.winner # NoTeam
    BY <1>3, <2>1, MatchFeedAssumption
  <2>3. Truth' = Truth
    BY <2>2, TruthLast DEF FeedInv, FeedAdvances, Finals
  <2> QED
    BY <1>3, <2>3
<1> QED
  BY <1>1, <1>2, <1>3

\* A step of one task that leaves the row and the money alone.
LEMMA OneTaskMoves ==
  ASSUME FeedInv, UNCHANGED <<setting, clock, published, row, money, renamed, byHand>>,
         named \subseteq named', named' \subseteq Positions,
         NEW t \in Kinds, NEW r \in TaskState, Proceed(t, r), SoundTask(t, r)'
  PROVE  FeedInv'
<1>1. task' = [task EXCEPT ![t] = r]
  BY DEF Proceed
<1>2. task' \in [Kinds -> TaskState]
  BY <1>1 DEF FeedInv, FeedTypeOK
<1>3. UNCHANGED <<matchStatus, shown, pool, active, won>>
  BY DEF row, money
<1>4. FeedTypeOK'
  BY <1>2, <1>3 DEF FeedInv, FeedTypeOK
<1>5. EndsLog' /\ Truth' = Truth /\ feed' = feed /\ FeedAdvances
  BY <1>3, Stays
<1>6. SoundTasks'
  BY <1>1, <1>4, <1>5, TaskMoves
<1>7. ClosedByProvider' /\ StakesKept' /\ WinnersBackedWinner'
  BY <1>3, <1>5, WonStays DEF FeedInv, ClosedByProvider, StakesKept, Ended
<1> QED
  BY <1>4, <1>5, <1>6, <1>7 DEF FeedInv

LEMMA RestIsSound == AtRest \in TaskState /\ \A t : SoundTask(t, AtRest)'
BY DEF TaskState, SoundTask, AtRest, Asking

LEMMA BeginKeepsFeedInv ==
  ASSUME FeedInv, NEW t \in Kinds, NEW req \in CreateMatchRequest,
         Len(req.opponents) <= 2, t \in ByHand \/ SoundEnd(req),
         t = "sync" \/ SoundWinner(req), Begin(t, req)
  PROVE  FeedInv'
<1> DEFINE r == [pc |-> "upsert", req |-> req]
<1>1. r \in TaskState
  BY DEF TaskState
<1>2. r.pc = "upsert" /\ r.req = req
  OBVIOUS
<1>3. Proceed(t, r)
      /\ UNCHANGED <<setting, clock, published, row, money, renamed, named, byHand>>
  BY DEF Begin, hands
<1> HIDE DEF r
<1>4. Truth' = Truth /\ feed' = feed
  BY <1>3 DEF Truth, feed
<1>5. SoundTask(t, r)'
  <2>1. (SoundEnd(req) => SoundEnd(req)') /\ (SoundWinner(req) => SoundWinner(req)')
    BY <1>3, <1>4 DEF SoundEnd, SoundWinner, Ended
  <2> QED
    BY <1>2, <2>1 DEF SoundTask
<1>6. named' \subseteq Positions
  BY <1>3 DEF FeedInv, FeedTypeOK
<1> QED
  BY <1>1, <1>3, <1>5, <1>6, OneTaskMoves

LEMMA FetchKeepsFeedInv ==
  ASSUME FeedInv, NEW t \in {"scheduler", "poller"}, NEW page, Fetch(t, page)
  PROVE  FeedInv'
<1>1. Len(published) \in DOMAIN published /\ Truth = published[Len(published)]
  BY TruthLast DEF FeedInv
<1>2. feed # "graphql" /\ Begin(t, pandascore_match_from_value(Truth))
  BY DEF Fetch
<1> DEFINE req == pandascore_match_from_value(Truth)
<1>3. /\ req \in CreateMatchRequest /\ Len(req.opponents) <= 2
      /\ SoundEnd(req) /\ SoundWinner(req)
  BY <1>1, <1>2, PandascoreSound, PandascoreRequest
<1>4. t \in Kinds
  BY DEF Kinds
<1> HIDE DEF req
<1> QED
  BY <1>2, <1>3, <1>4, BeginKeepsFeedInv DEF req

LEMMA WebhookKeepsFeedInv ==
  ASSUME FeedInv, NEW n \in DOMAIN published, ReceiveWebhook(n)
  PROVE  FeedInv'
<1> DEFINE req == pandascore_match_from_value(published[n])
<1>1. feed # "graphql" /\ Begin("webhook", req)
  BY DEF ReceiveWebhook
<1>2. /\ req \in CreateMatchRequest /\ Len(req.opponents) <= 2
      /\ SoundEnd(req) /\ SoundWinner(req)
  BY <1>1, PandascoreSound, PandascoreRequest
<1>3. "webhook" \in Kinds
  BY DEF Kinds
<1> HIDE DEF req
<1> QED
  BY <1>1, <1>2, <1>3, BeginKeepsFeedInv

LEMMA SyncsKeepFeedInv ==
  ASSUME FeedInv,
         \/ \E report \in Report : SyncTournament(report)
         \/ \E statuses \in StatusFilters, page \in 1 .. LastPage : SyncGrid(statuses, page)
         \/ \E status \in Statuses, lineup \in Lineups, registered \in BOOLEAN :
              CreateTournament(status, lineup, registered)
  PROVE  FeedInv'
<1> USE DEF Kinds
<1>1. ASSUME NEW report \in Report, SyncTournament(report)
      PROVE  FeedInv'
  <2> DEFINE req == pandascore_match_from_value(report)
  <2>1. Begin("sync", req)
    BY <1>1 DEF SyncTournament
  <2>2. req \in CreateMatchRequest /\ Len(req.opponents) <= 2
    BY PandascoreRequest
  <2> HIDE DEF req
  <2> QED
    BY <2>1, <2>2, BeginKeepsFeedInv DEF ByHand
<1>2. ASSUME NEW statuses \in StatusFilters, NEW page \in 1 .. LastPage,
             SyncGrid(statuses, page)
      PROVE  FeedInv'
  BY <1>2, GridSound, BeginKeepsFeedInv DEF SyncGrid
<1>3. ASSUME NEW status \in Statuses, NEW lineup \in Lineups, NEW registered \in BOOLEAN,
             CreateTournament(status, lineup, registered)
      PROVE  FeedInv'
  <2> DEFINE req == [status |-> status, opponents |-> lineup, winner |-> NoTeam,
                     pool |-> registered]
  <2>1. Ready(lineup) /\ Begin("create", req)
    BY <1>3 DEF CreateTournament
  <2> HIDE DEF req
  <2>2. req \in CreateMatchRequest /\ Len(req.opponents) <= 2 /\ SoundWinner(req)
    BY <2>1, EnteredRequest DEF req
  <2> QED
    BY <2>1, <2>2, BeginKeepsFeedInv DEF ByHand
<1> QED
  BY <1>1, <1>2, <1>3

LEMMA PublishKeepsFeedInv ==
  ASSUME FeedInv, NEW report \in Report, Publish(report)
  PROVE  FeedInv'
<1>1. /\ published' = Append(published, report)
      /\ UNCHANGED <<setting, clock, matchStatus, shown, pool, active, won, renamed,
                     named, byHand, task>>
      /\ <<Truth.status, report.status>> \in Progress
      /\ report.winner # NoTeam => report.status = "finished"
  BY DEF Publish, Sensible, row, money, hands
<1>2. /\ published \in Seq(Report) /\ Len(published) \in DOMAIN published
      /\ Len(published) \in Nat /\ Truth = published[Len(published)]
      /\ DOMAIN published = 1 .. Len(published)
  BY TruthLast DEF FeedInv, FeedTypeOK
<1>3. /\ published' \in Seq(Report) /\ Len(published') = Len(published) + 1
      /\ DOMAIN published' = 1 .. Len(published) + 1
      /\ \A n \in DOMAIN published : published'[n] = published[n]
      /\ published'[Len(published) + 1] = report
  BY <1>1, <1>2
<1>4. Truth.status \notin Finals
  BY <1>1 DEF Progress, Finals
<1>5. EndsLog'
  <2>1. \A n \in DOMAIN published : published[n].status \notin Finals
    BY <1>2, <1>4 DEF FeedInv, EndsLog
  <2> SUFFICES ASSUME NEW n \in DOMAIN published'
               PROVE  /\ published'[n].status \in Finals => n = Len(published')
                      /\ published'[n].winner # NoTeam => published'[n].status = "finished"
    BY <1>2, <1>3 DEF EndsLog
  <2>2. CASE n \in DOMAIN published
    BY <1>3, <2>1, <2>2 DEF FeedInv, EndsLog
  <2>3. CASE n = Len(published) + 1
    BY <1>1, <1>3, <2>3
  <2> QED
    BY <1>2, <1>3, <2>2, <2>3
<1>6. FeedTypeOK'
  BY <1>1, <1>3 DEF FeedInv, FeedTypeOK
<1>7. FeedAdvances
  <2>1. Len(shown) \in Nat
    BY ShownFields DEF FeedInv
  <2> QED
    BY <1>1, <1>4, <2>1 DEF FeedAdvances, Kept, feed
<1>8. SoundTasks'
  BY <1>1, <1>6, <1>7, NoTaskMoves
<1>9. ClosedByProvider'
  <2>1. byHand \/ matchStatus \notin Settled \cup {"cancelled"}
    BY <1>4 DEF FeedInv, ClosedByProvider, Ended, Finals
  <2> QED
    BY <1>1, <2>1 DEF ClosedByProvider, Settled
<1>10. StakesKept' /\ WinnersBackedWinner'
  BY <1>1, <1>7, WonStays DEF FeedInv, StakesKept
<1> QED
  BY <1>5, <1>6, <1>8, <1>9, <1>10 DEF FeedInv

\* Time, a stake, a scheduled backfill: the log and the tasks are as they were.
LEMMA QuietKeepsFeedInv ==
  ASSUME FeedInv,
         \/ Tick
         \/ \E i \in Positions : PlaceStake(i) \/ SyncStakes(i)
         \/ ScheduledBackfill
  PROVE  FeedInv'
<1>1. /\ UNCHANGED <<setting, published, matchStatus, shown, won, renamed, named,
                     byHand, task>>
      /\ clock' \in {clock, clock + 1} /\ clock' \in 0 .. Stale
      /\ pool' \in {pool, TRUE}
  <2>1. clock \in 0 .. Stale
    BY DEF FeedInv, FeedTypeOK
  <2>2. CASE Tick
    BY <2>1, <2>2 DEF Tick, row, money, hands, Stale
  <2>3. ASSUME NEW i \in Positions, AddStake(i)
        PROVE  UNCHANGED <<setting, clock, published, matchStatus, shown, pool, won,
                           renamed, named, byHand, task>>
    BY <2>3 DEF AddStake, row, hands
  <2>4. CASE ScheduledBackfill
    BY <2>1, <2>4 DEF ScheduledBackfill, row, hands
  <2> QED
    BY <2>1, <2>2, <2>3, <2>4 DEF PlaceStake, SyncStakes
<1>2. /\ active' \in [Positions -> SUBSET Teams]
      /\ \A i \in Positions : \A team \in active'[i] :
            team \in active[i] \/ (i \in DOMAIN shown /\ team = shown[i])
  <2>1. CASE active' = active
    BY <2>1 DEF FeedInv, FeedTypeOK
  <2>2. ASSUME NEW i \in Positions, AddStake(i)
        PROVE  /\ active' \in [Positions -> SUBSET Teams]
               /\ \A j \in Positions : \A team \in active'[j] :
                     team \in active[j] \/ (j \in DOMAIN shown /\ team = shown[j])
    <3>1. shown[i] \in Teams /\ active \in [Positions -> SUBSET Teams] /\ i \in DOMAIN shown
      BY <2>2, ShownFields DEF AddStake, FeedInv, FeedTypeOK
    <3>2. active' = [active EXCEPT ![i] = @ \cup {shown[i]}]
      BY <2>2 DEF AddStake
    <3> QED
      BY <3>1, <3>2
  <2> QED
    BY <2>1, <2>2 DEF Tick, PlaceStake, SyncStakes, ScheduledBackfill, money
<1>3. EndsLog' /\ Truth' = Truth /\ feed' = feed /\ FeedAdvances
  BY <1>1, Stays
<1>4. FeedTypeOK'
  BY <1>1, <1>2 DEF FeedInv, FeedTypeOK
<1>5. SoundTasks'
  BY <1>1, <1>3, <1>4, NoTaskMoves
<1>6. StakesKept'
  BY <1>1, <1>2 DEF FeedInv, StakesKept
<1>7. ClosedByProvider' /\ WinnersBackedWinner'
  BY <1>1, <1>3, WonStays DEF FeedInv, ClosedByProvider, Ended
<1> QED
  BY <1>3, <1>4, <1>5, <1>6, <1>7 DEF FeedInv

\* What follows the upsert: nothing, or the settlement of a finished match.
LEMMA AfterUpsertIs ==
  ASSUME FeedInv, NEW t \in Kinds, task[t].pc \in {"upsert", "store"}, NEW unpooled,
         NEW r, r = AfterUpsert(t, unpooled)
  PROVE  /\ r \in TaskState
         /\ \/ r.pc \in {"backfill", "idle"}
            \/ r.pc = "winner" /\ r.req = task[t].req /\ r.req.status = "finished"
<1> DEFINE req == task[t].req
<1>1. req \in CreateMatchRequest
  BY TaskFields DEF FeedInv, FeedTypeOK, Asking
<1>2. CASE r = [pc |-> "winner", req |-> req] /\ req.status = "finished"
  BY <1>1, <1>2 DEF TaskState
<1>3. CASE r \in {[pc |-> "backfill"], AtRest}
  BY <1>3 DEF TaskState, AtRest
<1> QED
  BY <1>2, <1>3 DEF AfterUpsert

LEMMA AfterUpsertSound ==
  ASSUME NEW t, NEW r, NEW req, Len(req.opponents) <= 2,
         SoundEnd(req)', t # "sync" => SoundWinner(req)',
         \/ r.pc \in {"backfill", "idle"}
         \/ r.pc = "winner" /\ r.req = req /\ r.req.status = "finished"
  PROVE  SoundTask(t, r)'
BY DEF SoundTask, Asking

LEMMA UpsertKeepsFeedInv ==
  ASSUME FeedInv, NEW t \in Kinds, UpsertMatch(t)
  PROVE  FeedInv'
<1> DEFINE x == task[t]
<1>1. /\ x.pc = "upsert" /\ matchStatus' = UpsertedStatus(x.req.status)
      /\ pool' = (pool \/ x.req.pool)
      /\ byHand' = (byHand \/ (/\ t \in {"create", "sync"}
                               /\ x.req.status \in {"finished", "canceled"}
                               /\ ~Ended(x.req.status)))
      /\ UNCHANGED <<setting, clock, published, shown, active, won, renamed, named>>
  BY DEF UpsertMatch, At
<1>2. x \in TaskState /\ SoundTask(t, x)
  BY DEF FeedInv, FeedTypeOK, SoundTasks
<1>3. x.req \in CreateMatchRequest /\ Len(x.req.opponents) <= 2
  BY <1>1, <1>2, TaskFields DEF SoundTask, Asking
<1>4. PICK req : req = x.req
  OBVIOUS
<1>5. /\ EndsLog' /\ Truth' = Truth /\ feed' = feed /\ FeedAdvances
      /\ byHand' \in BOOLEAN
  <2>1. byHand' \in BOOLEAN /\ (byHand => byHand')
    BY <1>1, Zenon
  <2> QED
    BY <1>1, <2>1, Stays
<1>6. SoundEnd(req)'
  <2>1. CASE t \in ByHand
    <3>1. req.status \in Finals => byHand' \/ Ended(req.status)
      BY <1>1, <1>4, <2>1, Zenon DEF ByHand, Finals
    <3> QED
      BY <1>5, <3>1 DEF SoundEnd, Ended
  <2>2. CASE t \notin ByHand
    <3>1. SoundEnd(req)
      BY <1>1, <1>2, <1>4, <2>2 DEF SoundTask, Asking
    <3> QED
      BY <1>5, <3>1 DEF SoundEnd, Ended, FeedAdvances
  <2> QED
    BY <2>1, <2>2
<1>7. t # "sync" => SoundWinner(req)'
  BY <1>1, <1>2, <1>4, <1>5 DEF SoundTask, Asking, SoundWinner
<1>8. PICK r \in TaskState : task' = [task EXCEPT ![t] = r] /\ SoundTask(t, r)'
  <2>1. PICK unpooled \in BOOLEAN : unpooled = ~pool'
    OBVIOUS
  <2>2. PICK first : first = [pc |-> "store", req |-> x.req, at |-> 1, unpooled |-> unpooled]
    OBVIOUS
  <2>3. PICK next : next = AfterUpsert(t, unpooled)
    OBVIOUS
  <2>4. task' = [task EXCEPT ![t] = IF x.req.opponents = <<>> THEN next ELSE first]
    BY <2>1, <2>2, <2>3 DEF UpsertMatch, Proceed
  <2>5. CASE x.req.opponents = <<>>
    <3>1. /\ next \in TaskState
          /\ \/ next.pc \in {"backfill", "idle"}
             \/ next.pc = "winner" /\ next.req = req /\ next.req.status = "finished"
      BY <1>1, <1>4, <2>3, AfterUpsertIs
    <3>2. SoundTask(t, next)'
      BY <1>3, <1>4, <1>6, <1>7, <3>1, AfterUpsertSound
    <3> QED
      BY <2>4, <2>5, <3>1, <3>2
  <2>6. CASE x.req.opponents # <<>>
    <3>1. Len(req.opponents) >= 1 /\ Len(shown) \in Nat
      BY <1>3, <1>4, <2>6, RequestFields, ShownFields DEF FeedInv
    <3>2. first \in TaskState
      BY <1>3, <2>2 DEF TaskState, Positions
    <3>3. first.pc = "store" /\ first.req = req /\ first.at = 1
      BY <1>4, <2>2
    <3>4. SoundTask(t, first)'
      BY <1>1, <1>3, <1>4, <1>6, <1>7, <3>1, <3>3 DEF SoundTask
    <3> QED
      BY <2>4, <2>6, <3>2, <3>4
  <2> QED
    BY <2>5, <2>6
<1>9. /\ matchStatus' \in OpenStatuses \cup Settled \cup {"none", "cancelled"}
      /\ ClosedByProvider'
  <2>1. CASE matchStatus \in {"completed", "cancelled"}
    <3>1. matchStatus' = matchStatus
      BY <1>1, <2>1 DEF UpsertedStatus
    <3> QED
      BY <1>5, <3>1 DEF ClosedByProvider, Ended, FeedInv, FeedTypeOK, FeedAdvances
  <2>2. CASE matchStatus \notin {"completed", "cancelled"}
    <3>1. matchStatus' = InternalStatus(req.status)
      BY <1>1, <1>4, <2>2 DEF UpsertedStatus
    <3>2. /\ matchStatus' \in {"live", "completed", "cancelled", "upcoming"}
          /\ matchStatus' = "completed" => req.status = "finished"
          /\ matchStatus' = "cancelled" => req.status = "canceled"
      BY <3>1 DEF InternalStatus
    <3> QED
      BY <1>6, <3>2 DEF ClosedByProvider, Settled, OpenStatuses, SoundEnd, Finals
  <2> QED
    BY <2>1, <2>2
<1>10. FeedTypeOK'
  <2>1. task' \in [Kinds -> TaskState]
    BY <1>8 DEF FeedInv, FeedTypeOK
  <2>2. pool' \in BOOLEAN
    BY <1>1, <1>3, RequestFields, Zenon DEF FeedInv, FeedTypeOK
  <2> QED
    BY <1>1, <1>5, <1>9, <2>1, <2>2 DEF FeedInv, FeedTypeOK
<1>11. SoundTasks'
  BY <1>5, <1>8, <1>10, TaskMoves
<1>12. StakesKept' /\ WinnersBackedWinner'
  BY <1>1, <1>5, WonStays DEF FeedInv, StakesKept
<1> QED
  BY <1>5, <1>9, <1>10, <1>11, <1>12 DEF FeedInv

\* An opponent's row is replaced or is the next one.
LEMMA OpponentStored ==
  ASSUME FeedTypeOK, NEW i \in Positions, i <= Len(shown) + 1, NEW team \in Teams,
         shown' = UpsertedOpponents(i, team)
  PROVE  /\ shown' \in Seq(Teams) /\ Len(shown') <= 2
         /\ Len(shown) <= Len(shown') /\ i <= Len(shown')
         /\ Len(shown) \in Nat /\ Len(shown') \in Nat
         /\ DOMAIN shown = 1 .. Len(shown) /\ DOMAIN shown' = 1 .. Len(shown')
         /\ DOMAIN shown' = DOMAIN shown \cup {i}
         /\ shown'[i] = team /\ \A j \in DOMAIN shown : j # i => shown'[j] = shown[j]
<1>1. shown \in Seq(Teams) /\ Len(shown) \in Nat /\ DOMAIN shown = 1 .. Len(shown)
      /\ Len(shown) <= 2
  BY DEF FeedTypeOK
<1>2. CASE i <= Len(shown)
  <2>1. shown' = [shown EXCEPT ![i] = team]
    BY <1>2 DEF UpsertedOpponents
  <2> QED
    BY <1>1, <1>2, <2>1 DEF Positions
<1>3. CASE i = Len(shown) + 1
  <2>0. ~(i <= Len(shown))
    BY <1>1, <1>3
  <2>1. shown' = Append(shown, team)
    BY <2>0, Zenon DEF UpsertedOpponents
  <2>2. /\ shown' \in Seq(Teams) /\ Len(shown') = Len(shown) + 1
        /\ \A j \in 1 .. Len(shown) : shown'[j] = shown[j]
        /\ shown'[Len(shown) + 1] = team
    BY <1>1, <2>1
  <2>3. DOMAIN shown' = 1 .. Len(shown) + 1
    BY <2>2
  <2>4. shown'[i] = team /\ DOMAIN shown' = DOMAIN shown \cup {i}
    <3>1. \A n \in Nat : 1 .. n + 1 = (1 .. n) \cup {n + 1}
      OBVIOUS
    <3> QED
      BY <1>1, <1>3, <2>2, <2>3, <3>1
  <2>5. \A j \in DOMAIN shown : j # i => shown'[j] = shown[j]
    BY <1>1, <2>2
  <2>6. i <= 2
    BY DEF Positions
  <2> QED
    BY <1>1, <1>3, <2>2, <2>3, <2>4, <2>5, <2>6
<1> QED
  BY <1>1, <1>2, <1>3 DEF Positions

\* What a statement that stores an opponent does to the rows, and to the
\* histories that excuse a renamed one.
LEMMA StoreMoves ==
  ASSUME FeedInv, NEW t \in Kinds, StoreOpponent(t)
  PROVE  /\ UNCHANGED <<setting, clock, published, matchStatus, pool, active, won, named, byHand>>
         /\ shown' \in Seq(Teams) /\ Len(shown') <= 2 /\ Len(shown') \in Nat
         /\ Len(shown) <= Len(shown') /\ task[t].at <= Len(shown')
         /\ renamed \subseteq renamed' /\ renamed' \subseteq Positions
         /\ \A i \in Positions :
              (active[i] # {} \/ \E u \in Kinds : task[u] = [pc |-> "resolve", slot |-> i])
                => Kept(i)
<1> DEFINE x == task[t]
<1>1. x.pc = "store" /\ x \in TaskState /\ SoundTask(t, x)
  BY DEF StoreOpponent, At, FeedInv, FeedTypeOK, SoundTasks
<1>2. /\ x.req \in CreateMatchRequest /\ x.at \in Positions
      /\ x.at <= Len(x.req.opponents) /\ x.at <= Len(shown) + 1
  BY <1>1, TaskFields DEF SoundTask, Asking
<1>3. PICK at \in Positions, team \in Teams :
        /\ at = x.at /\ team = x.req.opponents[x.at]
  <2>1. x.req.opponents[x.at] \in Teams
    BY <1>2, RequestFields DEF Positions
  <2> QED
    BY <1>2, <2>1
<1> DEFINE chosen(i) == \E u \in Kinds : task[u] = [pc |-> "resolve", slot |-> i]
<1>4. /\ shown' = UpsertedOpponents(at, team) /\ at <= Len(shown) + 1
      /\ renamed' = IF (at \in DOMAIN shown /\ shown[at] # team)
                       /\ (chosen(at) \/ active[at] # {})
                    THEN renamed \cup {at} ELSE renamed
      /\ UNCHANGED <<setting, clock, published, matchStatus, pool, active, won, named, byHand>>
  BY <1>2, <1>3 DEF StoreOpponent, money
<1> HIDE DEF x, chosen
<1>5. /\ shown' \in Seq(Teams) /\ Len(shown') <= 2 /\ Len(shown') \in Nat
      /\ Len(shown) <= Len(shown') /\ at <= Len(shown')
      /\ DOMAIN shown' = DOMAIN shown \cup {at}
      /\ shown'[at] = team /\ \A j \in DOMAIN shown : j # at => shown'[j] = shown[j]
  BY <1>4, OpponentStored DEF FeedInv
<1>6. renamed \subseteq renamed' /\ renamed' \subseteq Positions
  BY <1>4 DEF FeedInv, FeedTypeOK
<1>7. ASSUME NEW i \in Positions, active[i] # {} \/ chosen(i)
      PROVE  Kept(i)
  <2>1. CASE i # at
    BY <1>5, <2>1 DEF Kept
  <2>2. CASE i = at /\ (i \in DOMAIN shown => shown[i] = team)
    BY <1>5, <2>2 DEF Kept
  <2>3. CASE i = at /\ i \in DOMAIN shown /\ shown[i] # team
    BY <1>4, <1>7, <2>3 DEF Kept
  <2> QED
    BY <2>1, <2>2, <2>3
<1>8. task[t].at <= Len(shown')
  BY <1>3, <1>5 DEF x
<1> QED
  BY <1>4, <1>5, <1>6, <1>7, <1>8 DEF chosen

LEMMA StoreKeepsFeedInv ==
  ASSUME FeedInv, NEW t \in Kinds, StoreOpponent(t)
  PROVE  FeedInv'
<1> DEFINE x == task[t]
<1>1. /\ UNCHANGED <<setting, clock, published, matchStatus, pool, active, won, named, byHand>>
      /\ shown' \in Seq(Teams) /\ Len(shown') <= 2 /\ Len(shown') \in Nat
      /\ Len(shown) <= Len(shown') /\ x.at <= Len(shown')
      /\ renamed \subseteq renamed' /\ renamed' \subseteq Positions
      /\ \A i \in Positions :
           (active[i] # {} \/ \E u \in Kinds : task[u] = [pc |-> "resolve", slot |-> i])
             => Kept(i)
  BY StoreMoves
<1>2. x.pc = "store" /\ x \in TaskState /\ SoundTask(t, x)
  BY DEF StoreOpponent, At, FeedInv, FeedTypeOK, SoundTasks
<1>3. PICK req : req = x.req
  OBVIOUS
<1>4. /\ req \in CreateMatchRequest /\ Len(req.opponents) \in Nat /\ Len(req.opponents) <= 2
      /\ x.at \in Positions /\ x.at <= Len(req.opponents)
      /\ SoundEnd(req) /\ (t # "sync" => SoundWinner(req))
  BY <1>2, <1>3, TaskFields, RequestFields DEF SoundTask, Asking
<1>5. EndsLog' /\ Truth' = Truth /\ feed' = feed
  BY <1>1 DEF FeedInv, EndsLog, Truth, feed
<1>6. FeedAdvances
  <2>1. ASSUME NEW u \in Kinds, task[u].pc = "resolve"
        PROVE  Kept(task[u].slot)
    <3>1. /\ task[u].slot \in Positions
          /\ task[u] = [pc |-> "resolve", slot |-> task[u].slot]
      BY <2>1, TaskFields DEF FeedInv, FeedTypeOK
    <3> QED
      BY <1>1, <3>1
  <2> QED
    BY <1>1, <1>5, <2>1 DEF FeedAdvances
<1>7. SoundEnd(req)' /\ (t # "sync" => SoundWinner(req)')
  BY <1>1, <1>4, <1>5 DEF SoundEnd, SoundWinner, Ended
<1>8. PICK r \in TaskState : task' = [task EXCEPT ![t] = r] /\ SoundTask(t, r)'
  <2>1. CASE x.at = Len(x.req.opponents)
    <3>1. PICK next : next = AfterUpsert(t, x.unpooled)
      OBVIOUS
    <3>2. task' = [task EXCEPT ![t] = next]
      BY <2>1, <3>1 DEF StoreOpponent, Proceed
    <3>3. /\ next \in TaskState
          /\ \/ next.pc \in {"backfill", "idle"}
             \/ next.pc = "winner" /\ next.req = req /\ next.req.status = "finished"
      BY <1>2, <1>3, <3>1, AfterUpsertIs
    <3>4. SoundTask(t, next)'
      BY <1>4, <1>7, <3>3, AfterUpsertSound
    <3> QED
      BY <3>2, <3>3, <3>4
  <2>2. CASE x.at # Len(x.req.opponents)
    <3>1. PICK next : next = [x EXCEPT !.at = 2]
      OBVIOUS
    <3>2. task' = [task EXCEPT ![t] = next]
      BY <2>2, <3>1 DEF StoreOpponent, Proceed
    <3>3. next \in TaskState /\ next.pc = "store" /\ next.req = req /\ next.at = 2
      BY <1>2, <1>3, <3>1 DEF TaskState, Positions, AtRest
    <3>4. 2 <= Len(req.opponents) /\ 2 <= Len(shown') + 1
      BY <1>1, <1>3, <1>4, <2>2 DEF Positions
    <3>5. SoundTask(t, next)'
      BY <1>4, <1>7, <3>3, <3>4 DEF SoundTask
    <3> QED
      BY <3>2, <3>3, <3>5
  <2> QED
    BY <2>1, <2>2
<1>9. FeedTypeOK'
  <2>1. task' \in [Kinds -> TaskState]
    BY <1>8 DEF FeedInv, FeedTypeOK
  <2> QED
    BY <1>1, <2>1 DEF FeedInv, FeedTypeOK
<1>10. SoundTasks'
  BY <1>6, <1>8, <1>9, TaskMoves
<1>11. StakesKept'
  <2> SUFFICES ASSUME NEW i \in Positions, i \notin renamed', NEW team \in active[i]
               PROVE  i \in DOMAIN shown' /\ shown'[i] = team
    BY <1>1 DEF StakesKept
  <2>1. i \in DOMAIN shown /\ shown[i] = team
    BY <1>1 DEF FeedInv, StakesKept
  <2>2. Kept(i)
    BY <1>1
  <2> QED
    BY <2>1, <2>2 DEF Kept
<1>12. ClosedByProvider' /\ WinnersBackedWinner'
  BY <1>1, <1>5, <1>6, WonStays DEF FeedInv, ClosedByProvider, Ended
<1> QED
  BY <1>5, <1>9, <1>10, <1>11, <1>12 DEF FeedInv

LEMMA FindWinnerKeepsFeedInv ==
  ASSUME FeedInv, NEW t \in Kinds, FindWinner(t)
  PROVE  FeedInv'
<1> DEFINE x == task[t]
<1>1. /\ x.pc = "winner"
      /\ UNCHANGED <<setting, clock, published, row, money, renamed, byHand>>
  BY DEF FindWinner, At
<1>2. /\ x.req.status = "finished" /\ SoundEnd(x.req)
      /\ t # "sync" => SoundWinner(x.req)
  BY <1>1 DEF FeedInv, SoundTasks, SoundTask, Asking
<1>3. Truth' = Truth /\ feed' = feed /\ shown' = shown
  BY <1>1 DEF Truth, feed, row
<1>4. CASE Proceed(t, AtRest) /\ UNCHANGED named
  <2>1. named' \subseteq Positions
    BY <1>4 DEF FeedInv, FeedTypeOK
  <2> QED
    BY <1>1, <1>4, <2>1, RestIsSound, OneTaskMoves
<1>5. ASSUME NEW i \in WinnerSlots(x.req), Proceed(t, [pc |-> "resolve", slot |-> i]),
             named' = IF t = "sync" /\ x.req.winner # Truth.winner
                      THEN named \cup {i} ELSE named
      PROVE  FeedInv'
  <2>1. i \in DOMAIN shown /\ shown[i] = x.req.winner
    BY DEF WinnerSlots
  <2>2. i \in Positions /\ shown[i] # NoTeam
    BY <2>1, ShownFields DEF FeedInv
  <2>3. named \subseteq named' /\ named' \subseteq Positions
    BY <1>5, <2>2 DEF FeedInv, FeedTypeOK
  <2>4. SoundSlot(i)'
    <3>1. CASE t = "sync" /\ x.req.winner # Truth.winner
      BY <1>5, <3>1 DEF SoundSlot
    <3>2. CASE x.req.winner = Truth.winner
      BY <1>3, <2>1, <3>2 DEF SoundSlot
    <3> QED
      BY <1>2, <2>1, <2>2, <3>1, <3>2 DEF SoundWinner
  <2>5. (byHand \/ Ended("finished"))'
    BY <1>1, <1>2, <1>3 DEF SoundEnd, Ended, Finals
  <2>6. PICK r : r = [pc |-> "resolve", slot |-> i]
    OBVIOUS
  <2>7. r \in TaskState /\ r.pc = "resolve" /\ r.slot = i
    BY <2>2, <2>6 DEF TaskState
  <2>8. SoundTask(t, r)'
    BY <2>4, <2>5, <2>7 DEF SoundTask, Asking
  <2>9. Proceed(t, r)
    BY <1>5, <2>6
  <2> QED
    BY <1>1, <2>3, <2>7, <2>8, <2>9, OneTaskMoves
<1> QED
  BY <1>4, <1>5 DEF FindWinner

\* A settlement, or a cancellation, keeps what the stakes and those that were
\* paid promise.
LEMMA SettleKeeps ==
  ASSUME FeedInv, NEW slot \in Positions, Settle(slot),
         UNCHANGED <<setting, published, shown, renamed>>, named \subseteq named',
         byHand => byHand', byHand' \/ Ended("finished"), SoundSlot(slot)'
  PROVE  /\ matchStatus' \in {matchStatus, "refunded", "completed"}
         /\ active' \in [Positions -> SUBSET Teams]
         /\ won' \subseteq [slot : Positions, team : Teams]
         /\ ClosedByProvider' /\ StakesKept' /\ WinnersBackedWinner'
<1>1. Truth' = Truth /\ feed' = feed /\ FeedAdvances
  BY Stays
<1>2. /\ matchStatus' \in {matchStatus, "refunded", "completed"}
      /\ active' \in [Positions -> SUBSET Teams]
      /\ \A i \in Positions : active'[i] \subseteq active[i]
      /\ won' \subseteq won \cup {[slot |-> slot, team |-> team] : team \in active[slot]}
  BY DEF Settle, FeedInv, FeedTypeOK
<1>3. won' \subseteq [slot : Positions, team : Teams]
  BY <1>2 DEF FeedInv, FeedTypeOK
<1>4. ClosedByProvider'
  <2>1. matchStatus' = matchStatus \/ matchStatus' \in Settled
    BY <1>2 DEF Settled
  <2>2. CASE byHand'
    BY <2>2 DEF ClosedByProvider
  <2>3. CASE ~byHand'
    <3>1. ~byHand /\ Ended("finished")
      BY <2>3
    <3> QED
      BY <1>1, <2>1, <3>1 DEF FeedInv, ClosedByProvider, Ended, Settled
  <2> QED
    BY <2>2, <2>3
<1>5. StakesKept'
  BY <1>2 DEF FeedInv, StakesKept
<1>6. WinnersBackedWinner'
  <2> SUFFICES ASSUME NEW paid \in won'
               PROVE  paid.team = Truth'.winner \/ paid.slot \in renamed' \cup named'
    BY DEF WinnersBackedWinner
  <2>1. CASE paid \in won
    BY <1>1, <2>1 DEF FeedInv, WinnersBackedWinner
  <2>2. ASSUME NEW team \in active[slot], paid = [slot |-> slot, team |-> team]
        PROVE  paid.team = Truth'.winner \/ paid.slot \in renamed' \cup named'
    <3>1. paid.slot = slot /\ paid.team = team
      BY <2>2
    <3>2. CASE slot \in renamed' \cup named'
      BY <3>1, <3>2
    <3>3. CASE slot \notin renamed' \cup named'
      <4>1. shown[slot] = Truth'.winner
        BY <3>3 DEF SoundSlot
      <4>2. shown[slot] = team
        BY <3>3 DEF FeedInv, StakesKept
      <4> QED
        BY <3>1, <4>1, <4>2
    <3> QED
      BY <3>2, <3>3
  <2> QED
    BY <1>2, <2>1, <2>2
<1> QED
  BY <1>2, <1>3, <1>4, <1>5, <1>6

LEMMA ResolveKeepsFeedInv ==
  ASSUME FeedInv, NEW t \in Kinds, resolve_match(t)
  PROVE  FeedInv'
<1>1. /\ task[t].pc = "resolve" /\ task' = [task EXCEPT ![t] = AtRest]
      /\ Settle(task[t].slot)
      /\ UNCHANGED <<setting, clock, published, shown, pool, renamed, named, byHand>>
  BY DEF resolve_match, At, Proceed, hands
<1>2. /\ (byHand \/ Ended("finished")) /\ SoundSlot(task[t].slot)
      /\ task[t].slot \in Positions
  BY <1>1, TaskFields DEF FeedInv, FeedTypeOK, SoundTasks, SoundTask
<1>3. PICK slot \in Positions : slot = task[t].slot
  BY <1>2
<1>4. EndsLog' /\ Truth' = Truth /\ feed' = feed /\ FeedAdvances
  BY <1>1, Stays
<1>5. SoundSlot(slot)' /\ (byHand' \/ Ended("finished"))
  <2>1. byHand \/ Ended("finished")
    BY <1>1 DEF FeedInv, SoundTasks, SoundTask
  <2>2. SoundSlot(slot)
    BY <1>1, <1>3 DEF FeedInv, SoundTasks, SoundTask
  <2> QED
    BY <1>1, <1>4, <2>1, <2>2 DEF SoundSlot
<1>6. /\ matchStatus' \in {matchStatus, "refunded", "completed"}
      /\ active' \in [Positions -> SUBSET Teams]
      /\ won' \subseteq [slot : Positions, team : Teams]
      /\ ClosedByProvider' /\ StakesKept' /\ WinnersBackedWinner'
  BY <1>1, <1>3, <1>5, SettleKeeps
<1>7. FeedTypeOK'
  <2>1. task' \in [Kinds -> TaskState]
    BY <1>1, RestIsSound DEF FeedInv, FeedTypeOK
  <2> QED
    BY <1>1, <1>6, <2>1 DEF FeedInv, FeedTypeOK, Settled
<1>8. SoundTasks'
  BY <1>1, <1>4, <1>7, RestIsSound, TaskMoves
<1> QED
  BY <1>4, <1>6, <1>7, <1>8 DEF FeedInv

LEMMA AdminKeepsFeedInv ==
  ASSUME FeedInv, (\E i \in Positions : resolve_tournament(i)) \/ cancel_tournament
  PROVE  FeedInv'
<1>1. /\ UNCHANGED <<setting, clock, published, shown, pool, renamed, task>>
      /\ named \subseteq named' /\ named' \subseteq Positions
      /\ byHand' \in BOOLEAN /\ (byHand => byHand')
  <2>1. CASE cancel_tournament
    <3>1. UNCHANGED <<setting, clock, published, shown, pool, renamed, named, task>>
      BY <2>1 DEF cancel_tournament
    <3>2. byHand' \in BOOLEAN /\ (byHand => byHand')
      BY <2>1, Zenon DEF cancel_tournament
    <3> QED
      BY <3>1, <3>2 DEF FeedInv, FeedTypeOK
  <2>2. ASSUME NEW i \in Positions, resolve_tournament(i)
        PROVE  /\ UNCHANGED <<setting, clock, published, shown, pool, renamed, task>>
               /\ named \subseteq named' /\ named' \subseteq Positions
               /\ byHand' \in BOOLEAN /\ (byHand => byHand')
    <3>1. /\ UNCHANGED <<setting, clock, published, shown, pool, renamed, task>>
          /\ named' \in {named, named \cup {i}}
      BY <2>2 DEF resolve_tournament
    <3>2. byHand' \in BOOLEAN /\ (byHand => byHand')
      BY <2>2, Zenon DEF resolve_tournament
    <3> QED
      BY <3>1, <3>2 DEF FeedInv, FeedTypeOK
  <2> QED
    BY <2>1, <2>2
<1>2. EndsLog' /\ Truth' = Truth /\ feed' = feed /\ FeedAdvances
  BY <1>1, Stays
<1>3. /\ matchStatus' \in {matchStatus, "refunded", "completed", "cancelled"}
      /\ active' \in [Positions -> SUBSET Teams]
      /\ won' \subseteq [slot : Positions, team : Teams]
      /\ ClosedByProvider' /\ StakesKept' /\ WinnersBackedWinner'
  <2>1. CASE cancel_tournament
    <3>1. /\ matchStatus' = "cancelled" /\ active' = [i \in Positions |-> {}]
          /\ won' = won
      BY <2>1 DEF cancel_tournament
    <3>2. byHand' \/ Ended("canceled")
      BY <2>1, Zenon DEF cancel_tournament
    <3>3. ClosedByProvider'
      BY <1>2, <3>1, <3>2 DEF ClosedByProvider, Ended, Settled
    <3>4. StakesKept' /\ WinnersBackedWinner'
      BY <1>2, <3>1, WonStays DEF StakesKept
    <3> QED
      BY <3>1, <3>3, <3>4 DEF FeedInv, FeedTypeOK
  <2>2. ASSUME NEW i \in Positions, resolve_tournament(i)
        PROVE  /\ matchStatus' \in {matchStatus, "refunded", "completed", "cancelled"}
               /\ active' \in [Positions -> SUBSET Teams]
               /\ won' \subseteq [slot : Positions, team : Teams]
               /\ ClosedByProvider' /\ StakesKept' /\ WinnersBackedWinner'
    <3>1. /\ Settle(i) /\ i \in DOMAIN shown
          /\ named' = IF shown[i] = Truth.winner THEN named ELSE named \cup {i}
      BY <2>2 DEF resolve_tournament
    <3>2. byHand' \/ Ended("finished")
      BY <2>2, Zenon DEF resolve_tournament
    <3>3. SoundSlot(i)'
      BY <1>1, <1>2, <3>1 DEF SoundSlot
    <3> QED
      BY <1>1, <3>1, <3>2, <3>3, SettleKeeps
  <2> QED
    BY <2>1, <2>2
<1>4. FeedTypeOK'
  BY <1>1, <1>3 DEF FeedInv, FeedTypeOK, Settled
<1>5. SoundTasks'
  BY <1>1, <1>2, <1>4, NoTaskMoves
<1> QED
  BY <1>2, <1>3, <1>4, <1>5 DEF FeedInv

LEMMA BackfillKeepsFeedInv ==
  ASSUME FeedInv, NEW t \in Kinds, Backfill(t)
  PROVE  FeedInv'
<1>1. /\ task' = [task EXCEPT ![t] = AtRest]
      /\ UNCHANGED <<setting, clock, published, matchStatus, shown, active, won, renamed,
                     named, byHand>>
  BY DEF Backfill, At, Proceed, row, hands
<1>2. pool' \in BOOLEAN
  BY Zenon DEF Backfill
<1>3. EndsLog' /\ Truth' = Truth /\ feed' = feed /\ FeedAdvances
  BY <1>1, Stays
<1>4. FeedTypeOK'
  <2>1. task' \in [Kinds -> TaskState]
    BY <1>1, RestIsSound DEF FeedInv, FeedTypeOK
  <2> QED
    BY <1>1, <1>2, <2>1 DEF FeedInv, FeedTypeOK
<1>5. SoundTasks'
  BY <1>1, <1>3, <1>4, RestIsSound, TaskMoves
<1>6. ClosedByProvider' /\ StakesKept' /\ WinnersBackedWinner'
  BY <1>1, <1>3, WonStays DEF FeedInv, ClosedByProvider, StakesKept, Ended
<1> QED
  BY <1>3, <1>4, <1>5, <1>6 DEF FeedInv

LEMMA KindsSet == FeedInv => setting.kinds \subseteq Kinds
BY MatchFeedAssumption DEF FeedInv, FeedTypeOK

LEMMA NextKeepsFeedInv == FeedInv /\ [FeedNext]_feedVars => FeedInv'
<1> SUFFICES ASSUME FeedInv, [FeedNext]_feedVars
             PROVE  FeedInv'
  OBVIOUS
<1>1. ASSUME NEW report \in Report, Publish(report)
      PROVE  FeedInv'
  BY <1>1, PublishKeepsFeedInv
<1>2. CASE \/ Tick
           \/ \E i \in Positions : PlaceStake(i) \/ SyncStakes(i)
           \/ ScheduledBackfill
  BY <1>2, QuietKeepsFeedInv
<1>3. CASE (\E i \in Positions : resolve_tournament(i)) \/ cancel_tournament
  BY <1>3, AdminKeepsFeedInv
<1>4. ASSUME NEW t \in {"scheduler", "poller"}, NEW page \in 1 .. LastPage, Fetch(t, page)
      PROVE  FeedInv'
  BY <1>4, FetchKeepsFeedInv
<1>5. ASSUME NEW n \in DOMAIN published, ReceiveWebhook(n)
      PROVE  FeedInv'
  BY <1>5, WebhookKeepsFeedInv
<1>6. CASE \/ \E report \in Report : SyncTournament(report)
           \/ \E statuses \in StatusFilters, page \in 1 .. LastPage :
                SyncGrid(statuses, page)
           \/ \E status \in Statuses, lineup \in Lineups, registered \in BOOLEAN :
                CreateTournament(status, lineup, registered)
  BY <1>6, SyncsKeepFeedInv
<1>7. ASSUME NEW t \in setting.kinds, TaskStep(t)
      PROVE  FeedInv'
  BY <1>7, KindsSet, UpsertKeepsFeedInv, StoreKeepsFeedInv, FindWinnerKeepsFeedInv,
     ResolveKeepsFeedInv, BackfillKeepsFeedInv DEF TaskStep
<1>8. ASSUME NEW t \in setting.kinds, FailTask(t)
      PROVE  FeedInv'
  <2>1. UNCHANGED <<setting, clock, published, row, money, renamed, named, byHand>>
        /\ Proceed(t, AtRest)
    BY <1>8 DEF FailTask, hands
  <2>2. named' \subseteq Positions
    BY <2>1 DEF FeedInv, FeedTypeOK
  <2> QED
    BY <2>1, <2>2, KindsSet, RestIsSound, OneTaskMoves
<1>9. CASE UNCHANGED feedVars
  <2>1. /\ UNCHANGED <<setting, clock, published, matchStatus, shown, pool, active, won>>
        /\ UNCHANGED <<renamed, named, byHand, task>>
    BY <1>9 DEF feedVars, row, money, hands
  <2>2. EndsLog' /\ Truth' = Truth /\ feed' = feed /\ FeedAdvances
    BY <2>1, Stays
  <2>3. FeedTypeOK'
    BY <2>1 DEF FeedInv, FeedTypeOK
  <2>4. SoundTasks'
    BY <2>1, <2>2, <2>3, NoTaskMoves
  <2>5. ClosedByProvider' /\ StakesKept' /\ WinnersBackedWinner'
    BY <2>1, <2>2, WonStays DEF FeedInv, ClosedByProvider, StakesKept, Ended
  <2> QED
    BY <2>2, <2>3, <2>4, <2>5 DEF FeedInv
<1> QED
  BY <1>1, <1>2, <1>3, <1>4, <1>5, <1>6, <1>7, <1>8, <1>9 DEF FeedNext

LEMMA FeedInvariance == FeedSpec => []FeedInv
BY InitFeedInv, NextKeepsFeedInv, PTL DEF FeedSpec

\* Type correctness of the match feed.
THEOREM FeedTypeCorrect == FeedSpec => []FeedTypeOK
<1>1. FeedInv => FeedTypeOK
  BY DEF FeedInv
<1> QED
  BY <1>1, FeedInvariance, PTL

\* For every number of reports, and whatever workers, webhooks and
\* administrators apply them late or twice, a match is closed only once its
\* provider has ended it, or after an administrator has ended it himself.
THEOREM ProviderCloses == FeedSpec => []ClosedByProvider
<1>1. FeedInv => ClosedByProvider
  BY DEF FeedInv
<1> QED
  BY <1>1, FeedInvariance, PTL

\* However old the reports that are applied, however their statements
\* interleave, and however the provider reorders its opponents, a stake that is
\* paid as a winner was placed on the provider's winner, but at a position that
\* was renamed under stakes or that an administrator made win.
THEOREM OnlyWinnersPaid == FeedSpec => []WinnersBackedWinner
<1>1. FeedInv => WinnersBackedWinner
  BY DEF FeedInv
<1> QED
  BY <1>1, FeedInvariance, PTL
=============================================================================
