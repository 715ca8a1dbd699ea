----------------------------- MODULE MatchFeed ------------------------------
(***************************************************************************)
(* How the row of one match follows its provider: the background workers   *)
(* and the webhook of PandaScore (main.rs, handlers/webhook.rs,            *)
(* services/pandascore.rs), an administrator's sync with GRID              *)
(* (services/grid.rs) and an administrator who enters the match by hand    *)
(* all parse a report, upsert the match and its opponents statement by     *)
(* statement, and most settle it when the report names a winner.  An       *)
(* administrator may also settle or cancel it whatever the provider says.  *)
(*                                                                         *)
(* A report may be old when it is applied: a page fetched long ago, or a   *)
(* webhook that is delivered late, twice or never.  The statements of a    *)
(* settlement are the subject of MatchSettlement, those of a backfill and  *)
(* of the index of stakes of PoolIndex: here each is one step.             *)
(***************************************************************************)
EXTENDS Integers, Sequences, SequencesExt, FiniteSets

CONSTANTS
  Teams,         \* opponents
  Tbd,           \* an opponent that the provider does not know yet
  NoTeam,        \* no winner
  Lineups,       \* the opponents that a provider may list, in its order
  Settings,      \* where a match may come from, how its opponents may be
                 \* listed, and who works on it
  StatusFilters, \* the statuses an administrator may ask GRID for
  PageSetting,   \* PANDASCORE_MAX_PAGES and GRID_MAX_PAGES
  LastPage,      \* the last page on which a provider may list the match
  MaxReports     \* bound on what the provider publishes about the match

Statuses == {"not_started", "running", "finished", "canceled", "postponed"}
Kinds == {"scheduler", "poller", "webhook", "grid_sync", "create", "sync", "admin"}

ASSUME MatchFeedAssumption ==
  /\ Tbd \notin Teams /\ NoTeam \notin Teams
  /\ Lineups \subseteq [1 .. 2 -> Teams \cup {Tbd}]
  /\ Settings \subseteq [feed : {"pandascore", "graphql", "rest"},
                         lineups : SUBSET Lineups, kinds : SUBSET Kinds]
  /\ StatusFilters \subseteq SUBSET Statuses
  /\ PageSetting \in Nat /\ LastPage \in Nat \ {0} /\ MaxReports \in Nat

VARIABLES
  setting,   \* one of Settings, chosen at the start
  clock,     \* 0, the scheduled Start, and Stale hours after it
  published, \* what the provider has said about the match, oldest first
  matchStatus, \* matches.status, "none" before the first upsert
  shown,     \* the teams of match_opponents, by position
  pool,      \* a pool is registered
  active,    \* per position, the teams it showed to the stakes still active
  won,       \* history: the stakes paid as winners, by their position and by
             \* the team they were placed on
  renamed,   \* history: positions that came to show another team under stakes
             \* or under a settlement that had chosen them
  named,     \* history: positions an administrator made win although the
             \* provider named no winner or another one
  byHand,    \* history: an administrator ended the match as its provider had not
  task       \* per worker or handler: its next statement, its report and what
             \* it has read

row == <<matchStatus, shown>>
money == <<pool, active, won>>
hands == <<renamed, named, byHand>>
feedVars == <<setting, clock, published, row, money, hands, task>>

Positions == 1 .. 2
Start == 1
Stale == 2
OpenStatuses == {"upcoming", "live"}
Settled == {"completed", "refunded"}

\* A report of the provider, and CreateMatchRequest, what is made of it.
Report == [status : Statuses, lineup : Lineups, winner : Teams \cup {NoTeam}]
CreateMatchRequest ==
  [status : Statuses, opponents : Seq(Teams), winner : Teams \cup {NoTeam},
   pool : BOOLEAN]
Truth == Last(published)
feed == setting.feed

\* The provider has ended the match so; GRID's Central Data does not say.
Ended(status) == Truth.status = status /\ feed # "graphql"

Ready(lineup) == Tbd \notin Range(lineup)

AtRest == [pc |-> "idle"]
TaskState ==
  {AtRest, [pc |-> "backfill"]}
  \cup [pc : {"upsert"}, req : CreateMatchRequest]
  \cup [pc : {"store"}, req : CreateMatchRequest, at : Positions,
        unpooled : BOOLEAN]
  \cup [pc : {"winner"}, req : CreateMatchRequest]
  \cup [pc : {"resolve"}, slot : Positions]

FeedTypeOK ==
  /\ setting \in Settings
  /\ clock \in 0 .. Stale
  /\ published \in Seq(Report)
  /\ matchStatus \in OpenStatuses \cup Settled \cup {"none", "cancelled"}
  /\ shown \in Seq(Teams) /\ Len(shown) <= 2
  /\ pool \in BOOLEAN
  /\ active \in [Positions -> SUBSET Teams]
  /\ won \subseteq [slot : Positions, team : Teams]
  /\ renamed \subseteq Positions /\ named \subseteq Positions
  /\ byHand \in BOOLEAN
  /\ task \in [Kinds -> TaskState]

FeedInit ==
  /\ setting \in Settings
  /\ clock = 0
  /\ \E lineup \in setting.lineups :
       published = <<[status |-> "not_started", lineup |-> lineup, winner |-> NoTeam]>>
  /\ matchStatus = "none" /\ shown = <<>>
  /\ pool = FALSE
  /\ active = [i \in Positions |-> {}]
  /\ won = {} /\ renamed = {} /\ named = {} /\ byHand = FALSE
  /\ task = [t \in Kinds |-> AtRest]

-----------------------------------------------------------------------------
(* Fetching.                                                               *)

Clamp(n, low, high) == IF n < low THEN low ELSE IF n > high THEN high ELSE n

\* The configurations, as far as they say what is fetched.
PandascoreConfig == [default_statuses |-> {"upcoming", "running"},
                     default_max_pages |-> Clamp(PageSetting, 1, 20)]
GridConfig == [default_statuses |-> {}, default_max_pages |-> Clamp(PageSetting, 1, 20)]

\* The requests of the two workers.  A variant of the poller that takes the
\* statuses of the scheduler.
SchedulerRequest == [statuses |-> PandascoreConfig.default_statuses,
                     max_pages |-> PandascoreConfig.default_max_pages]
PollerRequestFaulty == [statuses |-> {"upcoming", "running"}, max_pages |-> 1]
PollerRequest == [statuses |-> {"running", "past"}, max_pages |-> 1]

\* PandaScore's endpoints and the matches each lists.
status_to_path(status) ==
  CASE status \in {"running", "live", "in_progress"} -> "/matches/running"
    [] status \in {"past", "finished", "complete", "ended"} -> "/matches/past"
    [] OTHER -> "/matches/upcoming"
Lists(path) ==
  CASE path = "/matches/upcoming" -> {"not_started", "postponed"}
    [] path = "/matches/running" -> {"running"}
    [] path = "/matches/past" -> {"finished", "canceled"}

\* fetch_matches and its pages: the match is found on a page that is read.
PandascoreFinds(req, page) ==
  /\ page <= Clamp(req.max_pages, 1, 20)
  /\ \E status \in req.statuses : Truth.status \in Lists(status_to_path(status))

\* GRID's REST interface filters by itself and is read by pages.
RestFinds(statuses, page) ==
  /\ page <= GridConfig.default_max_pages
  /\ statuses = {} \/ Truth.status \in statuses

-----------------------------------------------------------------------------
(* Parsing.                                                                *)

\* The words of GRID's REST interface, and what normalize_status makes of
\* them; PandaScore's own words are those of Statuses.
GridWord == [not_started |-> "scheduled", running |-> "live", finished |-> "ended",
             canceled |-> "cancelled", postponed |-> "delayed"]
normalize_status(word) ==
  CASE word \in {"scheduled", "created", "not_started", "upcoming"} -> "not_started"
    [] word \in {"live", "running", "in_progress", "started"} -> "running"
    [] word \in {"complete", "completed", "finished", "ended"} -> "finished"
    [] word \in {"cancelled", "canceled", "deleted"} -> "canceled"
    [] word \in {"postponed", "delayed"} -> "postponed"

\* Opponents that cannot be parsed are dropped, and the others move up.
Parsed(team) == IF team = Tbd THEN <<>> ELSE <<team>>
opponents_from_value(lineup) == Parsed(lineup[1]) \o Parsed(lineup[2])

pandascore_match_from_value(report) ==
  [status |-> report.status, opponents |-> opponents_from_value(report.lineup),
   winner |-> report.winner, pool |-> FALSE]

\* Central Data has no status: it is guessed from the schedule.  A variant that
\* takes a match long past for finished.
derive_status_from_scheduleFaulty ==
  IF clock < Start THEN "not_started" ELSE IF clock < Stale THEN "running" ELSE "finished"
derive_status_from_schedule == IF clock < Start THEN "not_started" ELSE "running"

grid_match_from_value(report) ==
  [status |-> IF feed = "graphql" THEN derive_status_from_schedule
              ELSE normalize_status(GridWord[report.status]),
   opponents |-> opponents_from_value(report.lineup),
   winner |-> IF feed = "graphql" THEN NoTeam ELSE report.winner, pool |-> FALSE]

\* The filter of fetch_graphql_matches.
match_status_allowed(req, statuses) == statuses = {} \/ req.status \in statuses

-----------------------------------------------------------------------------
(* Storing.                                                                *)

\* upsert_match: our status for the provider's.
InternalStatus(status) ==
  CASE status = "running" -> "live" [] status = "finished" -> "completed"
    [] status = "canceled" -> "cancelled" [] OTHER -> "upcoming"

\* Its ON CONFLICT clause.
UpsertedStatus(status) ==
  IF matchStatus \in {"completed", "cancelled"} THEN matchStatus
  ELSE InternalStatus(status)

\* upsert_match_opponent, by position.
UpsertedOpponents(i, team) ==
  IF i <= Len(shown) THEN [shown EXCEPT ![i] = team] ELSE Append(shown, team)

\* The opponent that resolve_finished_provider_match settles for, none if the
\* report names no winner or the winner is not in the match.  A variant that
\* takes the first one then.
WinnerSlotsFaulty(req) ==
  IF req.winner \in Range(shown) THEN {i \in DOMAIN shown : shown[i] = req.winner}
  ELSE DOMAIN shown \cap {1}
WinnerSlots(req) ==
  {i \in DOMAIN shown : shown[i] = req.winner
                        /\ \A j \in 1 .. i - 1 : shown[j] # req.winner}

\* The refusal of resolve_match.  A variant that goes by the status alone, which
\* the upsert of the same report has set already.
AlreadyResolvedFaulty == matchStatus = "completed"
AlreadyResolved == matchStatus = "completed" /\ \A i \in Positions : active[i] = {}

\* list_matches without a status: the lobby, which hides stale matches.
InLobby == matchStatus \in OpenStatuses /\ ~(matchStatus = "upcoming" /\ clock = Stale)

-----------------------------------------------------------------------------
(* The provider, time and users.                                           *)

\* The provider learns the opponents and may list them in another order, then
\* plays, postpones or cancels.
Progress ==
  {<<"not_started", "not_started">>, <<"not_started", "running">>,
   <<"not_started", "postponed">>, <<"postponed", "running">>,
   <<"not_started", "canceled">>, <<"running", "finished">>}

\* Nobody reads the winner of a match that is not finished.
Sensible(report) ==
  report.lineup \in setting.lineups /\ (report.winner # NoTeam => report.status = "finished")

Publish(report) ==
  /\ Len(published) < MaxReports
  /\ <<Truth.status, report.status>> \in Progress
  /\ report # Truth /\ Sensible(report)
  /\ report.status # "not_started" => Ready(report.lineup)
  /\ report.status = "running" => clock >= Start
  /\ published' = Append(published, report)
  /\ UNCHANGED <<setting, clock, row, money, hands, task>>

Tick ==
  /\ clock < Stale
  /\ clock' = clock + 1
  /\ UNCHANGED <<setting, published, row, money, hands, task>>

\* The row of a stake, at the position that it was made for.
AddStake(i) ==
  /\ pool /\ i \in DOMAIN shown
  /\ active' = [active EXCEPT ![i] = @ \cup {shown[i]}]
  /\ UNCHANGED <<setting, clock, published, row, pool, won, hands, task>>

\* place_stake, and the rows that the reconciler makes of the stakes on chain.
PlaceStake(i) == matchStatus \in OpenStatuses /\ AddStake(i)

\* sync_tournament_stakes: an administrator indexes a match in any status.
SyncStakes(i) == "admin" \in setting.kinds /\ AddStake(i)

-----------------------------------------------------------------------------
(* Workers and handlers.                                                   *)

Proceed(t, next) == task' = [task EXCEPT ![t] = next]
At(t, pc) == task[t].pc = pc

\* A worker runs one cycle at a time; so do, here, the handlers.
Begin(t, req) ==
  /\ t \in setting.kinds
  /\ task[t] = AtRest
  /\ Proceed(t, [pc |-> "upsert", req |-> req])
  /\ UNCHANGED <<setting, clock, published, row, money, hands>>

\* run_pandascore_sync, for the scheduler and for the live poller.
Fetch(t, page) ==
  /\ feed = "pandascore"
  /\ PandascoreFinds(IF t = "poller" THEN PollerRequest ELSE SchedulerRequest, page)
  /\ Begin(t, pandascore_match_from_value(Truth))

\* handle_pandascore_webhook: any report, at any time.
ReceiveWebhook(n) ==
  /\ feed = "pandascore"
  /\ Begin("webhook", pandascore_match_from_value(published[n]))

\* sync_grid_tournaments.
SyncGrid(statuses, page) ==
  /\ feed \in {"graphql", "rest"}
  /\ IF feed = "rest" THEN RestFinds(statuses, page)
     ELSE match_status_allowed(grid_match_from_value(Truth), statuses)
  /\ Begin("grid_sync", grid_match_from_value(Truth))

\* create_tournament: an administrator enters a match with both opponents, in
\* any status, and with a pool if there is one for it.
CreateTournament(status, lineup, registered) ==
  /\ lineup \in setting.lineups /\ Ready(lineup)
  /\ Begin("create", [status |-> status, opponents |-> lineup,
                      winner |-> NoTeam, pool |-> registered])

\* sync_tournament: an administrator enters any report, the provider's or not.
SyncTournament(report) ==
  /\ Sensible(report)
  /\ Begin("sync", pandascore_match_from_value(report))

\* What follows the upsert: all but create_tournament settle, and only the
\* webhook backfills.
AfterUpsert(t, unpooled) ==
  LET req == task[t].req
  IN  IF t # "create" /\ req.status = "finished" THEN [pc |-> "winner", req |-> req]
      ELSE IF t = "webhook" /\ Len(req.opponents) = 2 /\ unpooled THEN [pc |-> "backfill"]
      ELSE AtRest

UpsertMatch(t) ==
  LET r == task[t]
  IN  /\ At(t, "upsert")
      /\ matchStatus' = UpsertedStatus(r.req.status)
      /\ pool' = (pool \/ r.req.pool)
      /\ byHand' = (byHand \/ (/\ t \in {"create", "sync"}
                               /\ r.req.status \in {"finished", "canceled"}
                               /\ ~Ended(r.req.status)))
      /\ Proceed(t, IF r.req.opponents = <<>> THEN AfterUpsert(t, ~pool')
                    ELSE [pc |-> "store", req |-> r.req, at |-> 1,
                          unpooled |-> ~pool'])
      /\ UNCHANGED <<setting, clock, published, shown, active, won, renamed, named>>

StoreOpponent(t) ==
  LET r == task[t]
      team == r.req.opponents[r.at]
      moves == r.at \in DOMAIN shown /\ shown[r.at] # team
      chosen == \E u \in Kinds : task[u] = [pc |-> "resolve", slot |-> r.at]
  IN  /\ At(t, "store")
      /\ shown' = UpsertedOpponents(r.at, team)
      /\ renamed' = IF moves /\ (chosen \/ active[r.at] # {})
                    THEN renamed \cup {r.at} ELSE renamed
      /\ Proceed(t, IF r.at = Len(r.req.opponents) THEN AfterUpsert(t, r.unpooled)
                    ELSE [r EXCEPT !.at = 2])
      /\ UNCHANGED <<setting, clock, published, matchStatus, money, named, byHand>>

\* The reads of resolve_finished_provider_match, which sync_tournament repeats.
FindWinner(t) ==
  LET r == task[t]
  IN  /\ At(t, "winner")
      /\ \/ WinnerSlots(r.req) = {} /\ Proceed(t, AtRest) /\ UNCHANGED named
         \/ \E i \in WinnerSlots(r.req) :
              /\ Proceed(t, [pc |-> "resolve", slot |-> i])
              /\ named' = IF t = "sync" /\ r.req.winner # Truth.winner
                          THEN named \cup {i} ELSE named
      /\ UNCHANGED <<setting, clock, published, row, money, renamed, byHand>>

\* resolve_match: refused, or settled without stakes, with refunds if one side
\* has none, or with payouts.  A match that was cancelled is settled too.
Settle(slot) ==
  LET oneSided == \E i \in Positions : active[i] = {}
  IN  IF AlreadyResolved THEN UNCHANGED <<matchStatus, active, won>>
      ELSE /\ matchStatus' =
                IF oneSided /\ \E i \in Positions : active[i] # {}
                THEN "refunded" ELSE "completed"
           /\ won' = IF oneSided THEN won
                     ELSE won \cup {[slot |-> slot, team |-> team] : team \in active[slot]}
           /\ active' = [i \in Positions |-> {}]

resolve_match(t) ==
  /\ At(t, "resolve")
  /\ Settle(task[t].slot)
  /\ Proceed(t, AtRest)
  /\ UNCHANGED <<setting, clock, published, shown, pool, hands>>

\* resolve_tournament: an administrator names the winner, here or by approving
\* a proposal.
resolve_tournament(slot) ==
  /\ "admin" \in setting.kinds
  /\ matchStatus # "none" /\ slot \in DOMAIN shown
  /\ Settle(slot)
  /\ byHand' = (byHand \/ ~Ended("finished"))
  /\ named' = IF shown[slot] = Truth.winner THEN named ELSE named \cup {slot}
  /\ UNCHANGED <<setting, clock, published, shown, pool, renamed, task>>

\* cancel_tournament, which asks for no status.
cancel_tournament ==
  /\ "admin" \in setting.kinds
  /\ matchStatus # "none"
  /\ matchStatus' = "cancelled"
  /\ active' = [i \in Positions |-> {}]
  /\ byHand' = (byHand \/ ~Ended("canceled"))
  /\ UNCHANGED <<setting, clock, published, shown, pool, won, renamed, named, task>>

\* run_pool_backfill of this match.
LacksPool == ~pool /\ matchStatus \in OpenStatuses /\ Len(shown) = 2

Backfill(t) ==
  /\ At(t, "backfill")
  /\ pool' = (pool \/ LacksPool)
  /\ Proceed(t, AtRest)
  /\ UNCHANGED <<setting, clock, published, row, active, won, hands>>

\* spawn_pool_backfill_scheduler.
ScheduledBackfill ==
  /\ LacksPool
  /\ pool' = TRUE
  /\ UNCHANGED <<setting, clock, published, row, active, won, hands, task>>

\* A request or a statement fails: the sync goes on with its next match.
FailTask(t) ==
  /\ task[t] # AtRest
  /\ Proceed(t, AtRest)
  /\ UNCHANGED <<setting, clock, published, row, money, hands>>

TaskStep(t) ==
  \/ UpsertMatch(t) \/ StoreOpponent(t) \/ FindWinner(t) \/ resolve_match(t)
  \/ Backfill(t)

FeedNext ==
  \/ \E report \in Report : Publish(report) \/ SyncTournament(report)
  \/ Tick
  \/ \E i \in Positions : PlaceStake(i) \/ SyncStakes(i) \/ resolve_tournament(i)
  \/ cancel_tournament
  \/ ScheduledBackfill
  \/ \E t \in {"scheduler", "poller"}, page \in 1 .. LastPage : Fetch(t, page)
  \/ \E n \in DOMAIN published : ReceiveWebhook(n)
  \/ \E statuses \in StatusFilters, page \in 1 .. LastPage : SyncGrid(statuses, page)
  \/ \E status \in Statuses, lineup \in Lineups, registered \in BOOLEAN :
       CreateTournament(status, lineup, registered)
  \/ \E t \in setting.kinds : TaskStep(t) \/ FailTask(t)

FeedSpec == FeedInit /\ [][FeedNext]_feedVars

\* The live poller runs on, finds a match that has just changed on the first
\* page, and does not fail at the same statement for ever.
FairFeedSpec ==
  /\ FeedSpec
  /\ WF_feedVars(Fetch("poller", 1))
  /\ SF_feedVars(UpsertMatch("poller"))
  /\ \A i \in Positions :
       SF_feedVars(task["poller"] # AtRest /\ At("poller", "store")
                   /\ task["poller"].at = i /\ StoreOpponent("poller"))
  /\ SF_feedVars(FindWinner("poller"))
  /\ SF_feedVars(resolve_match("poller"))

-----------------------------------------------------------------------------
(* Properties.                                                             *)

\* A stake that is paid as a winner was placed on the team that the provider
\* names, however old the reports that were stored in between and whatever an
\* administrator ended before, unless its position came to show another team
\* under the stakes or an administrator made it win without the provider.
WinnersBackedWinner ==
  \A paid \in won : paid.team = Truth.winner \/ paid.slot \in renamed \cup named

\* A match is closed only once its provider has ended it, unless an
\* administrator has ended it before; of GRID's Central Data, which has no
\* results, only an administrator closes one.
ClosedByProvider ==
  \/ byHand
  \/ /\ matchStatus \in Settled => Ended("finished")
     /\ matchStatus = "cancelled" => Ended("canceled")

Polled == feed = "pandascore" /\ "poller" \in setting.kinds

\* While the live poller works, every stake on a match that PandaScore ends
\* with a winner is settled at last, although the first attempt may have
\* stored the match as completed and then failed.
StakesSettle ==
  (Polled /\ Truth.winner # NoTeam /\ \E i \in Positions : active[i] # {})
    ~> (\A i \in Positions : active[i] = {})

\* And a match that PandaScore has ended or cancelled leaves the lobby.
LobbyCatchesUp ==
  (Polled /\ Truth.status \in {"finished", "canceled"}) ~> ~InLobby
=============================================================================
