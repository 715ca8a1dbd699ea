---------------------------- MODULE StakingPool -----------------------------
(***************************************************************************)
(* The parimutuel pool contract of sui/sources/tournament_staking.move: a  *)
(* shared TournamentPool object with a vault and two side totals, the      *)
(* StakeReceipt objects it mints, and the shared ReceiptListing objects    *)
(* that escrow a receipt while it is for sale.  Every entry function is    *)
(* one action: a Sui transaction is atomic, and an aborted assert! leaves  *)
(* the state alone, so it is a guard here.  The interleaving is that of    *)
(* the chain: any account submits any transaction in any state.            *)
(***************************************************************************)
EXTENDS Integers, FiniteSets, UnitSum

CONSTANTS
  Users,       \* accounts that send transactions
  Admin,       \* the publisher: holder of the one AdminCap
  Pools,       \* object ids of the pools that may be created
  Receipts,    \* object ids of the receipts that may be minted
  Amounts,     \* values of the coins offered as payments
  Deadlines,   \* stake deadlines and listing expiries tried
  MaxTime,     \* bound on the clock
  MaxU64,      \* largest u64
  NoListing,   \* a receipt that is not for sale
  NoReceipt    \* a receipt not yet minted

Outcomes == {1, 2}                \* OUTCOME_A, OUTCOME_B
Other(o) == 3 - o

StakeReceipt ==
  [pool: Pools, owner: Users, outcome: Outcomes, amount: Nat \ {0},
   num: Nat \ {0}, den: Nat \ {0},        \* odds_numerator/denominator_at_stake
   holder: Users,                         \* the Sui owner of the object
   at: {"wallet", "listing", "deleted"}]

ReceiptListing == [seller: Users, ask: Nat \ {0}, expires: Nat]

ASSUME StakingPoolAssumption ==
  /\ Admin \in Users
  /\ IsFiniteSet(Receipts)
  /\ NoReceipt \notin StakeReceipt
  /\ NoListing \notin ReceiptListing
  /\ Amounts \subseteq Nat
  /\ Deadlines \subseteq Nat
  /\ MaxTime \in Nat
  /\ MaxU64 \in Nat

VARIABLES
  clock,      \* sui::clock, in model ticks
  status,     \* per pool: "none" before create_pool, then the STATUS_ codes
  winning,    \* per pool: winning_outcome, 0 until resolved
  deadline,   \* per pool: stake_deadline_ms
  total,      \* per pool: <<total_a, total_b>>
  vault,      \* per pool: value of the vault balance
  receipt,    \* per receipt: the StakeReceipt object and who holds it
  listing,    \* per receipt: the ReceiptListing that escrows it, if any
  paid        \* per receipt: payout_amount of its StakeClaimed event, 0 before

poolVars == <<status, winning, deadline, total, vault>>
vars == <<clock, poolVars, receipt, listing, paid>>

\* The type of every variable, and no more.
TypeOK ==
  /\ clock \in Nat
  /\ status \in [Pools -> {"none", "open", "resolved", "cancelled"}]
  /\ winning \in [Pools -> Outcomes \cup {0}]
  /\ deadline \in [Pools -> Nat]
  /\ total \in [Pools -> [Outcomes -> Nat]]
  /\ vault \in [Pools -> Nat]
  /\ receipt \in [Receipts -> StakeReceipt \cup {NoReceipt}]
  /\ listing \in [Receipts -> ReceiptListing \cup {NoListing}]
  /\ paid \in [Receipts -> Nat]

-----------------------------------------------------------------------------
Minted == {r \in Receipts : receipt[r] # NoReceipt}
Held(r, u) ==
  r \in Minted /\ receipt[r].at = "wallet" /\ receipt[r].holder = u
IssuedBy(p) == {r \in Minted : receipt[r].pool = p}
Live(p) == {r \in IssuedBy(p) : receipt[r].at # "deleted"}

Pot(p) == total[p][1] + total[p][2]
OneSided(p) == total[p][1] = 0 \/ total[p][2] = 0
Side(p, o) == {r \in IssuedBy(p) : receipt[r].outcome = o}

Init ==
  /\ clock = 0
  /\ status = [p \in Pools |-> "none"]
  /\ winning = [p \in Pools |-> 0]
  /\ deadline = [p \in Pools |-> 0]
  /\ total = [p \in Pools |-> [o \in Outcomes |-> 0]]
  /\ vault = [p \in Pools |-> 0]
  /\ receipt = [r \in Receipts |-> NoReceipt]
  /\ listing = [r \in Receipts |-> NoListing]
  /\ paid = [r \in Receipts |-> 0]

-----------------------------------------------------------------------------
(* The tests and formulas of the entry functions.  Each is preceded by the *)
(* faulty variants ("...Faulty") that the mutation runs put in its place.  *)

StakingOpenFaulty(p) == clock <= deadline[p]
StakingOpen(p) == status[p] = "open" /\ clock <= deadline[p]

PositiveAmount(a) == a > 0

\* odds_numerator / odds_denominator a stake of a on side o is quoted.
QuotedOddsFaulty(p, o, a) == <<Pot(p) + a, total[p][Other(o)] + a>>
QuotedOdds(p, o, a) == <<Pot(p) + a, total[p][o] + a>>

\* The contract's own test that the receipt belongs to the pool it is shown to.
OfPoolFaulty(p, r) == r \in Minted
OfPool(p, r) == receipt[r].pool = p

is_one_sided_resolved_poolFaulty(p) == status[p] = "resolved"
is_one_sided_resolved_pool(p) == status[p] = "resolved" /\ OneSided(p)

\* What claim pays: nothing if nobody backed the winner, and otherwise the
\* share of the pot; the u128 product keeps full precision, the division floors.
winning_total(p) == total[p][winning[p]]
ClaimPayoutRoundedUp(p, r) ==
  (receipt[r].amount * Pot(p) + winning_total(p) - 1) \div winning_total(p)
ClaimPayoutCoarse(p, r) == receipt[r].amount * (Pot(p) \div winning_total(p))
ClaimPayout(p, r) ==
  IF winning_total(p) = 0 THEN 0
  ELSE (receipt[r].amount * Pot(p)) \div winning_total(p)

\* list_receipt compares the sender with the owner field.
MayListFaulty(u, r) == Held(r, u)
MayList(u, r) == receipt[r].owner = u

-----------------------------------------------------------------------------
\* create_pool: whoever presents the AdminCap becomes the pool's admin; the
\* cap has no `store` and never leaves the publisher.
CreatePool(u, p, d) ==
  /\ u = Admin
  /\ status[p] = "none"
  /\ status' = [status EXCEPT ![p] = "open"]
  /\ deadline' = [deadline EXCEPT ![p] = d]
  /\ UNCHANGED <<clock, winning, total, vault, receipt, listing, paid>>

\* stake: the u64 additions abort on overflow, which the last guard states.
Stake(u, p, r, o, a) ==
  /\ r \notin Minted
  /\ StakingOpen(p)
  /\ PositiveAmount(a)
  /\ Pot(p) + a <= MaxU64
  /\ vault' = [vault EXCEPT ![p] = @ + a]
  /\ total' = [total EXCEPT ![p][o] = @ + a]
  /\ receipt' = [receipt EXCEPT ![r] =
       [pool |-> p, owner |-> u, outcome |-> o, amount |-> a,
        num |-> QuotedOdds(p, o, a)[1], den |-> QuotedOdds(p, o, a)[2],
        holder |-> u, at |-> "wallet"]]
  /\ UNCHANGED <<clock, status, winning, deadline, listing, paid>>

\* The receipt has `store`: its holder may hand the object to anyone with
\* Sui's public_transfer, which does not touch the owner field.
PublicTransfer(u, r, v) ==
  /\ Held(r, u)
  /\ receipt' = [receipt EXCEPT ![r].holder = v]
  /\ UNCHANGED <<clock, poolVars, listing, paid>>

assert_admin(u) == u = Admin     \* the cap's holder is the pool's creator

\* resolve: not gated on the deadline, nor on there being any stake.
Resolve(u, p, o) ==
  /\ assert_admin(u)
  /\ status[p] = "open"
  /\ status' = [status EXCEPT ![p] = "resolved"]
  /\ winning' = [winning EXCEPT ![p] = o]
  /\ UNCHANGED <<clock, deadline, total, vault, receipt, listing, paid>>

Cancel(u, p) ==
  /\ assert_admin(u)
  /\ status[p] = "open"
  /\ status' = [status EXCEPT ![p] = "cancelled"]
  /\ UNCHANGED <<clock, winning, deadline, total, vault, receipt, listing, paid>>

\* The common tail of claim and refund: the receipt object is deleted and its
\* owner field, not the sender, is credited from the vault.
PayReceipt(p, r, x) ==
  /\ vault[p] >= x
  /\ vault' = [vault EXCEPT ![p] = @ - x]
  /\ receipt' = [receipt EXCEPT ![r].at = "deleted"]
  /\ paid' = [paid EXCEPT ![r] = x]
  /\ UNCHANGED <<clock, status, winning, deadline, total, listing>>

\* claim: the last guard is the cast of the quotient to u64.
Claim(u, p, r) ==
  /\ Held(r, u)
  /\ status[p] = "resolved"
  /\ OfPool(p, r)
  /\ receipt[r].outcome = winning[p]
  /\ ClaimPayout(p, r) <= MaxU64
  /\ PayReceipt(p, r, ClaimPayout(p, r))

Refund(u, p, r) ==
  /\ Held(r, u)
  /\ status[p] = "cancelled" \/ is_one_sided_resolved_pool(p)
  /\ OfPool(p, r)
  /\ PayReceipt(p, r, receipt[r].amount)

ListReceipt(u, r, ask, d) ==
  /\ Held(r, u)
  /\ MayList(u, r)
  /\ ask > 0
  /\ d > clock
  /\ receipt' = [receipt EXCEPT ![r].at = "listing"]
  /\ listing' = [listing EXCEPT ![r] = [seller |-> u, ask |-> ask, expires |-> d]]
  /\ UNCHANGED <<clock, poolVars, paid>>

\* The end of a listing: the escrowed receipt goes to u's wallet.
Unlist(r, u, owner) ==
  /\ receipt' = [receipt EXCEPT ![r].at = "wallet", ![r].holder = u,
                                ![r].owner = owner]
  /\ listing' = [listing EXCEPT ![r] = NoListing]
  /\ UNCHANGED <<clock, poolVars, paid>>

\* buy_receipt looks at neither the pool's status nor who the buyer is.
BuyReceipt(u, r, payment) ==
  /\ listing[r] # NoListing
  /\ clock <= listing[r].expires
  /\ payment = listing[r].ask
  /\ Unlist(r, u, u)

CancelReceiptListing(u, r) ==
  /\ listing[r] # NoListing
  /\ u = listing[r].seller
  /\ Unlist(r, listing[r].seller, receipt[r].owner)

Tick ==
  /\ clock < MaxTime
  /\ clock' = clock + 1
  /\ UNCHANGED <<poolVars, receipt, listing, paid>>

Next ==
  \/ \E u \in Users, p \in Pools, d \in Deadlines : CreatePool(u, p, d)
  \/ \E u \in Users, p \in Pools, r \in Receipts, o \in Outcomes, a \in Amounts :
       Stake(u, p, r, o, a)
  \/ \E u \in Users, r \in Receipts, v \in Users : PublicTransfer(u, r, v)
  \/ \E u \in Users, p \in Pools, o \in Outcomes : Resolve(u, p, o)
  \/ \E u \in Users, p \in Pools : Cancel(u, p)
  \/ \E u \in Users, p \in Pools, r \in Receipts : Claim(u, p, r)
  \/ \E u \in Users, p \in Pools, r \in Receipts : Refund(u, p, r)
  \/ \E u \in Users, r \in Receipts, ask \in Amounts, d \in Deadlines :
       ListReceipt(u, r, ask, d)
  \/ \E u \in Users, r \in Receipts, pay \in Amounts : BuyReceipt(u, r, pay)
  \/ \E u \in Users, r \in Receipts : CancelReceiptListing(u, r)
  \/ Tick

Spec == Init /\ [][Next]_vars

-----------------------------------------------------------------------------
\* What a live receipt can still draw from its pool's vault, as things stand.
Owed(p, r) ==
  IF status[p] = "resolved" /\ ~OneSided(p)
  THEN IF receipt[r].outcome = winning[p] THEN ClaimPayout(p, r) ELSE 0
  ELSE receipt[r].amount

Claims(p) == SumOf(Live(p), [r \in Live(p) |-> Owed(p, r)])

\* The vault covers every receipt not yet redeemed, whatever the order in which
\* claims, refunds and sales happen: E_POOL_BALANCE_LOW never locks a winner out.
Solvent == \A p \in Pools : vault[p] >= Claims(p)

\* The books add up: each side total is the sum of the amounts of the receipts
\* minted for that side, and the vault holds the pot less the payouts of the
\* pool's own receipts (a receipt is never redeemed against another pool).
BooksBalance ==
  \A p \in Pools :
    /\ \A o \in Outcomes :
         total[p][o] = SumOf(Side(p, o), [r \in Side(p, o) |-> receipt[r].amount])
    /\ vault[p] = Pot(p) - SumOf(IssuedBy(p), paid)

\* x is the pro-rata share of a in the pot t of a side of w, rounded down.
IsFloorShare(x, a, t, w) == x * w <= a * t /\ a * t < (x + 1) * w

\* A redeemed receipt got its stake back when the pool was cancelled or had one
\* side only (claim and refund agree there), and otherwise was on the winning
\* side and got its share of the whole pot, however many redeemed before it.
PaidFairShare ==
  \A p \in Pools : \A r \in IssuedBy(p) \ Live(p) :
    IF status[p] = "cancelled" \/ OneSided(p)
    THEN paid[r] = receipt[r].amount
    ELSE /\ receipt[r].outcome = winning[p]
         /\ IsFloorShare(paid[r], receipt[r].amount, Pot(p), total[p][winning[p]])

\* Rounding strands less than one unit per winning receipt in the vault.
DustBound ==
  \A p \in Pools :
    status[p] = "resolved" /\ Side(p, winning[p]) # {} =>
      vault[p] - Claims(p) < Cardinality(Side(p, winning[p]))

\* The odds quoted to the last staker are the rate the winning side is paid at:
\* no stake after it moved the pot, so its quote and its share agree.
LastQuoteHonoured ==
  \A p \in Pools : \A r \in IssuedBy(p) :
    /\ status[p] = "resolved" /\ ~OneSided(p)
    /\ receipt[r].outcome = winning[p] /\ receipt[r].num = Pot(p)
    => LET quote == (receipt[r].amount * receipt[r].num) \div receipt[r].den
       IN  IF r \in Live(p) THEN Owed(p, r) = quote ELSE paid[r] = quote

\* A receipt is escrowed by a listing exactly while it is for sale, and the
\* account that will receive the sale's proceeds is the one a redemption would
\* have paid, although the holder of the object may be someone else.
SellerIsOwner ==
  \A r \in Receipts :
    /\ listing[r] # NoListing <=> r \in Minted /\ receipt[r].at = "listing"
    /\ listing[r] # NoListing => listing[r].seller = receipt[r].owner

-----------------------------------------------------------------------------
PoolPhase(p) ==
  CASE status[p] = "resolved" -> "settled"
    [] status[p] = "cancelled" -> "void"
    [] OTHER -> status[p]

Phases == [p \in Pools |-> PoolPhase(p)]
AllTaken == [p \in Pools |-> Pot(p)]
AllGiven == [p \in Pools |-> Pot(p) - vault[p]]

PoolEscrow == INSTANCE Escrow WITH
  Accounts <- Pools, Verdicts <- Outcomes, NoVerdict <- 0,
  phase <- Phases, verdict <- winning, taken <- AllTaken, given <- AllGiven

\* The pool contract implements the escrow: no stake once it is settled, one
\* settlement for ever, money out only afterwards and never more than came in.
ImplementsEscrow == PoolEscrow!Spec
=============================================================================
