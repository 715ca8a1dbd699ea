--------------------------- MODULE ReceiptMarket ---------------------------
(***************************************************************************)
(* The resale of one stake receipt: the listings that the pool contract    *)
(* escrows it in, and the rows of receipt_market_listings that advertise   *)
(* them (handlers/market.rs).  A seller drafts a row, lists the receipt on *)
(* chain with the transaction the server builds from it, and activates the *)
(* row with the object it got; a buyer buys with a transaction built from  *)
(* the row and marks it sold.  The server does not look at the chain.      *)
(*                                                                         *)
(* The chain is StakingPool with one pool and one receipt.  The clients    *)
(* are outside the repository: they list, buy and report what the handlers *)
(* let them, late and more than once.                                      *)
(***************************************************************************)
EXTENDS Integers, Sequences, FiniteSets

CONSTANTS
  Wallets,       \* who stakes, sells and buys
  Admin,         \* the publisher of the contract
  Pool, Receipt, \* the pool and the receipt
  NoListing, NoReceipt, NoWallet,
  MaxRows,       \* rows of receipt_market_listings
  MaxObjects,    \* times the receipt may be listed on chain
  Requests,      \* requests that the clients may send, each once
  MaxFaults      \* how many statements may fail

VARIABLES
  clock, status, winning, deadline, total, vault, receipt, listing, paid,
               \* the chain's, see StakingPool
  listed,      \* chain: per ReceiptListing object, the row it was built from
  bought,      \* chain: the purchases so far
  accepting,   \* the match is upcoming or live
  row,         \* table receipt_market_listings
  buyPtb,      \* per wallet: the purchase it has fetched and not yet sent
  request,     \* per request: its next statement
  reported,    \* objects whose activation has been sent
  faults,
  overlapped,  \* history: two drafts were ever created at the same time
  resent       \* history: an activation was ever sent out of turn

chainVars == <<clock, status, winning, deadline, total, vault, receipt, listing,
               paid>>
market == <<listed, bought>>
clients == <<buyPtb, reported>>
server == <<row, request, faults, overlapped, resent>>
marketVars == <<chainVars, market, accepting, clients, server>>

Ask == 1      \* ask_amount_usdc; rows and their listings have the same
Expiry == 1   \* expires_at, a model tick after the start

Chain == INSTANCE StakingPool WITH
  Users <- Wallets \cup {Admin}, Pools <- {Pool}, Receipts <- {Receipt},
  Amounts <- {Ask}, Deadlines <- {Expiry}, MaxTime <- Expiry, MaxU64 <- Ask

ASSUME ReceiptMarketAssumption ==
  /\ Admin \notin Wallets
  /\ NoWallet \notin Wallets
  /\ MaxRows \in Nat /\ MaxObjects \in Nat /\ MaxFaults \in Nat
  /\ Chain!StakingPoolAssumption

RowIds == 1..MaxRows
Objects == 1..MaxObjects

\* ReceiptMarketListingRecord; object 0 is NULL.  Receipt, match, opponent,
\* ask and expiry are the same in every row.
Row == [seller : Wallets, buyer : Wallets \cup {NoWallet},
        object : Objects \cup {0}, status : {"draft", "active", "sold"}]
NoRow == [status |-> "none"]

Purchase == [row : RowIds, object : Objects, buyer : Wallets]
NoPtb == [row |-> 0]

Unsent == [pc |-> "unsent"]
Done == [pc |-> "done"]
RequestState ==
  {Unsent, Done}
  \cup [pc : {"insert"}, who : Wallets]
  \cup [pc : {"activate"}, row : RowIds, object : Objects]
  \cup [pc : {"sell"}, row : RowIds, who : Wallets]

MarketTypeOK ==
  /\ Chain!TypeOK
  /\ listed \in Seq(RowIds) /\ Len(listed) <= MaxObjects
  /\ bought \subseteq Purchase
  /\ accepting \in BOOLEAN
  /\ row \in [RowIds -> Row \cup {NoRow}]
  /\ buyPtb \in [Wallets -> [row : RowIds, object : Objects] \cup {NoPtb}]
  /\ request \in [Requests -> RequestState]
  /\ reported \subseteq Objects
  /\ faults \in 0..MaxFaults
  /\ overlapped \in BOOLEAN /\ resent \in BOOLEAN

MarketInit ==
  /\ Chain!Init
  /\ listed = <<>> /\ bought = {}
  /\ accepting = TRUE
  /\ row = [l \in RowIds |-> NoRow]
  /\ buyPtb = [u \in Wallets |-> NoPtb]
  /\ request = [q \in Requests |-> Unsent]
  /\ reported = {}
  /\ faults = 0
  /\ overlapped = FALSE /\ resent = FALSE

-----------------------------------------------------------------------------
(* What the handlers and their statements decide, after faulty forms that  *)
(* the properties must tell from them.                                     *)

Rows == {l \in RowIds : row[l] # NoRow}
OpenRows == {l \in Rows : row[l].status \in {"draft", "active"}}

\* validate_listing_target: the match still takes stakes.
validate_listing_target == accepting

\* A variant that forgets what was activated.
has_open_receipt_listingFaulty == \E l \in Rows : row[l].status = "draft"
has_open_receipt_listing == OpenRows # {}

\* build_market_ptb refuses an expired row and looks at nothing else.
CanBuild(l) == clock < Expiry

Buyable(l, u) == CanBuild(l) /\ row[l].seller # u /\ row[l].status = "active"

\* The condition of the UPDATE in mark_receipt_listing_sold.
Markable(l) == row[l].status = "active"

\* The object that a purchase names: the one of the row.  A variant that takes
\* the latest listing of the receipt.
PlannedObjectFaulty(l) == Len(listed)
PlannedObject(l) == row[l].object

-----------------------------------------------------------------------------
(* The chain.                                                              *)

OffChain == UNCHANGED <<accepting, clients, server>>

\* The pool is created, somebody stakes, time passes, the pool is resolved,
\* the winner claims.
ChainStep ==
  /\ \/ Chain!CreatePool(Admin, Pool, Expiry)
     \/ \E u \in Wallets : Chain!Stake(u, Pool, Receipt, 1, Ask)
     \/ Chain!Resolve(Admin, Pool, 1)
     \/ \E u \in Wallets : Chain!Claim(u, Pool, Receipt)
     \/ Chain!Tick
  /\ UNCHANGED market
  /\ OffChain

\* The seller escrows the receipt with the transaction of GET /list-ptb, which
\* any row of its own yields; the guide has it take an open one.
ListOnChain(u, l) ==
  /\ l \in OpenRows /\ row[l].seller = u
  /\ CanBuild(l)
  /\ Len(listed) < MaxObjects
  /\ Chain!ListReceipt(u, Receipt, Ask, Expiry)
  /\ listed' = Append(listed, l)
  /\ UNCHANGED bought
  /\ OffChain

CancelOnChain(u) ==
  /\ Chain!CancelReceiptListing(u, Receipt)
  /\ UNCHANGED market
  /\ OffChain

\* GET /buy-ptb: a plan only for an active row.
GetBuyPtb(u, l) ==
  /\ l \in Rows /\ Buyable(l, u)
  /\ buyPtb' = [buyPtb EXCEPT ![u] = [row |-> l, object |-> PlannedObject(l)]]
  /\ UNCHANGED <<chainVars, market, accepting, reported, server>>

\* The buyer sends it, maybe much later: it names the object, so that it
\* aborts unless this very listing still stands.
BuyOnChain(u) ==
  /\ buyPtb[u] # NoPtb /\ buyPtb[u].object = Len(listed)
  /\ Chain!BuyReceipt(u, Receipt, Ask)
  /\ bought' = bought \cup {[row |-> buyPtb[u].row, object |-> buyPtb[u].object,
                             buyer |-> u]}
  /\ buyPtb' = [buyPtb EXCEPT ![u] = NoPtb]
  /\ UNCHANGED <<listed, accepting, reported, server>>

\* The match is closed: the server settles or cancels it.
CloseMatch ==
  /\ accepting
  /\ accepting' = FALSE
  /\ UNCHANGED <<chainVars, market, clients, server>>

-----------------------------------------------------------------------------
(* Requests: what is read and checked first, then one step per statement.  *)

Receive(q, next) ==
  /\ request[q] = Unsent
  /\ request' = [request EXCEPT ![q] = next]
Continue(q, next) == request' = [request EXCEPT ![q] = next]
OnChain == UNCHANGED <<chainVars, market, accepting, buyPtb>>

\* create_receipt_listing up to its INSERT; that the caller has the receipt is
\* the client's word.
ReceiveCreate(q, u) ==
  /\ Chain!Held(Receipt, u) /\ receipt[Receipt].owner = u
  /\ validate_listing_target
  /\ ~has_open_receipt_listing
  /\ Receive(q, [pc |-> "insert", who |-> u])
  /\ overlapped' = (overlapped \/ \E o \in Requests : request[o].pc = "insert")
  /\ OnChain
  /\ UNCHANGED <<row, faults, reported, resent>>

InsertDraft(q) ==
  /\ request[q].pc = "insert"
  /\ \E l \in RowIds :
       /\ l = Cardinality(Rows) + 1
       /\ row' = [row EXCEPT ![l] =
            [seller |-> request[q].who, buyer |-> NoWallet, object |-> 0,
             status |-> "draft"]]
  /\ Continue(q, Done)
  /\ OnChain
  /\ UNCHANGED <<faults, reported, overlapped, resent>>

\* An activation is in turn if its object is newer than those that were
\* activated before and each of these was answered.
InTurn(o) ==
  /\ \A r \in reported : r < o
  /\ \A p \in Requests : request[p].pc # "activate"

\* activate_receipt_listing up to its UPDATE, of any object that was listed from
\* the row.  The status of the row is not looked at.
ReceiveActivate(q, l, o) ==
  /\ o \in 1..Len(listed) /\ listed[o] = l
  /\ Receive(q, [pc |-> "activate", row |-> l, object |-> o])
  /\ reported' = reported \cup {o}
  /\ resent' = (resent \/ ~InTurn(o))
  /\ OnChain
  /\ UNCHANGED <<row, faults, overlapped>>

Activate(q) ==
  /\ request[q].pc = "activate"
  /\ row' = [row EXCEPT ![request[q].row].status = "active",
                         ![request[q].row].object = request[q].object]
  /\ Continue(q, Done)
  /\ OnChain
  /\ UNCHANGED <<faults, reported, overlapped, resent>>

\* mark_receipt_listing_sold up to its UPDATE, from somebody who bought it.
ReceiveSold(q, u, l) ==
  /\ \E b \in bought : b.buyer = u /\ b.row = l
  /\ row[l].seller # u
  /\ row[l].status = "active"
  /\ Receive(q, [pc |-> "sell", row |-> l, who |-> u])
  /\ OnChain
  /\ UNCHANGED <<row, faults, reported, overlapped, resent>>

\* The UPDATE ... WHERE status = 'active'; no row updated is an error.  The
\* seller's notification decides nothing and is left out.
MarkSold(q) ==
  LET l == request[q].row
  IN  /\ request[q].pc = "sell"
      /\ IF Markable(l)
         THEN /\ row' = [row EXCEPT ![l].status = "sold",
                                    ![l].buyer = request[q].who]
         ELSE UNCHANGED row
      /\ Continue(q, Done)
      /\ OnChain
      /\ UNCHANGED <<faults, reported, overlapped, resent>>

\* A statement fails, or the client hangs up and the handler is dropped.
Fail(q) ==
  /\ faults < MaxFaults
  /\ request[q] \notin {Unsent, Done}
  /\ faults' = faults + 1
  /\ Continue(q, Done)
  /\ OnChain
  /\ UNCHANGED <<row, reported, overlapped, resent>>

MarketNext ==
  \/ ChainStep
  \/ \E u \in Wallets, l \in RowIds : ListOnChain(u, l)
  \/ \E u \in Wallets : CancelOnChain(u)
  \/ \E u \in Wallets, l \in RowIds : GetBuyPtb(u, l)
  \/ \E u \in Wallets : BuyOnChain(u)
  \/ CloseMatch
  \/ \E q \in Requests :
       \/ \E u \in Wallets : ReceiveCreate(q, u)
       \/ InsertDraft(q)
       \/ \E l \in RowIds, o \in Objects : ReceiveActivate(q, l, o)
       \/ Activate(q)
       \/ \E u \in Wallets, l \in RowIds : ReceiveSold(q, u, l)
       \/ MarkSold(q)
       \/ Fail(q)

MarketSpec == MarketInit /\ [][MarketNext]_marketVars

-----------------------------------------------------------------------------
(* Properties.                                                             *)

\* A row that is marked sold was bought on chain: the very object it shows, by
\* the buyer it shows, although the object of a row may change as often as the
\* seller lists again and a buyer reports when it likes: unless two drafts were
\* created at the same time or an activation was sent again or out of order,
\* which the handler takes even for a row that is sold.
SoldRowWasBought ==
  (~overlapped /\ ~resent) =>
    \A l \in Rows :
      row[l].status = "sold" =>
        [row |-> l, object |-> row[l].object, buyer |-> row[l].buyer] \in bought

\* Who advertises the receipt owns it, unless its purchase has yet to be marked
\* or two drafts were created at the same time (the EXISTS and the INSERT of a
\* draft are two statements) or an activation was sent out of turn.
OpenRowIsOwners ==
  (~overlapped /\ ~resent) =>
    \A l \in OpenRows :
      \/ receipt[Receipt].owner = row[l].seller
      \/ \E b \in bought : b.row = l
=============================================================================
