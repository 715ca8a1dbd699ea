------------------------- MODULE StakingPoolProofs --------------------------
(***************************************************************************)
(* Proofs about the pool contract for every set of accounts, pools,        *)
(* receipts and amounts: type correctness, the tie between a listing and   *)
(* the receipt it escrows, that every pool implements Escrow, that the     *)
(* books balance, that the vault covers every receipt that can still be    *)
(* redeemed, that each redemption paid the fair share, that rounding       *)
(* strands less than a unit per winner, and that the last quote is         *)
(* honoured.                                                               *)
(***************************************************************************)
EXTENDS StakingPool, UnitSumProofs

\* Nothing leaves a pool that is not settled, and a verdict is set exactly by
\* its resolution: what Escrow needs to know of a pool before a step.
PoolBooks ==
  \A p \in Pools :
    /\ status[p] \in {"none", "open"} => vault[p] = Pot(p)
    /\ status[p] = "none" => Pot(p) = 0
    /\ status[p] = "resolved" <=> winning[p] \in Outcomes

IInv == TypeOK /\ SellerIsOwner /\ PoolBooks

LEMMA MintedReceipt ==
  ASSUME TypeOK, NEW r \in Minted
  PROVE  r \in Receipts /\ receipt[r] \in StakeReceipt
  BY DEF TypeOK, Minted

LEMMA InitIInv == Init => IInv
<1> SUFFICES ASSUME Init PROVE IInv
  OBVIOUS
<1> USE StakingPoolAssumption DEF Init
<1>1. TypeOK
  BY DEF TypeOK, Outcomes
<1>2. SellerIsOwner
  BY DEF SellerIsOwner, Minted
<1>3. PoolBooks
  BY DEF PoolBooks, Pot, Outcomes
<1> QED
  BY <1>1, <1>2, <1>3 DEF IInv

LEMMA CreatePoolKeepsIInv ==
  ASSUME IInv, NEW u \in Users, NEW p \in Pools, NEW d \in Deadlines,
         CreatePool(u, p, d)
  PROVE  IInv'
<1> USE StakingPoolAssumption DEF IInv, CreatePool
<1>1. TypeOK'
  BY DEF TypeOK
<1>2. SellerIsOwner'
  BY DEF SellerIsOwner, Minted
<1>3. PoolBooks'
  BY DEF PoolBooks, Pot, Outcomes, TypeOK
<1> QED
  BY <1>1, <1>2, <1>3 DEF IInv

\* stake: the quoted odds are positive because the stake itself is.
LEMMA StakeKeepsIInv ==
  ASSUME IInv, NEW u \in Users, NEW p \in Pools, NEW r \in Receipts,
         NEW o \in Outcomes, NEW a \in Amounts, Stake(u, p, r, o, a)
  PROVE  IInv'
<1> USE StakingPoolAssumption DEF IInv, Stake, StakingOpen, PositiveAmount
<1> DEFINE new ==
      [pool |-> p, owner |-> u, outcome |-> o, amount |-> a,
       num |-> QuotedOdds(p, o, a)[1], den |-> QuotedOdds(p, o, a)[2],
       holder |-> u, at |-> "wallet"]
<1>1. /\ total[p] \in [Outcomes -> Nat] /\ vault[p] \in Nat
      /\ a \in Nat \ {0}
  BY DEF TypeOK
<1>2. Pot(p) \in Nat /\ total[p][o] \in Nat
  BY <1>1 DEF Pot, Outcomes
<1>3. new \in StakeReceipt
  BY <1>1, <1>2 DEF StakeReceipt, QuotedOdds
<1>4. receipt' = [receipt EXCEPT ![r] = new]
  OBVIOUS
<1>5. TypeOK'
  BY <1>1, <1>2, <1>3, <1>4 DEF TypeOK
<1>6. SellerIsOwner'
  BY <1>3, <1>4 DEF SellerIsOwner, Minted, TypeOK
<1>7. PoolBooks'
  BY <1>1 DEF PoolBooks, Pot, Outcomes, TypeOK
<1> QED
  BY <1>5, <1>6, <1>7 DEF IInv

\* A step that only moves receipts between wallets and listings.
LEMMA BooksFrame ==
  ASSUME PoolBooks, UNCHANGED poolVars
  PROVE  PoolBooks'
  BY DEF PoolBooks, Pot, poolVars

LEMMA PublicTransferKeepsIInv ==
  ASSUME IInv, NEW u \in Users, NEW r \in Receipts, NEW v \in Users,
         PublicTransfer(u, r, v)
  PROVE  IInv'
<1> USE StakingPoolAssumption DEF IInv, PublicTransfer, Held
<1>1. receipt[r] \in StakeReceipt
  BY MintedReceipt
<1>2. receipt' = [receipt EXCEPT ![r] = [receipt[r] EXCEPT !.holder = v]]
  OBVIOUS
<1>3. [receipt[r] EXCEPT !.holder = v] \in StakeReceipt
  BY <1>1 DEF StakeReceipt
<1>4. TypeOK'
  BY <1>2, <1>3 DEF TypeOK, poolVars
<1>5. SellerIsOwner'
  BY <1>1, <1>2, <1>3 DEF SellerIsOwner, Minted, TypeOK, StakeReceipt
<1> QED
  BY <1>4, <1>5, BooksFrame DEF IInv

LEMMA ResolveKeepsIInv ==
  ASSUME IInv, NEW u \in Users, NEW p \in Pools, NEW o \in Outcomes,
         Resolve(u, p, o)
  PROVE  IInv'
<1> USE StakingPoolAssumption DEF IInv, Resolve
<1>1. TypeOK'
  BY DEF TypeOK
<1>2. SellerIsOwner'
  BY DEF SellerIsOwner, Minted
<1>3. PoolBooks'
  BY DEF PoolBooks, Pot, TypeOK
<1> QED
  BY <1>1, <1>2, <1>3 DEF IInv

LEMMA CancelKeepsIInv ==
  ASSUME IInv, NEW u \in Users, NEW p \in Pools, Cancel(u, p)
  PROVE  IInv'
<1> USE StakingPoolAssumption DEF IInv, Cancel
<1>1. TypeOK'
  BY DEF TypeOK
<1>2. SellerIsOwner'
  BY DEF SellerIsOwner, Minted
<1>3. PoolBooks'
  BY DEF PoolBooks, Pot, TypeOK
<1> QED
  BY <1>1, <1>2, <1>3 DEF IInv

\* Redeeming a held receipt for x, at a pool that is no longer open.
LEMMA PayReceiptKeepsIInv ==
  ASSUME IInv, NEW u \in Users, NEW p \in Pools, NEW r \in Receipts, NEW x \in Nat,
         Held(r, u), status[p] \in {"resolved", "cancelled"}, PayReceipt(p, r, x)
  PROVE  IInv'
<1> USE StakingPoolAssumption DEF IInv, PayReceipt, Held
<1>1. receipt[r] \in StakeReceipt /\ vault[p] \in Nat
  BY MintedReceipt DEF TypeOK
<1>2. receipt' = [receipt EXCEPT ![r] = [receipt[r] EXCEPT !.at = "deleted"]]
  OBVIOUS
<1>3. [receipt[r] EXCEPT !.at = "deleted"] \in StakeReceipt
  BY <1>1 DEF StakeReceipt
<1>4. TypeOK'
  BY <1>1, <1>2, <1>3 DEF TypeOK
<1>5. SellerIsOwner'
  BY <1>1, <1>2, <1>3 DEF SellerIsOwner, Minted, TypeOK, StakeReceipt
<1>6. PoolBooks'
  BY DEF PoolBooks, Pot, TypeOK
<1> QED
  BY <1>4, <1>5, <1>6 DEF IInv

\* What claim pays is an amount: a division is by a positive side total.
LEMMA ClaimPayoutType ==
  ASSUME IInv, NEW u \in Users, NEW p \in Pools, NEW r \in Receipts, Claim(u, p, r)
  PROVE  ClaimPayout(p, r) \in Nat
<1> USE DEF IInv, Claim
<1>1. winning[p] \in Outcomes /\ total[p] \in [Outcomes -> Nat]
  BY DEF PoolBooks, TypeOK
<1>2. Pot(p) \in Nat /\ winning_total(p) \in Nat
  BY <1>1 DEF Pot, Outcomes, winning_total
<1>3. receipt[r].amount \in Nat
  BY MintedReceipt DEF Held, StakeReceipt
<1>4. \A a, t \in Nat : a * t \in Nat
  OBVIOUS
<1>5. \A n \in Nat, w \in Nat \ {0} : n \div w \in Nat
  OBVIOUS
<1> QED
  BY <1>2, <1>3, <1>4, <1>5 DEF ClaimPayout

LEMMA ClaimKeepsIInv ==
  ASSUME IInv, NEW u \in Users, NEW p \in Pools, NEW r \in Receipts, Claim(u, p, r)
  PROVE  IInv'
  BY ClaimPayoutType, PayReceiptKeepsIInv DEF Claim

LEMMA RefundKeepsIInv ==
  ASSUME IInv, NEW u \in Users, NEW p \in Pools, NEW r \in Receipts, Refund(u, p, r)
  PROVE  IInv'
<1>1. receipt[r].amount \in Nat
  BY MintedReceipt DEF Refund, Held, StakeReceipt, IInv
<1> QED
  BY <1>1, PayReceiptKeepsIInv DEF Refund, is_one_sided_resolved_pool

\* The seller of a new listing is the sender, whom list_receipt compared with
\* the owner field.
LEMMA ListReceiptKeepsIInv ==
  ASSUME IInv, NEW u \in Users, NEW r \in Receipts, NEW ask \in Amounts,
         NEW d \in Deadlines, ListReceipt(u, r, ask, d)
  PROVE  IInv'
<1> USE StakingPoolAssumption DEF IInv, ListReceipt, Held, MayList
<1> DEFINE new == [seller |-> u, ask |-> ask, expires |-> d]
<1>1. receipt[r] \in StakeReceipt
  BY MintedReceipt
<1>2. receipt' = [receipt EXCEPT ![r] = [receipt[r] EXCEPT !.at = "listing"]]
  OBVIOUS
<1>3. [receipt[r] EXCEPT !.at = "listing"] \in StakeReceipt
  BY <1>1 DEF StakeReceipt
<1>4. listing' = [listing EXCEPT ![r] = new] /\ new \in ReceiptListing
  BY DEF ReceiptListing
<1>5. TypeOK'
  BY <1>2, <1>3, <1>4 DEF TypeOK, poolVars
<1>6. SellerIsOwner'
  BY <1>1, <1>2, <1>3, <1>4 DEF SellerIsOwner, Minted, TypeOK, StakeReceipt
<1> QED
  BY <1>5, <1>6, BooksFrame DEF IInv

\* A sale or a withdrawal gives the escrowed receipt to u.
LEMMA UnlistKeepsIInv ==
  ASSUME IInv, NEW u \in Users, NEW v \in Users, NEW r \in Receipts,
         listing[r] # NoListing, Unlist(r, u, v)
  PROVE  IInv'
<1> USE StakingPoolAssumption DEF IInv, Unlist
<1> DEFINE new == [receipt[r] EXCEPT !.at = "wallet", !.holder = u, !.owner = v]
<1>1. receipt[r] \in StakeReceipt
  BY MintedReceipt DEF SellerIsOwner
<1>2. receipt' = [receipt EXCEPT ![r] = new]
  OBVIOUS
<1>3. new \in StakeReceipt
  BY <1>1 DEF StakeReceipt
<1>4. TypeOK'
  BY <1>2, <1>3 DEF TypeOK, poolVars
<1>5. SellerIsOwner'
  BY <1>1, <1>2, <1>3 DEF SellerIsOwner, Minted, TypeOK, StakeReceipt
<1> QED
  BY <1>4, <1>5, BooksFrame DEF IInv

LEMMA CancelReceiptListingKeepsIInv ==
  ASSUME IInv, NEW u \in Users, NEW r \in Receipts, CancelReceiptListing(u, r)
  PROVE  IInv'
<1>1. receipt[r].owner \in Users /\ listing[r].seller \in Users
  BY MintedReceipt
     DEF IInv, CancelReceiptListing, SellerIsOwner, StakeReceipt
<1> QED
  BY <1>1, UnlistKeepsIInv DEF CancelReceiptListing

\* A step of the clock, or a stutter.
LEMMA ClockKeepsIInv ==
  ASSUME IInv, clock' \in Nat, UNCHANGED <<poolVars, receipt, listing, paid>>
  PROVE  IInv'
<1>1. TypeOK'
  BY DEF IInv, TypeOK, poolVars
<1>2. SellerIsOwner'
  BY DEF IInv, SellerIsOwner, Minted
<1> QED
  BY <1>1, <1>2, BooksFrame DEF IInv

LEMMA NextKeepsIInv == IInv /\ [Next]_vars => IInv'
<1> SUFFICES ASSUME IInv, [Next]_vars PROVE IInv'
  OBVIOUS
<1>1. CASE \E u \in Users, p \in Pools, d \in Deadlines : CreatePool(u, p, d)
  BY <1>1, CreatePoolKeepsIInv
<1>2. CASE \E u \in Users, p \in Pools, r \in Receipts, o \in Outcomes,
              a \in Amounts : Stake(u, p, r, o, a)
  BY <1>2, StakeKeepsIInv
<1>3. CASE \E u \in Users, r \in Receipts, v \in Users : PublicTransfer(u, r, v)
  BY <1>3, PublicTransferKeepsIInv
<1>4. CASE \E u \in Users, p \in Pools, o \in Outcomes : Resolve(u, p, o)
  BY <1>4, ResolveKeepsIInv
<1>5. CASE \E u \in Users, p \in Pools : Cancel(u, p)
  BY <1>5, CancelKeepsIInv
<1>6. CASE \E u \in Users, p \in Pools, r \in Receipts : Claim(u, p, r)
  BY <1>6, ClaimKeepsIInv
<1>7. CASE \E u \in Users, p \in Pools, r \in Receipts : Refund(u, p, r)
  BY <1>7, RefundKeepsIInv
<1>8. CASE \E u \in Users, r \in Receipts, ask \in Amounts, d \in Deadlines :
             ListReceipt(u, r, ask, d)
  BY <1>8, ListReceiptKeepsIInv
<1>9. CASE \E u \in Users, r \in Receipts, pay \in Amounts : BuyReceipt(u, r, pay)
  BY <1>9, UnlistKeepsIInv DEF BuyReceipt
<1>10. CASE \E u \in Users, r \in Receipts : CancelReceiptListing(u, r)
  BY <1>10, CancelReceiptListingKeepsIInv
<1>11. CASE Tick
  BY <1>11, ClockKeepsIInv DEF Tick, IInv, TypeOK
<1>12. CASE UNCHANGED vars
  BY <1>12, ClockKeepsIInv DEF vars, IInv, TypeOK
<1> QED
  BY <1>1, <1>2, <1>3, <1>4, <1>5, <1>6, <1>7, <1>8, <1>9, <1>10, <1>11, <1>12
     DEF Next

LEMMA Invariance == Spec => []IInv
<1> QED
  BY InitIInv, NextKeepsIInv, PTL DEF Spec

\* Every pool, receipt and listing object always has fields of its type; the
\* quoted odds are always a positive ratio.
THEOREM TypeCorrect == Spec => []TypeOK
<1>1. IInv => TypeOK
  BY DEF IInv
<1> QED
  BY <1>1, Invariance, PTL

\* However receipts are given away, a receipt for sale is the seller's.
THEOREM ListingsAreOwned == Spec => []SellerIsOwner
<1>1. IInv => SellerIsOwner
  BY DEF IInv
<1> QED
  BY <1>1, Invariance, PTL

-----------------------------------------------------------------------------
(* Every pool implements an escrow account.                                *)

\* The escrow variables, one pool at a time.
LEMMA MappedAt ==
  ASSUME NEW p \in Pools
  PROVE  /\ Phases[p] = PoolPhase(p) /\ Phases'[p] = PoolPhase(p)'
         /\ AllTaken[p] = Pot(p) /\ AllTaken'[p] = Pot(p)'
         /\ AllGiven[p] = Pot(p) - vault[p]
         /\ AllGiven'[p] = Pot(p)' - vault'[p]
  BY DEF Phases, AllTaken, AllGiven

\* A step on pool p changes the escrow variables at p only.
LEMMA FrameMaps ==
  ASSUME NEW p \in Pools,
         \A q \in Pools \ {p} : /\ status'[q] = status[q]
                                /\ total'[q] = total[q]
                                /\ vault'[q] = vault[q]
  PROVE  /\ Phases' = [Phases EXCEPT ![p] = Phases'[p]]
         /\ AllTaken' = [AllTaken EXCEPT ![p] = AllTaken'[p]]
         /\ AllGiven' = [AllGiven EXCEPT ![p] = AllGiven'[p]]
<1>1. \A q \in Pools \ {p} : PoolPhase(q)' = PoolPhase(q) /\ Pot(q)' = Pot(q)
  BY DEF PoolPhase, Pot
<1>2. Phases' = [Phases EXCEPT ![p] = Phases'[p]]
  BY <1>1 DEF Phases
<1>3. AllTaken' = [AllTaken EXCEPT ![p] = AllTaken'[p]]
  BY <1>1 DEF AllTaken
<1>4. AllGiven' = [AllGiven EXCEPT ![p] = AllGiven'[p]]
  BY <1>1 DEF AllGiven
<1> QED
  BY <1>2, <1>3, <1>4

\* A step that changes no pool changes no account.
LEMMA SameMaps ==
  /\ UNCHANGED status => UNCHANGED Phases
  /\ UNCHANGED total => UNCHANGED AllTaken
  /\ UNCHANGED <<total, vault>> => UNCHANGED AllGiven
  BY DEF Phases, AllTaken, AllGiven, PoolPhase, Pot

\* No pool exists at first, and no account of the escrow.
LEMMA InitRefines == Init => PoolEscrow!Init
  BY DEF Init, PoolEscrow!Init, Phases, AllTaken, AllGiven, PoolPhase, Pot, Outcomes

\* create_pool opens an empty account.
LEMMA CreatePoolRefines ==
  ASSUME IInv, NEW u \in Users, NEW p \in Pools, NEW d \in Deadlines,
         CreatePool(u, p, d)
  PROVE  PoolEscrow!Open(p)
<1> USE DEF IInv, CreatePool
<1>1. Phases[p] = "none" /\ Phases'[p] = "open"
  BY MappedAt DEF PoolPhase, TypeOK
<1>2. AllTaken[p] = 0
  BY MappedAt DEF PoolBooks
<1>3. \A q \in Pools \ {p} : status'[q] = status[q]
  BY DEF TypeOK
<1> QED
  BY FrameMaps, SameMaps, <1>1, <1>2, <1>3 DEF PoolEscrow!Open

\* stake takes a positive amount in, and gives none out.
LEMMA StakeRefines ==
  ASSUME IInv, NEW u \in Users, NEW p \in Pools, NEW r \in Receipts,
         NEW o \in Outcomes, NEW a \in Amounts, Stake(u, p, r, o, a)
  PROVE  PoolEscrow!TakeIn(p)
<1> USE StakingPoolAssumption DEF IInv, Stake, StakingOpen, PositiveAmount
<1>1. a \in Nat \ {0} /\ vault[p] \in Nat /\ total[p] \in [Outcomes -> Nat]
  BY DEF TypeOK
<1>2. /\ Pot(p) \in Nat /\ Pot(p)' = Pot(p) + a
      /\ vault'[p] = vault[p] + a
  BY <1>1 DEF Pot, Outcomes, TypeOK
<1>3. Phases[p] = "open"
  BY MappedAt DEF PoolPhase
<1>4. AllTaken[p] < AllTaken'[p] /\ AllGiven'[p] = AllGiven[p]
  BY <1>1, <1>2, MappedAt
<1>5. \A q \in Pools \ {p} : total'[q] = total[q] /\ vault'[q] = vault[q]
  BY DEF TypeOK
<1>6. AllTaken' = [AllTaken EXCEPT ![p] = AllTaken'[p]]
  BY FrameMaps, <1>5
<1>7. AllGiven' = [AllGiven EXCEPT ![p] = AllGiven'[p]]
  BY FrameMaps, <1>5
<1>8. AllGiven' = AllGiven
  BY <1>4, <1>7 DEF AllGiven
<1> QED
  BY SameMaps, <1>3, <1>4, <1>6, <1>8 DEF PoolEscrow!TakeIn

\* resolve settles the account with a verdict that it never had before.
LEMMA ResolveRefines ==
  ASSUME IInv, NEW u \in Users, NEW p \in Pools, NEW o \in Outcomes,
         Resolve(u, p, o)
  PROVE  PoolEscrow!Settle(p)
<1> USE DEF IInv, Resolve
<1>1. Phases[p] = "open" /\ Phases'[p] = "settled"
  BY MappedAt DEF PoolPhase, TypeOK
<1>2. winning'[p] = o
  BY DEF TypeOK
<1>3. AllGiven[p] = 0 /\ AllTaken[p] \in Nat
  BY MappedAt DEF PoolBooks, TypeOK, Pot, Outcomes
<1>4. Phases' = [Phases EXCEPT ![p] = "settled"]
  <2>1. \A q \in Pools \ {p} : status'[q] = status[q]
    BY DEF TypeOK
  <2> QED
    BY FrameMaps, <1>1, <2>1
<1>5. AllTaken' = AllTaken /\ AllGiven' = AllGiven
  BY SameMaps
<1>6. PoolEscrow!PayOut(p)
  BY <1>3, <1>5 DEF PoolEscrow!PayOut, AllGiven
<1> QED
  BY <1>1, <1>2, <1>4, <1>5, <1>6 DEF PoolEscrow!Settle

\* cancel voids the account.
LEMMA CancelRefines ==
  ASSUME IInv, NEW u \in Users, NEW p \in Pools, Cancel(u, p)
  PROVE  PoolEscrow!Void(p)
<1> USE DEF IInv, Cancel
<1>1. Phases[p] = "open" /\ Phases'[p] = "void"
  BY MappedAt DEF PoolPhase, TypeOK
<1>2. AllGiven[p] = 0 /\ AllTaken[p] \in Nat
  BY MappedAt DEF PoolBooks, TypeOK, Pot, Outcomes
<1>3. \A q \in Pools \ {p} : status'[q] = status[q]
  BY DEF TypeOK
<1> QED
  BY FrameMaps, SameMaps, <1>1, <1>2, <1>3 DEF PoolEscrow!Void, PoolEscrow!PayOut

\* claim and refund give out no more than the vault holds.
LEMMA PayReceiptRefines ==
  ASSUME IInv, NEW p \in Pools, NEW r \in Receipts, NEW x \in Nat,
         status[p] \in {"resolved", "cancelled"}, PayReceipt(p, r, x)
  PROVE  PoolEscrow!GiveOut(p)
<1> USE DEF IInv, PayReceipt
<1>1. Phases[p] \in {"settled", "void"}
  BY MappedAt DEF PoolPhase
<1>2. vault[p] \in Nat /\ vault'[p] = vault[p] - x /\ vault'[p] >= 0
  BY DEF TypeOK
<1>3. Pot(p) \in Nat /\ Pot(p)' = Pot(p)
  BY DEF TypeOK, Pot, Outcomes
<1>4. AllGiven[p] <= AllGiven'[p] /\ AllGiven'[p] <= AllTaken[p]
  BY <1>2, <1>3, MappedAt
<1>5. \A q \in Pools \ {p} : vault'[q] = vault[q]
  BY DEF TypeOK
<1> QED
  BY FrameMaps, SameMaps, <1>1, <1>4, <1>5 DEF PoolEscrow!GiveOut, PoolEscrow!PayOut

LEMMA ClaimRefines ==
  ASSUME IInv, NEW u \in Users, NEW p \in Pools, NEW r \in Receipts, Claim(u, p, r)
  PROVE  PoolEscrow!GiveOut(p)
  BY ClaimPayoutType, PayReceiptRefines DEF Claim

LEMMA RefundRefines ==
  ASSUME IInv, NEW u \in Users, NEW p \in Pools, NEW r \in Receipts, Refund(u, p, r)
  PROVE  PoolEscrow!GiveOut(p)
<1>1. receipt[r].amount \in Nat
  BY MintedReceipt DEF Refund, Held, StakeReceipt, IInv
<1> QED
  BY <1>1, PayReceiptRefines DEF Refund, is_one_sided_resolved_pool

\* Gifts, listings, sales and the clock are invisible in the escrow.
LEMMA MarketRefines == UNCHANGED poolVars => UNCHANGED PoolEscrow!vars
  BY SameMaps DEF poolVars, PoolEscrow!vars

LEMMA NextRefines == IInv /\ [Next]_vars => [PoolEscrow!Next]_PoolEscrow!vars
<1> SUFFICES ASSUME IInv, [Next]_vars PROVE [PoolEscrow!Next]_PoolEscrow!vars
  OBVIOUS
<1>1. CASE \E u \in Users, p \in Pools, d \in Deadlines : CreatePool(u, p, d)
  BY <1>1, CreatePoolRefines DEF PoolEscrow!Next
<1>2. CASE \E u \in Users, p \in Pools, r \in Receipts, o \in Outcomes,
              a \in Amounts : Stake(u, p, r, o, a)
  BY <1>2, StakeRefines DEF PoolEscrow!Next
<1>3. CASE \E u \in Users, p \in Pools, o \in Outcomes : Resolve(u, p, o)
  BY <1>3, ResolveRefines DEF PoolEscrow!Next
<1>4. CASE \E u \in Users, p \in Pools : Cancel(u, p)
  BY <1>4, CancelRefines DEF PoolEscrow!Next
<1>5. CASE \E u \in Users, p \in Pools, r \in Receipts : Claim(u, p, r)
  BY <1>5, ClaimRefines DEF PoolEscrow!Next
<1>6. CASE \E u \in Users, p \in Pools, r \in Receipts : Refund(u, p, r)
  BY <1>6, RefundRefines DEF PoolEscrow!Next
<1>7. CASE UNCHANGED poolVars
  BY <1>7, MarketRefines
<1> QED
  BY <1>1, <1>2, <1>3, <1>4, <1>5, <1>6, <1>7
     DEF Next, PublicTransfer, ListReceipt, BuyReceipt, CancelReceiptListing,
         Unlist, Tick, vars

\* Every pool is an escrow account: no stake after its settlement, one
\* settlement for ever, and never more out than in.
THEOREM PoolImplementsEscrow == Spec => ImplementsEscrow
<1> QED
  BY InitRefines, NextRefines, Invariance, PTL
     DEF Spec, ImplementsEscrow, PoolEscrow!Spec

-----------------------------------------------------------------------------
(* The money.  A sum over receipts grows by one receipt at a time, with    *)
(* each stake, so the invariant of the contract itself bounds the sum of   *)
(* the rounded shares, for every pot and every side total that may come:   *)
(* SharesBounded holds while stakes arrive, and says at the settlement, of *)
(* the pot and the side total of that moment, what Solvent and DustBound   *)
(* need.                                                                   *)

Share(a, t, w) == (a * t) \div w
Shares(p, o, t, w) ==
  SumOf(Side(p, o), [r \in Side(p, o) |-> Share(receipt[r].amount, t, w)])

\* Rounding loses nothing on the wrong side, and less than w per receipt.
SharesBounded(p, o) ==
  \A t \in Nat, w \in Nat \ {0} :
    /\ w * Shares(p, o, t, w) <= t * total[p][o]
    /\ t * total[p][o] <= w * Shares(p, o, t, w) + (w - 1) * Cardinality(Side(p, o))

SideSum(p, o) ==
  total[p][o] = SumOf(Side(p, o), [r \in Side(p, o) |-> receipt[r].amount])
VaultSum(p) == vault[p] = Pot(p) - SumOf(IssuedBy(p), paid)

\* Before its settlement a pool owes every receipt its amount.
AllLive(p) ==
  status[p] \in {"none", "open"} => Live(p) = IssuedBy(p) /\ vault[p] = Claims(p)

FairlyPaid(p) ==
  \A r \in IssuedBy(p) \ Live(p) :
    IF status[p] = "cancelled" \/ OneSided(p)
    THEN paid[r] = receipt[r].amount
    ELSE /\ receipt[r].outcome = winning[p]
         /\ IsFloorShare(paid[r], receipt[r].amount, Pot(p), total[p][winning[p]])

Dust(p) ==
  status[p] = "resolved" /\ Side(p, winning[p]) # {} =>
    vault[p] - Claims(p) < Cardinality(Side(p, winning[p]))

\* Every stake moves the pot, so a quote of the present pot is the last one.
Quoted(p) ==
  \A r \in IssuedBy(p) :
    /\ receipt[r].num <= Pot(p)
    /\ receipt[r].num = Pot(p) => receipt[r].den = total[p][receipt[r].outcome]

Sound(p) ==
  /\ \A o \in Outcomes : SharesBounded(p, o) /\ SideSum(p, o)
  /\ VaultSum(p) /\ AllLive(p) /\ vault[p] >= Claims(p)
  /\ FairlyPaid(p) /\ Dust(p) /\ Quoted(p)

\* A receipt that was not redeemed was not paid.
Unpaid == \A r \in Receipts : r \notin Minted \/ receipt[r].at # "deleted" => paid[r] = 0

\* The inductive invariant.
Money == IInv /\ Unpaid /\ \A p \in Pools : Sound(p)

-----------------------------------------------------------------------------
(* Arithmetic.                                                             *)

\* The quotient is the only floor share.
LEMMA OneFloor ==
  ASSUME NEW n \in Nat, NEW w \in Nat \ {0}, NEW x \in Nat, NEW y \in Nat,
         x * w <= n, n < (x + 1) * w, y * w <= n, n < (y + 1) * w
  PROVE  x = y
<1>1. \A a, b \in Nat : a + 1 <= b => (a + 1) * w <= b * w
  OBVIOUS
<1>2. x * w \in Nat /\ y * w \in Nat /\ (x + 1) * w \in Nat /\ (y + 1) * w \in Nat
  BY Product
<1>3. ~(x + 1 <= y)
  BY <1>1, <1>2
<1>4. ~(y + 1 <= x)
  BY <1>1, <1>2
<1> QED
  BY <1>3, <1>4

LEMMA ShareIsFloor ==
  ASSUME NEW a \in Nat, NEW t \in Nat, NEW w \in Nat \ {0}
  PROVE  Share(a, t, w) \in Nat /\ IsFloorShare(Share(a, t, w), a, t, w)
<1>1. PICK n \in Nat : n = a * t
  BY Product
<1>2. PICK q \in Nat : q = n \div w
  BY Division
<1>3. w * q <= n /\ n < w * q + w
  BY <1>2, Division
<1>4. q * w = w * q /\ (q + 1) * w = w * q + w
  OBVIOUS
<1> QED
  BY <1>1, <1>2, <1>3, <1>4 DEF Share, IsFloorShare

\* A side that has everything shares out each stake itself.
LEMMA WholeShare ==
  ASSUME NEW a \in Nat, NEW w \in Nat \ {0} PROVE Share(a, w, w) = a
<1>1. Share(a, w, w) \in Nat /\ IsFloorShare(Share(a, w, w), a, w, w)
  BY ShareIsFloor
<1>2. a * w \in Nat /\ a * w <= a * w /\ a * w < (a + 1) * w
  BY Product
<1> QED
  BY <1>1, <1>2, OneFloor DEF IsFloorShare

\* One more share keeps the bounds.
LEMMA BoundsGrow ==
  ASSUME NEW t \in Nat, NEW w \in Nat \ {0}, NEW s \in Nat, NEW n \in Nat,
         NEW c \in Nat, NEW a \in Nat,
         w * s <= t * n, t * n <= w * s + (w - 1) * c
  PROVE  /\ w * (s + Share(a, t, w)) <= t * (n + a)
         /\ t * (n + a) <= w * (s + Share(a, t, w)) + (w - 1) * (c + 1)
<1>1. PICK q \in Nat : q = Share(a, t, w) /\ q * w <= a * t /\ a * t < (q + 1) * w
  BY ShareIsFloor DEF IsFloorShare
<1>2. w * (s + q) = w * s + q * w /\ t * (n + a) = t * n + a * t
  OBVIOUS
<1>3. (w - 1) * (c + 1) = (w - 1) * c + w - 1 /\ (q + 1) * w = q * w + w
  OBVIOUS
<1>4. /\ w * s \in Nat /\ t * n \in Nat /\ q * w \in Nat /\ a * t \in Nat
      /\ (w - 1) * c \in Nat
  BY Product
<1> QED
  BY <1>1, <1>2, <1>3, <1>4

\* What the bounds say when the side total divides the pot.
LEMMA BoundsAtSettlement ==
  ASSUME NEW t \in Nat, NEW w \in Nat \ {0}, NEW s \in Nat, NEW c \in Nat,
         w * s <= t * w, t * w <= w * s + (w - 1) * c
  PROVE  s <= t /\ (c > 0 => t - s < c)
<1>1. ASSUME s > t PROVE FALSE
  <2>1. (t + 1) * w <= s * w
    BY <1>1
  <2> QED
    BY <2>1, Product
<1>2. ASSUME c > 0, t - s >= c PROVE FALSE
  <2>1. t >= s + c
    BY <1>2
  <2>2. (s + c) * w <= t * w
    BY <2>1
  <2>3. (s + c) * w = w * s + c * w /\ (w - 1) * c = c * w - c
    OBVIOUS
  <2> QED
    BY <1>2, <2>2, <2>3, Product
<1> QED
  BY <1>1, <1>2

-----------------------------------------------------------------------------
(* Receipts of a pool.                                                     *)

LEMMA PoolSets ==
  ASSUME TypeOK, NEW p \in Pools
  PROVE  /\ IsFiniteSet(IssuedBy(p)) /\ IsFiniteSet(Live(p))
         /\ IssuedBy(p) \subseteq Receipts /\ Live(p) \subseteq IssuedBy(p)
         /\ \A o \in Outcomes : /\ IsFiniteSet(Side(p, o))
                               /\ Side(p, o) \subseteq IssuedBy(p)
                               /\ Cardinality(Side(p, o)) \in Nat
<1>1. /\ IssuedBy(p) \subseteq Receipts /\ Live(p) \subseteq IssuedBy(p)
      /\ \A o \in Outcomes : Side(p, o) \subseteq IssuedBy(p)
  BY DEF IssuedBy, Minted, Live, Side
<1> QED
  BY <1>1, StakingPoolAssumption, FS_Subset, FS_CardinalityType

LEMMA IssuedReceipt ==
  ASSUME TypeOK, NEW p \in Pools, NEW r \in IssuedBy(p)
  PROVE  /\ r \in Receipts /\ r \in Minted /\ receipt[r] \in StakeReceipt
         /\ receipt[r].pool = p
         /\ receipt[r].outcome \in Outcomes /\ receipt[r].amount \in Nat \ {0}
         /\ receipt[r].num \in Nat \ {0} /\ receipt[r].den \in Nat \ {0}
BY MintedReceipt DEF IssuedBy, StakeReceipt

LEMMA PoolTypes ==
  ASSUME TypeOK, NEW p \in Pools
  PROVE  /\ total[p] \in [Outcomes -> Nat] /\ total[p][1] \in Nat /\ total[p][2] \in Nat
         /\ vault[p] \in Nat /\ Pot(p) \in Nat /\ winning[p] \in Outcomes \cup {0}
BY DEF TypeOK, Outcomes, Pot

\* What a receipt is owed is an amount, at most a side that has something.
LEMMA OwedType ==
  ASSUME IInv, NEW p \in Pools, NEW r \in IssuedBy(p) PROVE Owed(p, r) \in Nat
<1>1. TypeOK /\ receipt[r].amount \in Nat /\ Pot(p) \in Nat
  BY IssuedReceipt, PoolTypes DEF IInv
<1>2. ASSUME status[p] = "resolved" PROVE ClaimPayout(p, r) \in Nat
  <2>1. winning[p] \in Outcomes
    BY <1>2 DEF IInv, PoolBooks
  <2>2. winning_total(p) \in Nat
    BY <1>1, <2>1, PoolTypes DEF winning_total
  <2> QED
    BY <1>1, <2>2, Product, Division DEF ClaimPayout
<1> QED
  BY <1>1, <1>2 DEF Owed

LEMMA ClaimsType ==
  ASSUME IInv, NEW p \in Pools PROVE Claims(p) \in Nat
<1>1. TypeOK
  BY DEF IInv
<1>2. PICK f : f = [r \in Live(p) |-> Owed(p, r)]
  OBVIOUS
<1>3. \A r \in Live(p) : f[r] \in Nat
  BY <1>1, <1>2, PoolSets, OwedType
<1> QED
  BY <1>1, <1>2, <1>3, PoolSets, SumType DEF Claims

-----------------------------------------------------------------------------
(* Steps that leave a pool and what its receipts stand for alone.          *)

Standing(p) ==
  /\ status'[p] = status[p] /\ winning'[p] = winning[p]
  /\ total'[p] = total[p] /\ vault'[p] = vault[p]
  /\ IssuedBy(p)' = IssuedBy(p)
  /\ \A r \in IssuedBy(p) :
       /\ receipt'[r].outcome = receipt[r].outcome
       /\ receipt'[r].amount = receipt[r].amount
       /\ receipt'[r].num = receipt[r].num /\ receipt'[r].den = receipt[r].den
       /\ receipt'[r].at = "deleted" <=> receipt[r].at = "deleted"
       /\ paid'[r] = paid[r]

LEMMA StandingKeepsSound ==
  ASSUME NEW p \in Pools, Sound(p), Standing(p) PROVE Sound(p)'
<1> USE DEF Standing
<1>1. Live(p)' = Live(p) /\ (\A o \in Outcomes : Side(p, o)' = Side(p, o))
  BY DEF Live, Side
<1>2. Live(p) \subseteq IssuedBy(p) /\ (\A o \in Outcomes : Side(p, o) \subseteq IssuedBy(p))
  BY DEF Live, Side
<1>3. Pot(p)' = Pot(p) /\ OneSided(p)' = OneSided(p)
  BY DEF Pot, OneSided
<1>4. ASSUME NEW r \in Live(p) PROVE Owed(p, r)' = Owed(p, r)
  BY <1>2, <1>3 DEF Owed, ClaimPayout, winning_total
<1>5. Claims(p)' = Claims(p)
  <2>1. [r \in Live(p) |-> Owed(p, r)]' = [r \in Live(p) |-> Owed(p, r)]
    BY <1>1, <1>4
  <2> QED
    BY <1>1, <2>1 DEF Claims
<1>6. SumOf(IssuedBy(p), paid)' = SumOf(IssuedBy(p), paid)
  BY SumSame
<1>7. ASSUME NEW o \in Outcomes PROVE SharesBounded(p, o)' /\ SideSum(p, o)'
  <2>1. [r \in Side(p, o) |-> receipt[r].amount]' = [r \in Side(p, o) |-> receipt[r].amount]
    BY <1>1, <1>2
  <2>2. ASSUME NEW t \in Nat, NEW w \in Nat \ {0} PROVE Shares(p, o, t, w)' = Shares(p, o, t, w)
    <3>1. [r \in Side(p, o) |-> Share(receipt[r].amount, t, w)]' =
            [r \in Side(p, o) |-> Share(receipt[r].amount, t, w)]
      BY <1>1, <1>2
    <3> QED
      BY <1>1, <3>1 DEF Shares
  <2> QED
    BY <1>1, <2>1, <2>2 DEF SharesBounded, SideSum, Sound
<1>8. VaultSum(p)' /\ AllLive(p)' /\ vault'[p] >= Claims(p)'
  BY <1>1, <1>3, <1>5, <1>6 DEF VaultSum, AllLive, Sound
<1>9. FairlyPaid(p)'
  BY <1>1, <1>3 DEF FairlyPaid, Sound
<1>10. Dust(p)'
  <2>1. Side(p, winning[p])' = Side(p, winning[p])
    BY DEF Side
  <2> QED
    BY <1>5, <2>1 DEF Dust, Sound
<1>11. Quoted(p)'
  BY <1>3 DEF Quoted, Sound
<1> QED
  BY <1>7, <1>8, <1>9, <1>10, <1>11 DEF Sound

\* Receipts change hands, time passes, or nothing happens.
LEMMA MarketKeepsMoney ==
  ASSUME Money, IInv', UNCHANGED <<poolVars, paid>>,
         \A r \in Receipts :
           \/ UNCHANGED receipt[r]
           \/ /\ r \in Minted /\ r \in Minted' /\ receipt'[r].pool = receipt[r].pool
              /\ receipt'[r].outcome = receipt[r].outcome
              /\ receipt'[r].amount = receipt[r].amount
              /\ receipt'[r].num = receipt[r].num /\ receipt'[r].den = receipt[r].den
              /\ receipt'[r].at # "deleted" /\ receipt[r].at # "deleted"
  PROVE  Money'
<1> USE DEF Money
<1>1. Minted' = Minted
  BY DEF Minted
<1>2. ASSUME NEW p \in Pools PROVE Standing(p)
  <2>1. IssuedBy(p)' = IssuedBy(p)
    BY <1>1 DEF IssuedBy, Minted
  <2> QED
    BY <2>1 DEF Standing, poolVars, IssuedBy, Minted
<1>3. Unpaid'
  BY <1>1 DEF Unpaid
<1> QED
  BY <1>2, <1>3, StandingKeepsSound

LEMMA PublicTransferKeepsMoney ==
  ASSUME Money, NEW u \in Users, NEW r \in Receipts, NEW v \in Users, PublicTransfer(u, r, v)
  PROVE  Money'
<1>1. IInv'
  BY PublicTransferKeepsIInv DEF Money
<1>2. receipt[r] \in StakeReceipt /\ receipt[r].at = "wallet" /\ r \in Minted
  BY MintedReceipt DEF Money, IInv, PublicTransfer, Held
<1>3. receipt' = [receipt EXCEPT ![r] = [receipt[r] EXCEPT !.holder = v]]
  BY DEF PublicTransfer
<1>4. receipt'[r] = [receipt[r] EXCEPT !.holder = v]
  BY <1>3 DEF Money, IInv, TypeOK
<1>5. receipt'[r] \in StakeReceipt
  BY <1>2, <1>4 DEF StakeReceipt
<1>6. r \in Minted'
  BY <1>5, StakingPoolAssumption DEF Minted
<1> QED
  BY <1>1, <1>2, <1>3, <1>4, <1>6, MarketKeepsMoney
     DEF PublicTransfer, StakeReceipt, Money, IInv, TypeOK

LEMMA ListReceiptKeepsMoney ==
  ASSUME Money, NEW u \in Users, NEW r \in Receipts, NEW ask \in Amounts,
         NEW d \in Deadlines, ListReceipt(u, r, ask, d)
  PROVE  Money'
<1>1. IInv'
  BY ListReceiptKeepsIInv DEF Money
<1>2. receipt[r] \in StakeReceipt /\ receipt[r].at = "wallet" /\ r \in Minted
  BY MintedReceipt DEF Money, IInv, ListReceipt, Held
<1>3. receipt' = [receipt EXCEPT ![r] = [receipt[r] EXCEPT !.at = "listing"]]
  BY DEF ListReceipt
<1>4. receipt'[r] = [receipt[r] EXCEPT !.at = "listing"]
  BY <1>3 DEF Money, IInv, TypeOK
<1>5. receipt'[r] \in StakeReceipt
  BY <1>2, <1>4 DEF StakeReceipt
<1>6. r \in Minted'
  BY <1>5, StakingPoolAssumption DEF Minted
<1> QED
  BY <1>1, <1>2, <1>3, <1>4, <1>6, MarketKeepsMoney
     DEF ListReceipt, StakeReceipt, Money, IInv, TypeOK

LEMMA UnlistKeepsMoney ==
  ASSUME Money, NEW u \in Users, NEW v \in Users, NEW r \in Receipts,
         listing[r] # NoListing, Unlist(r, u, v)
  PROVE  Money'
<1>1. IInv'
  BY UnlistKeepsIInv DEF Money
<1>2. receipt[r] \in StakeReceipt /\ receipt[r].at = "listing" /\ r \in Minted
  BY MintedReceipt DEF Money, IInv, SellerIsOwner
<1>3. receipt' = [receipt EXCEPT ![r] =
                    [receipt[r] EXCEPT !.at = "wallet", !.holder = u, !.owner = v]]
  BY DEF Unlist
<1>4. receipt'[r] = [receipt[r] EXCEPT !.at = "wallet", !.holder = u, !.owner = v]
  BY <1>3 DEF Money, IInv, TypeOK
<1>5. receipt'[r] \in StakeReceipt
  BY <1>2, <1>4 DEF StakeReceipt
<1>6. r \in Minted'
  BY <1>5, StakingPoolAssumption DEF Minted
<1> QED
  BY <1>1, <1>2, <1>3, <1>4, <1>6, MarketKeepsMoney
     DEF Unlist, StakeReceipt, Money, IInv, TypeOK

LEMMA CancelReceiptListingKeepsMoney ==
  ASSUME Money, NEW u \in Users, NEW r \in Receipts, CancelReceiptListing(u, r)
  PROVE  Money'
<1>1. receipt[r].owner \in Users /\ listing[r].seller \in Users
  BY MintedReceipt DEF Money, IInv, CancelReceiptListing, SellerIsOwner, StakeReceipt
<1> QED
  BY <1>1, UnlistKeepsMoney DEF CancelReceiptListing

LEMMA ClockKeepsMoney ==
  ASSUME Money, clock' \in Nat, UNCHANGED <<poolVars, receipt, listing, paid>>
  PROVE  Money'
<1>1. IInv'
  BY ClockKeepsIInv DEF Money
<1> QED
  BY <1>1, MarketKeepsMoney

-----------------------------------------------------------------------------
\* A pool starts to accept stakes; what it owes does not change.
LEMMA CreatePoolKeepsMoney ==
  ASSUME Money, NEW u \in Users, NEW p \in Pools, NEW d \in Deadlines, CreatePool(u, p, d)
  PROVE  Money'
<1> USE DEF Money, CreatePool
<1>1. IInv'
  BY CreatePoolKeepsIInv
<1>2. Unpaid' /\ Minted' = Minted
  BY DEF Unpaid, Minted
<1>3. \A q \in Pools : IssuedBy(q)' = IssuedBy(q) /\ Live(q)' = Live(q) /\ Pot(q)' = Pot(q)
  BY <1>2 DEF IssuedBy, Live, Pot
<1>4. ASSUME NEW q \in Pools, q # p PROVE Sound(q)'
  <2>1. Standing(q)
    BY <1>3, <1>4 DEF Standing, IInv, TypeOK
  <2> QED
    BY <2>1, StandingKeepsSound
<1>5. Sound(p)'
  <2>1. status[p] = "none" /\ status'[p] = "open"
    BY DEF IInv, TypeOK
  <2>2. \A r \in Live(p) : Owed(p, r)' = Owed(p, r)
    BY <2>1 DEF Owed
  <2>3. Claims(p)' = Claims(p)
    <3>1. [r \in Live(p) |-> Owed(p, r)]' = [r \in Live(p) |-> Owed(p, r)]
      BY <1>3, <2>2
    <3> QED
      BY <1>3, <3>1 DEF Claims
  <2>4. \A o : Side(p, o)' = Side(p, o)
    BY <1>3 DEF Side
  <2>5. \A o \in Outcomes : SharesBounded(p, o)' /\ SideSum(p, o)'
    BY <2>4 DEF Sound, SharesBounded, SideSum, Shares
  <2>6. VaultSum(p)' /\ AllLive(p)' /\ vault'[p] >= Claims(p)' /\ Quoted(p)'
    BY <1>3, <2>1, <2>3 DEF Sound, VaultSum, AllLive, Quoted
  <2>7. FairlyPaid(p)' /\ Dust(p)'
    BY <1>3, <2>1 DEF Sound, AllLive, FairlyPaid, Dust
  <2> QED
    BY <2>5, <2>6, <2>7 DEF Sound
<1> QED
  BY <1>1, <1>2, <1>4, <1>5

-----------------------------------------------------------------------------
\* stake: one receipt more, on one side, for as much as the vault gains.
LEMMA StakeKeepsMoney ==
  ASSUME Money, NEW u \in Users, NEW p \in Pools, NEW r \in Receipts,
         NEW o \in Outcomes, NEW a \in Amounts, Stake(u, p, r, o, a)
  PROVE  Money'
<1> USE DEF Money
<1>1. /\ IInv' /\ TypeOK /\ TypeOK'
      /\ r \notin Minted /\ status[p] = "open" /\ a \in Nat \ {0}
  <2>1. IInv' /\ IInv
    BY StakeKeepsIInv
  <2>2. r \notin Minted /\ status[p] = "open" /\ a > 0 /\ a \in Nat
    BY StakingPoolAssumption DEF Stake, StakingOpen, PositiveAmount
  <2> QED
    BY <2>1, <2>2 DEF IInv
<1>2. /\ UNCHANGED <<status, winning, paid>>
      /\ vault' = [vault EXCEPT ![p] = @ + a]
      /\ total'[p][o] = total[p][o] + a
      /\ \A x \in Outcomes \ {o} : total'[p][x] = total[p][x]
      /\ \A q \in Pools \ {p} : total'[q] = total[q]
      /\ \A x \in Receipts \ {r} : receipt'[x] = receipt[x]
  BY <1>1 DEF Stake, TypeOK
<1>3. /\ receipt'[r].pool = p /\ receipt'[r].outcome = o /\ receipt'[r].amount = a
      /\ receipt'[r].num = Pot(p) + a /\ receipt'[r].den = total[p][o] + a
      /\ receipt'[r].at = "wallet" /\ receipt'[r] # NoReceipt
  <2>1. receipt'[r] = [pool |-> p, owner |-> u, outcome |-> o, amount |-> a,
                       num |-> Pot(p) + a, den |-> total[p][o] + a,
                       holder |-> u, at |-> "wallet"]
    BY <1>1 DEF Stake, QuotedOdds, TypeOK
  <2>2. Pot(p) + a \in Nat \ {0} /\ total[p][o] + a \in Nat \ {0}
    BY <1>1, PoolTypes
  <2>3. receipt'[r] \in StakeReceipt
    BY <1>1, <2>1, <2>2 DEF StakeReceipt
  <2> QED
    BY <2>1, <2>3, StakingPoolAssumption
<1> HIDE DEF Money
<1>4. Minted' = Minted \cup {r}
  BY <1>2, <1>3 DEF Minted
<1>5. /\ IssuedBy(p)' = IssuedBy(p) \cup {r}
      /\ \A q \in Pools \ {p} : IssuedBy(q)' = IssuedBy(q)
  BY <1>1, <1>2, <1>3, <1>4 DEF IssuedBy, Minted
<1>6. Live(p)' = Live(p) \cup {r}
  BY <1>1, <1>2, <1>3, <1>5 DEF Live, IssuedBy, Minted
<1>7. /\ Side(p, o)' = Side(p, o) \cup {r}
      /\ \A x \in Outcomes \ {o} : Side(p, x)' = Side(p, x)
  BY <1>1, <1>2, <1>3, <1>5 DEF Side, IssuedBy, Minted
<1>8. /\ Pot(p)' = Pot(p) + a /\ vault'[p] = vault[p] + a
      /\ Pot(p) \in Nat /\ vault[p] \in Nat /\ total[p][o] \in Nat
  BY <1>1, <1>2, PoolTypes DEF Pot, Outcomes, TypeOK
<1>9. /\ r \notin IssuedBy(p) /\ r \notin Live(p) /\ (\A x \in Outcomes : r \notin Side(p, x))
      /\ Live(p) \subseteq IssuedBy(p) /\ IssuedBy(p) \subseteq Receipts \ {r}
      /\ \A x \in Outcomes : Side(p, x) \subseteq IssuedBy(p)
  BY <1>1 DEF Live, Side, IssuedBy, Minted
<1>10. Unpaid'
  BY <1>1, <1>2, <1>3, <1>4 DEF Money, Unpaid
<1>11. ASSUME NEW q \in Pools, q # p PROVE Sound(q)'
  <2>1. \A x \in IssuedBy(q) : receipt'[x] = receipt[x]
    BY <1>1, <1>2 DEF IssuedBy, Minted
  <2>2. vault'[q] = vault[q] /\ total'[q] = total[q] /\ IssuedBy(q)' = IssuedBy(q)
    BY <1>1, <1>2, <1>5, <1>11 DEF TypeOK
  <2>3. Standing(q)
    BY <1>2, <2>1, <2>2 DEF Standing
  <2> QED
    BY <2>3, StandingKeepsSound DEF Money
<1>12. Sound(p)
  BY DEF Money
<1>13. Claims(p)' = Claims(p) + a
  <2>1. PICK f, g : f = [x \in Live(p) |-> Owed(p, x)]
                    /\ g = [x \in Live(p) \cup {r} |-> receipt'[x].amount]
    OBVIOUS
  <2>2. \A x \in Live(p) : f[x] = receipt[x].amount /\ g[x] = f[x] /\ f[x] \in Nat
    BY <1>1, <1>2, <1>9, <2>1, IssuedReceipt DEF Owed
  <2>3. g[r] = a
    BY <1>3, <2>1
  <2>4. SumOf(Live(p) \cup {r}, g) = SumOf(Live(p), f) + g[r]
    <3>1. IsFiniteSet(Live(p)) /\ (\A y \in Live(p) \cup {r} : g[y] \in Nat)
      BY <1>1, <2>2, <2>3, PoolSets
    <3>2. SumOf(Live(p) \cup {r}, g) = SumOf(Live(p), g) + g[r]
      BY <1>9, <3>1, SumAdd
    <3>3. SumOf(Live(p), g) = SumOf(Live(p), f)
      BY <2>2, SumSame
    <3> QED
      BY <3>2, <3>3
  <2>5. \A x \in Live(p) \cup {r} : Owed(p, x)' = receipt'[x].amount
    BY <1>1, <1>2 DEF Owed
  <2>6. [x \in Live(p) |-> Owed(p, x)]' = g
    BY <1>6, <2>1, <2>5
  <2> QED
    BY <1>6, <2>1, <2>3, <2>4, <2>6 DEF Claims
<1>14. AllLive(p)' /\ vault'[p] >= Claims(p)'
  BY <1>1, <1>2, <1>5, <1>6, <1>8, <1>12, <1>13, ClaimsType DEF Sound, AllLive, Money
<1>15. VaultSum(p)'
  <2>1. \A x \in Receipts : paid[x] \in Nat
    BY <1>1 DEF TypeOK
  <2>2. paid[r] = 0
    BY <1>1 DEF Money, Unpaid
  <2>3. SumOf(IssuedBy(p) \cup {r}, paid) = SumOf(IssuedBy(p), paid) + paid[r]
    BY <1>1, <1>9, <2>1, PoolSets, SumAdd
  <2>4. SumOf(IssuedBy(p), paid) \in Nat
    BY <1>1, <2>1, PoolSets, SumType
  <2>5. SumOf(IssuedBy(p), paid)' = SumOf(IssuedBy(p) \cup {r}, paid)
    BY <1>2, <1>5
  <2>6. vault[p] = Pot(p) - SumOf(IssuedBy(p), paid)
    BY <1>12 DEF Sound, VaultSum
  <2> QED
    BY <1>1, <1>8, <2>2, <2>3, <2>4, <2>5, <2>6 DEF VaultSum
<1>16. SideSum(p, o)'
  <2>1. PICK f, g : f = [x \in Side(p, o) |-> receipt[x].amount]
                    /\ g = [x \in Side(p, o) \cup {r} |-> receipt'[x].amount]
    OBVIOUS
  <2>2. (\A x \in Side(p, o) : g[x] = f[x] /\ f[x] \in Nat) /\ g[r] = a
    BY <1>1, <1>2, <1>3, <1>9, <2>1, IssuedReceipt
  <2>3. SumOf(Side(p, o) \cup {r}, g) = SumOf(Side(p, o), f) + g[r]
    <3>1. IsFiniteSet(Side(p, o)) /\ (\A y \in Side(p, o) \cup {r} : g[y] \in Nat)
      BY <1>1, <2>2, PoolSets
    <3>2. SumOf(Side(p, o) \cup {r}, g) = SumOf(Side(p, o), g) + g[r]
      BY <1>9, <3>1, SumAdd
    <3>3. SumOf(Side(p, o), g) = SumOf(Side(p, o), f)
      BY <2>2, SumSame
    <3> QED
      BY <3>2, <3>3
  <2>4. [x \in Side(p, o) |-> receipt[x].amount]' = g
    BY <1>7, <2>1
  <2> QED
    BY <1>2, <1>7, <1>12, <2>1, <2>2, <2>3, <2>4 DEF Sound, SideSum
<1>17. ASSUME NEW x \in Outcomes \ {o} PROVE SideSum(p, x)' /\ SharesBounded(p, x)'
  <2>1. \A y \in Side(p, x) : receipt'[y] = receipt[y]
    BY <1>2, <1>9
  <2>2. [y \in Side(p, x) |-> receipt[y].amount]' = [y \in Side(p, x) |-> receipt[y].amount]
    BY <1>7, <2>1
  <2>3. ASSUME NEW t \in Nat, NEW w \in Nat \ {0} PROVE Shares(p, x, t, w)' = Shares(p, x, t, w)
    <3>1. [y \in Side(p, x) |-> Share(receipt[y].amount, t, w)]' =
            [y \in Side(p, x) |-> Share(receipt[y].amount, t, w)]
      BY <1>7, <2>1
    <3> QED
      BY <1>7, <3>1 DEF Shares
  <2> QED
    BY <1>2, <1>7, <1>12, <2>2, <2>3 DEF SharesBounded, SideSum, Sound
<1>18. SharesBounded(p, o)'
  <2>1. SUFFICES ASSUME NEW t \in Nat, NEW w \in Nat \ {0}
                 PROVE  /\ w * Shares(p, o, t, w)' <= t * total'[p][o]
                        /\ t * total'[p][o] <=
                             w * Shares(p, o, t, w)' + (w - 1) * Cardinality(Side(p, o))'
    BY DEF SharesBounded
  <2>2. PICK f, g : f = [x \in Side(p, o) |-> Share(receipt[x].amount, t, w)]
                    /\ g = [x \in Side(p, o) \cup {r} |-> Share(receipt'[x].amount, t, w)]
    OBVIOUS
  <2>3. /\ \A x \in Side(p, o) : g[x] = f[x] /\ f[x] \in Nat
        /\ g[r] = Share(a, t, w) /\ g[r] \in Nat
    BY <1>1, <1>2, <1>3, <1>9, <2>2, IssuedReceipt, ShareIsFloor
  <2>4. SumOf(Side(p, o) \cup {r}, g) = SumOf(Side(p, o), f) + g[r]
    <3>1. IsFiniteSet(Side(p, o)) /\ (\A y \in Side(p, o) \cup {r} : g[y] \in Nat)
      BY <1>1, <2>3, PoolSets
    <3>2. SumOf(Side(p, o) \cup {r}, g) = SumOf(Side(p, o), g) + g[r]
      BY <1>9, <3>1, SumAdd
    <3>3. SumOf(Side(p, o), g) = SumOf(Side(p, o), f)
      BY <2>3, SumSame
    <3> QED
      BY <3>2, <3>3
  <2>5. [x \in Side(p, o) |-> Share(receipt[x].amount, t, w)]' = g
    BY <1>7, <2>2
  <2>6. Shares(p, o, t, w)' = Shares(p, o, t, w) + Share(a, t, w)
    BY <1>7, <2>2, <2>3, <2>4, <2>5 DEF Shares
  <2>7. Shares(p, o, t, w) \in Nat
    BY <1>1, <2>2, <2>3, PoolSets, SumType DEF Shares
  <2>8. Cardinality(Side(p, o))' = Cardinality(Side(p, o)) + 1
    BY <1>1, <1>7, <1>9, PoolSets, FS_AddElement
  <2>9. /\ w * Shares(p, o, t, w) <= t * total[p][o]
        /\ t * total[p][o] <= w * Shares(p, o, t, w) + (w - 1) * Cardinality(Side(p, o))
    BY <1>12 DEF Sound, SharesBounded
  <2>10. PICK z, n, c : /\ z = Shares(p, o, t, w) /\ n = total[p][o]
                        /\ c = Cardinality(Side(p, o))
    OBVIOUS
  <2>11. /\ w * (z + Share(a, t, w)) <= t * (n + a)
         /\ t * (n + a) <= w * (z + Share(a, t, w)) + (w - 1) * (c + 1)
    <3>1. z \in Nat /\ n \in Nat /\ c \in Nat /\ a \in Nat
      BY <1>1, <1>8, <2>7, <2>10, PoolSets
    <3>2. w * z <= t * n /\ t * n <= w * z + (w - 1) * c
      BY <2>9, <2>10
    <3> QED
      BY <3>1, <3>2, BoundsGrow
  <2> QED
    BY <1>2, <2>6, <2>8, <2>10, <2>11
<1>19. Quoted(p)'
  <2>1. ASSUME NEW x \in IssuedBy(p) PROVE receipt'[x].num < Pot(p)'
    BY <1>1, <1>2, <1>8, <1>9, <1>12, IssuedReceipt DEF Sound, Quoted
  <2>2. ASSUME NEW x \in IssuedBy(p) PROVE receipt'[x].num <= Pot(p)' /\ receipt'[x].num # Pot(p)'
    <3>1. receipt'[x] = receipt[x] /\ receipt[x].num \in Nat
      BY <1>1, <1>2, <1>9, IssuedReceipt
    <3> QED
      BY <1>1, <1>8, <2>1, <3>1
  <2>3. receipt'[r].num <= Pot(p)' /\ receipt'[r].den = total'[p][receipt'[r].outcome]
    BY <1>1, <1>2, <1>3, <1>8
  <2> QED
    BY <1>5, <2>2, <2>3 DEF Quoted
<1>20. FairlyPaid(p)' /\ Dust(p)'
  BY <1>1, <1>2, <1>14 DEF FairlyPaid, Dust, AllLive
<1> QED
  BY <1>1, <1>10, <1>11, <1>14, <1>15, <1>16, <1>17, <1>18, <1>19, <1>20 DEF Money, Sound

-----------------------------------------------------------------------------
(* The settlement: what is owed changes, and nothing else.                 *)

\* What a settlement of p leaves alone.
LEMMA SettlementFrame ==
  ASSUME Money, IInv', NEW p \in Pools, status[p] = "open",
         status'[p] \in {"resolved", "cancelled"},
         \A q \in Pools \ {p} : status'[q] = status[q] /\ winning'[q] = winning[q],
         UNCHANGED <<total, vault, receipt, paid>>
  PROVE  /\ Unpaid' /\ \A q \in Pools \ {p} : Sound(q)'
         /\ \A o \in Outcomes : SharesBounded(p, o)' /\ SideSum(p, o)'
         /\ VaultSum(p)' /\ AllLive(p)' /\ FairlyPaid(p)' /\ Quoted(p)'
         /\ Live(p)' = Live(p) /\ Pot(p)' = Pot(p) /\ OneSided(p)' = OneSided(p)
         /\ vault'[p] = Claims(p) /\ vault'[p] = Pot(p) /\ Live(p) = IssuedBy(p)
<1>1. Minted' = Minted
  BY DEF Minted
<1>2. /\ \A q \in Pools : /\ IssuedBy(q)' = IssuedBy(q) /\ Live(q)' = Live(q)
                         /\ Pot(q)' = Pot(q) /\ OneSided(q)' = OneSided(q)
      /\ \A o : Side(p, o)' = Side(p, o)
  BY <1>1 DEF IssuedBy, Live, Pot, OneSided, Side
<1>3. ASSUME NEW q \in Pools, q # p PROVE Sound(q)'
  <2>1. Standing(q)
    BY <1>2, <1>3 DEF Standing
  <2> QED
    BY <2>1, StandingKeepsSound DEF Money
<1>4. Sound(p) /\ Live(p) = IssuedBy(p) /\ vault[p] = Claims(p) /\ vault[p] = Pot(p)
  BY DEF Money, Sound, AllLive, IInv, PoolBooks
<1>5. \A o \in Outcomes : SharesBounded(p, o)' /\ SideSum(p, o)'
  BY <1>2, <1>4 DEF Sound, SharesBounded, SideSum, Shares
<1>6. VaultSum(p)' /\ Quoted(p)'
  BY <1>2, <1>4 DEF Sound, VaultSum, Quoted
<1>7. AllLive(p)' /\ FairlyPaid(p)'
  BY <1>2, <1>4 DEF AllLive, FairlyPaid
<1>8. Unpaid'
  BY <1>1 DEF Money, Unpaid
<1> QED
  BY <1>2, <1>3, <1>4, <1>5, <1>6, <1>7, <1>8

LEMMA CancelKeepsMoney ==
  ASSUME Money, NEW u \in Users, NEW p \in Pools, Cancel(u, p) PROVE Money'
<1>1. /\ IInv' /\ status[p] = "open" /\ status'[p] = "cancelled"
      /\ \A q \in Pools \ {p} : status'[q] = status[q] /\ winning'[q] = winning[q]
      /\ UNCHANGED <<total, vault, receipt, paid>>
  BY CancelKeepsIInv DEF Money, Cancel, IInv, TypeOK
<1>2. Claims(p)' = Claims(p)
  <2>1. \A r \in Live(p) : Owed(p, r)' = Owed(p, r)
    BY <1>1 DEF Owed
  <2>2. [r \in Live(p) |-> Owed(p, r)]' = [r \in Live(p) |-> Owed(p, r)]
    BY <1>1, <2>1, SettlementFrame
  <2> QED
    BY <1>1, <2>2, SettlementFrame DEF Claims
<1>3. vault'[p] >= Claims(p)'
  BY <1>1, <1>2, SettlementFrame, ClaimsType DEF Money
<1>4. Dust(p)'
  BY <1>1 DEF Dust
<1> QED
  BY <1>1, <1>3, <1>4, SettlementFrame DEF Money, Sound

LEMMA SharesType ==
  ASSUME TypeOK, NEW p \in Pools, NEW o \in Outcomes, NEW t \in Nat, NEW w \in Nat \ {0}
  PROVE  Shares(p, o, t, w) \in Nat
<1>1. PICK f : f = [r \in Side(p, o) |-> Share(receipt[r].amount, t, w)]
  OBVIOUS
<1>2. \A r \in Side(p, o) : f[r] \in Nat
  BY <1>1, PoolSets, IssuedReceipt, ShareIsFloor
<1> QED
  BY <1>1, <1>2, PoolSets, SumType DEF Shares

\* The winners share the pot, in proportion to their stakes.
LEMMA WinnersShare ==
  ASSUME Money, NEW u \in Users, NEW p \in Pools, NEW o \in Outcomes, Resolve(u, p, o),
         ~OneSided(p)
  PROVE  Claims(p)' = Shares(p, o, Pot(p), total[p][o])
<1> DEFINE t == Pot(p)
           w == total[p][o]
<1>1. /\ IInv' /\ TypeOK /\ status[p] = "open" /\ status'[p] = "resolved" /\ winning'[p] = o
      /\ \A q \in Pools \ {p} : status'[q] = status[q] /\ winning'[q] = winning[q]
      /\ UNCHANGED <<total, vault, receipt, paid>>
  BY ResolveKeepsIInv DEF Money, Resolve, IInv, TypeOK
<1>2. Live(p)' = Live(p) /\ Pot(p)' = Pot(p) /\ ~OneSided(p)' /\ Live(p) = IssuedBy(p)
  BY <1>1, SettlementFrame
<1>3. t \in Nat /\ w \in Nat \ {0}
  BY <1>1, PoolTypes DEF OneSided, Outcomes
<1>4. PICK f : f = [r \in Live(p) |-> IF receipt[r].outcome = o
                                     THEN Share(receipt[r].amount, t, w) ELSE 0]
  OBVIOUS
<1>5. ASSUME NEW r \in Live(p) PROVE Owed(p, r)' = f[r]
  <2>1. ClaimPayout(p, r)' = Share(receipt[r].amount, t, w)
    BY <1>1, <1>2, <1>3 DEF ClaimPayout, winning_total, Share
  <2> QED
    BY <1>1, <1>2, <1>4, <2>1 DEF Owed
<1>6. [r \in Live(p) |-> Owed(p, r)]' = f
  BY <1>2, <1>4, <1>5
<1>7. PICK S, T : S = Side(p, o) /\ T = Live(p) \ S
  OBVIOUS
<1>8. /\ IsFiniteSet(S) /\ IsFiniteSet(T) /\ S \cap T = {} /\ S \cup T = Live(p)
      /\ \A r \in S : f[r] = Share(receipt[r].amount, t, w) /\ f[r] \in Nat
      /\ \A r \in T : f[r] = 0
  <2>1. IsFiniteSet(S) /\ IsFiniteSet(T)
    BY <1>1, <1>7, PoolSets, FS_Subset
  <2>2. S \cap T = {} /\ S \cup T = Live(p) /\ S \subseteq IssuedBy(p)
    BY <1>2, <1>7 DEF Side
  <2>3. \A r \in S : f[r] = Share(receipt[r].amount, t, w)
    BY <1>2, <1>4, <1>7 DEF Side
  <2>4. \A r \in T : f[r] = 0
    BY <1>2, <1>4, <1>7 DEF Side
  <2>5. \A r \in S : Share(receipt[r].amount, t, w) \in Nat
    BY <1>1, <1>3, <2>2, IssuedReceipt, ShareIsFloor
  <2> QED
    BY <2>1, <2>2, <2>3, <2>4, <2>5
<1>9. SumOf(S \cup T, f) = SumOf(S, f) + SumOf(T, f)
  <2>1. \A r \in S \cup T : f[r] \in Nat
    BY <1>8
  <2> QED
    BY <1>8, <2>1, SumUnion
<1>10. SumOf(T, f) = 0
  BY <1>8, SumZero
<1>11. SumOf(S, f) = Shares(p, o, t, w)
  <2>1. PICK g : g = [r \in Side(p, o) |-> Share(receipt[r].amount, t, w)]
    OBVIOUS
  <2>2. SumOf(S, f) = SumOf(S, g)
    BY <1>7, <1>8, <2>1, SumSame
  <2> QED
    BY <1>7, <2>1, <2>2 DEF Shares
<1>12. SumOf(S, f) \in Nat
  BY <1>8, SumType
<1>13. Claims(p)' = SumOf(Live(p), f)
  BY <1>2, <1>6 DEF Claims
<1>14. SumOf(Live(p), f) = SumOf(S, f)
  <2>1. SumOf(Live(p), f) = SumOf(S \cup T, f)
    BY <1>8, Zenon
  <2> QED
    BY <1>9, <1>10, <1>12, <2>1
<1> QED
  BY <1>11, <1>13, <1>14

LEMMA ResolveKeepsMoney ==
  ASSUME Money, NEW u \in Users, NEW p \in Pools, NEW o \in Outcomes, Resolve(u, p, o)
  PROVE  Money'
<1>1. /\ IInv' /\ TypeOK /\ status[p] = "open" /\ status'[p] = "resolved" /\ winning'[p] = o
      /\ \A q \in Pools \ {p} : status'[q] = status[q] /\ winning'[q] = winning[q]
      /\ UNCHANGED <<total, vault, receipt, paid>>
  BY ResolveKeepsIInv DEF Money, Resolve, IInv, TypeOK
<1>2. /\ Live(p)' = Live(p) /\ vault'[p] = Claims(p) /\ vault'[p] = Pot(p)
      /\ OneSided(p)' = OneSided(p)
  BY <1>1, SettlementFrame
<1>3. PICK c : c = Cardinality(Side(p, o)) /\ c \in Nat /\ (Side(p, o) # {} => c > 0)
  BY <1>1, PoolSets, FS_EmptySet
<1>4. Side(p, winning[p])' = Side(p, o)
  BY <1>1 DEF Side, IssuedBy, Minted
<1>5. CASE OneSided(p)
  <2>1. \A r \in Live(p) : Owed(p, r)' = Owed(p, r)
    BY <1>1, <1>2, <1>5 DEF Owed
  <2>2. [r \in Live(p) |-> Owed(p, r)]' = [r \in Live(p) |-> Owed(p, r)]
    BY <1>2, <2>1
  <2>3. Claims(p)' = Claims(p) /\ Claims(p) \in Nat
    BY <1>2, <2>2, ClaimsType DEF Claims, Money
  <2>4. vault'[p] >= Claims(p)' /\ vault'[p] - Claims(p)' = 0
    <3>1. PICK k \in Nat : k = Claims(p)
      BY <2>3
    <3>2. vault'[p] = k /\ Claims(p)' = k
      BY <1>2, <2>3, <3>1
    <3> QED
      BY <3>2
  <2>5. Dust(p)'
    BY <1>3, <1>4, <2>4 DEF Dust
  <2> QED
    BY <1>1, <2>4, <2>5, SettlementFrame DEF Money, Sound
<1>6. CASE ~OneSided(p)
  <2>1. PICK t, w, z : t = Pot(p) /\ w = total[p][o] /\ z = Shares(p, o, t, w)
    OBVIOUS
  <2>2. t \in Nat /\ w \in Nat \ {0}
    BY <1>1, <1>6, <2>1, PoolTypes DEF OneSided, Outcomes
  <2>3. Claims(p)' = z
    BY <1>6, <2>1, WinnersShare
  <2>4. z \in Nat
    BY <1>1, <2>1, <2>2, SharesType
  <2>5. w * z <= t * w /\ t * w <= w * z + (w - 1) * c
    BY <1>3, <2>1, <2>2 DEF Money, Sound, SharesBounded
  <2>6. z <= t /\ (c > 0 => t - z < c)
    BY <1>3, <2>2, <2>4, <2>5, BoundsAtSettlement
  <2>7. vault'[p] >= Claims(p)' /\ Dust(p)'
    BY <1>2, <1>3, <1>4, <2>1, <2>2, <2>3, <2>4, <2>6 DEF Dust
  <2> QED
    BY <1>1, <2>7, SettlementFrame DEF Money, Sound
<1> QED
  BY <1>5, <1>6

-----------------------------------------------------------------------------
\* A redemption: the vault pays what it owed, to the receipt that goes.
LEMMA PayReceiptKeepsMoney ==
  ASSUME Money, IInv', NEW p \in Pools, NEW r \in Receipts, NEW x, x = Owed(p, r),
         r \in Live(p), status[p] \in {"resolved", "cancelled"},
         status[p] = "resolved" /\ ~OneSided(p) => receipt[r].outcome = winning[p],
         PayReceipt(p, r, x)
  PROVE  Money'
<1>1. /\ IInv /\ TypeOK /\ Sound(p) /\ r \in IssuedBy(p) /\ receipt[r] \in StakeReceipt
      /\ x \in Nat
  BY OwedType, IssuedReceipt DEF Money, IInv, Live
<1>2. /\ UNCHANGED <<status, winning, total>>
      /\ \A q \in Pools \ {p} : vault'[q] = vault[q]
      /\ vault'[p] = vault[p] - x
      /\ \A y \in Receipts \ {r} : receipt'[y] = receipt[y] /\ paid'[y] = paid[y]
      /\ receipt'[r] = [receipt[r] EXCEPT !.at = "deleted"]
      /\ paid'[r] = x
  BY <1>1 DEF PayReceipt, TypeOK
<1>3. /\ receipt'[r] # NoReceipt /\ receipt'[r].at = "deleted"
      /\ receipt'[r].pool = receipt[r].pool /\ receipt'[r].outcome = receipt[r].outcome
      /\ receipt'[r].amount = receipt[r].amount
      /\ receipt'[r].num = receipt[r].num /\ receipt'[r].den = receipt[r].den
  <2>1. receipt'[r] \in StakeReceipt
    BY <1>1, <1>2 DEF StakeReceipt
  <2> QED
    BY <1>1, <1>2, <2>1, StakingPoolAssumption DEF StakeReceipt
<1>4. Minted' = Minted
  BY <1>1, <1>2, <1>3 DEF Minted, IssuedBy
<1>5. \A q \in Pools : IssuedBy(q)' = IssuedBy(q)
  <2>1. \A y \in Minted : receipt'[y].pool = receipt[y].pool
    BY <1>2, <1>3 DEF Minted
  <2> QED
    BY <1>4, <2>1 DEF IssuedBy
<1>6. \A q \in Pools \ {p} : r \notin IssuedBy(q)
  BY <1>1 DEF IssuedBy
<1>7. Live(p)' = Live(p) \ {r}
  BY <1>2, <1>3, <1>5 DEF Live, IssuedBy, Minted
<1>8. \A o : Side(p, o)' = Side(p, o)
  <2>1. \A y \in IssuedBy(p) : receipt'[y].outcome = receipt[y].outcome
    BY <1>2, <1>3 DEF IssuedBy, Minted
  <2> QED
    BY <1>5, <2>1 DEF Side
<1>9. Pot(p)' = Pot(p) /\ OneSided(p)' = OneSided(p)
  BY <1>2 DEF Pot, OneSided
<1>10. /\ Live(p) \subseteq IssuedBy(p) /\ IssuedBy(p) \subseteq Receipts
       /\ \A o \in Outcomes : Side(p, o) \subseteq IssuedBy(p)
  BY <1>1, PoolSets
<1>11. \A y \in IssuedBy(p) : receipt'[y].outcome = receipt[y].outcome
                             /\ receipt'[y].amount = receipt[y].amount
                             /\ receipt'[y].num = receipt[y].num
                             /\ receipt'[y].den = receipt[y].den
  BY <1>2, <1>3, <1>10
<1> HIDE DEF PayReceipt
<1>12. ASSUME NEW q \in Pools, q # p PROVE Sound(q)'
  <2>1. \A y \in IssuedBy(q) : y \in Receipts \ {r}
    BY <1>6, <1>12 DEF IssuedBy, Minted
  <2>2. Standing(q)
    BY <1>2, <1>5, <1>12, <2>1 DEF Standing
  <2> QED
    BY <2>2, StandingKeepsSound DEF Money
<1>13. Unpaid'
  BY <1>1, <1>2, <1>3, <1>4 DEF Money, Unpaid, IssuedBy
<1>14. ASSUME NEW y \in Live(p) PROVE Owed(p, y)' = Owed(p, y)
  BY <1>2, <1>9, <1>10, <1>11 DEF Owed, ClaimPayout, winning_total
<1>15. Claims(p)' = Claims(p) - x /\ Claims(p)' \in Nat /\ Claims(p) \in Nat
  <2>1. PICK f, g : f = [y \in Live(p) |-> Owed(p, y)] /\ g = [y \in Live(p) \ {r} |-> Owed(p, y)]
    OBVIOUS
  <2>2. [y \in Live(p) |-> Owed(p, y)]' = g
    BY <1>7, <1>14, <2>1
  <2>3. /\ \A y \in Live(p) \ {r} : g[y] = f[y]
        /\ \A y \in Live(p) : f[y] \in Nat
        /\ f[r] = x
    BY <1>1, <1>10, <2>1, OwedType
  <2>4. IsFiniteSet(Live(p))
    BY <1>1, PoolSets
  <2>5. SumOf(Live(p) \ {r}, g) = SumOf(Live(p), f) - f[r] /\ SumOf(Live(p), f) - f[r] \in Nat
    BY <2>3, <2>4, SumShrink
  <2>6. Claims(p)' = SumOf(Live(p) \ {r}, g) /\ Claims(p) = SumOf(Live(p), f)
    BY <1>7, <2>1, <2>2 DEF Claims
  <2> QED
    BY <1>1, <2>3, <2>5, <2>6, ClaimsType
<1>16. VaultSum(p)'
  <2>1. \A y \in IssuedBy(p) : paid[y] \in Nat /\ paid'[y] \in Nat
    BY <1>1, <1>2, <1>10 DEF TypeOK
  <2>2. paid[r] = 0
    BY <1>1, <1>10 DEF Money, Unpaid, Live
  <2>3. PICK S : S = IssuedBy(p) \ {r}
    OBVIOUS
  <2>4. IsFiniteSet(S) /\ r \notin S /\ IssuedBy(p) = S \cup {r}
    BY <1>1, <2>3, PoolSets, FS_Subset
  <2>5. SumOf(S \cup {r}, paid) = SumOf(S, paid) + paid[r]
    BY <2>1, <2>4, SumAdd
  <2>6. SumOf(S \cup {r}, paid') = SumOf(S, paid') + paid'[r]
    <3>1. \A y \in S \cup {r} : paid'[y] \in Nat
      BY <2>1, <2>4
    <3> QED
      BY <2>4, <3>1, SumAdd
  <2>7. SumOf(S, paid') = SumOf(S, paid) /\ SumOf(S, paid) \in Nat
    BY <1>2, <1>10, <2>1, <2>3, <2>4, SumSame, SumType
  <2>8. SumOf(IssuedBy(p), paid)' = SumOf(S \cup {r}, paid')
        /\ SumOf(IssuedBy(p), paid) = SumOf(S \cup {r}, paid)
    BY <1>5, <2>4, Zenon
  <2>9. vault[p] = Pot(p) - SumOf(IssuedBy(p), paid) /\ Pot(p) \in Nat
    BY <1>1, PoolTypes DEF Sound, VaultSum
  <2> QED
    BY <1>1, <1>2, <1>9, <2>2, <2>5, <2>6, <2>7, <2>8, <2>9 DEF VaultSum
<1>17. AllLive(p)' /\ vault'[p] >= Claims(p)'
  <2>1. vault[p] >= Claims(p) /\ vault[p] \in Nat
    BY <1>1, PoolTypes DEF Sound
  <2>2. vault'[p] >= Claims(p)'
    BY <1>1, <1>2, <1>15, <2>1
  <2> QED
    BY <1>2, <2>2 DEF AllLive
<1>18. ASSUME NEW o \in Outcomes PROVE SharesBounded(p, o)' /\ SideSum(p, o)'
  <2>1. [y \in Side(p, o) |-> receipt[y].amount]' = [y \in Side(p, o) |-> receipt[y].amount]
    BY <1>8, <1>10, <1>11
  <2>2. ASSUME NEW t \in Nat, NEW w \in Nat \ {0} PROVE Shares(p, o, t, w)' = Shares(p, o, t, w)
    <3>1. [y \in Side(p, o) |-> Share(receipt[y].amount, t, w)]' =
            [y \in Side(p, o) |-> Share(receipt[y].amount, t, w)]
      BY <1>8, <1>10, <1>11
    <3> QED
      BY <1>8, <3>1 DEF Shares
  <2> QED
    BY <1>1, <1>2, <1>8, <2>1, <2>2 DEF SharesBounded, SideSum, Sound
<1>19. Quoted(p)'
  BY <1>1, <1>2, <1>5, <1>9, <1>11 DEF Quoted, Sound
<1>20. Dust(p)'
  <2>1. Side(p, winning[p])' = Side(p, winning[p])
    BY <1>2, <1>8
  <2>2. vault'[p] - Claims(p)' = vault[p] - Claims(p)
    <3>1. vault[p] \in Nat
      BY <1>1, PoolTypes
    <3> QED
      BY <1>1, <1>2, <1>15, <3>1
  <2> QED
    BY <1>1, <1>2, <2>1, <2>2 DEF Sound, Dust
<1>21. FairlyPaid(p)'
  <2>1. SUFFICES ASSUME NEW y \in IssuedBy(p), y \notin Live(p) \/ y = r
                 PROVE IF status[p] = "cancelled" \/ OneSided(p)
                       THEN paid'[y] = receipt[y].amount
                       ELSE /\ receipt[y].outcome = winning[p]
                            /\ IsFloorShare(paid'[y], receipt[y].amount, Pot(p),
                                            total[p][winning[p]])
    BY <1>2, <1>5, <1>7, <1>9, <1>11 DEF FairlyPaid
  <2>2. CASE y # r
    BY <1>1, <1>2, <1>10, <2>1, <2>2 DEF Sound, FairlyPaid
  <2>3. CASE y = r /\ (status[p] = "cancelled" \/ OneSided(p))
    BY <1>2, <2>3 DEF Owed
  <2>4. CASE y = r /\ ~(status[p] = "cancelled" \/ OneSided(p))
    <3>1. status[p] = "resolved" /\ receipt[r].outcome = winning[p] /\ ~OneSided(p)
      BY <2>4
    <3>2. /\ receipt[r].amount \in Nat /\ Pot(p) \in Nat /\ winning[p] \in Outcomes
          /\ total[p][winning[p]] \in Nat \ {0}
      BY <1>1, <3>1, IssuedReceipt, PoolTypes DEF OneSided, Outcomes
    <3>3. x = Share(receipt[r].amount, Pot(p), total[p][winning[p]])
      BY <3>1, <3>2 DEF Owed, ClaimPayout, winning_total, Share
    <3> QED
      BY <1>2, <2>4, <3>1, <3>2, <3>3, ShareIsFloor
  <2> QED
    BY <2>2, <2>3, <2>4
<1> QED
  BY <1>12, <1>13, <1>16, <1>17, <1>18, <1>19, <1>20, <1>21 DEF Money, Sound

\* A stake is part of its side's total.
LEMMA StakeInTotal ==
  ASSUME TypeOK, NEW p \in Pools, Sound(p), NEW r \in IssuedBy(p)
  PROVE  receipt[r].amount <= total[p][receipt[r].outcome]
<1>1. PICK o \in Outcomes : o = receipt[r].outcome
  BY IssuedReceipt
<1>2. PICK f : f = [x \in Side(p, o) |-> receipt[x].amount]
  OBVIOUS
<1>3. r \in Side(p, o) /\ IsFiniteSet(Side(p, o)) /\ (\A x \in Side(p, o) : f[x] \in Nat)
  BY <1>1, <1>2, PoolSets, IssuedReceipt DEF Side
<1>4. f[r] <= SumOf(Side(p, o), f)
  BY <1>3, SumMember
<1> QED
  BY <1>1, <1>2, <1>3, <1>4 DEF Sound, SideSum

\* claim pays what is owed: a winner in a pool of one side has its stake back.
LEMMA ClaimKeepsMoney ==
  ASSUME Money, NEW u \in Users, NEW p \in Pools, NEW r \in Receipts, Claim(u, p, r)
  PROVE  Money'
<1>1. IInv'
  BY ClaimKeepsIInv DEF Money
<1>2. /\ TypeOK /\ Sound(p) /\ r \in IssuedBy(p) /\ r \in Live(p)
      /\ status[p] = "resolved" /\ receipt[r].outcome = winning[p]
  BY DEF Money, IInv, Claim, Held, OfPool, IssuedBy, Live
<1>3. ClaimPayout(p, r) = Owed(p, r)
  <2>1. PICK a, w : a = receipt[r].amount /\ w = total[p][winning[p]]
    OBVIOUS
  <2>2. winning[p] \in Outcomes /\ a \in Nat \ {0} /\ a <= w /\ w \in Nat
    BY <1>2, <2>1, IssuedReceipt, StakeInTotal, PoolTypes
  <2>3. CASE OneSided(p)
    <3>1. Pot(p) = w
      BY <1>2, <2>1, <2>2, <2>3, PoolTypes DEF OneSided, Pot, Outcomes
    <3>2. Share(a, w, w) = a /\ w # 0
      BY <2>2, WholeShare
    <3> QED
      BY <2>1, <2>3, <3>1, <3>2 DEF ClaimPayout, winning_total, Share, Owed
  <2>4. CASE ~OneSided(p)
    BY <1>2, <2>4 DEF Owed
  <2> QED
    BY <2>3, <2>4
<1> QED
  BY <1>1, <1>2, <1>3, PayReceiptKeepsMoney DEF Claim

LEMMA RefundKeepsMoney ==
  ASSUME Money, NEW u \in Users, NEW p \in Pools, NEW r \in Receipts, Refund(u, p, r)
  PROVE  Money'
<1>1. IInv'
  BY RefundKeepsIInv DEF Money
<1>2. /\ r \in Live(p)
      /\ status[p] = "cancelled" \/ (status[p] = "resolved" /\ OneSided(p))
  BY DEF Refund, Held, OfPool, IssuedBy, Live, is_one_sided_resolved_pool
<1>3. receipt[r].amount = Owed(p, r)
  BY <1>2 DEF Owed
<1> QED
  BY <1>1, <1>2, <1>3, PayReceiptKeepsMoney DEF Refund

-----------------------------------------------------------------------------
LEMMA InitMoney == ASSUME Init PROVE Money
<1>1. IInv
  BY InitIInv
<1>2. Minted = {} /\ Unpaid
  BY DEF Init, Minted, Unpaid
<1>3. ASSUME NEW p \in Pools PROVE Sound(p)
  <2>1. /\ total[p][1] = 0 /\ total[p][2] = 0 /\ vault[p] = 0 /\ status[p] = "none"
        /\ Pot(p) = 0
    BY DEF Init, Outcomes, Pot
  <2>2. IssuedBy(p) = {} /\ Live(p) = {} /\ (\A o : Side(p, o) = {})
    BY <1>2 DEF IssuedBy, Live, Side
  <2>3. ASSUME NEW f PROVE SumOf({}, f) = 0
    BY SumEmpty
  <2>4. Claims(p) = 0
    <3>1. PICK f : f = [r \in Live(p) |-> Owed(p, r)]
      OBVIOUS
    <3>2. SumOf(Live(p), f) = SumOf({}, f)
      BY <2>2, Zenon
    <3> QED
      BY <2>3, <3>1, <3>2 DEF Claims
  <2>5. VaultSum(p)
    <3>1. SumOf(IssuedBy(p), paid) = SumOf({}, paid)
      BY <2>2, Zenon
    <3> QED
      BY <2>1, <2>3, <3>1 DEF VaultSum
  <2>6. ASSUME NEW o \in Outcomes PROVE SharesBounded(p, o) /\ SideSum(p, o)
    <3>1. \A f : SumOf(Side(p, o), f) = 0
      <4>1. ASSUME NEW f PROVE SumOf(Side(p, o), f) = SumOf({}, f)
        BY <2>2, Zenon
      <4> QED
        BY <2>3, <4>1
    <3>2. total[p][o] = 0
      BY <2>1 DEF Outcomes
    <3>3. Cardinality(Side(p, o)) = 0
      <4>1. Cardinality(Side(p, o)) = Cardinality({})
        BY <2>2, Zenon
      <4> QED
        BY <4>1, FS_EmptySet
    <3>4. SideSum(p, o)
      BY <3>1, <3>2 DEF SideSum
    <3>5. ASSUME NEW t \in Nat, NEW w \in Nat \ {0} PROVE Shares(p, o, t, w) = 0
      BY <3>1 DEF Shares
    <3>6. SharesBounded(p, o)
      BY <3>2, <3>3, <3>5 DEF SharesBounded
    <3> QED
      BY <3>4, <3>6
  <2>7. AllLive(p) /\ vault[p] >= Claims(p)
    BY <2>1, <2>2, <2>4 DEF AllLive
  <2>8. FairlyPaid(p) /\ Dust(p) /\ Quoted(p)
    BY <2>1, <2>2 DEF FairlyPaid, Dust, Quoted
  <2> QED
    BY <2>5, <2>6, <2>7, <2>8 DEF Sound
<1> QED
  BY <1>1, <1>2, <1>3 DEF Money

LEMMA NextKeepsMoney == ASSUME Money, [Next]_vars PROVE Money'
<1>1. CASE \E u \in Users, p \in Pools, d \in Deadlines : CreatePool(u, p, d)
  BY <1>1, CreatePoolKeepsMoney
<1>2. CASE \E u \in Users, p \in Pools, r \in Receipts, o \in Outcomes,
              a \in Amounts : Stake(u, p, r, o, a)
  BY <1>2, StakeKeepsMoney
<1>3. CASE \E u \in Users, r \in Receipts, v \in Users : PublicTransfer(u, r, v)
  BY <1>3, PublicTransferKeepsMoney
<1>4. CASE \E u \in Users, p \in Pools, o \in Outcomes : Resolve(u, p, o)
  BY <1>4, ResolveKeepsMoney
<1>5. CASE \E u \in Users, p \in Pools : Cancel(u, p)
  BY <1>5, CancelKeepsMoney
<1>6. CASE \E u \in Users, p \in Pools, r \in Receipts : Claim(u, p, r)
  BY <1>6, ClaimKeepsMoney
<1>7. CASE \E u \in Users, p \in Pools, r \in Receipts : Refund(u, p, r)
  BY <1>7, RefundKeepsMoney
<1>8. CASE \E u \in Users, r \in Receipts, ask \in Amounts, d \in Deadlines :
             ListReceipt(u, r, ask, d)
  BY <1>8, ListReceiptKeepsMoney
<1>9. CASE \E u \in Users, r \in Receipts, pay \in Amounts : BuyReceipt(u, r, pay)
  BY <1>9, UnlistKeepsMoney DEF BuyReceipt
<1>10. CASE \E u \in Users, r \in Receipts : CancelReceiptListing(u, r)
  BY <1>10, CancelReceiptListingKeepsMoney
<1>11. CASE Tick
  BY <1>11, ClockKeepsMoney DEF Tick, Money, IInv, TypeOK
<1>12. CASE UNCHANGED vars
  BY <1>12, ClockKeepsMoney DEF vars, Money, IInv, TypeOK
<1> QED
  BY <1>1, <1>2, <1>3, <1>4, <1>5, <1>6, <1>7, <1>8, <1>9, <1>10, <1>11, <1>12 DEF Next

LEMMA MoneyInvariance == Spec => []Money
BY InitMoney, NextKeepsMoney, PTL DEF Spec

\* Each side total is the sum of the stakes on that side, and the vault holds
\* the pot less what the pool's own receipts were paid.
THEOREM BooksAlwaysBalance == Spec => []BooksBalance
<1>1. Money => BooksBalance
  BY DEF Money, Sound, SideSum, VaultSum, BooksBalance
<1> QED
  BY <1>1, MoneyInvariance, PTL

\* The vault covers every receipt that is still out, in whatever order receipts
\* are claimed, refunded and sold: no winner is locked out.
THEOREM AlwaysSolvent == Spec => []Solvent
<1>1. Money => Solvent
  BY DEF Money, Sound, Solvent
<1> QED
  BY <1>1, MoneyInvariance, PTL

\* Every redemption paid the stake back, or the winner's share of the whole pot.
THEOREM SharesAreFair == Spec => []PaidFairShare
<1>1. Money => PaidFairShare
  BY DEF Money, Sound, FairlyPaid, PaidFairShare
<1> QED
  BY <1>1, MoneyInvariance, PTL

\* Rounding strands less than one unit per winning receipt.
THEOREM DustIsBounded == Spec => []DustBound
<1>1. Money => DustBound
  BY DEF Money, Sound, Dust, DustBound
<1> QED
  BY <1>1, MoneyInvariance, PTL

\* The last staker of the winning side is paid at the odds it was quoted.
THEOREM LastQuoteIsPaid == Spec => []LastQuoteHonoured
<1>1. ASSUME Money, NEW p \in Pools, NEW r \in IssuedBy(p),
             status[p] = "resolved", ~OneSided(p), receipt[r].outcome = winning[p],
             receipt[r].num = Pot(p)
      PROVE  LET quote == (receipt[r].amount * receipt[r].num) \div receipt[r].den
             IN  IF r \in Live(p) THEN Owed(p, r) = quote ELSE paid[r] = quote
  <2>1. PICK a, w : a = receipt[r].amount /\ w = total[p][winning[p]]
    OBVIOUS
  <2>2. /\ TypeOK /\ Sound(p) /\ r \in Receipts /\ winning[p] \in Outcomes
        /\ a \in Nat /\ Pot(p) \in Nat /\ w \in Nat \ {0}
    BY <1>1, <2>1, IssuedReceipt, PoolTypes DEF Money, IInv, OneSided, Outcomes
  <2>3. receipt[r].den = w
    BY <1>1, <2>1, <2>2 DEF Sound, Quoted
  <2>4. CASE r \in Live(p)
    BY <1>1, <2>1, <2>2, <2>3, <2>4 DEF Owed, ClaimPayout, winning_total
  <2>5. CASE r \notin Live(p)
    <3>1. IsFloorShare(paid[r], a, Pot(p), w) /\ paid[r] \in Nat
      BY <1>1, <2>1, <2>2, <2>5 DEF Sound, FairlyPaid, TypeOK
    <3>2. Share(a, Pot(p), w) \in Nat /\ IsFloorShare(Share(a, Pot(p), w), a, Pot(p), w)
      BY <2>2, ShareIsFloor
    <3>3. a * Pot(p) \in Nat
      BY <2>2, Product
    <3>4. paid[r] = Share(a, Pot(p), w)
      BY <2>2, <3>1, <3>2, <3>3, OneFloor DEF IsFloorShare
    <3> QED
      BY <1>1, <2>1, <2>3, <2>5, <3>4 DEF Share
  <2> QED
    BY <2>4, <2>5
<1>2. Money => LastQuoteHonoured
  BY <1>1 DEF LastQuoteHonoured
<1> QED
  BY <1>2, MoneyInvariance, PTL
=============================================================================
