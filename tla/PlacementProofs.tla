-------------------------- MODULE PlacementProofs --------------------------
(***************************************************************************)
(* Proofs about Placement, for any requests, baskets, buyers, branches and *)
(* caps.                                                                   *)
(***************************************************************************)
EXTENDS Placement, SumProofs

-----------------------------------------------------------------------------
(* The inductive invariant.                                                *)

\* What a request past its arrival asks for is known; its basket and total are
\* once it has read them.
ReadsInv ==
    \A r \in Requests :
        /\ phase[r] # "new" => req[r] \in Request
        /\ phase[r] = "write" => req[r].basket \in Baskets
        /\ InTransaction(r) =>
             /\ req[r].basket \in Baskets
             /\ Owner[req[r].basket] = req[r].buyer
             /\ Branch[req[r].basket] = req[r].site
             /\ req[r].total \in 1..MaxUnits

\* A request that is not over has placed nothing and been answered nothing.
PendingInv ==
    \A r \in Requests : phase[r] # "answered" => order[r] = Null /\ answer[r] = Null

\* A basket becomes one order at most.
OneOrderPerBasket ==
    \A q, r \in Contract!Placed : order[q].basket = order[r].basket => q = r

\* An order that is inserted and not yet committed is its basket's first.
InsertedInv ==
    \A r \in Requests :
        phase[r] = "inserted" =>
            /\ PlacedFrom(req[r].basket) = {}
            /\ \A q \in Requests \ {r} :
                 phase[q] = "inserted" => req[q].basket # req[r].basket

\* A lock is held by a transaction that is open, and a request that has counted
\* under a cap still holds the cap's lock.
LockInv ==
    /\ \A k \in Sites \cup Buyers : lock[k] # Null => InTransaction(lock[k])
    /\ \A r \in Requests :
        /\ /\ phase[r] \in {"branchCounted", "counted", "inserted"}
           /\ SiteCap[req[r].site] # Null
           => lock[req[r].site] = r
        /\ /\ phase[r] \in {"counted", "inserted"}
           /\ BuyerCap[req[r].buyer] # Null
           => lock[req[r].buyer] = r

PlacementInv ==
    /\ TypeOK
    /\ ReadsInv
    /\ PendingInv
    /\ OneOrderPerBasket
    /\ InsertedInv
    /\ LockInv
    /\ ClosedExactlyWhenPlaced
    /\ AnsweredWithOwnOrder

-----------------------------------------------------------------------------
(* Initially.                                                              *)

LEMMA InitPlacementInv ==
    ASSUME PlacementAssumption, Init
    PROVE  PlacementInv
<1>1. TypeOK
  <2>1. units \in [Baskets -> 0..MaxUnits]
    BY DEF Init, PlacementAssumption
  <2> QED
    BY <2>1 DEF Init, TypeOK, Phases, CartStatus
<1>2. /\ \A r \in Requests : phase[r] = "new" /\ order[r] = Null /\ answer[r] = Null
      /\ \A k \in Sites \cup Buyers : lock[k] = Null
      /\ \A b \in Baskets : cartStatus[b] # "CHECKED_OUT"
  BY <1>1 DEF Init, PlacementAssumption, CartStatus
<1>3. ReadsInv /\ PendingInv /\ OneOrderPerBasket /\ InsertedInv /\ LockInv
  BY <1>2 DEF ReadsInv, PendingInv, OneOrderPerBasket, InsertedInv, LockInv, InTransaction,
              Contract!Placed
<1>4. ClosedExactlyWhenPlaced /\ AnsweredWithOwnOrder
  BY <1>2 DEF ClosedExactlyWhenPlaced, AnsweredWithOwnOrder, Contract!Placed
<1> QED
  BY <1>1, <1>3, <1>4 DEF PlacementInv

-----------------------------------------------------------------------------
(* A step of a request that is not over, and places nothing.               *)

\* What a request must have read, hold and know wherever it is.
OwnInv(r) ==
    /\ phase[r] # "new" /\ req[r] \in Request
    /\ phase[r] = "write" => req[r].basket \in Baskets
    /\ InTransaction(r) =>
         /\ req[r].basket \in Baskets
         /\ Owner[req[r].basket] = req[r].buyer
         /\ Branch[req[r].basket] = req[r].site
         /\ req[r].total \in 1..MaxUnits
    /\ phase[r] # "answered" => answer[r] = Null
    /\ phase[r] = "inserted" =>
         /\ PlacedFrom(req[r].basket) = {}
         /\ \A q \in Requests \ {r} :
              phase[q] = "inserted" => req[q].basket # req[r].basket
    /\ answer[r] # Null =>
         /\ order[answer[r]] # Null
         /\ order[answer[r]].basket \in {req[r].names, req[r].basket}
         /\ Owner[order[answer[r]].basket] = req[r].buyer
    /\ /\ phase[r] \in {"branchCounted", "counted", "inserted"}
       /\ SiteCap[req[r].site] # Null
       => lock[req[r].site] = r
    /\ /\ phase[r] \in {"counted", "inserted"}
       /\ BuyerCap[req[r].buyer] # Null
       => lock[req[r].buyer] = r

LEMMA QuietInv ==
    ASSUME PlacementAssumption, PlacementInv, NEW r \in Requests, phase[r] # "answered",
           TypeOK', UNCHANGED order, OwnInv(r)',
           \A b \in Baskets : cartStatus'[b] = "CHECKED_OUT" <=> cartStatus[b] = "CHECKED_OUT",
           \A q \in Requests \ {r} :
               phase'[q] = phase[q] /\ req'[q] = req[q] /\ answer'[q] = answer[q],
           \A k \in Sites \cup Buyers :
               \/ lock[k] \in {r, Null} /\ lock'[k] = r /\ InTransaction(r)'
               \/ lock[k] = r /\ lock'[k] = Null
               \/ lock[k] # r /\ lock'[k] = lock[k]
    PROVE  PlacementInv'
<1>1. ReadsInv'
  BY DEF PlacementInv, ReadsInv, OwnInv, InTransaction
<1>2. PendingInv'
  BY DEF PlacementInv, PendingInv, OwnInv
<1>3. OneOrderPerBasket'
  BY DEF PlacementInv, OneOrderPerBasket, Contract!Placed
<1>4. InsertedInv'
  BY DEF PlacementInv, InsertedInv, OwnInv, PlacedFrom, Contract!Placed
<1>5. LockInv'
  <2>1. ASSUME NEW k \in Sites \cup Buyers, lock'[k] # Null
        PROVE  InTransaction(lock[k])'
    <3>1. CASE lock'[k] = r
      <4>1. InTransaction(r)'
        BY <2>1, <3>1
      <4> QED
        BY <3>1, <4>1 DEF InTransaction
    <3>2. CASE lock'[k] # r
      <4>1. lock[k] # r /\ lock'[k] = lock[k] /\ lock[k] \in Requests
        BY <2>1, <3>2 DEF PlacementInv, TypeOK
      <4> QED
        BY <2>1, <4>1 DEF PlacementInv, LockInv, InTransaction
    <3> QED
      BY <3>1, <3>2
  <2>2. \A q \in Requests :
          phase[q] # "new" => req[q].site \in Sites /\ req[q].buyer \in Buyers
    BY DEF PlacementInv, ReadsInv, Request
  <2>3. ASSUME NEW q \in Requests,
               phase'[q] \in {"branchCounted", "counted", "inserted"}
        PROVE  /\ SiteCap[req'[q].site] # Null => lock'[req'[q].site] = q
               /\ phase'[q] # "branchCounted" /\ BuyerCap[req'[q].buyer] # Null
                    => lock'[req'[q].buyer] = q
    <3>1. CASE q = r
      BY <2>3, <3>1 DEF OwnInv
    <3>2. CASE q # r
      <4>1. /\ phase[q] = phase'[q] /\ req[q] = req'[q]
            /\ req[q].site \in Sites /\ req[q].buyer \in Buyers
        BY <2>2, <2>3, <3>2
      <4>2. SiteCap[req[q].site] # Null => lock[req[q].site] = q
        BY <2>3, <4>1 DEF PlacementInv, LockInv
      <4>3. phase[q] # "branchCounted" /\ BuyerCap[req[q].buyer] # Null
              => lock[req[q].buyer] = q
        BY <2>3, <4>1 DEF PlacementInv, LockInv
      <4>4. \A k \in Sites \cup Buyers : lock[k] = q => lock'[k] = q
        BY <2>3, <3>2 DEF PlacementInv, TypeOK, PlacementAssumption
      <4> QED
        BY <4>1, <4>2, <4>3, <4>4
    <3> QED
      BY <3>1, <3>2
  <2> QED
    BY <2>1, <2>3 DEF LockInv
<1>6. ClosedExactlyWhenPlaced'
  BY DEF PlacementInv, ClosedExactlyWhenPlaced, Contract!Placed
<1>7. AnsweredWithOwnOrder'
  BY DEF PlacementInv, AnsweredWithOwnOrder, OwnInv
<1> QED
  BY <1>1, <1>2, <1>3, <1>4, <1>5, <1>6, <1>7 DEF PlacementInv

-----------------------------------------------------------------------------
(* The actions, one by one.                                                *)

LEMMA GotoType ==
    ASSUME TypeOK, NEW r \in Requests, NEW p \in Phases, Goto(r, p)
    PROVE  /\ phase' \in [Requests -> Phases]
           /\ phase'[r] = p
           /\ \A q \in Requests \ {r} : phase'[q] = phase[q]
BY DEF TypeOK, Goto

\* A request that has not yet opened its transaction holds no lock.
LEMMA NoLockYet ==
    ASSUME PlacementInv, NEW r \in Requests, ~ InTransaction(r), r # Null,
           NEW k \in Sites \cup Buyers
    PROVE  lock[k] # r
BY DEF PlacementInv, LockInv

LEMMA NullApart ==
    ASSUME PlacementAssumption
    PROVE  /\ \A r \in Requests : r # Null
           /\ \A b \in Baskets : b # Null
           /\ \A row \in OrderRow : row # Null
           /\ \A c \in CartStatus : c # Null
BY DEF PlacementAssumption

LEMMA SubmitInv ==
    ASSUME PlacementAssumption, PlacementInv, NEW r \in Requests, NEW kind \in Kinds,
           NEW b \in Baskets, NEW names \in Baskets \cup {Null}, Submit(r, kind, b, names)
    PROVE  PlacementInv'
<1> DEFINE new == [kind |-> kind, buyer |-> Owner[b], site |-> Branch[b],
                   names |-> names, basket |-> Null, total |-> 0]
<1>1. TypeOK
  BY DEF PlacementInv
<1>2. new \in Request
  BY DEF Request, Buyers, Sites, PlacementAssumption
<1>3. /\ phase[r] = "new" /\ order[r] = Null /\ answer[r] = Null
      /\ req' = [req EXCEPT ![r] = new]
      /\ UNCHANGED <<cartVars, order, lock>>
  BY DEF Submit, At, PlacementInv, PendingInv
<1>4. \/ /\ phase' = [phase EXCEPT ![r] = "answered"]
         /\ \E q \in PlacedFrom(b) : names = b /\ answer' = [answer EXCEPT ![r] = q]
      \/ phase' = [phase EXCEPT ![r] = "open"] /\ UNCHANGED answer
  BY DEF Submit, AnswerWith, Goto
<1>5. PlacedFrom(b) \subseteq Requests
      /\ \A q \in PlacedFrom(b) : order[q] # Null /\ order[q].basket = b
  BY DEF PlacedFrom, Contract!Placed
<1>6. TypeOK'
  <2>1. req' \in [Requests -> Request \cup {Null}]
    BY <1>1, <1>2, <1>3 DEF TypeOK
  <2>2. phase' \in [Requests -> Phases] /\ answer' \in [Requests -> Requests \cup {Null}]
    BY <1>1, <1>4, <1>5 DEF TypeOK, Phases
  <2> QED
    BY <1>1, <1>3, <2>1, <2>2 DEF TypeOK, cartVars
<1>7. phase'[r] \in {"answered", "open"} /\ req'[r] = new
  BY <1>1, <1>3, <1>4 DEF TypeOK
<1>8. answer'[r] # Null =>
        /\ order[answer'[r]] # Null
        /\ order[answer'[r]].basket \in {req'[r].names, req'[r].basket}
        /\ Owner[order[answer'[r]].basket] = req'[r].buyer
  BY <1>1, <1>3, <1>4, <1>5, <1>7 DEF TypeOK
<1>9. phase'[r] # "answered" => answer'[r] = Null
  BY <1>1, <1>3, <1>4 DEF TypeOK
<1>10. OwnInv(r)'
  BY <1>2, <1>3, <1>7, <1>8, <1>9 DEF OwnInv, InTransaction
<1>11. \A q \in Requests \ {r} :
         phase'[q] = phase[q] /\ req'[q] = req[q] /\ answer'[q] = answer[q]
  BY <1>1, <1>3, <1>4 DEF TypeOK
<1>12. \A k \in Sites \cup Buyers : lock[k] # r
  BY <1>3, NoLockYet, NullApart DEF InTransaction
<1> QED
  BY <1>3, <1>6, <1>10, <1>11, <1>12, QuietInv DEF cartVars

\* What a step before the transaction leaves to show of its request.
LEMMA EarlyInv ==
    ASSUME PlacementAssumption, PlacementInv, NEW r \in Requests,
           phase[r] \in {"open", "create", "write"},
           NEW p \in {"create", "write", "begin", "answered"}, Goto(r, p),
           NEW q \in Request, req' = [req EXCEPT ![r] = q],
           p = "write" => q.basket \in Baskets,
           p = "begin" => /\ q.basket \in Baskets
                          /\ Owner[q.basket] = q.buyer
                          /\ Branch[q.basket] = q.site
                          /\ q.total \in 1..MaxUnits,
           cartStatus' \in [Baskets -> CartStatus \cup {Null}],
           units' \in [Baskets -> 0..MaxUnits],
           \A b \in Baskets : cartStatus'[b] = "CHECKED_OUT" <=> cartStatus[b] = "CHECKED_OUT",
           UNCHANGED <<order, lock, answer>>
    PROVE  PlacementInv'
<1>1. TypeOK
  BY DEF PlacementInv
<1>2. /\ phase' \in [Requests -> Phases] /\ phase'[r] = p
      /\ \A s \in Requests \ {r} : phase'[s] = phase[s]
  BY <1>1, GotoType DEF Phases
<1>3. /\ req' \in [Requests -> Request \cup {Null}] /\ req'[r] = q
      /\ \A s \in Requests \ {r} : req'[s] = req[s]
  BY <1>1 DEF TypeOK
<1>4. TypeOK'
  BY <1>1, <1>2, <1>3 DEF TypeOK
<1>5. answer[r] = Null
  BY DEF PlacementInv, PendingInv
<1>6. OwnInv(r)'
  BY <1>2, <1>3, <1>5 DEF OwnInv, InTransaction
<1>7. \A k \in Sites \cup Buyers : lock[k] # r
  BY NoLockYet, NullApart DEF InTransaction
<1> QED
  BY <1>2, <1>3, <1>4, <1>6, <1>7, QuietInv

LEMMA FinishedEarlyInv ==
    ASSUME PlacementAssumption, PlacementInv, NEW r \in Requests,
           NoOpenBasket(r) \/ NoBasketLeft(r) \/ RefuseBasket(r)
    PROVE  PlacementInv'
<1>1. phase[r] \in {"open", "create"} /\ UNCHANGED <<cartVars, order, lock, req, answer>>
  BY DEF NoOpenBasket, NoBasketLeft, RefuseBasket, Finish, At
<1>2. PICK p \in {"create", "answered"} : Goto(r, p)
  BY DEF NoOpenBasket, NoBasketLeft, RefuseBasket, Finish
<1>3. req[r] \in Request
  BY <1>1 DEF PlacementInv, ReadsInv
<1>4. req' = [req EXCEPT ![r] = req[r]]
  BY <1>1 DEF PlacementInv, TypeOK
<1>5. /\ cartStatus' = cartStatus /\ cartStatus \in [Baskets -> CartStatus \cup {Null}]
      /\ units' = units /\ units \in [Baskets -> 0..MaxUnits]
  BY <1>1 DEF cartVars, PlacementInv, TypeOK
<1> QED
  BY <1>1, <1>2, <1>3, <1>4, <1>5, EarlyInv

LEMMA CreateBasketInv ==
    ASSUME PlacementAssumption, PlacementInv, NEW r \in Requests, NEW b \in Baskets,
           CreateBasket(r, b)
    PROVE  PlacementInv'
<1> DEFINE q == [req[r] EXCEPT !.basket = b]
<1>1. /\ phase[r] = "create" /\ cartStatus[b] = Null
      /\ cartStatus' = [cartStatus EXCEPT ![b] = "OPEN"]
      /\ UNCHANGED <<units, order, lock, answer>>
  BY DEF CreateBasket, Finish, At
<1>2. PICK p \in {"write", "answered"} : Goto(r, p)
  BY DEF CreateBasket, Finish
<1>3. req[r] \in Request
  BY <1>1 DEF PlacementInv, ReadsInv
<1>4. q \in Request /\ q.basket = b
  BY <1>3 DEF Request
<1>5. req' = [req EXCEPT ![r] = q]
  BY DEF CreateBasket, PlacementInv, TypeOK
<1>6. /\ cartStatus' \in [Baskets -> CartStatus \cup {Null}]
      /\ units' \in [Baskets -> 0..MaxUnits]
  BY <1>1 DEF PlacementInv, TypeOK, CartStatus
<1>7. \A c \in Baskets : cartStatus'[c] = "CHECKED_OUT" <=> cartStatus[c] = "CHECKED_OUT"
  BY <1>1, NullApart DEF PlacementInv, TypeOK, CartStatus
<1> HIDE DEF q
<1>8. /\ p \in {"create", "write", "begin", "answered"} /\ p # "begin"
      /\ q \in Request /\ q.basket \in Baskets
      /\ phase[r] \in {"open", "create", "write"}
      /\ UNCHANGED <<order, lock, answer>>
  BY <1>1, <1>2, <1>4
<1>9. Goto(r, p)
  BY <1>2
<1> QED
  BY <1>5, <1>6, <1>7, <1>8, <1>9, EarlyInv

LEMMA FindBasketInv ==
    ASSUME PlacementAssumption, PlacementInv, NEW r \in Requests, NEW b \in Baskets,
           FindBasketToEdit(r, b) \/ Validate(r, b)
    PROVE  PlacementInv'
<1>1. /\ phase[r] = "open" /\ b \in OpenBaskets(r)
      /\ UNCHANGED <<cartVars, order, lock, answer>>
  BY DEF FindBasketToEdit, Validate, At
<1>2. req[r] \in Request
  BY <1>1 DEF PlacementInv, ReadsInv
<1>3. Owner[b] = req[r].buyer /\ Branch[b] = req[r].site
  BY <1>1 DEF OpenBaskets
<1>4. /\ cartStatus' = cartStatus /\ cartStatus \in [Baskets -> CartStatus \cup {Null}]
      /\ units' = units /\ units \in [Baskets -> 0..MaxUnits]
      /\ req \in [Requests -> Request \cup {Null}]
  BY <1>1 DEF cartVars, PlacementInv, TypeOK
<1>5. CASE FindBasketToEdit(r, b)
  <2> DEFINE q == [req[r] EXCEPT !.basket = b]
  <2>1. q \in Request /\ q.basket = b
    BY <1>2 DEF Request
  <2>2. req' = [req EXCEPT ![r] = q] /\ Goto(r, "write")
    BY <1>5 DEF FindBasketToEdit
  <2> HIDE DEF q
  <2> QED
    BY <1>1, <1>4, <2>1, <2>2, EarlyInv
<1>6. CASE Validate(r, b)
  <2> DEFINE q == [req[r] EXCEPT !.basket = b, !.total = units[b]]
  <2>1. units[b] \in 1..MaxUnits /\ units[b] \in 0..MaxUnits
    BY <1>4, <1>6 DEF Validate, PlacementAssumption
  <2>2. /\ q \in Request /\ q.basket = b /\ q.total = units[b]
        /\ q.buyer = req[r].buyer /\ q.site = req[r].site
    BY <1>2, <2>1 DEF Request
  <2>3. req' = [req EXCEPT ![r] = q] /\ Goto(r, "begin")
    BY <1>4, <1>6 DEF Validate
  <2> HIDE DEF q
  <2> QED
    BY <1>1, <1>3, <1>4, <2>1, <2>2, <2>3, EarlyInv
<1> QED
  BY <1>5, <1>6

LEMMA EditBasketInv ==
    ASSUME PlacementAssumption, PlacementInv, NEW r \in Requests, EditBasket(r)
    PROVE  PlacementInv'
<1>1. /\ phase[r] = "write" /\ Goto(r, "answered")
      /\ UNCHANGED <<cartStatus, order, lock, req, answer>>
  BY DEF EditBasket, Finish, At
<1>2. req[r] \in Request /\ req' = [req EXCEPT ![r] = req[r]]
  BY <1>1 DEF PlacementInv, ReadsInv, TypeOK
<1>3. cartStatus' \in [Baskets -> CartStatus \cup {Null}]
  BY <1>1 DEF PlacementInv, TypeOK
<1>4. units' \in [Baskets -> 0..MaxUnits]
  <2>1. units \in [Baskets -> 0..MaxUnits]
    BY DEF PlacementInv, TypeOK
  <2>2. units' = units \/ \E n \in 0..MaxUnits : units' = [units EXCEPT ![req[r].basket] = n]
    BY DEF EditBasket
  <2> QED
    BY <2>1, <2>2
<1> QED
  BY <1>1, <1>2, <1>3, <1>4, EarlyInv

\* A step inside the transaction: the request goes on to p, with the locks it had
\* and perhaps another.
LEMMA GoesOnInv ==
    ASSUME PlacementAssumption, PlacementInv, NEW r \in Requests, InTransaction(r),
           NEW p \in {"branchCounted", "counted", "inserted"}, Goto(r, p),
           UNCHANGED <<cartVars, order, req, answer>>,
           \/ UNCHANGED lock
           \/ \E k \in Sites \cup Buyers : TakeLock(r, k),
           SiteCap[req[r].site] # Null => lock'[req[r].site] = r,
           (p # "branchCounted" /\ BuyerCap[req[r].buyer] # Null) => lock'[req[r].buyer] = r,
           p = "inserted" =>
             /\ PlacedFrom(req[r].basket) = {}
             /\ \A q \in Requests \ {r} :
                  phase[q] = "inserted" => req[q].basket # req[r].basket
    PROVE  PlacementInv'
<1>1. TypeOK
  BY DEF PlacementInv
<1>2. /\ phase' \in [Requests -> Phases] /\ phase'[r] = p
      /\ \A s \in Requests \ {r} : phase'[s] = phase[s]
  <2>1. p \in Phases
    BY DEF Phases
  <2> QED
    BY <1>1, <2>1, GotoType
<1>3. lock' \in [Sites \cup Buyers -> Requests \cup {Null}]
  BY <1>1 DEF TypeOK, TakeLock
<1>4. TypeOK'
  BY <1>1, <1>2, <1>3 DEF TypeOK, cartVars
<1>5. /\ phase[r] # "answered" /\ phase[r] # "new" /\ p # "write" /\ p # "new"
      /\ answer[r] = Null
  BY DEF InTransaction, PlacementInv, PendingInv
<1>6. /\ req[r] \in Request
      /\ req[r].basket \in Baskets
      /\ Owner[req[r].basket] = req[r].buyer
      /\ Branch[req[r].basket] = req[r].site
      /\ req[r].total \in 1..MaxUnits
  BY <1>5 DEF PlacementInv, ReadsInv
<1>7. p = "inserted" =>
        /\ PlacedFrom(req[r].basket)' = {}
        /\ \A q \in Requests \ {r} :
             phase'[q] = "inserted" => req'[q].basket # req'[r].basket
  BY <1>2 DEF PlacedFrom, Contract!Placed
<1>8. UNCHANGED <<req, answer, order>>
  OBVIOUS
<1>9. OwnInv(r)'
  BY <1>2, <1>5, <1>6, <1>7, <1>8 DEF OwnInv
<1>10. ASSUME NEW k \in Sites \cup Buyers
       PROVE  \/ lock[k] \in {r, Null} /\ lock'[k] = r /\ InTransaction(r)'
              \/ lock[k] # r /\ lock'[k] = lock[k]
  <2>1. InTransaction(r)'
    BY <1>2 DEF InTransaction
  <2>2. CASE UNCHANGED lock
    BY <2>1, <2>2
  <2>3. CASE \E i \in Sites \cup Buyers : TakeLock(r, i)
    <3>1. PICK i \in Sites \cup Buyers : TakeLock(r, i)
      BY <2>3
    <3> QED
      BY <1>1, <2>1, <3>1 DEF TakeLock, TypeOK
  <2> QED
    BY <2>2, <2>3
<1> QED
  BY <1>2, <1>4, <1>5, <1>9, <1>10, QuietInv DEF cartVars

LEMMA CountInv ==
    ASSUME PlacementAssumption, PlacementInv, NEW r \in Requests,
           CountBranch(r) \/ CountBuyer(r) \/ InsertOrder(r)
    PROVE  PlacementInv'
<1>1. InTransaction(r) /\ UNCHANGED <<cartVars, order, req, answer>>
  BY DEF CountBranch, CountBuyer, InsertOrder, At, InTransaction
<1>2. req[r].site \in Sites /\ req[r].buyer \in Buyers
  BY <1>1 DEF PlacementInv, ReadsInv, Request, InTransaction
<1>3. CASE CountBranch(r)
  <2>1. Goto(r, "branchCounted")
    BY <1>3 DEF CountBranch
  <2>2. \/ SiteCap[req[r].site] = Null /\ UNCHANGED lock
        \/ SiteCap[req[r].site] # Null /\ TakeLock(r, req[r].site)
    BY <1>3 DEF CountBranch
  <2>3. SiteCap[req[r].site] # Null => lock'[req[r].site] = r
    BY <1>2, <2>2 DEF TakeLock, PlacementInv, TypeOK
  <2> QED
    BY <1>1, <1>2, <2>1, <2>2, <2>3, GoesOnInv
<1>4. CASE CountBuyer(r)
  <2>1. Goto(r, "counted")
    BY <1>4 DEF CountBuyer
  <2>2. \/ BuyerCap[req[r].buyer] = Null /\ UNCHANGED lock
        \/ BuyerCap[req[r].buyer] # Null /\ TakeLock(r, req[r].buyer)
    BY <1>4 DEF CountBuyer
  <2>3. BuyerCap[req[r].buyer] # Null => lock'[req[r].buyer] = r
    BY <1>2, <2>2 DEF TakeLock, PlacementInv, TypeOK
  <2>4. SiteCap[req[r].site] # Null => lock[req[r].site] = r
    BY <1>4 DEF CountBuyer, At, PlacementInv, LockInv
  <2>5. SiteCap[req[r].site] # Null => lock'[req[r].site] = r
    BY <1>2, <2>2, <2>4 DEF TakeLock, PlacementInv, TypeOK
  <2> QED
    BY <1>1, <1>2, <2>1, <2>2, <2>3, <2>5, GoesOnInv
<1>5. CASE InsertOrder(r)
  <2>1. phase[r] = "counted" /\ Goto(r, "inserted") /\ UNCHANGED lock
    BY <1>5 DEF InsertOrder, At
  <2>2. /\ SiteCap[req[r].site] # Null => lock'[req[r].site] = r
        /\ BuyerCap[req[r].buyer] # Null => lock'[req[r].buyer] = r
    BY <2>1 DEF PlacementInv, LockInv
  <2>3. /\ PlacedFrom(req[r].basket) = {}
        /\ \A q \in Requests \ {r} :
             phase[q] = "inserted" => req[q].basket # req[r].basket
    BY <1>5 DEF InsertOrder, At
  <2> QED
    BY <1>1, <2>1, <2>2, <2>3, GoesOnInv
<1> QED
  BY <1>3, <1>4, <1>5

\* What the end of a transaction leaves of the locks.
LEMMA ReleaseType ==
    ASSUME TypeOK, NEW r \in Requests, ReleaseLocks(r)
    PROVE  /\ lock' \in [Sites \cup Buyers -> Requests \cup {Null}]
           /\ \A k \in Sites \cup Buyers : lock'[k] = IF lock[k] = r THEN Null ELSE lock[k]
BY DEF TypeOK, ReleaseLocks

LEMMA RefuseInv ==
    ASSUME PlacementAssumption, PlacementInv, NEW r \in Requests,
           \/ BranchOverBudget(r) \/ BuyerOverBudget(r) \/ RollBack(r)
           \/ LoseTheRace(r)
    PROVE  PlacementInv'
<1>1. TypeOK
  BY DEF PlacementInv
<1>2. /\ InTransaction(r) /\ UNCHANGED <<cartVars, order, req>>
      /\ Goto(r, "answered") /\ ReleaseLocks(r)
  BY DEF BranchOverBudget, BuyerOverBudget, RollBack, LoseTheRace, Refuse, Finish, AnswerWith,
         At, InTransaction
<1>3. \/ UNCHANGED answer
      \/ \E q \in PlacedFrom(req[r].basket) : answer' = [answer EXCEPT ![r] = q]
  BY DEF BranchOverBudget, BuyerOverBudget, RollBack, LoseTheRace, Refuse, Finish, AnswerWith
<1>4. PlacedFrom(req[r].basket) \subseteq Requests
      /\ \A q \in PlacedFrom(req[r].basket) :
           order[q] # Null /\ order[q].basket = req[r].basket
  BY DEF PlacedFrom, Contract!Placed
<1>5. /\ phase[r] # "answered" /\ phase[r] # "new" /\ answer[r] = Null
      /\ req[r] \in Request
      /\ Owner[req[r].basket] = req[r].buyer
  BY <1>2 DEF InTransaction, PlacementInv, PendingInv, ReadsInv
<1>6. /\ phase' \in [Requests -> Phases] /\ phase'[r] = "answered"
      /\ \A s \in Requests \ {r} : phase'[s] = phase[s]
  BY <1>1, <1>2, GotoType DEF Phases
<1>7. /\ answer' \in [Requests -> Requests \cup {Null}]
      /\ \A s \in Requests \ {r} : answer'[s] = answer[s]
      /\ answer'[r] # Null => answer'[r] \in PlacedFrom(req[r].basket)
  BY <1>1, <1>3, <1>4, <1>5 DEF TypeOK
<1>8. TypeOK'
  BY <1>1, <1>2, <1>6, <1>7, ReleaseType DEF TypeOK, cartVars
<1>9. OwnInv(r)'
  BY <1>2, <1>4, <1>5, <1>6, <1>7 DEF OwnInv, InTransaction
<1>10. ASSUME NEW k \in Sites \cup Buyers
       PROVE  \/ lock[k] = r /\ lock'[k] = Null
              \/ lock[k] # r /\ lock'[k] = lock[k]
  <2>1. lock'[k] = IF lock[k] = r THEN Null ELSE lock[k]
    BY <1>1, <1>2, ReleaseType
  <2> QED
    BY <2>1
<1>11. \A b \in Baskets : cartStatus'[b] = "CHECKED_OUT" <=> cartStatus[b] = "CHECKED_OUT"
  BY <1>2 DEF cartVars
<1> QED
  BY <1>2, <1>5, <1>6, <1>7, <1>8, <1>9, <1>10, <1>11, QuietInv

\* The one step that places an order, and closes its basket.
LEMMA CommitInv ==
    ASSUME PlacementAssumption, PlacementInv, NEW r \in Requests, CommitOrder(r)
    PROVE  PlacementInv'
<1> DEFINE b == req[r].basket
           row == [basket |-> b, total |-> req[r].total, counts |-> "CHECKED"]
<1>1. TypeOK
  BY DEF PlacementInv
<1>2. /\ phase[r] = "inserted" /\ UNCHANGED <<units, req>>
      /\ order' = [order EXCEPT ![r] = row]
      /\ cartStatus' = [cartStatus EXCEPT ![b] = "CHECKED_OUT"]
      /\ ReleaseLocks(r)
      /\ Goto(r, "answered")
      /\ answer' = [answer EXCEPT ![r] = r]
  BY DEF CommitOrder, At, AnswerWith
<1>3. /\ req[r] \in Request
      /\ b \in Baskets /\ Owner[b] = req[r].buyer
      /\ req[r].total \in 1..MaxUnits
  BY <1>2 DEF PlacementInv, ReadsInv, InTransaction
<1>4. order[r] = Null
  BY <1>2 DEF PlacementInv, PendingInv
<1>5. /\ PlacedFrom(b) = {}
      /\ \A q \in Requests \ {r} : phase[q] = "inserted" => req[q].basket # b
  BY <1>2 DEF PlacementInv, InsertedInv
<1>6. row \in OrderRow /\ row # Null /\ row.basket = b
  BY <1>3, NullApart DEF OrderRow, Counts
<1> HIDE DEF row
<1>7. /\ phase' \in [Requests -> Phases] /\ phase'[r] = "answered"
      /\ \A q \in Requests \ {r} : phase'[q] = phase[q]
  <2>1. "answered" \in Phases
    BY DEF Phases
  <2> QED
    BY <1>1, <1>2, <2>1, GotoType
<1>8. /\ order' \in [Requests -> OrderRow \cup {Null}] /\ order'[r] = row
      /\ \A q \in Requests \ {r} : order'[q] = order[q]
  BY <1>1, <1>2, <1>6 DEF TypeOK
<1>9. /\ answer' \in [Requests -> Requests \cup {Null}] /\ answer'[r] = r
      /\ \A q \in Requests \ {r} : answer'[q] = answer[q]
  BY <1>1, <1>2 DEF TypeOK
<1>10. /\ cartStatus' \in [Baskets -> CartStatus \cup {Null}]
       /\ cartStatus'[b] = "CHECKED_OUT"
       /\ \A c \in Baskets \ {b} : cartStatus'[c] = cartStatus[c]
  BY <1>1, <1>2, <1>3 DEF TypeOK, CartStatus
<1>11. TypeOK'
  BY <1>1, <1>2, <1>7, <1>8, <1>9, <1>10, ReleaseType DEF TypeOK
<1>12. Contract!Placed' = Contract!Placed \cup {r}
  BY <1>6, <1>8 DEF Contract!Placed
<1>13. \A q \in Contract!Placed : q # r /\ order'[q] = order[q] /\ order[q].basket # b
  BY <1>4, <1>5, <1>8 DEF PlacedFrom, Contract!Placed
<1>14. ReadsInv'
  BY <1>2, <1>3, <1>7 DEF PlacementInv, ReadsInv, InTransaction
<1>15. PendingInv'
  BY <1>7, <1>8, <1>9 DEF PlacementInv, PendingInv
<1>16. OneOrderPerBasket'
  BY <1>6, <1>8, <1>12, <1>13 DEF PlacementInv, OneOrderPerBasket
<1>17. InsertedInv'
  <2>1. SUFFICES ASSUME NEW q \in Requests, phase'[q] = "inserted"
                 PROVE  /\ PlacedFrom(req[q].basket)' = {}
                        /\ \A s \in Requests \ {q} :
                             phase'[s] = "inserted" => req'[s].basket # req'[q].basket
    BY DEF InsertedInv
  <2>2. q # r /\ phase[q] = "inserted" /\ req[q].basket # b /\ req' = req
    BY <1>2, <1>5, <1>7, <2>1
  <2>3. PlacedFrom(req[q].basket) = {}
    BY <2>2 DEF PlacementInv, InsertedInv
  <2>4. PlacedFrom(req[q].basket)' = {}
    BY <1>6, <1>8, <1>12, <1>13, <2>2, <2>3 DEF PlacedFrom
  <2>5. \A s \in Requests \ {q} :
          phase'[s] = "inserted" => req[s].basket # req[q].basket
    BY <1>7, <2>2 DEF PlacementInv, InsertedInv
  <2> QED
    BY <2>2, <2>4, <2>5
<1>18. LockInv'
  <2>1. \A k \in Sites \cup Buyers : lock'[k] = IF lock[k] = r THEN Null ELSE lock[k]
    BY <1>1, <1>2, ReleaseType
  <2>2. ASSUME NEW k \in Sites \cup Buyers, lock'[k] # Null
        PROVE  InTransaction(lock[k])'
    <3>1. lock'[k] = lock[k] /\ lock[k] # r /\ lock[k] \in Requests
      BY <1>1, <2>1, <2>2 DEF TypeOK
    <3> QED
      BY <1>7, <2>2, <3>1 DEF PlacementInv, LockInv, InTransaction
  <2>3. ASSUME NEW q \in Requests,
               phase'[q] \in {"branchCounted", "counted", "inserted"}
        PROVE  /\ SiteCap[req'[q].site] # Null => lock'[req'[q].site] = q
               /\ (phase'[q] # "branchCounted" /\ BuyerCap[req'[q].buyer] # Null)
                    => lock'[req'[q].buyer] = q
    <3>1. q # r /\ phase[q] = phase'[q] /\ req' = req
      BY <1>2, <1>7, <2>3
    <3>2. req[q].site \in Sites /\ req[q].buyer \in Buyers
      BY <2>3, <3>1 DEF PlacementInv, ReadsInv, Request
    <3>3. SiteCap[req[q].site] # Null => lock[req[q].site] = q
      BY <2>3, <3>1 DEF PlacementInv, LockInv
    <3>4. (phase[q] # "branchCounted" /\ BuyerCap[req[q].buyer] # Null)
            => lock[req[q].buyer] = q
      BY <2>3, <3>1 DEF PlacementInv, LockInv
    <3> QED
      BY <2>1, <3>1, <3>2, <3>3, <3>4
  <2> QED
    BY <2>2, <2>3 DEF LockInv
<1>19. ClosedExactlyWhenPlaced'
  <2>1. ASSUME NEW c \in Baskets
        PROVE  cartStatus'[c] = "CHECKED_OUT"
                 <=> \E q \in Contract!Placed' : order'[q].basket = c
    <3>1. CASE c = b
      BY <1>6, <1>8, <1>10, <1>12, <3>1
    <3>2. CASE c # b
      <4>1. cartStatus[c] = "CHECKED_OUT" <=> \E q \in Contract!Placed : order[q].basket = c
        BY DEF PlacementInv, ClosedExactlyWhenPlaced
      <4> QED
        BY <1>6, <1>8, <1>10, <1>12, <1>13, <3>2, <4>1
    <3> QED
      BY <3>1, <3>2
  <2> QED
    BY <2>1 DEF ClosedExactlyWhenPlaced
<1>20. AnsweredWithOwnOrder'
  <2>1. SUFFICES ASSUME NEW q \in Requests, answer'[q] # Null
                 PROVE  /\ order'[answer'[q]] # Null
                        /\ order'[answer'[q]].basket \in {req'[q].names, req'[q].basket}
                        /\ Owner[order'[answer'[q]].basket] = req'[q].buyer
    BY DEF AnsweredWithOwnOrder
  <2>2. CASE q = r
    BY <1>2, <1>3, <1>6, <1>8, <1>9, <2>2
  <2>3. CASE q # r
    <3>1. /\ answer'[q] = answer[q] /\ req' = req
          /\ order[answer[q]] # Null /\ answer[q] \in Requests
      BY <1>1, <1>2, <1>9, <2>1, <2>3 DEF TypeOK, PlacementInv, AnsweredWithOwnOrder
    <3>2. order'[answer[q]] = order[answer[q]]
      BY <1>4, <1>8, <3>1
    <3> QED
      BY <2>1, <3>1, <3>2 DEF PlacementInv, AnsweredWithOwnOrder
  <2> QED
    BY <2>2, <2>3
<1> QED
  BY <1>11, <1>14, <1>15, <1>16, <1>17, <1>18, <1>19, <1>20 DEF PlacementInv

\* An order that stops counting, or counts again, keeps its basket.
LEMMA RecountedInv ==
    ASSUME PlacementAssumption, PlacementInv, NEW r \in Requests,
           StopCounting(r) \/ CountAgain(r)
    PROVE  PlacementInv'
<1>1. TypeOK
  BY DEF PlacementInv
<1>2. /\ order[r] # Null
      /\ UNCHANGED <<cartVars, lock, phase, req, answer>>
      /\ \E c \in Counts : order' = [order EXCEPT ![r].counts = c]
  BY DEF StopCounting, CountAgain, Contract!StopCounting, Contract!CountAgain,
         Contract!Counted, Contract!Placed, Counts
<1>3. /\ order[r] \in OrderRow
      /\ order' \in [Requests -> OrderRow \cup {Null}]
      /\ order'[r] \in OrderRow /\ order'[r].basket = order[r].basket
      /\ \A q \in Requests \ {r} : order'[q] = order[q]
  <2>1. order[r] \in OrderRow
    BY <1>1, <1>2 DEF TypeOK
  <2>4. PICK c \in Counts : order' = [order EXCEPT ![r].counts = c]
    BY <1>2
  <2> DEFINE row == [order[r] EXCEPT !.counts = c]
  <2>2. row \in OrderRow /\ row.basket = order[r].basket
    BY <2>1 DEF OrderRow
  <2>3. order' = [order EXCEPT ![r] = row]
    BY <2>4
  <2> HIDE DEF row
  <2> QED
    BY <1>1, <2>1, <2>2, <2>3 DEF TypeOK
<1>4. \A q \in Requests :
        /\ order'[q] # Null <=> order[q] # Null
        /\ order[q] # Null => order'[q].basket = order[q].basket
  BY <1>2, <1>3, NullApart
<1>5. Contract!Placed' = Contract!Placed
  BY <1>4 DEF Contract!Placed
<1>6. \A q \in Contract!Placed : order'[q].basket = order[q].basket
  BY <1>4 DEF Contract!Placed
<1>7. TypeOK'
  BY <1>1, <1>2, <1>3 DEF TypeOK, cartVars
<1>8. ReadsInv' /\ LockInv'
  BY <1>2 DEF PlacementInv, ReadsInv, LockInv, InTransaction
<1>9. PendingInv'
  BY <1>2, <1>4 DEF PlacementInv, PendingInv
<1>10. OneOrderPerBasket'
  BY <1>5, <1>6 DEF PlacementInv, OneOrderPerBasket
<1>11. InsertedInv'
  <2>1. \A q \in Requests : PlacedFrom(req[q].basket) = {} => PlacedFrom(req[q].basket)' = {}
    BY <1>2, <1>5, <1>6 DEF PlacedFrom
  <2> QED
    BY <1>2, <2>1 DEF PlacementInv, InsertedInv
<1>12. ClosedExactlyWhenPlaced'
  BY <1>2, <1>5, <1>6 DEF PlacementInv, ClosedExactlyWhenPlaced, cartVars
<1>13. AnsweredWithOwnOrder'
  <2>1. \A q \in Requests : answer[q] # Null => answer[q] \in Requests
    BY <1>1 DEF TypeOK
  <2> QED
    BY <1>2, <1>4, <2>1 DEF PlacementInv, AnsweredWithOwnOrder
<1> QED
  BY <1>7, <1>8, <1>9, <1>10, <1>11, <1>12, <1>13 DEF PlacementInv

LEMMA IdleInv ==
    ASSUME PlacementInv, UNCHANGED vars
    PROVE  PlacementInv'
<1>1. UNCHANGED <<cartStatus, units, order, lock, phase, req, answer>>
  BY DEF vars, cartVars
<1>2. TypeOK' /\ ReadsInv' /\ PendingInv' /\ LockInv'
  BY <1>1 DEF PlacementInv, TypeOK, ReadsInv, PendingInv, LockInv, InTransaction
<1>3. OneOrderPerBasket' /\ InsertedInv' /\ ClosedExactlyWhenPlaced' /\ AnsweredWithOwnOrder'
  BY <1>1 DEF PlacementInv, OneOrderPerBasket, InsertedInv, ClosedExactlyWhenPlaced,
              AnsweredWithOwnOrder, PlacedFrom, Contract!Placed
<1> QED
  BY <1>2, <1>3 DEF PlacementInv

LEMMA NextInv ==
    ASSUME PlacementAssumption, PlacementInv, [Next]_vars
    PROVE  PlacementInv'
<1>1. CASE UNCHANGED vars
  BY <1>1, IdleInv
<1>2. CASE Next
  <2>1. PICK r \in Requests :
          \/ \E kind \in Kinds, b \in Baskets, names \in Baskets \cup {Null} :
                Submit(r, kind, b, names)
          \/ ServerStep(r)
          \/ RollBack(r)
          \/ StopCounting(r) \/ CountAgain(r)
    BY <1>2 DEF Next
  <2>2. CASE \E kind \in Kinds, b \in Baskets, names \in Baskets \cup {Null} :
                Submit(r, kind, b, names)
    BY <2>2, SubmitInv
  <2>3. CASE ServerStep(r)
    <3>1. CASE NoOpenBasket(r) \/ NoBasketLeft(r) \/ RefuseBasket(r)
      BY <3>1, FinishedEarlyInv
    <3>2. CASE \E b \in Baskets :
                 CreateBasket(r, b) \/ FindBasketToEdit(r, b) \/ Validate(r, b)
      BY <3>2, CreateBasketInv, FindBasketInv
    <3>3. CASE EditBasket(r)
      BY <3>3, EditBasketInv
    <3>4. CASE CountBranch(r) \/ CountBuyer(r) \/ InsertOrder(r)
      BY <3>4, CountInv
    <3>5. CASE BranchOverBudget(r) \/ BuyerOverBudget(r) \/ LoseTheRace(r)
      BY <3>5, RefuseInv
    <3>6. CASE CommitOrder(r)
      BY <3>6, CommitInv
    <3> QED
      BY <2>3, <3>1, <3>2, <3>3, <3>4, <3>5, <3>6 DEF ServerStep
  <2>4. CASE RollBack(r)
    BY <2>4, RefuseInv
  <2>5. CASE StopCounting(r) \/ CountAgain(r)
    BY <2>5, RecountedInv
  <2> QED
    BY <2>1, <2>2, <2>3, <2>4, <2>5
<1> QED
  BY <1>1, <1>2

-----------------------------------------------------------------------------
(* What is spent.  The branches and the buyers are counted alike: `key` is  *)
(* Branch or Owner, and k one of its values.  The orders placed are always  *)
(* finitely many, however many requests there may be.                       *)

OrdersOf(S, key, k) == {r \in S : key[order[r].basket] = k}

\* By the orders that have counted ever since they were placed.
Spent(key, k) == SumFunctionOnSet(Contract!OrderTotal, OrdersOf(Contract!Checked, key, k))

\* By all that count, those brought back unchecked included.
SpentByAll(key, k) ==
    SumFunctionOnSet(Contract!OrderTotal, OrdersOf(Contract!Counted, key, k))

\* Checkout sums with its own instance of the library's operator.
LEMMA SpentIsSpend ==
    /\ \A s : Contract!SpendAtBranch(Contract!Checked, s) = Spent(Branch, s)
    /\ \A u : Contract!SpendOfBuyer(Contract!Checked, u) = Spent(Owner, u)
    /\ \A s : Contract!SpendAtBranch(Contract!Counted, s) = SpentByAll(Branch, s)
    /\ \A u : Contract!SpendOfBuyer(Contract!Counted, u) = SpentByAll(Owner, u)
BY DEF Contract!SpendAtBranch, Contract!SpendOfBuyer, Spent, SpentByAll, OrdersOf,
       Contract!SumFunctionOnSet, Contract!FoldFunctionOnSet, Contract!MapThenFoldSet,
       SumFunctionOnSet, FoldFunctionOnSet, MapThenFoldSet

LEMMA OrdersOfFacts ==
    ASSUME TypeOK, IsFiniteSet(Contract!Placed), NEW S \in SUBSET Contract!Placed,
           NEW key, NEW k
    PROVE  /\ IsFiniteSet(OrdersOf(S, key, k))
           /\ \A r \in OrdersOf(S, key, k) :
                /\ r \in Contract!Placed
                /\ Contract!OrderTotal[r] = order[r].total
                /\ Contract!OrderTotal[r] \in Nat
<1>1. IsFiniteSet(OrdersOf(S, key, k))
  <2>1. OrdersOf(S, key, k) \in SUBSET Contract!Placed
    BY DEF OrdersOf
  <2> QED
    BY <2>1, FS_Subset
<1>2. ASSUME NEW r \in OrdersOf(S, key, k)
      PROVE  /\ r \in Contract!Placed
             /\ Contract!OrderTotal[r] = order[r].total
             /\ Contract!OrderTotal[r] \in Nat
  <2>1. r \in Contract!Placed /\ order[r] \in OrderRow
    BY DEF OrdersOf, Contract!Placed, TypeOK
  <2> QED
    BY <2>1 DEF Contract!OrderTotal, OrderRow
<1> QED
  BY <1>1, <1>2

LEMMA CheckedCounts ==
    /\ Contract!Checked \in SUBSET Contract!Placed
    /\ Contract!Counted \in SUBSET Contract!Placed
    /\ Contract!Checked \subseteq Contract!Counted
BY DEF Contract!Checked, Contract!Counted

LEMMA SpentType ==
    ASSUME TypeOK, IsFiniteSet(Contract!Placed), NEW key, NEW k
    PROVE  Spent(key, k) \in Nat
<1>1. PICK f, S : f = Contract!OrderTotal /\ S = OrdersOf(Contract!Checked, key, k)
  OBVIOUS
<1>2. IsFiniteSet(S) /\ \A r \in S : f[r] \in Nat
  BY <1>1, OrdersOfFacts, CheckedCounts
<1> QED
  BY <1>1, <1>2, SumType DEF Spent

\* A placement counts the orders brought back too, which only makes less fit.
LEMMA CheckedSpendLess ==
    ASSUME TypeOK, IsFiniteSet(Contract!Placed), NEW key, NEW k
    PROVE  SpentByAll(key, k) \in Nat /\ Spent(key, k) <= SpentByAll(key, k)
<1>1. PICK f, S, T : /\ f = Contract!OrderTotal
                     /\ S = OrdersOf(Contract!Counted, key, k)
                     /\ T = OrdersOf(Contract!Checked, key, k)
  OBVIOUS
<1>2. IsFiniteSet(S) /\ \A r \in S : f[r] \in Nat
  BY <1>1, OrdersOfFacts, CheckedCounts
<1>3. T \in SUBSET S
  BY <1>1, CheckedCounts DEF OrdersOf
<1>4. SumFunctionOnSet(f, S) \in Nat /\ SumFunctionOnSet(f, T) <= SumFunctionOnSet(f, S)
  BY <1>2, <1>3, SumSubset
<1> QED
  BY <1>1, <1>4 DEF Spent, SpentByAll

\* A new order adds its total to what its branch and its buyer spend.
LEMMA CommitSpends ==
    ASSUME PlacementAssumption, PlacementInv, PlacementInv',
           IsFiniteSet(Contract!Placed), NEW r \in Requests, CommitOrder(r)
    PROVE  /\ IsFiniteSet(Contract!Placed)'
           /\ \A key, k :
                Spent(key, k)' = IF key[req[r].basket] = k THEN Spent(key, k) + req[r].total
                                                           ELSE Spent(key, k)
<1>1. /\ TypeOK /\ TypeOK' /\ order[r] = Null
      /\ req[r].basket \in Baskets /\ req[r].total \in 1..MaxUnits
      /\ phase[r] = "inserted"
  BY DEF PlacementInv, PendingInv, ReadsInv, CommitOrder, At, InTransaction
<1>2. PICK row : row = [basket |-> req[r].basket, total |-> req[r].total, counts |-> "CHECKED"]
  OBVIOUS
<1>3. /\ row \in OrderRow /\ row # Null /\ row.basket = req[r].basket
      /\ row.total = req[r].total /\ row.counts = "CHECKED"
  BY <1>1, <1>2, NullApart DEF OrderRow, Counts
<1>4. /\ order'[r] = row /\ \A q \in Requests \ {r} : order'[q] = order[q]
  BY <1>1, <1>2 DEF CommitOrder, TypeOK
<1>5. /\ r \notin Contract!Placed /\ Contract!Placed' = Contract!Placed \cup {r}
      /\ r \notin Contract!Checked /\ Contract!Checked' = Contract!Checked \cup {r}
  BY <1>1, <1>3, <1>4 DEF Contract!Checked, Contract!Placed
<1>6. IsFiniteSet(Contract!Placed)'
  BY <1>5, FS_AddElement
<1>7. ASSUME NEW key, NEW k
      PROVE  Spent(key, k)' = IF key[req[r].basket] = k THEN Spent(key, k) + req[r].total
                                                        ELSE Spent(key, k)
  <2>1. PICK f, g, S, T : /\ f = Contract!OrderTotal /\ g = Contract!OrderTotal'
                          /\ S = OrdersOf(Contract!Checked, key, k)
                          /\ T = OrdersOf(Contract!Checked, key, k)'
    OBVIOUS
  <2>2. IsFiniteSet(S) /\ \A q \in S : f[q] \in Nat /\ q \in Contract!Placed
    BY <1>1, <2>1, OrdersOfFacts, CheckedCounts
  <2>3. \A q \in S : g[q] = f[q]
    <3>1. \A q \in S : q \in Contract!Placed /\ q \in Contract!Placed' /\ order'[q] = order[q]
      BY <1>1, <1>4, <2>2 DEF Contract!Placed
    <3> QED
      BY <2>1, <3>1 DEF Contract!OrderTotal
  <2>4. g[r] = req[r].total /\ g[r] \in Nat
    BY <1>1, <1>3, <1>4, <2>1 DEF Contract!OrderTotal, Contract!Placed
  <2>5. r \notin S /\ T = IF key[req[r].basket] = k THEN S \cup {r} ELSE S
    <3>1. \A q \in Contract!Checked : q # r /\ order'[q] = order[q]
      BY <1>4, <1>5 DEF Contract!Checked, Contract!Placed
    <3> QED
      BY <1>3, <1>4, <1>5, <2>1, <3>1 DEF OrdersOf
  <2>6. SumFunctionOnSet(f, S) = SumFunctionOnSet(g, S)
    BY <2>2, <2>3, SumSame
  <2>7. SumFunctionOnSet(g, S \cup {r}) = SumFunctionOnSet(g, S) + g[r]
    BY <2>2, <2>3, <2>4, <2>5, SumAdd
  <2>8. Spent(key, k) = SumFunctionOnSet(f, S) /\ Spent(key, k)' = SumFunctionOnSet(g, T)
    BY <2>1 DEF Spent
  <2> QED
    BY <2>4, <2>5, <2>6, <2>7, <2>8
<1> QED
  BY <1>6, <1>7

\* An order that stops counting takes its total away, if it was checked; one that
\* counts again was not, and is not.
LEMMA RecountSpends ==
    ASSUME PlacementAssumption, PlacementInv, PlacementInv',
           IsFiniteSet(Contract!Placed), NEW r \in Requests,
           StopCounting(r) \/ CountAgain(r)
    PROVE  /\ IsFiniteSet(Contract!Placed)'
           /\ \A key, k : Spent(key, k)' \in Nat /\ Spent(key, k)' <= Spent(key, k)
<1>1. TypeOK /\ TypeOK' /\ r \in Contract!Placed
  BY DEF PlacementInv, StopCounting, Contract!StopCounting, CountAgain, Contract!CountAgain,
         Contract!Counted
<1>2. PICK c \in {"NO", "UNCHECKED"} : order' = [order EXCEPT ![r].counts = c]
  BY DEF StopCounting, Contract!StopCounting, CountAgain, Contract!CountAgain
<1>3. /\ order[r] \in OrderRow /\ order \in [Requests -> OrderRow \cup {Null}]
      /\ order'[r] \in OrderRow \cup {Null}
  BY <1>1 DEF TypeOK, Contract!Placed
<1>4. /\ order'[r] # Null /\ order'[r].counts = c
      /\ \A q \in Requests \ {r} : order'[q] = order[q]
  <2>1. [order[r] EXCEPT !.counts = c] \in OrderRow
    BY <1>3 DEF OrderRow, Counts
  <2> QED
    BY <1>2, <1>3, <2>1, NullApart DEF OrderRow
<1>5. Contract!Placed' = Contract!Placed
  BY <1>1, <1>4 DEF Contract!Placed
<1>6. Contract!Checked' = Contract!Checked \ {r}
  BY <1>4, <1>5 DEF Contract!Checked, Contract!Placed
<1>7. ASSUME NEW key, NEW k
      PROVE  Spent(key, k)' \in Nat /\ Spent(key, k)' <= Spent(key, k)
  <2>1. PICK f, g, S, T : /\ f = Contract!OrderTotal /\ g = Contract!OrderTotal'
                          /\ S = OrdersOf(Contract!Checked, key, k)
                          /\ T = OrdersOf(Contract!Checked, key, k)'
    OBVIOUS
  <2>2. IsFiniteSet(S) /\ \A q \in S : f[q] \in Nat
    BY <1>1, <2>1, OrdersOfFacts, CheckedCounts
  <2>3. T = S \ {r}
    BY <1>4, <1>6, <2>1 DEF OrdersOf, Contract!Checked, Contract!Placed
  <2>4. T \in SUBSET S /\ IsFiniteSet(T) /\ \A q \in T : f[q] \in Nat
    BY <2>2, <2>3, FS_RemoveElement
  <2>5. \A q \in T : g[q] = f[q]
    <3>1. \A q \in T : q \in Contract!Placed /\ q \in Contract!Placed' /\ order'[q] = order[q]
      BY <1>4, <1>5, <2>1, <2>3 DEF OrdersOf, Contract!Checked, Contract!Placed
    <3> QED
      BY <2>1, <3>1 DEF Contract!OrderTotal
  <2>6. SumFunctionOnSet(f, T) = SumFunctionOnSet(g, T)
    BY <2>4, <2>5, SumSame
  <2>7. SumFunctionOnSet(f, T) \in Nat
    BY <2>4, SumType
  <2>8. SumFunctionOnSet(f, T) <= SumFunctionOnSet(f, S)
    BY <2>2, <2>4, SumSubset
  <2>9. Spent(key, k) = SumFunctionOnSet(f, S) /\ Spent(key, k)' = SumFunctionOnSet(g, T)
    BY <2>1 DEF Spent
  <2> QED
    BY <2>6, <2>7, <2>8, <2>9
<1> QED
  BY <1>5, <1>7

LEMMA QuietSpends ==
    ASSUME UNCHANGED order
    PROVE  /\ Contract!Placed' = Contract!Placed
           /\ \A key, k : Spent(key, k)' = Spent(key, k)
<1>1. /\ Contract!Placed' = Contract!Placed /\ Contract!Checked' = Contract!Checked
      /\ Contract!OrderTotal' = Contract!OrderTotal
  BY DEF Contract!Checked, Contract!Placed, Contract!OrderTotal
<1>2. \A key, k :
        OrdersOf(Contract!Checked, key, k)' = OrdersOf(Contract!Checked, key, k)
  BY <1>1 DEF OrdersOf
<1> QED
  BY <1>1, <1>2 DEF Spent

-----------------------------------------------------------------------------
(* What was counted under a cap's lock still fits when the order commits,  *)
(* because nobody else commits under that cap meanwhile (CountsAlone).     *)

CapsHold(cap, key) == \A k \in DOMAIN cap : cap[k] # Null => Spent(key, k) <= cap[k]

Fitting(cap, key, k, total) == cap[k] # Null => Spent(key, k) + total <= cap[k]

\* The placement's order fits in what it has counted so far.
CountedFits(r) ==
    /\ phase[r] \in {"branchCounted", "counted", "inserted"} =>
         Fitting(SiteCap, Branch, req[r].site, req[r].total)
    /\ phase[r] \in {"counted", "inserted"} =>
         Fitting(BuyerCap, Owner, req[r].buyer, req[r].total)

BudgetInv ==
    /\ IsFiniteSet(Contract!Placed)
    /\ CapsHold(SiteCap, Branch)
    /\ CapsHold(BuyerCap, Owner)
    /\ \A r \in Requests : CountedFits(r)

LEMMA FitsFitting ==
    ASSUME TypeOK, PlacementAssumption, IsFiniteSet(Contract!Placed),
           NEW r \in Requests, req[r] \in Request
    PROVE  /\ SiteFits(r, req[r].total) =>
                Fitting(SiteCap, Branch, req[r].site, req[r].total)
           /\ BuyerFits(r, req[r].total) =>
                Fitting(BuyerCap, Owner, req[r].buyer, req[r].total)
<1>1. PICK s \in Sites, u \in Buyers, n \in Nat :
        s = req[r].site /\ u = req[r].buyer /\ n = req[r].total
  BY DEF Request, PlacementAssumption
<1>2. ASSUME NEW K, NEW cap \in [K -> Nat \cup {Null}], NEW key, NEW k \in K,
             Contract!Fits(cap[k], SpentByAll(key, k), n)
      PROVE  Fitting(cap, key, k, n)
  <2>1. PICK a \in Nat, b \in Nat : a = Spent(key, k) /\ b = SpentByAll(key, k) /\ a <= b
    BY CheckedSpendLess, SpentType
  <2> QED
    BY <1>2, <2>1 DEF Contract!Fits, Fitting
<1>3. SiteCap \in [Sites -> Nat \cup {Null}] /\ BuyerCap \in [Buyers -> Nat \cup {Null}]
  BY DEF PlacementAssumption
<1>4. SiteFits(r, n) => Fitting(SiteCap, Branch, s, n)
  BY <1>1, <1>2, <1>3, SpentIsSpend DEF SiteFits
<1>5. BuyerFits(r, n) => Fitting(BuyerCap, Owner, u, n)
  BY <1>1, <1>2, <1>3, SpentIsSpend DEF BuyerFits
<1> QED
  BY <1>1, <1>4, <1>5


LEMMA InitBudget ==
    ASSUME PlacementAssumption, Init
    PROVE  BudgetInv
<1>1. Contract!Placed = {} /\ Contract!Checked = {}
  BY DEF Init, Contract!Checked, Contract!Placed
<1>2. \A key, k : Spent(key, k) = 0
  <2>1. \A key, k : OrdersOf(Contract!Checked, key, k) = {}
    BY <1>1 DEF OrdersOf
  <2> QED
    BY <2>1, SumEmpty DEF Spent
<1>3. \A k \in Sites : SiteCap[k] # Null => 0 <= SiteCap[k]
  BY DEF PlacementAssumption
<1>4. \A k \in Buyers : BuyerCap[k] # Null => 0 <= BuyerCap[k]
  BY DEF PlacementAssumption
<1>5. CapsHold(SiteCap, Branch) /\ CapsHold(BuyerCap, Owner)
  BY <1>2, <1>3, <1>4 DEF CapsHold, PlacementAssumption
<1>6. \A r \in Requests : CountedFits(r)
  BY DEF Init, CountedFits
<1>7. IsFiniteSet(Contract!Placed)
  BY <1>1, FS_EmptySet
<1> QED
  BY <1>5, <1>6, <1>7 DEF BudgetInv

\* A step that touches no order: only the request that took it has to fit anew.
LEMMA QuietBudget ==
    ASSUME BudgetInv, UNCHANGED order, NEW r \in Requests, CountedFits(r)',
           \A q \in Requests \ {r} : phase'[q] = phase[q] /\ req'[q] = req[q]
    PROVE  BudgetInv'
<1>1. Contract!Placed' = Contract!Placed /\ \A key, k : Spent(key, k)' = Spent(key, k)
  BY QuietSpends
<1>2. CapsHold(SiteCap, Branch)' /\ CapsHold(BuyerCap, Owner)'
  BY <1>1 DEF BudgetInv, CapsHold
<1>3. ASSUME NEW q \in Requests
      PROVE  CountedFits(q)'
  BY <1>1, <1>3 DEF BudgetInv, CountedFits, Fitting
<1> QED
  BY <1>1, <1>2, <1>3 DEF BudgetInv

\* Less spent fits where more did.
LEMMA LessFits ==
    ASSUME PlacementAssumption, TypeOK, IsFiniteSet(Contract!Placed),
           NEW S, NEW cap \in [S -> Nat \cup {Null}], NEW key, NEW k \in S, NEW n \in Nat,
           Spent(key, k)' \in Nat, Spent(key, k)' <= Spent(key, k), Fitting(cap, key, k, n)
    PROVE  Fitting(cap, key, k, n)'
<1>1. PICK a \in Nat, b \in Nat : a = Spent(key, k) /\ b = Spent(key, k)'
  BY SpentType
<1> QED
  BY <1>1 DEF Fitting

LEMMA RecountBudget ==
    ASSUME PlacementAssumption, PlacementInv, PlacementInv', BudgetInv,
           NEW r \in Requests, StopCounting(r) \/ CountAgain(r)
    PROVE  BudgetInv'
<1>1. /\ TypeOK /\ TypeOK' /\ IsFiniteSet(Contract!Placed)
      /\ UNCHANGED <<phase, req>>
  BY DEF PlacementInv, BudgetInv, StopCounting, CountAgain
<1>2. /\ IsFiniteSet(Contract!Placed)'
      /\ \A key, k : Spent(key, k)' \in Nat /\ Spent(key, k)' <= Spent(key, k)
  BY <1>1, RecountSpends
<1>3. /\ SiteCap \in [Sites -> Nat \cup {Null}] /\ BuyerCap \in [Buyers -> Nat \cup {Null}]
      /\ DOMAIN SiteCap = Sites /\ DOMAIN BuyerCap = Buyers
  BY DEF PlacementAssumption
<1>4. ASSUME NEW S, NEW cap \in [S -> Nat \cup {Null}], NEW key, CapsHold(cap, key)
      PROVE  CapsHold(cap, key)'
  <2>1. ASSUME NEW k \in S, cap[k] # Null
        PROVE  Spent(key, k)' <= cap[k]
    <3>1. PICK a \in Nat, b \in Nat : a = Spent(key, k) /\ b = Spent(key, k)'
      BY <1>1, <1>2, SpentType
    <3>2. b <= a /\ a <= cap[k]
      BY <1>2, <1>4, <2>1, <3>1 DEF CapsHold
    <3> QED
      BY <1>4, <2>1, <3>1, <3>2
  <2> QED
    BY <1>4, <2>1 DEF CapsHold
<1>5. ASSUME NEW q \in Requests
      PROVE  CountedFits(q)'
  <2>1. CASE phase[q] \notin {"branchCounted", "counted", "inserted"}
    BY <1>1, <2>1 DEF CountedFits
  <2>2. CASE phase[q] \in {"branchCounted", "counted", "inserted"}
    <3>1. /\ req[q] \in Request /\ req[q].site \in Sites /\ req[q].buyer \in Buyers
          /\ req[q].total \in Nat
      BY <2>2 DEF PlacementInv, ReadsInv, Request, PlacementAssumption
    <3>2. PICK s \in Sites, u \in Buyers, n \in Nat :
            s = req[q].site /\ u = req[q].buyer /\ n = req[q].total
      BY <3>1
    <3>3. Fitting(SiteCap, Branch, s, n)'
      BY <1>1, <1>2, <1>3, <2>2, <3>2, LessFits DEF BudgetInv, CountedFits
    <3>4. phase[q] # "branchCounted" => Fitting(BuyerCap, Owner, u, n)'
      BY <1>1, <1>2, <1>3, <2>2, <3>2, LessFits DEF BudgetInv, CountedFits
    <3> QED
      BY <1>1, <3>2, <3>3, <3>4 DEF CountedFits
  <2> QED
    BY <2>1, <2>2
<1>6. CapsHold(SiteCap, Branch)' /\ CapsHold(BuyerCap, Owner)'
  BY <1>3, <1>4 DEF BudgetInv
<1> QED
  BY <1>2, <1>5, <1>6 DEF BudgetInv

\* The commit: the new order fits, and whoever else has counted has counted
\* under other caps.
LEMMA CommitBudget ==
    ASSUME PlacementAssumption, PlacementInv, PlacementInv', BudgetInv,
           NEW r \in Requests, CommitOrder(r)
    PROVE  BudgetInv'
<1>1. /\ TypeOK /\ TypeOK' /\ IsFiniteSet(Contract!Placed) /\ CountsAlone
      /\ phase[r] = "inserted" /\ req' = req
  BY DEF PlacementInv, LockInv, CountsAlone, BudgetInv, CommitOrder, At
<1>2. PICK s \in Sites, u \in Buyers, n \in Nat :
        /\ s = req[r].site /\ u = req[r].buyer /\ n = req[r].total
        /\ s = Branch[req[r].basket] /\ u = Owner[req[r].basket]
  BY <1>1 DEF PlacementInv, ReadsInv, Request, PlacementAssumption, InTransaction
<1>3. /\ IsFiniteSet(Contract!Placed)'
      /\ \A k : Spent(Branch, k)' = IF s = k THEN Spent(Branch, k) + n ELSE Spent(Branch, k)
      /\ \A k : Spent(Owner, k)' = IF u = k THEN Spent(Owner, k) + n ELSE Spent(Owner, k)
  BY <1>1, <1>2, CommitSpends
<1>4. /\ SiteCap \in [Sites -> Nat \cup {Null}] /\ BuyerCap \in [Buyers -> Nat \cup {Null}]
      /\ DOMAIN SiteCap = Sites /\ DOMAIN BuyerCap = Buyers
  BY DEF PlacementAssumption
<1>5. Fitting(SiteCap, Branch, s, n) /\ Fitting(BuyerCap, Owner, u, n)
  <2>1. CountedFits(r)
    BY DEF BudgetInv
  <2> QED
    BY <1>1, <1>2, <2>1 DEF CountedFits
<1>6. CapsHold(SiteCap, Branch)' /\ CapsHold(BuyerCap, Owner)'
  BY <1>3, <1>4, <1>5 DEF BudgetInv, CapsHold, Fitting
<1>7. ASSUME NEW q \in Requests
      PROVE  CountedFits(q)'
  <2>1. phase' = [phase EXCEPT ![r] = "answered"] /\ phase \in [Requests -> Phases]
    BY <1>1 DEF CommitOrder, AnswerWith, Goto, TypeOK
  <2>2. CASE q = r
    BY <2>1, <2>2 DEF CountedFits
  <2>3. CASE q # r
    <3>1. phase'[q] = phase[q] /\ CountedFits(q)
      BY <2>1, <2>3 DEF BudgetInv
    <3>2. /\ /\ phase[q] \in {"branchCounted", "counted", "inserted"}
             /\ SiteCap[req[q].site] # Null
             => req[q].site # s
          /\ /\ phase[q] \in {"counted", "inserted"}
             /\ BuyerCap[req[q].buyer] # Null
             => req[q].buyer # u
      BY <1>1, <1>2, <2>3 DEF CountsAlone
    <3> QED
      BY <1>1, <1>3, <3>1, <3>2 DEF CountedFits, Fitting
  <2> QED
    BY <2>2, <2>3
<1> QED
  BY <1>3, <1>6, <1>7 DEF BudgetInv

\* The counts themselves, and everything a request does before and after them.
LEMMA CountBudget ==
    ASSUME PlacementAssumption, PlacementInv, BudgetInv, NEW r \in Requests,
           CountBranch(r) \/ CountBuyer(r) \/ InsertOrder(r)
    PROVE  BudgetInv'
<1>1. TypeOK /\ UNCHANGED <<order, req>>
  BY DEF PlacementInv, CountBranch, CountBuyer, InsertOrder
<1>2. PICK p \in {"branchCounted", "counted", "inserted"} : Goto(r, p)
  BY DEF CountBranch, CountBuyer, InsertOrder
<1>3. phase'[r] = p /\ \A q \in Requests \ {r} : phase'[q] = phase[q]
  BY <1>1, <1>2 DEF TypeOK, Goto
<1>4. \A key, k : Spent(key, k)' = Spent(key, k)
  BY <1>1, QuietSpends
<1>5. /\ Fitting(SiteCap, Branch, req[r].site, req[r].total)
      /\ p # "branchCounted" => Fitting(BuyerCap, Owner, req[r].buyer, req[r].total)
  <2>1. CASE CountBranch(r)
    <3>1. p = "branchCounted" /\ SiteFits(r, req[r].total)
      BY <1>1, <1>2, <1>3, <2>1 DEF CountBranch, Goto, TypeOK
    <3>2. req[r] \in Request
      BY <2>1 DEF CountBranch, At, PlacementInv, ReadsInv
    <3> QED
      BY <1>1, <3>1, <3>2, FitsFitting DEF BudgetInv
  <2>2. CASE CountBuyer(r)
    <3>1. phase[r] = "branchCounted" /\ BuyerFits(r, req[r].total)
      BY <2>2 DEF CountBuyer, At
    <3>2. req[r] \in Request
      BY <3>1 DEF PlacementInv, ReadsInv
    <3>3. Fitting(BuyerCap, Owner, req[r].buyer, req[r].total)
      BY <1>1, <3>1, <3>2, FitsFitting DEF BudgetInv
    <3> QED
      BY <3>1, <3>3 DEF BudgetInv, CountedFits
  <2>3. CASE InsertOrder(r)
    BY <2>3 DEF InsertOrder, At, BudgetInv, CountedFits
  <2> QED
    BY <2>1, <2>2, <2>3
<1>6. CountedFits(r)'
  BY <1>1, <1>3, <1>4, <1>5 DEF CountedFits, Fitting
<1> QED
  BY <1>1, <1>3, <1>6, QuietBudget

LEMMA OtherBudget ==
    ASSUME PlacementAssumption, PlacementInv, BudgetInv, NEW r \in Requests,
           \/ \E kind \in Kinds, b \in Baskets, names \in Baskets \cup {Null} :
                 Submit(r, kind, b, names)
           \/ NoOpenBasket(r) \/ NoBasketLeft(r)
           \/ \E b \in Baskets : CreateBasket(r, b) \/ FindBasketToEdit(r, b) \/ Validate(r, b)
           \/ EditBasket(r) \/ RefuseBasket(r) \/ BranchOverBudget(r) \/ BuyerOverBudget(r)
           \/ LoseTheRace(r) \/ RollBack(r)
    PROVE  BudgetInv'
<1>1. /\ UNCHANGED order /\ TypeOK
      /\ \/ UNCHANGED req
         \/ \E x : req' = [req EXCEPT ![r] = x]
      /\ \E p \in {"open", "create", "write", "begin", "answered"} : Goto(r, p)
  BY DEF PlacementInv, Submit, NoOpenBasket, NoBasketLeft, CreateBasket, FindBasketToEdit,
         Validate, EditBasket, RefuseBasket, BranchOverBudget, BuyerOverBudget, LoseTheRace,
         RollBack, Refuse, Finish, AnswerWith
<1>2. \A q \in Requests \ {r} : phase'[q] = phase[q] /\ req'[q] = req[q]
  BY <1>1 DEF Goto, TypeOK
<1>3. phase'[r] \notin {"branchCounted", "counted", "inserted"}
  BY <1>1 DEF Goto, TypeOK
<1>4. CountedFits(r)'
  BY <1>3 DEF CountedFits
<1> QED
  BY <1>1, <1>2, <1>4, QuietBudget

LEMMA NextBudget ==
    ASSUME PlacementAssumption, PlacementInv, PlacementInv', BudgetInv, [Next]_vars
    PROVE  BudgetInv'
<1>1. CASE UNCHANGED vars
  <2>1. UNCHANGED <<order, phase, req>>
    BY <1>1 DEF vars
  <2>2. Contract!Placed' = Contract!Placed /\ \A key, k : Spent(key, k)' = Spent(key, k)
    BY <2>1, QuietSpends
  <2> QED
    BY <2>1, <2>2 DEF BudgetInv, CapsHold, CountedFits, Fitting
<1>2. CASE Next
  BY <1>2, OtherBudget, CountBudget, CommitBudget, RecountBudget DEF Next, ServerStep
<1> QED
  BY <1>1, <1>2

\* A commit is Checkout's Place, an order that stops counting or counts again its
\* StopCounting or CountAgain; no other step is seen there.
LEMMA StepPlaces ==
    ASSUME PlacementAssumption, PlacementInv, BudgetInv, [Next]_vars
    PROVE  [Contract!Next]_order
<1>1. ASSUME NEW r \in Requests, CommitOrder(r)
      PROVE  \E b \in Baskets, total \in 1..MaxUnits : Contract!Place(r, b, total)
  <2>1. /\ phase[r] = "inserted" /\ order[r] = Null
        /\ PlacedFrom(req[r].basket) = {}
    BY <1>1 DEF CommitOrder, At, PlacementInv, PendingInv, InsertedInv
  <2>2. PICK b \in Baskets, total \in 1..MaxUnits :
          /\ b = req[r].basket /\ total = req[r].total
          /\ Branch[b] = req[r].site /\ Owner[b] = req[r].buyer
    BY <2>1 DEF PlacementInv, ReadsInv, InTransaction
  <2>3. \A q \in Contract!Placed : order[q].basket # b
    BY <2>1, <2>2 DEF PlacedFrom
  <2>4. /\ Fitting(SiteCap, Branch, Branch[b], total)
        /\ Fitting(BuyerCap, Owner, Owner[b], total)
    BY <2>1, <2>2 DEF BudgetInv, CountedFits
  <2>5. /\ Contract!Fits(SiteCap[Branch[b]],
                         Contract!SpendAtBranch(Contract!Checked, Branch[b]), total)
        /\ Contract!Fits(BuyerCap[Owner[b]],
                         Contract!SpendOfBuyer(Contract!Checked, Owner[b]), total)
    BY <2>4, SpentIsSpend DEF Fitting, Contract!Fits
  <2>6. order' = [order EXCEPT ![r] = [basket |-> b, total |-> total, counts |-> "CHECKED"]]
    BY <1>1, <2>2 DEF CommitOrder
  <2> QED
    BY <2>1, <2>3, <2>5, <2>6 DEF Contract!Place
<1>2. ASSUME NEW r \in Requests, StopCounting(r) \/ CountAgain(r)
      PROVE  Contract!StopCounting(r) \/ Contract!CountAgain(r)
  BY <1>2 DEF StopCounting, CountAgain
<1>3. ASSUME NEW r \in Requests, ServerStep(r), ~ CommitOrder(r)
      PROVE  UNCHANGED order
  BY <1>3 DEF ServerStep, NoOpenBasket, NoBasketLeft, CreateBasket, FindBasketToEdit, Validate,
     EditBasket, RefuseBasket, CountBranch, BranchOverBudget, CountBuyer, BuyerOverBudget,
     InsertOrder, LoseTheRace, Refuse
<1>4. ASSUME NEW r \in Requests,
             \/ RollBack(r)
             \/ \E kind \in Kinds, b \in Baskets, names \in Baskets \cup {Null} :
                   Submit(r, kind, b, names)
      PROVE  UNCHANGED order
  BY <1>4 DEF RollBack, Refuse, Submit
<1>5. CASE UNCHANGED vars
  BY <1>5 DEF vars
<1>6. CASE Next
  BY <1>1, <1>2, <1>3, <1>4, <1>6 DEF Next, Contract!Next
<1> QED
  BY <1>5, <1>6

-----------------------------------------------------------------------------
(* The theorems.                                                           *)

\* Every state reachable by openCart, the edits of a basket and placeOrder has
\* the invariant: what a request has read, which locks it holds and which
\* orders and baskets there are fit together.
THEOREM InvariantHolds == Spec => []PlacementInv
<1>1. Init => PlacementInv
  BY PlacementAssumption, InitPlacementInv
<1>2. PlacementInv /\ [Next]_vars => PlacementInv'
  BY PlacementAssumption, NextInv
<1> QED
  BY <1>1, <1>2, PTL DEF Spec

\* The rows, the application locks and the requests keep their types: no order
\* is placed for an empty basket, and no lock belongs to anything but a request.
THEOREM TypeCorrect == Spec => []TypeOK
<1>1. PlacementInv => TypeOK
  BY DEF PlacementInv
<1> QED
  BY <1>1, InvariantHolds, PTL

\* placeOrder, "A basket becomes at most one order", and exactly then is its
\* status CHECKED_OUT, however many requests overlap.
THEOREM BasketsCloseWhenPlaced ==
    Spec => []OneOrderPerBasket /\ []ClosedExactlyWhenPlaced
<1>1. PlacementInv => OneOrderPerBasket /\ ClosedExactlyWhenPlaced
  BY DEF PlacementInv
<1> QED
  BY <1>1, InvariantHolds, PTL

\* placeOrder, "Safe to repeat": whichever way a placement learns of an order
\* (its own commit, the retry's look-up, the unique index it lost to), it is
\* the order of the basket it named or read, and its own buyer's.
THEOREM RepeatsGetTheirOrder == Spec => []AnsweredWithOwnOrder
<1>1. PlacementInv => AnsweredWithOwnOrder
  BY DEF PlacementInv
<1> QED
  BY <1>1, InvariantHolds, PTL

\* assertBudgetsAllowOrder: under a cap, one placement at a time is between its
\* count and its commit, so none counts while another has an order it cannot see.
THEOREM CapsAreCountedAlone == Spec => []CountsAlone
<1>1. PlacementInv => CountsAlone
  BY DEF PlacementInv, LockInv, CountsAlone
<1> QED
  BY <1>1, InvariantHolds, PTL

\* placeOrder's transaction: what fitted when it was counted under the caps' locks
\* fits at the commit, so that no overlap of placements brings the orders that
\* have counted since they were placed over the branch's or the buyer's cap.  An
\* order that counts again because its refusal or cancellation was overwritten
\* comes on top of them, whatever its total.
THEOREM BudgetsAreKept == Spec => []BudgetInv /\ []WithinBudgets
<1>1. Init => BudgetInv
  BY PlacementAssumption, InitBudget
<1>2. PlacementInv /\ PlacementInv' /\ BudgetInv /\ [Next]_vars => BudgetInv'
  BY PlacementAssumption, NextBudget
<1>3. PlacementInv /\ BudgetInv => WithinBudgets
  <2> SUFFICES ASSUME PlacementInv, BudgetInv
               PROVE  WithinBudgets
    OBVIOUS
  <2>1. ASSUME NEW cap, NEW key, CapsHold(cap, key), NEW k \in DOMAIN cap
        PROVE  Contract!Fits(cap[k], Spent(key, k), 0)
    <3>1. PICK n \in Nat : n = Spent(key, k)
      BY SpentType DEF PlacementInv, BudgetInv
    <3> QED
      BY <2>1, <3>1 DEF CapsHold, Contract!Fits
  <2> QED
    BY <2>1, SpentIsSpend DEF BudgetInv, WithinBudgets, Contract!WithinCaps
<1> QED
  BY <1>1, <1>2, <1>3, InvariantHolds, PTL DEF Spec

\* Placing an order is atomic: baskets read and edited, locks taken and given
\* back, rows counted and inserted by any number of overlapping requests come to
\* the same as orders placed one by one, each out of a basket that had become
\* none and within what the orders still counting from their placement left of
\* both caps.  Orders may stop counting, and count again, at any point.
THEOREM PlacementIsAtomic == Spec => PlacesAtomically
<1>1. Init => Contract!Init
  BY DEF Init, Contract!Init
<1>2. PlacementInv /\ BudgetInv /\ [Next]_vars => [Contract!Next]_order
  BY PlacementAssumption, StepPlaces
<1> QED
  BY <1>1, <1>2, InvariantHolds, BudgetsAreKept, PTL
  DEF Spec, PlacesAtomically, Contract!Spec
=============================================================================
