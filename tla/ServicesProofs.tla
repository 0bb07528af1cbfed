----------------------------- MODULE ServicesProofs -----------------------------
(***************************************************************************)
(* What the parts that answer the loop promise, each by itself, for every  *)
(* value of their constants: the account is read whole, a simulated order  *)
(* is never asked for twice, the folds of the meta filter are judged by    *)
(* their past, failed requests to the broker are spaced, an entry is made  *)
(* by a clock and readings that were right, a sealed holdout is looked at  *)
(* once, an event of the movements screen is shown, counted or asked for   *)
(* again, a series is bought out of a chain that is there, and in a        *)
(* quantity that is right for every fill its order allows.  And what the   *)
(* bootstrap of the evidence draws with an even number of sessions, and    *)
(* what its lower limit is when that number is a power of two.             *)
(***************************************************************************)
EXTENDS AccountReading, DynamicLimit, WalkForward, IolConnection, ReferenceFeeds,
        HoldoutRegistry, MovementStream, FrameAssembly, EntrySizing, EvidenceGate,
        FoldFacts, SequenceTheorems, TLAPS

-----------------------------------------------------------------------------
(* AccountReading: an account that moves while it is read                  *)

ReadingSpec == ReadingInit /\ [][ReadingNext]_accountReading

\* Instruments in the account all through the reading whose state never changed.
Still == exposed \ executed

\* Those still there are where they were when the reading began: what is held
\* was found in the portfolio, and what is pending will be in the orders.
ReadingInv ==
    /\ account \in [Lots -> {"none", "pending", "held"}]
    /\ exposed \subseteq Exposed(account)
    /\ reading = "orders" => \A l \in Still : account[l] = "held" => l \in positions
    /\ reading = "read" => Still \cap named \subseteq positions \cup pendingOrders

LEMMA ReadingStarts == ReadingInit => ReadingInv
  BY DEF ReadingInit, ReadingInv, Still

\* An instrument that moves is no longer still, and no other changes.
LEMMA MovesKeep == ASSUME ReadingInv, AccountMoves PROVE ReadingInv'
  <1>1. PICK l \in Lots, move \in Moves :
            /\ account[l] = move[1] /\ account' = [account EXCEPT ![l] = move[2]]
            /\ exposed' = exposed \cap Exposed(account')
            /\ executed' = IF move[2] = "held" THEN executed \cup {l} ELSE executed
            /\ UNCHANGED <<named, reading, positions, pendingOrders>>
    BY DEF AccountMoves
  <1>2. move[2] \in {"none", "pending", "held"} /\ (move[2] = "pending" => account[l] = "none")
    BY <1>1 DEF Moves
  <1>3. account' \in [Lots -> {"none", "pending", "held"}]
    BY <1>1, <1>2 DEF ReadingInv
  <1>4. exposed' \subseteq exposed /\ exposed' \subseteq Exposed(account') /\ Still' \subseteq Still
    BY <1>1 DEF Still
  <1>5. \A k \in Lots \ {l} : account'[k] = account[k]  BY <1>1 DEF ReadingInv
  <1>6. account'[l] = move[2]  BY <1>1 DEF ReadingInv
  <1>7. \A k \in Still' : account'[k] = "held" => account[k] = "held" /\ k # l
    BY <1>1, <1>2, <1>4, <1>5, <1>6 DEF Still, ReadingInv, Exposed
  <1>8. reading' = "orders" => \A k \in Still' : account'[k] = "held" => k \in positions'
    BY <1>1, <1>4, <1>7 DEF ReadingInv
  <1>9. reading' = "read" => Still' \cap named' \subseteq positions' \cup pendingOrders'
    BY <1>1, <1>4 DEF ReadingInv
  <1> QED  BY <1>3, <1>4, <1>8, <1>9 DEF ReadingInv, Exposed

LEMMA PortfolioKeeps == ASSUME ReadingInv, ReadPortfolio PROVE ReadingInv'
  <1> DEFINE held == {l \in Lots : account[l] = "held"}
  <1>1. PICK malformed \in SUBSET held :
            /\ reading' = IF Parsed(held, malformed).ok THEN "orders" ELSE "failed"
            /\ positions' = Parsed(held, malformed).lots
    BY DEF ReadPortfolio
  <1>2. UNCHANGED <<account, named, pendingOrders, exposed, executed>>  BY DEF ReadPortfolio
  <1>3. positions' = held  BY <1>1 DEF Parsed
  <1>4. \A l \in Still' : account'[l] = "held" => l \in positions'
    BY <1>2, <1>3 DEF Still, ReadingInv, Exposed
  <1> QED  BY <1>1, <1>2, <1>4 DEF ReadingInv, Exposed

\* The orders are read last: what is still there and not held is among them.
LEMMA OrdersKeep == ASSUME ReadingInv, ReadOrders PROVE ReadingInv'
  <1> DEFINE open == {l \in Lots : account[l] = "pending"}
  <1>1. PICK malformed \in SUBSET open :
            /\ reading' = IF Parsed(open, malformed).ok THEN "read" ELSE "failed"
            /\ pendingOrders' = Parsed(open, malformed).lots \cap named
    BY DEF ReadOrders
  <1>2. /\ reading = "orders" /\ positions' = positions \cap named
        /\ UNCHANGED <<account, named, exposed, executed>>
    BY DEF ReadOrders
  <1>3. pendingOrders' = open \cap named  BY <1>1 DEF Parsed
  <1>4. \A l \in Still : l \in Lots /\ (account[l] = "pending" \/ account[l] = "held")
    BY DEF Still, ReadingInv, Exposed
  <1>5. Still' \cap named' \subseteq positions' \cup pendingOrders'
    BY <1>2, <1>3, <1>4 DEF Still, ReadingInv
  <1> QED  BY <1>1, <1>2, <1>5 DEF ReadingInv, Exposed

\* Nothing hides an option but an execution between two requests, or that
\* nothing told it to be one (account_snapshot, apply_account_snapshot).
THEOREM ReadingIsComplete == ReadingSpec => []OnlyExecutionsHide
  <1>1. ReadingInv /\ [ReadingNext]_accountReading => ReadingInv'
    <2> SUFFICES ASSUME ReadingInv, [ReadingNext]_accountReading PROVE ReadingInv'  OBVIOUS
    <2>1. CASE AccountMoves  BY <2>1, MovesKeep
    <2>2. CASE BeginReading  BY <2>2 DEF BeginReading, ReadingInv, Exposed
    <2>3. CASE ReadFunds \/ ReadingFails
      BY <2>3 DEF ReadFunds, ReadingFails, ReadingInv, Exposed
    <2>4. CASE ReadPortfolio  BY <2>4, PortfolioKeeps
    <2>5. CASE ReadOrders  BY <2>5, OrdersKeep
    <2>6. CASE UNCHANGED accountReading
      BY <2>6 DEF accountReading, ReadingInv, Exposed, Still
    <2> QED  BY <2>1, <2>2, <2>3, <2>4, <2>5, <2>6 DEF ReadingNext
  <1>2. ReadingInv => OnlyExecutionsHide  BY DEF ReadingInv, OnlyExecutionsHide, Still
  <1> QED  BY ReadingStarts, <1>1, <1>2, PTL DEF ReadingSpec

-----------------------------------------------------------------------------
(* DynamicLimit: the simulated dynamic limit                               *)

DynamicSpec == DynamicInit /\ [][DynamicNext]_dynamicLimit

Phases == {"None", "Pending", "ReplacementSubmitted", "PartiallyFilled", "Executed",
           "CancelRequested", "Cancelled", "StoppedUncertainCancellation"}

OrderTypes ==
    /\ order \in [quantity : Nat, cap : Nat, attempt : Nat, filled : Nat, phase : Phases]
    /\ requested \in Nat /\ atVenue \in Nat

\* Nothing is known of an order before there is one; only one that is executed
\* has nothing left to fill.
FillInv ==
    /\ order.phase = "None" => order = NoOrder /\ atVenue = 0
    /\ order.phase # "None" => order.quantity > 0 /\ order.cap > 0
    /\ order.phase = "Executed" => order.filled = order.quantity
    /\ order.phase \notin {"None", "Executed"} => order.filled < order.quantity

\* An attempt sends what is left, and what it sent is gone once it is
\* executed or its cancellation is known.
VenueInv ==
    /\ order.filled + atVenue <= order.quantity
    /\ Submitted => atVenue = Unfilled(order)
    /\ order.phase = "Cancelled" => atVenue = 0

\* The metrics read the quantity of the first attempt, which is the whole one.
FirstInv ==
    /\ order.attempt = 0 => order.phase \in {"None", "Cancelled"} /\ order.filled = 0
    /\ order.attempt > 0 => requested = order.quantity

DynamicInv == OrderTypes /\ FillInv /\ VenueInv /\ FirstInv

Classes == {"fully_filled", "partial_fills", "no_fills"}

\* What puts an order in each class of the metrics.
LEMMA ClassesAre ==
    /\ CountsAs \subseteq Classes
    /\ "fully_filled" \in CountsAs <=> FinalStatus = "Executed"
    /\ "partial_fills" \in CountsAs <=>
            FinalStatus = "PartiallyExecuted" \/ (FinalStatus = "Cancelled" /\ order.filled > 0)
    /\ "no_fills" \in CountsAs <=> order.filled = 0
BY DEF CountsAs, Classes

\* An order that ended is counted in one class, whatever filled of it
\* (summarize_dynamic_executions).
LEMMA EndedCountsOnce ==
    ASSUME DynamicInv, DynamicEnded
    PROVE  \E c \in Classes : CountsAs = {c}
<1> USE DEF DynamicInv, OrderTypes, FillInv
<1>1. CASE order.phase = "Executed"
  <2>1. order.filled = order.quantity /\ order.filled > 0
    BY <1>1
  <2>2. FinalStatus = "Executed"
    BY <2>1 DEF FinalStatus
  <2>3. CountsAs = {"fully_filled"}
    <3>1. "fully_filled" \in CountsAs /\ "partial_fills" \notin CountsAs /\ "no_fills" \notin CountsAs
      BY <2>1, <2>2, ClassesAre
    <3>. QED BY <3>1, ClassesAre DEF Classes
  <2>. QED BY <2>3 DEF Classes
<1>2. CASE order.phase # "Executed"
  <2>1. order.phase \in {"StoppedUncertainCancellation", "Cancelled"} /\ order.filled < order.quantity
    BY <1>2 DEF DynamicEnded, NoOrder
  <2>2. CASE order.filled > 0
    <3>1. FinalStatus \in {"PartiallyExecuted", "Cancelled"}
      BY <2>1, <2>2 DEF FinalStatus
    <3>2. CountsAs = {"partial_fills"}
      <4>1. "fully_filled" \notin CountsAs /\ "partial_fills" \in CountsAs /\ "no_fills" \notin CountsAs
        BY <2>2, <3>1, ClassesAre
      <4>. QED BY <4>1, ClassesAre DEF Classes
    <3>. QED BY <3>2 DEF Classes
  <2>3. CASE order.filled = 0
    <3>1. FinalStatus \in {"Pending", "Cancelled"}
      BY <2>1, <2>3 DEF FinalStatus
    <3>2. CountsAs = {"no_fills"}
      <4>1. "fully_filled" \notin CountsAs /\ "partial_fills" \notin CountsAs /\ "no_fills" \in CountsAs
        BY <2>3, <3>1, ClassesAre
      <4>. QED BY <4>1, ClassesAre DEF Classes
    <3>. QED BY <3>2 DEF Classes
  <2>. QED BY <2>2, <2>3
<1>. QED BY <1>1, <1>2

\* The invariant holds before the first order.
LEMMA DynamicInvInit == DynamicInit => DynamicInv
BY DEF DynamicInit, DynamicInv, OrderTypes, FillInv, VenueInv, FirstInv, NoOrder, Phases,
       Submitted, Unfilled

\* What a frame executes is at most what the attempt has at the venue.
LEMMA CrossKeeps == ASSUME DynamicInv, Cross PROVE DynamicInv'
<1> USE DynamicAssumption DEF DynamicInv, OrderTypes, FillInv, VenueInv, FirstInv
<1>1. PICK depth \in 0..Depth, ahead \in 0..Depth :
        LET there == IF ahead < depth THEN depth - ahead ELSE 0
            executable == IF there < ReplacementQuantity THEN there ELSE ReplacementQuantity
        IN  /\ order' = [order EXCEPT !.filled = @ + executable,
                                      !.phase = IF order.filled + executable = order.quantity
                                                THEN "Executed" ELSE "PartiallyFilled"]
            /\ atVenue' = atVenue - executable
  BY DEF Cross
<1> DEFINE there == IF ahead < depth THEN depth - ahead ELSE 0
           executable == IF there < ReplacementQuantity THEN there ELSE ReplacementQuantity
<1>2. /\ order.filled < order.quantity /\ order.attempt > 0 /\ order.quantity > 0
      /\ atVenue = order.quantity - order.filled /\ requested' = requested
  BY DEF Cross, Submitted, Unfilled, Phases
<1>3. executable \in 0..(order.quantity - order.filled)
  BY <1>2, DynamicAssumption DEF ReplacementQuantity, Unfilled
<1> HIDE DEF executable
<1>4. /\ order' = [order EXCEPT !.filled = @ + executable,
                                !.phase = IF order.filled + executable = order.quantity
                                          THEN "Executed" ELSE "PartiallyFilled"]
      /\ atVenue' = atVenue - executable
  BY <1>1 DEF executable
<1>5. /\ order'.quantity = order.quantity /\ order'.cap = order.cap /\ order'.attempt = order.attempt
      /\ order'.filled = order.filled + executable /\ order'.filled \in Nat
      /\ order'.phase \in {"Executed", "PartiallyFilled"}
      /\ order'.phase = "Executed" <=> order'.filled = order.quantity
  BY <1>2, <1>3, <1>4
<1>6. OrderTypes'
  <2>1. order' \in [quantity : Nat, cap : Nat, attempt : Nat, filled : Nat, phase : Phases]
    <3> HIDE DEF FillInv, VenueInv, FirstInv
    <3>. QED BY <1>4, <1>5 DEF Phases
  <2>. QED BY <1>2, <1>3, <1>4, <2>1
<1>7. FillInv' /\ FirstInv'
  BY <1>2, <1>3, <1>5
<1>8. VenueInv'
  BY <1>2, <1>3, <1>4, <1>5 DEF Submitted
<1>. QED BY <1>6, <1>7, <1>8

\* Every step keeps the invariant.
LEMMA DynamicInvStep == ASSUME DynamicInv, [DynamicNext]_dynamicLimit PROVE DynamicInv'
<1> USE DynamicAssumption DEF DynamicInv, OrderTypes, FillInv, VenueInv, FirstInv, Submitted, Unfilled, Phases
<1>1. CASE Simulate
  <2>1. PICK q \in Quantities, cap \in Frames :
          order' = [quantity |-> q, cap |-> cap, attempt |-> 0, filled |-> 0, phase |-> "Cancelled"]
    BY <1>1 DEF Simulate, NoOrder
  <2>2. q \in Nat \ {0} /\ cap \in Nat \ {0}
    BY DynamicAssumption
  <2>3. atVenue' = 0 /\ requested' \in Nat
    BY <1>1 DEF Simulate, NoOrder
  <2>. QED BY <2>1, <2>2, <2>3
<1>2. CASE Replace
  <2>1. /\ order.phase = "Cancelled" /\ atVenue = 0
        /\ order.quantity > 0 /\ order.cap > 0 /\ order.filled < order.quantity
    BY <1>2 DEF Replace
  <2>2. /\ order'.quantity = order.quantity /\ order'.cap = order.cap
        /\ order'.filled = order.filled /\ order'.attempt = order.attempt + 1
        /\ order'.phase \in {"Pending", "ReplacementSubmitted"}
        /\ atVenue' = order.quantity - order.filled
        /\ requested' = IF order.attempt = 0 THEN order.quantity - order.filled ELSE requested
    BY <1>2, <2>1 DEF Replace, ReplacementQuantity
  <2>3. order' \in [quantity : Nat, cap : Nat, attempt : Nat, filled : Nat, phase : Phases]
    <3> HIDE DEF FillInv, VenueInv, FirstInv
    <3> DEFINE next == order.attempt + 1
               phase == IF order.attempt = 0 THEN "Pending" ELSE "ReplacementSubmitted"
    <3>1. order' = [order EXCEPT !.attempt = next, !.phase = phase]
      BY <1>2 DEF Replace
    <3>2. next \in Nat /\ phase \in Phases
      OBVIOUS
    <3> HIDE DEF next, phase
    <3>. QED BY <3>1, <3>2
  <2>. QED BY <2>1, <2>2, <2>3
<1>3. CASE Cross
  BY <1>3, CrossKeeps
<1>4. CASE RequestCancel
  BY <1>4 DEF RequestCancel, NoOrder
<1>5. CASE CancelAcknowledged
  BY <1>5 DEF CancelAcknowledged, NoOrder
<1>6. CASE CancelUnconfirmed
  BY <1>6 DEF CancelUnconfirmed, AfterSilence, NoOrder
<1>7. CASE UNCHANGED dynamicLimit
  BY <1>7 DEF dynamicLimit, NoOrder
<1>. QED BY <1>1, <1>2, <1>3, <1>4, <1>5, <1>6, <1>7 DEF DynamicNext

\* The property follows from the invariant.
LEMMA DynamicInvSuffices == DynamicInv => NeverOrdersTwice
<1> SUFFICES ASSUME DynamicInv PROVE NeverOrdersTwice
  OBVIOUS
<1>1. order.filled + atVenue <= order.quantity
  BY DEF DynamicInv, VenueInv
<1>2. ASSUME DynamicEnded
      PROVE  requested = order.quantity
  <2>1. order.attempt > 0
    BY <1>2 DEF DynamicEnded, DynamicInv, OrderTypes, FillInv, FirstInv, Phases, NoOrder
  <2>. QED BY <2>1 DEF DynamicInv, FirstInv
<1>. QED BY <1>1, <1>2, EndedCountsOnce DEF NeverOrdersTwice, Classes

\* What was executed and what may still execute never exceed what was asked
\* for, and an order that ended counts once (simulate_dynamic_limit and
\* summarize_dynamic_executions in broker.rs).
THEOREM OrdersOnce == DynamicSpec => []NeverOrdersTwice
<1>1. DynamicInv /\ [DynamicNext]_dynamicLimit => DynamicInv'
  BY DynamicInvStep
<1>. QED BY <1>1, DynamicInvInit, DynamicInvSuffices, PTL DEF DynamicSpec

-----------------------------------------------------------------------------
(* WalkForward: the folds of the meta filter                               *)

WalkSpec == WalkInit /\ [][WalkNext]_walk

Known == InitialTrain(trades, policy)
Splits == [model: {Unfitted, "linear", "quadratic", "tree"},
           fitted: SUBSET Int, selects: SUBSET Int, judges: SUBSET Int]

WalkTypes ==
    /\ trades \in Nat
    /\ policy \in [examples: Nat, train: Nat \ {0}, nonlinear: BOOLEAN]
    /\ at \in {"idle", "walk", "tree", "judged"}
    /\ start \in Nat
    /\ folds \in Seq(Splits)

\* The next fold starts where the last one ended, a fold's length further.
FoldsAlign ==
    /\ at = "idle" => folds = <<>>
    /\ at = "walk" => Known < trades /\ start < trades /\ start = Known + Len(folds) * FoldSize
    /\ at \in {"tree", "judged"} /\ folds # <<>> => start = trades
    /\ Len(folds) <= Folds

\* What the folds judge is what lies between the first part and the next fold.
FoldsCover ==
    /\ \A i \in DOMAIN folds :
        folds[i].judges # {} /\ folds[i].judges \subseteq Known..(start - 1)
    /\ \A i, j \in DOMAIN folds : i # j => folds[i].judges \cap folds[j].judges = {}
    /\ \A t \in Known..(start - 1) : \E i \in DOMAIN folds : t \in folds[i].judges

AllToldApart == (\A i \in DOMAIN folds : ToldApart(folds[i])) /\ ToldApart(tree)

WalkInv == WalkTypes /\ FoldsAlign /\ FoldsCover /\ AllToldApart


\* The first part is a natural number of trades.
LEMMA InitialTrainNat ==
    ASSUME NEW n \in Nat, NEW p, p.train \in Nat
    PROVE  InitialTrain(n, p) \in Nat
  <1>1. n \div 2 \in Nat  OBVIOUS
  <1> QED  BY <1>1 DEF InitialTrain, Larger

\* Division that rounds up leaves nothing behind.
LEMMA DivCeilCovers ==
    ASSUME NEW a \in Nat \ {0}, NEW b \in Nat \ {0}
    PROVE  DivCeil(a, b) \in Nat \ {0} /\ a <= b * DivCeil(a, b)
  <1>1. DivCeil(a, b) \in Nat  BY DEF DivCeil
  <1>2. DivCeil(a, b) * b >= a  BY DEF DivCeil
  <1>3. DivCeil(a, b) # 0  BY <1>1, <1>2
  <1> QED  BY <1>1, <1>2, <1>3

\* A multiple below another one has a smaller factor.
LEMMA FactorBelow ==
    ASSUME NEW a \in Nat, NEW b \in Nat, NEW f \in Nat, a * f < b * f
    PROVE  a < b
  OBVIOUS

\* Where the choice begins is a place, so what chooses is a set of trades.
LEMMA ChoosesFromInt ==
    ASSUME NEW n \in Nat, policy.train \in Nat
    PROVE  ChoosesFrom(n) \in Int
  <1>1. (n * 3) \div 4 \in Int  OBVIOUS
  <1> QED  BY <1>1 DEF ChoosesFrom, Smaller, Larger, Spare

LEMMA WalkStarts == WalkInit => WalkInv
  <1> SUFFICES ASSUME WalkInit PROVE WalkInv  OBVIOUS
  <1> USE DEF WalkInit
  <1>1. WalkTypes  BY DEF WalkTypes
  <1>2. FoldsAlign  BY WalkAssumption DEF FoldsAlign
  <1>3. Known \in Nat  BY InitialTrainNat DEF Known
  <1>4. FoldsCover  BY <1>3 DEF FoldsCover
  <1>5. AllToldApart  BY DEF AllToldApart, ToldApart, Before, Split, Unfitted
  <1> QED  BY <1>1, <1>2, <1>4, <1>5 DEF WalkInv

LEMMA AssessKeeps == ASSUME WalkInv, Assess PROVE WalkInv'
  <1> USE DEF WalkInv
  <1>1. PICK n \in 0..MaxTrades, e \in MinExamples, t \in MinTrain, nonlinear \in BOOLEAN :
            /\ trades' = n
            /\ policy' = [examples |-> e, train |-> t, nonlinear |-> nonlinear]
            /\ start' = InitialTrain(n, policy')
            /\ at' = IF n >= e /\ InitialTrain(n, policy') < n THEN "walk" ELSE "tree"
    BY DEF Assess
  <1>2. folds = <<>> /\ UNCHANGED <<folds, tree>>  BY DEF Assess, FoldsAlign
  <1>3. /\ n \in Nat /\ e \in Nat /\ t \in Nat \ {0}
        /\ policy'.train = t
    BY <1>1, WalkAssumption
  <1>4. start' \in Nat /\ start' = Known'
    BY <1>1, <1>3, InitialTrainNat DEF Known
  <1>5. WalkTypes'  BY <1>1, <1>2, <1>3, <1>4 DEF WalkTypes
  <1>6. FoldsAlign'
    <2>1. Len(folds') = 0  BY <1>2
    <2>2. at' = "walk" => start' < trades'  BY <1>1
    <2>3. at' = "walk" => FoldSize' \in Int
      <3> SUFFICES ASSUME at' = "walk" PROVE FoldSize' \in Int  OBVIOUS
      <3>1. /\ trades' \in Nat /\ Known' \in Nat /\ Known' < trades'
        BY <1>1, <1>3, <1>4, <2>2
      <3> HIDE DEF WalkInv
      <3>2. \A a, b \in Nat : a < b => b - a \in Nat \ {0}  OBVIOUS
      <3>3. trades' - Known' \in Nat \ {0}  BY <3>1, <3>2
      <3> QED  BY <3>3, DivCeilCovers, WalkAssumption DEF FoldSize, Known
    <2> QED  BY <1>1, <1>2, <1>4, <2>1, <2>2, <2>3, WalkAssumption DEF FoldsAlign
  <1>7. FoldsCover'
    <2>1. folds' = <<>>  BY <1>2
    <2>2. DOMAIN folds' = {}  BY <2>1
    <2>3. \A k \in Nat : k..(k - 1) = {}  OBVIOUS
    <2>4. Known'..(start' - 1) = {}  BY <1>4, <2>3
    <2> QED  BY <2>2, <2>4, Zenon DEF FoldsCover
  <1>8. AllToldApart'  BY <1>2 DEF AllToldApart, ToldApart, Before
  <1> QED  BY <1>5, <1>6, <1>7, <1>8

LEMMA FoldKeeps == ASSUME WalkInv, WalkFold PROVE WalkInv'
  <1> DEFINE end == Smaller(start + FoldSize, trades)
  <1> USE DEF WalkInv
  <1>1. /\ at = "walk" /\ start < trades /\ start = Known + Len(folds) * FoldSize
        /\ trades \in Nat /\ start \in Nat /\ policy.train \in Nat \ {0}
        /\ folds \in Seq(Splits) /\ Len(folds) \in Nat
    BY DEF WalkFold, FoldsAlign, WalkTypes
  <1>2. /\ start' = end /\ at' = IF end < trades THEN "walk" ELSE "tree"
        /\ UNCHANGED <<trades, policy, tree>>
    BY DEF WalkFold
  <1>3. PICK m \in Models(start) :
            folds' = Append(folds, Split(m, 0..(start - 1), ChoosesFrom(start)..(start - 1), start..(end - 1)))
    BY DEF WalkFold, LearnsFrom
  <1> DEFINE fold == Split(m, 0..(start - 1), ChoosesFrom(start)..(start - 1), start..(end - 1))
  <1>4. Known \in Nat /\ Known' = Known /\ FoldSize' = FoldSize
    BY <1>1, <1>2, InitialTrainNat DEF Known, FoldSize
  <1>5. Known <= start /\ FoldSize \in Nat \ {0} /\ trades - Known <= Folds * FoldSize
    <2>1. Known < trades  BY <1>1 DEF FoldsAlign
    <2>2. trades - Known \in Nat \ {0}  BY <2>1, <1>1, <1>4
    <2>3. FoldSize \in Nat \ {0} /\ trades - Known <= Folds * FoldSize
      BY <2>2, DivCeilCovers, WalkAssumption DEF FoldSize, Known
    <2> HIDE DEF Known, FoldSize
    <2>4. Len(folds) * FoldSize \in Nat  BY <2>3, <1>1
    <2> QED  BY <2>3, <2>4, <1>1, <1>4
  <1> HIDE DEF Known, FoldSize
  <1>6. /\ end \in Nat /\ start < end /\ end <= trades
        /\ end < trades => end = start + FoldSize
    BY <1>1, <1>5 DEF Smaller
  <1>7. at' = "walk" => start' < trades' /\ start' = Known' + Len(folds') * FoldSize'
    <2> SUFFICES ASSUME at' = "walk"
                 PROVE  start' < trades' /\ start' = Known' + Len(folds') * FoldSize'
      OBVIOUS
    <2>1. start' = start + FoldSize /\ start' < trades'  BY <1>2, <1>6
    <2>2. Len(folds') = Len(folds) + 1  BY <1>1, <1>3
    <2>3. (Len(folds) + 1) * FoldSize = Len(folds) * FoldSize + FoldSize  BY <1>1, <1>5
    <2> QED  BY <1>1, <1>4, <1>5, <2>1, <2>2, <2>3
  <1>8. Len(folds') <= Folds
    <2>1. Len(folds) * FoldSize < Folds * FoldSize
      <3>1. Len(folds) * FoldSize \in Nat /\ Folds * FoldSize \in Nat
        BY <1>1, <1>5, WalkAssumption
      <3> QED  BY <1>1, <1>4, <1>5, <3>1
    <2>2. Len(folds) < Folds  BY <2>1, <1>1, <1>5, FactorBelow, WalkAssumption
    <2> QED  BY <2>2, <1>1, <1>3, WalkAssumption
  <1>9. /\ m \in {Unfitted, "linear", "quadratic"}
        /\ ChoosesFrom(start) \in Int
    BY <1>1, ChoosesFromInt DEF Models
  <1>10. fold \in Splits  BY <1>1, <1>6, <1>9 DEF Split, Splits
  <1>11. /\ fold.model # "tree" /\ fold.fitted = 0..(start - 1)
         /\ fold.selects = ChoosesFrom(start)..(start - 1) /\ fold.judges = start..(end - 1)
    BY <1>9 DEF Split, Unfitted
  <1> HIDE DEF fold, end
  <1>12. folds' = Append(folds, fold)  BY <1>3 DEF fold
  <1>13. /\ Len(folds') = Len(folds) + 1 /\ DOMAIN folds' = DOMAIN folds \cup {Len(folds) + 1}
         /\ folds' \in Seq(Splits)
         /\ \A i \in DOMAIN folds : folds'[i] = folds[i] /\ i # Len(folds) + 1
         /\ folds'[Len(folds) + 1] = fold
    BY <1>1, <1>10, <1>12
  <1>14. WalkTypes'  BY <1>2, <1>6, <1>13 DEF WalkTypes
  <1>15. FoldsAlign'
    <2>1. at' # "idle"  BY <1>2
    <2>2. at' \in {"tree", "judged"} => start' = trades'  BY <1>1, <1>2, <1>6
    <2> QED  BY <1>1, <1>2, <1>4, <1>7, <1>8, <2>1, <2>2 DEF FoldsAlign
  <1>16. FoldsCover'
    <2>1. \A i \in DOMAIN folds :
            folds[i].judges # {} /\ folds[i].judges \subseteq Known..(start - 1)
      BY DEF FoldsCover
    <2>2. \A i \in DOMAIN folds' :
            folds'[i].judges # {} /\ folds'[i].judges \subseteq Known'..(start' - 1)
      <3>1. Known..(start - 1) \subseteq Known..(end - 1)  BY <1>1, <1>4, <1>6
      <3>2. start..(end - 1) \subseteq Known..(end - 1) /\ start \in start..(end - 1)
        BY <1>1, <1>4, <1>5, <1>6
      <3> QED  BY <1>2, <1>4, <1>11, <1>13, <2>1, <3>1, <3>2
    <2>3. \A i \in DOMAIN folds : folds[i].judges \cap fold.judges = {}
      <3>1. (Known..(start - 1)) \cap (start..(end - 1)) = {}  BY <1>1, <1>4, <1>6
      <3> QED  BY <1>11, <2>1, <3>1
    <2>4. \A i, j \in DOMAIN folds' : i # j => folds'[i].judges \cap folds'[j].judges = {}
      BY <1>13, <2>3 DEF FoldsCover
    <2>5. \A t \in Known'..(start' - 1) : \E i \in DOMAIN folds' : t \in folds'[i].judges
      <3> SUFFICES ASSUME NEW t \in Known..(end - 1)
                   PROVE  \E i \in DOMAIN folds' : t \in folds'[i].judges
        BY <1>2, <1>4
      <3>1. t \in Known..(start - 1) \/ t \in start..(end - 1)  BY <1>1, <1>4, <1>6
      <3>2. CASE t \in Known..(start - 1)  BY <1>13, <3>2 DEF FoldsCover
      <3>3. CASE t \in start..(end - 1)  BY <1>11, <1>13, <3>3
      <3> QED  BY <3>1, <3>2, <3>3
    <2> QED  BY <2>2, <2>4, <2>5 DEF FoldsCover
  <1>17. AllToldApart'
    <2>1. ToldApart(fold)
      BY <1>1, <1>6, <1>9, <1>11 DEF ToldApart, Before
    <2>2. ToldApart(tree)' = ToldApart(tree)  BY <1>2 DEF ToldApart, Before
    <2>3. \A i \in DOMAIN folds' : ToldApart(folds'[i])
      BY <1>13, <2>1 DEF AllToldApart
    <2> QED  BY <2>2, <2>3 DEF AllToldApart, ToldApart, Before
  <1> QED  BY <1>14, <1>15, <1>16, <1>17

LEMMA TreeKeeps == ASSUME WalkInv, AssessTree PROVE WalkInv'
  <1> USE DEF WalkInv
  <1>1. /\ at = "tree" /\ at' = "judged" /\ UNCHANGED <<trades, policy, start, folds>>
        /\ tree' = TreeSplit(Known) \/ tree' = tree
    BY DEF AssessTree, Known
  <1>2. trades \in Nat /\ Known \in Nat
    BY InitialTrainNat DEF Known, WalkTypes
  <1>3. Known' = Known /\ FoldSize' = FoldSize  BY <1>1 DEF Known, FoldSize
  <1> HIDE DEF Known
  <1>4. WalkTypes'  BY <1>1 DEF WalkTypes
  <1>5. FoldsAlign'  BY <1>1, <1>3 DEF FoldsAlign
  <1>6. FoldsCover'  BY <1>1, <1>3 DEF FoldsCover
  <1>7. ToldApart(TreeSplit(Known))
    <2> DEFINE selectionEnd == Larger((trades * 3) \div 4, Known + 1)
    <2>1. (trades * 3) \div 4 \in Int  BY <1>2
    <2>2. selectionEnd \in Int /\ selectionEnd > Known  BY <1>2, <2>1 DEF Larger
    <2> HIDE DEF selectionEnd
    <2>3. TreeSplit(Known) =
            Split("tree", 0..(Known - 1), Known..(selectionEnd - 1), selectionEnd..(trades - 1))
      BY DEF TreeSplit, selectionEnd
    <2> QED  BY <1>2, <2>2, <2>3 DEF ToldApart, Before, Split
  <1>8. AllToldApart'  BY <1>1, <1>7 DEF AllToldApart, ToldApart, Before
  <1> QED  BY <1>4, <1>5, <1>6, <1>8

LEMMA WalkInvJudges == WalkInv => JudgedOnceByThePast
  <1> SUFFICES ASSUME WalkInv PROVE JudgedOnceByThePast  OBVIOUS
  <1> USE DEF WalkInv, FoldsCover
  <1>1. ASSUME at = "judged", folds # <<>>
        PROVE  UNION {folds[i].judges : i \in DOMAIN folds} = Known..(trades - 1)
    BY <1>1 DEF FoldsAlign
  <1> QED  BY <1>1 DEF JudgedOnceByThePast, Known, FoldsAlign, AllToldApart

\* Every trade after the first part is judged in one fold, by models of its past,
\* and so is what the tree is judged by (learning_model.rs, walk_forward).
THEOREM JudgedByThePast == WalkSpec => []JudgedOnceByThePast
  <1>1. WalkInv /\ [WalkNext]_walk => WalkInv'
    <2> SUFFICES ASSUME WalkInv, [WalkNext]_walk PROVE WalkInv'  OBVIOUS
    <2>1. CASE Assess  BY <2>1, AssessKeeps
    <2>2. CASE WalkFold  BY <2>2, FoldKeeps
    <2>3. CASE AssessTree  BY <2>3, TreeKeeps
    <2>4. CASE UNCHANGED walk
      BY <2>4 DEF walk, WalkInv, WalkTypes, FoldsAlign, FoldsCover, AllToldApart,
                  ToldApart, Before, Known, FoldSize
    <2> QED  BY <2>1, <2>2, <2>3, <2>4 DEF WalkNext
  <1> QED  BY WalkStarts, WalkInvJudges, <1>1, PTL DEF WalkSpec

-----------------------------------------------------------------------------
(* IolConnection: the calls to the broker and their circuit                *)

ConnectionSpec == ConnectionInit /\ [][ConnectionNext]_connection

Calls == [op : {"idle", "frame", "account"}, get : Nat, phase : {"none", "ensure", "send", "renew", "resend"},
          attempt : Nat, attempts : Nat]

ConnectionTypes ==
    /\ time \in Nat /\ circuitUntil \in Nat /\ failures \in Nat /\ failedAt \in Nat
    /\ call \in Calls /\ (call.op = "idle" => call.phase = "none")

\* The count of the breaker is that of the failed reads.
RunIsCounted == failedRun = failures

\* From the third one on the circuit is as long as the last one asks.
CircuitFollows == OpensCircuit(failures) => circuitUntil = failedAt + CircuitTime

\* A frame is only read while the circuit is closed.
FramesFindItClosed == call.op = "frame" => circuitUntil <= time

ConnectionInv == ConnectionTypes /\ RunIsCounted /\ CircuitFollows /\ FramesFindItClosed

LEMMA FirstGetIs ==
    ASSUME NEW op \in {"frame", "account"}, NEW a \in Nat, NEW n \in Nat
    PROVE  FirstGet(op, a, n) \in Calls /\ FirstGet(op, a, n).op = op /\ FirstGet(op, a, n).phase = "ensure"
  BY DEF FirstGet, Calls

LEMMA IdleIs == Idle \in Calls /\ Idle.op = "idle" /\ Idle.phase = "none"
  BY DEF Idle, Calls

\* A failed read is counted, and opens the circuit from the third one on.
LEMMA FailKeeps ==
    ASSUME ConnectionInv, NEW retryable \in BOOLEAN, Fail(retryable), call.op # "idle", UNCHANGED time
    PROVE  ConnectionInv'
  <1> USE DEF ConnectionInv
  <1>1. CASE call.op = "frame"
    <2>1. /\ failures' = failures + 1 /\ failedRun' = failedRun + 1 /\ failedAt' = time
          /\ circuitUntil' = IF OpensCircuit(failures + 1) THEN time + CircuitTime ELSE circuitUntil
          /\ \/ call' = Idle
             \/ ~OpensCircuit(failures + 1) /\ call' = FirstGet("frame", call.attempt + 1, call.attempts)
      BY <1>1 DEF Fail, CountFailure, NextAttempt
    <2>2. call.attempt + 1 \in Nat /\ call.attempts \in Nat  BY DEF ConnectionTypes, Calls
    <2>3. /\ failures' \in Nat /\ circuitUntil' \in Nat /\ failedAt' \in Nat /\ time' \in Nat
      BY <2>1, ConnectionAssumption DEF ConnectionTypes
    <2>4. call' \in Calls /\ (call'.op = "idle" => call'.phase = "none")
      BY <2>1, <2>2, FirstGetIs, IdleIs
    <2>5. ConnectionTypes' /\ RunIsCounted'  BY <2>1, <2>3, <2>4 DEF ConnectionTypes, RunIsCounted
    <2>6. CircuitFollows'  BY <2>1 DEF CircuitFollows, OpensCircuit
    <2>7. FramesFindItClosed'
      BY <1>1, <2>1, <2>2, IdleIs DEF FramesFindItClosed
    <2> QED  BY <2>5, <2>6, <2>7
  <1>2. CASE call.op # "frame"
    <2>1. call' = Idle /\ UNCHANGED <<failures, circuitUntil, failedRun, failedAt>>
      BY <1>2 DEF Fail
    <2> QED
      BY <2>1, IdleIs DEF ConnectionTypes, RunIsCounted, CircuitFollows, FramesFindItClosed, OpensCircuit
  <1> QED  BY <1>1, <1>2

\* A token or an answered frame makes the breaker forget.
LEMMA ForgettingKeeps ==
    ASSUME ConnectionInv, failures' = 0, circuitUntil' = 0, failedRun' = 0, failedAt' = 0, UNCHANGED time,
           call' \in Calls, call'.op = "idle" => call'.phase = "none"
    PROVE  ConnectionInv'
  BY DEF ConnectionInv, ConnectionTypes, RunIsCounted, CircuitFollows, FramesFindItClosed, OpensCircuit

LEMMA PhaseOfCall ==
    ASSUME ConnectionInv, call.op # "idle", NEW get \in Nat, NEW phase \in {"ensure", "send", "renew", "resend"}
    PROVE  /\ [call EXCEPT !.get = get, !.phase = phase] \in Calls
           /\ [call EXCEPT !.phase = phase] \in Calls
           /\ [call EXCEPT !.get = get, !.phase = phase].op = call.op
           /\ [call EXCEPT !.phase = phase].op = call.op
  BY DEF ConnectionInv, ConnectionTypes, Calls

\* Everything else leaves the breaker alone.
LEMMA RestKeeps ==
    ASSUME ConnectionInv, UNCHANGED <<time, failures, circuitUntil, failedRun, failedAt>>,
           call' \in Calls, call'.op = "idle" => call'.phase = "none",
           call'.op = "frame" => (call.op = "frame" \/ ~CircuitIsOpen)
    PROVE  ConnectionInv'
  BY DEF ConnectionInv, ConnectionTypes, RunIsCounted, CircuitFollows, FramesFindItClosed, OpensCircuit,
         CircuitIsOpen

LEMMA ConnectionInvInit == ConnectionInit => ConnectionInv
  <1> SUFFICES ASSUME ConnectionInit PROVE ConnectionInv  OBVIOUS
  <1> QED  BY IdleIs DEF ConnectionInit, ConnectionInv, ConnectionTypes, RunIsCounted, CircuitFollows,
                         FramesFindItClosed, OpensCircuit

LEMMA ConnectionInvStep == ASSUME ConnectionInv, [ConnectionNext]_connection PROVE ConnectionInv'
  <1>0. call \in Calls /\ (call.op = "idle" => call.phase = "none") /\ call.get \in Nat
    BY DEF ConnectionInv, ConnectionTypes, Calls
  <1>1. CASE StartFrame
    <2>1. PICK n \in Attempts : call' = FirstGet("frame", 1, n)  BY <1>1 DEF StartFrame
    <2>2. n \in Nat  BY ConnectionAssumption
    <2>3. call' \in Calls /\ call'.op = "frame"  BY <2>1, <2>2, FirstGetIs
    <2>4. UNCHANGED <<time, failures, circuitUntil, failedRun, failedAt>> /\ ~CircuitIsOpen
      BY <1>1 DEF StartFrame
    <2> QED  BY <2>3, <2>4, RestKeeps
  <1>2. CASE StartAccount
    <2>1. call' \in Calls /\ call'.op = "account"  BY <1>2, FirstGetIs DEF StartAccount
    <2>2. UNCHANGED <<time, failures, circuitUntil, failedRun, failedAt>>  BY <1>2 DEF StartAccount
    <2> QED  BY <2>1, <2>2, RestKeeps
  <1>3. CASE TokenLasts
    <2>1. /\ call.op # "idle" /\ call' = [call EXCEPT !.phase = "send"]
          /\ UNCHANGED <<time, failures, circuitUntil, failedRun, failedAt>>
      BY <1>0, <1>3 DEF TokenLasts
    <2>2. call' \in Calls /\ call'.op = call.op  BY <1>0, <2>1, PhaseOfCall
    <2> QED  BY <2>1, <2>2, RestKeeps
  <1>4. CASE RenewToken
    <2> DEFINE phase == IF call.phase = "ensure" THEN "send" ELSE "resend"
    <2>1. /\ call.op # "idle" /\ call' = [call EXCEPT !.phase = phase]
          /\ failures' = 0 /\ circuitUntil' = 0 /\ failedRun' = 0 /\ failedAt' = 0 /\ UNCHANGED time
      BY <1>0, <1>4 DEF RenewToken, Renewing, ApplyToken
    <2>2. phase \in {"ensure", "send", "renew", "resend"}  OBVIOUS
    <2> HIDE DEF phase
    <2>3. call' \in Calls /\ call'.op = call.op  BY <1>0, <2>1, <2>2, PhaseOfCall
    <2> QED  BY <2>1, <2>3, ForgettingKeeps
  <1>5. CASE RenewalFails \/ RequestFails
    <2>1. PICK retryable \in BOOLEAN : Fail(retryable)  BY <1>5 DEF RenewalFails, RequestFails
    <2>2. call.op # "idle" /\ UNCHANGED time  BY <1>0, <1>5 DEF RenewalFails, RequestFails, Renewing
    <2> QED  BY <2>1, <2>2, FailKeeps
  <1>6. CASE Answered
    <2>1. call.op # "idle" /\ UNCHANGED time  BY <1>0, <1>6 DEF Answered
    <2>2. CASE call.get < Gets
      <3>1. call' = [call EXCEPT !.get = NextGet, !.phase = "ensure"]
        BY <1>6, <2>2 DEF Answered
      <3>2. UNCHANGED <<failures, circuitUntil, failedRun, failedAt>>
        BY <1>6, <2>2 DEF Answered
      <3>3. NextGet \in Nat  BY <1>0 DEF NextGet
      <3>4. call' \in Calls /\ call'.op = call.op  BY <2>1, <3>1, <3>3, PhaseOfCall
      <3> QED  BY <2>1, <3>2, <3>4, RestKeeps
    <2>3. CASE ~(call.get < Gets)
      <3>1. call' = Idle  BY <1>6, <2>3 DEF Answered
      <3>2. \/ failures' = 0 /\ circuitUntil' = 0 /\ failedRun' = 0 /\ failedAt' = 0
            \/ UNCHANGED <<failures, circuitUntil, failedRun, failedAt>>
        BY <1>6, <2>3 DEF Answered
      <3> QED  BY <2>1, <3>1, <3>2, IdleIs, RestKeeps, ForgettingKeeps
    <2> QED  BY <2>2, <2>3
  <1>7. CASE Unauthorized
    <2>1. /\ call.op # "idle" /\ call' = [call EXCEPT !.phase = "renew"]
          /\ UNCHANGED <<time, failures, circuitUntil, failedRun, failedAt>>
      BY <1>0, <1>7 DEF Unauthorized
    <2>2. call' \in Calls /\ call'.op = call.op  BY <1>0, <2>1, PhaseOfCall
    <2> QED  BY <2>1, <2>2, RestKeeps
  <1>8. CASE Revoke \/ UNCHANGED connection
    <2>1. UNCHANGED <<time, failures, circuitUntil, failedRun, failedAt, call>>
      BY <1>8 DEF Revoke, connection
    <2> QED  BY <1>0, <2>1, RestKeeps
  <1>9. CASE TimePasses
    BY <1>9 DEF TimePasses, ConnectionInv, ConnectionTypes, RunIsCounted, CircuitFollows,
                FramesFindItClosed, OpensCircuit
  <1> QED  BY <1>1, <1>2, <1>3, <1>4, <1>5, <1>6, <1>7, <1>8, <1>9 DEF ConnectionNext, CallStep

\* Only a frame that failed adds to the run, and it was read with the circuit
\* closed.
LEMMA RunGrowsSpaced ==
    ASSUME ConnectionInv, [ConnectionNext]_connection, failedRun' > 3, failedRun' = failedRun + 1
    PROVE  time >= failedAt + CircuitTime
  <1>0. failedRun \in Nat /\ failedRun >= 3 /\ failures >= 3
    BY DEF ConnectionInv, ConnectionTypes, RunIsCounted
  <1>1. failedRun' # failedRun /\ failedRun' # 0  BY <1>0
  <1>2. CASE RenewalFails \/ RequestFails
    <2>1. PICK retryable \in BOOLEAN : Fail(retryable)  BY <1>2 DEF RenewalFails, RequestFails
    <2>2. call.op = "frame"  BY <1>1, <2>1 DEF Fail
    <2> QED
      BY <1>0, <2>2 DEF ConnectionInv, CircuitFollows, FramesFindItClosed, OpensCircuit
  <1>3. CASE ~(RenewalFails \/ RequestFails)
    BY <1>1, <1>3 DEF ConnectionNext, CallStep, StartFrame, StartAccount, TokenLasts, RenewToken,
                      ApplyToken, Answered, Unauthorized, Revoke, TimePasses, connection
  <1> QED  BY <1>2, <1>3

\* After three failed reads in a row, the next ones are as far apart as the
\* circuit is long (circuit_breaker_should_open, market_frame_with_retry).
THEOREM ReadsAreSpaced == ConnectionSpec => FailedReadsAreSpaced
  <1>1. ConnectionInv /\ [ConnectionNext]_connection => ConnectionInv'  BY ConnectionInvStep
  <1>2. ConnectionInv /\ [ConnectionNext]_connection
            => [failedRun' > 3 /\ failedRun' = failedRun + 1 => time >= failedAt + CircuitTime]_connection
    BY RunGrowsSpaced
  <1> QED  BY ConnectionInvInit, <1>1, <1>2, PTL DEF ConnectionSpec, FailedReadsAreSpaced

-----------------------------------------------------------------------------
(* ReferenceFeeds: the readings an entry is made by                        *)

FeedsSpec == FeedsInit /\ [][FeedsNext]_feeds

References == [date : Int, verifiedAt : Int, next : Int]
Readings == [stamp : Int, previous : Int, kind : {"current", "previous_close"}, fetchedAt : Int]
QuoteReadings == [stamp : Int, source : {"exchange", "received"}]
Cycles == [stage : {"idle", "verifying", "verified", "quoted", "enriched", "checked"},
           startedAt : Int, localRead : Int, clockSet : BOOLEAN]

FeedsTypes ==
    /\ instant \in Nat /\ offset \in Int
    /\ reference \in References /\ synchronized \in BOOLEAN
    /\ cached \in Readings /\ vix \in Readings /\ quote \in QuoteReadings
    /\ cycle \in Cycles

\* The reference that is kept is of a time during its request.
ReferenceWasRight ==
    reference.date # Missing =>
        reference.verifiedAt <= reference.date /\ reference.date <= reference.verifiedAt + ReferenceTimeout

\* The local clock read at the start is still the one there is, unless it was set.
ClockIsTheOneRead ==
    cycle.stage # "idle" /\ ~cycle.clockSet => cycle.localRead = cycle.startedAt + offset

\* A step that may enter compared the clock it began with with the right one.
ClockWasRight ==
    cycle.stage \notin {"idle", "verifying"} /\ synchronized =>
        Distance(cycle.startedAt, cycle.localRead) <= Slack

FeedsInv == FeedsTypes /\ ReferenceWasRight /\ ClockIsTheOneRead /\ ClockWasRight

LEMMA NothingRead ==
    NoReference \in References /\ NoQuote \in QuoteReadings /\ NoVix \in Readings /\ NoStep \in Cycles
  BY DEF NoReference, References, NoQuote, QuoteReadings, NoVix, Readings, NoStep, Cycles, Missing

LEMMA FeedsInvInit == FeedsInit => FeedsInv
  <1> SUFFICES ASSUME FeedsInit PROVE FeedsInv  OBVIOUS
  <1>1. FeedsTypes  BY NothingRead, FeedsAssumption DEF FeedsTypes, FeedsInit
  <1>2. reference.date = Missing /\ cycle.stage = "idle"  BY DEF FeedsInit, NoReference, NoStep
  <1> QED  BY <1>1, <1>2 DEF FeedsInv, ReferenceWasRight, ClockIsTheOneRead, ClockWasRight

\* Within the window the reference is as far on as the time, so that what it is
\* compared with is right up to the time its answer took.
LEMMA CachedClockIsRight ==
    ASSUME FeedsInv, CacheWindowOpen, SkewIsAcceptable(Distance(ExpectedReference, Local))
    PROVE  Distance(instant, Local) <= Slack
  <1> DEFINE expected == ExpectedReference
  <1>1. instant \in Nat /\ Local \in Int  BY DEF FeedsInv, FeedsTypes, Local
  <1>2. expected \in Int /\ instant <= expected /\ expected <= instant + ReferenceTimeout
    BY FeedsAssumption
    DEF FeedsInv, FeedsTypes, References, ReferenceWasRight, CacheWindowOpen, ExpectedReference
  <1>3. Distance(expected, Local) <= MaxSkew  BY DEF SkewIsAcceptable
  <1> HIDE DEF expected
  <1> QED  BY <1>1, <1>2, <1>3, FeedsAssumption DEF Distance, Slack

LEMMA BeginKeeps == ASSUME FeedsInv, BeginStep PROVE FeedsInv'
  <1>1. /\ instant \in Nat /\ offset \in Int /\ Local \in Int /\ Local = instant + offset
        /\ UNCHANGED <<instant, offset, cached, quote, vix>>
        /\ FeedsTypes /\ ReferenceWasRight
    BY DEF FeedsInv, FeedsTypes, Local, BeginStep
  <1>2. cycle' = [stage |-> IF CacheWindowOpen THEN "verified" ELSE "verifying",
                  startedAt |-> instant, localRead |-> Local, clockSet |-> FALSE]
    BY DEF BeginStep
  <1>3. cycle' \in Cycles /\ ClockIsTheOneRead'  BY <1>1, <1>2 DEF Cycles, ClockIsTheOneRead
  <1>4. CASE ~CacheWindowOpen
    <2>1. UNCHANGED <<reference, synchronized>>  BY <1>4 DEF BeginStep
    <2>2. ClockWasRight'  BY <1>2, <1>4 DEF ClockWasRight
    <2> QED  BY <1>1, <1>3, <2>1, <2>2 DEF FeedsInv, FeedsTypes, ReferenceWasRight
  <1>5. CASE CacheWindowOpen
    <2>1. VerifyCached  BY <1>5 DEF BeginStep
    <2>2. CASE SkewIsAcceptable(Distance(ExpectedReference, Local))
      <3>1. synchronized' = TRUE /\ UNCHANGED reference  BY <2>1, <2>2 DEF VerifyCached
      <3>2. Distance(instant, Local) <= Slack  BY <1>5, <2>2, CachedClockIsRight
      <3>3. ClockWasRight'  BY <1>2, <3>2 DEF ClockWasRight, Distance, Slack
      <3> QED  BY <1>1, <1>3, <3>1, <3>3 DEF FeedsInv, FeedsTypes, ReferenceWasRight
    <2>3. CASE ~SkewIsAcceptable(Distance(ExpectedReference, Local))
      <3>1. synchronized' = FALSE /\ reference' = [NoReference EXCEPT !.next = instant]
        BY <2>1, <2>3 DEF VerifyCached
      <3>2. reference' \in References /\ reference'.date = Missing
        BY <1>1, <3>1 DEF NoReference, References, Missing
      <3> QED  BY <1>1, <1>3, <3>1, <3>2 DEF FeedsInv, FeedsTypes, ReferenceWasRight, ClockWasRight
    <2> QED  BY <2>2, <2>3
  <1> QED  BY <1>4, <1>5

LEMMA AnswerKeeps == ASSUME FeedsInv, AnswerClock PROVE FeedsInv'
  <1> DEFINE started == cycle.startedAt
             read == cycle.localRead
  <1>1. /\ cycle \in Cycles /\ started \in Int /\ read \in Int
        /\ cycle' \in Cycles /\ cycle'.startedAt = started /\ cycle'.localRead = read
        /\ cycle'.clockSet = cycle.clockSet /\ cycle.stage = "verifying"
    BY DEF FeedsInv, FeedsTypes, AnswerClock, Cycles
  <1>2. UNCHANGED <<instant, offset, cached, quote, vix>>  BY DEF AnswerClock
  <1>3. ClockIsTheOneRead'  BY <1>1, <1>2 DEF FeedsInv, ClockIsTheOneRead
  <1>4. CASE VerifyFails
    <2>1. synchronized' = FALSE /\ UNCHANGED reference  BY <1>4 DEF VerifyFails
    <2> QED
      BY <1>1, <1>2, <1>3, <2>1 DEF FeedsInv, FeedsTypes, ReferenceWasRight, ClockWasRight
  <1>5. CASE VerifyFetched
    <2>1. PICK date \in started..instant :
            IF SkewIsAcceptable(Distance(date, read))
            THEN /\ synchronized' = TRUE
                 /\ reference' = [date |-> date, verifiedAt |-> started, next |-> started + ClockRefresh]
            ELSE synchronized' = FALSE /\ reference' = [NoReference EXCEPT !.next = started]
      BY <1>5 DEF VerifyFetched
    <2>2. date \in Int /\ started <= date /\ date <= started + ReferenceTimeout
      BY <1>1, <1>5, FeedsAssumption DEF VerifyFetched, FeedsInv, FeedsTypes
    <2> HIDE DEF started, read
    <2>3. CASE SkewIsAcceptable(Distance(date, read))
      <3>1. /\ synchronized' = TRUE
            /\ reference' = [date |-> date, verifiedAt |-> started, next |-> started + ClockRefresh]
        BY <2>1, <2>3
      <3>2. reference' \in References /\ ReferenceWasRight'
        BY <1>1, <2>2, <3>1, FeedsAssumption DEF References, ReferenceWasRight
      <3>3. Distance(started, read) <= Slack
        BY <1>1, <2>2, <2>3, FeedsAssumption DEF SkewIsAcceptable, Distance, Slack
      <3>4. ClockWasRight'  BY <1>1, <3>3 DEF ClockWasRight, Distance, Slack
      <3> QED  BY <1>1, <1>2, <1>3, <3>1, <3>2, <3>4 DEF FeedsInv, FeedsTypes
    <2>4. CASE ~SkewIsAcceptable(Distance(date, read))
      <3>1. synchronized' = FALSE /\ reference' = [NoReference EXCEPT !.next = started]
        BY <2>1, <2>4
      <3>2. reference' \in References /\ reference'.date = Missing
        BY <1>1, <3>1 DEF NoReference, References, Missing
      <3> QED
        BY <1>1, <1>2, <1>3, <3>1, <3>2 DEF FeedsInv, FeedsTypes, ReferenceWasRight, ClockWasRight
    <2> QED  BY <2>3, <2>4
  <1> QED  BY <1>4, <1>5 DEF AnswerClock

\* A later part of a step changes nothing of the clock it began with.
LEMMA CycleKeeps ==
    ASSUME FeedsInv, UNCHANGED <<instant, offset, reference, synchronized>>,
           cached' \in Readings, vix' \in Readings, quote' \in QuoteReadings,
           cycle.stage \notin {"idle", "verifying"},
           \/ cycle' = NoStep
           \/ \E next \in {"quoted", "enriched", "checked"} : cycle' = [cycle EXCEPT !.stage = next]
    PROVE  FeedsInv'
  <1>1. /\ cycle' \in Cycles
        /\ \/ cycle'.stage = "idle"
           \/ /\ cycle'.startedAt = cycle.startedAt /\ cycle'.localRead = cycle.localRead
              /\ cycle'.clockSet = cycle.clockSet
    BY NothingRead DEF NoStep, FeedsInv, FeedsTypes, Cycles
  <1>2. FeedsTypes' /\ ReferenceWasRight'  BY <1>1 DEF FeedsInv, FeedsTypes, ReferenceWasRight
  <1>3. ClockIsTheOneRead'  BY <1>1 DEF FeedsInv, ClockIsTheOneRead
  <1>4. ClockWasRight'  BY <1>1 DEF FeedsInv, ClockWasRight, Distance, Slack
  <1> QED  BY <1>2, <1>3, <1>4 DEF FeedsInv

LEMMA AcceptedIs ==
    ASSUME NEW v \in VixResponses, instant \in Nat PROVE Accepted(v) \in Readings
  <1>1. v \in Readings  BY FeedsAssumption DEF VixResponses, Readings
  <1> DEFINE previous == IF PreviousCloseIsValid(v, quote.stamp) THEN v.previous ELSE Missing
  <1>2. previous \in Int  BY <1>1 DEF Readings, Missing
  <1>3. Accepted(v) = [v EXCEPT !.previous = previous]  BY DEF Accepted
  <1> HIDE DEF previous
  <1> QED  BY <1>1, <1>2, <1>3 DEF Readings

LEMMA EnrichKeeps == ASSUME FeedsInv, EnrichVix PROVE FeedsInv'
  <1>1. instant \in Nat /\ cached \in Readings /\ quote \in QuoteReadings  BY DEF FeedsInv, FeedsTypes
  <1>2. cached' \in Readings /\ vix' \in Readings  BY <1>1, AcceptedIs, NothingRead DEF EnrichVix
  <1> QED  BY <1>1, <1>2, CycleKeeps DEF EnrichVix

LEMMA FeedsInvStep == ASSUME FeedsInv, [FeedsNext]_feeds PROVE FeedsInv'
  <1>1. FeedsTypes  BY DEF FeedsInv
  <1>2. CASE BeginStep  BY <1>2, BeginKeeps
  <1>3. CASE AnswerClock  BY <1>3, AnswerKeeps
  <1>4. CASE TakeQuote
    <2>1. quote' \in QuoteReadings
      BY <1>1, <1>4, FeedsAssumption DEF TakeQuote, FeedsTypes, QuoteReadings, Local
    <2> QED  BY <1>1, <1>4, <2>1, CycleKeeps DEF TakeQuote, FeedsTypes
  <1>5. CASE EnrichVix  BY <1>5, EnrichKeeps
  <1>6. CASE CheckFreshness
    BY <1>1, <1>6, CycleKeeps, NothingRead DEF CheckFreshness, FeedsTypes
  <1>7. ASSUME NEW usesVix \in BOOLEAN, Enter(usesVix) PROVE FeedsInv'
    BY <1>1, <1>7, CycleKeeps, NothingRead DEF Enter, FeedsTypes
  <1>8. CASE EndStep  BY <1>1, <1>8, CycleKeeps, NothingRead DEF EndStep, FeedsTypes
  <1>9. CASE FeedTimePasses
    BY <1>9
    DEF FeedTimePasses, FeedsInv, FeedsTypes, ReferenceWasRight, ClockIsTheOneRead, ClockWasRight,
        Distance, Slack
  <1>10. CASE ClockJumps
    <2>1. /\ cycle' \in Cycles /\ cycle'.stage = cycle.stage /\ cycle'.startedAt = cycle.startedAt
          /\ cycle'.localRead = cycle.localRead /\ (cycle.stage # "idle" => cycle'.clockSet)
          /\ offset' \in Int
      <3>1. cycle' = [cycle EXCEPT !.clockSet = cycle.stage # "idle"] /\ cycle \in Cycles
        BY <1>1, <1>10 DEF ClockJumps, FeedsTypes
      <3>2. CASE cycle.stage # "idle"
        <4>1. cycle' = [stage |-> cycle.stage, startedAt |-> cycle.startedAt,
                        localRead |-> cycle.localRead, clockSet |-> TRUE]
          BY <3>1, <3>2 DEF Cycles
        <4> QED  BY <1>10, <3>1, <4>1, FeedsAssumption DEF ClockJumps, Cycles
      <3>3. CASE cycle.stage = "idle"
        <4>1. cycle' = [stage |-> cycle.stage, startedAt |-> cycle.startedAt,
                        localRead |-> cycle.localRead, clockSet |-> FALSE]
          BY <3>1, <3>3 DEF Cycles
        <4> QED  BY <1>10, <3>1, <3>3, <4>1, FeedsAssumption DEF ClockJumps, Cycles
      <3> QED  BY <3>2, <3>3
    <2>2. UNCHANGED <<instant, reference, synchronized, cached, quote, vix>>
      BY <1>10 DEF ClockJumps
    <2>3. FeedsTypes' /\ ReferenceWasRight'
      BY <1>1, <2>1, <2>2 DEF FeedsInv, FeedsTypes, ReferenceWasRight
    <2>4. ClockIsTheOneRead'  BY <2>1 DEF ClockIsTheOneRead
    <2>5. ClockWasRight'  BY <2>1, <2>2 DEF FeedsInv, ClockWasRight, Distance, Slack
    <2> QED  BY <2>3, <2>4, <2>5 DEF FeedsInv
  <1>11. CASE UNCHANGED feeds
    BY <1>11
    DEF feeds, FeedsInv, FeedsTypes, ReferenceWasRight, ClockIsTheOneRead, ClockWasRight,
        Distance, Slack
  <1> QED  BY <1>2, <1>3, <1>4, <1>5, <1>6, <1>7, <1>8, <1>9, <1>10, <1>11 DEF FeedsNext

\* What the local clock says is old enough is, in the time it is, older by no
\* more than that clock was wrong, if it was not set since.
LEMMA AgesAreRight ==
    ASSUME FeedsInv, synchronized, ~cycle.clockSet, cycle.stage \notin {"idle", "verifying"},
           NEW stamp \in Int, NEW maxAge \in Nat, Local - stamp <= maxAge
    PROVE  instant - stamp <= maxAge + Slack
  <1> DEFINE started == cycle.startedAt
             read == cycle.localRead
  <1>1. /\ read = started + offset /\ Distance(started, read) <= Slack
        /\ started \in Int /\ offset \in Int /\ instant \in Nat
    BY DEF FeedsInv, FeedsTypes, Cycles, ClockIsTheOneRead, ClockWasRight
  <1>2. Slack \in Int  BY FeedsAssumption DEF Slack
  <1> HIDE DEF started, read
  <1>3. -offset <= Slack  BY <1>1, <1>2 DEF Distance
  <1> QED  BY <1>1, <1>2, <1>3 DEF Local

\* EntriesUseRightReadings of ReferenceFeeds, for every refresh, limit and delay:
\* however the clock jumps and whatever is kept, an entry is made in a step that
\* began with a right clock, and, unless it was set in that very step, by a quote
\* and a VIX of their ages in the time it is (ClockReferenceClient::verify,
\* validate_freshness and evaluate_entry).
THEOREM ReadingsAreRight == FeedsSpec => EntriesUseRightReadings
  <1> DEFINE Right ==
        /\ /\ CheckFreshness /\ cycle'.stage = "checked"
           /\ synchronized /\ ~cycle.clockSet /\ quote.source = "exchange"
           => instant - quote.stamp <= MaxDataAge + Slack
        /\ \A usesVix \in BOOLEAN : Enter(usesVix) =>
             /\ Distance(cycle.startedAt, cycle.localRead) <= Slack
             /\ usesVix /\ ~cycle.clockSet =>
                 /\ instant - vix.stamp <= VixMaxAge + Slack
                 /\ instant - vix.previous <= PreviousMaxAge + Slack
  <1>1. FeedsInv /\ [FeedsNext]_feeds => FeedsInv'  BY FeedsInvStep
  <1>2. FeedsInv /\ [FeedsNext]_feeds => [Right]_feeds
    <2> SUFFICES ASSUME FeedsInv PROVE Right  OBVIOUS
    <2>1. vix \in Readings /\ quote \in QuoteReadings  BY DEF FeedsInv, FeedsTypes
    <2>2. MaxDataAge \in Nat /\ VixMaxAge \in Nat /\ PreviousMaxAge \in Nat  BY FeedsAssumption
    <2>3. ASSUME CheckFreshness, cycle'.stage = "checked", synchronized, ~cycle.clockSet
          PROVE  instant - quote.stamp <= MaxDataAge + Slack
      <3>1. QuoteIsFresh  BY <2>3 DEF CheckFreshness, NoStep
      <3>2. quote.stamp \in Int /\ Local - quote.stamp <= MaxDataAge
        BY <2>1, <3>1 DEF QuoteIsFresh, QuoteReadings
      <3> QED  BY <2>2, <2>3, <3>2, AgesAreRight DEF CheckFreshness
    <2>4. ASSUME NEW usesVix \in BOOLEAN, Enter(usesVix)
          PROVE  /\ Distance(cycle.startedAt, cycle.localRead) <= Slack
                 /\ usesVix /\ ~cycle.clockSet =>
                     /\ instant - vix.stamp <= VixMaxAge + Slack
                     /\ instant - vix.previous <= PreviousMaxAge + Slack
      <3>1. cycle.stage = "checked" /\ synchronized  BY <2>4 DEF Enter
      <3>2. Distance(cycle.startedAt, cycle.localRead) <= Slack
        BY <3>1 DEF FeedsInv, ClockWasRight
      <3>3. ASSUME usesVix, ~cycle.clockSet
            PROVE  /\ instant - vix.stamp <= VixMaxAge + Slack
                   /\ instant - vix.previous <= PreviousMaxAge + Slack
        <4>1. VixMayJudge  BY <2>4, <3>3 DEF Enter
        <4>2. Local - vix.stamp <= VixMaxAge /\ Local - vix.previous <= PreviousMaxAge
          BY <4>1 DEF VixMayJudge, Stale, PreviousCloseIsValid, WithinAge
        <4>3. vix.stamp \in Int /\ vix.previous \in Int  BY <2>1 DEF Readings
        <4> QED  BY <2>2, <3>1, <3>3, <4>2, <4>3, AgesAreRight
      <3> QED  BY <3>2, <3>3
    <2> QED  BY <2>3, <2>4
  <1> QED  BY FeedsInvInit, <1>1, <1>2, PTL DEF FeedsSpec, EntriesUseRightReadings

-----------------------------------------------------------------------------
(* HoldoutRegistry: the sealed holdouts and their grants                   *)

RegistrySpec == RegistryInit /\ [][RegistryNext]_registry

Stages == {"idle", "lookup", "scan", "create", "write", "mark", "sign"}
Commands == [at : Stages, op : {"none", "register", "consume"},
             manifest : Manifests \cup {NoManifest}, unread : SUBSET Datasets]
Files == [state : {"missing", "partial", "whole"}, manifest : Manifests \cup {NoManifest}]

RegistryTypes ==
    /\ entry \in [Datasets -> Files]
    /\ mark \in [Manifests -> {"missing", "partial", "whole"}]
    /\ process \in [Processes -> Commands]
    /\ granted \in [Manifests -> Nat]
    /\ \A p \in Processes : process[p].at # "idle" => process[p].manifest \in Manifests

\* A file that is whole is the manifest of its dataset, any other says nothing.
EntriesInv ==
    \A d \in Datasets :
        IF entry[d].state = "whole" THEN entry[d].manifest.dataset = d ELSE entry[d].manifest = NoManifest

\* One command writes a file, the one that created it.
WritersInv ==
    \A p \in Processes : process[p].at = "write" =>
        /\ entry[process[p].manifest.dataset].state = "partial"
        /\ \A q \in Processes \ {p} :
            process[q].at = "write" => process[q].manifest.dataset # process[p].manifest.dataset

\* A holdout is only marked, and given out, for the manifest that is registered.
MarkersInv ==
    /\ \A p \in Processes : process[p].at \in {"mark", "sign"} =>
        entry[process[p].manifest.dataset] = File("whole", process[p].manifest)
    /\ \A m \in Manifests : granted[m] > 0 => entry[m.dataset] = File("whole", m)

\* The mark comes before the holdout, and one command signs it.
SignersInv ==
    /\ \A m \in Manifests : granted[m] <= 1 /\ (granted[m] > 0 => mark[m] # "missing")
    /\ \A p \in Processes : process[p].at = "sign" =>
        /\ mark[process[p].manifest] # "missing" /\ granted[process[p].manifest] = 0
        /\ \A q \in Processes \ {p} : process[q].at = "sign" => process[q].manifest # process[p].manifest

HoldoutInv == RegistryTypes /\ EntriesInv /\ WritersInv /\ MarkersInv /\ SignersInv

\* What a registration has read contradicts it only if it was registered at the
\* same time; when it has read everything, that is all there is.
Busy(p) == process[p].at \in Registering
SealInv ==
    /\ \A p, q \in Processes :
        Busy(p) /\ Busy(q) /\ process[p].manifest.dataset # process[q].manifest.dataset
        => {process[p].manifest, process[q].manifest} \in together
    /\ \A p \in Processes : Busy(p) =>
        \A d \in Datasets \ process[p].unread :
            d # process[p].manifest.dataset /\ Conflict(entry[d].manifest, process[p].manifest)
            => {entry[d].manifest, process[p].manifest} \in together
    /\ \A p \in Processes : process[p].at \in {"create", "write"} => process[p].unread = {}
    /\ \A d, e \in Datasets :
        d # e /\ Conflict(entry[d].manifest, entry[e].manifest)
        => {entry[d].manifest, entry[e].manifest} \in together

RegistryInv == HoldoutInv /\ SealInv

LEMMA ConflictBothWays == \A m, n : Conflict(m, n) => Conflict(n, m)
  <1> SUFFICES ASSUME NEW m, NEW n, Conflict(m, n) PROVE Conflict(n, m)  OBVIOUS
  <1>1. PICK a \in m.partitions, b \in n.partitions :
            {a.role, b.role} = {"Selection", "SealedValidation"} /\ IntervalsOverlap(a, b)
    BY DEF Conflict, SelectionHoldoutOverlap
  <1>2. {b.role, a.role} = {"Selection", "SealedValidation"} /\ IntervalsOverlap(b, a)
    BY <1>1 DEF IntervalsOverlap
  <1> QED  BY <1>2 DEF Conflict, SelectionHoldoutOverlap

LEMMA NothingConflicts == \A m : ~Conflict(NoManifest, m) /\ ~Conflict(m, NoManifest)
  BY DEF Conflict, NoManifest

LEMMA FreeIs == Free \in Commands /\ Free.at = "idle"
  BY DEF Free, Commands, Stages

LEMMA FileIs ==
    ASSUME NEW state \in {"missing", "partial", "whole"}, NEW m \in Manifests \cup {NoManifest}
    PROVE  File(state, m) \in Files /\ File(state, m).state = state /\ File(state, m).manifest = m
  BY DEF File, Files

\* A command that goes on keeps what it is about.
LEMMA GoesIs ==
    ASSUME RegistryTypes, NEW p \in Processes, NEW where \in Stages \cup {"ended"}, Goes(p, where)
    PROVE  /\ process' \in [Processes -> Commands]
           /\ \A q \in Processes \ {p} : process'[q] = process[q]
           /\ where = "ended" => process'[p].at = "idle"
           /\ where # "ended" => /\ process'[p].at = where /\ process'[p].op = process[p].op
                              /\ process'[p].manifest = process[p].manifest
                              /\ process'[p].unread = process[p].unread
  <1> DEFINE next == IF where = "ended" THEN Free ELSE [process[p] EXCEPT !.at = where]
  <1>1. process' = [process EXCEPT ![p] = next]  BY DEF Goes
  <1>2. process[p] \in Commands  BY DEF RegistryTypes
  <1>3. /\ next \in Commands
        /\ where = "ended" => next.at = "idle"
        /\ where # "ended" => /\ next.at = where /\ next.op = process[p].op
                           /\ next.manifest = process[p].manifest
                           /\ next.unread = process[p].unread
    BY <1>2, FreeIs DEF Commands
  <1> HIDE DEF next
  <1>4. /\ process' \in [Processes -> Commands] /\ process'[p] = next
        /\ \A q \in Processes \ {p} : process'[q] = process[q]
    BY <1>1, <1>3 DEF RegistryTypes
  <1> QED  BY <1>3, <1>4

-----------------------------------------------------------------------------

\* A command that only reads, or ends, disturbs no holdout.
LEMMA ReadingKeepsHoldouts ==
    ASSUME HoldoutInv, NEW p \in Processes,
           process' \in [Processes -> Commands], \A q \in Processes \ {p} : process'[q] = process[q],
           UNCHANGED <<entry, mark, granted>>,
           process'[p].at # "idle" => process'[p].manifest \in Manifests,
           process'[p].at \notin {"write", "sign"},
           process'[p].at = "mark" => entry[process'[p].manifest.dataset] = File("whole", process'[p].manifest)
    PROVE  HoldoutInv'
  <1> USE DEF HoldoutInv
  <1>1. RegistryTypes'  BY DEF RegistryTypes
  <1>2. EntriesInv'  BY DEF EntriesInv
  <1>3. WritersInv'  BY DEF WritersInv
  <1>4. MarkersInv'  BY DEF MarkersInv
  <1>5. SignersInv'  BY DEF SignersInv
  <1> QED  BY <1>1, <1>2, <1>3, <1>4, <1>5

LEMMA CommandKeepsHoldouts == ASSUME HoldoutInv, NEW p \in Processes, Command(p) PROVE HoldoutInv'
  <1>1. PICK m \in Manifests, op \in {"register", "consume"} :
            process' = [process EXCEPT ![p] = [at |-> "lookup", op |-> op, manifest |-> m, unread |-> {}]]
    BY DEF Command
  <1> DEFINE next == [at |-> "lookup", op |-> op, manifest |-> m, unread |-> {}]
  <1>2. next \in Commands /\ next.at = "lookup" /\ next.manifest = m  BY DEF Commands, Stages
  <1>3. process' = [process EXCEPT ![p] = next]  BY <1>1
  <1> HIDE DEF next
  <1>4. /\ process' \in [Processes -> Commands] /\ process'[p] = next
        /\ \A q \in Processes \ {p} : process'[q] = process[q]
    BY <1>2, <1>3 DEF HoldoutInv, RegistryTypes
  <1>5. UNCHANGED <<entry, mark, granted>>  BY DEF Command
  <1> QED  BY <1>2, <1>4, <1>5, ReadingKeepsHoldouts

\* What the first look at the files makes of a command.
LEMMA LookUpIs ==
    ASSUME RegistryTypes, NEW p \in Processes, LookUp(p)
    PROVE  /\ process' \in [Processes -> Commands]
           /\ \A q \in Processes \ {p} : process'[q] = process[q]
           /\ process[p].manifest \in Manifests
           /\ \/ /\ process'[p].at = "scan" /\ process'[p].unread = Datasets
                 /\ process'[p].manifest = process[p].manifest
                 /\ together' = together \cup
                        {{process[p].manifest, process[q].manifest} : q \in {r \in Processes \ {p} :
                            process[r].at \in Registering
                            /\ process[r].manifest.dataset # process[p].manifest.dataset}}
              \/ process'[p].at = "idle" /\ UNCHANGED together
              \/ /\ process'[p].at = "mark" /\ UNCHANGED together
                 /\ process'[p].manifest = process[p].manifest
                 /\ entry[process[p].manifest.dataset] = File("whole", process[p].manifest)
  <1> DEFINE m == process[p].manifest
             there == entry[m.dataset]
  <1>1. process[p].at = "lookup" /\ process[p] \in Commands /\ m \in Manifests
    BY DEF LookUp, RegistryTypes
  <1>2. CASE there.state = "missing"
    <2> DEFINE next == [process[p] EXCEPT !.at = "scan", !.unread = Datasets]
    <2>1. process' = [process EXCEPT ![p] = next]
      <3>1. process' = [process EXCEPT ![p].at = "scan", ![p].unread = Datasets]  BY <1>2 DEF LookUp
      <3> QED  BY <1>1, <3>1 DEF RegistryTypes
    <2>2. next \in Commands /\ next.at = "scan" /\ next.unread = Datasets /\ next.manifest = m
      BY <1>1 DEF Commands, Stages
    <2>3. together' = together \cup
              {{m, process[q].manifest} : q \in {r \in Processes \ {p} :
                  process[r].at \in Registering /\ process[r].manifest.dataset # m.dataset}}
      BY <1>2 DEF LookUp
    <2> HIDE DEF next
    <2>4. /\ process' \in [Processes -> Commands] /\ process'[p] = next
          /\ \A q \in Processes \ {p} : process'[q] = process[q]
      BY <2>1, <2>2 DEF RegistryTypes
    <2> QED  BY <1>1, <2>2, <2>3, <2>4
  <1>3. CASE there.state # "missing"
    <2>1. /\ Goes(p, IF there = File("whole", m) THEN AfterEntry(p) ELSE "ended")
          /\ UNCHANGED together
      BY <1>3 DEF LookUp
    <2>2. PICK where \in {"mark", "ended"} :
              Goes(p, where) /\ (where = "mark" => there = File("whole", m))
      BY <2>1 DEF AfterEntry
    <2>3. where \in Stages \cup {"ended"}  BY DEF Stages
    <2>4. /\ process' \in [Processes -> Commands]
          /\ \A q \in Processes \ {p} : process'[q] = process[q]
          /\ where = "ended" => process'[p].at = "idle"
          /\ where # "ended" => process'[p].at = where /\ process'[p].manifest = m
      BY <2>2, <2>3, GoesIs
    <2> QED  BY <1>1, <2>1, <2>2, <2>4
  <1> QED  BY <1>2, <1>3

\* What reading another file makes of it.
LEMMA ScanEntryIs ==
    ASSUME RegistryTypes, NEW p \in Processes, ScanEntry(p)
    PROVE  /\ process' \in [Processes -> Commands]
           /\ \A q \in Processes \ {p} : process'[q] = process[q]
           /\ process[p].at = "scan" /\ process[p].manifest \in Manifests
           /\ \/ process'[p].at = "idle"
              \/ /\ process'[p].at \in {"scan", "create"}
                 /\ process'[p].manifest = process[p].manifest
                 /\ process'[p].at = "create" => process'[p].unread = {}
                 /\ \E d \in process[p].unread :
                        /\ process'[p].unread = process[p].unread \ {d}
                        /\ ~Conflict(entry[d].manifest, process[p].manifest)
  <1>1. process[p].at = "scan" /\ process[p] \in Commands /\ process[p].manifest \in Manifests
    BY DEF ScanEntry, RegistryTypes
  <1>2. PICK d \in process[p].unread :
          IF entry[d].state = "partial" \/ Conflict(entry[d].manifest, process[p].manifest)
          THEN Goes(p, "ended")
          ELSE process' = [process EXCEPT ![p].unread = @ \ {d},
                                          ![p].at = IF process[p].unread = {d} THEN "create" ELSE "scan"]
    BY DEF ScanEntry
  <1>3. CASE Goes(p, "ended")
    BY <1>1, <1>3, GoesIs
  <1>4. CASE /\ ~Conflict(entry[d].manifest, process[p].manifest)
             /\ process' = [process EXCEPT ![p].unread = @ \ {d},
                                           ![p].at = IF process[p].unread = {d} THEN "create" ELSE "scan"]
    <2> DEFINE where == IF process[p].unread = {d} THEN "create" ELSE "scan"
               unread == process[p].unread \ {d}
               next == [process[p] EXCEPT !.unread = unread, !.at = where]
    <2>1. where \in {"create", "scan"} /\ unread \subseteq Datasets /\ (where = "create" => unread = {})
      BY <1>1 DEF Commands
    <2>2. process' = [process EXCEPT ![p] = next]
      BY <1>1, <1>4 DEF RegistryTypes
    <2>3. next \in Commands /\ next.at = where /\ next.unread = unread /\ next.manifest = process[p].manifest
      <3> HIDE DEF where, unread
      <3> QED  BY <1>1, <2>1 DEF Commands, Stages
    <2> HIDE DEF next, where
    <2>4. /\ process' \in [Processes -> Commands] /\ process'[p] = next
          /\ \A q \in Processes \ {p} : process'[q] = process[q]
      BY <2>2, <2>3 DEF RegistryTypes
    <2> QED  BY <1>1, <1>4, <2>1, <2>3, <2>4
  <1> QED  BY <1>2, <1>3, <1>4

LEMMA ReadersKeepHoldouts ==
    ASSUME HoldoutInv, NEW p \in Processes, LookUp(p) \/ ScanEntry(p) \/ CommandFails(p) PROVE HoldoutInv'
  <1>0. RegistryTypes  BY DEF HoldoutInv
  <1>1. CASE LookUp(p)
    <2>1. UNCHANGED <<entry, mark, granted>>  BY <1>1 DEF LookUp
    <2> QED  BY <1>0, <1>1, <2>1, LookUpIs, ReadingKeepsHoldouts
  <1>2. CASE ScanEntry(p)
    <2>1. UNCHANGED <<entry, mark, granted>>  BY <1>2 DEF ScanEntry
    <2> QED  BY <1>0, <1>2, <2>1, ScanEntryIs, ReadingKeepsHoldouts
  <1>3. CASE CommandFails(p)
    <2>1. UNCHANGED <<entry, mark, granted>> /\ Goes(p, "ended")  BY <1>3 DEF CommandFails
    <2> QED  BY <1>0, <2>1, GoesIs, ReadingKeepsHoldouts
  <1> QED  BY <1>1, <1>2, <1>3

LEMMA CreateEntryKeepsHoldouts == ASSUME HoldoutInv, NEW p \in Processes, CreateEntry(p) PROVE HoldoutInv'
  <1> DEFINE m == process[p].manifest
             d == m.dataset
  <1> USE DEF HoldoutInv
  <1>1. /\ process[p].at = "create" /\ m \in Manifests /\ d \in Datasets
        /\ UNCHANGED <<mark, granted>>
    BY DEF CreateEntry, RegistryTypes, Datasets
  <1>2. CASE entry[d].state = "missing"
    <2>1. entry' = [entry EXCEPT ![d] = File("partial", NoManifest)] /\ Goes(p, "write")
      BY <1>2 DEF CreateEntry, MayCreate
    <2>2. /\ process' \in [Processes -> Commands] /\ process'[p].at = "write" /\ process'[p].manifest = m
          /\ \A q \in Processes \ {p} : process'[q] = process[q]
      BY <2>1, GoesIs DEF Stages
    <2>3. /\ entry' \in [Datasets -> Files] /\ entry'[d].state = "partial" /\ entry'[d].manifest = NoManifest
          /\ \A e \in Datasets \ {d} : entry'[e] = entry[e]
      BY <1>1, <2>1, FileIs DEF RegistryTypes
    <2>4. entry[d].state # "whole" /\ entry[d].state # "partial"  BY <1>2
    <2>5. \A n \in Manifests : n.dataset \in Datasets  BY DEF Datasets
    <2>6. \A n \in Manifests : File("whole", n).state = "whole"  BY FileIs
    <2>7. RegistryTypes'  BY <1>1, <2>2, <2>3 DEF RegistryTypes
    <2>8. EntriesInv'  BY <2>3 DEF EntriesInv
    <2>9. \A q \in Processes \ {p} :
            process[q].at = "write" => process[q].manifest.dataset \in Datasets \ {d}
      BY <2>4, <2>5 DEF WritersInv, RegistryTypes
    <2>10. WritersInv'  BY <1>1, <2>2, <2>3, <2>9 DEF WritersInv
    <2>11. \A n \in Manifests : entry[n.dataset] = File("whole", n) => entry'[n.dataset] = File("whole", n)
      BY <2>3, <2>4, <2>5, <2>6
    <2>12. MarkersInv'
      BY <1>1, <2>2, <2>11 DEF MarkersInv, RegistryTypes
    <2>13. SignersInv'  BY <1>1, <2>2 DEF SignersInv
    <2> QED  BY <2>7, <2>8, <2>10, <2>12, <2>13
  <1>3. CASE entry[d].state # "missing"
    <2>1. Goes(p, "ended") /\ UNCHANGED entry  BY <1>3 DEF CreateEntry, MayCreate
    <2> QED  BY <1>1, <2>1, GoesIs, ReadingKeepsHoldouts
  <1> QED  BY <1>2, <1>3

LEMMA WriteEntryIs ==
    ASSUME HoldoutInv, NEW p \in Processes, WriteEntry(p)
    PROVE  /\ process[p].at = "write" /\ process[p].manifest \in Manifests
           /\ process[p].manifest.dataset \in Datasets
           /\ process' \in [Processes -> Commands]
           /\ \A q \in Processes \ {p} : process'[q] = process[q]
           /\ \/ process'[p].at = "idle"
              \/ process'[p].at = "mark" /\ process'[p].manifest = process[p].manifest
           /\ entry' \in [Datasets -> Files]
           /\ entry'[process[p].manifest.dataset] = File("whole", process[p].manifest)
           /\ \A e \in Datasets \ {process[p].manifest.dataset} : entry'[e] = entry[e]
           /\ UNCHANGED <<mark, granted, together>>
  <1> DEFINE m == process[p].manifest
  <1>1. /\ process[p].at = "write" /\ m \in Manifests /\ m.dataset \in Datasets
        /\ RegistryTypes /\ UNCHANGED <<mark, granted, together>>
        /\ entry' = [entry EXCEPT ![m.dataset] = File("whole", m)]
    BY DEF WriteEntry, HoldoutInv, RegistryTypes, Datasets
  <1>2. PICK where \in {"mark", "ended"} : Goes(p, where)  BY DEF WriteEntry, AfterEntry
  <1>3. where \in Stages \cup {"ended"}  BY DEF Stages
  <1>4. /\ process' \in [Processes -> Commands]
        /\ \A q \in Processes \ {p} : process'[q] = process[q]
        /\ where = "ended" => process'[p].at = "idle"
        /\ where # "ended" => process'[p].at = where /\ process'[p].manifest = m
    BY <1>1, <1>2, <1>3, GoesIs
  <1>5. File("whole", m) \in Files  BY <1>1, FileIs
  <1>6. /\ entry' \in [Datasets -> Files] /\ entry'[m.dataset] = File("whole", m)
        /\ \A e \in Datasets \ {m.dataset} : entry'[e] = entry[e]
    BY <1>1, <1>5 DEF RegistryTypes
  <1> QED  BY <1>1, <1>4, <1>6

LEMMA WriteEntryKeepsHoldouts == ASSUME HoldoutInv, NEW p \in Processes, WriteEntry(p) PROVE HoldoutInv'
  <1> DEFINE m == process[p].manifest
             d == m.dataset
  <1> USE DEF HoldoutInv
  <1>1. /\ process[p].at = "write" /\ m \in Manifests /\ d \in Datasets
        /\ process' \in [Processes -> Commands]
        /\ \A q \in Processes \ {p} : process'[q] = process[q]
        /\ process'[p].at = "idle" \/ (process'[p].at = "mark" /\ process'[p].manifest = m)
        /\ entry' \in [Datasets -> Files] /\ entry'[d] = File("whole", m)
        /\ \A e \in Datasets \ {d} : entry'[e] = entry[e]
        /\ UNCHANGED <<mark, granted>>
    BY WriteEntryIs
  <1>2. entry'[d].state = "whole" /\ entry'[d].manifest = m  BY <1>1, FileIs
  <1>3. entry[d].state = "partial"  BY <1>1 DEF WritersInv
  <1>4. \A n \in Manifests : n.dataset \in Datasets /\ File("whole", n).state = "whole"
    BY FileIs DEF Datasets
  <1>5. RegistryTypes'  BY <1>1 DEF RegistryTypes
  <1>6. EntriesInv'  BY <1>1, <1>2 DEF EntriesInv
  <1>7. \A q \in Processes \ {p} :
            process[q].at = "write" => process[q].manifest.dataset \in Datasets \ {d}
    BY <1>1, <1>4 DEF WritersInv, RegistryTypes
  <1>8. WritersInv'  BY <1>1, <1>7 DEF WritersInv
  <1>9. \A n \in Manifests : entry[n.dataset] = File("whole", n) => entry'[n.dataset] = File("whole", n)
    BY <1>1, <1>3, <1>4
  <1>10. MarkersInv'  BY <1>1, <1>9 DEF MarkersInv, RegistryTypes
  <1>11. SignersInv'  BY <1>1 DEF SignersInv
  <1> QED  BY <1>5, <1>6, <1>8, <1>10, <1>11

LEMMA MarksKeepHoldouts ==
    ASSUME HoldoutInv, NEW p \in Processes, CreateMark(p) \/ WriteMark(p) PROVE HoldoutInv'
  <1> DEFINE m == process[p].manifest
  <1> USE DEF HoldoutInv
  <1>1. /\ process[p].at \in {"mark", "sign"} /\ m \in Manifests /\ UNCHANGED entry
    BY DEF CreateMark, WriteMark, RegistryTypes
  <1>2. CASE CreateMark(p) /\ mark[m] = "missing"
    <2>1. mark' = [mark EXCEPT ![m] = "partial"] /\ Goes(p, "sign") /\ UNCHANGED granted
      BY <1>2 DEF CreateMark, MayCreate
    <2>2. /\ process' \in [Processes -> Commands] /\ process'[p].at = "sign" /\ process'[p].manifest = m
          /\ \A q \in Processes \ {p} : process'[q] = process[q]
      BY <2>1, GoesIs DEF Stages
    <2>3. /\ mark' \in [Manifests -> {"missing", "partial", "whole"}] /\ mark'[m] = "partial"
          /\ \A n \in Manifests \ {m} : mark'[n] = mark[n]
      BY <1>1, <2>1 DEF RegistryTypes
    <2>4. granted[m] = 0  BY <1>1, <1>2 DEF SignersInv, RegistryTypes
    <2>5. \A q \in Processes \ {p} : process[q].at = "sign" => process[q].manifest \in Manifests \ {m}
      BY <1>2 DEF SignersInv, RegistryTypes
    <2>6. RegistryTypes'  BY <1>1, <2>1, <2>2, <2>3 DEF RegistryTypes
    <2>7. EntriesInv' /\ WritersInv'  BY <1>1, <2>2 DEF EntriesInv, WritersInv
    <2>8. MarkersInv'  BY <1>1, <2>1, <2>2 DEF MarkersInv
    <2>9. SignersInv'
      <3>1. \A n \in Manifests : granted'[n] <= 1 /\ (granted'[n] > 0 => mark'[n] # "missing")
        BY <2>1, <2>3 DEF SignersInv
      <3>2. ASSUME NEW q \in Processes, process'[q].at = "sign"
            PROVE  /\ mark'[process'[q].manifest] # "missing" /\ granted'[process'[q].manifest] = 0
                   /\ \A r \in Processes \ {q} :
                        process'[r].at = "sign" => process'[r].manifest # process'[q].manifest
        <4>1. CASE q = p  BY <2>1, <2>2, <2>3, <2>4, <2>5, <3>2, <4>1
        <4>2. CASE q # p  BY <2>1, <2>2, <2>3, <2>5, <3>2, <4>2 DEF SignersInv
        <4> QED  BY <4>1, <4>2
      <3> QED  BY <3>1, <3>2 DEF SignersInv
    <2> QED  BY <2>6, <2>7, <2>8, <2>9
  <1>3. CASE CreateMark(p) /\ mark[m] # "missing"
    <2>1. Goes(p, "ended") /\ UNCHANGED <<mark, granted>>  BY <1>3 DEF CreateMark, MayCreate
    <2> QED  BY <1>1, <2>1, GoesIs, ReadingKeepsHoldouts
  <1>4. CASE WriteMark(p)
    <2>1. /\ process[p].at = "sign" /\ Goes(p, "ended")
          /\ mark' = [mark EXCEPT ![m] = "whole"] /\ granted' = [granted EXCEPT ![m] = @ + 1]
      BY <1>4 DEF WriteMark
    <2>2. /\ process' \in [Processes -> Commands] /\ process'[p].at = "idle"
          /\ \A q \in Processes \ {p} : process'[q] = process[q]
      BY <2>1, GoesIs
    <2>3. granted[m] = 0 /\ entry[m.dataset] = File("whole", m)
      BY <2>1 DEF SignersInv, MarkersInv
    <2>4. /\ mark' \in [Manifests -> {"missing", "partial", "whole"}] /\ mark'[m] = "whole"
          /\ \A n \in Manifests \ {m} : mark'[n] = mark[n]
      BY <1>1, <2>1 DEF RegistryTypes
    <2>5. /\ granted' \in [Manifests -> Nat] /\ granted'[m] = 1
          /\ \A n \in Manifests \ {m} : granted'[n] = granted[n]
      BY <1>1, <2>1, <2>3 DEF RegistryTypes
    <2>6. \A q \in Processes \ {p} : process[q].at = "sign" => process[q].manifest \in Manifests \ {m}
      BY <2>1 DEF SignersInv, RegistryTypes
    <2>7. RegistryTypes'  BY <1>1, <2>2, <2>4, <2>5 DEF RegistryTypes
    <2>8. EntriesInv' /\ WritersInv'  BY <1>1, <2>2 DEF EntriesInv, WritersInv
    <2>9. MarkersInv'  BY <1>1, <2>2, <2>3, <2>5 DEF MarkersInv
    <2>10. SignersInv'  BY <2>2, <2>4, <2>5, <2>6 DEF SignersInv
    <2> QED  BY <2>7, <2>8, <2>9, <2>10
  <1> QED  BY <1>2, <1>3, <1>4

-----------------------------------------------------------------------------

\* While the files stay as they are, a command that ends or does not register
\* contradicts nothing.
LEMMA OthersKeepSeals ==
    ASSUME RegistryInv, NEW p \in Processes,
           \A q \in Processes \ {p} : process'[q] = process[q],
           UNCHANGED together, process'[p].at \notin Registering,
           \A d \in Datasets : entry'[d].manifest = entry[d].manifest
    PROVE  SealInv'
  <1> USE DEF RegistryInv, SealInv, Busy
  <1>1. \A q \in Processes : process'[q].at \in Registering => process'[q] = process[q]
    OBVIOUS
  <1>2. \A q \in Processes : process'[q].at \in {"create", "write"} => process'[q] = process[q]
    BY DEF Registering
  <1>3. (\A q, r \in Processes :
            Busy(q) /\ Busy(r) /\ process[q].manifest.dataset # process[r].manifest.dataset
            => {process[q].manifest, process[r].manifest} \in together)'
    BY <1>1
  <1>4. (\A q \in Processes : Busy(q) =>
            \A d \in Datasets \ process[q].unread :
                d # process[q].manifest.dataset /\ Conflict(entry[d].manifest, process[q].manifest)
                => {entry[d].manifest, process[q].manifest} \in together)'
    <2> SUFFICES ASSUME NEW q \in Processes, Busy(q)', NEW d \in Datasets, d \notin process'[q].unread,
                        d # process'[q].manifest.dataset,
                        Conflict(entry'[d].manifest, process'[q].manifest)
                 PROVE  {entry'[d].manifest, process'[q].manifest} \in together'
      BY DEF Datasets
    <2>1. process'[q] = process[q] /\ entry'[d].manifest = entry[d].manifest  BY <1>1
    <2> QED  BY <2>1
  <1>5. (\A q \in Processes : process[q].at \in {"create", "write"} => process[q].unread = {})'
    BY <1>2
  <1>6. (\A d, e \in Datasets :
            d # e /\ Conflict(entry[d].manifest, entry[e].manifest)
            => {entry[d].manifest, entry[e].manifest} \in together)'
    <2> SUFFICES ASSUME NEW d \in Datasets, NEW e \in Datasets, d # e,
                        Conflict(entry'[d].manifest, entry'[e].manifest)
                 PROVE  {entry'[d].manifest, entry'[e].manifest} \in together'
      BY DEF Datasets
    <2>1. entry'[d].manifest = entry[d].manifest /\ entry'[e].manifest = entry[e].manifest  OBVIOUS
    <2> QED  BY <2>1
  <1> QED  BY <1>3, <1>4, <1>5, <1>6

\* A command that starts to register meets those that already do.
LEMMA StartKeepsSeals ==
    ASSUME RegistryInv, NEW p \in Processes, UNCHANGED entry,
           \A q \in Processes \ {p} : process'[q] = process[q],
           process'[p].at = "scan", process'[p].unread = Datasets,
           together' = together \cup
                {{process'[p].manifest, process[q].manifest} : q \in {r \in Processes \ {p} :
                    process[r].at \in Registering /\ process[r].manifest.dataset # process'[p].manifest.dataset}}
    PROVE  SealInv'
  <1> USE DEF RegistryInv, SealInv, Busy
  <1>1. \A q \in Processes \ {p} :
            Busy(q) /\ process[q].manifest.dataset # process'[p].manifest.dataset
            => {process'[p].manifest, process[q].manifest} \in together'
    OBVIOUS
  <1>2. together \subseteq together'  OBVIOUS
  <1>3. ASSUME NEW q \in Processes, NEW r \in Processes, Busy(q)', Busy(r)',
               process'[q].manifest.dataset # process'[r].manifest.dataset
        PROVE  {process'[q].manifest, process'[r].manifest} \in together'
    <2>1. q # r  BY <1>3
    <2>2. CASE q = p
      <3>1. process'[r] = process[r]  BY <2>1, <2>2
      <3> QED  BY <1>1, <1>3, <2>1, <2>2, <3>1
    <2>3. CASE r = p
      <3>1. process'[q] = process[q]  BY <2>1, <2>3
      <3>2. {process'[p].manifest, process[q].manifest} \in together'
        BY <1>1, <1>3, <2>1, <2>3, <3>1
      <3>3. {process'[q].manifest, process'[r].manifest} = {process'[p].manifest, process[q].manifest}
        BY <2>3, <3>1
      <3> QED  BY <3>2, <3>3
    <2>4. CASE q # p /\ r # p
      <3>1. process'[q] = process[q] /\ process'[r] = process[r]  BY <2>4
      <3> QED  BY <1>2, <1>3, <3>1
    <2> QED  BY <2>2, <2>3, <2>4
  <1>4. ASSUME NEW q \in Processes, Busy(q)', NEW d \in Datasets \ process'[q].unread,
               d # process'[q].manifest.dataset, Conflict(entry'[d].manifest, process'[q].manifest)
        PROVE  {entry'[d].manifest, process'[q].manifest} \in together'
    <2>1. q # p  BY <1>4
    <2>2. process'[q] = process[q]  BY <2>1
    <2> QED  BY <1>2, <1>4, <2>2
  <1>5. \A q \in Processes : process'[q].at \in {"create", "write"} => process'[q].unread = {}
    OBVIOUS
  <1>6. \A d, e \in Datasets :
            d # e /\ Conflict(entry'[d].manifest, entry'[e].manifest)
            => {entry'[d].manifest, entry'[e].manifest} \in together'
    BY <1>2
  <1>7. Datasets' = Datasets  BY DEF Datasets
  <1> HIDE DEF RegistryInv
  <1> QED  BY <1>3, <1>4, <1>5, <1>6, <1>7

\* One more file read and found not to contradict.
LEMMA ScanKeepsSeals ==
    ASSUME RegistryInv, NEW p \in Processes, UNCHANGED <<entry, together>>,
           \A q \in Processes \ {p} : process'[q] = process[q],
           process[p].at \in Registering, process'[p].at \in Registering,
           process'[p].manifest = process[p].manifest,
           process'[p].at \in {"create", "write"} => process'[p].unread = {},
           \A d \in process[p].unread \ process'[p].unread :
                ~Conflict(entry[d].manifest, process[p].manifest)
    PROVE  SealInv'
  <1> USE DEF RegistryInv, SealInv, Busy
  <1>1. \A q \in Processes : Busy(q)' => Busy(q) /\ process'[q].manifest = process[q].manifest
    OBVIOUS
  <1>2. ASSUME NEW q \in Processes, Busy(q)', NEW d \in Datasets \ process'[q].unread,
               d # process'[q].manifest.dataset, Conflict(entry'[d].manifest, process'[q].manifest)
        PROVE  {entry'[d].manifest, process'[q].manifest} \in together'
    <2>1. CASE q = p
      <3>1. d \notin process[p].unread  BY <1>2, <2>1
      <3> QED  BY <1>2, <2>1, <3>1
    <2>2. CASE q # p
      <3>1. process'[q] = process[q]  BY <2>2
      <3> QED  BY <1>2, <3>1
    <2> QED  BY <2>1, <2>2
  <1>3. \A q \in Processes : process'[q].at \in {"create", "write"} => process'[q].unread = {}
    OBVIOUS
  <1>4. \A q, r \in Processes :
            Busy(q)' /\ Busy(r)' /\ process'[q].manifest.dataset # process'[r].manifest.dataset
            => {process'[q].manifest, process'[r].manifest} \in together'
    BY <1>1
  <1>5. \A d, e \in Datasets :
            d # e /\ Conflict(entry'[d].manifest, entry'[e].manifest)
            => {entry'[d].manifest, entry'[e].manifest} \in together'
    OBVIOUS
  <1> HIDE DEF RegistryInv
  <1> QED  BY <1>2, <1>3, <1>4, <1>5 DEF Datasets

\* What is registered now has read every other file, and those that register at
\* the same time are known.
LEMMA WriteKeepsSeals == ASSUME RegistryInv, NEW p \in Processes, WriteEntry(p) PROVE SealInv'
  <1> DEFINE m == process[p].manifest
             d == m.dataset
  <1> USE DEF RegistryInv, SealInv, Busy
  <1>1. /\ process[p].at = "write" /\ m \in Manifests /\ d \in Datasets
        /\ \A q \in Processes \ {p} : process'[q] = process[q]
        /\ process'[p].at = "idle" \/ process'[p].at = "mark"
        /\ entry'[d] = File("whole", m)
        /\ \A e \in Datasets \ {d} : entry'[e] = entry[e]
        /\ UNCHANGED together
    BY WriteEntryIs
  <1>2. entry'[d].manifest = m  BY <1>1, FileIs
  <1>3. \A q \in Processes : Busy(q)' => q # p /\ process'[q] = process[q]
    BY <1>1 DEF Registering
  <1>4. Busy(p) /\ process[p].unread = {}  BY <1>1 DEF Registering
  <1>5. ASSUME NEW q \in Processes, Busy(q)', NEW e \in Datasets \ process'[q].unread,
               e # process'[q].manifest.dataset, Conflict(entry'[e].manifest, process'[q].manifest)
        PROVE  {entry'[e].manifest, process'[q].manifest} \in together'
    <2>1. q # p /\ process'[q] = process[q] /\ Busy(q)  BY <1>3, <1>5
    <2>2. CASE e = d
      <3>1. {m, process[q].manifest} \in together  BY <1>4, <1>5, <2>1, <2>2
      <3> QED  BY <1>1, <1>2, <2>1, <2>2, <3>1
    <2>3. CASE e # d
      <3>1. entry'[e] = entry[e]  BY <1>1, <2>3
      <3> QED  BY <1>1, <1>5, <2>1, <3>1
    <2> QED  BY <2>2, <2>3
  <1>6. ASSUME NEW e \in Datasets \ {d}, Conflict(entry[e].manifest, m)
        PROVE  {entry[e].manifest, m} \in together
    BY <1>4, <1>6
  <1>7. ASSUME NEW e \in Datasets, NEW f \in Datasets, e # f,
               Conflict(entry'[e].manifest, entry'[f].manifest)
        PROVE  {entry'[e].manifest, entry'[f].manifest} \in together'
    <2>1. CASE f = d
      <3>1. entry'[e] = entry[e]  BY <1>1, <1>7, <2>1
      <3> QED  BY <1>1, <1>2, <1>6, <1>7, <2>1, <3>1
    <2>2. CASE e = d
      <3>1. entry'[f] = entry[f]  BY <1>1, <1>7, <2>2
      <3>2. Conflict(entry[f].manifest, m)  BY <1>2, <1>7, <2>2, <3>1, ConflictBothWays
      <3>3. {entry[f].manifest, m} \in together  BY <1>6, <1>7, <2>2, <3>2
      <3>4. {entry'[e].manifest, entry'[f].manifest} = {entry[f].manifest, m}  BY <1>2, <2>2, <3>1
      <3> QED  BY <1>1, <3>3, <3>4
    <2>3. CASE e # d /\ f # d
      <3>1. entry'[e] = entry[e] /\ entry'[f] = entry[f]  BY <1>1, <2>3
      <3> QED  BY <1>1, <1>7, <3>1
    <2> QED  BY <2>1, <2>2, <2>3
  <1>8. \A q \in Processes : process'[q].at \in {"create", "write"} => process'[q].unread = {}
    BY <1>1
  <1>9. \A q, r \in Processes :
            Busy(q)' /\ Busy(r)' /\ process'[q].manifest.dataset # process'[r].manifest.dataset
            => {process'[q].manifest, process'[r].manifest} \in together'
    BY <1>1, <1>3
  <1> HIDE DEF RegistryInv
  <1> QED  BY <1>5, <1>7, <1>8, <1>9 DEF Datasets

LEMMA CreateKeepsSeals == ASSUME RegistryInv, NEW p \in Processes, CreateEntry(p) PROVE SealInv'
  <1> DEFINE m == process[p].manifest
             d == m.dataset
  <1>1. /\ process[p].at = "create" /\ d \in Datasets /\ RegistryTypes /\ UNCHANGED together
        /\ process[p].unread = {}
    BY DEF CreateEntry, RegistryInv, HoldoutInv, RegistryTypes, Datasets, SealInv
  <1>2. CASE entry[d].state = "missing"
    <2>1. entry' = [entry EXCEPT ![d] = File("partial", NoManifest)] /\ Goes(p, "write")
      BY <1>2 DEF CreateEntry, MayCreate
    <2>2. /\ process'[p].at = "write" /\ process'[p].manifest = m /\ process'[p].unread = {}
          /\ \A q \in Processes \ {p} : process'[q] = process[q]
      BY <1>1, <2>1, GoesIs DEF Stages
    <2>3. entry[d].manifest = NoManifest
      BY <1>1, <1>2 DEF RegistryInv, HoldoutInv, EntriesInv
    <2>4. entry'[d].manifest = NoManifest /\ \A e \in Datasets \ {d} : entry'[e] = entry[e]
      BY <1>1, <2>1, FileIs DEF RegistryTypes
    <2>5. \A e \in Datasets : entry'[e].manifest = entry[e].manifest  BY <2>3, <2>4
    <2>6. \A q \in Processes : /\ Busy(q)' <=> Busy(q)
                               /\ process'[q].manifest = process[q].manifest
                               /\ process'[q].unread = process[q].unread
      BY <1>1, <2>2 DEF Busy, Registering
    <2>7. \A q \in Processes : process'[q].at \in {"create", "write"} => process'[q].unread = {}
      BY <2>2 DEF RegistryInv, SealInv
    <2>8. ASSUME NEW q \in Processes, Busy(q)', NEW e \in Datasets \ process'[q].unread,
                 e # process'[q].manifest.dataset, Conflict(entry'[e].manifest, process'[q].manifest)
          PROVE  {entry'[e].manifest, process'[q].manifest} \in together'
      <3>1. /\ Busy(q) /\ process'[q].manifest = process[q].manifest
            /\ process'[q].unread = process[q].unread /\ entry'[e].manifest = entry[e].manifest
        BY <2>5, <2>6, <2>8
      <3> QED  BY <1>1, <2>8, <3>1 DEF RegistryInv, SealInv
    <2>9. ASSUME NEW q \in Processes, NEW r \in Processes, Busy(q)', Busy(r)',
                 process'[q].manifest.dataset # process'[r].manifest.dataset
          PROVE  {process'[q].manifest, process'[r].manifest} \in together'
      <3>1. /\ Busy(q) /\ process'[q].manifest = process[q].manifest
            /\ Busy(r) /\ process'[r].manifest = process[r].manifest
        BY <2>6, <2>9
      <3> QED  BY <1>1, <2>9, <3>1 DEF RegistryInv, SealInv
    <2>10. ASSUME NEW e \in Datasets, NEW f \in Datasets, e # f,
                  Conflict(entry'[e].manifest, entry'[f].manifest)
           PROVE  {entry'[e].manifest, entry'[f].manifest} \in together'
      <3>1. entry'[e].manifest = entry[e].manifest /\ entry'[f].manifest = entry[f].manifest
        BY <2>5
      <3> QED  BY <1>1, <2>10, <3>1 DEF RegistryInv, SealInv
    <2> QED  BY <2>7, <2>8, <2>9, <2>10 DEF SealInv, Datasets
  <1>3. CASE entry[d].state # "missing"
    <2>1. Goes(p, "ended") /\ UNCHANGED entry  BY <1>3 DEF CreateEntry, MayCreate
    <2>2. process'[p].at = "idle" /\ \A q \in Processes \ {p} : process'[q] = process[q]
      BY <1>1, <2>1, GoesIs
    <2>3. process'[p].at \notin Registering  BY <2>2 DEF Registering
    <2> QED  BY <1>1, <2>1, <2>2, <2>3, OthersKeepSeals
  <1> QED  BY <1>2, <1>3

LEMMA RegistryInvInit == RegistryInit => RegistryInv
  <1> SUFFICES ASSUME RegistryInit PROVE RegistryInv  OBVIOUS
  <1> USE DEF RegistryInit
  <1>1. File("missing", NoManifest) \in Files /\ File("missing", NoManifest).state = "missing"
        /\ File("missing", NoManifest).manifest = NoManifest
    BY FileIs
  <1>2. Free \in Commands /\ Free.at = "idle"  BY FreeIs
  <1> HIDE DEF Commands, Files
  <1>3. RegistryTypes  BY <1>1, <1>2 DEF RegistryTypes
  <1>4. EntriesInv  BY <1>1 DEF EntriesInv
  <1>5. WritersInv /\ MarkersInv /\ SignersInv  BY <1>2 DEF WritersInv, MarkersInv, SignersInv
  <1>6. SealInv  BY <1>1, <1>2, NothingConflicts DEF SealInv, Busy, Registering
  <1> QED  BY <1>3, <1>4, <1>5, <1>6 DEF RegistryInv, HoldoutInv

LEMMA RegistryInvStep == ASSUME RegistryInv, [RegistryNext]_registry PROVE RegistryInv'
  <1>0. HoldoutInv /\ RegistryTypes  BY DEF RegistryInv, HoldoutInv
  <1>1. ASSUME NEW p \in Processes, Command(p) PROVE RegistryInv'
    <2>1. PICK m \in Manifests, op \in {"register", "consume"} :
              process' = [process EXCEPT ![p] = [at |-> "lookup", op |-> op, manifest |-> m, unread |-> {}]]
      BY <1>1 DEF Command
    <2>2. process'[p].at = "lookup" /\ \A q \in Processes \ {p} : process'[q] = process[q]
      BY <1>0, <2>1 DEF RegistryTypes
    <2>3. process'[p].at \notin Registering /\ UNCHANGED <<entry, together>>
      BY <1>1, <2>2 DEF Command, Registering
    <2> QED  BY <1>0, <1>1, <2>2, <2>3, CommandKeepsHoldouts, OthersKeepSeals DEF RegistryInv
  <1>2. ASSUME NEW p \in Processes, LookUp(p) PROVE RegistryInv'
    <2>1. HoldoutInv' /\ UNCHANGED entry  BY <1>0, <1>2, ReadersKeepHoldouts DEF LookUp
    <2>2. \A q \in Processes \ {p} : process'[q] = process[q]  BY <1>0, <1>2, LookUpIs
    <2>3. CASE process'[p].at = "scan"
      <3>1. /\ process'[p].unread = Datasets /\ process'[p].manifest = process[p].manifest
            /\ together' = together \cup
                {{process[p].manifest, process[q].manifest} : q \in {r \in Processes \ {p} :
                    process[r].at \in Registering
                    /\ process[r].manifest.dataset # process[p].manifest.dataset}}
        BY <1>0, <1>2, <2>3, LookUpIs
      <3> QED  BY <2>1, <2>2, <2>3, <3>1, StartKeepsSeals DEF RegistryInv
    <2>4. CASE process'[p].at # "scan"
      <3>1. process'[p].at \in {"idle", "mark"} /\ UNCHANGED together  BY <1>0, <1>2, <2>4, LookUpIs
      <3>2. process'[p].at \notin Registering  BY <3>1 DEF Registering
      <3> QED  BY <2>1, <2>2, <3>1, <3>2, OthersKeepSeals DEF RegistryInv
    <2> QED  BY <2>3, <2>4
  <1>3. ASSUME NEW p \in Processes, ScanEntry(p) PROVE RegistryInv'
    <2>1. HoldoutInv' /\ UNCHANGED <<entry, together>>
      BY <1>0, <1>3, ReadersKeepHoldouts DEF ScanEntry
    <2>2. process[p].at = "scan" /\ \A q \in Processes \ {p} : process'[q] = process[q]
      BY <1>0, <1>3, ScanEntryIs
    <2>3. CASE process'[p].at = "idle"
      <3>1. process'[p].at \notin Registering  BY <2>3 DEF Registering
      <3> QED  BY <2>1, <2>2, <3>1, OthersKeepSeals DEF RegistryInv
    <2>4. CASE process'[p].at # "idle"
      <3>1. /\ process'[p].at \in {"scan", "create"} /\ process'[p].manifest = process[p].manifest
            /\ process'[p].at = "create" => process'[p].unread = {}
            /\ \A d \in process[p].unread \ process'[p].unread :
                    ~Conflict(entry[d].manifest, process[p].manifest)
        BY <1>0, <1>3, <2>4, ScanEntryIs
      <3>2. process[p].at \in Registering /\ process'[p].at \in Registering
        BY <2>2, <3>1 DEF Registering
      <3> QED  BY <2>1, <2>2, <3>1, <3>2, ScanKeepsSeals DEF RegistryInv
    <2> QED  BY <2>3, <2>4
  <1>4. ASSUME NEW p \in Processes, CreateEntry(p) PROVE RegistryInv'
    BY <1>0, <1>4, CreateEntryKeepsHoldouts, CreateKeepsSeals DEF RegistryInv
  <1>5. ASSUME NEW p \in Processes, WriteEntry(p) PROVE RegistryInv'
    BY <1>0, <1>5, WriteEntryKeepsHoldouts, WriteKeepsSeals DEF RegistryInv
  <1>6. ASSUME NEW p \in Processes, CreateMark(p) \/ WriteMark(p) \/ CommandFails(p) PROVE RegistryInv'
    <2>1. HoldoutInv'  BY <1>0, <1>6, MarksKeepHoldouts, ReadersKeepHoldouts
    <2>2. UNCHANGED <<entry, together>> /\ (Goes(p, "ended") \/ Goes(p, "sign"))
      BY <1>6 DEF CreateMark, WriteMark, CommandFails
    <2>3. /\ \A q \in Processes \ {p} : process'[q] = process[q]
          /\ process'[p].at = "idle" \/ process'[p].at = "sign"
      BY <1>0, <2>2, GoesIs DEF Stages
    <2>4. process'[p].at \notin Registering  BY <2>3 DEF Registering
    <2> QED  BY <2>1, <2>2, <2>3, <2>4, OthersKeepSeals DEF RegistryInv
  <1>7. CASE UNCHANGED registry
    BY <1>7 DEF registry, RegistryInv, HoldoutInv, RegistryTypes, EntriesInv, WritersInv, MarkersInv,
                SignersInv, SealInv, Busy
  <1> QED  BY <1>1, <1>2, <1>3, <1>4, <1>5, <1>6, <1>7 DEF RegistryNext

\* A holdout is given out once and no two registered datasets contradict each
\* other unseen, whichever processes run at the same time and wherever one died
\* (register_dataset, consume_sealed_holdout).
THEOREM HoldoutsAreSealed == RegistrySpec => []HoldoutsStaySealed
  <1>1. RegistryInv /\ [RegistryNext]_registry => RegistryInv'  BY RegistryInvStep
  <1>2. RegistryInv => HoldoutsStaySealed
    <2> SUFFICES ASSUME RegistryInv PROVE HoldoutsStaySealed  OBVIOUS
    <2>1. \A m \in Manifests : granted[m] <= 1  BY DEF RegistryInv, HoldoutInv, SignersInv
    <2>2. \A m \in Manifests : granted[m] > 0 => entry[m.dataset].manifest = m
      BY FileIs DEF RegistryInv, HoldoutInv, MarkersInv
    <2>3. \A m, n \in Manifests :
            m.dataset = n.dataset /\ granted[m] > 0 /\ granted[n] > 0 => m = n
      BY <2>2
    <2> QED  BY <2>1, <2>3 DEF HoldoutsStaySealed, RegistryInv, SealInv
  <1> QED  BY RegistryInvInit, <1>1, <1>2, PTL DEF RegistrySpec

-----------------------------------------------------------------------------
(* MovementStream: the events of the movements screen                      *)

StreamSpec == StreamInit /\ [][StreamNext]_streamVars

Kinds == {"Connecting", "Connected", "Reconnecting", "Offline", "Movement", "Notice"}
Events == [id : Nat, kind : Kinds]

Increasing(h) == \A i \in 2..Len(h) : h[i - 1] < h[i]

InHand == delivered \o Ids(deferred) \o Ids(queue)

StreamTypes ==
    /\ queue \in Seq(Events) /\ deferred \in Seq(Events) /\ delivered \in Seq(Nat)
    /\ published \in Nat /\ dropped \in Nat /\ told \in Nat
    /\ IsFiniteSet(lost)

\* Every number is in one hand, in its order, or among the lost, which are counted.
NothingIsLost ==
    /\ Increasing(InHand)
    /\ 1..published = ToSet(InHand) \cup lost
    /\ Cardinality(lost) = told + dropped

\* The task ends without a word only when it is told to.
CommandInv ==
    /\ command = "Shutdown" => stream # "running"
    /\ socket \in {"connecting", "backoff", "authenticating", "connected", "ended"}
    /\ socket \in {"backoff", "connected"} => published > 0

\* What the screen will show after the next batch is where the task is.
ShownInv == stream = "running" /\ lost = {} => StatusAfter(DrainOrder) = SocketStatus

StreamInv == StreamTypes /\ NothingIsLost /\ CommandInv /\ ShownInv

-----------------------------------------------------------------------------

LEMMA IdsAre ==
    ASSUME NEW s \in Seq(Events)
    PROVE  Ids(s) \in Seq(Nat) /\ Len(Ids(s)) = Len(s) /\ \A i \in 1..Len(s) : Ids(s)[i] = s[i].id
  <1>1. DOMAIN s = 1..Len(s) /\ \A i \in 1..Len(s) : s[i] \in Events  OBVIOUS
  <1>2. Ids(s) = [i \in 1..Len(s) |-> s[i].id]  BY <1>1 DEF Ids
  <1>3. \A i \in 1..Len(s) : s[i].id \in Nat  BY <1>1 DEF Events
  <1>4. Len(s) \in Nat  OBVIOUS
  <1>5. Ids(s) \in Seq(Nat) /\ Len(Ids(s)) = Len(s)  BY <1>2, <1>3, <1>4, IsASeq
  <1> QED  BY <1>2, <1>5

LEMMA IdsOfNone == Ids(<<>>) = <<>>
  <1>1. <<>> \in Seq(Events)  OBVIOUS
  <1>2. Ids(<<>>) \in Seq(Nat) /\ Len(Ids(<<>>)) = 0  BY <1>1, IdsAre
  <1> QED  BY <1>2

LEMMA IdsOfConcat ==
    ASSUME NEW s \in Seq(Events), NEW t \in Seq(Events)
    PROVE  Ids(s \o t) = Ids(s) \o Ids(t)
  <1> DEFINE u == s \o t
             v == Ids(s) \o Ids(t)
  <1>1. /\ u \in Seq(Events) /\ Len(u) = Len(s) + Len(t)
        /\ \A i \in 1..(Len(s) + Len(t)) : u[i] = IF i <= Len(s) THEN s[i] ELSE t[i - Len(s)]
    BY ConcatProperties
  <1>2. /\ Ids(s) \in Seq(Nat) /\ Len(Ids(s)) = Len(s) /\ Ids(t) \in Seq(Nat) /\ Len(Ids(t)) = Len(t)
        /\ \A i \in 1..Len(s) : Ids(s)[i] = s[i].id
        /\ \A i \in 1..Len(t) : Ids(t)[i] = t[i].id
        /\ Len(s) \in Nat /\ Len(t) \in Nat
    BY IdsAre
  <1>3. /\ v \in Seq(Nat) /\ Len(v) = Len(s) + Len(t)
        /\ \A i \in 1..(Len(s) + Len(t)) : v[i] = IF i <= Len(s) THEN Ids(s)[i] ELSE Ids(t)[i - Len(s)]
    BY <1>2, ConcatProperties
  <1> HIDE DEF u, v
  <1>4. /\ Ids(u) \in Seq(Nat) /\ Len(Ids(u)) = Len(u)
        /\ \A i \in 1..Len(u) : Ids(u)[i] = u[i].id
    BY <1>1, IdsAre
  <1>5. ASSUME NEW i \in 1..Len(v) PROVE Ids(u)[i] = v[i]
    <2>0. /\ i \in 1..(Len(s) + Len(t)) /\ i \in 1..Len(u) /\ i \in Nat
          /\ Ids(u)[i] = u[i].id
      BY <1>1, <1>2, <1>3, <1>4
    <2>1. CASE i <= Len(s)
      <3>1. u[i] = s[i] /\ v[i] = Ids(s)[i] /\ i \in 1..Len(s)  BY <1>1, <1>2, <1>3, <2>0, <2>1
      <3> QED  BY <1>2, <2>0, <3>1
    <2>2. CASE ~(i <= Len(s))
      <3>1. i - Len(s) \in 1..Len(t)  BY <1>2, <2>0, <2>2
      <3>2. u[i] = t[i - Len(s)] /\ v[i] = Ids(t)[i - Len(s)]  BY <1>1, <1>3, <2>0, <2>2
      <3>3. Ids(t)[i - Len(s)] = t[i - Len(s)].id  BY <1>2, <3>1
      <3> QED  BY <2>0, <3>2, <3>3
    <2> QED  BY <2>1, <2>2
  <1>6. Ids(u) = v  BY <1>1, <1>3, <1>4, <1>5, SeqEqual
  <1> QED  BY <1>6 DEF u, v

LEMMA IdsOfAppend ==
    ASSUME NEW s \in Seq(Events), NEW e \in Events
    PROVE  Ids(Append(s, e)) = Append(Ids(s), e.id)
  <1>1. <<e>> \in Seq(Events) /\ Append(s, e) = s \o <<e>>  BY AppendIsConcat
  <1>2. Ids(<<e>>) = <<e.id>>  BY DEF Ids
  <1>3. Ids(s) \in Seq(Nat) /\ e.id \in Nat  BY IdsAre DEF Events
  <1>4. Append(Ids(s), e.id) = Ids(s) \o <<e.id>>  BY <1>3, AppendIsConcat
  <1> QED  BY <1>1, <1>2, <1>4, IdsOfConcat

\* Sequences of numbers, as the hands are.
LEMMA HandsAssociate ==
    ASSUME NEW a \in Seq(Nat), NEW b \in Seq(Nat), NEW c \in Seq(Nat)
    PROVE  (a \o b) \o c = a \o (b \o c)
  OBVIOUS

LEMMA HandsAppend ==
    ASSUME NEW a \in Seq(Nat), NEW b \in Seq(Nat), NEW n \in Nat
    PROVE  Append(a \o b, n) = a \o Append(b, n)
  <1> DEFINE one == <<n>>
             ab == a \o b
  <1>1. one \in Seq(Nat) /\ ab \in Seq(Nat)  BY ConcatProperties
  <1>2. Append(b, n) = b \o one /\ Append(ab, n) = ab \o one  BY <1>1, AppendIsConcat
  <1> HIDE DEF one
  <1>3. ab \o one = a \o (b \o one)  BY <1>1, HandsAssociate
  <1> QED  BY <1>2, <1>3

\* The hands after an event more, whoever holds it.
LEMMA OneMoreInHand ==
    ASSUME NEW h \in Seq(Nat), NEW n \in Nat, NEW gone \in SUBSET Nat, Increasing(h),
           1..n = ToSet(h) \cup gone
    PROVE  /\ Increasing(Append(h, n + 1))
           /\ 1..(n + 1) = ToSet(Append(h, n + 1)) \cup gone
           /\ 1..(n + 1) = ToSet(h) \cup (gone \cup {n + 1})
           /\ n + 1 \notin gone
  <1> DEFINE g == Append(h, n + 1)
  <1>1. /\ Len(h) \in Nat /\ Len(g) = Len(h) + 1 /\ g[Len(h) + 1] = n + 1
        /\ \A i \in 1..Len(h) : g[i] = h[i] /\ h[i] \in Nat
        /\ DOMAIN h = 1..Len(h) /\ DOMAIN g = 1..(Len(h) + 1)
    OBVIOUS
  <1> HIDE DEF g
  <1>2. \A i \in 1..Len(h) : h[i] <= n
    <2>1. \A i \in 1..Len(h) : h[i] \in ToSet(h)  BY <1>1 DEF ToSet
    <2> QED  BY <2>1
  <1>3. Increasing(g)
    <2> SUFFICES ASSUME NEW i \in 2..Len(g) PROVE g[i - 1] < g[i]  BY DEF Increasing
    <2>1. CASE i <= Len(h)
      <3>1. i - 1 \in 1..Len(h) /\ i \in 1..Len(h) /\ i \in 2..Len(h)  BY <1>1, <2>1
      <3> QED  BY <1>1, <3>1 DEF Increasing
    <2>2. CASE i = Len(h) + 1
      <3>1. i - 1 \in 1..Len(h)  BY <1>1, <2>2
      <3>2. g[i - 1] <= n /\ g[i - 1] \in Nat  BY <1>1, <1>2, <3>1
      <3>3. g[i] = n + 1  BY <1>1, <2>2
      <3> QED  BY <3>2, <3>3
    <2> QED  BY <1>1, <2>1, <2>2
  <1>4. ToSet(g) = ToSet(h) \cup {n + 1}
    <2>1. \A x : x \in ToSet(g) => x \in ToSet(h) \cup {n + 1}
      <3> SUFFICES ASSUME NEW i \in 1..(Len(h) + 1) PROVE g[i] \in ToSet(h) \cup {n + 1}
        BY <1>1 DEF ToSet
      <3>1. i = Len(h) + 1 \/ i \in 1..Len(h)  BY <1>1
      <3> QED  BY <1>1, <3>1 DEF ToSet
    <2>2. n + 1 \in ToSet(g)
      <3>1. Len(h) + 1 \in DOMAIN g  BY <1>1
      <3> QED  BY <1>1, <3>1 DEF ToSet
    <2>3. \A i \in 1..Len(h) : h[i] \in ToSet(g)
      <3> SUFFICES ASSUME NEW i \in 1..Len(h) PROVE h[i] \in ToSet(g)  OBVIOUS
      <3>1. i \in DOMAIN g /\ g[i] = h[i]  BY <1>1
      <3> QED  BY <3>1 DEF ToSet
    <2>4. ToSet(h) \subseteq ToSet(g)  BY <1>1, <2>3 DEF ToSet
    <2> QED  BY <2>1, <2>2, <2>4
  <1>5. 1..(n + 1) = 1..n \cup {n + 1} /\ n + 1 \notin 1..n  OBVIOUS
  <1>6. 1..(n + 1) = ToSet(g) \cup gone /\ 1..(n + 1) = ToSet(h) \cup (gone \cup {n + 1}) /\ n + 1 \notin gone
    BY <1>4, <1>5
  <1> QED  BY <1>3, <1>6 DEF g

-----------------------------------------------------------------------------

\* Whether an event says how the connection is.
IsStatus(e) == e.kind \notin {"Movement", "Notice"}

LEMMA NoStatuses == Statuses(<<>>) = {}
  BY DEF Statuses

\* The last status of a batch with an event more.
LEMMA StatusOfOneMore ==
    ASSUME NEW s \in Seq(Events), NEW e \in Events, NEW was
    PROVE  (IF Statuses(Append(s, e)) = {} THEN was ELSE Append(s, e)[Max(Statuses(Append(s, e)))].kind)
           = IF IsStatus(e) THEN e.kind
             ELSE IF Statuses(s) = {} THEN was ELSE s[Max(Statuses(s))].kind
  <1> DEFINE g == Append(s, e)
  <1>1. /\ Len(s) \in Nat /\ Len(g) = Len(s) + 1 /\ g[Len(s) + 1] = e
        /\ \A i \in 1..Len(s) : g[i] = s[i]
        /\ DOMAIN s = 1..Len(s) /\ DOMAIN g = 1..(Len(s) + 1)
    OBVIOUS
  <1> HIDE DEF g
  <1>2. Statuses(s) \subseteq 1..Len(s)  BY <1>1 DEF Statuses
  <1>3. Statuses(g) \ {Len(s) + 1} = Statuses(s)
    <2>1. \A i : i \in Statuses(g) \ {Len(s) + 1} => i \in Statuses(s)
      <3> SUFFICES ASSUME NEW i \in 1..(Len(s) + 1), i # Len(s) + 1,
                          g[i].kind \notin {"Movement", "Notice"}
                   PROVE  i \in Statuses(s)
        BY <1>1 DEF Statuses
      <3>1. i \in 1..Len(s)  BY <1>1
      <3> QED  BY <1>1, <3>1 DEF Statuses
    <2>2. \A i : i \in Statuses(s) => i \in Statuses(g) \ {Len(s) + 1}
      <3> SUFFICES ASSUME NEW i \in 1..Len(s), s[i].kind \notin {"Movement", "Notice"}
                   PROVE  i \in Statuses(g) /\ i # Len(s) + 1
        BY <1>1 DEF Statuses
      <3>1. i \in 1..(Len(s) + 1) /\ i # Len(s) + 1  BY <1>1
      <3> QED  BY <1>1, <3>1 DEF Statuses
    <2> QED  BY <2>1, <2>2
  <1>4. Len(s) + 1 \in Statuses(g) <=> IsStatus(e)  BY <1>1 DEF Statuses, IsStatus
  <1>5. Statuses(g) \subseteq 1..(Len(s) + 1)  BY <1>1 DEF Statuses
  <1>6. CASE IsStatus(e)
    <2>1. Statuses(g) # {} /\ Len(s) + 1 \in Statuses(g)  BY <1>4, <1>6
    <2>2. Max(Statuses(g)) \in Statuses(g) /\ Len(s) + 1 <= Max(Statuses(g))
      <3>1. Len(s) + 1 \in Nat  BY <1>1
      <3> QED  BY <1>5, <2>1, <3>1, MaxIn
    <2>3. Max(Statuses(g)) = Len(s) + 1  BY <1>1, <1>5, <2>2
    <2> QED  BY <1>1, <1>6, <2>1, <2>3 DEF g
  <1>7. CASE ~IsStatus(e)
    <2>1. Statuses(g) = Statuses(s)  BY <1>3, <1>4, <1>7
    <2>2. CASE Statuses(s) = {}  BY <1>7, <2>1, <2>2 DEF g
    <2>3. CASE Statuses(s) # {}
      <3>1. Max(Statuses(s)) \in 1..Len(s)  BY <1>1, <1>2, <2>3, MaxIn
      <3>2. g[Max(Statuses(g))] = s[Max(Statuses(s))]  BY <1>1, <2>1, <3>1
      <3> QED  BY <1>7, <2>1, <2>3, <3>2 DEF g
    <2> QED  BY <2>2, <2>3
  <1> QED  BY <1>6, <1>7

-----------------------------------------------------------------------------

LEMMA InHandIs ==
    ASSUME StreamTypes
    PROVE  /\ Ids(deferred) \in Seq(Nat) /\ Ids(queue) \in Seq(Nat)
           /\ delivered \o Ids(deferred) \in Seq(Nat) /\ InHand \in Seq(Nat)
  <1>1. Ids(deferred) \in Seq(Nat) /\ Ids(queue) \in Seq(Nat) /\ delivered \in Seq(Nat)
    BY IdsAre DEF StreamTypes
  <1>2. delivered \o Ids(deferred) \in Seq(Nat)  BY <1>1, ConcatProperties
  <1> QED  BY <1>1, <1>2, ConcatProperties DEF InHand

\* An event is queued behind the others, or counted.
LEMMA PublishKeeps ==
    ASSUME StreamTypes, NothingIsLost, NEW kind \in Kinds, Publish(kind),
           UNCHANGED <<deferred, delivered, told>>
    PROVE  /\ StreamTypes' /\ NothingIsLost' /\ published' > 0
           /\ lost' = {} => lost = {} /\ \E e \in Events : e.kind = kind /\ queue' = Append(queue, e)
  <1> DEFINE n == published
             e == [id |-> n + 1, kind |-> kind]
  <1> USE DEF StreamTypes
  <1>1. n \in Nat /\ n + 1 \in Nat /\ published' = n + 1  BY DEF Publish
  <1>2. e \in Events /\ e.id = n + 1 /\ e.kind = kind  BY <1>1 DEF Events
  <1>3. lost \in SUBSET Nat
    <2>1. lost \subseteq 1..n  BY DEF NothingIsLost
    <2> QED  BY <1>1, <2>1
  <1>4. /\ Increasing(Append(InHand, n + 1))
        /\ 1..(n + 1) = ToSet(Append(InHand, n + 1)) \cup lost
        /\ 1..(n + 1) = ToSet(InHand) \cup (lost \cup {n + 1})
        /\ n + 1 \notin lost
    <2>1. Increasing(InHand) /\ 1..n = ToSet(InHand) \cup lost  BY DEF NothingIsLost
    <2> QED  BY <1>1, <1>3, <2>1, InHandIs, OneMoreInHand
  <1>5. CASE /\ queue' = Append(queue, e)
             /\ UNCHANGED <<dropped, lost>>
    <2>1. queue' \in Seq(Events)  BY <1>2, <1>5
    <2>2. Ids(queue') = Append(Ids(queue), n + 1)  BY <1>2, <1>5, IdsOfAppend
    <2>3. InHand' = Append(InHand, n + 1)
      <3> DEFINE h == delivered \o Ids(deferred)
                 q == Ids(queue)
      <3>1. h \in Seq(Nat) /\ q \in Seq(Nat)  BY InHandIs
      <3>2. InHand' = h \o Append(q, n + 1) /\ InHand = h \o q  BY <2>2 DEF InHand, Ids
      <3>3. PICK k \in Nat : k = n + 1  BY <1>1
      <3> HIDE DEF h, q
      <3>4. Append(h \o q, k) = h \o Append(q, k)  BY <3>1, HandsAppend
      <3> QED  BY <3>2, <3>3, <3>4
    <2>4. StreamTypes'  BY <1>1, <1>5, <2>1
    <2>5. NothingIsLost'  BY <1>1, <1>4, <1>5, <2>3 DEF NothingIsLost
    <2>6. \E x \in Events : x.kind = kind /\ queue' = Append(queue, x)  BY <1>2, <1>5
    <2>7. published' > 0 /\ lost' = lost  BY <1>1, <1>5
    <2> HIDE DEF StreamTypes
    <2> QED  BY <2>4, <2>5, <2>6, <2>7
  <1>6. CASE /\ dropped' = dropped + 1 /\ lost' = lost \cup {n + 1}
             /\ UNCHANGED queue
    <2>1. IsFiniteSet(lost') /\ Cardinality(lost') = Cardinality(lost) + 1
      BY <1>4, <1>6, FS_AddElement
    <2>2. InHand' = InHand  BY <1>6 DEF InHand, Ids
    <2>3. StreamTypes'  BY <1>1, <1>6, <2>1
    <2>4. NothingIsLost'  BY <1>1, <1>4, <1>6, <2>1, <2>2 DEF NothingIsLost
    <2>5. lost' # {}  BY <1>6
    <2> QED  BY <1>1, <2>3, <2>4, <2>5
  <1> QED  BY <1>5, <1>6 DEF Publish

\* What the screen will show with one more event queued.
LEMMA QueuedShows ==
    ASSUME StreamTypes, NEW e \in Events, queue' = Append(queue, e), UNCHANGED <<deferred, shown>>
    PROVE  StatusAfter(DrainOrder)' = IF IsStatus(e) THEN e.kind ELSE StatusAfter(DrainOrder)
  <1> DEFINE s == deferred \o queue
  <1>1. deferred \in Seq(Events) /\ queue \in Seq(Events) /\ <<e>> \in Seq(Events) /\ s \in Seq(Events)
    BY ConcatProperties DEF StreamTypes
  <1>2. Append(queue, e) = queue \o <<e>> /\ Append(s, e) = s \o <<e>>  BY <1>1, AppendIsConcat
  <1>3. s \o <<e>> = deferred \o (queue \o <<e>>)  BY <1>1, ConcatAssociative
  <1>4. DrainOrder' = Append(s, e) /\ DrainOrder = s  BY <1>2, <1>3 DEF DrainOrder
  <1> HIDE DEF s
  <1>5. StatusAfter(DrainOrder)' =
            IF Statuses(Append(s, e)) = {} THEN shown ELSE Append(s, e)[Max(Statuses(Append(s, e)))].kind
    BY <1>4 DEF StatusAfter, Statuses
  <1>6. StatusAfter(DrainOrder) = IF Statuses(s) = {} THEN shown ELSE s[Max(Statuses(s))].kind
    BY <1>4 DEF StatusAfter
  <1>7. (IF Statuses(Append(s, e)) = {} THEN shown ELSE Append(s, e)[Max(Statuses(Append(s, e)))].kind)
        = IF IsStatus(e) THEN e.kind ELSE IF Statuses(s) = {} THEN shown ELSE s[Max(Statuses(s))].kind
    BY <1>1, StatusOfOneMore
  <1> QED  BY <1>5, <1>6, <1>7, Zenon

\* A step of the task that says where it is now, or something else.
LEMMA SaidKeeps ==
    ASSUME StreamInv, NEW kind \in Kinds, Publish(kind), TaskLeaves, UNCHANGED command,
           socket' \in {"connecting", "backoff", "authenticating", "connected", "ended"},
           IF kind \in {"Movement", "Notice"} THEN socket' = socket /\ socket = "connected"
           ELSE kind = CASE socket' = "connected" -> "Connected"
                         [] socket' = "ended" -> "Offline"
                         [] OTHER -> "Reconnecting"
    PROVE  StreamInv'
  <1> USE DEF StreamInv
  <1>1. UNCHANGED <<stream, deferred, shown, delivered, told>>  BY DEF TaskLeaves
  <1>2. /\ StreamTypes' /\ NothingIsLost' /\ published' > 0
        /\ lost' = {} => lost = {} /\ \E e \in Events : e.kind = kind /\ queue' = Append(queue, e)
    BY <1>1, PublishKeeps
  <1>3. CommandInv'  BY <1>1, <1>2 DEF CommandInv
  <1>4. published' # 0  BY <1>2 DEF StreamTypes
  <1>5. ASSUME stream' = "running", lost' = {}
        PROVE  StatusAfter(DrainOrder)' = SocketStatus'
    <2>1. PICK e \in Events : e.kind = kind /\ queue' = Append(queue, e)  BY <1>2, <1>5
    <2>2. StatusAfter(DrainOrder)' = IF IsStatus(e) THEN e.kind ELSE StatusAfter(DrainOrder)
      BY <1>1, <2>1, QueuedShows
    <2>3. StatusAfter(DrainOrder) = SocketStatus  BY <1>1, <1>2, <1>5 DEF ShownInv
    <2>4. CASE kind \in {"Movement", "Notice"}
      <3>1. SocketStatus' = "Connected" /\ SocketStatus = "Connected"  BY <2>4 DEF SocketStatus
      <3>2. ~IsStatus(e)  BY <2>1, <2>4 DEF IsStatus
      <3> QED  BY <2>2, <2>3, <3>1, <3>2
    <2>5. CASE kind \notin {"Movement", "Notice"}
      <3>1. SocketStatus' = kind  BY <1>4, <2>5 DEF SocketStatus
      <3>2. IsStatus(e)  BY <2>1, <2>5 DEF IsStatus
      <3> QED  BY <2>1, <2>2, <3>1, <3>2
    <2> QED  BY <2>4, <2>5
  <1>6. ShownInv'  BY <1>5 DEF ShownInv
  <1> QED  BY <1>2, <1>3, <1>6

\* A step of the task that says nothing.
LEMMA SilentKeeps ==
    ASSUME StreamInv, UNCHANGED <<queue, dropped, published, lost>>, TaskLeaves,
           socket' \in {"connecting", "backoff", "authenticating", "connected", "ended"},
           socket' \notin {"backoff", "connected"},
           command' = "Shutdown" => command = "Shutdown",
           stream # "running" \/ SocketStatus' = SocketStatus
    PROVE  StreamInv'
  <1> USE DEF StreamInv
  <1>1. UNCHANGED <<stream, deferred, shown, delivered, told>>  BY DEF TaskLeaves
  <1>2. StreamTypes'  BY <1>1 DEF StreamTypes
  <1>3. NothingIsLost'  BY <1>1 DEF NothingIsLost, InHand, Ids
  <1>4. CommandInv'  BY <1>1 DEF CommandInv
  <1>5. StatusAfter(DrainOrder)' = StatusAfter(DrainOrder)
    BY <1>1 DEF StatusAfter, Statuses, DrainOrder
  <1>6. ShownInv'  BY <1>1, <1>5 DEF ShownInv
  <1> QED  BY <1>2, <1>3, <1>4, <1>6

LEMMA TaskKeeps == ASSUME StreamInv, TaskStep PROVE StreamInv'
  <1>0. CommandInv /\ socket \in {"connecting", "backoff", "authenticating", "connected", "ended"}
    BY DEF StreamInv, CommandInv
  <1>1. CASE ObeyShutdown
    <2>1. stream # "running"  BY <1>0, <1>1 DEF ObeyShutdown, CommandInv
    <2> QED  BY <1>1, <2>1, SilentKeeps DEF ObeyShutdown
  <1>2. CASE Backoff
    <2>1. /\ UNCHANGED <<queue, dropped, published, lost, command>> /\ TaskLeaves
          /\ socket = "backoff" /\ socket' = "connecting"
      BY <1>2 DEF Backoff
    <2>2. published # 0  BY <1>0, <2>1 DEF CommandInv
    <2>3. SocketStatus' = SocketStatus  BY <2>1, <2>2 DEF SocketStatus
    <2> QED  BY <2>1, <2>3, SilentKeeps
  <1>3. CASE Connect \/ AuthNotSent
    <2>1. /\ UNCHANGED <<queue, dropped, published, lost, command>> /\ TaskLeaves
          /\ socket \in {"connecting", "authenticating"} /\ socket' \in {"connecting", "authenticating"}
      BY <1>3 DEF Connect, AuthNotSent
    <2>2. SocketStatus' = SocketStatus  BY <2>1 DEF SocketStatus
    <2> QED  BY <2>1, <2>2, SilentKeeps
  <1>4. CASE ConnectFails \/ Disconnect
    <2>1. /\ Publish("Reconnecting") /\ TaskLeaves /\ UNCHANGED command
          /\ socket' \in {"connecting", "backoff"}
      BY <1>4 DEF ConnectFails, Disconnect
    <2> QED  BY <2>1, SaidKeeps DEF Kinds
  <1>5. CASE AuthRejected
    BY <1>5, SaidKeeps DEF AuthRejected, Kinds
  <1>6. CASE AuthAccepted
    BY <1>6, SaidKeeps DEF AuthAccepted, Kinds
  <1>7. CASE ReceiveMovement
    BY <1>7, SaidKeeps DEF ReceiveMovement, Kinds, task
  <1> QED  BY <1>1, <1>2, <1>3, <1>4, <1>5, <1>6, <1>7 DEF TaskStep

\* A batch is delivered in its order and shown by its last status.
LEMMA SyncKeeps == ASSUME StreamInv, SyncRealtimeEvents PROVE StreamInv'
  <1> USE DEF StreamInv
  <1>1. /\ shown' = StatusAfter(DrainOrder) /\ delivered' = delivered \o Ids(deferred \o queue)
        /\ told' = told + dropped /\ dropped' = 0 /\ queue' = <<>> /\ deferred' = <<>>
        /\ UNCHANGED <<socket, command, stream, published, lost>>
    BY DEF SyncRealtimeEvents, DrainOrder, ReportDrops, ClientLeaves, task
  <1>2. deferred \in Seq(Events) /\ queue \in Seq(Events) /\ delivered \in Seq(Nat)  BY DEF StreamTypes
  <1>3. Ids(deferred) \in Seq(Nat) /\ Ids(queue) \in Seq(Nat) /\ InHand \in Seq(Nat)  BY InHandIs
  <1>4. Ids(deferred \o queue) = Ids(deferred) \o Ids(queue)  BY <1>2, IdsOfConcat
  <1>5. delivered' = InHand
    <2>1. delivered \o (Ids(deferred) \o Ids(queue)) = delivered \o Ids(deferred) \o Ids(queue)
      BY <1>2, <1>3, HandsAssociate
    <2> QED  BY <1>1, <1>4, <2>1 DEF InHand
  <1>6. InHand' = InHand
    <2>1. Ids(deferred') = <<>> /\ Ids(queue') = <<>>  BY <1>1, IdsOfNone
    <2>2. InHand' = InHand \o <<>> \o <<>>  BY <1>5, <2>1 DEF InHand, Ids
    <2> QED  BY <1>3, <2>2, ConcatEmptySeq
  <1>7. StreamTypes'  BY <1>1, <1>3, <1>5 DEF StreamTypes
  <1>8. NothingIsLost'  BY <1>1, <1>6 DEF NothingIsLost, StreamTypes
  <1>9. CommandInv'  BY <1>1 DEF CommandInv
  <1>10. StatusAfter(DrainOrder)' = shown'
    <2>1. DrainOrder' = <<>>  BY <1>1 DEF DrainOrder
    <2>2. StatusAfter(DrainOrder)' = IF Statuses(<<>>) = {} THEN shown' ELSE <<>>[Max(Statuses(<<>>))].kind
      BY <2>1 DEF StatusAfter, Statuses
    <2> QED  BY <2>2, NoStatuses
  <1>11. SocketStatus' = SocketStatus  BY <1>1 DEF SocketStatus
  <1>12. ShownInv'  BY <1>1, <1>10, <1>11 DEF ShownInv
  <1> QED  BY <1>7, <1>8, <1>9, <1>12

\* An order that waits takes the first event of the channel behind the deferred.
LEMMA WaitKeeps == ASSUME StreamInv, WaitForOrderSignal PROVE StreamInv'
  <1> USE DEF StreamInv
  <1>1. /\ queue # <<>> /\ deferred' = Append(deferred, Head(queue)) /\ queue' = Tail(queue)
        /\ UNCHANGED <<socket, dropped, command, stream, shown, delivered, told, published, lost>>
    BY DEF WaitForOrderSignal, ClientLeaves, task
  <1>2. deferred \in Seq(Events) /\ queue \in Seq(Events) /\ delivered \in Seq(Nat)  BY DEF StreamTypes
  <1>3. /\ Head(queue) \in Events /\ Tail(queue) \in Seq(Events)
        /\ queue = <<Head(queue)>> \o Tail(queue)
    BY <1>1, <1>2, HeadTailProperties, SMT
  <1>4. deferred' \in Seq(Events) /\ deferred' = deferred \o <<Head(queue)>> /\ <<Head(queue)>> \in Seq(Events)
    BY <1>1, <1>2, <1>3, AppendIsConcat
  <1>5. deferred' \o queue' = deferred \o queue
    <2>1. (deferred \o <<Head(queue)>>) \o Tail(queue) = deferred \o (<<Head(queue)>> \o Tail(queue))
      BY <1>2, <1>3, <1>4, ConcatAssociative
    <2> QED  BY <1>1, <1>3, <1>4, <2>1
  <1>6. InHand' = InHand
    <2>1. Ids(deferred') \o Ids(queue') = Ids(deferred) \o Ids(queue)
      <3>1. Ids(deferred' \o queue') = Ids(deferred') \o Ids(queue')
        BY <1>1, <1>3, <1>4, IdsOfConcat
      <3>2. Ids(deferred \o queue) = Ids(deferred) \o Ids(queue)  BY <1>2, IdsOfConcat
      <3> QED  BY <1>5, <3>1, <3>2
    <2>2. /\ Ids(deferred') \in Seq(Nat) /\ Ids(queue') \in Seq(Nat)
          /\ Ids(deferred) \in Seq(Nat) /\ Ids(queue) \in Seq(Nat)
      BY <1>1, <1>2, <1>3, <1>4, IdsAre
    <2>3. delivered \o Ids(deferred') \o Ids(queue') = delivered \o (Ids(deferred') \o Ids(queue'))
      BY <1>2, <2>2, HandsAssociate
    <2>4. delivered \o Ids(deferred) \o Ids(queue) = delivered \o (Ids(deferred) \o Ids(queue))
      BY <1>2, <2>2, HandsAssociate
    <2>5. InHand' = delivered \o Ids(deferred') \o Ids(queue')  BY <1>1 DEF InHand, Ids
    <2> QED  BY <2>1, <2>3, <2>4, <2>5 DEF InHand
  <1>7. StreamTypes'  BY <1>1, <1>3, <1>4 DEF StreamTypes
  <1>8. NothingIsLost'  BY <1>1, <1>6 DEF NothingIsLost
  <1>9. CommandInv'  BY <1>1 DEF CommandInv
  <1>10. StatusAfter(DrainOrder)' = StatusAfter(DrainOrder)
    BY <1>1, <1>5 DEF StatusAfter, Statuses, DrainOrder
  <1>11. SocketStatus' = SocketStatus  BY <1>1 DEF SocketStatus
  <1>12. ShownInv'  BY <1>1, <1>10, <1>11 DEF ShownInv
  <1> QED  BY <1>7, <1>8, <1>9, <1>12

LEMMA StreamInvInit == StreamInit => StreamInv
  <1> SUFFICES ASSUME StreamInit PROVE StreamInv  OBVIOUS
  <1> USE DEF StreamInit
  <1>1. <<>> \in Seq(Events) /\ <<>> \in Seq(Nat)  OBVIOUS
  <1>2. StreamTypes  BY <1>1, FS_EmptySet DEF StreamTypes
  <1>3. InHand = <<>>
    <2>1. InHand = <<>> \o <<>> \o <<>>  BY IdsOfNone DEF InHand
    <2> QED  BY <1>1, <2>1, ConcatEmptySeq
  <1>4. NothingIsLost
    <2>1. Increasing(<<>>)  BY DEF Increasing
    <2>2. ToSet(<<>>) = {} /\ 1..0 = {}  BY DEF ToSet
    <2> QED  BY <1>3, <2>1, <2>2, FS_EmptySet DEF NothingIsLost
  <1>5. CommandInv  BY DEF CommandInv
  <1>6. StatusAfter(DrainOrder) = "Connecting"
    <2>1. DrainOrder = <<>>  BY DEF DrainOrder
    <2> QED  BY <2>1, NoStatuses DEF StatusAfter
  <1>7. SocketStatus = "Connecting"  BY DEF SocketStatus
  <1> QED  BY <1>2, <1>4, <1>5, <1>6, <1>7 DEF StreamInv, ShownInv

LEMMA StreamInvStep == ASSUME StreamInv, [StreamNext]_streamVars PROVE StreamInv'
  <1>1. CASE TaskStep  BY <1>1, TaskKeeps
  <1>2. CASE SyncRealtimeEvents  BY <1>2, SyncKeeps
  <1>3. CASE WaitForOrderSignal  BY <1>3, WaitKeeps
  <1>4. CASE AskShutdown \/ EndShutdown
    <2>1. /\ UNCHANGED <<queue, dropped, deferred, shown, delivered, told, published, lost>>
          /\ stream' # "running" /\ socket' \in {socket, "ended"}
      BY <1>4 DEF AskShutdown, EndShutdown, ClientLeaves, task
    <2>2. StreamTypes'  BY <2>1 DEF StreamInv, StreamTypes
    <2>3. NothingIsLost'  BY <2>1 DEF StreamInv, NothingIsLost, InHand, Ids
    <2>4. CommandInv' /\ ShownInv'  BY <2>1 DEF StreamInv, CommandInv, ShownInv
    <2> QED  BY <2>2, <2>3, <2>4 DEF StreamInv
  <1>5. CASE UNCHANGED streamVars
    <2>1. UNCHANGED <<queue, dropped, deferred, shown, delivered, told, published, lost, stream, socket, command>>
      BY <1>5 DEF streamVars
    <2>2. StreamTypes'  BY <2>1 DEF StreamInv, StreamTypes
    <2>3. NothingIsLost'  BY <2>1 DEF StreamInv, NothingIsLost, InHand, Ids
    <2>4. CommandInv'  BY <2>1 DEF StreamInv, CommandInv
    <2>5. ShownInv'
      BY <2>1 DEF StreamInv, ShownInv, StatusAfter, Statuses, DrainOrder, SocketStatus
    <2> QED  BY <2>2, <2>3, <2>4, <2>5 DEF StreamInv
  <1> QED  BY <1>1, <1>2, <1>3, <1>4, <1>5 DEF StreamNext

\* No event disappears or overtakes another without being counted
\* (publish_realtime_event, drain_realtime_events, wait_for_order_signal).
THEOREM EventsAreAccountedFor == StreamSpec => []NoEventIsLostSilently
  <1>1. StreamInv /\ [StreamNext]_streamVars => StreamInv'  BY StreamInvStep
  <1>2. StreamInv => NoEventIsLostSilently
    BY DEF StreamInv, NothingIsLost, Increasing, InHand, NoEventIsLostSilently
  <1> QED  BY StreamInvInit, <1>1, <1>2, PTL DEF StreamSpec

\* The screen says where the connection is unless it was told that events were
\* dropped (sync_realtime_events).
THEOREM StatusIsCurrent == StreamSpec => []ShownStatusIsCurrentOrExcused
  <1>1. StreamInv /\ [StreamNext]_streamVars => StreamInv'  BY StreamInvStep
  <1>2. StreamInv => ShownStatusIsCurrentOrExcused
    <2> SUFFICES ASSUME StreamInv, stream = "running", queue = <<>>, deferred = <<>>,
                        dropped = 0, told = 0
                 PROVE  shown = SocketStatus
      BY DEF ShownStatusIsCurrentOrExcused
    <2>1. Cardinality(lost) = 0 /\ IsFiniteSet(lost)  BY DEF StreamInv, NothingIsLost, StreamTypes
    <2>2. lost = {}  BY <2>1, FS_EmptySet
    <2>3. StatusAfter(DrainOrder) = SocketStatus  BY <2>2 DEF StreamInv, ShownInv
    <2>4. DrainOrder = <<>>  BY DEF DrainOrder
    <2>5. StatusAfter(DrainOrder) = shown  BY <2>4, NoStatuses DEF StatusAfter
    <2> QED  BY <2>3, <2>5
  <1> QED  BY StreamInvInit, <1>1, <1>2, PTL DEF StreamSpec
-----------------------------------------------------------------------------
(* FrameAssembly: the counters of the expiries                             *)

AssemblySpec == AssemblyInit /\ [][AssemblyNext]_assembly

AllAnswers ==
    [catalogue : SUBSET Series, quotes : UNION {[quoted -> Rows] : quoted \in SUBSET Series},
     stamp : OptionalStamps, since : {0, 1}]

\* What is sent of a part of the catalogue.
Of(count, s) ==
    CASE count = "catalog" -> s
      [] count = "accepted" -> OptionsOf(s)
      [] count = "calls" -> OfSide(OptionsOf(s), "call")
      [] count = "puts" -> OfSide(OptionsOf(s), "put")

\* Of what the strategy trades there is enough.
ChainIsThere ==
    LET count(what) == Cardinality(Of(what, Tradable))
    IN  /\ 100 * count("accepted") >= ChainPercentage * count("catalog")
        /\ count("calls") >= ChainPerSide /\ count("puts") >= ChainPerSide

AssemblyInv ==
    /\ answer \in AllAnswers
    /\ frame.status \in {"none", "refused", "valid"}
    /\ frame.status = "valid" =>
        frame = Assembled /\ InStep(frame) /\ answer # NoAnswer
    /\ choice.result \in {"none", "blocked", "noOption", "chosen"}
    /\ choice.result # "none" => frame.status = "valid"
    /\ choice.result = "chosen" =>
        /\ ChainIsThere
        /\ \E side \in {"call", "put"}, days \in {1, MinTenor, MaxTenor} :
            days >= MinTenor /\ choice.series \in Eligible(side, days, choice.wait)
        /\ choice.wait \in Waits

LEMMA AgeIs ==
    ASSUME NEW stamp \in OptionalStamps
    PROVE  Age(stamp) \in Int
  <1>1. CASE stamp = Unstamped  BY <1>1 DEF Age
  <1>2. CASE stamp # Unstamped
    <2>1. PICK a \in Ages : stamp = {a}  BY <1>2 DEF OptionalStamps
    <2>2. Age(stamp) = CHOOSE b \in stamp : TRUE  BY <1>2 DEF Age
    <2>3. Age(stamp) = a  BY <2>1, <2>2
    <2> QED  BY <2>3, FrameAssumption
  <1> QED  BY <1>1, <1>2

LEMMA QualityCounts ==
    ASSUME NEW s, NEW count \in {"catalog", "accepted", "calls", "puts"}
    PROVE  Quality(s)[count] = Cardinality(Of(count, s))
  BY DEF Quality, Of

\* What the expiries of the strategy add up to is what they have together.
LEMMA TotalIs ==
    ASSUME answer \in AllAnswers, frame = Assembled,
           NEW count \in {"catalog", "accepted", "calls", "puts"}
    PROVE  Total(count) = Cardinality(Of(count, Tradable))
  <1> DEFINE D == {d \in Expiries(answer.catalogue) : InTenor(d)}
             Lasting(d) == {c \in answer.catalogue : c.days = d}
             op(d) == frame.byExpiry[d][count]
             f == [d \in D |-> op(d)]
             part == [d \in D |-> Of(count, Lasting(d))]
             it == CHOOSE g : g = [s \in SUBSET D |->
                        IF s = {} THEN 0
                        ELSE frame.byExpiry[CHOOSE x \in s : TRUE][count] + g[s \ {CHOOSE x \in s : TRUE}]]
  <1>1. answer.catalogue \in SUBSET Series /\ IsFiniteSet(answer.catalogue)
    BY FS_Subset, FrameAssumption DEF AllAnswers
  <1>2. IsFiniteSet(D)
    <2>1. IsFiniteSet(Expiries(answer.catalogue))
      <3> DEFINE days == [c \in answer.catalogue |-> c.days]
      <3>1. days \in Surjection(answer.catalogue, Expiries(answer.catalogue))
        BY DEF Surjection, Expiries
      <3> QED  BY <1>1, <3>1, FS_Surjection
    <2>2. D \in SUBSET Expiries(answer.catalogue)  OBVIOUS
    <2> QED  BY <2>1, <2>2, FS_Subset
  <1>3. DOMAIN frame.byExpiry = Expiries(answer.catalogue)
    BY DEF Assembled, QualityByExpiry
  <1>4. \A d \in D : op(d) = Cardinality(part[d])
    <2> TAKE d \in D
    <2>1. frame.byExpiry[d] = Quality(Lasting(d))  BY DEF Assembled, QualityByExpiry
    <2>2. Quality(Lasting(d))[count] = Cardinality(Of(count, Lasting(d)))
      <3> HIDE DEF Lasting
      <3> QED  BY QualityCounts
    <2> QED  BY <2>1, <2>2
  <1>5. /\ part \in [D -> SUBSET answer.catalogue]
        /\ \A d, e \in D : d # e => part[d] \cap part[e] = {}
    <2>1. \A s : Of(count, s) \subseteq s  BY DEF Of, OptionsOf, OfSide
    <2>2. \A d \in D : part[d] \subseteq Lasting(d)
      <3> HIDE DEF Lasting
      <3> QED  BY <2>1
    <2> HIDE DEF part
    <2>3. \A d \in D : part[d] \in SUBSET answer.catalogue  BY <2>2
    <2>4. part = [d \in D |-> part[d]]  BY DEF part
    <2>5. part \in [D -> SUBSET answer.catalogue]
      <3> HIDE DEF D
      <3> QED  BY <2>3, <2>4
    <2> QED  BY <2>2, <2>5
  <1>6. f \in [D -> Int] /\ \A d \in D : f[d] = Cardinality(part[d])
    <2>1. \A d \in D : f[d] = Cardinality(part[d])  BY <1>4
    <2>2. \A d \in D : Cardinality(part[d]) \in Int
      <3> HIDE DEF part, D
      <3> QED  BY <1>1, <1>5, FS_Subset, FS_CardinalityType
    <2> QED  BY <2>1, <2>2
  <1>7. PICK total \in [SUBSET D -> Int] : Sums(total, D, f)
    <2> HIDE DEF D, f
    <2> QED  BY <1>2, <1>6, SumDefined
  <1>8. Total(count) = it[D]
    BY <1>3 DEF Total, MapThenSumSet, MapThenFoldSet
  <1>9. Sums(it, D, f)
    <2>1. total = [s \in SUBSET D |->
                    IF s = {} THEN 0
                    ELSE frame.byExpiry[CHOOSE x \in s : TRUE][count] + total[s \ {CHOOSE x \in s : TRUE}]]
      <3> HIDE DEF D
      <3> QED  BY <1>7 DEF Sums
    <2>2. it = [s \in SUBSET D |->
                    IF s = {} THEN 0
                    ELSE frame.byExpiry[CHOOSE x \in s : TRUE][count] + it[s \ {CHOOSE x \in s : TRUE}]]
      <3> HIDE DEF D
      <3> QED  BY <2>1
    <2> HIDE DEF it, D
    <2> QED  BY <2>2 DEF Sums
  <1>10. it[D] = Cardinality(Together(part, D))
    <2> HIDE DEF it, D, f, part
    <2>1. \A s \in SUBSET D : it[s] = Cardinality(Together(part, s))
      <3> DEFINE X == answer.catalogue
      <3>1. IsFiniteSet(X) /\ part \in [D -> SUBSET X]  BY <1>1, <1>5
      <3> HIDE DEF X
      <3>2. IsFiniteSet(D) /\ Sums(it, D, f)  BY <1>2, <1>9
      <3>3. \A d, e \in D : d # e => part[d] \cap part[e] = {}  BY <1>5
      <3>4. \A d \in D : f[d] = Cardinality(part[d])  BY <1>6
      <3> QED  BY ONLY <3>1, <3>2, <3>3, <3>4, SumOfParts
    <2>2. D \in SUBSET D  OBVIOUS
    <2> QED  BY <2>1, <2>2
  <1>11. Together(part, D) = Of(count, Tradable)
    <2>1. \A c \in answer.catalogue : InTenor(c.days) <=> MinTenor <= c.days /\ c.days <= MaxTenor
      BY <1>1, FrameAssumption DEF InTenor
    <2>2. \A s, c : c \in Of(count, s) <=> c \in s /\ c \in Of(count, {c})
      BY DEF Of, OptionsOf, OfSide
    <2>3. ASSUME NEW c
          PROVE  c \in Together(part, D) <=> c \in Of(count, Tradable)
      <3>1. c \in Together(part, D) <=> \E d \in D : c \in Lasting(d) /\ c \in Of(count, {c})
        <4>1. c \in Together(part, D) <=> \E d \in D : c \in Of(count, Lasting(d))
          <5>1. \A d \in D : part[d] = Of(count, Lasting(d))  OBVIOUS
          <5> HIDE DEF D, part, Lasting
          <5> QED  BY <5>1 DEF Together
        <4> HIDE DEF D, part, Lasting
        <4> QED  BY <2>2, <4>1
      <3>2. (\E d \in D : c \in Lasting(d)) <=> c \in Tradable
        BY <2>1 DEF Expiries, Tradable
      <3>3. c \in Of(count, Tradable) <=> c \in Tradable /\ c \in Of(count, {c})
        <4> QED  BY <2>2
      <3> HIDE DEF D, part, Lasting
      <3> QED  BY <3>1, <3>2, <3>3
    <2> HIDE DEF D, part
    <2> QED  BY <2>3
  <1> QED  BY <1>8, <1>10, <1>11

LEMMA FrameStays ==
    answer' = answer /\ frame' = frame =>
        /\ Assembled' = Assembled /\ InStep(frame)' = InStep(frame)
        /\ ChainIsThere' = ChainIsThere
        /\ \A side, days, wait : Eligible(side, days, wait)' = Eligible(side, days, wait)
  <1> SUFFICES ASSUME answer' = answer, frame' = frame
               PROVE  /\ Assembled' = Assembled /\ InStep(frame)' = InStep(frame)
                      /\ ChainIsThere' = ChainIsThere
                      /\ \A side, days, wait : Eligible(side, days, wait)' = Eligible(side, days, wait)
    OBVIOUS
  <1>1. Assembled' = Assembled
    BY DEF Assembled, QualityByExpiry, Quality, OptionsOf, Expiries, OfSide, Quoted
  <1>2. InStep(frame)' = InStep(frame)  BY DEF InStep
  <1>3. ChainIsThere' = ChainIsThere
    BY DEF ChainIsThere, Of, Tradable, OptionsOf, OfSide, Quoted
  <1>4. \A side, days, wait : Eligible(side, days, wait)' = Eligible(side, days, wait)
    BY DEF Eligible, OfSide
  <1> QED  BY <1>1, <1>2, <1>3, <1>4

LEMMA AssemblyStarts == AssemblyInit => AssemblyInv
  BY DEF AssemblyInit, AssemblyInv, AllAnswers, NoAnswer, OptionalStamps

LEMMA AssemblyKeeps == ASSUME AssemblyInv, [AssemblyNext]_assembly PROVE AssemblyInv'
  <1>1. CASE Answers
    <2>1. PICK catalogue \in SUBSET Series \ {{}}, stamp \in OptionalStamps, since \in {0, 1} :
            \E quoted \in SUBSET catalogue : \E rows \in [quoted -> Rows] :
                answer' = [catalogue |-> catalogue, quotes |-> rows, stamp |-> stamp, since |-> since]
      BY <1>1 DEF Answers
    <2>2. answer' \in AllAnswers  BY <2>1 DEF AllAnswers
    <2>3. frame' = frame /\ choice' = choice /\ frame.status # "valid"
      BY <1>1 DEF Answers, AssemblyInv
    <2>4. AllAnswers' = AllAnswers  BY DEF AllAnswers, Rows, OptionalStamps
    <2> QED  BY <2>2, <2>3, <2>4 DEF AssemblyInv
  <1>2. CASE ReceiveAnswer
    <2>1. /\ frame.status = "none" /\ answer # NoAnswer /\ answer' = answer /\ choice' = choice
          /\ \/ frame' = Assembled /\ InStep(Assembled)
             \/ frame' = [status |-> "refused"]
      BY <1>2 DEF ReceiveAnswer, Valid
    <2>2. choice.result = "none"  BY <2>1 DEF AssemblyInv
    <2>3. Assembled' = Assembled /\ (frame' = Assembled => InStep(frame)' = InStep(Assembled))
      BY <2>1 DEF Assembled, InStep, QualityByExpiry, Quality, OptionsOf, Expiries, OfSide, Quoted
    <2>4. Assembled.status = "valid"  BY DEF Assembled
    <2> QED  BY <2>1, <2>2, <2>3, <2>4 DEF AssemblyInv
  <1>3. CASE ChooseSeries
    <2>1. frame.status = "valid" /\ answer' = answer /\ frame' = frame  BY <1>3 DEF ChooseSeries
    <2>2. PICK side \in {"call", "put"}, nextSession \in {1, MaxTenor}, wait \in Waits :
            LET eligible == Eligible(side, IF nextSession > MinTenor THEN nextSession ELSE MinTenor, wait)
            IN  choice' \in
                    IF ~AllowsEntryForTenor THEN {[result |-> "blocked"]}
                    ELSE IF eligible = {} THEN {[result |-> "noOption"]}
                    ELSE {[result |-> "chosen", series |-> c, wait |-> wait] : c \in eligible}
      BY <1>3 DEF ChooseSeries
    <2> DEFINE days == IF nextSession > MinTenor THEN nextSession ELSE MinTenor
    <2>3. days \in {1, MinTenor, MaxTenor} /\ days >= MinTenor  BY FrameAssumption
    <2>4. \/ choice' \in {[result |-> "blocked"], [result |-> "noOption"]}
          \/ AllowsEntryForTenor
             /\ \E c \in Eligible(side, days, wait) :
                    choice' = [result |-> "chosen", series |-> c, wait |-> wait]
      BY <2>2
    <2> HIDE DEF days
    <2>5. choice'.result \in {"blocked", "noOption", "chosen"}  BY <2>4
    <2>6. choice'.result = "chosen" =>
            ChainIsThere /\ choice'.series \in Eligible(side, days, choice'.wait) /\ choice'.wait \in Waits
      <3>1. frame = Assembled /\ answer \in AllAnswers  BY <2>1 DEF AssemblyInv
      <3>2. AllowsEntryForTenor => ChainIsThere  BY <3>1, TotalIs DEF AllowsEntryForTenor, ChainIsThere
      <3> QED  BY <2>4, <3>2
    <2> QED  BY <2>1, <2>3, <2>5, <2>6, FrameStays DEF AssemblyInv
  <1>4. CASE UNCHANGED assembly
    <2>1. answer' = answer /\ frame' = frame /\ choice' = choice  BY <1>4 DEF assembly
    <2> QED  BY <2>1, FrameStays DEF AssemblyInv
  <1> QED  BY <1>1, <1>2, <1>3, <1>4 DEF AssemblyNext

LEMMA ChosenFromARealChain == AssemblyInv => EntryHasARealChain
  <1> SUFFICES ASSUME AssemblyInv, choice.result = "chosen" PROVE EntryHasARealChain
    BY DEF EntryHasARealChain
  <1> DEFINE live == {c \in Tradable : Live(c)}
             row == answer.quotes[choice.series]
  <1>1. answer \in AllAnswers /\ frame = Assembled /\ InStep(frame) /\ ChainIsThere
    BY DEF AssemblyInv
  <1>2. live = OptionsOf(Tradable)
    <2>1. ASSUME NEW c \in Tradable, c \in Quoted PROVE Live(c) <=> Acceptable(answer.quotes[c])
      <3>1. answer.quotes[c] \in Rows /\ c \in answer.catalogue
        BY <1>1, <2>1 DEF AllAnswers, Quoted, Tradable
      <3>2. answer.quotes[c].stamp \in OptionalStamps /\ answer.stamp \in OptionalStamps
        BY <1>1, <3>1 DEF Rows, AllAnswers, OptionalStamps
      <3>3. Age(answer.quotes[c].stamp) \in Int /\ Age(answer.stamp) \in Int  BY <3>2, AgeIs
      <3>4. Acceptable(answer.quotes[c]) => c \in frame.options
        BY <1>1, <2>1, <3>1 DEF Assembled, OptionsOf
      <3>5. frame.age = Age(answer.stamp)  BY <1>1 DEF Assembled
      <3>6. Acceptable(answer.quotes[c]) => Age(answer.quotes[c].stamp) <= Age(answer.stamp) + MaxLag
        BY <1>1, <3>4, <3>5 DEF InStep
      <3>7. MaxLag \in Nat  BY FrameAssumption
      <3> QED  BY <2>1, <3>3, <3>6, <3>7 DEF Live, Acceptable, TimesAgree
    <2>2. \A c : Live(c) => c \in Quoted  BY DEF Live
    <2> QED  BY <2>1, <2>2 DEF OptionsOf
  <1>3. /\ 100 * Cardinality(live) >= ChainPercentage * Cardinality(Tradable)
        /\ \A side \in {"call", "put"} : Cardinality({c \in live : c.side = side}) >= ChainPerSide
    <2> HIDE DEF live
    <2> QED  BY <1>1, <1>2 DEF ChainIsThere, Of, OfSide
  <1>4. /\ choice.series \in frame.options /\ MinTenor <= choice.series.days /\ choice.series.days <= MaxTenor
        /\ row.book = "tight" /\ Fresh(row, choice.wait) /\ choice.wait \in Waits
    <2>1. PICK side \in {"call", "put"}, days \in {1, MinTenor, MaxTenor} :
            days >= MinTenor /\ choice.series \in Eligible(side, days, choice.wait)
      BY DEF AssemblyInv
    <2>2. choice.wait \in Waits  BY DEF AssemblyInv
    <2>3. choice.series \in frame.options /\ choice.series.days >= days /\ choice.series.days <= MaxTenor
      BY <2>1 DEF Eligible, OfSide
    <2>4. row.book = "tight" /\ Fresh(row, choice.wait)  BY <2>1 DEF Eligible
    <2>5. choice.series \in Series  BY <1>1, <2>3 DEF Assembled, OptionsOf, AllAnswers
    <2>6. choice.series.days \in Int /\ days \in Int /\ MinTenor \in Int  BY <2>5, FrameAssumption
    <2> QED  BY <2>1, <2>2, <2>3, <2>4, <2>6
  <1>5. choice.series \in live
    BY <1>1, <1>2, <1>4 DEF Assembled, OptionsOf, Tradable
  <1>6. Age(row.stamp) + choice.wait <= QuoteMaxAge
    <2>1. choice.series \in Quoted  BY <1>5 DEF Live
    <2>2. row \in Rows  BY <1>1, <2>1 DEF AllAnswers, Quoted
    <2>3. row.stamp \in OptionalStamps  BY <2>2 DEF Rows, OptionalStamps
    <2> HIDE DEF row
    <2>4. choice.wait \in Int /\ QuoteMaxAge \in Int
      <3>1. choice.wait \in Waits  BY <1>4
      <3>2. QuoteMaxAge \in Int /\ \A w \in Waits : w \in Int  BY FrameAssumption
      <3> QED  BY <3>1, <3>2, Zenon
    <2>5. Age(row.stamp) \in Int  BY <2>3, AgeIs
    <2> QED  BY <1>4, <2>4, <2>5 DEF Fresh
  <1> HIDE DEF live, row
  <1> QED  BY <1>1, <1>3, <1>4, <1>5, <1>6 DEF EntryHasARealChain, live, row

\* EntryHasARealChain of FrameAssembly, whatever a catalogue lists and however
\* the answers are stamped: the counters per expiry that evaluate_entry adds up
\* (app.rs, tenor_totals) are of live quotes the answer holds, and they are of
\* all the series the strategy trades.
THEOREM ChainsAreReal == AssemblySpec => []EntryHasARealChain
  BY AssemblyStarts, AssemblyKeeps, ChosenFromARealChain, PTL DEF AssemblySpec

-----------------------------------------------------------------------------
(* EntrySizing: a quantity that is right for every fill                    *)

-----------------------------------------------------------------------------
(* Products and quotients                                                  *)

LEMMA TimesNat == \A a, b \in Nat : a * b \in Nat  OBVIOUS
LEMMA TimesMore == \A a, b, c \in Nat : a <= b => a * c <= b * c
  <1>1. \A a, d, c \in Nat : (a + d) * c = a * c + d * c  OBVIOUS
  <1>2. \A a, b, c \in Nat : a <= b => b - a \in Nat /\ b = a + (b - a)  OBVIOUS
  <1>3. ASSUME NEW a \in Nat, NEW b \in Nat, NEW c \in Nat, a <= b PROVE a * c <= b * c
    <2> DEFINE d == b - a
    <2>1. d \in Nat /\ b = a + d  BY <1>2, <1>3
    <2> HIDE DEF d
    <2>2. b * c = a * c + d * c  BY <1>1, <2>1
    <2>3. a * c \in Nat /\ d * c \in Nat  BY <2>1, TimesNat
    <2> QED  BY <2>2, <2>3
  <1> QED  BY <1>3
LEMMA TimesLess == \A a, b, c \in Nat : a < b /\ c # 0 => a * c < b * c
  <1>1. \A a, c \in Nat : (a + 1) * c = a * c + c  OBVIOUS
  <1>2. ASSUME NEW a \in Nat, NEW b \in Nat, NEW c \in Nat, a < b, c # 0 PROVE a * c < b * c
    <2>1. a + 1 \in Nat /\ a + 1 <= b  BY <1>2
    <2>2. (a + 1) * c <= b * c  BY <2>1, TimesMore
    <2>3. a * c \in Nat /\ b * c \in Nat  BY TimesNat
    <2> QED  BY <1>1, <1>2, <2>2, <2>3
  <1> QED  BY <1>2
LEMMA Times == \A a, b, c \in Nat : a * b = b * a /\ (a * b) * c = a * (b * c) /\ (a # 0 /\ b # 0 => a * b # 0)
  OBVIOUS
LEMMA Quotient == \A a, q \in Nat, b \in Nat \ {0} : a \div b \in Nat /\ (q <= a \div b => q * b <= a)
  <1>1. ASSUME NEW a \in Nat, NEW b \in Nat \ {0} PROVE a \div b \in Nat /\ (a \div b) * b <= a
    <2>1. a = b * (a \div b) + (a % b) /\ a \div b \in Int /\ a % b \in 0..(b - 1)  OBVIOUS
    <2> DEFINE d == a \div b
               r == a % b
    <2> HIDE DEF d, r
    <2>2. a = b * d + r /\ d \in Int /\ r \in Nat /\ r < b  BY <2>1 DEF d, r
    <2>3. d >= 0
      <3> SUFFICES ASSUME d < 0 PROVE FALSE  BY <2>2
      <3>1. -d \in Nat /\ -d # 0  BY <2>2
      <3>2. PICK k \in Nat : d = -(k + 1)
        <4>1. -d - 1 \in Nat /\ d = -((-d - 1) + 1)  BY <3>1, <2>2
        <4> QED  BY <4>1
      <3>3. b * d = -(b * k + b)  BY <3>2
      <3>4. b * k \in Nat  BY TimesNat
      <3> QED  BY <2>2, <3>3, <3>4
    <2>4. d \in Nat /\ d * b <= a
      <3>1. b * d = d * b /\ d * b \in Nat  BY <2>2, <2>3
      <3> QED  BY <2>2, <2>3, <3>1
    <2> QED  BY <2>4 DEF d
  <1>2. ASSUME NEW a \in Nat, NEW b \in Nat \ {0}, NEW q \in Nat, q <= a \div b PROVE q * b <= a
    <2> DEFINE d == a \div b
    <2>1. d \in Nat /\ d * b <= a /\ q <= d  BY <1>1, <1>2
    <2> HIDE DEF d
    <2>2. q * b <= d * b  BY <2>1, TimesMore
    <2>3. q * b \in Nat /\ d * b \in Nat  BY <2>1, TimesNat
    <2> QED  BY <2>1, <2>2, <2>3
  <1> QED  BY <1>1, <1>2

-----------------------------------------------------------------------------
(* What the stop of a position asks of its size                            *)

\* What a contract loses of its price to fees and slippage, there and back.
Friction(scale, cost, slip) == scale * (scale + cost) - (scale - cost) * (scale - slip)

LEMMA FrictionIsNat ==
    ASSUME NEW S \in Nat, NEW c \in 0..S, NEW s \in 0..S
    PROVE  Friction(S, c, s) \in Nat
  <1>1. /\ S - c \in Nat /\ S - s \in Nat /\ S + c \in Nat /\ S - c <= S /\ S - s <= S + c  OBVIOUS
  <1>2. (S - c) * (S - s) <= S * (S - s)  BY <1>1, TimesMore
  <1>3. (S - s) * S <= (S + c) * S  BY <1>1, TimesMore
  <1>4. S * (S - s) = (S - s) * S /\ S * (S + c) = (S + c) * S  BY <1>1, Times
  <1>5. (S - c) * (S - s) \in Nat /\ S * (S - s) \in Nat /\ S * (S + c) \in Nat  BY <1>1, TimesNat
  <1> DEFINE x == (S - c) * (S - s)
             y == S * (S - s)
             z == S * (S + c)
  <1>6. x \in Nat /\ y \in Nat /\ z \in Nat /\ x <= y /\ y <= z /\ Friction(S, c, s) = z - x
    BY <1>2, <1>3, <1>4, <1>5 DEF Friction
  <1> HIDE DEF x, y, z
  <1> QED  BY <1>6

\* The absolute stop is below the entry exactly if friction takes less than the
\* limit of a trade. w: price times units.
LEMMA AbsoluteBelow ==
    ASSUME NEW S \in Nat \ {0}, NEW c \in 0..(S - 1), NEW s \in 0..(S - 1), NEW l \in Nat, NEW w \in Nat \ {0}
    PROVE  S * S * Most(w * (S + c) - l * S, 0) < w * S * (S - c) * (S - s)
           <=> w * Friction(S, c, s) < l * S * S
  <1> DEFINE a == w * (S + c) - l * S
             b == w * (S - c) * (S - s)
             m == Most(a, 0)
             f == w * Friction(S, c, s)
             n == l * S * S
  <1>1. a \in Int /\ m \in Nat /\ (a > 0 => m = a) /\ (a <= 0 => m = 0)
    <2>1. a \in Int  OBVIOUS
    <2> HIDE DEF a
    <2> QED  BY <2>1 DEF Most
  <1>2. b \in Nat /\ b # 0
    <2>1. S - c \in Nat /\ S - s \in Nat /\ S - c # 0 /\ S - s # 0  OBVIOUS
    <2>2. w * (S - c) \in Nat /\ w * (S - c) # 0  BY <2>1, TimesNat, Times
    <2> QED  BY <2>1, <2>2, TimesNat, Times
  <1>3. f - n = S * a - b  BY DEF Friction
  <1>4. f \in Int /\ n \in Int  BY DEF Friction
  <1>5. w * S * (S - c) * (S - s) = b * S  OBVIOUS
  <1> SUFFICES S * S * m < b * S <=> f < n  BY <1>5
  <1> HIDE DEF a, b, m, f, n
  <1>6. S * S * m = (S * m) * S  BY <1>1
  <1>7. S * m \in Nat /\ (S * m) * S \in Nat /\ b * S \in Nat  BY <1>1, <1>2, TimesNat
  <1>8. S * S * m < b * S <=> S * m < b
    <2>1. S * m < b => (S * m) * S < b * S  BY <1>2, <1>7, TimesLess
    <2>2. b <= S * m => b * S <= (S * m) * S  BY <1>2, <1>7, TimesMore
    <2> QED  BY <1>2, <1>6, <1>7, <2>1, <2>2
  <1>9. CASE a > 0
    <2>1. S * a = S * m  BY <1>1, <1>9
    <2> QED  BY <1>2, <1>3, <1>4, <1>7, <1>8, <2>1
  <1>10. CASE a <= 0
    <2>1. -a \in Nat /\ S * a = -(S * (-a))  BY <1>1, <1>10
    <2>2. S * (-a) \in Nat  BY <2>1, TimesNat
    <2>3. S * m = 0  BY <1>1, <1>10
    <2>4. S * m < b  BY <1>2, <2>3
    <2>5. f < n  BY <1>2, <1>3, <1>4, <2>1, <2>2
    <2> QED  BY <1>8, <2>4, <2>5
  <1> QED  BY <1>1, <1>9, <1>10

\* As many contracts as the loss of one at its stop allows keep friction below
\* the limit too. p: price of the units of one contract.
LEMMA ManyBelow ==
    ASSUME NEW S \in Nat \ {0}, NEW c \in 0..(S - 1), NEW s \in 0..(S - 1), NEW stop \in 1..S,
           NEW l \in Nat, NEW p \in Nat \ {0}, NEW q \in Nat \ {0},
           q * (p * ((S + c) * S * S - (S - stop) * (S - s) * (S - c))) <= l * S * S * S
    PROVE  (p * q) * Friction(S, c, s) < l * S * S
  <1> DEFINE f == Friction(S, c, s)
             rest == stop * ((S - s) * (S - c))
             w == p * q
             limit == l * S * S
             t == (S + c) * S * S - (S - stop) * (S - s) * (S - c)
  <1>1. t = S * f + rest  BY DEF Friction
  <1>2. f \in Nat  BY FrictionIsNat
  <1>3. rest \in Nat /\ rest # 0
    <2>1. S - c \in Nat /\ S - s \in Nat /\ S - c # 0 /\ S - s # 0 /\ stop \in Nat /\ stop # 0  OBVIOUS
    <2>2. (S - s) * (S - c) \in Nat /\ (S - s) * (S - c) # 0  BY <2>1, TimesNat, Times
    <2> QED  BY <2>1, <2>2, TimesNat, Times
  <1>4. w \in Nat /\ w # 0 /\ limit \in Nat  BY TimesNat, Times
  <1>5. w * t <= limit * S  OBVIOUS
  <1> HIDE DEF f, rest, w, limit, t
  <1>6. w * t = (w * f) * S + w * rest  BY <1>1, <1>2, <1>3, <1>4
  <1>7. w * rest \in Nat /\ w * rest # 0 /\ w * f \in Nat /\ (w * f) * S \in Nat /\ limit * S \in Nat
    BY <1>2, <1>3, <1>4, TimesNat, Times
  <1>8. (w * f) * S < limit * S  BY <1>5, <1>6, <1>7
  <1>9. ~(limit <= w * f)
    <2>1. limit <= w * f => limit * S <= (w * f) * S  BY <1>4, <1>7, TimesMore
    <2> QED  BY <1>7, <1>8, <2>1
  <1>10. w * f < limit  BY <1>4, <1>7, <1>9
  <1> QED  BY <1>10 DEF w, f, limit
-----------------------------------------------------------------------------
(* The fill                                                                *)

Offers == [ask : Asks, multiplier : Multipliers, cost : Costs, slip : Slippages,
           stop : StopLosses, tax : Taxes, budget : Budgets, maxLoss : MaxLosses,
           size : Sizes, factor : Factors, funds : Funds, real : BOOLEAN]

\* What is filled has the quantity that was decided; a simulated fill is within
\* the limit, and a real one that cannot be opened is above it.
SizingInv ==
    /\ stage \in {"idle", "offered", "sized", "rejected", "open", "unfilled", "aborted"}
    /\ stage # "idle" => offer \in Offers
    /\ stage = "sized" \/ Filled => quantity = EntryQuantity /\ quantity # 0
    /\ Filled => paid \in Nat \ {0} /\ (~offer.real => paid <= LimitPrice)
    /\ stage = "aborted" => LimitPrice < paid

LEMMA Reduced ==
    ASSUME NEW a \in Nat, NEW f \in Nat \ {0}
    PROVE  a \div f \in Nat /\ a \div f <= a
  <1> DEFINE d == a \div f
  <1>1. d \in Nat /\ d * f <= a  BY Quotient
  <1> HIDE DEF d
  <1>2. 1 * d <= f * d  BY <1>1, TimesMore
  <1>3. f * d = d * f /\ 1 * d = d /\ d * f \in Nat  BY <1>1, Times, TimesNat
  <1>4. d \in Nat /\ d <= a  BY <1>1, <1>2, <1>3
  <1> QED  BY <1>4 DEF d

LEMMA OfferIs ==
    ASSUME offer \in Offers
    PROVE  /\ Scale \in Nat \ {0} /\ offer.cost \in 0..(Scale - 1) /\ offer.slip \in 0..(Scale - 1)
           /\ offer.stop \in 1..Scale /\ offer.tax \in 0..Scale /\ offer.multiplier \in Nat \ {0}
           /\ LimitPrice \in Nat \ {0} /\ MarketPrice \in Nat \ {0} /\ MarketPrice <= LimitPrice
           /\ MaxLoss \in Nat
           /\ MaxSize \in Nat /\ MaxSize <= offer.size /\ offer.size \in Nat
           /\ Budget \in Nat /\ Budget <= MayCost /\ MayCost \in Nat
  <1>1. /\ offer.cost \in Costs /\ offer.slip \in Slippages /\ offer.stop \in StopLosses
        /\ offer.tax \in Taxes /\ offer.multiplier \in Multipliers /\ offer.ask \in Asks
        /\ offer.budget \in Budgets /\ offer.maxLoss \in MaxLosses /\ offer.size \in Sizes
        /\ offer.factor \in Factors /\ offer.funds \in Funds
    BY DEF Offers
  <1>2. /\ Scale \in Nat \ {0} /\ offer.cost \in 0..(Scale - 1) /\ offer.slip \in 0..(Scale - 1)
        /\ offer.stop \in 1..Scale /\ offer.tax \in 0..Scale /\ offer.multiplier \in Nat \ {0}
        /\ offer.ask \in Nat \ {0} /\ offer.budget \in Nat \ {0} /\ offer.maxLoss \in Nat \ {0}
        /\ offer.size \in Nat \ {0} /\ offer.factor \in Nat \ {0} /\ offer.funds \in Nat
    BY <1>1, SizingAssumption
  <1>3. LimitPrice \in Nat \ {0} /\ MarketPrice \in Nat \ {0} /\ MarketPrice <= LimitPrice
    BY <1>2 DEF LimitPrice, MarketPrice
  <1>4. MaxLoss \in Nat  BY <1>2, Reduced DEF MaxLoss
  <1>5. MaxSize \in Nat /\ MaxSize <= offer.size
    <2> DEFINE d == offer.size \div offer.factor
    <2>1. d \in Nat /\ d <= offer.size  BY <1>2, Reduced
    <2> HIDE DEF d
    <2>2. Most(d, 1) \in Nat /\ Most(d, 1) <= offer.size  BY <1>2, <2>1 DEF Most
    <2> QED  BY <2>2 DEF MaxSize, d
  <1>6. Budget \in Nat /\ Budget <= MayCost /\ MayCost \in Nat
    <2> DEFINE d == offer.budget \div offer.factor
    <2>1. d \in Nat /\ d <= offer.budget  BY <1>2, Reduced
    <2>2. Budget = IF offer.real THEN Least(d, offer.funds) ELSE d  BY DEF Budget
    <2> HIDE DEF d
    <2> QED  BY <1>2, <2>1, <2>2 DEF MayCost, Least
  <1> QED  BY <1>2, <1>3, <1>4, <1>5, <1>6

\* What a contract loses of its price at the stop of percentage.
StopLossRate == (Scale + offer.cost) * Scale * Scale
                - (Scale - offer.stop) * (Scale - offer.slip) * (Scale - offer.cost)
OfferFriction == Friction(Scale, offer.cost, offer.slip)
UnitPrice == LimitPrice * offer.multiplier
Limit3 == MaxLoss * Scale * Scale * Scale

LEMMA RiskOfOne ==
    ASSUME offer \in Offers
    PROVE  /\ UnitPrice \in Nat \ {0} /\ Units(1) = offer.multiplier
           /\ UnitPrice * StopLossRate \in Nat \ {0}
           /\ Limit3 \in Nat
           /\ RiskQuantity \in Nat
           /\ RiskQuantity # 0 =>
                /\ EconomicsExist(LimitPrice, 1) /\ MaxLoss # 0 /\ Limit3 # 0
                /\ \A q \in Nat \ {0} :
                    q <= RiskQuantity => q = 1 \/ q * (UnitPrice * StopLossRate) <= Limit3
  <1> DEFINE S == Scale
             c == offer.cost
             s == offer.slip
             stop == offer.stop
             t == StopLossRate
             p == UnitPrice
  <1>1. S \in Nat \ {0} /\ c \in 0..(S - 1) /\ s \in 0..(S - 1) /\ stop \in 1..S /\ MaxLoss \in Nat
    BY OfferIs
  <1>2. p \in Nat \ {0} /\ Units(1) = offer.multiplier
    BY OfferIs, TimesNat, Times DEF Units, UnitPrice
  <1>3. t \in Nat \ {0}
    <2> DEFINE x == S * Friction(S, c, s)
               y == stop * ((S - s) * (S - c))
    <2>1. t = x + y  BY <1>1 DEF Friction, StopLossRate
    <2>2. S - c \in Nat /\ S - s \in Nat /\ S - c # 0 /\ S - s # 0 /\ stop \in Nat /\ stop # 0
      BY <1>1
    <2>3. (S - s) * (S - c) \in Nat /\ (S - s) * (S - c) # 0  BY <2>2, TimesNat, Times
    <2>4. y \in Nat /\ y # 0  BY <2>2, <2>3, TimesNat, Times
    <2>5. x \in Nat
      <3>1. c \in 0..S /\ s \in 0..S  BY <1>1
      <3> QED  BY <1>1, <3>1, FrictionIsNat, TimesNat
    <2> HIDE DEF x, y, t
    <2> QED  BY <2>1, <2>4, <2>5
  <1>4. p * t \in Nat \ {0}
    <2> HIDE DEF p, t
    <2> QED  BY <1>2, <1>3, TimesNat, Times
  <1>5. Limit3 \in Nat /\ (MaxLoss # 0 => Limit3 # 0)
    BY <1>1, TimesNat, Times DEF Limit3
  <1>6. CASE ~EconomicsExist(LimitPrice, 1)
    <2>1. RiskQuantity = 0  BY <1>6 DEF RiskQuantity
    <2> QED  BY <1>2, <1>4, <1>5, <2>1
  <1>7. CASE EconomicsExist(LimitPrice, 1)
    <2> DEFINE loss == MaxNetLoss3(LimitPrice, 1)
    <2>1. MaxLoss # 0 /\ Limit3 # 0  BY <1>1, <1>5, <1>7 DEF EconomicsExist
    <2>2. RiskQuantity = Limit3 \div loss  BY <1>7 DEF RiskQuantity, Limit3
    <2>3. LossAtStop3(LimitPrice, 1) \in {p * t, Limit3}
      BY <1>2 DEF LossAtStop3, UnitPrice, StopLossRate, Limit3
    <2>4. loss = Limit3 \/ loss = p * t
      <3>1. loss = Least(LossAtStop3(LimitPrice, 1), Limit3)  BY DEF MaxNetLoss3, Limit3
      <3> HIDE DEF loss, p, t
      <3> QED  BY <2>3, <3>1 DEF Least
    <2>5. loss \in Nat \ {0}  BY <1>4, <1>5, <2>1, <2>4
    <2>6. RiskQuantity \in Nat  BY <1>5, <2>2, <2>5, Quotient
    <2>7. ASSUME NEW q \in Nat \ {0}, q <= RiskQuantity
          PROVE  q = 1 \/ q * (p * t) <= Limit3
      <3>1. q * loss <= Limit3  BY <1>5, <2>2, <2>5, <2>7, Quotient
      <3>2. CASE loss = Limit3
        <4>1. q * Limit3 <= Limit3  BY <3>1, <3>2
        <4>2. 1 < q => 1 * Limit3 < q * Limit3  BY <1>5, <2>1, TimesLess
        <4>3. q * Limit3 \in Nat  BY <1>5, TimesNat
        <4> QED  BY <1>5, <4>1, <4>2, <4>3
      <3> QED  BY <2>4, <3>1, <3>2
    <2> QED  BY <1>2, <1>4, <1>5, <1>7, <2>1, <2>6, <2>7
  <1> QED  BY <1>6, <1>7

\* What the risk allows keeps the friction at the limit price below the limit of
\* a trade: with the loss of one contract counted, or with one contract only.
LEMMA RiskKeepsFriction ==
    ASSUME offer \in Offers, NEW q \in Nat \ {0}, q <= RiskQuantity
    PROVE  (UnitPrice * q) * OfferFriction < MaxLoss * Scale * Scale
  <1> DEFINE S == Scale
             c == offer.cost
             s == offer.slip
             stop == offer.stop
             l == MaxLoss
             p == UnitPrice
  <1>1. S \in Nat \ {0} /\ c \in 0..(S - 1) /\ s \in 0..(S - 1) /\ stop \in 1..S /\ l \in Nat
    BY OfferIs
  <1>2. p \in Nat \ {0} /\ Units(1) = offer.multiplier  BY RiskOfOne
  <1>3. EconomicsExist(LimitPrice, 1) /\ (q = 1 \/ q * (p * StopLossRate) <= Limit3)
    <2>1. RiskQuantity \in Nat  BY RiskOfOne
    <2>2. RiskQuantity # 0  BY <2>1
    <2> QED  BY <2>2, RiskOfOne
  <1>4. CASE q = 1
    <2> DEFINE A == S * S * Most(p * (S + c) - l * S, 0)
               P == PercentageTrigger(LimitPrice, 1)
               B == p * S * (S - c) * (S - s)
    <2>1. StopPrice(LimitPrice, 1) < EntryTrigger(LimitPrice, 1)  BY <1>3 DEF EconomicsExist
    <2>2. /\ LimitPrice * (S + c) * offer.multiplier = p * (S + c)
          /\ LimitPrice * S * offer.multiplier * (S - c) * (S - s) = B
      BY <1>1, OfferIs DEF UnitPrice
    <2>3. AbsoluteTrigger(LimitPrice, 1) = A /\ EntryTrigger(LimitPrice, 1) = B
      BY <1>2, <2>2 DEF AbsoluteTrigger, EntryTrigger
    <2>4. A \in Int /\ B \in Int
      <3>1. p * (S + c) - l * S \in Int  BY <1>1, <1>2
      <3>2. Most(p * (S + c) - l * S, 0) \in Int  BY <3>1 DEF Most
      <3> QED  BY <1>1, <1>2, <3>2
    <2>5. P \in Int
      <3>1. P = LimitPrice * (S - stop) * offer.multiplier * (S - c) * (S - s)
        BY <1>2 DEF PercentageTrigger
      <3> QED  BY <1>1, <3>1, OfferIs
    <2>6. A < B
      <3>1. Most(P, A) < B  BY <2>1, <2>3 DEF StopPrice
      <3> HIDE DEF A, B, P
      <3> QED  BY <2>4, <2>5, <3>1 DEF Most
    <2> HIDE DEF p
    <2>7. p * Friction(S, c, s) < l * S * S  BY <1>1, <1>2, <2>6, AbsoluteBelow
    <2>8. p * q = p  BY <1>2, <1>4
    <2> QED  BY <2>7, <2>8 DEF p, OfferFriction
  <1>5. CASE q * (p * StopLossRate) <= Limit3
    <2> HIDE DEF p
    <2>1. q * (p * ((S + c) * S * S - (S - stop) * (S - s) * (S - c))) <= l * S * S * S
      BY <1>5 DEF StopLossRate, Limit3
    <2>2. (p * q) * Friction(S, c, s) < l * S * S  BY <1>1, <1>2, <2>1, ManyBelow
    <2> QED  BY <2>2 DEF p, OfferFriction
  <1> QED  BY <1>3, <1>4, <1>5

\* The same factors in another order.
LEMMA Swapped ==
    ASSUME NEW e \in Int, NEW k \in Int, NEW x \in Int, NEW y \in Int, NEW z \in Int
    PROVE  /\ e * x * k = e * k * x
           /\ e * x * k * y * z = e * k * x * y * z
           /\ e * x * k * y * z = e * k * (x * z * y)
           /\ e * x * y * z = (x * (z * y)) * e
           /\ e * (x * z * y) = (x * (z * y)) * e
  OBVIOUS

\* What n contracts at e cost together, before fees.
Outlay(e, n) == e * (n * offer.multiplier)

LEMMA TriggersAre ==
    ASSUME offer \in Offers, NEW q \in Nat, NEW e \in Nat
    PROVE  /\ Outlay(e, q) \in Nat
           /\ AbsoluteTrigger(e, q)
                = Scale * Scale * Most(Outlay(e, q) * (Scale + offer.cost) - MaxLoss * Scale, 0)
           /\ EntryTrigger(e, q) = Outlay(e, q) * Scale * (Scale - offer.cost) * (Scale - offer.slip)
           /\ PercentageTrigger(e, q)
                = Outlay(e, q) * ((Scale - offer.stop) * (Scale - offer.slip) * (Scale - offer.cost))
  <1> DEFINE w == Outlay(e, q)
             S == Scale
             c == offer.cost
             s == offer.slip
             stop == offer.stop
             M == offer.multiplier
  <1>1. /\ S \in Nat \ {0} /\ c \in 0..(S - 1) /\ s \in 0..(S - 1) /\ stop \in 1..S
        /\ M \in Nat \ {0}
    BY OfferIs
  <1>2. q * M \in Nat  BY <1>1, TimesNat
  <1>3. w \in Nat /\ w = e * (q * M)  BY <1>2, TimesNat DEF Outlay
  <1> HIDE DEF w
  <1>4. S + c \in Int /\ S - c \in Int /\ S - s \in Int /\ S - stop \in Int /\ q * M \in Int
    BY <1>1, <1>2
  <1>5. e * (S + c) * (q * M) = w * (S + c)  BY <1>3, <1>4, Swapped
  <1>6. e * S * (q * M) * (S - c) * (S - s) = w * S * (S - c) * (S - s)  BY <1>1, <1>3, <1>4, Swapped
  <1>7. e * (S - stop) * (q * M) * (S - c) * (S - s) = w * ((S - stop) * (S - s) * (S - c))
    BY <1>3, <1>4, Swapped
  <1> QED
    BY <1>3, <1>5, <1>6, <1>7 DEF AbsoluteTrigger, EntryTrigger, PercentageTrigger, Units, w

\* At whatever price: where the percentage of the stop is the higher trigger, it
\* loses no more than the other would, which is the limit.
LEMMA StopKeepsTheLimit ==
    ASSUME offer \in Offers, NEW q \in Nat, NEW e \in Nat
    PROVE  LossAtStop3(e, q) <= Limit3
  <1> DEFINE S == Scale
             c == offer.cost
             s == offer.slip
             stop == offer.stop
             l == MaxLoss
             w == Outlay(e, q)
             a == w * (S + c) - l * S
             A == AbsoluteTrigger(e, q)
             P == PercentageTrigger(e, q)
             rest == (S - stop) * (S - s) * (S - c)
  <1>1. S \in Nat \ {0} /\ c \in 0..(S - 1) /\ s \in 0..(S - 1) /\ stop \in 1..S /\ l \in Nat
    BY OfferIs
  <1>2. w \in Nat /\ A = S * S * Most(a, 0) /\ P = w * rest  BY TriggersAre
  <1>3. Limit3 \in Int /\ Limit3 = l * S * S * S  BY RiskOfOne DEF Limit3
  <1>4. LossAtStop3(e, q) = IF P >= A THEN w * StopLossRate ELSE Limit3
    BY DEF LossAtStop3, Limit3, StopLossRate, Units, Outlay
  <1> HIDE DEF w, A, P
  <1>5. w * StopLossRate = S * S * a + Limit3 - w * rest
    BY <1>1, <1>2, <1>3 DEF StopLossRate
  <1>6. a \in Int /\ w * rest \in Int /\ S * S * a \in Int  BY <1>1, <1>2
  <1> DEFINE u == S * S
             m == Most(a, 0)
  <1>7. u \in Nat  BY <1>1, TimesNat
  <1> HIDE DEF a, rest
  <1>8. m \in Int /\ m >= a  BY <1>6 DEF Most
  <1>9. u * m >= u * a /\ u * m \in Int
    <2> HIDE DEF u, m
    <2>1. m - a \in Nat  BY <1>6, <1>8
    <2>2. u * (m - a) \in Nat  BY <1>7, <2>1, TimesNat
    <2>3. u * (m - a) = u * m - u * a /\ u * m \in Int /\ u * a \in Int  BY <1>6, <1>7, <1>8
    <2> QED  BY <2>2, <2>3
  <1> DEFINE v == S * S * a
  <1>10. v \in Int /\ A \in Int /\ A >= v  BY <1>2, <1>6, <1>9
  <1> HIDE DEF v
  <1>11. w * StopLossRate = v + Limit3 - w * rest  BY <1>5 DEF v
  <1> QED  BY <1>2, <1>3, <1>4, <1>6, <1>10, <1>11

\* A fill within the limit has less friction, so its stop is below its entry; and
\* it costs no more than the limit price would.
LEMMA FillIsRight ==
    ASSUME offer \in Offers, NEW q, q = EntryQuantity, q # 0,
           NEW e \in Nat \ {0}, e <= LimitPrice
    PROVE  /\ q \in Nat /\ EconomicsExist(e, q)
           /\ CashRequired1(e, q) <= MayCost * Scale
           /\ q <= offer.size
  <1> DEFINE S == Scale
             c == offer.cost
             s == offer.slip
             stop == offer.stop
             l == MaxLoss
             M == offer.multiplier
             w == Outlay(e, q)
             bought == LimitPrice * (q * M)
             cash == CashRequired1(LimitPrice, 1)
  <1>1. /\ S \in Nat \ {0} /\ c \in 0..(S - 1) /\ s \in 0..(S - 1) /\ stop \in 1..S /\ l \in Nat
        /\ M \in Nat \ {0} /\ LimitPrice \in Nat \ {0}
        /\ Budget \in Nat /\ Budget <= MayCost /\ MayCost \in Nat
        /\ MaxSize \in Nat /\ MaxSize <= offer.size /\ offer.size \in Nat
    BY OfferIs
  <1>2. cash = UnitPrice * (S + c) /\ cash \in Nat \ {0}
    <2>1. cash = UnitPrice * (S + c)  BY RiskOfOne DEF CashRequired1, UnitPrice
    <2>2. S + c \in Nat \ {0}  BY <1>1
    <2> QED  BY <2>1, <2>2, RiskOfOne, TimesNat, Times
  <1>3. q \in Nat \ {0} /\ q <= RiskQuantity /\ q <= MaxSize /\ q <= (Budget * S) \div cash
    <2> DEFINE d == (Budget * S) \div cash
    <2>1. d \in Nat  BY <1>1, <1>2, TimesNat, Quotient
    <2>2. q = Least(Least(d, MaxSize), RiskQuantity)  BY DEF EntryQuantity, CashQuantity
    <2>3. RiskQuantity \in Nat  BY RiskOfOne
    <2> HIDE DEF d
    <2>4. q \in Nat /\ q <= RiskQuantity /\ q <= MaxSize /\ q <= d
      BY <1>1, <2>1, <2>2, <2>3 DEF Least
    <2> QED  BY <2>4 DEF d
  <1>4. q * M \in Nat \ {0} /\ w \in Nat \ {0} /\ bought \in Nat /\ w <= bought
    <2>1. q * M \in Nat \ {0}  BY <1>1, <1>3, TimesNat, Times
    <2>2. w \in Nat \ {0} /\ bought \in Nat  BY <1>1, <2>1, TimesNat, Times DEF Outlay
    <2>3. w <= bought  BY <1>1, <2>1, TimesMore DEF Outlay
    <2> QED  BY <2>1, <2>2, <2>3
  <1>5. bought = UnitPrice * q
    BY <1>1, <1>3, Times DEF UnitPrice
  <1>6. w * OfferFriction < l * S * S
    <2>1. bought * OfferFriction < l * S * S  BY <1>3, <1>5, RiskKeepsFriction
    <2>2. OfferFriction \in Nat
      <3>1. c \in 0..S /\ s \in 0..S  BY <1>1
      <3> QED  BY <1>1, <3>1, FrictionIsNat DEF OfferFriction
    <2> HIDE DEF w, bought
    <2>3. w * OfferFriction <= bought * OfferFriction  BY <1>4, <2>2, TimesMore
    <2>4. w * OfferFriction \in Nat /\ bought * OfferFriction \in Nat /\ l * S * S \in Nat
      BY <1>1, <1>4, <2>2, TimesNat
    <2> QED  BY <2>1, <2>3, <2>4
  <1> DEFINE a == w * (S + c) - l * S
             A == S * S * Most(a, 0)
             P == PercentageTrigger(e, q)
             rest == (S - stop) * (S - s) * (S - c)
             B == w * S * (S - c) * (S - s)
  <1>7. AbsoluteTrigger(e, q) = A /\ EntryTrigger(e, q) = B /\ P = w * rest
    BY <1>3, TriggersAre
  <1>8. A < B
    <2> HIDE DEF w
    <2> QED  BY <1>1, <1>4, <1>6, AbsoluteBelow DEF OfferFriction
  <1>9. A \in Int /\ B \in Int /\ P \in Int
    <2> HIDE DEF w
    <2>1. a \in Int /\ B \in Int /\ w * rest \in Int  BY <1>1, <1>4
    <2> HIDE DEF a, B, rest
    <2>2. Most(a, 0) \in Int  BY <2>1 DEF Most
    <2> QED  BY <1>1, <1>7, <2>1, <2>2
  <1>10. P < B
    <2> DEFINE g == (S - s) * (S - c)
    <2>1. S - c \in Nat \ {0} /\ S - s \in Nat \ {0} /\ S - stop \in Nat /\ S - stop < S  BY <1>1
    <2>2. g \in Nat \ {0}  BY <2>1, TimesNat, Times
    <2>3. B = (S * g) * w /\ w * rest = ((S - stop) * g) * w
      <3> HIDE DEF w
      <3>1. w \in Int /\ S \in Int /\ S - c \in Int /\ S - s \in Int /\ S - stop \in Int
        BY <1>1, <1>4
      <3> QED  BY <3>1, Swapped
    <2> HIDE DEF g, w
    <2>4. (S - stop) * g < S * g  BY <1>1, <2>1, <2>2, TimesLess
    <2>5. (S - stop) * g \in Nat /\ S * g \in Nat  BY <1>1, <2>1, <2>2, TimesNat
    <2>6. ((S - stop) * g) * w < (S * g) * w  BY <1>4, <2>4, <2>5, TimesLess
    <2> QED  BY <1>7, <2>3, <2>6
  <1>11. EconomicsExist(e, q)
    <2> HIDE DEF A, B, P
    <2>1. StopPrice(e, q) < EntryTrigger(e, q)
      <3>1. StopPrice(e, q) = Most(P, A)  BY <1>7 DEF StopPrice, P
      <3> QED  BY <1>7, <1>8, <1>9, <1>10, <3>1 DEF Most
    <2>2. RiskQuantity # 0
      <3>1. RiskQuantity \in Nat  BY RiskOfOne
      <3> QED  BY <1>3, <3>1
    <2> QED  BY <2>1, <2>2, RiskOfOne DEF EconomicsExist
  <1>12. CashRequired1(e, q) <= MayCost * S
    <2> DEFINE funds == MayCost
    <2> HIDE DEF w, bought, cash, funds
    <2>1. CashRequired1(e, q) = w * (S + c)  BY DEF CashRequired1, Units, w, Outlay
    <2>2. S + c \in Nat  BY <1>1
    <2>3. w * (S + c) <= bought * (S + c)  BY <1>4, <2>2, TimesMore
    <2>4. bought * (S + c) = q * cash  BY <1>2, <1>3, <1>5, <2>2, RiskOfOne
    <2>5. q * cash <= Budget * S  BY <1>1, <1>2, <1>3, TimesNat, Quotient
    <2>6. Budget * S <= funds * S  BY <1>1, TimesMore DEF funds
    <2>7. /\ w * (S + c) \in Nat /\ q * cash \in Nat /\ Budget * S \in Nat /\ funds * S \in Nat
      BY <1>1, <1>2, <1>3, <1>4, <2>2, TimesNat DEF funds
    <2> QED  BY <2>1, <2>3, <2>4, <2>5, <2>6, <2>7 DEF funds
  <1>13. q <= offer.size  BY <1>1, <1>3
  <1> QED  BY <1>3, <1>11, <1>12, <1>13

LEMMA TermsStay ==
    offer' = offer => EntryQuantity' = EntryQuantity /\ Offers' = Offers /\ LimitPrice' = LimitPrice
  BY DEF EntryQuantity, Offers, LimitPrice, CashQuantity, RiskQuantity, EconomicsExist,
         Budget, CashRequired1, MaxSize, MaxLoss, MaxNetLoss3, LossAtStop3, StopPrice,
         PercentageTrigger, AbsoluteTrigger, EntryTrigger, Units

LEMMA SizingStarts == SizingInit => SizingInv
  BY DEF SizingInit, SizingInv, Filled

LEMMA SizingKeeps == ASSUME SizingInv, [SizingNext]_sizing PROVE SizingInv'
  <1>1. CASE Offer
    <2>1. stage' = "offered" /\ offer' \in Offers  BY <1>1 DEF Offer, Offers
    <2>2. Offers' = Offers  BY DEF Offers
    <2> QED  BY <2>1, <2>2 DEF SizingInv, Filled
  <1>2. CASE SizeEntry
    <2>1. /\ stage = "offered" /\ quantity' = EntryQuantity /\ offer' = offer
          /\ stage' = IF quantity' = 0 THEN "rejected" ELSE "sized"
      BY <1>2 DEF SizeEntry
    <2>2. EntryQuantity' = EntryQuantity /\ Offers' = Offers  BY <2>1, TermsStay
    <2> QED  BY <2>1, <2>2 DEF SizingInv, Filled
  <1>3. ASSUME stage = "sized", UNCHANGED <<offer, quantity>>,
               NEW price \in Nat \ {0}, OpenAt(price), offer.real \/ price <= LimitPrice
        PROVE  SizingInv'
    <2>1. /\ paid' = price
          /\ stage' = IF EconomicsExist(price, quantity) THEN "open" ELSE "aborted"
      BY <1>3 DEF OpenAt
    <2>2. offer \in Offers /\ quantity = EntryQuantity /\ quantity # 0  BY <1>3 DEF SizingInv
    <2>3. LimitPrice \in Nat \ {0}  BY <2>2, OfferIs
    <2>4. price <= LimitPrice => EconomicsExist(price, quantity)  BY <2>2, FillIsRight
    <2>5. EntryQuantity' = EntryQuantity /\ Offers' = Offers /\ LimitPrice' = LimitPrice
      BY <1>3, TermsStay
    <2>6. stage' = "aborted" => LimitPrice < paid'  BY <2>1, <2>3, <2>4
    <2> QED  BY <1>3, <2>1, <2>2, <2>5, <2>6 DEF SizingInv, Filled
  <1>4. CASE FillSimulated
    <2>1. /\ stage = "sized" /\ ~offer.real /\ UNCHANGED <<offer, quantity>>
          /\ offer \in Offers
      BY <1>4 DEF FillSimulated, SizingInv
    <2>2. PICK price \in {p \in Prices : p >= MarketPrice} :
            IF price <= LimitPrice THEN OpenAt(price) ELSE stage' = "unfilled" /\ UNCHANGED paid
      BY <1>4 DEF FillSimulated
    <2>3. price \in Nat \ {0}  BY SizingAssumption
    <2>4. CASE price <= LimitPrice  BY <1>3, <2>1, <2>2, <2>3, <2>4
    <2>5. CASE ~(price <= LimitPrice)
      <3>1. stage' = "unfilled"  BY <2>2, <2>5
      <3>2. Offers' = Offers  BY DEF Offers
      <3> QED  BY <2>1, <3>1, <3>2 DEF SizingInv, Filled
    <2> QED  BY <2>4, <2>5
  <1>5. CASE FillReal
    <2>1. stage = "sized" /\ offer.real /\ UNCHANGED <<offer, quantity>>  BY <1>5 DEF FillReal
    <2>2. PICK price \in Prices : OpenAt(price)  BY <1>5 DEF FillReal
    <2>3. price \in Nat \ {0}  BY SizingAssumption
    <2> QED  BY <1>3, <2>1, <2>2, <2>3
  <1>6. CASE UNCHANGED sizing
    <2>1. stage' = stage /\ offer' = offer /\ quantity' = quantity /\ paid' = paid
      BY <1>6 DEF sizing
    <2>2. EntryQuantity' = EntryQuantity /\ Offers' = Offers /\ LimitPrice' = LimitPrice
      BY <2>1, TermsStay
    <2> QED  BY <2>1, <2>2 DEF SizingInv, Filled
  <1> QED  BY <1>1, <1>2, <1>4, <1>5, <1>6 DEF SizingNext

\* FillsKeepTheLimits of EntrySizing, for every scale of the rates and every
\* price, rate and limit: at whatever price a position opens, its stop loses no
\* more than the limit of a trade; and whatever fill its order allows, simulated
\* or real up to the limit sent, opens a position that cost no more than the
\* budget and, of real money, the funds (evaluate_entry in app.rs,
\* build_position_economics in trading.rs).  That a real fill is one the order
\* allows is not shown: it does not hold (ExecutionsMatchTheirOrder).
THEOREM FillsAreRight == SizingSpec => []FillsKeepTheLimits
  <1>1. SizingInv => FillsKeepTheLimits
    <2> SUFFICES ASSUME SizingInv PROVE FillsKeepTheLimits  OBVIOUS
    <2>1. ASSUME Filled
          PROVE  /\ offer \in Offers /\ quantity = EntryQuantity /\ quantity # 0
                 /\ paid \in Nat \ {0} /\ (~offer.real => paid <= LimitPrice)
      BY <2>1 DEF SizingInv, Filled
    <2>2. ASSUME stage = "open"
          PROVE  LossAtStop3(paid, quantity) <= MaxLoss * Scale * Scale * Scale
      <3>1. offer \in Offers /\ quantity = EntryQuantity /\ quantity # 0 /\ paid \in Nat
        BY <2>1, <2>2 DEF Filled
      <3>2. quantity \in Nat
        <4>1. offer.cost \in 0..(Scale - 1) /\ LimitPrice \in Nat \ {0}  BY <3>1, OfferIs
        <4>2. LimitPrice <= LimitPrice  BY <4>1
        <4> QED  BY <3>1, <4>1, <4>2, FillIsRight
      <3> QED  BY <3>1, <3>2, StopKeepsTheLimit DEF Limit3
    <2>3. ASSUME Filled, offer.real => paid <= LimitPrice
          PROVE  stage = "open" /\ CostsNoMoreThanAllowed /\ quantity <= offer.size
      <3>1. /\ offer \in Offers /\ quantity = EntryQuantity /\ quantity # 0
            /\ paid \in Nat \ {0} /\ paid <= LimitPrice /\ LimitPrice \in Nat \ {0}
        BY <2>1, <2>3, OfferIs
      <3>2. stage # "aborted"  BY <3>1 DEF SizingInv
      <3> QED  BY <2>3, <3>1, <3>2, FillIsRight DEF Filled, CostsNoMoreThanAllowed
    <2> QED  BY <2>2, <2>3 DEF FillsKeepTheLimits
  <1> QED  BY <1>1, SizingStarts, SizingKeeps, PTL DEF SizingSpec
-----------------------------------------------------------------------------
(* EvidenceGate: what the bootstrap sees of an even number of sessions     *)

\* The bytes of the generator.
Bytes == [1..8 -> Nat]

\* A function with a value for each number has one for the next.
Iterated(g, times, S, f, first) ==
    g \in [0..times -> S] /\ g[0] = first /\ \A i \in 1..times : g[i] = f[g[i - 1]]
LEMMA Iterates ==
    ASSUME NEW S, NEW f \in [S -> S], NEW first \in S, NEW times \in Nat
    PROVE  \E g : Iterated(g, times, S, f, first)
  <1> DEFINE Done(n) == \E g \in [0..n -> S] : g[0] = first /\ \A i \in 1..n : g[i] = f[g[i - 1]]
             N == {n \in Nat : Done(n)}
  <1>1. Done(0)
    <2> DEFINE g == [i \in 0..0 |-> first]
    <2>1. g \in [0..0 -> S] /\ g[0] = first /\ \A i \in 1..0 : g[i] = f[g[i - 1]]  OBVIOUS
    <2> HIDE DEF g
    <2> QED  BY <2>1
  <1>2. ASSUME NEW n \in Nat, Done(n) PROVE Done(n + 1)
    <2>1. PICK g \in [0..n -> S] : g[0] = first /\ \A i \in 1..n : g[i] = f[g[i - 1]]  BY <1>2
    <2> DEFINE h == [i \in 0..(n + 1) |-> IF i = n + 1 THEN f[g[n]] ELSE g[i]]
    <2>2. g[n] \in S /\ f[g[n]] \in S  OBVIOUS
    <2>3. h \in [0..(n + 1) -> S]
      <3> SUFFICES ASSUME NEW i \in 0..(n + 1) PROVE (IF i = n + 1 THEN f[g[n]] ELSE g[i]) \in S
        OBVIOUS
      <3>1. i # n + 1 => i \in 0..n  OBVIOUS
      <3> QED  BY <2>2, <3>1
    <2>4. h[0] = first  BY <2>1
    <2>5. ASSUME NEW i \in 1..(n + 1) PROVE h[i] = f[h[i - 1]]
      <3>1. CASE i = n + 1
        <4>1. i \in 0..(n + 1) /\ n \in 0..(n + 1) /\ i - 1 = n /\ n # n + 1  BY <3>1
        <4> QED  BY <3>1, <4>1
      <3>2. CASE i # n + 1
        <4>1. i \in 1..n /\ i \in 0..(n + 1) /\ i - 1 \in 0..(n + 1) /\ i - 1 # n + 1  BY <3>2
        <4> QED  BY <2>1, <3>2, <4>1
      <3> QED  BY <3>1, <3>2
    <2> HIDE DEF h
    <2> QED  BY <2>3, <2>4, <2>5
  <1> HIDE DEF Done
  <1>3. N \in SUBSET Nat /\ 0 \in N /\ \A n \in N : n + 1 \in N  BY <1>1, <1>2
  <1>4. N = Nat
    <2> HIDE DEF N
    <2> QED  BY <1>3, Induction
  <1> QED  BY <1>4 DEF Done, Iterated

\* Two that go on alike end alike.
GoAlike(g, h, n) == g[0] = h[0] /\ \A i \in 1..n : g[i - 1] = h[i - 1] => g[i] = h[i]
LEMMA EndAlike == ASSUME NEW n \in Nat, NEW g, NEW h, GoAlike(g, h, n) PROVE g[n] = h[n]
  <1> DEFINE N == {i \in Nat : i <= n => g[i] = h[i]}
  <1>1. 0 \in N  BY DEF GoAlike
  <1>2. ASSUME NEW i \in N PROVE i + 1 \in N
    <2> SUFFICES ASSUME i + 1 <= n PROVE g[i + 1] = h[i + 1]  OBVIOUS
    <2>1. i + 1 \in 1..n /\ (i + 1) - 1 = i /\ i <= n  OBVIOUS
    <2>2. g[i] = h[i]  BY <2>1
    <2> QED  BY <2>1, <2>2 DEF GoAlike
  <1>3. N = Nat
    <2> HIDE DEF N
    <2>1. N \in SUBSET Nat  BY DEF N
    <2> QED  BY <1>1, <1>2, <2>1, Induction
  <1> QED  BY <1>3

-----------------------------------------------------------------------------
(* One step of the generator                                               *)

\* A column of the product is a number, the lowest is of the lowest bytes.
ColumnOf(s, k) == MapThenSumSet(LAMBDA i : Multiplier[i] * s[k + 1 - i], 1..k)

LEMMA ColumnIs ==
    ASSUME NEW s \in Bytes, NEW k \in 1..8
    PROVE  ColumnOf(s, k) \in Int /\ (k = 1 => ColumnOf(s, k) = 45 * s[1])
  <1> DEFINE S == 1..k
             f == [i \in S |-> Multiplier[i] * s[k + 1 - i]]
             it == CHOOSE g : g = [t \in SUBSET S |->
                        IF t = {} THEN 0
                        ELSE Multiplier[CHOOSE x \in t : TRUE] * s[k + 1 - (CHOOSE x \in t : TRUE)]
                                + g[t \ {CHOOSE x \in t : TRUE}]]
  <1>1. \A i \in 1..8 : Multiplier[i] \in Int /\ Multiplier[1] = 45  BY DEF Multiplier
  <1>2. f \in [S -> Int]
    <2> SUFFICES ASSUME NEW i \in S PROVE Multiplier[i] * s[k + 1 - i] \in Int  OBVIOUS
    <2>1. i \in 1..8 /\ k + 1 - i \in 1..8  OBVIOUS
    <2>2. s[k + 1 - i] \in Int  BY <2>1 DEF Bytes
    <2> QED  BY <1>1, <2>1, <2>2
  <1>3. IsFiniteSet(S)  BY IntervalFinite
  <1>4. PICK total \in [SUBSET S -> Int] : Sums(total, S, f)
    <2> HIDE DEF S, f
    <2> QED  BY <1>2, <1>3, SumDefined
  <1>5. total = [t \in SUBSET S |->
                        IF t = {} THEN 0
                        ELSE Multiplier[CHOOSE x \in t : TRUE] * s[k + 1 - (CHOOSE x \in t : TRUE)]
                                + total[t \ {CHOOSE x \in t : TRUE}]]
    <2>1. \A t \in SUBSET S : t # {} => f[CHOOSE x \in t : TRUE] =
                Multiplier[CHOOSE x \in t : TRUE] * s[k + 1 - (CHOOSE x \in t : TRUE)]
      <3> SUFFICES ASSUME NEW t \in SUBSET S, t # {}
                   PROVE  f[CHOOSE x \in t : TRUE] =
                            Multiplier[CHOOSE x \in t : TRUE] * s[k + 1 - (CHOOSE x \in t : TRUE)]
        OBVIOUS
      <3>1. PICK x \in t : x = CHOOSE y \in t : TRUE  OBVIOUS
      <3>2. f[x] = Multiplier[x] * s[k + 1 - x]  OBVIOUS
      <3> HIDE DEF f
      <3> QED  BY <3>1, <3>2
    <2>2. total = [t \in SUBSET S |-> IF t = {} THEN 0
                        ELSE f[CHOOSE x \in t : TRUE] + total[t \ {CHOOSE x \in t : TRUE}]]
      <3> HIDE DEF S, f
      <3> QED  BY <1>4 DEF Sums
    <2> HIDE DEF f, S
    <2> QED  BY <2>1, <2>2
  <1>6. it = [t \in SUBSET S |->
                        IF t = {} THEN 0
                        ELSE Multiplier[CHOOSE x \in t : TRUE] * s[k + 1 - (CHOOSE x \in t : TRUE)]
                                + it[t \ {CHOOSE x \in t : TRUE}]]
    <2> HIDE DEF S
    <2> QED  BY <1>5
  <1>7. ColumnOf(s, k) = it[S]  BY DEF ColumnOf, MapThenSumSet, MapThenFoldSet
  <1>8. Sums(it, S, f)
    <2>1. \A t \in SUBSET S : t # {} => f[CHOOSE x \in t : TRUE] =
                Multiplier[CHOOSE x \in t : TRUE] * s[k + 1 - (CHOOSE x \in t : TRUE)]
      <3> SUFFICES ASSUME NEW t \in SUBSET S, t # {}
                   PROVE  f[CHOOSE x \in t : TRUE] =
                            Multiplier[CHOOSE x \in t : TRUE] * s[k + 1 - (CHOOSE x \in t : TRUE)]
        OBVIOUS
      <3>1. PICK x \in t : x = CHOOSE y \in t : TRUE  OBVIOUS
      <3>2. f[x] = Multiplier[x] * s[k + 1 - x]  OBVIOUS
      <3> HIDE DEF f
      <3> QED  BY <3>1, <3>2
    <2> HIDE DEF it, f, S
    <2> QED  BY <1>6, <2>1 DEF Sums
  <1>9. it[S] \in Int
    <2> HIDE DEF it, f, S
    <2>1. total[S] = it[S]  BY <1>3, <1>4, <1>8, SumSame
    <2> QED  BY <2>1
  <1>10. ASSUME k = 1 PROVE it[S] = 45 * s[1]
    <2>1. S = {1}  BY <1>10
    <2>2. s[1] \in Nat  BY DEF Bytes
    <2>3. (CHOOSE x \in {1} : TRUE) = 1  OBVIOUS
    <2>4. it[{1}] = Multiplier[1] * s[k + 1 - 1] + it[{}]
      <3> HIDE DEF it, S
      <3>1. {1} \in SUBSET S /\ {1} # {} /\ {1} \ {1} = {}  BY <2>1
      <3> QED  BY <1>6, <2>3, <3>1
    <2>5. it[{}] = 0
      <3> HIDE DEF it
      <3> QED  BY <1>6
    <2> HIDE DEF it
    <2>6. k + 1 - 1 = 1  BY <1>10
    <2> QED  BY <1>1, <2>1, <2>2, <2>4, <2>5, <2>6
  <1> HIDE DEF it
  <1> QED  BY <1>7, <1>9, <1>10

\* The lowest byte goes its own way.
LEMMA NextStateIs ==
    ASSUME NEW s \in Bytes
    PROVE  NextState(s) \in Bytes /\ NextState(s)[1] = (45 * s[1] + 1) % 256
  <1> DEFINE Unfolds(h) == h = [k \in 1..8 |->
                        ColumnOf(s, k) + (IF k = 1 THEN 1 ELSE h[k - 1] \div 256)]
             it == CHOOSE h : Unfolds(h)
             t1 == ColumnOf(s, 1) + 1
             t2 == ColumnOf(s, 2) + (t1 \div 256)
             t3 == ColumnOf(s, 3) + (t2 \div 256)
             t4 == ColumnOf(s, 4) + (t3 \div 256)
             t5 == ColumnOf(s, 5) + (t4 \div 256)
             t6 == ColumnOf(s, 6) + (t5 \div 256)
             t7 == ColumnOf(s, 7) + (t6 \div 256)
             t8 == ColumnOf(s, 8) + (t7 \div 256)
             g == [k \in 1..8 |-> IF k = 1 THEN t1 ELSE IF k = 2 THEN t2 ELSE IF k = 3 THEN t3
                                  ELSE IF k = 4 THEN t4 ELSE IF k = 5 THEN t5 ELSE IF k = 6 THEN t6
                                  ELSE IF k = 7 THEN t7 ELSE t8]
  <1>1. NextState(s) = [k \in 1..8 |-> it[k] % 256]  BY DEF NextState, ColumnOf
  <1>2. g = [k \in 1..8 |-> ColumnOf(s, k) + (IF k = 1 THEN 1 ELSE g[k - 1] \div 256)]
    <2> SUFFICES ASSUME NEW k \in 1..8
                 PROVE  g[k] = ColumnOf(s, k) + (IF k = 1 THEN 1 ELSE g[k - 1] \div 256)
      OBVIOUS
    <2>1. /\ g[1] = t1 /\ g[2] = t2 /\ g[3] = t3 /\ g[4] = t4
          /\ g[5] = t5 /\ g[6] = t6 /\ g[7] = t7 /\ g[8] = t8
      <3> HIDE DEF t1, t2, t3, t4, t5, t6, t7, t8
      <3> QED  OBVIOUS
    <2> HIDE DEF g
    <2>2. k \in {1, 2, 3, 4, 5, 6, 7, 8}  OBVIOUS
    <2>3. CASE k = 1  BY <2>1, <2>3
    <2>4. CASE k = 2  BY <2>1, <2>4
    <2>5. CASE k = 3  BY <2>1, <2>5
    <2>6. CASE k = 4  BY <2>1, <2>6
    <2>7. CASE k = 5  BY <2>1, <2>7
    <2>8. CASE k = 6  BY <2>1, <2>8
    <2>9. CASE k = 7  BY <2>1, <2>9
    <2>10. CASE k = 8  BY <2>1, <2>10
    <2> QED  BY <2>2, <2>3, <2>4, <2>5, <2>6, <2>7, <2>8, <2>9, <2>10
  <1>3. it = [k \in 1..8 |-> ColumnOf(s, k) + (IF k = 1 THEN 1 ELSE it[k - 1] \div 256)]
    <2>1. Unfolds(g)
      <3> HIDE DEF g
      <3> QED  BY <1>2
    <2> HIDE DEF Unfolds, g
    <2>2. Unfolds(it)  BY <2>1
    <2> HIDE DEF it
    <2> QED  BY <2>2 DEF Unfolds
  <1> HIDE DEF it, g
  <1>4. \A k \in 1..8 : ColumnOf(s, k) \in Int  BY ColumnIs
  <1>5. it[1] = ColumnOf(s, 1) + 1 /\ it[1] \in Int  BY <1>3, <1>4
  <1>6. ASSUME NEW k \in 1..7, it[k] \in Int PROVE it[k + 1] \in Int
    <2>1. k + 1 \in 1..8 /\ k + 1 # 1 /\ (k + 1) - 1 = k  OBVIOUS
    <2>2. it[k + 1] = ColumnOf(s, k + 1) + (it[k] \div 256)  BY <1>3, <2>1
    <2>3. it[k] \div 256 \in Int  BY <1>6
    <2> QED  BY <1>4, <2>1, <2>2, <2>3
  <1>7. \A k \in 1..8 : it[k] \in Int
    <2>1. it[2] \in Int  BY <1>5, <1>6
    <2>2. it[3] \in Int  BY <1>6, <2>1
    <2>3. it[4] \in Int  BY <1>6, <2>2
    <2>4. it[5] \in Int  BY <1>6, <2>3
    <2>5. it[6] \in Int  BY <1>6, <2>4
    <2>6. it[7] \in Int  BY <1>6, <2>5
    <2>7. it[8] \in Int  BY <1>6, <2>6
    <2>8. \A k \in 1..8 : k \in {1, 2, 3, 4, 5, 6, 7, 8}  OBVIOUS
    <2> QED  BY <1>5, <2>1, <2>2, <2>3, <2>4, <2>5, <2>6, <2>7, <2>8
  <1>8. \A k \in 1..8 : it[k] % 256 \in Nat  BY <1>7
  <1>9. ColumnOf(s, 1) = 45 * s[1]  BY ColumnIs
  <1> QED  BY <1>1, <1>5, <1>8, <1>9 DEF Bytes

\* What is left of the number by a divisor of 256 is left of its lowest byte.
LEMMA RemainderIs ==
    ASSUME NEW s \in Bytes, NEW n \in {2, 4, 8, 16, 32, 64}
    PROVE  Remainder(s, n) = s[1] % n
  <1> DEFINE Unfolds(g) == g = [i \in 0..8 |-> IF i = 0 THEN 0 ELSE (256 * g[i - 1] + s[9 - i]) % n]
             it == CHOOSE g : Unfolds(g)
             f == [i \in 0..8 |-> IF i = 0 THEN 0 ELSE s[9 - i] % n]
  <1>1. ASSUME NEW x \in Int, NEW y \in Int PROVE (256 * x + y) % n = y % n /\ y % n \in Int
    <2>1. CASE n = 2  BY <2>1
    <2>2. CASE n = 4  BY <2>2
    <2>3. CASE n = 8  BY <2>3
    <2>4. CASE n = 16  BY <2>4
    <2>5. CASE n = 32  BY <2>5
    <2>6. CASE n = 64  BY <2>6
    <2> QED  BY <2>1, <2>2, <2>3, <2>4, <2>5, <2>6
  <1>2. \A i \in 1..8 : s[9 - i] \in Int
    <2>1. \A i \in 1..8 : 9 - i \in 1..8  OBVIOUS
    <2> QED  BY <2>1 DEF Bytes
  <1>3. \A i \in 0..8 : f[i] \in Int  BY <1>1, <1>2
  <1>4. f = [i \in 0..8 |-> IF i = 0 THEN 0 ELSE (256 * f[i - 1] + s[9 - i]) % n]
    <2> SUFFICES ASSUME NEW i \in 1..8 PROVE f[i] = (256 * f[i - 1] + s[9 - i]) % n
      OBVIOUS
    <2>1. f[i] = s[9 - i] % n  OBVIOUS
    <2>2. i - 1 \in 0..8  OBVIOUS
    <2> HIDE DEF f
    <2>3. f[i - 1] \in Int /\ s[9 - i] \in Int  BY <1>2, <1>3, <2>2
    <2>4. (256 * f[i - 1] + s[9 - i]) % n = s[9 - i] % n  BY <1>1, <2>3
    <2> QED  BY <2>1, <2>4
  <1>5. it = [i \in 0..8 |-> IF i = 0 THEN 0 ELSE (256 * it[i - 1] + s[9 - i]) % n]
    <2>1. Unfolds(f)  BY <1>4
    <2> HIDE DEF f, Unfolds
    <2>2. Unfolds(it)  BY <2>1
    <2> QED  BY <2>2 DEF Unfolds
  <1>6. GoAlike(it, f, 8)
    <2>1. it[0] = 0 /\ f[0] = 0
      <3> HIDE DEF it
      <3> QED  BY <1>5
    <2>2. ASSUME NEW i \in 1..8, it[i - 1] = f[i - 1] PROVE it[i] = f[i]
      <3>1. i \in 0..8 /\ i # 0  OBVIOUS
      <3> HIDE DEF it, f
      <3>2. it[i] = (256 * it[i - 1] + s[9 - i]) % n  BY <1>5, <3>1
      <3>3. f[i] = (256 * f[i - 1] + s[9 - i]) % n  BY <1>4, <3>1
      <3> QED  BY <2>2, <3>2, <3>3
    <2> QED  BY <2>1, <2>2 DEF GoAlike
  <1>7. Remainder(s, n) = it[8]  BY DEF Remainder
  <1>8. f[8] = s[1] % n  OBVIOUS
  <1> HIDE DEF it, f
  <1>9. it[8] = f[8]
    <2> DEFINE m == 8
    <2>1. m \in Nat /\ GoAlike(it, f, m)  BY <1>6
    <2> HIDE DEF m
    <2>2. it[m] = f[m]  BY <2>1, EndAlike
    <2> QED  BY <2>2 DEF m
  <1> QED  BY <1>7, <1>8, <1>9

LEMMA Divided ==
    ASSUME NEW a \in Int, NEW n \in Nat \ {0}
    PROVE  a \div n \in Int /\ a % n \in Int /\ a = n * (a \div n) + (a % n)
  OBVIOUS

\* An even divisor leaves an odd number of odd numbers.
LEMMA ParityStays ==
    ASSUME NEW h \in Nat \ {0}, NEW a \in Int
    PROVE  a % (2 * h) \in Int /\ (a % (2 * h)) % 2 = a % 2
  <1> DEFINE n == 2 * h
             d == a \div n
             r == a % n
             k == h * d
  <1>1. n \in Nat \ {0} /\ n = 2 * h  OBVIOUS
  <1>2. d \in Int /\ r \in Int /\ a = n * d + r
    <2> HIDE DEF n
    <2> QED  BY <1>1, Divided
  <1> HIDE DEF n, d, r
  <1>3. k \in Int /\ n * d = 2 * k  BY <1>1, <1>2
  <1> HIDE DEF k
  <1>4. a = 2 * k + r  BY <1>2, <1>3
  <1>5. r % 2 = a % 2  BY <1>2, <1>3, <1>4
  <1> QED  BY <1>2, <1>5 DEF n, r

LEMMA ParityOfRemainder ==
    ASSUME NEW s \in Bytes, NEW h \in Nat \ {0}, NEW n, n = 2 * h
    PROVE  Remainder(s, n) \in Int /\ Remainder(s, n) % 2 = s[1] % 2
  <1> DEFINE Unfolds(g) == g = [i \in 0..8 |-> IF i = 0 THEN 0 ELSE (256 * g[i - 1] + s[9 - i]) % n]
             it == CHOOSE g : Unfolds(g)
             r1 == (256 * 0 + s[8]) % n
             r2 == (256 * r1 + s[7]) % n
             r3 == (256 * r2 + s[6]) % n
             r4 == (256 * r3 + s[5]) % n
             r5 == (256 * r4 + s[4]) % n
             r6 == (256 * r5 + s[3]) % n
             r7 == (256 * r6 + s[2]) % n
             r8 == (256 * r7 + s[1]) % n
             f == [i \in 0..8 |-> IF i = 0 THEN 0 ELSE IF i = 1 THEN r1 ELSE IF i = 2 THEN r2
                                  ELSE IF i = 3 THEN r3 ELSE IF i = 4 THEN r4 ELSE IF i = 5 THEN r5
                                  ELSE IF i = 6 THEN r6 ELSE IF i = 7 THEN r7 ELSE r8]
  <1>1. ASSUME NEW i \in 1..8 PROVE f[i] = (256 * f[i - 1] + s[9 - i]) % n
    <2>1. /\ f[0] = 0 /\ f[1] = r1 /\ f[2] = r2 /\ f[3] = r3 /\ f[4] = r4
          /\ f[5] = r5 /\ f[6] = r6 /\ f[7] = r7 /\ f[8] = r8
      <3> HIDE DEF r1, r2, r3, r4, r5, r6, r7, r8
      <3> QED  OBVIOUS
    <2> HIDE DEF f
    <2>2. i \in {1, 2, 3, 4, 5, 6, 7, 8}  OBVIOUS
    <2>3. CASE i = 1  BY <2>1, <2>3
    <2>4. CASE i = 2  BY <2>1, <2>4
    <2>5. CASE i = 3  BY <2>1, <2>5
    <2>6. CASE i = 4  BY <2>1, <2>6
    <2>7. CASE i = 5  BY <2>1, <2>7
    <2>8. CASE i = 6  BY <2>1, <2>8
    <2>9. CASE i = 7  BY <2>1, <2>9
    <2>10. CASE i = 8  BY <2>1, <2>10
    <2> QED  BY <2>2, <2>3, <2>4, <2>5, <2>6, <2>7, <2>8, <2>9, <2>10
  <1>2. f = [i \in 0..8 |-> IF i = 0 THEN 0 ELSE (256 * f[i - 1] + s[9 - i]) % n]
    <2>1. f = [i \in 0..8 |-> f[i]] /\ f[0] = 0
      <3> HIDE DEF r1, r2, r3, r4, r5, r6, r7, r8
      <3> QED  OBVIOUS
    <2> HIDE DEF f
    <2> QED  BY <1>1, <2>1
  <1> HIDE DEF f
  <1>3. it = [i \in 0..8 |-> IF i = 0 THEN 0 ELSE (256 * it[i - 1] + s[9 - i]) % n]
    <2>1. Unfolds(f)  BY <1>2
    <2> HIDE DEF Unfolds
    <2>2. Unfolds(it)  BY <2>1
    <2> HIDE DEF it
    <2> QED  BY <2>2 DEF Unfolds
  <1>4. Remainder(s, n) = it[8]  BY DEF Remainder
  <1> HIDE DEF it
  <1>5. ASSUME NEW i \in 0..7, it[i] \in Int
        PROVE  it[i + 1] \in Int /\ it[i + 1] % 2 = s[8 - i] % 2
    <2> DEFINE a == 256 * it[i] + s[8 - i]
    <2>1. i + 1 \in 0..8 /\ i + 1 # 0 /\ (i + 1) - 1 = i /\ 9 - (i + 1) = 8 - i /\ 8 - i \in 1..8  OBVIOUS
    <2>2. it[i + 1] = a % n  BY <1>3, <2>1
    <2>3. s[8 - i] \in Int  BY <2>1 DEF Bytes
    <2>4. a \in Int /\ a % 2 = s[8 - i] % 2  BY <1>5, <2>3
    <2> HIDE DEF a
    <2>5. a % (2 * h) \in Int /\ (a % (2 * h)) % 2 = a % 2  BY <2>4, ParityStays
    <2> QED  BY <2>2, <2>4, <2>5
  <1>6. it[0] \in Int  BY <1>3
  <1>7. it[1] \in Int  BY <1>5, <1>6
  <1>8. it[2] \in Int  BY <1>5, <1>7
  <1>9. it[3] \in Int  BY <1>5, <1>8
  <1>10. it[4] \in Int  BY <1>5, <1>9
  <1>11. it[5] \in Int  BY <1>5, <1>10
  <1>12. it[6] \in Int  BY <1>5, <1>11
  <1>13. it[7] \in Int  BY <1>5, <1>12
  <1>14. it[8] \in Int /\ it[8] % 2 = s[1] % 2  BY <1>5, <1>13
  <1> QED  BY <1>4, <1>14

\* With any even number of sessions, one draw in two takes a session with an even
\* place and the other one with an odd place: a resample is half of each, so that
\* what differs between the halves is not drawn by chance (block_bootstrap_lower_95).
THEOREM EvenDrawsAlternate ==
    ASSUME NEW s \in Bytes, NEW h \in Nat \ {0}, NEW n, n = 2 * h
    PROVE  Remainder(NextState(s), n) % 2 # Remainder(s, n) % 2
  <1> DEFINE next == NextState(s)
             low == s[1]
             after == next[1]
  <1>1. next \in Bytes /\ after = (45 * low + 1) % 256 /\ low \in Nat  BY NextStateIs DEF Bytes
  <1>2. Remainder(next, n) % 2 = after % 2
    <2> HIDE DEF next
    <2> QED  BY <1>1, ParityOfRemainder DEF next
  <1>3. Remainder(s, n) % 2 = low % 2  BY ParityOfRemainder
  <1> HIDE DEF next, low, after
  <1>4. after % 2 # low % 2  BY <1>1
  <1> QED  BY <1>2, <1>3, <1>4 DEF next

-----------------------------------------------------------------------------
(* As many draws as sessions, when that is a power of two                  *)

Powers == {2, 4, 8, 16, 32, 64}
Halves == {1, 2, 4, 8, 16, 32}

\* The lowest bytes of n draws.
LowBytes(b, n) == b \in [0..n -> Nat] /\ \A i \in 1..n : b[i] = (45 * b[i - 1] + 1) % 256

\* What d draws do to it.
Jumps(b, n, d, a, c) == \A i \in 0..n : i + d <= n => b[i + d] = (a * b[i] + c) % 256

\* After half as many draws as the divisor has remainders, the other half.
Halfway(b, n, d) == \A i \in 0..n : i + d <= n => b[i + d] % (2 * d) = (b[i] + d) % (2 * d)

\* Twice as many do this.
Doubles(d, a, c, e, a2, c2) ==
    e = d + d /\ \A x \in Nat : (a * ((a * x + c) % 256) + c) % 256 = (a2 * x + c2) % 256

LEMMA JumpTwice ==
    ASSUME NEW n \in Nat, NEW b \in [0..n -> Nat], NEW d \in Nat, NEW a \in Nat, NEW c \in Nat,
           NEW e \in Nat, NEW a2 \in Nat, NEW c2 \in Nat, Jumps(b, n, d, a, c), Doubles(d, a, c, e, a2, c2)
    PROVE  Jumps(b, n, e, a2, c2)
  <1> SUFFICES ASSUME NEW i \in 0..n, i + e <= n
               PROVE  b[i + e] = (a2 * b[i] + c2) % 256
    BY DEF Jumps
  <1>1. i + d \in 0..n /\ i + d <= n /\ (i + d) + d <= n /\ (i + d) + d = i + e  BY DEF Doubles
  <1>2. b[i + d] = (a * b[i] + c) % 256 /\ b[i + e] = (a * b[i + d] + c) % 256
    BY <1>1 DEF Jumps
  <1>3. b[i] \in Nat  OBVIOUS
  <1> QED  BY <1>2, <1>3 DEF Doubles

LEMMA HalfwayIs ==
    ASSUME NEW n \in Nat, NEW b, LowBytes(b, n)
    PROVE  \A d \in Halves : Halfway(b, n, d)
  <1>0. b \in [0..n -> Nat]  BY DEF LowBytes
  <1>1. Jumps(b, n, 1, 45, 1)
    <2> SUFFICES ASSUME NEW i \in 0..n, i + 1 <= n PROVE b[i + 1] = (45 * b[i] + 1) % 256
      BY DEF Jumps
    <2>1. i + 1 \in 1..n /\ (i + 1) - 1 = i  OBVIOUS
    <2> QED  BY <2>1 DEF LowBytes
  <1>2. Jumps(b, n, 2, 233, 46)
    <2> DEFINE d == 1 a == 45 c == 1 e == 2 a2 == 233 c2 == 46
    <2>1. Doubles(d, a, c, e, a2, c2)  BY DEF Doubles
    <2>2. Jumps(b, n, d, a, c) /\ {d, a, c, e, a2, c2} \subseteq Nat  BY <1>1
    <2> HIDE DEF d, a, c, e, a2, c2
    <2>3. Jumps(b, n, e, a2, c2)  BY <1>0, <2>1, <2>2, JumpTwice
    <2> QED  BY <2>3 DEF e, a2, c2
  <1>3. Jumps(b, n, 4, 17, 12)
    <2> DEFINE d == 2 a == 233 c == 46 e == 4 a2 == 17 c2 == 12
    <2>1. Doubles(d, a, c, e, a2, c2)  BY DEF Doubles
    <2>2. Jumps(b, n, d, a, c) /\ {d, a, c, e, a2, c2} \subseteq Nat  BY <1>2
    <2> HIDE DEF d, a, c, e, a2, c2
    <2>3. Jumps(b, n, e, a2, c2)  BY <1>0, <2>1, <2>2, JumpTwice
    <2> QED  BY <2>3 DEF e, a2, c2
  <1>4. Jumps(b, n, 8, 33, 216)
    <2> DEFINE d == 4 a == 17 c == 12 e == 8 a2 == 33 c2 == 216
    <2>1. Doubles(d, a, c, e, a2, c2)  BY DEF Doubles
    <2>2. Jumps(b, n, d, a, c) /\ {d, a, c, e, a2, c2} \subseteq Nat  BY <1>3
    <2> HIDE DEF d, a, c, e, a2, c2
    <2>3. Jumps(b, n, e, a2, c2)  BY <1>0, <2>1, <2>2, JumpTwice
    <2> QED  BY <2>3 DEF e, a2, c2
  <1>5. Jumps(b, n, 16, 65, 176)
    <2> DEFINE d == 8 a == 33 c == 216 e == 16 a2 == 65 c2 == 176
    <2>1. Doubles(d, a, c, e, a2, c2)  BY DEF Doubles
    <2>2. Jumps(b, n, d, a, c) /\ {d, a, c, e, a2, c2} \subseteq Nat  BY <1>4
    <2> HIDE DEF d, a, c, e, a2, c2
    <2>3. Jumps(b, n, e, a2, c2)  BY <1>0, <2>1, <2>2, JumpTwice
    <2> QED  BY <2>3 DEF e, a2, c2
  <1>6. Jumps(b, n, 32, 129, 96)
    <2> DEFINE d == 16 a == 65 c == 176 e == 32 a2 == 129 c2 == 96
    <2>1. Doubles(d, a, c, e, a2, c2)  BY DEF Doubles
    <2>2. Jumps(b, n, d, a, c) /\ {d, a, c, e, a2, c2} \subseteq Nat  BY <1>5
    <2> HIDE DEF d, a, c, e, a2, c2
    <2>3. Jumps(b, n, e, a2, c2)  BY <1>0, <2>1, <2>2, JumpTwice
    <2> QED  BY <2>3 DEF e, a2, c2
  <1>7. Halfway(b, n, 1)
    <2>1. \A x \in Nat : ((45 * x + 1) % 256) % 2 = (x + 1) % 2  OBVIOUS
    <2> SUFFICES ASSUME NEW i \in 0..n, i + 1 <= n PROVE b[i + 1] % 2 = (b[i] + 1) % 2
      BY DEF Halfway
    <2>2. b[i + 1] = (45 * b[i] + 1) % 256 /\ b[i] \in Nat  BY <1>0, <1>1 DEF Jumps
    <2> QED  BY <2>1, <2>2
  <1>8. Halfway(b, n, 2)
    <2>1. \A x \in Nat : ((233 * x + 46) % 256) % 4 = (x + 2) % 4  OBVIOUS
    <2> SUFFICES ASSUME NEW i \in 0..n, i + 2 <= n PROVE b[i + 2] % 4 = (b[i] + 2) % 4
      BY DEF Halfway
    <2>2. b[i + 2] = (233 * b[i] + 46) % 256 /\ b[i] \in Nat  BY <1>0, <1>2 DEF Jumps
    <2> QED  BY <2>1, <2>2
  <1>9. Halfway(b, n, 4)
    <2>1. \A x \in Nat : ((17 * x + 12) % 256) % 8 = (x + 4) % 8  OBVIOUS
    <2> SUFFICES ASSUME NEW i \in 0..n, i + 4 <= n PROVE b[i + 4] % 8 = (b[i] + 4) % 8
      BY DEF Halfway
    <2>2. b[i + 4] = (17 * b[i] + 12) % 256 /\ b[i] \in Nat  BY <1>0, <1>3 DEF Jumps
    <2> QED  BY <2>1, <2>2
  <1>10. Halfway(b, n, 8)
    <2>1. \A x \in Nat : ((33 * x + 216) % 256) % 16 = (x + 8) % 16  OBVIOUS
    <2> SUFFICES ASSUME NEW i \in 0..n, i + 8 <= n PROVE b[i + 8] % 16 = (b[i] + 8) % 16
      BY DEF Halfway
    <2>2. b[i + 8] = (33 * b[i] + 216) % 256 /\ b[i] \in Nat  BY <1>0, <1>4 DEF Jumps
    <2> QED  BY <2>1, <2>2
  <1>11. Halfway(b, n, 16)
    <2>1. \A x \in Nat : ((65 * x + 176) % 256) % 32 = (x + 16) % 32  OBVIOUS
    <2> SUFFICES ASSUME NEW i \in 0..n, i + 16 <= n PROVE b[i + 16] % 32 = (b[i] + 16) % 32
      BY DEF Halfway
    <2>2. b[i + 16] = (65 * b[i] + 176) % 256 /\ b[i] \in Nat  BY <1>0, <1>5 DEF Jumps
    <2> QED  BY <2>1, <2>2
  <1>12. Halfway(b, n, 32)
    <2>1. \A x \in Nat : ((129 * x + 96) % 256) % 64 = (x + 32) % 64  OBVIOUS
    <2> SUFFICES ASSUME NEW i \in 0..n, i + 32 <= n PROVE b[i + 32] % 64 = (b[i] + 32) % 64
      BY DEF Halfway
    <2>2. b[i + 32] = (129 * b[i] + 96) % 256 /\ b[i] \in Nat  BY <1>0, <1>6 DEF Jumps
    <2> QED  BY <2>1, <2>2
  <1> QED  BY <1>7, <1>8, <1>9, <1>10, <1>11, <1>12 DEF Halves

LEMMA HalfFacts ==
    ASSUME NEW d \in Halves, NEW x \in Nat, NEW y \in Nat
    PROVE  /\ x % (2 * d) = y % (2 * d) => x % d = y % d
           /\ x % (2 * d) = (y + d) % (2 * d) => x % d = y % d
           /\ x % (2 * d) # (x + d) % (2 * d)
           /\ \A t \in 0..(2 * d - 1) : x % d = t % d => x % (2 * d) = t \/ (x + d) % (2 * d) = t
  <1>1. x % (2 * d) = y % (2 * d) => x % d = y % d
    <2>1. CASE d = 1  BY <2>1
    <2>2. CASE d = 2  BY <2>2
    <2>3. CASE d = 4  BY <2>3
    <2>4. CASE d = 8  BY <2>4
    <2>5. CASE d = 16  BY <2>5
    <2>6. CASE d = 32  BY <2>6
    <2> QED  BY <2>1, <2>2, <2>3, <2>4, <2>5, <2>6 DEF Halves
  <1>2. x % (2 * d) = (y + d) % (2 * d) => x % d = y % d
    <2>1. CASE d = 1  BY <2>1
    <2>2. CASE d = 2  BY <2>2
    <2>3. CASE d = 4  BY <2>3
    <2>4. CASE d = 8  BY <2>4
    <2>5. CASE d = 16  BY <2>5
    <2>6. CASE d = 32  BY <2>6
    <2> QED  BY <2>1, <2>2, <2>3, <2>4, <2>5, <2>6 DEF Halves
  <1>3. x % (2 * d) # (x + d) % (2 * d)
    <2>1. CASE d = 1  BY <2>1
    <2>2. CASE d = 2  BY <2>2
    <2>3. CASE d = 4  BY <2>3
    <2>4. CASE d = 8  BY <2>4
    <2>5. CASE d = 16  BY <2>5
    <2>6. CASE d = 32  BY <2>6
    <2> QED  BY <2>1, <2>2, <2>3, <2>4, <2>5, <2>6 DEF Halves
  <1>4. \A t \in 0..(2 * d - 1) : x % d = t % d => x % (2 * d) = t \/ (x + d) % (2 * d) = t
    <2>1. CASE d = 1  BY <2>1
    <2>2. CASE d = 2  BY <2>2
    <2>3. CASE d = 4  BY <2>3
    <2>4. CASE d = 8  BY <2>4
    <2>5. CASE d = 16  BY <2>5
    <2>6. CASE d = 32  BY <2>6
    <2> QED  BY <2>1, <2>2, <2>3, <2>4, <2>5, <2>6 DEF Halves
  <1> QED  BY <1>1, <1>2, <1>3, <1>4

\* Of d draws in a row no two leave the same, and each remainder is left once.
Different(b, n, d) == \A i, j \in 0..n : i < j /\ j < i + d => b[i] % d # b[j] % d
Reached(b, n, d) ==
    \A i \in 0..n, t \in 0..(d - 1) : i + d <= n + 1 => \E j \in 0..n : i <= j /\ j < i + d /\ b[j] % d = t

LEMMA TwiceAsMany ==
    ASSUME NEW n \in Nat, NEW b \in [0..n -> Nat], NEW d \in Halves,
           Halfway(b, n, d), Different(b, n, d), Reached(b, n, d)
    PROVE  Different(b, n, 2 * d) /\ Reached(b, n, 2 * d)
  <1>0. d \in Nat /\ d > 0 /\ \A i \in 0..n : b[i] \in Nat  BY DEF Halves
  <1>1. ASSUME NEW i \in 0..n, NEW j \in 0..n, i < j, j < i + 2 * d, b[i] % (2 * d) = b[j] % (2 * d)
        PROVE  FALSE
    <2>1. b[i] % d = b[j] % d  BY <1>0, <1>1, HalfFacts
    <2>2. j >= i + d  BY <1>0, <1>1, <2>1 DEF Different
    <2> DEFINE m == j - d
    <2>3. m \in 0..n /\ i <= m /\ m < i + d /\ m + d = j /\ m + d <= n  BY <1>0, <1>1, <2>2
    <2> HIDE DEF m
    <2>4. b[j] % (2 * d) = (b[m] + d) % (2 * d)  BY <2>3 DEF Halfway
    <2>5. b[j] % d = b[m] % d  BY <1>0, <2>3, <2>4, HalfFacts
    <2>6. i = m  BY <1>0, <2>1, <2>3, <2>5 DEF Different
    <2>7. b[i] % (2 * d) = (b[i] + d) % (2 * d)  BY <1>1, <2>4, <2>6
    <2> QED  BY <1>0, <2>7, HalfFacts
  <1>2. ASSUME NEW i \in 0..n, NEW t \in 0..(2 * d - 1), i + 2 * d <= n + 1
        PROVE  \E j \in 0..n : i <= j /\ j < i + 2 * d /\ b[j] % (2 * d) = t
    <2>1. t % d \in 0..(d - 1)
      <3>1. t \in Nat  BY <1>0
      <3> QED  BY <1>0, <3>1
    <2>2. PICK j \in 0..n : i <= j /\ j < i + d /\ b[j] % d = t % d
      <3>1. i + d <= n + 1  BY <1>0, <1>2
      <3> QED  BY <2>1, <3>1 DEF Reached
    <2>3. b[j] % (2 * d) = t \/ (b[j] + d) % (2 * d) = t  BY <1>0, <2>2, HalfFacts
    <2>4. j < i + 2 * d /\ j + d \in 0..n /\ i <= j + d /\ j + d < i + 2 * d /\ j + d <= n
      BY <1>0, <1>2, <2>2
    <2>5. b[j + d] % (2 * d) = (b[j] + d) % (2 * d)  BY <2>2, <2>4 DEF Halfway
    <2> QED  BY <2>2, <2>3, <2>4, <2>5
  <1>3. Different(b, n, 2 * d)  BY <1>1 DEF Different
  <1>4. Reached(b, n, 2 * d)  BY <1>2 DEF Reached
  <1> QED  BY <1>3, <1>4

\* So as many draws as a power of two leave each remainder once.
LEMMA EachOnce ==
    ASSUME NEW n \in Powers, NEW b, LowBytes(b, n)
    PROVE  Different(b, n, n) /\ Reached(b, n, n)
  <1> DEFINE Both(d) == Different(b, n, d) /\ Reached(b, n, d)
  <1>1. n \in Nat /\ b \in [0..n -> Nat]  BY DEF Powers, LowBytes
  <1>2. Both(1)
    <2>1. Different(b, n, 1)  BY <1>1 DEF Different
    <2>2. \A i \in 0..n : b[i] % 1 = 0  BY <1>1
    <2>3. Reached(b, n, 1)
      <3> SUFFICES ASSUME NEW i \in 0..n, NEW t \in 0..(1 - 1), i + 1 <= n + 1
                   PROVE  \E j \in 0..n : i <= j /\ j < i + 1 /\ b[j] % 1 = t
        BY DEF Reached
      <3>1. i <= i /\ i < i + 1 /\ t = 0  OBVIOUS
      <3> QED  BY <2>2, <3>1
    <2> QED  BY <2>1, <2>3
  <1>3. ASSUME NEW d \in Halves, Both(d) PROVE Both(2 * d)
    <2>1. Halfway(b, n, d)  BY <1>1, HalfwayIs
    <2> QED  BY <1>1, <1>3, <2>1, TwiceAsMany
  <1> HIDE DEF Both
  <1>4. Both(2 * 1)  BY <1>2, <1>3 DEF Halves
  <1>5. Both(2 * 2)  BY <1>3, <1>4 DEF Halves
  <1>6. Both(2 * 4)  BY <1>3, <1>5 DEF Halves
  <1>7. Both(2 * 8)  BY <1>3, <1>6 DEF Halves
  <1>8. Both(2 * 16)  BY <1>3, <1>7 DEF Halves
  <1>9. Both(2 * 32)  BY <1>3, <1>8 DEF Halves
  <1>10. Both(n)  BY <1>4, <1>5, <1>6, <1>7, <1>8, <1>9 DEF Powers
  <1> QED  BY <1>10 DEF Both
-----------------------------------------------------------------------------
(* One resample                                                            *)

Draws(n) == [state : Bytes, drawn : [1..n -> Nat]]

LEMMA DrawIs ==
    ASSUME NEW n \in Powers, NEW d \in Draws(n)
    PROVE  /\ Draw(d) \in Draws(n)
           /\ Draw(d).state[1] = (45 * d.state[1] + 1) % 256
           /\ \A x \in 1..n : Draw(d).drawn[x] = IF Draw(d).state[1] % n = x - 1 THEN d.drawn[x] + 1
                                                ELSE d.drawn[x]
  <1> DEFINE state == NextState(d.state)
             low == state[1]
             block == 1 + Remainder(state, Len(d.drawn))
             drawn == [d.drawn EXCEPT ![block] = @ + 1]
  <1>1. d.state \in Bytes /\ d.drawn \in [1..n -> Nat]  BY DEF Draws
  <1>2. n \in Nat /\ n > 1  BY DEF Powers
  <1>3. state \in Bytes /\ low = (45 * d.state[1] + 1) % 256  BY <1>1, NextStateIs
  <1>4. Len(d.drawn) = n  BY <1>1, <1>2
  <1> HIDE DEF state
  <1>5. low \in Nat  BY <1>3 DEF Bytes
  <1>6. block = 1 + (low % n)  BY <1>3, <1>4, RemainderIs DEF Powers
  <1>7. low % n \in 0..(n - 1)  BY <1>2, <1>5
  <1> HIDE DEF block, low
  <1>8. block \in 1..n  BY <1>2, <1>6, <1>7
  <1>9. drawn \in [1..n -> Nat] /\ \A x \in 1..n : drawn[x] = IF x = block THEN d.drawn[x] + 1 ELSE d.drawn[x]
    <2> DEFINE e == d.drawn
    <2>1. e \in [1..n -> Nat]  BY <1>1
    <2> HIDE DEF e
    <2>2. \A y \in 1..n : e[y] \in Nat /\ e[y] + 1 \in Nat  BY <2>1
    <2>3. drawn = [e EXCEPT ![block] = e[block] + 1]  BY DEF e
    <2> QED  BY <1>8, <2>1, <2>2, <2>3 DEF e
  <1> HIDE DEF drawn
  <1>10. Draw(d) = [state |-> state, drawn |-> drawn]  BY DEF Draw, state, block, drawn
  <1>11. \A x \in 1..n : x = block <=> low % n = x - 1  BY <1>6, <1>7
  <1> QED  BY <1>3, <1>9, <1>10, <1>11 DEF Draws, low

LEMMA DrawsAre ==
    ASSUME NEW n \in Powers, NEW first \in Draws(n)
    PROVE  \E g \in [0..n -> Draws(n)] :
              /\ g[0] = first /\ \A i \in 1..n : g[i] = Draw(g[i - 1])
              /\ Iterate(Draw, n, first) = g[n]
  <1> DEFINE f == [d \in Draws(n) |-> Draw(d)]
             Unfolds(h) == h = [i \in 0..n |-> IF i = 0 THEN first
                                ELSE CHOOSE next \in {Draw(last) : last \in {h[i - 1]}} : TRUE]
             it == CHOOSE h : Unfolds(h)
  <1>1. n \in Nat  BY DEF Powers
  <1>2. f \in [Draws(n) -> Draws(n)]  BY DrawIs
  <1>3. \E g \in [0..n -> Draws(n)] : g[0] = first /\ \A i \in 1..n : g[i] = f[g[i - 1]]
    <2> DEFINE S == Draws(n)
    <2>1. f \in [S -> S] /\ first \in S  BY <1>2
    <2> HIDE DEF f, S, Unfolds, it
    <2>2. \E g : Iterated(g, n, S, f, first)  BY <1>1, <2>1, Iterates
    <2> QED  BY <2>2 DEF S, Iterated
  <1>4. PICK g \in [0..n -> Draws(n)] : g[0] = first /\ \A i \in 1..n : g[i] = f[g[i - 1]]  BY <1>3
  <1>5. \A i \in 1..n : g[i] = Draw(g[i - 1])
    <2>1. \A i \in 1..n : i - 1 \in 0..n  BY <1>1
    <2> QED  BY <1>4, <2>1
  <1>6. \A x : (CHOOSE next \in {Draw(last) : last \in {x}} : TRUE) = Draw(x)  OBVIOUS
  <1>7. Unfolds(g)  BY <1>1, <1>4, <1>5, <1>6
  <1>8. it[0] = first /\ \A i \in 1..n : it[i] = Draw(it[i - 1])
    <2> HIDE DEF Unfolds
    <2>1. Unfolds(it)  BY <1>7
    <2> HIDE DEF it
    <2>2. it = [i \in 0..n |-> IF i = 0 THEN first
                                ELSE CHOOSE next \in {Draw(last) : last \in {it[i - 1]}} : TRUE]
      BY <2>1 DEF Unfolds
    <2>3. \A i \in 1..n : i \in 0..n /\ i # 0  BY <1>1
    <2> QED  BY <1>1, <1>6, <2>2, <2>3
  <1>9. Iterate(Draw, n, first) = it[n]  BY DEF Iterate
  <1> HIDE DEF it, f, Unfolds
  <1>10. GoAlike(it, g, n)  BY <1>4, <1>5, <1>8 DEF GoAlike
  <1>11. it[n] = g[n]  BY <1>1, <1>10, EndAlike
  <1> QED  BY <1>4, <1>5, <1>9, <1>11

\* Each session once.
Ones(n) == [block \in 1..n |-> 1]

LEMMA EachIsDrawnOnce ==
    ASSUME NEW n \in Powers, NEW state \in Bytes, NEW first,
           first = [state |-> state, drawn |-> [block \in 1..n |-> 0]]
    PROVE  Iterate(Draw, n, first).state \in Bytes /\ Iterate(Draw, n, first).drawn = Ones(n)
  <1>1. n \in Nat /\ n > 1  BY DEF Powers
  <1>2. first \in Draws(n)  BY DEF Draws
  <1>3. PICK g \in [0..n -> Draws(n)] :
              /\ g[0] = first /\ \A i \in 1..n : g[i] = Draw(g[i - 1])
              /\ Iterate(Draw, n, first) = g[n]
    BY <1>2, DrawsAre
  <1> DEFINE b == [i \in 0..n |-> g[i].state[1]]
             Was(i, x) == \E j \in 1..i : b[j] % n = x - 1
             M == {i \in Nat : i <= n => \A x \in 1..n : g[i].drawn[x] = IF Was(i, x) THEN 1 ELSE 0}
  <1>4. \A i \in 0..n : b[i] = g[i].state[1] /\ b[i] \in Nat /\ g[i] \in Draws(n) /\ g[i].drawn \in [1..n -> Nat]
    <2> SUFFICES ASSUME NEW i \in 0..n
                 PROVE  /\ b[i] = g[i].state[1] /\ b[i] \in Nat /\ g[i] \in Draws(n)
                        /\ g[i].drawn \in [1..n -> Nat]
      OBVIOUS
    <2>1. b[i] = g[i].state[1] /\ g[i] \in Draws(n)  OBVIOUS
    <2>2. g[i].state \in Bytes /\ g[i].drawn \in [1..n -> Nat]  BY <2>1 DEF Draws
    <2>3. g[i].state[1] \in Nat  BY <2>2 DEF Bytes
    <2> QED  BY <2>1, <2>2, <2>3
  <1>5. \A i \in 1..n : i - 1 \in 0..n /\ i \in 0..n  BY <1>1
  <1>6. LowBytes(b, n)
    <2>1. b \in [0..n -> Nat]  BY <1>4
    <2> HIDE DEF b
    <2>2. ASSUME NEW i \in 1..n PROVE b[i] = (45 * b[i - 1] + 1) % 256
      <3>1. i - 1 \in 0..n /\ i \in 0..n  BY <1>5
      <3>2. g[i] = Draw(g[i - 1]) /\ g[i - 1] \in Draws(n)  BY <1>3, <1>4, <3>1
      <3>3. g[i].state[1] = (45 * g[i - 1].state[1] + 1) % 256  BY <3>2, DrawIs
      <3> QED  BY <1>4, <3>1, <3>3
    <2> QED  BY <2>1, <2>2 DEF LowBytes
  <1> HIDE DEF b
  <1>7. Different(b, n, n) /\ Reached(b, n, n)  BY <1>6, EachOnce
  <1>8. 0 \in M
    <2>1. g[0].drawn = [block \in 1..n |-> 0]  BY <1>3
    <2>2. ASSUME NEW x \in 1..n PROVE g[0].drawn[x] = 0 /\ ~Was(0, x)  BY <2>1
    <2> HIDE DEF Was
    <2> QED  BY <2>2
  <1>9. ASSUME NEW i \in M PROVE i + 1 \in M
    <2> SUFFICES ASSUME i + 1 <= n, NEW x \in 1..n
                 PROVE  g[i + 1].drawn[x] = IF Was(i + 1, x) THEN 1 ELSE 0
      OBVIOUS
    <2>1. i \in Nat /\ i + 1 \in 1..n /\ (i + 1) - 1 = i /\ i \in 0..n  BY <1>1
    <2>2. g[i].drawn[x] = IF Was(i, x) THEN 1 ELSE 0  BY <2>1
    <2>3. g[i + 1] = Draw(g[i]) /\ g[i] \in Draws(n)  BY <1>3, <1>4, <2>1
    <2>4. g[i + 1].drawn[x] = IF b[i + 1] % n = x - 1 THEN g[i].drawn[x] + 1 ELSE g[i].drawn[x]
      <3>1. g[i + 1].drawn[x] = IF g[i + 1].state[1] % n = x - 1 THEN g[i].drawn[x] + 1
                                ELSE g[i].drawn[x]
        BY <2>3, DrawIs
      <3>2. b[i + 1] = g[i + 1].state[1]  BY <1>4, <1>5, <2>1
      <3> QED  BY <3>1, <3>2
    <2>5. Was(i + 1, x) <=> Was(i, x) \/ b[i + 1] % n = x - 1
      <3>1. \A j : j \in 1..(i + 1) <=> j \in 1..i \/ j = i + 1  BY <2>1
      <3> QED  BY <3>1
    <2>6. ~(Was(i, x) /\ b[i + 1] % n = x - 1)
      <3> SUFFICES ASSUME NEW j \in 1..i, b[j] % n = x - 1, b[i + 1] % n = x - 1 PROVE FALSE  OBVIOUS
      <3>1. j \in 0..n /\ i + 1 \in 0..n /\ j < i + 1 /\ i + 1 < j + n  BY <1>1, <2>1
      <3> QED  BY <1>7, <3>1 DEF Different
    <2> HIDE DEF Was
    <2> QED  BY <2>2, <2>4, <2>5, <2>6
  <1>10. n \in M
    <2> HIDE DEF Was
    <2>1. M \in SUBSET Nat  OBVIOUS
    <2> HIDE DEF M
    <2>2. M = Nat  BY <1>8, <1>9, <2>1, Induction
    <2> QED  BY <1>1, <2>2
  <1>11. ASSUME NEW x \in 1..n PROVE Was(n, x)
    <2>1. 1 \in 0..n /\ x - 1 \in 0..(n - 1) /\ 1 + n <= n + 1  BY <1>1
    <2>2. PICK j \in 0..n : 1 <= j /\ j < 1 + n /\ b[j] % n = x - 1  BY <1>7, <2>1 DEF Reached
    <2>3. j \in 1..n  BY <1>1, <2>2
    <2> QED  BY <2>2, <2>3
  <1>12. \A x \in 1..n : g[n].drawn[x] = 1
    <2> HIDE DEF Was
    <2> QED  BY <1>1, <1>10, <1>11
  <1>13. n \in 0..n  BY <1>1
  <1>14. g[n].state \in Bytes /\ g[n].drawn \in [1..n -> Nat]  BY <1>13 DEF Draws
  <1>15. g[n].drawn = Ones(n)  BY <1>12, <1>14 DEF Ones
  <1> QED  BY <1>3, <1>14, <1>15
-----------------------------------------------------------------------------
(* A thousand                                                              *)

\* What is counted when m resamples drew each session once.
TallyOf(n, m) == IF m = 0 THEN <<>> ELSE [drawn \in {Ones(n)} |-> m]
Resamples(n) == [n : {n}, state : Bytes, tally : {TallyOf(n, m) : m \in Nat}]

LEMMA ResampleIs ==
    ASSUME NEW n \in Powers, NEW r \in Resamples(n)
    PROVE  /\ Resample(r) \in Resamples(n)
           /\ \A m \in Nat : r.tally = TallyOf(n, m) => Resample(r).tally = TallyOf(n, m + 1)
  <1> DEFINE first == [state |-> r.state, drawn |-> [block \in 1..r.n |-> 0]]
             d == Iterate(Draw, r.n, first)
             before == IF d.drawn \in DOMAIN r.tally THEN r.tally[d.drawn] ELSE 0
             after == [drawn \in DOMAIN r.tally \cup {d.drawn} |->
                         IF drawn = d.drawn THEN before + 1 ELSE r.tally[drawn]]
  <1>1. r.n = n /\ r.state \in Bytes /\ r.tally \in {TallyOf(n, m) : m \in Nat}
        /\ r = [n |-> n, state |-> r.state, tally |-> r.tally]
    BY DEF Resamples
  <1>2. Resample(r) = [r EXCEPT !.state = d.state, !.tally = after]  BY DEF Resample
  <1>3. d.state \in Bytes /\ d.drawn = Ones(n)
    <2>1. first = [state |-> r.state, drawn |-> [block \in 1..n |-> 0]]  BY <1>1
    <2> HIDE DEF first
    <2> QED  BY <1>1, <2>1, EachIsDrawnOnce
  <1> HIDE DEF d, first
  <1>4. ASSUME NEW m \in Nat, r.tally = TallyOf(n, m) PROVE after = TallyOf(n, m + 1)
    <2> DEFINE o == Ones(n)
    <2>1. m + 1 # 0 /\ TallyOf(n, m + 1) = [drawn \in {o} |-> m + 1]  BY DEF TallyOf
    <2>2. CASE m = 0
      <3>1. DOMAIN r.tally = {}  BY <1>4, <2>2 DEF TallyOf
      <3>2. before = 0 /\ DOMAIN r.tally \cup {d.drawn} = {o}  BY <1>3, <3>1
      <3> HIDE DEF before, o
      <3>3. after = [drawn \in {o} |-> 0 + 1]  BY <1>3, <3>2 DEF o
      <3> QED  BY <2>1, <2>2, <3>3
    <2>3. CASE m # 0
      <3>1. r.tally = [drawn \in {o} |-> m]  BY <1>4, <2>3 DEF TallyOf
      <3>2. d.drawn = o  BY <1>3
      <3> HIDE DEF o
      <3>3. before = m /\ DOMAIN r.tally \cup {d.drawn} = {o}  BY <3>1, <3>2
      <3> HIDE DEF before
      <3>4. after = [drawn \in {o} |-> m + 1]  BY <3>2, <3>3
      <3> QED  BY <2>1, <3>4
    <2> QED  BY <2>2, <2>3
  <1> HIDE DEF after
  <1>5. Resample(r) = [n |-> n, state |-> d.state, tally |-> after]  BY <1>1, <1>2
  <1>6. after \in {TallyOf(n, m) : m \in Nat}
    <2>1. PICK m \in Nat : r.tally = TallyOf(n, m)  BY <1>1
    <2>2. m + 1 \in Nat  OBVIOUS
    <2> QED  BY <1>4, <2>1, <2>2
  <1>7. Resample(r) \in Resamples(n)  BY <1>3, <1>5, <1>6 DEF Resamples
  <1> QED  BY <1>4, <1>5, <1>7

\* Counting goes on in steps of k.
Counts(g, times, n, k) ==
    \A i \in 1..times, m \in Nat : g[i - 1].tally = TallyOf(n, m) => g[i].tally = TallyOf(n, m + k)

LEMMA CountsUp ==
    ASSUME NEW n, NEW times \in Nat, NEW k \in Nat, NEW g, NEW m \in Nat,
           Counts(g, times, n, k), g[0].tally = TallyOf(n, m), NEW to, to = m + times * k
    PROVE  g[times].tally = TallyOf(n, to)
  <1> DEFINE M == {i \in Nat : i <= times => g[i].tally = TallyOf(n, m + i * k)}
  <1>1. 0 \in M
    <2>1. m + 0 * k = m  OBVIOUS
    <2> QED  BY <2>1
  <1>2. ASSUME NEW i \in M PROVE i + 1 \in M
    <2> SUFFICES ASSUME i + 1 <= times PROVE g[i + 1].tally = TallyOf(n, m + (i + 1) * k)  OBVIOUS
    <2>1. i \in Nat /\ i + 1 \in 1..times /\ (i + 1) - 1 = i  OBVIOUS
    <2>2. g[i].tally = TallyOf(n, m + i * k)  BY <2>1
    <2>3. m + i * k \in Nat /\ (m + i * k) + k = m + (i + 1) * k  BY <2>1
    <2>4. g[i + 1].tally = TallyOf(n, (m + i * k) + k)  BY <2>1, <2>2, <2>3 DEF Counts
    <2> QED  BY <2>3, <2>4
  <1>3. M \in SUBSET Nat  OBVIOUS
  <1> HIDE DEF M
  <1>4. M = Nat  BY <1>1, <1>2, <1>3, Induction
  <1>5. times \in M  BY <1>4
  <1> QED  BY <1>5 DEF M

LEMMA SomeAre ==
    ASSUME NEW n \in Powers, NEW first \in Resamples(n)
    PROVE  /\ ResampleSome(first) \in Resamples(n)
           /\ \A m \in Nat : first.tally = TallyOf(n, m) => ResampleSome(first).tally = TallyOf(n, m + 25)
  <1> DEFINE S == Resamples(n)
             times == 25
             f == [r \in S |-> Resample(r)]
             Unfolds(h) == h = [i \in 0..25 |-> IF i = 0 THEN first
                                ELSE CHOOSE next \in {Resample(last) : last \in {h[i - 1]}} : TRUE]
             it == CHOOSE h : Unfolds(h)
  <1>1. f \in [S -> S]  BY ResampleIs
  <1>2. PICK g : Iterated(g, times, S, f, first)
    <2>1. times \in Nat /\ first \in S  OBVIOUS
    <2> HIDE DEF times, S, f, Unfolds, it
    <2> QED  BY <1>1, <2>1, Iterates
  <1>3. g \in [0..25 -> S] /\ g[0] = first  BY <1>2 DEF Iterated
  <1>4. \A i \in 1..25 : g[i] = Resample(g[i - 1]) /\ g[i - 1] \in S
    <2>1. \A i \in 1..25 : i - 1 \in 0..25  OBVIOUS
    <2>2. \A i \in 1..25 : g[i] = f[g[i - 1]]  BY <1>2 DEF Iterated
    <2>3. \A i \in 1..25 : g[i - 1] \in S
      <3> HIDE DEF S
      <3> QED  BY <1>3, <2>1
    <2>4. \A x \in S : f[x] = Resample(x)  OBVIOUS
    <2> HIDE DEF S, f
    <2> QED  BY <2>2, <2>3, <2>4
  <1>5. \A x : (CHOOSE next \in {Resample(last) : last \in {x}} : TRUE) = Resample(x)  OBVIOUS
  <1>6. Unfolds(g)
    <2> HIDE DEF S
    <2> QED  BY <1>3, <1>4, <1>5
  <1>7. it[0] = first /\ \A i \in 1..25 : it[i] = Resample(it[i - 1])
    <2> HIDE DEF Unfolds, S
    <2>1. Unfolds(it)  BY <1>6
    <2> HIDE DEF it
    <2>2. it = [i \in 0..25 |-> IF i = 0 THEN first
                                ELSE CHOOSE next \in {Resample(last) : last \in {it[i - 1]}} : TRUE]
      BY <2>1 DEF Unfolds
    <2> QED  BY <1>5, <2>2
  <1>8. ResampleSome(first) = it[25]  BY DEF ResampleSome, Iterate
  <1> HIDE DEF it, Unfolds, f, S
  <1>9. GoAlike(it, g, times)  BY <1>3, <1>4, <1>7 DEF GoAlike
  <1>10. it[times] = g[times]
    <2>1. times \in Nat  OBVIOUS
    <2> HIDE DEF times
    <2> QED  BY <1>9, <2>1, EndAlike
  <1>11. ResampleSome(first) = g[times]  BY <1>8, <1>10
  <1>12. ASSUME NEW m \in Nat, first.tally = TallyOf(n, m)
         PROVE  g[times].tally = TallyOf(n, m + 25)
    <2> DEFINE k == 1
               to == m + 25
    <2>1. Counts(g, times, n, k)
      <3> SUFFICES ASSUME NEW i \in 1..25, NEW q \in Nat, g[i - 1].tally = TallyOf(n, q)
                   PROVE  g[i].tally = TallyOf(n, q + 1)
        BY DEF Counts
      <3>1. g[i] = Resample(g[i - 1]) /\ g[i - 1] \in Resamples(n)  BY <1>4 DEF S
      <3> QED  BY <3>1, ResampleIs
    <2>2. times \in Nat /\ k \in Nat /\ to = m + times * k /\ g[0].tally = TallyOf(n, m)  BY <1>3, <1>12
    <2> HIDE DEF times, k, to
    <2>3. g[times].tally = TallyOf(n, to)  BY <2>1, <2>2, CountsUp
    <2> QED  BY <2>3 DEF to
  <1>13. g[times] \in Resamples(n)  BY <1>3 DEF S
  <1> QED  BY <1>11, <1>12, <1>13

LEMMA AllAre ==
    ASSUME NEW n \in Powers, NEW first \in Resamples(n)
    PROVE  /\ Iterate(ResampleSome, 40, first) \in Resamples(n)
           /\ \A m \in Nat : first.tally = TallyOf(n, m) => Iterate(ResampleSome, 40, first).tally = TallyOf(n, m + 1000)
  <1> DEFINE S == Resamples(n)
             times == 40
             f == [r \in S |-> ResampleSome(r)]
             Unfolds(h) == h = [i \in 0..40 |-> IF i = 0 THEN first
                                ELSE CHOOSE next \in {ResampleSome(last) : last \in {h[i - 1]}} : TRUE]
             it == CHOOSE h : Unfolds(h)
  <1>1. f \in [S -> S]  BY SomeAre
  <1>2. PICK g : Iterated(g, times, S, f, first)
    <2>1. times \in Nat /\ first \in S  OBVIOUS
    <2> HIDE DEF times, S, f, Unfolds, it
    <2> QED  BY <1>1, <2>1, Iterates
  <1>3. g \in [0..40 -> S] /\ g[0] = first  BY <1>2 DEF Iterated
  <1>4. \A i \in 1..40 : g[i] = ResampleSome(g[i - 1]) /\ g[i - 1] \in S
    <2>1. \A i \in 1..40 : i - 1 \in 0..40  OBVIOUS
    <2>2. \A i \in 1..40 : g[i] = f[g[i - 1]]  BY <1>2 DEF Iterated
    <2>3. \A i \in 1..40 : g[i - 1] \in S
      <3> HIDE DEF S
      <3> QED  BY <1>3, <2>1
    <2>4. \A x \in S : f[x] = ResampleSome(x)  OBVIOUS
    <2> HIDE DEF S, f
    <2> QED  BY <2>2, <2>3, <2>4
  <1>5. \A x : (CHOOSE next \in {ResampleSome(last) : last \in {x}} : TRUE) = ResampleSome(x)  OBVIOUS
  <1>6. Unfolds(g)
    <2> HIDE DEF S
    <2> QED  BY <1>3, <1>4, <1>5
  <1>7. it[0] = first /\ \A i \in 1..40 : it[i] = ResampleSome(it[i - 1])
    <2> HIDE DEF Unfolds, S
    <2>1. Unfolds(it)  BY <1>6
    <2> HIDE DEF it
    <2>2. it = [i \in 0..40 |-> IF i = 0 THEN first
                                ELSE CHOOSE next \in {ResampleSome(last) : last \in {it[i - 1]}} : TRUE]
      BY <2>1 DEF Unfolds
    <2> QED  BY <1>5, <2>2
  <1>8. Iterate(ResampleSome, 40, first) = it[40]  BY DEF Iterate
  <1> HIDE DEF it, Unfolds, f, S
  <1>9. GoAlike(it, g, times)  BY <1>3, <1>4, <1>7 DEF GoAlike
  <1>10. it[times] = g[times]
    <2>1. times \in Nat  OBVIOUS
    <2> HIDE DEF times
    <2> QED  BY <1>9, <2>1, EndAlike
  <1>11. Iterate(ResampleSome, 40, first) = g[times]  BY <1>8, <1>10
  <1>12. ASSUME NEW m \in Nat, first.tally = TallyOf(n, m)
         PROVE  g[times].tally = TallyOf(n, m + 1000)
    <2> DEFINE k == 25
               to == m + 1000
    <2>1. Counts(g, times, n, k)
      <3> SUFFICES ASSUME NEW i \in 1..40, NEW q \in Nat, g[i - 1].tally = TallyOf(n, q)
                   PROVE  g[i].tally = TallyOf(n, q + 25)
        BY DEF Counts
      <3>1. g[i] = ResampleSome(g[i - 1]) /\ g[i - 1] \in Resamples(n)  BY <1>4 DEF S
      <3> QED  BY <3>1, SomeAre
    <2>2. times \in Nat /\ k \in Nat /\ to = m + times * k /\ g[0].tally = TallyOf(n, m)  BY <1>3, <1>12
    <2> HIDE DEF times, k, to
    <2>3. g[times].tally = TallyOf(n, to)  BY <2>1, <2>2, CountsUp
    <2> QED  BY <2>3 DEF to
  <1>13. g[times] \in Resamples(n)  BY <1>3 DEF S
  <1> QED  BY <1>11, <1>12, <1>13

LEMMA SeedIs == ASSUME NEW n \in Powers PROVE Seed(n) \in Bytes
  <1> DEFINE both == (n % 2) + 4 * ((n \div 4) % 2) + 16 * ((n \div 16) % 2)
             low == 21 + n - 2 * both
  <1>1. low \in Nat  BY DEF Powers
  <1>2. Seed(n) = <<low, 124, 74, 127, 185, 121, 55, 158>>  BY DEF Seed
  <1> HIDE DEF low
  <1> QED  BY <1>1, <1>2 DEF Bytes

\* All 1000 resamples draw each session once.
LEMMA TallyIs == ASSUME NEW n \in Powers PROVE Tally(n) = [drawn \in {Ones(n)} |-> 1000]
  <1> DEFINE first == [n |-> n, state |-> Seed(n), tally |-> <<>>]
             m == 0
  <1>1. first.tally = TallyOf(n, m) /\ m \in Nat  BY DEF TallyOf
  <1>2. first \in Resamples(n)  BY <1>1, SeedIs DEF Resamples
  <1>3. Tally(n) = Iterate(ResampleSome, 40, first).tally  BY DEF Tally
  <1>4. Tally(n) = TallyOf(n, m + 1000)
    <2> HIDE DEF first, m
    <2> QED  BY <1>1, <1>2, <1>3, AllAre
  <1> QED  BY <1>4 DEF TallyOf

LEMMA SumOfOne ==
    ASSUME NEW x, NEW losing, losing = {} \/ losing = {x}, NEW tally, tally[x] \in Int
    PROVE  MapThenSumSet(LAMBDA drawn : tally[drawn], losing) = IF losing = {} THEN 0 ELSE tally[x]
  <1> DEFINE Unfolds(g) == g = [t \in SUBSET losing |->
                  IF t = {} THEN 0
                  ELSE tally[CHOOSE y \in t : TRUE] + g[t \ {CHOOSE y \in t : TRUE}]]
             it == CHOOSE g : Unfolds(g)
             h == [t \in SUBSET losing |-> IF t = {} THEN 0 ELSE tally[x]]
  <1>1. MapThenSumSet(LAMBDA drawn : tally[drawn], losing) = it[losing]
    BY DEF MapThenSumSet, MapThenFoldSet
  <1>2. Unfolds(h)
    <2> SUFFICES ASSUME NEW t \in SUBSET losing, t # {}
                 PROVE  tally[x] = tally[CHOOSE y \in t : TRUE] + h[t \ {CHOOSE y \in t : TRUE}]
      OBVIOUS
    <2>1. t = {x} /\ (CHOOSE y \in t : TRUE) = x /\ t \ {x} = {} /\ {} \in SUBSET losing  OBVIOUS
    <2>2. h[{}] = 0  OBVIOUS
    <2> HIDE DEF h
    <2>3. h[t \ {CHOOSE y \in t : TRUE}] = 0  BY <2>1, <2>2
    <2>4. tally[CHOOSE y \in t : TRUE] = tally[x]  BY <2>1
    <2> QED  BY <2>3, <2>4
  <1> HIDE DEF h
  <1>3. Unfolds(it)
    <2> HIDE DEF Unfolds
    <2> QED  BY <1>2
  <1>4. it = [t \in SUBSET losing |->
                  IF t = {} THEN 0
                  ELSE tally[CHOOSE y \in t : TRUE] + it[t \ {CHOOSE y \in t : TRUE}]]
    <2> HIDE DEF it
    <2> QED  BY <1>3
  <1> HIDE DEF it
  <1>5. it[{}] = 0  BY <1>4
  <1>6. ASSUME losing = {x} PROVE it[losing] = tally[x]
    <2>1. (CHOOSE y \in losing : TRUE) = x /\ losing \ {x} = {} /\ losing \in SUBSET losing /\ losing # {}  BY <1>6
    <2>2. it[losing] = tally[x] + it[{}]  BY <1>4, <2>1
    <2> QED  BY <1>5, <2>2
  <1> QED  BY <1>1, <1>5, <1>6

\* With as many sessions as a power of two the lower limit is the mean itself:
\* each of the 1000 resamples has every session once, because the place a draw
\* takes hangs on the lowest bits of the generator, which repeat
\* (block_bootstrap_lower_95).  So it says no more than that the closes won.
THEOREM BootstrapIsTheMean ==
    ASSUME NEW s, Blocks(s) \in Seq(Int), Len(Blocks(s)) \in Powers, Len(Blocks(s)) <= LastSession
    PROVE  LowerBoundIsPositive(s) <=> ~(SumOf(Blocks(s)) <= 0)
  <1> DEFINE blocks == Blocks(s)
             n == Len(blocks)
             o == Ones(n)
             tally == Tallies[n]
             losing == {drawn \in DOMAIN tally : TotalOf(blocks, drawn) <= 0}
  <1>1. LowerBoundIsPositive(s) <=> n >= 2 /\ Losses(blocks) < 25  BY DEF LowerBoundIsPositive
  <1>2. Losses(blocks) = MapThenSumSet(LAMBDA drawn : tally[drawn], losing)  BY DEF Losses
  <1> HIDE DEF blocks
  <1>3. n \in Powers /\ n \in 2..LastSession
    <2>1. n \in Powers /\ n <= LastSession  BY DEF blocks
    <2>2. LastSession \in Nat  BY GateAssumption
    <2> HIDE DEF n
    <2> QED  BY <2>1, <2>2 DEF Powers
  <1>4. tally = [drawn \in {o} |-> 1000]
    <2>1. tally = Tally(n)  BY <1>3 DEF Tallies
    <2> QED  BY <1>3, <2>1, TallyIs
  <1>5. TotalOf(blocks, o) = SumOf(blocks)
    <2>1. blocks \in Seq(Int) /\ DOMAIN blocks = 1..n  BY DEF blocks
    <2>2. \A i \in 1..n : o[i] = 1 /\ blocks[i] \in Int  BY <2>1 DEF Ones
    <2>3. blocks = [i \in 1..n |-> blocks[i]]  BY <2>1
    <2> HIDE DEF n, o
    <2>4. [i \in DOMAIN blocks |-> o[i] * blocks[i]] = [i \in 1..n |-> blocks[i]]  BY <2>1, <2>2
    <2>5. [i \in DOMAIN blocks |-> o[i] * blocks[i]] = blocks  BY <2>3, <2>4
    <2> QED  BY <2>5 DEF TotalOf
  <1> HIDE DEF n, o, tally
  <1>6. DOMAIN tally = {o} /\ tally[o] = 1000  BY <1>4
  <1>7. losing = IF SumOf(blocks) <= 0 THEN {o} ELSE {}  BY <1>5, <1>6
  <1> HIDE DEF losing
  <1>8. Losses(blocks) = IF losing = {} THEN 0 ELSE tally[o]
    <2>1. (losing = {} \/ losing = {o}) /\ tally[o] \in Int  BY <1>6, <1>7
    <2>2. MapThenSumSet(LAMBDA drawn : tally[drawn], losing) = IF losing = {} THEN 0 ELSE tally[o]
      BY <2>1, SumOfOne
    <2> QED  BY <1>2, <2>2
  <1>9. Losses(blocks) = IF SumOf(blocks) <= 0 THEN 1000 ELSE 0  BY <1>6, <1>7, <1>8
  <1>10. n >= 2  BY <1>3
  <1> QED  BY <1>1, <1>9, <1>10 DEF blocks
=============================================================================
