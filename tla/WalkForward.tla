------------------------------ MODULE WalkForward ------------------------------
(***************************************************************************)
(* How the meta filter is judged (src/src/learning_model.rs): which of the *)
(* closed trades, in the order they were opened, train a model, choose its *)
(* parameters and judge it.  Trades are their places in that order; what a *)
(* model says of one is left out, and that it can be fitted is a choice.   *)
(***************************************************************************)
EXTENDS Integers, Sequences

CONSTANTS
    Folds,          \* WALK_FORWARD_FOLDS
    MaxTrades,      \* bound
    RawFeatures,
    MinExamples, MinTrain       \* bounds: the policies

ASSUME WalkAssumption ==
    /\ {Folds, RawFeatures} \subseteq Nat \ {0} /\ MaxTrades \in Nat
    /\ MinExamples \subseteq Nat /\ MinTrain \subseteq Nat \ {0}

VARIABLES
    trades, policy, \* how many there are; [examples, train, nonlinear]
    at,             \* "idle", "walk", "tree" or "judged"
    start,          \* of the next fold
    folds,          \* the folds walked: [model, fitted, selects, judges]
    tree            \* the same of the tree

walk == <<trades, policy, at, start, folds, tree>>

Larger(a, b) == IF a > b THEN a ELSE b
Smaller(a, b) == IF a < b THEN a ELSE b
DivCeil(a, b) == (a + b - 1) \div b
Split(model, fitted, selects, judges) ==
    [model |-> model, fitted |-> fitted, selects |-> selects, judges |-> judges]
Unfitted == "none"

WalkInit ==
    /\ trades = 0 /\ policy = [examples |-> 0, train |-> 1, nonlinear |-> FALSE] /\ at = "idle"
    /\ start = 0 /\ folds = <<>> /\ tree = Split(Unfitted, {}, {}, {})

InitialTrain(n, p) == Larger(n \div 2, p.train)

\* assess_meta_filter_with_policy; walk_forward gives up without enough trades.
Assess ==
    /\ at = "idle"
    /\ \E n \in 0..MaxTrades, e \in MinExamples, t \in MinTrain, nonlinear \in BOOLEAN :
        /\ trades' = n
        /\ policy' = [examples |-> e, train |-> t, nonlinear |-> nonlinear]
        /\ start' = InitialTrain(n, policy')
        /\ at' = IF n >= e /\ InitialTrain(n, policy') < n THEN "walk" ELSE "tree"
    /\ UNCHANGED <<folds, tree>>

\* Mutant: the division leaves a rest.
FoldSizeDown == (trades - InitialTrain(trades, policy)) \div Folds
FoldSize == DivCeil(trades - InitialTrain(trades, policy), Folds)

\* fit_variant: a model has as many features as the trades, which a quadratic one
\* has not; that both outcomes are among them is a choice.
FeatureCount(model) == IF model = "quadratic" THEN 2 * RawFeatures ELSE RawFeatures
MayFit(model, n) ==
    /\ n >= policy.train /\ RawFeatures = FeatureCount(model)
    /\ model = "quadratic" => policy.nonlinear
Models(n) == {Unfitted} \cup {m \in {"linear", "quadratic"} : MayFit(m, n)}

\* select_hyperparameters of the first n trades: those from here on choose.
Spare == 10
ChoosesFrom(n) ==
    IF n < policy.train + Spare THEN n ELSE Smaller(Larger((n * 3) \div 4, policy.train), n - 1)

\* Mutant: the fold is part of what the model learns from.
LearnsFromAll(from, end) == end
LearnsFrom(from, end) == from

WalkFold ==
    LET end == Smaller(start + FoldSize, trades)
        known == LearnsFrom(start, end) IN
    /\ at = "walk"
    /\ \E m \in Models(known) :
        folds' = Append(folds, Split(m, 0..(known - 1), ChoosesFrom(known)..(known - 1), start..(end - 1)))
    /\ start' = end
    /\ at' = IF end < trades THEN "walk" ELSE "tree"
    /\ UNCHANGED <<trades, policy, tree>>

\* assess_tree_candidate: no candidate may fit.
TreeSplit(train) ==
    LET selectionEnd == Larger((trades * 3) \div 4, train + 1)
    IN  Split("tree", 0..(train - 1), train..(selectionEnd - 1), selectionEnd..(trades - 1))

AssessTree ==
    /\ at = "tree" /\ at' = "judged"
    /\ \/ /\ trades >= policy.examples
          /\ tree' = TreeSplit(InitialTrain(trades, policy))
          /\ tree'.judges # {}
       \/ UNCHANGED tree
    /\ UNCHANGED <<trades, policy, start, folds>>

WalkNext == Assess \/ WalkFold \/ AssessTree

-----------------------------------------------------------------------------

Before(s, t) == \A i \in s, j \in t : i < j
ToldApart(s) ==
    /\ Before(s.fitted, s.judges) /\ Before(s.selects, s.judges)
    /\ s.model = "tree" => Before(s.fitted, s.selects)

\* However many trades there are and whatever the policy asks, the walk ends
\* within its folds, each trade after the first part is judged in exactly one of
\* them, and no model, line or tree, learns from or is chosen by a trade that is
\* as late as one it is judged by.
JudgedOnceByThePast ==
    /\ Len(folds) <= Folds
    /\ \A i \in DOMAIN folds : folds[i].judges # {} /\ ToldApart(folds[i])
    /\ \A i, j \in DOMAIN folds : i # j => folds[i].judges \cap folds[j].judges = {}
    /\ at = "judged" /\ folds # <<>> =>
        UNION {folds[i].judges : i \in DOMAIN folds} = InitialTrain(trades, policy)..(trades - 1)
    /\ ToldApart(tree)
=============================================================================
