---------------------------- MODULE MCEntryRights ----------------------------
(***************************************************************************)
(* The two things a purchase needs beyond the loop: the hour allows it     *)
(* (MarketInputs), and with real money the stage does (LiveStage).  They   *)
(* share no state: Init chooses which of them moves.                       *)
(***************************************************************************)
EXTENDS MCMarketInputs, LiveStageProperties

VARIABLE focus

RightsInit ==
    /\ focus \in {"hour", "stage"}
    /\ Init /\ StageInit
    \* The one that does not move starts in one way.
    /\ focus = "hour" => readiness = CHOOSE d \in Digests : TRUE
    /\ focus = "stage" => /\ plan = CHOOSE p \in Plans : TRUE
                          /\ file = [y \in Years |-> FALSE]

RightsNext ==
    \/ focus = "hour" /\ Next /\ UNCHANGED <<focus, stageVars>>
    \/ focus = "stage" /\ StageNext /\ UNCHANGED <<focus, vars>>

RightsSpec == RightsInit /\ [][RightsNext]_<<focus, vars, stageVars>>

\* The directions of the trend and the identities of builds are alike.
Alike == Permutations(Directions) \cup Permutations(Identities)
=============================================================================
