--------------------------- MODULE TradingEngine ---------------------------
(***************************************************************************)
(* The trading engine (TradingEngine in src/src/trading.rs) as operators   *)
(* over a record [state, position].                                        *)
(*                                                                         *)
(* SearchingCall/SearchingPut and CallActive/PutActive differ only in the  *)
(* direction of the trade and are merged into "Searching" and "Active".  A *)
(* position is abstracted to where it came from:                           *)
(*   "Paper"       filled by the simulated broker                          *)
(*   "Bought"      filled by a real order                                  *)
(*   "Adopted"     reconstructed from the IOL account, metadata verified   *)
(*   "Unverified"  reconstructed without verifiable contract metadata      *)
(***************************************************************************)
NoPosition == "None"
Position == {"Paper", "Bought", "Adopted", "Unverified"}
RealPosition == Position \ {"Paper"}

TradingState == {"Idle", "Searching", "Buying", "Active", "Selling", "Halted"}

EngineStates == [state : TradingState, position : Position \cup {NoPosition}]
EngineNew == [state |-> "Idle", position |-> NoPosition]

Flat(e) == e.position = NoPosition

\* consider_entry, for a confirmed (hence not neutral) direction.
CanConsiderEntry(e) == Flat(e) /\ e.state # "Halted"
ConsiderEntry(e) == [e EXCEPT !.state = "Searching"]

MarkBuying(e) == IF e.state = "Searching" THEN [e EXCEPT !.state = "Buying"] ELSE e

\* open_position refuses a second position; it does not look at Halted.
OpenPosition(e, position) ==
    IF Flat(e) THEN [state |-> "Active", position |-> position] ELSE e

MarkSelling(e) == IF Flat(e) THEN e ELSE [e EXCEPT !.state = "Selling"]

Close(e) == IF Flat(e) THEN e ELSE EngineNew

Halt(e) == [e EXCEPT !.state = "Halted"]

\* resume leaves Halted, whoever halted the engine.
Resume(e) == [e EXCEPT !.state = IF Flat(e) THEN "Idle" ELSE "Active"]
=============================================================================
