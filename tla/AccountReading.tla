---------------------------- MODULE AccountReading ----------------------------
(***************************************************************************)
(* A reading of the IOL account: three requests, one after the other,      *)
(* while the account goes on living (account_snapshot and its parsers in   *)
(* src/src/iol_client.rs; the filter of apply_account_snapshot in app.rs). *)
(***************************************************************************)
EXTENDS Integers

CONSTANTS
    Lots,           \* the instruments somebody trades in the account
    Options         \* those of them that are options

ASSUME ReadingAssumption == Options \subseteq Lots

VARIABLES
    account,        \* of each lot: "none", "pending" or "held"
    named,          \* the options the answers or the chain tell to be options
    reading,        \* the next request, "idle", "read" or "failed"
    positions, pendingOrders,   \* what it has found
    exposed,        \* history: the lots in the account ever since the reading began
    executed        \* history: the lots executed since

accountReading == <<account, named, reading, positions, pendingOrders, exposed, executed>>

Exposed(a) == {l \in Lots : a[l] # "none"}

ReadingInit ==
    /\ account = [l \in Lots |-> "none"] /\ named = Options
    /\ reading = "idle" /\ positions = {} /\ pendingOrders = {}
    /\ exposed = {} /\ executed = {}

-----------------------------------------------------------------------------
(* IOL                                                                     *)

Moves == {<<"none", "pending">>, <<"pending", "held">>, <<"pending", "none">>, <<"held", "none">>}
AccountMoves ==
    \E l \in Lots, move \in Moves :
        /\ account[l] = move[1]
        /\ account' = [account EXCEPT ![l] = move[2]]
        /\ exposed' = exposed \cap Exposed(account')
        /\ executed' = IF move[2] = "held" THEN executed \cup {l} ELSE executed
        /\ UNCHANGED <<named, reading, positions, pendingOrders>>

-----------------------------------------------------------------------------
(* account_snapshot                                                        *)

\* is_option, or the symbol is in the frame
BeginReading ==
    /\ reading \in {"idle", "read", "failed"}
    /\ named' \in SUBSET Options
    /\ reading' = "funds" /\ positions' = {} /\ pendingOrders' = {}
    /\ exposed' = Exposed(account) /\ executed' = {}
    /\ UNCHANGED account

\* parse_account_funds: the one operable account in pesos with its balance.
ReadFunds ==
    /\ reading = "funds" /\ reading' = "portfolio"
    /\ UNCHANGED <<account, named, positions, pendingOrders, exposed, executed>>

\* What the elements of an answer come to; the malformed fail all of it.
\* Mutant: a malformed element is left out.
ParsedLeniently(lots, malformed) == [ok |-> TRUE, lots |-> lots \ malformed]
Parsed(lots, malformed) == [ok |-> malformed = {}, lots |-> lots]

\* parse_account_positions
ReadPortfolio ==
    /\ reading = "portfolio"
    /\ \E malformed \in SUBSET {l \in Lots : account[l] = "held"} :
        LET answer == Parsed({l \in Lots : account[l] = "held"}, malformed) IN
        /\ reading' = IF answer.ok THEN "orders" ELSE "failed"
        /\ positions' = answer.lots
    /\ UNCHANGED <<account, named, pendingOrders, exposed, executed>>

\* parse_pending_orders, and the filter of apply_account_snapshot
ReadOrders ==
    /\ reading = "orders"
    /\ \E malformed \in SUBSET {l \in Lots : account[l] = "pending"} :
        LET answer == Parsed({l \in Lots : account[l] = "pending"}, malformed) IN
        /\ reading' = IF answer.ok THEN "read" ELSE "failed"
        /\ pendingOrders' = answer.lots \cap named
    /\ positions' = positions \cap named
    /\ UNCHANGED <<account, named, exposed, executed>>

\* A request fails (IolConnection), or the funds do not parse.
ReadingFails ==
    /\ reading \in {"funds", "portfolio", "orders"}
    /\ reading' = "failed"
    /\ UNCHANGED <<account, named, positions, pendingOrders, exposed, executed>>

ReadingNext ==
    AccountMoves \/ BeginReading \/ ReadFunds \/ ReadPortfolio \/ ReadOrders \/ ReadingFails

-----------------------------------------------------------------------------

\* An option that was in the account all through a reading, as an order or as a
\* position, is in what was read, unless it was executed meanwhile (after the
\* portfolio was read and before the orders were) or nothing told it to be an
\* option: nothing else hides an exposure, and an answer that cannot be
\* understood is not a clean account.
OnlyExecutionsHide ==
    reading = "read" => (exposed \cap named) \ executed \subseteq positions \cup pendingOrders
=============================================================================
