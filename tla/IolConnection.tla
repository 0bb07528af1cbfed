---------------------------- MODULE IolConnection ----------------------------
(***************************************************************************)
(* Reading IOL: the access token and its renewal, the three requests of a  *)
(* market frame with the cached catalogue, the requests of an account      *)
(* snapshot, retries and the circuit breaker (src/src/iol_client.rs).      *)
(* A request answers, or fails in a way that may be retried (transport,    *)
(* HTTP status) or not (content, authentication).                          *)
(***************************************************************************)
EXTENDS Integers

CONSTANTS
    TokenLife, TokenMargin, CircuitTime, CatalogLife,   \* in units of time
    Attempts,       \* what callers of market_frame_with_retry ask for
    MaxTime         \* bound

ASSUME ConnectionAssumption ==
    /\ {TokenLife, TokenMargin, CircuitTime, CatalogLife, MaxTime} \subseteq Nat
    /\ Attempts \subseteq Nat \ {0}

VARIABLES
    time,
    token,          \* [expires, refresh]: expires is Absent without an access token
    failures, circuitUntil, catalogUntil,
    call,           \* the request under way: [op, get, phase, attempt, attempts]
    failedRun,      \* history: the failed reads since an answer or a token
    failedAt        \* history: when the last of them failed

connection == <<time, token, failures, circuitUntil, catalogUntil, call, failedRun, failedAt>>

Absent == -1
Idle == [op |-> "idle", get |-> 0, phase |-> "none", attempt |-> 0, attempts |-> 0]
NoToken(refresh) == [expires |-> Absent, refresh |-> refresh]
Gets == 3   \* of a frame: quote, catalogue, options; of an account: state, portfolio, orders

ConnectionInit ==
    /\ time = 0
    /\ token \in {NoToken(r) : r \in {"empty", "good", "revoked"}}
    /\ failures = 0 /\ circuitUntil = 0 /\ catalogUntil = 0
    /\ call = Idle
    /\ failedRun = 0 /\ failedAt = 0

-----------------------------------------------------------------------------
(* A call of the loop                                                      *)

CircuitIsOpen == circuitUntil > time

FirstGet(op, attempt, attempts) ==
    [op |-> op, get |-> 1, phase |-> "ensure", attempt |-> attempt, attempts |-> attempts]

\* market_frame_with_retry answers CircuitOpen at once or starts reading.
StartFrame ==
    /\ call = Idle /\ ~CircuitIsOpen
    /\ \E n \in Attempts : call' = FirstGet("frame", 1, n)
    /\ UNCHANGED <<time, token, failures, circuitUntil, catalogUntil, failedRun, failedAt>>

\* account_snapshot does not look at the circuit.
StartAccount ==
    /\ call = Idle
    /\ call' = FirstGet("account", 1, 1)
    /\ UNCHANGED <<time, token, failures, circuitUntil, catalogUntil, failedRun, failedAt>>

-----------------------------------------------------------------------------
(* How a read fails                                                        *)

\* circuit_breaker_should_open, circuit_breaker_deadline
OpensCircuit(n) == n >= 3

\* Mutant: the count starts again with each circuit.
CountFailureThenReset ==
    /\ failures' = IF OpensCircuit(failures + 1) THEN 0 ELSE failures + 1
    /\ circuitUntil' = IF OpensCircuit(failures + 1) THEN time + CircuitTime ELSE circuitUntil

CountFailure ==
    /\ failures' = failures + 1
    /\ circuitUntil' = IF OpensCircuit(failures + 1) THEN time + CircuitTime ELSE circuitUntil

RetryRemains(retryable) == retryable /\ call.attempt < call.attempts

\* Mutant: a retry is not counted.
NextAttemptSame == call.attempt
NextAttempt == call.attempt + 1

Fail(retryable) ==
    IF call.op = "frame"
    THEN /\ CountFailure
         /\ failedRun' = failedRun + 1 /\ failedAt' = time
         /\ call' = IF ~OpensCircuit(failures + 1) /\ RetryRemains(retryable)
                    THEN FirstGet("frame", NextAttempt, call.attempts)
                    ELSE Idle
         /\ UNCHANGED <<token, catalogUntil>>
    ELSE /\ call' = Idle
         /\ UNCHANGED <<token, failures, circuitUntil, catalogUntil, failedRun, failedAt>>

-----------------------------------------------------------------------------
(* The token                                                               *)

NeedsRefresh == token.expires - time <= TokenMargin

\* apply_token_response: besides the token it forgets failures and circuit.  IOL
\* may send no refresh token, the same, or one it revokes later.
ApplyToken(refresh) ==
    /\ token' = [expires |-> time + TokenLife, refresh |-> refresh]
    /\ failures' = 0 /\ circuitUntil' = 0
    /\ failedRun' = 0 /\ failedAt' = 0
    /\ UNCHANGED catalogUntil

\* ensure_access_token with a token that lasts
TokenLasts ==
    /\ call.phase = "ensure" /\ token.expires # Absent /\ ~NeedsRefresh
    /\ call' = [call EXCEPT !.phase = "send"]
    /\ UNCHANGED <<time, token, failures, circuitUntil, catalogUntil, failedRun, failedAt>>

\* authenticate without a token, refresh when it is about to expire or after a
\* 401; refresh authenticates without a refresh token, and asks in vain with a
\* revoked one.
Renewing == call.phase = "renew" \/ (call.phase = "ensure" /\ (token.expires = Absent \/ NeedsRefresh))

RenewToken ==
    /\ Renewing
    /\ token.expires = Absent \/ token.refresh # "revoked"
    /\ \E refresh \in {token.refresh, "good"} : ApplyToken(refresh)
    /\ call' = [call EXCEPT !.phase = IF @ = "ensure" THEN "send" ELSE "resend"]
    /\ UNCHANGED time

\* No answer, an error status, a body that is no token.
RenewalFails ==
    /\ Renewing
    /\ \E retryable \in BOOLEAN : Fail(retryable)
    /\ UNCHANGED time

-----------------------------------------------------------------------------
(* A GET, repeated once after a 401                                        *)

\* option_contracts spares the catalogue while it is fresh.
NextGet ==
    IF call.op = "frame" /\ call.get = 1 /\ time < catalogUntil THEN 3 ELSE call.get + 1

Answered ==
    /\ call.phase \in {"send", "resend"}
    /\ UNCHANGED <<time, token>>
    /\ catalogUntil' = IF call.op = "frame" /\ call.get = 2 THEN time + CatalogLife ELSE catalogUntil
    /\ IF call.get < Gets
       THEN /\ call' = [call EXCEPT !.get = NextGet, !.phase = "ensure"]
            /\ UNCHANGED <<failures, circuitUntil, failedRun, failedAt>>
       ELSE /\ call' = Idle
            /\ IF call.op = "frame"
               THEN failures' = 0 /\ circuitUntil' = 0 /\ failedRun' = 0 /\ failedAt' = 0
               ELSE UNCHANGED <<failures, circuitUntil, failedRun, failedAt>>

Unauthorized ==
    /\ call.phase = "send"
    /\ call' = [call EXCEPT !.phase = "renew"]
    /\ UNCHANGED <<time, token, failures, circuitUntil, catalogUntil, failedRun, failedAt>>

\* A second 401, another status, no answer, a body that is no JSON or no frame,
\* a catalogue that contradicts its archive.
RequestFails ==
    /\ call.phase \in {"send", "resend"}
    /\ \E retryable \in BOOLEAN : Fail(retryable)
    /\ UNCHANGED time

-----------------------------------------------------------------------------

\* IOL revokes the refresh token.
Revoke ==
    /\ token.refresh = "good"
    /\ token' = [token EXCEPT !.refresh = "revoked"]
    /\ UNCHANGED <<time, failures, circuitUntil, catalogUntil, call, failedRun, failedAt>>

TimePasses ==
    /\ time < MaxTime
    /\ time' = time + 1
    /\ UNCHANGED <<token, failures, circuitUntil, catalogUntil, call, failedRun, failedAt>>

CallStep == TokenLasts \/ RenewToken \/ RenewalFails \/ Answered \/ Unauthorized \/ RequestFails

ConnectionNext == StartFrame \/ StartAccount \/ CallStep \/ Revoke \/ TimePasses

-----------------------------------------------------------------------------

\* From the third failed read in a row on, without an answer or a new token in
\* between, IOL is asked for prices once in 300 seconds: the circuit opens at the
\* third failure and one more failure opens it again, whatever the attempts of
\* each call (market_frame_with_retry).
FailedReadsAreSpaced ==
    [][failedRun' > 3 /\ failedRun' = failedRun + 1 => time >= failedAt + CircuitTime]_connection

\* Every call ends, with an answer or an error, though a 401 repeats the request
\* and a failure the whole frame.  Each request ends because of its timeout.
CallEnds == (call # Idle) ~> (call = Idle)
=============================================================================
