------------------------------ MODULE LiveStage ------------------------------
(***************************************************************************)
(* The way from simulated to real money and back, in MODE=live: evidence,  *)
(* readiness, the operator's grant, the stages, the return to Learning,    *)
(* and what of it survives a crash (src/src/app.rs, learning.rs,           *)
(* release_readiness.rs, main.rs --authorize-live).                        *)
(*                                                                         *)
(* The identity stands for the strategy fingerprint with its build hash.   *)
(* Account, kill switch and market gates are EngineControl's: a promotion  *)
(* or an entry may always be skipped here.                                 *)
(***************************************************************************)
EXTENDS Integers, Sequences, FiniteSets, SequencesExt

CONSTANTS
    Identities,     \* fingerprints of builds and configurations
    Digests,        \* of signed readiness files
    MinTrades,      \* closes the gate asks for
    MaxTrades, MaxGrants, MaxRuns   \* bounds: positions, grants issued, starts

ASSUME StageAssumption ==
    /\ {MinTrades, MaxTrades, MaxGrants, MaxRuns} \subseteq Nat \ {0}
    /\ 0 \notin Identities \cup Digests

VARIABLES
    stage, returnPending,   \* live_stage, return_to_learning_pending
    identity,               \* strategy_manifest
    learning,               \* learning_state: [epoch, fingerprint, trades]
    canary,                 \* Canary closes in trading_performance
    authorized,             \* authorized_readiness_sha256 (and, history, its grant)
    held,                   \* a position is open
    calibrated, blocked,
    part, then, candidate,  \* part of the step; where a stage change goes on; the
                            \* readiness and the grant a promotion has in hand
    snapshot, events,       \* state.json, and the journal after it
    bundles,                \* evidence-bundle.json of each identity
    request, grant, consumed,   \* live-authorization-request.json, the grant file,
                            \* consumed-authorizations/
    issued, expired,        \* all grants; the nonces older than 15 minutes
    readiness,              \* the readiness file: a digest, or 0 when not valid
    opened, runs,           \* positions opened so far; starts
    used, purchases         \* history: grants that armed, real purchases

memory == <<stage, returnPending, identity, learning, canary, authorized, held,
            calibrated, blocked>>
control == <<part, then, candidate>>
disk == <<snapshot, events, bundles>>
files == <<request, grant, consumed, issued, expired, readiness>>
history == <<opened, runs, used, purchases>>
stageVars == <<memory, control, disk, files, history>>

Stages == {"Learning", "Eligible", "Armed", "Canary", "Live"}
RealStages == {"Canary", "Live"}
NoGrant == [nonce |-> 0]
NotAuthorized == [nonce |-> 0, readiness |-> 0]

NewLearning(f) == [epoch |-> 1, fingerprint |-> f, trades |-> {}]
\* LearningState::reset
Reset(l, f) == [epoch |-> l.epoch + 1, fingerprint |-> f, trades |-> {}]
\* LearningState::record: a trade counts once.
Recorded(l, trades) ==
    [l EXCEPT !.trades = @ \cup {t \in trades : \A u \in l.trades : u.id # t.id}]
\* A closed trade; the epoch it closed in is history.
Trade(id) == [id |-> id, epoch |-> learning.epoch]
\* LearningReport::eligible
Approved(l) == Cardinality(l.trades) >= MinTrades

Snapshot == [stage |-> stage, returnPending |-> returnPending, learning |-> learning,
             canary |-> canary, held |-> held]

StageInit ==
    /\ stage = "Learning" /\ returnPending = FALSE /\ canary = 0
    /\ identity \in Identities /\ learning = NewLearning(identity)
    /\ authorized = NotAuthorized /\ held = FALSE
    /\ calibrated = FALSE /\ blocked = FALSE
    /\ part = "context" /\ then = "idle" /\ candidate = NotAuthorized
    /\ snapshot = Snapshot /\ events = <<>>
    /\ bundles = [i \in Identities |-> {}]
    /\ request = NoGrant /\ grant = NoGrant /\ consumed = {} /\ issued = {}
    /\ expired = {}
    /\ readiness \in Digests
    /\ opened = 0 /\ runs = 1 /\ used = {} /\ purchases = {}

-----------------------------------------------------------------------------
(* Stage changes.                                                          *)

\* transition_live_stage: the change is journaled and synced before it is made;
\* the step goes on at `next` once the snapshot is saved.
Journal(to, next) ==
    /\ events' = Append(events, [kind |-> "Stage", to |-> to, trade |-> Trade(0)])
    /\ part' = "changing" /\ then' = next

\* Memory, then the snapshot; a promotion to Live clears trading_performance
\* after the snapshot.
EnterStage ==
    LET to == Last(events).to IN
    /\ part = "changing"
    /\ stage' = to
    /\ authorized' = IF to = "Learning" THEN NotAuthorized ELSE authorized
    /\ canary' = IF to = "Live" THEN 0 ELSE canary
    /\ snapshot' = [Snapshot EXCEPT !.stage = to] /\ events' = <<>>
    /\ part' = then
    /\ UNCHANGED <<returnPending, identity, learning, held, calibrated, blocked, then,
                   candidate, bundles, files, history>>

\* What follows apply_pending_learning_return, in the three places of a step.
AfterReturn == [returnedEarly |-> "exit", returned |-> "promote", returnedLate |-> "refused"]

Return(place) ==
    IF stage # "Learning" /\ returnPending' /\ ~held'
    THEN Journal("Learning", place)
    ELSE part' = AfterReturn[place] /\ UNCHANGED <<events, then>>

ResetLearning ==
    /\ part \in DOMAIN AfterReturn
    /\ learning' = Reset(learning, identity)
    /\ canary' = 0 /\ returnPending' = FALSE
    /\ part' = AfterReturn[part]
    /\ UNCHANGED <<stage, identity, authorized, held, calibrated, blocked, then,
                   candidate, disk, files, history>>

-----------------------------------------------------------------------------
(* A step.                                                                 *)

\* apply_cost_calibration, once a run, from initialize_iol_context: IOL has no
\* finished operation, contradicts the multiplier, or moves the costs.
LoadContext ==
    /\ part = "context"
    /\ \/ UNCHANGED <<returnPending, identity, learning, calibrated, blocked>>
       \/ \E mismatch \in BOOLEAN, costs \in Identities :
            /\ calibrated' = TRUE
            /\ blocked' = mismatch
            /\ identity' = costs
            /\ returnPending' =
                \/ costs # identity /\ stage # "Learning"
                \/ IF mismatch THEN stage # "Learning" ELSE returnPending
            /\ learning' =
                IF costs = identity \/ stage # "Learning" THEN learning
                ELSE IF learning.trades = {} THEN [learning EXCEPT !.fingerprint = costs]
                ELSE Reset(learning, costs)
    /\ part' = "idle"
    /\ UNCHANGED <<stage, canary, authorized, held, then, candidate, disk, files, history>>

\* The calibration expires or the readiness no longer is the authorised one.
CheckLive ==
    /\ part = "idle" /\ ~blocked
    /\ returnPending' =
        \/ returnPending
        \/ stage # "Learning" /\ ~calibrated
        \/ stage \in RealStages /\ (readiness = 0 \/ readiness # authorized.readiness)
    /\ UNCHANGED <<held, stage>>
    /\ IF returnPending THEN part' = "exit" /\ UNCHANGED <<events, then>> ELSE Return("returnedEarly")
    /\ UNCHANGED <<identity, learning, canary, authorized, calibrated, blocked,
                   candidate, snapshot, bundles, files, history>>

\* A blocked reconciliation ends the step.
BlockedStep ==
    /\ part = "idle" /\ blocked
    /\ part' = "end"
    /\ UNCHANGED <<memory, then, candidate, disk, files, history>>

\* close_position with record_stage_trade: evidence in Learning, else
\* performance, whose regression schedules the return.
Close ==
    /\ part = "exit" /\ held
    /\ \E regressed \in BOOLEAN :
        /\ regressed => stage # "Learning"
        /\ returnPending' = (returnPending \/ regressed)
    /\ held' = FALSE
    /\ IF stage = "Learning"
       THEN /\ learning' = Recorded(learning, {Trade(opened)})
            /\ bundles' = [bundles EXCEPT ![identity] = learning'.trades]
       ELSE UNCHANGED <<learning, bundles>>
    /\ canary' = IF stage = "Canary" THEN canary + 1 ELSE canary
    /\ events' = Append(events, [kind |-> "Closed", to |-> stage, trade |-> Trade(opened)])
    /\ part' = "return"
    /\ UNCHANGED <<stage, identity, authorized, calibrated, blocked, then,
                   candidate, snapshot, files, history>>

HoldPosition ==
    /\ part = "exit"
    /\ part' = "return"
    /\ UNCHANGED <<memory, then, candidate, disk, files, history>>

ReturnIfPending ==
    /\ part = "return"
    /\ UNCHANGED <<returnPending, held>>
    /\ Return("returned")
    /\ UNCHANGED <<stage, identity, learning, canary, authorized, calibrated, blocked,
                   candidate, snapshot, bundles, files, history>>

-----------------------------------------------------------------------------
(* Promotions: maybe_promote_live.                                         *)

MayPromote == part = "promote" /\ ~held

\* No promotion, for any of its reasons.
Stay ==
    /\ part \in {"promote", "account"}
    /\ part' = "entry" /\ candidate' = NotAuthorized
    /\ UNCHANGED <<memory, then, disk, files, history>>

PromoteToEligible ==
    /\ MayPromote /\ stage = "Learning"
    /\ calibrated /\ Approved(learning)
    /\ Journal("Eligible", "entry")
    /\ UNCHANGED <<memory, candidate, snapshot, bundles, files, history>>

\* release_readiness_digest; then the account, an await.
ReadReadiness ==
    /\ MayPromote /\ stage = "Eligible"
    /\ readiness # 0
    /\ candidate' = [nonce |-> 0, readiness |-> readiness]
    /\ part' = "account"
    /\ UNCHANGED <<memory, then, disk, files, history>>

\* What a grant is bound to: AuthorizationRequest.
Terms(digest) == [identity |-> identity, epoch |-> learning.epoch, readiness |-> digest,
                  trades |-> learning.trades]

\* Mutant: a grant that was consumed is taken again.
AuthorizationIsReusable(terms) ==
    /\ grant # NoGrant /\ grant.terms = terms
    /\ grant.nonce \notin expired

\* authorization_is_valid
AuthorizationIsValid(terms) ==
    /\ grant # NoGrant /\ grant.terms = terms
    /\ grant.nonce \notin expired \cup consumed

\* Mutant: a grant is used without a trace of it.
ClaimGrantUnrecorded ==
    /\ part = "account"
    /\ request' = Terms(candidate.readiness)
    /\ IF AuthorizationIsValid(request')
       THEN /\ candidate' = [candidate EXCEPT !.nonce = grant.nonce]
            /\ part' = "claimed"
       ELSE part' = "entry" /\ candidate' = NotAuthorized
    /\ UNCHANGED <<memory, then, disk, consumed, grant, issued, expired, readiness, history>>

\* ensure_authorization_request keeps the request file current; a valid grant is
\* claimed by a hard link under its nonce ...
ClaimGrant ==
    /\ part = "account"
    /\ request' = Terms(candidate.readiness)
    /\ IF AuthorizationIsValid(request')
       THEN /\ consumed' = consumed \cup {grant.nonce}
            /\ candidate' = [candidate EXCEPT !.nonce = grant.nonce]
            /\ part' = "claimed"
       ELSE part' = "entry" /\ candidate' = NotAuthorized /\ UNCHANGED consumed
    /\ UNCHANGED <<memory, then, disk, grant, issued, expired, readiness, history>>

\* ... and its file removed, before anything is armed.
RemoveGrant ==
    /\ part = "claimed"
    /\ grant' = NoGrant
    /\ part' = "removed"
    /\ UNCHANGED <<memory, then, candidate, disk, request, consumed, issued, expired, readiness,
                   history>>

Arm ==
    /\ part = "removed"
    /\ authorized' = candidate /\ candidate' = NotAuthorized
    /\ used' = used \cup {candidate.nonce}
    /\ Journal("Armed", "entry")
    /\ UNCHANGED <<stage, returnPending, identity, learning, canary, held, calibrated, blocked,
                   snapshot, bundles, files, opened, runs, purchases>>

\* Preflight, and canary_eligible: at least one Canary close.
PromoteOnward ==
    /\ MayPromote
    /\ \/ stage = "Armed" /\ Journal("Canary", "entry")
       \/ stage = "Canary" /\ canary > 0 /\ Journal("Live", "entry")
    /\ UNCHANGED <<memory, candidate, snapshot, bundles, files, history>>

-----------------------------------------------------------------------------
(* Entries.                                                                *)

\* Bound: positions opened.
MayEnter == part = "entry" /\ ~held /\ opened < MaxTrades

Opened ==
    /\ held' = TRUE
    /\ opened' = opened + 1
    /\ events' = Append(events, [kind |-> "Opened", to |-> stage, trade |-> Trade(opened')])

EnterOnPaper ==
    /\ MayEnter /\ stage \notin RealStages
    /\ Opened
    /\ part' = "end"
    /\ UNCHANGED <<stage, returnPending, identity, learning, canary, authorized, calibrated, blocked,
                   then, candidate, snapshot, bundles, files, runs, used, purchases>>

\* live_entry_authorization_is_valid
EntryIsAuthorized == readiness # 0 /\ readiness = authorized.readiness

\* execute_order of a real buy.
EnterWithMoney ==
    /\ MayEnter /\ stage \in RealStages /\ EntryIsAuthorized
    /\ purchases' = purchases \cup {[nonce |-> authorized.nonce, terms |-> Terms(readiness)]}
    /\ \/ Opened
       \/ UNCHANGED <<held, opened, events>>   \* rejected, or cancelled without fills
    /\ part' = "end"
    /\ UNCHANGED <<stage, returnPending, identity, learning, canary, authorized, calibrated, blocked,
                   then, candidate, snapshot, bundles, files, runs, used>>

\* The readiness changed since CheckLive: the step returns to Learning and fails.
RefuseEntry ==
    /\ MayEnter /\ stage \in RealStages /\ ~EntryIsAuthorized
    /\ returnPending' = TRUE
    /\ UNCHANGED <<held, stage>>
    /\ Return("returnedLate")
    /\ UNCHANGED <<identity, learning, canary, authorized, calibrated, blocked,
                   candidate, snapshot, bundles, files, history>>

NoEntry ==
    /\ part = "entry"
    /\ part' = "end"
    /\ UNCHANGED <<memory, then, candidate, disk, files, history>>

\* Mutant: the snapshot does not say which events it counts.
SaveSnapshotKeepingEvents ==
    /\ part = "end"
    /\ snapshot' = Snapshot
    /\ part' = "idle"
    /\ UNCHANGED <<memory, then, candidate, events, bundles, files, history>>

SaveSnapshot ==
    /\ part = "end"
    /\ snapshot' = Snapshot /\ events' = <<>>
    /\ part' = "idle"
    /\ UNCHANGED <<memory, then, candidate, bundles, files, history>>

-----------------------------------------------------------------------------
(* The end of a run, and the next start.                                   *)

Down ==
    /\ part' = "off" /\ then' = "idle" /\ candidate' = NotAuthorized
    /\ authorized' = NotAuthorized /\ calibrated' = FALSE /\ blocked' = FALSE
    /\ stage' = snapshot'.stage /\ returnPending' = snapshot'.returnPending
    /\ learning' = snapshot'.learning /\ canary' = snapshot'.canary
    /\ held' = snapshot'.held
    /\ UNCHANGED <<identity, bundles, files, history>>

Crash == part # "off" /\ UNCHANGED <<snapshot, events>> /\ Down

\* A key, Ctrl-C or an error of the step; shutdown saves what memory holds.
Shutdown ==
    /\ part # "off"
    /\ snapshot' = Snapshot /\ events' = <<>>
    /\ Down

\* apply_recovery_event and the stage changes.
Replay(s, e) ==
    CASE e.kind = "Stage" -> [s EXCEPT !.stage = e.to]
      [] e.kind = "Opened" -> [s EXCEPT !.held = TRUE]
      [] e.kind = "Closed" /\ e.to = "Learning" ->
            [s EXCEPT !.held = FALSE, !.learning = Recorded(@, {e.trade})]
      [] OTHER -> [s EXCEPT !.held = FALSE,
                            !.canary = IF e.to = "Canary" THEN @ + 1 ELSE @]

\* Another identity starts Learning anew; then the journal; then the bundle.
Recovered(i) ==
    LET own == IF snapshot.learning.fingerprint = i THEN snapshot
               ELSE [snapshot EXCEPT !.learning = Reset(@, i), !.stage = "Learning",
                                     !.returnPending = FALSE]
        replayed == FoldLeft(Replay, own, events)
    IN  [replayed EXCEPT !.learning = Recorded(@, bundles[i])]

\* new_with_source; the first snapshot of the run follows its first step.
Restart ==
    /\ part = "off" /\ runs < MaxRuns
    /\ runs' = runs + 1
    /\ \E i \in Identities, fresh \in BOOLEAN :
        LET r == Recovered(i) IN
        /\ identity' = i /\ calibrated' = fresh
        /\ stage' = r.stage /\ returnPending' = r.returnPending
        /\ learning' = r.learning /\ canary' = r.canary /\ held' = r.held
    /\ part' = "context"
    /\ UNCHANGED <<authorized, blocked, then, candidate, disk, files, opened, used, purchases>>

-----------------------------------------------------------------------------
(* The operator and time.  What they change, other parts of the step do    *)
(* not read, so they act just before the parts that do.                    *)

\* --authorize-live, for the request as it is; the output file must not exist.
IssueGrant ==
    /\ part = "account" /\ request # NoGrant /\ grant = NoGrant
    /\ Cardinality(issued) < MaxGrants
    /\ grant' = [nonce |-> Cardinality(issued) + 1, terms |-> request]
    /\ issued' = issued \cup {grant'}
    /\ UNCHANGED <<memory, control, disk, request, consumed, expired, readiness, history>>

\* A copy of an earlier grant is put back.
CopyGrant ==
    /\ part \in {"account", "claimed"}
    /\ \E g \in issued : grant' = g
    /\ UNCHANGED <<memory, control, disk, request, consumed, issued, expired, readiness, history>>

ExpireGrants ==
    /\ part = "account"
    /\ expired' = {g.nonce : g \in issued}
    /\ UNCHANGED <<memory, control, disk, request, grant, consumed, issued, readiness, history>>

\* Another readiness file, or none that verifies.
ChangeReadiness ==
    /\ part \in {"idle", "promote", "entry"}
    /\ readiness' \in Digests \cup {0}
    /\ UNCHANGED <<memory, control, disk, request, grant, consumed, issued, expired, history>>

ExpireCalibration ==
    /\ part \in {"idle", "promote"}
    /\ calibrated' = FALSE
    /\ UNCHANGED <<stage, returnPending, identity, learning, canary, authorized, held, blocked,
                   control, disk, files, history>>

-----------------------------------------------------------------------------
Step == \/ LoadContext \/ CheckLive \/ BlockedStep \/ Close \/ HoldPosition \/ ReturnIfPending
        \/ EnterStage \/ ResetLearning
        \/ Stay \/ PromoteToEligible \/ ReadReadiness \/ ClaimGrant \/ RemoveGrant \/ Arm
        \/ PromoteOnward \/ EnterOnPaper \/ EnterWithMoney \/ RefuseEntry \/ NoEntry \/ SaveSnapshot
Environment == IssueGrant \/ CopyGrant \/ ExpireGrants \/ ChangeReadiness \/ ExpireCalibration

StageNext == Step \/ Crash \/ Shutdown \/ Restart \/ Environment

StageSpec == StageInit /\ [][StageNext]_stageVars
=============================================================================
