------------------------- MODULE LiveStageProperties -------------------------
(***************************************************************************)
(* What the way to real money keeps: the authority it acts under, and the  *)
(* evidence it acts on.                                                    *)
(***************************************************************************)
EXTENDS LiveStage

\* The types; a grant that armed was claimed, and only issued grants are.
TypeOK ==
    /\ stage \in Stages
    /\ {returnPending, held, calibrated, blocked} \subseteq BOOLEAN
    /\ identity \in Identities
    /\ authorized = NotAuthorized \/ authorized \in [nonce : 1..MaxGrants, readiness : Digests]
    /\ canary \in 0..opened
    /\ used \subseteq consumed /\ consumed \subseteq {g.nonce : g \in issued}

\* Every real purchase (execute_order in Canary or Live) is made under a grant
\* the operator issued, used by this run alone, for exactly the identity, epoch,
\* trades and readiness in force at the purchase; a run that lost its authority
\* has it again only by another grant.
Authority == INSTANCE LiveAuthority WITH
    Nonces <- 1..MaxGrants,
    licence <- IF authorized = NotAuthorized \/ returnPending THEN NoGrant
               ELSE [nonce |-> authorized.nonce,
                     terms |-> (CHOOSE g \in issued : g.nonce = authorized.nonce).terms],
    used <- used, purchases <- purchases

KeepsAuthority == Authority!Spec

\* A close counts once, as evidence of Learning or as performance of Canary,
\* through snapshot, journal, bundle and crash (record_stage_trade,
\* apply_recovery_event, EvidenceBundle import).
TradesCountOnce == Cardinality(learning.trades) + canary <= opened

\* The gate counts closes of its own epoch: README.md:190, "Cierres mínimos del
\* epoch antes de evaluar el gate".
GateCountsItsEpoch == \A t \in learning.trades : t.epoch = learning.epoch
=============================================================================
