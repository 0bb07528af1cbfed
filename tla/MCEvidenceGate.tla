----------------------------- MODULE MCEvidenceGate -----------------------------
(***************************************************************************)
(* The gate of Learning alone, with a call and a put closed in each        *)
(* session and results of two sizes: a few of all the ways to trade.       *)
(***************************************************************************)
EXTENDS EvidenceGate

MCResults == {-3, 6}

Paired ==
    LET n == Len(shadow')
    IN  n > Len(shadow) =>
            /\ Last(shadow').session = (n + 1) \div 2
            /\ Last(shadow').side = IF n % 2 = 1 THEN "call" ELSE "put"

PairedSpec == GateInit /\ [][GateNext /\ Paired]_evidence
=============================================================================
