--------------------------- MODULE LiveAuthority ---------------------------
(***************************************************************************)
(* What the authorisation of real money promises: every real purchase is   *)
(* made under a licence that says exactly what holds when the order goes   *)
(* out, a licence comes from a grant, and a grant gives one licence, ever. *)
(* Once a licence is withdrawn only another grant brings one back.         *)
(***************************************************************************)
CONSTANT Nonces         \* of the grants

VARIABLES
    used,           \* the grants that gave a licence
    licence,        \* the one in force, or NoLicence: [nonce, terms], the grant
                    \* and what it is bound to
    purchases       \* [nonce, terms]: under which grant, and what held then

authority == <<used, licence, purchases>>

NoLicence == [nonce |-> 0]

Init == used = {} /\ licence = NoLicence /\ purchases = {}

Give ==
    /\ licence = NoLicence
    /\ licence' # NoLicence /\ licence'.nonce \in Nonces \ used
    /\ used' = used \cup {licence'.nonce}
    /\ UNCHANGED purchases

Withdraw == licence' = NoLicence /\ UNCHANGED <<used, purchases>>

Purchase ==
    /\ licence # NoLicence
    /\ purchases' = purchases \cup {licence}
    /\ UNCHANGED <<used, licence>>

Next == Give \/ Withdraw \/ Purchase

Spec == Init /\ [][Next]_authority
=============================================================================
