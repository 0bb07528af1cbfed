---------------------------- MODULE LiveStageProofs ----------------------------
(***************************************************************************)
(* Real money is spent only as LiveAuthority allows, and a close counts as *)
(* evidence once, for any identities, digests, evidence asked for, and     *)
(* number of trades, grants and starts.                                    *)
(***************************************************************************)
EXTENDS LiveStageProperties, FoldFacts, FiniteSetTheorems, TLAPS

\* Grants are numbered, and the one on file is one of them.
GrantsInv ==
    /\ IsFiniteSet(issued) /\ Cardinality(issued) <= MaxGrants
    /\ \A g \in issued : g.nonce \in 1..Cardinality(issued)
    /\ \A g, h \in issued : g.nonce = h.nonce => g = h
    /\ grant = NoGrant \/ grant \in issued
    /\ used \subseteq consumed

GrantFor(nonce, digest) ==
    \E g \in issued : g.nonce = nonce /\ g.terms = Terms(digest)

\* What armed this run still says what holds.
AuthorizedInv ==
    /\ authorized # NotAuthorized => GrantFor(authorized.nonce, authorized.readiness)
    /\ stage = "Learning" \/ part \in {"off", "context"} => authorized = NotAuthorized
    /\ stage = "Eligible" /\ part # "changing" => authorized = NotAuthorized

\* A promotion to Armed starts without a position or a return, and claims a
\* grant that never armed.
CandidateInv ==
    /\ part \in {"account", "claimed", "removed"} =>
        /\ stage = "Eligible" /\ ~held /\ ~returnPending
        /\ candidate = [nonce |-> candidate.nonce, readiness |-> candidate.readiness]
    /\ part \in {"claimed", "removed"} =>
        /\ GrantFor(candidate.nonce, candidate.readiness)
        /\ candidate.nonce \in consumed \ used

Changes ==
    \/ Last(events).to = "Learning" /\ then \in DOMAIN AfterReturn
    \/ Last(events).to = "Eligible" /\ then = "entry" /\ authorized = NotAuthorized
    \/ Last(events).to \in {"Armed", "Canary", "Live"} /\ then = "entry" /\ ~returnPending

\* A flat program goes on to promotions, and to real entries, with no return left.
ReturnInv ==
    /\ \E S : events \in Seq(S)
    /\ part = "changing" => Changes
    /\ part \in DOMAIN AfterReturn => stage = "Learning"
    /\ part = "promote" /\ stage # "Learning" /\ ~held => ~returnPending
    /\ part = "entry" /\ stage \in RealStages /\ ~held => ~returnPending

StageInv == GrantsInv /\ AuthorizedInv /\ CandidateInv /\ ReturnInv

-----------------------------------------------------------------------------

LEMMA Places ==
    /\ DOMAIN AfterReturn = {"returnedEarly", "returned", "returnedLate"}
    /\ AfterReturn["returnedEarly"] = "exit"
    /\ AfterReturn["returned"] = "promote"
    /\ AfterReturn["returnedLate"] = "refused"
  BY DEF AfterReturn

LEMMA AppendLast ==
    ASSUME NEW S, NEW s \in Seq(S), NEW e
    PROVE  (\E T : Append(s, e) \in Seq(T)) /\ Last(Append(s, e)) = e
  <1> DEFINE T == S \cup {e}
  <1>1. s \in Seq(T) /\ e \in T  OBVIOUS
  <1> HIDE DEF T
  <1>2. Append(s, e) \in Seq(T) /\ Len(Append(s, e)) = Len(s) + 1 /\ Append(s, e)[Len(s) + 1] = e
    BY <1>1
  <1> QED  BY <1>2 DEF Last

LEMMA StageStarts == StageInit => StageInv
  <1> SUFFICES ASSUME StageInit PROVE StageInv  OBVIOUS
  <1>1. GrantsInv
    BY StageAssumption, FS_EmptySet DEF StageInit, GrantsInv
  <1>2. AuthorizedInv /\ CandidateInv  BY DEF StageInit, AuthorizedInv, CandidateInv
  <1>3. ReturnInv
    <2>1. <<>> \in Seq({})  OBVIOUS
    <2>2. \E S : events \in Seq(S)  BY <2>1, Zenon DEF StageInit
    <2> QED  BY <2>2, Places DEF StageInit, ReturnInv
  <1> QED  BY <1>1, <1>2, <1>3 DEF StageInv

\* The grants say the same whatever a step does but issue, claim and arm.
LEMMA SameGrants ==
    ASSUME GrantsInv, UNCHANGED <<issued, grant, consumed, used>>
    PROVE  GrantsInv'
  BY DEF GrantsInv

LEMMA SameTerms ==
    ASSUME UNCHANGED <<issued, identity, learning>>, NEW n, NEW d
    PROVE  GrantFor(n, d)' <=> GrantFor(n, d)
  BY DEF GrantFor, Terms

\* A change of stage is in the journal when its turn comes.
LEMMA JournalChanges ==
    ASSUME StageInv, NEW to, NEW next, Journal(to, next)
    PROVE  /\ (\E S : events \in Seq(S))' /\ Last(events').to = to
           /\ part' = "changing" /\ then' = next
  <1>1. PICK S : events \in Seq(S)  BY DEF StageInv, ReturnInv
  <1> DEFINE e == [kind |-> "Stage", to |-> to, trade |-> Trade(0)]
  <1>2. events' = Append(events, e) /\ part' = "changing" /\ then' = next  BY DEF Journal
  <1>3. e.to = to  OBVIOUS
  <1> HIDE DEF e
  <1> QED  BY <1>1, <1>2, <1>3, AppendLast

LEMMA EventAppended ==
    ASSUME StageInv, NEW e, events' = Append(events, e)
    PROVE  (\E S : events \in Seq(S))'
  <1>1. PICK S : events \in Seq(S)  BY DEF StageInv, ReturnInv
  <1> QED  BY <1>1, AppendLast

-----------------------------------------------------------------------------
(* Each part of a step keeps the invariant.                                *)

\* A part that changes no stage and no authority, and ends elsewhere.
LEMMA CalmKeeps ==
    ASSUME StageInv, UNCHANGED <<stage, identity, learning, authorized>>,
           UNCHANGED <<issued, grant, consumed, used>>,
           part # "changing", (\E S : events \in Seq(S))',
           part' \in {"idle", "exit", "return", "entry", "end"},
           part' = "entry" /\ stage \in RealStages /\ ~held' => ~returnPending'
    PROVE  StageInv'
  <1>1. GrantsInv'  BY SameGrants DEF StageInv
  <1>2. AuthorizedInv'  BY SameTerms DEF StageInv, AuthorizedInv
  <1>3. CandidateInv'  BY DEF CandidateInv
  <1>4. ReturnInv'  BY Places DEF ReturnInv
  <1> QED  BY <1>1, <1>2, <1>3, <1>4 DEF StageInv

LEMMA ReturnKeeps ==
    ASSUME StageInv, NEW place \in DOMAIN AfterReturn, Return(place),
           UNCHANGED <<stage, identity, learning, authorized>>,
           UNCHANGED <<issued, grant, consumed, used>>,
           part \notin {"changing", "off", "context"}
    PROVE  StageInv'
  <1>1. GrantsInv'  BY SameGrants DEF StageInv
  <1>2. CASE Journal("Learning", place)
    <2>1. /\ (\E S : events \in Seq(S))' /\ Last(events').to = "Learning"
          /\ part' = "changing" /\ then' = place
      BY <1>2, JournalChanges
    <2>2. AuthorizedInv'  BY <2>1, SameTerms DEF StageInv, AuthorizedInv
    <2>3. CandidateInv'  BY <2>1 DEF CandidateInv
    <2>4. ReturnInv'  BY <2>1, Places DEF ReturnInv, Changes, AfterReturn
    <2> QED  BY <1>1, <2>2, <2>3, <2>4 DEF StageInv
  <1>3. CASE /\ stage = "Learning" \/ ~returnPending' \/ held'
             /\ part' = AfterReturn[place] /\ events' = events
    <2>1. part' \in {"exit", "promote", "refused"}  BY <1>3, Places
    <2>2. AuthorizedInv'  BY <2>1, SameTerms DEF StageInv, AuthorizedInv
    <2>3. CandidateInv'  BY <2>1 DEF CandidateInv
    <2>4. ReturnInv'  BY <1>3, <2>1, Places DEF StageInv, ReturnInv
    <2> QED  BY <1>1, <2>2, <2>3, <2>4 DEF StageInv
  <1> QED  BY <1>2, <1>3 DEF Return

\* A promotion from part "promote", or the one that arms.
LEMMA PromotionKeeps ==
    ASSUME StageInv, NEW to, Journal(to, "entry"), part \in {"promote", "removed"},
           UNCHANGED <<stage, returnPending, identity, learning>>, GrantsInv',
           authorized' # NotAuthorized =>
                stage # "Learning" /\ GrantFor(authorized.nonce, authorized.readiness)',
           \/ to = "Eligible" /\ authorized' = NotAuthorized
           \/ to \in {"Armed", "Canary", "Live"} /\ ~returnPending
    PROVE  StageInv'
  <1>1. /\ (\E S : events \in Seq(S))' /\ Last(events').to = to
        /\ part' = "changing" /\ then' = "entry"
    BY JournalChanges
  <1>2. AuthorizedInv'  BY <1>1 DEF AuthorizedInv
  <1>3. CandidateInv'  BY <1>1 DEF CandidateInv
  <1>4. ReturnInv'  BY <1>1, Places DEF ReturnInv, Changes
  <1> QED  BY <1>2, <1>3, <1>4 DEF StageInv

LEMMA LoadContextKeeps == ASSUME StageInv, LoadContext PROVE StageInv'
  <1>1. /\ part = "context" /\ part' = "idle" /\ authorized' = authorized /\ stage' = stage
        /\ events' = events /\ UNCHANGED <<issued, grant, consumed, used>>
    BY DEF LoadContext, disk, files, history
  <1>2. GrantsInv'  BY <1>1, SameGrants DEF StageInv
  <1>3. AuthorizedInv'  BY <1>1 DEF StageInv, AuthorizedInv
  <1>4. CandidateInv'  BY <1>1 DEF CandidateInv
  <1>5. ReturnInv'  BY <1>1, Places DEF StageInv, ReturnInv
  <1> QED  BY <1>2, <1>3, <1>4, <1>5 DEF StageInv

LEMMA CheckLiveKeeps == ASSUME StageInv, CheckLive PROVE StageInv'
  <1>1. /\ part = "idle" /\ UNCHANGED <<stage, identity, learning, authorized>>
        /\ UNCHANGED <<issued, grant, consumed, used>>
    BY DEF CheckLive, files, history
  <1>2. CASE part' = "exit" /\ UNCHANGED events
    <2>1. (\E S : events \in Seq(S))'  BY <1>2 DEF StageInv, ReturnInv
    <2> QED  BY <1>1, <1>2, <2>1, CalmKeeps
  <1>3. CASE Return("returnedEarly")  BY <1>1, <1>3, ReturnKeeps, Places
  <1> QED  BY <1>2, <1>3 DEF CheckLive

LEMMA EnterStageKeeps == ASSUME StageInv, EnterStage PROVE StageInv'
  <1> DEFINE to == Last(events).to
  <1>1. /\ part = "changing" /\ stage' = to /\ events' = <<>> /\ part' = then
        /\ authorized' = IF to = "Learning" THEN NotAuthorized ELSE authorized
        /\ UNCHANGED <<returnPending, identity, learning, held>>
        /\ UNCHANGED <<issued, grant, consumed, used>>
    BY DEF EnterStage, files, history
  <1>2. Changes /\ (then = "entry" \/ then \in {"returnedEarly", "returned", "returnedLate"})
    BY <1>1, Places DEF StageInv, ReturnInv, Changes
  <1>3. GrantsInv'  BY <1>1, SameGrants DEF StageInv
  <1>4. AuthorizedInv'
    <2>1. authorized' # NotAuthorized => GrantFor(authorized.nonce, authorized.readiness)'
      BY <1>1, SameTerms DEF StageInv, AuthorizedInv
    <2> QED  BY <1>1, <1>2, <2>1 DEF AuthorizedInv, Changes
  <1>5. CandidateInv'  BY <1>1, <1>2 DEF CandidateInv
  <1>6. ReturnInv'
    <2>1. <<>> \in Seq({})  OBVIOUS
    <2>2. (\E S : events \in Seq(S))'  BY <1>1, <2>1, Zenon
    <2>3. then \in DOMAIN AfterReturn => to = "Learning"  BY <1>2, Places DEF Changes
    <2> QED  BY <1>1, <1>2, <2>2, <2>3, Places DEF ReturnInv, Changes, RealStages
  <1> QED  BY <1>3, <1>4, <1>5, <1>6 DEF StageInv

LEMMA ResetLearningKeeps == ASSUME StageInv, ResetLearning PROVE StageInv'
  <1>1. /\ part \in DOMAIN AfterReturn /\ part' = AfterReturn[part] /\ stage' = stage
        /\ returnPending' = FALSE /\ authorized' = authorized /\ events' = events
        /\ UNCHANGED <<issued, grant, consumed, used>>
    BY DEF ResetLearning, disk, files, history
  <1>2. stage = "Learning" /\ part' \in {"exit", "promote", "refused"}
    BY <1>1, Places DEF StageInv, ReturnInv
  <1>3. GrantsInv'  BY <1>1, SameGrants DEF StageInv
  <1>4. AuthorizedInv'  BY <1>1, <1>2 DEF StageInv, AuthorizedInv
  <1>5. CandidateInv'  BY <1>2 DEF CandidateInv
  <1>6. ReturnInv'  BY <1>1, <1>2, Places DEF StageInv, ReturnInv
  <1> QED  BY <1>3, <1>4, <1>5, <1>6 DEF StageInv

LEMMA CloseKeeps == ASSUME StageInv, Close PROVE StageInv'
  <1>1. /\ part = "exit" /\ part' = "return" /\ authorized' = authorized /\ stage' = stage
        /\ UNCHANGED <<issued, grant, consumed, used, identity>>
        /\ \E e : events' = Append(events, e)
        /\ stage # "Learning" => learning' = learning
    BY DEF Close, files, history
  <1>2. (\E S : events \in Seq(S))'  BY <1>1, EventAppended
  <1>3. GrantsInv'  BY <1>1, SameGrants DEF StageInv
  <1>4. AuthorizedInv'  BY <1>1, SameTerms DEF StageInv, AuthorizedInv
  <1>5. CandidateInv'  BY <1>1 DEF CandidateInv
  <1>6. ReturnInv'  BY <1>1, <1>2, Places DEF ReturnInv
  <1> QED  BY <1>3, <1>4, <1>5, <1>6 DEF StageInv

LEMMA PromoteKeeps ==
    ASSUME StageInv, PromoteToEligible \/ PromoteOnward PROVE StageInv'
  <1>1. /\ part = "promote" /\ ~held /\ authorized' = authorized
        /\ UNCHANGED <<stage, returnPending, identity, learning>>
        /\ UNCHANGED <<issued, grant, consumed, used>>
    BY DEF PromoteToEligible, PromoteOnward, MayPromote, memory, files, history
  <1>2. GrantsInv'  BY <1>1, SameGrants DEF StageInv
  <1>3. authorized' # NotAuthorized =>
            stage # "Learning" /\ GrantFor(authorized.nonce, authorized.readiness)'
    BY <1>1, SameTerms DEF StageInv, AuthorizedInv
  <1>4. CASE PromoteToEligible
    <2>1. Journal("Eligible", "entry") /\ authorized' = NotAuthorized
      BY <1>1, <1>4 DEF PromoteToEligible, StageInv, AuthorizedInv
    <2> QED  BY <1>1, <1>2, <1>3, <2>1, PromotionKeeps
  <1>5. CASE PromoteOnward
    <2>1. ~returnPending
      BY <1>1, <1>5 DEF PromoteOnward, StageInv, ReturnInv
    <2>2. CASE Journal("Canary", "entry")  BY <1>1, <1>2, <1>3, <2>1, <2>2, PromotionKeeps
    <2>3. CASE Journal("Live", "entry")  BY <1>1, <1>2, <1>3, <2>1, <2>3, PromotionKeeps
    <2> QED  BY <1>5, <2>2, <2>3 DEF PromoteOnward
  <1> QED  BY <1>4, <1>5

\* The account is awaited, the request kept, the grant claimed and removed.
LEMMA CandidateKeeps ==
    ASSUME StageInv, part \notin {"changing", "off", "context"},
           UNCHANGED <<stage, returnPending, identity, learning, authorized, held, events>>,
           UNCHANGED issued, GrantsInv', CandidateInv', part' \in {"account", "claimed", "removed"}
    PROVE  StageInv'
  <1>1. AuthorizedInv'  BY SameTerms DEF StageInv, AuthorizedInv
  <1>2. ReturnInv'  BY Places DEF StageInv, ReturnInv
  <1> QED  BY <1>1, <1>2 DEF StageInv

LEMMA ReadReadinessKeeps == ASSUME StageInv, ReadReadiness PROVE StageInv'
  <1>1. /\ part = "promote" /\ stage = "Eligible" /\ ~held /\ part' = "account"
        /\ candidate' = [nonce |-> 0, readiness |-> readiness]
        /\ UNCHANGED <<stage, returnPending, identity, learning, authorized, held, events>>
        /\ UNCHANGED <<issued, grant, consumed, used>>
    BY DEF ReadReadiness, MayPromote, memory, disk, files, history
  <1>2. GrantsInv'  BY <1>1, SameGrants DEF StageInv
  <1>3. CandidateInv'  BY <1>1 DEF StageInv, ReturnInv, CandidateInv
  <1> QED  BY <1>1, <1>2, <1>3, CandidateKeeps

LEMMA ClaimGrantKeeps == ASSUME StageInv, ClaimGrant PROVE StageInv'
  <1>1. /\ part = "account"
        /\ UNCHANGED <<stage, returnPending, identity, learning, authorized, held, events>>
        /\ UNCHANGED <<issued, grant, used>>
    BY DEF ClaimGrant, memory, disk, history
  <1>2. CASE AuthorizationIsValid(Terms(candidate.readiness))
    <2>1. /\ grant # NoGrant /\ grant.terms = Terms(candidate.readiness)
          /\ grant.nonce \notin consumed
      BY <1>2 DEF AuthorizationIsValid
    <2>2. /\ consumed' = consumed \cup {grant.nonce} /\ part' = "claimed"
          /\ candidate' = [candidate EXCEPT !.nonce = grant.nonce]
      BY <1>2 DEF ClaimGrant
    <2>3. grant \in issued  BY <2>1 DEF StageInv, GrantsInv
    <2>4. candidate' = [nonce |-> grant.nonce, readiness |-> candidate.readiness]
      <3>1. candidate = [nonce |-> candidate.nonce, readiness |-> candidate.readiness]
        BY <1>1 DEF StageInv, CandidateInv
      <3> HIDE DEF StageInv
      <3> QED  BY <2>2, <3>1
    <2>5. GrantsInv'  BY <1>1, <2>2 DEF StageInv, GrantsInv
    <2>6. GrantFor(grant.nonce, candidate.readiness)
      BY <2>1, <2>3 DEF GrantFor
    <2>7. GrantFor(candidate.nonce, candidate.readiness)'
      BY <1>1, <2>4, <2>6 DEF GrantFor, Terms
    <2>8. grant.nonce \in consumed' \ used'
      BY <1>1, <2>1, <2>2 DEF StageInv, GrantsInv
    <2>9. CandidateInv'  BY <1>1, <2>2, <2>4, <2>7, <2>8 DEF StageInv, CandidateInv
    <2> QED  BY <1>1, <2>2, <2>5, <2>9, CandidateKeeps
  <1>3. CASE ~AuthorizationIsValid(Terms(candidate.readiness))
    <2>1. part' = "entry" /\ UNCHANGED consumed  BY <1>3 DEF ClaimGrant
    <2>2. (\E S : events \in Seq(S))'  BY <1>1 DEF StageInv, ReturnInv
    <2>3. ~returnPending'  BY <1>1 DEF StageInv, CandidateInv
    <2> QED  BY <1>1, <2>1, <2>2, <2>3, CalmKeeps
  <1> QED  BY <1>2, <1>3

LEMMA RemoveGrantKeeps == ASSUME StageInv, RemoveGrant PROVE StageInv'
  <1>1. /\ part = "claimed" /\ part' = "removed" /\ grant' = NoGrant /\ candidate' = candidate
        /\ UNCHANGED <<stage, returnPending, identity, learning, authorized, held, events>>
        /\ UNCHANGED <<issued, consumed, used>>
    BY DEF RemoveGrant, memory, disk, history
  <1>2. GrantsInv'  BY <1>1 DEF StageInv, GrantsInv
  <1>3. CandidateInv'  BY <1>1, SameTerms DEF StageInv, CandidateInv
  <1> QED  BY <1>1, <1>2, <1>3, CandidateKeeps

LEMMA ArmKeeps == ASSUME StageInv, Arm PROVE StageInv'
  <1>1. /\ part = "removed" /\ authorized' = candidate /\ used' = used \cup {candidate.nonce}
        /\ Journal("Armed", "entry")
        /\ UNCHANGED <<stage, returnPending, identity, learning>>
        /\ UNCHANGED <<issued, grant, consumed>>
    BY DEF Arm, files
  <1>2. /\ stage = "Eligible" /\ ~returnPending
        /\ GrantFor(candidate.nonce, candidate.readiness) /\ candidate.nonce \in consumed
    BY <1>1 DEF StageInv, CandidateInv
  <1>3. GrantsInv'  BY <1>1, <1>2 DEF StageInv, GrantsInv
  <1>4. GrantFor(authorized.nonce, authorized.readiness)'
    BY <1>1, <1>2 DEF GrantFor, Terms
  <1> QED  BY <1>1, <1>2, <1>3, <1>4, PromotionKeeps

LEMMA EnterKeeps ==
    ASSUME StageInv, EnterOnPaper \/ EnterWithMoney PROVE StageInv'
  <1>1. /\ part = "entry" /\ part' = "end"
        /\ UNCHANGED <<stage, identity, learning, authorized>>
        /\ UNCHANGED <<issued, grant, consumed, used>>
        /\ UNCHANGED events \/ \E e : events' = Append(events, e)
    BY DEF EnterOnPaper, EnterWithMoney, MayEnter, Opened, files
  <1>2. (\E S : events \in Seq(S))'  BY <1>1, EventAppended DEF StageInv, ReturnInv
  <1> QED  BY <1>1, <1>2, CalmKeeps

\* The end of a run and the next start take the authority away.
LEMMA DownKeeps ==
    ASSUME StageInv, UNCHANGED events \/ events' = <<>>, Down PROVE StageInv'
  <1>1. /\ part' = "off" /\ authorized' = NotAuthorized
        /\ UNCHANGED <<issued, grant, consumed, used>>
    BY DEF Down, files, history
  <1>2. GrantsInv'  BY <1>1, SameGrants DEF StageInv
  <1>3. AuthorizedInv' /\ CandidateInv'  BY <1>1 DEF AuthorizedInv, CandidateInv
  <1>4. (\E S : events \in Seq(S))'
    <2>1. <<>> \in Seq({})  OBVIOUS
    <2>2. CASE events' = <<>>  BY <2>1, <2>2, Zenon
    <2>3. CASE UNCHANGED events  BY <2>3 DEF StageInv, ReturnInv
    <2> QED  BY <2>2, <2>3
  <1>5. ReturnInv'  BY <1>1, <1>4, Places DEF ReturnInv
  <1> QED  BY <1>2, <1>3, <1>5 DEF StageInv

LEMMA RestartKeeps == ASSUME StageInv, Restart PROVE StageInv'
  <1>1. /\ part = "off" /\ part' = "context" /\ authorized' = authorized /\ events' = events
        /\ UNCHANGED <<issued, grant, consumed, used>>
    BY DEF Restart, disk, files
  <1>2. GrantsInv'  BY <1>1, SameGrants DEF StageInv
  <1>3. AuthorizedInv' /\ CandidateInv'
    BY <1>1 DEF StageInv, AuthorizedInv, CandidateInv
  <1>4. ReturnInv'  BY <1>1, Places DEF StageInv, ReturnInv
  <1> QED  BY <1>2, <1>3, <1>4 DEF StageInv

\* What the operator and time change are the grants, or nothing of this.
LEMMA OutsideKeeps ==
    ASSUME StageInv, UNCHANGED <<stage, returnPending, identity, learning, authorized, held>>,
           UNCHANGED <<part, then, candidate, events, consumed, used>>,
           issued \subseteq issued', GrantsInv'
    PROVE  StageInv'
  <1>1. \A n, d : GrantFor(n, d) => GrantFor(n, d)'  BY DEF GrantFor, Terms
  <1>2. AuthorizedInv'  BY <1>1 DEF StageInv, AuthorizedInv
  <1>3. CandidateInv'  BY <1>1 DEF StageInv, CandidateInv
  <1>4. ReturnInv'  BY DEF StageInv, ReturnInv, Changes
  <1> QED  BY <1>2, <1>3, <1>4 DEF StageInv

LEMMA IssueGrantKeeps == ASSUME StageInv, IssueGrant PROVE StageInv'
  <1>1. /\ Cardinality(issued) < MaxGrants
        /\ grant' = [nonce |-> Cardinality(issued) + 1, terms |-> request]
        /\ issued' = issued \cup {grant'}
        /\ UNCHANGED <<stage, returnPending, identity, learning, authorized, held>>
        /\ UNCHANGED <<part, then, candidate, events, consumed, used>>
    BY DEF IssueGrant, memory, control, disk, history
  <1>2. IsFiniteSet(issued) /\ Cardinality(issued) \in Nat /\ MaxGrants \in Nat
    BY FS_CardinalityType, StageAssumption DEF StageInv, GrantsInv
  <1>3. \A g \in issued : g.nonce \in 1..Cardinality(issued)  BY DEF StageInv, GrantsInv
  <1>4. grant'.nonce = Cardinality(issued) + 1 /\ grant' \notin issued
    BY <1>1, <1>2, <1>3
  <1>5. IsFiniteSet(issued') /\ Cardinality(issued') = Cardinality(issued) + 1
    BY <1>1, <1>2, <1>4, FS_AddElement
  <1>6. \A g \in issued' : g.nonce \in 1..Cardinality(issued')
    BY <1>1, <1>2, <1>3, <1>4, <1>5
  <1>7. \A g, h \in issued' : g.nonce = h.nonce => g = h
    BY <1>1, <1>2, <1>3, <1>4 DEF StageInv, GrantsInv
  <1>8. GrantsInv'
    <2>1. Cardinality(issued') <= MaxGrants  BY <1>1, <1>2, <1>5
    <2>2. grant' \in issued' /\ used' \subseteq consumed'  BY <1>1 DEF StageInv, GrantsInv
    <2> QED  BY <1>5, <1>6, <1>7, <2>1, <2>2 DEF GrantsInv
  <1> QED  BY <1>1, <1>8, OutsideKeeps

LEMMA EnvironmentKeeps == ASSUME StageInv, Environment PROVE StageInv'
  <1>1. CASE IssueGrant  BY <1>1, IssueGrantKeeps
  <1>2. CASE CopyGrant
    <2>1. /\ grant' \in issued
          /\ UNCHANGED <<stage, returnPending, identity, learning, authorized, held>>
          /\ UNCHANGED <<part, then, candidate, events, issued, consumed, used>>
      BY <1>2 DEF CopyGrant, memory, control, disk, history
    <2>2. GrantsInv'  BY <2>1 DEF StageInv, GrantsInv
    <2> QED  BY <2>1, <2>2, OutsideKeeps
  <1>3. CASE ExpireGrants \/ ChangeReadiness \/ ExpireCalibration
    <2>1. /\ UNCHANGED <<stage, returnPending, identity, learning, authorized, held>>
          /\ UNCHANGED <<part, then, candidate, events, issued, grant, consumed, used>>
      BY <1>3 DEF ExpireGrants, ChangeReadiness, ExpireCalibration, memory, control, disk, files,
                  history
    <2>2. GrantsInv'  BY <2>1, SameGrants DEF StageInv
    <2> QED  BY <2>1, <2>2, OutsideKeeps
  <1> QED  BY <1>1, <1>2, <1>3 DEF Environment

LEMMA StageInvStep == StageInv /\ [StageNext]_stageVars => StageInv'
  <1> SUFFICES ASSUME StageInv, [StageNext]_stageVars PROVE StageInv'  OBVIOUS
  <1>1. CASE LoadContext  BY <1>1, LoadContextKeeps
  <1>2. CASE CheckLive  BY <1>2, CheckLiveKeeps
  <1>3. CASE BlockedStep \/ HoldPosition \/ Stay \/ NoEntry \/ SaveSnapshot
    <2>1. /\ UNCHANGED <<stage, returnPending, identity, learning, authorized, held>>
          /\ UNCHANGED <<issued, grant, consumed, used>>
      BY <1>3 DEF BlockedStep, HoldPosition, Stay, NoEntry, SaveSnapshot, memory, files, history
    <2>2. /\ part # "changing" /\ part' \in {"idle", "return", "entry", "end"}
          /\ part' = "entry" => part \in {"promote", "account"}
          /\ UNCHANGED events \/ events' = <<>>
      BY <1>3 DEF BlockedStep, HoldPosition, Stay, NoEntry, SaveSnapshot, disk
    <2>3. (\E S : events \in Seq(S))'
      <3>1. <<>> \in Seq({})  OBVIOUS
      <3>2. CASE events' = <<>>  BY <3>1, <3>2, Zenon
      <3>3. CASE UNCHANGED events  BY <3>3 DEF StageInv, ReturnInv
      <3> QED  BY <2>2, <3>2, <3>3
    <2>4. part' = "entry" /\ stage \in RealStages /\ ~held => ~returnPending
      BY <2>2 DEF StageInv, ReturnInv, CandidateInv, RealStages
    <2> QED  BY <2>1, <2>2, <2>3, <2>4, CalmKeeps
  <1>4. CASE Close  BY <1>4, CloseKeeps
  <1>5. CASE ReturnIfPending \/ RefuseEntry
    <2>1. /\ part \in {"return", "entry"}
          /\ UNCHANGED <<stage, identity, learning, authorized>>
          /\ UNCHANGED <<issued, grant, consumed, used>>
          /\ Return("returned") \/ Return("returnedLate")
      BY <1>5 DEF ReturnIfPending, RefuseEntry, MayEnter, files, history
    <2> QED  BY <2>1, ReturnKeeps, Places
  <1>6. CASE EnterStage  BY <1>6, EnterStageKeeps
  <1>7. CASE ResetLearning  BY <1>7, ResetLearningKeeps
  <1>8. CASE PromoteToEligible \/ PromoteOnward  BY <1>8, PromoteKeeps
  <1>9. CASE ReadReadiness  BY <1>9, ReadReadinessKeeps
  <1>10. CASE ClaimGrant  BY <1>10, ClaimGrantKeeps
  <1>11. CASE RemoveGrant  BY <1>11, RemoveGrantKeeps
  <1>12. CASE Arm  BY <1>12, ArmKeeps
  <1>13. CASE EnterOnPaper \/ EnterWithMoney  BY <1>13, EnterKeeps
  <1>14. CASE Crash \/ Shutdown
    <2>1. Down /\ (UNCHANGED events \/ events' = <<>>)  BY <1>14 DEF Crash, Shutdown
    <2> QED  BY <2>1, DownKeeps
  <1>15. CASE Restart  BY <1>15, RestartKeeps
  <1>16. CASE Environment  BY <1>16, EnvironmentKeeps
  <1>17. CASE UNCHANGED stageVars
    <2>1. /\ UNCHANGED <<stage, returnPending, identity, learning, authorized, held>>
          /\ UNCHANGED <<part, then, candidate, events, issued, grant, consumed, used>>
      BY <1>17 DEF stageVars, memory, control, disk, files, history
    <2>2. GrantsInv'  BY <2>1, SameGrants DEF StageInv
    <2> QED  BY <2>1, <2>2, OutsideKeeps
  <1> QED
    BY <1>1, <1>2, <1>3, <1>4, <1>5, <1>6, <1>7, <1>8, <1>9, <1>10, <1>11, <1>12, <1>13, <1>14,
       <1>15, <1>16, <1>17
    DEF StageNext, Step

-----------------------------------------------------------------------------
(* The refinement of LiveAuthority.                                        *)

Licence == IF authorized = NotAuthorized \/ returnPending THEN NoGrant
           ELSE [nonce |-> authorized.nonce,
                 terms |-> (CHOOSE g \in issued : g.nonce = authorized.nonce).terms]

\* The licence in force says what holds.
LicenceIsTrue ==
    authorized # NotAuthorized /\ ~returnPending =>
        /\ Licence = [nonce |-> authorized.nonce, terms |-> Terms(authorized.readiness)]
        /\ authorized.nonce \in 1..MaxGrants

LEMMA InvLicence == StageInv => LicenceIsTrue
  <1> SUFFICES ASSUME StageInv, authorized # NotAuthorized, ~returnPending
               PROVE  /\ Licence = [nonce |-> authorized.nonce,
                                   terms |-> Terms(authorized.readiness)]
                      /\ authorized.nonce \in 1..MaxGrants
    BY DEF LicenceIsTrue
  <1>1. PICK g \in issued : g.nonce = authorized.nonce /\ g.terms = Terms(authorized.readiness)
    BY DEF StageInv, AuthorizedInv, GrantFor
  <1>2. (CHOOSE h \in issued : h.nonce = authorized.nonce) = g
    BY <1>1 DEF StageInv, GrantsInv
  <1>3. g.nonce \in 1..MaxGrants
    <2>1. Cardinality(issued) \in Nat /\ Cardinality(issued) <= MaxGrants /\ MaxGrants \in Nat
      BY FS_CardinalityType, StageAssumption DEF StageInv, GrantsInv
    <2>2. g.nonce \in 1..Cardinality(issued)  BY <1>1 DEF StageInv, GrantsInv
    <2> QED  BY <2>1, <2>2
  <1> QED  BY <1>1, <1>2, <1>3 DEF Licence

\* A step that neither arms nor buys keeps, withdraws or lacks the licence.
LEMMA NoNewLicence ==
    ASSUME LicenceIsTrue, LicenceIsTrue', UNCHANGED <<used, purchases>>,
           \/ authorized' = NotAuthorized \/ returnPending'
           \/ ~returnPending /\ UNCHANGED <<authorized, identity, learning>>
    PROVE  [Authority!Next]_(Authority!authority)
  <1>1. CASE authorized' = NotAuthorized \/ returnPending'
    <2>1. Licence' = NoGrant  BY <1>1 DEF Licence
    <2> QED
      BY <2>1 DEF Licence, NoGrant, Authority!Next, Authority!Withdraw, Authority!NoLicence
  <1>2. CASE /\ authorized' # NotAuthorized /\ ~returnPending'
             /\ ~returnPending /\ UNCHANGED <<authorized, identity, learning>>
    <2>1. Licence = [nonce |-> authorized.nonce, terms |-> Terms(authorized.readiness)]
      BY <1>2 DEF LicenceIsTrue
    <2>2. Licence' = [nonce |-> authorized.nonce, terms |-> Terms(authorized.readiness)]'
      BY <1>2 DEF LicenceIsTrue
    <2>3. Licence' = Licence  BY <1>2, <2>1, <2>2 DEF Terms
    <2> QED  BY <2>3 DEF Licence, Authority!authority
  <1> QED  BY <1>1, <1>2

\* Arming is given a licence.
LEMMA ArmGives ==
    ASSUME StageInv, LicenceIsTrue', Arm
    PROVE  Authority!Next
  <1>1. /\ part = "removed" /\ authorized' = candidate /\ used' = used \cup {candidate.nonce}
        /\ UNCHANGED <<stage, returnPending, identity, learning, issued, purchases>>
    BY DEF Arm, files
  <1>2. /\ stage = "Eligible" /\ ~returnPending
        /\ GrantFor(candidate.nonce, candidate.readiness) /\ candidate.nonce \notin used
    BY <1>1 DEF StageInv, CandidateInv
  <1>3. Licence = NoGrant  BY <1>1, <1>2 DEF StageInv, AuthorizedInv, Licence
  <1>4. candidate.nonce # 0
    <2>1. \A g \in issued : g.nonce \in 1..Cardinality(issued)  BY DEF StageInv, GrantsInv
    <2> QED  BY <1>2, <2>1 DEF GrantFor
  <1>5. authorized' # NotAuthorized  BY <1>1, <1>4 DEF NotAuthorized
  <1>6. /\ Licence' = [nonce |-> authorized.nonce, terms |-> Terms(authorized.readiness)]'
        /\ authorized'.nonce \in 1..MaxGrants
    BY <1>1, <1>2, <1>5 DEF LicenceIsTrue
  <1>7. Licence'.nonce = candidate.nonce /\ Licence' # NoGrant
    BY <1>1, <1>4, <1>6 DEF NoGrant
  <1>8. Authority!Give
    BY <1>1, <1>2, <1>3, <1>6, <1>7 DEF Authority!Give, Authority!NoLicence, NoGrant, Licence
  <1> QED  BY <1>8 DEF Authority!Next

\* A real purchase is made under the licence in force.
LEMMA MoneyIsLicensed ==
    ASSUME StageInv, LicenceIsTrue, LicenceIsTrue', EnterWithMoney
    PROVE  Authority!Next
  <1>1. /\ part = "entry" /\ ~held /\ stage \in RealStages
        /\ readiness # 0 /\ readiness = authorized.readiness
        /\ purchases' = purchases \cup {[nonce |-> authorized.nonce, terms |-> Terms(readiness)]}
        /\ UNCHANGED <<authorized, returnPending, identity, learning, used>>
    BY DEF EnterWithMoney, MayEnter, EntryIsAuthorized
  <1>2. ~returnPending  BY <1>1 DEF StageInv, ReturnInv
  <1>3. authorized # NotAuthorized  BY <1>1 DEF NotAuthorized
  <1>4. /\ Licence = [nonce |-> authorized.nonce, terms |-> Terms(authorized.readiness)]
        /\ authorized.nonce \in 1..MaxGrants
    BY <1>2, <1>3 DEF LicenceIsTrue
  <1>5. Licence' = [nonce |-> authorized.nonce, terms |-> Terms(authorized.readiness)]'
    BY <1>1, <1>2, <1>3 DEF LicenceIsTrue
  <1>6. Licence' = Licence  BY <1>1, <1>4, <1>5 DEF Terms
  <1>7. Licence # NoGrant /\ purchases' = purchases \cup {Licence}
    BY <1>1, <1>4 DEF NoGrant
  <1>8. Authority!Purchase
    BY <1>1, <1>6, <1>7 DEF Authority!Purchase, Authority!NoLicence, NoGrant, Licence
  <1> QED  BY <1>8 DEF Authority!Next

LEMMA StepIsAuthorised ==
    ASSUME StageInv, LicenceIsTrue, LicenceIsTrue', [StageNext]_stageVars
    PROVE  [Authority!Next]_(Authority!authority)
  <1>1. CASE Arm  BY <1>1, ArmGives
  <1>2. CASE EnterWithMoney  BY <1>2, MoneyIsLicensed
  <1>3. CASE /\ UNCHANGED <<used, purchases>>
             /\ \/ authorized' = NotAuthorized \/ returnPending'
                \/ ~returnPending /\ UNCHANGED <<authorized, identity, learning>>
    BY <1>3, NoNewLicence
  <1>4. CASE LoadContext \/ Close \/ ResetLearning \/ Restart
    <2>1. UNCHANGED <<used, purchases>>
      BY <1>4 DEF LoadContext, Close, ResetLearning, Restart, history
    <2>2. CASE LoadContext \/ ResetLearning \/ Restart
      <3>1. authorized' = NotAuthorized
        BY <2>2 DEF LoadContext, ResetLearning, Restart, StageInv, AuthorizedInv, ReturnInv
      <3> QED  BY <1>3, <2>1, <3>1
    <2>3. CASE Close
      <3>1. CASE stage = "Learning"
        BY <1>3, <2>1, <2>3, <3>1 DEF Close, StageInv, AuthorizedInv
      <3>2. CASE stage # "Learning"
        <4>1. \/ returnPending'
              \/ ~returnPending /\ UNCHANGED <<authorized, identity, learning>>
          BY <2>3, <3>2 DEF Close
        <4> QED  BY <1>3, <2>1, <4>1
      <3> QED  BY <3>1, <3>2
    <2> QED  BY <1>4, <2>2, <2>3
  <1>5. CASE CheckLive \/ RefuseEntry \/ EnterStage \/ Crash \/ Shutdown
    <2>1. UNCHANGED <<used, purchases>>
      BY <1>5 DEF CheckLive, RefuseEntry, EnterStage, Crash, Shutdown, Down, history
    <2>2. \/ authorized' = NotAuthorized \/ returnPending'
          \/ ~returnPending /\ UNCHANGED <<authorized, identity, learning>>
      BY <1>5 DEF CheckLive, RefuseEntry, EnterStage, Crash, Shutdown, Down
    <2> QED  BY <1>3, <2>1, <2>2
  <1>6. CASE \/ BlockedStep \/ HoldPosition \/ ReturnIfPending \/ Stay \/ PromoteToEligible
             \/ ReadReadiness \/ ClaimGrant \/ RemoveGrant \/ PromoteOnward \/ EnterOnPaper
             \/ NoEntry \/ SaveSnapshot \/ Environment \/ UNCHANGED stageVars
    <2>1. /\ UNCHANGED <<used, purchases>>
          /\ UNCHANGED <<authorized, returnPending, identity, learning>>
      BY <1>6 DEF BlockedStep, HoldPosition, ReturnIfPending, Stay, PromoteToEligible, ReadReadiness,
                  ClaimGrant, RemoveGrant, PromoteOnward, EnterOnPaper, NoEntry, SaveSnapshot,
                  Environment, IssueGrant, CopyGrant, ExpireGrants, ChangeReadiness,
                  ExpireCalibration, stageVars, memory, history
    <2> QED  BY <1>3, <2>1
  <1> QED  BY <1>1, <1>2, <1>4, <1>5, <1>6 DEF StageNext, Step

LEMMA StartIsAuthorised == StageInit => Authority!Init
  BY DEF StageInit, Authority!Init, Authority!NoLicence, NoGrant

\* Every real purchase is made under an unused grant that says what holds, and no
\* crash, copy or return brings a licence back (maybe_promote_live,
\* live_entry_authorization_is_valid).
THEOREM AuthorityKept == StageSpec => KeepsAuthority
  <1>1. StageSpec => []StageInv  BY StageStarts, StageInvStep, PTL DEF StageSpec
  <1>2. StageSpec => []LicenceIsTrue  BY <1>1, InvLicence, PTL
  <1>3. StageInv /\ LicenceIsTrue /\ LicenceIsTrue' /\ [StageNext]_stageVars
            => [Authority!Next]_(Authority!authority)
    BY StepIsAuthorised
  <1> QED
    BY <1>1, <1>2, <1>3, StartIsAuthorised, PTL DEF StageSpec, KeepsAuthority, Authority!Spec
-----------------------------------------------------------------------------
(* The types of the evidence.                                              *)

Trades == [id : Nat, epoch : Nat]
Memories == [epoch : Nat, fingerprint : Identities, trades : SUBSET Trades]
Saved == [stage : Stages, returnPending : BOOLEAN, learning : Memories, canary : Nat,
          held : BOOLEAN]
Marks == [kind : {"Stage", "Opened", "Closed"}, to : Stages, trade : Trades]

EvidenceTypes ==
    /\ stage \in Stages /\ returnPending \in BOOLEAN /\ held \in BOOLEAN
    /\ calibrated \in BOOLEAN /\ blocked \in BOOLEAN
    /\ identity \in Identities /\ learning \in Memories /\ canary \in Nat
    /\ snapshot \in Saved /\ events \in Seq(Marks)
    /\ bundles \in [Identities -> SUBSET Trades]
    /\ opened \in Nat

\* Nothing of it changes but the event a stage change leaves in the journal.
Marked == \E e \in Marks : e.kind = "Stage" /\ events' = Append(events, e)

LEMMA RecordedTypes ==
    ASSUME NEW l \in Memories, NEW ts \in SUBSET Trades
    PROVE  /\ Recorded(l, ts) \in Memories
           /\ Recorded(l, ts).trades \subseteq l.trades \cup ts
  <1>1. l = [epoch |-> l.epoch, fingerprint |-> l.fingerprint, trades |-> l.trades]
    BY DEF Memories
  <1> DEFINE new == {t \in ts : \A u \in l.trades : u.id # t.id}
  <1>2. Recorded(l, ts) = [epoch |-> l.epoch, fingerprint |-> l.fingerprint,
                           trades |-> l.trades \cup new]
    BY <1>1 DEF Recorded
  <1>3. new \subseteq ts  OBVIOUS
  <1> HIDE DEF new
  <1> QED  BY <1>2, <1>3 DEF Memories

LEMMA ResetTypes ==
    ASSUME NEW l \in Memories, NEW f \in Identities
    PROVE  Reset(l, f) \in Memories /\ Reset(l, f).trades = {}
  BY DEF Memories, Reset

LEMMA TradeTypes ==
    ASSUME EvidenceTypes, NEW n \in Nat
    PROVE  Trade(n) \in Trades /\ Trade(n).id = n
  BY DEF EvidenceTypes, Memories, Trades, Trade

LEMMA SnapshotTypes ==
    ASSUME EvidenceTypes
    PROVE  /\ Snapshot \in Saved /\ Snapshot.learning = learning /\ Snapshot.canary = canary
           /\ Snapshot.held = held /\ Snapshot.stage = stage
           /\ Snapshot.returnPending = returnPending
           /\ \A to \in Stages :
                /\ [Snapshot EXCEPT !.stage = to] \in Saved
                /\ [Snapshot EXCEPT !.stage = to].learning = learning
                /\ [Snapshot EXCEPT !.stage = to].canary = canary
                /\ [Snapshot EXCEPT !.stage = to].held = held
  BY DEF EvidenceTypes, Snapshot, Saved

LEMMA AppendTypes ==
    ASSUME NEW S, NEW s \in Seq(S), NEW e \in S PROVE Append(s, e) \in Seq(S)
  OBVIOUS

LEMMA JournalTypes ==
    ASSUME EvidenceTypes, NEW to \in Stages, NEW next, Journal(to, next)
    PROVE  events' \in Seq(Marks) /\ Marked
  <1> DEFINE e == [kind |-> "Stage", to |-> to, trade |-> Trade(0)]
  <1>1. Trade(0) \in Trades  BY TradeTypes
  <1>2. e \in Marks /\ e.kind = "Stage"  BY <1>1 DEF Marks
  <1>3. events' = Append(events, e)  BY DEF Journal
  <1>4. events \in Seq(Marks)  BY DEF EvidenceTypes
  <1> HIDE DEF e
  <1>5. events' \in Seq(Marks)  BY <1>2, <1>3, <1>4, AppendTypes
  <1> QED  BY <1>2, <1>3, <1>5 DEF Marked

LEMMA ReturnTypes ==
    ASSUME EvidenceTypes, NEW place, Return(place)
    PROVE  events' \in Seq(Marks) /\ (UNCHANGED events \/ Marked)
  <1>1. CASE Journal("Learning", place)  BY <1>1, JournalTypes DEF Stages
  <1>2. CASE UNCHANGED events  BY <1>2 DEF EvidenceTypes
  <1> QED  BY <1>1, <1>2 DEF Return

-----------------------------------------------------------------------------
(* What each step does to the evidence, in one of six ways.                *)

\* A step may lose evidence, and adds none.
AddsNothing ==
    /\ learning' \in Memories /\ learning'.trades \subseteq learning.trades
    /\ canary' = canary \/ canary' = 0
    /\ UNCHANGED <<held, snapshot, bundles, opened>>
    /\ UNCHANGED events \/ Marked
    /\ part # "off" /\ part' # "off"

\* The memory is saved.
Saves ==
    /\ \E to \in Stages : snapshot' = [Snapshot EXCEPT !.stage = to]
    /\ events' = <<>>
    /\ UNCHANGED <<learning, held, bundles, opened>>
    /\ canary' = canary \/ canary' = 0
    /\ part # "off" /\ part' # "off"

\* It is lost, saved before or not.
Ends ==
    /\ UNCHANGED <<snapshot, events>> \/ (snapshot' = Snapshot /\ events' = <<>>)
    /\ learning' = snapshot'.learning /\ canary' = snapshot'.canary
    /\ held' = snapshot'.held
    /\ UNCHANGED <<bundles, opened>>
    /\ part # "off" /\ part' = "off"

\* A position is opened.
Opens ==
    /\ Opened /\ ~held
    /\ UNCHANGED <<learning, canary, snapshot, bundles>>
    /\ part # "off" /\ part' # "off"

Kinds == AddsNothing \/ Saves \/ Ends \/ Opens \/ Close \/ Restart

LEMMA OpenedTypes ==
    ASSUME EvidenceTypes, Opened
    PROVE  events' \in Seq(Marks) /\ held' \in BOOLEAN /\ opened' \in Nat
  <1> DEFINE e == [kind |-> "Opened", to |-> stage, trade |-> Trade(opened')]
  <1>1. opened' \in Nat /\ held' \in BOOLEAN  BY DEF Opened, EvidenceTypes
  <1>2. e \in Marks
    <2>1. Trade(opened') \in Trades  BY <1>1, TradeTypes
    <2> QED  BY <2>1 DEF EvidenceTypes, Marks
  <1>3. events' = Append(events, e) /\ events \in Seq(Marks)  BY DEF Opened, EvidenceTypes
  <1> HIDE DEF e
  <1> QED  BY <1>1, <1>2, <1>3, AppendTypes

\* A part of a step that keeps the evidence as it is.
LEMMA QuietStep ==
    ASSUME EvidenceTypes, UNCHANGED <<stage, identity, learning, canary, held, blocked>>,
           UNCHANGED <<snapshot, bundles, opened>>, returnPending' \in BOOLEAN,
           calibrated' \in BOOLEAN, events' \in Seq(Marks), UNCHANGED events \/ Marked,
           part # "off", part' # "off"
    PROVE  EvidenceTypes' /\ Kinds
  <1>1. EvidenceTypes'  BY DEF EvidenceTypes
  <1>2. learning' \in Memories /\ learning'.trades \subseteq learning.trades
    BY DEF EvidenceTypes
  <1>3. AddsNothing  BY <1>2 DEF AddsNothing
  <1> QED  BY <1>1, <1>3 DEF Kinds

LEMMA ReturnPlaces ==
    ASSUME StageInv, NEW place \in {"returnedEarly", "returned", "returnedLate"}, Return(place)
    PROVE  part' # "off"
  BY Places DEF Return, Journal

LEMMA LoadContextTypes ==
    ASSUME EvidenceTypes, LoadContext PROVE EvidenceTypes' /\ Kinds
  <1>1. /\ part = "context" /\ part' = "idle"
        /\ UNCHANGED <<stage, canary, held, snapshot, events, bundles, opened>>
    BY DEF LoadContext, disk, history
  <1>2. CASE UNCHANGED <<returnPending, identity, learning, calibrated, blocked>>
    <2>1. events' \in Seq(Marks) /\ returnPending' \in BOOLEAN /\ calibrated' \in BOOLEAN
      BY <1>1, <1>2 DEF EvidenceTypes
    <2> QED  BY <1>1, <1>2, <2>1, QuietStep
  <1>3. ASSUME NEW mismatch \in BOOLEAN, NEW costs \in Identities,
               calibrated' = TRUE, blocked' = mismatch, identity' = costs,
               returnPending' =
                 (\/ costs # identity /\ stage # "Learning"
                  \/ IF mismatch THEN stage # "Learning" ELSE returnPending),
               learning' =
                 IF costs = identity \/ stage # "Learning" THEN learning
                 ELSE IF learning.trades = {} THEN [learning EXCEPT !.fingerprint = costs]
                 ELSE Reset(learning, costs)
        PROVE  EvidenceTypes' /\ Kinds
    <2>1. learning \in Memories  BY DEF EvidenceTypes
    <2>2. /\ [learning EXCEPT !.fingerprint = costs] \in Memories
          /\ [learning EXCEPT !.fingerprint = costs].trades = learning.trades
      BY <2>1 DEF Memories
    <2>3. Reset(learning, costs) \in Memories /\ Reset(learning, costs).trades = {}
      BY <2>1, ResetTypes
    <2>4. learning' \in {learning, [learning EXCEPT !.fingerprint = costs], Reset(learning, costs)}
      BY <1>3
    <2>5. learning' \in Memories /\ learning'.trades \subseteq learning.trades
      BY <2>1, <2>2, <2>3, <2>4
    <2>6. returnPending' \in BOOLEAN  BY <1>3 DEF EvidenceTypes
    <2>7. EvidenceTypes'  BY <1>1, <1>3, <2>5, <2>6 DEF EvidenceTypes
    <2>8. AddsNothing  BY <1>1, <2>5 DEF AddsNothing
    <2> QED  BY <2>7, <2>8 DEF Kinds
  <1> QED  BY <1>2, <1>3 DEF LoadContext

LEMMA ResetLearningTypes ==
    ASSUME EvidenceTypes, StageInv, ResetLearning PROVE EvidenceTypes' /\ Kinds
  <1>1. /\ part \in DOMAIN AfterReturn /\ part' = AfterReturn[part]
        /\ learning' = Reset(learning, identity) /\ canary' = 0 /\ returnPending' = FALSE
        /\ UNCHANGED <<stage, identity, held, calibrated, blocked, opened>>
        /\ UNCHANGED <<snapshot, events, bundles>>
    BY DEF ResetLearning, disk, history
  <1>2. learning' \in Memories /\ learning'.trades = {}
    BY <1>1, ResetTypes DEF EvidenceTypes
  <1>3. EvidenceTypes'  BY <1>1, <1>2 DEF EvidenceTypes
  <1>4. part # "off" /\ part' # "off"  BY <1>1, Places
  <1>5. AddsNothing  BY <1>1, <1>2, <1>4 DEF AddsNothing
  <1> QED  BY <1>3, <1>5 DEF Kinds

LEMMA CheckLiveTypes ==
    ASSUME EvidenceTypes, StageInv, CheckLive PROVE EvidenceTypes' /\ Kinds
  <1>1. /\ part = "idle" /\ UNCHANGED <<stage, identity, learning, canary, held, blocked>>
        /\ UNCHANGED <<snapshot, bundles, opened, calibrated>>
        /\ (part' = "exit" /\ UNCHANGED events) \/ Return("returnedEarly")
    BY DEF CheckLive, history
  <1>2. returnPending' \in BOOLEAN  BY DEF CheckLive, EvidenceTypes
  <1>3. events' \in Seq(Marks) /\ (UNCHANGED events \/ Marked)
    BY <1>1, ReturnTypes DEF EvidenceTypes
  <1>4. part' # "off"  BY <1>1, ReturnPlaces
  <1>5. calibrated' \in BOOLEAN  BY <1>1 DEF EvidenceTypes
  <1> QED  BY <1>1, <1>2, <1>3, <1>4, <1>5, QuietStep

LEMMA ReturnStepTypes ==
    ASSUME EvidenceTypes, StageInv, ReturnIfPending \/ RefuseEntry PROVE EvidenceTypes' /\ Kinds
  <1>1. /\ part \in {"return", "entry"}
        /\ UNCHANGED <<stage, identity, learning, canary, held, blocked>>
        /\ UNCHANGED <<snapshot, bundles, opened, calibrated>>
        /\ Return("returned") \/ Return("returnedLate")
    BY DEF ReturnIfPending, RefuseEntry, MayEnter, history
  <1>2. returnPending' \in BOOLEAN  BY DEF ReturnIfPending, RefuseEntry, EvidenceTypes
  <1>3. events' \in Seq(Marks) /\ (UNCHANGED events \/ Marked)  BY <1>1, ReturnTypes
  <1>4. part' # "off"  BY <1>1, ReturnPlaces
  <1>5. calibrated' \in BOOLEAN  BY <1>1 DEF EvidenceTypes
  <1> QED  BY <1>1, <1>2, <1>3, <1>4, <1>5, QuietStep

LEMMA PromotionTypes ==
    ASSUME EvidenceTypes, PromoteToEligible \/ PromoteOnward \/ Arm PROVE EvidenceTypes' /\ Kinds
  <1>1. /\ part \in {"promote", "removed"} /\ part' = "changing"
        /\ UNCHANGED <<stage, identity, learning, canary, held, blocked>>
        /\ UNCHANGED <<snapshot, bundles, opened, calibrated, returnPending>>
    BY DEF PromoteToEligible, PromoteOnward, Arm, MayPromote, Journal, memory, history
  <1>2. \E to \in Stages : Journal(to, "entry")
    BY DEF PromoteToEligible, PromoteOnward, Arm, Stages
  <1>3. events' \in Seq(Marks) /\ Marked  BY <1>2, JournalTypes
  <1>4. returnPending' \in BOOLEAN /\ calibrated' \in BOOLEAN  BY <1>1 DEF EvidenceTypes
  <1> QED  BY <1>1, <1>3, <1>4, QuietStep

LEMMA OtherQuietTypes ==
    ASSUME EvidenceTypes,
           \/ BlockedStep \/ HoldPosition \/ Stay \/ ReadReadiness \/ ClaimGrant \/ RemoveGrant
           \/ NoEntry \/ Environment
    PROVE  EvidenceTypes' /\ Kinds
  <1>1. /\ UNCHANGED <<stage, identity, learning, canary, held, blocked, returnPending>>
        /\ UNCHANGED <<snapshot, events, bundles, opened>>
        /\ calibrated' = calibrated \/ calibrated' = FALSE
    BY DEF BlockedStep, HoldPosition, Stay, ReadReadiness, ClaimGrant, RemoveGrant, NoEntry, Environment,
           IssueGrant, CopyGrant, ExpireGrants, ChangeReadiness, ExpireCalibration,
           memory, disk, history
  <1>2. part # "off" /\ part' # "off"
    BY DEF BlockedStep, HoldPosition, Stay, ReadReadiness, MayPromote, ClaimGrant, RemoveGrant, NoEntry,
           Environment, IssueGrant, CopyGrant, ExpireGrants, ChangeReadiness, ExpireCalibration,
           control
  <1>3. returnPending' \in BOOLEAN /\ calibrated' \in BOOLEAN /\ events' \in Seq(Marks)
    BY <1>1 DEF EvidenceTypes
  <1> QED  BY <1>1, <1>2, <1>3, QuietStep

LEMMA EnterStageTypes ==
    ASSUME EvidenceTypes, StageInv, EnterStage PROVE EvidenceTypes' /\ Kinds
  <1> DEFINE to == Last(events).to
  <1>1. /\ part = "changing" /\ part' = then /\ stage' = to /\ events' = <<>>
        /\ canary' = (IF to = "Live" THEN 0 ELSE canary)
        /\ snapshot' = [Snapshot EXCEPT !.stage = to]
        /\ UNCHANGED <<returnPending, identity, learning, held, calibrated, blocked>>
        /\ UNCHANGED <<bundles, opened>>
    BY DEF EnterStage, history
  <1>2. to \in Stages /\ part' # "off"
    BY <1>1, Places DEF StageInv, ReturnInv, Changes, Stages
  <1> HIDE DEF to
  <1>3. snapshot' \in Saved  BY <1>1, <1>2, SnapshotTypes
  <1>4. events' \in Seq(Marks)  BY <1>1
  <1>5. EvidenceTypes'  BY <1>1, <1>2, <1>3, <1>4 DEF EvidenceTypes
  <1>6. Saves  BY <1>1, <1>2 DEF Saves
  <1> QED  BY <1>5, <1>6 DEF Kinds

LEMMA SaveSnapshotTypes ==
    ASSUME EvidenceTypes, SaveSnapshot PROVE EvidenceTypes' /\ Kinds
  <1>1. /\ part = "end" /\ part' = "idle" /\ snapshot' = Snapshot /\ events' = <<>>
        /\ UNCHANGED <<stage, returnPending, identity, learning, canary, held>>
        /\ UNCHANGED <<calibrated, blocked, bundles, opened>>
    BY DEF SaveSnapshot, memory, history
  <1>2. snapshot' \in Saved /\ events' \in Seq(Marks)  BY <1>1, SnapshotTypes
  <1>3. EvidenceTypes'  BY <1>1, <1>2 DEF EvidenceTypes
  <1>4. Snapshot = [Snapshot EXCEPT !.stage = stage] /\ stage \in Stages
    BY DEF Snapshot, EvidenceTypes
  <1>5. Saves  BY <1>1, <1>4 DEF Saves
  <1> QED  BY <1>3, <1>5 DEF Kinds

LEMMA EndTypes ==
    ASSUME EvidenceTypes, Crash \/ Shutdown PROVE EvidenceTypes' /\ Kinds
  <1>1. /\ part # "off" /\ part' = "off"
        /\ UNCHANGED <<snapshot, events>> \/ (snapshot' = Snapshot /\ events' = <<>>)
        /\ learning' = snapshot'.learning /\ canary' = snapshot'.canary
        /\ held' = snapshot'.held /\ stage' = snapshot'.stage
        /\ returnPending' = snapshot'.returnPending
        /\ calibrated' = FALSE /\ blocked' = FALSE
        /\ UNCHANGED <<identity, bundles, opened>>
    <2>1. Down /\ part # "off"  BY DEF Crash, Shutdown
    <2>2. UNCHANGED <<snapshot, events>> \/ (snapshot' = Snapshot /\ events' = <<>>)
      BY DEF Crash, Shutdown
    <2>3. UNCHANGED <<identity, bundles, opened>>  BY <2>1 DEF Down, history
    <2> QED  BY <2>1, <2>2, <2>3 DEF Down
  <1>2. snapshot' \in Saved /\ events' \in Seq(Marks)
    <2>1. CASE UNCHANGED <<snapshot, events>>  BY <2>1 DEF EvidenceTypes
    <2>2. CASE snapshot' = Snapshot /\ events' = <<>>  BY <2>2, SnapshotTypes
    <2> QED  BY <1>1, <2>1, <2>2
  <1>3. /\ learning' \in Memories /\ canary' \in Nat /\ held' \in BOOLEAN
        /\ stage' \in Stages /\ returnPending' \in BOOLEAN
    BY <1>1, <1>2 DEF Saved
  <1>4. EvidenceTypes'  BY <1>1, <1>2, <1>3 DEF EvidenceTypes
  <1>5. Ends  BY <1>1 DEF Ends
  <1> QED  BY <1>4, <1>5 DEF Kinds

LEMMA EnterTypes ==
    ASSUME EvidenceTypes, EnterOnPaper \/ EnterWithMoney PROVE EvidenceTypes' /\ Kinds
  <1>1. /\ part = "entry" /\ part' = "end" /\ ~held
        /\ UNCHANGED <<stage, returnPending, identity, learning, canary, calibrated, blocked>>
        /\ UNCHANGED <<snapshot, bundles>>
        /\ Opened \/ UNCHANGED <<held, opened, events>>
    BY DEF EnterOnPaper, EnterWithMoney, MayEnter
  <1>2. CASE Opened
    <2>1. events' \in Seq(Marks) /\ held' \in BOOLEAN /\ opened' \in Nat  BY <1>2, OpenedTypes
    <2>2. EvidenceTypes'  BY <1>1, <2>1 DEF EvidenceTypes
    <2>3. Opens  BY <1>1, <1>2 DEF Opens
    <2> QED  BY <2>2, <2>3 DEF Kinds
  <1>3. CASE UNCHANGED <<held, opened, events>>
    <2>1. returnPending' \in BOOLEAN /\ calibrated' \in BOOLEAN /\ events' \in Seq(Marks)
      BY <1>1, <1>3 DEF EvidenceTypes
    <2> QED  BY <1>1, <1>3, <2>1, QuietStep
  <1> QED  BY <1>1, <1>2, <1>3

-----------------------------------------------------------------------------
(* The replay of the journal over a snapshot.                              *)

\* What an event makes of the evidence.
LEMMA ReplayEvent ==
    ASSUME NEW s \in Saved, NEW e \in Marks
    PROVE  /\ Replay(s, e) \in Saved
           /\ e.kind # "Closed" =>
                /\ Replay(s, e).learning = s.learning /\ Replay(s, e).canary = s.canary
                /\ e.kind = "Stage" => Replay(s, e).held = s.held
                /\ e.kind = "Opened" => Replay(s, e).held = TRUE
           /\ e.kind = "Closed" =>
                /\ Replay(s, e).held = FALSE
                /\ Replay(s, e).learning = IF e.to = "Learning"
                                           THEN Recorded(s.learning, {e.trade}) ELSE s.learning
                /\ Replay(s, e).canary = IF e.to = "Canary" THEN s.canary + 1 ELSE s.canary
  <1> DEFINE l == Recorded(s.learning, {e.trade})
  <1>1. /\ s = [stage |-> s.stage, returnPending |-> s.returnPending, learning |-> s.learning,
               canary |-> s.canary, held |-> s.held]
        /\ s.stage \in Stages /\ s.returnPending \in BOOLEAN /\ s.learning \in Memories
        /\ s.canary \in Nat /\ s.held \in BOOLEAN
    BY DEF Saved
  <1>2. l \in Memories
    <2>1. {e.trade} \in SUBSET Trades  BY DEF Marks
    <2> QED  BY <1>1, <2>1, RecordedTypes
  <1>3. CASE e.kind = "Stage"
    <2>1. Replay(s, e) = [stage |-> e.to, returnPending |-> s.returnPending,
                          learning |-> s.learning, canary |-> s.canary, held |-> s.held]
      <3>1. Replay(s, e) = [s EXCEPT !.stage = e.to]  BY <1>3 DEF Replay
      <3> QED  BY <1>1, <3>1
    <2>2. e.to \in Stages  BY DEF Marks
    <2> QED  BY <1>1, <1>3, <2>1, <2>2 DEF Saved
  <1>4. CASE e.kind = "Opened"
    <2>1. Replay(s, e) = [stage |-> s.stage, returnPending |-> s.returnPending,
                          learning |-> s.learning, canary |-> s.canary, held |-> TRUE]
      <3>1. Replay(s, e) = [s EXCEPT !.held = TRUE]  BY <1>4 DEF Replay
      <3> QED  BY <1>1, <3>1
    <2>2. Replay(s, e) \in Saved  BY <1>1, <2>1 DEF Saved
    <2> QED  BY <1>4, <2>1, <2>2
  <1>5. CASE e.kind = "Closed" /\ e.to = "Learning"
    <2>1. Replay(s, e) = [stage |-> s.stage, returnPending |-> s.returnPending,
                          learning |-> l, canary |-> s.canary, held |-> FALSE]
      <3>1. Replay(s, e) = [s EXCEPT !.held = FALSE, !.learning = l]  BY <1>5 DEF Replay
      <3> HIDE DEF l
      <3> QED  BY <1>1, <3>1
    <2>2. Replay(s, e) \in Saved
      <3> HIDE DEF l
      <3> QED  BY <1>1, <1>2, <2>1 DEF Saved
    <2> QED  BY <1>5, <2>1, <2>2
  <1>6. CASE e.kind = "Closed" /\ e.to # "Learning"
    <2> DEFINE c == IF e.to = "Canary" THEN s.canary + 1 ELSE s.canary
    <2>1. Replay(s, e) = [stage |-> s.stage, returnPending |-> s.returnPending,
                          learning |-> s.learning, canary |-> c, held |-> FALSE]
      <3>1. Replay(s, e) = [s EXCEPT !.held = FALSE, !.canary = c]  BY <1>6 DEF Replay
      <3> HIDE DEF c
      <3> QED  BY <1>1, <3>1
    <2>2. c \in Nat  BY <1>1
    <2>3. Replay(s, e) \in Saved
      <3> HIDE DEF c
      <3> QED  BY <1>1, <2>1, <2>2 DEF Saved
    <2> QED  BY <1>6, <2>1, <2>3
  <1>7. e.kind \in {"Stage", "Opened", "Closed"}  BY DEF Marks
  <1> QED  BY <1>3, <1>4, <1>5, <1>6, <1>7

\* The replay of events over a snapshot, and its steps.
ReplayOf(b, s) == FoldLeft(Replay, b, s)
Steps(s) == [i \in 1..Len(s) |-> [a \in Saved |-> Replay(a, s[i])]]

LEMMA StepsTypes ==
    ASSUME NEW s \in Seq(Marks)
    PROVE  /\ Len(s) \in Nat /\ DOMAIN s = 1..Len(s)
           /\ Steps(s) \in [1..Len(s) -> [Saved -> Saved]]
  <1>1. Len(s) \in Nat /\ DOMAIN s = 1..Len(s) /\ \A i \in 1..Len(s) : s[i] \in Marks  OBVIOUS
  <1>2. \A i \in 1..Len(s) : [a \in Saved |-> Replay(a, s[i])] \in [Saved -> Saved]
    BY <1>1, ReplayEvent
  <1> QED  BY <1>1, <1>2 DEF Steps

\* The replay is a table of its steps, the last event last.
LEMMA ReplayPlays ==
    ASSUME NEW s \in Seq(Marks), NEW b \in Saved
    PROVE  \E g \in [SUBSET (1..Len(s)) -> Saved] :
              Plays(g, Len(s), b, Steps(s)) /\ ReplayOf(b, s) = g[1..Len(s)]
  <1> DEFINE n == Len(s)
             it == CHOOSE g : g = [t \in SUBSET DOMAIN s |->
                        IF t = {} THEN b ELSE Replay(g[t \ {Max(t)}], s[Max(t)])]
  <1>1. n \in Nat /\ DOMAIN s = 1..n /\ Steps(s) \in [1..n -> [Saved -> Saved]]
    BY StepsTypes
  <1>2. PICK g \in [SUBSET (1..n) -> Saved] : Plays(g, n, b, Steps(s))
    <2> DEFINE base == b
               act == Steps(s)
    <2>1. base \in Saved /\ act \in [1..n -> [Saved -> Saved]]  BY <1>1
    <2> HIDE DEF n, base, act
    <2>2. \E g \in [SUBSET (1..n) -> Saved] : Plays(g, n, base, act)  BY <1>1, <2>1, PlayDefined
    <2> QED  BY <2>2 DEF base, act
  <1>3. ASSUME NEW t \in SUBSET (1..n)
        PROVE  g[t] = IF t = {} THEN b ELSE Replay(g[t \ {Max(t)}], s[Max(t)])
    <2>1. CASE t = {}  BY <1>2, <2>1 DEF Plays
    <2>2. CASE t # {}
      <3> HIDE DEF n
      <3>1. g[t] = Steps(s)[Max(t)][g[t \ {Max(t)}]]  BY <1>2, <2>2 DEF Plays
      <3>2. Max(t) \in 1..n  BY <1>1, <2>2, MaxIn
      <3>3. g[t \ {Max(t)}] \in Saved  OBVIOUS
      <3>4. Steps(s)[Max(t)][g[t \ {Max(t)}]] = Replay(g[t \ {Max(t)}], s[Max(t)])
        BY <3>2, <3>3 DEF Steps, n
      <3> QED  BY <2>2, <3>1, <3>4
    <2> QED  BY <2>1, <2>2
  <1>4. g = [t \in SUBSET DOMAIN s |->
                IF t = {} THEN b ELSE Replay(g[t \ {Max(t)}], s[Max(t)])]
    BY <1>1, <1>3
  <1>5. it = [t \in SUBSET DOMAIN s |->
                IF t = {} THEN b ELSE Replay(it[t \ {Max(t)}], s[Max(t)])]
    BY <1>4
  <1>6. ReplayOf(b, s) = it[DOMAIN s]  BY DEF ReplayOf, FoldLeft, MapThenFoldSet
  <1>7. it[1..n] = g[1..n]
    <2> HIDE DEF it, n
    <2>1. g[{}] = it[{}]  BY <1>1, <1>3, <1>5
    <2>2. Agree(g, it, n)
      <3> SUFFICES ASSUME NEW t \in (SUBSET (1..n)) \ {{}}, g[t \ {Max(t)}] = it[t \ {Max(t)}]
                   PROVE  g[t] = it[t]
        BY DEF Agree
      <3>1. g[t] = Replay(g[t \ {Max(t)}], s[Max(t)])  BY <1>3
      <3>2. it[t] = Replay(it[t \ {Max(t)}], s[Max(t)])  BY <1>1, <1>5
      <3> QED  BY <3>1, <3>2
    <2> DEFINE one == g
    <2>3. one[{}] = it[{}] /\ Agree(one, it, n)  BY <2>1, <2>2
    <2> HIDE DEF one
    <2>4. \A t \in SUBSET (1..n) : one[t] = it[t]  BY <1>1, <2>3, SameTable
    <2> QED  BY <2>4 DEF one
  <1> HIDE DEF it
  <1> QED  BY <1>1, <1>2, <1>6, <1>7

LEMMA ReplayNothing == ASSUME NEW b \in Saved PROVE ReplayOf(b, <<>>) = b
  <1>1. <<>> \in Seq(Marks) /\ Len(<<>>) = 0  OBVIOUS
  <1>2. PICK g \in [SUBSET (1..0) -> Saved] :
            Plays(g, 0, b, Steps(<<>>)) /\ ReplayOf(b, <<>>) = g[1..0]
    BY <1>1, ReplayPlays
  <1>3. 1..0 = {}  OBVIOUS
  <1> QED  BY <1>2, <1>3 DEF Plays

\* An event more is applied to what the replay had.
LEMMA ReplayOneMore ==
    ASSUME NEW s \in Seq(Marks), NEW e \in Marks, NEW b \in Saved
    PROVE  ReplayOf(b, Append(s, e)) = Replay(ReplayOf(b, s), e) /\ ReplayOf(b, s) \in Saved
  <1> DEFINE n == Len(s)
             r == Append(s, e)
             act == Steps(s)
             more == Steps(r)
             base == b
  <1>1. /\ n \in Nat /\ r \in Seq(Marks) /\ Len(r) = n + 1
        /\ r[n + 1] = e /\ \A i \in 1..n : r[i] = s[i]
    OBVIOUS
  <1>2. PICK g \in [SUBSET (1..n) -> Saved] : Plays(g, n, base, act) /\ ReplayOf(b, s) = g[1..n]
    BY ReplayPlays
  <1> HIDE DEF n, r
  <1>3. PICK h \in [SUBSET (1..(n + 1)) -> Saved] :
            Plays(h, n + 1, base, more) /\ ReplayOf(b, r) = h[1..(n + 1)]
    <2>1. \E h \in [SUBSET (1..Len(r)) -> Saved] :
            Plays(h, Len(r), b, Steps(r)) /\ ReplayOf(b, r) = h[1..Len(r)]
      BY <1>1, ReplayPlays
    <2> QED  BY <1>1, <2>1
  <1>4. SameSteps(act, more, n, Saved)  BY <1>1 DEF SameSteps, Steps, n
  <1>5. more[n + 1][g[1..n]] = Replay(g[1..n], e)  BY <1>1 DEF Steps
  <1>6. h[1..(n + 1)] = more[n + 1][g[1..n]] /\ g[1..n] \in Saved
    <2> DEFINE one == g
               other == h
               A == Saved
    <2>1. /\ one \in [SUBSET (1..n) -> A] /\ other \in [SUBSET (1..(n + 1)) -> A]
          /\ Plays(one, n, base, act) /\ Plays(other, n + 1, base, more)
          /\ SameSteps(act, more, n, A)
      BY <1>2, <1>3, <1>4
    <2> HIDE DEF one, other, A, act, more, base
    <2>2. other[1..(n + 1)] = more[n + 1][one[1..n]] /\ one[1..n] \in A
      BY <1>1, <2>1, PlayOneMore
    <2> QED  BY <2>2 DEF one, other, A
  <1> QED  BY <1>2, <1>3, <1>5, <1>6 DEF r

LEMMA ReplayTypes == ASSUME NEW b \in Saved, NEW s \in Seq(Marks) PROVE ReplayOf(b, s) \in Saved
  <1> DEFINE e == [kind |-> "Stage", to |-> "Learning", trade |-> [id |-> 0, epoch |-> 0]]
  <1>1. e \in Marks  BY DEF Marks, Stages, Trades
  <1> HIDE DEF e
  <1> QED  BY <1>1, ReplayOneMore

\* What a start under the identity i replays the journal over, with the snapshot
\* s, and what it gets.
Owned(i, s) ==
    IF s.learning.fingerprint = i THEN s
    ELSE [s EXCEPT !.learning = Reset(@, i), !.stage = "Learning", !.returnPending = FALSE]
Replayed(i) == ReplayOf(Owned(i, snapshot), events)

LEMMA OwnedTypes ==
    ASSUME NEW s \in Saved, NEW i \in Identities
    PROVE  /\ Owned(i, s) \in Saved /\ Owned(i, s).learning.trades \subseteq s.learning.trades
           /\ Owned(i, s).canary = s.canary /\ Owned(i, s).held = s.held
  <1> DEFINE l == Reset(s.learning, i)
  <1>1. /\ s = [stage |-> s.stage, returnPending |-> s.returnPending, learning |-> s.learning,
               canary |-> s.canary, held |-> s.held]
        /\ s.learning \in Memories
    BY DEF Saved
  <1>2. l \in Memories /\ l.trades = {}  BY <1>1, ResetTypes
  <1>3. CASE s.learning.fingerprint = i  BY <1>1, <1>3 DEF Owned
  <1>4. CASE s.learning.fingerprint # i
    <2>1. Owned(i, s) = [s EXCEPT !.learning = l, !.stage = "Learning", !.returnPending = FALSE]
      BY <1>4 DEF Owned
    <2> HIDE DEF l
    <2>2. Owned(i, s) = [stage |-> "Learning", returnPending |-> FALSE, learning |-> l,
                         canary |-> s.canary, held |-> s.held]
      BY <1>1, <2>1
    <2> QED  BY <1>1, <1>2, <2>2 DEF Saved, Stages
  <1> QED  BY <1>3, <1>4

LEMMA ReplayedTypes == ASSUME EvidenceTypes, NEW i \in Identities PROVE Replayed(i) \in Saved
  <1>1. Owned(i, snapshot) \in Saved /\ events \in Seq(Marks)  BY OwnedTypes DEF EvidenceTypes
  <1> QED  BY <1>1, ReplayTypes DEF Replayed

LEMMA RecoveredIsReplayed ==
    ASSUME NEW i
    PROVE  Recovered(i) = [Replayed(i) EXCEPT !.learning = Recorded(@, bundles[i])]
  BY DEF Recovered, Replayed, Owned, ReplayOf

LEMMA RecoveredTypes ==
    ASSUME EvidenceTypes, NEW i \in Identities
    PROVE  /\ Recovered(i) \in Saved
           /\ Recovered(i).learning.trades \subseteq Replayed(i).learning.trades \cup bundles[i]
           /\ Recovered(i).canary = Replayed(i).canary
           /\ Recovered(i).held = Replayed(i).held
  <1> DEFINE r == Replayed(i)
             l == Recorded(r.learning, bundles[i])
  <1>1. r \in Saved  BY ReplayedTypes
  <1> HIDE DEF r
  <1>2. /\ r = [stage |-> r.stage, returnPending |-> r.returnPending, learning |-> r.learning,
                canary |-> r.canary, held |-> r.held]
        /\ r.learning \in Memories
    BY <1>1 DEF Saved
  <1>3. bundles[i] \in SUBSET Trades  BY DEF EvidenceTypes
  <1>4. l \in Memories /\ l.trades \subseteq r.learning.trades \cup bundles[i]
    BY <1>2, <1>3, RecordedTypes
  <1>5. Recovered(i) = [r EXCEPT !.learning = l]  BY RecoveredIsReplayed DEF r
  <1> HIDE DEF l
  <1>6. Recovered(i) = [stage |-> r.stage, returnPending |-> r.returnPending, learning |-> l,
                        canary |-> r.canary, held |-> r.held]
    BY <1>2, <1>5
  <1>7. Recovered(i) \in Saved  BY <1>1, <1>4, <1>6 DEF Saved
  <1> QED  BY <1>4, <1>6, <1>7 DEF r

LEMMA RestartTypes == ASSUME EvidenceTypes, Restart PROVE EvidenceTypes' /\ Kinds
  <1>1. PICK i \in Identities, fresh \in BOOLEAN :
            /\ identity' = i /\ calibrated' = fresh
            /\ stage' = Recovered(i).stage /\ returnPending' = Recovered(i).returnPending
            /\ learning' = Recovered(i).learning /\ canary' = Recovered(i).canary
            /\ held' = Recovered(i).held
    BY DEF Restart
  <1>2. UNCHANGED <<blocked, snapshot, events, bundles, opened>>  BY DEF Restart, disk
  <1>3. Recovered(i) \in Saved  BY RecoveredTypes
  <1>4. EvidenceTypes'  BY <1>1, <1>2, <1>3 DEF EvidenceTypes, Saved
  <1> QED  BY <1>4 DEF Kinds

\* A close leaves its event.
ClosedMark == [kind |-> "Closed", to |-> stage, trade |-> Trade(opened)]

LEMMA ClosedMarkTypes ==
    ASSUME EvidenceTypes
    PROVE  /\ ClosedMark \in Marks /\ ClosedMark.kind = "Closed" /\ ClosedMark.to = stage
           /\ ClosedMark.trade = Trade(opened) /\ Trade(opened) \in Trades /\ Trade(opened).id = opened
  <1>1. Trade(opened) \in Trades /\ Trade(opened).id = opened  BY TradeTypes DEF EvidenceTypes
  <1> QED  BY <1>1 DEF EvidenceTypes, Marks, ClosedMark

LEMMA CloseTypes == ASSUME EvidenceTypes, Close PROVE EvidenceTypes' /\ Kinds
  <1>1. /\ events' = Append(events, ClosedMark) /\ held' = FALSE
        /\ UNCHANGED <<stage, identity, calibrated, blocked, snapshot, opened>>
        /\ canary' = IF stage = "Canary" THEN canary + 1 ELSE canary
    BY DEF Close, ClosedMark, history
  <1>2. events' \in Seq(Marks)
    <2>1. events \in Seq(Marks) /\ ClosedMark \in Marks  BY ClosedMarkTypes DEF EvidenceTypes
    <2> QED  BY <1>1, <2>1, AppendTypes
  <1>3. learning' \in Memories /\ bundles' \in [Identities -> SUBSET Trades]
    <2>1. CASE stage = "Learning"
      <3>1. /\ learning' = Recorded(learning, {Trade(opened)})
            /\ bundles' = [bundles EXCEPT ![identity] = learning'.trades]
        BY <2>1 DEF Close
      <3>2. {Trade(opened)} \in SUBSET Trades  BY ClosedMarkTypes
      <3>3. learning' \in Memories  BY <3>1, <3>2, RecordedTypes DEF EvidenceTypes
      <3>4. learning'.trades \in SUBSET Trades  BY <3>3 DEF Memories
      <3> QED  BY <3>1, <3>3, <3>4 DEF EvidenceTypes
    <2>2. CASE stage # "Learning"  BY <2>2 DEF Close, EvidenceTypes
    <2> QED  BY <2>1, <2>2
  <1>4. returnPending' \in BOOLEAN  BY DEF Close, EvidenceTypes
  <1>5. canary' \in Nat  BY <1>1 DEF EvidenceTypes
  <1>6. EvidenceTypes'
    <2>1. held' \in BOOLEAN  BY <1>1
    <2> QED  BY <1>1, <1>2, <1>3, <1>4, <1>5, <2>1 DEF EvidenceTypes
  <1> QED  BY <1>6 DEF Kinds

LEMMA EvidenceStarts == StageInit => EvidenceTypes
  <1> SUFFICES ASSUME StageInit PROVE EvidenceTypes  OBVIOUS
  <1>1. identity \in Identities /\ learning = NewLearning(identity)  BY DEF StageInit
  <1>2. learning \in Memories  BY <1>1 DEF NewLearning, Memories
  <1>3. stage = "Learning" /\ returnPending = FALSE /\ canary = 0 /\ held = FALSE  BY DEF StageInit
  <1>4. snapshot = Snapshot /\ events = <<>> /\ bundles = [i \in Identities |-> {}]
        /\ calibrated = FALSE /\ blocked = FALSE /\ opened = 0
    BY DEF StageInit
  <1>5. stage \in Stages /\ returnPending \in BOOLEAN /\ canary \in Nat /\ held \in BOOLEAN
    BY <1>3 DEF Stages
  <1>6. snapshot \in Saved  BY <1>2, <1>4, <1>5 DEF Snapshot, Saved
  <1>7. events \in Seq(Marks) /\ bundles \in [Identities -> SUBSET Trades]  BY <1>4
  <1> QED  BY <1>1, <1>2, <1>4, <1>5, <1>6, <1>7 DEF EvidenceTypes

LEMMA EvidenceStep ==
    ASSUME EvidenceTypes, StageInv, StageNext PROVE EvidenceTypes' /\ Kinds
  BY LoadContextTypes, ResetLearningTypes, CheckLiveTypes, ReturnStepTypes, PromotionTypes,
     OtherQuietTypes, EnterStageTypes, SaveSnapshotTypes, EndTypes, EnterTypes, RestartTypes, CloseTypes
  DEF StageNext, Step

-----------------------------------------------------------------------------
(* Every close is in one book: L has those of Learning, C those of Canary. *)

\* The position that is open has not closed.
Fresh(C, L) == opened \in Nat \ {0} /\ opened \notin C /\ \A t \in L : t.id # opened

\* Evidence is of the books.
Booked(l, c, C, L) == l.trades \subseteq L /\ c \in 0..Cardinality(C)

Books(C, L) ==
    /\ C \in SUBSET (1..opened) /\ L \in SUBSET Trades
    /\ \A t \in L : t.id \in (1..opened) \ C
    /\ \A t, u \in L : t.id = u.id => t = u

Ledger(C, L) ==
    /\ Books(C, L)
    /\ Booked(learning, canary, C, L) /\ Booked(snapshot.learning, snapshot.canary, C, L)
    /\ \A i \in Identities :
        /\ bundles[i] \subseteq L
        /\ Booked(Replayed(i).learning, Replayed(i).canary, C, L)
        /\ Replayed(i).held => Fresh(C, L)

\* The journal knows whether a position is open.
PositionKnown ==
    \A i, j \in Identities :
        /\ Replayed(i).held = Replayed(j).held
        /\ part # "off" => Replayed(i).held = held

LedgerInv == (\E C, L : Ledger(C, L)) /\ PositionKnown

\* Less evidence is booked too.
LEMMA LessIsBooked ==
    ASSUME NEW C, NEW L, NEW l, NEW c, Booked(l, c, C, L),
           NEW k, k.trades \subseteq l.trades, NEW d, d = c \/ d = 0, Cardinality(C) \in Nat
    PROVE  Booked(k, d, C, L)
  BY DEF Booked

LEMMA BooksCount ==
    ASSUME EvidenceTypes, NEW C, NEW L, Books(C, L)
    PROVE  /\ IsFiniteSet(C) /\ IsFiniteSet(L) /\ Cardinality(C) \in Nat /\ Cardinality(L) \in Nat
           /\ Cardinality(L) + Cardinality(C) <= opened
  <1> DEFINE D == (1..opened) \ C
             f == [t \in L |-> t.id]
  <1>1. opened \in Nat  BY DEF EvidenceTypes
  <1>2. IsFiniteSet(1..opened) /\ Cardinality(1..opened) = opened  BY <1>1, FS_Interval
  <1>3. IsFiniteSet(C) /\ IsFiniteSet(D)  BY <1>2, FS_Subset DEF Books
  <1>4. Cardinality(D) = opened - Cardinality(C) /\ Cardinality(C) \in Nat /\ Cardinality(D) \in Nat
    <2>1. C \cup D = 1..opened /\ C \cap D = {}  BY DEF Books
    <2>2. Cardinality(C \cup D) = Cardinality(C) + Cardinality(D) - Cardinality(C \cap D)
      BY <1>3, FS_Union
    <2>3. Cardinality(C \cap D) = 0  BY <2>1, FS_EmptySet
    <2>4. Cardinality(C) \in Nat /\ Cardinality(D) \in Nat  BY <1>3, FS_CardinalityType
    <2>5. opened = Cardinality(C) + Cardinality(D) - 0  BY <1>2, <2>1, <2>2, <2>3
    <2> QED  BY <1>1, <2>4, <2>5
  <1>5. f \in Injection(L, D)  BY DEF Books, Injection, IsInjective
  <1>6. IsFiniteSet(L) /\ Cardinality(L) <= Cardinality(D)
    <2> HIDE DEF f, D
    <2> QED  BY <1>3, <1>5, FS_Injection
  <1> QED  BY <1>1, <1>3, <1>4, <1>6, FS_CardinalityType

\* Without a change of position, books stay books.
LEMMA SameBooks ==
    ASSUME NEW C, NEW L, UNCHANGED opened
    PROVE  (Books(C, L)' <=> Books(C, L)) /\ (Fresh(C, L)' <=> Fresh(C, L))
  BY DEF Books, Fresh

\* The journal as it was, or with a change of stage more, says the same of the
\* evidence.
LEMMA ReplayedMarked ==
    ASSUME EvidenceTypes, EvidenceTypes', UNCHANGED snapshot, UNCHANGED events \/ Marked,
           NEW i \in Identities
    PROVE  /\ Replayed(i)'.learning = Replayed(i).learning
           /\ Replayed(i)'.canary = Replayed(i).canary
           /\ Replayed(i)'.held = Replayed(i).held
  <1>1. Owned(i, snapshot)' = Owned(i, snapshot)  BY DEF Owned
  <1>2. CASE UNCHANGED events
    <2>1. Replayed(i)' = Replayed(i)  BY <1>1, <1>2 DEF Replayed
    <2> QED  BY <2>1
  <1>3. CASE Marked
    <2>1. PICK e \in Marks : e.kind = "Stage" /\ events' = Append(events, e)  BY <1>3 DEF Marked
    <2>2. Owned(i, snapshot) \in Saved /\ events \in Seq(Marks)  BY OwnedTypes DEF EvidenceTypes
    <2>3. Replayed(i)' = Replay(Replayed(i), e) /\ Replayed(i) \in Saved
      BY <1>1, <2>1, <2>2, ReplayOneMore DEF Replayed
    <2>4. e \in Marks /\ e.kind = "Stage" /\ e.kind # "Closed"  BY <2>1
    <2> DEFINE r == Replayed(i)
    <2>5. r \in Saved  BY <2>3
    <2> HIDE DEF r
    <2>6. /\ Replay(r, e).learning = r.learning /\ Replay(r, e).canary = r.canary
          /\ Replay(r, e).held = r.held
      BY <2>4, <2>5, ReplayEvent
    <2> QED  BY <2>3, <2>6 DEF r
  <1> QED  BY <1>2, <1>3

\* After a snapshot the journal adds nothing to it.
LEMMA ReplayedNothing ==
    ASSUME NEW s \in Saved, NEW i \in Identities
    PROVE  ReplayOf(Owned(i, s), <<>>) = Owned(i, s)
  BY OwnedTypes, ReplayNothing

LEMMA AddsNothingKeeps ==
    ASSUME EvidenceTypes, EvidenceTypes', LedgerInv, AddsNothing PROVE LedgerInv'
  <1>1. /\ UNCHANGED <<held, snapshot, bundles, opened>> /\ (UNCHANGED events \/ Marked)
        /\ learning'.trades \subseteq learning.trades /\ (canary' = canary \/ canary' = 0)
        /\ part # "off" /\ part' # "off"
    BY DEF AddsNothing
  <1>2. PICK C, L : Ledger(C, L)  BY DEF LedgerInv
  <1>3. Books(C, L) /\ Cardinality(C) \in Nat  BY <1>2, BooksCount DEF Ledger
  <1>4. \A i \in Identities : /\ Replayed(i)'.learning = Replayed(i).learning
                              /\ Replayed(i)'.canary = Replayed(i).canary
                              /\ Replayed(i)'.held = Replayed(i).held
    BY <1>1, ReplayedMarked
  <1>5. Ledger(C, L)'
    <2>1. Books(C, L)' /\ (Fresh(C, L)' <=> Fresh(C, L))  BY <1>1, <1>3, SameBooks
    <2>2. Booked(learning', canary', C, L)
      BY <1>1, <1>2, <1>3, LessIsBooked DEF Ledger
    <2>3. Booked(snapshot'.learning, snapshot'.canary, C, L)  BY <1>1, <1>2 DEF Ledger
    <2>4. ASSUME NEW i \in Identities
          PROVE  /\ bundles'[i] \subseteq L
                 /\ Booked(Replayed(i)'.learning, Replayed(i)'.canary, C, L)
                 /\ Replayed(i)'.held => Fresh(C, L)
      BY <1>1, <1>2, <1>4 DEF Ledger
    <2> QED  BY <2>1, <2>2, <2>3, <2>4 DEF Ledger
  <1>6. PositionKnown'  BY <1>1, <1>4 DEF LedgerInv, PositionKnown
  <1> QED  BY <1>5, <1>6 DEF LedgerInv

\* The journal is empty, and the snapshot says what the books and the memory do.
LEMMA SavedKeeps ==
    ASSUME EvidenceTypes', NEW C, NEW L, Books(C, L), UNCHANGED <<bundles, opened>>,
           events' = <<>>, Booked(learning', canary', C, L),
           Booked(snapshot'.learning, snapshot'.canary, C, L),
           \A i \in Identities : bundles[i] \subseteq L,
           snapshot'.held => Fresh(C, L), Cardinality(C) \in Nat,
           held' = snapshot'.held
    PROVE  LedgerInv'
  <1>1. \A i \in Identities :
            /\ Replayed(i)'.learning.trades \subseteq snapshot'.learning.trades
            /\ Replayed(i)'.canary = snapshot'.canary
            /\ Replayed(i)'.held = snapshot'.held
    <2> SUFFICES ASSUME NEW i \in Identities
                 PROVE  /\ Replayed(i)'.learning.trades \subseteq snapshot'.learning.trades
                        /\ Replayed(i)'.canary = snapshot'.canary
                        /\ Replayed(i)'.held = snapshot'.held
      OBVIOUS
    <2>1. snapshot' \in Saved  BY DEF EvidenceTypes
    <2>2. Replayed(i)' = ReplayOf(Owned(i, snapshot'), <<>>)  BY DEF Replayed, Owned
    <2>3. Replayed(i)' = Owned(i, snapshot')  BY <2>1, <2>2, ReplayedNothing
    <2> QED  BY <2>1, <2>3, OwnedTypes
  <1>2. Books(C, L)' /\ (Fresh(C, L)' <=> Fresh(C, L))  BY SameBooks
  <1>3. ASSUME NEW i \in Identities
        PROVE  /\ bundles'[i] \subseteq L
               /\ Booked(Replayed(i)'.learning, Replayed(i)'.canary, C, L)
               /\ Replayed(i)'.held => Fresh(C, L)
    BY <1>1, LessIsBooked
  <1>4. Ledger(C, L)'  BY <1>2, <1>3 DEF Ledger
  <1>5. PositionKnown'  BY <1>1 DEF PositionKnown
  <1> QED  BY <1>4, <1>5 DEF LedgerInv

LEMMA SavesKeeps ==
    ASSUME EvidenceTypes, EvidenceTypes', LedgerInv, Saves PROVE LedgerInv'
  <1>1. /\ events' = <<>> /\ UNCHANGED <<learning, held, bundles, opened>>
        /\ (canary' = canary \/ canary' = 0) /\ part # "off"
    BY DEF Saves
  <1>2. PICK to \in Stages : snapshot' = [Snapshot EXCEPT !.stage = to]  BY DEF Saves
  <1>3. /\ snapshot'.learning = learning /\ snapshot'.canary = canary
        /\ snapshot'.held = held
    BY <1>2, SnapshotTypes
  <1>4. PICK C, L : Ledger(C, L)  BY DEF LedgerInv
  <1>5. Books(C, L) /\ Cardinality(C) \in Nat  BY <1>4, BooksCount DEF Ledger
  <1>6. Booked(learning', canary', C, L)  BY <1>1, <1>4, <1>5, LessIsBooked DEF Ledger
  <1>7. Booked(snapshot'.learning, snapshot'.canary, C, L)  BY <1>3, <1>4 DEF Ledger
  <1>8. \A i \in Identities : bundles[i] \subseteq L  BY <1>4 DEF Ledger
  <1>9. snapshot'.held => Fresh(C, L)
    <2>1. identity \in Identities  BY DEF EvidenceTypes
    <2> QED  BY <1>1, <1>3, <1>4, <2>1 DEF Ledger, LedgerInv, PositionKnown
  <1> QED  BY <1>1, <1>3, <1>5, <1>6, <1>7, <1>8, <1>9, SavedKeeps

LEMMA EndsKeeps ==
    ASSUME EvidenceTypes, EvidenceTypes', LedgerInv, Ends PROVE LedgerInv'
  <1>1. /\ learning' = snapshot'.learning /\ canary' = snapshot'.canary
        /\ held' = snapshot'.held /\ UNCHANGED <<bundles, opened>>
        /\ part # "off" /\ part' = "off"
    BY DEF Ends
  <1>2. PICK C, L : Ledger(C, L)  BY DEF LedgerInv
  <1>3. Books(C, L) /\ Cardinality(C) \in Nat  BY <1>2, BooksCount DEF Ledger
  <1>4. \A i \in Identities : bundles[i] \subseteq L  BY <1>2 DEF Ledger
  <1>5. CASE snapshot' = Snapshot /\ events' = <<>>
    <2>1. /\ snapshot'.learning = learning /\ snapshot'.canary = canary
          /\ snapshot'.held = held
      BY <1>5, SnapshotTypes
    <2>2. Booked(snapshot'.learning, snapshot'.canary, C, L)  BY <1>2, <2>1 DEF Ledger
    <2>3. Booked(learning', canary', C, L)  BY <1>1, <2>2
    <2>4. snapshot'.held => Fresh(C, L)
      <3>1. identity \in Identities  BY DEF EvidenceTypes
      <3> QED  BY <1>1, <1>2, <2>1, <3>1 DEF Ledger, LedgerInv, PositionKnown
    <2> QED  BY <1>1, <1>3, <1>4, <1>5, <2>2, <2>3, <2>4, SavedKeeps
  <1>6. CASE UNCHANGED <<snapshot, events>>
    <2>1. \A i \in Identities : Replayed(i)' = Replayed(i)  BY <1>6 DEF Replayed, Owned
    <2>2. Books(C, L)' /\ (Fresh(C, L)' <=> Fresh(C, L))  BY <1>1, <1>3, SameBooks
    <2>3. Ledger(C, L)'  BY <1>1, <1>2, <1>6, <2>1, <2>2 DEF Ledger
    <2>4. PositionKnown'  BY <1>1, <2>1 DEF LedgerInv, PositionKnown
    <2> QED  BY <2>3, <2>4 DEF LedgerInv
  <1> QED  BY <1>5, <1>6 DEF Ends

LEMMA RestartKeepsBooks ==
    ASSUME EvidenceTypes, EvidenceTypes', LedgerInv, Restart PROVE LedgerInv'
  <1>1. PICK j \in Identities :
            /\ learning' = Recovered(j).learning /\ canary' = Recovered(j).canary
            /\ held' = Recovered(j).held
    BY DEF Restart
  <1>2. UNCHANGED <<snapshot, events, bundles, opened>>  BY DEF Restart, disk
  <1>3. PICK C, L : Ledger(C, L)  BY DEF LedgerInv
  <1>4. Books(C, L)  BY <1>3 DEF Ledger
  <1>5. Booked(learning', canary', C, L)
    <2>1. /\ learning'.trades \subseteq Replayed(j).learning.trades \cup bundles[j]
          /\ canary' = Replayed(j).canary
      BY <1>1, RecoveredTypes
    <2> QED  BY <1>3, <2>1 DEF Ledger, Booked
  <1>6. \A i \in Identities : Replayed(i)' = Replayed(i)  BY <1>2 DEF Replayed, Owned
  <1>7. Books(C, L)' /\ (Fresh(C, L)' <=> Fresh(C, L))  BY <1>2, <1>4, SameBooks
  <1>8. Ledger(C, L)'  BY <1>2, <1>3, <1>5, <1>6, <1>7 DEF Ledger
  <1>9. PositionKnown'
    <2>1. held' = Replayed(j).held  BY <1>1, RecoveredTypes
    <2> QED  BY <1>6, <2>1 DEF LedgerInv, PositionKnown
  <1> QED  BY <1>8, <1>9 DEF LedgerInv

LEMMA OpensKeeps ==
    ASSUME EvidenceTypes, EvidenceTypes', LedgerInv, Opens PROVE LedgerInv'
  <1> DEFINE e == [kind |-> "Opened", to |-> stage, trade |-> Trade(opened')]
  <1>1. /\ held' = TRUE /\ opened' = opened + 1 /\ events' = Append(events, e)
        /\ UNCHANGED <<learning, canary, snapshot, bundles>> /\ opened \in Nat
    BY DEF Opens, Opened, EvidenceTypes
  <1>2. PICK C, L : Ledger(C, L)  BY DEF LedgerInv
  <1>3. e \in Marks /\ e.kind = "Opened"
    <2>1. opened' \in Nat  BY <1>1
    <2>2. Trade(opened') \in Trades  BY <2>1, TradeTypes
    <2> QED  BY <2>2 DEF EvidenceTypes, Marks
  <1> HIDE DEF e
  <1>4. ASSUME NEW i \in Identities
        PROVE  /\ Replayed(i)'.learning = Replayed(i).learning
               /\ Replayed(i)'.canary = Replayed(i).canary
               /\ Replayed(i)'.held = TRUE
    <2>1. Owned(i, snapshot)' = Owned(i, snapshot)  BY <1>1 DEF Owned
    <2>2. Owned(i, snapshot) \in Saved /\ events \in Seq(Marks)  BY OwnedTypes DEF EvidenceTypes
    <2>3. Replayed(i)' = Replay(Replayed(i), e) /\ Replayed(i) \in Saved
      BY <1>1, <1>3, <2>1, <2>2, ReplayOneMore DEF Replayed
    <2> QED  BY <1>3, <2>3, ReplayEvent
  <1>5. Books(C, L)' /\ Fresh(C, L)'
    <2>1. Books(C, L)  BY <1>2 DEF Ledger
    <2>2. 1..opened \subseteq 1..opened' /\ opened' \notin 1..opened /\ opened' \in Nat \ {0}  BY <1>1
    <2> QED  BY <2>1, <2>2 DEF Books, Fresh
  <1>6. Ledger(C, L)'  BY <1>1, <1>2, <1>4, <1>5 DEF Ledger
  <1>7. PositionKnown'  BY <1>1, <1>4 DEF PositionKnown
  <1> QED  BY <1>6, <1>7 DEF LedgerInv

\* Books with more in them have what was booked.
LEMMA MoreIsBooked ==
    ASSUME NEW C, NEW L, NEW D, NEW M, L \subseteq M, NEW l, NEW c, Booked(l, c, C, L),
           Cardinality(C) \in Nat, Cardinality(D) \in Nat, Cardinality(C) <= Cardinality(D)
    PROVE  Booked(l, c, D, M)
  BY DEF Booked

LEMMA CloseKeepsBooks ==
    ASSUME EvidenceTypes, EvidenceTypes', LedgerInv, Close PROVE LedgerInv'
  <1> DEFINE e == ClosedMark
             t == Trade(opened)
  <1>1. /\ part = "exit" /\ held /\ part' = "return" /\ held' = FALSE
        /\ events' = Append(events, e) /\ UNCHANGED <<snapshot, opened>>
        /\ canary' = IF stage = "Canary" THEN canary + 1 ELSE canary
    BY DEF Close, ClosedMark, history
  <1>2. /\ e \in Marks /\ e.kind = "Closed" /\ e.to = stage /\ e.trade = t
        /\ t \in Trades /\ t.id = opened
    BY ClosedMarkTypes
  <1>3. PICK C, L : Ledger(C, L)  BY DEF LedgerInv
  <1>4. Books(C, L) /\ Fresh(C, L)
    <2>1. identity \in Identities /\ Replayed(identity).held = held
      BY <1>1 DEF EvidenceTypes, LedgerInv, PositionKnown
    <2> QED  BY <1>1, <1>3, <2>1 DEF Ledger
  <1>5. IsFiniteSet(C) /\ Cardinality(C) \in Nat  BY <1>4, BooksCount
  <1>6. opened \in Nat /\ learning \in Memories /\ canary \in Nat /\ snapshot \in Saved
        /\ identity \in Identities
    BY DEF EvidenceTypes
  <1> HIDE DEF e, t
  <1>7. ASSUME NEW i \in Identities
        PROVE  /\ Replayed(i)'.held = FALSE
               /\ Replayed(i)'.learning = IF stage = "Learning"
                                          THEN Recorded(Replayed(i).learning, {t})
                                          ELSE Replayed(i).learning
               /\ Replayed(i)'.canary = IF stage = "Canary" THEN Replayed(i).canary + 1
                                        ELSE Replayed(i).canary
               /\ Replayed(i) \in Saved
    <2>1. Owned(i, snapshot)' = Owned(i, snapshot)  BY <1>1 DEF Owned
    <2>2. Owned(i, snapshot) \in Saved /\ events \in Seq(Marks)  BY OwnedTypes DEF EvidenceTypes
    <2>3. Replayed(i)' = Replay(Replayed(i), e) /\ Replayed(i) \in Saved
      BY <1>1, <1>2, <2>1, <2>2, ReplayOneMore DEF Replayed
    <2> DEFINE r == Replayed(i)
    <2>4. r \in Saved  BY <2>3
    <2> HIDE DEF r
    <2>5. /\ Replay(r, e).held = FALSE
          /\ Replay(r, e).learning = IF stage = "Learning" THEN Recorded(r.learning, {t})
                                     ELSE r.learning
          /\ Replay(r, e).canary = IF stage = "Canary" THEN r.canary + 1 ELSE r.canary
      BY <1>2, <2>4, ReplayEvent
    <2> QED  BY <2>3, <2>5 DEF r
  <1>8. PositionKnown'  BY <1>1, <1>7 DEF PositionKnown
  <1>9. CASE stage = "Learning"
    <2>0. PICK M : M = L \cup {t}  OBVIOUS
    <2>1. Books(C, M)  BY <1>2, <1>4, <2>0 DEF Books, Fresh
    <2>2. ASSUME NEW l \in Memories, l.trades \subseteq L
          PROVE  Recorded(l, {t}).trades \subseteq M
      <3>1. {t} \in SUBSET Trades  BY <1>2
      <3> QED  BY <2>0, <2>2, <3>1, RecordedTypes
    <2>3. /\ learning' = Recorded(learning, {t}) /\ canary' = canary
          /\ bundles' = [bundles EXCEPT ![identity] = learning'.trades]
      BY <1>1, <1>9 DEF Close, t
    <2>4. L \subseteq M  BY <2>0
    <2>5. Booked(learning', canary', C, M)
      BY <1>3, <1>6, <2>2, <2>3 DEF Ledger, Booked
    <2>6. Booked(snapshot'.learning, snapshot'.canary, C, M)
      BY <1>1, <1>3, <2>4 DEF Ledger, Booked
    <2>7. ASSUME NEW i \in Identities
          PROVE  /\ bundles'[i] \subseteq M
                 /\ Booked(Replayed(i)'.learning, Replayed(i)'.canary, C, M)
                 /\ ~Replayed(i)'.held
      <3>1. bundles[i] \subseteq M /\ Booked(Replayed(i).learning, Replayed(i).canary, C, L)
        BY <1>3, <2>4 DEF Ledger
      <3>2. bundles'[i] \subseteq M
        <4>1. learning'.trades \subseteq M  BY <2>5 DEF Booked
        <4> QED  BY <1>6, <2>3, <3>1, <4>1 DEF EvidenceTypes
      <3>3. Replayed(i).learning \in Memories  BY <1>7 DEF Saved
      <3>4. Recorded(Replayed(i).learning, {t}).trades \subseteq M
        BY <2>2, <3>1, <3>3 DEF Booked
      <3> QED  BY <1>7, <1>9, <3>1, <3>2, <3>4 DEF Booked
    <2>8. Books(C, M)'  BY <1>1, <2>1, SameBooks
    <2>9. Ledger(C, M)'  BY <2>5, <2>6, <2>7, <2>8 DEF Ledger
    <2> QED  BY <1>8, <2>9 DEF LedgerInv
  <1>10. CASE stage # "Learning"
    <2>0. PICK D, k : /\ D = IF stage = "Canary" THEN C \cup {opened} ELSE C
                      /\ k = IF stage = "Canary" THEN 1 ELSE 0
      OBVIOUS
    <2>1. Books(D, L)  BY <1>4, <1>6, <2>0 DEF Books, Fresh
    <2>2. Cardinality(D) = Cardinality(C) + k
      BY <1>4, <1>5, <2>0, FS_AddElement DEF Fresh
    <2>3. k \in {0, 1} /\ canary' = canary + k
      BY <1>1, <1>6, <2>0
    <2>4. \A i \in Identities : /\ Replayed(i)'.canary = Replayed(i).canary + k
                                /\ Replayed(i)'.learning = Replayed(i).learning
                                /\ Replayed(i)'.held = FALSE
      <3> SUFFICES ASSUME NEW i \in Identities
                   PROVE  /\ Replayed(i)'.canary = Replayed(i).canary + k
                          /\ Replayed(i)'.learning = Replayed(i).learning
                          /\ Replayed(i)'.held = FALSE
        OBVIOUS
      <3>1. Replayed(i).canary \in Nat  BY <1>7 DEF Saved
      <3> DEFINE r == Replayed(i)
      <3>2. /\ Replayed(i)'.canary = IF stage = "Canary" THEN r.canary + 1 ELSE r.canary
            /\ Replayed(i)'.learning = r.learning /\ Replayed(i)'.held = FALSE
            /\ r.canary \in Nat
        BY <1>7, <1>10, <3>1
      <3> HIDE DEF r
      <3>3. Replayed(i)'.canary = r.canary + k  BY <2>0, <3>2
      <3> QED  BY <3>2, <3>3 DEF r
    <2>5. UNCHANGED <<learning, bundles>>  BY <1>10 DEF Close
    <2>6. ASSUME NEW l, NEW c, Booked(l, c, C, L)
          PROVE  Booked(l, c, D, L) /\ Booked(l, c + k, D, L)
      <3>1. c \in 0..Cardinality(C) /\ l.trades \subseteq L  BY <2>6 DEF Booked
      <3>2. c \in 0..Cardinality(D) /\ c + k \in 0..Cardinality(D)  BY <1>5, <2>2, <2>3, <3>1
      <3> QED  BY <3>1, <3>2 DEF Booked
    <2>7. Booked(learning', canary', D, L)  BY <1>3, <2>3, <2>5, <2>6 DEF Ledger
    <2>8. Booked(snapshot'.learning, snapshot'.canary, D, L)  BY <1>1, <1>3, <2>6 DEF Ledger
    <2>9. \A i \in Identities :
            /\ bundles'[i] \subseteq L
            /\ Booked(Replayed(i)'.learning, Replayed(i)'.canary, D, L)
            /\ ~Replayed(i)'.held
      BY <1>3, <2>4, <2>5, <2>6 DEF Ledger
    <2>10. Books(D, L)'  BY <1>1, <2>1, SameBooks
    <2>11. Ledger(D, L)'  BY <2>7, <2>8, <2>9, <2>10 DEF Ledger
    <2> QED  BY <1>8, <2>11 DEF LedgerInv
  <1> QED  BY <1>9, <1>10

LEMMA LedgerStarts == ASSUME EvidenceTypes, StageInit PROVE LedgerInv
  <1>1. /\ learning = NewLearning(identity) /\ canary = 0 /\ held = FALSE
        /\ snapshot = Snapshot /\ events = <<>> /\ bundles = [i \in Identities |-> {}] /\ opened = 0
    BY DEF StageInit
  <1>2. learning.trades = {}  BY <1>1 DEF NewLearning
  <1>3. snapshot.learning.trades = {} /\ snapshot.canary = 0 /\ snapshot.held = FALSE
    BY <1>1, <1>2, SnapshotTypes
  <1>4. \A i \in Identities : /\ Replayed(i).learning.trades = {} /\ Replayed(i).canary = 0
                              /\ Replayed(i).held = FALSE
    <2>1. snapshot \in Saved  BY DEF EvidenceTypes
    <2>2. \A i \in Identities : Replayed(i) = Owned(i, snapshot)
      BY <1>1, <2>1, ReplayedNothing DEF Replayed
    <2> QED  BY <1>3, <2>1, <2>2, OwnedTypes
  <1>5. Ledger({}, {})
    BY <1>1, <1>2, <1>3, <1>4, FS_EmptySet DEF Ledger, Books, Booked
  <1>6. PositionKnown  BY <1>1, <1>4 DEF PositionKnown
  <1> QED  BY <1>5, <1>6 DEF LedgerInv

LEMMA IdleKeeps == ASSUME EvidenceTypes, LedgerInv, UNCHANGED stageVars PROVE EvidenceTypes' /\ LedgerInv'
  <1>1. /\ UNCHANGED <<stage, returnPending, identity, learning, canary, held, calibrated, blocked>>
        /\ UNCHANGED <<snapshot, events, bundles, opened, part>>
    BY DEF stageVars, memory, control, disk, history
  <1>2. EvidenceTypes'  BY <1>1 DEF EvidenceTypes
  <1>3. \A i \in Identities : Replayed(i)' = Replayed(i)  BY <1>1 DEF Replayed, Owned
  <1>4. PICK C, L : Ledger(C, L)  BY DEF LedgerInv
  <1>5. Books(C, L)  BY <1>4 DEF Ledger
  <1>6. Books(C, L)' /\ (Fresh(C, L)' <=> Fresh(C, L))  BY <1>1, <1>5, SameBooks
  <1>7. Ledger(C, L)'  BY <1>1, <1>3, <1>4, <1>6 DEF Ledger
  <1>8. PositionKnown'  BY <1>1, <1>3 DEF LedgerInv, PositionKnown
  <1> QED  BY <1>2, <1>7, <1>8 DEF LedgerInv

BookInv == StageInv /\ EvidenceTypes /\ LedgerInv

LEMMA BookStep == BookInv /\ [StageNext]_stageVars => BookInv'
  <1> SUFFICES ASSUME BookInv, [StageNext]_stageVars PROVE BookInv'  OBVIOUS
  <1>1. StageInv'  BY StageInvStep DEF BookInv
  <1>2. CASE UNCHANGED stageVars  BY <1>1, <1>2, IdleKeeps DEF BookInv
  <1>3. CASE StageNext
    <2>1. EvidenceTypes' /\ Kinds  BY <1>3, EvidenceStep DEF BookInv
    <2>2. LedgerInv'
      BY <2>1, AddsNothingKeeps, SavesKeeps, EndsKeeps, OpensKeeps, CloseKeepsBooks,
         RestartKeepsBooks
      DEF Kinds, BookInv
    <2> QED  BY <1>1, <2>1, <2>2 DEF BookInv
  <1> QED  BY <1>2, <1>3

LEMMA BookCounts == BookInv => TradesCountOnce
  <1> SUFFICES ASSUME BookInv PROVE TradesCountOnce  OBVIOUS
  <1>1. PICK C, L : Ledger(C, L)  BY DEF BookInv, LedgerInv
  <1>2. /\ IsFiniteSet(C) /\ IsFiniteSet(L) /\ Cardinality(C) \in Nat /\ Cardinality(L) \in Nat
        /\ Cardinality(L) + Cardinality(C) <= opened
    BY <1>1, BooksCount DEF BookInv, Ledger
  <1>3. learning.trades \subseteq L /\ canary \in 0..Cardinality(C)
    BY <1>1 DEF Ledger, Booked
  <1>4. IsFiniteSet(learning.trades) /\ Cardinality(learning.trades) <= Cardinality(L)
    BY <1>2, <1>3, FS_Subset
  <1>5. Cardinality(learning.trades) \in Nat /\ opened \in Nat
    BY <1>4, FS_CardinalityType DEF BookInv, EvidenceTypes
  <1> QED  BY <1>2, <1>3, <1>4, <1>5 DEF TradesCountOnce

LEMMA BooksHold == StageSpec => []BookInv
  <1>1. StageInit => BookInv  BY StageStarts, EvidenceStarts, LedgerStarts DEF BookInv
  <1> QED  BY <1>1, BookStep, PTL DEF StageSpec

\* A close is evidence of Learning or performance of Canary once, however the run
\* that made it ended and whichever identity the next one has (record_stage_trade,
\* apply_recovery_event, the bundle's import).
THEOREM ClosesCountOnce == StageSpec => []TradesCountOnce
  BY BooksHold, BookCounts, PTL

-----------------------------------------------------------------------------
(* The types.                                                              *)

AuthorityTypes ==
    /\ readiness \in Digests \cup {0}
    /\ authorized = NotAuthorized \/ authorized \in [nonce : 1..MaxGrants, readiness : Digests]
    /\ part \in {"account", "claimed", "removed"} => candidate.readiness \in Digests
    /\ consumed \subseteq {g.nonce : g \in issued}

LEMMA AuthorityStarts == StageInit => AuthorityTypes
  BY DEF StageInit, AuthorityTypes

LEMMA ArmTypes == ASSUME StageInv, AuthorityTypes, Arm PROVE AuthorityTypes'
  <1>1. /\ part = "removed" /\ part' = "changing" /\ authorized' = candidate
        /\ UNCHANGED <<readiness, consumed, issued>>
    BY DEF Arm, Journal, files
  <1>2. /\ candidate = [nonce |-> candidate.nonce, readiness |-> candidate.readiness]
        /\ GrantFor(candidate.nonce, candidate.readiness)
    BY <1>1 DEF StageInv, CandidateInv
  <1>3. candidate.nonce \in 1..MaxGrants
    <2>1. candidate.nonce \in 1..Cardinality(issued) /\ Cardinality(issued) <= MaxGrants
      BY <1>2 DEF StageInv, GrantsInv, GrantFor
    <2>2. Cardinality(issued) \in Nat /\ MaxGrants \in Nat
      BY FS_CardinalityType, StageAssumption DEF StageInv, GrantsInv
    <2> QED  BY <2>1, <2>2
  <1>4. candidate.readiness \in Digests  BY <1>1 DEF AuthorityTypes
  <1>5. authorized' \in [nonce : 1..MaxGrants, readiness : Digests]
    BY <1>1, <1>2, <1>3, <1>4
  <1> QED  BY <1>1, <1>5 DEF AuthorityTypes

LEMMA ClaimGrantTypes == ASSUME StageInv, AuthorityTypes, ClaimGrant PROVE AuthorityTypes'
  <1>1. part = "account" /\ UNCHANGED <<readiness, authorized, issued>>
    BY DEF ClaimGrant, memory
  <1>2. CASE AuthorizationIsValid(Terms(candidate.readiness))
    <2>1. /\ consumed' = consumed \cup {grant.nonce} /\ grant # NoGrant
          /\ candidate' = [candidate EXCEPT !.nonce = grant.nonce]
      BY <1>2 DEF ClaimGrant, AuthorizationIsValid
    <2>2. grant \in issued  BY <2>1 DEF StageInv, GrantsInv
    <2>3. candidate'.readiness \in Digests
      <3>1. candidate = [nonce |-> candidate.nonce, readiness |-> candidate.readiness]
        BY <1>1 DEF StageInv, CandidateInv
      <3>2. candidate' = [nonce |-> grant.nonce, readiness |-> candidate.readiness]
        BY <2>1, <3>1
      <3> QED  BY <1>1, <3>2 DEF AuthorityTypes
    <2> QED  BY <1>1, <2>1, <2>2, <2>3 DEF AuthorityTypes
  <1>3. CASE ~AuthorizationIsValid(Terms(candidate.readiness))
    <2>1. part' = "entry" /\ UNCHANGED consumed  BY <1>3 DEF ClaimGrant
    <2> QED  BY <1>1, <2>1 DEF AuthorityTypes
  <1> QED  BY <1>2, <1>3

\* A step that reads no readiness, claims no grant and arms nothing.
LEMMA SameAuthorityTypes ==
    ASSUME AuthorityTypes, UNCHANGED <<readiness, consumed>>, issued \subseteq issued',
           authorized' = authorized \/ authorized' = NotAuthorized,
           part' \in {"account", "claimed", "removed"} =>
                part \in {"account", "claimed", "removed"} /\ UNCHANGED candidate
    PROVE  AuthorityTypes'
  BY DEF AuthorityTypes

LEMMA AuthorityTypesStep ==
    ASSUME StageInv, AuthorityTypes, [StageNext]_stageVars PROVE AuthorityTypes'
  <1>1. CASE Arm  BY <1>1, ArmTypes
  <1>2. CASE ClaimGrant  BY <1>2, ClaimGrantTypes
  <1>3. CASE ReadReadiness
    <2>1. /\ readiness # 0 /\ candidate' = [nonce |-> 0, readiness |-> readiness]
          /\ UNCHANGED <<readiness, authorized, issued, consumed>>
      BY <1>3 DEF ReadReadiness, memory, files
    <2> QED  BY <2>1 DEF AuthorityTypes
  <1>4. CASE ChangeReadiness
    <2>1. /\ readiness' \in Digests \cup {0} /\ UNCHANGED <<authorized, issued, consumed>>
          /\ UNCHANGED <<part, candidate>>
      BY <1>4 DEF ChangeReadiness, memory, control
    <2> QED  BY <2>1 DEF AuthorityTypes
  <1>5. CASE LoadContext \/ BlockedStep \/ Close \/ HoldPosition \/ Stay \/ EnterOnPaper \/ EnterWithMoney
             \/ NoEntry \/ SaveSnapshot \/ PromoteToEligible \/ PromoteOnward \/ Restart
    <2>1. UNCHANGED <<readiness, authorized, issued, consumed>>
      BY <1>5 DEF LoadContext, BlockedStep, Close, HoldPosition, Stay, EnterOnPaper, EnterWithMoney,
                  NoEntry, SaveSnapshot, PromoteToEligible, PromoteOnward, Restart, memory, files
    <2>2. part' \in {"idle", "end", "return", "entry", "changing", "context"}
      BY <1>5 DEF LoadContext, BlockedStep, Close, HoldPosition, Stay, EnterOnPaper, EnterWithMoney,
                  NoEntry, SaveSnapshot, PromoteToEligible, PromoteOnward, Restart, Journal
    <2> QED  BY <2>1, <2>2, SameAuthorityTypes
  <1>6. CASE CheckLive \/ ReturnIfPending \/ RefuseEntry
    <2>1. UNCHANGED <<readiness, authorized, issued, consumed>>
      BY <1>6 DEF CheckLive, ReturnIfPending, RefuseEntry, files
    <2>2. \/ part' = "exit"
          \/ \E place \in {"returnedEarly", "returned", "returnedLate"} : Return(place)
      BY <1>6 DEF CheckLive, ReturnIfPending, RefuseEntry
    <2>3. part' \in {"exit", "promote", "refused", "changing"}  BY <2>2, Places DEF Return, Journal
    <2> QED  BY <2>1, <2>3, SameAuthorityTypes
  <1>7. CASE EnterStage
    <2>1. /\ UNCHANGED <<readiness, issued, consumed>> /\ part = "changing" /\ part' = then
          /\ authorized' = authorized \/ authorized' = NotAuthorized
      BY <1>7 DEF EnterStage, files
    <2>2. then \in {"entry", "returnedEarly", "returned", "returnedLate"}
      BY <2>1, Places DEF StageInv, ReturnInv, Changes
    <2> QED  BY <2>1, <2>2, SameAuthorityTypes
  <1>8. CASE ResetLearning
    <2>1. /\ UNCHANGED <<readiness, authorized, issued, consumed>>
          /\ part' \in {"exit", "promote", "refused"}
      BY <1>8, Places DEF ResetLearning, files
    <2> QED  BY <2>1, SameAuthorityTypes
  <1>9. CASE RemoveGrant
    <2>1. /\ UNCHANGED <<readiness, authorized, issued, consumed, candidate>> /\ part = "claimed"
      BY <1>9 DEF RemoveGrant, memory
    <2> QED  BY <2>1, SameAuthorityTypes
  <1>10. CASE Crash \/ Shutdown
    <2>1. Down  BY <1>10 DEF Crash, Shutdown
    <2>2. UNCHANGED <<readiness, issued, consumed>> /\ authorized' = NotAuthorized /\ part' = "off"
      BY <2>1 DEF Down, files
    <2> QED  BY <2>2, SameAuthorityTypes
  <1>11. CASE IssueGrant \/ CopyGrant \/ ExpireGrants \/ ExpireCalibration \/ UNCHANGED stageVars
    <2>1. UNCHANGED <<readiness, authorized, consumed, part, candidate>> /\ issued \subseteq issued'
      BY <1>11 DEF IssueGrant, CopyGrant, ExpireGrants, ExpireCalibration, stageVars, memory, control,
                   files
    <2> QED  BY <2>1, SameAuthorityTypes
  <1> QED
    BY <1>1, <1>2, <1>3, <1>4, <1>5, <1>6, <1>7, <1>8, <1>9, <1>10, <1>11
    DEF StageNext, Step, Environment

LEMMA TypesFollow == BookInv /\ AuthorityTypes => TypeOK
  <1> SUFFICES ASSUME BookInv, AuthorityTypes PROVE TypeOK  OBVIOUS
  <1>1. canary \in 0..opened
    <2>1. PICK C, L : Ledger(C, L)  BY DEF BookInv, LedgerInv
    <2>2. /\ Cardinality(C) \in Nat /\ Cardinality(L) \in Nat
          /\ Cardinality(L) + Cardinality(C) <= opened
      BY <2>1, BooksCount DEF BookInv, Ledger
    <2>3. canary \in 0..Cardinality(C)  BY <2>1 DEF Ledger, Booked
    <2>4. opened \in Nat  BY DEF BookInv, EvidenceTypes
    <2> QED  BY <2>2, <2>3, <2>4
  <1>2. /\ stage \in Stages /\ identity \in Identities
        /\ {returnPending, held, calibrated, blocked} \subseteq BOOLEAN
    BY DEF BookInv, EvidenceTypes
  <1>3. used \subseteq consumed  BY DEF BookInv, StageInv, GrantsInv
  <1> QED  BY <1>1, <1>2, <1>3 DEF AuthorityTypes, TypeOK

\* The types: a grant that arms is one the operator issued and this run claimed,
\* and what a run counts for Canary were closes (authorization_is_valid,
\* trading_performance).
THEOREM TypesHold == StageSpec => []TypeOK
  <1>1. StageInit => AuthorityTypes  BY AuthorityStarts
  <1>2. BookInv /\ AuthorityTypes /\ [StageNext]_stageVars => AuthorityTypes'
    BY AuthorityTypesStep DEF BookInv
  <1> QED  BY <1>1, <1>2, BooksHold, TypesFollow, PTL DEF StageSpec
================================================================================
