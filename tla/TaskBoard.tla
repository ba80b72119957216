----------------------------- MODULE TaskBoard -----------------------------
(***************************************************************************)
(* The cards of the task board (src/routes/tasks.js): a session of any     *)
(* account that sees a card claims it, finishes it or gives it back; its   *)
(* owner or an admin reviews what was done or reopens the card.  A job     *)
(* (src/jobs/task-claim-expiry.js) hands back what was claimed long ago.   *)
(* Claiming, finishing and giving back are one guarded UPDATE each; review *)
(* and reopening read the card first.                                      *)
(***************************************************************************)
EXTENDS Naturals

CONSTANTS
  Cards,
  Members,      \* accounts that see the cards
  Reviewers,    \* those of them that may review: the owner of the cards, admins
  MaxResults,   \* bound: times cards are finished
  MaxClaims,    \* bound: claims
  Nobody

ASSUME BoardConstants == /\ Reviewers \subseteq Members /\ Nobody \notin Members
                         /\ MaxResults \in Nat /\ MaxClaims \in Nat

VARIABLES
  card,      \* the rows: status, claimed_by, how old the claim is, result, reviewed_by
  results,   \* how many results have been written
  claims,    \* how many claims have been made
  accounts,  \* the accounts that exist
  reading,   \* each reviewer's request between its SELECT and its UPDATE
  refilled   \* history: cards finished anew while a review of them was in flight

boardVars == <<card, results, claims, accounts, reading, refilled>>

NoResult == 0
NewCard == [status |-> "open", holder |-> Nobody, stale |-> FALSE,
            result |-> NoResult, reviewer |-> Nobody, read |-> NoResult]
NoRequest == [of |-> "none", result |-> NoResult, to |-> "none"]

BoardInit ==
  /\ card = [t \in Cards |-> NewCard]
  /\ results = 0 /\ claims = 0 /\ accounts = Members
  /\ reading = [p \in Members |-> NoRequest]
  /\ refilled = {}

\* PUT /:id/claim: an open card, or one's own again from another session.
Claim(p, t) ==
  /\ p \in accounts /\ claims < MaxClaims /\ claims' = claims + 1
  /\ \/ card[t].status = "open"
     \/ card[t].status = "claimed" /\ card[t].holder = p
  /\ card' = [card EXCEPT ![t] = [@ EXCEPT !.status = "claimed", !.holder = p, !.stale = FALSE]]
  /\ UNCHANGED <<results, accounts, reading, refilled>>

Holds(p, t) == p \in accounts /\ card[t].status = "claimed" /\ card[t].holder = p

\* PUT /:id/done
Finish(p, t) ==
  /\ Holds(p, t) /\ results < MaxResults
  /\ results' = results + 1
  /\ card' = [card EXCEPT ![t] = [@ EXCEPT !.status = "done", !.result = results']]
  /\ refilled' = IF \E q \in Members : reading[q].of = t THEN refilled \cup {t} ELSE refilled
  /\ UNCHANGED <<claims, accounts, reading>>

\* PUT /:id/drop
Drop(p, t) ==
  /\ Holds(p, t)
  /\ card' = [card EXCEPT ![t] = [@ EXCEPT !.status = "open", !.holder = Nobody, !.stale = FALSE]]
  /\ UNCHANGED <<results, claims, accounts, reading, refilled>>

\* PUT /:id/review and /:id/reopen: findVisible and the checks on what it found ...
StartReview(p, t) ==
  /\ p \in Reviewers \cap accounts /\ reading[p] = NoRequest
  /\ card[t].status = "done"
  /\ reading' = [reading EXCEPT ![p] = [of |-> t, result |-> card[t].result, to |-> "review"]]
  /\ UNCHANGED <<card, results, claims, accounts, refilled>>
StartReopen(p, t) ==
  /\ p \in Reviewers \cap accounts /\ reading[p] = NoRequest
  /\ card[t].status \in {"done", "reviewed"}
  /\ reading' = [reading EXCEPT ![p] = [of |-> t, result |-> card[t].result, to |-> "reopen"]]
  /\ UNCHANGED <<card, results, claims, accounts, refilled>>

\* Mutant: the check before the UPDATE is relied on.
ReviewUnguarded(p, t) ==
  /\ reading[p].of = t /\ reading[p].to = "review"
  /\ reading' = [reading EXCEPT ![p] = NoRequest]
  /\ card' = [card EXCEPT ![t] = [@ EXCEPT !.status = "reviewed", !.reviewer = p, !.read = reading[p].result]]
  /\ UNCHANGED <<results, claims, accounts, refilled>>

\* ... and the guarded UPDATE, which may match nothing by now.
Review(p, t) ==
  /\ reading[p].of = t /\ reading[p].to = "review"
  /\ reading' = [reading EXCEPT ![p] = NoRequest]
  /\ card' = IF card[t].status = "done"
             THEN [card EXCEPT ![t] = [@ EXCEPT !.status = "reviewed", !.reviewer = p, !.read = reading[p].result]]
             ELSE card
  /\ UNCHANGED <<results, claims, accounts, refilled>>

Reopen(p, t) ==
  /\ reading[p].of = t /\ reading[p].to = "reopen"
  /\ reading' = [reading EXCEPT ![p] = NoRequest]
  /\ card' = IF card[t].status \in {"done", "reviewed"} THEN [card EXCEPT ![t] = NewCard] ELSE card
  /\ UNCHANGED <<results, claims, accounts, refilled>>

\* CLAIM_TTL_HOURS pass over a claim.
ClaimGrowsOld(t) ==
  /\ card[t].status = "claimed" /\ ~card[t].stale
  /\ card' = [card EXCEPT ![t].stale = TRUE]
  /\ UNCHANGED <<results, claims, accounts, reading, refilled>>

StaleClaims == {t \in Cards : card[t].status = "claimed" /\ card[t].stale}

\* Mutant: the holder's name is joined in, and a holder who is gone has none.
ExpireNamedClaims ==
  /\ \E t \in StaleClaims : card[t].holder # Nobody
  /\ card' = [t \in Cards |-> IF t \in StaleClaims /\ card[t].holder # Nobody THEN NewCard ELSE card[t]]
  /\ UNCHANGED <<results, claims, accounts, reading, refilled>>

\* expireStaleClaims: one statement, every card.
ExpireStaleClaims ==
  /\ StaleClaims # {}
  /\ card' = [t \in Cards |-> IF t \in StaleClaims THEN NewCard ELSE card[t]]
  /\ UNCHANGED <<results, claims, accounts, reading, refilled>>

\* An account is deleted: ON DELETE SET NULL.
DeleteAccount(p) ==
  /\ p \in accounts \ Reviewers /\ reading[p] = NoRequest
  /\ accounts' = accounts \ {p}
  /\ card' = [t \in Cards |-> IF card[t].holder = p THEN [card[t] EXCEPT !.holder = Nobody] ELSE card[t]]
  /\ UNCHANGED <<results, claims, reading, refilled>>

BoardNext ==
  \/ \E t \in Cards : ClaimGrowsOld(t)
  \/ ExpireStaleClaims
  \/ \E p \in Members : DeleteAccount(p)
  \/ \E p \in Members, t \in Cards :
       Claim(p, t) \/ Finish(p, t) \/ Drop(p, t) \/ StartReview(p, t) \/ StartReopen(p, t)
       \/ Review(p, t) \/ Reopen(p, t)

BoardSpec == BoardInit /\ [][BoardNext]_boardVars

\* Time passes and the daily job runs; sessions need not do anything.
BoardFairness == WF_boardVars(ExpireStaleClaims) /\ \A t \in Cards : WF_boardVars(ClaimGrowsOld(t))

-----------------------------------------------------------------------------
CardRow ==
  [status : {"open", "claimed", "done", "reviewed"}, holder : Members \cup {Nobody}, stale : BOOLEAN,
   result : 0..MaxResults, reviewer : Members \cup {Nobody}, read : 0..MaxResults]
BoardTypeOK ==
  /\ card \in [Cards -> CardRow]
  /\ results \in 0..MaxResults /\ claims \in 0..MaxClaims /\ accounts \subseteq Members
  /\ reading \in [Members -> [of : Cards \cup {"none"}, result : 0..MaxResults,
                             to : {"none", "review", "reopen"}]]
  /\ refilled \subseteq Cards

\* A reviewed card holds the result its reviewer read, although cards are
\* reopened, given back, claimed and expired while the review is in flight.
\* Only one finished anew in that time can be reviewed unread.
ReviewedAsRead ==
  \A t \in Cards : card[t].status = "reviewed" =>
    card[t].result # NoResult /\ (card[t].result = card[t].read \/ t \in refilled)

\* A claimed card is finished or open again in the end, whatever became of the
\* session or the account that held it.  Only a holder who claims it again and
\* again keeps it, and MaxClaims ends that here.
CardsComeBack == \A t \in Cards : card[t].status = "claimed" ~> card[t].status # "claimed"
=============================================================================
