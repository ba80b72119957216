---------------------------- MODULE ServerProofs ----------------------------
(***************************************************************************)
(* Six parts of the server, for any number of the actors of each.  The     *)
(* board: a reviewed card holds the result its reviewer read.  The         *)
(* notices: one a person has turned off is let through by no request.  The *)
(* alerts: a broken machine is told of once, however sweeps overlap, and a *)
(* failed self-check is marked as announced exactly when it was.  The      *)
(* monthly consolidation: the job archives a memory only when its question *)
(* was shown on two days and not answered.  The migrations: what is        *)
(* recorded is applied, and everything in the order of the files.          *)
(***************************************************************************)
EXTENDS TaskBoard, Broadcasts, CollectorAlerts, InstallAlerts, Consolidation, Migrations,
        SequenceTheorems, WellFoundedInduction, TLAPS

Closed(t) == card[t].status \in {"done", "reviewed"}

(* A closed card has a result, and whoever is about to review or reopen it
   has read that one, unless it was finished since. *)
ReadInv ==
  \A t \in Cards : Closed(t) =>
    /\ card[t].result # NoResult
    /\ \A p \in Members : reading[p].of = t /\ reading[p].to # "none" =>
         reading[p].result = card[t].result \/ t \in refilled

BoardInv == BoardTypeOK /\ ReadInv /\ ReviewedAsRead

-----------------------------------------------------------------------------
LEMMA BoardInitInv == BoardInit => BoardInv
  BY BoardConstants
  DEF BoardInit, BoardInv, BoardTypeOK, CardRow, ReadInv, ReviewedAsRead, Closed, NewCard, NoResult, NoRequest

LEMMA BoardStepTypes == BoardTypeOK /\ [BoardNext]_boardVars => BoardTypeOK'
<1> SUFFICES ASSUME BoardTypeOK, [BoardNext]_boardVars PROVE BoardTypeOK'
  OBVIOUS
<1> USE DEF BoardTypeOK
<1>0. NewCard \in CardRow /\ NoRequest \in [of : Cards \cup {"none"}, result : 0..MaxResults,
                                             to : {"none", "review", "reopen"}]
  BY BoardConstants DEF CardRow, NewCard, NoResult, NoRequest
<1>1. ASSUME NEW t \in Cards, ClaimGrowsOld(t) PROVE BoardTypeOK'
  <2>1. [card[t] EXCEPT !.stale = TRUE] \in CardRow
    BY DEF CardRow
  <2>2. card' = [card EXCEPT ![t] = [card[t] EXCEPT !.stale = TRUE]]
    BY <1>1 DEF ClaimGrowsOld
  <2> QED
    BY <1>1, <2>1, <2>2 DEF ClaimGrowsOld
<1>2. CASE ExpireStaleClaims
  BY <1>0, <1>2 DEF ExpireStaleClaims
<1>3. ASSUME NEW p \in Members, DeleteAccount(p) PROVE BoardTypeOK'
  BY <1>3 DEF DeleteAccount, CardRow
<1>4. ASSUME NEW p \in Members, NEW t \in Cards, Claim(p, t) PROVE BoardTypeOK'
  <2>1. [card[t] EXCEPT !.status = "claimed", !.holder = p, !.stale = FALSE] \in CardRow
    BY DEF CardRow
  <2> QED
    BY <1>4, <2>1, BoardConstants DEF Claim
<1>5. ASSUME NEW p \in Members, NEW t \in Cards, Finish(p, t) PROVE BoardTypeOK'
  <2>1. results' \in 0..MaxResults
    BY <1>5, BoardConstants DEF Finish
  <2>2. [card[t] EXCEPT !.status = "done", !.result = results'] \in CardRow
    BY <2>1 DEF CardRow
  <2> QED
    BY <1>5, <2>1, <2>2 DEF Finish
<1>6. ASSUME NEW p \in Members, NEW t \in Cards, Drop(p, t) PROVE BoardTypeOK'
  <2>1. [card[t] EXCEPT !.status = "open", !.holder = Nobody, !.stale = FALSE] \in CardRow
    BY DEF CardRow
  <2> QED
    BY <1>6, <2>1 DEF Drop
<1>7. ASSUME NEW p \in Members, NEW t \in Cards, StartReview(p, t) \/ StartReopen(p, t) PROVE BoardTypeOK'
  BY <1>7 DEF StartReview, StartReopen, CardRow
<1>8. ASSUME NEW p \in Members, NEW t \in Cards, Review(p, t) PROVE BoardTypeOK'
  <2>1. [card[t] EXCEPT !.status = "reviewed", !.reviewer = p, !.read = reading[p].result] \in CardRow
    BY DEF CardRow
  <2> QED
    BY <1>0, <1>8, <2>1 DEF Review
<1>9. ASSUME NEW p \in Members, NEW t \in Cards, Reopen(p, t) PROVE BoardTypeOK'
  BY <1>0, <1>9 DEF Reopen
<1>10. CASE UNCHANGED boardVars
  BY <1>10 DEF boardVars
<1> QED
  BY <1>1, <1>2, <1>3, <1>4, <1>5, <1>6, <1>7, <1>8, <1>9, <1>10 DEF BoardNext

(* Every step but finishing, reviewing and reading a card leaves what closed
   cards hold as it is, or opens them. *)
Kept == \A t \in Cards : Closed(t)' =>
  /\ Closed(t) /\ UNCHANGED <<card[t].status, card[t].result, card[t].read>>

LEMMA BoardKept ==
  BoardInv /\ Kept /\ UNCHANGED <<reading, refilled>> => (ReadInv /\ ReviewedAsRead)'
  BY DEF BoardInv, BoardTypeOK, Kept, ReadInv, ReviewedAsRead, Closed

LEMMA BoardStepInv == BoardInv /\ [BoardNext]_boardVars => BoardInv'
<1> SUFFICES ASSUME BoardInv, [BoardNext]_boardVars PROVE (ReadInv /\ ReviewedAsRead)'
  BY BoardStepTypes DEF BoardInv
<1> USE BoardConstants DEF NewCard, NoResult, NoRequest, Closed
<1> DEFINE Goal == (ReadInv /\ ReviewedAsRead)'
<1>0. BoardTypeOK /\ ReadInv /\ ReviewedAsRead /\ BoardTypeOK'
  BY BoardStepTypes DEF BoardInv
<1>1. ASSUME NEW t \in Cards, ClaimGrowsOld(t) PROVE Goal
  <2>1. Kept
    BY <1>0, <1>1 DEF ClaimGrowsOld, BoardTypeOK, Kept
  <2> QED
    BY <1>1, <2>1, BoardKept DEF ClaimGrowsOld
<1>2. CASE ExpireStaleClaims
  <2>1. Kept
    BY <1>0, <1>2 DEF ExpireStaleClaims, StaleClaims, BoardTypeOK, Kept
  <2> QED
    BY <1>2, <2>1, BoardKept DEF ExpireStaleClaims
<1>3. ASSUME NEW p \in Members, DeleteAccount(p) PROVE Goal
  <2>1. Kept
    BY <1>0, <1>3 DEF DeleteAccount, BoardTypeOK, Kept
  <2> QED
    BY <1>3, <2>1, BoardKept DEF DeleteAccount
<1>4. ASSUME NEW p \in Members, NEW t \in Cards, Claim(p, t) \/ Drop(p, t) PROVE Goal
  <2>1. \A u \in Cards \ {t} : card'[u] = card[u]
    BY <1>0, <1>4 DEF Claim, Drop, BoardTypeOK
  <2>2. card'[t].status \in {"open", "claimed"}
    <3>1. \/ card'[t] = [card[t] EXCEPT !.status = "claimed", !.holder = p, !.stale = FALSE]
          \/ card'[t] = [card[t] EXCEPT !.status = "open", !.holder = Nobody, !.stale = FALSE]
      BY <1>0, <1>4 DEF Claim, Drop, BoardTypeOK
    <3>2. card[t] \in CardRow
      BY <1>0 DEF BoardTypeOK
    <3> QED
      BY <3>1, <3>2 DEF CardRow
  <2>3. Kept
    BY <2>1, <2>2 DEF Kept
  <2> QED
    BY <1>4, <2>3, BoardKept DEF Claim, Drop
<1>5. ASSUME NEW p \in Members, NEW t \in Cards, Finish(p, t) PROVE Goal
  BY <1>0, <1>5 DEF Finish, Holds, BoardTypeOK, ReadInv, ReviewedAsRead
<1>6. ASSUME NEW p \in Members, NEW t \in Cards, StartReview(p, t) \/ StartReopen(p, t) PROVE Goal
  BY <1>0, <1>6 DEF StartReview, StartReopen, BoardTypeOK, ReadInv, ReviewedAsRead
<1>7. ASSUME NEW p \in Members, NEW t \in Cards, Review(p, t) PROVE Goal
  BY <1>0, <1>7 DEF Review, BoardTypeOK, ReadInv, ReviewedAsRead
<1>8. ASSUME NEW p \in Members, NEW t \in Cards, Reopen(p, t) PROVE Goal
  BY <1>0, <1>8 DEF Reopen, BoardTypeOK, ReadInv, ReviewedAsRead
<1>9. CASE UNCHANGED boardVars
  BY <1>0, <1>9 DEF boardVars, ReadInv, ReviewedAsRead
<1> QED
  BY <1>1, <1>2, <1>3, <1>4, <1>5, <1>6, <1>7, <1>8, <1>9 DEF BoardNext

\* Every variable of the board stays in its domain.
THEOREM TypeCorrect == BoardSpec => []BoardTypeOK
<1>1. BoardInit => BoardTypeOK
  BY BoardInitInv DEF BoardInv
<1> QED
  BY <1>1, BoardStepTypes, PTL DEF BoardSpec

\* A reviewed card holds the result its reviewer read, or one finished while
\* the review was in flight, for any number of cards and reviewers.
THEOREM ReviewedAsReadHolds == BoardSpec => []ReviewedAsRead
<1>1. BoardInv => ReviewedAsRead
  BY DEF BoardInv
<1> QED
  BY <1>1, BoardInitInv, BoardStepInv, PTL DEF BoardSpec

-----------------------------------------------------------------------------
(* Where a notice was turned off for good a row says so: the tool's own, or the
   one for all tools. *)
TurnedOffInv ==
  /\ call \in [Calls -> [at : {"idle", "dismiss", "snooze", "seen", "filter", "mark"}, tool : Anywhere, force : BOOLEAN]]
  /\ turnedOff \subseteq AITools
  /\ \A t \in turnedOff : {t, Everywhere} \cap off # {}

LEMMA TurnedOffInit == BroadcastsInit => TurnedOffInv
  BY DEF BroadcastsInit, TurnedOffInv, Ringing, Anywhere

LEMMA TurnedOffStep == TurnedOffInv /\ [BroadcastsNext]_broadcastVars => TurnedOffInv'
<1> SUFFICES ASSUME TurnedOffInv, [BroadcastsNext]_broadcastVars PROVE TurnedOffInv'
  OBVIOUS
<1> USE DEF TurnedOffInv, Moves, Ringing, Anywhere
<1>1. ASSUME NEW v \in Thresholds, Deploy(v) \/ Patch(v) PROVE TurnedOffInv'
  BY <1>1 DEF Deploy, Patch, rowVars
<1>2. CASE Retire \/ FindStanding \/ InsertReminder
  BY <1>2 DEF Retire, FindStanding, InsertReminder, rowVars
<1>3. ASSUME NEW c \in Calls, NEW t \in Anywhere, StartSaying(c, t) PROVE TurnedOffInv'
  <2>1. PICK what \in {"dismiss", "snooze"} : call' = [call EXCEPT ![c] = [at |-> what, tool |-> t, force |-> FALSE]]
    BY <1>3 DEF StartSaying
  <2>2. UNCHANGED <<off, turnedOff>>
    BY <1>3 DEF StartSaying
  <2> QED
    BY <2>1, <2>2
<1>4. ASSUME NEW c \in Calls, Dismiss(c) PROVE TurnedOffInv'
  <2>1. call[c].tool \in AITools \cup {Everywhere}
    OBVIOUS
  <2> QED
    <3>1. call' \in [Calls -> [at : {"idle", "dismiss", "snooze", "seen", "filter", "mark"}, tool : Anywhere, force : BOOLEAN]]
      BY <1>4 DEF Dismiss
    <3>2. CASE call[c].tool = Everywhere
      BY <1>4, <3>1, <3>2 DEF Dismiss, Covered
    <3>3. CASE call[c].tool # Everywhere
      BY <1>4, <2>1, <3>1, <3>3 DEF Dismiss, Covered
    <3> QED
      BY <3>2, <3>3
<1>5. ASSUME NEW c \in Calls, Snooze(c) PROVE TurnedOffInv'
  BY <1>5 DEF Snooze
<1>6. ASSUME NEW c \in Calls, NEW t \in AITools, ReadSeen(c, t) PROVE TurnedOffInv'
  BY <1>6 DEF ReadSeen
<1>7. ASSUME NEW c \in Calls, UpsertSeen(c) \/ FilterNotices(c) \/ MarkInjected(c) \/ CallFails(c) PROVE TurnedOffInv'
  <2>1. CASE UpsertSeen(c)
    BY <2>1 DEF UpsertSeen
  <2>2. CASE FilterNotices(c)
    BY <2>2 DEF FilterNotices
  <2>3. CASE MarkInjected(c)
    BY <2>3 DEF MarkInjected
  <2>4. CASE CallFails(c)
    BY <2>4 DEF CallFails
  <2> QED
    BY <1>7, <2>1, <2>2, <2>3, <2>4
<1>8. ASSUME NEW t \in Anywhere, GrowsFresh(t) \/ CoolsDown(t) \/ SnoozeEnds(t) PROVE TurnedOffInv'
  BY <1>8 DEF GrowsFresh, CoolsDown, SnoozeEnds
<1>9. CASE UNCHANGED broadcastVars
  BY <1>9 DEF broadcastVars
<1> QED
  BY <1>1, <1>2, <1>3, <1>4, <1>5, <1>6, <1>7, <1>8, <1>9 DEF BroadcastsNext, Says, Injects

(* Only FilterNotices lets a notice through, and it looks at the rows. *)
LEMMA TurnedOffLetsNoneThrough ==
  ASSUME TurnedOffInv, [BroadcastsNext]_broadcastVars, NEW c \in Calls,
         call[c].at = "filter", call[c].tool \in turnedOff
  PROVE  call'[c].at # "mark"
<1> USE DEF TurnedOffInv, Moves, Ringing, Anywhere
<1>1. CASE FilterNotices(c)
  BY <1>1 DEF FilterNotices, Injectable, Visible
<1>2. CASE CallFails(c)
  BY <1>2 DEF CallFails
<1>3. ASSUME NEW d \in Calls, d # c, Says(d) \/ Injects(d) \/ CallFails(d) PROVE call'[c] = call[c]
  BY <1>3 DEF Says, Injects, CallFails, StartSaying, Dismiss, Snooze, ReadSeen, UpsertSeen, FilterNotices, MarkInjected
<1>4. CASE Says(c) \/ Injects(c)
  BY <1>1, <1>4 DEF Says, Injects, StartSaying, Dismiss, Snooze, ReadSeen, UpsertSeen, MarkInjected
<1>5. CASE call' = call
  BY <1>5
<1>6. ASSUME NEW v \in Thresholds, Deploy(v) \/ Patch(v) PROVE call' = call
  BY <1>6 DEF Deploy, Patch, rowVars
<1>7. ASSUME Retire \/ FindStanding \/ InsertReminder PROVE call' = call
  BY <1>7 DEF Retire, FindStanding, InsertReminder, rowVars
<1>8. ASSUME NEW t \in Anywhere, GrowsFresh(t) \/ CoolsDown(t) \/ SnoozeEnds(t) PROVE call' = call
  BY <1>8 DEF GrowsFresh, CoolsDown, SnoozeEnds
<1> QED
  BY <1>1, <1>2, <1>3, <1>4, <1>5, <1>6, <1>7, <1>8 DEF BroadcastsNext, broadcastVars

(* No call of a tool lets a notice through that was turned off for the tool. *)
THEOREM TurnedOffStaysOffHolds == BroadcastsSpec => TurnedOffStaysOff
<1>1. TurnedOffInv /\ [BroadcastsNext]_broadcastVars
        => [\A c \in Calls : call[c].at = "filter" /\ call[c].tool \in turnedOff => call'[c].at # "mark"]_broadcastVars
  BY TurnedOffLetsNoneThrough
<1> QED
  BY <1>1, TurnedOffInit, TurnedOffStep, PTL DEF BroadcastsSpec, TurnedOffStaysOff

(* A call that has read when a tool was last seen is a call of that tool. *)
CallRow == [at : {"idle", "dismiss", "snooze", "seen", "filter", "mark"}, tool : Anywhere, force : BOOLEAN]
CallsOfTools == \A c \in Calls : call[c].at \in {"seen", "filter", "mark"} => call[c].tool \in AITools
BroadcastsInv == BroadcastsTypeOK /\ CallsOfTools

LEMMA BroadcastsInitInv == BroadcastsInit => BroadcastsInv
  BY BroadcastConstants DEF BroadcastsInit, BroadcastsInv, BroadcastsTypeOK, CallsOfTools, Ringing, Anywhere

(* A step of one call. *)
LEMMA CallMoves ==
  ASSUME BroadcastsInv, NEW c \in Calls, NEW r \in CallRow, Moves(c, r),
         r.at \in {"seen", "filter", "mark"} => r.tool \in AITools,
         off' \cup later' \subseteq Anywhere, off' \cap later' = {},
         cooling' \cup fresh' \cup turnedOff' \subseteq AITools,
         sayings' \in 0..MaxSayings, UNCHANGED reminderVars
  PROVE  BroadcastsInv'
<1>1. call \in [Calls -> CallRow]
  BY DEF BroadcastsInv, BroadcastsTypeOK, CallRow
<1>2. call' \in [Calls -> CallRow] /\ call'[c] = r /\ \A d \in Calls \ {c} : call'[d] = call[d]
  BY <1>1 DEF Moves
<1>3. CallsOfTools'
  BY <1>2 DEF BroadcastsInv, CallsOfTools
<1> QED
  BY <1>2, <1>3 DEF BroadcastsInv, BroadcastsTypeOK, CallRow, reminderVars

(* A step of the job, or of the clock, that no call takes. *)
LEMMA NoCallMoves ==
  ASSUME BroadcastsInv, UNCHANGED <<call, off, sayings, turnedOff>>, later' \subseteq later,
         cooling' \cup fresh' \subseteq AITools,
         threshold' \in Thresholds, reminder' \in [Thresholds -> {"none", "standing", "ended"}],
         reminding' \in {"idle", "check", "insert"}, deploys' \in 0..MaxDeploys
  PROVE  BroadcastsInv'
  BY DEF BroadcastsInv, BroadcastsTypeOK, CallsOfTools

LEMMA BroadcastsStepInv == BroadcastsInv /\ [BroadcastsNext]_broadcastVars => BroadcastsInv'
<1> SUFFICES ASSUME BroadcastsInv, [BroadcastsNext]_broadcastVars PROVE BroadcastsInv'
  OBVIOUS
<1>0. /\ threshold \in Thresholds /\ reminder \in [Thresholds -> {"none", "standing", "ended"}]
      /\ reminding \in {"idle", "check", "insert"} /\ deploys \in 0..MaxDeploys
      /\ off \subseteq Anywhere /\ later \subseteq Anywhere /\ off \cap later = {}
      /\ cooling \subseteq AITools /\ fresh \subseteq AITools /\ turnedOff \subseteq AITools
      /\ call \in [Calls -> CallRow] /\ sayings \in 0..MaxSayings /\ CallsOfTools
  BY DEF BroadcastsInv, BroadcastsTypeOK, CallRow
<1>r. Ringing \in CallRow /\ Ringing.at = "idle"
  BY DEF Ringing, CallRow, Anywhere
<1>1. ASSUME NEW v \in Thresholds, Deploy(v) \/ Patch(v) PROVE BroadcastsInv'
  BY <1>0, <1>1, BroadcastConstants, NoCallMoves DEF Deploy, Patch, rowVars
<1>2. CASE Retire \/ FindStanding \/ InsertReminder
  BY <1>0, <1>2, NoCallMoves DEF Retire, FindStanding, InsertReminder, rowVars
<1>3. ASSUME NEW c \in Calls, NEW t \in Anywhere, StartSaying(c, t) PROVE BroadcastsInv'
  <2>1. PICK what \in {"dismiss", "snooze"} : Moves(c, [at |-> what, tool |-> t, force |-> FALSE])
    BY <1>3 DEF StartSaying
  <2>2. [at |-> what, tool |-> t, force |-> FALSE] \in CallRow
    BY DEF CallRow
  <2>3. sayings' \in 0..MaxSayings
    BY <1>0, <1>3, BroadcastConstants DEF StartSaying
  <2> QED
    BY <1>0, <1>3, <2>1, <2>2, <2>3, CallMoves DEF StartSaying
<1>4. ASSUME NEW c \in Calls, Dismiss(c) \/ Snooze(c) PROVE BroadcastsInv'
  <2> DEFINE t == call[c].tool
  <2>1. t \in Anywhere /\ Covered(t) \subseteq AITools
    BY <1>0 DEF CallRow, Covered, Anywhere
  <2>2. /\ off' \cup later' \subseteq Anywhere /\ off' \cap later' = {} /\ turnedOff' \subseteq AITools
        /\ Moves(c, Ringing) /\ UNCHANGED <<cooling, fresh, sayings, reminderVars>>
    BY <1>0, <1>4, <2>1 DEF Dismiss, Snooze
  <2> QED
    BY <1>0, <1>r, <2>2, CallMoves
<1>5. ASSUME NEW c \in Calls, NEW t \in AITools, ReadSeen(c, t) PROVE BroadcastsInv'
  <2>1. [at |-> "seen", tool |-> t, force |-> t \in fresh] \in CallRow
    BY DEF CallRow, Anywhere
  <2> QED
    BY <1>0, <1>5, <2>1, CallMoves DEF ReadSeen
<1>6. ASSUME NEW c \in Calls, UpsertSeen(c) PROVE BroadcastsInv'
  <2>1. [call[c] EXCEPT !.at = "filter"] \in CallRow /\ [call[c] EXCEPT !.at = "filter"].tool = call[c].tool
    BY <1>0 DEF CallRow
  <2>2. call[c].tool \in AITools
    BY <1>0, <1>6 DEF UpsertSeen, CallsOfTools
  <2> QED
    BY <1>0, <1>6, <2>1, <2>2, CallMoves DEF UpsertSeen
<1>7. ASSUME NEW c \in Calls, FilterNotices(c) PROVE BroadcastsInv'
  <2>1. [call[c] EXCEPT !.at = "mark"] \in CallRow /\ [call[c] EXCEPT !.at = "mark"].tool = call[c].tool
    BY <1>0 DEF CallRow
  <2>2. call[c].tool \in AITools
    BY <1>0, <1>7 DEF FilterNotices, CallsOfTools
  <2> QED
    BY <1>0, <1>r, <1>7, <2>1, <2>2, CallMoves DEF FilterNotices
<1>8. ASSUME NEW c \in Calls, MarkInjected(c) \/ CallFails(c) PROVE BroadcastsInv'
  BY <1>0, <1>r, <1>8, CallMoves DEF MarkInjected, CallFails, CallsOfTools
<1>9. ASSUME NEW t \in AITools, GrowsFresh(t) \/ CoolsDown(t) PROVE BroadcastsInv'
  BY <1>0, <1>9, NoCallMoves DEF GrowsFresh, CoolsDown, reminderVars
<1>10. ASSUME NEW t \in Anywhere, SnoozeEnds(t) PROVE BroadcastsInv'
  BY <1>0, <1>10, NoCallMoves DEF SnoozeEnds, reminderVars
<1>11. CASE UNCHANGED broadcastVars
  BY <1>0, <1>11, NoCallMoves DEF broadcastVars
<1> QED
  BY <1>1, <1>2, <1>3, <1>4, <1>5, <1>6, <1>7, <1>8, <1>9, <1>10, <1>11 DEF BroadcastsNext, Says, Injects

(* The reminders, what a person has said of them and the calls stay in their
   domains: a notice is never turned off and put off at once. *)
THEOREM BroadcastsTypeCorrect == BroadcastsSpec => []BroadcastsTypeOK
<1>1. BroadcastsInv => BroadcastsTypeOK
  BY DEF BroadcastsInv
<1> QED
  BY <1>1, BroadcastsInitInv, BroadcastsStepInv, PTL DEF BroadcastsSpec

-----------------------------------------------------------------------------
(* The alerts of the collector *)

(* A row of the state table, whatever notice its number is of. *)
StateRow(n) == [on : BOOLEAN, waited : BOOLEAN, announced : BOOLEAN, old : BOOLEAN, resolved : BOOLEAN, cast : {n}]
AlertRows == /\ row = [m \in Machines |-> row[m]] /\ \A m \in Machines : \E n : row[m] \in StateRow(n)
             /\ tellings \in [Machines -> Nat]

(* Whoever was told of a machine has a row that says so, and until it is
   resolved or a fortnight old nobody claims it again. *)
Told(m) == tellings[m] = 1 /\ row[m].on /\ row[m].announced /\ ~row[m].old /\ ~row[m].resolved
ToldInv == AlertRows /\ \A m \in Machines : tellings[m] = 0 \/ Told(m)

LEMMA RowShape ==
  ASSUME NEW n, NEW r \in StateRow(n)
  PROVE  /\ [r EXCEPT !.waited = TRUE] \in StateRow(n)
         /\ [r EXCEPT !.old = TRUE] \in StateRow(n)
         /\ [r EXCEPT !.resolved = r.on] \in StateRow(n)
         /\ \A c : [r EXCEPT !.announced = TRUE, !.old = FALSE, !.cast = c] \in StateRow(c)
  BY DEF StateRow

LEMMA EmptyRow == NoRow \in StateRow(NoCast) /\ Sighting \in StateRow(NoCast)
  BY DEF StateRow, NoRow, Sighting

LEMMA AlertsInitTold == AlertsInit => ToldInv
<1> SUFFICES ASSUME AlertsInit PROVE ToldInv
  OBVIOUS
<1> DEFINE n == CHOOSE c \in Casts : TRUE
           shown == [Sighting EXCEPT !.waited = TRUE, !.announced = TRUE, !.cast = n]
<1>1. /\ shown \in StateRow(n) /\ shown.on /\ shown.announced /\ ~shown.old /\ ~shown.resolved
  BY DEF StateRow, Sighting, NoRow
<1>2. \E shared \in BOOLEAN : /\ row = [m \in Machines |-> IF shared THEN shown ELSE NoRow]
                             /\ tellings = [m \in Machines |-> IF shared THEN 1 ELSE 0]
  BY DEF AlertsInit
<1> HIDE DEF shown
<1> QED
  BY <1>1, <1>2, EmptyRow DEF ToldInv, AlertRows, Told

(* What becomes of the machines one by one. *)
LEMMA ToldMachines ==
  ASSUME ToldInv,
         row' = [m \in Machines |-> row'[m]], tellings' = [m \in Machines |-> tellings'[m]],
         \A m \in Machines : /\ \E n : row'[m] \in StateRow(n)
                             /\ tellings'[m] = 0 \/ Told(m)'
  PROVE  ToldInv'
  BY DEF ToldInv, AlertRows, Told

LEMMA AlertsStepTold == ToldInv /\ [AlertsNext]_alertVars => ToldInv'
<1> SUFFICES ASSUME ToldInv, [AlertsNext]_alertVars PROVE ToldInv'
  OBVIOUS
<1>0. /\ row = [m \in Machines |-> row[m]] /\ tellings \in [Machines -> Nat]
      /\ \A m \in Machines : (\E n : row[m] \in StateRow(n)) /\ (tellings[m] = 0 \/ Told(m))
  BY DEF ToldInv, AlertRows
<1>1. CASE UNCHANGED <<row, tellings>>
  BY <1>1 DEF ToldInv, AlertRows, Told
<1>2. ASSUME NEW k \in Machines, Confirm(k) PROVE ToldInv'
  <2>1. row' = [row EXCEPT ![k] = [row[k] EXCEPT !.waited = TRUE]] /\ tellings' = tellings
    BY <1>2 DEF Confirm
  <2>2. ASSUME NEW m \in Machines
        PROVE  (\E n : row'[m] \in StateRow(n)) /\ (tellings'[m] = 0 \/ Told(m)')
    <3>1. CASE m # k
      BY <1>0, <2>1, <3>1 DEF Told
    <3>2. CASE m = k
      <4>1. PICK n : row[k] \in StateRow(n)
        BY <1>0
      <4>2. row'[k] = [row[k] EXCEPT !.waited = TRUE]
        BY <1>0, <2>1
      <4>3. row'[k] \in StateRow(n)
        BY <4>1, <4>2 DEF StateRow
      <4>4. tellings'[k] = tellings[k] /\ (tellings[k] = 0 \/ Told(k))
        BY <1>0, <2>1
      <4>5. /\ row'[k].on = row[k].on /\ row'[k].announced = row[k].announced
            /\ row'[k].old = row[k].old /\ row'[k].resolved = row[k].resolved
        BY <4>1, <4>2 DEF StateRow
      <4> QED
        BY <3>2, <4>3, <4>4, <4>5 DEF Told
    <3> QED
      BY <3>1, <3>2
  <2> QED
    BY <1>0, <2>1, <2>2, ToldMachines
<1>3. ASSUME NEW k \in Machines, GrowOld(k) PROVE ToldInv'
  <2>1. /\ row' = [row EXCEPT ![k] = [row[k] EXCEPT !.old = TRUE]]
        /\ tellings' = [tellings EXCEPT ![k] = 0]
    BY <1>3 DEF GrowOld
  <2>2. ASSUME NEW m \in Machines
        PROVE  (\E n : row'[m] \in StateRow(n)) /\ (tellings'[m] = 0 \/ Told(m)')
    <3>1. CASE m # k
      BY <1>0, <2>1, <3>1 DEF Told
    <3>2. CASE m = k
      <4>1. PICK n : row[k] \in StateRow(n)
        BY <1>0
      <4>2. row'[k] = [row[k] EXCEPT !.old = TRUE] /\ tellings'[k] = 0
        BY <1>0, <2>1
      <4> QED
        BY <3>2, <4>1, <4>2, RowShape
    <3> QED
      BY <3>1, <3>2
  <2> QED
    BY <1>0, <2>1, <2>2, ToldMachines
<1>4. ASSUME NEW s \in Sweeps, Sight(s) PROVE ToldInv'
  <2>1. /\ tellings' = tellings
        /\ row' = [m \in Machines |->
             IF m \in sweep[s].broken /\ (~row[m].on \/ row[m].resolved) THEN Sighting ELSE row[m]]
    BY <1>4 DEF Sight
  <2>2. ASSUME NEW m \in Machines
        PROVE  (\E n : row'[m] \in StateRow(n)) /\ (tellings'[m] = 0 \/ Told(m)')
    BY <1>0, <2>1, EmptyRow DEF Told
  <2> QED
    BY <1>0, <2>1, <2>2, ToldMachines
<1>5. ASSUME NEW s \in Sweeps, AnnounceBreaks(s) PROVE ToldInv'
  <2> DEFINE number == CHOOSE c \in Casts : c \notin InUse
             Announced(m) == [row[m] EXCEPT !.announced = TRUE, !.old = FALSE, !.cast = number]
  <2>1. row' = [m \in Machines |-> IF m \in Claimed(s) THEN Announced(m) ELSE row[m]]
    BY <1>5 DEF AnnounceBreaks
  <2>2. tellings' = [m \in Machines |-> IF m \in Claimed(s) THEN tellings[m] + 1 ELSE tellings[m]]
    BY <1>5, Zenon DEF AnnounceBreaks
  <2>3. ASSUME NEW m \in Machines
        PROVE  (\E n : row'[m] \in StateRow(n)) /\ (tellings'[m] = 0 \/ Told(m)')
    <3>1. CASE m \notin Claimed(s)
      <4> HIDE DEF Announced
      <4> QED
        BY <1>0, <2>1, <2>2, <3>1 DEF Told
    <3>2. CASE m \in Claimed(s)
      \* Whoever is told of it now was not told before.
      <4>1. row[m].on /\ ~row[m].resolved /\ tellings[m] = 0
        BY <1>0, <3>2 DEF Claimed, Told
      <4>2. PICK n : row[m] \in StateRow(n)
        BY <1>0
      <4>3. Announced(m) \in StateRow(number)
        BY <4>2, RowShape
      <4>4. /\ Announced(m).on = row[m].on /\ Announced(m).resolved = row[m].resolved
            /\ Announced(m).announced /\ ~Announced(m).old
        BY <4>2 DEF StateRow
      <4> HIDE DEF Announced, number
      <4>5. row'[m] = Announced(m) /\ tellings'[m] = 1
        BY <2>1, <2>2, <3>2, <4>1
      <4> QED
        BY <4>1, <4>3, <4>4, <4>5 DEF Told
    <3> QED
      BY <3>1, <3>2
  <2> HIDE DEF Announced
  <2> QED
    BY <1>0, <2>1, <2>2, <2>3, ToldMachines
<1>6. ASSUME NEW s \in Sweeps, Resolve(s) PROVE ToldInv'
  <2>1. PICK k : /\ row' = [row EXCEPT ![k] = [row[k] EXCEPT !.resolved = row[k].on]]
                 /\ tellings' = [tellings EXCEPT ![k] = 0]
    BY <1>6 DEF Resolve
  <2>2. ASSUME NEW m \in Machines
        PROVE  (\E n : row'[m] \in StateRow(n)) /\ (tellings'[m] = 0 \/ Told(m)')
    <3>1. CASE m # k
      BY <1>0, <2>1, <3>1 DEF Told
    <3>2. CASE m = k
      <4>1. PICK n : row[m] \in StateRow(n)
        BY <1>0
      <4>2. row'[m] = [row[m] EXCEPT !.resolved = row[m].on] /\ tellings'[m] = 0
        BY <1>0, <2>1, <3>2
      <4> QED
        BY <4>1, <4>2, RowShape
    <3> QED
      BY <3>1, <3>2
  <2> QED
    BY <1>0, <2>1, <2>2, ToldMachines
<1>7. ASSUME NEW s \in Sweeps, EndSweep(s) PROVE ToldInv'
  <2>1. /\ tellings' = tellings
        /\ row' = [m \in Machines |-> IF m \in sweep[s].cleared /\ ~row[m].announced THEN NoRow ELSE row[m]]
    BY <1>7 DEF EndSweep
  <2>2. ASSUME NEW m \in Machines
        PROVE  (\E n : row'[m] \in StateRow(n)) /\ (tellings'[m] = 0 \/ Told(m)')
    BY <1>0, <2>1, EmptyRow DEF Told
  <2> QED
    BY <1>0, <2>1, <2>2, ToldMachines
<1>8. UNCHANGED <<row, tellings>>
      \/ (\E m \in Machines : Confirm(m) \/ GrowOld(m))
      \/ (\E s \in Sweeps : Sight(s) \/ AnnounceBreaks(s) \/ Resolve(s) \/ EndSweep(s))
  BY DEF AlertsNext, alertVars, HealthTurns, Expire, SweepStep, SweepFails, StartSweep, NothingToAnnounce, WeighNotice
<1> QED
  BY <1>1, <1>2, <1>3, <1>4, <1>5, <1>6, <1>7, <1>8

(* Of one machine the administrators are told once, until it works again or a
   fortnight has passed: a second sweep with the same findings loses the claim. *)
THEOREM AnnouncedOnceHolds == AlertsSpec => []AnnouncedOnce
<1>1. ToldInv => AnnouncedOnce
  BY DEF ToldInv, AnnouncedOnce, Told
<1> QED
  BY <1>1, AlertsInitTold, AlertsStepTold, PTL DEF AlertsSpec

-----------------------------------------------------------------------------
(* The consolidation *)

Standings == {"active", "archived", "disabled"}
Question == [about : Doubtful, count : 0..2, age : Nat, open : BOOLEAN]
Asked == 1..Len(asked)
ListItem == [question : Nat, was : Standings]

AskTypes ==
  /\ standing \in [Doubtful -> Standings]
  /\ asked \in Seq(Question) /\ shownDays \in Seq(0..2) /\ Len(shownDays) = Len(asked)
  /\ start \in [Starts -> [parks : Doubtful \cup {NoMemory}, shows : SUBSET Nat]]
  /\ expiry \in [JobRuns -> [at : {"idle", "archive", "answerAll", "answer"}, todo : SUBSET ListItem]]
  /\ shownToday \subseteq Asked /\ expired \subseteq Asked /\ answered \subseteq Asked
  /\ \A s \in Starts : start[s].shows \subseteq Asked

(* A count is no more than the days the question was shown on, with room for
   the report of a showing of today that has not been counted yet. *)
CountedShowings(i) ==
  /\ asked[i].count <= shownDays[i]
  /\ i \in shownToday /\ (asked[i].count = 0 \/ asked[i].age > 0)
       => asked[i].count < shownDays[i] \/ shownDays[i] = 2
CountInv == \A i \in Asked \ straddled : CountedShowings(i)

(* What a session is yet to report was shown today, or is known to straddle. *)
ShowInv == \A s \in Starts : start[s].shows \subseteq shownToday \cup straddled

(* A question in the list of a job, or expired by one, was shown twice and
   nobody had answered it. *)
Judged(i) == i \in Asked /\ (shownDays[i] = 2 \/ i \in straddled) /\ i \notin answered
ListInv == \A j \in JobRuns : \A q \in expiry[j].todo : Judged(q.question)
ExpiredInv == \A i \in expired : Judged(i)
ClosedInv == \A i \in answered : ~asked[i].open

AskInv == AskTypes /\ CountInv /\ ShowInv /\ ListInv /\ ExpiredInv /\ ClosedInv

LEMMA HeldIsListed == \A i : i \in HeldByJob <=> \E j \in JobRuns : \E q \in expiry[j].todo : q.question = i
  BY DEF HeldByJob

(* What AnswerAll makes of the questions. *)
LEMMA AnswersAll ==
  ASSUME asked \in Seq(Question), NEW Q
  PROVE  /\ AnswerAll(Q) \in Seq(Question) /\ Len(AnswerAll(Q)) = Len(asked)
         /\ \A i \in Asked : IF i \in Q THEN AnswerAll(Q)[i].count = 0 /\ ~AnswerAll(Q)[i].open
                                        ELSE AnswerAll(Q)[i] = asked[i]
<1>1. Len(asked) \in Nat /\ DOMAIN asked = Asked
  BY DEF Asked
<1> DEFINE shut(m) == [NewQuestion(m) EXCEPT !.open = FALSE]
<1>2. ASSUME NEW m \in Doubtful PROVE shut(m) \in Question /\ shut(m).count = 0 /\ ~shut(m).open
  <2>1. NewQuestion(m) \in Question /\ NewQuestion(m).count = 0
    BY DEF NewQuestion, Question
  <2> QED
    BY <2>1 DEF Question
<1>3. AnswerAll(Q) = [i \in Asked |-> IF i \in Q THEN shut(asked[i].about) ELSE asked[i]]
  BY <1>1 DEF AnswerAll
<1>4. \A i \in Asked : asked[i] \in Question
  BY <1>1, ElementOfSeq DEF Asked
<1>5. \A i \in Asked : shut(asked[i].about) \in Question /\ shut(asked[i].about).count = 0 /\ ~shut(asked[i].about).open
  <2> HIDE DEF shut
  <2>1. \A i \in Asked : asked[i].about \in Doubtful
    BY <1>4 DEF Question
  <2> QED
    BY <1>2, <2>1
<1> HIDE DEF shut
<1>6. AnswerAll(Q) \in [Asked -> Question]
  BY <1>3, <1>4, <1>5
<1>7. AnswerAll(Q) \in Seq(Question) /\ Len(AnswerAll(Q)) = Len(asked)
  BY <1>1, <1>6 DEF Asked
<1> QED
  BY <1>3, <1>4, <1>5, <1>7

LEMMA CountedOnce ==
  ASSUME NEW q \in Question
  PROVE  /\ Counted(q) \in Question /\ Counted(q).age = 0 /\ Counted(q).open = q.open
         /\ Counted(q).count = IF (q.count = 0 \/ q.age > 0) /\ q.count < 2 THEN q.count + 1 ELSE q.count
<1> DEFINE n == IF (q.count = 0 \/ q.age > 0) /\ q.count < 2 THEN q.count + 1 ELSE q.count
<1>1. n \in 0..2
  BY DEF Question
<1>2. Counted(q) = [q EXCEPT !.count = n, !.age = 0]
  BY Zenon DEF Counted
<1> HIDE DEF n
<1>3. Counted(q) = [about |-> q.about, count |-> n, age |-> 0, open |-> q.open]
  BY <1>2 DEF Question
<1>4. Counted(q) \in Question
  BY <1>1, <1>3 DEF Question
<1> QED
  BY <1>3, <1>4 DEF n

LEMMA AskInitInv == ConsolidationInit => AskInv
<1> SUFFICES ASSUME ConsolidationInit PROVE AskInv
  OBVIOUS
<1>1. Len(asked) = 0 /\ Len(shownDays) = 0 /\ asked \in Seq(Question) /\ shownDays \in Seq(0..2)
  BY DEF ConsolidationInit
<1>2. Asked = {} /\ expired = {} /\ answered = {} /\ shownToday = {}
  BY <1>1 DEF ConsolidationInit, Asked
<1>3. /\ start \in [Starts -> [parks : Doubtful \cup {NoMemory}, shows : SUBSET Nat]]
      /\ \A s \in Starts : start[s].shows = {}
  BY DEF ConsolidationInit, Idling
<1>4. /\ expiry \in [JobRuns -> [at : {"idle", "archive", "answerAll", "answer"}, todo : SUBSET ListItem]]
      /\ \A j \in JobRuns : expiry[j].todo = {}
  BY DEF ConsolidationInit, NoRun
<1>5. standing \in [Doubtful -> Standings]
  BY DEF ConsolidationInit, Standings
<1>6. AskTypes
  BY <1>1, <1>2, <1>3, <1>4, <1>5 DEF AskTypes
<1> QED
  BY <1>2, <1>3, <1>4, <1>6 DEF AskInv, CountInv, ShowInv, ListInv, ExpiredInv, ClosedInv

(* Counts that stay, or start again at nothing, stay within the days. *)
LEMMA CountsKept ==
  ASSUME AskTypes, CountInv, Len(asked') = Len(asked), UNCHANGED <<shownDays, shownToday, straddled>>,
         \A i \in Asked : asked'[i].count = 0 \/ (asked'[i].count = asked[i].count /\ asked'[i].age = asked[i].age)
  PROVE  CountInv'
<1> SUFFICES ASSUME NEW i \in Asked \ straddled PROVE CountedShowings(i)'
  BY DEF CountInv, Asked
<1>1. CountedShowings(i)
  BY DEF CountInv
<1>2. i \in 1..Len(shownDays) /\ shownDays[i] \in 0..2 /\ asked[i] \in Question
  BY ElementOfSeq DEF AskTypes, Asked
<1>3. asked[i].count \in 0..2
  BY <1>2 DEF Question
<1> QED
  BY <1>1, <1>2, <1>3 DEF CountedShowings

(* Everything that closes questions: by the user, or by a job. *)
LEMMA Settling ==
  ASSUME AskInv, NEW Q \in SUBSET Asked, asked' = AnswerAll(Q),
         UNCHANGED <<start, shownDays, shownToday, expired, straddled>>,
         standing' \in [Doubtful -> Standings],
         \/ UNCHANGED <<expiry, answered>>
         \/ UNCHANGED expiry /\ answered' = answered \cup (Q \ (expired \cup HeldByJob))
         \/ /\ UNCHANGED answered
            /\ expiry' \in [JobRuns -> [at : {"idle", "archive", "answerAll", "answer"}, todo : SUBSET ListItem]]
            /\ \A j \in JobRuns : expiry'[j].todo \subseteq expiry[j].todo
  PROVE  AskInv'
<1>0. AskTypes /\ CountInv /\ ShowInv /\ ListInv /\ ExpiredInv /\ ClosedInv
  BY DEF AskInv
<1>1. /\ asked' \in Seq(Question) /\ Len(asked') = Len(asked)
      /\ \A i \in Asked : IF i \in Q THEN asked'[i].count = 0 /\ ~asked'[i].open ELSE asked'[i] = asked[i]
  BY <1>0, AnswersAll DEF AskTypes
<1>2. Asked' = Asked
  BY <1>1 DEF Asked
<1>3. answered \subseteq answered' /\ answered' \subseteq answered \cup Q
  OBVIOUS
<1>4. AskTypes'
  BY <1>0, <1>1, <1>2, <1>3 DEF AskTypes
<1>5. CountInv'
  BY <1>0, <1>1, CountsKept
<1>6. ShowInv'
  BY <1>0 DEF ShowInv
<1>7. ListInv'
  <2> SUFFICES ASSUME NEW j \in JobRuns, NEW q \in expiry'[j].todo PROVE Judged(q.question)'
    BY DEF ListInv
  <2>1. q \in expiry[j].todo
    OBVIOUS
  <2>2. Judged(q.question) /\ q.question \in HeldByJob
    BY <1>0, <2>1, HeldIsListed DEF ListInv
  <2> QED
    BY <1>2, <2>2 DEF Judged
<1>8. ExpiredInv'
  BY <1>0, <1>2 DEF ExpiredInv, Judged
<1>9. ClosedInv'
  BY <1>0, <1>1, <1>3 DEF ClosedInv, AskTypes
<1> QED
  BY <1>4, <1>5, <1>6, <1>7, <1>8, <1>9 DEF AskInv

(* Steps that touch no question: on memories, and on what sessions and jobs
   are at. *)
LEMMA NoQuestion ==
  ASSUME AskInv, AskTypes',
         UNCHANGED <<asked, shownDays, shownToday, straddled, answered>>,
         \A s \in Starts : start'[s].shows \subseteq start[s].shows,
         \A j \in JobRuns : \A q \in expiry'[j].todo : Judged(q.question),
         \A i \in expired' : Judged(i)
  PROVE  AskInv'
  BY DEF AskInv, CountInv, CountedShowings, ShowInv, ListInv, ExpiredInv, ClosedInv, Judged, Asked

LEMMA AskStepInv == AskInv /\ [ConsolidationNext]_consolidationVars => AskInv'
<1> SUFFICES ASSUME AskInv, [ConsolidationNext]_consolidationVars PROVE AskInv'
  OBVIOUS
<1>0. AskTypes /\ CountInv /\ ShowInv /\ ListInv /\ ExpiredInv /\ ClosedInv
  BY DEF AskInv
<1>a. /\ Len(asked) \in Nat /\ DOMAIN asked = Asked /\ DOMAIN shownDays = Asked
      /\ \A i \in Asked : asked[i] \in Question /\ asked[i].about \in Doubtful /\ shownDays[i] \in 0..2
  <2>1. \A i \in Asked : asked[i] \in Question /\ shownDays[i] \in 0..2
    BY <1>0, ElementOfSeq DEF AskTypes, Asked
  <2>2. \A i \in Asked : asked[i].about \in Doubtful
    BY <2>1 DEF Question
  <2> QED
    BY <1>0, <2>1, <2>2, LenProperties DEF AskTypes, Asked
<1>1. ASSUME NEW s \in Starts, NEW m \in Doubtful, StartPark(s, m) PROVE AskInv'
  <2>1. /\ start' = [start EXCEPT ![s] = [start[s] EXCEPT !.parks = m]]
        /\ UNCHANGED <<standing, asked, expiry, shownDays, shownToday, expired, answered, straddled>>
    BY <1>1 DEF StartPark, historyVars
  <2>2. /\ start' \in [Starts -> [parks : Doubtful \cup {NoMemory}, shows : SUBSET Nat]]
        /\ \A t \in Starts : start'[t].shows = start[t].shows
    BY <1>0, <2>1 DEF AskTypes
  <2>3. AskTypes'
    BY <1>0, <2>1, <2>2 DEF AskTypes, Asked
  <2> QED
    BY <1>0, <2>1, <2>2, <2>3, NoQuestion DEF ListInv, ExpiredInv
<1>2. ASSUME NEW s \in Starts, Park(s) PROVE AskInv'
  <2> DEFINE n == Len(asked) + 1
             new == NewQuestion(start[s].parks)
  <2>1. /\ start[s].parks # NoMemory /\ asked' = Append(asked, new) /\ shownDays' = Append(shownDays, 0)
        /\ start' = [start EXCEPT ![s] = Idling]
        /\ UNCHANGED <<standing, expiry, shownToday, expired, answered, straddled>>
    BY <1>2 DEF Park
  <2>2. new \in Question /\ new.count = 0
    BY <1>0, <2>1 DEF AskTypes, NewQuestion, Question
  <2> HIDE DEF new
  <2>3. /\ asked' \in Seq(Question) /\ Len(asked') = n
        /\ (\A i \in Asked : asked'[i] = asked[i]) /\ asked'[n] = new
    BY <1>0, <2>1, <2>2, AppendProperties DEF AskTypes, Asked
  <2>4. /\ shownDays' \in Seq(0..2) /\ Len(shownDays') = n
        /\ (\A i \in Asked : shownDays'[i] = shownDays[i]) /\ shownDays'[n] = 0
    BY <1>0, <2>1, AppendProperties DEF AskTypes, Asked
  <2>5. Asked' = Asked \cup {n} /\ n \notin Asked
    BY <1>a, <2>3 DEF Asked
  <2>6. /\ start' \in [Starts -> [parks : Doubtful \cup {NoMemory}, shows : SUBSET Nat]]
        /\ \A t \in Starts : start'[t].shows \subseteq start[t].shows
    BY <1>0, <2>1 DEF AskTypes, Idling
  <2>7. AskTypes'
    BY <1>0, <2>1, <2>3, <2>4, <2>5, <2>6 DEF AskTypes
  <2>8. CountInv'
    <3> SUFFICES ASSUME NEW i \in Asked' \ straddled PROVE CountedShowings(i)'
      BY <2>1 DEF CountInv
    <3>1. CASE i = n
      BY <1>0, <2>1, <2>2, <2>3, <2>4, <2>5, <3>1 DEF CountedShowings, AskTypes
    <3>2. CASE i \in Asked
      BY <1>0, <2>1, <2>3, <2>4, <3>2 DEF CountInv, CountedShowings
    <3> QED
      BY <2>5, <3>1, <3>2
  <2>9. \A i : Judged(i) => Judged(i)'
    BY <2>1, <2>4, <2>5 DEF Judged
  <2> QED
    BY <1>0, <2>1, <2>3, <2>6, <2>7, <2>8, <2>9 DEF AskInv, ShowInv, ListInv, ExpiredInv, ClosedInv, AskTypes
<1>3. ASSUME NEW s \in Starts, ShowQuestions(s) PROVE AskInv'
  <2>1. /\ start' = [start EXCEPT ![s] = [start[s] EXCEPT !.shows = Served]]
        /\ shownDays' = [i \in Asked |->
             IF i \in Served \ shownToday /\ shownDays[i] < 2 THEN shownDays[i] + 1 ELSE shownDays[i]]
        /\ shownToday' = shownToday \cup Served
        /\ UNCHANGED <<standing, asked, expiry, expired, answered, straddled>>
    BY <1>3, <1>a DEF ShowQuestions
  <2>2. Served \subseteq Asked
    BY <1>a DEF Served, Oldest
  <2>3. /\ start' \in [Starts -> [parks : Doubtful \cup {NoMemory}, shows : SUBSET Nat]]
        /\ start'[s].shows = Served /\ \A t \in Starts \ {s} : start'[t] = start[t]
    <3>1. Served \in SUBSET Nat
      BY <1>a, <2>2 DEF Asked
    <3> HIDE DEF Served
    <3> QED
      BY <1>0, <2>1, <3>1 DEF AskTypes
  <2> HIDE DEF Served
  <2>4. Asked' = Asked
    BY <2>1 DEF Asked
  <2>5. shownDays' \in [Asked -> 0..2]
    BY <1>a, <2>1
  <2>6. shownDays' \in Seq(0..2) /\ Len(shownDays') = Len(asked)
    BY <1>a, <2>5 DEF Asked
  <2>7. AskTypes'
    BY <1>0, <2>1, <2>2, <2>3, <2>4, <2>6 DEF AskTypes
  <2>8. CountInv'
    <3> SUFFICES ASSUME NEW i \in Asked \ straddled PROVE CountedShowings(i)'
      BY <2>1, <2>4 DEF CountInv
    <3>1. CountedShowings(i) /\ shownDays[i] \in 0..2 /\ asked[i].count \in 0..2
      BY <1>0, <1>a DEF CountInv, Question
    <3>2. shownDays'[i] = IF i \in Served \ shownToday /\ shownDays[i] < 2 THEN shownDays[i] + 1 ELSE shownDays[i]
      BY <2>1
    <3> QED
      BY <2>1, <3>1, <3>2 DEF CountedShowings
  <2>9. \A i : Judged(i) => Judged(i)'
    BY <1>a, <2>1, <2>4 DEF Judged
  <2> QED
    BY <1>0, <2>1, <2>3, <2>7, <2>8, <2>9 DEF AskInv, ShowInv, ListInv, ExpiredInv, ClosedInv
<1>4. ASSUME NEW s \in Starts, ReportShown(s) PROVE AskInv'
  <2> DEFINE shown == start[s].shows
  <2>1. /\ start' = [start EXCEPT ![s] = Idling]
        /\ asked' = [i \in Asked |-> IF i \in shown /\ asked[i].open THEN Counted(asked[i]) ELSE asked[i]]
        /\ UNCHANGED <<standing, expiry, shownDays, shownToday, expired, answered, straddled>>
    BY <1>4, <1>a DEF ReportShown, historyVars
  <2>2. \A i \in Asked : /\ asked'[i] \in Question /\ asked'[i].open = asked[i].open
                         /\ \/ asked'[i] = asked[i]
                            \/ i \in shown /\ asked'[i] = Counted(asked[i])
    BY <1>a, <2>1, CountedOnce
  <2>3. asked' \in Seq(Question) /\ Len(asked') = Len(asked)
    <3>1. asked' \in [Asked -> Question]
      BY <2>1, <2>2
    <3> QED
      BY <1>a, <3>1 DEF Asked
  <2>4. Asked' = Asked
    BY <2>3 DEF Asked
  <2>5. /\ start' \in [Starts -> [parks : Doubtful \cup {NoMemory}, shows : SUBSET Nat]]
        /\ \A t \in Starts : start'[t].shows \subseteq start[t].shows
    BY <1>0, <2>1 DEF AskTypes, Idling
  <2>6. AskTypes'
    BY <1>0, <2>1, <2>3, <2>4, <2>5 DEF AskTypes
  <2>7. CountInv'
    <3> SUFFICES ASSUME NEW i \in Asked \ straddled PROVE CountedShowings(i)'
      BY <2>1, <2>4 DEF CountInv
    <3>1. CountedShowings(i) /\ shownDays[i] \in 0..2 /\ asked[i] \in Question
      BY <1>0, <1>a DEF CountInv
    <3>2. CASE asked'[i] = asked[i]
      BY <2>1, <3>1, <3>2 DEF CountedShowings
    <3>3. CASE i \in shown /\ asked'[i] = Counted(asked[i])
      <4>1. i \in shownToday
        BY <1>0, <3>3 DEF ShowInv
      <4>2. asked[i].count \in 0..2 /\ asked[i].age \in Nat
        BY <3>1 DEF Question
      <4>3. /\ asked'[i].age = 0
            /\ asked'[i].count = IF (asked[i].count = 0 \/ asked[i].age > 0) /\ asked[i].count < 2
                                 THEN asked[i].count + 1 ELSE asked[i].count
        BY <3>1, <3>3, CountedOnce
      <4> QED
        BY <2>1, <3>1, <4>1, <4>2, <4>3 DEF CountedShowings
    <3> QED
      BY <2>2, <3>2, <3>3
  <2>8. \A i : Judged(i) => Judged(i)'
    BY <2>1, <2>4 DEF Judged
  <2> QED
    BY <1>0, <2>1, <2>2, <2>5, <2>6, <2>7, <2>8 DEF AskInv, ShowInv, ListInv, ExpiredInv, ClosedInv, AskTypes
<1>5. ASSUME NEW s \in Starts, ReportLost(s) PROVE AskInv'
  <2>1. /\ start' = [start EXCEPT ![s] = Idling]
        /\ UNCHANGED <<standing, asked, expiry, shownDays, shownToday, expired, answered, straddled>>
    BY <1>5 DEF ReportLost, historyVars
  <2>2. /\ start' \in [Starts -> [parks : Doubtful \cup {NoMemory}, shows : SUBSET Nat]]
        /\ \A t \in Starts : start'[t].shows \subseteq start[t].shows
    BY <1>0, <2>1 DEF AskTypes, Idling
  <2>3. AskTypes'
    BY <1>0, <2>1, <2>2 DEF AskTypes, Asked
  <2> QED
    BY <1>0, <2>1, <2>2, <2>3, NoQuestion DEF ListInv, ExpiredInv
<1>6. CASE NextDay
  <2> DEFINE older(i) == [asked[i] EXCEPT !.age = IF asked[i].count > 0 /\ asked[i].age <= AnswerDays
                                                  THEN asked[i].age + 1 ELSE asked[i].age]
  <2>1. /\ asked' = [i \in Asked |-> older(i)]
        /\ shownToday' = {}
        /\ straddled' = straddled \cup UNION {start[s].shows : s \in Starts}
        /\ UNCHANGED <<standing, start, expiry, shownDays, expired, answered>>
    BY <1>6, <1>a DEF NextDay
  <2>2. \A i \in Asked : older(i) \in Question /\ older(i).count = asked[i].count /\ older(i).open = asked[i].open
    <3> SUFFICES ASSUME NEW i \in Asked
                 PROVE  older(i) \in Question /\ older(i).count = asked[i].count /\ older(i).open = asked[i].open
      OBVIOUS
    <3> DEFINE age == IF asked[i].count > 0 /\ asked[i].age <= AnswerDays THEN asked[i].age + 1 ELSE asked[i].age
    <3>1. age \in Nat
      BY <1>a DEF Question
    <3>2. older(i) = [asked[i] EXCEPT !.age = age]
      OBVIOUS
    <3> HIDE DEF age, older
    <3> QED
      BY <1>a, <3>1, <3>2 DEF Question
  <2> HIDE DEF older
  <2>3. asked' \in Seq(Question) /\ Len(asked') = Len(asked)
    <3>1. asked' \in [Asked -> Question]
      BY <2>1, <2>2
    <3> QED
      BY <1>a, <3>1 DEF Asked
  <2>4. Asked' = Asked
    BY <2>3 DEF Asked
  <2>5. \A i \in Asked : asked'[i].count = asked[i].count /\ asked'[i].open = asked[i].open
    BY <2>1, <2>2
  <2>6. AskTypes'
    BY <1>0, <2>1, <2>3, <2>4 DEF AskTypes
  <2>7. CountInv'
    BY <1>0, <2>1, <2>4, <2>5 DEF CountInv, CountedShowings
  <2>8. ShowInv'
    BY <2>1 DEF ShowInv
  <2>9. \A i : Judged(i) => Judged(i)'
    BY <2>1, <2>4 DEF Judged
  <2> QED
    BY <1>0, <2>1, <2>5, <2>6, <2>7, <2>8, <2>9 DEF AskInv, ListInv, ExpiredInv, ClosedInv, AskTypes
<1>b. \A m : OpenAbout(m) \in SUBSET Asked
  BY <1>a DEF OpenAbout
<1>7. ASSUME NEW m \in Doubtful, DecideQuestion(m) PROVE AskInv'
  BY <1>0, <1>7, <1>b, Settling DEF DecideQuestion, Settled, AskTypes
<1>8. ASSUME NEW m \in Doubtful, ArchiveDoubtful(m) PROVE AskInv'
  <2>1. standing' \in [Doubtful -> Standings]
    BY <1>0, <1>8 DEF ArchiveDoubtful, AskTypes, Standings
  <2> QED
    BY <1>8, <1>b, <2>1, Settling DEF ArchiveDoubtful, Settled
<1>9. ASSUME NEW m \in Doubtful, DisableDoubtful(m) \/ RestoreDoubtful(m) PROVE AskInv'
  <2>1. /\ standing' \in [Doubtful -> Standings]
        /\ UNCHANGED <<asked, start, expiry, shownDays, shownToday, expired, answered, straddled>>
    BY <1>0, <1>9 DEF DisableDoubtful, RestoreDoubtful, AskTypes, Standings, historyVars
  <2>2. AskTypes'
    BY <1>0, <2>1 DEF AskTypes, Asked
  <2> QED
    BY <1>0, <2>1, <2>2, NoQuestion DEF ListInv, ExpiredInv
<1>10. ASSUME NEW j \in JobRuns, StartExpiry(j) PROVE AskInv'
  <2> DEFINE list == {[question |-> i, was |-> standing[asked[i].about]] : i \in Unanswered}
  <2>1. /\ expiry' = [expiry EXCEPT ![j] = [at |-> "archive", todo |-> list]]
        /\ UNCHANGED <<standing, asked, start, shownDays, shownToday, expired, answered, straddled>>
    BY <1>10 DEF StartExpiry, historyVars
  <2>2. Unanswered \subseteq Asked
    BY <1>a DEF Unanswered
  <2>3. list \in SUBSET ListItem
    BY <1>0, <1>a, <2>2 DEF ListItem, AskTypes, Asked
  <2>4. \A q \in list : q.question \in Unanswered
    OBVIOUS
  <2> HIDE DEF list
  <2>5. /\ expiry' \in [JobRuns -> [at : {"idle", "archive", "answerAll", "answer"}, todo : SUBSET ListItem]]
        /\ expiry'[j].todo = list /\ \A k \in JobRuns \ {j} : expiry'[k] = expiry[k]
    BY <1>0, <2>1, <2>3 DEF AskTypes
  <2>6. AskTypes'
    BY <1>0, <2>1, <2>5 DEF AskTypes, Asked
  \* A count of two is of two days; an open question nobody has answered.
  <2>7. \A i \in Unanswered : Judged(i)
    <3> SUFFICES ASSUME NEW i \in Unanswered PROVE Judged(i)
      OBVIOUS
    <3>1. i \in Asked /\ asked[i].open /\ asked[i].count >= 2 /\ shownDays[i] \in 0..2 /\ asked[i].count \in 0..2
      BY <1>a, <2>2 DEF Unanswered, Question
    <3>2. i \in straddled \/ asked[i].count <= shownDays[i]
      BY <1>0, <3>1 DEF CountInv, CountedShowings
    <3> QED
      BY <1>0, <3>1, <3>2 DEF Judged, ClosedInv
  <2>8. \A k \in JobRuns : \A q \in expiry'[k].todo : Judged(q.question)
    BY <1>0, <2>4, <2>5, <2>7 DEF ListInv
  <2> QED
    BY <1>0, <2>1, <2>6, <2>8, NoQuestion DEF ExpiredInv
<1>11. ASSUME NEW j \in JobRuns, ArchiveUnanswered(j) PROVE AskInv'
  <2>1. PICK q \in expiry[j].todo :
          /\ Archivable(q) /\ standing' = [standing EXCEPT ![Subject(q)] = "archived"]
          /\ expired' = expired \cup {q.question}
          /\ expiry' = [expiry EXCEPT ![j] = [expiry[j] EXCEPT !.at = "answerAll"]]
          /\ UNCHANGED <<asked, start, shownDays, shownToday, answered, straddled>>
    BY <1>11 DEF ArchiveUnanswered, Doomed
  <2>2. Judged(q.question)
    BY <1>0, <2>1 DEF ListInv
  <2>3. standing' \in [Doubtful -> Standings]
    BY <1>0, <2>1 DEF AskTypes, Standings
  <2>4. /\ expiry' \in [JobRuns -> [at : {"idle", "archive", "answerAll", "answer"}, todo : SUBSET ListItem]]
        /\ \A k \in JobRuns : expiry'[k].todo = expiry[k].todo
    BY <1>0, <2>1 DEF AskTypes
  <2>5. AskTypes'
    BY <1>0, <2>1, <2>2, <2>3, <2>4 DEF AskTypes, Asked, Judged
  <2> QED
    BY <1>0, <2>1, <2>2, <2>4, <2>5, NoQuestion DEF ListInv, ExpiredInv
<1>12. ASSUME NEW j \in JobRuns, SkipArchiving(j) \/ ExpiryFails(j) PROVE AskInv'
  <2>1. UNCHANGED <<standing, asked, start, shownDays, shownToday, expired, answered, straddled>>
    BY <1>12 DEF SkipArchiving, ExpiryFails, historyVars
  <2>2. expiry' = [expiry EXCEPT ![j] = [expiry[j] EXCEPT !.at = "answer"]] \/ expiry' = [expiry EXCEPT ![j] = NoRun]
    BY <1>12 DEF SkipArchiving, ExpiryFails
  <2>3. /\ expiry' \in [JobRuns -> [at : {"idle", "archive", "answerAll", "answer"}, todo : SUBSET ListItem]]
        /\ \A k \in JobRuns : expiry'[k].todo \subseteq expiry[k].todo
    BY <1>0, <2>2 DEF AskTypes, NoRun
  <2>4. AskTypes'
    BY <1>0, <2>1, <2>3 DEF AskTypes, Asked
  <2> QED
    BY <1>0, <2>1, <2>3, <2>4, NoQuestion DEF ListInv, ExpiredInv
<1>13. ASSUME NEW j \in JobRuns, AnswerOpenQuestions(j) PROVE AskInv'
  <2>1. PICK q : asked' = AnswerAll(OpenAbout(Subject(q)))
    BY <1>13 DEF AnswerOpenQuestions
  <2>2. /\ expiry' = [expiry EXCEPT ![j] = [expiry[j] EXCEPT !.at = "answer"]]
        /\ UNCHANGED <<standing, start, shownDays, shownToday, expired, answered, straddled>>
    BY <1>13 DEF AnswerOpenQuestions, historyVars
  <2>3. /\ expiry' \in [JobRuns -> [at : {"idle", "archive", "answerAll", "answer"}, todo : SUBSET ListItem]]
        /\ \A k \in JobRuns : expiry'[k].todo \subseteq expiry[k].todo
    BY <1>0, <2>2 DEF AskTypes
  <2>4. standing' \in [Doubtful -> Standings]
    BY <1>0, <2>2 DEF AskTypes
  <2> QED
    BY <1>b, <2>1, <2>2, <2>3, <2>4, Settling
<1>14. ASSUME NEW j \in JobRuns, AnswerQuestion(j) PROVE AskInv'
  <2>1. PICK q \in expiry[j].todo :
          /\ asked' = AnswerAll({q.question})
          /\ expiry' = [expiry EXCEPT ![j] = PastQuestion(expiry[j].todo \ {q})]
          /\ UNCHANGED <<standing, start, shownDays, shownToday, expired, answered, straddled>>
    BY <1>14 DEF AnswerQuestion, Doomed, historyVars
  <2>2. {q.question} \in SUBSET Asked
    BY <1>0, <2>1 DEF ListInv, Judged
  <2>3. /\ PastQuestion(expiry[j].todo \ {q}) \in
             [at : {"idle", "archive", "answerAll", "answer"}, todo : SUBSET ListItem]
        /\ PastQuestion(expiry[j].todo \ {q}).todo = expiry[j].todo \ {q}
    BY <1>0 DEF AskTypes, PastQuestion
  <2>4. /\ expiry' \in [JobRuns -> [at : {"idle", "archive", "answerAll", "answer"}, todo : SUBSET ListItem]]
        /\ \A k \in JobRuns : expiry'[k].todo \subseteq expiry[k].todo
    BY <1>0, <2>1, <2>3 DEF AskTypes
  <2>5. standing' \in [Doubtful -> Standings]
    BY <1>0, <2>1 DEF AskTypes
  <2> QED
    BY <2>1, <2>2, <2>4, <2>5, Settling
<1>15. CASE UNCHANGED consolidationVars
  <2>1. AskTypes'
    BY <1>0, <1>15 DEF consolidationVars, historyVars, AskTypes, Asked
  <2> QED
    BY <1>0, <1>15, <2>1, NoQuestion DEF consolidationVars, historyVars, ListInv, ExpiredInv
<1> QED
  BY <1>1, <1>2, <1>3, <1>4, <1>5, <1>6, <1>7, <1>8, <1>9, <1>10, <1>11, <1>12, <1>13, <1>14, <1>15
  DEF ConsolidationNext, SessionStep, ExpiryStep

(* The expiry job archives what the user was asked about on two days and left
   unanswered, and nothing else, but for a settling after its list was read. *)
THEOREM ArchivedUnansweredHolds == ConsolidationSpec => []ArchivedUnanswered
<1>1. AskInv => ArchivedUnanswered
  BY DEF AskInv, ExpiredInv, Judged, ArchivedUnanswered
<1> QED
  BY <1>1, AskInitInv, AskStepInv, PTL DEF ConsolidationSpec

-----------------------------------------------------------------------------
(* The files of the database                                               *)

(* A runner takes its files in order, past none that is not recorded, is about
   to record only what is applied, and has the rest of its release before it. *)
RunsInOrder(r) ==
  /\ runner[r].at \in {"run", "record"} =>
       \A h \in runner[r].todo : 1..(h - 1) \subseteq runner[r].todo \cup recorded
  /\ runner[r].at = "record" => runner[r].todo # {} /\ schema[File1(r)] = "all"
  /\ runner[r].at \in {"run", "record"} => 1..runner[r].of \subseteq runner[r].todo \cup recorded
  /\ runner[r].at = "listens" => 1..runner[r].of \subseteq recorded

MigrationsInv == MigrationsTypeOK /\ MigratedInOrder /\ \A r \in Runners : RunsInOrder(r)

RunnerRow == [at : {"off", "list", "run", "record", "listens"}, todo : SUBSET AllFiles, of : 0..MaxFile]

LEMMA FirstFile ==
  ASSUME NEW S \in SUBSET AllFiles, S # {}
  PROVE  Min(S) \in S /\ \A g \in S : Min(S) <= g
<1>1. S \subseteq Nat
  BY MigrationConstants DEF AllFiles
<1>2. IsWellFoundedOn(OpToRel(<, Nat), Nat)
  BY NatLessThanWellFounded
<1>3. PICK n \in S : \A g \in S : <<g, n>> \notin OpToRel(<, Nat)
  BY <1>1, <1>2, WFMin
<1>4. \A g \in S : n \in Nat /\ g \in Nat /\ ~(g < n)
  BY <1>1, <1>3 DEF OpToRel
<1>5. \A g \in S : n <= g
  BY <1>4
<1> QED
  BY <1>3, <1>5 DEF Min

LEMMA MigrationsInitInv == MigrationsInit => MigrationsInv
<1> SUFFICES ASSUME MigrationsInit PROVE MigrationsInv
  OBVIOUS
<1>1. Off \in RunnerRow /\ Off.at = "off"
  BY MigrationConstants DEF Off, RunnerRow
<1>2. MigrationsTypeOK
  <2>1. released \in AllFiles
    BY MigrationConstants DEF MigrationsInit, AllFiles
  <2> QED
    BY <1>1, <2>1, MigrationConstants DEF MigrationsInit, MigrationsTypeOK, RunnerRow
<1> QED
  BY <1>1, <1>2 DEF MigrationsInit, MigrationsInv, MigratedInOrder, RunsInOrder

(* What one runner does keeps the others in order: files are only ever recorded
   more, and applied further. *)
LEMMA RunMoves ==
  ASSUME MigrationsInv, NEW r \in Runners, NEW v \in RunnerRow, Runs(r, v),
         UNCHANGED released,
         schema' \in [AllFiles -> {"none", "part", "all"}],
         \A f \in AllFiles : schema[f] = "all" => schema'[f] = "all",
         recorded' \subseteq AllFiles, recorded \subseteq recorded',
         stranded' \subseteq AllFiles, bootFaults' \in 0..MaxBootFaults,
         MigratedInOrder',
         v.at \in {"run", "record"} => \A h \in v.todo : 1..(h - 1) \subseteq v.todo \cup recorded',
         v.at = "record" => v.todo # {} /\ schema'[Min(v.todo)] = "all",
         v.at \in {"run", "record"} => 1..v.of \subseteq v.todo \cup recorded',
         v.at = "listens" => 1..v.of \subseteq recorded'
  PROVE  MigrationsInv'
<1>1. /\ runner' \in [Runners -> RunnerRow] /\ runner'[r] = v
      /\ \A s \in Runners \ {r} : runner'[s] = runner[s]
  BY DEF MigrationsInv, MigrationsTypeOK, Runs, RunnerRow
<1>2. MigrationsTypeOK'
  BY <1>1 DEF MigrationsInv, MigrationsTypeOK, RunnerRow
<1>3. RunsInOrder(r)'
  BY <1>1 DEF RunsInOrder, File1
<1>4. ASSUME NEW s \in Runners \ {r} PROVE RunsInOrder(s)'
  <2>1. RunsInOrder(s) /\ runner[s] \in RunnerRow /\ runner'[s] = runner[s]
    BY <1>1 DEF MigrationsInv, MigrationsTypeOK, RunnerRow
  <2>2. runner[s].at = "record" => File1(s) \in AllFiles
    BY <2>1, FirstFile DEF RunsInOrder, RunnerRow, File1
  <2> QED
    BY <2>1, <2>2 DEF RunsInOrder, File1
<1> QED
  BY <1>2, <1>3, <1>4 DEF MigrationsInv

LEMMA MigrationsStepInv == MigrationsInv /\ [MigrationsNext]_migrationVars => MigrationsInv'
<1> SUFFICES ASSUME MigrationsInv, [MigrationsNext]_migrationVars PROVE MigrationsInv'
  OBVIOUS
<1>0. /\ released \in AllFiles /\ schema \in [AllFiles -> {"none", "part", "all"}] /\ recorded \subseteq AllFiles
      /\ runner \in [Runners -> RunnerRow]
      /\ stranded \subseteq AllFiles /\ bootFaults \in 0..MaxBootFaults
      /\ MigratedInOrder /\ \A r \in Runners : RunsInOrder(r)
  BY DEF MigrationsInv, MigrationsTypeOK, RunnerRow
<1>r. /\ Off \in RunnerRow /\ Off.at = "off"
      /\ [Off EXCEPT !.at = "list"] \in RunnerRow /\ [Off EXCEPT !.at = "list"].at = "list"
  BY MigrationConstants DEF Off, RunnerRow
<1>b. Bootstrap \in AllFiles
  BY MigrationConstants
<1>n. /\ MaxFile \in Nat /\ AllFiles \subseteq Nat \ {0}
      /\ \A n \in Bootstrap..released :
           n \in 0..MaxFile /\ 1..n \subseteq AllFiles /\ \A h \in 1..n : 1..(h - 1) \subseteq 1..n
      /\ \A h \in AllFiles : 1..(h - 1) \subseteq AllFiles
  BY <1>0, <1>b, MigrationConstants DEF AllFiles
<1>k. BootFault => bootFaults' \in 0..MaxBootFaults
  BY <1>0, MigrationConstants DEF BootFault
(* The next file of a run, and all before it are recorded. *)
<1>d. ASSUME NEW r \in Runners, runner[r].at \in {"run", "record"}, runner[r].todo # {}
      PROVE  /\ File1(r) \in runner[r].todo /\ File1(r) \in AllFiles
             /\ 1..(File1(r) - 1) \subseteq recorded
             /\ \A g \in runner[r].todo : File1(r) <= g
  <2>1. /\ runner[r].todo \in SUBSET AllFiles
        /\ File1(r) \in runner[r].todo /\ \A g \in runner[r].todo : File1(r) <= g
    BY <1>0, <1>d, FirstFile DEF RunnerRow, File1
  <2>2. 1..(File1(r) - 1) \subseteq runner[r].todo \cup recorded
    BY <1>0, <1>d, <2>1 DEF RunsInOrder
  <2>3. \A g \in 1..(File1(r) - 1) : g \notin runner[r].todo
    <3>1. File1(r) \in Nat
      BY <1>n, <2>1
    <3> QED
      BY <2>1, <3>1
  <2> QED
    BY <2>1, <2>2, <2>3
<1>1. CASE Release1
  <2>1. released' \in AllFiles
    BY <1>0, <1>1, <1>n DEF Release1, AllFiles
  <2> QED
    BY <1>0, <1>1, <2>1 DEF Release1, MigrationsInv, MigrationsTypeOK, MigratedInOrder, RunsInOrder, File1, RunnerRow
<1>2. ASSUME NEW r \in Runners, StartRun(r) PROVE MigrationsInv'
  <2>1. /\ Runs(r, [Off EXCEPT !.at = "list"]) /\ UNCHANGED <<released, stranded, bootFaults>>
        /\ schema' = [schema EXCEPT ![Bootstrap] = "all"] /\ recorded' = recorded \cup {Bootstrap}
    BY <1>2 DEF StartRun
  <2>2. /\ schema' \in [AllFiles -> {"none", "part", "all"}] /\ schema'[Bootstrap] = "all"
        /\ \A f \in AllFiles \ {Bootstrap} : schema'[f] = schema[f]
    BY <1>0, <1>b, <2>1
  <2>3. MigratedInOrder'
    BY <1>0, <1>b, <2>1, <2>2 DEF MigratedInOrder
  <2> QED
    BY <1>0, <1>r, <1>b, <2>1, <2>2, <2>3, RunMoves
<1>13. ASSUME NEW r \in Runners, ScriptStopsInBootstrap(r) PROVE MigrationsInv'
  <2>1. /\ Runs(r, Off) /\ UNCHANGED <<released, recorded, stranded>> /\ bootFaults' \in 0..MaxBootFaults
        /\ schema' = [schema EXCEPT ![Bootstrap] = IF @ = "none" THEN "part" ELSE @]
    BY <1>13, <1>k DEF ScriptStopsInBootstrap
  <2>2. /\ schema' \in [AllFiles -> {"none", "part", "all"}]
        /\ \A f \in AllFiles : schema[f] = "all" => schema'[f] = "all"
        /\ \A f \in AllFiles \ {Bootstrap} : schema'[f] = schema[f]
    BY <1>0, <1>b, <2>1
  <2>3. MigratedInOrder'
    BY <1>0, <1>b, <2>1, <2>2 DEF MigratedInOrder
  <2> QED
    BY <1>0, <1>r, <2>1, <2>2, <2>3, RunMoves
<1>3. ASSUME NEW r \in Runners, ListDue(r) \/ ListUnread(r) PROVE MigrationsInv'
  <2>0. PICK n \in Bootstrap..released : \E todo \in {1..n, (1..n) \ recorded} :
          /\ Listed(r, n, todo) /\ UNCHANGED <<released, schema, recorded, stranded>>
          /\ bootFaults' \in 0..MaxBootFaults
    BY <1>0, <1>3, <1>k DEF ListDue, ListUnread
  <2>1. PICK todo \in {1..n, (1..n) \ recorded} :
          /\ Listed(r, n, todo) /\ UNCHANGED <<released, schema, recorded, stranded>>
          /\ bootFaults' \in 0..MaxBootFaults
    BY <2>0
  <2> DEFINE entry == [at |-> "run", todo |-> todo, of |-> n]
  <2>2. entry \in RunnerRow /\ entry.at = "run" /\ entry.todo = todo /\ entry.of = n
    BY <1>n DEF RunnerRow
  <2>3. /\ \A h \in entry.todo : 1..(h - 1) \subseteq entry.todo \cup recorded
        /\ 1..n \subseteq entry.todo \cup recorded
    BY <1>n, <2>2
  <2>4. Runs(r, entry)
    BY <2>1 DEF Listed
  <2> HIDE DEF entry
  <2> QED
    BY <1>0, <2>1, <2>2, <2>3, <2>4, RunMoves DEF MigratedInOrder
<1>4. ASSUME NEW r \in Runners, ApplyFile(r) PROVE MigrationsInv'
  <2> DEFINE entry == [runner[r] EXCEPT !.at = "record"]
  <2>1. entry \in RunnerRow /\ entry.at = "record" /\ entry.todo = runner[r].todo /\ entry.of = runner[r].of
    BY <1>0 DEF RunnerRow
  <2>2. /\ runner[r].at = "run" /\ runner[r].todo # {} /\ Runs(r, entry)
        /\ schema' = [schema EXCEPT ![File1(r)] = "all"]
        /\ UNCHANGED <<released, recorded, stranded, bootFaults>>
    BY <1>4 DEF ApplyFile, Due
  <2>3. File1(r) \in AllFiles /\ 1..(File1(r) - 1) \subseteq recorded
    BY <1>d, <2>2
  <2>4. /\ schema' \in [AllFiles -> {"none", "part", "all"}] /\ schema'[File1(r)] = "all"
        /\ \A f \in AllFiles \ {File1(r)} : schema'[f] = schema[f]
    BY <1>0, <2>2, <2>3
  <2>5. MigratedInOrder'
    BY <1>0, <2>2, <2>3, <2>4 DEF MigratedInOrder
  <2>6. /\ \A h \in entry.todo : 1..(h - 1) \subseteq entry.todo \cup recorded
        /\ 1..entry.of \subseteq entry.todo \cup recorded
    BY <1>0, <2>1, <2>2 DEF RunsInOrder
  <2>7. Min(entry.todo) = File1(r)
    BY <2>1 DEF File1
  <2> HIDE DEF entry
  <2> QED
    BY <1>0, <2>1, <2>2, <2>3, <2>4, <2>5, <2>6, <2>7, RunMoves
<1>5. ASSUME NEW r \in Runners, Runs(r, Off), UNCHANGED <<released, schema, recorded>>,
             stranded' \subseteq AllFiles, bootFaults' \in 0..MaxBootFaults
      PROVE  MigrationsInv'
  BY <1>0, <1>5, <1>r, RunMoves DEF MigratedInOrder
<1>6. ASSUME NEW r \in Runners, FileFails(r) PROVE MigrationsInv'
  BY <1>0, <1>5, <1>6 DEF FileFails
<1>7. ASSUME NEW r \in Runners, RecordFile(r) PROVE MigrationsInv'
  <2> DEFINE entry == [runner[r] EXCEPT !.at = "run", !.todo = @ \ {File1(r)}]
  <2>1. entry \in RunnerRow /\ entry.at = "run" /\ entry.todo = runner[r].todo \ {File1(r)} /\ entry.of = runner[r].of
    BY <1>0 DEF RunnerRow
  <2>2. /\ runner[r].at = "record" /\ Runs(r, entry) /\ recorded' = recorded \cup {File1(r)}
        /\ UNCHANGED <<released, schema, stranded, bootFaults>>
    BY <1>7 DEF RecordFile
  <2>3. runner[r].todo # {} /\ schema[File1(r)] = "all"
    BY <1>0, <2>2 DEF RunsInOrder
  <2>4. File1(r) \in AllFiles
    BY <1>d, <2>2, <2>3
  <2>5. MigratedInOrder'
    BY <1>0, <2>2, <2>3 DEF MigratedInOrder
  <2>6. /\ \A h \in entry.todo : 1..(h - 1) \subseteq entry.todo \cup recorded'
        /\ 1..entry.of \subseteq entry.todo \cup recorded'
    BY <1>0, <2>1, <2>2 DEF RunsInOrder
  <2> HIDE DEF entry
  <2> QED
    BY <1>0, <2>1, <2>2, <2>4, <2>5, <2>6, RunMoves
<1>8. ASSUME NEW r \in Runners, RunKilled(r) PROVE MigrationsInv'
  <2>1. runner[r].at = "record" => File1(r) \in AllFiles
    BY <1>0, <1>d DEF RunsInOrder
  <2> QED
    BY <1>0, <1>5, <1>8, <1>k, <2>1 DEF RunKilled
<1>9. ASSUME NEW r \in Runners, ScriptStopsInFile(r) PROVE MigrationsInv'
  <2>1. /\ runner[r].at = "run" /\ runner[r].todo # {} /\ Runs(r, Off)
        /\ schema' = [schema EXCEPT ![File1(r)] = IF @ = "none" THEN "part" ELSE @]
        /\ stranded' = stranded \cup {File1(r)} /\ bootFaults' \in 0..MaxBootFaults
        /\ UNCHANGED <<released, recorded>>
    BY <1>9, <1>k DEF ScriptStopsInFile, Due
  <2>2. File1(r) \in AllFiles /\ 1..(File1(r) - 1) \subseteq recorded
    BY <1>d, <2>1
  <2>3. /\ schema' \in [AllFiles -> {"none", "part", "all"}]
        /\ \A f \in AllFiles : schema[f] = "all" => schema'[f] = "all"
        /\ \A f \in AllFiles \ {File1(r)} : schema'[f] = schema[f]
    BY <1>0, <2>1, <2>2
  <2>4. MigratedInOrder'
    BY <1>0, <2>1, <2>2, <2>3 DEF MigratedInOrder
  <2> QED
    BY <1>0, <1>r, <2>1, <2>2, <2>3, <2>4, RunMoves
<1>10. ASSUME NEW r \in Runners, EndRun(r) PROVE MigrationsInv'
  <2>1. /\ runner[r].at = "run" /\ runner[r].todo = {} /\ UNCHANGED <<released, schema, recorded, stranded, bootFaults>>
        /\ Runs(r, IF r \in Servers THEN [runner[r] EXCEPT !.at = "listens"] ELSE Off)
    BY <1>10 DEF EndRun
  <2>2. 1..runner[r].of \subseteq recorded
    BY <1>0, <2>1 DEF RunsInOrder
  <2> DEFINE entry == [runner[r] EXCEPT !.at = "listens"]
  <2>3. entry \in RunnerRow /\ entry.at = "listens" /\ entry.of = runner[r].of
    BY <1>0 DEF RunnerRow
  <2>4. Runs(r, entry) \/ Runs(r, Off)
    BY <2>1
  <2> HIDE DEF entry
  <2> QED
    BY <1>0, <1>r, <2>1, <2>2, <2>3, <2>4, RunMoves DEF MigratedInOrder
<1>11. ASSUME NEW r \in Runners, Restart(r) PROVE MigrationsInv'
  BY <1>0, <1>5, <1>11 DEF Restart
<1>12. CASE UNCHANGED migrationVars
  BY <1>0, <1>12 DEF migrationVars, MigrationsInv, MigrationsTypeOK, MigratedInOrder, RunsInOrder, File1, RunnerRow
<1> QED
  BY <1>1, <1>2, <1>3, <1>4, <1>6, <1>7, <1>8, <1>9, <1>10, <1>11, <1>12, <1>13 DEF MigrationsNext, RunStep

(* The database, the record and the runs stay in their domains. *)
THEOREM MigrationsTypeCorrect == MigrationsSpec => []MigrationsTypeOK
<1>1. MigrationsInv => MigrationsTypeOK
  BY DEF MigrationsInv
<1> QED
  BY <1>1, MigrationsInitInv, MigrationsStepInv, PTL DEF MigrationsSpec

(* For any number of servers, scripts and files, whichever can be run twice and
   whichever makes the table of the record: the files but that one reach the
   database in their order, whole before the next. *)
THEOREM MigratedInOrderHolds == MigrationsSpec => []MigratedInOrder
<1>1. MigrationsInv => MigratedInOrder
  BY DEF MigrationsInv
<1> QED
  BY <1>1, MigrationsInitInv, MigrationsStepInv, PTL DEF MigrationsSpec

(* A server that listens has every file of its release in the database, whole:
   new code never meets an old schema, however many servers and scripts run the
   files at once, of whatever releases, and wherever they are killed. *)
THEOREM ListensOnWholeHolds == MigrationsSpec => []ListensOnWhole
<1>1. MigrationsInv => ListensOnWhole
  <2> SUFFICES ASSUME MigrationsInv, NEW s \in Servers, runner[s].at = "listens", NEW f \in 1..runner[s].of
               PROVE  schema[f] = "all"
    BY DEF ListensOnWhole
  <2>1. RunsInOrder(s) /\ MigratedInOrder
    BY DEF MigrationsInv, Runners
  <2> QED
    BY <2>1 DEF RunsInOrder, MigratedInOrder
<1> QED
  BY <1>1, MigrationsInitInv, MigrationsStepInv, PTL DEF MigrationsSpec

-----------------------------------------------------------------------------
(* The notices about self-checks                                           *)

EvaluationRow == [at : {"idle", "read", "write"}, reports : {Unread} \cup [Checks -> Verdict],
                  known : {Unread} \cup [Checks -> RowState], fixed : SUBSET Checks, news : SUBSET Checks]

InstallInv ==
  /\ newest \in [Checks -> Verdict] /\ alertRow \in [Checks -> RowState] /\ noticed \subseteq Checks
  /\ evaluation \in [Evaluators -> EvaluationRow] /\ alertFaults \in 0..MaxAlertFaults
  /\ OpenIsAnnounced

LEMMA NoEvaluationRow == NoEvaluation \in EvaluationRow /\ Reading \in EvaluationRow
  BY DEF NoEvaluation, Reading, EvaluationRow

LEMMA InstallInitInv == InstallAlertsInit => InstallInv
<1> SUFFICES ASSUME InstallAlertsInit PROVE InstallInv
  OBVIOUS
<1>1. evaluation \in [Evaluators -> EvaluationRow]
  BY NoEvaluationRow DEF InstallAlertsInit
<1> QED
  BY <1>1, InstallAlertConstants DEF InstallAlertsInit, InstallInv, Verdict, RowState, OpenIsAnnounced

(* A step of one evaluation that writes no row. *)
LEMMA EvaluationMoves ==
  ASSUME InstallInv, NEW e \in Evaluators, NEW v \in EvaluationRow, Becomes(e, v), UNCHANGED <<alertRow, noticed>>,
         newest' \in [Checks -> Verdict], alertFaults' \in 0..MaxAlertFaults
  PROVE  InstallInv'
  BY DEF InstallInv, Becomes, OpenIsAnnounced

LEMMA InstallStepInv == InstallInv /\ [InstallAlertsNext]_installVars => InstallInv'
<1> SUFFICES ASSUME InstallInv, [InstallAlertsNext]_installVars PROVE InstallInv'
  OBVIOUS
<1>0. /\ newest \in [Checks -> Verdict] /\ alertRow \in [Checks -> RowState] /\ noticed \subseteq Checks
      /\ evaluation \in [Evaluators -> EvaluationRow] /\ alertFaults \in 0..MaxAlertFaults /\ OpenIsAnnounced
  BY DEF InstallInv
<1>1. ASSUME NEW e \in Evaluators, NEW c \in Checks, StoreReport(e, c) PROVE InstallInv'
  <2>1. newest' \in [Checks -> Verdict]
    BY <1>0, <1>1 DEF StoreReport
  <2> QED
    BY <1>0, <1>1, <2>1, NoEvaluationRow, EvaluationMoves DEF StoreReport
<1>2. ASSUME NEW e \in Evaluators, ReportAgain(e) PROVE InstallInv'
  BY <1>0, <1>2, NoEvaluationRow, EvaluationMoves DEF ReportAgain
<1>3. ASSUME NEW e \in Evaluators, ReadReports(e) PROVE InstallInv'
  <2>1. [evaluation[e] EXCEPT !.reports = newest] \in EvaluationRow
    BY <1>0 DEF EvaluationRow
  <2> QED
    BY <1>0, <1>3, <2>1, EvaluationMoves DEF ReadReports
<1>4. ASSUME NEW e \in Evaluators, ReadKnown(e) PROVE InstallInv'
  <2>1. [evaluation[e] EXCEPT !.known = alertRow] \in EvaluationRow
    BY <1>0 DEF EvaluationRow
  <2> QED
    BY <1>0, <1>4, <2>1, EvaluationMoves DEF ReadKnown
<1>5. ASSUME NEW e \in Evaluators, EvaluateFailures(e) PROVE InstallInv'
  <2> DEFINE fixed == {c \in Checks : evaluation[e].reports[c] = "pass" /\ evaluation[e].known[c] = "open"}
             news == {c \in Checks : evaluation[e].reports[c] = "fail" /\ evaluation[e].known[c] # "open"}
             v == [NoEvaluation EXCEPT !.at = "write", !.fixed = fixed, !.news = news]
  <2>1. Becomes(e, v) /\ UNCHANGED <<newest, alertRow, noticed, alertFaults>>
    BY <1>5 DEF EvaluateFailures
  <2>2. fixed \in SUBSET Checks /\ news \in SUBSET Checks
    OBVIOUS
  <2> HIDE DEF fixed, news
  <2>3. v \in EvaluationRow
    BY <2>2 DEF NoEvaluation, EvaluationRow
  <2> QED
    BY <1>0, <2>1, <2>3, EvaluationMoves
<1>6. ASSUME NEW e \in Evaluators, ResolveCheck(e) PROVE InstallInv'
  <2>1. PICK c \in evaluation[e].fixed :
          /\ alertRow' = [alertRow EXCEPT ![c] = "resolved"] /\ noticed' = noticed \ {c}
          /\ Becomes(e, [evaluation[e] EXCEPT !.fixed = @ \ {c}]) /\ UNCHANGED <<newest, alertFaults>>
    BY <1>6 DEF ResolveCheck
  <2>2. c \in Checks /\ [evaluation[e] EXCEPT !.fixed = @ \ {c}] \in EvaluationRow
    BY <1>0 DEF EvaluationRow
  <2>3. evaluation' \in [Evaluators -> EvaluationRow]
    BY <1>0, <2>1, <2>2 DEF Becomes
  <2>4. alertRow' \in [Checks -> RowState] /\ OpenIsAnnounced'
    BY <1>0, <2>1, <2>2 DEF RowState, OpenIsAnnounced
  <2> QED
    BY <1>0, <2>1, <2>3, <2>4 DEF InstallInv
<1>7. ASSUME NEW e \in Evaluators, ClaimAndAnnounce(e) PROVE InstallInv'
  <2>1. /\ alertRow' = [c \in Checks |-> IF c \in Claims(e) THEN "open" ELSE alertRow[c]]
        /\ noticed' = noticed \cup Claims(e) /\ Becomes(e, NoEvaluation) /\ UNCHANGED <<newest, alertFaults>>
    BY <1>7 DEF ClaimAndAnnounce, ClaimRows
  <2>2. Claims(e) \subseteq Checks
    BY <1>0 DEF Claims, EvaluationRow
  <2>3. evaluation' \in [Evaluators -> EvaluationRow]
    BY <1>0, <2>1, NoEvaluationRow DEF Becomes
  <2>4. alertRow' \in [Checks -> RowState] /\ OpenIsAnnounced'
    BY <1>0, <2>1, <2>2 DEF RowState, OpenIsAnnounced
  <2> QED
    BY <1>0, <2>1, <2>2, <2>3, <2>4 DEF InstallInv
<1>8. ASSUME NEW e \in Evaluators, EvaluationFails(e) PROVE InstallInv'
  <2>1. alertFaults' \in 0..MaxAlertFaults
    BY <1>0, <1>8, InstallAlertConstants DEF EvaluationFails
  <2> QED
    BY <1>0, <1>8, <2>1, NoEvaluationRow, EvaluationMoves DEF EvaluationFails
<1>9. CASE UNCHANGED installVars
  BY <1>0, <1>9 DEF installVars, InstallInv, OpenIsAnnounced
<1> QED
  BY <1>1, <1>2, <1>3, <1>4, <1>5, <1>6, <1>7, <1>8, <1>9 DEF InstallAlertsNext, EvaluationStep

(* The reports, the rows and the evaluations stay in their domains. *)
THEOREM InstallAlertsTypeCorrect == InstallAlertsSpec => []InstallAlertsTypeOK
<1>1. InstallInv => InstallAlertsTypeOK
  <2> SUFFICES ASSUME InstallInv, NEW e \in Evaluators
               PROVE  /\ evaluation[e].at \in {"idle", "read", "write"}
                      /\ evaluation[e].reports \in {Unread} \cup [Checks -> Verdict]
                      /\ evaluation[e].known \in {Unread} \cup [Checks -> RowState]
                      /\ evaluation[e].fixed \cup evaluation[e].news \subseteq Checks
    BY DEF InstallInv, InstallAlertsTypeOK
  <2>1. evaluation[e] \in EvaluationRow
    BY DEF InstallInv
  <2> QED
    BY <2>1 DEF EvaluationRow
<1> QED
  BY <1>1, InstallInitInv, InstallStepInv, PTL DEF InstallAlertsSpec

(* For any number of checks and evaluations at once: a row is open when, and
   only when, its notice was written. *)
THEOREM OpenIsAnnouncedHolds == InstallAlertsSpec => []OpenIsAnnounced
<1>1. InstallInv => OpenIsAnnounced
  BY DEF InstallInv
<1> QED
  BY <1>1, InstallInitInv, InstallStepInv, PTL DEF InstallAlertsSpec
=============================================================================
