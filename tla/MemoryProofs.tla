---------------------------- MODULE MemoryProofs ----------------------------
(***************************************************************************)
(* Proofs about the memory store and its caches, for any accounts,         *)
(* sessions, memories and machines; and about the lessons of sessions that *)
(* become memories of it, for any lessons and requests.                    *)
(***************************************************************************)
EXTENDS MemoryProps, SessionLessons, SequenceTheorems, WellFoundedInduction, TLAPS

-----------------------------------------------------------------------------
(* The sync token                                                          *)

\* MAX(updated_at) exists, bounds every row it is taken over, and does not pass the clock.
LEMMA NewestBounds ==
  ASSUME now \in Nat, NEW S \in SUBSET Ids,
         \A i \in S : row[i].stamp \in Nat /\ row[i].stamp <= now
  PROVE  /\ Newest(S) \in 0..now
         /\ \A i \in S : row[i].stamp <= Newest(S)
<1> DEFINE Bounds == {n \in Nat : \A i \in S : row[i].stamp <= n}
<1>1. now \in Bounds
  OBVIOUS
<1>2. IsWellFoundedOn(OpToRel(<, Nat), Nat)
  BY NatLessThanWellFounded
<1>3. PICK n \in Bounds : \A m \in Bounds : <<m, n>> \notin OpToRel(<, Nat)
  BY <1>1, <1>2, WFMin, Bounds \subseteq Nat, Bounds # {}
<1>4. \A m \in Bounds : ~(m < n)
  BY <1>3 DEF OpToRel
<1>5. n \in 0..now
  BY <1>1, <1>4
<1>6. n = 0 \/ \E i \in S : row[i].stamp = n
  <2>1. SUFFICES ASSUME n # 0, \A i \in S : row[i].stamp # n PROVE FALSE
    OBVIOUS
  <2>2. n - 1 \in Bounds
    BY <2>1
  <2> QED BY <2>2, <1>4
<1> QED BY <1>3, <1>5, <1>6 DEF Newest

-----------------------------------------------------------------------------
(* The store: types, and what makes them inductive                         *)

StoreTypeOK ==
  /\ row \in [Ids -> Row]
  /\ history \subseteq Recorded
  /\ now \in Nat
  /\ locale \in [Users -> Locales]
  /\ token \in [Sessions -> Tokens]
  /\ req \in [Sessions -> Request]

\* A row that exists has a text and a stamp, and no stamp is ahead of the clock.
RowsOK ==
  \A i \in Ids :
    /\ row[i].stamp <= now
    /\ row[i].status # "absent" => row[i].text \in Texts /\ row[i].stamp >= 1

\* A request in flight names rows that exist and holds what its next steps need.
RequestOK(s) ==
  req[s].pc # "idle" =>
    /\ req[s].op \in Ops /\ req[s].id \in Ids
    /\ req[s].op \in {"create", "update", "decide", "revert"} => req[s].text \in Texts
    /\ req[s].op # "create" => row[req[s].id].status # "absent"
    /\ req[s].op = "merge" => req[s].other \in Ids /\ row[req[s].other].status # "absent"
    /\ req[s].pc = "dropped" => req[s].op = "merge"
    /\ req[s].pc \in {"found", "ready", "dropped"} /\ req[s].op # "create" => req[s].old.text \in Texts

StoreInv == StoreTypeOK /\ RowsOK /\ \A s \in Sessions : RequestOK(s)

\* The token is a token: two of its parts are stamps, the third a locale.
LEMMA SyncTokenType ==
  ASSUME StoreTypeOK, RowsOK, NEW u \in Users
  PROVE  /\ SyncToken(u) \in Tokens
         /\ SyncToken(u).own \in 0..now /\ SyncToken(u).team \in 0..now
         /\ SyncToken(u).locale = locale[u]
         /\ \A i \in Active : /\ Owner[i] = u => row[i].stamp <= SyncToken(u).own
                              /\ Shared(i) => row[i].stamp <= SyncToken(u).team
<1> DEFINE Own == {i \in Active : Owner[i] = u}
           Team == {i \in Active : Kind[i] = "team_standard"}
<1>1. now \in Nat /\ \A i \in Ids : row[i].stamp \in Nat /\ row[i].stamp <= now
  BY DEF StoreTypeOK, RowsOK, Row
<1>2. Own \subseteq Ids /\ Team \subseteq Ids
  BY DEF Active
<1>3. /\ Newest(Own) \in 0..now
      /\ \A i \in Own : row[i].stamp <= Newest(Own)
  BY <1>1, <1>2, NewestBounds
<1>4. /\ Newest(Team) \in 0..now
      /\ \A i \in Team : row[i].stamp <= Newest(Team)
  BY <1>1, <1>2, NewestBounds
<1>5. locale[u] \in Locales
  BY DEF StoreTypeOK
<1>6. SyncToken(u) = [own |-> Newest(Own), team |-> Newest(Team), locale |-> locale[u]]
  BY DEF SyncToken
<1> HIDE DEF Own, Team
<1>7. Newest(Own) \in Nat /\ Newest(Team) \in Nat
  BY <1>1, <1>3, <1>4
<1>8. SyncToken(u) \in Tokens
  BY <1>5, <1>6, <1>7 DEF Tokens
<1>9. \A i \in Active : /\ Owner[i] = u => row[i].stamp <= Newest(Own)
                        /\ Shared(i) => row[i].stamp <= Newest(Team)
  BY <1>3, <1>4 DEF Own, Team, Shared
<1> QED BY <1>3, <1>4, <1>6, <1>8, <1>9

LEMMA StoreInitInv == ASSUME StoreInit PROVE StoreInv
<1> USE StoreConstants DEF StoreInit
<1>1. FirstText \in Texts
  BY DEF FirstText
<1>2. NoRow \in Row
  BY DEF NoRow, Row, Statuses
<1>3. row \in [Ids -> Row]
  BY <1>1, <1>2 DEF NoRow, Row, Statuses
<1>4. history \subseteq Recorded
  BY <1>1 DEF Recorded
<1>5. token \in [Sessions -> Tokens]
  BY DEF Tokens
<1>6. Idle \in Request
  BY <1>2 DEF Idle, Request, Steps
<1>7. req \in [Sessions -> Request] /\ \A s \in Sessions : req[s].pc = "idle"
  BY <1>6 DEF Idle
<1>8. RowsOK
  BY <1>1 DEF RowsOK, NoRow
<1> QED BY <1>3, <1>4, <1>5, <1>7, <1>8 DEF StoreInv, StoreTypeOK, RequestOK

\* No row ever disappears.
RowsStay == \A i \in Ids : row[i].status # "absent" => row'[i].status # "absent"

\* A step of one session leaves the requests of the others as good as they were.
LEMMA OthersStayOK ==
  ASSUME StoreInv, RowsStay, NEW s \in Sessions,
         \A r \in Sessions \ {s} : req'[r] = req[r], RequestOK(s)'
  PROVE  \A r \in Sessions : RequestOK(r)'
<1> SUFFICES ASSUME NEW r \in Sessions, r # s PROVE RequestOK(r)'
  OBVIOUS
<1>1. RequestOK(r) /\ req'[r] = req[r]
  BY DEF StoreInv
<1> QED BY <1>1 DEF RequestOK, RowsStay

\* Answering ends a request and touches no table.
LEMMA AnswerInv ==
  ASSUME StoreInv, NEW s \in Sessions, Answer(s),
         row' = row, now' = now, locale' = locale,
         history' \subseteq Recorded, token' \in [Sessions -> Tokens]
  PROVE  StoreInv'
<1> USE DEF StoreInv, StoreTypeOK
<1>1. Idle \in Request
  BY DEF Idle, Request, NoRow, Row, Statuses, Steps
<1>2. req' \in [Sessions -> Request] /\ RequestOK(s)'
  BY <1>1 DEF Answer, Idle, RequestOK
<1>3. RowsStay
  BY DEF RowsStay
<1>4. \A r \in Sessions : RequestOK(r)'
  BY <1>2, <1>3, OthersStayOK DEF Answer
<1>5. RowsOK'
  BY DEF RowsOK
<1> QED BY <1>2, <1>4, <1>5

\* A write of one row keeps everything when what it writes is a row with a text.
LEMMA PutInv ==
  ASSUME StoreInv, NEW s \in Sessions, req[s].pc # "idle", NEW i \in Ids,
         NEW r \in Row, r.status # "absent", r.text \in Texts,
         NEW saved \in SUBSET Recorded, Put(s, i, r, saved)
  PROVE  StoreInv'
<1> USE DEF StoreInv, StoreTypeOK
<1> DEFINE new == [r EXCEPT !.stamp = now + 1]
<1>1. new \in Row /\ new.stamp = now + 1 /\ new.status = r.status /\ new.text = r.text
  BY DEF Row
<1>2. row' = [row EXCEPT ![i] = new] /\ now' = now + 1
  BY DEF Put
<1> HIDE DEF new
<1>3. row' \in [Ids -> Row]
  BY <1>1, <1>2
<1>4. RowsStay
  BY <1>1, <1>2 DEF RowsStay
<1>5. RowsOK'
  BY <1>1, <1>2 DEF RowsOK, Row
<1>6. req' \in [Sessions -> Request]
  <2>1. [req[s] EXCEPT !.pc = "written", !.saved = saved] \in Request
    BY DEF Request, Steps
  <2>2. req' = [req EXCEPT ![s] = [req[s] EXCEPT !.pc = "written", !.saved = saved]]
    BY DEF Put
  <2> QED BY <2>1, <2>2
<1>7. RequestOK(s)'
  BY <1>4 DEF Put, RequestOK, RowsStay
<1>8. \A x \in Sessions : RequestOK(x)'
  BY <1>4, <1>7, OthersStayOK DEF Put
<1> QED BY <1>2, <1>3, <1>5, <1>6, <1>8 DEF Put

\* A read keeps everything: of the tables it changes nothing, of the request the fields named.
LEMMA ReadInv ==
  ASSUME StoreInv, NEW s \in Sessions, NEW q \in Request,
         req' = [req EXCEPT ![s] = q], RequestOK(s)',
         UNCHANGED <<row, history, now, locale, token>>
  PROVE  StoreInv'
<1> USE DEF StoreInv, StoreTypeOK
<1>1. RowsStay /\ RowsOK'
  BY DEF RowsStay, RowsOK
<1>2. \A r \in Sessions : RequestOK(r)'
  BY <1>1, OthersStayOK
<1> QED BY <1>1, <1>2

LEMMA BeginInv == ASSUME StoreInv, NEW s \in Sessions, Begin(s) PROVE StoreInv'
<1>1. PICK op \in Ops, i \in Ids, j \in Ids \cup {None}, t \in Texts \cup {None} :
        /\ Sensible(s, op, i, j, t)
        /\ op = "revert" \/ token[s] = SyncToken(UserOf[s])
        /\ req' = [req EXCEPT ![s] = Sent(op, i, j, t)]
  BY Zenon DEF Begin
<1> DEFINE p == IF op = "create" THEN "ready" ELSE "checked"
           q == [op |-> op, id |-> i, other |-> j, text |-> t, pc |-> p, old |-> NoRow, saved |-> {}]
<1>2. p \in Steps /\ p # "dropped" /\ p # "found" /\ (p = "ready" => op = "create")
  BY DEF Steps
<1>3. req' = [req EXCEPT ![s] = q]
  <2>1. Sent(op, i, j, t) = q
    BY DEF Sent
  <2> QED BY <1>1, <2>1
<1> HIDE DEF p
<1>4. NoRow \in Row
  BY DEF NoRow, Row, Statuses
<1>5. q \in Request
  BY <1>2, <1>4 DEF Request
<1>6. op \in {"create", "update", "decide", "revert"} => t \in Texts
  BY <1>1 DEF Sensible, StoreInv, StoreTypeOK, Recorded, Ops
<1>7. /\ op # "create" => row[i].status # "absent"
      /\ op = "merge" => j \in Ids /\ row[j].status # "absent"
  BY <1>1 DEF Sensible
<1>8. req'[s] = q /\ row' = row
  BY <1>3 DEF StoreInv, StoreTypeOK, Begin
<1>9. RequestOK(s)'
  BY <1>2, <1>6, <1>7, <1>8 DEF RequestOK
<1> QED BY <1>3, <1>5, <1>9, ReadInv DEF Begin

LEMMA RefreshInv == ASSUME StoreInv, NEW s \in Sessions, RefreshSyncToken(s) PROVE StoreInv'
<1>1. SyncToken(UserOf[s]) \in Tokens
  BY StoreConstants, SyncTokenType DEF StoreInv
<1>2. token' \in [Sessions -> Tokens]
  BY <1>1 DEF RefreshSyncToken, StoreInv, StoreTypeOK
<1>3. UNCHANGED <<row, history, now, locale, req>>
  BY DEF RefreshSyncToken
<1> QED BY <1>2, <1>3 DEF StoreInv, StoreTypeOK, RowsOK, RequestOK

LEMMA ReadsInv ==
  ASSUME StoreInv, NEW s \in Sessions, ReadRow(s) \/ ReadDropped(s) \/ ReadContent(s)
  PROVE  StoreInv'
<1> USE DEF StoreInv, StoreTypeOK
<1>1. req[s] \in Request /\ RequestOK(s)
  OBVIOUS
<1>2. ASSUME Answer(s), UNCHANGED <<row, history, now, locale, token>> PROVE StoreInv'
  BY <1>2, AnswerInv
<1>3. ASSUME NEW o \in Row, NEW p \in {"found", "ready"},
             req[s].pc # "idle", req[s].op # "create", o.text \in Texts,
             req' = [req EXCEPT ![s] = [req[s] EXCEPT !.old = o, !.pc = p]],
             UNCHANGED <<row, history, now, locale, token>>
      PROVE  StoreInv'
  <2>1. [req[s] EXCEPT !.old = o, !.pc = p] \in Request
    BY <1>1 DEF Request, Steps
  <2>2. RequestOK(s)'
    BY <1>1, <1>3 DEF RequestOK, Request
  <2> QED BY <1>3, <2>1, <2>2, ReadInv
<1>4. CASE ReadRow(s)
  <2>1. CASE Allowed(req[s].op, row[req[s].id], req[s].id)
    <3> DEFINE p == IF req[s].op \in {"merge", "decide"} THEN "found" ELSE "ready"
    <3>1. req[s].pc = "checked" /\ p \in {"found", "ready"}
      BY <1>4 DEF ReadRow
    <3>2. req' = [req EXCEPT ![s] = [req[s] EXCEPT !.old = row[req[s].id], !.pc = p]]
      BY <1>4, <2>1 DEF ReadRow
    <3> HIDE DEF p
    <3>3. CASE req[s].op = "create"
      <4>1. [req[s] EXCEPT !.old = row[req[s].id], !.pc = p] \in Request
        BY <1>1, <3>1 DEF Request, Steps, RequestOK
      <4>2. RequestOK(s)'
        BY <1>1, <1>4, <3>1, <3>2, <3>3 DEF RequestOK, Request, ReadRow
      <4> QED BY <1>4, <3>2, <4>1, <4>2, ReadInv DEF ReadRow
    <3>4. CASE req[s].op # "create"
      <4>1. row[req[s].id] \in Row /\ row[req[s].id].text \in Texts
        BY <1>1, <3>1, <3>4 DEF RequestOK, RowsOK
      <4> QED BY <1>3, <1>4, <3>1, <3>2, <3>4, <4>1 DEF ReadRow
    <3> QED BY <3>3, <3>4
  <2>2. CASE ~Allowed(req[s].op, row[req[s].id], req[s].id)
    BY <1>2, <1>4, <2>2 DEF ReadRow
  <2> QED BY <2>1, <2>2
<1>5. CASE ReadDropped(s)
  <2>1. CASE Answer(s)
    BY <1>2, <1>5, <2>1 DEF ReadDropped
  <2>2. CASE req' = [req EXCEPT ![s].pc = "ready"]
    <3>1. req' = [req EXCEPT ![s] = [req[s] EXCEPT !.old = req[s].old, !.pc = "ready"]]
      BY <1>1, <2>2 DEF Request
    <3>2. req[s].old \in Row /\ req[s].old.text \in Texts
      BY <1>1, <1>5 DEF ReadDropped, RequestOK, Request
    <3> QED BY <1>3, <1>5, <3>1, <3>2 DEF ReadDropped
  <2> QED BY <1>5, <2>1, <2>2 DEF ReadDropped
<1>6. CASE ReadContent(s)
  <2>1. row[req[s].id] \in Row /\ row[req[s].id].text \in Texts
    BY <1>1, <1>6 DEF RequestOK, RowsOK, ReadContent
  <2>2. req' = [req EXCEPT ![s] = [req[s] EXCEPT !.old = row[req[s].id], !.pc = "ready"]]
    BY <1>6 DEF ReadContent
  <2> QED BY <1>3, <1>6, <2>1, <2>2 DEF ReadContent
<1> QED BY <1>4, <1>5, <1>6

\* The row a request names, when it is not the one it creates.
LEMMA NamedRow ==
  ASSUME StoreInv, NEW s \in Sessions, req[s].pc # "idle", req[s].op # "create"
  PROVE  /\ req[s].id \in Ids /\ row[req[s].id] \in Row
         /\ row[req[s].id].status # "absent" /\ row[req[s].id].text \in Texts
         /\ <<req[s].id, row[req[s].id].text>> \in Recorded
BY DEF StoreInv, StoreTypeOK, RowsOK, RequestOK, Recorded

\* A handler that only changes the status of the row it names.
LEMMA StatusInv ==
  ASSUME StoreInv, NEW s \in Sessions, req[s].pc = "ready", req[s].op # "create",
         NEW st \in Statuses \ {"absent"}, NEW to \in {None, row[req[s].id].into},
         Put(s, req[s].id, [row[req[s].id] EXCEPT !.status = st, !.into = to],
             {<<req[s].id, row[req[s].id].text>>})
  PROVE  StoreInv'
<1> DEFINE i == req[s].id
           r == [row[i] EXCEPT !.status = st, !.into = to]
<1>1. /\ i \in Ids /\ row[i] \in Row /\ row[i].text \in Texts
      /\ <<i, row[i].text>> \in Recorded
  BY NamedRow
<1>2. r \in Row /\ r.status # "absent" /\ r.text \in Texts
  BY <1>1 DEF Row
<1>3. Put(s, i, r, {<<i, row[i].text>>})
  OBVIOUS
<1> HIDE DEF i, r
<1> QED BY <1>1, <1>2, <1>3, PutInv

LEMMA StatusWritesInv ==
  ASSUME StoreInv, NEW s \in Sessions,
         Disable(s) \/ Enable(s) \/ Archive(s) \/ Restore(s)
  PROVE  StoreInv'
<1> DEFINE i == req[s].id
<1>1. req[s].pc = "ready" /\ req[s].op # "create"
  BY DEF Disable, Enable, Archive, Restore
<1>2. row[i] \in Row
  BY <1>1, NamedRow
<1>3. ASSUME NEW st \in Statuses
      PROVE  [row[i] EXCEPT !.status = st] = [row[i] EXCEPT !.status = st, !.into = row[i].into]
  BY <1>2 DEF Row
<1>4. {"disabled", "active", "archived"} \subseteq Statuses \ {"absent"}
  BY DEF Statuses
<1>5. CASE Disable(s)
  <2>1. Put(s, i, [row[i] EXCEPT !.status = "disabled", !.into = None], {<<i, row[i].text>>})
    BY <1>5 DEF Disable
  <2> QED BY <1>1, <1>4, <2>1, StatusInv
<1>6. CASE Enable(s)
  <2>1. Put(s, i, [row[i] EXCEPT !.status = "active", !.into = None], {<<i, row[i].text>>})
    BY <1>6 DEF Enable
  <2> QED BY <1>1, <1>4, <2>1, StatusInv
<1>7. ASSUME Lost(s) PROVE StoreInv'
  BY <1>7, AnswerInv DEF Lost, StoreInv, StoreTypeOK
<1>8. CASE Archive(s)
  <2>1. CASE row[i].status = "active"
    <3>1. Put(s, i, [row[i] EXCEPT !.status = "archived"], {<<i, row[i].text>>})
      BY <1>8, <2>1 DEF Archive
    <3>2. Put(s, i, [row[i] EXCEPT !.status = "archived", !.into = row[i].into], {<<i, row[i].text>>})
      BY <1>3, <1>4, <3>1
    <3> QED BY <1>1, <1>4, <3>2, StatusInv
  <2> QED BY <1>7, <1>8, <2>1 DEF Archive
<1>9. CASE Restore(s)
  <2>1. CASE row[i].status = "archived"
    <3>1. Put(s, i, [row[i] EXCEPT !.status = "active"], {<<i, row[i].text>>})
      BY <1>9, <2>1 DEF Restore
    <3>2. Put(s, i, [row[i] EXCEPT !.status = "active", !.into = row[i].into], {<<i, row[i].text>>})
      BY <1>3, <1>4, <3>1
    <3> QED BY <1>1, <1>4, <3>2, StatusInv
  <2> QED BY <1>7, <1>9, <2>1 DEF Restore
<1> QED BY <1>5, <1>6, <1>8, <1>9

LEMMA TextWritesInv ==
  ASSUME StoreInv, NEW s \in Sessions,
         Create(s) \/ Update(s) \/ Decide(s) \/ Revert(s)
  PROVE  StoreInv'
<1> DEFINE i == req[s].id
           t == req[s].text
           old == req[s].old
<1>1. req[s].pc = "ready" /\ req[s].op \in {"create", "update", "decide", "revert"}
  BY DEF Create, Update, Decide, Revert
<1>2. i \in Ids /\ t \in Texts /\ (req[s].op # "create" => old.text \in Texts)
  BY <1>1 DEF StoreInv, RequestOK
<1>3. row[i] \in Row /\ (req[s].op # "create" => row[i].status # "absent" /\ row[i].text \in Texts)
  BY <1>1, <1>2, NamedRow DEF StoreInv, StoreTypeOK
<1>4. CASE Create(s)
  <2> DEFINE r == [NoRow EXCEPT !.status = "active", !.text = t]
  <2>1. r \in Row /\ r.status # "absent" /\ r.text \in Texts
    BY <1>2 DEF NoRow, Row, Statuses
  <2>2. {<<i, t>>} \subseteq Recorded
    BY <1>2 DEF Recorded
  <2>3. Put(s, i, r, {<<i, t>>})
    BY <1>4 DEF Create
  <2> HIDE DEF r, i, t
  <2> QED BY <1>1, <1>2, <2>1, <2>2, <2>3, PutInv
<1>5. CASE Update(s)
  <2> DEFINE pr == IF Kind[i] = "iron_rule" /\ t # old.text THEN row[i].text ELSE row[i].previous
             r == [row[i] EXCEPT !.text = t, !.previous = pr]
  <2>1. req[s].op # "create"
    BY <1>5 DEF Update
  <2>2. pr \in Texts \cup {None}
    BY <1>3, <2>1 DEF Row
  <2>3. Put(s, i, r, {<<i, old.text>>})
    BY <1>5 DEF Update
  <2> HIDE DEF pr, i, t, old
  <2>4. r \in Row /\ r.status # "absent" /\ r.text \in Texts
    BY <1>2, <1>3, <2>1, <2>2 DEF Row
  <2>5. {<<i, old.text>>} \subseteq Recorded
    BY <1>2, <2>1 DEF Recorded
  <2> HIDE DEF r
  <2> QED BY <1>1, <1>2, <2>3, <2>4, <2>5, PutInv
<1>6. CASE Decide(s)
  <2> DEFINE r == [row[i] EXCEPT !.text = t, !.previous = old.text]
  <2>1. req[s].op # "create" /\ Put(s, i, r, {<<i, old.text>>})
    BY <1>6 DEF Decide
  <2> HIDE DEF i, t, old
  <2>2. r \in Row /\ r.status # "absent" /\ r.text \in Texts
    BY <1>2, <1>3, <2>1 DEF Row
  <2>3. {<<i, old.text>>} \subseteq Recorded
    BY <1>2, <2>1 DEF Recorded
  <2> HIDE DEF r
  <2> QED BY <1>1, <1>2, <2>1, <2>2, <2>3, PutInv
<1>7. CASE Revert(s)
  <2> DEFINE r == [row[i] EXCEPT !.text = t]
  <2>1. req[s].op # "create" /\ Put(s, i, r, {<<i, t>>})
    BY <1>7 DEF Revert
  <2> HIDE DEF i, t
  <2>2. r \in Row /\ r.status # "absent" /\ r.text \in Texts
    BY <1>2, <1>3, <2>1 DEF Row
  <2>3. {<<i, t>>} \subseteq Recorded
    BY <1>2 DEF Recorded
  <2> HIDE DEF r
  <2> QED BY <1>1, <1>2, <2>1, <2>2, <2>3, PutInv
<1> QED BY <1>4, <1>5, <1>6, <1>7

LEMMA MergeInv ==
  ASSUME StoreInv, NEW s \in Sessions, DropMerged(s) \/ TouchKept(s)
  PROVE  StoreInv'
<1> USE DEF StoreInv, StoreTypeOK
<1>1. req[s].pc # "idle" /\ req[s].op = "merge"
  BY DEF DropMerged, TouchKept, RequestOK
<1>2. /\ req[s].id \in Ids /\ row[req[s].id] \in Row
      /\ row[req[s].id].status # "absent" /\ row[req[s].id].text \in Texts
      /\ <<req[s].id, row[req[s].id].text>> \in Recorded
  BY <1>1, NamedRow
<1>3. CASE TouchKept(s)
  <2>1. req[s].saved \cup {<<req[s].id, row[req[s].id].text>>} \in SUBSET Recorded
    BY <1>2 DEF Request
  <2> QED BY <1>1, <1>2, <1>3, <2>1, PutInv DEF TouchKept
<1>4. CASE DropMerged(s) /\ Lost(s)
  BY <1>4, AnswerInv DEF Lost
<1>5. CASE DropMerged(s) /\ ~Lost(s)
  <2> DEFINE j == req[s].other
             r == [row[j] EXCEPT !.status = "disabled", !.into = req[s].id, !.stamp = now + 1]
             saved == {<<j, row[j].text>>}
  <2>1. j \in Ids /\ row[j] \in Row /\ row[j].status = "active" /\ row[j].text \in Texts
    BY <1>1, <1>5 DEF DropMerged, RequestOK, RowsOK
  <2>2. /\ row' = [row EXCEPT ![j] = r] /\ now' = now + 1
        /\ req' = [req EXCEPT ![s] = [req[s] EXCEPT !.pc = "dropped", !.saved = saved]]
        /\ UNCHANGED <<history, locale, token>>
    BY <1>5 DEF DropMerged
  <2> HIDE DEF j
  <2>3. /\ r \in Row /\ r.stamp = now + 1 /\ r.status = "disabled" /\ r.text = row[j].text
    <3>1. PICK o \in Row : o = row[j]
      BY <2>1
    <3>2. PICK k \in Ids : k = req[s].id
      BY <1>2
    <3>3. PICK n \in Nat : n = now + 1
      OBVIOUS
    <3>4. r = [o EXCEPT !.status = "disabled", !.into = k, !.stamp = n]
      BY <3>1, <3>2, <3>3
    <3> HIDE DEF r
    <3> QED BY <3>1, <3>3, <3>4 DEF Row, Statuses
  <2>4. saved \in SUBSET Recorded
    BY <2>1 DEF Recorded
  <2> HIDE DEF r, saved
  <2>5. row' \in [Ids -> Row] /\ RowsStay
    BY <2>1, <2>2, <2>3 DEF RowsStay
  <2>6. RowsOK'
    BY <2>1, <2>2, <2>3 DEF RowsOK, Row
  <2>7. [req[s] EXCEPT !.pc = "dropped", !.saved = saved] \in Request
    BY <2>4 DEF Request, Steps
  <2>8. req' \in [Sessions -> Request]
    BY <2>2, <2>7
  <2>9. req[s].pc = "ready"
    BY <1>1, <1>5 DEF DropMerged
  <2>10. RequestOK(s)'
    BY <1>1, <2>2, <2>5, <2>9 DEF RequestOK, RowsStay, Request
  <2>11. \A x \in Sessions : RequestOK(x)'
    BY <2>2, <2>5, <2>10, OthersStayOK
  <2> QED BY <2>2, <2>5, <2>6, <2>8, <2>11
<1> QED BY <1>3, <1>4, <1>5

LEMMA RecordInv == ASSUME StoreInv, NEW s \in Sessions, Record(s) PROVE StoreInv'
<1> USE DEF StoreInv, StoreTypeOK
<1>1. history' \subseteq Recorded
  BY DEF Record, Request
<1>2. SyncToken(UserOf[s]) \in Tokens
  BY StoreConstants, SyncTokenType
<1>3. token' \in [Sessions -> Tokens]
  BY <1>2 DEF Record
<1> QED BY <1>1, <1>3, AnswerInv DEF Record

LEMMA SetLocaleInv == ASSUME StoreInv, NEW s \in Sessions, SetLocale(s) PROVE StoreInv'
<1> USE DEF StoreInv, StoreTypeOK
<1> DEFINE u == UserOf[s]
<1>1. PICK l \in Locales : /\ locale' = [locale EXCEPT ![u] = l]
                           /\ token' = [token EXCEPT ![s] = [SyncToken(u) EXCEPT !.locale = l]]
  BY DEF SetLocale
<1>2. u \in Users /\ SyncToken(u) \in Tokens
  BY StoreConstants, SyncTokenType
<1>3. locale' \in [Users -> Locales] /\ token' \in [Sessions -> Tokens]
  BY <1>1, <1>2 DEF Tokens
<1>4. row' = row /\ history' = history /\ req' = req /\ now' = now + 1
  BY DEF SetLocale
<1> QED BY <1>3, <1>4 DEF RowsOK, RequestOK, Row

\* Every step of the store keeps its invariant.
LEMMA StoreNextInv == ASSUME StoreInv, StoreNext \/ UNCHANGED storeVars PROVE StoreInv'
<1>1. CASE UNCHANGED storeVars
  BY <1>1 DEF StoreInv, StoreTypeOK, RowsOK, RequestOK, storeVars
<1>2. CASE StoreNext
  <2>1. PICK s \in Sessions : Begin(s) \/ RefreshSyncToken(s) \/ Handle(s) \/ Fail(s) \/ SetLocale(s)
    BY <1>2 DEF StoreNext
  <2>2. CASE Fail(s)
    BY <2>2, AnswerInv DEF Fail, StoreInv, StoreTypeOK
  <2> QED BY <2>1, <2>2, BeginInv, RefreshInv, ReadsInv, StatusWritesInv, TextWritesInv,
             MergeInv, RecordInv, SetLocaleInv DEF Handle
<1> QED BY <1>1, <1>2

-----------------------------------------------------------------------------
(* The caches                                                              *)

CacheTypeOK == cache \in [Machines -> Cache] /\ sync \in [Machines -> Sync]

\* What a machine is served is a copy of some of the memories.
LEMMA ServedCopy ==
  ASSUME StoreInv, NEW u \in Users
  PROVE  [i \in Served(u) |-> row[i].text] \in Copies
<1>1. Served(u) \in SUBSET Ids /\ \A i \in Served(u) : row[i].text \in Texts \cup {None}
  BY DEF Served, Active, StoreInv, StoreTypeOK, Row
<1>2. [i \in Served(u) |-> row[i].text] \in [Served(u) -> Texts \cup {None}]
  BY <1>1
<1> QED BY <1>1, <1>2 DEF Copies

IInv == StoreInv /\ CacheTypeOK

LEMMA Invariant == Spec => []IInv
<1>1. Init => IInv
  <2> SUFFICES ASSUME Init PROVE IInv
    OBVIOUS
  <2>1. StoreInv
    BY StoreInitInv DEF Init
  <2>2. NoCopy \in Copies
    <3>1. NoCopy \in [{} -> Texts \cup {None}]
      BY DEF NoCopy
    <3> QED BY <3>1 DEF Copies
  <2>3. CacheTypeOK
    BY <2>2 DEF Init, CacheTypeOK, Cache, Sync, Off, NoToken
  <2> QED BY <2>1, <2>3 DEF IInv
<1>2. IInv /\ [Next]_vars => IInv'
  <2> SUFFICES ASSUME IInv, [Next]_vars PROVE IInv'
    OBVIOUS
  <2> USE DEF IInv
  <2>1. StoreInv'
    BY StoreNextInv DEF Next, Write, StartSession, Download, CompareToken, ReadMemories,
       StampToken, WriteCache, SyncFails, Age, vars
  <2>2. NoCopy \in Copies
    <3>1. NoCopy \in [{} -> Texts \cup {None}]
      BY DEF NoCopy
    <3> QED BY <3>1 DEF Copies
  <2>3. ASSUME NEW m \in Machines PROVE cache[m] \in Cache /\ sync[m] \in Sync /\ AccountOf[m] \in Users
    BY MachineConstants DEF CacheTypeOK
  <2>4. ASSUME Write \/ UNCHANGED vars PROVE CacheTypeOK'
    BY <2>4 DEF Write, vars, CacheTypeOK
  <2>5. ASSUME NEW m \in Machines, StartSession(m) PROVE CacheTypeOK'
    BY <2>3, <2>5 DEF StartSession, CacheTypeOK, Sync
  <2>6. ASSUME NEW m \in Machines, CompareToken(m) PROVE CacheTypeOK'
    BY <2>2, <2>3, <2>6 DEF CompareToken, CacheTypeOK, Sync, Off
  <2>7. ASSUME NEW m \in Machines, ReadMemories(m) PROVE CacheTypeOK'
    <3> DEFINE c == [i \in Served(AccountOf[m]) |-> row[i].text]
    <3>1. c \in Copies
      BY <2>3, ServedCopy
    <3>2. /\ sync' = [sync EXCEPT ![m] = [sync[m] EXCEPT !.pc = "stamping", !.rows = c]]
          /\ cache' = cache
      BY <2>7 DEF ReadMemories
    <3> HIDE DEF c
    <3>3. [sync[m] EXCEPT !.pc = "stamping", !.rows = c] \in Sync
      BY <2>3, <3>1 DEF Sync
    <3> QED BY <3>2, <3>3 DEF CacheTypeOK
  <2>8. ASSUME NEW m \in Machines, StampToken(m) PROVE CacheTypeOK'
    <3>1. SyncToken(AccountOf[m]) \in Tokens
      BY <2>3, SyncTokenType DEF StoreInv
    <3>2. [sync[m] EXCEPT !.pc = "answering", !.token = SyncToken(AccountOf[m])] \in Sync
      BY <2>3, <3>1 DEF Sync
    <3> QED BY <2>8, <3>2 DEF StampToken, CacheTypeOK
  <2>9. ASSUME NEW m \in Machines, WriteCache(m) PROVE CacheTypeOK'
    <3>1. locale[AccountOf[m]] \in Locales
      BY <2>3 DEF StoreInv, StoreTypeOK
    <3>2. [token |-> sync[m].token, rows |-> sync[m].rows,
           locale |-> locale[AccountOf[m]], aged |-> FALSE] \in Cache
      BY <2>3, <3>1 DEF Sync, Cache
    <3>3. Off \in Sync
      BY <2>2 DEF Off, Sync
    <3> QED BY <2>9, <3>2, <3>3 DEF WriteCache, CacheTypeOK
  <2>10. ASSUME NEW m \in Machines, SyncFails(m) PROVE CacheTypeOK'
    BY <2>2, <2>3, <2>10 DEF SyncFails, CacheTypeOK, Sync, Off
  <2>11. ASSUME NEW m \in Machines, Age(m) PROVE CacheTypeOK'
    BY <2>3, <2>11 DEF Age, CacheTypeOK, Cache
  <2>12. CacheTypeOK'
    BY <2>4, <2>5, <2>6, <2>7, <2>8, <2>9, <2>10, <2>11 DEF Next, Download
  <2> QED BY <2>1, <2>12
<1> QED BY <1>1, <1>2, PTL DEF Spec

\* Every table, request and cache file holds what it may hold.
THEOREM TypeCorrect == Spec => []TypeOK
<1>1. IInv => TypeOK
  BY DEF IInv, StoreInv, StoreTypeOK, CacheTypeOK, TypeOK
<1> QED BY <1>1, Invariant, PTL

-----------------------------------------------------------------------------
(* What one step does to the table                                         *)

\* A step writes nothing, or sets a locale, or gives one row the next stamp.
RowStep ==
  \/ row' = row /\ now' = now /\ locale' = locale
  \/ row' = row /\ now' = now + 1
  \/ /\ now' = now + 1 /\ locale' = locale
     /\ \E i \in Ids, r \in Row :
          /\ row' = [row EXCEPT ![i] = r]
          /\ r.stamp = now + 1
          /\ r.status = "archived" => row[i].status \in {"active", "archived"}

LEMMA PutStep ==
  ASSUME StoreInv, NEW s \in Sessions, NEW i \in Ids, NEW r \in Row, NEW saved,
         Put(s, i, r, saved),
         r.status = "archived" => row[i].status \in {"active", "archived"}
  PROVE  RowStep
<1> DEFINE new == [r EXCEPT !.stamp = now + 1]
<1>1. new \in Row /\ new.stamp = now + 1 /\ new.status = r.status
  BY DEF Row, StoreInv, StoreTypeOK
<1>2. row' = [row EXCEPT ![i] = new] /\ now' = now + 1 /\ locale' = locale
  BY DEF Put
<1> HIDE DEF new
<1> QED BY <1>1, <1>2 DEF RowStep

\* A new status for the row a request names.
LEMMA StatusStep ==
  ASSUME StoreInv, NEW s \in Sessions, req[s].pc = "ready", req[s].op # "create",
         NEW st \in Statuses, NEW to \in {None, row[req[s].id].into}, NEW saved,
         Put(s, req[s].id, [row[req[s].id] EXCEPT !.status = st, !.into = to], saved),
         st = "archived" => row[req[s].id].status \in {"active", "archived"}
  PROVE  RowStep
<1> DEFINE i == req[s].id
           r == [row[i] EXCEPT !.status = st, !.into = to]
<1>1. i \in Ids /\ row[i] \in Row
  BY NamedRow
<1>2. r \in Row /\ r.status = st
  BY <1>1 DEF Row
<1>3. Put(s, i, r, saved)
  OBVIOUS
<1>4. r.status = "archived" => row[i].status \in {"active", "archived"}
  BY <1>2
<1> HIDE DEF i, r
<1> QED BY <1>1, <1>2, <1>3, <1>4, PutStep

LEMMA StatusWritesStep ==
  ASSUME StoreInv, NEW s \in Sessions,
         Disable(s) \/ Enable(s) \/ Archive(s) \/ Restore(s)
  PROVE  RowStep
<1> DEFINE i == req[s].id
           saved == {<<i, row[i].text>>}
<1>1. req[s].pc = "ready" /\ req[s].op # "create"
  BY DEF Disable, Enable, Archive, Restore
<1>2. row[i] \in Row
  BY <1>1, NamedRow
<1>3. ASSUME NEW st \in Statuses
      PROVE  [row[i] EXCEPT !.status = st] = [row[i] EXCEPT !.status = st, !.into = row[i].into]
  BY <1>2 DEF Row
<1>4. {"disabled", "active", "archived"} \subseteq Statuses
  BY DEF Statuses
<1>5. CASE Disable(s)
  <2>1. Put(s, i, [row[i] EXCEPT !.status = "disabled", !.into = None], saved)
    BY <1>5 DEF Disable
  <2> QED BY <1>1, <1>4, <2>1, StatusStep
<1>6. CASE Enable(s)
  <2>1. Put(s, i, [row[i] EXCEPT !.status = "active", !.into = None], saved)
    BY <1>6 DEF Enable
  <2> QED BY <1>1, <1>4, <2>1, StatusStep
<1>7. ASSUME Lost(s) PROVE RowStep
  BY <1>7 DEF Lost, RowStep
<1>8. CASE Archive(s)
  <2>1. CASE row[i].status = "active"
    <3>1. Put(s, i, [row[i] EXCEPT !.status = "archived"], saved)
      BY <1>8, <2>1 DEF Archive
    <3>2. Put(s, i, [row[i] EXCEPT !.status = "archived", !.into = row[i].into], saved)
      BY <1>3, <1>4, <3>1
    <3> QED BY <1>1, <1>4, <2>1, <3>2, StatusStep
  <2> QED BY <1>7, <1>8, <2>1 DEF Archive
<1>9. CASE Restore(s)
  <2>1. CASE row[i].status = "archived"
    <3>1. Put(s, i, [row[i] EXCEPT !.status = "active"], saved)
      BY <1>9, <2>1 DEF Restore
    <3>2. Put(s, i, [row[i] EXCEPT !.status = "active", !.into = row[i].into], saved)
      BY <1>3, <1>4, <3>1
    <3> QED BY <1>1, <1>4, <3>2, StatusStep
  <2> QED BY <1>7, <1>9, <2>1 DEF Restore
<1> QED BY <1>5, <1>6, <1>8, <1>9

LEMMA TextWritesStep ==
  ASSUME StoreInv, NEW s \in Sessions,
         Create(s) \/ Update(s) \/ Decide(s) \/ Revert(s)
  PROVE  RowStep
<1> DEFINE i == req[s].id
           t == req[s].text
           old == req[s].old
<1>1. req[s].pc = "ready" /\ req[s].op \in {"create", "update", "decide", "revert"}
  BY DEF Create, Update, Decide, Revert
<1>2. i \in Ids /\ t \in Texts /\ (req[s].op # "create" => old.text \in Texts)
  BY <1>1 DEF StoreInv, RequestOK
<1>3. row[i] \in Row /\ (row[i].status = "archived" => row[i].status \in {"active", "archived"})
  BY <1>2 DEF StoreInv, StoreTypeOK
<1>4. ASSUME NEW pr \in Texts \cup {None}, NEW saved,
             Put(s, i, [row[i] EXCEPT !.text = t, !.previous = pr], saved)
      PROVE  RowStep
  <2> DEFINE r == [row[i] EXCEPT !.text = t, !.previous = pr]
  <2> HIDE DEF i, t
  <2>1. r \in Row /\ r.status = row[i].status
    BY <1>2, <1>3 DEF Row
  <2>2. Put(s, i, r, saved)
    BY <1>4
  <2> HIDE DEF r
  <2> QED BY <1>2, <1>3, <2>1, <2>2, PutStep
<1>5. CASE Create(s)
  <2> DEFINE r == [NoRow EXCEPT !.status = "active", !.text = t]
  <2>1. r \in Row /\ r.status = "active"
    BY <1>2 DEF NoRow, Row, Statuses
  <2>2. Put(s, i, r, {<<i, t>>})
    BY <1>5 DEF Create
  <2> HIDE DEF r, i, t
  <2> QED BY <1>2, <2>1, <2>2, PutStep
<1>6. CASE Update(s)
  <2> DEFINE pr == IF Kind[i] = "iron_rule" /\ t # old.text THEN row[i].text ELSE row[i].previous
  <2>1. pr \in Texts \cup {None}
    BY <1>3 DEF Row
  <2>2. Put(s, i, [row[i] EXCEPT !.text = t, !.previous = pr], {<<i, old.text>>})
    BY <1>6 DEF Update
  <2> QED BY <1>4, <2>1, <2>2
<1>7. CASE Decide(s)
  <2>1. req[s].op # "create" /\ Put(s, i, [row[i] EXCEPT !.text = t, !.previous = old.text], {<<i, old.text>>})
    BY <1>7 DEF Decide
  <2> QED BY <1>2, <1>4, <2>1
<1>8. CASE Revert(s)
  <2>1. [row[i] EXCEPT !.text = t] = [row[i] EXCEPT !.text = t, !.previous = row[i].previous]
    BY <1>3 DEF Row
  <2>2. Put(s, i, [row[i] EXCEPT !.text = t], {<<i, t>>})
    BY <1>8 DEF Revert
  <2>3. row[i].previous \in Texts \cup {None}
    BY <1>3 DEF Row
  <2> QED BY <1>4, <2>1, <2>2, <2>3
<1> QED BY <1>5, <1>6, <1>7, <1>8

LEMMA MergeStep ==
  ASSUME StoreInv, NEW s \in Sessions, DropMerged(s) \/ TouchKept(s) PROVE RowStep
<1> USE DEF StoreInv, StoreTypeOK
<1>1. req[s].pc # "idle" /\ req[s].op = "merge"
  BY DEF DropMerged, TouchKept, RequestOK
<1>2. req[s].id \in Ids /\ row[req[s].id] \in Row
  BY <1>1, NamedRow
<1>3. CASE TouchKept(s)
  <2> DEFINE i == req[s].id
             saved == req[s].saved \cup {<<i, row[i].text>>}
  <2>1. Put(s, i, row[i], saved)
    BY <1>3 DEF TouchKept
  <2>2. row[i].status = "archived" => row[i].status \in {"active", "archived"}
    OBVIOUS
  <2> HIDE DEF i, saved
  <2>3. i \in Ids /\ row[i] \in Row
    BY <1>2 DEF i
  <2> QED BY <2>1, <2>2, <2>3, PutStep
<1>4. CASE DropMerged(s) /\ Lost(s)
  BY <1>4 DEF Lost, RowStep
<1>5. CASE DropMerged(s) /\ ~Lost(s)
  <2> DEFINE j == req[s].other
             r == [row[j] EXCEPT !.status = "disabled", !.into = req[s].id, !.stamp = now + 1]
  <2>1. j \in Ids /\ row[j] \in Row
    BY <1>1, <1>5 DEF DropMerged, RequestOK
  <2>2. row' = [row EXCEPT ![j] = r] /\ now' = now + 1 /\ locale' = locale
    BY <1>5 DEF DropMerged
  <2> HIDE DEF j
  <2>3. r \in Row /\ r.stamp = now + 1 /\ r.status = "disabled"
    <3>1. PICK o \in Row : o = row[j]
      BY <2>1
    <3>2. PICK k \in Ids : k = req[s].id
      BY <1>2
    <3>3. PICK n \in Nat : n = now + 1
      OBVIOUS
    <3>4. r = [o EXCEPT !.status = "disabled", !.into = k, !.stamp = n]
      BY <3>1, <3>2, <3>3
    <3> HIDE DEF r
    <3> QED BY <3>1, <3>3, <3>4 DEF Row, Statuses
  <2> HIDE DEF r
  <2> QED BY <2>1, <2>2, <2>3 DEF RowStep
<1> QED BY <1>3, <1>4, <1>5

LEMMA RowSteps == ASSUME StoreInv, StoreNext \/ UNCHANGED storeVars PROVE RowStep
<1>1. CASE UNCHANGED storeVars
  BY <1>1 DEF RowStep, storeVars
<1>2. CASE StoreNext
  <2>1. PICK s \in Sessions : Begin(s) \/ RefreshSyncToken(s) \/ Handle(s) \/ Fail(s) \/ SetLocale(s)
    BY <1>2 DEF StoreNext
  <2>2. CASE \/ Begin(s) \/ RefreshSyncToken(s) \/ Fail(s) \/ SetLocale(s)
             \/ ReadRow(s) \/ ReadDropped(s) \/ ReadContent(s) \/ Record(s)
    BY <2>2 DEF Begin, RefreshSyncToken, Fail, SetLocale, ReadRow, ReadDropped, ReadContent,
       Record, RowStep
  <2> QED BY <2>1, <2>2, StatusWritesStep, TextWritesStep, MergeStep DEF Handle
<1> QED BY <1>1, <1>2

\* Only an active memory is ever archived, whatever runs between reading it and writing it.
THEOREM ArchiveOnlyActiveHolds == Spec => ArchiveOnlyActive
<1>1. IInv /\ [Next]_vars =>
        [\A i \in Ids : row'[i].status = "archived" => row[i].status \in {"active", "archived"}]_vars
  <2> SUFFICES ASSUME IInv, [Next]_vars, NEW i \in Ids, row'[i].status = "archived"
               PROVE  row[i].status \in {"active", "archived"}
    OBVIOUS
  <2>1. StoreNext \/ UNCHANGED storeVars
    BY DEF Next, Write, StartSession, Download, CompareToken, ReadMemories,
       StampToken, WriteCache, SyncFails, Age, vars
  <2>2. RowStep /\ row \in [Ids -> Row]
    BY <2>1, RowSteps DEF IInv, StoreInv, StoreTypeOK
  <2> QED BY <2>2 DEF RowStep
<1> QED BY <1>1, Invariant, PTL DEF Spec, ArchiveOnlyActive

-----------------------------------------------------------------------------
(* A cache and the token it was downloaded with, when nothing overlaps     *)

\* What /init is reading on a machine is what the store serves: no write comes in between.
Mirrored(m) ==
  LET u == AccountOf[m] IN
  /\ sync[m].pc \in {"stamping", "answering"} => sync[m].rows = [i \in Served(u) |-> row[i].text]
  /\ sync[m].pc = "answering" => sync[m].token = SyncToken(u)

\* A served memory no newer than the cache's token is in the cache as it is.
Held(m, i) ==
  LET u == AccountOf[m]  t == cache[m].token IN
  (\/ Owner[i] = u /\ row[i].stamp <= t.own
   \/ Shared(i) /\ row[i].stamp <= t.team) =>
     i \in DOMAIN cache[m].rows /\ cache[m].rows[i] = row[i].text

Stamped(m) ==
  /\ cache[m].token.own \in 0..now /\ cache[m].token.team \in 0..now
  /\ cache[m].token.locale = cache[m].locale
  /\ \A i \in Served(AccountOf[m]) : Held(m, i)

CachesInv == \A m \in Machines : Mirrored(m) /\ Stamped(m)

\* A write leaves a cache as good as it was: the row it changes is newer than the cache.
LEMMA StampedStays ==
  ASSUME StoreInv, RowStep, NEW m \in Machines, Stamped(m), cache' = cache
  PROVE  Stamped(m)'
<1> USE DEF StoreInv, StoreTypeOK
<1> DEFINE u == AccountOf[m]
           t == cache[m].token
<1>1. now \in Nat /\ now' \in {now, now + 1}
  BY DEF RowStep
<1>2. t.own \in 0..now /\ t.team \in 0..now
  BY DEF Stamped
<1>3. ASSUME NEW i \in Served(u)' PROVE Held(m, i)'
  <2>1. CASE row' = row
    BY <1>3, <2>1 DEF Stamped, Held, Served, Active
  <2>2. CASE row' # row
    <3>1. PICK k \in Ids, r \in Row : row' = [row EXCEPT ![k] = r] /\ r.stamp = now + 1
      BY <2>2 DEF RowStep
    <3>2. i \in Ids
      BY <1>3 DEF Served, Active
    <3>3. CASE i = k
      <4>1. row'[i].stamp = now + 1
        BY <3>1, <3>2, <3>3
      <4>2. ~(row'[i].stamp <= t.own) /\ ~(row'[i].stamp <= t.team)
        BY <1>1, <1>2, <4>1
      <4> QED BY <4>2 DEF Held
    <3>4. CASE i # k
      <4>1. row'[i] = row[i]
        BY <3>1, <3>2, <3>4
      <4>2. Held(m, i)
        BY <1>3, <3>2, <4>1 DEF Stamped, Served, Active
      <4> QED BY <4>1, <4>2 DEF Held
    <3> QED BY <3>3, <3>4
  <2> QED BY <2>1, <2>2
<1> QED BY <1>1, <1>2, <1>3 DEF Stamped

\* Equal tables are served alike.
LEMMA MirroredStays ==
  ASSUME NEW m \in Machines, Mirrored(m), row' = row, now' = now, locale' = locale,
         sync'[m] = sync[m]
  PROVE  Mirrored(m)'
BY DEF Mirrored, Served, Active, SyncToken, Newest

LEMMA CachesInvariant == ~Overlap => (Spec => []CachesInv)
<1> SUFFICES ASSUME ~Overlap PROVE Spec => []CachesInv
  OBVIOUS
<1>1. Init => CachesInv
  <2> SUFFICES ASSUME Init, NEW m \in Machines PROVE Mirrored(m) /\ Stamped(m)
    BY DEF CachesInv
  <2>1. StoreInv
    BY StoreInitInv DEF Init
  <2>2. Mirrored(m)
    BY DEF Init, Off, Mirrored
  <2>3. /\ cache[m].token.own = 0 /\ cache[m].token.team = 0
        /\ cache[m].token.locale = None /\ cache[m].locale = None
    BY DEF Init, NoToken
  <2>4. now \in Nat
    BY <2>1 DEF StoreInv, StoreTypeOK
  <2>5. ASSUME NEW i \in Served(AccountOf[m]) PROVE ~(row[i].stamp <= 0)
    <3>1. i \in Ids /\ row[i].status = "active" /\ row[i].stamp \in Nat
      BY <2>1 DEF Served, Active, StoreInv, StoreTypeOK, Row
    <3> QED BY <2>1, <3>1 DEF StoreInv, RowsOK
  <2> QED BY <2>2, <2>3, <2>4, <2>5 DEF Stamped, Held
<1>2. IInv /\ CachesInv /\ [Next]_vars => CachesInv'
  <2> SUFFICES ASSUME IInv, CachesInv, [Next]_vars PROVE CachesInv'
    OBVIOUS
  <2> USE DEF IInv
  <2>1. ASSUME NEW m \in Machines
        PROVE  AccountOf[m] \in Users /\ sync[m] \in Sync /\ cache[m] \in Cache /\ Mirrored(m) /\ Stamped(m)
    BY MachineConstants DEF CacheTypeOK, CachesInv
  <2>2. ASSUME UNCHANGED vars PROVE CachesInv'
    <3> SUFFICES ASSUME NEW m \in Machines PROVE Mirrored(m)' /\ Stamped(m)'
      BY DEF CachesInv
    <3>1. UNCHANGED storeVars
      BY <2>2 DEF vars
    <3>2. RowStep /\ cache' = cache /\ sync' = sync /\ UNCHANGED <<row, now, locale>>
      BY <2>2, <3>1, RowSteps DEF vars, storeVars
    <3> QED BY <2>1, <3>2, StampedStays, MirroredStays
  <2>3. ASSUME Write PROVE CachesInv'
    <3> SUFFICES ASSUME NEW m \in Machines PROVE Mirrored(m)' /\ Stamped(m)'
      BY DEF CachesInv
    <3>1. sync'[m].pc = "off" /\ cache' = cache
      BY <2>3 DEF Write, Syncing
    <3>2. RowStep
      BY <2>3, RowSteps DEF Write
    <3>3. Mirrored(m)'
      BY <3>1 DEF Mirrored
    <3> QED BY <2>1, <3>1, <3>2, <3>3, StampedStays
  <2>4. ASSUME NEW m \in Machines, UNCHANGED storeVars,
               Mirrored(m)', Stamped(m)',
               \A x \in Machines \ {m} : sync'[x] = sync[x] /\ cache'[x] = cache[x]
        PROVE  CachesInv'
    <3> SUFFICES ASSUME NEW x \in Machines, x # m PROVE Mirrored(x)' /\ Stamped(x)'
      BY <2>4 DEF CachesInv
    <3>1. row' = row /\ now' = now /\ locale' = locale /\ sync'[x] = sync[x] /\ cache'[x] = cache[x]
      BY <2>4 DEF storeVars
    <3>2. Mirrored(x)'
      BY <2>1, <3>1, MirroredStays
    <3>3. Stamped(x)'
      BY <2>1, <3>1 DEF Stamped, Held, Served, Active
    <3> QED BY <3>2, <3>3
  <2>5. ASSUME NEW m \in Machines, UNCHANGED storeVars, UNCHANGED cache, Mirrored(m)',
               \A x \in Machines \ {m} : sync'[x] = sync[x]
        PROVE  CachesInv'
    <3>1. Stamped(m)'
      BY <2>1, <2>5 DEF Stamped, Held, Served, Active, storeVars
    <3> QED BY <2>4, <2>5, <3>1
  <2>6. ASSUME NEW m \in Machines, UNCHANGED storeVars, UNCHANGED cache,
               NEW q \in {"off", "asking", "reading"}, sync'[m].pc = q,
               \A x \in Machines \ {m} : sync'[x] = sync[x]
        PROVE  CachesInv'
    <3>1. Mirrored(m)'
      BY <2>6 DEF Mirrored
    <3> QED BY <2>5, <2>6, <3>1
  <2>7. ASSUME NEW m \in Machines, StartSession(m) \/ CompareToken(m) \/ SyncFails(m) PROVE CachesInv'
    <3>1. sync'[m].pc \in {"off", "asking", "reading"}
      BY <2>1, <2>7 DEF StartSession, CompareToken, SyncFails, CacheTypeOK, Sync, Off
    <3>2. /\ UNCHANGED storeVars /\ UNCHANGED cache
          /\ \A x \in Machines \ {m} : sync'[x] = sync[x]
      BY <2>7 DEF StartSession, CompareToken, SyncFails, CacheTypeOK
    <3> QED BY <2>6, <3>1, <3>2
  <2>8. ASSUME NEW m \in Machines, ReadMemories(m) PROVE CachesInv'
    <3> DEFINE c == [i \in Served(AccountOf[m]) |-> row[i].text]
    <3>1. /\ sync' = [sync EXCEPT ![m] = [sync[m] EXCEPT !.pc = "stamping", !.rows = c]]
          /\ UNCHANGED storeVars /\ UNCHANGED cache
      BY <2>8 DEF ReadMemories
    <3>2. c' = c
      BY <3>1 DEF storeVars, Served, Active
    <3> HIDE DEF c
    <3>3. sync'[m].pc = "stamping" /\ sync'[m].rows = c
      BY <2>1, <3>1 DEF CacheTypeOK, Sync
    <3>4. Mirrored(m)'
      <4>1. sync'[m].rows = c'
        BY <3>2, <3>3
      <4> QED BY <3>3, <4>1 DEF Mirrored, c
    <3>5. \A x \in Machines \ {m} : sync'[x] = sync[x]
      BY <3>1 DEF CacheTypeOK
    <3> QED BY <2>5, <3>1, <3>4, <3>5
  <2>9. ASSUME NEW m \in Machines, StampToken(m) PROVE CachesInv'
    <3> DEFINE u == AccountOf[m]
               t == SyncToken(u)
               c == [i \in Served(u) |-> row[i].text]
    <3>1. /\ sync' = [sync EXCEPT ![m] = [sync[m] EXCEPT !.pc = "answering", !.token = t]]
          /\ UNCHANGED storeVars /\ UNCHANGED cache
      BY <2>9 DEF StampToken
    <3>2. c' = c /\ t' = t
      BY <3>1 DEF storeVars, Served, Active, SyncToken, Newest
    <3>3. sync[m].rows = c
      BY <2>1, <2>9 DEF StampToken, Mirrored
    <3> HIDE DEF c, t
    <3>4. sync'[m].pc = "answering" /\ sync'[m].rows = c /\ sync'[m].token = t
      BY <2>1, <3>1, <3>3 DEF CacheTypeOK, Sync
    <3>5. sync'[m].rows = c' /\ sync'[m].token = t'
      BY <3>2, <3>4
    <3>6. Mirrored(m)'
      BY <3>4, <3>5 DEF Mirrored, c, t
    <3>7. \A x \in Machines \ {m} : sync'[x] = sync[x]
      BY <3>1 DEF CacheTypeOK
    <3> QED BY <2>5, <3>1, <3>6, <3>7
  <2>10. ASSUME NEW m \in Machines, WriteCache(m) PROVE CachesInv'
    <3> DEFINE u == AccountOf[m]
               c == [i \in Served(u) |-> row[i].text]
    <3>1. sync[m].rows = c /\ sync[m].token = SyncToken(u)
      BY <2>1, <2>10 DEF WriteCache, Mirrored
    <3>2. /\ UNCHANGED storeVars /\ sync' = [sync EXCEPT ![m] = Off]
          /\ cache' = [cache EXCEPT ![m] = [token |-> sync[m].token, rows |-> sync[m].rows,
                                            locale |-> locale[u], aged |-> FALSE]]
      BY <2>10 DEF WriteCache
    <3>3. /\ cache'[m].token = SyncToken(u) /\ cache'[m].rows = c /\ cache'[m].locale = locale[u]
      BY <3>1, <3>2 DEF CacheTypeOK
    <3>4. SyncToken(u).own \in 0..now /\ SyncToken(u).team \in 0..now /\ SyncToken(u).locale = locale[u]
      BY <2>1, SyncTokenType DEF StoreInv
    <3>5. \A i \in Served(u) : i \in DOMAIN c /\ c[i] = row[i].text
      OBVIOUS
    <3> HIDE DEF c
    <3>6. Stamped(m)'
      <4>1. row' = row /\ now' = now
        BY <3>2 DEF storeVars
      <4>2. Served(u)' = Served(u)
        BY <4>1 DEF Served, Active
      <4>3. \A i \in Served(u)' : Held(m, i)'
        BY <3>3, <3>5, <4>1, <4>2 DEF Held
      <4> QED BY <3>3, <3>4, <4>1, <4>3 DEF Stamped
    <3>7. sync'[m].pc = "off"
      BY <3>2 DEF CacheTypeOK, Off
    <3>8. Mirrored(m)'
      BY <3>7 DEF Mirrored
    <3>9. \A x \in Machines \ {m} : sync'[x] = sync[x] /\ cache'[x] = cache[x]
      BY <3>2 DEF CacheTypeOK
    <3> QED BY <2>4, <3>2, <3>6, <3>8, <3>9
  <2>11. ASSUME NEW m \in Machines, Age(m) PROVE CachesInv'
    <3>1. cache' = [cache EXCEPT ![m] = [cache[m] EXCEPT !.aged = TRUE]]
          /\ UNCHANGED storeVars /\ sync' = sync
      BY <2>11 DEF Age
    <3>2. /\ cache'[m].token = cache[m].token /\ cache'[m].rows = cache[m].rows
          /\ cache'[m].locale = cache[m].locale
      BY <2>1, <3>1 DEF CacheTypeOK, Cache
    <3>3. Stamped(m)'
      BY <2>1, <3>1, <3>2 DEF Stamped, Held, Served, Active, storeVars
    <3>4. Mirrored(m)'
      BY <2>1, <3>1, MirroredStays DEF storeVars
    <3>5. \A x \in Machines \ {m} : sync'[x] = sync[x] /\ cache'[x] = cache[x]
      BY <3>1 DEF CacheTypeOK
    <3> QED BY <2>4, <3>1, <3>3, <3>4, <3>5
  <2> QED BY <2>2, <2>3, <2>7, <2>8, <2>9, <2>10, <2>11 DEF Next, Download
<1> QED BY <1>1, <1>2, Invariant, PTL DEF Spec

\* When requests and downloads do not overlap, a machine whose token is the server's holds
\* every memory it would be served, as it is now.
THEOREM TokenCoversEditsHolds == ~Overlap => (Spec => []TokenCoversEdits)
<1> SUFFICES ASSUME ~Overlap PROVE Spec => []TokenCoversEdits
  OBVIOUS
<1>1. IInv /\ CachesInv => TokenCoversEdits
  <2> SUFFICES ASSUME IInv, CachesInv, NEW m \in Machines, cache[m].token = SyncToken(AccountOf[m])
               PROVE  /\ cache[m].locale = locale[AccountOf[m]]
                      /\ \A i \in Served(AccountOf[m]) :
                           i \in DOMAIN cache[m].rows /\ cache[m].rows[i] = row[i].text
    BY DEF TokenCoversEdits
  <2>1. Stamped(m) /\ AccountOf[m] \in Users
    BY MachineConstants DEF CachesInv
  <2>2. /\ SyncToken(AccountOf[m]).locale = locale[AccountOf[m]]
        /\ \A i \in Active : /\ Owner[i] = AccountOf[m] => row[i].stamp <= SyncToken(AccountOf[m]).own
                             /\ Shared(i) => row[i].stamp <= SyncToken(AccountOf[m]).team
    BY <2>1, SyncTokenType DEF IInv, StoreInv
  <2>3. ASSUME NEW i \in Served(AccountOf[m])
        PROVE  i \in DOMAIN cache[m].rows /\ cache[m].rows[i] = row[i].text
    <3>1. i \in Active /\ (Owner[i] = AccountOf[m] \/ Shared(i))
      BY DEF Served
    <3> QED BY <2>1, <2>2, <3>1 DEF Stamped, Held
  <2> QED BY <2>1, <2>2, <2>3 DEF Stamped
<1> QED BY <1>1, CachesInvariant, Invariant, PTL

-----------------------------------------------------------------------------
(* What handlers that do not overlap keep of texts and of merges           *)

\* A request alone in flight: what it read of its row is still so.
SerialRequest(s) ==
  LET q == req[s] IN
  /\ q.pc \in {"idle", "checked", "found", "ready"} => q.saved = {}
  /\ q.pc # "idle" =>
       /\ \A r \in Sessions : req[r].pc # "idle" => r = s
       /\ q.op = "create" => q.pc # "checked"
       /\ q.op = "create" /\ q.pc = "ready" => row[q.id].status = "absent"
       /\ q.op = "merge" => q.other # q.id
       /\ q.op = "merge" /\ q.pc = "ready" => row[q.id].status = "active"
       /\ q.op = "revert" => MayRevert
       /\ q.op # "create" /\ q.pc \in {"found", "ready"} => q.old = row[q.id]

\* What was merged away is disabled; what is not there yet has no text.
SerialRows ==
  \A i \in Ids :
    /\ row[i].into # None => row[i].status = "disabled"
    /\ row[i].status = "absent" => row[i].text = None

SerialInv == SerialRows /\ MergesLeaveOne /\ \A s \in Sessions : SerialRequest(s)

KeepsTexts == \A k \in Known : k[2] # None => k \in Known'

\* Writing one row merges nothing away when it leaves `into` alone or clears it, and keeps
\* every text when what it overwrites is on its way to the history.
LEMMA SerialPut ==
  ASSUME StoreInv, SerialInv, NEW s \in Sessions, req[s].pc # "idle",
         NEW i \in Ids, NEW r \in Row, NEW saved, Put(s, i, r, saved),
         r.into \in {None, row[i].into}, r.into # None => r.status = "disabled",
         r.status # "absent"
  PROVE  /\ SerialInv'
         /\ (\/ r.text = row[i].text \/ row[i].text = None
             \/ <<i, row[i].text>> \in saved) /\ req[s].saved \subseteq saved => KeepsTexts
<1> USE DEF StoreInv, StoreTypeOK
<1> DEFINE new == [r EXCEPT !.stamp = now + 1]
           q == [req[s] EXCEPT !.pc = "written", !.saved = saved]
<1>1. new \in Row /\ new.into = r.into /\ new.status = r.status /\ new.text = r.text
  BY DEF Row
<1>2. row' = [row EXCEPT ![i] = new] /\ req' = [req EXCEPT ![s] = q] /\ history' = history
  BY DEF Put
<1>3. q.pc = "written" /\ q.saved = saved /\ q.op = req[s].op /\ q.id = req[s].id /\ q.other = req[s].other
  BY DEF Request
<1> HIDE DEF new, q
<1>4. row'[i] = new /\ \A k \in Ids \ {i} : row'[k] = row[k]
  BY <1>1, <1>2
<1>5. req'[s] = q /\ \A x \in Sessions \ {s} : req'[x] = req[x]
  BY <1>2
<1>6. SerialRows'
  BY <1>1, <1>4 DEF SerialInv, SerialRows
<1>7. MergesLeaveOne'
  <2> SUFFICES ASSUME NEW S \in SUBSET Ids, S # {} PROVE \E k \in S : row'[k].into \notin S
    BY DEF MergesLeaveOne
  <2>1. PICK k \in S : row[k].into \notin S
    BY DEF SerialInv, MergesLeaveOne
  <2>2. row'[k].into \in {None, row[k].into}
    BY <1>1, <1>4
  <2> QED BY <2>1, <2>2, StoreConstants
<1>8. \A x \in Sessions : SerialRequest(x)'
  BY <1>3, <1>5 DEF SerialInv, SerialRequest
<1>9. ASSUME \/ r.text = row[i].text \/ row[i].text = None
             \/ <<i, row[i].text>> \in saved,
             req[s].saved \subseteq saved
      PROVE  KeepsTexts
  <2> SUFFICES ASSUME NEW k \in Known, k[2] # None PROVE k \in Known'
    BY DEF KeepsTexts
  <2>1. saved \subseteq Known'
    BY <1>3, <1>5 DEF Known
  <2>2. CASE k \in history
    BY <1>2, <2>2 DEF Known
  <2>3. ASSUME NEW x \in Sessions, k \in req[x].saved PROVE k \in Known'
    <3>1. CASE x = s
      BY <1>9, <2>1, <2>3, <3>1
    <3>2. CASE x # s
      BY <1>5, <2>3, <3>2 DEF Known
    <3> QED BY <3>1, <3>2
  <2>4. ASSUME NEW j \in Ids, k = <<j, row[j].text>> PROVE k \in Known'
    <3>1. CASE j # i \/ r.text = row[i].text
      <4>1. row'[j].text = row[j].text
        BY <1>1, <1>4, <3>1
      <4> QED BY <2>4, <4>1 DEF Known
    <3>2. CASE j = i /\ r.text # row[i].text
      <4>1. row[i].text # None
        BY <2>4, <3>2
      <4> QED BY <1>9, <2>1, <2>4, <3>2, <4>1
    <3> QED BY <3>1, <3>2
  <2> QED BY <2>2, <2>3, <2>4 DEF Known
<1> QED BY <1>6, <1>7, <1>8, <1>9 DEF SerialInv

\* A step that leaves the rows alone and answers, or moves one request on.
LEMMA SerialRead ==
  ASSUME StoreInv, SerialInv, NEW s \in Sessions, row' = row,
         \A x \in Sessions \ {s} : req'[x] = req[x], SerialRequest(s)'
  PROVE  /\ SerialInv'
         /\ history \subseteq history' /\ req[s].saved \subseteq history' \cup req'[s].saved => KeepsTexts
<1>1. SerialRows' /\ MergesLeaveOne'
  BY DEF SerialInv, SerialRows, MergesLeaveOne
<1>2. \A x \in Sessions : SerialRequest(x)'
  <2> SUFFICES ASSUME NEW x \in Sessions, x # s PROVE SerialRequest(x)'
    OBVIOUS
  <2>1. SerialRequest(x)
    BY DEF SerialInv
  <2>2. CASE req'[s].pc # "idle"
    BY <2>1, <2>2 DEF SerialRequest
  <2>3. CASE req'[s].pc = "idle"
    <3>1. \A y \in Sessions : req'[y].pc # "idle" => req[y].pc # "idle"
      BY <2>3
    <3> QED BY <2>1, <3>1 DEF SerialRequest
  <2> QED BY <2>2, <2>3
<1>3. ASSUME history \subseteq history', req[s].saved \subseteq history' \cup req'[s].saved PROVE KeepsTexts
  <2> SUFFICES ASSUME NEW k \in Known, k[2] # None PROVE k \in Known'
    BY DEF KeepsTexts
  <2>1. CASE k \in history \/ \E j \in Ids : k = <<j, row[j].text>>
    BY <1>3, <2>1 DEF Known
  <2>2. ASSUME NEW x \in Sessions, k \in req[x].saved PROVE k \in Known'
    <3>1. k \in history' \cup req'[x].saved
      BY <1>3, <2>2
    <3> QED BY <3>1 DEF Known
  <2> QED BY <2>1, <2>2 DEF Known
<1> QED BY <1>1, <1>2, <1>3 DEF SerialInv

LEMMA SerialAnswer ==
  ASSUME StoreInv, SerialInv, NEW s \in Sessions, Answer(s), row' = row
  PROVE  /\ SerialInv'
         /\ history \subseteq history' /\ req[s].saved \subseteq history' => KeepsTexts
<1>1. /\ req'[s].pc = "idle" /\ req'[s].saved = {}
      /\ \A x \in Sessions \ {s} : req'[x] = req[x]
  BY DEF Answer, StoreInv, StoreTypeOK, Idle
<1>2. SerialRequest(s)'
  BY <1>1 DEF SerialRequest
<1> QED BY <1>1, <1>2, SerialRead

\* What a step does when handlers do not overlap.
SerialStep == SerialInv' /\ (~MayFail /\ ~MayRevert => KeepsTexts)

LEMMA SerialBegin ==
  ASSUME StoreInv, SerialInv, ~Overlap, NEW s \in Sessions, Begin(s) PROVE SerialStep
<1>1. PICK op \in Ops, i \in Ids, j \in Ids \cup {None}, t \in Texts \cup {None} :
        Sensible(s, op, i, j, t) /\ req' = [req EXCEPT ![s] = Sent(op, i, j, t)]
  BY Zenon DEF Begin
<1>2. row' = row /\ history' = history /\ Busy = {} /\ req[s].pc = "idle"
  BY DEF Begin
<1>3. /\ req'[s] = Sent(op, i, j, t)
      /\ \A x \in Sessions \ {s} : req'[x] = req[x] /\ req'[x].pc = "idle"
  BY <1>1, <1>2 DEF StoreInv, StoreTypeOK, Busy
<1>4. /\ req'[s].op = op /\ req'[s].id = i /\ req'[s].other = j /\ req'[s].saved = {}
      /\ req'[s].pc = IF op = "create" THEN "ready" ELSE "checked"
  BY <1>3 DEF Sent
<1>5. /\ op = "create" => row[i].status = "absent"
      /\ op = "merge" => j # i
      /\ op = "revert" => MayRevert
  BY <1>1 DEF Sensible
<1>6. SerialRequest(s)'
  BY <1>2, <1>3, <1>4, <1>5 DEF SerialRequest
<1>7. req[s].saved = {}
  BY <1>2 DEF SerialInv, SerialRequest
<1> QED BY <1>2, <1>3, <1>6, <1>7, SerialRead DEF SerialStep

LEMMA SerialQuiet ==
  ASSUME StoreInv, SerialInv, row' = row, req' = req, history' = history PROVE SerialStep
BY DEF SerialStep, SerialInv, SerialRows, MergesLeaveOne, SerialRequest, KeepsTexts, Known

LEMMA SerialReads ==
  ASSUME StoreInv, SerialInv, NEW s \in Sessions, ReadRow(s) \/ ReadDropped(s) \/ ReadContent(s)
  PROVE  SerialStep
<1> USE DEF StoreInv, StoreTypeOK
<1>1. /\ req[s] \in Request /\ SerialRequest(s) /\ row' = row /\ history' = history
      /\ req[s].pc \in {"checked", "found"}
  BY DEF SerialInv, ReadRow, ReadDropped, ReadContent
<1>2. req[s].saved = {}
  BY <1>1 DEF SerialRequest
<1>3. ASSUME Answer(s) PROVE SerialStep
  BY <1>1, <1>2, <1>3, SerialAnswer DEF SerialStep
<1>4. ASSUME NEW o, NEW p \in {"found", "ready"},
             req' = [req EXCEPT ![s] = [req[s] EXCEPT !.old = o, !.pc = p]],
             req[s].op # "create" => o = row[req[s].id],
             req[s].op = "create" /\ p = "ready" => row[req[s].id].status = "absent",
             req[s].op = "merge" /\ p = "ready" => row[req[s].id].status = "active"
      PROVE  SerialStep
  <2> DEFINE q == [req[s] EXCEPT !.old = o, !.pc = p]
  <2>1. /\ q.old = o /\ q.pc = p /\ q.op = req[s].op /\ q.id = req[s].id
        /\ q.other = req[s].other /\ q.saved = req[s].saved
    BY <1>1 DEF Request
  <2> HIDE DEF q
  <2>2. req'[s] = q /\ \A x \in Sessions \ {s} : req'[x] = req[x]
    BY <1>4 DEF q
  <2>3. SerialRequest(s)'
    BY <1>1, <1>2, <1>4, <2>1, <2>2 DEF SerialRequest
  <2> QED BY <1>1, <1>2, <2>2, <2>3, SerialRead DEF SerialStep
<1>5. CASE ReadRow(s)
  <2> DEFINE p == IF req[s].op \in {"merge", "decide"} THEN "found" ELSE "ready"
             i == req[s].id
  <2>1. CASE ~Allowed(req[s].op, row[i], i)
    BY <1>3, <1>5, <2>1 DEF ReadRow
  <2>2. CASE Allowed(req[s].op, row[i], i)
    <3>1. req' = [req EXCEPT ![s] = [req[s] EXCEPT !.old = row[i], !.pc = p]]
      BY <1>5, <2>2 DEF ReadRow
    <3>2. p \in {"found", "ready"} /\ (req[s].op = "merge" => p = "found")
      OBVIOUS
    <3>3. req[s].pc = "checked"
      BY <1>5 DEF ReadRow
    <3>4. req[s].op # "create"
      BY <1>1, <3>3 DEF SerialRequest
    <3> HIDE DEF p
    <3> QED BY <1>4, <3>1, <3>2, <3>4
  <2> QED BY <2>1, <2>2
<1>6. CASE ReadDropped(s)
  <2>1. CASE Answer(s)
    BY <1>3, <2>1
  <2>2. CASE ~Answer(s)
    <3>1. /\ req' = [req EXCEPT ![s].pc = "ready"] /\ req[s].op = "merge"
          /\ req[s].pc = "found" /\ req[s].old.status = "active"
      BY <1>6, <2>2 DEF ReadDropped
    <3>2. req' = [req EXCEPT ![s] = [req[s] EXCEPT !.old = req[s].old, !.pc = "ready"]]
      BY <1>1, <3>1 DEF Request
    <3>3. req[s].old = row[req[s].id]
      BY <1>1, <3>1 DEF SerialRequest
    <3> QED BY <1>4, <3>1, <3>2, <3>3
  <2> QED BY <2>1, <2>2
<1>7. CASE ReadContent(s)
  <2>1. /\ req' = [req EXCEPT ![s] = [req[s] EXCEPT !.old = row[req[s].id], !.pc = "ready"]]
        /\ req[s].op = "decide"
    BY <1>7 DEF ReadContent
  <2> QED BY <1>4, <2>1
<1> QED BY <1>5, <1>6, <1>7

\* A new status for the row a request names clears `into`, or leaves it and disables nothing.
LEMMA SerialStatusWrites ==
  ASSUME StoreInv, SerialInv, NEW s \in Sessions,
         Disable(s) \/ Enable(s) \/ Archive(s) \/ Restore(s)
  PROVE  SerialStep
<1> DEFINE i == req[s].id
           saved == {<<i, row[i].text>>}
<1>1. req[s].pc = "ready" /\ req[s].op # "create"
  BY DEF Disable, Enable, Archive, Restore
<1>2. i \in Ids /\ row[i] \in Row /\ row[i].status # "absent"
  BY <1>1, NamedRow
<1>3. req[s].saved = {} /\ (row[i].into # None => row[i].status = "disabled")
  BY <1>1, <1>2 DEF SerialInv, SerialRequest, SerialRows
<1>4. ASSUME NEW st \in Statuses \ {"absent"}, NEW to,
             to = None \/ (to = row[i].into /\ row[i].status # "disabled"),
             Put(s, i, [row[i] EXCEPT !.status = st, !.into = to], saved)
      PROVE  SerialStep
  <2> DEFINE r == [row[i] EXCEPT !.status = st, !.into = to]
  <2>1. to \in Ids \cup {None}
    BY <1>2, <1>4 DEF Row
  <2>2. r \in Row /\ r.status = st /\ r.into = to /\ r.text = row[i].text
    BY <1>2, <2>1 DEF Row
  <2>3. to = None
    BY <1>3, <1>4
  <2>4. Put(s, i, r, saved)
    BY <1>4
  <2> HIDE DEF i, r, saved
  <2> QED BY <1>1, <1>2, <1>3, <2>2, <2>3, <2>4, SerialPut DEF SerialStep
<1>5. {"disabled", "active", "archived"} \subseteq Statuses \ {"absent"}
  BY DEF Statuses
<1>6. ASSUME NEW st \in Statuses
      PROVE  [row[i] EXCEPT !.status = st] = [row[i] EXCEPT !.status = st, !.into = row[i].into]
  BY <1>2 DEF Row
<1>7. ASSUME Lost(s) PROVE SerialStep
  BY <1>3, <1>7, SerialAnswer DEF Lost, SerialStep
<1>8. CASE Disable(s)
  <2>1. Put(s, i, [row[i] EXCEPT !.status = "disabled", !.into = None], saved)
    BY <1>8 DEF Disable
  <2> QED BY <1>4, <1>5, <2>1
<1>9. CASE Enable(s)
  <2>1. Put(s, i, [row[i] EXCEPT !.status = "active", !.into = None], saved)
    BY <1>9 DEF Enable
  <2> QED BY <1>4, <1>5, <2>1
<1>10. CASE Archive(s)
  <2>1. CASE row[i].status = "active"
    <3>1. Put(s, i, [row[i] EXCEPT !.status = "archived"], saved)
      BY <1>10, <2>1 DEF Archive
    <3>2. Put(s, i, [row[i] EXCEPT !.status = "archived", !.into = row[i].into], saved)
      BY <1>5, <1>6, <3>1
    <3> QED BY <1>4, <1>5, <2>1, <3>2
  <2> QED BY <1>7, <1>10, <2>1 DEF Archive
<1>11. CASE Restore(s)
  <2>1. CASE row[i].status = "archived"
    <3>1. Put(s, i, [row[i] EXCEPT !.status = "active"], saved)
      BY <1>11, <2>1 DEF Restore
    <3>2. Put(s, i, [row[i] EXCEPT !.status = "active", !.into = row[i].into], saved)
      BY <1>5, <1>6, <3>1
    <3> QED BY <1>4, <1>5, <2>1, <3>2
  <2> QED BY <1>7, <1>11, <2>1 DEF Restore
<1> QED BY <1>8, <1>9, <1>10, <1>11

\* The text a request overwrites is the one it read, and that one goes to the history.
LEMMA SerialTextWrites ==
  ASSUME StoreInv, SerialInv, NEW s \in Sessions,
         Create(s) \/ Update(s) \/ Decide(s) \/ Revert(s)
  PROVE  SerialStep
<1> DEFINE i == req[s].id
           t == req[s].text
           old == req[s].old
<1>1. req[s].pc = "ready" /\ req[s].op \in {"create", "update", "decide", "revert"}
  BY DEF Create, Update, Decide, Revert
<1>2. i \in Ids /\ t \in Texts /\ row[i] \in Row
  BY <1>1 DEF StoreInv, StoreTypeOK, RequestOK
<1>3. /\ req[s].saved = {}
      /\ req[s].op # "create" => old = row[i] /\ row[i].status # "absent"
      /\ req[s].op = "create" => row[i].text = None
      /\ req[s].op = "revert" => MayRevert
      /\ row[i].into # None => row[i].status = "disabled"
  BY <1>1, <1>2, NamedRow DEF SerialInv, SerialRequest, SerialRows
<1>4. ASSUME req[s].op # "create", NEW pr \in Texts \cup {None}, NEW saved,
             Put(s, i, [row[i] EXCEPT !.text = t, !.previous = pr], saved),
             <<i, row[i].text>> \in saved \/ MayRevert
      PROVE  SerialStep
  <2> DEFINE r == [row[i] EXCEPT !.text = t, !.previous = pr]
  <2> HIDE DEF i, t
  <2>1. r \in Row /\ r.status = row[i].status /\ r.into = row[i].into
    BY <1>2 DEF Row
  <2>2. Put(s, i, r, saved)
    BY <1>4
  <2> HIDE DEF r
  <2>3. req[s].pc # "idle" /\ req[s].saved \subseteq saved
    BY <1>1, <1>3
  <2>4. SerialInv' /\ (<<i, row[i].text>> \in saved => KeepsTexts)
    BY <1>2, <1>3, <1>4, <2>1, <2>2, <2>3, SerialPut
  <2> QED BY <1>4, <2>4 DEF SerialStep
<1>5. CASE Create(s)
  <2> DEFINE r == [NoRow EXCEPT !.status = "active", !.text = t]
  <2>1. r \in Row /\ r.status = "active" /\ r.into = None
    BY <1>2 DEF NoRow, Row, Statuses
  <2>2. Put(s, i, r, {<<i, t>>}) /\ req[s].op = "create"
    BY <1>5 DEF Create
  <2> HIDE DEF r, i, t
  <2> QED BY <1>1, <1>2, <1>3, <2>1, <2>2, SerialPut DEF SerialStep
<1>6. CASE Update(s)
  <2> DEFINE pr == IF Kind[i] = "iron_rule" /\ t # old.text THEN row[i].text ELSE row[i].previous
  <2>1. pr \in Texts \cup {None}
    BY <1>2, <1>3, <1>6, NamedRow, <1>1 DEF Row, Update
  <2>2. Put(s, i, [row[i] EXCEPT !.text = t, !.previous = pr], {<<i, old.text>>}) /\ req[s].op = "update"
    BY <1>6 DEF Update
  <2> QED BY <1>3, <1>4, <2>1, <2>2
<1>7. CASE Decide(s)
  <2>1. Put(s, i, [row[i] EXCEPT !.text = t, !.previous = old.text], {<<i, old.text>>}) /\ req[s].op = "decide"
    BY <1>7 DEF Decide
  <2>2. old.text \in Texts \cup {None}
    BY <1>2, <1>3, <2>1 DEF Row
  <2> QED BY <1>3, <1>4, <2>1, <2>2
<1>8. CASE Revert(s)
  <2>1. [row[i] EXCEPT !.text = t] = [row[i] EXCEPT !.text = t, !.previous = row[i].previous]
    BY <1>2 DEF Row
  <2>2. Put(s, i, [row[i] EXCEPT !.text = t], {<<i, t>>}) /\ req[s].op = "revert"
    BY <1>8 DEF Revert
  <2>3. row[i].previous \in Texts \cup {None}
    BY <1>2 DEF Row
  <2> QED BY <1>3, <1>4, <2>1, <2>2, <2>3
<1> QED BY <1>5, <1>6, <1>7, <1>8

\* A merge points one active memory at another, which is itself pointed nowhere.
LEMMA SerialMerge ==
  ASSUME StoreInv, SerialInv, NEW s \in Sessions, DropMerged(s) \/ TouchKept(s) PROVE SerialStep
<1> USE DEF StoreInv, StoreTypeOK
<1> DEFINE i == req[s].id
<1>1. req[s].pc # "idle" /\ req[s].op = "merge"
  BY DEF DropMerged, TouchKept, RequestOK
<1>2. i \in Ids /\ row[i] \in Row /\ row[i].status # "absent"
  BY <1>1, NamedRow
<1>3. row[i].into # None => row[i].status = "disabled"
  BY <1>2 DEF SerialInv, SerialRows
<1>4. CASE TouchKept(s)
  <2> DEFINE saved == req[s].saved \cup {<<i, row[i].text>>}
  <2>1. Put(s, i, row[i], saved) /\ req[s].saved \subseteq saved
    BY <1>4 DEF TouchKept
  <2> HIDE DEF saved, i
  <2> QED BY <1>1, <1>2, <1>3, <2>1, SerialPut DEF SerialStep
<1>5. CASE DropMerged(s) /\ Lost(s)
  <2>1. req[s].saved = {}
    BY <1>5 DEF SerialInv, SerialRequest, DropMerged
  <2> QED BY <1>5, <2>1, SerialAnswer DEF SerialStep, Lost
<1>6. CASE DropMerged(s) /\ ~Lost(s)
  <2> DEFINE j == req[s].other
             r == [row[j] EXCEPT !.status = "disabled", !.into = i, !.stamp = now + 1]
             saved == {<<j, row[j].text>>}
             q == [req[s] EXCEPT !.pc = "dropped", !.saved = saved]
  <2>1. /\ j \in Ids /\ row[j] \in Row /\ row[j].status = "active"
        /\ req[s].pc = "ready"
    BY <1>1, <1>6 DEF DropMerged, RequestOK
  <2>2. /\ row' = [row EXCEPT ![j] = r] /\ history' = history
        /\ req' = [req EXCEPT ![s] = q]
    BY <1>6 DEF DropMerged
  <2>3. /\ q.pc = "dropped" /\ q.saved = saved /\ q.op = req[s].op /\ q.id = req[s].id
        /\ q.other = req[s].other
    BY DEF Request
  <2>4. j # i /\ row[i].status = "active" /\ req[s].saved = {}
    BY <1>1, <2>1 DEF SerialInv, SerialRequest
  <2> HIDE DEF i, j, q, saved
  <2>5. r.status = "disabled" /\ r.into = i /\ r.text = row[j].text
    BY <2>1 DEF Row
  <2> HIDE DEF r
  <2>6. row'[j] = r /\ \A k \in Ids \ {j} : row'[k] = row[k]
    BY <2>1, <2>2
  <2>7. req'[s] = q /\ \A x \in Sessions \ {s} : req'[x] = req[x]
    BY <2>2
  <2>8. SerialRows'
    BY <2>5, <2>6 DEF SerialInv, SerialRows
  <2>9. MergesLeaveOne'
    <3> SUFFICES ASSUME NEW S \in SUBSET Ids, S # {} PROVE \E k \in S : row'[k].into \notin S
      BY DEF MergesLeaveOne
    <3>1. CASE i \in S
      <4>1. row'[i].into = None
        BY <1>2, <1>3, <2>4, <2>6
      <4> QED BY <3>1, <4>1, StoreConstants
    <3>2. CASE i \notin S /\ j \in S
      BY <2>5, <2>6, <3>2
    <3>3. CASE i \notin S /\ j \notin S
      <4>1. PICK k \in S : row[k].into \notin S
        BY DEF SerialInv, MergesLeaveOne
      <4> QED BY <2>6, <3>3, <4>1
    <3> QED BY <3>1, <3>2, <3>3
  <2>10. \A x \in Sessions : SerialRequest(x)'
    <3>1. \A x \in Sessions : SerialRequest(x)
      BY DEF SerialInv
    <3> QED BY <1>1, <2>3, <2>7, <3>1 DEF SerialRequest
  <2>11. KeepsTexts
    <3> SUFFICES ASSUME NEW k \in Known, k[2] # None PROVE k \in Known'
      BY DEF KeepsTexts
    <3>1. \A x \in Ids : row'[x].text = row[x].text
      BY <2>5, <2>6
    <3>2. \A x \in Sessions : req[x].saved \subseteq req'[x].saved
      BY <2>4, <2>7
    <3> QED BY <2>2, <3>1, <3>2 DEF Known
  <2> QED BY <2>8, <2>9, <2>10, <2>11 DEF SerialStep, SerialInv
<1> QED BY <1>4, <1>5, <1>6

LEMMA SerialNext ==
  ASSUME StoreInv, SerialInv, ~Overlap, StoreNext \/ UNCHANGED storeVars PROVE SerialStep
<1>1. CASE UNCHANGED storeVars
  BY <1>1, SerialQuiet DEF storeVars
<1>2. CASE StoreNext
  <2>1. PICK s \in Sessions : Begin(s) \/ RefreshSyncToken(s) \/ Handle(s) \/ Fail(s) \/ SetLocale(s)
    BY <1>2 DEF StoreNext
  <2>2. CASE RefreshSyncToken(s) \/ SetLocale(s)
    BY <2>2, SerialQuiet DEF RefreshSyncToken, SetLocale
  <2>3. CASE Fail(s)
    BY <2>3, SerialAnswer DEF Fail, SerialStep
  <2>4. CASE Record(s)
    BY <2>4, SerialAnswer DEF Record, SerialStep
  <2> QED BY <2>1, <2>2, <2>3, <2>4, SerialBegin, SerialReads, SerialStatusWrites,
             SerialTextWrites, SerialMerge DEF Handle
<1> QED BY <1>1, <1>2

LEMMA SerialInvariant == ~Overlap => (Spec => []SerialInv)
<1> SUFFICES ASSUME ~Overlap PROVE Spec => []SerialInv
  OBVIOUS
<1>1. Init => SerialInv
  <2> SUFFICES ASSUME Init PROVE SerialInv
    OBVIOUS
  <2>1. SerialRows
    BY DEF Init, StoreInit, SerialRows, NoRow
  <2>2. MergesLeaveOne
    <3>1. \A i \in Ids : row[i].into = None
      BY DEF Init, StoreInit, NoRow
    <3> QED BY <3>1, StoreConstants DEF MergesLeaveOne
  <2>3. \A s \in Sessions : SerialRequest(s)
    BY DEF Init, StoreInit, Idle, SerialRequest
  <2> QED BY <2>1, <2>2, <2>3 DEF SerialInv
<1>2. IInv /\ SerialInv /\ [Next]_vars => SerialInv'
  <2> SUFFICES ASSUME IInv, SerialInv, [Next]_vars PROVE SerialInv'
    OBVIOUS
  <2>1. StoreNext \/ UNCHANGED storeVars
    BY DEF Next, Write, StartSession, Download, CompareToken, ReadMemories,
       StampToken, WriteCache, SyncFails, Age, vars
  <2> QED BY <2>1, SerialNext DEF IInv, SerialStep
<1> QED BY <1>1, <1>2, Invariant, PTL DEF Spec

\* When requests do not overlap, merging never leaves a group of memories each of which was
\* merged into another of them; nor does it when a handler dies half way.
THEOREM MergesLeaveOneHolds == ~Overlap => (Spec => []MergesLeaveOne)
<1>1. SerialInv => MergesLeaveOne
  BY DEF SerialInv
<1> QED BY <1>1, SerialInvariant, PTL

\* When requests do not overlap, none dies half way and nobody reverts, no text is lost.
THEOREM TextsKeptHolds == ~Overlap /\ ~MayFail /\ ~MayRevert => (Spec => TextsKept)
<1> SUFFICES ASSUME ~Overlap, ~MayFail, ~MayRevert PROVE Spec => TextsKept
  OBVIOUS
<1>1. IInv /\ SerialInv /\ [Next]_vars => [\A k \in Known : k[2] # None => k \in Known']_vars
  <2> SUFFICES ASSUME IInv, SerialInv, [Next]_vars PROVE \A k \in Known : k[2] # None => k \in Known'
    OBVIOUS
  <2>1. StoreNext \/ UNCHANGED storeVars
    BY DEF Next, Write, StartSession, Download, CompareToken, ReadMemories,
       StampToken, WriteCache, SyncFails, Age, vars
  <2> QED BY <2>1, SerialNext DEF IInv, SerialStep, KeepsTexts
<1> QED BY <1>1, Invariant, SerialInvariant, PTL DEF Spec, TextsKept

-----------------------------------------------------------------------------
(* The lessons of sessions *)

(* The lessons a request is at work on, and the memories made of a lesson that
   are not disabled: an archived one may be brought back for another lesson. *)
HandOf(q) == {q.of, q.repeats} \ {Nil}
KeptCopies(l) == {c \in DOMAIN copies : copies[c].of = l /\ copies[c].status # "disabled"}

(* One request at a time is at work on a lesson; its memory is the one the lesson
   points at, or the one that request is about to point it at. *)
Single(l) ==
  /\ \A q, r \in Requests : l \in HandOf(request[q]) /\ l \in HandOf(request[r]) => q = r
  /\ \A r \in Requests : request[r].of = l =>
       /\ request[r].at = "find" => lesson[l].memory = NotMade
       /\ request[r].at = "restore" => request[r].copy = lesson[l].memory
       /\ request[r].at = "insert" => KeptCopies(l) = {}
       /\ request[r].at = "mark" => KeptCopies(l) \subseteq {request[r].copy}
  /\ (\A r \in Requests : request[r].of = l => request[r].at # "mark") => KeptCopies(l) \subseteq {lesson[l].memory}

(* A lesson nobody has promoted yet has no memory. *)
Started ==
  /\ \A l \in Lessons : lesson[l].status \in {"untold", "new"} => lesson[l].memory = NotMade
  /\ \A r \in Requests : /\ \A l \in HandOf(request[r]) : lesson[l].status # "untold"
                         /\ request[r].at # "none" => request[r].of \in Lessons
                         /\ request[r].at = "markRepeat" => request[r].repeats \in Lessons

LessonsInv == LessonsTypeOK /\ Started /\ \A l \in Lessons \ torn : Single(l)

LEMMA LessonsInitInv == LessonsInit => LessonsInv
<1> SUFFICES ASSUME LessonsInit PROVE LessonsInv
  OBVIOUS
<1>1. copies \in Seq(CopyRow) /\ Len(copies) = 0 /\ DOMAIN copies = {}
  BY DEF LessonsInit
<1>2. LessonsTypeOK
  BY <1>1, LessonConstants DEF LessonsTypeOK, LessonsInit, LessonRow, RequestRow, Standings, Stops, Unused, NotMade
<1>3. \A r \in Requests : request[r].at = "none" /\ HandOf(request[r]) = {}
  BY DEF LessonsInit, Unused, HandOf
<1>4. Started
  BY <1>3 DEF LessonsInit, Started
<1>5. \A l \in Lessons : Single(l)
  BY <1>1, <1>3 DEF LessonsInit, Single, KeptCopies
<1> QED
  BY <1>2, <1>4, <1>5 DEF LessonsInv

LEMMA InHandOfOthers ==
  ASSUME NEW r, NEW l \in Lessons
  PROVE  l \notin InHand(r) <=> \A q \in Requests \ {r} : l \notin HandOf(request[q])
<1>1. l # Nil
  BY LessonConstants
<1> DEFINE hands == {{request[q].of, request[q].repeats} : q \in Requests \ {r}}
<1>2. l \in InHand(r) <=> l \in UNION hands
  BY <1>1 DEF InHand
<1>3. l \in InHand(r) <=> \E q \in Requests \ {r} : l \in {request[q].of, request[q].repeats}
  BY <1>2
<1> QED
  BY <1>1, <1>3 DEF HandOf

(* The lesson l when request r goes on, in hand or not. *)
LEMMA RequestMoves ==
  ASSUME LessonsInv, NEW r \in Requests, NEW next, request' = [request EXCEPT ![r] = next],
         NEW l \in Lessons \ torn,
         \/ /\ l \notin HandOf(request[r]) /\ l \notin HandOf(next)
            /\ lesson'[l].memory = lesson[l].memory /\ KeptCopies(l)' = KeptCopies(l)
         \/ /\ l \in HandOf(request[r]) \/ \A q \in Requests \ {r} : l \notin HandOf(request[q])
            /\ next.of = l => /\ next.at = "find" => lesson'[l].memory = NotMade
                              /\ next.at = "restore" => next.copy = lesson'[l].memory
                              /\ next.at = "insert" => KeptCopies(l)' = {}
                              /\ next.at = "mark" => KeptCopies(l)' \subseteq {next.copy}
            /\ (next.of = l /\ next.at = "mark") \/ KeptCopies(l)' \subseteq {lesson'[l].memory}
  PROVE  Single(l)'
<1>1. Single(l) /\ request'[r] = next /\ \A q \in Requests \ {r} : request'[q] = request[q]
  BY DEF LessonsInv, LessonsTypeOK
<1>2. \A q : l = request[q].of => l \in HandOf(request[q])
  BY LessonConstants DEF HandOf
<1>3. l = next.of => l \in HandOf(next)
  BY LessonConstants DEF HandOf
<1>4. CASE /\ l \notin HandOf(request[r]) /\ l \notin HandOf(next)
           /\ lesson'[l].memory = lesson[l].memory /\ KeptCopies(l)' = KeptCopies(l)
  BY <1>1, <1>2, <1>3, <1>4 DEF Single
<1>5. ASSUME l \in HandOf(request[r]) \/ \A q \in Requests \ {r} : l \notin HandOf(request[q])
      PROVE  \A q \in Requests \ {r} : l \notin HandOf(request'[q]) /\ request'[q].of # l
  BY <1>1, <1>2, <1>5 DEF Single
<1>6. CASE ~(/\ l \notin HandOf(request[r]) /\ l \notin HandOf(next)
             /\ lesson'[l].memory = lesson[l].memory /\ KeptCopies(l)' = KeptCopies(l))
  BY <1>1, <1>5, <1>6 DEF Single
<1> QED
  BY <1>4, <1>6

(* The types and the beginnings of the lessons when request r goes on. *)
LEMMA RequestShape ==
  ASSUME LessonsInv, NEW r \in Requests, NEW next \in RequestRow', request' = [request EXCEPT ![r] = next],
         lesson' \in [Lessons -> LessonRow'], copies' \in Seq(CopyRow), Len(copies) <= Len(copies'),
         torn' \subseteq Lessons, verdicts' \in 0..MaxVerdicts, lessonFaults' \in 0..MaxLessonFaults,
         \A l \in Lessons : /\ lesson'[l].status \in {"untold", "new"} => lesson'[l].memory = NotMade
                            /\ lesson'[l].status = "untold" => lesson[l].status = "untold",
         \A l \in HandOf(next) : lesson'[l].status # "untold",
         next.at # "none" => next.of \in Lessons,
         next.at = "markRepeat" => next.repeats \in Lessons
  PROVE  LessonsTypeOK' /\ Started'
<1>1. request \in [Requests -> RequestRow] /\ Len(copies) \in Nat /\ Len(copies') \in Nat
  BY DEF LessonsInv, LessonsTypeOK
<1>2. RequestRow \subseteq RequestRow'
  BY <1>1 DEF RequestRow
<1>3. request' \in [Requests -> RequestRow'] /\ request'[r] = next /\ \A q \in Requests \ {r} : request'[q] = request[q]
  BY <1>1, <1>2
<1>4. LessonsTypeOK'
  BY <1>3 DEF LessonsTypeOK
<1>5. \A q \in Requests : HandOf(request[q]) \subseteq Lessons
  BY <1>1 DEF HandOf, RequestRow
<1>6. Started'
  <2>1. ASSUME NEW q \in Requests
        PROVE  /\ \A l \in HandOf(request[q]) : lesson'[l].status # "untold"
               /\ request[q].at # "none" => request[q].of \in Lessons
               /\ request[q].at = "markRepeat" => request[q].repeats \in Lessons
    BY <1>5 DEF LessonsInv, Started
  <2> QED
    BY <1>3, <2>1 DEF Started
<1> QED
  BY <1>4, <1>6

(* The user's acts leave the requests where they are. *)
LEMMA VerdictActs ==
  ASSUME LessonsInv, request' = request, torn \subseteq torn', torn' \subseteq Lessons,
         lesson' \in [Lessons -> LessonRow], copies' \in Seq(CopyRow), Len(copies') = Len(copies),
         verdicts' \in 0..MaxVerdicts, lessonFaults' \in 0..MaxLessonFaults,
         \A l \in Lessons : /\ lesson'[l].memory = lesson[l].memory
                            /\ lesson'[l].status \in {"untold", "new"} => lesson[l].status = lesson'[l].status,
         \A l \in Lessons \ torn' :
           \/ KeptCopies(l)' \subseteq KeptCopies(l)
           \/ /\ KeptCopies(l)' \subseteq KeptCopies(l) \cup {lesson[l].memory}
              /\ \A q \in Requests : l \notin HandOf(request[q])
  PROVE  LessonsInv'
<1>1. LessonsTypeOK /\ Started /\ \A l \in Lessons \ torn : Single(l)
  BY DEF LessonsInv
<1>2. LessonsTypeOK'
  BY <1>1 DEF LessonsTypeOK, LessonRow, RequestRow
<1>3. \A q \in Requests : HandOf(request[q]) \subseteq Lessons
  BY <1>1 DEF LessonsTypeOK, HandOf, RequestRow
<1>4. Started'
  <2>1. ASSUME NEW q \in Requests
        PROVE  /\ \A l \in HandOf(request[q]) : lesson'[l].status # "untold"
               /\ request[q].at # "none" => request[q].of \in Lessons
               /\ request[q].at = "markRepeat" => request[q].repeats \in Lessons
    BY <1>1, <1>3 DEF Started
  <2>2. \A l \in Lessons : lesson'[l].status \in {"untold", "new"} => lesson'[l].memory = NotMade
    BY <1>1 DEF Started
  <2> QED
    BY <2>1, <2>2 DEF Started
<1>5. ASSUME NEW l \in Lessons \ torn' PROVE Single(l)'
  <2>1. Single(l)
    BY <1>1
  <2>4. request' = request /\ lesson'[l].memory = lesson[l].memory
    OBVIOUS
  <2>2. CASE KeptCopies(l)' \subseteq KeptCopies(l)
    BY <2>1, <2>2, <2>4, Zenon DEF Single
  <2>3. CASE /\ KeptCopies(l)' \subseteq KeptCopies(l) \cup {lesson[l].memory}
             /\ \A q \in Requests : l \notin HandOf(request[q])
    <3>1. \A q \in Requests : l # request[q].of
      BY <2>3, LessonConstants DEF HandOf
    <3> QED
      BY <2>1, <2>3, <2>4, <3>1 DEF Single
  <2> QED
    BY <2>2, <2>3
<1> QED
  BY <1>2, <1>4, <1>5 DEF LessonsInv

LEMMA Untouched ==
  ASSUME UNCHANGED copies, NEW l
  PROVE  KeptCopies(l)' = KeptCopies(l)
  BY DEF KeptCopies

LEMMA KeptAlike ==
  ASSUME DOMAIN copies' = DOMAIN copies,
         \A d \in DOMAIN copies : /\ copies'[d].of = copies[d].of
                                  /\ copies'[d].status = "disabled" <=> copies[d].status = "disabled"
  PROVE  \A l : KeptCopies(l)' = KeptCopies(l)
  BY DEF KeptCopies

(* Request r goes on and leaves the memories as they are. *)
LEMMA RequestGoes ==
  ASSUME LessonsInv, NEW r \in Requests, NEW next \in RequestRow, Go(r, next), copies' = copies, lesson' = lesson,
         torn \subseteq torn', torn' \subseteq Lessons, verdicts' \in 0..MaxVerdicts, lessonFaults' \in 0..MaxLessonFaults,
         \A l \in HandOf(next) : lesson[l].status # "untold",
         next.at # "none" => next.of \in Lessons,
         next.at = "markRepeat" => next.repeats \in Lessons,
         \A l \in HandOf(next) \ torn' : l \in HandOf(request[r]) \/ \A q \in Requests \ {r} : l \notin HandOf(request[q]),
         request[r].of \in Lessons \ torn' /\ request[r].at = "mark" => KeptCopies(request[r].of) \subseteq {lesson[request[r].of].memory},
         next.of \in Lessons \ torn' =>
           /\ next.at = "find" => lesson[next.of].memory = NotMade
           /\ next.at = "restore" => next.copy = lesson[next.of].memory
           /\ next.at = "insert" => KeptCopies(next.of) = {}
           /\ next.at = "mark" => KeptCopies(next.of) \subseteq {next.copy}
  PROVE  LessonsInv'
<1>1. LessonsTypeOK /\ Started /\ request' = [request EXCEPT ![r] = next]
  BY DEF LessonsInv, Go
<1>2. RequestRow' = RequestRow /\ LessonRow' = LessonRow /\ \A l : KeptCopies(l)' = KeptCopies(l)
  BY Untouched DEF RequestRow, LessonRow
<1>3. LessonsTypeOK' /\ Started'
  BY <1>1, <1>2, RequestShape DEF LessonsTypeOK, Started
<1>4. ASSUME NEW l \in Lessons \ torn' PROVE Single(l)'
  <2>1. Single(l)
    BY DEF LessonsInv
  <2>2. CASE l \notin HandOf(request[r]) /\ l \notin HandOf(next)
    BY <1>1, <1>2, <2>2, RequestMoves
  <2>3. CASE l \in HandOf(request[r]) \/ l \in HandOf(next)
    <3>1. l \in HandOf(request[r]) \/ \A q \in Requests \ {r} : l \notin HandOf(request[q])
      BY <2>3
    <3>2. \A q \in Requests \ {r} : request[q].of # l
      <4>1. \A q \in Requests \ {r} : l \notin HandOf(request[q])
        BY <2>1, <3>1 DEF Single
      <4> QED
        BY <4>1, LessonConstants DEF HandOf
    <3>3. KeptCopies(l) \subseteq {lesson[l].memory} \/ (request[r].of = l /\ request[r].at = "mark")
      BY <2>1, <3>2 DEF Single
    <3>4. KeptCopies(l) \subseteq {lesson[l].memory}
      BY <3>3
    <3> QED
      BY <1>1, <1>2, <3>1, <3>4, RequestMoves
  <2> QED
    BY <2>2, <2>3
<1> QED
  BY <1>3, <1>4 DEF LessonsInv

LEMMA LessonsStepInv == LessonsInv /\ [LessonsNext]_lessonVars => LessonsInv'
<1> SUFFICES ASSUME LessonsInv, [LessonsNext]_lessonVars PROVE LessonsInv'
  OBVIOUS
<1>0. /\ LessonsTypeOK /\ lesson \in [Lessons -> LessonRow] /\ copies \in Seq(CopyRow) /\ request \in [Requests -> RequestRow]
      /\ torn \subseteq Lessons /\ verdicts \in 0..MaxVerdicts /\ lessonFaults \in 0..MaxLessonFaults
      /\ Started /\ \A l \in Lessons \ torn : Single(l)
  BY DEF LessonsInv, LessonsTypeOK
<1>a. Len(copies) \in Nat /\ DOMAIN copies = 1..Len(copies)
  BY <1>0
<1>g. \A d \in DOMAIN copies : copies[d] \in CopyRow
  BY <1>0, <1>a, ElementOfSeq
<1>b. Unused \in RequestRow /\ HandOf(Unused) = {} /\ Unused.at = "none" /\ Unused.of = Nil /\ Unused.repeats = Nil
  BY <1>a DEF Unused, RequestRow, HandOf, Stops, NotMade
<1>c. \A r \in Requests : /\ HandOf(request[r]) \subseteq Lessons
                          /\ \A l \in HandOf(request[r]) : lesson[l].status # "untold"
                          /\ request[r].at # "none" => request[r].of \in HandOf(request[r])
  BY <1>0, LessonConstants DEF HandOf, RequestRow, Started
<1>d. (Verdict => verdicts' \in 0..MaxVerdicts) /\ (LessonFault => lessonFaults' \in 0..MaxLessonFaults)
  BY <1>0, LessonConstants DEF Verdict, LessonFault
<1>e. \A r : \A l \in Lessons : Meddled(r, l) =>
        /\ torn \subseteq torn' /\ torn' \subseteq Lessons
        /\ l \notin torn' => \A q \in Requests \ {r} : l \notin HandOf(request[q])
  <2>1. \A r : \A l \in Lessons : l \notin InHand(r) <=> \A q \in Requests \ {r} : l \notin HandOf(request[q])
    BY InHandOfOthers
  <2> QED
    BY <1>0, <2>1 DEF Meddled
<1>1. ASSUME NEW r \in Requests, NEW l \in Lessons, StoreLesson(r, l) PROVE LessonsInv'
  <2> DEFINE next == [Unused EXCEPT !.at = "find", !.of = l]
             told == [lesson[l] EXCEPT !.status = "new"]
  <2>1. /\ request' = [request EXCEPT ![r] = next] /\ lesson' = [lesson EXCEPT ![l] = told]
        /\ lesson[l].status = "untold" /\ UNCHANGED <<copies, torn, verdicts, lessonFaults>>
    BY <1>1 DEF StoreLesson, Go
  <2>a. next \in RequestRow /\ next.of = l /\ next.at = "find" /\ next.repeats = Nil
    BY <1>b DEF RequestRow, Stops
  <2>3. told \in LessonRow /\ told.status = "new" /\ told.memory = lesson[l].memory /\ lesson[l].memory = NotMade
    BY <1>0, <2>1 DEF LessonRow, Standings, Started
  <2> HIDE DEF next, told
  <2>2. next \in RequestRow /\ HandOf(next) = {l} /\ next.of = l /\ next.at = "find"
    BY <2>a, LessonConstants DEF HandOf
  <2>4. /\ lesson' \in [Lessons -> LessonRow] /\ lesson'[l] = told /\ \A m \in Lessons \ {l} : lesson'[m] = lesson[m]
        /\ \A m \in Lessons : lesson'[m].memory = lesson[m].memory
    BY <1>0, <2>1, <2>3
  <2>5. RequestRow' = RequestRow /\ LessonRow' = LessonRow /\ \A m : KeptCopies(m)' = KeptCopies(m)
    BY <2>1, Untouched DEF RequestRow, LessonRow
  <2>6. \A m \in Lessons : /\ lesson'[m].status \in {"untold", "new"} => lesson'[m].memory = NotMade
                           /\ lesson'[m].status = "untold" => lesson[m].status = "untold"
    BY <1>0, <2>3, <2>4 DEF Started
  <2>7. LessonsTypeOK' /\ Started'
    <3>1. /\ next \in RequestRow' /\ lesson' \in [Lessons -> LessonRow'] /\ copies' \in Seq(CopyRow) /\ Len(copies) <= Len(copies')
          /\ torn' \subseteq Lessons /\ verdicts' \in 0..MaxVerdicts /\ lessonFaults' \in 0..MaxLessonFaults
      BY <1>0, <1>a, <2>1, <2>2, <2>4, <2>5
    <3>2. \A m \in HandOf(next) : lesson'[m].status # "untold"
      BY <2>2, <2>3, <2>4
    <3> QED
      BY <2>1, <2>2, <2>6, <3>1, <3>2, RequestShape
  <2>8. ASSUME NEW m \in Lessons \ torn' PROVE Single(m)'
    <3>1. CASE m \notin HandOf(request[r]) /\ m # l
      BY <2>1, <2>2, <2>4, <2>5, <3>1, RequestMoves
    <3>2. HandOf(request[r]) = {}
      BY <1>1, <1>b DEF StoreLesson
    <3>3. CASE m = l
      <4>1. \A q \in Requests : l \notin HandOf(request[q])
        BY <1>c, <2>1
      <4>2. \A q \in Requests : request[q].of # l
        BY <4>1, LessonConstants DEF HandOf
      <4>3. KeptCopies(l) \subseteq {lesson[l].memory}
        BY <1>0, <2>1, <3>3, <4>2 DEF Single
      <4> QED
        BY <2>1, <2>2, <2>3, <2>4, <2>5, <3>3, <4>1, <4>3, RequestMoves
    <3> QED
      BY <3>1, <3>2, <3>3
  <2> QED
    BY <2>7, <2>8 DEF LessonsInv
<1>2. ASSUME NEW r \in Requests, FindRepeat(r) PROVE LessonsInv'
  <2>1. PICK e \in Earlier(request[r].of) : Go(r, [request[r] EXCEPT !.at = "insert", !.repeats = e]) /\ Meddled(r, e)
    BY <1>2 DEF FindRepeat
  <2> DEFINE next == [request[r] EXCEPT !.at = "insert", !.repeats = e]
  <2>2. /\ Go(r, next) /\ request[r].at = "find" /\ UNCHANGED <<lesson, copies, verdicts, lessonFaults>>
        /\ e \in Lessons /\ lesson[e].status # "untold"
    BY <1>2, <2>1 DEF FindRepeat, Earlier
  <2>3. next \in RequestRow /\ next.at = "insert" /\ next.of = request[r].of /\ next.repeats = e
    BY <1>0, <2>2 DEF RequestRow, Stops
  <2> HIDE DEF next
  <2>4. HandOf(next) \subseteq HandOf(request[r]) \cup {e} /\ next.of \in HandOf(request[r]) /\ next.of \in Lessons
    BY <1>c, <2>2, <2>3 DEF HandOf
  <2>5. torn \subseteq torn' /\ torn' \subseteq Lessons /\ (e \notin torn' => \A q \in Requests \ {r} : e \notin HandOf(request[q]))
    BY <1>e, <2>1, <2>2
  <2>6. ASSUME next.of \notin torn' PROVE KeptCopies(next.of) = {}
    <3>1. Single(next.of)
      BY <1>0, <2>4, <2>5, <2>6
    <3>2. \A q \in Requests : request[q].of = next.of => q = r
      BY <2>4, <3>1, LessonConstants DEF Single, HandOf
    <3>3. KeptCopies(next.of) \subseteq {NotMade}
      BY <2>2, <2>3, <3>1, <3>2 DEF Single
    <3>4. NotMade \notin DOMAIN copies
      BY <1>a DEF NotMade
    <3> QED
      BY <3>3, <3>4 DEF KeptCopies
  <2> QED
    BY <1>0, <1>c, <2>2, <2>3, <2>4, <2>5, <2>6, RequestGoes
<1>3. ASSUME NEW r \in Requests, NoRepeat(r) PROVE LessonsInv'
  BY <1>0, <1>b, <1>3, RequestGoes DEF NoRepeat
<1>4. ASSUME NEW r \in Requests, NEW l \in Lessons, PromoteNew(r, l) \/ SetPromoted(r, l) PROVE LessonsInv'
  <2>1. PICK at \in {"insert", "look"} :
          /\ StartRequest(r, l, at) /\ lesson[l].status # "untold"
          /\ at = "insert" => lesson[l].memory = NotMade
    <3>1. CASE PromoteNew(r, l)
      BY <1>0, <3>1 DEF PromoteNew, Started
    <3>2. CASE SetPromoted(r, l)
      BY <1>0, <3>2 DEF SetPromoted
    <3> QED
      BY <1>4, <3>1, <3>2
  <2> DEFINE next == [Unused EXCEPT !.at = at, !.of = l]
  <2>2. Go(r, next) /\ Meddled(r, l) /\ Verdict /\ request[r] = Unused /\ UNCHANGED <<lesson, copies, lessonFaults>>
    BY <2>1 DEF StartRequest
  <2>3. next \in RequestRow /\ next.of = l /\ next.at = at /\ next.repeats = Nil
    BY <1>b DEF RequestRow, Stops
  <2> HIDE DEF next
  <2>4. HandOf(next) = {l}
    BY <2>3, LessonConstants DEF HandOf
  <2>5. torn \subseteq torn' /\ torn' \subseteq Lessons /\ (l \notin torn' => \A q \in Requests \ {r} : l \notin HandOf(request[q]))
    BY <1>e, <2>2
  <2>6. ASSUME l \notin torn', at = "insert" PROVE KeptCopies(l) = {}
    <3>1. \A q \in Requests : l \notin HandOf(request[q])
      BY <1>b, <2>2, <2>5, <2>6
    <3>2. \A q \in Requests : request[q].of # l
      BY <3>1, LessonConstants DEF HandOf
    <3>3. KeptCopies(l) \subseteq {NotMade}
      BY <1>0, <2>1, <2>5, <2>6, <3>2 DEF Single
    <3>4. NotMade \notin DOMAIN copies
      BY <1>a DEF NotMade
    <3> QED
      BY <3>3, <3>4 DEF KeptCopies
  <2> QED
    BY <1>0, <1>b, <1>d, <2>1, <2>2, <2>3, <2>4, <2>5, <2>6, RequestGoes
<1>5. ASSUME NEW r \in Requests, LookAtCopy(r) PROVE LessonsInv'
  <2> DEFINE l == request[r].of
             c == lesson[l].memory
             next == CASE copies[c].status = "archived" -> [request[r] EXCEPT !.at = "restore", !.copy = c]
                       [] copies[c].status = "active"   -> [request[r] EXCEPT !.at = "mark", !.copy = c]
                       [] OTHER                         -> [request[r] EXCEPT !.at = "insert"]
  <2>1. Go(r, next) /\ request[r].at = "look" /\ UNCHANGED <<lesson, copies, torn, verdicts, lessonFaults>>
    BY <1>5 DEF LookAtCopy
  <2>2. l \in Lessons /\ l \in HandOf(request[r]) /\ c \in 0..Len(copies)
    BY <1>0, <1>c, <2>1 DEF LessonRow
  <2>3. /\ next \in RequestRow /\ next.of = l /\ next.repeats = request[r].repeats
        /\ \/ next.at = "insert" /\ copies[c].status \notin {"active", "archived"}
           \/ next.at \in {"restore", "mark"} /\ next.copy = c
    <3> HIDE DEF c
    <3>1. CASE copies[c].status = "archived"
      <4>1. next = [request[r] EXCEPT !.at = "restore", !.copy = c]
        BY <3>1
      <4> HIDE DEF next
      <4> QED
        BY <1>0, <2>2, <4>1 DEF RequestRow, Stops
    <3>2. CASE copies[c].status = "active"
      <4>1. next = [request[r] EXCEPT !.at = "mark", !.copy = c]
        BY <3>2
      <4> HIDE DEF next
      <4> QED
        BY <1>0, <2>2, <4>1 DEF RequestRow, Stops
    <3>3. CASE copies[c].status \notin {"archived", "active"}
      <4>1. next = [request[r] EXCEPT !.at = "insert"]
        BY <3>3
      <4> HIDE DEF next
      <4> QED
        BY <1>0, <3>3, <4>1 DEF RequestRow, Stops
    <3> QED
      BY <3>1, <3>2, <3>3
  <2> HIDE DEF next
  <2>4. HandOf(next) = HandOf(request[r])
    BY <2>3 DEF HandOf
  <2>5. ASSUME l \notin torn PROVE KeptCopies(l) \subseteq {c}
    <3>1. \A q \in Requests : request[q].of = l => q = r
      BY <1>0, <2>2, <2>5, LessonConstants DEF Single, HandOf
    <3> QED
      BY <1>0, <2>1, <2>2, <2>5, <3>1 DEF Single
  <2>6. ASSUME l \notin torn, copies[c].status \notin {"active", "archived"} PROVE KeptCopies(l) = {}
    <3>1. \A d \in DOMAIN copies : copies[d].status \in {"active", "archived", "disabled"}
      BY <1>g DEF CopyRow
    <3> QED
      BY <2>5, <2>6, <3>1 DEF KeptCopies
  <2>7. next.of \in Lessons \ torn' =>
          /\ next.at = "find" => lesson[next.of].memory = NotMade
          /\ next.at = "restore" => next.copy = lesson[next.of].memory
          /\ next.at = "insert" => KeptCopies(next.of) = {}
          /\ next.at = "mark" => KeptCopies(next.of) \subseteq {next.copy}
    BY <2>1, <2>3, <2>5, <2>6
  <2> QED
    BY <1>0, <1>c, <2>1, <2>2, <2>3, <2>4, <2>7, RequestGoes

<1>6. ASSUME NEW r \in Requests, RestoreCopy(r) PROVE LessonsInv'
  <2> DEFINE l == request[r].of
             c == request[r].copy
  <2>1. request[r].at = "restore" /\ l \in Lessons /\ l \in HandOf(request[r]) /\ c \in 0..Len(copies)
    BY <1>0, <1>c, <1>6 DEF RestoreCopy, RequestRow
  <2>2. ASSUME l \notin torn PROVE lesson[l].memory = c /\ KeptCopies(l) \subseteq {c}
    <3>1. Single(l)
      BY <1>0, <2>1, <2>2
    <3>2. \A q \in Requests : request[q].of = l => q = r
      BY <2>1, <3>1, LessonConstants DEF Single, HandOf
    <3> QED
      BY <2>1, <3>1, <3>2 DEF Single
  <2>3. CASE copies[c].status = "archived"
    <3> DEFINE next == [request[r] EXCEPT !.at = "mark"]
    <3>1. /\ Go(r, next) /\ copies' = [copies EXCEPT ![c] = [copies[c] EXCEPT !.status = "active"]]
          /\ UNCHANGED <<torn, lesson, verdicts, lessonFaults>>
      BY <1>6, <2>3 DEF RestoreCopy
    <3>2. next \in RequestRow /\ next.of = l /\ next.at = "mark" /\ next.copy = c /\ next.repeats = request[r].repeats
      BY <1>0, <2>1 DEF RequestRow, Stops
    <3> HIDE DEF next
    <3>3. HandOf(next) = HandOf(request[r])
      BY <3>2 DEF HandOf
    <3>4. /\ copies' \in Seq(CopyRow) /\ Len(copies') = Len(copies) /\ DOMAIN copies' = DOMAIN copies
          /\ \A m : KeptCopies(m)' = KeptCopies(m)
      <4>1. CASE c \notin DOMAIN copies
        <5>1. copies' = copies
          BY <1>0, <1>a, <3>1, <4>1
        <5> QED
          BY <1>0, <5>1, Untouched
      <4>2. CASE c \in DOMAIN copies
        <5>1. copies[c] \in CopyRow /\ [copies[c] EXCEPT !.status = "active"] \in CopyRow
          BY <1>g, <4>2 DEF CopyRow
        <5>2. /\ copies' \in Seq(CopyRow) /\ Len(copies') = Len(copies) /\ DOMAIN copies' = DOMAIN copies
              /\ copies'[c] = [copies[c] EXCEPT !.status = "active"]
              /\ \A d \in DOMAIN copies \ {c} : copies'[d] = copies[d]
          BY <1>0, <1>a, <3>1, <4>2, <5>1
        <5>3. copies'[c].of = copies[c].of /\ copies'[c].status = "active"
          BY <5>1, <5>2 DEF CopyRow
        <5> QED
          BY <2>3, <5>2, <5>3, KeptAlike
      <4> QED
        BY <4>1, <4>2
    <3>5. RequestRow' = RequestRow /\ LessonRow' = LessonRow /\ request' = [request EXCEPT ![r] = next]
      BY <3>1, <3>4 DEF RequestRow, LessonRow, Go
    <3>6. LessonsTypeOK' /\ Started'
      <4>1. /\ next \in RequestRow' /\ lesson' \in [Lessons -> LessonRow'] /\ copies' \in Seq(CopyRow) /\ Len(copies) <= Len(copies')
            /\ torn' \subseteq Lessons /\ verdicts' \in 0..MaxVerdicts /\ lessonFaults' \in 0..MaxLessonFaults
        BY <1>0, <1>a, <3>1, <3>2, <3>4, <3>5
      <4>2. \A m \in HandOf(next) : lesson'[m].status # "untold"
        BY <1>c, <3>1, <3>3
      <4>3. \A m \in Lessons : /\ lesson'[m].status \in {"untold", "new"} => lesson'[m].memory = NotMade
                               /\ lesson'[m].status = "untold" => lesson[m].status = "untold"
        BY <1>0, <3>1 DEF Started
      <4> QED
        BY <2>1, <3>2, <3>5, <4>1, <4>2, <4>3, RequestShape
    <3>7. ASSUME NEW m \in Lessons \ torn' PROVE Single(m)'
      <4>1. CASE m \notin HandOf(request[r])
        BY <3>1, <3>3, <3>4, <3>5, <4>1, RequestMoves
      <4>2. CASE m \in HandOf(request[r])
        <5>1. CASE m = l
          BY <2>2, <3>1, <3>2, <3>4, <3>5, <4>2, <5>1, RequestMoves
        <5>2. CASE m # l
          <6>1. \A q \in Requests : request[q].of # m
            BY <1>0, <3>1, <4>2, <5>2, LessonConstants DEF Single, HandOf
          <6>2. KeptCopies(m) \subseteq {lesson[m].memory}
            BY <1>0, <3>1, <6>1 DEF Single
          <6> QED
            BY <3>1, <3>2, <3>4, <3>5, <4>2, <5>2, <6>2, RequestMoves
        <5> QED
          BY <5>1, <5>2
      <4> QED
        BY <4>1, <4>2
    <3> QED
      BY <3>6, <3>7 DEF LessonsInv
  <2>4. CASE copies[c].status # "archived"
    <3> DEFINE next == [request[r] EXCEPT !.at = "insert"]
    <3>1. Go(r, next) /\ torn' = torn \cup {l} /\ UNCHANGED <<copies, lesson, verdicts, lessonFaults>>
      BY <1>6, <2>4 DEF RestoreCopy
    <3>2. next \in RequestRow /\ next.of = l /\ next.at = "insert" /\ next.repeats = request[r].repeats
      BY <1>0, <2>1 DEF RequestRow, Stops
    <3> HIDE DEF next
    <3>3. HandOf(next) = HandOf(request[r])
      BY <3>2 DEF HandOf
    <3> QED
      BY <1>0, <1>c, <2>1, <3>1, <3>2, <3>3, RequestGoes
  <2> QED
    BY <2>3, <2>4

<1>7. ASSUME NEW r \in Requests, InsertCopy(r) PROVE LessonsInv'
  <2>0. PICK l \in Lessons : l = request[r].of /\ l \in HandOf(request[r])
    BY <1>c, <1>7 DEF InsertCopy
  <2> DEFINE new == Len(copies) + 1
             fresh == [of |-> l, status |-> "active"]
             next == [request[r] EXCEPT !.at = "mark", !.copy = new]
  <2>1. /\ Go(r, next) /\ request[r].at = "insert" /\ copies' = Append(copies, fresh)
        /\ UNCHANGED <<torn, lesson, verdicts, lessonFaults>>
    BY <1>7, <2>0 DEF InsertCopy
  <2>2. l \in Lessons /\ l \in HandOf(request[r]) /\ fresh \in CopyRow
    BY <2>0 DEF CopyRow
  <2> HIDE DEF fresh
  <2>3. /\ copies' \in Seq(CopyRow) /\ Len(copies') = new /\ DOMAIN copies' = DOMAIN copies \cup {new}
        /\ copies'[new] = fresh /\ \A d \in DOMAIN copies : copies'[d] = copies[d]
    BY <1>0, <1>a, <2>1, <2>2
  <2>4. RequestRow \subseteq RequestRow' /\ LessonRow \subseteq LessonRow' /\ new \in 0..Len(copies')
    BY <1>a, <2>3 DEF RequestRow, LessonRow
  <2> HIDE DEF new
  <2>5. next \in RequestRow' /\ next.of = l /\ next.at = "mark" /\ next.copy = new /\ next.repeats = request[r].repeats
    <3>1. request[r] \in RequestRow'
      BY <1>0, <2>4
    <3> QED
      BY <2>0, <2>4, <3>1 DEF RequestRow, Stops
  <2> HIDE DEF next
  <2>6. HandOf(next) = HandOf(request[r]) /\ request' = [request EXCEPT ![r] = next]
    BY <2>0, <2>1, <2>5 DEF HandOf, Go
  <2>7. KeptCopies(l)' \subseteq KeptCopies(l) \cup {new} /\ \A m \in Lessons \ {l} : KeptCopies(m)' = KeptCopies(m)
    <3>1. fresh.of = l
      BY DEF fresh
    <3>2. ASSUME NEW m \in Lessons, NEW d \in KeptCopies(m)' PROVE d \in KeptCopies(m) \/ (d = new /\ m = l)
      BY <2>3, <3>1 DEF KeptCopies
    <3>3. ASSUME NEW m \in Lessons, NEW d \in KeptCopies(m) PROVE d \in KeptCopies(m)'
      BY <2>3 DEF KeptCopies
    <3>4. KeptCopies(l)' \subseteq KeptCopies(l) \cup {new}
      BY <2>2, <3>2
    <3>5. ASSUME NEW m \in Lessons \ {l} PROVE KeptCopies(m)' = KeptCopies(m)
      BY <3>2, <3>3
    <3> QED
      BY <3>4, <3>5
  <2>8. LessonsTypeOK' /\ Started'
    <3>1. lesson' \in [Lessons -> LessonRow'] /\ Len(copies) <= Len(copies')
      BY <1>0, <1>a, <2>1, <2>3, <2>4 DEF new
    <3>2. \A m \in HandOf(next) : lesson'[m].status # "untold"
      BY <1>c, <2>1, <2>6
    <3>3. \A m \in Lessons : /\ lesson'[m].status \in {"untold", "new"} => lesson'[m].memory = NotMade
                             /\ lesson'[m].status = "untold" => lesson[m].status = "untold"
      BY <1>0, <2>1 DEF Started
    <3> QED
      BY <1>0, <2>1, <2>2, <2>3, <2>5, <2>6, <3>1, <3>2, <3>3, RequestShape
  <2>9. ASSUME NEW m \in Lessons \ torn' PROVE Single(m)'
    <3>0. Single(m)
      BY <1>0, <2>1
    <3>1. CASE m \notin HandOf(request[r])
      BY <2>1, <2>2, <2>6, <2>7, <3>1, RequestMoves
    <3>2. CASE m = l
      <4>1. KeptCopies(l) = {}
        BY <2>0, <2>1, <3>0, <3>2 DEF Single
      <4>2. KeptCopies(m)' \subseteq {next.copy} /\ next.at = "mark" /\ next.of = m
        BY <2>5, <2>7, <3>2, <4>1
      <4> QED
        BY <2>1, <2>2, <2>6, <3>2, <4>2, RequestMoves
    <3>3. CASE m # l /\ m \in HandOf(request[r])
      <4>1. \A q \in Requests : request[q].of # m
        BY <2>0, <3>0, <3>3, LessonConstants DEF Single, HandOf
      <4>2. KeptCopies(m) \subseteq {lesson[m].memory}
        BY <3>0, <4>1 DEF Single
      <4> QED
        BY <2>1, <2>5, <2>6, <2>7, <3>3, <4>2, RequestMoves
    <3> QED
      BY <3>1, <3>2, <3>3
  <2> QED
    BY <2>8, <2>9 DEF LessonsInv
<1>8. ASSUME NEW r \in Requests, MarkPromoted(r) \/ MarkRepeat(r) PROVE LessonsInv'
  \* The lesson k is pointed at the memory c.
  <2> DEFINE c == request[r].copy
  <2>1. PICK k \in HandOf(request[r]) : \E next \in RequestRow :
          /\ Promoted(k, c) /\ Go(r, next) /\ UNCHANGED <<copies, verdicts, lessonFaults>>
          /\ torn \subseteq torn' /\ torn' \subseteq Lessons
          /\ k \notin torn' => KeptCopies(k) \subseteq {c}
          /\ HandOf(next) \subseteq HandOf(request[r])
          /\ next.at # "none" => next.of \in Lessons /\ next.at = "markRepeat" /\ next.repeats \in Lessons
          /\ request[r].at = "mark" => k = request[r].of
    <3>1. CASE MarkPromoted(r)
      <4> DEFINE next == IF request[r].repeats = Nil THEN Unused ELSE [request[r] EXCEPT !.at = "markRepeat"]
                 k == request[r].of
      <4>1. request[r].at = "mark" /\ k \in Lessons /\ k \in HandOf(request[r])
        BY <1>c, <3>1 DEF MarkPromoted
      <4>2. Promoted(k, c) /\ Go(r, next) /\ UNCHANGED <<copies, torn, verdicts, lessonFaults>>
        BY <3>1 DEF MarkPromoted
      <4>3. k \notin torn => KeptCopies(k) \subseteq {c}
        BY <1>0, <4>1 DEF Single
      <4>4. /\ next \in RequestRow /\ HandOf(next) \subseteq HandOf(request[r])
            /\ next.at # "none" => next.of \in Lessons /\ next.at = "markRepeat" /\ next.repeats \in Lessons
        <5>1. CASE request[r].repeats = Nil
          BY <1>b, <5>1
        <5>2. CASE request[r].repeats # Nil
          <6>1. next = [request[r] EXCEPT !.at = "markRepeat"] /\ request[r] \in RequestRow
            BY <1>0, <5>2
          <6> HIDE DEF next
          <6> QED
            BY <4>1, <5>2, <6>1 DEF RequestRow, Stops, HandOf
        <5> QED
          BY <5>1, <5>2
      <4> HIDE DEF next
      <4> QED
        BY <1>0, <4>1, <4>2, <4>3, <4>4
    <3>2. CASE MarkRepeat(r)
      <4> DEFINE k == request[r].repeats
      <4>1. request[r].at = "markRepeat" /\ k \in Lessons /\ k \in HandOf(request[r])
        BY <1>0, <3>2, LessonConstants DEF MarkRepeat, Started, HandOf
      <4>2. Promoted(k, c) /\ Go(r, Unused) /\ LetGo(k, c) /\ UNCHANGED <<copies, verdicts, lessonFaults>>
        BY <3>2 DEF MarkRepeat
      <4>3. torn \subseteq torn' /\ torn' \subseteq Lessons /\ (k \notin torn' => lesson[k].memory \in {NotMade, c} /\ k \notin torn)
        BY <1>0, <4>1, <4>2 DEF LetGo
      <4>4. ASSUME k \notin torn' PROVE KeptCopies(k) \subseteq {c}
        <5>1. \A q \in Requests : request[q].of = k => request[q].at # "mark"
          BY <1>0, <4>1, <4>3, <4>4, LessonConstants DEF Single, HandOf
        <5>2. KeptCopies(k) \subseteq {lesson[k].memory}
          BY <1>0, <4>1, <4>3, <4>4, <5>1 DEF Single
        <5>3. NotMade \notin KeptCopies(k)
          BY <1>a DEF KeptCopies, NotMade
        <5> QED
          BY <4>3, <4>4, <5>2, <5>3
      <4> QED
        BY <1>b, <4>1, <4>2, <4>3, <4>4
    <3> QED
      BY <1>8, <3>1, <3>2
  <2>2. PICK next \in RequestRow :
          /\ Promoted(k, c) /\ Go(r, next) /\ UNCHANGED <<copies, verdicts, lessonFaults>>
          /\ torn \subseteq torn' /\ torn' \subseteq Lessons
          /\ k \notin torn' => KeptCopies(k) \subseteq {c}
          /\ HandOf(next) \subseteq HandOf(request[r])
          /\ next.at # "none" => next.of \in Lessons /\ next.at = "markRepeat" /\ next.repeats \in Lessons
          /\ request[r].at = "mark" => k = request[r].of
    BY <2>1
  <2> DEFINE fresh == [status |-> "promoted", memory |-> c]
  <2>3. k \in Lessons /\ request' = [request EXCEPT ![r] = next] /\ lesson' = [lesson EXCEPT ![k] = fresh]
    BY <1>c, <2>2 DEF Go, Promoted
  <2>4. fresh \in LessonRow /\ fresh.memory = c /\ fresh.status = "promoted"
    BY <1>0 DEF RequestRow, LessonRow, Standings
  <2> HIDE DEF fresh, c
  <2>5. lesson' \in [Lessons -> LessonRow] /\ lesson'[k] = fresh /\ \A m \in Lessons \ {k} : lesson'[m] = lesson[m]
    BY <1>0, <2>3, <2>4
  <2>6. RequestRow' = RequestRow /\ LessonRow' = LessonRow /\ \A m : KeptCopies(m)' = KeptCopies(m)
    BY <2>2, Untouched DEF RequestRow, LessonRow
  <2>7. LessonsTypeOK' /\ Started'
    <3>1. /\ next \in RequestRow' /\ lesson' \in [Lessons -> LessonRow'] /\ copies' \in Seq(CopyRow) /\ Len(copies) <= Len(copies')
          /\ torn' \subseteq Lessons /\ verdicts' \in 0..MaxVerdicts /\ lessonFaults' \in 0..MaxLessonFaults
      BY <1>0, <1>a, <2>2, <2>5, <2>6
    <3>2. \A m \in HandOf(next) : lesson'[m].status # "untold"
      BY <1>c, <2>2, <2>4, <2>5
    <3>3. \A m \in Lessons : (lesson'[m].status \in {"untold", "new"} => lesson'[m].memory = NotMade)
                           /\ (lesson'[m].status = "untold" => lesson[m].status = "untold")
      BY <1>0, <2>4, <2>5 DEF Started
    <3> QED
      BY <2>2, <2>3, <3>1, <3>2, <3>3, RequestShape
  <2>8. ASSUME NEW m \in Lessons \ torn' PROVE Single(m)'
    <3>0. Single(m)
      BY <1>0, <2>2
    <3>1. CASE m \notin HandOf(request[r])
      BY <2>2, <2>3, <2>5, <2>6, <3>1, RequestMoves
    <3>2. CASE m = k
      BY <2>2, <2>3, <2>4, <2>5, <2>6, <3>2, RequestMoves
    <3>3. CASE m # k /\ m \in HandOf(request[r])
      <4>1. \A q \in Requests : request[q].of = m => request[q].at # "mark"
        BY <2>2, <3>0, <3>3, LessonConstants DEF Single, HandOf
      <4>2. KeptCopies(m) \subseteq {lesson[m].memory}
        BY <3>0, <4>1 DEF Single
      <4> QED
        BY <2>2, <2>3, <2>5, <2>6, <3>3, <4>2, RequestMoves
    <3> QED
      BY <3>1, <3>2, <3>3
  <2> QED
    BY <2>7, <2>8 DEF LessonsInv
<1>9. ASSUME NEW r \in Requests, RequestFails(r) PROVE LessonsInv'
  BY <1>0, <1>b, <1>c, <1>d, <1>9, RequestGoes DEF RequestFails, Single
<1>10. ASSUME NEW l \in Lessons, Dismiss(l) PROVE LessonsInv'
  <2> DEFINE fresh == [lesson[l] EXCEPT !.status = "dismissed"]
  <2>1. lesson' = [lesson EXCEPT ![l] = fresh] /\ Verdict /\ UNCHANGED <<copies, request, torn, lessonFaults>>
    BY <1>10 DEF Dismiss
  <2>2. fresh \in LessonRow /\ fresh.memory = lesson[l].memory /\ fresh.status = "dismissed"
    BY <1>0 DEF LessonRow, Standings
  <2> HIDE DEF fresh
  <2>3. lesson' \in [Lessons -> LessonRow] /\ lesson'[l] = fresh /\ \A m \in Lessons \ {l} : lesson'[m] = lesson[m]
    BY <1>0, <2>1, <2>2
  <2>4. \A m \in Lessons : (lesson'[m].memory = lesson[m].memory)
                         /\ (lesson'[m].status \in {"untold", "new"} => lesson[m].status = lesson'[m].status)
    BY <2>2, <2>3
  <2> QED
    BY <1>0, <1>d, <2>1, <2>3, <2>4, Untouched, VerdictActs
<1>11. ASSUME NEW c \in DOMAIN copies, ArchiveCopy(c) \/ RestoreByHand(c) \/ DisableCopy(c) \/ EnableCopy(c) PROVE LessonsInv'
  <2>1. PICK to \in {"active", "archived", "disabled"} :
          \E from : CopySet(c, from, to) /\ (from = "disabled" => to = "active")
    BY <1>11 DEF ArchiveCopy, RestoreByHand, DisableCopy, EnableCopy
  <2> DEFINE fresh == [copies[c] EXCEPT !.status = to]
  <2>2. /\ copies' = [copies EXCEPT ![c] = fresh] /\ Verdict /\ UNCHANGED <<lesson, request, lessonFaults>>
        /\ copies[c].status = "disabled" => to = "active"
        /\ torn' = IF to = "active" /\ (lesson[copies[c].of].memory # c \/ copies[c].of \in InHand(Nil))
                   THEN torn \cup {copies[c].of} ELSE torn
    BY <2>1 DEF CopySet
  <2>3. copies[c] \in CopyRow /\ fresh \in CopyRow /\ fresh.of = copies[c].of /\ fresh.status = to
    BY <1>g DEF CopyRow
  <2> HIDE DEF fresh
  <2>4. /\ copies' \in Seq(CopyRow) /\ Len(copies') = Len(copies) /\ DOMAIN copies' = DOMAIN copies
        /\ copies'[c] = fresh /\ \A d \in DOMAIN copies \ {c} : copies'[d] = copies[d]
    BY <1>0, <1>a, <2>2, <2>3
  <2>5. torn \subseteq torn' /\ torn' \subseteq Lessons
    BY <1>0, <2>2, <2>3 DEF CopyRow
  <2>6. ASSUME NEW l \in Lessons \ torn'
        PROVE  \/ KeptCopies(l)' \subseteq KeptCopies(l)
               \/ /\ KeptCopies(l)' \subseteq KeptCopies(l) \cup {lesson[l].memory}
                  /\ \A q \in Requests : l \notin HandOf(request[q])
    <3>1. CASE copies[c].status # "disabled" \/ copies[c].of # l
      BY <2>3, <2>4, <3>1 DEF KeptCopies
    <3>2. CASE copies[c].status = "disabled" /\ copies[c].of = l
      <4>1. lesson[l].memory = c /\ l \notin InHand(Nil)
        BY <2>2, <3>2
      <4>2. \A q \in Requests : l \notin HandOf(request[q])
        BY <4>1, InHandOfOthers, LessonConstants
      <4>3. KeptCopies(l)' \subseteq KeptCopies(l) \cup {c}
        BY <2>4 DEF KeptCopies
      <4> QED
        BY <4>1, <4>2, <4>3
    <3> QED
      BY <3>1, <3>2
  <2>7. \A m \in Lessons : (lesson'[m].memory = lesson[m].memory)
                         /\ (lesson'[m].status \in {"untold", "new"} => lesson[m].status = lesson'[m].status)
    BY <2>2
  <2> QED
    BY <1>0, <1>d, <2>2, <2>4, <2>5, <2>6, <2>7, VerdictActs
<1>12. CASE UNCHANGED lessonVars
  BY <1>0, <1>12, Untouched, VerdictActs DEF lessonVars
<1> QED
  BY <1>1, <1>2, <1>3, <1>4, <1>5, <1>6, <1>7, <1>8, <1>9, <1>10, <1>11, <1>12 DEF LessonsNext

(* Every variable of the lessons stays in its domain. *)
THEOREM LessonsTypeCorrect == LessonsSpec => []LessonsTypeOK
<1>1. LessonsInv => LessonsTypeOK
  BY DEF LessonsInv
<1> QED
  BY <1>1, LessonsInitInv, LessonsStepInv, PTL DEF LessonsSpec

(* Whatever order sessions, the user and the console promote, dismiss, archive and
   restore in, a lesson has one memory that is active, unless two requests were at
   it at once or one was torn off half way. *)
THEOREM OneCopyPerLessonHolds == LessonsSpec => []OneCopyPerLesson
<1>1. LessonsInv => OneCopyPerLesson
  <2> SUFFICES ASSUME LessonsInv, NEW l \in Lessons \ torn, NEW c \in DOMAIN copies, NEW d \in DOMAIN copies,
                      copies[c] = [of |-> l, status |-> "active"], copies[d] = copies[c]
               PROVE  c = d
    BY DEF OneCopyPerLesson
  <2>1. Single(l) /\ c \in KeptCopies(l) /\ d \in KeptCopies(l)
    BY DEF LessonsInv, KeptCopies
  <2> QED
    BY <2>1 DEF Single
<1> QED
  BY <1>1, LessonsInitInv, LessonsStepInv, PTL DEF LessonsSpec
=============================================================================
