---------------------------- MODULE MemoryStore ----------------------------
(***************************************************************************)
(* The memories of an OwnMind server and the routes that write them        *)
(* (src/src/routes/memory.js).  A handler is a chain of separate SQL       *)
(* statements with no transaction around them: the sync token is checked,  *)
(* the row is read, the row is written, the history entry is inserted.     *)
(* Between two of them the handlers of other sessions run, and any of them *)
(* may be the last (a statement fails, the process dies).  One SQL         *)
(* statement is one step here.                                             *)
(*                                                                         *)
(* A memory's text is a model value; titles, tags, metadata, lint, the     *)
(* secret guard and the activity log are left out, and so are requests     *)
(* refused before they reach a write, which change nothing.                *)
(***************************************************************************)
EXTENDS Naturals, FiniteSets

CONSTANTS
  Users,      \* accounts
  Admins,     \* the accounts whose role is admin or above
  Sessions,   \* clients that write: an AI session's MCP server, the console
  UserOf,     \* the account each session signs in with
  Ids,        \* the row ids the serial column will hand out
  Owner,      \* the account that creates each of them
  Kind,       \* its type
  Seeded,     \* the memories the store already holds when the model starts
  Texts,      \* contents
  Locales,    \* the values of users.settings.locale, "unset" one of them
  MaxNow,     \* bound: no request begins once the writes made and in flight reach it
  Overlap,    \* may two requests be in flight at the same time?
  MayFail,    \* may a statement fail, or the server die, in the middle of a handler?
  MayRevert   \* does anybody call PUT /:id/revert?

None == "none"
Kinds == {"iron_rule", "project", "team_standard"}

ASSUME StoreConstants ==
  /\ Admins \subseteq Users
  /\ UserOf \in [Sessions -> Users]
  /\ Owner \in [Ids -> Users]
  /\ Kind \in [Ids -> Kinds]
  /\ None \notin Ids /\ Seeded \subseteq Ids
  /\ Texts # {}
  /\ "unset" \in Locales
  /\ MaxNow \in Nat
  /\ {Overlap, MayFail, MayRevert} \subseteq BOOLEAN

VARIABLES
  row,      \* the memories table
  history,  \* memory_history: which text was recorded for which memory
  now,      \* the clock NOW() reads; it ticks at every write
  locale,   \* users.settings.locale
  token,    \* the sync token each session holds
  req       \* the request each session has in flight

storeVars == <<row, history, now, locale, token, req>>

Statuses == {"absent", "active", "disabled", "archived"}
Row == [status : Statuses, text : Texts \cup {None}, previous : Texts \cup {None},
        stamp : Nat, into : Ids \cup {None}]
NoRow == [status |-> "absent", text |-> None, previous |-> None, stamp |-> 0, into |-> None]

Ops == {"create", "update", "disable", "enable", "merge", "archive", "restore", "decide", "revert"}
Steps == {"idle", "checked", "found", "ready", "dropped", "written"}
Recorded == Ids \X Texts
Request == [op : Ops \cup {None}, id : Ids \cup {None}, other : Ids \cup {None},
            text : Texts \cup {None}, pc : Steps, old : Row, saved : SUBSET Recorded]
Idle == [op |-> None, id |-> None, other |-> None, text |-> None, pc |-> "idle",
         old |-> NoRow, saved |-> {}]

-----------------------------------------------------------------------------
(* Sync tokens                                                             *)

Active == {i \in Ids : row[i].status = "active"}

\* COALESCE(MAX(updated_at)) over a set of rows.
Newest(S) == CHOOSE n \in 0..now : /\ \A i \in S : row[i].stamp <= n
                                   /\ n = 0 \/ \E i \in S : row[i].stamp = n

\* generateSyncToken: what the hash is taken of.
SyncToken(u) ==
  [own    |-> Newest({i \in Active : Owner[i] = u}),
   team   |-> Newest({i \in Active : Kind[i] = "team_standard"}),
   locale |-> locale[u]]

Tokens == [own : Nat, team : Nat, locale : Locales]

-----------------------------------------------------------------------------
(* Who may write what                                                      *)

Shared(i) == Kind[i] = "team_standard"

\* resolveWritableMemory and the admin gate of every write route.
Writable(u, i) ==
  /\ Owner[i] = u \/ (Shared(i) /\ u \in Admins)
  /\ Shared(i) => u \in Admins

Busy == {s \in Sessions : req[s].pc # "idle"}

Room == now + Cardinality(Busy) < MaxNow

\* The parameters a request may name.  A serial id is handed out once.
Sensible(s, op, i, j, t) ==
  LET u == UserOf[s] IN
  /\ Writable(u, i)
  /\ IF op = "create"
     THEN /\ Owner[i] = u /\ row[i].status = "absent"
          /\ \A r \in Sessions : ~(req[r].op = "create" /\ req[r].id = i)
     ELSE row[i].status # "absent"
  /\ IF op = "merge"
     THEN j \in Ids \ {i} /\ row[j].status # "absent" /\ Writable(u, j)
     ELSE j = None
  /\ CASE op \in {"create", "update", "decide"} -> t \in Texts
       [] op = "revert"                         -> MayRevert /\ <<i, t>> \in history
       [] OTHER                                 -> t = None

-----------------------------------------------------------------------------
(* The handlers                                                            *)

FirstText == CHOOSE t \in Texts : TRUE

StoreInit ==
  /\ row = [i \in Ids |-> IF i \in Seeded
                          THEN [NoRow EXCEPT !.status = "active", !.text = FirstText, !.stamp = 1]
                          ELSE NoRow]
  /\ history = Seeded \X {FirstText}
  /\ now = 1
  /\ locale = [u \in Users |-> "unset"]
  /\ token = [s \in Sessions |-> [own |-> 0, team |-> 0, locale |-> "unset"]]
  /\ req = [s \in Sessions |-> Idle]

\* A request whose token was checked.  POST / has no row to read.
Sent(op, i, j, t) ==
  [op |-> op, id |-> i, other |-> j, text |-> t,
   pc |-> IF op = "create" THEN "ready" ELSE "checked", old |-> NoRow, saved |-> {}]

\* A request arrives and checkSyncToken lets it pass; revert does not ask for a token.
Begin(s) ==
  /\ req[s].pc = "idle"
  /\ Overlap \/ Busy = {}
  /\ Room
  /\ \E op \in Ops, i \in Ids, j \in Ids \cup {None}, t \in Texts \cup {None} :
       /\ Sensible(s, op, i, j, t)
       /\ op = "revert" \/ token[s] = SyncToken(UserOf[s])
       /\ req' = [req EXCEPT ![s] = Sent(op, i, j, t)]
  /\ UNCHANGED <<row, history, now, locale, token>>

\* 409 sync_token_stale: the client asks GET /sync-token, and sends the request again.
RefreshSyncToken(s) ==
  /\ req[s].pc = "idle"
  /\ token[s] # SyncToken(UserOf[s])
  /\ token' = [token EXCEPT ![s] = SyncToken(UserOf[s])]
  /\ UNCHANGED <<row, history, now, locale, req>>

Answer(s) == req' = [req EXCEPT ![s] = Idle]

\* The status an operation asks of the row it read; 409 otherwise.
Allowed(op, r, i) ==
  CASE op = "archive" -> r.status = "active" /\ Kind[i] = "project"
    [] op = "restore" -> r.status = "archived"
    [] op = "decide"  -> r.status = "active"
    [] OTHER          -> TRUE

\* resolveWritableMemory reads the row.
ReadRow(s) ==
  LET i == req[s].id  op == req[s].op IN
  /\ req[s].pc = "checked"
  /\ IF Allowed(op, row[i], i)
     THEN req' = [req EXCEPT ![s].old = row[i],
                             ![s].pc = IF op \in {"merge", "decide"} THEN "found" ELSE "ready"]
     ELSE Answer(s)
  /\ UNCHANGED <<row, history, now, locale, token>>

\* Mutant: the statuses are not looked at before merging.
MergeAny(s) ==
  /\ req[s].pc = "found" /\ req[s].op = "merge"
  /\ req' = [req EXCEPT ![s].pc = "ready"]
  /\ UNCHANGED <<row, history, now, locale, token>>

\* merge reads `drop`, and both must be active, of one owner and one type.
ReadDropped(s) ==
  LET i == req[s].id  j == req[s].other IN
  /\ req[s].pc = "found" /\ req[s].op = "merge"
  /\ IF /\ req[s].old.status = "active" /\ row[j].status = "active"
        /\ Owner[i] = Owner[j] /\ Kind[i] = Kind[j]
     THEN req' = [req EXCEPT ![s].pc = "ready"]
     ELSE Answer(s)
  /\ UNCHANGED <<row, history, now, locale, token>>

\* decide reads the content again, to put the decision above it.
ReadContent(s) ==
  /\ req[s].pc = "found" /\ req[s].op = "decide"
  /\ req' = [req EXCEPT ![s].old = row[req[s].id], ![s].pc = "ready"]
  /\ UNCHANGED <<row, history, now, locale, token>>

\* Mutant: the statement forgets updated_at.
PutUnstamped(s, i, r, saved) ==
  /\ row' = [row EXCEPT ![i] = r]
  /\ now' = now + 1
  /\ req' = [req EXCEPT ![s].pc = "written", ![s].saved = saved]
  /\ UNCHANGED <<history, locale, token>>

\* One UPDATE or INSERT: the row changes, updated_at with it, and `saved` is what the
\* history entry of the next statement will hold.
Put(s, i, r, saved) ==
  /\ row' = [row EXCEPT ![i] = [r EXCEPT !.stamp = now + 1]]
  /\ now' = now + 1
  /\ req' = [req EXCEPT ![s].pc = "written", ![s].saved = saved]
  /\ UNCHANGED <<history, locale, token>>

Create(s) ==
  /\ req[s].pc = "ready" /\ req[s].op = "create"
  /\ Put(s, req[s].id, [NoRow EXCEPT !.status = "active", !.text = req[s].text],
         {<<req[s].id, req[s].text>>})

\* Mutant: the history entry holds the text that was sent.
RecordNew(s) ==
  LET i == req[s].id  t == req[s].text IN
  /\ req[s].pc = "ready" /\ req[s].op = "update"
  /\ Put(s, i, [row[i] EXCEPT !.text = t], {<<i, t>>})

\* PUT /:id.  An iron rule's replaced text goes to previous_content inside the statement.
Update(s) ==
  LET i == req[s].id  t == req[s].text IN
  /\ req[s].pc = "ready" /\ req[s].op = "update"
  /\ Put(s, i, [row[i] EXCEPT !.text = t,
                  !.previous = IF Kind[i] = "iron_rule" /\ t # req[s].old.text THEN row[i].text ELSE @],
         {<<i, req[s].old.text>>})

Disable(s) ==
  LET i == req[s].id IN
  /\ req[s].pc = "ready" /\ req[s].op = "disable"
  /\ Put(s, i, [row[i] EXCEPT !.status = "disabled", !.into = None], {<<i, row[i].text>>})

Enable(s) ==
  LET i == req[s].id IN
  /\ req[s].pc = "ready" /\ req[s].op = "enable"
  /\ Put(s, i, [row[i] EXCEPT !.status = "active", !.into = None], {<<i, row[i].text>>})

\* 409: the guarded UPDATE matched no row.
Lost(s) == Answer(s) /\ UNCHANGED <<row, history, now, locale, token>>

\* Mutant: the UPDATE trusts the status that was read.
ArchiveUnguarded(s) ==
  LET i == req[s].id IN
  /\ req[s].pc = "ready" /\ req[s].op = "archive"
  /\ Put(s, i, [row[i] EXCEPT !.status = "archived"], {<<i, row[i].text>>})

Archive(s) ==
  LET i == req[s].id IN
  /\ req[s].pc = "ready" /\ req[s].op = "archive"
  /\ IF row[i].status = "active"
     THEN Put(s, i, [row[i] EXCEPT !.status = "archived"], {<<i, row[i].text>>})
     ELSE Lost(s)

Restore(s) ==
  LET i == req[s].id IN
  /\ req[s].pc = "ready" /\ req[s].op = "restore"
  /\ IF row[i].status = "archived"
     THEN Put(s, i, [row[i] EXCEPT !.status = "active"], {<<i, row[i].text>>})
     ELSE Lost(s)

Decide(s) ==
  LET i == req[s].id IN
  /\ req[s].pc = "ready" /\ req[s].op = "decide"
  /\ Put(s, i, [row[i] EXCEPT !.text = req[s].text, !.previous = req[s].old.text],
         {<<i, req[s].old.text>>})

\* PUT /:id/revert: the text put back is the text recorded.
Revert(s) ==
  LET i == req[s].id IN
  /\ req[s].pc = "ready" /\ req[s].op = "revert"
  /\ Put(s, i, [row[i] EXCEPT !.text = req[s].text], {<<i, req[s].text>>})

\* POST /merge: disable `drop` while it is active, then touch `keep`.
DropMerged(s) ==
  LET j == req[s].other IN
  /\ req[s].pc = "ready" /\ req[s].op = "merge"
  /\ IF row[j].status = "active"
     THEN /\ row' = [row EXCEPT ![j] = [@ EXCEPT !.status = "disabled", !.into = req[s].id, !.stamp = now + 1]]
          /\ now' = now + 1
          /\ req' = [req EXCEPT ![s].pc = "dropped", ![s].saved = {<<j, row[j].text>>}]
          /\ UNCHANGED <<history, locale, token>>
     ELSE Lost(s)

TouchKept(s) ==
  LET i == req[s].id IN
  /\ req[s].pc = "dropped"
  /\ Put(s, i, row[i], req[s].saved \cup {<<i, row[i].text>>})

\* The history entry is inserted and the answer carries a new token (revert's does not).
Record(s) ==
  /\ req[s].pc = "written"
  /\ history' = history \cup req[s].saved
  /\ token' = IF req[s].op = "revert" THEN token
              ELSE [token EXCEPT ![s] = SyncToken(UserOf[s])]
  /\ Answer(s)
  /\ UNCHANGED <<row, now, locale>>

\* A statement throws and the handler answers 500, or the server dies: what was written stays.
Fail(s) ==
  /\ MayFail
  /\ req[s].pc # "idle"
  /\ Answer(s)
  /\ UNCHANGED <<row, history, now, locale, token>>

\* PUT /locale: no token asked, one handed back.
SetLocale(s) ==
  /\ req[s].pc = "idle"
  /\ Overlap \/ Busy = {}
  /\ Room
  /\ \E l \in Locales \ {locale[UserOf[s]]} :
       LET u == UserOf[s] IN
       /\ locale' = [locale EXCEPT ![u] = l]
       /\ token' = [token EXCEPT ![s] = [SyncToken(u) EXCEPT !.locale = l]]
  /\ now' = now + 1
  /\ UNCHANGED <<row, history, req>>

Handle(s) ==
  \/ ReadRow(s) \/ ReadDropped(s) \/ ReadContent(s)
  \/ Create(s) \/ Update(s) \/ Disable(s) \/ Enable(s) \/ Archive(s) \/ Restore(s)
  \/ Decide(s) \/ Revert(s) \/ DropMerged(s) \/ TouchKept(s) \/ Record(s)

StoreNext ==
  \E s \in Sessions : Begin(s) \/ RefreshSyncToken(s) \/ Handle(s) \/ Fail(s) \/ SetLocale(s)

=============================================================================
