---------------------------- MODULE MemoryProps ----------------------------
(* What the memory store and the machines' copies of it are meant to keep. *)
EXTENDS MemoryCache

\* Every variable holds what the tables, the requests and the cache files can hold.
TypeOK ==
  /\ row \in [Ids -> Row]
  /\ history \subseteq Recorded
  /\ now \in Nat
  /\ locale \in [Users -> Locales]
  /\ token \in [Sessions -> Tokens]
  /\ req \in [Sessions -> Request]
  /\ cache \in [Machines -> Cache]
  /\ sync \in [Machines -> Sync]

\* The texts that can still be had of a memory: the one in its row, those in its history,
\* and those a handler that has written its row is about to put there.
Known == {<<i, row[i].text>> : i \in Ids} \cup history
         \cup UNION {req[s].saved : s \in Sessions}

\* No step loses a text a memory once had (mcp/index.js: "The previous content is
\* automatically archived to history").
TextsKept == [][\A k \in Known : k[2] # None => k \in Known']_vars

\* Of any memories merged into one another one is left that was not merged away: merging
\* never disables every copy of a text (POST /merge: "two memories that say the same thing
\* become one").
MergesLeaveOne ==
  \A S \in SUBSET Ids : S # {} => \E i \in S : row[i].into \notin S

\* Only an active memory is archived: one disabled as wrong or merged away by a concurrent
\* request does not come back as a historical fact.
ArchiveOnlyActive ==
  [][\A i \in Ids : row'[i].status = "archived" => row[i].status \in {"active", "archived"}]_vars

\* A machine whose cached token is the server's holds every memory it would be served,
\* with its current text, and the account's language (it may hold more: see
\* WritesMoveToken).
TokenCoversEdits ==
  \A m \in Machines : cache[m].token = SyncToken(AccountOf[m]) =>
    /\ cache[m].locale = locale[AccountOf[m]]
    /\ \A i \in Served(AccountOf[m]) :
         i \in DOMAIN cache[m].rows /\ cache[m].rows[i] = row[i].text

\* Once writing stops, every machine's copy is in the end what the server serves.
CacheCatchesUp ==
  <>[][UNCHANGED storeVars]_vars =>
    <>[](\A m \in Machines : LET u == AccountOf[m] IN
           /\ cache[m].rows = [i \in Served(u) |-> row[i].text]
           /\ cache[m].locale = locale[u])

\* "Any write to any of those changes the token": the account's memories and the team
\* standards (syncToken.js).
WritesMoveToken ==
  [][\A u \in Users, i \in Ids :
       (Owner[i] = u \/ Shared(i)) /\ row'[i] # row[i] => SyncToken(u)' # SyncToken(u)]_vars

=============================================================================
