----------------------------- MODULE SessionLog -----------------------------
(***************************************************************************)
(* compressOldSessions (src/routes/session.js): GET /init starts it in the *)
(* background, and it puts one summary in the place of a month of old      *)
(* sessions.  Its BEGIN, its statements and its COMMIT are calls of        *)
(* query(), and each takes whichever connection of the pool is free        *)
(* (src/utils/db.js), while the statements of other requests do the same.  *)
(*                                                                         *)
(* One person and one month; its sessions are locked and deleted together. *)
(***************************************************************************)
EXTENDS Naturals, Sequences

CONSTANTS
  Connections,  \* the pool, at most as many as its max
  Inits,        \* the compressions under way; the summary each inserts has its name
  Requests,     \* other requests, with one INSERT each: none of them an Init
  NoConnection

VARIABLES
  logged,    \* session_logs: are the month's sessions in it?
  rows,      \* what else is committed: summaries, and the rows of other requests
  tx,        \* the open transaction of each connection
  idle,      \* the pool's idle connections, the last released last
  stage,     \* the statement each compression and each request is at
  uses       \* the connection it has for it

sessionLogVars == <<logged, rows, tx, idle, stage, uses>>

Autocommit == [open |-> FALSE, inserted |-> {}, locked |-> FALSE, deleted |-> FALSE]

SessionLogInit ==
  /\ logged = TRUE /\ rows = {} /\ idle = <<>>
  /\ tx = [k \in Connections |-> Autocommit]
  /\ stage = [p \in Inits \cup Requests |-> IF p \in Inits THEN "read" ELSE "insert"]
  /\ uses = [p \in Inits \cup Requests |-> NoConnection]

-----------------------------------------------------------------------------
(* the pool                                                                *)

InUse == {uses[p] : p \in DOMAIN uses} \cup {idle[i] : i \in DOMAIN idle}

\* pool.query: the connection released last, or else a new one.
TakeConnection(p) ==
  /\ stage[p] # "over" /\ uses[p] = NoConnection
  /\ \/ /\ idle # <<>>
        /\ uses' = [uses EXCEPT ![p] = idle[Len(idle)]] /\ idle' = SubSeq(idle, 1, Len(idle) - 1)
     \/ /\ idle = <<>> /\ UNCHANGED idle
        /\ \E k \in Connections \ InUse : uses' = [uses EXCEPT ![p] = k]
  /\ UNCHANGED <<logged, rows, tx, stage>>

Release(p, next) ==
  /\ uses' = [uses EXCEPT ![p] = NoConnection] /\ idle' = Append(idle, uses[p])
  /\ stage' = [stage EXCEPT ![p] = next]

\* A connection that is idle for ten seconds is closed, and what it had open is
\* rolled back.  Whoever is between two statements is done with that long before.
CloseIdle(k) ==
  /\ \E i \in DOMAIN idle : idle[i] = k
  /\ \A p \in DOMAIN stage : uses[p] = NoConnection => stage[p] \in {"read", "over"}
  /\ idle' = SelectSeq(idle, LAMBDA other : other # k)
  /\ tx' = [tx EXCEPT ![k] = Autocommit]
  /\ UNCHANGED <<logged, rows, stage, uses>>

-----------------------------------------------------------------------------
(* the statements                                                          *)

At(p, where) == stage[p] = where /\ uses[p] # NoConnection
Sees(k) == logged /\ ~tx[k].deleted
HeldElsewhere(k) == \E other \in Connections \ {k} : tx[other].locked \/ tx[other].deleted

ReadOld(p) ==
  /\ At(p, "read")
  /\ Release(p, IF Sees(uses[p]) THEN "begin" ELSE "over")
  /\ UNCHANGED <<logged, rows, tx>>

\* In a transaction another BEGIN is a warning.
Begin(p) ==
  /\ At(p, "begin")
  /\ tx' = [tx EXCEPT ![uses[p]].open = TRUE]
  /\ Release(p, "lock")
  /\ UNCHANGED <<logged, rows>>

\* FOR UPDATE SKIP LOCKED; outside a transaction the locks end with the statement.
LockOld(p) == LET k == uses[p]
                 free == Sees(k) /\ ~HeldElsewhere(k) IN
  /\ At(p, "lock")
  /\ tx' = [tx EXCEPT ![k].locked = @ \/ (free /\ tx[k].open)]
  /\ Release(p, IF free THEN "insert" ELSE "rollback")
  /\ UNCHANGED <<logged, rows>>

InsertRow(p) == LET k == uses[p] IN
  /\ At(p, "insert")
  /\ IF tx[k].open THEN tx' = [tx EXCEPT ![k].inserted = @ \cup {p}] /\ UNCHANGED rows
                   ELSE rows' = rows \cup {p} /\ UNCHANGED tx
  /\ Release(p, IF p \in Inits THEN "delete" ELSE "over")
  /\ UNCHANGED logged

\* Waits while another connection holds the rows.
DeleteOld(p) == LET k == uses[p] IN
  /\ At(p, "delete") /\ ~HeldElsewhere(k)
  /\ IF tx[k].open THEN tx' = [tx EXCEPT ![k].deleted = logged] /\ UNCHANGED logged
                   ELSE logged' = FALSE /\ UNCHANGED tx
  /\ Release(p, "commit")
  /\ UNCHANGED rows

Commit(p) == LET k == uses[p] IN
  /\ At(p, "commit")
  /\ logged' = (logged /\ ~tx[k].deleted) /\ rows' = rows \cup tx[k].inserted
  /\ tx' = [tx EXCEPT ![k] = Autocommit]
  /\ Release(p, "over")

Rollback(p) ==
  /\ At(p, "rollback")
  /\ tx' = [tx EXCEPT ![uses[p]] = Autocommit]
  /\ Release(p, "over")
  /\ UNCHANGED <<logged, rows>>

Statement(p) == ReadOld(p) \/ Begin(p) \/ LockOld(p) \/ InsertRow(p) \/ DeleteOld(p) \/ Commit(p) \/ Rollback(p)

SessionLogNext ==
  \/ \E p \in Inits \cup Requests : TakeConnection(p) \/ Statement(p)
  \/ \E k \in Connections : CloseIdle(k)

SessionLogSpec == SessionLogInit /\ [][SessionLogNext]_sessionLogVars

-----------------------------------------------------------------------------
SessionLogTypeOK ==
  /\ logged \in BOOLEAN /\ rows \subseteq Inits \cup Requests
  /\ tx \in [Connections -> [open : BOOLEAN, inserted : SUBSET (Inits \cup Requests), locked : BOOLEAN, deleted : BOOLEAN]]
  /\ \A i \in DOMAIN idle : idle[i] \in Connections
  /\ \A p \in Inits \cup Requests :
       /\ uses[p] \in Connections \cup {NoConnection}
       /\ stage[p] \in {"read", "begin", "lock", "insert", "delete", "commit", "rollback", "over"}

\* "Same-month entries merge into a single monthly summary; originals removed":
\* what a month of sessions said is in the log, in a summary, or in one that may
\* still be committed.
SessionsKept ==
  logged \/ rows \cap Inits # {} \/ \E k \in Connections : tx[k].inserted \cap Inits # {}
=============================================================================
