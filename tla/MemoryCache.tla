---------------------------- MODULE MemoryCache ----------------------------
(***************************************************************************)
(* The copy of an account's memories each machine keeps between sessions   *)
(* (hooks/lib/conditional-sync.js, ~/.ownmind/cache/memories.json), against *)
(* the store that hands it out (GET /init and GET /sync-token of           *)
(* src/src/routes/memory.js).  A session that starts asks for the token,   *)
(* and downloads only when it moved or the copy is more than 24 hours old. *)
(* GET /init is several statements: the rows are read, then the token is   *)
(* taken, then the locale is read.                                         *)
(***************************************************************************)
EXTENDS MemoryStore

CONSTANTS
  Machines,   \* the computers sessions start on
  AccountOf   \* the account each is set up with

ASSUME MachineConstants == AccountOf \in [Machines -> Users]

VARIABLES
  cache,  \* memories.json: the token, the memories, the locale, and is it over 24 hours old?
  sync    \* the session start in flight on each machine

vars == <<storeVars, cache, sync>>

NoToken == [own |-> 0, team |-> 0, locale |-> None]
Copies == UNION {[S -> Texts \cup {None}] : S \in SUBSET Ids}
NoCopy == [i \in {} |-> None]
Cache == [token : Tokens \cup {NoToken}, rows : Copies, locale : Locales \cup {None}, aged : BOOLEAN]
Sync == [pc : {"off", "asking", "reading", "stamping", "answering"},
         rows : Copies, token : Tokens \cup {NoToken}]
Off == [pc |-> "off", rows |-> NoCopy, token |-> NoToken]

\* What /init serves an account: its own rules, and every team standard.
Served(u) == {i \in Active : (Owner[i] = u /\ Kind[i] = "iron_rule") \/ Shared(i)}

Syncing == {m \in Machines : sync[m].pc # "off"}

Init ==
  /\ StoreInit
  /\ cache = [m \in Machines |-> [token |-> NoToken, rows |-> NoCopy, locale |-> None, aged |-> FALSE]]
  /\ sync = [m \in Machines |-> Off]

-----------------------------------------------------------------------------

\* Mutant: a cache is good until the token moves, however old.
TrustToken(m) ==
  /\ sync[m].pc = "off"
  /\ Overlap \/ (Busy = {} /\ Syncing = {})
  /\ sync' = [sync EXCEPT ![m].pc = IF cache[m].token = NoToken THEN "reading" ELSE "asking"]
  /\ UNCHANGED <<storeVars, cache>>

\* runConditionalSync, step 1: no cache, or one over 24 hours old, is downloaded outright.
StartSession(m) ==
  /\ sync[m].pc = "off"
  /\ Overlap \/ (Busy = {} /\ Syncing = {})
  /\ LET download == cache[m].token = NoToken \/ cache[m].aged IN
     sync' = [sync EXCEPT ![m].pc = IF download THEN "reading" ELSE "asking"]
  /\ UNCHANGED <<storeVars, cache>>

\* Step 2: GET /sync-token.  The same token means the cache is used as it is.
CompareToken(m) ==
  /\ sync[m].pc = "asking"
  /\ sync' = IF cache[m].token = SyncToken(AccountOf[m])
             THEN [sync EXCEPT ![m] = Off]
             ELSE [sync EXCEPT ![m].pc = "reading"]
  /\ UNCHANGED <<storeVars, cache>>

\* GET /init: the rows, ...
ReadMemories(m) ==
  /\ sync[m].pc = "reading"
  /\ sync' = [sync EXCEPT ![m].pc = "stamping",
                          ![m].rows = [i \in Served(AccountOf[m]) |-> row[i].text]]
  /\ UNCHANGED <<storeVars, cache>>

\* ... after some twenty more statements the token, ...
StampToken(m) ==
  /\ sync[m].pc = "stamping"
  /\ sync' = [sync EXCEPT ![m].pc = "answering", ![m].token = SyncToken(AccountOf[m])]
  /\ UNCHANGED <<storeVars, cache>>

\* ... and last the locale; the answer is written to memories.json.
WriteCache(m) ==
  /\ sync[m].pc = "answering"
  /\ cache' = [cache EXCEPT ![m] = [token |-> sync[m].token, rows |-> sync[m].rows,
                                    locale |-> locale[AccountOf[m]], aged |-> FALSE]]
  /\ sync' = [sync EXCEPT ![m] = Off]
  /\ UNCHANGED storeVars

\* A request times out or is refused.  Without a token the whole of /init is asked for;
\* without /init the session runs on the cache it has.
SyncFails(m) ==
  /\ MayFail
  /\ sync[m].pc # "off"
  /\ sync' = [sync EXCEPT ![m] = IF sync[m].pc = "asking" THEN [Off EXCEPT !.pc = "reading"] ELSE Off]
  /\ UNCHANGED <<storeVars, cache>>

\* 24 hours pass since saved_at.
Age(m) ==
  /\ cache[m].token # NoToken /\ ~cache[m].aged
  /\ cache' = [cache EXCEPT ![m].aged = TRUE]
  /\ UNCHANGED <<storeVars, sync>>

Write ==
  /\ Overlap \/ Syncing = {}
  /\ StoreNext
  /\ UNCHANGED <<cache, sync>>

Download(m) == CompareToken(m) \/ ReadMemories(m) \/ StampToken(m) \/ WriteCache(m)

Next == Write \/ \E m \in Machines : StartSession(m) \/ Download(m) \/ SyncFails(m) \/ Age(m)

Spec == Init /\ [][Next]_vars

\* Days pass, people open sessions, handlers run to an answer, and downloads that keep
\* being tried get through.
FairSpec ==
  /\ Spec
  /\ \A s \in Sessions : WF_vars(Handle(s) /\ UNCHANGED <<cache, sync>>)
  /\ \A m \in Machines :
       /\ WF_vars(Age(m)) /\ WF_vars(StartSession(m))
       /\ WF_vars(CompareToken(m)) /\ SF_vars(ReadMemories(m))
       /\ SF_vars(StampToken(m)) /\ SF_vars(WriteCache(m))

=============================================================================
