---------------------------- MODULE OfflineQueue ----------------------------
(***************************************************************************)
(* Writes made while the server cannot be reached (mcp/offline.js, and the *)
(* tools of mcp/index.js that use it).  Every MCP process of a machine     *)
(* appends to one file, ~/.ownmind/queue.jsonl, and replays it at its next *)
(* ownmind_init: the file is read whole, its entries are sent one at a     *)
(* time, and what is left is written over the file.  Nothing locks the     *)
(* file in between.                                                        *)
(*                                                                         *)
(* A write is the number it was made as; what it says is left out.         *)
(***************************************************************************)
EXTENDS Naturals, Sequences, FiniteSets

CONSTANTS
  Clients,        \* MCP processes
  Accounts,       \* API keys that have been configured on this machine
  KeyOf,          \* the key each process was started with
  MaxWrites,      \* bound: writes made
  MaxQueueFaults  \* bound: lost answers, kills and failed file operations

ASSUME QueueConstants ==
  /\ KeyOf \in [Clients -> Accounts]
  /\ MaxWrites \in Nat \ {0} /\ MaxQueueFaults \in Nat

VARIABLES
  made,       \* the writes made so far, in order: [account, refused]
  queue,      \* the file: numbers of writes
  up,         \* can the server be reached?
  replay,     \* each process's replay in flight: what it still has to send, and what it leaves alone
  taken,      \* the writes the server has taken, once or more often
  queued,     \* history: the writes that were ever queued
  raced,      \* history: those appended while a replay was in flight, or not at all
  queueFaults

queueVars == <<made, queue, up, replay, taken, queued, raced, queueFaults>>

Unstamped == "unstamped"  \* an entry from before v1.31.6
NoReplay == [on |-> FALSE, todo |-> <<>>, others |-> <<>>]
Numbers == 1..Len(made)
Replaying == \E c \in Clients : replay[c].on
QueueFault == queueFaults < MaxQueueFaults /\ queueFaults' = queueFaults + 1

QueueInit ==
  \* A machine may come with an entry of another account, or an unstamped one.
  /\ \E a \in Accounts \cup {Unstamped}, refused \in BOOLEAN : made = <<[account |-> a, refused |-> refused]>>
  /\ queue = <<1>> /\ queued = {1} /\ raced = {}
  /\ up \in BOOLEAN
  /\ replay = [c \in Clients |-> NoReplay]
  /\ taken = {}
  /\ queueFaults = 0

-----------------------------------------------------------------------------
\* The server takes write n.
Take(n) == taken' = taken \cup {n}

\* A tool makes a write; the server may be one that would refuse it (the
\* memory is gone, a guard of the route says no).
Make(c, refused) ==
  /\ Len(made) < MaxWrites
  /\ made' = Append(made, [account |-> KeyOf[c], refused |-> refused])

Enqueue(n) == /\ queue' = Append(queue, n)
              /\ queued' = queued \cup {n}
              /\ raced' = IF Replaying THEN raced \cup {n} ELSE raced

\* The call is answered: it never touches the queue.
WriteOnline(c) ==
  /\ up /\ Make(c, FALSE) /\ Take(Len(made'))
  /\ UNCHANGED <<queue, up, replay, queued, raced, queueFaults>>

\* The connection fails: the write is queued, stamped with the key.
WriteOffline(c, refused) ==
  /\ ~up /\ Make(c, refused) /\ Enqueue(Len(made'))
  /\ UNCHANGED <<up, replay, taken, queueFaults>>

\* The server took the write and the answer was lost: it is queued all the same.
WriteUnanswered(c) ==
  /\ up /\ QueueFault /\ Make(c, FALSE) /\ Take(Len(made')) /\ Enqueue(Len(made'))
  /\ UNCHANGED <<up, replay>>

\* The append fails: the user is told the write is queued, and it is not.
EnqueueFails(c) ==
  /\ ~up /\ QueueFault /\ Make(c, FALSE)
  /\ queued' = queued \cup {Len(made')} /\ raced' = raced \cup {Len(made')}
  /\ UNCHANGED <<queue, up, replay, taken>>

-----------------------------------------------------------------------------
(* replayQueue, at the end of ownmind_init                                 *)

Belongs(c, n) == made[n].account \in {Unstamped, KeyOf[c]}
\* The entries at the places P of the file, in its order.
Rank(i, P) == Cardinality({j \in P : j <= i})
Entries(P) == [k \in 1..Cardinality(P) |-> queue[CHOOSE i \in P : Rank(i, P) = k]]
Mine(c) == Entries({i \in DOMAIN queue : Belongs(c, queue[i])})
Others(c) == Entries({i \in DOMAIN queue : ~Belongs(c, queue[i])})

\* Mutant: a queue with an entry of another account is left alone.
StartOwnReplay(c) ==
  /\ up /\ ~replay[c].on /\ Mine(c) # <<>> /\ Others(c) = <<>>
  /\ replay' = [replay EXCEPT ![c] = [on |-> TRUE, todo |-> Mine(c), others |-> <<>>]]
  /\ UNCHANGED <<made, queue, up, taken, queued, raced, queueFaults>>

StartReplay(c) ==
  /\ up /\ ~replay[c].on /\ Mine(c) # <<>>
  /\ replay' = [replay EXCEPT ![c] = [on |-> TRUE, todo |-> Mine(c), others |-> Others(c)]]
  /\ UNCHANGED <<made, queue, up, taken, queued, raced, queueFaults>>

\* requeue: what is left replaces the file, or the file is removed; a failed
\* rename leaves the old file in place.
Requeue(c, rest) ==
  /\ replay' = [replay EXCEPT ![c] = NoReplay]
  /\ \/ queue' = rest /\ UNCHANGED queueFaults
     \/ UNCHANGED queue /\ QueueFault

\* An entry goes out with the token of now, not the one it was made under.
SendNext(c) ==
  LET todo == replay[c].todo IN
  /\ replay[c].on /\ todo # <<>> /\ up /\ ~made[Head(todo)].refused
  /\ Take(Head(todo))
  /\ replay' = [replay EXCEPT ![c].todo = Tail(todo)]
  /\ UNCHANGED <<made, queue, up, queued, raced, queueFaults>>

\* Any error stops the replay: what was not sent is written back.
SendFails(c) ==
  LET r == replay[c] IN
  /\ r.on /\ r.todo # <<>> /\ (~up \/ made[Head(r.todo)].refused)
  /\ Requeue(c, r.todo \o r.others)
  /\ UNCHANGED <<made, up, taken, queued, raced>>

\* The server takes the entry and its answer is lost.
SendUnanswered(c) ==
  LET r == replay[c] IN
  /\ r.on /\ r.todo # <<>> /\ up /\ ~made[Head(r.todo)].refused /\ QueueFault
  /\ Take(Head(r.todo))
  /\ replay' = [replay EXCEPT ![c] = NoReplay] /\ queue' = r.todo \o r.others
  /\ UNCHANGED <<made, up, queued, raced>>

\* Mutant: the file is removed, with what belongs to others.
FinishClears(c) ==
  /\ replay[c].on /\ replay[c].todo = <<>>
  /\ Requeue(c, <<>>)
  /\ UNCHANGED <<made, up, taken, queued, raced>>

FinishReplay(c) ==
  /\ replay[c].on /\ replay[c].todo = <<>>
  /\ Requeue(c, replay[c].others)
  /\ UNCHANGED <<made, up, taken, queued, raced>>

\* The process dies: the file is as it was before the replay.
QueueKilled(c) ==
  /\ replay[c].on /\ QueueFault
  /\ replay' = [replay EXCEPT ![c] = NoReplay]
  /\ UNCHANGED <<made, queue, up, taken, queued, raced>>

GoesDown == /\ up /\ up' = FALSE /\ QueueFault
            /\ UNCHANGED <<made, queue, replay, taken, queued, raced>>
ComesUp == /\ ~up /\ up' = TRUE
           /\ UNCHANGED <<made, queue, replay, taken, queued, raced, queueFaults>>

Replay(c) == SendNext(c) \/ SendFails(c) \/ FinishReplay(c)

QueueNext ==
  \/ GoesDown \/ ComesUp
  \/ \E c \in Clients :
       \/ StartReplay(c) \/ Replay(c) \/ SendUnanswered(c) \/ QueueKilled(c)
       \/ WriteOnline(c) \/ WriteUnanswered(c) \/ EnqueueFails(c)
       \/ \E refused \in BOOLEAN : WriteOffline(c, refused)

QueueSpec == QueueInit /\ [][QueueNext]_queueVars

\* The server comes back, and a replay that was started runs on.  Nothing makes
\* a session start one: where the hook loads the memory ownmind_init is never
\* called (readHookInitPayload).
QueueFairness == WF_queueVars(ComesUp) /\ \A c \in Clients : WF_queueVars(Replay(c))

-----------------------------------------------------------------------------
QueueTypeOK ==
  /\ made \in Seq([account : Accounts \cup {Unstamped}, refused : BOOLEAN])
  /\ Len(made) \in 1..MaxWrites
  /\ queue \in Seq(Numbers) /\ up \in BOOLEAN
  /\ replay \in [Clients -> [on : BOOLEAN, todo : Seq(Numbers), others : Seq(Numbers)]]
  /\ taken \subseteq Numbers /\ queued \subseteq Numbers /\ raced \subseteq queued
  /\ queueFaults \in 0..MaxQueueFaults

InQueue(n) == \E i \in DOMAIN queue : queue[i] = n

\* A write the user was told is queued is in the file until the server has
\* taken it, however replays overlap, fail and are killed.  Only one that was
\* appended between some process's read and its rewrite of the file (or never
\* appended) can be lost.
QueuedKept == \A n \in queued : InQueue(n) \/ n \in taken \/ n \in raced

\* A process that calls ownmind_init again and again gets the queued writes of
\* its account to the server, once it can be reached: whatever other processes
\* do to the file, whatever is in it for other accounts, and unless one the
\* server refuses is before it.
InitCalledAgain(c) == WF_queueVars(StartReplay(c))
Blocked(c, n) == \E m \in queued : m < n /\ made[m].refused /\ Belongs(c, m)
QueueDrains ==
  \A c \in Clients : InitCalledAgain(c) =>
    \A n \in 1..MaxWrites :
      n \in queued /\ Belongs(c, n) /\ ~made[n].refused ~> n \in taken \/ Blocked(c, n) \/ n \in raced

=============================================================================
