--------------------------- MODULE CollectorAlerts ---------------------------
(***************************************************************************)
(* Telling a member that the usage collector of one of their machines has  *)
(* stopped (src/jobs/collector-silence-alerts.js): a sweep at startup and  *)
(* one every night record which machines are broken, announce those that   *)
(* have been for long enough in one notice, and end a notice when the last *)
(* machine it was written for works again.  Two sweeps can overlap.        *)
(*                                                                         *)
(* The machines are those of one member; the summary for the admin says    *)
(* the same and is left out.  Hours and days pass between sweeps only.     *)
(***************************************************************************)
EXTENDS Naturals, FiniteSets

CONSTANTS
  Machines,       \* computers of the member
  Sweeps,         \* sweeps that can run at once
  MaxTurns,       \* bound: times a machine breaks, goes dark or works again
  Casts,          \* numbers of notices: one that nothing refers to is used again
  MaxSweepFaults  \* bound: sweeps that fail half way, deploys in the middle of one

NoCast == "none"

ASSUME AlertConstants == MaxTurns \in Nat /\ MaxSweepFaults \in Nat /\ NoCast \notin Casts /\ Casts # {}

VARIABLES
  health,    \* what the heartbeats of each machine say: ok, broken, or dark (neither)
  turns,     \* how often that changed
  row,       \* collector_silence_alert_state
  live,      \* the notices in force: the machines each was written for
  sweep,     \* each sweep, and what it found when it started
  tellings,      \* history: notices about a machine since it was last seen to work
  overtaken, \* history: notices written while another sweep was about to resolve a machine of
             \* theirs, or two machines of which two sweeps resolved at once
  sweepFaults

alertVars == <<health, turns, row, live, sweep, tellings, overtaken, sweepFaults>>

NoRow == [on |-> FALSE, waited |-> FALSE, announced |-> FALSE, old |-> FALSE, resolved |-> FALSE, cast |-> NoCast]
\* first_seen_at is now: nothing has been waited out.
Sighting == [NoRow EXCEPT !.on = TRUE]
NoSweep == [at |-> "idle", broken |-> {}, resolved |-> {}, cleared |-> {}, weighed |-> {}, ends |-> FALSE]
SweepFault == sweepFaults < MaxSweepFaults /\ sweepFaults' = sweepFaults + 1
Quiescent == \A s \in Sweeps : sweep[s].at = "idle"

\* Nothing is known of any machine, or all of them are broken and in one notice.
AlertsInit == \E shared \in BOOLEAN :
  LET n == CHOOSE c \in Casts : TRUE IN
  /\ health = [m \in Machines |-> IF shared THEN "broken" ELSE "ok"] /\ turns = 0
  /\ row = [m \in Machines |->
       IF shared THEN [Sighting EXCEPT !.waited = TRUE, !.announced = TRUE, !.cast = n] ELSE NoRow]
  /\ live = [c \in Casts |-> IF shared /\ c = n THEN Machines ELSE {}]
  /\ sweep = [s \in Sweeps |-> NoSweep]
  /\ tellings = [m \in Machines |-> IF shared THEN 1 ELSE 0] /\ overtaken = {} /\ sweepFaults = 0

Ended(n) == [c \in Casts |-> IF c = n THEN {} ELSE live[c]]

-----------------------------------------------------------------------------
(* the world                                                               *)

HealthTurns(m) ==
  /\ turns < MaxTurns /\ turns' = turns + 1
  /\ \E h \in {"ok", "broken", "dark"} \ {health[m]} : health' = [health EXCEPT ![m] = h]
  /\ UNCHANGED <<row, live, sweep, tellings, overtaken, sweepFaults>>

\* CONFIRM_HOURS pass, and the scanner has run again.
Confirm(m) ==
  /\ Quiescent /\ row[m].on /\ ~row[m].waited
  /\ row' = [row EXCEPT ![m].waited = TRUE]
  /\ UNCHANGED <<health, turns, live, sweep, tellings, overtaken, sweepFaults>>

\* REANNOUNCE_DAYS pass: the notice ran out long ago, and another one is due.
GrowOld(m) ==
  /\ Quiescent /\ row[m].announced /\ ~row[m].old
  /\ row' = [row EXCEPT ![m].old = TRUE]
  /\ live' = Ended(row[m].cast) /\ tellings' = [tellings EXCEPT ![m] = 0]
  /\ UNCHANGED <<health, turns, sweep, overtaken, sweepFaults>>

\* A notice ends by itself after 48 hours.
Expire(n) ==
  /\ Quiescent /\ live[n] # {}
  /\ live' = Ended(n)
  /\ UNCHANGED <<health, turns, row, sweep, tellings, overtaken, sweepFaults>>

-----------------------------------------------------------------------------
(* runCollectorSilenceAlerts                                               *)

\* The heartbeats, the state rows, and evaluateSilence.
Finding == [NoSweep EXCEPT
  !.at = "sight",
  !.broken = {m \in Machines : health[m] = "broken"},
  !.resolved = {<<m, row[m].cast>> : m \in {o \in Machines : health[o] = "ok" /\ row[o].announced /\ ~row[o].resolved}},
  !.cleared = {m \in Machines : health[m] = "ok" /\ row[m].on /\ ~row[m].announced}]

StartSweep(s) ==
  /\ sweep[s].at = "idle" /\ Finding # [NoSweep EXCEPT !.at = "sight"]
  /\ IF Quiescent THEN UNCHANGED sweepFaults ELSE SweepFault
  /\ sweep' = [sweep EXCEPT ![s] = Finding]
  /\ UNCHANGED <<health, turns, row, live, tellings, overtaken>>

Found(s, r) == sweep' = [sweep EXCEPT ![s] = r]

\* SIGHTING_SQL: a finding that was resolved is a new one.
Sight(s) ==
  /\ sweep[s].at = "sight"
  /\ row' = [m \in Machines |->
       IF m \in sweep[s].broken /\ (~row[m].on \/ row[m].resolved) THEN Sighting ELSE row[m]]
  /\ Found(s, [sweep[s] EXCEPT !.at = "claim"])
  /\ UNCHANGED <<health, turns, live, tellings, overtaken, sweepFaults>>

\* Mutant: who has announced the machine already is not asked.
ClaimedAgain(s) == {m \in sweep[s].broken : row[m].on /\ ~row[m].resolved /\ row[m].waited}

\* CLAIM_SQL: asked of the row, and not of what the sweep found.
Claimed(s) == {m \in sweep[s].broken :
  /\ row[m].on /\ ~row[m].resolved /\ row[m].waited
  /\ ~row[m].announced \/ row[m].old}

InUse == {n \in Casts : live[n] # {}} \cup {row[m].cast : m \in Machines} \cup UNION {{r[2] : r \in sweep[s].resolved} : s \in Sweeps}

\* Claim, notice and its number in the rows: one transaction.
AnnounceBreaks(s) ==
  LET n == CHOOSE c \in Casts : c \notin InUse IN
  /\ sweep[s].at = "claim" /\ Claimed(s) # {}
  /\ live' = [live EXCEPT ![n] = Claimed(s)]
  /\ overtaken' = IF \E t \in Sweeps \ {s} : \E r \in sweep[t].resolved : r[1] \in Claimed(s)
                  THEN overtaken \cup {n} ELSE overtaken \ {n}
  /\ row' = [m \in Machines |->
       IF m \in Claimed(s) THEN [row[m] EXCEPT !.announced = TRUE, !.old = FALSE, !.cast = n] ELSE row[m]]
  /\ tellings' = [m \in Machines |-> IF m \in Claimed(s) THEN tellings[m] + 1 ELSE tellings[m]]
  /\ Found(s, [sweep[s] EXCEPT !.at = "finish"])
  /\ UNCHANGED <<health, turns, sweepFaults>>
NothingToAnnounce(s) ==
  /\ sweep[s].at = "claim" /\ Claimed(s) = {}
  /\ Found(s, [sweep[s] EXCEPT !.at = "finish"])
  /\ UNCHANGED <<health, turns, row, live, tellings, overtaken, sweepFaults>>

\* Mutant: the claims are committed before the notice is written.
SweepFailsClaimed(s) ==
  /\ sweep[s].at # "idle" /\ SweepFault
  /\ row' = [m \in Machines |->
       IF sweep[s].at = "claim" /\ m \in Claimed(s) THEN [row[m] EXCEPT !.announced = TRUE, !.old = FALSE] ELSE row[m]]
  /\ Found(s, NoSweep)
  /\ UNCHANGED <<health, turns, live, tellings, overtaken>>

\* A statement fails: a transaction in flight leaves nothing behind.
SweepFails(s) ==
  /\ sweep[s].at # "idle" /\ SweepFault
  /\ Found(s, NoSweep)
  /\ UNCHANGED <<health, turns, row, live, tellings, overtaken>>

Open(n) == {m \in Machines : row[m].cast = n /\ ~row[m].resolved}

Weighing(s, r, ends) == Found(s, [sweep[s] EXCEPT !.at = "resolve", !.weighed = {r}, !.ends = ends])

\* Mutant: the machine that works again is asked about too.
WeighAsked(s) == \E r \in sweep[s].resolved :
  /\ sweep[s].at = "finish"
  /\ Weighing(s, r, Open(r[2]) = {})
  /\ UNCHANGED <<health, turns, row, live, tellings, overtaken, sweepFaults>>

\* END_BROADCAST_SQL ends the notice if no other machine of it is still broken,
\* by the rows as they are committed now.  The rows come in no order.
WeighNotice(s) == \E r \in sweep[s].resolved :
  /\ sweep[s].at = "finish"
  /\ Weighing(s, r, Open(r[2]) \subseteq {r[1]})
  /\ UNCHANGED <<health, turns, row, live, tellings, overtaken, sweepFaults>>

\* RESOLVE_SQL, and the transaction of this machine is committed.
Resolve(s) == \E r \in sweep[s].weighed :
  /\ sweep[s].at = "resolve"
  /\ live' = IF sweep[s].ends THEN Ended(r[2]) ELSE live
  /\ overtaken' = IF \E t \in Sweeps \ {s} : \E q \in sweep[t].weighed : q[2] = r[2] /\ q[1] # r[1]
                  THEN overtaken \cup ({r[2]} \cap Casts) ELSE overtaken
  /\ row' = [row EXCEPT ![r[1]].resolved = row[r[1]].on]
  /\ tellings' = [tellings EXCEPT ![r[1]] = 0]
  /\ Found(s, [sweep[s] EXCEPT !.at = "finish", !.resolved = @ \ {r}, !.weighed = {}, !.ends = FALSE])
  /\ UNCHANGED <<health, turns, sweepFaults>>

\* CLEAR_SIGHTING_SQL: what was never announced leaves no record.
EndSweep(s) ==
  /\ sweep[s].at = "finish" /\ sweep[s].resolved = {}
  /\ row' = [m \in Machines |-> IF m \in sweep[s].cleared /\ ~row[m].announced THEN NoRow ELSE row[m]]
  /\ Found(s, NoSweep)
  /\ UNCHANGED <<health, turns, live, tellings, overtaken, sweepFaults>>

SweepStep(s) == \/ StartSweep(s) \/ Sight(s) \/ AnnounceBreaks(s) \/ NothingToAnnounce(s)
                \/ WeighNotice(s) \/ Resolve(s) \/ EndSweep(s)

AlertsNext ==
  \/ \E m \in Machines : HealthTurns(m) \/ Confirm(m) \/ GrowOld(m)
  \/ \E n \in Casts : Expire(n)
  \/ \E s \in Sweeps : SweepStep(s) \/ SweepFails(s)

AlertsSpec == AlertsInit /\ [][AlertsNext]_alertVars

\* Sweeps run every night and to their end; the hours between them pass.
AlertsFairness == /\ \A s \in Sweeps : WF_alertVars(SweepStep(s))
                  /\ \A m \in Machines : SF_alertVars(Confirm(m))

-----------------------------------------------------------------------------
AlertsTypeOK ==
  /\ health \in [Machines -> {"ok", "broken", "dark"}] /\ turns \in 0..MaxTurns
  /\ row \in [Machines -> [on : BOOLEAN, waited : BOOLEAN, announced : BOOLEAN, old : BOOLEAN,
                           resolved : BOOLEAN, cast : Casts \cup {NoCast}]]
  /\ live \in [Casts -> SUBSET Machines] /\ overtaken \subseteq Casts
  /\ \A s \in Sweeps : /\ sweep[s].at \in {"idle", "sight", "claim", "finish", "resolve"}
                       /\ sweep[s].broken \cup sweep[s].cleared \subseteq Machines
                       /\ sweep[s].resolved \subseteq Machines \X (Casts \cup {NoCast})
                       /\ sweep[s].weighed \subseteq sweep[s].resolved /\ sweep[s].ends \in BOOLEAN
  /\ tellings \in [Machines -> Nat] /\ sweepFaults \in 0..MaxSweepFaults

\* A machine is announced once, until it is seen to work or a fortnight has
\* passed, however two sweeps with the same findings run into each other.
AnnouncedOnce == \A m \in Machines : tellings[m] <= 1

\* A machine that stays broken is announced, although sweeps fail half way.
BreakAnnounced == \A m \in Machines : health[m] = "broken" ~> tellings[m] > 0 \/ health[m] # "broken"

\* A notice ends early when every machine it names works again.  Two kinds run
\* their two days: one written while another sweep was about to resolve one of
\* its machines, under the number of the notice before, and one two machines of
\* which are resolved by two sweeps at once, each of which finds the other's
\* still broken.
RepairEndsNotice ==
  \A n \in Casts :
    (\A m \in live[n] : health[m] = "ok")
      ~> live[n] = {} \/ n \in overtaken \/ \E m \in live[n] : health[m] # "ok"
=============================================================================
