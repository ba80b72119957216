---------------------------- MODULE UsagePipeline ----------------------------
(***************************************************************************)
(* How a machine's use of its AI tools comes to be counted.  The scanner   *)
(* (shared/scanners/base.js and its adapters) reads each session file from *)
(* where the cursor file says it got to, posts the new lines in batches,   *)
(* and moves the cursor when every batch was accepted.  The server         *)
(* (src/routes/usage/events.js) stores each event once and sums the day it *)
(* belongs to again (src/jobs/usage-aggregation.js); a nightly job sums    *)
(* the last seven days once more.                                          *)
(*                                                                         *)
(* The scanner's pid lock gives way after six hours, and an adapter that   *)
(* is abandoned at its deadline goes on in the background: nothing here    *)
(* counts on two scans being kept apart.  What an event weighs is left     *)
(* out: a daily row is the set of the events it sums.                      *)
(***************************************************************************)
EXTENDS Naturals, FiniteSets, Functions

CONSTANTS
  Files,      \* session files
  MaxEvents,  \* bound: events the files come to hold, together
  DayOf,      \* the day the events of a file happened on
  OldDays,    \* days more than WINDOW_DAYS ago: a machine that was off for long
  Scans,      \* scans that can run at once
  BatchSize,  \* events of one POST (500 in the code)
  ScanCap,    \* events taken from a file by one scan (MAX_BYTES_PER_SCAN)
  Invalid,    \* events without what validateEvent asks for: the adapters look whether a field is
              \* there, and not at what it holds
  MaxUsageFaults \* bound: failed requests and statements, scans that die

ASSUME UsageConstants ==
  /\ {BatchSize, ScanCap} \subseteq Nat \ {0}
  /\ {MaxEvents, MaxUsageFaults} \subseteq Nat
  /\ Invalid \subseteq Files \X (1..MaxEvents)

VARIABLES
  lines,      \* complete lines in each file
  cursor,     \* scanner-offsets.json: how far each file has been read
  scan,       \* each scan, with the request it waits for
  events,     \* token_events
  daily,      \* token_usage_daily: the events each row sums
  nightly,    \* the nightly job: the day it is at, and the events it has read
  exempt,     \* is the account exempted from tracking?
  suppressed, \* history: events dropped for an exemption
  missed,     \* history: events a daily row was written without
  usageFaults

usageVars == <<lines, cursor, scan, events, daily, nightly, exempt, suppressed, missed, usageFaults>>
serverVars == <<events, daily, nightly, exempt, suppressed, missed>>

Days == {DayOf[f] : f \in Files}
AllEvents == Files \X (1..MaxEvents)
EventsOf(day) == {e \in events : DayOf[e[1]] = day}
Lesser(a, b) == IF a < b THEN a ELSE b

Nothing == "none"
Resting == [at |-> "idle", file |-> Nothing, from |-> 0, to |-> 0, rows |-> {}, copy |-> [f \in Files |-> 0]]
NoJob == [day |-> Nothing, rows |-> {}]
UsageFault == usageFaults < MaxUsageFaults /\ usageFaults' = usageFaults + 1

OldFiles == {f \in Files : DayOf[f] \in OldDays}

\* What was written on days long gone is there from the start.
UsageInit ==
  /\ \E n \in 0..MaxEvents : lines = [f \in Files |-> IF f \in OldFiles THEN n ELSE 0]
  /\ cursor = [f \in Files |-> 0]
  /\ scan = [s \in Scans |-> Resting]
  /\ events = {} /\ daily = [d \in Days |-> {}]
  /\ nightly = NoJob
  /\ exempt = FALSE /\ suppressed = {} /\ missed = {} /\ usageFaults = 0

-----------------------------------------------------------------------------
(* the machine                                                             *)

Written == FoldFunction(+, 0, lines)

WriteLine(f) ==
  /\ f \notin OldFiles /\ Written < MaxEvents
  /\ lines' = [lines EXCEPT ![f] = @ + 1]
  /\ UNCHANGED <<cursor, scan, serverVars, usageFaults>>

\* readSince: from the cursor to the last complete line, or to the cap.
ReadSince(s, f) ==
  /\ scan[s].at = "idle" /\ cursor[f] < lines[f]
  /\ scan' = [scan EXCEPT ![s] =
       [@ EXCEPT !.at = "post", !.file = f, !.from = cursor[f], !.to = Lesser(lines[f], cursor[f] + ScanCap)]]
  /\ UNCHANGED <<lines, cursor, serverVars, usageFaults>>

BatchEnd(s) == Lesser(scan[s].from + BatchSize, scan[s].to)
Batch(s) == {scan[s].file} \X ((scan[s].from + 1)..BatchEnd(s))

\* The answer has come: the next batch, or the cursor.
Answered(s) == [scan EXCEPT ![s] =
  [@ EXCEPT !.from = BatchEnd(s), !.at = IF BatchEnd(s) < scan[s].to THEN "post" ELSE "commit", !.rows = {}]]

\* Mutant: a batch that fails is logged, and the next one goes out.
NextBatchAnyway(s) ==
  /\ scan[s].at \in {"post", "sum", "upsert"} /\ UsageFault
  /\ scan' = Answered(s)
  /\ UNCHANGED <<lines, cursor, serverVars>>

\* postBatch throws: the scan is over and the cursor stays where it is.  The
\* server may have stored some of the batch, and summed it or not.
PostThrows(s) ==
  /\ scan[s].at \in {"post", "sum", "upsert"} /\ UsageFault
  /\ IF scan[s].at = "post" /\ ~exempt
     THEN \E some \in SUBSET (Batch(s) \ Invalid) : events' = events \cup some
     ELSE UNCHANGED events
  /\ scan' = [scan EXCEPT ![s] = Resting]
  /\ UNCHANGED <<lines, cursor, daily, nightly, exempt, suppressed, missed>>

\* mergeState, onto a fresh read of the file and not the one of the start.
RereadCursor(s) ==
  /\ scan[s].at = "commit"
  /\ scan' = [scan EXCEPT ![s] = [@ EXCEPT !.at = "rename", !.copy = cursor]]
  /\ UNCHANGED <<lines, cursor, serverVars, usageFaults>>
WriteCursor(s) ==
  /\ scan[s].at = "rename"
  /\ cursor' = [scan[s].copy EXCEPT ![scan[s].file] = scan[s].to]
  /\ scan' = [scan EXCEPT ![s] = Resting]
  /\ UNCHANGED <<lines, serverVars, usageFaults>>

\* The machine sleeps or shuts down between two steps.
ScanDies(s) ==
  /\ scan[s].at \in {"commit", "rename"} /\ UsageFault
  /\ scan' = [scan EXCEPT ![s] = Resting]
  /\ UNCHANGED <<lines, cursor, serverVars>>

-----------------------------------------------------------------------------
(* the server: POST /api/usage/events                                      *)

\* An exempted account is told that all is well, and nothing is stored.
Suppress(s) ==
  /\ scan[s].at = "post" /\ exempt
  /\ suppressed' = suppressed \cup Batch(s)
  /\ scan' = Answered(s)
  /\ UNCHANGED <<lines, cursor, events, daily, nightly, exempt, missed, usageFaults>>

\* A batch with nothing valid in it is refused (400), and postBatch throws.
RefuseBatch(s) ==
  /\ scan[s].at = "post" /\ ~exempt /\ Batch(s) \subseteq Invalid
  /\ scan' = [scan EXCEPT ![s] = Resting]
  /\ UNCHANGED <<lines, cursor, serverVars, usageFaults>>

\* INSERT ... ON CONFLICT DO NOTHING, event by event; the answer lists those
\* rejected, and the scan does not look at the list.
InsertEvents(s) ==
  /\ scan[s].at = "post" /\ ~exempt /\ ~(Batch(s) \subseteq Invalid)
  /\ events' = events \cup (Batch(s) \ Invalid)
  /\ scan' = [scan EXCEPT ![s].at = "sum"]
  /\ UNCHANGED <<lines, cursor, daily, nightly, exempt, suppressed, missed, usageFaults>>

\* The row is written with what was read, or the error is swallowed.
Sum(day, rows) ==
  \/ /\ daily' = [daily EXCEPT ![day] = rows]
     /\ missed' = missed \cup (EventsOf(day) \ rows)
     /\ UNCHANGED usageFaults
  \/ /\ UsageFault /\ missed' = missed \cup EventsOf(day) /\ UNCHANGED daily

\* recomputeDaily: SELECT ... and UPSERT.
ReadDay(s) ==
  /\ scan[s].at = "sum"
  /\ scan' = [scan EXCEPT ![s] = [@ EXCEPT !.at = "upsert", !.rows = EventsOf(DayOf[scan[s].file])]]
  /\ UNCHANGED <<lines, cursor, serverVars, usageFaults>>
UpsertDay(s) ==
  /\ scan[s].at = "upsert"
  /\ Sum(DayOf[scan[s].file], scan[s].rows)
  /\ scan' = Answered(s)
  /\ UNCHANGED <<lines, cursor, events, nightly, exempt, suppressed>>

\* Mutant: only the days that have no row yet are summed.
NightlyUnsummed(d) ==
  /\ d \notin OldDays /\ nightly = NoJob /\ EventsOf(d) # {} /\ daily[d] = {}
  /\ nightly' = [day |-> d, rows |-> EventsOf(d)]
  /\ UNCHANGED <<lines, cursor, scan, events, daily, exempt, suppressed, missed, usageFaults>>

\* runNightlyRecompute: each day of the window that has events.
NightlyRead(d) ==
  /\ d \notin OldDays /\ nightly = NoJob /\ EventsOf(d) # {}
  /\ nightly' = [day |-> d, rows |-> EventsOf(d)]
  /\ UNCHANGED <<lines, cursor, scan, events, daily, exempt, suppressed, missed, usageFaults>>
NightlyUpsert(d) ==
  /\ nightly.day = d
  /\ Sum(d, nightly.rows)
  /\ nightly' = NoJob
  /\ UNCHANGED <<lines, cursor, scan, events, exempt, suppressed>>

\* An admin grants an exemption, or it runs out.
SwitchExemption ==
  /\ UsageFault /\ exempt' = ~exempt
  /\ UNCHANGED <<lines, cursor, scan, events, daily, nightly, suppressed, missed>>

Read(f) == \E s \in Scans : ReadSince(s, f)
ScanStep(s) == \/ Suppress(s) \/ RefuseBatch(s) \/ InsertEvents(s) \/ ReadDay(s) \/ UpsertDay(s)
               \/ RereadCursor(s) \/ WriteCursor(s)
Nightly(d) == NightlyRead(d) \/ NightlyUpsert(d)

UsageNext ==
  \/ \E f \in Files : WriteLine(f) \/ Read(f)
  \/ \E s \in Scans : ScanStep(s) \/ PostThrows(s) \/ ScanDies(s)
  \/ \E d \in Days : Nightly(d)
  \/ SwitchExemption

UsageSpec == UsageInit /\ [][UsageNext]_usageVars

\* The scheduler starts scans, each reads every file, and the nightly job gets
\* to every day.
UsageFairness == /\ \A f \in Files : SF_usageVars(Read(f))
                 /\ \A s \in Scans : WF_usageVars(ScanStep(s))
                 /\ \A d \in Days \ OldDays : SF_usageVars(NightlyRead(d)) /\ WF_usageVars(NightlyUpsert(d))

-----------------------------------------------------------------------------
UsageTypeOK ==
  /\ \A f \in Files : lines[f] \in 0..MaxEvents /\ cursor[f] \in 0..lines[f]
  /\ \A s \in Scans :
       /\ scan[s].at \in {"idle", "post", "sum", "upsert", "commit", "rename"}
       /\ scan[s].file \in Files \cup {Nothing}
       /\ scan[s].from <= scan[s].to /\ scan[s].rows \subseteq events
  /\ events \subseteq AllEvents /\ \A d \in Days : daily[d] \subseteq EventsOf(d)
  /\ nightly.day \in Days \cup {Nothing} /\ nightly.rows \subseteq events
  /\ exempt \in BOOLEAN /\ suppressed \subseteq AllEvents /\ missed \subseteq events
  /\ usageFaults \in 0..MaxUsageFaults

\* "The server holds every event before the local offset" (base.js), whichever
\* batches failed, were replayed or were sent by two scans at once; what an
\* exemption dropped, and what is not valid, are the exceptions.
ServerHoldsPrefix ==
  \A f \in Files : \A n \in 1..cursor[f] : <<f, n>> \in events \cup suppressed \cup Invalid

\* An event before the cursor, which no scan will send again, is in the sum of
\* its day, unless it is not valid, was dropped for an exemption, or a sum of
\* that day failed or was written from what was read before it came.
CountedToCursor ==
  \A f \in Files : \A n \in 1..cursor[f] : <<f, n>> \in daily[DayOf[f]] \cup suppressed \cup missed \cup Invalid

\* Every event a tool has written is summed into its day in the end, although
\* requests fail, sums are lost and one written late overwrites a newer one.
\* Only the events of days the nightly job no longer looks at can stay out, and
\* those from the first of a file that is not valid on, which a refused batch
\* may keep a scan from ever getting past.
Passable == {e \in AllEvents : \A n \in 1..e[2] : <<e[1], n>> \notin Invalid}
EventsCounted ==
  \A e \in Passable :
    lines[e[1]] >= e[2] ~>
      e \in daily[DayOf[e[1]]] \cup suppressed \/ (DayOf[e[1]] \in OldDays /\ e \in missed)
=============================================================================
