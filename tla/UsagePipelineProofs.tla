------------------------- MODULE UsagePipelineProofs -------------------------
(***************************************************************************)
(* For any number of files, scans and events and any batch size: whatever  *)
(* requests fail and however scans overlap, no line the cursor has passed  *)
(* is missing from the server, or from the sum of its day but for a sum    *)
(* that failed or had read before it came.                                 *)
(***************************************************************************)
EXTENDS UsagePipeline, TLAPS

Lines == Files \X Nat
Places == {"idle", "post", "sum", "upsert", "commit", "rename"}
ScanState == [at : Places, file : Files \cup {Nothing}, from : Nat, to : Nat,
              rows : SUBSET Lines, copy : [Files -> Nat]]
ScanStates == [Scans -> ScanState]

Shapes ==
  /\ lines \in [Files -> Nat] /\ cursor \in [Files -> Nat]
  /\ scan \in ScanStates
  /\ events \subseteq Lines

Held == events \cup suppressed \cup Invalid
HeldUpTo(f, m) == \A n \in 1..m : <<f, n>> \in Held

(* What a scan has behind it is held; what its server call has stored is
   held before the answer comes; and the copy of the cursor it is about to
   write is no further than a cursor that was true. *)
ScanHolds(s) ==
  /\ scan[s].at # "idle" =>
       /\ scan[s].file \in Files /\ scan[s].from <= scan[s].to
       /\ HeldUpTo(scan[s].file, scan[s].from)
  /\ scan[s].at \in {"sum", "upsert"} => HeldUpTo(scan[s].file, BatchEnd(s))
  /\ scan[s].at \in {"commit", "rename"} => scan[s].from = scan[s].to
  /\ scan[s].at = "rename" => \A f \in Files : HeldUpTo(f, scan[s].copy[f])

PrefixInv == /\ Shapes
             /\ \A f \in Files : HeldUpTo(f, cursor[f])
             /\ \A s \in Scans : ScanHolds(s)

-----------------------------------------------------------------------------
LEMMA UsageInitInv == UsageInit => PrefixInv
<1> SUFFICES ASSUME UsageInit PROVE PrefixInv
  OBVIOUS
<1>1. lines \in [Files -> Nat]
  <2>1. PICK n \in 0..MaxEvents : lines = [f \in Files |-> IF f \in OldFiles THEN n ELSE 0]
    BY DEF UsageInit
  <2>2. n \in Nat
    BY UsageConstants
  <2> QED
    BY <2>1, <2>2
<1>2. Resting \in ScanState /\ Resting.at = "idle"
  BY DEF Resting, Places, ScanState
<1>3. Shapes
  BY <1>1, <1>2 DEF UsageInit, Shapes, ScanStates
<1> QED
  BY <1>2, <1>3 DEF UsageInit, PrefixInv, ScanHolds, HeldUpTo

(* The end of a batch: a line the scan has read, and no less than it had. *)
LEMMA BatchEnds ==
  ASSUME Shapes, NEW s \in Scans, scan[s].from <= scan[s].to
  PROVE  /\ BatchEnd(s) \in Nat /\ scan[s].from <= BatchEnd(s) /\ BatchEnd(s) <= scan[s].to
         /\ Batch(s) \subseteq {scan[s].file} \X Nat
         /\ \A n \in 1..BatchEnd(s) : n \in 1..scan[s].from \/ <<scan[s].file, n>> \in Batch(s)
<1>1. scan[s].from \in Nat /\ scan[s].to \in Nat
  BY DEF Shapes, ScanStates, ScanState
<1>2. BatchEnd(s) \in Nat /\ scan[s].from <= BatchEnd(s) /\ BatchEnd(s) <= scan[s].to
  BY <1>1, UsageConstants DEF BatchEnd, Lesser
<1>3. ASSUME NEW n \in 1..BatchEnd(s), n \notin 1..scan[s].from PROVE n \in (scan[s].from + 1)..BatchEnd(s)
  BY <1>1, <1>2, <1>3
<1>4. (scan[s].from + 1)..BatchEnd(s) \subseteq Nat
  BY <1>1, <1>2
<1> QED
  BY <1>2, <1>3, <1>4 DEF Batch

(* Nothing the server holds is lost by another's step, so what a scan that
   stands still relied on stays true. *)
LEMMA OthersHold ==
  ASSUME Held \subseteq Held', NEW s, ScanHolds(s), scan'[s] = scan[s]
  PROVE  ScanHolds(s)'
  BY DEF ScanHolds, HeldUpTo, BatchEnd

(* An answer that comes when every line of the batch is held. *)
LEMMA AnsweredHolds ==
  ASSUME Shapes, NEW s \in Scans, ScanHolds(s), scan[s].at # "idle", scan' = Answered(s),
         \A n \in 1..BatchEnd(s) : <<scan[s].file, n>> \in Held'
  PROVE  /\ scan' \in ScanStates
         /\ ScanHolds(s)' /\ \A r \in Scans \ {s} : scan'[r] = scan[r]
<1> DEFINE end == BatchEnd(s)
           place == IF end < scan[s].to THEN "post" ELSE "commit"
           next == [scan[s] EXCEPT !.from = end, !.at = place, !.rows = {}]
<1>1. scan' = [scan EXCEPT ![s] = next]
  BY DEF Answered
<1>2. scan[s].from <= scan[s].to /\ scan[s].to \in Nat /\ end \in Nat /\ end <= scan[s].to
  BY BatchEnds DEF ScanHolds, Shapes, ScanStates, ScanState
<1>3. place \in {"post", "commit"} /\ (place = "commit" => end = scan[s].to)
  BY <1>2
<1> HIDE DEF end, place
<1>4. next \in [at : {place}, file : {scan[s].file}, from : {end}, to : {scan[s].to}, rows : {{}}, copy : [Files -> Nat]]
  BY DEF Shapes, ScanStates, ScanState
<1>5. next \in ScanState
  BY <1>2, <1>3, <1>4 DEF ScanState, Places, Shapes, ScanStates
<1> HIDE DEF next
<1>6. scan' \in ScanStates /\ scan'[s] = next /\ \A r \in Scans \ {s} : scan'[r] = scan[r]
  BY <1>1, <1>5 DEF Shapes, ScanStates
<1>7. \A n \in 1..end : <<scan[s].file, n>> \in Held'
  BY DEF end
<1> QED
  BY <1>2, <1>3, <1>4, <1>6, <1>7 DEF ScanHolds, HeldUpTo

(* A step that only moves one scan, and where it moved to it still holds. *)
LEMMA OneScanMoves ==
  ASSUME PrefixInv, NEW s \in Scans, NEW next \in ScanState, scan' = [scan EXCEPT ![s] = next],
         lines' \in [Files -> Nat], cursor' \in [Files -> Nat], events' \subseteq Lines,
         Held \subseteq Held',
         \A f \in Files : HeldUpTo(f, cursor[f]) => HeldUpTo(f, cursor[f])',
         scan'[s] = next => ScanHolds(s)'
  PROVE  PrefixInv'
<1>1. scan' \in ScanStates /\ scan'[s] = next /\ \A r \in Scans \ {s} : scan'[r] = scan[r]
  BY DEF PrefixInv, Shapes, ScanStates
<1>2. \A r \in Scans : ScanHolds(r)'
  BY <1>1, OthersHold DEF PrefixInv
<1> QED
  BY <1>1, <1>2 DEF PrefixInv, Shapes

(* A step of nobody's scan. *)
LEMMA NoScanMoves ==
  ASSUME PrefixInv, UNCHANGED <<scan, cursor, events>>, lines' \in [Files -> Nat], suppressed \subseteq suppressed'
  PROVE  PrefixInv'
  BY OthersHold DEF PrefixInv, Shapes, HeldUpTo, Held

LEMMA UsageStepInv == PrefixInv /\ [UsageNext]_usageVars => PrefixInv'
<1> SUFFICES ASSUME PrefixInv, [UsageNext]_usageVars PROVE PrefixInv'
  OBVIOUS
<1>0. Shapes /\ (\A f \in Files : HeldUpTo(f, cursor[f])) /\ (\A s \in Scans : ScanHolds(s))
  BY DEF PrefixInv
<1>r. Resting \in ScanState /\ Resting.at = "idle"
  BY DEF Resting, Places, ScanState
<1>1. ASSUME NEW f \in Files, WriteLine(f) PROVE PrefixInv'
  <2>1. lines' \in [Files -> Nat]
    BY <1>0, <1>1 DEF WriteLine, Shapes
  <2> QED
    BY <1>1, <2>1, NoScanMoves DEF WriteLine, serverVars
<1>2. ASSUME NEW s \in Scans, NEW f \in Files, ReadSince(s, f) PROVE PrefixInv'
  <2> DEFINE to == Lesser(lines[f], cursor[f] + ScanCap)
             next == [scan[s] EXCEPT !.at = "post", !.file = f, !.from = cursor[f], !.to = to]
  <2>2. to \in Nat /\ cursor[f] \in Nat /\ cursor[f] <= to
    BY <1>0, <1>2, UsageConstants DEF ReadSince, Shapes, Lesser
  <2>3. scan' = [scan EXCEPT ![s] = next] /\ UNCHANGED <<lines, cursor, events, suppressed>>
    BY <1>2 DEF ReadSince, serverVars
  <2> HIDE DEF to
  <2>4. next \in [at : {"post"}, file : {f}, from : {cursor[f]}, to : {to}, rows : SUBSET Lines, copy : [Files -> Nat]]
    BY <1>0 DEF Shapes, ScanStates, ScanState
  <2> HIDE DEF next
  <2>5. next \in ScanState
    BY <2>2, <2>4 DEF ScanState, Places
  <2>6. scan'[s] = next => ScanHolds(s)'
    BY <1>0, <2>2, <2>3, <2>4 DEF ScanHolds, HeldUpTo, Held
  <2> QED
    BY <1>0, <2>3, <2>5, <2>6, OneScanMoves DEF Shapes, Held, HeldUpTo
<1>3. ASSUME NEW s \in Scans, Suppress(s) PROVE PrefixInv'
  <2>1. scan[s].at = "post" /\ scan' = Answered(s) /\ suppressed' = suppressed \cup Batch(s)
        /\ UNCHANGED <<lines, cursor, events>>
    BY <1>3 DEF Suppress
  <2>2. \A n \in 1..BatchEnd(s) : <<scan[s].file, n>> \in Held'
    BY <1>0, <2>1, BatchEnds DEF ScanHolds, HeldUpTo, Held
  <2>3. scan' \in ScanStates /\ ScanHolds(s)' /\ \A r \in Scans \ {s} : scan'[r] = scan[r]
    BY <1>0, <2>1, <2>2, AnsweredHolds
  <2>4. Held \subseteq Held'
    BY <2>1 DEF Held
  <2>5. \A r \in Scans : ScanHolds(r)'
    BY <1>0, <2>3, <2>4, OthersHold
  <2> QED
    BY <1>0, <2>1, <2>3, <2>4, <2>5 DEF PrefixInv, Shapes, HeldUpTo
<1>4. ASSUME NEW s \in Scans, InsertEvents(s) PROVE PrefixInv'
  <2> DEFINE next == [scan[s] EXCEPT !.at = "sum"]
  <2>1. scan[s].at = "post" /\ scan' = [scan EXCEPT ![s] = next] /\ events' = events \cup (Batch(s) \ Invalid)
        /\ UNCHANGED <<lines, cursor, suppressed>>
    BY <1>4 DEF InsertEvents
  <2>2. next \in [at : {"sum"}, file : {scan[s].file}, from : {scan[s].from}, to : {scan[s].to},
                  rows : SUBSET Lines, copy : [Files -> Nat]] /\ next \in ScanState
    BY <1>0 DEF Shapes, ScanStates, ScanState, Places
  <2> HIDE DEF next
  <2>3. scan[s].file \in Files /\ scan[s].from <= scan[s].to
    BY <1>0, <2>1 DEF ScanHolds
  <2>4. events' \subseteq Lines /\ \A n \in 1..BatchEnd(s) : <<scan[s].file, n>> \in Held'
    BY <1>0, <2>1, <2>3, BatchEnds DEF ScanHolds, HeldUpTo, Held, Shapes, Lines
  <2>5. Held \subseteq Held'
    BY <2>1 DEF Held
  <2>6. ASSUME scan'[s] = next PROVE ScanHolds(s)'
    <3>1. BatchEnd(s)' = BatchEnd(s)
      BY <2>2, <2>6 DEF BatchEnd
    <3> QED
      BY <1>0, <2>1, <2>2, <2>3, <2>4, <2>5, <2>6, <3>1 DEF ScanHolds, HeldUpTo
  <2> QED
    BY <1>0, <2>1, <2>2, <2>4, <2>5, <2>6, OneScanMoves DEF Shapes, HeldUpTo
<1>5. ASSUME NEW s \in Scans, ReadDay(s) PROVE PrefixInv'
  <2> DEFINE rows == EventsOf(DayOf[scan[s].file])
             next == [scan[s] EXCEPT !.at = "upsert", !.rows = rows]
  <2>1. scan[s].at = "sum" /\ scan' = [scan EXCEPT ![s] = next] /\ UNCHANGED <<lines, cursor, events, suppressed>>
    BY <1>5 DEF ReadDay, serverVars
  <2>2. rows \subseteq Lines
    BY <1>0 DEF EventsOf, Shapes
  <2> HIDE DEF rows
  <2>3. next \in [at : {"upsert"}, file : {scan[s].file}, from : {scan[s].from}, to : {scan[s].to},
                  rows : {rows}, copy : [Files -> Nat]] /\ next \in ScanState
    BY <1>0, <2>2 DEF Shapes, ScanStates, ScanState, Places
  <2> HIDE DEF next
  <2>4. Held' = Held
    BY <2>1 DEF Held
  <2>5. ASSUME scan'[s] = next PROVE ScanHolds(s)'
    <3>1. BatchEnd(s)' = BatchEnd(s)
      BY <2>3, <2>5 DEF BatchEnd
    <3> QED
      BY <1>0, <2>1, <2>3, <2>4, <2>5, <3>1 DEF ScanHolds, HeldUpTo
  <2> QED
    BY <1>0, <2>1, <2>3, <2>4, <2>5, OneScanMoves DEF Shapes, HeldUpTo
<1>6. ASSUME NEW s \in Scans, UpsertDay(s) PROVE PrefixInv'
  <2>1. scan[s].at = "upsert" /\ scan' = Answered(s) /\ UNCHANGED <<lines, cursor, events, suppressed>>
    BY <1>6 DEF UpsertDay
  <2>2. Held' = Held
    BY <2>1 DEF Held
  <2>3. \A n \in 1..BatchEnd(s) : <<scan[s].file, n>> \in Held'
    BY <1>0, <2>1, <2>2 DEF ScanHolds, HeldUpTo
  <2>4. scan' \in ScanStates /\ ScanHolds(s)' /\ \A r \in Scans \ {s} : scan'[r] = scan[r]
    BY <1>0, <2>1, <2>3, AnsweredHolds
  <2>5. \A r \in Scans : ScanHolds(r)'
    BY <1>0, <2>2, <2>4, OthersHold
  <2> QED
    BY <1>0, <2>1, <2>2, <2>4, <2>5 DEF PrefixInv, Shapes, HeldUpTo
<1>7. ASSUME NEW s \in Scans, RereadCursor(s) PROVE PrefixInv'
  <2> DEFINE next == [scan[s] EXCEPT !.at = "rename", !.copy = cursor]
  <2>1. scan[s].at = "commit" /\ scan' = [scan EXCEPT ![s] = next] /\ UNCHANGED <<lines, cursor, events, suppressed>>
    BY <1>7 DEF RereadCursor, serverVars
  <2>2. next \in [at : {"rename"}, file : {scan[s].file}, from : {scan[s].from}, to : {scan[s].to},
                  rows : SUBSET Lines, copy : {cursor}] /\ next \in ScanState
    BY <1>0 DEF Shapes, ScanStates, ScanState, Places
  <2> HIDE DEF next
  <2>3. Held' = Held
    BY <2>1 DEF Held
  <2>4. ASSUME scan'[s] = next PROVE ScanHolds(s)'
    BY <1>0, <2>1, <2>2, <2>3, <2>4 DEF ScanHolds, HeldUpTo
  <2> QED
    BY <1>0, <2>1, <2>2, <2>3, <2>4, OneScanMoves DEF Shapes, HeldUpTo
<1>8. ASSUME NEW s \in Scans, WriteCursor(s) PROVE PrefixInv'
  <2>1. /\ scan[s].at = "rename" /\ scan' = [scan EXCEPT ![s] = Resting]
        /\ cursor' = [scan[s].copy EXCEPT ![scan[s].file] = scan[s].to]
        /\ UNCHANGED <<lines, events, suppressed>>
    BY <1>8 DEF WriteCursor, serverVars
  <2>2. /\ scan[s].copy \in [Files -> Nat] /\ scan[s].to \in Nat /\ scan[s].file \in Files
        /\ HeldUpTo(scan[s].file, scan[s].to) /\ \A f \in Files : HeldUpTo(f, scan[s].copy[f])
    BY <1>0, <2>1 DEF ScanHolds, Shapes, ScanStates, ScanState
  <2>3. Held' = Held
    BY <2>1 DEF Held
  <2>4. cursor' \in [Files -> Nat] /\ \A f \in Files : cursor'[f] = IF f = scan[s].file THEN scan[s].to ELSE scan[s].copy[f]
    BY <2>1, <2>2
  <2>5. \A f \in Files : HeldUpTo(f, cursor'[f])
    BY <2>2, <2>4
  <2>6. ASSUME scan'[s] = Resting PROVE ScanHolds(s)'
    BY <1>r, <2>6 DEF ScanHolds
  <2> QED
    BY <1>0, <1>r, <2>1, <2>3, <2>4, <2>5, <2>6, OneScanMoves DEF Shapes, HeldUpTo
<1>9. ASSUME NEW s \in Scans, PostThrows(s) \/ RefuseBatch(s) \/ ScanDies(s) PROVE PrefixInv'
  <2>1. scan' = [scan EXCEPT ![s] = Resting] /\ UNCHANGED <<lines, cursor, suppressed>> /\ events \subseteq events'
    BY <1>9 DEF PostThrows, RefuseBatch, ScanDies, serverVars
  <2>2. events' \subseteq Lines
    <3>1. CASE scan[s].at = "idle"
      BY <1>0, <1>9, <3>1 DEF PostThrows, RefuseBatch, ScanDies, serverVars, Shapes
    <3>2. CASE scan[s].at # "idle"
      <4>1. Batch(s) \subseteq Lines
        BY <1>0, <3>2, BatchEnds DEF ScanHolds, Shapes, Lines
      <4> QED
        BY <1>0, <1>9, <4>1 DEF PostThrows, RefuseBatch, ScanDies, serverVars, Shapes
    <3> QED
      BY <3>1, <3>2
  <2>3. ASSUME scan'[s] = Resting PROVE ScanHolds(s)'
    BY <1>r, <2>3 DEF ScanHolds
  <2>4. Held \subseteq Held'
    BY <2>1 DEF Held
  <2> QED
    BY <1>0, <1>r, <2>1, <2>2, <2>3, <2>4, OneScanMoves DEF Shapes, HeldUpTo
<1>10. ASSUME (\E d \in Days : Nightly(d)) \/ SwitchExemption \/ UNCHANGED usageVars PROVE PrefixInv'
  <2>1. UNCHANGED <<lines, scan, cursor, events, suppressed>>
    BY <1>10 DEF Nightly, NightlyRead, NightlyUpsert, SwitchExemption, usageVars
  <2> QED
    BY <1>0, <2>1, NoScanMoves DEF Shapes
<1> QED
  BY <1>1, <1>2, <1>3, <1>4, <1>5, <1>6, <1>7, <1>8, <1>9, <1>10 DEF UsageNext, Read, ScanStep

\* Every line before the cursor is on the server, was dropped for an
\* exemption or is not valid: scans may overlap, batches fail or come twice, and the cursor
\* file be written from a copy another scan has overtaken.
THEOREM ServerHoldsPrefixHolds == UsageSpec => []ServerHoldsPrefix
<1>1. PrefixInv => ServerHoldsPrefix
  BY DEF PrefixInv, HeldUpTo, Held, ServerHoldsPrefix
<1> QED
  BY <1>1, UsageInitInv, UsageStepInv, PTL DEF UsageSpec

-----------------------------------------------------------------------------
(* The sums                                                                *)

(* An event is in its day's row, or was dropped, or a row was written without
   it. *)
Counted(f, n) == <<f, n>> \in daily[DayOf[f]] \cup suppressed \cup missed \cup Invalid
CountedUpTo(f, m) == \A n \in 1..m : Counted(f, n)

(* A row holds events of its own day, and so does what is about to be written. *)
RowsInv ==
  /\ daily = [d \in Days |-> daily[d]] /\ \A d \in Days : daily[d] \subseteq EventsOf(d)
  /\ \A s \in Scans : scan[s].at = "upsert" => scan[s].rows \subseteq EventsOf(DayOf[scan[s].file])
  /\ nightly.rows \subseteq EventsOf(nightly.day)

(* What a scan has behind it is counted before the cursor moves over it. *)
ScanCounts(s) ==
  /\ scan[s].at # "idle" => CountedUpTo(scan[s].file, scan[s].from)
  /\ scan[s].at = "rename" => \A f \in Files : CountedUpTo(f, scan[s].copy[f])

SumsInv == /\ PrefixInv /\ RowsInv
           /\ \A f \in Files : CountedUpTo(f, cursor[f])
           /\ \A s \in Scans : ScanCounts(s)

(* A sum of a day leaves none of its events uncounted, and takes none of
   another day. *)
LEMMA SumCounts ==
  ASSUME RowsInv, NEW d \in Days, NEW rows, rows \subseteq EventsOf(d), Sum(d, rows), UNCHANGED <<events, suppressed>>
  PROVE  /\ daily' = [c \in Days |-> daily'[c]] /\ \A c \in Days : daily'[c] \subseteq EventsOf(c)
         /\ \A f \in Files : \A n : Counted(f, n) => Counted(f, n)'
         /\ \A f \in Files : \A n : DayOf[f] = d /\ <<f, n>> \in events => Counted(f, n)'
<1>1. \A c : EventsOf(c)' = EventsOf(c)
  BY DEF EventsOf
<1>2. CASE daily' = [daily EXCEPT ![d] = rows] /\ missed' = missed \cup (EventsOf(d) \ rows)
  <2>1. daily' = [c \in Days |-> IF c = d THEN rows ELSE daily[c]]
    BY <1>2 DEF RowsInv
  <2>2. ASSUME NEW f \in Files, NEW n, Counted(f, n) PROVE Counted(f, n)'
    BY <1>2, <2>1, <2>2 DEF Counted, RowsInv, Days
  <2>3. ASSUME NEW f \in Files, NEW n, DayOf[f] = d, <<f, n>> \in events PROVE Counted(f, n)'
    <3>1. <<f, n>> \in EventsOf(d)
      BY <2>3 DEF EventsOf
    <3> QED
      BY <1>2, <2>1, <2>3, <3>1 DEF Counted
  <2> QED
    BY <2>1, <2>2, <2>3 DEF RowsInv
<1>3. CASE daily' = daily /\ missed' = missed \cup EventsOf(d)
  <2>1. ASSUME NEW f \in Files, NEW n, DayOf[f] = d, <<f, n>> \in events PROVE Counted(f, n)'
    <3>1. <<f, n>> \in EventsOf(d)
      BY <2>1 DEF EventsOf
    <3> QED
      BY <1>3, <3>1 DEF Counted
  <2> QED
    BY <1>3, <2>1 DEF RowsInv, Counted
<1> QED
  BY <1>2, <1>3 DEF Sum

(* A step of one scan that takes nothing counted back and moves no cursor
   over what is not counted. *)
LEMMA OneScanCounts ==
  ASSUME SumsInv, PrefixInv', NEW s \in Scans, \A r \in Scans \ {s} : scan'[r] = scan[r],
         events \subseteq events',
         daily' = [c \in Days |-> daily'[c]] /\ \A c \in Days : daily'[c] \subseteq EventsOf(c)',
         \A f \in Files : \A n : Counted(f, n) => Counted(f, n)',
         \A f \in Files : CountedUpTo(f, cursor[f]) => CountedUpTo(f, cursor[f])',
         nightly' = nightly,
         (scan[s].at = "upsert" => scan[s].rows \subseteq EventsOf(DayOf[scan[s].file]))',
         ScanCounts(s)'
  PROVE  SumsInv'
<1>1. \A c : EventsOf(c) \subseteq EventsOf(c)'
  BY DEF EventsOf
<1>2. ASSUME NEW r \in Scans PROVE ScanCounts(r)'
  <2>1. CASE r = s
    BY <2>1
  <2>2. CASE r # s
    <3>1. scan'[r] = scan[r] /\ ScanCounts(r)
      BY <2>2 DEF SumsInv
    <3>2. scan[r].at # "idle" => scan[r].file \in Files
      BY DEF SumsInv, PrefixInv, ScanHolds
    <3> QED
      BY <3>1, <3>2 DEF ScanCounts, CountedUpTo
  <2> QED
    BY <2>1, <2>2
<1>3. RowsInv'
  <2>1. ASSUME NEW r \in Scans PROVE (scan[r].at = "upsert" => scan[r].rows \subseteq EventsOf(DayOf[scan[r].file]))'
    <3>1. CASE r = s
      BY <2>1, <3>1
    <3>2. CASE r # s
      <4>1. scan'[r] = scan[r]
        BY <3>2
      <4>2. scan[r].at = "upsert" => scan[r].rows \subseteq EventsOf(DayOf[scan[r].file])
        BY DEF SumsInv, RowsInv
      <4> QED
        BY <4>1, <4>2 DEF EventsOf
    <3> QED
      BY <3>1, <3>2
  <2>2. (nightly.rows \subseteq EventsOf(nightly.day))'
    BY DEF SumsInv, RowsInv, EventsOf
  <2> QED
    BY <2>1, <2>2 DEF RowsInv
<1> QED
  BY <1>2, <1>3 DEF SumsInv

LEMMA SumsInitInv == UsageInit => SumsInv
<1> SUFFICES ASSUME UsageInit PROVE SumsInv
  OBVIOUS
<1>1. PrefixInv
  BY UsageInitInv
<1>2. RowsInv
  BY DEF UsageInit, RowsInv, Resting, NoJob
<1> QED
  BY <1>1, <1>2 DEF UsageInit, SumsInv, ScanCounts, CountedUpTo, Resting

(* Where an answer leaves its scan. *)
LEMMA AnsweredMoves ==
  ASSUME Shapes, NEW s \in Scans, scan' = Answered(s)
  PROVE  /\ scan'[s].at \in {"post", "commit"} /\ scan'[s].file = scan[s].file /\ scan'[s].from = BatchEnd(s)
         /\ \A r \in Scans \ {s} : scan'[r] = scan[r]
<1> DEFINE end == BatchEnd(s)
           place == IF end < scan[s].to THEN "post" ELSE "commit"
           next == [scan[s] EXCEPT !.from = end, !.at = place, !.rows = {}]
<1>1. scan' = [scan EXCEPT ![s] = next] /\ place \in {"post", "commit"}
  BY DEF Answered
<1> HIDE DEF end, place
<1>2. next \in [at : {place}, file : {scan[s].file}, from : {end}, to : {scan[s].to}, rows : {{}}, copy : [Files -> Nat]]
  BY DEF Shapes, ScanStates, ScanState
<1> HIDE DEF next
<1>3. scan'[s] = next /\ \A r \in Scans \ {s} : scan'[r] = scan[r]
  BY <1>1 DEF Shapes, ScanStates
<1> QED
  BY <1>1, <1>2, <1>3 DEF end

(* A step of one scan that sums nothing. *)
LEMMA UnsummedMoves ==
  ASSUME SumsInv, PrefixInv', NEW s \in Scans, \A r \in Scans \ {s} : scan'[r] = scan[r],
         events \subseteq events', suppressed \subseteq suppressed', UNCHANGED <<daily, nightly, missed>>,
         \A f \in Files : CountedUpTo(f, cursor[f]) => CountedUpTo(f, cursor[f])',
         (scan[s].at = "upsert" => scan[s].rows \subseteq EventsOf(DayOf[scan[s].file]))',
         ScanCounts(s)'
  PROVE  SumsInv'
<1>1. \A f \in Files : \A n : Counted(f, n) => Counted(f, n)'
  BY DEF Counted
<1>2. \A c : EventsOf(c) \subseteq EventsOf(c)'
  BY DEF EventsOf
<1>3. /\ daily' = [c \in Days |-> daily'[c]] /\ \A c \in Days : daily'[c] \subseteq EventsOf(c)'
      /\ nightly' = nightly
  BY <1>2 DEF SumsInv, RowsInv
<1> QED
  BY <1>1, <1>3, OneScanCounts

LEMMA SumsStepInv == SumsInv /\ [UsageNext]_usageVars => SumsInv'
<1> SUFFICES ASSUME SumsInv, [UsageNext]_usageVars PROVE SumsInv'
  OBVIOUS
<1>0. /\ PrefixInv' /\ Shapes /\ RowsInv
      /\ \A f \in Files : CountedUpTo(f, cursor[f])
      /\ \A s \in Scans : ScanHolds(s) /\ ScanCounts(s)
      /\ scan \in [Scans -> ScanState]
  BY UsageStepInv DEF SumsInv, PrefixInv, Shapes, ScanStates
<1>1. ASSUME UNCHANGED <<scan, cursor, events, daily, nightly, suppressed, missed>> PROVE SumsInv'
  BY <1>0, <1>1 DEF SumsInv, RowsInv, ScanCounts, CountedUpTo, Counted, EventsOf
<1>2. ASSUME NEW s \in Scans, NEW f \in Files, ReadSince(s, f) PROVE SumsInv'
  <2> DEFINE to == Lesser(lines[f], cursor[f] + ScanCap)
             next == [scan[s] EXCEPT !.at = "post", !.file = f, !.from = cursor[f], !.to = to]
  <2>2. scan' = [scan EXCEPT ![s] = next] /\ UNCHANGED <<cursor, events, daily, nightly, suppressed, missed>>
    BY <1>2 DEF ReadSince, serverVars
  <2> HIDE DEF to
  <2>3. next \in [at : {"post"}, file : {f}, from : {cursor[f]}, to : {to}, rows : SUBSET Lines, copy : [Files -> Nat]]
    BY <1>0 DEF ScanState
  <2> HIDE DEF next
  <2>4. scan'[s] = next /\ (\A r \in Scans \ {s} : scan'[r] = scan[r])
    BY <1>0, <2>2
  <2>5. ScanCounts(s)'
    BY <1>0, <2>2, <2>3, <2>4 DEF ScanCounts, CountedUpTo, Counted
  <2> QED
    BY <1>0, <2>2, <2>3, <2>4, <2>5, UnsummedMoves DEF CountedUpTo, Counted
<1>3. ASSUME NEW s \in Scans, Suppress(s) PROVE SumsInv'
  <2>1. /\ scan[s].at = "post" /\ scan' = Answered(s) /\ suppressed' = suppressed \cup Batch(s)
        /\ UNCHANGED <<cursor, events, daily, nightly, missed>>
    BY <1>3 DEF Suppress
  <2>2. /\ scan'[s].at \in {"post", "commit"} /\ scan'[s].file = scan[s].file /\ scan'[s].from = BatchEnd(s)
        /\ \A r \in Scans \ {s} : scan'[r] = scan[r]
    BY <1>0, <2>1, AnsweredMoves
  <2>f. PICK f \in Files : f = scan[s].file
    BY <1>0, <2>1 DEF ScanHolds
  <2>3. \A n \in 1..BatchEnd(s) : Counted(f, n)'
    BY <1>0, <2>1, <2>f, BatchEnds DEF ScanHolds, ScanCounts, CountedUpTo, Counted
  <2>4. ScanCounts(s)'
    BY <2>2, <2>3, <2>f DEF ScanCounts, CountedUpTo
  <2> QED
    BY <1>0, <2>1, <2>2, <2>4, UnsummedMoves DEF CountedUpTo, Counted
<1>4. ASSUME NEW s \in Scans, InsertEvents(s) PROVE SumsInv'
  <2> DEFINE next == [scan[s] EXCEPT !.at = "sum"]
  <2>1. scan[s].at = "post" /\ scan' = [scan EXCEPT ![s] = next] /\ events' = events \cup (Batch(s) \ Invalid)
        /\ UNCHANGED <<cursor, daily, nightly, suppressed, missed>>
    BY <1>4 DEF InsertEvents
  <2>2. next \in [at : {"sum"}, file : {scan[s].file}, from : {scan[s].from}, to : {scan[s].to},
                  rows : SUBSET Lines, copy : [Files -> Nat]]
    BY <1>0 DEF ScanState
  <2> HIDE DEF next
  <2>3. scan'[s] = next /\ \A r \in Scans \ {s} : scan'[r] = scan[r]
    BY <1>0, <2>1
  <2>4. ScanCounts(s)'
    BY <1>0, <2>1, <2>2, <2>3 DEF ScanCounts, CountedUpTo, Counted
  <2> QED
    BY <1>0, <2>1, <2>2, <2>3, <2>4, UnsummedMoves DEF CountedUpTo, Counted
<1>5. ASSUME NEW s \in Scans, ReadDay(s) PROVE SumsInv'
  <2> DEFINE rows == EventsOf(DayOf[scan[s].file])
             next == [scan[s] EXCEPT !.at = "upsert", !.rows = rows]
  <2>1. /\ scan[s].at = "sum" /\ scan' = [scan EXCEPT ![s] = next]
        /\ UNCHANGED <<cursor, events, daily, nightly, suppressed, missed>>
    BY <1>5 DEF ReadDay, serverVars
  <2> HIDE DEF rows
  <2>2. next \in [at : {"upsert"}, file : {scan[s].file}, from : {scan[s].from}, to : {scan[s].to},
                  rows : {rows}, copy : [Files -> Nat]]
    BY <1>0 DEF ScanState
  <2> HIDE DEF next
  <2>3. scan'[s] = next /\ \A r \in Scans \ {s} : scan'[r] = scan[r]
    BY <1>0, <2>1
  <2>4. ScanCounts(s)'
    BY <1>0, <2>1, <2>2, <2>3 DEF ScanCounts, CountedUpTo, Counted
  <2>5. (scan[s].rows \subseteq EventsOf(DayOf[scan[s].file]))'
    BY <2>1, <2>2, <2>3 DEF rows, EventsOf
  <2> QED
    BY <1>0, <2>1, <2>3, <2>4, <2>5, UnsummedMoves DEF CountedUpTo, Counted
<1>6. ASSUME NEW s \in Scans, UpsertDay(s) PROVE SumsInv'
  <2>1. PICK d \in Days : d = DayOf[scan[s].file]
    BY <1>0, <1>6 DEF UpsertDay, ScanHolds, Days
  <2>2. /\ scan[s].at = "upsert" /\ scan' = Answered(s) /\ Sum(d, scan[s].rows)
        /\ UNCHANGED <<cursor, events, nightly, suppressed>>
    BY <1>6, <2>1 DEF UpsertDay
  <2>3. /\ scan'[s].at \in {"post", "commit"} /\ scan'[s].file = scan[s].file /\ scan'[s].from = BatchEnd(s)
        /\ \A r \in Scans \ {s} : scan'[r] = scan[r]
    BY <1>0, <2>2, AnsweredMoves
  <2>4. scan[s].rows \subseteq EventsOf(d)
    BY <1>0, <2>1, <2>2 DEF RowsInv
  <2>5. /\ daily' = [c \in Days |-> daily'[c]] /\ \A c \in Days : daily'[c] \subseteq EventsOf(c)
        /\ \A f \in Files : \A n : Counted(f, n) => Counted(f, n)'
        /\ \A f \in Files : \A n : DayOf[f] = d /\ <<f, n>> \in events => Counted(f, n)'
    BY <1>0, <2>2, <2>4, SumCounts
  <2>f. PICK f \in Files : f = scan[s].file
    BY <1>0, <2>2 DEF ScanHolds
  <2>6. ASSUME NEW n \in 1..BatchEnd(s) PROVE Counted(f, n)'
    <3>1. <<f, n>> \in events \cup suppressed \cup Invalid
      BY <1>0, <2>2, <2>f, <2>6 DEF ScanHolds, HeldUpTo, Held
    <3>2. CASE <<f, n>> \in events
      BY <2>1, <2>5, <2>f, <3>2
    <3>3. CASE <<f, n>> \in suppressed \cup Invalid
      BY <2>2, <3>3 DEF Counted
    <3> QED
      BY <3>1, <3>2, <3>3
  <2>7. ScanCounts(s)'
    BY <2>3, <2>6, <2>f DEF ScanCounts, CountedUpTo
  <2>8. \A c : EventsOf(c)' = EventsOf(c)
    BY <2>2 DEF EventsOf
  <2> QED
    BY <1>0, <2>2, <2>3, <2>5, <2>7, <2>8, OneScanCounts DEF CountedUpTo
<1>7. ASSUME NEW s \in Scans, RereadCursor(s) PROVE SumsInv'
  <2> DEFINE next == [scan[s] EXCEPT !.at = "rename", !.copy = cursor]
  <2>1. /\ scan[s].at = "commit" /\ scan' = [scan EXCEPT ![s] = next]
        /\ UNCHANGED <<cursor, events, daily, nightly, suppressed, missed>>
    BY <1>7 DEF RereadCursor, serverVars
  <2>2. next \in [at : {"rename"}, file : {scan[s].file}, from : {scan[s].from}, to : {scan[s].to},
                  rows : SUBSET Lines, copy : {cursor}]
    BY <1>0 DEF ScanState
  <2> HIDE DEF next
  <2>3. scan'[s] = next /\ \A r \in Scans \ {s} : scan'[r] = scan[r]
    BY <1>0, <2>1
  <2>4. ScanCounts(s)'
    BY <1>0, <2>1, <2>2, <2>3 DEF ScanCounts, CountedUpTo, Counted
  <2> QED
    BY <1>0, <2>1, <2>2, <2>3, <2>4, UnsummedMoves DEF CountedUpTo, Counted
<1>8. ASSUME NEW s \in Scans, WriteCursor(s) PROVE SumsInv'
  <2>1. /\ scan[s].at = "rename" /\ scan' = [scan EXCEPT ![s] = Resting]
        /\ cursor' = [scan[s].copy EXCEPT ![scan[s].file] = scan[s].to]
        /\ UNCHANGED <<events, daily, nightly, suppressed, missed>>
    BY <1>8 DEF WriteCursor, serverVars
  <2>2. /\ scan[s].copy \in [Files -> Nat] /\ scan[s].file \in Files /\ scan[s].from = scan[s].to
        /\ CountedUpTo(scan[s].file, scan[s].from) /\ \A f \in Files : CountedUpTo(f, scan[s].copy[f])
    BY <1>0, <2>1 DEF ScanHolds, ScanCounts, ScanState
  <2>3. \A f \in Files : cursor'[f] = IF f = scan[s].file THEN scan[s].to ELSE scan[s].copy[f]
    BY <2>1, <2>2
  <2>4. \A f \in Files : CountedUpTo(f, cursor[f])'
    BY <2>1, <2>2, <2>3 DEF CountedUpTo, Counted
  <2>5. scan'[s].at = "idle" /\ \A r \in Scans \ {s} : scan'[r] = scan[r]
    BY <1>0, <2>1 DEF Resting
  <2> QED
    BY <1>0, <2>1, <2>4, <2>5, UnsummedMoves DEF ScanCounts
<1>9. ASSUME NEW s \in Scans, PostThrows(s) \/ RefuseBatch(s) \/ ScanDies(s) PROVE SumsInv'
  <2>1. /\ scan' = [scan EXCEPT ![s] = Resting] /\ UNCHANGED <<cursor, daily, nightly, suppressed, missed>>
        /\ events \subseteq events'
    BY <1>9 DEF PostThrows, RefuseBatch, ScanDies, serverVars
  <2>2. scan'[s].at = "idle" /\ \A r \in Scans \ {s} : scan'[r] = scan[r]
    BY <1>0, <2>1 DEF Resting
  <2> QED
    BY <1>0, <2>1, <2>2, UnsummedMoves DEF ScanCounts, CountedUpTo, Counted
<1>10. ASSUME NEW d \in Days, NightlyRead(d) PROVE SumsInv'
  <2>1. /\ nightly' = [day |-> d, rows |-> EventsOf(d)]
        /\ UNCHANGED <<scan, cursor, events, daily, suppressed, missed>>
    BY <1>10 DEF NightlyRead
  <2> QED
    BY <1>0, <2>1 DEF SumsInv, RowsInv, ScanCounts, CountedUpTo, Counted, EventsOf
<1>11. ASSUME NEW d \in Days, NightlyUpsert(d) PROVE SumsInv'
  <2>1. /\ nightly' = NoJob /\ Sum(d, nightly.rows) /\ UNCHANGED <<scan, cursor, events, suppressed>>
        /\ nightly.rows \subseteq EventsOf(d)
    BY <1>0, <1>11 DEF NightlyUpsert, RowsInv
  <2>2. /\ daily' = [c \in Days |-> daily'[c]] /\ \A c \in Days : daily'[c] \subseteq EventsOf(c)
        /\ \A f \in Files : \A n : Counted(f, n) => Counted(f, n)'
    BY <1>0, <2>1, SumCounts
  <2>3. RowsInv'
    BY <1>0, <2>1, <2>2 DEF RowsInv, EventsOf, NoJob
  <2>4. \A s \in Scans : ScanCounts(s)'
    BY <1>0, <2>1, <2>2 DEF ScanCounts, ScanHolds, CountedUpTo
  <2> QED
    BY <1>0, <2>1, <2>2, <2>3, <2>4 DEF SumsInv, CountedUpTo
<1>12. ASSUME (\E f \in Files : WriteLine(f)) \/ SwitchExemption \/ UNCHANGED usageVars PROVE SumsInv'
  BY <1>1, <1>12 DEF WriteLine, SwitchExemption, serverVars, usageVars
<1> QED
  BY <1>2, <1>3, <1>4, <1>5, <1>6, <1>7, <1>8, <1>9, <1>10, <1>11, <1>12 DEF UsageNext, Read, ScanStep, Nightly

\* What the cursor has passed is in the sum of its day, unless it is not valid, was
\* dropped for an exemption, or a sum that failed, or had read earlier, left it out.
THEOREM CountedToCursorHolds == UsageSpec => []CountedToCursor
<1>1. SumsInv => CountedToCursor
  BY DEF SumsInv, CountedUpTo, Counted, CountedToCursor
<1> QED
  BY <1>1, SumsInitInv, SumsStepInv, PTL DEF UsageSpec
=============================================================================
