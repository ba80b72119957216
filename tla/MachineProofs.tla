--------------------------- MODULE MachineProofs ----------------------------
(***************************************************************************)
(* What runs beside the update on a machine.  For any number of sessions   *)
(* and any limits: no session is sent back more than DowngradeLimit turns  *)
(* in a row while its count is its own; for any number of session starts:  *)
(* a text a person wrote into MEMORY.md is not lost before it is exposed;  *)
(* for any guards and commands: an approval lets one command through the   *)
(* gate; for any number of processes and writes: a queued write is kept    *)
(* until the server has taken it; and for any number of hooks: a report in *)
(* the spool is kept until the server has it, the outcome of an update     *)
(* until it is shown.                                                      *)
(***************************************************************************)
EXTENDS SessionCounter, MemoryFiles, ActionGate, OfflineQueue, ReportSpool, UpdateNotices,
        FiniteSetTheorems, SequenceTheorems, TLAPS

Tally == [violations : 0..Threshold - 1, blocks : 0..DowngradeLimit]
Counts == [Talks -> Tally]
Places == {"idle", "reset", "count", "decide", "block", "blockWrite", "sendBack"}

(* The copies of the file that hooks hold are of the file's shape. *)
CounterTypes ==
  /\ counts \in Counts
  /\ lint \in [Talks -> [at : Places, file : Counts]]
  /\ answering \in [Talks -> BOOLEAN] /\ inRow \in [Talks -> 0..DowngradeLimit + 1]
  /\ clobbered \subseteq Talks /\ counterKills \in 0..MaxCounterKills

(* While nobody has taken back what s counted, the file covers the turns s was
   sent back in a row, with room for one more where a block is on its way. *)
Covered(s) ==
  /\ inRow[s] <= counts[s].blocks
  /\ lint[s].at = "reset" => inRow[s] = 0
  /\ lint[s].at \in {"block", "blockWrite"} => counts[s].blocks < DowngradeLimit
  /\ lint[s].at = "sendBack" => inRow[s] < counts[s].blocks

CoverInv == \A s \in Talks \ clobbered : Covered(s)
CounterInv == CounterTypes /\ CoverInv

-----------------------------------------------------------------------------
LEMMA ZeroTally == Zero \in Tally /\ [s \in Talks |-> Zero] \in Counts
  BY CounterConstants DEF Zero, Tally, Counts

(* What the hooks make of a record is one again. *)
LEMMA NextTally ==
  ASSUME NEW tally \in Tally
  PROVE  /\ [tally EXCEPT !.blocks = 0] \in Tally
         /\ [tally EXCEPT !.blocks = 0].blocks = 0
         /\ [tally EXCEPT !.blocks = UpTo(DowngradeLimit, @)] \in Tally
         /\ [tally EXCEPT !.blocks = UpTo(DowngradeLimit, @)].blocks = UpTo(DowngradeLimit, tally.blocks)
         /\ [tally EXCEPT !.violations = UpTo(Threshold - 1, @)] \in Tally
         /\ [tally EXCEPT !.violations = UpTo(Threshold - 1, @)].blocks = tally.blocks
<1>1. 0 \in 0..DowngradeLimit
  BY CounterConstants
<1>2. \A n \in 0..DowngradeLimit : UpTo(DowngradeLimit, n) \in 0..DowngradeLimit
  BY CounterConstants DEF UpTo
<1>3. \A n \in 0..Threshold - 1 : UpTo(Threshold - 1, n) \in 0..Threshold - 1
  BY CounterConstants DEF UpTo
<1> QED
  BY <1>1, <1>2, <1>3 DEF Tally

LEMMA CounterInitInv == CounterInit => CounterInv
<1> SUFFICES ASSUME CounterInit PROVE CounterInv
  OBVIOUS
<1>1. CounterTypes
  BY ZeroTally, CounterConstants DEF CounterInit, CounterTypes, Idle, Places
<1>2. CoverInv
  <2>1. \A s \in Talks : inRow[s] = 0 /\ counts[s].blocks = 0 /\ lint[s].at = "idle"
    BY <1>1 DEF CounterInit, Idle, Zero
  <2> SUFFICES ASSUME NEW s \in Talks PROVE Covered(s)
    BY DEF CoverInv
  <2> QED
    BY <2>1 DEF Covered
<1> QED
  BY <1>1, <1>2 DEF CounterInv

(* What a hook reads is the file or an empty one. *)
LEMMA SeenCounts == CounterTypes => Idle.file \in Counts /\ \A s \in Talks : Seen(s) \subseteq Counts
  BY ZeroTally DEF CounterTypes, Seen, Idle

LEMMA CounterStepTypes == CounterTypes /\ [CounterNext]_counterVars => CounterTypes'
<1> SUFFICES ASSUME CounterTypes, [CounterNext]_counterVars PROVE CounterTypes'
  OBVIOUS
<1> USE DEF CounterTypes
<1>0. /\ \A s \in Talks : Seen(s) \subseteq Counts
      /\ Idle \in [at : Places, file : Counts]
      /\ \A at \in Places : [Idle EXCEPT !.at = at] \in [at : Places, file : Counts]
  BY SeenCounts, ZeroTally DEF Idle, Places
<1>1. ASSUME NEW s \in Talks, NEW at \in Places, Go(s, at) PROVE lint' \in [Talks -> [at : Places, file : Counts]]
  BY <1>0, <1>1 DEF Go
<1>2. ASSUME NEW s \in Talks, NEW at \in Places, Read(s, at) PROVE lint' \in [Talks -> [at : Places, file : Counts]]
  BY <1>0, <1>2 DEF Read
<1>3. ASSUME NEW s \in Talks, NEW entry \in Tally, Write(s, entry)
      PROVE  counts' \in Counts /\ clobbered' \subseteq Talks /\ counterKills' \in 0..MaxCounterKills
  <2>1. CASE Fails /\ Lost /\ clobbered' = clobbered \cup BlocksLost \cup {t \in {s} : lint[s].at = "blockWrite"}
    BY <2>1, SeenCounts, CounterConstants DEF Fails, Lost, BlocksLost
  <2>2. CASE /\ counts' = [lint[s].file EXCEPT ![s] = entry] /\ UNCHANGED counterKills
             /\ clobbered' = clobbered \cup {t \in Talks : lint[s].file[t] # counts[t]}
    BY <1>3, <2>2 DEF Counts
  <2> QED
    BY <1>3, <2>1, <2>2 DEF Write
<1>4. ASSUME NEW s \in Talks, AnswerPasses(s) PROVE CounterTypes'
  BY <1>4 DEF AnswerPasses
<1>5. ASSUME NEW s \in Talks, ReplyClean(s) PROVE CounterTypes'
  BY <1>5, <1>2, CounterConstants DEF ReplyClean, Places
<1>6. ASSUME NEW s \in Talks, ResetBlocks(s) PROVE CounterTypes'
  <2>1. [lint[s].file[s] EXCEPT !.blocks = 0] \in Tally
    BY NextTally, lint[s].file[s] \in Tally DEF Counts
  <2> QED
    BY <1>6, <1>1, <1>3, <2>1 DEF ResetBlocks, Places
<1>7. ASSUME NEW s \in Talks, ReplyBreaksRule(s) PROVE CounterTypes'
  BY <1>7, <1>2 DEF ReplyBreaksRule, Places
<1>8. ASSUME NEW s \in Talks, IncrementCounter(s) PROVE CounterTypes'
  <2>1. [lint[s].file[s] EXCEPT !.violations = UpTo(Threshold - 1, @)] \in Tally
    BY NextTally, lint[s].file[s] \in Tally DEF Counts
  <2> QED
    BY <1>8, <1>1, <1>3, <2>1 DEF IncrementCounter, Places
<1>9. ASSUME NEW s \in Talks, Downgrade(s) PROVE CounterTypes'
  BY <1>9, <1>1, CounterConstants DEF Downgrade, Places
<1>10. ASSUME NEW s \in Talks, HardBlock(s) PROVE CounterTypes'
  BY <1>10, <1>1 DEF HardBlock, Places
<1>11. ASSUME NEW s \in Talks, StartBlock(s) PROVE CounterTypes'
  BY <1>11, <1>2 DEF StartBlock, Places
<1>12. ASSUME NEW s \in Talks, IncrementBlockCount(s) PROVE CounterTypes'
  <2>1. [lint[s].file[s] EXCEPT !.blocks = UpTo(DowngradeLimit, @)] \in Tally
    BY NextTally, lint[s].file[s] \in Tally DEF Counts
  <2> QED
    BY <1>12, <1>1, <1>3, <2>1 DEF IncrementBlockCount, Places
<1>13. ASSUME NEW s \in Talks, SendBackReply(s) PROVE CounterTypes'
  BY <1>13, <1>1, CounterConstants DEF SendBackReply, Places, UpTo
<1>14. ASSUME NEW s \in Talks, LintKilled(s) PROVE CounterTypes'
  BY <1>14, <1>1, SeenCounts, CounterConstants DEF LintKilled, Places, Fails, Lost, BlocksLost
<1>15. CASE UNCHANGED counterVars
  BY <1>15 DEF counterVars
<1> QED
  BY <1>4, <1>5, <1>6, <1>7, <1>8, <1>9, <1>10, <1>11, <1>12, <1>13, <1>14, <1>15 DEF CounterNext

-----------------------------------------------------------------------------
(* Emptied or not, the file covers those whose blocks it has not lost. *)
LEMMA LostCounts ==
  ASSUME CounterTypes, Lost, NEW t \in Talks \ BlocksLost
  PROVE  counts'[t].blocks = counts[t].blocks
<1>1. Idle.file[t].blocks = 0 /\ counts[t].blocks \in 0..DowngradeLimit
  BY DEF CounterTypes, Counts, Tally, Idle, Zero
<1> QED
  BY <1>1, CounterConstants DEF Lost, BlocksLost

(* A write of s leaves a count of its own that nobody took back, and changes
   no other session's unless it names it; one that fails leaves the blocks as
   they are, and s is named when it was counting one. *)
LEMMA WriteCounts ==
  ASSUME CounterTypes, NEW s \in Talks, NEW entry \in Tally, Write(s, entry), NEW t \in Talks \ clobbered'
  PROVE  /\ t \notin clobbered
         /\ \/ lint[s].file[t] = counts[t] /\ counts'[t] = (IF t = s THEN entry ELSE counts[t])
            \/ counts'[t].blocks = counts[t].blocks /\ (t = s => lint[s].at # "blockWrite")
<1>1. CASE Fails /\ Lost /\ clobbered' = clobbered \cup BlocksLost \cup {u \in {s} : lint[s].at = "blockWrite"}
  BY <1>1, LostCounts
<1>2. CASE /\ counts' = [lint[s].file EXCEPT ![s] = entry]
           /\ clobbered' = clobbered \cup {u \in Talks : lint[s].file[u] # counts[u]}
  BY <1>2 DEF CounterTypes, Counts
<1> QED
  BY <1>1, <1>2 DEF Write

LEMMA CounterStepCover == CounterInv /\ [CounterNext]_counterVars => CoverInv'
<1> SUFFICES ASSUME CounterInv, [CounterNext]_counterVars, NEW t \in Talks \ clobbered'
             PROVE  Covered(t)'
  BY DEF CoverInv
<1> USE DEF CounterInv
<1>0. /\ CounterTypes /\ CounterTypes'
      /\ t \notin clobbered => Covered(t)
      /\ counts[t].blocks \in 0..DowngradeLimit /\ inRow[t] \in Nat /\ DowngradeLimit \in Nat
  BY CounterStepTypes, CounterConstants DEF CoverInv, CounterTypes, Counts, Tally
<1>1. ASSUME NEW s \in Talks, NEW at \in Places, Go(s, at) PROVE lint'[t].at = IF t = s THEN at ELSE lint[t].at
  BY <1>0, <1>1 DEF Go, CounterTypes, Idle
<1>2. ASSUME NEW s \in Talks, NEW at \in Places, Read(s, at) PROVE lint'[t].at = IF t = s THEN at ELSE lint[t].at
  BY <1>0, <1>2 DEF Read, CounterTypes
<1>3. ASSUME NEW s \in Talks, AnswerPasses(s) PROVE Covered(t)'
  BY <1>0, <1>3 DEF AnswerPasses, Covered
<1>4. ASSUME NEW s \in Talks, ReplyClean(s) PROVE Covered(t)'
  <2>1. inRow'[t] = IF t = s THEN 0 ELSE inRow[t]
    BY <1>0, <1>4 DEF ReplyClean, CounterTypes
  <2>2. lint'[t].at = lint[t].at \/ (t = s /\ lint'[t].at = "reset")
    BY <1>4, <1>2 DEF ReplyClean, Places
  <2>3. lint[s].at = "idle" /\ UNCHANGED <<counts, clobbered>>
    BY <1>4 DEF ReplyClean
  <2> QED
    BY <1>0, <2>1, <2>2, <2>3 DEF Covered
<1>5. ASSUME NEW s \in Talks, ResetBlocks(s) PROVE Covered(t)'
  <2> DEFINE entry == [lint[s].file[s] EXCEPT !.blocks = 0]
  <2>1. /\ lint'[t].at = IF t = s THEN "idle" ELSE lint[t].at
        /\ inRow' = inRow /\ lint[s].at = "reset"
    BY <1>5, <1>1 DEF ResetBlocks, Places
  <2>2. entry \in Tally /\ entry.blocks = 0
    BY <1>0, NextTally, lint[s].file[s] \in Tally DEF CounterTypes, Counts
  <2>3. t \notin clobbered /\ (t # s => counts'[t].blocks = counts[t].blocks) /\ counts'[t].blocks \in 0..DowngradeLimit
    <3>1. Write(s, entry)
      BY <1>5 DEF ResetBlocks
    <3> HIDE DEF entry
    <3> QED
      BY <1>0, <2>2, <3>1, WriteCounts
  <2> QED
    BY <1>0, <2>1, <2>3 DEF Covered
<1>6. ASSUME NEW s \in Talks, ReplyBreaksRule(s) PROVE Covered(t)'
  <2>1. lint'[t].at = (IF t = s THEN "count" ELSE lint[t].at)
    BY <1>6, <1>2 DEF ReplyBreaksRule, Places
  <2> QED
    BY <1>0, <1>6, <2>1 DEF ReplyBreaksRule, Covered
<1>7. ASSUME NEW s \in Talks, IncrementCounter(s) PROVE Covered(t)'
  <2> DEFINE entry == [lint[s].file[s] EXCEPT !.violations = UpTo(Threshold - 1, @)]
  <2>1. /\ lint'[t].at \in (IF t = s THEN {"decide", "idle"} ELSE {lint[t].at})
        /\ inRow' = inRow
    BY <1>7, <1>1 DEF IncrementCounter, Places
  <2>2. entry \in Tally /\ entry.blocks = lint[s].file[s].blocks
    BY <1>0, NextTally, lint[s].file[s] \in Tally DEF CounterTypes, Counts
  <2>3. t \notin clobbered /\ counts'[t].blocks = counts[t].blocks
    BY <1>0, <1>7, <2>2, WriteCounts DEF IncrementCounter
  <2> QED
    BY <1>0, <2>1, <2>3 DEF Covered
<1>8. ASSUME NEW s \in Talks, Downgrade(s) PROVE Covered(t)'
  <2>1. /\ lint'[t].at = (IF t = s THEN "idle" ELSE lint[t].at)
        /\ inRow'[t] = (IF t = s THEN 0 ELSE inRow[t])
        /\ UNCHANGED <<counts, clobbered>>
    BY <1>0, <1>8, <1>1 DEF Downgrade, Places, CounterTypes
  <2> QED
    BY <1>0, <2>1 DEF Covered
<1>9. ASSUME NEW s \in Talks, HardBlock(s) PROVE Covered(t)'
  <2>1. /\ lint'[t].at = (IF t = s THEN "block" ELSE lint[t].at)
        /\ UNCHANGED <<counts, inRow>> /\ t \notin clobbered
    BY <1>9, <1>1 DEF HardBlock, Places
  <2>2. t = s => counts[t].blocks < DowngradeLimit
    BY <1>9 DEF HardBlock
  <2>3. lint[s].at = "decide"
    BY <1>9 DEF HardBlock
  <2> QED
    BY <1>0, <2>1, <2>2, <2>3 DEF Covered
<1>10. ASSUME NEW s \in Talks, StartBlock(s) PROVE Covered(t)'
  <2>1. lint'[t].at = (IF t = s THEN "blockWrite" ELSE lint[t].at)
    BY <1>10, <1>2 DEF StartBlock, Places
  <2> QED
    BY <1>0, <1>10, <2>1 DEF StartBlock, Covered
<1>11. ASSUME NEW s \in Talks, IncrementBlockCount(s) PROVE Covered(t)'
  <2> DEFINE entry == [lint[s].file[s] EXCEPT !.blocks = UpTo(DowngradeLimit, @)]
  <2>1. /\ lint'[t].at = (IF t = s THEN "sendBack" ELSE lint[t].at)
        /\ inRow' = inRow /\ lint[s].at = "blockWrite"
    BY <1>11, <1>1 DEF IncrementBlockCount, Places
  <2>2. entry \in Tally /\ entry.blocks = UpTo(DowngradeLimit, lint[s].file[s].blocks)
    BY <1>0, NextTally, lint[s].file[s] \in Tally DEF CounterTypes, Counts
  <2>3. /\ t \notin clobbered
        /\ t # s => counts'[t].blocks = counts[t].blocks
        /\ t = s => counts'[t].blocks = UpTo(DowngradeLimit, counts[t].blocks)
    BY <1>0, <1>11, <2>1, <2>2, WriteCounts DEF IncrementBlockCount
  <2>4. t = s => counts'[t].blocks = counts[t].blocks + 1
    BY <1>0, <2>1, <2>3 DEF Covered, UpTo
  <2> QED
    BY <1>0, <2>1, <2>3, <2>4 DEF Covered
<1>12. ASSUME NEW s \in Talks, SendBackReply(s) PROVE Covered(t)'
  <2>1. /\ lint'[t].at = (IF t = s THEN "idle" ELSE lint[t].at)
        /\ lint[s].at = "sendBack" /\ UNCHANGED <<counts, clobbered>>
        /\ inRow'[t] = (IF t = s THEN UpTo(DowngradeLimit + 1, inRow[t]) ELSE inRow[t])
    BY <1>0, <1>12, <1>1 DEF SendBackReply, Places, CounterTypes
  <2> QED
    BY <1>0, <2>1 DEF Covered, UpTo
<1>13. ASSUME NEW s \in Talks, LintKilled(s) PROVE Covered(t)'
  <2>1. lint'[t].at = (IF t = s THEN "idle" ELSE lint[t].at)
    BY <1>13, <1>1 DEF LintKilled, Places
  <2>2. t \notin clobbered /\ counts'[t].blocks = counts[t].blocks /\ inRow' = inRow
    BY <1>0, <1>13, LostCounts DEF LintKilled
  <2> QED
    BY <1>0, <2>1, <2>2 DEF Covered
<1>14. CASE UNCHANGED counterVars
  BY <1>0, <1>14 DEF counterVars, Covered
<1> QED
  BY <1>3, <1>4, <1>5, <1>6, <1>7, <1>8, <1>9, <1>10, <1>11, <1>12, <1>13, <1>14 DEF CounterNext

\* The count, the hooks' copies of it and what they are at stay in their domains.
THEOREM TypeCorrect == CounterSpec => []CounterTypes
<1>1. CounterInit => CounterTypes
  BY CounterInitInv DEF CounterInv
<1> QED
  BY <1>1, CounterStepTypes, PTL DEF CounterSpec

\* No session is sent back more than DowngradeLimit turns in a row, kills
\* included, while its count is its own and reaches the disk.
THEOREM BlocksGiveWayHolds == CounterSpec => []BlocksGiveWay
<1>1. CounterInv /\ [CounterNext]_counterVars => CounterInv'
  BY CounterStepTypes, CounterStepCover DEF CounterInv
<1>2. CounterInv => BlocksGiveWay
  <2> SUFFICES ASSUME CounterInv, NEW s \in Talks \ clobbered PROVE inRow[s] <= DowngradeLimit
    BY DEF BlocksGiveWay
  <2>1. inRow[s] \in Nat /\ counts[s].blocks \in 0..DowngradeLimit
    BY CounterConstants DEF CounterInv, CounterTypes, Counts, Tally
  <2> QED
    BY <2>1, CounterConstants DEF CounterInv, CoverInv, Covered
<1> QED
  BY <1>1, <1>2, CounterInitInv, PTL DEF CounterSpec

-----------------------------------------------------------------------------
Stages == {"idle", "backup", "write", "fill"}
TextFile == [own : Nat, auto : BOOLEAN, failed : BOOLEAN]

(* A file that carries the marker holds no text of a person's. *)
MarkedIsOurs(f) == f.auto => f.own = NoText

MirrorTypes ==
  /\ texts \in Nat /\ exposed \in BOOLEAN
  /\ index \in TextFile /\ MarkedIsOurs(index)
  /\ opening \in [Openings -> [at : Stages, holds : TextFile]]
  /\ \A s \in Openings : /\ MarkedIsOurs(opening[s].holds)
                         /\ opening[s].at = "idle" => opening[s].holds = Blanked

(* Until then no older text is on the disk, or on its way to it. *)
NoOlder(f) == f.own \in {NoText, texts}
NoOlderInv ==
  exposed \/ (NoOlder(index) /\ \A s \in Openings : NoOlder(opening[s].holds))

(* A session start that is to rewrite the index has the last text in hand, or
   knows it to be in a backup. *)
InHand(s) == opening[s].holds.own = texts
InHandInv ==
  texts = 0 \/ exposed \/ \A s \in Openings :
    /\ opening[s].at = "backup" => InHand(s)
    /\ opening[s].at \in {"write", "fill"} => InHand(s) \/ texts \in backups

MirrorInv == MirrorTypes /\ NoOlderInv /\ InHandInv /\ OwnTextKept

LEMMA BlankedIsFile == Blanked \in TextFile /\ Synced \in TextFile /\ Blanked.own = 0 /\ Synced.own = 0
                       /\ ~Blanked.auto /\ Synced.auto
  BY DEF Blanked, Synced, TextFile, NoText

LEMMA MirrorInitInv == MemoryFilesInit => MirrorInv
<1> SUFFICES ASSUME MemoryFilesInit PROVE MirrorInv
  OBVIOUS
<1>1. index = Blanked /\ texts = 0 /\ exposed = FALSE
  BY DEF MemoryFilesInit
<1>2. opening = [s \in Openings |-> [at |-> "idle", holds |-> Blanked]]
  BY DEF MemoryFilesInit, NotOpening
<1>3. MirrorTypes
  BY <1>1, <1>2, BlankedIsFile DEF MirrorTypes, MarkedIsOurs, NoText, Stages
<1>4. NoOlderInv
  BY <1>1, <1>2, BlankedIsFile DEF NoOlderInv, NoOlder, NoText
<1> QED
  BY <1>1, <1>3, <1>4 DEF MirrorInv, InHandInv, OwnTextKept

(* What Proceeds leaves behind. *)
LEMMA ProceedsMoves ==
  ASSUME MirrorTypes, NEW s \in Openings, NEW w \in Stages, NEW f \in TextFile,
         MarkedIsOurs(f), w = "idle" => f = Blanked, Proceeds(s, w, f)
  PROVE  /\ opening' \in [Openings -> [at : Stages, holds : TextFile]]
         /\ \A t \in Openings : /\ MarkedIsOurs(opening'[t].holds)
                                /\ opening'[t].at = "idle" => opening'[t].holds = Blanked
         /\ opening'[s].at = w /\ opening'[s].holds = f
         /\ \A t \in Openings \ {s} : opening'[t] = opening[t]
<1>1. opening' = [opening EXCEPT ![s] = [at |-> w, holds |-> f]]
  BY DEF Proceeds
<1>2. opening'[s] = [at |-> w, holds |-> f] /\ \A t \in Openings \ {s} : opening'[t] = opening[t]
  BY <1>1 DEF MirrorTypes
<1>3. opening' \in [Openings -> [at : Stages, holds : TextFile]]
  BY <1>1 DEF MirrorTypes
<1> QED
  BY <1>2, <1>3 DEF MirrorTypes

LEMMA MirrorStepInv == MirrorInv /\ [MemoryFilesNext]_mirrorVars => MirrorInv'
<1> SUFFICES ASSUME MirrorInv, [MemoryFilesNext]_mirrorVars PROVE MirrorInv'
  OBVIOUS
<1> USE DEF NoText
<1>0. MirrorTypes /\ NoOlderInv /\ InHandInv /\ OwnTextKept
  BY DEF MirrorInv
<1>1. CASE WriteOwn
  \* A session start that is idle holds nothing.
  <2>1. /\ texts' = texts + 1 /\ opening' = opening /\ exposed' \in BOOLEAN
        /\ index' = [Blanked EXCEPT !.own = texts']
        /\ exposed' \/ \A s \in Openings : opening[s].at = "idle"
    BY <1>1 DEF WriteOwn
  <2>2. texts' \in Nat
    BY <1>0, <2>1 DEF MirrorTypes
  <2>3. index' = [own |-> texts', auto |-> FALSE, failed |-> FALSE]
    BY <2>1 DEF Blanked
  <2>4. MirrorTypes'
    <3>1. index' \in TextFile /\ MarkedIsOurs(index')
      BY <2>2, <2>3 DEF TextFile, MarkedIsOurs
    <3> QED
      BY <1>0, <2>1, <2>2, <3>1 DEF MirrorTypes, MarkedIsOurs
  <2>5. NoOlderInv'
    <3>1. exposed' \/ \A s \in Openings : opening'[s].holds.own = 0
      BY <1>0, <2>1, BlankedIsFile DEF MirrorTypes
    <3>2. index'.own = texts'
      BY <2>3
    <3> QED
      BY <3>1, <3>2 DEF NoOlderInv, NoOlder
  <2>6. InHandInv'
    BY <2>1 DEF InHandInv, InHand
  <2>7. OwnTextKept'
    BY <2>3 DEF OwnTextKept
  <2> QED
    BY <2>4, <2>5, <2>6, <2>7 DEF MirrorInv
<1>2. ASSUME NEW s \in Openings, StartSync(s) PROVE MirrorInv'
  <2>1. UNCHANGED <<index, texts, backups>> /\ exposed' \in BOOLEAN /\ (exposed => exposed')
    BY <1>0, <1>2 DEF StartSync, Reads, MirrorTypes
  <2>2. exposed' \/ \A t \in Openings : ~Emptied(t)
    BY <1>2 DEF StartSync, Reads
  <2>3. PICK w \in Stages, f \in TextFile :
          /\ Proceeds(s, w, f) /\ MarkedIsOurs(f) /\ (exposed \/ NoOlder(f))
          /\ \/ w = "write" /\ f.own = 0 /\ (texts = 0 \/ index.own # texts)
             \/ w = "backup" /\ f = index /\ index.own # 0
    <3>1. CASE index.auto \/ index.own = NoText
      <4>1. Proceeds(s, "write", Synced)
        BY <1>2, <3>1 DEF StartSync
      <4>2. index.own = NoText /\ texts \in Nat
        BY <1>0, <3>1 DEF MirrorTypes, MarkedIsOurs
      <4>3. MarkedIsOurs(Synced) /\ NoOlder(Synced)
        BY BlankedIsFile DEF MarkedIsOurs, NoOlder
      <4>4. texts = 0 \/ index.own # texts
        BY <4>2
      <4>5. "write" \in Stages /\ Synced \in TextFile
        BY BlankedIsFile DEF Stages
      <4> QED
        BY <4>1, <4>3, <4>4, <4>5, BlankedIsFile
    <3>2. CASE ~(index.auto \/ index.own = NoText)
      <4>1. Proceeds(s, "backup", index)
        BY <1>2, <3>2 DEF StartSync
      <4> QED
        BY <1>0, <3>2, <4>1 DEF Stages, MarkedIsOurs, NoOlder, NoOlderInv, MirrorTypes
    <3> QED
      BY <3>1, <3>2
  <2>4. w # "idle"
    BY <2>3
  <2>5. /\ opening' \in [Openings -> [at : Stages, holds : TextFile]]
        /\ \A t \in Openings : /\ MarkedIsOurs(opening'[t].holds)
                               /\ opening'[t].at = "idle" => opening'[t].holds = Blanked
        /\ opening'[s].at = w /\ opening'[s].holds = f
        /\ \A t \in Openings \ {s} : opening'[t] = opening[t]
    BY <1>0, <2>3, <2>4, ProceedsMoves
  <2>6. MirrorTypes'
    BY <1>0, <2>1, <2>5 DEF MirrorTypes, MarkedIsOurs
  <2>7. NoOlderInv'
    <3>1. CASE exposed'
      BY <3>1 DEF NoOlderInv, NoOlder
    <3>2. CASE ~exposed'
      <4>1. NoOlder(index) /\ (\A t \in Openings : NoOlder(opening[t].holds)) /\ NoOlder(opening'[s].holds)
        BY <1>0, <2>1, <2>3, <2>5, <3>2 DEF NoOlderInv, NoOlder
      <4> QED
        BY <2>1, <2>5, <4>1 DEF NoOlderInv, NoOlder
    <3> QED
      BY <3>1, <3>2
  <2>8. texts = 0 \/ exposed' \/ index.own = texts \/ texts \in backups
    BY <1>0, <2>1, <2>2 DEF OwnTextKept
  <2>9. \/ texts = 0 \/ exposed'
        \/ f = index /\ w = "backup" /\ index.own = texts
        \/ w = "write" /\ texts \in backups
    <3>1. CASE texts # 0 /\ ~exposed'
      <4>1. index.own \in {0, texts}
        BY <1>0, <2>1, <3>1 DEF NoOlderInv, NoOlder
      <4>2. CASE w = "write"
        BY <2>3, <2>8, <3>1, <4>2
      <4>3. CASE w = "backup"
        BY <2>3, <3>1, <4>1, <4>3
      <4> QED
        BY <2>3, <4>2, <4>3
    <3> QED
      BY <3>1
  <2>10. InHandInv'
    BY <1>0, <2>1, <2>5, <2>9 DEF InHandInv, InHand
  <2>11. OwnTextKept'
    BY <2>1, <2>8 DEF OwnTextKept
  <2> QED
    BY <2>6, <2>7, <2>10, <2>11 DEF MirrorInv
<1>3. ASSUME NEW s \in Openings, BackUp(s) PROVE MirrorInv'
  <2>1. /\ UNCHANGED <<index, texts, exposed>> /\ opening[s].at = "backup"
        /\ backups' = backups \cup {opening[s].holds.own} /\ Proceeds(s, "write", Synced)
    BY <1>3 DEF BackUp
  <2>2. /\ opening' \in [Openings -> [at : Stages, holds : TextFile]]
        /\ \A t \in Openings : /\ MarkedIsOurs(opening'[t].holds)
                               /\ opening'[t].at = "idle" => opening'[t].holds = Blanked
        /\ opening'[s].at = "write" /\ opening'[s].holds = Synced
        /\ \A t \in Openings \ {s} : opening'[t] = opening[t]
    BY <1>0, <2>1, BlankedIsFile, ProceedsMoves DEF MarkedIsOurs, Stages
  <2>3. MirrorTypes'
    BY <1>0, <2>1, <2>2 DEF MirrorTypes, MarkedIsOurs
  <2>4. NoOlderInv'
    BY <1>0, <2>1, <2>2, BlankedIsFile DEF NoOlderInv, NoOlder
  <2>5. texts = 0 \/ exposed \/ texts \in backups'
    BY <1>0, <2>1 DEF InHandInv, InHand
  <2> QED
    BY <1>0, <2>1, <2>2, <2>3, <2>4, <2>5 DEF MirrorInv, InHandInv, InHand, OwnTextKept
<1>4. ASSUME NEW s \in Openings, BackUpFails(s) PROVE MirrorInv'
  <2>1. /\ UNCHANGED <<index, texts, backups>> /\ opening[s].at = "backup" /\ Proceeds(s, "write", Synced)
        /\ exposed' = (exposed \/ opening[s].holds.own = texts)
    BY <1>4 DEF BackUpFails
  <2>2. /\ opening' \in [Openings -> [at : Stages, holds : TextFile]]
        /\ \A t \in Openings : /\ MarkedIsOurs(opening'[t].holds)
                               /\ opening'[t].at = "idle" => opening'[t].holds = Blanked
        /\ opening'[s].at = "write" /\ opening'[s].holds = Synced
        /\ \A t \in Openings \ {s} : opening'[t] = opening[t]
    BY <1>0, <2>1, BlankedIsFile, ProceedsMoves DEF MarkedIsOurs, Stages
  <2>3. MirrorTypes'
    BY <1>0, <2>1, <2>2 DEF MirrorTypes, MarkedIsOurs
  <2>4. NoOlderInv'
    BY <1>0, <2>1, <2>2, BlankedIsFile DEF NoOlderInv, NoOlder
  \* What it held is the last text, or there is none.
  <2>5. texts = 0 \/ exposed'
    BY <1>0, <2>1 DEF InHandInv, InHand
  <2> QED
    BY <2>1, <2>3, <2>4, <2>5 DEF MirrorInv, InHandInv, OwnTextKept
<1>5. ASSUME NEW s \in Openings, StartMark(s) PROVE MirrorInv'
  <2>1. /\ UNCHANGED <<index, texts, backups>> /\ exposed' \in BOOLEAN /\ (exposed => exposed')
        /\ Proceeds(s, "write", MarkedFailed)
    BY <1>0, <1>5 DEF StartMark, Reads, MirrorTypes
  <2>2. exposed' \/ \A t \in Openings : ~Emptied(t)
    BY <1>5 DEF StartMark, Reads
  <2>3. /\ MarkedFailed \in TextFile /\ MarkedFailed.own = index.own
        /\ MarkedFailed.auto = (index.auto \/ index.own = 0)
    BY <1>0 DEF MarkedFailed, MirrorTypes, TextFile
  <2>4. MarkedIsOurs(MarkedFailed)
    BY <1>0, <2>3 DEF MirrorTypes, MarkedIsOurs
  <2>5. /\ opening' \in [Openings -> [at : Stages, holds : TextFile]]
        /\ \A t \in Openings : /\ MarkedIsOurs(opening'[t].holds)
                               /\ opening'[t].at = "idle" => opening'[t].holds = Blanked
        /\ opening'[s].at = "write" /\ opening'[s].holds = MarkedFailed
        /\ \A t \in Openings \ {s} : opening'[t] = opening[t]
    BY <1>0, <2>1, <2>3, <2>4, ProceedsMoves DEF Stages
  <2>6. MirrorTypes'
    BY <1>0, <2>1, <2>5 DEF MirrorTypes, MarkedIsOurs
  <2>7. NoOlderInv'
    <3>1. CASE exposed'
      BY <3>1 DEF NoOlderInv, NoOlder
    <3>2. CASE ~exposed'
      <4>1. NoOlder(index) /\ (\A t \in Openings : NoOlder(opening[t].holds)) /\ NoOlder(opening'[s].holds)
        BY <1>0, <2>1, <2>3, <2>5, <3>2 DEF NoOlderInv, NoOlder
      <4> QED
        BY <2>1, <2>5, <4>1 DEF NoOlderInv, NoOlder
    <3> QED
      BY <3>1, <3>2
  <2>8. texts = 0 \/ exposed' \/ index.own = texts \/ texts \in backups
    BY <1>0, <2>1, <2>2 DEF OwnTextKept
  <2>9. InHandInv'
    BY <1>0, <2>1, <2>3, <2>5, <2>8 DEF InHandInv, InHand
  <2> QED
    BY <2>1, <2>6, <2>7, <2>8, <2>9 DEF MirrorInv, OwnTextKept
<1>6. ASSUME NEW s \in Openings, EmptyIndex(s) PROVE MirrorInv'
  <2> DEFINE held == opening[s].holds
  <2>1. /\ UNCHANGED <<texts, backups, exposed>> /\ opening[s].at = "write"
        /\ index' = Blanked /\ Proceeds(s, "fill", held)
    BY <1>6 DEF EmptyIndex
  <2>2. held \in TextFile /\ MarkedIsOurs(held) /\ (exposed \/ NoOlder(held))
    <3>1. held \in TextFile /\ MarkedIsOurs(held)
      BY <1>0 DEF MirrorTypes, MarkedIsOurs
    <3>2. exposed \/ NoOlder(held)
      BY <1>0 DEF NoOlderInv
    <3> QED
      BY <3>1, <3>2
  <2>3. /\ opening' \in [Openings -> [at : Stages, holds : TextFile]]
        /\ \A t \in Openings : /\ MarkedIsOurs(opening'[t].holds)
                               /\ opening'[t].at = "idle" => opening'[t].holds = Blanked
        /\ opening'[s].at = "fill" /\ opening'[s].holds = held
        /\ \A t \in Openings \ {s} : opening'[t] = opening[t]
    BY <1>0, <2>1, <2>2, ProceedsMoves DEF Stages
  <2>4. MirrorTypes'
    BY <1>0, <2>1, <2>3, BlankedIsFile DEF MirrorTypes, MarkedIsOurs
  <2>5. NoOlderInv'
    BY <1>0, <2>1, <2>2, <2>3, BlankedIsFile DEF NoOlderInv, NoOlder
  <2>6. texts = 0 \/ exposed \/ held.own = texts \/ texts \in backups
    BY <1>0, <2>1 DEF InHandInv, InHand
  <2>7. InHandInv'
    BY <1>0, <2>1, <2>3, <2>6 DEF InHandInv, InHand
  <2>8. OwnTextKept'
    BY <1>0, <2>1, <2>3, <2>6 DEF OwnTextKept, Emptied, MirrorTypes
  <2> QED
    BY <2>4, <2>5, <2>7, <2>8 DEF MirrorInv
<1>7. ASSUME NEW s \in Openings, FillIndex(s) PROVE MirrorInv'
  <2> DEFINE held == opening[s].holds
  <2>1. /\ UNCHANGED <<texts, backups, exposed>> /\ opening[s].at = "fill"
        /\ index' = held /\ Proceeds(s, "idle", Blanked)
    BY <1>7 DEF FillIndex
  <2>2. held \in TextFile /\ MarkedIsOurs(held) /\ (exposed \/ NoOlder(held))
    <3>1. held \in TextFile /\ MarkedIsOurs(held)
      BY <1>0 DEF MirrorTypes, MarkedIsOurs
    <3>2. exposed \/ NoOlder(held)
      BY <1>0 DEF NoOlderInv
    <3> QED
      BY <3>1, <3>2
  <2>3. /\ opening' \in [Openings -> [at : Stages, holds : TextFile]]
        /\ \A t \in Openings : /\ MarkedIsOurs(opening'[t].holds)
                               /\ opening'[t].at = "idle" => opening'[t].holds = Blanked
        /\ opening'[s].at = "idle" /\ opening'[s].holds = Blanked
        /\ \A t \in Openings \ {s} : opening'[t] = opening[t]
    BY <1>0, <2>1, BlankedIsFile, ProceedsMoves DEF Stages, MarkedIsOurs
  <2>4. MirrorTypes'
    BY <1>0, <2>1, <2>2, <2>3 DEF MirrorTypes, MarkedIsOurs
  <2>5. NoOlderInv'
    BY <1>0, <2>1, <2>2, <2>3, BlankedIsFile DEF NoOlderInv, NoOlder
  <2>6. texts = 0 \/ exposed \/ held.own = texts \/ texts \in backups
    BY <1>0, <2>1 DEF InHandInv, InHand
  <2>7. InHandInv'
    BY <1>0, <2>1, <2>3 DEF InHandInv, InHand
  <2>8. OwnTextKept'
    BY <2>1, <2>6 DEF OwnTextKept
  <2> QED
    BY <2>4, <2>5, <2>7, <2>8 DEF MirrorInv
<1>8. ASSUME NEW s \in Openings, OpeningStops(s) PROVE MirrorInv'
  <2>1. /\ UNCHANGED <<index, texts, backups>> /\ Proceeds(s, "idle", Blanked)
        /\ exposed' = (exposed \/ Emptied(s))
    BY <1>8 DEF OpeningStops
  <2>2. /\ opening' \in [Openings -> [at : Stages, holds : TextFile]]
        /\ \A t \in Openings : /\ MarkedIsOurs(opening'[t].holds)
                               /\ opening'[t].at = "idle" => opening'[t].holds = Blanked
        /\ opening'[s].at = "idle" /\ opening'[s].holds = Blanked
        /\ \A t \in Openings \ {s} : opening'[t] = opening[t]
    BY <1>0, <2>1, BlankedIsFile, ProceedsMoves DEF Stages, MarkedIsOurs
  <2>3. exposed' \in BOOLEAN /\ (exposed => exposed')
    BY <1>0, <2>1 DEF MirrorTypes, Emptied
  <2>4. MirrorTypes'
    BY <1>0, <2>1, <2>2, <2>3 DEF MirrorTypes, MarkedIsOurs
  <2>5. NoOlderInv'
    BY <1>0, <2>1, <2>2, <2>3, BlankedIsFile DEF NoOlderInv, NoOlder
  <2>6. InHandInv'
    BY <1>0, <2>1, <2>2, <2>3 DEF InHandInv, InHand
  <2>7. OwnTextKept'
    BY <1>0, <2>1, <2>2 DEF OwnTextKept, Emptied
  <2> QED
    BY <2>4, <2>5, <2>6, <2>7 DEF MirrorInv
<1>9. CASE UNCHANGED mirrorVars
  BY <1>0, <1>9 DEF mirrorVars, MirrorInv, MirrorTypes, NoOlderInv, NoOlder, InHandInv, InHand, OwnTextKept, Emptied, MarkedIsOurs
<1> QED
  BY <1>1, <1>2, <1>3, <1>4, <1>5, <1>6, <1>7, <1>8, <1>9 DEF MemoryFilesNext, MirrorStep

(* The text a person wrote into MEMORY.md is in it, in a backup or about to be
   put back, however many session starts overlap, until it is exposed. *)
THEOREM OwnTextKeptHolds == MemoryFilesSpec => []OwnTextKept
<1>1. MirrorInv => OwnTextKept
  BY DEF MirrorInv
<1> QED
  BY <1>1, MirrorInitInv, MirrorStepInv, PTL DEF MemoryFilesSpec

-----------------------------------------------------------------------------
(* The gate in front of commands *)

(* A command at the gate, whatever guards it has before it. *)
AtGate(rest) == [at : {"wait", "look", "allow", "ran"}, rest : {rest}, uses : SUBSET Guards]
AskRow == [kind : {"none", "ask", "limit"}, mode : {"code", "verbal"}, approved : BOOLEAN, misses : Nat, old : BOOLEAN]
GateShape ==
  /\ askMode \in [Guards -> {"code", "verbal"}] /\ ask \in [Guards -> AskRow]
  /\ gate = [c \in Commands |-> gate[c]] /\ \A c \in Commands : \E rest : gate[c] \in AtGate(rest)
  /\ grants \in [Guards -> 0..Many] /\ openings \in [Guards -> 0..Many]

(* n more commands can still be let through than were. *)
Room(g, n) == openings[g] + n <= grants[g] \/ grants[g] = Many

(* An approval that lies in its file, or that a command is to use up, has not
   been counted yet; one that was given since the other was taken is a second. *)
OpeningsCovered(g) ==
  /\ openings[g] <= grants[g]
  /\ ask[g].approved => Room(g, 1)
  /\ \A c \in Commands : g \in gate[c].uses =>
       /\ Room(g, 1)
       /\ gate[c].at = "allow" /\ ask[g].approved => Room(g, 2)
       /\ \A d \in Commands : g \in gate[d].uses => c = d
GateInv == GateShape /\ \A g \in Guards \ shared : OpeningsCovered(g)

LEMMA ManyIsNat == Many \in Nat
  BY GateConstants, FS_CardinalityType DEF Many

LEMMA UntriedAtGate == Untried \in AtGate(<<>>) /\ Untried.uses = {} /\ NoAsk \in AskRow /\ ~NoAsk.approved
  BY DEF Untried, AtGate, NoAsk, AskRow

LEMMA GateInitInv == GateInit => GateInv
<1> SUFFICES ASSUME GateInit PROVE GateInv
  OBVIOUS
<1>1. GateShape
  BY ManyIsNat, UntriedAtGate DEF GateInit, GateShape
<1>2. \A c \in Commands : gate[c].uses = {}
  BY UntriedAtGate DEF GateInit
<1>3. ASSUME NEW g \in Guards PROVE OpeningsCovered(g)
  BY <1>2, UntriedAtGate DEF GateInit, OpeningsCovered
<1> QED
  BY <1>1, <1>3 DEF GateInv

LEMMA AskIssued ==
  ASSUME GateShape, NEW g \in Guards, NEW kind \in {"ask", "limit"}, IssueAsk(g, kind)
  PROVE  ask' \in [Guards -> AskRow] /\ ~ask'[g].approved /\ \A h \in Guards \ {g} : ask'[h] = ask[h]
<1> DEFINE mode == IF kind = "ask" THEN askMode[g] ELSE "code"
<1>1. mode \in {"code", "verbal"}
  BY DEF GateShape
<1>2. Issued(g, kind) = [NoAsk EXCEPT !.kind = kind, !.mode = mode]
  BY DEF Issued
<1> HIDE DEF mode
<1>3. Issued(g, kind) \in AskRow /\ ~Issued(g, kind).approved
  BY <1>1, <1>2, UntriedAtGate DEF AskRow
<1> QED
  BY <1>3 DEF IssueAsk, GateShape

LEMMA BumpAsks ==
  ASSUME GateShape, NEW g \in Guards, NEW kind, Bump(g, kind)
  PROVE  ask' \in [Guards -> AskRow] /\ \A h \in Guards : ask'[h].approved => ask[h].approved
<1>1. IssueAsk(g, "limit") \/ UNCHANGED ask
  BY Zenon DEF Bump
<1>2. CASE IssueAsk(g, "limit")
  BY <1>2, AskIssued
<1>3. CASE UNCHANGED ask
  BY <1>3 DEF GateShape
<1> QED
  BY <1>1, <1>2, <1>3

(* The hook of one command moves. *)
LEMMA HookMoves ==
  ASSUME GateShape, NEW c \in Commands, NEW next, NEW rest, next \in AtGate(rest), gate' = [gate EXCEPT ![c] = next]
  PROVE  /\ gate' = [d \in Commands |-> gate'[d]] /\ \A d \in Commands : \E r : gate'[d] \in AtGate(r)
         /\ gate'[c] = next /\ \A d \in Commands \ {c} : gate'[d] = gate[d]
  BY DEF GateShape

(* Nothing is approved, taken or let through. *)
LEMMA CoveredKept ==
  ASSUME GateInv, NEW g \in Guards \ shared, openings'[g] = openings[g], grants'[g] = grants[g],
         ask'[g].approved => ask[g].approved,
         \A c \in Commands : g \in gate'[c].uses =>
           g \in gate[c].uses /\ (gate'[c].at = "allow" => gate[c].at = "allow" \/ ~ask'[g].approved)
  PROVE  OpeningsCovered(g)'
<1>1. OpeningsCovered(g)
  BY DEF GateInv
<1> QED
  BY <1>1, Zenon DEF OpeningsCovered, Room

LEMMA GateStepInv == GateInv /\ [GateNext]_gateVars => GateInv'
<1> SUFFICES ASSUME GateInv, [GateNext]_gateVars PROVE GateInv'
  OBVIOUS
<1>0. GateShape
  BY DEF GateInv
<1>1. ASSUME NEW c \in Commands, ToolCall(c) PROVE GateInv'
  <2> DEFINE rest == SetToSortSeq(Matches[c], <)
             next == [at |-> "look", rest |-> rest, uses |-> {}]
  <2>1. gate' = [gate EXCEPT ![c] = next] /\ UNCHANGED <<ask, askMode, grants, openings, shared>>
    BY <1>1 DEF ToolCall, gateHistory
  <2>2. next \in AtGate(rest) /\ next.uses = {}
    BY DEF AtGate
  <2> HIDE DEF next, rest
  <2>3. /\ gate' = [d \in Commands |-> gate'[d]] /\ \A d \in Commands : \E r : gate'[d] \in AtGate(r)
        /\ gate'[c] = next /\ \A d \in Commands \ {c} : gate'[d] = gate[d]
    BY <1>0, <2>1, <2>2, HookMoves
  <2>4. GateShape'
    BY <1>0, <2>1, <2>3 DEF GateShape
  <2>5. \A g \in Guards \ shared' : OpeningsCovered(g)'
    BY <2>1, <2>2, <2>3, CoveredKept
  <2> QED
    BY <2>4, <2>5 DEF GateInv
<1>2. ASSUME NEW c \in Commands, BlockToRead(c) \/ BlockByCheck(c) \/ AskFirst(c) \/ GateHookKilled(c) PROVE GateInv'
  <2>1. /\ gate' = [gate EXCEPT ![c] = Untried] /\ UNCHANGED <<askMode, grants, openings, shared>>
        /\ ask' \in [Guards -> AskRow] /\ \A g \in Guards : ask'[g].approved => ask[g].approved
    <3>1. CASE BlockToRead(c) \/ BlockByCheck(c)
      <4>1. gate' = [gate EXCEPT ![c] = Untried] /\ UNCHANGED <<askMode, grants, openings, shared>>
        BY <3>1 DEF BlockToRead, BlockByCheck, SendAway, gateHistory
      <4>2. PICK g \in Guards : Bump(g, "read") \/ Bump(g, "check")
        BY <3>1, Zenon DEF BlockToRead, BlockByCheck
      <4> QED
        BY <1>0, <4>1, <4>2, BumpAsks
    <3>2. CASE AskFirst(c)
      <4>1. gate' = [gate EXCEPT ![c] = Untried] /\ UNCHANGED <<askMode, grants, openings, shared>>
        BY <3>2 DEF AskFirst, SendAway, gateHistory
      <4>2. PICK g \in Guards : IssueAsk(g, "ask")
        BY <3>2, Zenon DEF AskFirst
      <4> QED
        BY <1>0, <4>1, <4>2, AskIssued
    <3>3. CASE GateHookKilled(c)
      BY <1>0, <3>3 DEF GateHookKilled, SendAway, gateHistory, GateShape
    <3> QED
      BY <1>2, <3>1, <3>2, <3>3
  <2>2. /\ gate' = [d \in Commands |-> gate'[d]] /\ \A d \in Commands : \E r : gate'[d] \in AtGate(r)
        /\ gate'[c] = Untried /\ \A d \in Commands \ {c} : gate'[d] = gate[d]
    BY <1>0, <2>1, UntriedAtGate, HookMoves
  <2>3. GateShape'
    BY <1>0, <2>1, <2>2 DEF GateShape
  <2>4. \A g \in Guards \ shared' : OpeningsCovered(g)'
    BY <2>1, <2>2, UntriedAtGate, CoveredKept
  <2> QED
    BY <2>3, <2>4 DEF GateInv
<1>3. ASSUME NEW c \in Commands, PassByLimit(c) \/ PassGuard(c) PROVE GateInv'
  <2>0. PICK g \in Guards : \E uses \in SUBSET {g} : Looking(c, g) /\ PassOn(c, g, uses) /\ (g \in uses => ask[g].approved)
    <3>1. CASE PassByLimit(c)
      BY <3>1 DEF PassByLimit, Approved
    <3>2. CASE PassGuard(c)
      BY <3>2 DEF PassGuard, Approved
    <3> QED
      BY <1>3, <3>1, <3>2
  <2>1. PICK uses \in SUBSET {g} : PassOn(c, g, uses) /\ (g \in uses => ask[g].approved)
    BY <2>0
  <2>2. UNCHANGED <<ask, askMode, grants, openings>>
    BY <1>3 DEF PassByLimit, PassGuard
  <2> DEFINE rest == Tail(gate[c].rest)
             next == Past(c, uses)
  <2>3. /\ gate' = [gate EXCEPT ![c] = next]
        /\ shared' = shared \cup {u \in uses : \E d \in Commands \ {c} : u \in gate[d].uses}
    BY <2>1 DEF PassOn
  <2>4. next \in AtGate(rest) /\ next.at = gate[c].at /\ next.uses = gate[c].uses \cup uses
    BY <1>0, <2>1 DEF GateShape, AtGate, Past
  <2> HIDE DEF next, rest
  <2>5. /\ gate' = [d \in Commands |-> gate'[d]] /\ \A d \in Commands : \E r : gate'[d] \in AtGate(r)
        /\ gate'[c] = next /\ \A d \in Commands \ {c} : gate'[d] = gate[d]
    BY <1>0, <2>3, <2>4, HookMoves
  <2>6. GateShape'
    BY <1>0, <2>2, <2>5 DEF GateShape
  <2>7. ASSUME NEW h \in Guards \ shared' PROVE OpeningsCovered(h)'
    <3>1. OpeningsCovered(h)
      BY <2>3 DEF GateInv
    <3>2. CASE h \notin uses
      BY <2>2, <2>3, <2>4, <2>5, <3>2, CoveredKept
    <3>3. CASE h \in uses
      \* The first to hold it: what it is to use up is in the file, and counted.
      <4>1. h = g /\ ask[h].approved /\ \A d \in Commands \ {c} : h \notin gate'[d].uses
        BY <2>1, <2>3, <2>5, <3>3
      <4>2. Room(h, 1)
        BY <3>1, <4>1 DEF OpeningsCovered
      <4>3. gate[c].at = "look"
        BY <2>0 DEF Looking
      <4> QED
        BY <2>2, <2>4, <2>5, <3>1, <4>1, <4>2, <4>3 DEF OpeningsCovered, Room
    <3> QED
      BY <3>2, <3>3
  <2> QED
    BY <2>6, <2>7 DEF GateInv
<1>4. ASSUME NEW c \in Commands, Consume(c) PROVE GateInv'
  <2> DEFINE next == [gate[c] EXCEPT !.at = "allow"]
  <2>1. /\ ask' = [g \in Guards |-> IF g \in gate[c].uses /\ ask[g].approved THEN NoAsk ELSE ask[g]]
        /\ gate' = [gate EXCEPT ![c] = next] /\ UNCHANGED <<askMode, grants, openings, shared>>
    BY <1>4 DEF Consume, gateHistory
  <2>2. PICK rest : next \in AtGate(rest) /\ next.uses = gate[c].uses
    BY <1>0 DEF GateShape, AtGate
  <2> HIDE DEF next
  <2>3. /\ gate' = [d \in Commands |-> gate'[d]] /\ \A d \in Commands : \E r : gate'[d] \in AtGate(r)
        /\ gate'[c] = next /\ \A d \in Commands \ {c} : gate'[d] = gate[d]
    BY <1>0, <2>1, <2>2, HookMoves
  <2>4. GateShape'
    BY <1>0, <2>1, <2>3, UntriedAtGate DEF GateShape
  <2>5. \A g \in Guards : /\ ask'[g].approved => ask[g].approved
                          /\ g \in gate[c].uses => ~ask'[g].approved
    BY <2>1, UntriedAtGate
  <2>6. \A g \in Guards \ shared' : OpeningsCovered(g)'
    BY <2>1, <2>2, <2>3, <2>5, CoveredKept
  <2> QED
    BY <2>4, <2>6 DEF GateInv
<1>5. ASSUME NEW c \in Commands, ConsumeFails(c) PROVE GateInv'
  <2> DEFINE next == [gate[c] EXCEPT !.at = "allow"]
  <2>1. /\ shared' = shared \cup gate[c].uses
        /\ gate' = [gate EXCEPT ![c] = next] /\ UNCHANGED <<ask, askMode, grants, openings>>
    BY <1>5 DEF ConsumeFails
  <2>2. PICK rest : next \in AtGate(rest) /\ next.uses = gate[c].uses
    BY <1>0 DEF GateShape, AtGate
  <2> HIDE DEF next
  <2>3. /\ gate' = [d \in Commands |-> gate'[d]] /\ \A d \in Commands : \E r : gate'[d] \in AtGate(r)
        /\ gate'[c] = next /\ \A d \in Commands \ {c} : gate'[d] = gate[d]
    BY <1>0, <2>1, <2>2, HookMoves
  <2>4. GateShape'
    BY <1>0, <2>1, <2>3 DEF GateShape
  <2>5. \A g \in Guards \ shared' : OpeningsCovered(g)'
    BY <2>1, <2>2, <2>3, CoveredKept
  <2> QED
    BY <2>4, <2>5 DEF GateInv
<1>6. ASSUME NEW c \in Commands, Allow(c) PROVE GateInv'
  <2> DEFINE next == [Untried EXCEPT !.at = "ran"]
  <2>1. /\ gate[c].at = "allow" /\ gate' = [gate EXCEPT ![c] = next]
        /\ openings' = [g \in Guards |-> IF g \in gate[c].uses THEN CountTo(openings[g], Many) ELSE openings[g]]
        /\ UNCHANGED <<ask, askMode, grants, shared>>
    BY <1>6 DEF Allow
  <2>2. next \in AtGate(<<>>) /\ next.uses = {}
    BY UntriedAtGate DEF AtGate
  <2> HIDE DEF next
  <2>3. /\ gate' = [d \in Commands |-> gate'[d]] /\ \A d \in Commands : \E r : gate'[d] \in AtGate(r)
        /\ gate'[c] = next /\ \A d \in Commands \ {c} : gate'[d] = gate[d]
    BY <1>0, <2>1, <2>2, HookMoves
  <2>4. \A n \in 0..Many : CountTo(n, Many) \in 0..Many /\ (n < Many => CountTo(n, Many) = n + 1)
    BY ManyIsNat DEF CountTo
  <2>5. openings' \in [Guards -> 0..Many]
    BY <1>0, <2>1, <2>4 DEF GateShape
  <2>6. GateShape'
    BY <1>0, <2>1, <2>3, <2>5 DEF GateShape
  <2>7. ASSUME NEW g \in Guards \ shared' PROVE OpeningsCovered(g)'
    <3>1. OpeningsCovered(g) /\ grants[g] \in 0..Many /\ openings[g] \in 0..Many /\ openings'[g] \in 0..Many
      BY <1>0, <2>1, <2>5 DEF GateInv, GateShape
    <3>2. CASE g \notin gate[c].uses
      <4>1. openings'[g] = openings[g]
        BY <2>1, <3>2
      <4> QED
        BY <2>1, <2>2, <2>3, <4>1, CoveredKept
    <3>3. CASE g \in gate[c].uses
      <4>1. openings'[g] = CountTo(openings[g], Many)
        BY <2>1, <3>3
      <4>2. openings'[g] <= openings[g] + 1
        BY <3>1, <4>1, ManyIsNat DEF CountTo
      <4>3. Room(g, 1) /\ (ask[g].approved => Room(g, 2)) /\ \A d \in Commands : g \notin gate'[d].uses
        BY <2>1, <2>2, <2>3, <3>1, <3>3 DEF OpeningsCovered
      <4>4. openings'[g] <= grants[g]
        BY <3>1, <4>2, <4>3, ManyIsNat DEF Room
      <4>5. ask[g].approved => openings'[g] + 1 <= grants[g] \/ grants[g] = Many
        BY <3>1, <4>2, <4>3, ManyIsNat DEF Room
      <4> QED
        BY <2>1, <4>3, <4>4, <4>5 DEF OpeningsCovered, Room
    <3> QED
      BY <3>2, <3>3
  <2> QED
    BY <2>6, <2>7 DEF GateInv
<1>7. ASSUME NEW g \in Guards, Answer(g) PROVE GateInv'
  <2>1. /\ ask' = [ask EXCEPT ![g] = [ask[g] EXCEPT !.approved = TRUE]]
        /\ grants' = [grants EXCEPT ![g] = CountTo(grants[g], Many)]
        /\ ~ask[g].approved
        /\ UNCHANGED <<askMode, gate, openings, shared>>
    BY <1>7 DEF Answer, ApproveAction, ApproveActionVerbal, Answerable, Grant
  <2>2. CountTo(grants[g], Many) \in 0..Many /\ (CountTo(grants[g], Many) = grants[g] + 1 \/ CountTo(grants[g], Many) = Many)
    BY <1>0, ManyIsNat DEF GateShape, CountTo
  <2>3. ask' \in [Guards -> AskRow] /\ grants' \in [Guards -> 0..Many]
    BY <1>0, <2>1, <2>2 DEF GateShape, AskRow
  <2>4. GateShape'
    BY <1>0, <2>1, <2>3 DEF GateShape
  <2>5. ASSUME NEW h \in Guards \ shared' PROVE OpeningsCovered(h)'
    <3>1. OpeningsCovered(h)
      BY <2>1 DEF GateInv
    <3>2. CASE h # g
      <4>1. ask'[h] = ask[h] /\ grants'[h] = grants[h]
        BY <1>0, <2>1, <3>2 DEF GateShape
      <4> QED
        BY <2>1, <4>1, CoveredKept
    <3>3. CASE h = g
      <4>1. grants'[g] = grants[g] + 1 \/ grants'[g] = Many
        BY <1>0, <2>1, <2>2 DEF GateShape
      <4>2. /\ openings[g] \in 0..Many /\ grants[g] \in 0..Many /\ grants'[g] \in 0..Many
            /\ openings[g] <= grants[g]
        BY <1>0, <2>3, <3>1, <3>3 DEF GateShape, OpeningsCovered
      <4>3. openings[g] <= grants'[g] /\ Room(g, 1)' /\ (Room(g, 1) => Room(g, 2)')
        BY <2>1, <4>1, <4>2, ManyIsNat DEF Room
      <4> QED
        BY <2>1, <3>1, <3>3, <4>3 DEF OpeningsCovered
    <3> QED
      BY <3>2, <3>3
  <2> QED
    BY <2>4, <2>5 DEF GateInv
<1>8. ASSUME NEW g \in Guards, WrongCode(g) \/ AskGrowsOld(g) \/ RuleEdited(g) \/ ModeSwitched(g) PROVE GateInv'
  <2>1. UNCHANGED <<gate, grants, openings, shared>>
    BY <1>8 DEF WrongCode, AskGrowsOld, RuleEdited, ModeSwitched, gateHistory
  <2>2. /\ ask' \in [Guards -> AskRow] /\ askMode' \in [Guards -> {"code", "verbal"}]
        /\ \A h \in Guards : ask'[h].approved = ask[h].approved
    <3>1. CASE WrongCode(g)
      <4>1. ask' = [ask EXCEPT ![g] = [ask[g] EXCEPT !.misses = ask[g].misses + 1]] /\ askMode' = askMode
        BY <3>1 DEF WrongCode
      <4>2. ask[g].misses + 1 \in Nat
        BY <1>0 DEF GateShape, AskRow
      <4> QED
        BY <1>0, <4>1, <4>2 DEF GateShape, AskRow
    <3>2. CASE AskGrowsOld(g)
      BY <1>0, <3>2 DEF AskGrowsOld, GateShape, AskRow
    <3>3. CASE RuleEdited(g) \/ ModeSwitched(g)
      BY <1>0, <3>3 DEF RuleEdited, ModeSwitched, GateShape
    <3> QED
      BY <1>8, <3>1, <3>2, <3>3
  <2>3. GateShape'
    BY <1>0, <2>1, <2>2 DEF GateShape
  <2> QED
    BY <2>1, <2>2, <2>3, CoveredKept DEF GateInv
<1>9. CASE UNCHANGED gateVars
  BY <1>9 DEF gateVars, GateInv, GateShape, OpeningsCovered, Room
<1> QED
  BY <1>1, <1>2, <1>3, <1>4, <1>5, <1>6, <1>7, <1>8, <1>9 DEF GateNext, Evaluate

(* evaluateGate uses up an approval before the command runs, so approvals let no
   more commands through than were given, but where two hooks held one at the
   same time or its file could not be removed. *)
THEOREM OneOpeningPerApprovalHolds == GateSpec => []OneOpeningPerApproval
<1>1. GateInv => OneOpeningPerApproval
  BY DEF GateInv, OpeningsCovered, OneOpeningPerApproval
<1> QED
  BY <1>1, GateInitInv, GateStepInv, PTL DEF GateSpec

-----------------------------------------------------------------------------
(* The queue of writes made offline *)

(* Picking the entries at some places of the file gives a list of entries of
   the file, and each of those places is in it. *)
LEMMA RankCounts ==
  ASSUME NEW n \in Nat, NEW P \in SUBSET (1..n)
  PROVE  /\ Cardinality(P) \in Nat
         /\ \A i \in P : Rank(i, P) \in 1..Cardinality(P)
         /\ \A i, j \in P : Rank(i, P) = Rank(j, P) => i = j
<1>1. IsFiniteSet(P) /\ Cardinality(P) \in Nat
  <2>1. IsFiniteSet(1..n)
    BY FS_Interval
  <2>2. IsFiniteSet(P)
    BY <2>1, FS_Subset
  <2> QED
    BY <2>2, FS_CardinalityType
<1> DEFINE upto(i) == {j \in P : j <= i}
<1>2. ASSUME NEW i \in P PROVE IsFiniteSet(upto(i)) /\ Rank(i, P) = Cardinality(upto(i)) /\ Rank(i, P) \in 1..Cardinality(P)
  <2>1. upto(i) \subseteq P /\ i \in upto(i)
    OBVIOUS
  <2> HIDE DEF upto
  <2>2. IsFiniteSet(upto(i)) /\ Cardinality(upto(i)) <= Cardinality(P) /\ Cardinality(upto(i)) \in Nat
    BY <1>1, <2>1, FS_Subset, FS_CardinalityType
  <2>3. Cardinality(upto(i)) # 0
    BY <2>1, <2>2, FS_EmptySet
  <2>4. Rank(i, P) = Cardinality(upto(i))
    BY DEF Rank, upto
  <2> QED
    BY <1>1, <2>2, <2>3, <2>4
<1>3. ASSUME NEW i \in P, NEW j \in P, i < j PROVE Rank(i, P) < Rank(j, P)
  <2>1. upto(i) \cup {j} \subseteq upto(j) /\ j \notin upto(i)
    <3>1. \A x \in P : x <= i => x <= j
      BY <1>3
    <3>2. j <= j /\ ~(j <= i)
      BY <1>3
    <3> QED
      BY <3>1, <3>2
  <2> HIDE DEF upto
  <2>2. Cardinality(upto(i) \cup {j}) = Cardinality(upto(i)) + 1
    BY <1>2, <2>1, FS_AddElement
  <2>3. Cardinality(upto(i) \cup {j}) <= Cardinality(upto(j))
    BY <1>2, <2>1, FS_Subset
  <2> QED
    BY <1>2, <2>2, <2>3
<1>4. ASSUME NEW i \in P, NEW j \in P, Rank(i, P) = Rank(j, P) PROVE i = j
  <2>1. \A a, b \in P : Rank(a, P) \in Int /\ (a < b => Rank(a, P) < Rank(b, P))
    <3>1. \A a \in P : Rank(a, P) \in Int
      <4>1. \A a \in P : Rank(a, P) \in 1..Cardinality(P)
        BY <1>2
      <4> QED
        BY <1>1, <4>1
    <3> QED
      BY <1>3, <3>1
  <2>3. ~(i < j) /\ ~(j < i)
    BY <1>4, <2>1
  <2>2. i \in Int /\ j \in Int
    OBVIOUS
  <2> QED
    BY <2>2, <2>3
<1> QED
  BY <1>1, <1>2, <1>4

LEMMA RankReaches ==
  ASSUME NEW n \in Nat, NEW P \in SUBSET (1..n), NEW k \in 1..Cardinality(P)
  PROVE  \E i \in P : Rank(i, P) = k
<1> DEFINE rank == [i \in P |-> Rank(i, P)]
           T == 1..Cardinality(P)
<1>1. IsFiniteSet(P) /\ Cardinality(P) \in Nat
  <2>1. IsFiniteSet(1..n)
    BY FS_Interval
  <2>2. IsFiniteSet(P)
    BY <2>1, FS_Subset
  <2> QED
    BY <2>2, FS_CardinalityType
<1>2. IsFiniteSet(T) /\ Cardinality(T) = Cardinality(P)
  BY <1>1, FS_Interval
<1>3. rank \in Injection(P, T)
  <2>1. /\ \A i \in P : Rank(i, P) \in T
        /\ \A i, j \in P : Rank(i, P) = Rank(j, P) => i = j
    BY RankCounts
  <2>2. rank \in [P -> T] /\ \A i \in P : rank[i] = Rank(i, P)
    BY <2>1
  <2> HIDE DEF rank, T
  <2> QED
    BY <2>1, <2>2 DEF Injection, IsInjective
<1>4. rank \in Surjection(P, T)
  <2> HIDE DEF rank, T
  <2> QED
    BY <1>2, <1>3, FS_Injection
<1> QED
  BY <1>4 DEF Surjection

LEMMA EntriesListed ==
  ASSUME NEW S, queue \in Seq(S), NEW P \in SUBSET (DOMAIN queue)
  PROVE  /\ Entries(P) \in Seq(S)
         /\ \A i \in P : \E k \in DOMAIN Entries(P) : Entries(P)[k] = queue[i]
<1> DEFINE n == Len(queue)
           at(k) == CHOOSE i \in P : Rank(i, P) = k
<1>1. n \in Nat /\ DOMAIN queue = 1..n /\ \A i \in 1..n : queue[i] \in S
  OBVIOUS
<1>2. Cardinality(P) \in Nat /\ (\A i \in P : Rank(i, P) \in 1..Cardinality(P))
      /\ \A i, j \in P : Rank(i, P) = Rank(j, P) => i = j
  <2> HIDE DEF n
  <2> QED
    BY <1>1, RankCounts
<1>3. \A k \in 1..Cardinality(P) : at(k) \in P /\ Rank(at(k), P) = k
  <2>1. \A k \in 1..Cardinality(P) : \E i \in P : Rank(i, P) = k
    <3> HIDE DEF n
    <3> QED
      BY <1>1, RankReaches
  <2> QED
    BY <2>1
<1>4. Entries(P) = [k \in 1..Cardinality(P) |-> queue[at(k)]]
  BY DEF Entries
<1> HIDE DEF at, n
<1>5. Entries(P) \in [1..Cardinality(P) -> S]
  BY <1>1, <1>3, <1>4
<1>6. Entries(P) \in Seq(S)
  BY <1>2, <1>5
<1>7. ASSUME NEW i \in P PROVE Entries(P)[Rank(i, P)] = queue[i] /\ Rank(i, P) \in DOMAIN Entries(P)
  BY <1>2, <1>3, <1>4
<1> QED
  BY <1>6, <1>7

(* Is n in the list? *)
In(n, s) == \E k \in DOMAIN s : s[k] = n
Held(n) == n \in taken \/ n \in raced \/
  (In(n, queue) /\ \A c \in Clients : replay[c].on => In(n, replay[c].todo) \/ In(n, replay[c].others))

(* A write that is queued is in the file, and whoever has read the file and is
   to write it over has it in one of its two lists. *)
HeldInv == QueueTypeOK /\ \A n \in queued : Held(n)

LEMMA JoinedList ==
  ASSUME NEW S, NEW s \in Seq(S), NEW t \in Seq(S)
  PROVE  s \o t \in Seq(S) /\ \A n : In(n, s) \/ In(n, t) => In(n, s \o t)
<1>1. /\ s \o t \in Seq(S) /\ Len(s \o t) = Len(s) + Len(t) /\ DOMAIN (s \o t) = 1..Len(s \o t)
      /\ \A i \in 1..Len(s) + Len(t) : (s \o t)[i] = IF i <= Len(s) THEN s[i] ELSE t[i - Len(s)]
      /\ Len(s) \in Nat /\ Len(t) \in Nat /\ DOMAIN s = 1..Len(s) /\ DOMAIN t = 1..Len(t)
  BY ConcatProperties, LenProperties
<1>2. ASSUME NEW n, NEW k \in DOMAIN s, s[k] = n PROVE In(n, s \o t)
  <2>1. k \in DOMAIN (s \o t) /\ (s \o t)[k] = n
    BY <1>1, <1>2
  <2> QED
    BY <2>1 DEF In
<1>3. ASSUME NEW n, NEW k \in DOMAIN t, t[k] = n PROVE In(n, s \o t)
  <2>1. Len(s) + k \in DOMAIN (s \o t) /\ (s \o t)[Len(s) + k] = n
    BY <1>1, <1>3
  <2> QED
    BY <2>1 DEF In
<1> QED
  BY <1>1, <1>2, <1>3 DEF In

LEMMA GrownList ==
  ASSUME NEW S, NEW s \in Seq(S), NEW e \in S
  PROVE  Append(s, e) \in Seq(S) /\ In(e, Append(s, e)) /\ \A n : In(n, s) => In(n, Append(s, e))
<1>1. /\ Append(s, e) \in Seq(S) /\ DOMAIN Append(s, e) = 1..Len(s) + 1 /\ DOMAIN s = 1..Len(s) /\ Len(s) \in Nat
      /\ Append(s, e)[Len(s) + 1] = e /\ \A i \in 1..Len(s) : Append(s, e)[i] = s[i]
  OBVIOUS
<1> QED
  BY <1>1 DEF In

LEMMA ShortenedList ==
  ASSUME NEW S, NEW s \in Seq(S), s # <<>>
  PROVE  /\ Head(s) \in S /\ Tail(s) \in Seq(S) /\ In(Head(s), s)
         /\ \A n : In(n, s) => n = Head(s) \/ In(n, Tail(s))
<1>1. /\ Head(s) \in S /\ Tail(s) \in Seq(S) /\ Len(Tail(s)) = Len(s) - 1 /\ Head(s) = s[1]
      /\ \A i \in 1..Len(Tail(s)) : Tail(s)[i] = s[i + 1]
      /\ Len(s) \in Nat \ {0} /\ DOMAIN s = 1..Len(s) /\ DOMAIN Tail(s) = 1..Len(Tail(s))
  BY HeadTailProperties, LenProperties, EmptySeq
<1>2. ASSUME NEW n, NEW k \in DOMAIN s, s[k] = n, k # 1 PROVE In(n, Tail(s))
  <2>1. k - 1 \in DOMAIN Tail(s) /\ Tail(s)[k - 1] = n
    BY <1>1, <1>2
  <2> QED
    BY <2>1 DEF In
<1> QED
  BY <1>1, <1>2 DEF In

QueueRow == [on : BOOLEAN, todo : Seq(Numbers), others : Seq(Numbers)]

LEMMA QueueInitHeld == QueueInit => HeldInv
<1> SUFFICES ASSUME QueueInit PROVE HeldInv
  OBVIOUS
<1>1. Len(made) = 1 /\ made \in Seq([account : Accounts \cup {Unstamped}, refused : BOOLEAN])
  BY DEF QueueInit
<1>2. Numbers = {1}
  BY <1>1 DEF Numbers
<1>3. QueueTypeOK
  BY <1>1, <1>2, QueueConstants DEF QueueInit, QueueTypeOK, NoReplay
<1>4. In(1, queue)
  BY DEF QueueInit, In
<1> QED
  BY <1>3, <1>4 DEF QueueInit, HeldInv, Held, NoReplay

(* A step that makes no write: what it may change is the file, the replays and
   what the server has. *)
LEMMA NothingMade ==
  ASSUME HeldInv, UNCHANGED <<made, queued, raced>>, up' \in BOOLEAN, queueFaults' \in 0..MaxQueueFaults,
         queue' \in Seq(Numbers), replay' \in [Clients -> QueueRow],
         taken \subseteq taken', taken' \subseteq Numbers,
         \A n : In(n, queue) /\ (\A c \in Clients : replay[c].on => In(n, replay[c].todo) \/ In(n, replay[c].others)) =>
           \/ n \in taken'
           \/ /\ In(n, queue')
              /\ \A c \in Clients : replay'[c].on => In(n, replay'[c].todo) \/ In(n, replay'[c].others)
  PROVE  HeldInv'
<1>1. Numbers' = Numbers
  BY DEF Numbers
<1>2. QueueTypeOK'
  BY <1>1 DEF HeldInv, QueueTypeOK, QueueRow
<1>3. \A n \in queued : Held(n)'
  BY Zenon DEF HeldInv, Held
<1> QED
  BY <1>2, <1>3 DEF HeldInv

(* A new write: the file may grow by it, and then it is in the file unless a
   replay is in flight. *)
LEMMA OneMade ==
  ASSUME HeldInv, NEW c \in Clients, NEW refused \in BOOLEAN, Make(c, refused),
         UNCHANGED replay, up' \in BOOLEAN, queueFaults' \in 0..MaxQueueFaults,
         taken' = taken \/ Take(Len(made')),
         \/ Enqueue(Len(made'))
         \/ UNCHANGED <<queue, queued, raced>>
         \/ queue' = queue /\ queued' = queued \cup {Len(made')} /\ raced' = raced \cup {Len(made')}
  PROVE  HeldInv'
<1> DEFINE new == Len(made')
<1>0. QueueTypeOK /\ \A n \in queued : Held(n)
  BY DEF HeldInv
<1>1. /\ made' \in Seq([account : Accounts \cup {Unstamped}, refused : BOOLEAN]) /\ Len(made') = Len(made) + 1
      /\ Len(made') \in 1..MaxWrites
  <2>1. [account |-> KeyOf[c], refused |-> refused] \in [account : Accounts \cup {Unstamped}, refused : BOOLEAN]
    BY QueueConstants
  <2> QED
    BY <1>0, <2>1, QueueConstants DEF Make, QueueTypeOK
<1>2. Numbers \subseteq Numbers' /\ new \in Numbers'
  BY <1>0, <1>1 DEF Numbers, QueueTypeOK
<1> HIDE DEF new
<1>3. \A s \in Seq(Numbers) : s \in Seq(Numbers')
  BY <1>2, SeqMonotonic
<1>4. replay' \in [Clients -> QueueRow']
  BY <1>0, <1>3 DEF QueueTypeOK, QueueRow
<1>5. taken \subseteq taken' /\ taken' \subseteq Numbers'
  BY <1>0, <1>2 DEF Take, QueueTypeOK, new
<1>6. /\ queue' = queue \/ queue' = Append(queue, new)
      /\ queued' \subseteq queued \cup {new} /\ raced \subseteq raced' /\ raced' \subseteq queued'
      /\ new \in queued' => new \in raced' \/ new \in queued \/ (queue' = Append(queue, new) /\ ~Replaying)
  BY <1>0 DEF Enqueue, QueueTypeOK, new
<1>7. queue' \in Seq(Numbers') /\ (\A n : In(n, queue) => In(n, queue')) /\ (queue' = Append(queue, new) => In(new, queue'))
  <2>1. queue \in Seq(Numbers')
    BY <1>0, <1>3 DEF QueueTypeOK
  <2> QED
    BY <1>2, <1>6, <2>1, GrownList
<1>8. QueueTypeOK'
  BY <1>0, <1>1, <1>2, <1>4, <1>5, <1>6, <1>7 DEF QueueTypeOK, QueueRow
<1>9. ASSUME NEW n \in queued' PROVE Held(n)'
  <2>1. CASE n \in queued
    BY <1>0, <1>5, <1>6, <1>7, <2>1, Zenon DEF Held
  <2>2. CASE n = new /\ n \notin queued
    BY <1>6, <1>7, <1>9, <2>2 DEF Held, Replaying
  <2> QED
    BY <1>6, <2>1, <2>2
<1> QED
  BY <1>8, <1>9 DEF HeldInv

LEMMA QueueStepHeld == HeldInv /\ [QueueNext]_queueVars => HeldInv'
<1> SUFFICES ASSUME HeldInv, [QueueNext]_queueVars PROVE HeldInv'
  OBVIOUS
<1>0. QueueTypeOK /\ replay \in [Clients -> QueueRow] /\ queue \in Seq(Numbers) /\ taken \subseteq Numbers
  BY DEF HeldInv, QueueTypeOK, QueueRow
<1>f. QueueFault => queueFaults' \in 0..MaxQueueFaults
  BY <1>0, QueueConstants DEF QueueFault, QueueTypeOK
<1>n. queueFaults \in 0..MaxQueueFaults /\ up \in BOOLEAN
  BY <1>0 DEF QueueTypeOK
<1>r. NoReplay \in QueueRow /\ ~NoReplay.on
  BY DEF NoReplay, QueueRow
<1>1. CASE GoesDown \/ ComesUp
  <2>1. UNCHANGED <<made, queue, replay, taken, queued, raced>> /\ up' \in BOOLEAN /\ queueFaults' \in 0..MaxQueueFaults
    BY <1>1, <1>f, <1>n DEF GoesDown, ComesUp
  <2> QED
    BY <1>0, <2>1, NothingMade
<1>2. ASSUME NEW c \in Clients, StartReplay(c) PROVE HeldInv'
  <2> DEFINE row == [on |-> TRUE, todo |-> Mine(c), others |-> Others(c)]
             mine == {i \in DOMAIN queue : Belongs(c, queue[i])}
             foreign == {i \in DOMAIN queue : ~Belongs(c, queue[i])}
  <2>1. replay' = [replay EXCEPT ![c] = row] /\ UNCHANGED <<made, queue, up, taken, queued, raced, queueFaults>>
    BY <1>2 DEF StartReplay
  <2>2. Mine(c) = Entries(mine) /\ Others(c) = Entries(foreign) /\ mine \cup foreign = DOMAIN queue
    BY DEF Mine, Others
  <2>3. row \in QueueRow /\ \A n : In(n, queue) => In(n, row.todo) \/ In(n, row.others)
    <3> HIDE DEF mine, foreign
    <3> QED
      BY <1>0, <2>2, EntriesListed DEF In, QueueRow
  <2> HIDE DEF row
  <2>4. replay' \in [Clients -> QueueRow] /\ replay'[c] = row /\ \A d \in Clients \ {c} : replay'[d] = replay[d]
    BY <1>0, <2>1, <2>3
  <2> QED
    BY <1>0, <1>n, <2>1, <2>3, <2>4, NothingMade
<1>3. ASSUME NEW c \in Clients, SendNext(c) PROVE HeldInv'
  <2> DEFINE todo == replay[c].todo
             row == [replay[c] EXCEPT !.todo = Tail(todo)]
  <2>1. /\ replay' = [replay EXCEPT ![c] = row] /\ taken' = taken \cup {Head(todo)} /\ todo # <<>>
        /\ UNCHANGED <<made, queue, up, queued, raced, queueFaults>>
    BY <1>3 DEF SendNext, Take
  <2>2. todo \in Seq(Numbers)
    BY <1>0 DEF QueueRow
  <2>3. /\ Head(todo) \in Numbers /\ Tail(todo) \in Seq(Numbers)
        /\ \A n : In(n, todo) => n = Head(todo) \/ In(n, Tail(todo))
    BY <2>1, <2>2, ShortenedList
  <2>4. row \in QueueRow /\ row.todo = Tail(todo) /\ row.others = replay[c].others /\ row.on = replay[c].on
    BY <1>0, <2>3 DEF QueueRow
  <2> HIDE DEF row, todo
  <2>5. replay' \in [Clients -> QueueRow] /\ replay'[c] = row /\ \A d \in Clients \ {c} : replay'[d] = replay[d]
    BY <1>0, <2>1, <2>4
  <2>6. ASSUME NEW n, \A d \in Clients : replay[d].on => In(n, replay[d].todo) \/ In(n, replay[d].others), n \notin taken'
        PROVE  \A d \in Clients : replay'[d].on => In(n, replay'[d].todo) \/ In(n, replay'[d].others)
    BY <2>1, <2>3, <2>4, <2>5, <2>6 DEF todo
  <2>7. taken \subseteq taken' /\ taken' \subseteq Numbers
    BY <1>0, <2>1, <2>3
  <2> QED
    BY <1>0, <1>n, <2>1, <2>5, <2>6, <2>7, NothingMade
\* A replay is over: the file is as it was, or what the replay leaves is in it.
<1>4. ASSUME NEW c \in Clients, SendFails(c) \/ SendUnanswered(c) \/ FinishReplay(c) \/ QueueKilled(c) PROVE HeldInv'
  <2> DEFINE left == replay[c].todo \o replay[c].others
  <2>0. replay[c].on /\ replay[c].todo \in Seq(Numbers) /\ replay[c].others \in Seq(Numbers)
    BY <1>0, <1>4 DEF QueueRow, SendFails, SendUnanswered, FinishReplay, QueueKilled
  <2>1. left \in Seq(Numbers) /\ \A n : In(n, replay[c].todo) \/ In(n, replay[c].others) => In(n, left)
    BY <2>0, JoinedList
  <2>2. replay[c].todo = <<>> => left = replay[c].others
    BY <2>0, ConcatEmptySeq
  <2>3. /\ replay' = [replay EXCEPT ![c] = NoReplay] /\ UNCHANGED <<made, up, queued, raced>>
        /\ (queue' = queue \/ queue' = left) /\ queueFaults' \in 0..MaxQueueFaults
    BY <1>4, <1>f, <1>n, <2>2 DEF SendFails, SendUnanswered, FinishReplay, QueueKilled, Requeue
  <2>4. taken \subseteq taken' /\ taken' \subseteq Numbers
    <3>1. replay[c].todo # <<>> => Head(replay[c].todo) \in Numbers
      BY <2>0, ShortenedList
    <3> QED
      BY <1>0, <1>4, <3>1 DEF SendFails, SendUnanswered, FinishReplay, QueueKilled, Take
  <2> HIDE DEF left
  <2>5. replay' \in [Clients -> QueueRow] /\ ~replay'[c].on /\ \A d \in Clients \ {c} : replay'[d] = replay[d]
    BY <1>0, <1>r, <2>3
  <2>6. queue' \in Seq(Numbers)
    BY <1>0, <2>1, <2>3
  <2>7. ASSUME NEW n, In(n, queue), In(n, replay[c].todo) \/ In(n, replay[c].others) PROVE In(n, queue')
    BY <2>1, <2>3, <2>7
  <2> QED
    BY <1>n, <2>0, <2>3, <2>4, <2>5, <2>6, <2>7, NothingMade
<1>5. ASSUME NEW c \in Clients, NEW refused \in BOOLEAN,
             WriteOnline(c) \/ WriteUnanswered(c) \/ EnqueueFails(c) \/ WriteOffline(c, refused) PROVE HeldInv'
  <2>1. (Make(c, FALSE) \/ Make(c, refused)) /\ UNCHANGED replay /\ up' \in BOOLEAN /\ queueFaults' \in 0..MaxQueueFaults
    BY <1>5, <1>f, <1>n DEF WriteOnline, WriteUnanswered, EnqueueFails, WriteOffline
  <2>2. taken' = taken \/ Take(Len(made'))
    BY <1>5 DEF WriteOnline, WriteUnanswered, EnqueueFails, WriteOffline
  <2>3. \/ Enqueue(Len(made'))
        \/ UNCHANGED <<queue, queued, raced>>
        \/ queue' = queue /\ queued' = queued \cup {Len(made')} /\ raced' = raced \cup {Len(made')}
    BY <1>5 DEF WriteOnline, WriteUnanswered, EnqueueFails, WriteOffline
  <2> QED
    BY <2>1, <2>2, <2>3, OneMade
<1>6. CASE UNCHANGED queueVars
  BY <1>0, <1>6, <1>n, NothingMade DEF queueVars
<1> QED
  BY <1>1, <1>2, <1>3, <1>4, <1>5, <1>6 DEF QueueNext, Replay

(* Every variable of the queue stays in its domain. *)
THEOREM QueueTypeCorrect == QueueSpec => []QueueTypeOK
<1>1. HeldInv => QueueTypeOK
  BY DEF HeldInv
<1> QED
  BY <1>1, QueueInitHeld, QueueStepHeld, PTL DEF QueueSpec

(* However replays of several processes overlap, fail and are killed, a write the
   user was told is queued is in the file until the server has taken it, but for
   one that was appended while a replay was in flight, or not at all. *)
THEOREM QueuedKeptHolds == QueueSpec => []QueuedKept
<1>1. HeldInv => QueuedKept
  BY DEF HeldInv, Held, QueuedKept, InQueue, In
<1> QED
  BY <1>1, QueueInitHeld, QueueStepHeld, PTL DEF QueueSpec

-----------------------------------------------------------------------------
(* The spool of reports                                                    *)

(* A file is only renamed back where none was found, so what is in it now came
   later; and nothing is in a file that was not put in the spool. *)
SpoolInv ==
  /\ SpoolTypeOK /\ SpooledKept
  /\ pending \subseteq spooled /\ \A f \in Flushes : flush[f].holds \subseteq spooled
  /\ (\E f \in Flushes : flush[f].at = "putBack") => pending \subseteq overlaid

LEMMA SpoolInitInv == SpoolInit => SpoolInv
BY SpoolConstants DEF SpoolInit, SpoolInv, SpoolTypeOK, SpooledKept, NoFlush

(* The server stores an event of a batch or leaves it out. *)
LEMMA AcceptedOrCut ==
  ASSUME NEW batch \in SUBSET Reports, SpoolTypeOK, Accept(batch)
  PROVE  /\ stored \subseteq stored' /\ stored' \subseteq Reports
         /\ cut \subseteq cut' /\ cut' \subseteq Reports
         /\ batch \subseteq stored' \cup cut'
<1>1. PICK looked \in SUBSET batch : \E rejected \in {{}} \cup {{e} : e \in looked} :
        /\ stored' = stored \cup (looked \ rejected)
        /\ cut' = cut \cup (batch \ looked) \cup rejected
  BY DEF Accept, kSubset
<1>2. PICK rejected \in {{}} \cup {{e} : e \in looked} :
        /\ stored' = stored \cup (looked \ rejected)
        /\ cut' = cut \cup (batch \ looked) \cup rejected
  BY <1>1
<1>3. rejected \subseteq looked
  OBVIOUS
<1> QED
  BY <1>1, <1>2, <1>3 DEF SpoolTypeOK

LEMMA SpoolStepInv == SpoolInv /\ [SpoolNext]_spoolVars => SpoolInv'
<1> SUFFICES ASSUME SpoolInv, [SpoolNext]_spoolVars PROVE SpoolInv'
  OBVIOUS
<1>0. SpoolTypeOK /\ SpooledKept
  BY DEF SpoolInv
<1>f. /\ \A f \in Flushes : flush[f] \in [at : {"none", "post", "delete", "restore", "putBack", "append"},
                                            holds : SUBSET Reports]
      /\ NoFlush \in [at : {"none", "post", "delete", "restore", "putBack", "append"}, holds : SUBSET Reports]
      /\ NoFlush.at = "none" /\ NoFlush.holds = {}
  BY <1>0 DEF SpoolTypeOK, NoFlush
(* What the server answered can only have been stored or left out. *)
<1>a. ASSUME NEW batch \in SUBSET Reports, Accept(batch) \/ UNCHANGED <<stored, cut>>
      PROVE  /\ stored \subseteq stored' /\ stored' \subseteq Reports
             /\ cut \subseteq cut' /\ cut' \subseteq Reports
             /\ Accept(batch) => batch \subseteq stored' \cup cut'
  BY <1>0, <1>a, AcceptedOrCut DEF SpoolTypeOK
<1>1. ASSUME NEW e \in Reports, ReportDelivered(e) PROVE SpoolInv'
  BY <1>0, <1>1, <1>a DEF ReportDelivered, SpoolInv, SpoolTypeOK, SpooledKept
<1>2. ASSUME NEW e \in Reports, ReportFails(e) PROVE SpoolInv'
  BY <1>0, <1>2, <1>a DEF ReportFails, SpoolInv, SpoolTypeOK, SpooledKept
<1>3. ASSUME NEW e \in Reports, SpoolReport(e) PROVE SpoolInv'
  BY <1>0, <1>3 DEF SpoolReport, Expose, SpoolInv, SpoolTypeOK, SpooledKept
<1>4. ASSUME NEW f \in Flushes, TakeSpool(f) PROVE SpoolInv'
  <2>1. /\ flush' \in [Flushes -> [at : {"none", "post", "delete", "restore", "putBack", "append"},
                                    holds : SUBSET Reports]]
        /\ flush'[f].at = "post" /\ flush'[f].holds = pending
        /\ \A g \in Flushes \ {f} : flush'[g] = flush[g]
    BY <1>0, <1>4 DEF TakeSpool, SpoolTypeOK
  <2> QED
    BY <1>0, <1>4, <2>1 DEF TakeSpool, SpoolInv, SpoolTypeOK, SpooledKept, spoolHistory
<1>5. ASSUME NEW f \in Flushes, PostSpool(f) \/ PostFails(f) PROVE SpoolInv'
  <2>1. /\ flush' \in [Flushes -> [at : {"none", "post", "delete", "restore", "putBack", "append"},
                                    holds : SUBSET Reports]]
        /\ flush'[f].at \in {"delete", "restore"} /\ flush'[f].holds = flush[f].holds
        /\ \A g \in Flushes \ {f} : flush'[g] = flush[g]
        /\ flush'[f].at = "delete" => Accept(flush[f].holds)
        /\ Accept(flush[f].holds) \/ UNCHANGED <<stored, cut>>
    BY <1>0, <1>5, <1>f DEF PostSpool, PostFails, SpoolTypeOK
  <2>2. UNCHANGED <<report, pending, leftovers, spooled, overlaid>> /\ spoolFaults' \in 0..MaxSpoolFaults
    BY <1>0, <1>5, SpoolConstants DEF PostSpool, PostFails, SpoolFault, SpoolTypeOK
  <2>3. /\ stored \subseteq stored' /\ stored' \subseteq Reports
        /\ cut \subseteq cut' /\ cut' \subseteq Reports
        /\ Accept(flush[f].holds) => flush[f].holds \subseteq stored' \cup cut'
    BY <1>a, <1>f, <2>1
  <2> QED
    BY <1>0, <2>1, <2>2, <2>3 DEF SpoolInv, SpoolTypeOK, SpooledKept
<1>6. ASSUME NEW f \in Flushes, DeleteSpool(f) PROVE SpoolInv'
  <2>1. /\ flush' \in [Flushes -> [at : {"none", "post", "delete", "restore", "putBack", "append"},
                                    holds : SUBSET Reports]]
        /\ flush'[f].at = "none" /\ flush'[f].holds = {}
        /\ \A g \in Flushes \ {f} : flush'[g] = flush[g]
    BY <1>0, <1>6, <1>f DEF DeleteSpool, SpoolTypeOK
  <2> QED
    BY <1>0, <1>6, <2>1 DEF DeleteSpool, SpoolInv, SpoolTypeOK, SpooledKept, spoolHistory
<1>7. ASSUME NEW f \in Flushes, Restore(f) PROVE SpoolInv'
  <2>1. /\ flush' \in [Flushes -> [at : {"none", "post", "delete", "restore", "putBack", "append"},
                                    holds : SUBSET Reports]]
        /\ flush'[f].at = (IF pending = {} THEN "putBack" ELSE "append") /\ flush'[f].holds = flush[f].holds
        /\ \A g \in Flushes \ {f} : flush'[g] = flush[g]
    BY <1>0, <1>7, <1>f DEF Restore, SpoolTypeOK
  <2> QED
    BY <1>0, <1>7, <2>1 DEF Restore, SpoolInv, SpoolTypeOK, SpooledKept, spoolHistory
<1>8. ASSUME NEW f \in Flushes, PutBack(f) PROVE SpoolInv'
  <2>1. /\ flush' \in [Flushes -> [at : {"none", "post", "delete", "restore", "putBack", "append"},
                                    holds : SUBSET Reports]]
        /\ flush'[f].at = "none" /\ flush'[f].holds = {}
        /\ \A g \in Flushes \ {f} : flush'[g] = flush[g]
    BY <1>0, <1>8, <1>f DEF PutBack, SpoolTypeOK
  <2>2. /\ pending \subseteq overlaid
        /\ overlaid \subseteq overlaid' /\ overlaid' \subseteq spooled
        /\ (\E g \in Flushes : flush'[g].at = "putBack") => flush[f].holds \subseteq overlaid'
    BY <1>0, <1>8, <2>1 DEF PutBack, Expose, SpoolInv, SpoolTypeOK
  <2>3. UNCHANGED <<report, leftovers, stored, spooled, cut, spoolFaults>> /\ pending' = flush[f].holds
    BY <1>8 DEF PutBack
  <2> QED
    BY <1>0, <2>1, <2>2, <2>3 DEF SpoolInv, SpoolTypeOK, SpooledKept
<1>9. ASSUME NEW f \in Flushes, AppendBack(f) PROVE SpoolInv'
  <2>1. /\ flush' \in [Flushes -> [at : {"none", "post", "delete", "restore", "putBack", "append"},
                                    holds : SUBSET Reports]]
        /\ flush'[f].at = "delete" /\ flush'[f].holds = flush[f].holds
        /\ \A g \in Flushes \ {f} : flush'[g] = flush[g]
    BY <1>0, <1>9, <1>f DEF AppendBack, SpoolTypeOK
  <2>2. /\ overlaid \subseteq overlaid' /\ overlaid' \subseteq spooled
        /\ (\E g \in Flushes : flush'[g].at = "putBack") => flush[f].holds \cup pending \subseteq overlaid'
    BY <1>0, <1>9, <2>1 DEF AppendBack, Expose, SpoolInv, SpoolTypeOK
  <2>3. UNCHANGED <<report, leftovers, stored, spooled, cut, spoolFaults>> /\ pending' = pending \cup flush[f].holds
    BY <1>9 DEF AppendBack
  <2> QED
    BY <1>0, <2>1, <2>2, <2>3 DEF SpoolInv, SpoolTypeOK, SpooledKept
<1>10. ASSUME NEW f \in Flushes, FlushDies(f) PROVE SpoolInv'
  <2>1. /\ flush' \in [Flushes -> [at : {"none", "post", "delete", "restore", "putBack", "append"},
                                    holds : SUBSET Reports]]
        /\ flush'[f].at = "none" /\ flush'[f].holds = {}
        /\ \A g \in Flushes \ {f} : flush'[g] = flush[g]
    BY <1>0, <1>10, <1>f DEF FlushDies, SpoolTypeOK
  <2>2. UNCHANGED <<report, pending, stored, spooled, overlaid, cut>> /\ spoolFaults' \in 0..MaxSpoolFaults
        /\ leftovers' = leftovers \cup flush[f].holds
    BY <1>0, <1>10, SpoolConstants DEF FlushDies, SpoolFault, SpoolTypeOK, spoolHistory
  <2> QED
    BY <1>0, <1>f, <2>1, <2>2 DEF SpoolInv, SpoolTypeOK, SpooledKept
<1>11. CASE UNCHANGED spoolVars
  BY <1>0, <1>11 DEF spoolVars, SpoolInv, SpoolTypeOK, SpooledKept
<1> QED
  BY <1>1, <1>2, <1>3, <1>4, <1>5, <1>6, <1>7, <1>8, <1>9, <1>10, <1>11 DEF SpoolNext, FlushStep

(* The events, the files and the flushes stay in their domains. *)
THEOREM SpoolTypeCorrect == SpoolSpec => []SpoolTypeOK
<1>1. SpoolInv => SpoolTypeOK
  BY DEF SpoolInv
<1> QED
  BY <1>1, SpoolInitInv, SpoolStepInv, PTL DEF SpoolSpec

(* For any number of events and of flushes at once, and whatever a batch is cut
   to: no step between the rename of a spool and its delete drops an event. *)
THEOREM SpooledKeptHolds == SpoolSpec => []SpooledKept
<1>1. SpoolInv => SpooledKept
  BY DEF SpoolInv
<1> QED
  BY <1>1, SpoolInitInv, SpoolStepInv, PTL DEF SpoolSpec

-----------------------------------------------------------------------------
(* The outcomes of updates                                                 *)

HookRow == [at : {"idle", "lint", "read", "write"}, batch : Seq(1..MaxNotices), skip : SUBSET (0..MaxNotices)]

NoticeTypes ==
  /\ NoticesTypeOK
  /\ ToSet(notices) \subseteq 1..queuedUpTo
  /\ \A s \in Chats : /\ ToSet(hook[s].batch) \subseteq 1..queuedUpTo
                      /\ hook[s].at = "read" =>
                           hook[s].batch # <<>> /\ ToSet(hook[s].batch) \subseteq shown \cup misplaced

(* The hooks that may drop n without having shown it: they hold lines from
   before it came, or write the rest of the file back. *)
Passing(n, s) == \/ hook[s].at \in {"lint", "read"} /\ hook[s].batch # <<>> /\ n \notin ToSet(hook[s].batch)
                 \/ hook[s].at = "write"

(* There is at most one of them, which either counts fewer lines than there are
   before n, or writes n back. *)
Spared(n) ==
  /\ n \in ToSet(notices)
  /\ \A s, t \in Chats : Passing(n, s) /\ Passing(n, t) => s = t
  /\ \A s \in Chats : Passing(n, s) =>
       IF hook[s].at = "write" THEN n \in ToSet(hook[s].batch)
       ELSE \E i \in DOMAIN notices : notices[i] = n /\ i > Len(hook[s].batch)

NoticesInv == NoticeTypes /\ \A n \in 1..queuedUpTo : n \in shown \/ n \in misplaced \/ Spared(n)

LEMMA LinesWritten ==
  ASSUME NEW S, NEW l \in Seq(S), NEW k \in Nat
  PROVE  /\ SubSeq(l, k + 1, Len(l)) \in Seq(S)
         /\ ToSet(SubSeq(l, k + 1, Len(l))) \subseteq ToSet(l)
         /\ \A i \in DOMAIN l : i > k => l[i] \in ToSet(SubSeq(l, k + 1, Len(l)))
<1> DEFINE rest == SubSeq(l, k + 1, Len(l))
<1>1. /\ rest \in Seq(S) /\ Len(rest) = IF k < Len(l) THEN Len(l) - k ELSE 0
      /\ \A j \in 1..(Len(l) - k) : rest[j] = l[k + j]
  BY SubSeqProperties
<1>2. DOMAIN rest = 1..(Len(l) - k) /\ DOMAIN l = 1..Len(l) /\ Len(l) \in Nat
  BY <1>1
<1> HIDE DEF rest
<1>3. ASSUME NEW i \in DOMAIN l, i > k PROVE l[i] \in ToSet(rest)
  <2>1. i - k \in 1..(Len(l) - k) /\ k + (i - k) = i
    BY <1>2, <1>3
  <2> QED
    BY <1>1, <1>2, <2>1 DEF ToSet
<1>4. ASSUME NEW j \in DOMAIN rest PROVE rest[j] \in ToSet(l)
  <2>a. j \in 1..(Len(l) - k)
    BY <1>2, <1>4
  <2>b. k + j \in DOMAIN l
    BY <1>2, <2>a
  <2>1. k + j \in DOMAIN l /\ rest[j] = l[k + j]
    BY <1>1, <2>a, <2>b
  <2> QED
    BY <2>1 DEF ToSet
<1>5. rest \in Seq(S) /\ ToSet(rest) \subseteq ToSet(l) /\ \A i \in DOMAIN l : i > k => l[i] \in ToSet(rest)
  BY <1>1, <1>3, <1>4 DEF ToSet
<1> QED
  BY <1>5 DEF rest

LEMMA NoNotices ==
  /\ <<>> \in Seq(1..MaxNotices) /\ ToSet(<<>>) = {} /\ Gone \in HookRow
  /\ Gone.at = "idle" /\ Gone.batch = <<>>
<1>1. <<>> \in Seq(1..MaxNotices)
  OBVIOUS
<1>2. ToSet(<<>>) = {}
  BY DEF ToSet
<1> QED
  BY <1>1, <1>2 DEF Gone, HookRow

LEMMA NoticesInitInv == NoticesInit => NoticesInv
<1> SUFFICES ASSUME NoticesInit PROVE NoticesInv
  OBVIOUS
<1>1. NoticeTypes
  <2>1. hook \in [Chats -> HookRow] /\ \A s \in Chats : hook[s] = Gone
    BY NoNotices DEF NoticesInit
  <2>2. notices = <<>> /\ queuedUpTo = 0 /\ 0 \in 0..MaxNotices /\ 0 \in 0..MaxNoticeKills /\ 0 \in 0..0
    BY NoticeConstants DEF NoticesInit
  <2>3. NoticesTypeOK
    BY <2>1, <2>2, NoNotices DEF NoticesInit, NoticesTypeOK, HookRow
  <2> QED
    BY <2>1, <2>2, <2>3, NoNotices DEF NoticeTypes
<1> QED
  BY <1>1 DEF NoticesInit, NoticesInv

(* A hook that does not touch the file spares what it did before, when the
   lines it holds stay or it holds all or none. *)
LEMMA NoticeHookMoves ==
  ASSUME NoticesInv, NEW s \in Chats, NEW v \in HookRow, hook' = [hook EXCEPT ![s] = v],
         UNCHANGED <<notices, queuedUpTo, appending, broken, halfLine>>,
         shown \subseteq shown', shown' \subseteq 1..queuedUpTo, active' \in [Chats -> BOOLEAN],
         misplaced \subseteq misplaced', misplaced' \subseteq 1..queuedUpTo,
         noticeKills' \in 0..MaxNoticeKills,
         ToSet(v.batch) \subseteq 1..queuedUpTo,
         v.at = "read" => v.batch # <<>> /\ ToSet(v.batch) \subseteq shown' \cup misplaced',
         \A n \in 1..queuedUpTo : n \in shown' \/ n \in misplaced' \/ n \notin ToSet(notices)
           \/ v.at = "idle"
           \/ (v.at # "write" /\ (n \in ToSet(v.batch) \/ v.batch = <<>>))
           \/ (v.at # "write" /\ Passing(n, s) /\ hook[s].at # "write" /\ v.batch = hook[s].batch)
           \/ (v.at = "write" /\ Passing(n, s) /\ n \in ToSet(v.batch))
  PROVE  NoticesInv'
<1>1. /\ hook' \in [Chats -> HookRow] /\ hook'[s] = v
      /\ \A t \in Chats \ {s} : hook'[t] = hook[t]
  BY DEF NoticesInv, NoticeTypes, NoticesTypeOK, HookRow
<1>2. NoticeTypes'
  BY <1>1 DEF NoticesInv, NoticeTypes, NoticesTypeOK, HookRow
<1>3. ASSUME NEW n \in 1..queuedUpTo, n \notin shown', n \notin misplaced' PROVE Spared(n)'
  <2>1. Spared(n)
    BY <1>3 DEF NoticesInv
  <2>2. ASSUME NEW t \in Chats, Passing(n, t)' PROVE Passing(n, t)
    BY <1>1, <1>3, <2>1, <2>2 DEF Passing, Spared
  <2>3. ASSUME NEW t \in Chats, Passing(n, t)'
        PROVE IF hook'[t].at = "write" THEN n \in ToSet(hook'[t].batch)
              ELSE \E i \in DOMAIN notices : notices[i] = n /\ i > Len(hook'[t].batch)
    <3>1. CASE t # s
      BY <1>1, <2>1, <2>2, <2>3, <3>1 DEF Spared
    <3>2. CASE t = s
      BY <1>1, <1>3, <2>1, <2>2, <2>3, <3>2 DEF Spared, Passing
    <3> QED
      BY <3>1, <3>2
  <2> QED
    BY <2>1, <2>2, <2>3 DEF Spared
<1> QED
  BY <1>2, <1>3 DEF NoticesInv

LEMMA NoticesStepInv == NoticesInv /\ [NoticesNext]_noticeVars => NoticesInv'
<1> SUFFICES ASSUME NoticesInv, [NoticesNext]_noticeVars PROVE NoticesInv'
  OBVIOUS
<1>0. /\ notices \in Seq(1..MaxNotices) /\ queuedUpTo \in 0..MaxNotices
      /\ appending \in 0..queuedUpTo /\ broken \subseteq 1..queuedUpTo /\ halfLine \in BOOLEAN
      /\ shown \subseteq 1..queuedUpTo /\ misplaced \subseteq 1..queuedUpTo
      /\ hook \in [Chats -> HookRow]
      /\ active \in [Chats -> BOOLEAN] /\ noticeKills \in 0..MaxNoticeKills
      /\ ToSet(notices) \subseteq 1..queuedUpTo
      /\ \A s \in Chats : /\ ToSet(hook[s].batch) \subseteq 1..queuedUpTo
                          /\ hook[s].at = "read" =>
                               hook[s].batch # <<>> /\ ToSet(hook[s].batch) \subseteq shown \cup misplaced
      /\ MaxNotices \in Nat /\ MaxNoticeKills \in Nat
  BY NoticeConstants DEF NoticesInv, NoticeTypes, NoticesTypeOK, HookRow
<1>b. \A s \in Chats : hook[s].batch \in Seq(1..MaxNotices) /\ Len(hook[s].batch) \in Nat
  BY <1>0 DEF HookRow
\* A line more at the end leaves those that are spared where they are.
<1>l. ASSUME NEW n \in 1..queuedUpTo, NEW m \in 1..MaxNotices, Spared(n),
             notices' = Append(notices, m), hook' = hook
      PROVE  Spared(n)'
  <2>1. /\ \A i \in 1..Len(notices) : notices'[i] = notices[i]
        /\ Len(notices') = Len(notices) + 1 /\ Len(notices) \in Nat
        /\ DOMAIN notices = 1..Len(notices) /\ DOMAIN notices' = 1..Len(notices')
    BY <1>0, <1>l, AppendProperties
  <2>2. \A i \in DOMAIN notices : i \in DOMAIN notices' /\ notices'[i] = notices[i]
    BY <2>1
  <2>3. ToSet(notices) \subseteq ToSet(notices')
    BY <2>2 DEF ToSet
  <2>4. \A s \in Chats : Passing(n, s)' <=> Passing(n, s)
    BY <1>l DEF Passing
  <2> QED
    BY <1>l, <2>2, <2>3, <2>4 DEF Spared
<1>1. CASE QueueNotice
  <2>0. PICK new \in Nat : new = queuedUpTo + 1
    BY <1>0
  <2>1. /\ new \in 1..MaxNotices /\ queuedUpTo' = new /\ notices' = Append(notices, new)
        /\ misplaced' = (IF \E s \in Chats : Drifted(s) THEN misplaced \cup {new} ELSE misplaced)
        /\ appending' \in {0, new} /\ UNCHANGED <<broken, halfLine, shown, hook, active, noticeKills>>
    BY <1>0, <1>1, <2>0 DEF QueueNotice
  <2>2. /\ notices' \in Seq(1..MaxNotices) /\ Len(notices') = Len(notices) + 1
        /\ \A i \in 1..Len(notices) : notices'[i] = notices[i]
        /\ notices'[Len(notices) + 1] = new
        /\ Len(notices) \in Nat
    BY <1>0, <2>1, AppendProperties
  <2>3. DOMAIN notices = 1..Len(notices) /\ DOMAIN notices' = 1..(Len(notices) + 1)
    BY <1>0, <2>2
  <2>4. ToSet(notices') = ToSet(notices) \cup {new}
    BY <2>2, <2>3 DEF ToSet
  <2>5. 1..queuedUpTo \subseteq 1..new /\ new \notin 1..queuedUpTo /\ 1..new = (1..queuedUpTo) \cup {new}
    BY <1>0, <2>0
  <2>6. NoticeTypes'
    <3>1. /\ misplaced' \subseteq 1..new /\ queuedUpTo' \in 0..MaxNotices
          /\ appending' \in 0..new /\ broken' \subseteq 1..new
      BY <1>0, <2>1, <2>5
    <3> QED
      BY <1>0, <2>1, <2>2, <2>4, <2>5, <3>1 DEF NoticeTypes, NoticesTypeOK, HookRow
  <2>7. \A n \in 1..queuedUpTo : Spared(n) => Spared(n)'
    BY <1>l, <2>1
  <2>8. ASSUME new \notin misplaced' PROVE Spared(new)'
    <3>1. \A s \in Chats : ~Drifted(s)
      BY <2>1, <2>8
    <3>2. ASSUME NEW s \in Chats, Passing(new, s)'
          PROVE /\ hook[s].at # "write" /\ Undropped(s)
                /\ Len(notices) + 1 > Len(hook[s].batch)
                /\ \A t \in Chats \ {s} : ~Undropped(t)
      <4>1. hook[s].at # "write" /\ Undropped(s)
        BY <2>1, <3>1, <3>2 DEF Passing, Drifted, Undropped
      <4>2. Len(hook[s].batch) <= Len(notices)
        BY <3>1, <4>1 DEF Drifted, IsPrefix
      <4> QED
        BY <1>b, <2>2, <3>1, <4>1, <4>2 DEF Drifted
    <3>3. new \in ToSet(notices') /\ Len(notices) + 1 \in DOMAIN notices'
      BY <2>2, <2>3, <2>4
    <3> QED
      BY <2>1, <2>2, <3>2, <3>3 DEF Spared
  <2> QED
    BY <2>1, <2>5, <2>6, <2>7, <2>8 DEF NoticesInv
<1>a. CASE QueueBehindCut
  <2>0. PICK new \in Nat : new = queuedUpTo + 1
    BY <1>0
  <2>1. /\ new \in 1..MaxNotices /\ queuedUpTo' = new /\ misplaced' = misplaced \cup {new} /\ halfLine' = FALSE
        /\ UNCHANGED <<notices, appending, broken, shown, hook, active, noticeKills>>
    BY <1>0, <1>a, <2>0 DEF QueueBehindCut
  <2>2. 1..queuedUpTo \subseteq 1..new /\ 1..new = (1..queuedUpTo) \cup {new} /\ 0..queuedUpTo \subseteq 0..new
    BY <1>0, <2>0
  <2>3. NoticeTypes'
    <3>1. /\ appending' \in 0..new /\ broken' \subseteq 1..new /\ misplaced' \subseteq 1..new
          /\ shown' \subseteq 1..new /\ new \in 0..MaxNotices
      BY <1>0, <2>1, <2>2
    <3>2. NoticesTypeOK'
      BY <1>0, <2>1, <3>1 DEF NoticesTypeOK, HookRow
    <3>3. /\ ToSet(notices) \subseteq 1..new
          /\ \A s \in Chats : /\ ToSet(hook[s].batch) \subseteq 1..new
                              /\ hook[s].at = "read" =>
                                   hook[s].batch # <<>> /\ ToSet(hook[s].batch) \subseteq shown' \cup misplaced'
      BY <1>0, <2>1, <2>2
    <3> QED
      BY <2>1, <3>2, <3>3 DEF NoticeTypes
  <2>4. \A n \in 1..queuedUpTo : Spared(n) => Spared(n)'
    BY <2>1 DEF Spared, Passing
  <2> QED
    BY <2>1, <2>2, <2>3, <2>4 DEF NoticesInv
<1>c. CASE FinishAppend
  <2>1. /\ appending \in 1..queuedUpTo /\ appending \in 1..MaxNotices /\ appending' = 0
        /\ UNCHANGED <<queuedUpTo, halfLine, shown, misplaced, hook, active, noticeKills>>
        /\ \/ UNCHANGED <<notices, broken>>
           \/ notices' = Append(notices, appending) /\ broken' = broken \cup {appending}
    BY <1>0, <1>c DEF FinishAppend
  <2>2. CASE UNCHANGED <<notices, broken>>
    <3>1. NoticeTypes'
      <4>1. appending' \in 0..queuedUpTo'
        BY <1>0, <2>1
      <4>2. NoticesTypeOK'
        BY <1>0, <2>1, <2>2, <4>1 DEF NoticesTypeOK, HookRow
      <4> QED
        BY <1>0, <2>1, <2>2, <4>2 DEF NoticeTypes
    <3> QED
      BY <2>1, <2>2, <3>1 DEF NoticesInv, Spared, Passing
  <2>3. CASE notices' = Append(notices, appending) /\ broken' = broken \cup {appending}
    <3>1. notices' \in Seq(1..MaxNotices) /\ ToSet(notices') \subseteq ToSet(notices) \cup {appending}
      <4>1. /\ notices' \in Seq(1..MaxNotices) /\ Len(notices') = Len(notices) + 1 /\ Len(notices) \in Nat
            /\ \A i \in 1..Len(notices) : notices'[i] = notices[i]
            /\ notices'[Len(notices) + 1] = appending
        BY <1>0, <2>1, <2>3, AppendProperties
      <4>2. DOMAIN notices = 1..Len(notices) /\ DOMAIN notices' = 1..(Len(notices) + 1)
        BY <1>0, <4>1
      <4> QED
        BY <4>1, <4>2 DEF ToSet
    <3>2. NoticeTypes'
      BY <1>0, <2>1, <2>3, <3>1 DEF NoticeTypes, NoticesTypeOK, HookRow
    <3>3. \A n \in 1..queuedUpTo : Spared(n) => Spared(n)'
      BY <1>l, <2>1, <2>3
    <3> QED
      BY <2>1, <3>2, <3>3 DEF NoticesInv
  <2> QED
    BY <2>1, <2>2, <2>3
<1>d. CASE AppendCut
  <2>1. /\ appending' = 0 /\ appending \in 1..queuedUpTo /\ halfLine' \in BOOLEAN
        /\ broken' = broken \cup {appending} /\ misplaced' = misplaced \cup {appending}
        /\ noticeKills' \in 0..MaxNoticeKills /\ UNCHANGED <<notices, queuedUpTo, shown, hook, active>>
    BY <1>0, <1>d DEF AppendCut, NoticeFault
  <2>2. NoticeTypes'
    <3>1. appending' \in 0..queuedUpTo' /\ broken' \subseteq 1..queuedUpTo' /\ misplaced' \subseteq 1..queuedUpTo'
      BY <1>0, <2>1
    <3>2. NoticesTypeOK'
      BY <1>0, <2>1, <3>1 DEF NoticesTypeOK, HookRow
    <3> QED
      BY <1>0, <2>1, <3>1, <3>2 DEF NoticeTypes
  <2> QED
    BY <2>1, <2>2 DEF NoticesInv, Spared, Passing
<1>2. ASSUME NEW s \in Chats, ReplyEnds(s) PROVE NoticesInv'
  <2> DEFINE lines == IF ToSet(notices) \subseteq Unreadable THEN <<>> ELSE notices
             line == [at |-> "lint", skip |-> Unreadable \cap ToSet(notices), batch |-> lines]
  <2>1. /\ lines \in Seq(1..MaxNotices) /\ ToSet(lines) \subseteq 1..queuedUpTo
        /\ \A n \in ToSet(notices) : n \in ToSet(lines) \/ lines = <<>>
    BY <1>0, NoNotices
  <2>2. line \in HookRow /\ line.at = "lint" /\ line.batch = lines
    BY <1>0, <2>1 DEF HookRow
  <2>3. hook' = [hook EXCEPT ![s] = line] /\ UNCHANGED <<notices, queuedUpTo, appending, broken, halfLine, shown, misplaced, active, noticeKills>>
    BY <1>2 DEF ReplyEnds
  <2> HIDE DEF line, lines
  <2> QED
    BY <1>0, <2>1, <2>2, <2>3, NoticeHookMoves
<1>3. ASSUME NEW s \in Chats, hook' = [hook EXCEPT ![s] = Gone],
             UNCHANGED <<notices, queuedUpTo, appending, broken, halfLine, shown, misplaced>>,
             active' \in [Chats -> BOOLEAN], noticeKills' \in 0..MaxNoticeKills
      PROVE  NoticesInv'
  BY <1>0, <1>3, NoNotices, NoticeHookMoves
<1>4. ASSUME NEW s \in Chats, SendBack(s) PROVE NoticesInv'
  BY <1>0, <1>3, <1>4 DEF SendBack
<1>5. ASSUME NEW s \in Chats, Leave(s) PROVE NoticesInv'
  <2>1. /\ hook[s].at = "lint"
        /\ shown' = shown \cup (ToSet(hook[s].batch) \ hook[s].skip)
        /\ misplaced' = misplaced \cup (ToSet(hook[s].batch) \cap hook[s].skip)
        /\ hook' = [hook EXCEPT ![s] = IF Undropped(s) THEN [hook[s] EXCEPT !.at = "read"] ELSE Gone]
        /\ active' \in [Chats -> BOOLEAN] /\ UNCHANGED <<notices, queuedUpTo, appending, broken, halfLine, noticeKills>>
    BY <1>0, <1>5 DEF Leave
  <2>2. /\ shown \subseteq shown' /\ shown' \subseteq 1..queuedUpTo
        /\ misplaced \subseteq misplaced' /\ misplaced' \subseteq 1..queuedUpTo
        /\ ToSet(hook[s].batch) \subseteq shown' \cup misplaced' /\ noticeKills' \in 0..MaxNoticeKills
    BY <1>0, <2>1
  <2>3. CASE Undropped(s)
    <3> DEFINE line == [hook[s] EXCEPT !.at = "read"]
    <3>1. line \in HookRow /\ line.at = "read" /\ line.batch = hook[s].batch /\ hook' = [hook EXCEPT ![s] = line]
      BY <1>0, <2>1, <2>3 DEF HookRow
    <3>2. \A n \in 1..queuedUpTo : n \in shown' \/ n \in misplaced' \/ Passing(n, s)
      BY <2>1, <2>2, <2>3 DEF Passing, Undropped
    <3> HIDE DEF line
    <3> QED
      BY <1>0, <2>1, <2>2, <2>3, <3>1, <3>2, NoticeHookMoves DEF Undropped
  <2>4. CASE ~Undropped(s)
    BY <1>0, <2>1, <2>2, <2>4, NoNotices, NoticeHookMoves
  <2> QED
    BY <2>3, <2>4
<1>6. ASSUME NEW s \in Chats, ReadRest(s) PROVE NoticesInv'
  <2>0. /\ hook[s].at = "read" /\ hook[s].batch # <<>> /\ ToSet(hook[s].batch) \subseteq shown \cup misplaced
        /\ UNCHANGED <<notices, queuedUpTo, appending, broken, halfLine, shown, misplaced, active, noticeKills>>
    BY <1>0, <1>6 DEF ReadRest
  <2>1. CASE notices = <<>>
    BY <1>0, <1>3, <1>6, <2>0, <2>1 DEF ReadRest
  <2>2. CASE notices # <<>>
    <3> DEFINE rest == SubSeq(notices, Len(hook[s].batch) + 1, Len(notices))
               line == [at |-> "write", batch |-> rest, skip |-> Unreadable]
    <3>1. hook' = [hook EXCEPT ![s] = line]
      BY <1>0, <1>6, <2>2 DEF ReadRest
    <3>2. /\ rest \in Seq(1..MaxNotices) /\ ToSet(rest) \subseteq ToSet(notices)
          /\ \A i \in DOMAIN notices : i > Len(hook[s].batch) => notices[i] \in ToSet(rest)
      BY <1>0, <1>b, LinesWritten
    <3>3. Unreadable \subseteq 0..MaxNotices
      <4>1. 1..queuedUpTo \subseteq 0..MaxNotices /\ 0..queuedUpTo \subseteq 0..MaxNotices
        BY <1>0
      <4> QED
        BY <1>0, <4>1 DEF Unreadable
    <3>4. line \in HookRow /\ line.at = "write" /\ line.batch = rest
      BY <3>2, <3>3 DEF HookRow
    <3>5. \A n \in 1..queuedUpTo : n \in shown \/ n \in misplaced \/ (Passing(n, s) /\ n \in ToSet(rest))
      BY <2>0, <3>2 DEF NoticesInv, Spared, Passing
    <3> HIDE DEF rest, line
    <3> QED
      BY <1>0, <2>0, <3>1, <3>2, <3>4, <3>5, NoticeHookMoves
  <2> QED
    BY <2>1, <2>2
\* What is written back, or lost in the attempt, held every line that was spared.
<1>7. ASSUME NEW s \in Chats, WriteRest(s) \/ WriteRestFails(s) PROVE NoticesInv'
  <2>1. /\ hook[s].at = "write" /\ hook' = [hook EXCEPT ![s] = Gone]
        /\ misplaced \subseteq misplaced' /\ misplaced' \subseteq 1..queuedUpTo
        /\ broken' \subseteq 1..queuedUpTo /\ halfLine' = FALSE /\ noticeKills' \in 0..MaxNoticeKills
        /\ \/ notices' = hook[s].batch
           \/ notices' = <<>> /\ ToSet(hook[s].batch) \subseteq misplaced'
        /\ UNCHANGED <<queuedUpTo, appending, shown, active>>
    <3>1. CASE WriteRest(s)
      <4>1. Torn(s) \subseteq 1..queuedUpTo
        BY <1>0 DEF Torn
      <4> QED
        BY <1>0, <3>1, <4>1 DEF WriteRest
    <3>2. CASE WriteRestFails(s)
      <4>1. noticeKills' \in 0..MaxNoticeKills
        BY <1>0, <3>2 DEF WriteRestFails, NoticeFault
      <4> QED
        BY <1>0, <3>2, <4>1 DEF WriteRestFails
    <3> QED
      BY <1>7, <3>1, <3>2
  <2>2. /\ hook' \in [Chats -> HookRow] /\ hook'[s] = Gone
        /\ \A t \in Chats \ {s} : hook'[t] = hook[t]
    BY <1>0, <2>1, NoNotices
  <2>3. NoticeTypes'
    <3>1. notices' \in Seq(1..MaxNotices) /\ ToSet(notices') \subseteq 1..queuedUpTo
      BY <1>0, <1>b, <2>1, NoNotices
    <3> QED
      BY <1>0, <1>b, <2>1, <2>2, <3>1, NoNotices DEF NoticeTypes, NoticesTypeOK, HookRow
  <2>4. ASSUME NEW n \in 1..queuedUpTo, Spared(n), n \notin misplaced' PROVE Spared(n)'
    <3>1. Passing(n, s) /\ n \in ToSet(notices')
      BY <2>1, <2>4 DEF Passing, Spared
    <3>2. \A t \in Chats : ~Passing(n, t)'
      BY <2>2, <2>4, <3>1, NoNotices DEF Passing, Spared
    <3> QED
      BY <3>1, <3>2 DEF Spared
  <2> QED
    BY <2>1, <2>3, <2>4 DEF NoticesInv
<1>8. ASSUME NEW s \in Chats, HookKilled(s) PROVE NoticesInv'
  <2>1. noticeKills' \in 0..MaxNoticeKills /\ active' \in [Chats -> BOOLEAN]
    BY <1>0, <1>8 DEF HookKilled, NoticeFault
  <2> QED
    BY <1>3, <1>8, <2>1 DEF HookKilled
<1>9. CASE UNCHANGED noticeVars
  BY <1>9 DEF noticeVars, NoticesInv, NoticeTypes, NoticesTypeOK, Spared, Passing
<1> QED
  BY <1>1, <1>a, <1>c, <1>d, <1>2, <1>4, <1>5, <1>6, <1>7, <1>8, <1>9 DEF NoticesNext, HookStep

(* The file, the hooks and what each holds stay in their domains. *)
THEOREM NoticesTypeCorrect == NoticesSpec => []NoticesTypeOK
<1>1. NoticesInv => NoticesTypeOK
  BY DEF NoticesInv, NoticeTypes
<1> QED
  BY <1>1, NoticesInitInv, NoticesStepInv, PTL DEF NoticesSpec

(* For any number of sessions and of updates: an outcome is not dropped before
   it is shown, unless it came while it could be misplaced, or its line was not
   whole when a hook counted it or wrote it back. *)
THEOREM NoticesKeptHolds == NoticesSpec => []NoticesKept
<1>1. NoticesInv => NoticesKept
  BY DEF NoticesInv, Spared, NoticesKept
<1> QED
  BY <1>1, NoticesInitInv, NoticesStepInv, PTL DEF NoticesSpec
=============================================================================
