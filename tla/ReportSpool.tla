---------------------------- MODULE ReportSpool ----------------------------
(***************************************************************************)
(* The events a Stop hook reports to the server.  One it cannot deliver is *)
(* appended to logs/reply-lint-pending.jsonl (hooks/ownmind-reply-lint.js) *)
(* and the flush of the next session start                                 *)
(* (hooks/lib/flush-compliance-spool.js) takes the file away by rename,    *)
(* sends it in one POST /api/activity/batch, and deletes it or puts it     *)
(* back.  The server stores each event of a batch once, by its             *)
(* client_event_id (src/routes/activity.js).                               *)
(*                                                                         *)
(* A file is the set of the events in it; one without events is absent.    *)
(***************************************************************************)
EXTENDS Naturals, FiniteSets, FiniteSetsExt

CONSTANTS
  Reports,        \* events
  Flushes,        \* flushes that can run at once
  BatchCap,       \* events of one batch the server looks at (500 in the code)
  MaxSpoolFaults  \* bound: failed and unanswered requests, hooks that die

ASSUME SpoolConstants == BatchCap \in Nat \ {0} /\ MaxSpoolFaults \in Nat

VARIABLES
  report,      \* each event: new, failed (to be spooled), over
  pending,     \* reply-lint-pending.jsonl
  flush,       \* each flush, and the .processing file it holds
  leftovers,   \* .processing files nobody holds any more, together
  stored,      \* the events in activity_logs
  spooled,     \* history: the events that were put in the spool
  overlaid,     \* history: those put there while a flush was about to rename its file back
  cut,         \* history: those the server left out of a batch it answers with 200
  spoolFaults

spoolVars == <<report, pending, flush, leftovers, stored, spooled, overlaid, cut, spoolFaults>>
spoolHistory == <<spooled, overlaid, cut>>

NoFlush == [at |-> "none", holds |-> {}]
SpoolFault == spoolFaults < MaxSpoolFaults /\ spoolFaults' = spoolFaults + 1

SpoolInit ==
  /\ report = [e \in Reports |-> "new"]
  /\ pending = {} /\ flush = [f \in Flushes |-> NoFlush] /\ leftovers = {}
  /\ stored = {} /\ spooled = {} /\ overlaid = {} /\ cut = {} /\ spoolFaults = 0

\* POST /batch: every event of the batch on its own, one that is there already
\* is left alone.  What is beyond the cap is not looked at, an event that cannot
\* be inserted is left behind, and the answer is 200 all the same.
Accept(batch) ==
  \E looked \in kSubset(IF Cardinality(batch) < BatchCap THEN Cardinality(batch) ELSE BatchCap, batch) :
    \E rejected \in {{}} \cup {{e} : e \in looked} :
      /\ stored' = stored \cup (looked \ rejected)
      /\ cut' = cut \cup (batch \ looked) \cup rejected

\* A flush that has found no new file will rename over one that is made now.
Expose(events, flushes) ==
  overlaid' = IF \E f \in flushes : flush[f].at = "putBack" THEN overlaid \cup events ELSE overlaid

-----------------------------------------------------------------------------
(* the Stop hook: postEvents, else spoolPendingForRetry                    *)

\* The request is answered ...
ReportDelivered(e) ==
  /\ report[e] = "new"
  /\ report' = [report EXCEPT ![e] = "over"]
  /\ Accept({e})
  /\ UNCHANGED <<pending, flush, leftovers, spooled, overlaid, spoolFaults>>

\* ... or fails or is not answered in time, having been stored or not.
ReportFails(e) ==
  /\ report[e] = "new"
  /\ report' = [report EXCEPT ![e] = "failed"]
  /\ \/ UNCHANGED <<stored, cut>>
     \/ Accept({e})
  /\ UNCHANGED <<pending, flush, leftovers, spooled, overlaid, spoolFaults>>

SpoolReport(e) ==
  /\ report[e] = "failed"
  /\ report' = [report EXCEPT ![e] = "over"]
  /\ pending' = pending \cup {e}
  /\ spooled' = spooled \cup {e}
  /\ Expose({e}, Flushes)
  /\ UNCHANGED <<flush, leftovers, stored, cut, spoolFaults>>

-----------------------------------------------------------------------------
(* the flush                                                               *)

TakeSpool(f) ==
  /\ flush[f].at = "none" /\ pending # {}
  /\ flush' = [flush EXCEPT ![f] = [at |-> "post", holds |-> pending]]
  /\ pending' = {}
  /\ UNCHANGED <<report, leftovers, stored, spoolHistory, spoolFaults>>

PostSpool(f) ==
  /\ flush[f].at = "post"
  /\ Accept(flush[f].holds)
  /\ flush' = [flush EXCEPT ![f].at = "delete"]
  /\ UNCHANGED <<report, pending, leftovers, spooled, overlaid, spoolFaults>>

PostFails(f) ==
  /\ flush[f].at = "post" /\ SpoolFault
  /\ \/ UNCHANGED <<stored, cut>>
     \/ Accept(flush[f].holds) \* stored, and the answer was late
  /\ flush' = [flush EXCEPT ![f].at = "restore"]
  /\ UNCHANGED <<report, pending, leftovers, spooled, overlaid>>

DeleteSpool(f) ==
  /\ flush[f].at = "delete"
  /\ flush' = [flush EXCEPT ![f] = NoFlush]
  /\ UNCHANGED <<report, pending, leftovers, stored, spoolHistory, spoolFaults>>

\* restoreOrCleanup: renamed back where there is no new file by now ...
Restore(f) ==
  /\ flush[f].at = "restore"
  /\ flush' = [flush EXCEPT ![f].at = IF pending = {} THEN "putBack" ELSE "append"]
  /\ UNCHANGED <<report, pending, leftovers, stored, spoolHistory, spoolFaults>>
PutBack(f) ==
  /\ flush[f].at = "putBack"
  /\ pending' = flush[f].holds
  /\ flush' = [flush EXCEPT ![f] = NoFlush]
  /\ Expose(flush[f].holds, Flushes \ {f})
  /\ UNCHANGED <<report, leftovers, stored, spooled, cut, spoolFaults>>

\* Mutant: where there is a new file the old one is let go.
AppendNothing(f) ==
  /\ flush[f].at = "append"
  /\ flush' = [flush EXCEPT ![f].at = "delete"]
  /\ UNCHANGED <<report, pending, leftovers, stored, spoolHistory, spoolFaults>>

\* ... and appended where there is one.
AppendBack(f) ==
  /\ flush[f].at = "append"
  /\ pending' = pending \cup flush[f].holds
  /\ flush' = [flush EXCEPT ![f].at = "delete"]
  /\ Expose(flush[f].holds, Flushes \ {f})
  /\ UNCHANGED <<report, leftovers, stored, spooled, cut, spoolFaults>>

\* A flush dies: its file stays, and no flush looks for such files.
FlushDies(f) ==
  /\ flush[f].at # "none" /\ SpoolFault
  /\ leftovers' = leftovers \cup flush[f].holds
  /\ flush' = [flush EXCEPT ![f] = NoFlush]
  /\ UNCHANGED <<report, pending, stored, spoolHistory>>

FlushStep(f) == \/ TakeSpool(f) \/ PostSpool(f) \/ DeleteSpool(f)
                \/ Restore(f) \/ PutBack(f) \/ AppendBack(f)

SpoolNext ==
  \/ \E e \in Reports : ReportDelivered(e) \/ ReportFails(e) \/ SpoolReport(e)
  \/ \E f \in Flushes : FlushStep(f) \/ PostFails(f) \/ FlushDies(f)

SpoolSpec == SpoolInit /\ [][SpoolNext]_spoolVars

\* Sessions start, and a flush runs to its end.
SpoolFairness == \A f \in Flushes : WF_spoolVars(FlushStep(f))

-----------------------------------------------------------------------------
SpoolTypeOK ==
  /\ report \in [Reports -> {"new", "failed", "over"}]
  /\ pending \subseteq Reports /\ leftovers \subseteq Reports /\ stored \subseteq Reports
  /\ flush \in [Flushes -> [at : {"none", "post", "delete", "restore", "putBack", "append"},
                            holds : SUBSET Reports]]
  /\ spooled \subseteq Reports /\ overlaid \subseteq spooled /\ cut \subseteq Reports
  /\ spoolFaults \in 0..MaxSpoolFaults

\* An event put in the spool is in the file, in the hands of a flush that will
\* send it or put it back, in the file of one that died, or with the server, but
\* for those appended as a flush renames its file back and those the server
\* leaves out: a flush drops nothing between its rename and its delete.
SpooledKept ==
  \A e \in spooled :
    \/ e \in pending \cup leftovers \cup stored \cup overlaid \cup cut
    \/ \E f \in Flushes : flush[f].at \in {"post", "restore", "putBack", "append"} /\ e \in flush[f].holds

\* Every event put in the spool gets to the server in the end, or lies in the
\* file of a flush that died ("a leftover file is better than dropping data").
\* Lost are only those appended just when a flush renames its file back, and
\* those beyond what the server looks at of one batch or cannot insert.
ReportsArrive ==
  \A e \in Reports : e \in spooled ~> e \in stored \/ e \in leftovers \/ e \in overlaid \/ e \in cut
=============================================================================
