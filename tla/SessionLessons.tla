--------------------------- MODULE SessionLessons ---------------------------
(***************************************************************************)
(* What sessions learned, and how it becomes memories.  A lesson that      *)
(* repeats an earlier one is promoted as it is stored                      *)
(* (src/lib/session-lessons-store.js); the others are promoted or          *)
(* dismissed by the AI or in the console (src/routes/session-lessons.js).  *)
(* Promoting is several statements: INSERT a project memory and its        *)
(* history entry, then point the lesson at it.  What a lesson made once is *)
(* brought back rather than written again.                                 *)
(***************************************************************************)
EXTENDS Naturals, Sequences

CONSTANTS
  Lessons,
  Alike,          \* which lessons say the same: a set of pairs
  Requests,       \* requests that can be in flight at once
  MaxCopies,      \* bound: memories made of lessons
  MaxVerdicts,    \* bound: verdicts of the user and acts on the memories
  MaxLessonFaults \* bound: requests that fail half way

NotMade == 0
Nil == "none"

ASSUME LessonConstants ==
  /\ Alike \subseteq Lessons \X Lessons /\ Nil \notin Lessons \cup Requests
  /\ {MaxCopies, MaxVerdicts, MaxLessonFaults} \subseteq Nat

VARIABLES
  lesson,     \* session_lessons: status and memory_id
  copies,     \* the memories made of lessons: the lesson each was made of, and its status
  request,    \* each request: where it is, its lesson, the memory it has, the lesson it repeats
  torn,       \* history: lessons of which there can be two memories: see OneCopyPerLesson
  verdicts, lessonFaults

lessonVars == <<lesson, copies, request, torn, verdicts, lessonFaults>>

Unused == [at |-> "none", of |-> Nil, copy |-> NotMade, repeats |-> Nil]
LessonFault == lessonFaults < MaxLessonFaults /\ lessonFaults' = lessonFaults + 1
Verdict == verdicts < MaxVerdicts /\ verdicts' = verdicts + 1

LessonsInit ==
  /\ lesson = [l \in Lessons |-> [status |-> "untold", memory |-> NotMade]]
  /\ copies = <<>> /\ request = [r \in Requests |-> Unused]
  /\ torn = {} /\ verdicts = 0 /\ lessonFaults = 0

\* The lessons the requests in flight, r left out, are at work on.
InHand(r) == (UNION {{request[q].of, request[q].repeats} : q \in Requests \ {r}}) \ {Nil}
\* Two requests on one lesson.
Meddled(r, l) == torn' = IF l \in InHand(r) THEN torn \cup {l} ELSE torn
Go(r, next) == request' = [request EXCEPT ![r] = next]

-----------------------------------------------------------------------------
(* POST /api/session: storeSessionLessons                                  *)

StoreLesson(r, l) ==
  /\ request[r] = Unused /\ lesson[l].status = "untold"
  /\ lesson' = [lesson EXCEPT ![l].status = "new"]
  /\ Go(r, [Unused EXCEPT !.at = "find", !.of = l])
  /\ UNCHANGED <<copies, torn, verdicts, lessonFaults>>

\* findRepeatLesson: one that is new or dismissed and says the same.
Earlier(l) == {e \in Lessons \ {l} : {<<e, l>>, <<l, e>>} \cap Alike # {} /\ lesson[e].status \in {"new", "dismissed"}}
FindRepeat(r) ==
  /\ request[r].at = "find"
  /\ \E e \in Earlier(request[r].of) :
       /\ Go(r, [request[r] EXCEPT !.at = "insert", !.repeats = e])
       /\ Meddled(r, e)
  /\ UNCHANGED <<lesson, copies, verdicts, lessonFaults>>
NoRepeat(r) ==
  /\ request[r].at = "find" /\ Earlier(request[r].of) = {}
  /\ Go(r, Unused)
  /\ UNCHANGED <<lesson, copies, torn, verdicts, lessonFaults>>

-----------------------------------------------------------------------------
(* PUT /:id/promote and /:id/set                                           *)

StartRequest(r, l, at) == /\ request[r] = Unused /\ Verdict
                   /\ Go(r, [Unused EXCEPT !.at = at, !.of = l])
                   /\ Meddled(r, l)
                   /\ UNCHANGED <<lesson, copies, lessonFaults>>

PromoteNew(r, l) == lesson[l].status = "new" /\ StartRequest(r, l, "insert")

\* Mutant: what the lesson made before is not looked at.
SetPromotedAnew(r, l) == lesson[l].status \in {"new", "dismissed"} /\ StartRequest(r, l, "insert")

SetPromoted(r, l) ==
  /\ lesson[l].status \in {"new", "dismissed"}
  /\ StartRequest(r, l, IF lesson[l].memory = NotMade THEN "insert" ELSE "look")

\* promoteByRestoring: an archived memory is restored, an active one is taken
\* as it is, a disabled one is not brought back.
LookAtCopy(r) ==
  LET c == lesson[request[r].of].memory IN
  /\ request[r].at = "look"
  /\ Go(r, CASE copies[c].status = "archived" -> [request[r] EXCEPT !.at = "restore", !.copy = c]
             [] copies[c].status = "active"   -> [request[r] EXCEPT !.at = "mark", !.copy = c]
             [] OTHER                         -> [request[r] EXCEPT !.at = "insert"])
  /\ UNCHANGED <<lesson, copies, torn, verdicts, lessonFaults>>
\* The guarded UPDATE; if it matches nothing by now a new memory is written.
RestoreCopy(r) ==
  LET c == request[r].copy IN
  /\ request[r].at = "restore"
  /\ IF copies[c].status = "archived"
     THEN /\ copies' = [copies EXCEPT ![c].status = "active"]
          /\ Go(r, [request[r] EXCEPT !.at = "mark"]) /\ UNCHANGED torn
     ELSE /\ Go(r, [request[r] EXCEPT !.at = "insert"])
          /\ torn' = torn \cup {request[r].of} /\ UNCHANGED copies
  /\ UNCHANGED <<lesson, verdicts, lessonFaults>>

\* promoteLessonRow ...
InsertCopy(r) ==
  /\ request[r].at = "insert" /\ Len(copies) < MaxCopies
  /\ copies' = Append(copies, [of |-> request[r].of, status |-> "active"])
  /\ Go(r, [request[r] EXCEPT !.at = "mark", !.copy = Len(copies) + 1])
  /\ UNCHANGED <<lesson, torn, verdicts, lessonFaults>>

Promoted(l, c) == lesson' = [lesson EXCEPT ![l] = [status |-> "promoted", memory |-> c]]
\* Two lessons, one memory: what the earlier one had made is let go of.
LetGo(l, c) == torn' = IF lesson[l].memory \in {NotMade, c} THEN torn ELSE torn \cup {l}

\* ... markLessonPromoted, whatever has become of the lesson.
MarkPromoted(r) ==
  /\ request[r].at = "mark"
  /\ Promoted(request[r].of, request[r].copy)
  /\ Go(r, IF request[r].repeats = Nil THEN Unused ELSE [request[r] EXCEPT !.at = "markRepeat"])
  /\ UNCHANGED <<copies, torn, verdicts, lessonFaults>>
MarkRepeat(r) ==
  /\ request[r].at = "markRepeat"
  /\ Promoted(request[r].repeats, request[r].copy)
  /\ LetGo(request[r].repeats, request[r].copy)
  /\ Go(r, Unused)
  /\ UNCHANGED <<copies, verdicts, lessonFaults>>

\* A statement fails: a memory already written stays.
RequestFails(r) ==
  /\ request[r] # Unused /\ LessonFault
  /\ torn' = IF request[r].at = "mark" THEN torn \cup {request[r].of} ELSE torn
  /\ Go(r, Unused)
  /\ UNCHANGED <<lesson, copies, verdicts>>

\* PUT /:id/dismiss, and /:id/set, which dismisses a promoted lesson too and
\* leaves memory_id as it is.
Dismiss(l) ==
  /\ lesson[l].status \in {"new", "promoted"} /\ Verdict
  /\ lesson' = [lesson EXCEPT ![l].status = "dismissed"]
  /\ UNCHANGED <<copies, request, torn, lessonFaults>>

\* The routes of a memory.  One that is brought back by hand although its
\* lesson has another by now is the user's own doing.
CopySet(c, from, to) ==
  /\ copies[c].status = from /\ Verdict
  /\ copies' = [copies EXCEPT ![c].status = to]
  /\ torn' = IF to = "active" /\ (lesson[copies[c].of].memory # c \/ copies[c].of \in InHand(Nil))
             THEN torn \cup {copies[c].of} ELSE torn
  /\ UNCHANGED <<lesson, request, lessonFaults>>
ArchiveCopy(c) == CopySet(c, "active", "archived")
RestoreByHand(c) == CopySet(c, "archived", "active")
DisableCopy(c) == CopySet(c, "active", "disabled")
EnableCopy(c) == CopySet(c, "disabled", "active")

LessonsNext ==
  \/ \E r \in Requests :
       \/ FindRepeat(r) \/ NoRepeat(r) \/ LookAtCopy(r) \/ RestoreCopy(r) \/ InsertCopy(r)
       \/ MarkPromoted(r) \/ MarkRepeat(r) \/ RequestFails(r)
       \/ \E l \in Lessons : StoreLesson(r, l) \/ PromoteNew(r, l) \/ SetPromoted(r, l)
  \/ \E l \in Lessons : Dismiss(l)
  \/ \E c \in DOMAIN copies : ArchiveCopy(c) \/ RestoreByHand(c) \/ DisableCopy(c) \/ EnableCopy(c)

LessonsSpec == LessonsInit /\ [][LessonsNext]_lessonVars

-----------------------------------------------------------------------------
Standings == {"untold", "new", "promoted", "dismissed"}
Stops == {"none", "find", "look", "restore", "insert", "mark", "markRepeat"}
LessonRow == [status : Standings, memory : 0..Len(copies)]
CopyRow == [of : Lessons, status : {"active", "archived", "disabled"}]
RequestRow == [at : Stops, of : Lessons \cup {Nil}, copy : 0..Len(copies), repeats : Lessons \cup {Nil}]
LessonsTypeOK ==
  /\ lesson \in [Lessons -> LessonRow] /\ copies \in Seq(CopyRow) /\ request \in [Requests -> RequestRow]
  /\ torn \subseteq Lessons /\ verdicts \in 0..MaxVerdicts /\ lessonFaults \in 0..MaxLessonFaults

\* "Brings the same memory back rather than writing a second copy beside the
\* archived one": no two active memories are made of one lesson, through any
\* order of promotions, repeats, dismissals, archiving and restoring.  Apart
\* from two requests on it at once and one that fails half way, only a repeat
\* that takes a lesson away from the memory it had, or a user who brings back
\* a memory the lesson has replaced, leaves room for a second.
OneCopyPerLesson ==
  \A l \in Lessons \ torn : \A c, d \in DOMAIN copies :
    copies[c] = [of |-> l, status |-> "active"] /\ copies[d] = copies[c] => c = d
=============================================================================
