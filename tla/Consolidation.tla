--------------------------- MODULE Consolidation ---------------------------
(***************************************************************************)
(* Questions about memories that the AI cannot settle by itself            *)
(* (src/routes/memory-consolidation.js).  A session start shows the oldest *)
(* open ones (hooks/lib/session-live-state.js reports that it did); one    *)
(* that was shown on two days and not answered for a fortnight is settled  *)
(* by a job (src/jobs/memory-consolidation.js), which archives the memory. *)
(* The job runs at every start of the server and every night, so that two  *)
(* can overlap, and it works from a list it reads first.                   *)
(*                                                                         *)
(* Texts, the candidates and the monthly card (one INSERT under a unique   *)
(* index) are left out.                                                    *)
(***************************************************************************)
EXTENDS Naturals, Sequences, FiniteSets

CONSTANTS
  Doubtful,       \* memories there can be a question about
  Projects,       \* those of type project: the only ones a job may archive
  Starts,         \* sessions that start or park questions at once
  JobRuns,        \* runs of the job that can overlap
  ShowLimit,      \* MAX_QUESTIONS (3 in the code)
  AnswerDays,     \* UNANSWERED_QUESTION_DAYS (14 in the code)
  MaxParked,      \* bound: questions parked
  MaxConsolidationFaults \* bound: lost reports, failed jobs

ASSUME ConsolidationConstants ==
  /\ Projects \subseteq Doubtful
  /\ ShowLimit \in Nat \ {0} /\ {AnswerDays, MaxParked, MaxConsolidationFaults} \subseteq Nat

VARIABLES
  standing,   \* status of each memory: active, archived or disabled
  asked,      \* consolidation_questions, oldest first
  start,      \* each session: the memory it is about to INSERT a question about, the questions it shows
  expiry,     \* each run of the job: the questions it has yet to settle, as it read them
  shownDays,  \* history: days on which each question was shown, counted to two
  shownToday, \* history: the questions shown since midnight
  expired,    \* history: questions for which the job archived the memory
  answered,   \* history: questions settled by the user, or by who archived the memory, before
              \* the job did and not while it held them in its list
  straddled,  \* history: those whose showing was reported after midnight
  consolidationFaults

historyVars == <<shownDays, shownToday, expired, answered, straddled>>
consolidationVars == <<standing, asked, start, expiry, historyVars, consolidationFaults>>

NoMemory == "none"
Idling == [parks |-> NoMemory, shows |-> {}]
NoRun == [at |-> "idle", todo |-> {}]
ConsolidationFault ==
  consolidationFaults < MaxConsolidationFaults /\ consolidationFaults' = consolidationFaults + 1

ConsolidationInit ==
  /\ standing = [m \in Doubtful |-> "active"] /\ asked = <<>>
  /\ start = [s \in Starts |-> Idling] /\ expiry = [j \in JobRuns |-> NoRun]
  /\ shownDays = <<>> /\ shownToday = {} /\ expired = {} /\ answered = {}
  /\ straddled = {} /\ consolidationFaults = 0

OpenAbout(m) == {i \in DOMAIN asked : asked[i].about = m /\ asked[i].open}
NewQuestion(m) == [about |-> m, count |-> 0, age |-> 0, open |-> TRUE]
\* Nothing looks at the count of a question that is answered.
AnswerAll(questions) == [i \in DOMAIN asked |->
  IF i \in questions THEN [NewQuestion(asked[i].about) EXCEPT !.open = FALSE] ELSE asked[i]]
HeldByJob == {q.question : q \in UNION {expiry[j].todo : j \in JobRuns}}

-----------------------------------------------------------------------------
(* POST /questions: an open question on the memory only changes its text;  *)
(* the UPDATE that finds none and the INSERT are two statements            *)

StartPark(s, m) ==
  /\ start[s] = Idling /\ OpenAbout(m) = {} /\ Len(asked) < MaxParked
  /\ start' = [start EXCEPT ![s].parks = m]
  /\ UNCHANGED <<standing, asked, expiry, historyVars, consolidationFaults>>
Park(s) ==
  /\ start[s].parks # NoMemory /\ Len(asked) < MaxParked
  /\ asked' = Append(asked, NewQuestion(start[s].parks))
  /\ shownDays' = Append(shownDays, 0)
  /\ start' = [start EXCEPT ![s] = Idling]
  /\ UNCHANGED <<standing, expiry, shownToday, expired, answered, straddled, consolidationFaults>>

-----------------------------------------------------------------------------
(* the showing of a question                                               *)

\* The oldest of some questions, up to the limit.
Oldest(wanted) == {i \in wanted : Cardinality({k \in wanted : k < i}) < ShowLimit}

\* Mutant: a question that was shown twice is still served.
ServedOpen == Oldest({i \in DOMAIN asked : asked[i].open})

\* buildConsolidationState
Served == Oldest({i \in DOMAIN asked : asked[i].open /\ asked[i].count < 2})

ShowQuestions(s) ==
  /\ start[s] = Idling /\ Served # {}
  /\ start' = [start EXCEPT ![s].shows = Served]
  /\ shownDays' = [i \in DOMAIN shownDays |->
       IF i \in Served \ shownToday /\ shownDays[i] < 2 THEN shownDays[i] + 1 ELSE shownDays[i]]
  /\ shownToday' = shownToday \cup Served
  /\ UNCHANGED <<standing, asked, expiry, expired, answered, straddled, consolidationFaults>>

\* Mutant: every report counts.
CountedAlways(q) == [q EXCEPT !.count = IF @ < 2 THEN @ + 1 ELSE @, !.age = 0]

\* A report counts once a day, and moves the clock in any case.  age is days
\* since last_asked_at, and means nothing before the first report.
Counted(q) == [q EXCEPT !.count = IF (q.count = 0 \/ q.age > 0) /\ @ < 2 THEN @ + 1 ELSE @, !.age = 0]

\* POST /questions/asked
ReportShown(s) ==
  /\ start[s].shows # {}
  /\ asked' = [i \in DOMAIN asked |->
       IF i \in start[s].shows /\ asked[i].open THEN Counted(asked[i]) ELSE asked[i]]
  /\ start' = [start EXCEPT ![s] = Idling]
  /\ UNCHANGED <<standing, expiry, historyVars, consolidationFaults>>

\* "A failed mark means the line is shown again next time."
ReportLost(s) ==
  /\ start[s].shows # {} /\ ConsolidationFault
  /\ start' = [start EXCEPT ![s] = Idling]
  /\ UNCHANGED <<standing, asked, expiry, historyVars>>

\* Midnight in Taipei; days beyond AnswerDays are all the same.
NextDay ==
  /\ asked # <<>>
  /\ asked' = [i \in DOMAIN asked |-> [asked[i] EXCEPT !.age = IF asked[i].count > 0 /\ @ <= AnswerDays THEN @ + 1 ELSE @]]
  /\ shownToday' = {}
  /\ straddled' = straddled \cup UNION {start[s].shows : s \in Starts}
  /\ UNCHANGED <<standing, start, expiry, shownDays, expired, answered, consolidationFaults>>

-----------------------------------------------------------------------------
(* the user, or the AI for him: memory.js                                  *)

Settled(questions) ==
  /\ asked' = AnswerAll(questions)
  /\ answered' = answered \cup (questions \ (expired \cup HeldByJob))

\* POST /:id/decide ends with answerOpenQuestions.
DecideQuestion(m) ==
  /\ OpenAbout(m) # {} /\ Settled(OpenAbout(m))
  /\ UNCHANGED <<standing, start, expiry, shownDays, shownToday, expired, straddled, consolidationFaults>>
\* POST /:id/archive and PUT /:id/disable; the latter leaves questions open.
ArchiveDoubtful(m) ==
  /\ m \in Projects /\ standing[m] = "active"
  /\ standing' = [standing EXCEPT ![m] = "archived"]
  /\ Settled(OpenAbout(m))
  /\ UNCHANGED <<start, expiry, shownDays, shownToday, expired, straddled, consolidationFaults>>
DisableDoubtful(m) ==
  /\ standing[m] = "active"
  /\ standing' = [standing EXCEPT ![m] = "disabled"]
  /\ UNCHANGED <<asked, start, expiry, historyVars, consolidationFaults>>
\* POST /:id/restore
RestoreDoubtful(m) ==
  /\ standing[m] = "archived"
  /\ standing' = [standing EXCEPT ![m] = "active"]
  /\ UNCHANGED <<asked, start, expiry, historyVars, consolidationFaults>>

-----------------------------------------------------------------------------
(* runMemoryConsolidation, its second half                                 *)

Unanswered == {i \in DOMAIN asked : asked[i].open /\ asked[i].count >= 2 /\ asked[i].age > AnswerDays}

\* What is read of a question: itself, and the status of its memory.
StartExpiry(j) ==
  /\ expiry[j].at = "idle" /\ Unanswered # {}
  /\ expiry' = [expiry EXCEPT ![j] = [at |-> "archive", todo |->
       {[question |-> i, was |-> standing[asked[i].about]] : i \in Unanswered}]]
  /\ UNCHANGED <<standing, asked, start, historyVars, consolidationFaults>>

\* The question the run is at: the first it has left.
Doomed(j) == {q \in expiry[j].todo : \A r \in expiry[j].todo : q.question <= r.question}
Subject(q) == asked[q.question].about
Archivable(q) == Subject(q) \in Projects /\ q.was = "active" /\ standing[Subject(q)] = "active"

\* archiveMemoryRow: what is not active any more is left alone, and so are its
\* other questions.
ArchiveUnanswered(j) == \E q \in Doomed(j) :
  /\ expiry[j].at = "archive" /\ Archivable(q)
  /\ standing' = [standing EXCEPT ![Subject(q)] = "archived"]
  /\ expired' = expired \cup {q.question}
  /\ expiry' = [expiry EXCEPT ![j].at = "answerAll"]
  /\ UNCHANGED <<asked, start, shownDays, shownToday, answered, straddled, consolidationFaults>>
SkipArchiving(j) == \E q \in Doomed(j) :
  /\ expiry[j].at = "archive" /\ ~Archivable(q)
  /\ expiry' = [expiry EXCEPT ![j].at = "answer"]
  /\ UNCHANGED <<standing, asked, start, historyVars, consolidationFaults>>

\* answerOpenQuestions, of archiveMemoryRow
AnswerOpenQuestions(j) == \E q \in Doomed(j) :
  /\ expiry[j].at = "answerAll"
  /\ asked' = AnswerAll(OpenAbout(Subject(q)))
  /\ expiry' = [expiry EXCEPT ![j].at = "answer"]
  /\ UNCHANGED <<standing, start, historyVars, consolidationFaults>>
PastQuestion(todo) == [at |-> IF todo = {} THEN "idle" ELSE "archive", todo |-> todo]
\* The question is marked answered either way.
AnswerQuestion(j) == \E q \in Doomed(j) :
  /\ expiry[j].at = "answer"
  /\ asked' = AnswerAll({q.question})
  /\ expiry' = [expiry EXCEPT ![j] = PastQuestion(@.todo \ {q})]
  /\ UNCHANGED <<standing, start, historyVars, consolidationFaults>>

\* A statement fails or the server goes down: the rest waits for the next run.
ExpiryFails(j) ==
  /\ expiry[j].at # "idle" /\ ConsolidationFault
  /\ expiry' = [expiry EXCEPT ![j] = NoRun]
  /\ UNCHANGED <<standing, asked, start, historyVars>>

ExpiryStep(j) == \/ StartExpiry(j) \/ ArchiveUnanswered(j) \/ SkipArchiving(j)
                 \/ AnswerOpenQuestions(j) \/ AnswerQuestion(j)
SessionStep(s) == Park(s) \/ ShowQuestions(s) \/ ReportShown(s)

ConsolidationNext ==
  \/ NextDay
  \/ \E s \in Starts : SessionStep(s) \/ ReportLost(s) \/ \E m \in Doubtful : StartPark(s, m)
  \/ \E m \in Doubtful : DecideQuestion(m) \/ ArchiveDoubtful(m) \/ DisableDoubtful(m) \/ RestoreDoubtful(m)
  \/ \E j \in JobRuns : ExpiryStep(j) \/ ExpiryFails(j)

ConsolidationSpec == ConsolidationInit /\ [][ConsolidationNext]_consolidationVars

\* Days pass, sessions start, the job runs; nobody has to answer anything.
ConsolidationFairness ==
  /\ WF_consolidationVars(NextDay)
  /\ \A s \in Starts : WF_consolidationVars(SessionStep(s))
  /\ \A j \in JobRuns : WF_consolidationVars(ExpiryStep(j))

-----------------------------------------------------------------------------
ConsolidationTypeOK ==
  /\ standing \in [Doubtful -> {"active", "archived", "disabled"}]
  /\ asked \in Seq([about : Doubtful, count : 0..2, age : 0..AnswerDays + 1, open : BOOLEAN])
  /\ Len(asked) <= MaxParked /\ Len(shownDays) = Len(asked) /\ shownDays \in Seq(0..2)
  /\ \A s \in Starts : start[s].parks \in Doubtful \cup {NoMemory} /\ start[s].shows \subseteq DOMAIN asked
  /\ \A j \in JobRuns : /\ expiry[j].at \in {"idle", "archive", "answerAll", "answer"}
                        /\ expiry[j].at = "idle" <=> expiry[j].todo = {}
  /\ UNION {shownToday, expired, answered, straddled} \subseteq DOMAIN asked
  /\ consolidationFaults \in 0..MaxConsolidationFaults

\* "Ask at most twice": the job archives a memory only when its question was
\* put to the user on two different days and not settled, however sessions
\* report the same showing, reports are lost and two runs overlap.  Only a
\* question settled after the job has read its list, or whose showing was
\* reported after midnight, escapes that.
ArchivedUnanswered ==
  \A i \in expired : /\ shownDays[i] = 2 \/ i \in straddled
                     /\ i \notin answered

\* A question is settled in the end, although reports are lost, jobs fail half
\* way, its memory is disabled or restored meanwhile and others are in front of it.
QuestionsSettled == \A i \in 1..MaxParked : i \in DOMAIN asked ~> i \in DOMAIN asked /\ ~asked[i].open
=============================================================================
