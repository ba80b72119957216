---------------------------- MODULE VerdictsProofs ----------------------------
(***************************************************************************)
(* For any number of turns and windows: a verdict that landed before the   *)
(* deadline is never written off, and no turn drops out of sight.          *)
(***************************************************************************)
EXTENDS Verdicts, TLAPS

(* A window's hook, whatever it has listed; what it will say are pairs. *)
Shape(r) == /\ r \in [on : BOOLEAN, todo : {r.todo}, writingOff : BOOLEAN, says : {r.says}]
            /\ \A x \in r.says : x = <<x[1], x[2]>>

Shapes ==
  /\ turn \in [Turns -> {"new", "marked", "failed", "started", "over"}]
  /\ verdict \in [Turns -> {"none", "pending", "landed"}]
  /\ judging \in [Turns -> BOOLEAN] /\ overdue \in [Turns -> BOOLEAN]
  /\ told = [t \in Turns |-> told[t]]
  /\ collector = [w \in Windows |-> collector[w]] /\ \A w \in Windows : Shape(collector[w])
  /\ onTime \subseteq Turns

(* A judge at work has its turn before it, and what landed in time is not a
   marker any more. *)
LandedInv ==
  /\ \A t \in Turns : judging[t] => turn[t] = "started"
  /\ \A t \in onTime : turn[t] = "started" /\ verdict[t] # "pending"

(* Only what is overdue, and did not land in time, is being written off or
   called vanished. *)
SaysVanished(w, t) == <<t, "vanished">> \in collector[w].says
WritesOff(w, t) == collector[w].writingOff /\ Entry(w).turn = t
Late(t) == overdue[t] /\ t \notin onTime
LateInv == \A t \in Turns : /\ "vanished" \in told[t] => Late(t)
                            /\ \A w \in Windows : SaysVanished(w, t) \/ WritesOff(w, t) => Late(t)

VerdictInv == Shapes /\ LandedInv /\ LateInv

-----------------------------------------------------------------------------
LEMMA VerdictsInitInv == VerdictsInit => VerdictInv
<1> SUFFICES ASSUME VerdictsInit PROVE VerdictInv
  OBVIOUS
<1>1. Shapes
  BY DEF VerdictsInit, Shapes, Shape, NoCollector
<1>2. LandedInv /\ LateInv
  BY DEF VerdictsInit, LandedInv, LateInv, SaysVanished, WritesOff, NoCollector
<1> QED
  BY <1>1, <1>2 DEF VerdictInv

(* What a step of one window does to the windows. *)
LEMMA HandledShape ==
  ASSUME Shapes, NEW w \in Windows, NEW said, \A x \in said : x = <<x[1], x[2]>>, Handled(w, said)
  PROVE  /\ collector' = [v \in Windows |-> collector'[v]]
         /\ \A v \in Windows : Shape(collector'[v])
         /\ \A v \in Windows \ {w} : collector'[v] = collector[v]
         /\ ~collector'[w].writingOff /\ collector'[w].says = collector[w].says \cup said
         /\ collector'[w].on = collector[w].on
<1> DEFINE next == [collector[w] EXCEPT !.todo = Tail(@), !.writingOff = FALSE, !.says = @ \cup said]
<1>1. collector' = [collector EXCEPT ![w] = next]
  BY DEF Handled
<1>2. /\ next \in [on : BOOLEAN, todo : {Tail(collector[w].todo)}, writingOff : BOOLEAN,
                   says : {collector[w].says \cup said}]
      /\ ~next.writingOff /\ next.says = collector[w].says \cup said /\ next.on = collector[w].on
  <2>1. Shape(collector[w])
    BY DEF Shapes
  <2> QED
    BY <2>1 DEF Shape
<1> HIDE DEF next
<1>3. Shape(next)
  <2>1. next.todo = Tail(collector[w].todo)
    BY <1>2
  <2>2. \A x \in next.says : x = <<x[1], x[2]>>
    BY <1>2 DEF Shapes, Shape
  <2> QED
    BY <1>2, <2>1, <2>2 DEF Shape
<1>4. collector' = [v \in Windows |-> IF v = w THEN next ELSE collector[v]]
  BY <1>1 DEF Shapes
<1> QED
  BY <1>2, <1>3, <1>4 DEF Shapes

(* One window ends its round, or is about to write an entry off. *)
LEMMA ClosedShape ==
  ASSUME Shapes, NEW w \in Windows, NEW next, Shape(next), collector' = [collector EXCEPT ![w] = next]
  PROVE  /\ collector' = [v \in Windows |-> collector'[v]]
         /\ \A v \in Windows : Shape(collector'[v])
         /\ \A v \in Windows \ {w} : collector'[v] = collector[v]
         /\ collector'[w] = next
<1>1. collector' = [v \in Windows |-> IF v = w THEN next ELSE collector[v]]
  BY DEF Shapes
<1> QED
  BY <1>1 DEF Shapes

LEMMA VerdictsStepInv == VerdictInv /\ [VerdictsNext]_verdictVars => VerdictInv'
<1> SUFFICES ASSUME VerdictInv, [VerdictsNext]_verdictVars PROVE VerdictInv'
  OBVIOUS
<1>0. Shapes /\ LandedInv /\ LateInv
  BY DEF VerdictInv
<1> USE DEF VerdictInv, LandedInv
(* The Stop hook, the judge and the clock leave the windows alone. *)
<1>1. ASSUME NEW t \in Turns, MarkTurn(t) PROVE VerdictInv'
  BY <1>0, <1>1 DEF MarkTurn, Ready, Shapes, LateInv, Late, SaysVanished, WritesOff, Entry
<1>2. ASSUME NEW t \in Turns, SpawnJudge(t) PROVE VerdictInv'
  BY <1>0, <1>2 DEF SpawnJudge, Shapes, LateInv, Late, SaysVanished, WritesOff, Entry
<1>3. ASSUME NEW t \in Turns, StartFails(t) \/ SayFailed(t) \/ LeaveUnsaid(t) PROVE VerdictInv'
  <2>1. CASE StartFails(t)
    BY <1>0, <2>1 DEF StartFails, Ready, Shapes, LateInv, Late, SaysVanished, WritesOff, Entry
  <2>2. CASE SayFailed(t)
    BY <1>0, <2>2 DEF SayFailed, Shapes, LateInv, Late, SaysVanished, WritesOff, Entry
  <2>3. CASE LeaveUnsaid(t)
    BY <1>0, <2>3 DEF LeaveUnsaid, Shapes, LateInv, Late, SaysVanished, WritesOff, Entry
  <2> QED
    BY <1>3, <2>1, <2>2, <2>3
<1>4. ASSUME NEW t \in Turns, StopHookDies(t) PROVE VerdictInv'
  BY <1>0, <1>4 DEF StopHookDies, Shapes, LateInv, Late, SaysVanished, WritesOff, Entry
<1>5. ASSUME NEW t \in Turns, Settle(t) PROVE VerdictInv'
  BY <1>0, <1>5 DEF Settle, Shapes, LateInv, Late, SaysVanished, WritesOff, Entry
<1>6. ASSUME NEW t \in Turns, JudgeDies(t) PROVE VerdictInv'
  BY <1>0, <1>6 DEF JudgeDies, Shapes, LateInv, Late, SaysVanished, WritesOff, Entry
<1>7. ASSUME NEW t \in Turns, DeadlinePasses(t) PROVE VerdictInv'
  BY <1>0, <1>7 DEF DeadlinePasses, Shapes, LateInv, Late, SaysVanished, WritesOff, Entry
(* A window's hook. *)
<1>8. ASSUME NEW w \in Windows, ListVerdicts(w) PROVE VerdictInv'
  <2> DEFINE todo == [i \in DOMAIN Listed |-> [turn |-> Listed[i], was |-> verdict[Listed[i]]]]
             next == [NoCollector EXCEPT !.on = TRUE, !.todo = todo]
  <2>1. next \in [on : BOOLEAN, todo : {todo}, writingOff : BOOLEAN, says : {{}}] /\ ~next.writingOff
    BY DEF NoCollector
  <2>2. collector' = [collector EXCEPT ![w] = next] /\ UNCHANGED <<turn, verdict, judging, overdue, told, onTime>>
    BY <1>8 DEF ListVerdicts
  <2> HIDE DEF todo, next
  <2>3. Shape(next)
    BY <2>1 DEF Shape
  <2>4. Shapes' /\ (\A v \in Windows \ {w} : collector'[v] = collector[v]) /\ collector'[w] = next
    BY <1>0, <2>2, <2>3, ClosedShape DEF Shapes
  <2> QED
    BY <1>0, <2>1, <2>2, <2>4 DEF LateInv, Late, SaysVanished, WritesOff, Entry
<1>9. ASSUME NEW w \in Windows, Deliver(w) \/ LeaveEntry(w) PROVE VerdictInv'
  <2> DEFINE t == Entry(w).turn
  <2>1. PICK said \in {{}, {<<t, "verdict">>}} : Handled(w, said)
    BY <1>9 DEF Deliver, LeaveEntry
  <2>a. \A x \in said : x = <<x[1], x[2]>>
    BY <2>1
  <2>2. /\ \A u \in Turns : verdict'[u] \in {verdict[u], "none"}
        /\ verdict' \in [Turns -> {"none", "pending", "landed"}]
        /\ UNCHANGED <<turn, judging, overdue, told, onTime>>
    BY <1>0, <1>9 DEF Deliver, LeaveEntry, Shapes
  <2>3. /\ collector' = [v \in Windows |-> collector'[v]]
        /\ \A v \in Windows : Shape(collector'[v])
        /\ \A v \in Windows \ {w} : collector'[v] = collector[v]
        /\ ~collector'[w].writingOff /\ collector'[w].says = collector[w].says \cup said
    BY <1>0, <2>1, <2>a, HandledShape
  <2>4. \A u : <<u, "vanished">> \notin said
    BY <2>1
  <2>5. Shapes'
    BY <1>0, <2>2, <2>3 DEF Shapes
  <2>6. LandedInv'
    BY <1>0, <2>2 DEF Shapes
  <2>7. ASSUME NEW u \in Turns, NEW v \in Windows, (SaysVanished(v, u) \/ WritesOff(v, u))' PROVE Late(u)
    BY <1>0, <2>3, <2>4, <2>7 DEF LateInv, SaysVanished, WritesOff, Entry
  <2> QED
    BY <1>0, <2>2, <2>5, <2>6, <2>7 DEF LateInv, Late
<1>10. ASSUME NEW w \in Windows, GiveUpOn(w) PROVE VerdictInv'
  <2> DEFINE next == [collector[w] EXCEPT !.writingOff = TRUE]
  <2>1. next \in [on : BOOLEAN, todo : {collector[w].todo}, writingOff : BOOLEAN, says : {collector[w].says}]
    <3>1. Shape(collector[w])
      BY <1>0 DEF Shapes
    <3> QED
      BY <3>1 DEF Shape
  <2>2. collector' = [collector EXCEPT ![w] = next] /\ UNCHANGED <<turn, verdict, judging, overdue, told, onTime>>
    BY <1>10 DEF GiveUpOn
  <2>3. \A t \in Turns : Entry(w).turn = t => overdue[t] /\ verdict[t] = "pending"
    BY <1>10 DEF GiveUpOn
  <2> HIDE DEF next
  <2>4. Shape(next)
    BY <1>0, <2>1 DEF Shapes, Shape
  <2>5. Shapes' /\ (\A v \in Windows \ {w} : collector'[v] = collector[v]) /\ collector'[w] = next
    BY <1>0, <2>2, <2>4, ClosedShape DEF Shapes
  <2>6. next.todo = collector[w].todo /\ next.says = collector[w].says
    BY <2>1
  <2> QED
    BY <1>0, <2>2, <2>3, <2>5, <2>6 DEF LateInv, Late, SaysVanished, WritesOff, Entry
<1>11. ASSUME NEW w \in Windows, WriteOff(w) PROVE VerdictInv'
  <2> DEFINE t == Entry(w).turn
  <2>1. Handled(w, {<<t, "vanished">>})
    BY <1>11 DEF WriteOff
  <2>a. \A x \in {<<t, "vanished">>} : x = <<x[1], x[2]>>
    OBVIOUS
  <2>2. /\ \A u \in Turns : verdict'[u] \in {verdict[u], "none"}
        /\ verdict' \in [Turns -> {"none", "pending", "landed"}]
        /\ UNCHANGED <<turn, judging, overdue, told, onTime>>
    BY <1>0, <1>11 DEF WriteOff, Shapes
  <2>3. /\ collector' = [v \in Windows |-> collector'[v]]
        /\ \A v \in Windows : Shape(collector'[v])
        /\ \A v \in Windows \ {w} : collector'[v] = collector[v]
        /\ ~collector'[w].writingOff /\ collector'[w].says = collector[w].says \cup {<<t, "vanished">>}
    BY <1>0, <2>1, <2>a, HandledShape
  <2>4. \A u \in Turns : u = t => Late(u)
    BY <1>0, <1>11 DEF WriteOff, LateInv, WritesOff
  <2>5. Shapes'
    BY <1>0, <2>2, <2>3 DEF Shapes
  <2>6. LandedInv'
    BY <1>0, <2>2 DEF Shapes
  <2>7. ASSUME NEW u \in Turns, NEW v \in Windows, (SaysVanished(v, u) \/ WritesOff(v, u))' PROVE Late(u)
    <3>1. CASE v = w
      <4>1. u = t \/ SaysVanished(w, u)
        BY <2>3, <2>7, <3>1 DEF SaysVanished, WritesOff
      <4> QED
        BY <1>0, <2>4, <4>1 DEF LateInv
    <3>2. CASE v # w
      BY <1>0, <2>3, <2>7, <3>2 DEF LateInv, SaysVanished, WritesOff, Entry
    <3> QED
      BY <3>1, <3>2
  <2> QED
    BY <1>0, <2>2, <2>5, <2>6, <2>7 DEF LateInv, Late
<1>12. ASSUME NEW w \in Windows, Announce(w) \/ CollectorDies(w) PROVE VerdictInv'
  <2>1. collector' = [collector EXCEPT ![w] = NoCollector] /\ UNCHANGED <<turn, verdict, judging, overdue, onTime>>
    BY <1>12 DEF Announce, CollectorDies
  <2>2. Shape(NoCollector)
    BY DEF Shape, NoCollector
  <2>3. /\ collector' = [v \in Windows |-> collector'[v]] /\ \A v \in Windows : Shape(collector'[v])
        /\ \A v \in Windows \ {w} : collector'[v] = collector[v]
        /\ collector'[w] = NoCollector
    BY <1>0, <2>1, <2>2, ClosedShape
  <2>4. /\ told' = [t \in Turns |-> told'[t]]
        /\ \A t \in Turns : "vanished" \in told'[t] => "vanished" \in told[t] \/ SaysVanished(w, t)
    <3>1. CASE Announce(w)
      <4>1. told' = [t \in Turns |-> told[t] \cup {x[2] : x \in {y \in collector[w].says : y[1] = t}}]
        BY <3>1 DEF Announce
      <4>2. ASSUME NEW t \in Turns, NEW x \in collector[w].says, x[1] = t, x[2] = "vanished" PROVE SaysVanished(w, t)
        BY <1>0, <4>2 DEF Shapes, Shape, SaysVanished
      <4>3. ASSUME NEW t \in Turns, "vanished" \in told'[t], "vanished" \notin told[t] PROVE SaysVanished(w, t)
        <5>1. PICK x \in collector[w].says : x[1] = t /\ x[2] = "vanished"
          BY <4>1, <4>3
        <5> QED
          BY <4>2, <5>1
      <4> QED
        BY <4>1, <4>3
    <3>2. CASE CollectorDies(w)
      BY <1>0, <3>2 DEF CollectorDies, Shapes
    <3> QED
      BY <1>12, <3>1, <3>2
  <2>5. Shapes'
    BY <1>0, <2>1, <2>3, <2>4 DEF Shapes
  <2> QED
    BY <1>0, <2>1, <2>3, <2>4, <2>5 DEF LateInv, Late, SaysVanished, WritesOff, Entry, NoCollector
<1>13. CASE UNCHANGED verdictVars
  BY <1>0, <1>13 DEF verdictVars, Shapes, LateInv, Late, SaysVanished, WritesOff, Entry
<1> QED
  BY <1>1, <1>2, <1>3, <1>4, <1>5, <1>6, <1>7, <1>8, <1>9, <1>10, <1>11, <1>12, <1>13
     DEF VerdictsNext, StopHookRuns, Collect

\* A verdict that landed before the deadline is never announced as a judge
\* that did not come back, and never thrown away, for any number of windows.
THEOREM OnTimeNotWrittenOffHolds == VerdictsSpec => []OnTimeNotWrittenOff
<1>1. VerdictInv => OnTimeNotWrittenOff
  BY DEF VerdictInv, Shapes, LateInv, Late, SaysVanished, WritesOff, OnTimeNotWrittenOff
<1> QED
  BY <1>1, VerdictsInitInv, VerdictsStepInv, PTL DEF VerdictsSpec

-----------------------------------------------------------------------------
(* No turn drops out of sight                                              *)

TakenUp(t) == \E w \in Windows : \E what \in {"verdict", "vanished"} : <<t, what>> \in collector[w].says
Kept(t) == turn[t] \in {"new", "failed"} \/ verdict[t] # "none" \/ told[t] # {} \/ t \in unsaid \/ TakenUp(t)

(* What a window has taken up it still has to say. *)
Open(w) == /\ collector[w].writingOff \/ collector[w].says # {} => collector[w].on
           /\ \A x \in collector[w].says : x[2] \in {"verdict", "vanished"}
KeptInv == VerdictInv /\ (\A t \in Turns : Kept(t)) /\ (\A w \in Windows : Open(w))

LEMMA KeptInitInv == VerdictsInit => KeptInv
  BY VerdictsInitInv DEF VerdictsInit, KeptInv, Kept, Open, NoCollector

(* A step that leaves the windows alone, and no file gone that is not told of. *)
LEMMA NoWindowMoves ==
  ASSUME KeptInv, VerdictInv', UNCHANGED <<collector, unsaid>>,
         \A t \in Turns : \/ verdict'[t] # "none" \/ told'[t] # {}
                          \/ verdict'[t] = verdict[t] /\ told'[t] = told[t] /\ (turn'[t] = turn[t] \/ turn[t] \notin {"new", "failed"})
                          \/ turn'[t] = "failed"
  PROVE  KeptInv'
  BY DEF KeptInv, Kept, TakenUp, Open

(* An entry is handled: a file that goes is taken up. *)
LEMMA WindowHandles ==
  ASSUME KeptInv, VerdictInv', NEW w \in Windows, collector[w].on, NEW said,
         said \in {{}, {<<Entry(w).turn, "verdict">>}, {<<Entry(w).turn, "vanished">>}}, Handled(w, said),
         \A t \in Turns : verdict'[t] = verdict[t] \/ (t = Entry(w).turn /\ said # {}),
         UNCHANGED <<turn, told, unsaid>>
  PROVE  KeptInv'
<1>1. Shapes /\ \A x \in said : x = <<x[1], x[2]>> /\ x[2] \in {"verdict", "vanished"}
  BY DEF KeptInv, VerdictInv
<1>2. /\ \A v \in Windows \ {w} : collector'[v] = collector[v]
      /\ collector'[w].says = collector[w].says \cup said /\ collector'[w].on
  BY <1>1, HandledShape
<1>3. ASSUME NEW t \in Turns, TakenUp(t) PROVE TakenUp(t)'
  BY <1>2, <1>3 DEF TakenUp
<1>4. ASSUME NEW t \in Turns, t = Entry(w).turn, said # {} PROVE TakenUp(t)'
  BY <1>2, <1>4 DEF TakenUp
<1>5. ASSUME NEW t \in Turns PROVE Kept(t)'
  BY <1>3, <1>4, <1>5 DEF KeptInv, Kept
<1>6. ASSUME NEW v \in Windows PROVE Open(v)'
  BY <1>1, <1>2, <1>6 DEF KeptInv, Open
<1> QED
  BY <1>5, <1>6 DEF KeptInv

LEMMA KeptStepInv == KeptInv /\ [VerdictsNext]_verdictVars => KeptInv'
<1> SUFFICES ASSUME KeptInv, [VerdictsNext]_verdictVars PROVE KeptInv'
  OBVIOUS
<1>0. /\ Shapes /\ VerdictInv' /\ LandedInv
      /\ (\A t \in Turns : Kept(t)) /\ (\A w \in Windows : Open(w))
  BY VerdictsStepInv DEF KeptInv, VerdictInv
<1>1. ASSUME NEW t \in Turns, MarkTurn(t) PROVE KeptInv'
  BY <1>0, <1>1, NoWindowMoves DEF MarkTurn, Shapes
<1>2. ASSUME NEW t \in Turns, SpawnJudge(t) PROVE KeptInv'
  BY <1>0, <1>2, NoWindowMoves DEF SpawnJudge, Shapes
<1>3. ASSUME NEW t \in Turns, StartFails(t) \/ SayFailed(t) PROVE KeptInv'
  <2>1. CASE StartFails(t)
    BY <1>0, <2>1, NoWindowMoves DEF StartFails, Shapes
  <2>2. CASE SayFailed(t)
    BY <1>0, <2>2, NoWindowMoves DEF SayFailed, Shapes
  <2> QED
    BY <1>3, <2>1, <2>2
<1>11. ASSUME NEW t \in Turns, LeaveUnsaid(t) \/ StopHookDies(t) PROVE KeptInv'
  <2>1. /\ UNCHANGED <<verdict, collector, told>> /\ unsaid \subseteq unsaid'
        /\ turn[t] = "failed" => t \in unsaid'
        /\ turn[t] # "new" /\ \A u \in Turns \ {t} : turn'[u] = turn[u]
    BY <1>0, <1>11 DEF LeaveUnsaid, StopHookDies, Shapes
  <2>2. ASSUME NEW u \in Turns PROVE Kept(u)'
    BY <1>0, <2>1, <2>2 DEF Kept, TakenUp
  <2> QED
    BY <1>0, <2>1, <2>2 DEF KeptInv, Open
<1>4. ASSUME NEW t \in Turns, Settle(t) \/ JudgeDies(t) \/ DeadlinePasses(t) PROVE KeptInv'
  BY <1>0, <1>4, NoWindowMoves DEF Settle, JudgeDies, DeadlinePasses, Shapes
<1>5. ASSUME NEW w \in Windows, ListVerdicts(w) PROVE KeptInv'
  <2> DEFINE todo == [i \in DOMAIN Listed |-> [turn |-> Listed[i], was |-> verdict[Listed[i]]]]
             next == [NoCollector EXCEPT !.on = TRUE, !.todo = todo]
  <2>1. /\ collector' = [collector EXCEPT ![w] = next] /\ UNCHANGED <<turn, verdict, told, unsaid>>
        /\ collector[w].says = {}
    BY <1>0, <1>5 DEF ListVerdicts, Open
  <2>2. next.on /\ next.says = {}
    BY DEF NoCollector
  <2> HIDE DEF todo, next
  <2>3. collector'[w] = next /\ \A v \in Windows \ {w} : collector'[v] = collector[v]
    BY <1>0, <2>1 DEF Shapes
  <2>4. \A t \in Turns : TakenUp(t) => TakenUp(t)'
    BY <2>1, <2>3 DEF TakenUp
  <2> QED
    BY <1>0, <2>1, <2>2, <2>3, <2>4 DEF KeptInv, Kept, Open
<1>6. ASSUME NEW w \in Windows, Deliver(w) \/ LeaveEntry(w) PROVE KeptInv'
  <2> DEFINE t == Entry(w).turn
  <2>1. CASE Deliver(w)
    <3>1. \A u \in Turns : verdict'[u] = verdict[u] \/ u = t
      BY <1>0, <2>1 DEF Deliver, Shapes
    <3>2. Handled(w, {<<t, "verdict">>}) /\ collector[w].on /\ UNCHANGED <<turn, told, unsaid>>
      BY <2>1 DEF Deliver, Reviewing
    <3> QED
      BY <1>0, <3>1, <3>2, WindowHandles
  <2>2. CASE LeaveEntry(w)
    <3>1. Handled(w, {}) /\ collector[w].on /\ UNCHANGED <<turn, verdict, told, unsaid>>
      BY <2>2 DEF LeaveEntry, Reviewing
    <3> QED
      BY <1>0, <3>1, WindowHandles
  <2> QED
    BY <1>6, <2>1, <2>2
<1>7. ASSUME NEW w \in Windows, WriteOff(w) PROVE KeptInv'
  <2> DEFINE t == Entry(w).turn
  <2>1. \A u \in Turns : verdict'[u] = verdict[u] \/ u = t
    BY <1>0, <1>7 DEF WriteOff, Shapes
  <2>2. Handled(w, {<<t, "vanished">>}) /\ collector[w].on /\ UNCHANGED <<turn, told, unsaid>>
    BY <1>0, <1>7 DEF WriteOff, Open
  <2> QED
    BY <1>0, <2>1, <2>2, WindowHandles
<1>8. ASSUME NEW w \in Windows, GiveUpOn(w) PROVE KeptInv'
  <2> DEFINE next == [collector[w] EXCEPT !.writingOff = TRUE]
  <2>1. /\ collector' = [collector EXCEPT ![w] = next] /\ collector[w].on
        /\ UNCHANGED <<turn, verdict, told, unsaid>>
    BY <1>8 DEF GiveUpOn, Reviewing
  <2>2. next.on = collector[w].on /\ next.says = collector[w].says
    BY <1>0 DEF Shapes, Shape
  <2> HIDE DEF next
  <2>3. collector'[w] = next /\ \A v \in Windows \ {w} : collector'[v] = collector[v]
    BY <1>0, <2>1 DEF Shapes
  <2>4. \A t \in Turns : TakenUp(t) => TakenUp(t)'
    BY <2>2, <2>3 DEF TakenUp
  <2>5. \A t \in Turns : Kept(t)'
    BY <1>0, <2>1, <2>4 DEF Kept
  <2>6. ASSUME NEW v \in Windows PROVE Open(v)'
    <3>1. CASE v = w
      <4>1. Open(w) /\ collector'[w].on /\ collector'[w].says = collector[w].says
        BY <1>0, <2>1, <2>2, <2>3
      <4> QED
        BY <3>1, <4>1 DEF Open
    <3>2. CASE v # w
      <4>1. Open(v) /\ collector'[v] = collector[v]
        BY <1>0, <2>3, <3>2
      <4> QED
        BY <4>1 DEF Open
    <3> QED
      BY <3>1, <3>2
  <2> QED
    BY <1>0, <2>5, <2>6 DEF KeptInv
<1>9. ASSUME NEW w \in Windows, Announce(w) \/ CollectorDies(w) PROVE KeptInv'
  <2>1. /\ collector' = [collector EXCEPT ![w] = NoCollector] /\ UNCHANGED <<turn, verdict>>
        /\ unsaid \subseteq unsaid' /\ \A t \in Turns : told[t] \subseteq told'[t]
    BY <1>0, <1>9 DEF Announce, CollectorDies, Shapes
  <2>2. /\ collector'[w] = NoCollector /\ \A v \in Windows \ {w} : collector'[v] = collector[v]
    BY <1>0, <2>1 DEF Shapes
  <2>3. ASSUME NEW t \in Turns, NEW what \in {"verdict", "vanished"}, <<t, what>> \in collector[w].says
        PROVE  told'[t] # {} \/ t \in unsaid'
    <3>1. CASE Announce(w)
      <4>1. what \in told'[t]
        BY <2>3, <3>1 DEF Announce
      <4> QED
        BY <4>1
    <3>2. CASE CollectorDies(w)
      BY <2>3, <3>2 DEF CollectorDies
    <3> QED
      BY <1>9, <3>1, <3>2
  <2>4. ASSUME NEW t \in Turns PROVE Kept(t)'
    BY <1>0, <2>1, <2>2, <2>3 DEF Kept, TakenUp
  <2>5. \A v \in Windows : Open(v)'
    BY <1>0, <2>2 DEF Open, NoCollector
  <2> QED
    BY <1>0, <2>4, <2>5 DEF KeptInv
<1>10. CASE UNCHANGED verdictVars
  BY <1>0, <1>10 DEF verdictVars, KeptInv, Kept, TakenUp, Open
<1> QED
  BY <1>1, <1>2, <1>3, <1>4, <1>5, <1>6, <1>7, <1>8, <1>9, <1>10, <1>11 DEF VerdictsNext, StopHookRuns, Collect

\* For any number of turns and windows: a turn that was to be judged has its
\* file, or what came of it was taken up for the user.
THEOREM TurnsKeptHolds == VerdictsSpec => []TurnsKept
<1>1. KeptInv => TurnsKept
  BY DEF KeptInv, Kept, TakenUp, TurnsKept
<1> QED
  BY <1>1, KeptInitInv, KeptStepInv, PTL DEF VerdictsSpec
=============================================================================
