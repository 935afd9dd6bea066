--------------------------- MODULE SchedHartsProofs ---------------------------
(***************************************************************************)
(* Proofs about SchedHarts for every number of harts, every set of user    *)
(* tasks and every bound: the wake-ups of the multi-core build lose no     *)
(* task.                                                                   *)
(*                                                                         *)
(* A task that a hart executes is left out of ReadyIsPlaced and of         *)
(* BlockedIsPlaced, so neither says what holds at the moment the hart      *)
(* switches away.  The inductive invariant says at which places a hart may *)
(* be while its task is Ready, or Blocked, and nowhere else to be found.   *)
(***************************************************************************)
EXTENDS SchedHarts, TLAPS

USE ZenonT(20)

-----------------------------------------------------------------------------
(* Queues.                                                                 *)

LEMMA Pushed ==
  ASSUME NEW S, NEW s \in Seq(S), NEW x \in S
  PROVE  /\ Append(s, x) \in Seq(S)
         /\ Elems(s) \cup {x} \subseteq Elems(Append(s, x))
<1> DEFINE a == Append(s, x)
<1>1. /\ a \in Seq(S)
      /\ Len(a) = Len(s) + 1
      /\ Len(s) \in Nat
      /\ \A i \in 1..Len(s) : a[i] = s[i]
      /\ a[Len(s) + 1] = x
  BY SMTT(30)
<1> HIDE DEF a
<1>2. Elems(s) \cup {x} \subseteq Elems(a)
  BY <1>1, SMTT(30) DEF Elems
<1> QED
  BY <1>1, <1>2 DEF a

LEMMA Popped ==
  ASSUME NEW S, NEW s \in Seq(S), s # <<>>
  PROVE  /\ Tail(s) \in Seq(S)
         /\ Head(s) \in S
         /\ Elems(s) \subseteq Elems(Tail(s)) \cup {Head(s)}
<1> DEFINE t == Tail(s)
<1>1. /\ t \in Seq(S)
      /\ Len(s) \in Nat
      /\ Len(s) >= 1
      /\ Len(t) = Len(s) - 1
      /\ \A i \in 1..Len(t) : t[i] = s[i + 1]
      /\ Head(s) = s[1]
      /\ s[1] \in S
  BY SMTT(30)
<1> HIDE DEF t
<1>2. ASSUME NEW i \in 1..Len(s), i # 1 PROVE s[i] \in Elems(t)
  <2>1. i - 1 \in 1..Len(t) /\ t[i - 1] = s[(i - 1) + 1] /\ (i - 1) + 1 = i
    BY <1>1, <1>2, SMTT(30)
  <2> QED
    BY <2>1 DEF Elems
<1> QED
  BY <1>1, <1>2 DEF t, Elems

LEMMA Joined ==
  ASSUME NEW S, NEW s \in Seq(S), NEW t \in Seq(S)
  PROVE  /\ s \o t \in Seq(S)
         /\ Elems(s) \cup Elems(t) \subseteq Elems(s \o t)
<1> DEFINE c == s \o t
<1>1. /\ c \in Seq(S)
      /\ Len(s) \in Nat /\ Len(t) \in Nat
      /\ Len(c) = Len(s) + Len(t)
      /\ \A i \in 1..Len(s) : c[i] = s[i]
      /\ \A i \in 1..Len(t) : c[Len(s) + i] = t[i]
  BY SMTT(30)
<1> HIDE DEF c
<1>2. ASSUME NEW i \in 1..Len(s) PROVE s[i] \in Elems(c)
  <2>1. i \in 1..Len(c)
    BY <1>1, SMTT(30)
  <2> QED
    BY <1>1, <2>1 DEF Elems
<1>3. ASSUME NEW i \in 1..Len(t) PROVE t[i] \in Elems(c)
  <2>1. Len(s) + i \in 1..Len(c)
    BY <1>1, SMTT(30)
  <2> QED
    BY <1>1, <2>1 DEF Elems
<1> QED
  BY <1>1, <1>2, <1>3 DEF c, Elems

(* What schedule() leaves behind the entry it takes.                       *)
LEMMA Remainder ==
  ASSUME NEW S, NEW s \in Seq(S), NEW k \in 1..Len(s)
  PROVE  /\ SubSeq(s, k + 1, Len(s)) \in Seq(S)
         /\ \A i \in 1..Len(s) : i > k => s[i] \in Elems(SubSeq(s, k + 1, Len(s)))
<1> DEFINE r == SubSeq(s, k + 1, Len(s))
<1>1. Len(s) \in Nat
  BY SMTT(30)
<1>2. /\ r \in Seq(S)
      /\ Len(r) = Len(s) - k
      /\ \A i \in 1..Len(r) : r[i] = s[k + i]
  BY <1>1, SMTT(30)
<1> HIDE DEF r
<1>3. ASSUME NEW i \in 1..Len(s), i > k PROVE s[i] \in Elems(r)
  <2>1. i - k \in 1..Len(r) /\ r[i - k] = s[k + (i - k)] /\ k + (i - k) = i
    BY <1>1, <1>2, <1>3, SMTT(30)
  <2> QED
    BY <2>1 DEF Elems
<1> QED
  BY <1>2, <1>3 DEF r

-----------------------------------------------------------------------------
(* The inductive invariant.                                                *)

States == {"New", "Ready", "Running", "Blocked", "Sleeping", "Zombie", "Exited"}
Waking == {"ready", "enqueue"}
Places == Waking \cup {"schedule", "switch", "run", "exit", "block", "wait", "panic", "read",
                       "register"}

TypeOK ==
  /\ on \in [Harts -> Tasks] /\ at \in [Harts -> Places]
  /\ who \in [Harts -> Tasks \cup {None}] /\ current \in [Harts -> Tasks]
  /\ state \in [Tasks -> States] /\ resume \in [Tasks -> {"run", "read", "wait"}]
  /\ rq \in [Harts -> Seq(Tasks)] /\ sleeping \in [Harts -> SUBSET Tasks]
  /\ last \in Harts /\ irqWait \in Seq(Tasks) /\ waiting \subseteq Tasks

(* A hart has a task to wake exactly while it is at one of the two writes  *)
(* by which it does so.                                                    *)
WakesOne ==
  \A h \in Harts : IF at[h] \in Waking THEN who[h] \in Tasks ELSE who[h] = None

(* Where a Ready task is: schedule() has queued the task it takes from the *)
(* hart by the time the hart is about to switch.                           *)
ReadyHome(t) ==
  \/ \E h \in Harts : t \in Elems(rq[h])
  \/ \E h \in Harts : who[h] = t
  \/ \E h \in Harts : t = Idle(h)
  \/ \E h \in Harts : on[h] = t /\ at[h] # "switch"

(* Where a Blocked task is: on its hart only until it is registered, and   *)
(* taken out of the registration only by a hart that will make it Ready.   *)
BlockedHome(t) ==
  \/ t \in waiting
  \/ t \in Elems(irqWait)
  \/ \E h \in Harts : who[h] = t /\ at[h] = "ready"
  \/ \E h \in Harts : on[h] = t /\ at[h] \in {"block", "register"}

HInv ==
  /\ TypeOK
  /\ WakesOne
  /\ \A t \in Tasks : state[t] = "Ready" => ReadyHome(t)
  /\ \A t \in Tasks : state[t] = "Blocked" => BlockedHome(t)

LEMMA HartsFacts ==
  /\ CORE_COUNT \in Nat \ {0} /\ 0 \in Harts /\ None \notin Tasks
  /\ \A h \in Harts : Idle(h) \in Tasks /\ Reaper(h) \in Tasks
<1>1. CORE_COUNT \in Nat \ {0} /\ None \notin Tasks
  BY SchedHartsAssumption
<1>2. 0 \in 0..(CORE_COUNT - 1)
  BY <1>1, SMTT(30)
<1> QED
  BY <1>1, <1>2 DEF Harts, Tasks, Kernel

LEMMA NextHartType ==
  ASSUME last \in Harts
  PROVE  NextHart \in Harts
<1>1. CASE last + 1 >= CORE_COUNT
  BY <1>1, HartsFacts DEF NextHart
<1>2. CASE ~(last + 1 >= CORE_COUNT)
  <2>1. last + 1 \in 0..(CORE_COUNT - 1)
    BY <1>2, HartsFacts, SMTT(30) DEF Harts
  <2> QED
    BY <1>2, <2>1 DEF NextHart, Harts
<1> QED
  BY <1>1, <1>2

LEMMA InitHInv == Init => HInv
<1> SUFFICES ASSUME Init PROVE HInv
  OBVIOUS
<1>1. PICK first \in Harts :
        /\ last = first
        /\ rq = [h \in Harts |-> IF h = first THEN <<Reaper(h), Shell>> ELSE <<Reaper(h)>>]
  <2>1. CORE_COUNT # 1 => 1 \in Harts
    BY HartsFacts, SMTT(30) DEF Harts
  <2> QED
    BY <2>1, HartsFacts DEF Init
<1>2. Shell \in Users /\ Users \subseteq Tasks /\ Kernel \subseteq Tasks
  BY SchedHartsAssumption DEF Tasks
<1>3. \A h \in Harts : <<Reaper(h), Shell>> \in Seq(Tasks) /\ <<Reaper(h)>> \in Seq(Tasks)
  BY <1>2, HartsFacts, SMTT(30)
<1>4. rq \in [Harts -> Seq(Tasks)]
  BY <1>1, <1>3
<1>5. state \in [Tasks -> States]
  BY DEF Init, States
<1>6. at \in [Harts -> Places] /\ \A h \in Harts : at[h] = "schedule"
  BY DEF Init, Places
<1>7. irqWait \in Seq(Tasks)
  BY SMTT(30) DEF Init
<1>8. TypeOK
  BY <1>1, <1>4, <1>5, <1>6, <1>7, HartsFacts DEF Init, TypeOK
<1>9. \A h \in Harts : Reaper(h) \in Elems(rq[h])
  <2>1. ASSUME NEW h \in Harts PROVE Reaper(h) \in Elems(rq[h])
    <3>1. PICK r, s : r = Reaper(h) /\ s = Shell
      OBVIOUS
    <3>2. r \in Elems(<<r, s>>) /\ r \in Elems(<<r>>)
      BY SMTT(30) DEF Elems
    <3> QED
      BY <1>1, <3>1, <3>2
  <2> QED
    BY <2>1
<1>10. Shell \in Elems(rq[first])
  <2>1. PICK r, s : r = Reaper(first) /\ s = Shell
    OBVIOUS
  <2>2. s \in Elems(<<r, s>>)
    BY SMTT(30) DEF Elems
  <2> QED
    BY <1>1, <2>1, <2>2
<1>11. ASSUME NEW t \in Tasks, state[t] = "Ready" PROVE ReadyHome(t)
  <2>1. t \in Kernel \cup {Shell}
    BY <1>11 DEF Init
  <2> QED
    BY <1>9, <1>10, <2>1 DEF Kernel, ReadyHome
<1>12. \A t \in Tasks : state[t] # "Blocked"
  BY DEF Init
<1>13. WakesOne
  BY DEF Init, WakesOne, Waking
<1> QED
  BY <1>8, <1>11, <1>12, <1>13 DEF HInv

-----------------------------------------------------------------------------
(* The steps.                                                              *)

(* Most actions move one hart, wake nobody and queue or register tasks     *)
(* without taking any out: what they have to say is where the tasks they   *)
(* make Ready or Blocked are.                                              *)
LEMMA Moved ==
  ASSUME HInv, TypeOK', NEW h \in Harts, at[h] \notin Waking \cup {"switch"},
         at'[h] \notin Waking \cup {"switch"}, \A g \in Harts \ {h} : at'[g] = at[g],
         UNCHANGED <<on, who>>,
         \A g \in Harts : Elems(rq[g]) \subseteq Elems(rq'[g]),
         waiting \subseteq waiting', Elems(irqWait) \subseteq Elems(irqWait'),
         \A t \in Tasks : state'[t] = "Ready" =>
           state[t] = "Ready" \/ \E g \in Harts : t \in Elems(rq'[g]),
         \A t \in Tasks : state'[t] = "Blocked" =>
           \/ state[t] = "Blocked" /\ (on[h] = t => at[h] \notin {"block", "register"})
           \/ on[h] = t /\ at'[h] \in {"block", "register"}
           \/ t \in waiting' \cup Elems(irqWait')
  PROVE  HInv'
<1>1. WakesOne'
  BY DEF HInv, WakesOne
<1>2. ASSUME NEW t \in Tasks, ReadyHome(t) PROVE ReadyHome(t)'
  BY <1>2 DEF ReadyHome
<1>3. ASSUME NEW t \in Tasks, BlockedHome(t), on[h] = t => at[h] \notin {"block", "register"}
      PROVE  BlockedHome(t)'
  BY <1>3 DEF BlockedHome, Waking
<1>4. ASSUME NEW t \in Tasks, state'[t] = "Ready" PROVE ReadyHome(t)'
  BY <1>2, <1>4 DEF HInv, ReadyHome
<1>5. ASSUME NEW t \in Tasks, state'[t] = "Blocked" PROVE BlockedHome(t)'
  <2>1. CASE state[t] = "Blocked" /\ (on[h] = t => at[h] \notin {"block", "register"})
    BY <1>3, <2>1 DEF HInv
  <2>2. CASE on[h] = t /\ at'[h] \in {"block", "register"}
    BY <2>2 DEF BlockedHome
  <2>3. CASE t \in waiting' \cup Elems(irqWait')
    BY <2>3 DEF BlockedHome
  <2> QED
    BY <1>5, <2>1, <2>2, <2>3
<1> QED
  BY <1>1, <1>4, <1>5 DEF HInv

(* What a hart at a place tells about its task.                            *)
LEMMA HartFacts ==
  ASSUME HInv, NEW h \in Harts
  PROVE  /\ on[h] \in Tasks /\ state[on[h]] \in States /\ at[h] \in Places
         /\ rq[h] \in Seq(Tasks) /\ current[h] \in Tasks
BY DEF HInv, TypeOK

LEMMA StateKept ==
  ASSUME TypeOK, NEW t, NEW v \in States
  PROVE  /\ [state EXCEPT ![t] = v] \in [Tasks -> States]
         /\ \A u \in Tasks : [state EXCEPT ![t] = v][u] = IF u = t THEN v ELSE state[u]
BY DEF TypeOK

LEMMA PlaceKept ==
  ASSUME TypeOK, NEW h \in Harts, NEW p \in Places, Goto(h, p)
  PROVE  /\ at' \in [Harts -> Places] /\ at'[h] = p
         /\ \A g \in Harts \ {h} : at'[g] = at[g]
BY DEF TypeOK, Goto

(* Queueing a task on the next hart.                                       *)
LEMMA Queued ==
  ASSUME TypeOK, NEW t \in Tasks, rq' = [rq EXCEPT ![NextHart] = Append(@, t)]
  PROVE  /\ rq' \in [Harts -> Seq(Tasks)]
         /\ \A g \in Harts : Elems(rq[g]) \subseteq Elems(rq'[g])
         /\ \E g \in Harts : t \in Elems(rq'[g])
<1>1. PICK n \in Harts : n = NextHart
  BY NextHartType DEF TypeOK
<1>2. rq[n] \in Seq(Tasks) /\ rq \in [Harts -> Seq(Tasks)]
  BY DEF TypeOK
<1>3. /\ Append(rq[n], t) \in Seq(Tasks)
      /\ Elems(rq[n]) \cup {t} \subseteq Elems(Append(rq[n], t))
  BY <1>2, Pushed
<1>4. rq' = [rq EXCEPT ![n] = Append(rq[n], t)]
  BY <1>1
<1>5. rq'[n] = Append(rq[n], t) /\ \A g \in Harts \ {n} : rq'[g] = rq[g]
  BY <1>2, <1>4
<1>6. rq' \in [Harts -> Seq(Tasks)]
  BY <1>2, <1>3, <1>4
<1> QED
  BY <1>3, <1>5, <1>6

LEMMA CreateStep ==
  ASSUME HInv, NEW h \in Harts, NEW c \in Users, Create(h, c)
  PROVE  HInv'
<1>1. at[h] = "run" /\ c \in Tasks /\ TypeOK
  BY DEF Create, InUserMode, At, Tasks, HInv
<1>2. /\ UNCHANGED <<on, at, who, current, resume, sleeping, irqWait, waiting>>
      /\ state' = [state EXCEPT ![c] = "Ready"] /\ last' = NextHart
      /\ rq' = [rq EXCEPT ![NextHart] = Append(@, c)]
  BY DEF Create, hartVars, queueVars
<1>3. /\ rq' \in [Harts -> Seq(Tasks)]
      /\ \A g \in Harts : Elems(rq[g]) \subseteq Elems(rq'[g])
      /\ \E g \in Harts : c \in Elems(rq'[g])
  BY <1>1, <1>2, Queued
<1>4. "Ready" \in States
  BY DEF States
<1>5. state' \in [Tasks -> States] /\ \A u \in Tasks : state'[u] = IF u = c THEN "Ready" ELSE state[u]
  BY <1>1, <1>2, <1>4, StateKept
<1>6. TypeOK'
  BY <1>1, <1>2, <1>3, <1>5, NextHartType DEF TypeOK
<1> QED
  BY <1>1, <1>2, <1>3, <1>5, <1>6, Moved DEF Waking

(* The actions that move the hart and change the state of its task only.   *)
LEMMA OwnTaskStep ==
  ASSUME HInv, NEW h \in Harts, at[h] \notin Waking \cup {"switch"},
         NEW p \in Places \ (Waking \cup {"switch"}), Goto(h, p),
         UNCHANGED <<on, who, current, rq, last, irqWait>>,
         resume' \in [Tasks -> {"run", "read", "wait"}],
         sleeping' \in [Harts -> SUBSET Tasks],
         waiting \subseteq waiting', waiting' \subseteq Tasks,
         NEW v \in States \ {"Ready"}, state' = [state EXCEPT ![on[h]] = v],
         v = "Blocked" => p \in {"block", "register"} \/ on[h] \in waiting'
  PROVE  HInv'
<1>1. TypeOK
  BY DEF HInv
<1>2. state' \in [Tasks -> States] /\ \A u \in Tasks : state'[u] = IF u = on[h] THEN v ELSE state[u]
  <2>1. PICK t : t = on[h]
    OBVIOUS
  <2>2. /\ [state EXCEPT ![t] = v] \in [Tasks -> States]
        /\ \A u \in Tasks : [state EXCEPT ![t] = v][u] = IF u = t THEN v ELSE state[u]
    BY <1>1, StateKept
  <2> QED
    BY <2>1, <2>2
<1>3. at' \in [Harts -> Places] /\ at'[h] = p /\ \A g \in Harts \ {h} : at'[g] = at[g]
  BY <1>1, PlaceKept
<1>4. TypeOK'
  BY <1>1, <1>2, <1>3 DEF TypeOK
<1>5. \A t \in Tasks : state'[t] = "Ready" => state[t] = "Ready"
  BY <1>2
<1>6. ASSUME NEW t \in Tasks, state'[t] = "Blocked"
      PROVE  \/ state[t] = "Blocked" /\ (on[h] = t => at[h] \notin {"block", "register"})
             \/ on[h] = t /\ at'[h] \in {"block", "register"}
             \/ t \in waiting' \cup Elems(irqWait')
  BY <1>2, <1>3, <1>6
<1>7. at'[h] \notin Waking \cup {"switch"} /\ \A g \in Harts : Elems(rq[g]) \subseteq Elems(rq'[g])
  BY <1>3
<1>8. Elems(irqWait) \subseteq Elems(irqWait')
  OBVIOUS
<1> QED
  BY <1>3, <1>4, <1>5, <1>6, <1>7, <1>8, Moved

LEMMA ExitStep ==
  ASSUME HInv, NEW h \in Harts, Exit(h)
  PROVE  HInv'
<1>1. at[h] \notin Waking \cup {"switch"}
  BY DEF Exit, InUserMode, At, Waking
<1>2. /\ UNCHANGED <<on, who, current, rq, last, irqWait, resume, sleeping, waiting>>
      /\ state' = [state EXCEPT ![on[h]] = "Zombie"] /\ Goto(h, "exit")
  BY DEF Exit, coreVars, queueVars, MarkDead
<1>3. "Zombie" \in States \ {"Ready"} /\ "exit" \in Places \ (Waking \cup {"switch"})
  BY DEF States, Places, Waking
<1> QED
  BY <1>1, <1>2, <1>3, OwnTaskStep DEF HInv, TypeOK

LEMMA WaitStep ==
  ASSUME HInv, NEW h \in Harts, Wait(h)
  PROVE  HInv'
<1>1. at[h] \notin Waking \cup {"switch"}
  BY DEF Wait, InUserMode, At, Waking
<1>2. /\ UNCHANGED <<on, who, current, rq, last, irqWait, resume, sleeping, waiting>>
      /\ state' = [state EXCEPT ![on[h]] = "Blocked"] /\ Goto(h, "block")
  BY DEF Wait, coreVars, queueVars
<1>3. "Blocked" \in States \ {"Ready"} /\ "block" \in Places \ (Waking \cup {"switch"})
  BY DEF States, Places, Waking
<1> QED
  BY <1>1, <1>2, <1>3, OwnTaskStep DEF HInv, TypeOK

LEMMA SleepStep ==
  ASSUME HInv, NEW h \in Harts, Sleep(h)
  PROVE  HInv'
<1>1. at[h] \notin Waking \cup {"switch"}
  BY DEF Sleep, At, Waking
<1>2. /\ UNCHANGED <<on, who, current, rq, last, irqWait, resume, waiting>>
      /\ state' = [state EXCEPT ![on[h]] = "Sleeping"] /\ Goto(h, "schedule")
      /\ sleeping' = [sleeping EXCEPT ![h] = @ \cup {on[h]}]
  BY DEF Sleep, coreVars
<1>3. "Sleeping" \in States \ {"Ready"} /\ "schedule" \in Places \ (Waking \cup {"switch"})
  BY DEF States, Places, Waking
<1>4. sleeping' \in [Harts -> SUBSET Tasks]
  BY <1>2 DEF HInv, TypeOK
<1> QED
  BY <1>1, <1>2, <1>3, <1>4, OwnTaskStep DEF HInv, TypeOK

(* The actions that do not touch a task's state.                           *)
LEMMA SysReadStep ==
  ASSUME HInv, NEW h \in Harts, SysRead(h)
  PROVE  HInv'
<1>1. at[h] = "run"
  BY DEF SysRead, InUserMode, At
<1>2. /\ UNCHANGED <<on, who, current, rq, last, irqWait, resume, sleeping, waiting, state>>
      /\ Goto(h, "read")
  BY DEF SysRead, coreVars, queueVars
<1>3. "read" \in Places
  BY DEF Places
<1>4. at' \in [Harts -> Places] /\ at'[h] = "read" /\ \A g \in Harts \ {h} : at'[g] = at[g]
  BY <1>2, <1>3, PlaceKept DEF HInv
<1>5. TypeOK'
  BY <1>2, <1>4 DEF HInv, TypeOK
<1> QED
  BY <1>1, <1>2, <1>4, <1>5, Moved DEF Waking

LEMMA ReadLoopStep ==
  ASSUME HInv, NEW h \in Harts, ReadLoop(h)
  PROVE  HInv'
<1>1. at[h] = "read"
  BY DEF ReadLoop, At
<1>2. UNCHANGED <<on, who, current, rq, last, irqWait, sleeping, waiting>>
  BY DEF ReadLoop, coreVars, queueVars
<1>3. resume' \in [Tasks -> {"run", "read", "wait"}]
  BY DEF ReadLoop, HInv, TypeOK
<1>4. CASE chars > 0
  <2>1. Goto(h, "run") /\ UNCHANGED state
    BY <1>4 DEF ReadLoop
  <2>2. "run" \in Places
    BY DEF Places
  <2>3. at' \in [Harts -> Places] /\ at'[h] = "run" /\ \A g \in Harts \ {h} : at'[g] = at[g]
    BY <2>1, <2>2, PlaceKept DEF HInv
  <2>4. TypeOK'
    BY <1>2, <1>3, <2>1, <2>3 DEF HInv, TypeOK
  <2> QED
    BY <1>1, <1>2, <2>1, <2>3, <2>4, Moved DEF Waking
<1>5. CASE ~(chars > 0)
  <2>1. Goto(h, "register") /\ state' = [state EXCEPT ![on[h]] = "Blocked"]
    BY <1>5 DEF ReadLoop
  <2>2. "Blocked" \in States \ {"Ready"} /\ "register" \in Places \ (Waking \cup {"switch"})
    BY DEF States, Places, Waking
  <2>3. at[h] \notin Waking \cup {"switch"}
    BY <1>1 DEF Waking
  <2> QED
    BY <1>2, <1>3, <2>1, <2>2, <2>3, OwnTaskStep DEF HInv, TypeOK
<1> QED
  BY <1>4, <1>5

LEMMA RegisterStep ==
  ASSUME HInv, NEW h \in Harts, BlockOnExternalIrq(h)
  PROVE  HInv'
<1>1. at[h] = "register" /\ TypeOK /\ on[h] \in Tasks
  BY HartFacts DEF BlockOnExternalIrq, At, HInv
<1>2. /\ UNCHANGED <<on, who, current, rq, last, state, resume, sleeping, waiting>>
      /\ irqWait' = Append(irqWait, on[h]) /\ Goto(h, "schedule")
  BY DEF BlockOnExternalIrq, coreVars, Registered
<1>3. "schedule" \in Places
  BY DEF Places
<1>4. at' \in [Harts -> Places] /\ at'[h] = "schedule" /\ \A g \in Harts \ {h} : at'[g] = at[g]
  BY <1>1, <1>2, <1>3, PlaceKept
<1>5. irqWait' \in Seq(Tasks) /\ Elems(irqWait) \cup {on[h]} \subseteq Elems(irqWait')
  <2>1. PICK t \in Tasks : t = on[h]
    BY <1>1
  <2>2. irqWait \in Seq(Tasks)
    BY <1>1 DEF TypeOK
  <2>3. /\ Append(irqWait, t) \in Seq(Tasks)
        /\ Elems(irqWait) \cup {t} \subseteq Elems(Append(irqWait, t))
    BY <2>2, Pushed
  <2> QED
    BY <1>2, <2>1, <2>3
<1>6. TypeOK'
  BY <1>1, <1>2, <1>4, <1>5 DEF TypeOK
<1>7. ASSUME NEW t \in Tasks, state'[t] = "Blocked"
      PROVE  \/ state[t] = "Blocked" /\ (on[h] = t => at[h] \notin {"block", "register"})
             \/ t \in waiting' \cup Elems(irqWait')
  BY <1>2, <1>5, <1>7
<1>8. Elems(irqWait) \subseteq Elems(irqWait')
  BY <1>5
<1> QED
  BY <1>1, <1>2, <1>4, <1>6, <1>7, <1>8, Moved DEF Waking

(* Reaping leaves the dead child neither Ready nor Blocked.                *)
LEMMA Reaped ==
  ASSUME TypeOK, NEW h \in Harts, NEW st \in [Tasks -> States], ReapZombieChild(h, st)
  PROVE  /\ state' \in [Tasks -> States]
         /\ \A u \in Tasks : state'[u] = st[u] \/ state'[u] = "Exited"
<1>1. PICK c : state' = [st EXCEPT ![c] = "Exited"]
  BY DEF ReapZombieChild
<1>2. "Exited" \in States
  BY DEF States
<1> QED
  BY <1>1, <1>2

LEMMA BlockOnWaitStep ==
  ASSUME HInv, NEW h \in Harts, BlockOnWait(h)
  PROVE  HInv'
<1>1. at[h] = "block" /\ TypeOK /\ on[h] \in Tasks
  BY HartFacts DEF BlockOnWait, At, HInv
<1>2. UNCHANGED <<on, who, current, rq, last, sleeping, irqWait>>
  BY DEF BlockOnWait, coreVars
<1>3. CASE ShouldBlock(h)
  <2>1. /\ waiting' = waiting \cup {on[h]} /\ resume' = [resume EXCEPT ![on[h]] = "wait"]
        /\ Goto(h, "schedule") /\ UNCHANGED state
    BY <1>3 DEF BlockOnWait
  <2>2. "schedule" \in Places
    BY DEF Places
  <2>3. at' \in [Harts -> Places] /\ at'[h] = "schedule" /\ \A g \in Harts \ {h} : at'[g] = at[g]
    BY <1>1, <2>1, <2>2, PlaceKept
  <2>4. TypeOK'
    BY <1>1, <1>2, <2>1, <2>3 DEF TypeOK
  <2>5. ASSUME NEW t \in Tasks, state'[t] = "Blocked"
        PROVE  \/ state[t] = "Blocked" /\ (on[h] = t => at[h] \notin {"block", "register"})
               \/ t \in waiting' \cup Elems(irqWait')
    BY <2>1, <2>5
  <2>6. waiting \subseteq waiting'
    BY <2>1
  <2> QED
    BY <1>1, <1>2, <2>1, <2>3, <2>4, <2>5, <2>6, Moved DEF Waking
<1>4. CASE ~ShouldBlock(h)
  <2>1. /\ ReapZombieChild(h, [state EXCEPT ![on[h]] = "Running"])
        /\ Goto(h, "run") /\ UNCHANGED <<waiting, resume>>
    BY <1>4 DEF BlockOnWait
  <2>2. "run" \in Places /\ "Running" \in States
    BY DEF Places, States
  <2>3. at' \in [Harts -> Places] /\ at'[h] = "run" /\ \A g \in Harts \ {h} : at'[g] = at[g]
    BY <1>1, <2>1, <2>2, PlaceKept
  <2>4. PICK st : st = [state EXCEPT ![on[h]] = "Running"]
    OBVIOUS
  <2>5. st \in [Tasks -> States] /\ \A u \in Tasks : st[u] = IF u = on[h] THEN "Running" ELSE state[u]
    BY <1>1, <2>2, <2>4 DEF TypeOK
  <2>6. /\ state' \in [Tasks -> States]
        /\ \A u \in Tasks : state'[u] = st[u] \/ state'[u] = "Exited"
    BY <1>1, <2>1, <2>4, <2>5, Reaped
  <2>7. TypeOK'
    BY <1>1, <1>2, <2>1, <2>3, <2>6 DEF TypeOK
  <2>8. \A t \in Tasks : state'[t] = "Ready" => state[t] = "Ready"
    BY <2>5, <2>6
  <2>9. \A t \in Tasks : state'[t] = "Blocked" =>
          state[t] = "Blocked" /\ (on[h] = t => at[h] \notin {"block", "register"})
    BY <2>5, <2>6
  <2> QED
    BY <1>1, <1>2, <2>1, <2>3, <2>7, <2>8, <2>9, Moved DEF Waking
<1> QED
  BY <1>3, <1>4

LEMMA WaitResumeStep ==
  ASSUME HInv, NEW h \in Harts, WaitResume(h)
  PROVE  HInv'
<1>1. at[h] = "wait" /\ TypeOK /\ on[h] \in Tasks
  BY HartFacts DEF WaitResume, At, HInv
<1>2. /\ UNCHANGED <<on, who, current, rq, last, sleeping, irqWait, waiting>>
      /\ resume' = [resume EXCEPT ![on[h]] = "run"]
  BY DEF WaitResume, coreVars
<1>3. PICK p \in {"run", "panic"} : Goto(h, p)
  BY DEF WaitResume
<1>4. p \in Places /\ p \notin Waking \cup {"switch"}
  BY DEF Places, Waking
<1>5. at' \in [Harts -> Places] /\ at'[h] = p /\ \A g \in Harts \ {h} : at'[g] = at[g]
  BY <1>1, <1>3, <1>4, PlaceKept
<1>6. /\ state' \in [Tasks -> States]
      /\ \A u \in Tasks : state'[u] = state[u] \/ state'[u] = "Exited"
  <2>1. CASE UNCHANGED state
    BY <1>1, <2>1 DEF TypeOK
  <2>2. CASE ReapZombieChild(h, state)
    <3>1. PICK st \in [Tasks -> States] : st = state
      BY <1>1 DEF TypeOK
    <3>2. ReapZombieChild(h, st)
      BY <2>2, <3>1
    <3> QED
      BY <1>1, <3>1, <3>2, Reaped
  <2> QED
    BY <2>1, <2>2 DEF WaitResume
<1>7. TypeOK'
  BY <1>1, <1>2, <1>5, <1>6 DEF TypeOK
<1>8. \A t \in Tasks : state'[t] = "Ready" => state[t] = "Ready"
  BY <1>6
<1>9. \A t \in Tasks : state'[t] = "Blocked" => state[t] = "Blocked"
  BY <1>6
<1> QED
  BY <1>1, <1>2, <1>4, <1>5, <1>7, <1>8, <1>9, Moved DEF Waking

LEMMA TimerStep ==
  ASSUME HInv, NEW h \in Harts, Timer(h)
  PROVE  HInv'
<1>1. PICK due \in SUBSET sleeping[h] : \E order \in Orders(due) :
        /\ sleeping' = [sleeping EXCEPT ![h] = @ \ due]
        /\ state' = [t \in Tasks |-> IF t \in due THEN "Ready" ELSE state[t]]
        /\ rq' = [rq EXCEPT ![h] = @ \o order]
        /\ Goto(h, "schedule")
        /\ UNCHANGED <<on, who, current, last, resume, irqWait, waiting>>
  BY DEF Timer
<1>0. PICK order \in Orders(due) :
        /\ sleeping' = [sleeping EXCEPT ![h] = @ \ due]
        /\ state' = [t \in Tasks |-> IF t \in due THEN "Ready" ELSE state[t]]
        /\ rq' = [rq EXCEPT ![h] = @ \o order]
        /\ Goto(h, "schedule")
        /\ UNCHANGED <<on, who, current, last, resume, irqWait, waiting>>
  BY <1>1
<1>2. at[h] = "run" /\ TypeOK
  BY DEF Timer, Interruptible, At, HInv
<1>3. due \subseteq Tasks /\ order \in Seq(due) /\ Elems(order) = due
  BY <1>2 DEF TypeOK, Orders
<1>4. order \in Seq(Tasks)
  BY <1>3, SMTT(30)
<1>5. rq[h] \in Seq(Tasks) /\ rq \in [Harts -> Seq(Tasks)]
  BY <1>2 DEF TypeOK
<1>6. /\ rq[h] \o order \in Seq(Tasks)
      /\ Elems(rq[h]) \cup Elems(order) \subseteq Elems(rq[h] \o order)
  BY <1>4, <1>5, Joined
<1>7. /\ rq' \in [Harts -> Seq(Tasks)] /\ rq'[h] = rq[h] \o order
      /\ \A g \in Harts \ {h} : rq'[g] = rq[g]
  BY <1>0, <1>5, <1>6
<1>8. \A g \in Harts : Elems(rq[g]) \subseteq Elems(rq'[g])
  BY <1>6, <1>7
<1>9. \A t \in due : t \in Elems(rq'[h])
  BY <1>3, <1>6, <1>7
<1>10. "schedule" \in Places /\ "Ready" \in States
  BY DEF Places, States
<1>11. at' \in [Harts -> Places] /\ at'[h] = "schedule" /\ \A g \in Harts \ {h} : at'[g] = at[g]
  BY <1>0, <1>2, <1>10, PlaceKept
<1>12. state' \in [Tasks -> States]
  BY <1>0, <1>2, <1>10 DEF TypeOK
<1>13. sleeping' \in [Harts -> SUBSET Tasks]
  BY <1>0, <1>2 DEF TypeOK
<1>14. TypeOK'
  BY <1>0, <1>2, <1>7, <1>11, <1>12, <1>13 DEF TypeOK
<1>15. \A t \in Tasks : state'[t] = "Ready" =>
         state[t] = "Ready" \/ \E g \in Harts : t \in Elems(rq'[g])
  BY <1>0, <1>9
<1>16. \A t \in Tasks : state'[t] = "Blocked" => state[t] = "Blocked"
  BY <1>0
<1> QED
  BY <1>0, <1>2, <1>8, <1>11, <1>14, <1>15, <1>16, Moved DEF Waking

LEMMA CleanupStep ==
  ASSUME HInv, NEW h \in Harts, Cleanup(h)
  PROVE  HInv'
<1>1. at[h] = "run" /\ TypeOK
  BY DEF Cleanup, At, HInv
<1>2. PICK t : state' = [state EXCEPT ![t] = "Exited"]
  BY DEF Cleanup
<1>3. UNCHANGED <<on, at, who, current, rq, last, resume, sleeping, irqWait, waiting>>
  BY DEF Cleanup, hartVars, coreVars
<1>4. "Exited" \in States
  BY DEF States
<1>5. /\ state' \in [Tasks -> States]
      /\ \A u \in Tasks : state'[u] = IF u = t THEN "Exited" ELSE state[u]
  BY <1>1, <1>2, <1>4, StateKept
<1>6. TypeOK'
  BY <1>1, <1>3, <1>5 DEF TypeOK
<1>7. \A u \in Tasks : state'[u] = "Ready" => state[u] = "Ready"
  BY <1>5
<1>8. \A u \in Tasks : state'[u] = "Blocked" => state[u] = "Blocked"
  BY <1>5
<1> QED
  BY <1>1, <1>3, <1>6, <1>7, <1>8, Moved DEF Waking

(* A hart that had nobody to wake takes a task out of its registration.    *)
LEMMA TakenOut ==
  ASSUME HInv, NEW h \in Harts, at[h] \notin Waking \cup {"switch", "block", "register"},
         NEW t \in Tasks, Goto(h, "ready"), who' = [who EXCEPT ![h] = t],
         UNCHANGED <<on, current, rq, last, resume, sleeping, state>>,
         irqWait' \in Seq(Tasks), waiting' \subseteq Tasks,
         waiting \ {t} \subseteq waiting', Elems(irqWait) \ {t} \subseteq Elems(irqWait')
  PROVE  HInv'
<1>1. TypeOK /\ WakesOne
  BY DEF HInv
<1>2. "ready" \in Places
  BY DEF Places, Waking
<1>3. at' \in [Harts -> Places] /\ at'[h] = "ready" /\ \A g \in Harts \ {h} : at'[g] = at[g]
  BY <1>1, <1>2, PlaceKept
<1>4. who' \in [Harts -> Tasks \cup {None}] /\ who'[h] = t /\ \A g \in Harts \ {h} : who'[g] = who[g]
  BY <1>1 DEF TypeOK
<1>5. who[h] = None
  BY <1>1 DEF WakesOne
<1>6. TypeOK'
  BY <1>1, <1>3, <1>4 DEF TypeOK
<1>7. WakesOne'
  BY <1>1, <1>3, <1>4 DEF WakesOne, Waking
<1>8. ASSUME NEW u \in Tasks, state'[u] = "Ready" PROVE ReadyHome(u)'
  <2>1. ReadyHome(u)
    BY <1>8 DEF HInv
  <2>2. \A g \in Harts : who[g] = u => who'[g] = u
    BY <1>4, <1>5, HartsFacts
  <2>3. \A g \in Harts : at[g] # "switch" => at'[g] # "switch"
    BY <1>3
  <2> QED
    BY <2>1, <2>2, <2>3 DEF ReadyHome
<1>9. ASSUME NEW u \in Tasks, state'[u] = "Blocked" PROVE BlockedHome(u)'
  <2>1. BlockedHome(u)
    BY <1>9 DEF HInv
  <2>2. CASE u = t
    BY <1>3, <1>4, <2>2 DEF BlockedHome
  <2>3. CASE u # t
    <3>1. \A g \in Harts : who[g] = u /\ at[g] = "ready" => who'[g] = u /\ at'[g] = "ready"
      BY <1>3, <1>4, <1>5, HartsFacts
    <3>2. \A g \in Harts : at[g] \in {"block", "register"} => at'[g] = at[g]
      BY <1>3
    <3> QED
      BY <2>1, <2>3, <3>1, <3>2 DEF BlockedHome
  <2> QED
    BY <2>2, <2>3
<1> QED
  BY <1>6, <1>7, <1>8, <1>9 DEF HInv

LEMMA OnTaskExitStep ==
  ASSUME HInv, NEW h \in Harts, OnTaskExit(h)
  PROVE  HInv'
<1>1. at[h] = "exit" /\ TypeOK
  BY DEF OnTaskExit, At, HInv
<1>2. UNCHANGED <<on, current, rq, last, state, resume, sleeping, irqWait>>
  BY DEF OnTaskExit, coreVars
<1>3. PICK p : p = parent[on[h]]
  OBVIOUS
<1>4. waiting \ {p} \subseteq waiting' /\ waiting' \subseteq waiting
  BY <1>3 DEF OnTaskExit
<1>5. CASE p \in table \cap waiting
  <2>1. who' = [who EXCEPT ![h] = p] /\ Goto(h, "ready") /\ p \in Tasks
    BY <1>1, <1>3, <1>5 DEF OnTaskExit, TypeOK
  <2>2. at[h] \notin Waking \cup {"switch", "block", "register"}
    BY <1>1 DEF Waking
  <2>3. /\ irqWait' \in Seq(Tasks) /\ waiting' \subseteq Tasks
        /\ Elems(irqWait) \ {p} \subseteq Elems(irqWait')
    BY <1>1, <1>2, <1>4 DEF TypeOK
  <2> QED
    BY <1>2, <1>4, <2>1, <2>2, <2>3, TakenOut
<1>6. CASE p \notin table \cap waiting
  <2>1. UNCHANGED who /\ Goto(h, "schedule") /\ waiting' = waiting
    BY <1>3, <1>6 DEF OnTaskExit
  <2>2. "schedule" \in Places
    BY DEF Places
  <2>3. at' \in [Harts -> Places] /\ at'[h] = "schedule" /\ \A g \in Harts \ {h} : at'[g] = at[g]
    BY <1>1, <2>1, <2>2, PlaceKept
  <2>4. TypeOK'
    BY <1>1, <1>2, <2>1, <2>3 DEF TypeOK
  <2> QED
    BY <1>1, <1>2, <2>1, <2>3, <2>4, Moved DEF Waking
<1> QED
  BY <1>5, <1>6

LEMMA UartIrqStep ==
  ASSUME HInv, NEW h \in Harts, UartIrq(h)
  PROVE  HInv'
<1>1. at[h] = "run" /\ TypeOK
  BY DEF UartIrq, Interruptible, At, HInv
<1>2. UNCHANGED <<on, current, rq, last, state, resume, sleeping, waiting>>
  BY DEF UartIrq, coreVars
<1>3. CASE irqWait = <<>>
  <2>1. UNCHANGED <<at, who, irqWait>>
    BY <1>3 DEF UartIrq
  <2>2. TypeOK'
    BY <1>1, <1>2, <2>1 DEF TypeOK
  <2> QED
    BY <1>1, <1>2, <2>1, <2>2, Moved DEF Waking
<1>4. CASE irqWait # <<>>
  <2>1. irqWait \in Seq(Tasks)
    BY <1>1 DEF TypeOK
  <2>2. /\ Tail(irqWait) \in Seq(Tasks) /\ Head(irqWait) \in Tasks
        /\ Elems(irqWait) \subseteq Elems(Tail(irqWait)) \cup {Head(irqWait)}
    BY <1>4, <2>1, Popped
  <2>3. PICK t \in Tasks : t = Head(irqWait)
    BY <2>2
  <2>4. who' = [who EXCEPT ![h] = t] /\ irqWait' = Tail(irqWait) /\ Goto(h, "ready")
    BY <1>4, <2>3 DEF UartIrq
  <2>5. at[h] \notin Waking \cup {"switch", "block", "register"}
    BY <1>1 DEF Waking
  <2>6. /\ irqWait' \in Seq(Tasks) /\ waiting' \subseteq Tasks /\ waiting \ {t} \subseteq waiting'
        /\ Elems(irqWait) \ {t} \subseteq Elems(irqWait')
    BY <1>1, <1>2, <2>2, <2>3, <2>4 DEF TypeOK
  <2> QED
    BY <1>2, <2>4, <2>5, <2>6, TakenOut
<1> QED
  BY <1>3, <1>4

LEMMA WakeStep ==
  ASSUME HInv, NEW h \in Harts, Wake(h)
  PROVE  HInv'
<1>1. TypeOK /\ WakesOne /\ UNCHANGED <<on, current, resume, sleeping, irqWait, waiting>>
  BY DEF Wake, HInv, queueVars
<1>2. CASE at[h] = "ready" /\ MakeReady(h, "enqueue") /\ UNCHANGED who
  <2>1. PICK t \in Tasks : t = who[h]
    BY <1>1, <1>2 DEF WakesOne, Waking
  <2>2. state' = [state EXCEPT ![t] = "Ready"] /\ Goto(h, "enqueue") /\ UNCHANGED <<rq, last, who>>
    BY <1>2, <2>1 DEF MakeReady
  <2>3. "Ready" \in States /\ "enqueue" \in Places
    BY DEF States, Places, Waking
  <2>4. /\ state' \in [Tasks -> States]
        /\ \A u \in Tasks : state'[u] = IF u = t THEN "Ready" ELSE state[u]
    BY <1>1, <2>2, <2>3, StateKept
  <2>5. at' \in [Harts -> Places] /\ at'[h] = "enqueue" /\ \A g \in Harts \ {h} : at'[g] = at[g]
    BY <1>1, <2>2, <2>3, PlaceKept
  <2>6. TypeOK'
    BY <1>1, <2>2, <2>4, <2>5 DEF TypeOK
  <2>7. WakesOne'
    BY <1>1, <1>2, <2>2, <2>5 DEF WakesOne, Waking
  <2>8. ASSUME NEW u \in Tasks, state'[u] = "Ready" PROVE ReadyHome(u)'
    <3>1. CASE u = t
      BY <2>1, <2>2, <3>1 DEF ReadyHome
    <3>2. CASE u # t
      <4>1. ReadyHome(u)
        BY <2>4, <2>8, <3>2 DEF HInv
      <4>2. \A g \in Harts : at[g] # "switch" => at'[g] # "switch"
        BY <2>5
      <4> QED
        BY <1>1, <2>2, <4>1, <4>2 DEF ReadyHome
    <3> QED
      BY <3>1, <3>2
  <2>9. ASSUME NEW u \in Tasks, state'[u] = "Blocked" PROVE BlockedHome(u)'
    <3>1. u # t /\ state[u] = "Blocked"
      BY <2>4, <2>9
    <3>2. BlockedHome(u)
      BY <3>1 DEF HInv
    <3>3. \A g \in Harts : at[g] \in {"block", "register"} => at'[g] = at[g]
      BY <1>2, <2>5
    <3>4. \A g \in Harts : who[g] = u /\ at[g] = "ready" => who'[g] = u /\ at'[g] = "ready"
      BY <2>1, <2>2, <2>5, <3>1
    <3> QED
      BY <1>1, <3>2, <3>3, <3>4 DEF BlockedHome
  <2> QED
    BY <2>6, <2>7, <2>8, <2>9 DEF HInv
<1>3. CASE at[h] = "enqueue" /\ Enqueue(h, AfterWake(h)) /\ who' = [who EXCEPT ![h] = None]
  <2>1. PICK t \in Tasks : t = who[h]
    BY <1>1, <1>3 DEF WakesOne, Waking
  <2>2. /\ rq' = [rq EXCEPT ![NextHart] = Append(@, t)] /\ last' = NextHart
        /\ UNCHANGED state /\ Goto(h, AfterWake(h)) /\ who' = [who EXCEPT ![h] = None]
    BY <1>3, <2>1 DEF Enqueue
  <2>3. /\ rq' \in [Harts -> Seq(Tasks)]
        /\ \A g \in Harts : Elems(rq[g]) \subseteq Elems(rq'[g])
        /\ \E g \in Harts : t \in Elems(rq'[g])
    BY <1>1, <2>2, Queued
  <2>4. last' \in Harts
    BY <1>1, <2>2, NextHartType DEF TypeOK
  <2>5. PICK p \in {"schedule", "run"} : p = AfterWake(h)
    BY DEF AfterWake
  <2>6. p \in Places /\ Goto(h, p)
    BY <2>2, <2>5 DEF Places
  <2>7. at' \in [Harts -> Places] /\ at'[h] = p /\ \A g \in Harts \ {h} : at'[g] = at[g]
    BY <1>1, <2>6, PlaceKept
  <2>8. who' \in [Harts -> Tasks \cup {None}] /\ who'[h] = None /\ \A g \in Harts \ {h} : who'[g] = who[g]
    BY <1>1, <2>2 DEF TypeOK
  <2>9. TypeOK'
    BY <1>1, <2>2, <2>3, <2>4, <2>7, <2>8 DEF TypeOK
  <2>10. WakesOne'
    BY <1>1, <2>5, <2>7, <2>8 DEF WakesOne, Waking
  <2>11. ASSUME NEW u \in Tasks, state'[u] = "Ready" PROVE ReadyHome(u)'
    <3>1. CASE u = t
      BY <2>3, <3>1 DEF ReadyHome
    <3>2. CASE u # t
      <4>1. ReadyHome(u)
        BY <2>2, <2>11 DEF HInv
      <4>2. \A g \in Harts : at[g] # "switch" => at'[g] # "switch"
        BY <2>5, <2>7
      <4>3. \A g \in Harts : who[g] = u => who'[g] = u
        BY <2>1, <2>8, <3>2
      <4> QED
        BY <1>1, <2>3, <4>1, <4>2, <4>3 DEF ReadyHome
    <3> QED
      BY <3>1, <3>2
  <2>12. ASSUME NEW u \in Tasks, state'[u] = "Blocked" PROVE BlockedHome(u)'
    <3>1. BlockedHome(u)
      BY <2>2, <2>12 DEF HInv
    <3>2. \A g \in Harts : at[g] \in {"block", "register"} => at'[g] = at[g]
      BY <1>3, <2>7
    <3>3. \A g \in Harts : who[g] = u /\ at[g] = "ready" => who'[g] = u /\ at'[g] = "ready"
      BY <1>3, <2>7, <2>8
    <3> QED
      BY <1>1, <3>1, <3>2, <3>3 DEF BlockedHome
  <2> QED
    BY <2>9, <2>10, <2>11, <2>12 DEF HInv
<1> QED
  BY <1>2, <1>3 DEF Wake, WakeUp

LEMMA SwitchToStep ==
  ASSUME HInv, NEW h \in Harts, SwitchTo(h)
  PROVE  HInv'
<1>1. TypeOK /\ WakesOne /\ at[h] = "switch"
  BY DEF SwitchTo, HInv
<1>2. UNCHANGED <<who, current, rq, last, state, resume, sleeping, irqWait, waiting>>
  BY DEF SwitchTo, coreVars, queueVars
<1>3. PICK new \in Tasks : new = current[h]
  BY <1>1 DEF TypeOK
<1>4. PICK p \in {"run", "read", "wait"} : p = resume[new]
  BY <1>1 DEF TypeOK
<1>5. p \in Places /\ Goto(h, p) /\ on' = [on EXCEPT ![h] = new]
  BY <1>3, <1>4 DEF SwitchTo, Places
<1>6. at' \in [Harts -> Places] /\ at'[h] = p /\ \A g \in Harts \ {h} : at'[g] = at[g]
  BY <1>1, <1>5, PlaceKept
<1>7. on' \in [Harts -> Tasks] /\ \A g \in Harts \ {h} : on'[g] = on[g]
  BY <1>1, <1>5 DEF TypeOK
<1>8. TypeOK'
  BY <1>1, <1>2, <1>6, <1>7 DEF TypeOK
<1>9. WakesOne'
  BY <1>1, <1>2, <1>4, <1>6 DEF WakesOne, Waking
<1>10. \A g \in Harts : at[g] # "switch" => on'[g] = on[g] /\ at'[g] = at[g]
  BY <1>1, <1>6, <1>7
<1>11. ASSUME NEW u \in Tasks, state'[u] = "Ready" PROVE ReadyHome(u)'
  <2>1. ReadyHome(u)
    BY <1>2, <1>11 DEF HInv
  <2> QED
    BY <1>2, <1>10, <2>1 DEF ReadyHome
<1>12. ASSUME NEW u \in Tasks, state'[u] = "Blocked" PROVE BlockedHome(u)'
  <2>1. BlockedHome(u)
    BY <1>2, <1>12 DEF HInv
  <2>2. \A g \in Harts : at[g] \in {"block", "register", "ready"} => on'[g] = on[g] /\ at'[g] = at[g]
    BY <1>10
  <2> QED
    BY <1>2, <2>1, <2>2 DEF BlockedHome
<1> QED
  BY <1>8, <1>9, <1>11, <1>12 DEF HInv

(* schedule() on hart h, whatever it chooses: a Ready task is still in the *)
(* queue, or goes on executing, and the rest of the system is untouched.   *)
LEMMA Chosen ==
  ASSUME HInv, TypeOK', NEW h \in Harts, at[h] = "schedule", at'[h] \notin Waking,
         \A g \in Harts \ {h} : at'[g] = at[g] /\ rq'[g] = rq[g],
         UNCHANGED <<on, who, irqWait, waiting>>,
         \A u \in Tasks : state'[u] = "Blocked" => state[u] = "Blocked",
         \A u \in Tasks : state'[u] = "Ready" =>
           u \in Elems(rq'[h]) \/ (state[u] = "Ready" /\ u \notin Elems(rq[h])),
         \A u \in Tasks : state'[u] = "Ready" /\ on[h] = u =>
           u \in Elems(rq'[h]) \/ at'[h] # "switch" \/ u = Idle(h)
  PROVE  HInv'
<1>1. WakesOne'
  BY DEF HInv, WakesOne, Waking
<1>2. ASSUME NEW u \in Tasks, state'[u] = "Ready" PROVE ReadyHome(u)'
  <2>1. CASE u \in Elems(rq'[h])
    BY <2>1 DEF ReadyHome
  <2>2. CASE u \notin Elems(rq'[h])
    <3>1. state[u] = "Ready" /\ u \notin Elems(rq[h])
      BY <1>2, <2>2
    <3>2. ReadyHome(u)
      BY <3>1 DEF HInv
    <3>3. \A g \in Harts : u \in Elems(rq[g]) => u \in Elems(rq'[g])
      BY <3>1
    <3>4. \A g \in Harts : on[g] = u /\ at[g] # "switch" => (on'[g] = u /\ at'[g] # "switch") \/ u = Idle(h)
      BY <1>2, <2>2
    <3> QED
      BY <3>2, <3>3, <3>4 DEF ReadyHome
  <2> QED
    BY <2>1, <2>2
<1>3. ASSUME NEW u \in Tasks, state'[u] = "Blocked" PROVE BlockedHome(u)'
  <2>1. BlockedHome(u)
    BY <1>3 DEF HInv
  <2>2. \A g \in Harts : at[g] \in {"block", "register", "ready"} => at'[g] = at[g]
    OBVIOUS
  <2> QED
    BY <2>1, <2>2 DEF BlockedHome
<1> QED
  BY <1>1, <1>2, <1>3 DEF HInv

LEMMA ScheduleStep ==
  ASSUME HInv, NEW h \in Harts, Schedule(h)
  PROVE  HInv'
<1>1. TypeOK /\ at[h] = "schedule"
  BY DEF Schedule, At, HInv
<1>2. UNCHANGED <<on, who, resume, last, sleeping, irqWait, waiting>>
  BY DEF Schedule, queueVars
<1>3. PICK t \in Tasks : t = on[h]
  BY <1>1 DEF TypeOK
<1>4. PICK q \in Seq(Tasks) : q = rq[h]
  BY <1>1 DEF TypeOK
<1>5. PICK ready : ready = {i \in 1..Len(q) : state[q[i]] = "Ready"}
  OBVIOUS
<1>6. /\ "Running" \in States /\ "Ready" \in States /\ "switch" \in Places
      /\ "switch" \notin Waking /\ rq \in [Harts -> Seq(Tasks)]
  BY <1>1 DEF States, Places, Waking, TypeOK
<1>7. CASE ready # {}
  <2>1. PICK k \in {i \in ready : \A j \in ready : i <= j} :
          LET rest == SubSeq(q, k + 1, Len(q))
              st   == [state EXCEPT ![q[k]] = "Running"]
              back == t # Idle(h) /\ st[t] \in {"Running", "Ready"}
          IN  /\ current' = [current EXCEPT ![h] = q[k]]
              /\ state' = IF back THEN [st EXCEPT ![t] = "Ready"] ELSE st
              /\ rq' = [rq EXCEPT ![h] = IF back THEN Append(rest, t) ELSE rest]
              /\ Goto(h, "switch")
    BY <1>3, <1>4, <1>5, <1>7 DEF Schedule
  <2>2. k \in 1..Len(q) /\ \A j \in ready : k <= j
    BY <1>5, <2>1
  <2>3. PICK rest : rest = SubSeq(q, k + 1, Len(q))
    OBVIOUS
  <2>4. rest \in Seq(Tasks) /\ \A i \in 1..Len(q) : i > k => q[i] \in Elems(rest)
    BY <2>2, <2>3, Remainder
  <2>5. PICK n : n = q[k]
    OBVIOUS
  <2>6. n \in Tasks
    BY <2>2, <2>5, SMTT(30)
  <2>7. PICK st : st = [state EXCEPT ![n] = "Running"]
    OBVIOUS
  <2>8. /\ st \in [Tasks -> States]
        /\ \A u \in Tasks : st[u] = IF u = n THEN "Running" ELSE state[u]
    BY <1>1, <1>6, <2>7, StateKept
  <2>9. ASSUME NEW u \in Tasks, u \in Elems(q), state[u] = "Ready", u # n
        PROVE  u \in Elems(rest)
    <3>1. PICK i \in 1..Len(q) : q[i] = u
      BY <2>9 DEF Elems
    <3>2. i \in ready /\ i # k
      BY <1>5, <2>5, <2>9, <3>1
    <3>3. i > k
      BY <2>2, <3>2, SMTT(30)
    <3> QED
      BY <2>4, <3>1, <3>3
  <2>10. current' = [current EXCEPT ![h] = n] /\ Goto(h, "switch")
    BY <2>1, <2>5
  <2>11. current' \in [Harts -> Tasks]
    BY <1>1, <2>6, <2>10 DEF TypeOK
  <2>12. at' \in [Harts -> Places] /\ at'[h] = "switch" /\ \A g \in Harts \ {h} : at'[g] = at[g]
    BY <1>1, <1>6, <2>10, PlaceKept
  <2>13. CASE t # Idle(h) /\ st[t] \in {"Running", "Ready"}
    <3>1. /\ state' = [st EXCEPT ![t] = "Ready"]
          /\ rq' = [rq EXCEPT ![h] = Append(rest, t)]
      BY <2>1, <2>3, <2>5, <2>7, <2>13
    <3>2. /\ state' \in [Tasks -> States]
          /\ \A u \in Tasks : state'[u] = IF u = t THEN "Ready" ELSE st[u]
      BY <1>6, <2>8, <3>1
    <3>3. Append(rest, t) \in Seq(Tasks) /\ Elems(rest) \cup {t} \subseteq Elems(Append(rest, t))
      BY <2>4, Pushed
    <3>4. /\ rq' \in [Harts -> Seq(Tasks)] /\ rq'[h] = Append(rest, t)
          /\ \A g \in Harts \ {h} : rq'[g] = rq[g]
      BY <1>6, <3>1, <3>3
    <3>5. TypeOK'
      BY <1>1, <1>2, <2>11, <2>12, <3>2, <3>4 DEF TypeOK
    <3>6. \A u \in Tasks : state'[u] = "Blocked" => state[u] = "Blocked"
      BY <2>8, <3>2
    <3>7. ASSUME NEW u \in Tasks, state'[u] = "Ready"
          PROVE  u \in Elems(rq'[h]) \/ (state[u] = "Ready" /\ u \notin Elems(rq[h]))
      <4>1. CASE u = t
        BY <3>3, <3>4, <4>1
      <4>2. CASE u # t
        <5>1. state[u] = "Ready" /\ u # n
          BY <2>8, <3>2, <3>7, <4>2
        <5> QED
          BY <1>4, <2>9, <3>3, <3>4, <5>1
      <4> QED
        BY <4>1, <4>2
    <3>8. \A u \in Tasks : state'[u] = "Ready" /\ on[h] = u =>
            u \in Elems(rq'[h]) \/ at'[h] # "switch" \/ u = Idle(h)
      BY <1>3, <3>3, <3>4
    <3>9. /\ at'[h] \notin Waking /\ UNCHANGED <<on, who, irqWait, waiting>>
          /\ \A g \in Harts \ {h} : at'[g] = at[g] /\ rq'[g] = rq[g]
      BY <1>2, <1>6, <2>12, <3>4
    <3> QED
      BY <1>1, <3>5, <3>6, <3>7, <3>8, <3>9, Chosen
  <2>14. CASE ~(t # Idle(h) /\ st[t] \in {"Running", "Ready"})
    <3>1. state' = st /\ rq' = [rq EXCEPT ![h] = rest]
      BY <2>1, <2>3, <2>5, <2>7, <2>14
    <3>2. /\ rq' \in [Harts -> Seq(Tasks)] /\ rq'[h] = rest
          /\ \A g \in Harts \ {h} : rq'[g] = rq[g]
      BY <1>6, <2>4, <3>1
    <3>3. TypeOK'
      BY <1>1, <1>2, <2>8, <2>11, <2>12, <3>1, <3>2 DEF TypeOK
    <3>4. \A u \in Tasks : state'[u] = "Blocked" => state[u] = "Blocked"
      BY <2>8, <3>1
    <3>5. ASSUME NEW u \in Tasks, state'[u] = "Ready"
          PROVE  u \in Elems(rq'[h]) \/ (state[u] = "Ready" /\ u \notin Elems(rq[h]))
      <4>1. state[u] = "Ready" /\ u # n
        BY <2>8, <3>1, <3>5
      <4> QED
        BY <1>4, <2>9, <3>2, <4>1
    <3>6. \A u \in Tasks : state'[u] = "Ready" /\ on[h] = u =>
            u \in Elems(rq'[h]) \/ at'[h] # "switch" \/ u = Idle(h)
      BY <1>3, <2>14, <3>1
    <3>7. /\ at'[h] \notin Waking /\ UNCHANGED <<on, who, irqWait, waiting>>
          /\ \A g \in Harts \ {h} : at'[g] = at[g] /\ rq'[g] = rq[g]
      BY <1>2, <1>6, <2>12, <3>2
    <3> QED
      BY <1>1, <3>3, <3>4, <3>5, <3>6, <3>7, Chosen
  <2> QED
    BY <2>13, <2>14
<1>8. CASE ready = {}
  <2>1. rq' = [rq EXCEPT ![h] = <<>>]
    BY <1>3, <1>4, <1>5, <1>8 DEF Schedule
  <2>2. /\ rq' \in [Harts -> Seq(Tasks)]
        /\ \A g \in Harts \ {h} : rq'[g] = rq[g]
    <3>1. <<>> \in Seq(Tasks)
      BY SMTT(30)
    <3> QED
      BY <1>6, <2>1, <3>1
  <2>3. \A u \in Tasks : state[u] = "Ready" => u \notin Elems(rq[h])
    BY <1>4, <1>5, <1>8 DEF Elems
  <2>4. CASE state[t] \in {"Ready", "Running"}
    <3>1. state' = [state EXCEPT ![t] = "Running"] /\ Goto(h, resume[t]) /\ UNCHANGED current
      BY <1>3, <1>4, <1>5, <1>8, <2>4 DEF Schedule
    <3>2. PICK p \in {"run", "read", "wait"} : p = resume[t]
      BY <1>1 DEF TypeOK
    <3>3. p \in Places /\ Goto(h, p)
      BY <3>1, <3>2 DEF Places
    <3>4. at' \in [Harts -> Places] /\ at'[h] = p /\ \A g \in Harts \ {h} : at'[g] = at[g]
      BY <1>1, <3>3, PlaceKept
    <3>5. /\ state' \in [Tasks -> States]
          /\ \A u \in Tasks : state'[u] = IF u = t THEN "Running" ELSE state[u]
      BY <1>1, <1>6, <3>1, StateKept
    <3>6. TypeOK'
      BY <1>1, <1>2, <2>2, <3>1, <3>4, <3>5 DEF TypeOK
    <3>7. \A u \in Tasks : state'[u] = "Blocked" => state[u] = "Blocked"
      BY <3>5
    <3>8. \A u \in Tasks : state'[u] = "Ready" =>
            u \in Elems(rq'[h]) \/ (state[u] = "Ready" /\ u \notin Elems(rq[h]))
      BY <2>3, <3>5
    <3>9. \A u \in Tasks : state'[u] = "Ready" /\ on[h] = u =>
            u \in Elems(rq'[h]) \/ at'[h] # "switch" \/ u = Idle(h)
      BY <1>3, <3>5
    <3>10. /\ at'[h] \notin Waking /\ UNCHANGED <<on, who, irqWait, waiting>>
           /\ \A g \in Harts \ {h} : at'[g] = at[g] /\ rq'[g] = rq[g]
      BY <1>2, <2>2, <3>2, <3>4 DEF Waking
    <3> QED
      BY <1>1, <3>6, <3>7, <3>8, <3>9, <3>10, Chosen
  <2>5. CASE state[t] \notin {"Ready", "Running"}
    <3>1. PICK idle \in Tasks : idle = Idle(h)
      BY HartsFacts
    <3>2. /\ state' = [state EXCEPT ![idle] = "Running"] /\ Goto(h, "switch")
          /\ current' = [current EXCEPT ![h] = idle]
      BY <1>3, <1>4, <1>5, <1>8, <2>5, <3>1 DEF Schedule
    <3>3. at' \in [Harts -> Places] /\ at'[h] = "switch" /\ \A g \in Harts \ {h} : at'[g] = at[g]
      BY <1>1, <1>6, <3>2, PlaceKept
    <3>4. /\ state' \in [Tasks -> States]
          /\ \A u \in Tasks : state'[u] = IF u = idle THEN "Running" ELSE state[u]
      BY <1>1, <1>6, <3>2, StateKept
    <3>5. current' \in [Harts -> Tasks]
      BY <1>1, <3>2 DEF TypeOK
    <3>6. TypeOK'
      BY <1>1, <1>2, <2>2, <3>3, <3>4, <3>5 DEF TypeOK
    <3>7. \A u \in Tasks : state'[u] = "Blocked" => state[u] = "Blocked"
      BY <3>4
    <3>8. \A u \in Tasks : state'[u] = "Ready" =>
            u \in Elems(rq'[h]) \/ (state[u] = "Ready" /\ u \notin Elems(rq[h]))
      BY <2>3, <3>4
    <3>9. \A u \in Tasks : state'[u] = "Ready" /\ on[h] = u =>
            u \in Elems(rq'[h]) \/ at'[h] # "switch" \/ u = Idle(h)
      BY <1>3, <2>5, <3>4
    <3>10. /\ at'[h] \notin Waking /\ UNCHANGED <<on, who, irqWait, waiting>>
           /\ \A g \in Harts \ {h} : at'[g] = at[g] /\ rq'[g] = rq[g]
      BY <1>2, <1>6, <2>2, <3>3
    <3> QED
      BY <1>1, <3>6, <3>7, <3>8, <3>9, <3>10, Chosen
  <2> QED
    BY <2>4, <2>5
<1> QED
  BY <1>7, <1>8

LEMMA Unmoved ==
  ASSUME HInv,
         UNCHANGED <<on, at, who, current, rq, last, state, resume, sleeping, irqWait, waiting>>
  PROVE  HInv'
<1>1. TypeOK' /\ WakesOne'
  BY DEF HInv, TypeOK, WakesOne
<1>2. ASSUME NEW t \in Tasks, state'[t] = "Ready" PROVE ReadyHome(t)'
  <2>1. ReadyHome(t)
    BY <1>2 DEF HInv
  <2> QED
    BY <2>1 DEF ReadyHome
<1>3. ASSUME NEW t \in Tasks, state'[t] = "Blocked" PROVE BlockedHome(t)'
  <2>1. BlockedHome(t)
    BY <1>3 DEF HInv
  <2> QED
    BY <2>1 DEF BlockedHome
<1> QED
  BY <1>1, <1>2, <1>3 DEF HInv

LEMMA NextHInv == HInv /\ [Next]_vars => HInv'
<1> SUFFICES ASSUME HInv, [Next]_vars PROVE HInv'
  OBVIOUS
<1>1. CASE UNCHANGED vars
  BY <1>1, Unmoved DEF vars
<1>2. ASSUME NEW h \in Harts, SwitchToUnsaved(h) \/ WrongContext(h) PROVE HInv'
  BY <1>2, Unmoved DEF SwitchToUnsaved, WrongContext, hartVars, coreVars, queueVars
<1>3. CASE Next
  BY <1>2, <1>3, ScheduleStep, SwitchToStep, WakeStep, CreateStep, ExitStep, OnTaskExitStep,
     WaitStep, BlockOnWaitStep, WaitResumeStep, SysReadStep, ReadLoopStep, RegisterStep,
     UartIrqStep, SleepStep, TimerStep, CleanupStep DEF Next
<1> QED
  BY <1>1, <1>3

-----------------------------------------------------------------------------
(* The invariant holds for any number of harts: every interleaving of      *)
(* schedule(), switch_to, the two writes of a wake-up, wait and read keeps *)
(* each Ready and each Blocked task where somebody will find it.           *)
THEOREM HartsInductive == Spec => []HInv
<1>1. Init => HInv
  BY InitHInv
<1>2. HInv /\ [Next]_vars => HInv'
  BY NextHInv
<1> QED
  BY <1>1, <1>2, PTL DEF Spec

(* Two harts that wake and drop queue entries at the same time lose no     *)
(* Ready task: schedule() discards entries that are not Ready, and the     *)
(* write that makes a task Ready comes before the one that queues it.      *)
THEOREM ReadyPlaced == Spec => []ReadyIsPlaced
<1>1. HInv => ReadyIsPlaced
  BY DEF HInv, ReadyHome, ReadyIsPlaced, OnHart, BeingWoken
<1> QED
  BY <1>1, HartsInductive, PTL

(* No hart switches away from a Blocked task before it is registered with  *)
(* what wakes it (block_on_wait, block_on_external_irq), and whoever takes *)
(* it out of there holds it until it is Ready.                             *)
THEOREM BlockedPlaced == Spec => []BlockedIsPlaced
<1>1. HInv => BlockedIsPlaced
  BY DEF HInv, BlockedHome, BlockedIsPlaced, OnHart, BeingWoken
<1> QED
  BY <1>1, HartsInductive, PTL

===============================================================================
