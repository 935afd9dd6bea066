----------------------------- MODULE SchedProofs -----------------------------
(***************************************************************************)
(* Proofs about Sched, for every set of tasks and every bound.  First the  *)
(* inductive invariant, what schedule() guarantees its callers, and the    *)
(* steps that keep the processor; then those that may switch tasks         *)
(* (blocking, sleeping, the reaper's round, exit, the timer interrupt) and *)
(* those of the console; then the theorems: the safety invariants follow   *)
(* from the inductive one, and with a second invariant about the dead so   *)
(* does that death is final.                                               *)
(*                                                                         *)
(* The safety invariants of Sched are not inductive one by one.  IInv adds *)
(* what they lean on: that the parent and children fields mirror each      *)
(* other while the parent lives, that live tasks are in the table, and     *)
(* what the two kernel tasks never do.                                     *)
(***************************************************************************)
EXTENDS Sched, TLAPS

USE ZenonT(20)

-----------------------------------------------------------------------------
(* Queues: what Append, Tail and concatenation do to the elements of a     *)
(* queue and to the absence of duplicates.                                 *)

(* push_back on a queue.                                                   *)
LEMMA AppendElems ==
  ASSUME NEW S, NEW s \in Seq(S), NEW x \in S
  PROVE  /\ Append(s, x) \in Seq(S)
         /\ Elems(Append(s, x)) = Elems(s) \cup {x}
         /\ (NoDup(s) /\ x \notin Elems(s)) => NoDup(Append(s, x))
<1> DEFINE a == Append(s, x)
<1>1. /\ a \in Seq(S)
      /\ Len(a) = Len(s) + 1
      /\ Len(s) \in Nat
      /\ \A i \in 1..Len(s) : a[i] = s[i]
      /\ a[Len(s) + 1] = x
  BY SMTT(30)
<1> HIDE DEF a
<1>2. \A i \in 1..Len(a) : i \in 1..Len(s) \/ i = Len(s) + 1
  BY <1>1, SMTT(30)
<1>3. Elems(a) \subseteq Elems(s) \cup {x}
  BY <1>1, <1>2 DEF Elems
<1>4. Elems(s) \cup {x} \subseteq Elems(a)
  BY <1>1, SMTT(30) DEF Elems
<1>5. ASSUME NoDup(s), x \notin Elems(s)
      PROVE  NoDup(a)
  <2> SUFFICES ASSUME NEW i \in 1..Len(a), NEW j \in 1..Len(a), a[i] = a[j]
               PROVE  i = j
    BY DEF NoDup
  <2>1. CASE i \in 1..Len(s) /\ j \in 1..Len(s)
    BY <1>1, <1>5, <2>1 DEF NoDup
  <2>2. CASE i \in 1..Len(s) /\ j = Len(s) + 1
    BY <1>1, <1>5, <2>2 DEF Elems
  <2>3. CASE i = Len(s) + 1 /\ j \in 1..Len(s)
    BY <1>1, <1>5, <2>3 DEF Elems
  <2> QED
    BY <1>2, <2>1, <2>2, <2>3
<1> QED
  BY <1>1, <1>3, <1>4, <1>5 DEF a

(* pop_front on a queue that is not empty.                                 *)
LEMMA TailElems ==
  ASSUME NEW S, NEW s \in Seq(S), s # <<>>, NoDup(s)
  PROVE  /\ Tail(s) \in Seq(S)
         /\ Head(s) \in S
         /\ Head(s) = s[1]
         /\ Head(s) \in Elems(s)
         /\ Elems(Tail(s)) = Elems(s) \ {Head(s)}
         /\ NoDup(Tail(s))
<1> DEFINE t == Tail(s)
<1>1. /\ t \in Seq(S)
      /\ Len(s) \in Nat
      /\ Len(s) >= 1
      /\ Len(t) = Len(s) - 1
      /\ \A i \in 1..Len(t) : t[i] = s[i + 1]
      /\ Head(s) = s[1]
      /\ s[1] \in S
  BY SMTT(30)
<1> HIDE DEF t
<1>2. Head(s) \in Elems(s)
  BY <1>1, SMTT(30) DEF Elems
<1>3. ASSUME NEW x \in Elems(t)
      PROVE  x \in Elems(s) \ {Head(s)}
  <2>1. PICK i \in 1..Len(t) : x = t[i]
    BY <1>3 DEF Elems
  <2>2. /\ i + 1 \in 1..Len(s)
        /\ x = s[i + 1]
        /\ i + 1 # 1
        /\ 1 \in 1..Len(s)
    BY <1>1, <2>1, SMTT(30)
  <2>3. s[i + 1] # s[1]
    BY <2>2 DEF NoDup
  <2> QED
    BY <1>1, <2>2, <2>3 DEF Elems
<1>4. ASSUME NEW x \in Elems(s) \ {Head(s)}
      PROVE  x \in Elems(t)
  <2>1. PICK i \in 1..Len(s) : x = s[i]
    BY <1>4 DEF Elems
  <2>2. i # 1
    BY <1>1, <1>4, <2>1
  <2>3. i - 1 \in 1..Len(t) /\ t[i - 1] = s[(i - 1) + 1] /\ (i - 1) + 1 = i
    BY <1>1, <2>1, <2>2, SMTT(30)
  <2> QED
    BY <2>1, <2>3 DEF Elems
<1>5. NoDup(t)
  <2> SUFFICES ASSUME NEW i \in 1..Len(t), NEW j \in 1..Len(t), t[i] = t[j]
               PROVE  i = j
    BY DEF NoDup
  <2>1. i + 1 \in 1..Len(s) /\ j + 1 \in 1..Len(s) /\ s[i + 1] = s[j + 1]
    BY <1>1, SMTT(30)
  <2>2. i + 1 = j + 1
    BY <2>1 DEF NoDup
  <2> QED
    BY <1>1, <2>2, SMTT(30)
<1> QED
  BY <1>1, <1>2, <1>3, <1>4, <1>5 DEF t

(* Queueing several tasks one after the other.                             *)
LEMMA ConcatElems ==
  ASSUME NEW S, NEW s \in Seq(S), NEW t \in Seq(S)
  PROVE  /\ s \o t \in Seq(S)
         /\ Elems(s \o t) = Elems(s) \cup Elems(t)
         /\ (NoDup(s) /\ NoDup(t) /\ Elems(s) \cap Elems(t) = {}) => NoDup(s \o t)
<1> DEFINE c == s \o t
<1>1. /\ c \in Seq(S)
      /\ Len(s) \in Nat /\ Len(t) \in Nat
      /\ Len(c) = Len(s) + Len(t)
      /\ \A i \in 1..Len(s) : c[i] = s[i]
      /\ \A i \in 1..Len(t) : c[Len(s) + i] = t[i]
  BY SMTT(30)
<1> HIDE DEF c
<1>2. ASSUME NEW i \in 1..Len(c)
      PROVE  \/ i \in 1..Len(s) /\ c[i] = s[i]
             \/ i - Len(s) \in 1..Len(t) /\ c[i] = t[i - Len(s)]
  <2>1. CASE i \in 1..Len(s)
    BY <1>1, <2>1
  <2>2. CASE i \notin 1..Len(s)
    <3>1. i - Len(s) \in 1..Len(t) /\ Len(s) + (i - Len(s)) = i
      BY <1>1, <2>2, SMTT(30)
    <3> QED
      BY <1>1, <3>1
  <2> QED
    BY <2>1, <2>2
<1>3. Elems(c) \subseteq Elems(s) \cup Elems(t)
  BY <1>2 DEF Elems
<1>4. Elems(s) \subseteq Elems(c)
  BY <1>1, SMTT(30) DEF Elems
<1>5. Elems(t) \subseteq Elems(c)
  <2>1. \A i \in 1..Len(t) : Len(s) + i \in 1..Len(c)
    BY <1>1, SMTT(30)
  <2> QED
    BY <1>1, <2>1 DEF Elems
<1>6. ASSUME NoDup(s), NoDup(t), Elems(s) \cap Elems(t) = {}
      PROVE  NoDup(c)
  <2> SUFFICES ASSUME NEW i \in 1..Len(c), NEW j \in 1..Len(c), c[i] = c[j]
               PROVE  i = j
    BY DEF NoDup
  <2>1. CASE i \in 1..Len(s) /\ c[i] = s[i] /\ j \in 1..Len(s) /\ c[j] = s[j]
    BY <1>6, <2>1 DEF NoDup
  <2>2. CASE i - Len(s) \in 1..Len(t) /\ c[i] = t[i - Len(s)]
             /\ j - Len(s) \in 1..Len(t) /\ c[j] = t[j - Len(s)]
    <3>1. i - Len(s) = j - Len(s)
      BY <1>6, <2>2 DEF NoDup
    <3> QED
      BY <1>1, <3>1, SMTT(30)
  <2>3. CASE i \in 1..Len(s) /\ c[i] = s[i]
             /\ j - Len(s) \in 1..Len(t) /\ c[j] = t[j - Len(s)]
    BY <1>6, <2>3 DEF Elems
  <2>4. CASE j \in 1..Len(s) /\ c[j] = s[j]
             /\ i - Len(s) \in 1..Len(t) /\ c[i] = t[i - Len(s)]
    BY <1>6, <2>4 DEF Elems
  <2> QED
    BY <1>2, <2>1, <2>2, <2>3, <2>4
<1> QED
  BY <1>1, <1>3, <1>4, <1>5, <1>6 DEF c

(* The empty queue.                                                        *)
LEMMA EmptyElems == Elems(<<>>) = {} /\ NoDup(<<>>)
  BY SMTT(30) DEF Elems, NoDup

-----------------------------------------------------------------------------
Runnable == {"Ready", "Running"}
Live == {"Ready", "Running", "Sleeping", "Blocked"}

(* What IInv says of the idle and the reaper task.                         *)
KernelTasks ==
  /\ state[Idle] \in Runnable
  /\ pc[Idle] \in {"boot", "user"}
  /\ state[Reaper] \in Runnable \cup {"Sleeping"}
  /\ pc[Reaper] = "user"
  /\ \A t \in {Idle, Reaper} : children[t] = {} /\ parent[t] = None

(* A pid not handed out is unknown everywhere; a live task is in the       *)
(* table.                                                                  *)
TableMatchesState ==
  \A t \in Tasks :
    /\ state[t] = "New" => /\ t \notin table
                           /\ parent[t] = None
                           /\ children[t] = {}
                           /\ pc[t] = "user"
    /\ state[t] \in Live => t \in table

(* A task listed as a child names its live parent and has not been reaped; *)
(* a task that names a live parent and has not been reaped is listed.      *)
ChildrenMatchParents ==
  /\ \A p, c \in Tasks : c \in children[p] =>
       /\ c \in Users
       /\ parent[c] = p
       /\ c \in table
       /\ state[c] \in Live \cup {"Zombie"}
       /\ c \notin Elems(cleanupQueue)
       /\ state[p] \in Live
  /\ \A p, c \in Tasks : parent[c] = p =>
       /\ state[p] # "New"
       /\ (state[c] \in Live \cup {"Zombie"} /\ state[p] \in Live) => c \in children[p]

(* What wait relies on, before and after the parent is woken.              *)
WaitMatchesChildren ==
  \A p \in Tasks :
    /\ pc[p] # "panic"
    /\ p \in waiting => children[p] # {} /\ \A c \in children[p] : state[c] \in Live
    /\ (pc[p] = "wait" /\ p \notin waiting) =>
         /\ state[p] \in Runnable
         /\ \E c \in children[p] : state[c] = "Zombie"

(* What the reaper is going to free.                                       *)
CleanupIsDead ==
  /\ NoDup(cleanupQueue)
  /\ \A t \in Elems(cleanupQueue) :
       t \in Users /\ t \in table /\ state[t] \in {"Zombie", "Exited"}

IInv ==
  /\ TypeOK
  /\ RunQueueExact
  /\ BlockedIsRegistered
  /\ KernelTasks
  /\ TableMatchesState
  /\ ChildrenMatchParents
  /\ WaitMatchesChildren
  /\ CleanupIsDead

-----------------------------------------------------------------------------
(* What every caller of schedule() guarantees, and what it gets: the run   *)
(* queue is exact again, and states change only between Ready and Running. *)
Schedulable(st, q) ==
  /\ st \in [Tasks -> TaskStates]
  /\ q \in Seq(Tasks)
  /\ NoDup(q)
  /\ Idle \notin Elems(q)
  /\ st[Idle] \in Runnable
  /\ current # Idle => st[current] # "Ready"
  /\ \A t \in Tasks \ {Idle} :
       /\ t \in Elems(q) <=> st[t] = "Ready"
       /\ st[t] = "Running" => t = current

Scheduled(st) ==
  /\ current' \in Tasks
  /\ state' \in [Tasks -> TaskStates]
  /\ rq' \in Seq(Tasks)
  /\ slice' \in 0..Quantum
  /\ RunQueueExact'
  /\ \A t \in Tasks : IF st[t] \in Runnable THEN state'[t] \in Runnable
                                             ELSE state'[t] = st[t]

(* schedule() on an empty queue keeps the current task or runs the idle    *)
(* task.                                                                   *)
LEMMA ScheduleEmpty ==
  ASSUME NEW st, current \in Tasks, slice \in 0..Quantum,
         Schedulable(st, <<>>), Schedule(st, <<>>)
  PROVE  Scheduled(st)
<1> USE SchedAssumption DEF Tasks
<1>1. {i \in 1..Len(<<>>) : st[(<<>>)[i]] = "Ready"} = {}
  BY SMTT(30)
<1>2. /\ rq' = <<>>
      /\ IF st[current] \in {"Ready", "Running"}
         THEN /\ state' = [st EXCEPT ![current] = "Running"]
              /\ UNCHANGED <<current, slice>>
         ELSE /\ state' = [st EXCEPT ![Idle] = "Running"]
              /\ current' = Idle
              /\ slice' = 0
  BY <1>1 DEF Schedule
<1>3. /\ st \in [Tasks -> TaskStates]
      /\ st[Idle] \in {"Ready", "Running"}
      /\ current # Idle => st[current] # "Ready"
      /\ \A t \in Tasks \ {Idle} : st[t] # "Ready" /\ (st[t] = "Running" => t = current)
  BY EmptyElems DEF Schedulable, Runnable
<1>4. /\ current' \in Tasks
      /\ state' \in [Tasks -> TaskStates]
      /\ slice' \in 0..Quantum
  BY <1>2, <1>3, SMTT(30) DEF TaskStates
<1>5. \A t \in Tasks : IF st[t] \in Runnable THEN state'[t] \in Runnable
                                             ELSE state'[t] = st[t]
  BY <1>2, <1>3 DEF Runnable
<1>6. \A t \in Tasks \ {Idle} :
        /\ state'[t] # "Ready"
        /\ t = current' <=> state'[t] = "Running"
  BY <1>2, <1>3
<1>7. RunQueueExact'
  BY <1>2, <1>6, EmptyElems DEF RunQueueExact
<1> QED
  BY <1>2, <1>4, <1>5, <1>7, SMTT(30) DEF Scheduled

(* schedule() on a queue whose entries are all Ready runs its head.        *)
LEMMA ScheduleHead ==
  ASSUME NEW st, NEW q, q # <<>>, current \in Tasks, slice \in 0..Quantum,
         Schedulable(st, q), Schedule(st, q)
  PROVE  Scheduled(st)
<1> DEFINE new  == Head(q)
           rest == Tail(q)
           st1  == [st EXCEPT ![new] = "Running"]
           back == current # Idle /\ st1[current] \in {"Running", "Ready"}
<1> USE SchedAssumption
<1>1. /\ st \in [Tasks -> TaskStates]
      /\ q \in Seq(Tasks)
      /\ NoDup(q)
      /\ Idle \notin Elems(q)
      /\ st[Idle] \in {"Ready", "Running"}
      /\ current # Idle => st[current] # "Ready"
      /\ \A t \in Tasks \ {Idle} :
           /\ t \in Elems(q) <=> st[t] = "Ready"
           /\ st[t] = "Running" => t = current
  BY DEF Schedulable, Runnable
<1>2. /\ rest \in Seq(Tasks)
      /\ new \in Tasks
      /\ new = q[1]
      /\ new \in Elems(q)
      /\ Elems(rest) = Elems(q) \ {new}
      /\ NoDup(rest)
  BY <1>1, TailElems
<1>3. st[new] = "Ready" /\ new # Idle /\ new # current
  BY <1>1, <1>2
<1>4. \A i \in 1..Len(q) : st[q[i]] = "Ready"
  BY <1>1, SMTT(30) DEF Elems
<1>5. /\ {i \in 1..Len(q) : st[q[i]] = "Ready"} = 1..Len(q)
      /\ Len(q) \in Nat
      /\ 1 \in 1..Len(q)
  BY <1>1, <1>4, SMTT(30)
<1>6. PICK k \in 1..Len(q) :
        LET r    == SubSeq(q, k + 1, Len(q))
            st2  == [st EXCEPT ![q[k]] = "Running"]
            goes == current # Idle /\ st2[current] \in {"Running", "Ready"}
        IN  /\ \A j \in 1..Len(q) : k <= j
            /\ current' = q[k]
            /\ state' = IF goes THEN [st2 EXCEPT ![current] = "Ready"] ELSE st2
            /\ rq' = IF goes THEN Append(r, current) ELSE r
            /\ slice' = 0
  <2>1. 1..Len(q) # {}
    BY <1>5
  <2> QED
    BY <1>5, <2>1 DEF Schedule, GoesBack
<1>7. k = 1 /\ SubSeq(q, k + 1, Len(q)) = rest
  BY <1>1, <1>5, <1>6, SMTT(30)
<1>8. /\ current' = new
      /\ state' = IF back THEN [st1 EXCEPT ![current] = "Ready"] ELSE st1
      /\ rq' = IF back THEN Append(rest, current) ELSE rest
      /\ slice' = 0
  <2> HIDE DEF rest
  <2> QED
    BY <1>2, <1>6, <1>7
<1>9. back <=> current # Idle /\ st[current] = "Running"
  BY <1>1, <1>2, <1>3
<1>10. state' \in [Tasks -> TaskStates]
  BY <1>1, <1>2, <1>8 DEF TaskStates
<1> HIDE DEF rest, new
<1>11. /\ \A t \in Tasks : IF st[t] \in Runnable THEN state'[t] \in Runnable
                                                 ELSE state'[t] = st[t]
       /\ \A t \in Tasks \ {Idle} : t = current' <=> state'[t] = "Running"
       /\ \A t \in Tasks \ {Idle} :
            state'[t] = "Ready" <=> (st[t] = "Ready" /\ t # new) \/ (back /\ t = current)
  BY <1>1, <1>2, <1>3, <1>8, <1>9 DEF Runnable
<1> HIDE DEF back
<1>12. CASE back
  <2>1. current # Idle /\ current \notin Elems(rest)
    BY <1>1, <1>2, <1>9, <1>12
  <2>2. /\ rq' \in Seq(Tasks)
        /\ Elems(rq') = Elems(rest) \cup {current}
        /\ NoDup(rq')
    BY <1>2, <1>8, <1>12, <2>1, AppendElems, SMTT(30)
  <2>3. RunQueueExact'
    BY <1>1, <1>2, <1>8, <1>11, <1>12, <2>1, <2>2 DEF RunQueueExact
  <2> QED
    BY <1>2, <1>8, <1>10, <1>11, <2>2, <2>3, SMTT(30) DEF Scheduled
<1>13. CASE ~back
  <2>1. rq' = rest
    BY <1>8, <1>13
  <2>2. RunQueueExact'
    BY <1>1, <1>2, <1>8, <1>11, <1>13, <2>1 DEF RunQueueExact
  <2> QED
    BY <1>2, <1>8, <1>10, <1>11, <2>1, <2>2, SMTT(30) DEF Scheduled
<1> QED
  BY <1>12, <1>13

(* schedule() in general.                                                  *)
LEMMA ScheduleCorrect ==
  ASSUME NEW st, NEW q, current \in Tasks, slice \in 0..Quantum,
         Schedulable(st, q), Schedule(st, q)
  PROVE  Scheduled(st)
<1>1. CASE q = <<>>
  BY <1>1, ScheduleEmpty
<1>2. CASE q # <<>>
  BY <1>2, ScheduleHead
<1> QED
  BY <1>1, <1>2

(* schedule() touches tasks that are Ready or Running only.                *)
LEMMA ScheduleSparesRest ==
  ASSUME NEW st \in [Tasks -> TaskStates], NEW q \in Seq(Tasks), current \in Tasks,
         st[Idle] \in Runnable, Schedule(st, q)
  PROVE  \A t \in Tasks : /\ st[t] \notin Runnable => state'[t] = st[t]
                          /\ st[t] \in Runnable => state'[t] \in Runnable
<1> DEFINE ready == {i \in 1..Len(q) : st[q[i]] = "Ready"}
<1>1. CASE ready # {}
  <2>1. PICK k \in ready :
          LET st1 == [st EXCEPT ![q[k]] = "Running"]
          IN  state' = IF GoesBack(st1) THEN [st1 EXCEPT ![current] = "Ready"] ELSE st1
    BY <1>1 DEF Schedule
  <2> DEFINE st1  == [st EXCEPT ![q[k]] = "Running"]
             back == GoesBack(st1)
  <2>2. q[k] \in Tasks /\ st[q[k]] = "Ready"
    BY SMTT(30)
  <2>3. back => st1[current] \in Runnable
    BY DEF GoesBack, Runnable
  <2>4. state' = IF back THEN [st1 EXCEPT ![current] = "Ready"] ELSE st1
    BY <2>1
  <2> HIDE DEF back
  <2> QED
    BY <2>2, <2>3, <2>4 DEF Runnable
<1>2. CASE ready = {}
  <2>1. \/ state' = [st EXCEPT ![current] = "Running"] /\ st[current] \in Runnable
        \/ state' = [st EXCEPT ![Idle] = "Running"]
    BY <1>2 DEF Schedule, Runnable
  <2> QED
    BY <2>1 DEF Runnable
<1> QED
  BY <1>1, <1>2

-----------------------------------------------------------------------------
(* The states st and state' agree but for the choice of Ready or Running.  *)
SameKind(st) ==
  \A t \in Tasks :
    /\ state'[t] \in Runnable <=> st[t] \in Runnable
    /\ state'[t] \in Live <=> st[t] \in Live
    /\ state'[t] = "New" <=> st[t] = "New"
    /\ state'[t] = "Sleeping" <=> st[t] = "Sleeping"
    /\ state'[t] = "Blocked" <=> st[t] = "Blocked"
    /\ state'[t] = "Zombie" <=> st[t] = "Zombie"
    /\ state'[t] = "Exited" <=> st[t] = "Exited"

(* schedule() only chooses between Ready and Running.                      *)
LEMMA ScheduledKind ==
  ASSUME NEW st \in [Tasks -> TaskStates], Scheduled(st)
  PROVE  SameKind(st)
  BY DEF Scheduled, SameKind, Runnable, Live, TaskStates

(* The initial state: the boot path of kmain establishes the invariant.    *)
LEMMA InitIInv == Init => IInv
<1> SUFFICES ASSUME Init PROVE IInv
  OBVIOUS
<1> USE SchedAssumption DEF Init, Tasks
<1>1. TypeOK
  BY SMTT(30) DEF TypeOK, TaskStates
<1>2. Elems(rq) = {Reaper, Shell} /\ NoDup(rq)
  BY SMTT(30) DEF Elems, NoDup
<1>3. Elems(irqWait) = {} /\ Elems(cleanupQueue) = {} /\ NoDup(irqWait) /\ NoDup(cleanupQueue)
  BY EmptyElems
<1>4. RunQueueExact
  BY <1>2 DEF RunQueueExact
<1>5. BlockedIsRegistered
  BY <1>3 DEF BlockedIsRegistered
<1>6. KernelTasks /\ TableMatchesState
  BY DEF KernelTasks, TableMatchesState, Runnable, Live
<1>7. ChildrenMatchParents /\ WaitMatchesChildren
  BY DEF ChildrenMatchParents, WaitMatchesChildren, Live
<1>8. CleanupIsDead
  BY <1>3 DEF CleanupIsDead
<1> QED
  BY <1>1, <1>4, <1>5, <1>6, <1>7, <1>8 DEF IInv

(* The boot path's call of schedule().                                     *)
LEMMA BootStep == ASSUME IInv, Boot PROVE IInv'
<1> USE SchedAssumption DEF IInv
<1>1. Schedulable(state, rq)
  BY DEF Boot, Schedulable, TypeOK, RunQueueExact, KernelTasks
<1>2. Scheduled(state)
  BY <1>1, ScheduleCorrect DEF Boot, TypeOK
<1>3. SameKind(state)
  BY <1>2, ScheduledKind DEF TypeOK
<1>4. TypeOK'
  BY <1>2 DEF Boot, TypeOK, Scheduled, Tasks, sleepVars, familyVars, consoleVars
<1>5. RunQueueExact'
  BY <1>2 DEF Scheduled
<1>6. UNCHANGED <<sleeping, irqWait, waiting, parent, children, table, cleanupQueue>>
  BY DEF Boot, sleepVars, familyVars
<1>7. pc' = [pc EXCEPT ![Idle] = "user"] /\ pc[Idle] = "boot"
  BY DEF Boot
<1>8. /\ Idle \in Tasks /\ Reaper \in Tasks /\ Idle # Reaper
      /\ pc \in [Tasks -> {"boot", "user", "wait", "read", "spin", "panic"}]
  BY DEF Tasks, TypeOK
<1>9. BlockedIsRegistered'
  BY <1>3, <1>6, <1>7, <1>8 DEF BlockedIsRegistered, SameKind
<1>10. KernelTasks'
  BY <1>3, <1>6, <1>7, <1>8 DEF KernelTasks, SameKind, Runnable
<1>11. TableMatchesState'
  BY <1>3, <1>6, <1>7, <1>8 DEF TableMatchesState, SameKind
<1>12. ChildrenMatchParents'
  BY <1>3, <1>6, SMTT(30) DEF ChildrenMatchParents, SameKind
<1>13. WaitMatchesChildren'
  BY <1>3, <1>6, <1>7, <1>8, SMTT(30) DEF WaitMatchesChildren, SameKind, TypeOK
<1>14. CleanupIsDead'
  BY <1>3, <1>6 DEF CleanupIsDead, SameKind, Tasks
<1> QED
  BY <1>4, <1>5, <1>9, <1>10, <1>11, <1>12, <1>13, <1>14

(* A running user or reaper task is registered nowhere.                    *)
LEMMA CurrentFacts ==
  ASSUME IInv, current # Idle
  PROVE  /\ current \in Tasks
         /\ state[current] = "Running"
         /\ current \notin Elems(rq)
         /\ current \notin sleeping
         /\ current \notin waiting
         /\ current \notin Elems(irqWait)
         /\ current \notin Elems(cleanupQueue)
         /\ current \in table
<1>1. current \in Tasks /\ state[current] = "Running"
  BY DEF IInv, TypeOK, RunQueueExact
<1>2. current \notin sleeping /\ current \notin waiting /\ current \notin Elems(irqWait)
  BY <1>1 DEF IInv, BlockedIsRegistered
<1>3. current \notin Elems(rq)
  BY <1>1 DEF IInv, RunQueueExact
<1>4. current \notin Elems(cleanupQueue) /\ current \in table
  BY <1>1 DEF IInv, CleanupIsDead, TableMatchesState, Live
<1> QED
  BY <1>1, <1>2, <1>3, <1>4

(* Names and types every step uses.                                        *)
LEMMA Basics ==
  ASSUME IInv
  PROVE  /\ Idle \in Tasks /\ Reaper \in Tasks /\ Idle # Reaper
         /\ Users \subseteq Tasks /\ Idle \notin Users /\ Reaper \notin Users
         /\ None \notin Tasks
         /\ state \in [Tasks -> TaskStates]
         /\ pc \in [Tasks -> {"boot", "user", "wait", "read", "spin", "panic"}]
         /\ parent \in [Tasks -> Tasks \cup {None}]
         /\ children \in [Tasks -> SUBSET Tasks]
         /\ table \subseteq Tasks
         /\ waiting \subseteq Tasks
         /\ sleeping \subseteq Tasks
         /\ rq \in Seq(Tasks) /\ irqWait \in Seq(Tasks) /\ cleanupQueue \in Seq(Tasks)
         /\ Elems(rq) \subseteq Tasks
         /\ Elems(irqWait) \subseteq Tasks
         /\ Elems(cleanupQueue) \subseteq Tasks
  BY SchedAssumption, SMTT(30) DEF IInv, TypeOK, Tasks, Elems

(* A step that leaves the wait lists alone, and the tasks on them as they  *)
(* are, keeps every stopped task registered.                               *)
LEMMA RegistrationKept ==
  ASSUME BlockedIsRegistered,
         UNCHANGED <<waiting, irqWait, sleeping>>,
         \A t \in Tasks : /\ state'[t] = "Blocked" <=> state[t] = "Blocked"
                          /\ state'[t] = "Sleeping" <=> state[t] = "Sleeping",
         \A t \in waiting \cup Elems(irqWait) : pc'[t] = pc[t]
  PROVE  BlockedIsRegistered'
<1>1. waiting' = waiting /\ irqWait' = irqWait /\ sleeping' = sleeping
  OBVIOUS
<1>2. /\ {t \in Tasks : state'[t] = "Blocked"} = {t \in Tasks : state[t] = "Blocked"}
      /\ {t \in Tasks : state'[t] = "Sleeping"} = {t \in Tasks : state[t] = "Sleeping"}
  OBVIOUS
<1> QED
  BY <1>1, <1>2 DEF BlockedIsRegistered

(* A step that leaves the kernel tasks alone keeps what is said of them.   *)
LEMMA KernelTasksKept ==
  ASSUME KernelTasks,
         \A t \in {Idle, Reaper} : /\ state'[t] = state[t] /\ pc'[t] = pc[t]
                                   /\ children'[t] = children[t] /\ parent'[t] = parent[t]
  PROVE  KernelTasks'
BY DEF KernelTasks

(* A step that leaves the family fields alone and neither creates nor ends *)
(* a task keeps them consistent.                                           *)
LEMMA FamilyKept ==
  ASSUME ChildrenMatchParents,
         UNCHANGED <<parent, children, table, cleanupQueue>>,
         \A t \in Tasks : /\ state'[t] \in Live <=> state[t] \in Live
                          /\ state'[t] = "Zombie" <=> state[t] = "Zombie"
                          /\ state'[t] = "New" <=> state[t] = "New"
  PROVE  ChildrenMatchParents'
<1>1. parent' = parent /\ children' = children /\ table' = table /\ cleanupQueue' = cleanupQueue
  OBVIOUS
<1>2. ASSUME NEW p \in Tasks, NEW c \in Tasks, c \in children[p]
      PROVE  /\ c \in Users
             /\ parent[c] = p
             /\ c \in table
             /\ state'[c] \in Live \cup {"Zombie"}
             /\ c \notin Elems(cleanupQueue)
             /\ state'[p] \in Live
  BY <1>2 DEF ChildrenMatchParents
<1>3. ASSUME NEW p \in Tasks, NEW c \in Tasks, parent[c] = p
      PROVE  /\ state'[p] # "New"
             /\ (state'[c] \in Live \cup {"Zombie"} /\ state'[p] \in Live) => c \in children[p]
  BY <1>3 DEF ChildrenMatchParents
<1> QED
  BY <1>1, <1>2, <1>3 DEF ChildrenMatchParents

-----------------------------------------------------------------------------
(* Task creation and reaping from wait, which leave the running task       *)
(* running.                                                                *)

(* fork and spawn.                                                         *)
LEMMA CreateStep == ASSUME IInv, NEW c \in Users, NEW f \in Tasks, Create(c, f) PROVE IInv'
<1> USE DEF IInv
<1>1. current \in Users /\ current # Idle /\ state[c] = "New" /\ c \in Tasks /\ c # current
  BY Basics, CurrentFacts DEF Create, InUserMode, FreshPid
<1>2. /\ state' = [state EXCEPT ![c] = "Ready"]
      /\ rq' = Append(rq, c)
      /\ parent' = [parent EXCEPT ![c] = current]
      /\ children' = [children EXCEPT ![current] = @ \cup {c}]
      /\ table' = table \cup {c}
      /\ UNCHANGED <<current, pc, sleeping, irqWait, waiting, cleanupQueue>>
  BY DEF Create, sleepVars
<1>3. TypeOK'
  <2>1. rq' \in Seq(Tasks)
    BY <1>1, <1>2, AppendElems, Basics
  <2>2. /\ state' \in [Tasks -> TaskStates]
        /\ parent' \in [Tasks -> Tasks \cup {None}]
        /\ children' \in [Tasks -> SUBSET Tasks]
    BY <1>1, <1>2, Basics, SMTT(30) DEF TypeOK, TaskStates
  <2>3. table' \in SUBSET Tasks
    BY <1>1, <1>2, SMTT(30) DEF TypeOK
  <2>4. UNCHANGED <<left, slice, chars, locked>> /\ stdin' = [stdin EXCEPT ![c] = f]
    BY DEF Create, sleepVars
  <2>5. stdin' \in [Tasks -> Tasks]
    BY <1>1, <2>4, SMTT(30) DEF TypeOK
  <2> QED
    BY <1>2, <2>1, <2>2, <2>3, <2>4, <2>5 DEF TypeOK
<1>4. c \notin Elems(rq)
  BY <1>1, Basics DEF RunQueueExact
<1>5. Elems(rq') = Elems(rq) \cup {c} /\ NoDup(rq')
  BY <1>1, <1>2, <1>4, AppendElems, Basics, SMTT(30) DEF RunQueueExact
<1>6. RunQueueExact'
  BY <1>1, <1>2, <1>5, Basics DEF RunQueueExact
<1>7. BlockedIsRegistered'
  BY <1>1, <1>2, Basics DEF BlockedIsRegistered
<1>8. KernelTasks'
  BY <1>1, <1>2, Basics, SMTT(30) DEF KernelTasks
<1>9. /\ \A t \in Tasks \ {c} : state'[t] = state[t] /\ parent'[t] = parent[t]
      /\ state'[c] = "Ready" /\ parent'[c] = current
      /\ \A t \in Tasks \ {current} : children'[t] = children[t]
      /\ children'[current] = children[current] \cup {c}
      /\ state[current] = "Running"
      /\ current \in Tasks
      /\ children[c] = {}
      /\ c \notin table
      /\ pc[c] = "user"
  BY <1>1, <1>2, Basics, CurrentFacts DEF TableMatchesState
<1>10. TableMatchesState'
  BY <1>1, <1>2, <1>9 DEF TableMatchesState, Live
<1>11. c \notin Elems(cleanupQueue) /\ \A p \in Tasks : c \notin children[p]
  BY <1>1, <1>9 DEF CleanupIsDead, ChildrenMatchParents
<1>12. \A t \in Tasks : parent[t] # c
  BY <1>1 DEF ChildrenMatchParents
<1>13. ASSUME NEW p \in Tasks, NEW k \in Tasks, k \in children'[p]
       PROVE  /\ k \in Users
              /\ parent'[k] = p
              /\ k \in table'
              /\ state'[k] \in Live \cup {"Zombie"}
              /\ k \notin Elems(cleanupQueue')
              /\ state'[p] \in Live
  <2>1. CASE k = c
    BY <1>1, <1>2, <1>9, <1>11, <1>13, <2>1 DEF Live
  <2>2. CASE k # c
    <3>1. k \in children[p] /\ p # c
      BY <1>9, <1>13, <2>2, SMTT(30)
    <3> QED
      BY <1>2, <1>9, <2>2, <3>1, SMTT(30) DEF ChildrenMatchParents
  <2> QED
    BY <2>1, <2>2
<1>14. ASSUME NEW p \in Tasks, NEW k \in Tasks, parent'[k] = p
       PROVE  /\ state'[p] # "New"
              /\ (state'[k] \in Live \cup {"Zombie"} /\ state'[p] \in Live) => k \in children'[p]
  <2>1. CASE k = c
    BY <1>1, <1>9, <1>14, <2>1
  <2>2. CASE k # c
    <3>1. parent[k] = p /\ p # c
      BY <1>9, <1>12, <1>14, <2>2
    <3> QED
      BY <1>9, <2>2, <3>1, SMTT(30) DEF ChildrenMatchParents
  <2> QED
    BY <2>1, <2>2
<1>15. ChildrenMatchParents'
  BY <1>13, <1>14 DEF ChildrenMatchParents
<1>16. c \notin waiting /\ current \notin waiting /\ pc[current] = "user"
  BY <1>1, CurrentFacts DEF BlockedIsRegistered, Create, InUserMode
<1>17. WaitMatchesChildren'
  <2> SUFFICES ASSUME NEW p \in Tasks
               PROVE  /\ pc[p] # "panic"
                      /\ p \in waiting => children'[p] # {} /\ \A k \in children'[p] : state'[k] \in Live
                      /\ (pc[p] = "wait" /\ p \notin waiting) =>
                           /\ state'[p] \in Runnable
                           /\ \E k \in children'[p] : state'[k] = "Zombie"
    BY <1>2 DEF WaitMatchesChildren
  <2>1. p \in waiting => p # current
    BY <1>16
  <2>2. pc[p] = "wait" => p # current /\ p # c
    BY <1>9, <1>16
  <2>3. \A k \in children[p] : k \in Tasks /\ k # c
    BY <1>11, Basics
  <2> QED
    BY <1>9, <2>1, <2>2, <2>3, SMTT(30) DEF WaitMatchesChildren
<1>18. CleanupIsDead'
  BY <1>2, <1>9, <1>11, Basics DEF CleanupIsDead
<1> QED
  BY <1>3, <1>6, <1>7, <1>8, <1>10, <1>15, <1>17, <1>18

(* reap_zombie_child, from wait: the child is dead and goes to the reaper, *)
(* which nobody else has sent it to.                                       *)
LEMMA ReapStep ==
  ASSUME IInv, current \in Users, NEW c \in ZombieChildren(current), ReapZombieChild(c),
         pc[current] \in {"user", "wait"},
         pc' = [pc EXCEPT ![current] = "user"],
         UNCHANGED <<current, rq, sleeping, left, slice, irqWait, waiting, parent, table,
                     chars, stdin, locked>>
  PROVE  IInv'
<1> USE DEF IInv
<1>1. /\ c \in children[current] /\ c \in table /\ state[c] = "Zombie" /\ c \in Tasks
      /\ current # Idle
  BY Basics DEF ZombieChildren
<1>2. /\ children' = [children EXCEPT ![current] = @ \ {c}]
      /\ state' = [state EXCEPT ![c] = "Exited"]
      /\ cleanupQueue' = Append(cleanupQueue, c)
  BY DEF ReapZombieChild
<1>3. /\ c \in Users /\ parent[c] = current /\ c \notin Elems(cleanupQueue)
      /\ current \in Tasks /\ state[current] = "Running"
      /\ c # current
      /\ current \notin waiting
  BY <1>1, CurrentFacts DEF ChildrenMatchParents
<1>4. /\ cleanupQueue' \in Seq(Tasks)
      /\ Elems(cleanupQueue') = Elems(cleanupQueue) \cup {c}
      /\ NoDup(cleanupQueue')
  BY <1>1, <1>2, <1>3, AppendElems, Basics, SMTT(30) DEF CleanupIsDead
<1>5. TypeOK'
  BY <1>1, <1>2, <1>3, <1>4, Basics DEF TypeOK, TaskStates
<1>6. /\ \A t \in Tasks \ {c} : state'[t] = state[t]
      /\ state'[c] = "Exited"
      /\ \A t \in Tasks \ {current} : children'[t] = children[t] /\ pc'[t] = pc[t]
      /\ children'[current] = children[current] \ {c}
      /\ pc'[current] = "user"
  BY <1>1, <1>2, <1>3, Basics
<1>7. RunQueueExact'
  BY <1>1, <1>3, <1>6, Basics, SMTT(30) DEF RunQueueExact
<1>8. BlockedIsRegistered'
  <2>1. \A t \in Tasks : /\ state'[t] = "Blocked" <=> state[t] = "Blocked"
                         /\ state'[t] = "Sleeping" <=> state[t] = "Sleeping"
    BY <1>1, <1>6
  <2>2. waiting \cup Elems(irqWait) \subseteq Tasks \ {current}
    BY Basics, CurrentFacts
  <2> QED
    BY <1>6, <2>1, <2>2, RegistrationKept
<1>9. KernelTasks'
  <2>1. Idle \in Tasks \ {current, c} /\ Reaper \in Tasks \ {current, c}
    BY <1>3, Basics
  <2> QED
    BY <1>6, <2>1, KernelTasksKept
<1>10. TableMatchesState'
  BY <1>1, <1>3, <1>6, Basics, SMTT(30) DEF TableMatchesState, Live
<1>11. ChildrenMatchParents'
  <2>1. ASSUME NEW p \in Tasks, NEW k \in Tasks, k \in children'[p]
        PROVE  k \in children[p] /\ k # c /\ p # c
    <3>1. k \in children[p]
      BY <1>6, <2>1
    <3>2. k # c
      BY <1>3, <1>6, <2>1, <3>1, SMTT(30) DEF ChildrenMatchParents
    <3>3. p # c
      BY <1>1, <3>1 DEF ChildrenMatchParents, Live
    <3> QED
      BY <3>1, <3>2, <3>3
  <2>2. ASSUME NEW p \in Tasks, NEW k \in Tasks, k \in children'[p]
        PROVE  /\ k \in Users
               /\ parent'[k] = p
               /\ k \in table'
               /\ state'[k] \in Live \cup {"Zombie"}
               /\ k \notin Elems(cleanupQueue')
               /\ state'[p] \in Live
    BY <1>4, <1>6, <2>1, <2>2, SMTT(30) DEF ChildrenMatchParents
  <2>3. ASSUME NEW p \in Tasks, NEW k \in Tasks, parent'[k] = p
        PROVE  /\ state'[p] # "New"
               /\ (state'[k] \in Live \cup {"Zombie"} /\ state'[p] \in Live) => k \in children'[p]
    BY <1>6, <2>3, SMTT(30) DEF ChildrenMatchParents, Live
  <2> QED
    BY <2>2, <2>3 DEF ChildrenMatchParents
<1>12. WaitMatchesChildren'
  <2> SUFFICES ASSUME NEW p \in Tasks
               PROVE  /\ pc'[p] # "panic"
                      /\ p \in waiting => children'[p] # {} /\ \A k \in children'[p] : state'[k] \in Live
                      /\ (pc'[p] = "wait" /\ p \notin waiting) =>
                           /\ state'[p] \in Runnable
                           /\ \E k \in children'[p] : state'[k] = "Zombie"
    BY DEF WaitMatchesChildren
  <2>1. CASE p = current
    BY <1>3, <1>6, <2>1
  <2>2. CASE p # current
    <3>1. \A k \in children[p] : k \in Tasks /\ k # c
      BY <1>3, <2>2, Basics, SMTT(30) DEF ChildrenMatchParents
    <3>2. pc[p] = "wait" /\ p \notin waiting => p # c
      BY <1>1 DEF WaitMatchesChildren, Runnable
    <3> QED
      BY <1>6, <2>2, <3>1, <3>2, SMTT(30) DEF WaitMatchesChildren
  <2> QED
    BY <2>1, <2>2
<1>13. CleanupIsDead'
  BY <1>1, <1>3, <1>4, <1>6, Basics, SMTT(30) DEF CleanupIsDead
<1> QED
  BY <1>5, <1>7, <1>8, <1>9, <1>10, <1>11, <1>12, <1>13

(* wait that finds a zombie child at once.                                 *)
LEMMA WaitReapStep == ASSUME IInv, WaitReap PROVE IInv'
<1>1. PICK c \in ZombieChildren(current) : ReapZombieChild(c)
  BY DEF WaitReap
<1>2. pc' = [pc EXCEPT ![current] = "user"]
  BY Basics DEF WaitReap, InUserMode
<1> QED
  BY <1>1, <1>2, ReapStep DEF WaitReap, InUserMode, sleepVars, consoleVars

(* wait that goes on after a child's exit: there is a child to reap.       *)
LEMMA WaitResumeStep == ASSUME IInv, WaitResume PROVE IInv'
<1>1. current \in Users /\ pc[current] = "wait" /\ current \notin waiting /\ current \in Tasks
  BY Basics, CurrentFacts DEF WaitResume
<1>2. PICK k \in children[current] : state[k] = "Zombie"
  BY <1>1 DEF IInv, WaitMatchesChildren
<1>3. k \in ZombieChildren(current)
  BY <1>1, <1>2, Basics DEF IInv, ChildrenMatchParents, ZombieChildren
<1>4. /\ \E c \in ZombieChildren(current) : ReapZombieChild(c)
      /\ pc' = [pc EXCEPT ![current] = "user"]
  BY <1>3 DEF WaitResume
<1> QED
  BY <1>1, <1>4, ReapStep DEF WaitResume, sleepVars, consoleVars

-----------------------------------------------------------------------------
(* The steps that may switch tasks.                                        *)

(* A task that stops running may call schedule() with the queue as it is.  *)
LEMMA StopSchedulable ==
  ASSUME IInv, current # Idle, NEW k \in {"Blocked", "Sleeping", "Zombie"}
  PROVE  /\ Schedulable([state EXCEPT ![current] = k], rq)
         /\ [state EXCEPT ![current] = k] \in [Tasks -> TaskStates]
<1> DEFINE st == [state EXCEPT ![current] = k]
<1>1. /\ current \in Tasks /\ current \notin Elems(rq)
      /\ st \in [Tasks -> TaskStates]
      /\ st[current] = k
      /\ \A t \in Tasks \ {current} : st[t] = state[t]
  BY CurrentFacts, Basics DEF TaskStates
<1> HIDE DEF st
<1>2. Schedulable(st, rq)
  BY <1>1, Basics DEF Schedulable, IInv, RunQueueExact, KernelTasks
<1> QED
  BY <1>1, <1>2 DEF st

(* A task that blocks or sleeps where it is registered to be woken keeps   *)
(* the invariant.                                                          *)
LEMMA StopStep ==
  ASSUME IInv, current # Idle, NEW k \in {"Blocked", "Sleeping"}, TypeOK',
         current = Reaper => k = "Sleeping",
         Scheduled([state EXCEPT ![current] = k]),
         BlockedIsRegistered',
         UNCHANGED <<parent, children, table, cleanupQueue>>,
         \A t \in Tasks \ {current} : pc'[t] = pc[t] /\ (t \in waiting' <=> t \in waiting),
         pc'[current] \in {"user", "read", "wait"},
         current = Reaper => pc'[current] = "user",
         pc'[current] = "wait" <=> current \in waiting',
         current \in waiting' =>
           /\ children[current] # {}
           /\ \A c \in children[current] : state[c] # "Zombie"
  PROVE  IInv'
<1> DEFINE st == [state EXCEPT ![current] = k]
<1>1. /\ current \in Tasks /\ state[current] = "Running"
      /\ current \notin waiting /\ current \notin Elems(cleanupQueue) /\ current \in table
      /\ st \in [Tasks -> TaskStates]
      /\ st[current] = k
      /\ \A t \in Tasks \ {current} : st[t] = state[t]
  BY CurrentFacts, Basics DEF TaskStates
<1>2. SameKind(st) /\ RunQueueExact'
  BY <1>1, ScheduledKind DEF Scheduled
<1> HIDE DEF st
<1> USE DEF IInv
<1>3. \A t \in Tasks :
        /\ state'[t] \in Live <=> state[t] \in Live
        /\ t # current => (state'[t] \in Runnable <=> state[t] \in Runnable)
        /\ state'[t] = "New" <=> state[t] = "New"
        /\ state'[t] = "Zombie" <=> state[t] = "Zombie"
        /\ state'[t] = "Exited" <=> state[t] = "Exited"
        /\ t # current => (state'[t] = "Sleeping" <=> state[t] = "Sleeping")
  BY <1>1, <1>2 DEF SameKind, Live, Runnable
<1>4. state'[current] = k
  BY <1>1, <1>2 DEF SameKind
<1>5. KernelTasks'
  BY <1>1, <1>3, <1>4, Basics DEF KernelTasks, Runnable
<1>6. TableMatchesState'
  BY <1>1, <1>3 DEF TableMatchesState
<1>7. ChildrenMatchParents'
  BY <1>3, SMTT(30) DEF ChildrenMatchParents
<1>8. WaitMatchesChildren'
  <2> SUFFICES ASSUME NEW p \in Tasks
               PROVE  /\ pc'[p] # "panic"
                      /\ p \in waiting' => children[p] # {} /\ \A c \in children[p] : state'[c] \in Live
                      /\ (pc'[p] = "wait" /\ p \notin waiting') =>
                           /\ state'[p] \in Runnable
                           /\ \E c \in children[p] : state'[c] = "Zombie"
    BY DEF WaitMatchesChildren
  <2>1. CASE p = current
    <3>1. \A c \in children[current] : c \in Tasks /\ state[c] \in Live \cup {"Zombie"}
      BY <1>1, Basics, SMTT(30) DEF ChildrenMatchParents
    <3> QED
      BY <1>3, <2>1, <3>1
  <2>2. CASE p # current
    BY <1>3, <2>2, Basics DEF WaitMatchesChildren
  <2> QED
    BY <2>1, <2>2
<1>9. CleanupIsDead'
  BY <1>3, Basics DEF CleanupIsDead
<1> QED
  BY <1>2, <1>5, <1>6, <1>7, <1>8, <1>9

(* wait that blocks.                                                       *)
LEMMA WaitBlockStep == ASSUME IInv, WaitBlock PROVE IInv'
<1> DEFINE st == [state EXCEPT ![current] = "Blocked"]
<1>1. current \in Users /\ current # Idle /\ current # Reaper /\ current \in Tasks
  BY Basics DEF WaitBlock, InUserMode
<1>2. Schedulable(st, rq) /\ st \in [Tasks -> TaskStates]
  BY <1>1, StopSchedulable
<1>3. Scheduled(st)
  BY <1>1, <1>2, ScheduleCorrect DEF WaitBlock, IInv, TypeOK
<1>4. SameKind(st)
  BY <1>2, <1>3, ScheduledKind
<1>5. /\ waiting' = waiting \cup {current}
      /\ pc' = [pc EXCEPT ![current] = "wait"]
      /\ UNCHANGED <<sleeping, left, irqWait, parent, children, table, cleanupQueue,
                      chars, stdin, locked>>
      /\ children[current] # {}
      /\ ZombieChildren(current) = {}
  BY DEF WaitBlock, sleepVars, familyVars, consoleVars, ShouldBlock
<1>6. TypeOK'
  <2>1. TypeOK
    BY DEF IInv
  <2>2. pc' \in [Tasks -> {"boot", "user", "wait", "read", "spin", "panic"}]
        /\ waiting' \in SUBSET Tasks
    BY <1>1, <1>5, <2>1, SMTT(30) DEF TypeOK
  <2> QED
    BY <1>3, <1>5, <2>1, <2>2 DEF TypeOK, Scheduled
<1>7. \A t \in Tasks : st[t] = IF t = current THEN "Blocked" ELSE state[t]
  BY <1>1, Basics
<1>8. BlockedIsRegistered'
  <2>1. /\ \A t \in Tasks : state'[t] = "Blocked" <=> state[t] = "Blocked" \/ t = current
        /\ \A t \in Tasks : state'[t] = "Sleeping" <=> state[t] = "Sleeping"
    BY <1>1, <1>4, <1>7, CurrentFacts DEF SameKind
  <2>2. current \notin Elems(irqWait) /\ pc'[current] = "wait"
        /\ \A t \in Tasks \ {current} : pc'[t] = pc[t]
    BY <1>1, <1>5, CurrentFacts, Basics
  <2> QED
    BY <1>1, <1>5, <2>1, <2>2, Basics, SMTT(30) DEF IInv, BlockedIsRegistered
<1>9. \A c \in children[current] : state[c] # "Zombie"
  BY <1>1, <1>5, Basics DEF ZombieChildren, IInv, ChildrenMatchParents
<1>10. /\ \A t \in Tasks \ {current} : pc'[t] = pc[t] /\ (t \in waiting' <=> t \in waiting)
       /\ pc'[current] = "wait" /\ current \in waiting'
  BY <1>1, <1>5, Basics
<1> HIDE DEF st
<1>11. Scheduled([state EXCEPT ![current] = "Blocked"])
  BY <1>3 DEF st
<1> QED
  BY <1>1, <1>5, <1>6, <1>8, <1>9, <1>10, <1>11, StopStep

(* A console read that blocks on the UART interrupt.                       *)
LEMMA ReadBlockStep == ASSUME IInv, ReadBlock PROVE IInv'
<1> DEFINE st == [state EXCEPT ![current] = "Blocked"]
<1>1. current \in Users /\ current # Idle /\ current # Reaper /\ current \in Tasks /\ pc[current] = "read"
  BY Basics DEF ReadBlock
<1>2. Schedulable(st, rq) /\ st \in [Tasks -> TaskStates]
  BY <1>1, StopSchedulable
<1>3. Scheduled(st)
  BY <1>1, <1>2, ScheduleCorrect DEF ReadBlock, IInv, TypeOK
<1>4. SameKind(st)
  BY <1>2, <1>3, ScheduledKind
<1>5. /\ irqWait' = Append(irqWait, current)
      /\ chars' = 0
      /\ UNCHANGED <<pc, sleeping, left, waiting, parent, children, table, cleanupQueue,
                      stdin, locked>>
  BY DEF ReadBlock, sleepVars, familyVars
<1>6. current \notin Elems(irqWait) /\ current \notin waiting /\ current \notin sleeping
  BY <1>1, CurrentFacts
<1>7. /\ irqWait' \in Seq(Tasks)
      /\ Elems(irqWait') = Elems(irqWait) \cup {current}
      /\ NoDup(irqWait')
  BY <1>1, <1>5, <1>6, AppendElems, Basics, SMTT(30) DEF IInv, BlockedIsRegistered
<1>8. TypeOK'
  BY <1>1, <1>3, <1>5, <1>7, SchedAssumption, SMTT(30) DEF IInv, TypeOK, Scheduled
<1>9. \A t \in Tasks : st[t] = IF t = current THEN "Blocked" ELSE state[t]
  BY <1>1, Basics
<1>10. BlockedIsRegistered'
  <2>1. /\ \A t \in Tasks : state'[t] = "Blocked" <=> state[t] = "Blocked" \/ t = current
        /\ \A t \in Tasks : state'[t] = "Sleeping" <=> state[t] = "Sleeping"
    BY <1>1, <1>4, <1>9, CurrentFacts DEF SameKind
  <2> QED
    BY <1>1, <1>5, <1>6, <1>7, <2>1, Basics, SMTT(30) DEF IInv, BlockedIsRegistered
<1> HIDE DEF st
<1>11. Scheduled([state EXCEPT ![current] = "Blocked"])
  BY <1>3 DEF st
<1> QED
  BY <1>1, <1>5, <1>6, <1>8, <1>10, <1>11, StopStep

(* sys_sleep_ms.                                                           *)
LEMMA SleepStep == ASSUME IInv, Sleep PROVE IInv'
<1> DEFINE st == [state EXCEPT ![current] = "Sleeping"]
<1>1. current \in Users /\ current # Idle /\ current # Reaper /\ current \in Tasks /\ pc[current] = "user"
  BY Basics DEF Sleep, InUserMode
<1>2. Schedulable(st, rq) /\ st \in [Tasks -> TaskStates]
  BY <1>1, StopSchedulable
<1>3. PICK n \in 0..MaxSleep : SleepCurrentTask(state, n)
  BY DEF Sleep
<1>4. Scheduled(st)
  BY <1>1, <1>2, <1>3, ScheduleCorrect DEF SleepCurrentTask, IInv, TypeOK
<1>5. SameKind(st)
  BY <1>2, <1>4, ScheduledKind
<1>6. /\ sleeping' = sleeping \cup {current}
      /\ left' = [left EXCEPT ![current] = n]
      /\ UNCHANGED <<pc, irqWait, waiting, parent, children, table, cleanupQueue,
                      chars, stdin, locked>>
  BY <1>3 DEF Sleep, SleepCurrentTask, familyVars, consoleVars
<1>7. current \notin Elems(irqWait) /\ current \notin waiting /\ current \notin sleeping
  BY <1>1, CurrentFacts
<1>8. TypeOK'
  BY <1>1, <1>3, <1>4, <1>6, SMTT(30) DEF IInv, TypeOK, Scheduled
<1>9. \A t \in Tasks : st[t] = IF t = current THEN "Sleeping" ELSE state[t]
  BY <1>1, Basics
<1>10. BlockedIsRegistered'
  <2>1. /\ \A t \in Tasks : state'[t] = "Sleeping" <=> state[t] = "Sleeping" \/ t = current
        /\ \A t \in Tasks : state'[t] = "Blocked" <=> state[t] = "Blocked"
    BY <1>1, <1>5, <1>9, CurrentFacts DEF SameKind
  <2> QED
    BY <1>1, <1>6, <1>7, <2>1, Basics, SMTT(30) DEF IInv, BlockedIsRegistered
<1> HIDE DEF st
<1>11. Scheduled([state EXCEPT ![current] = "Sleeping"])
  BY <1>4 DEF st
<1> QED
  BY <1>1, <1>6, <1>7, <1>8, <1>10, <1>11, StopStep

(* A round of the reaper: what it frees is dead and unreachable.           *)
LEMMA ReaperStep == ASSUME IInv, ReaperRound PROVE IInv'
<1> DEFINE gone == Elems(cleanupQueue)
           s0 == [t \in Tasks |-> IF t \in gone THEN "Exited" ELSE state[t]]
           st == [s0 EXCEPT ![current] = "Sleeping"]
<1>1. current = Reaper /\ current # Idle /\ current \in Tasks /\ current \notin gone
  BY Basics, CurrentFacts DEF ReaperRound
<1>2. PICK n \in 0..MaxSleep : SleepCurrentTask(s0, n)
  BY DEF ReaperRound
<1>3. /\ st \in [Tasks -> TaskStates]
      /\ \A t \in Tasks : st[t] = IF t = current THEN "Sleeping"
                                    ELSE IF t \in gone THEN "Exited" ELSE state[t]
  BY <1>1, Basics DEF TaskStates
<1>4. /\ sleeping' = sleeping \cup {current}
      /\ left' = [left EXCEPT ![current] = n]
      /\ Schedule(st, rq)
      /\ table' = table \ gone
      /\ cleanupQueue' = <<>>
      /\ UNCHANGED <<pc, irqWait, waiting, parent, children, chars, stdin, locked>>
  BY <1>2 DEF ReaperRound, SleepCurrentTask, consoleVars
<1>5. \A t \in gone : t \in Users /\ t \in Tasks /\ state[t] \in {"Zombie", "Exited"}
  BY Basics DEF IInv, CleanupIsDead
<1> HIDE DEF gone, s0, st
<1>6. /\ current \notin Elems(rq) /\ current \notin Elems(irqWait)
      /\ current \notin waiting /\ current \notin sleeping
      /\ state[current] = "Running" /\ current \in table
  BY <1>1, CurrentFacts
<1>7. Schedulable(st, rq)
  BY <1>1, <1>3, <1>5, <1>6, Basics DEF Schedulable, IInv, RunQueueExact, KernelTasks, Runnable
<1>8. Scheduled(st)
  BY <1>4, <1>7, ScheduleCorrect DEF IInv, TypeOK
<1>9. SameKind(st) /\ RunQueueExact'
  BY <1>3, <1>8, ScheduledKind DEF Scheduled
<1>10. TypeOK'
  <2>1. /\ current' \in Tasks /\ state' \in [Tasks -> TaskStates]
        /\ rq' \in Seq(Tasks) /\ slice' \in 0..Quantum
    BY <1>8 DEF Scheduled
  <2>2. cleanupQueue' \in Seq(Tasks)
    BY <1>4, SMTT(30)
  <2>3. /\ sleeping' \subseteq Tasks /\ table' \subseteq Tasks
        /\ left' \in [Tasks -> 0..MaxSleep]
    BY <1>1, <1>4, Basics DEF IInv, TypeOK
  <2> QED
    BY <1>4, <2>1, <2>2, <2>3 DEF IInv, TypeOK
<1>11. \A t \in Tasks :
         /\ state'[t] \in Live <=> state[t] \in Live
         /\ t # current => (state'[t] \in Runnable <=> state[t] \in Runnable)
         /\ state'[t] = "New" <=> state[t] = "New"
         /\ state'[t] = "Blocked" <=> state[t] = "Blocked"
         /\ state'[t] = "Sleeping" <=> state[t] = "Sleeping" \/ t = current
         /\ state'[t] = "Zombie" <=> state[t] = "Zombie" /\ t \notin gone
  BY <1>1, <1>3, <1>5, <1>6, <1>9 DEF SameKind, Live, Runnable
<1> USE DEF IInv
<1>12. BlockedIsRegistered'
  <2>1. BlockedIsRegistered
    OBVIOUS
  <2> HIDE DEF IInv
  <2>2. waiting' = waiting /\ irqWait' = irqWait /\ pc' = pc
    BY <1>4
  <2>3. {t \in Tasks : state'[t] = "Blocked"} = {t \in Tasks : state[t] = "Blocked"}
    BY <1>11
  <2>4. sleeping' = {t \in Tasks : state'[t] = "Sleeping"}
    <3>1. sleeping = {t \in Tasks : state[t] = "Sleeping"}
      BY <2>1 DEF BlockedIsRegistered
    <3> QED
      BY <1>1, <1>4, <1>11, <3>1
  <2> QED
    BY <2>1, <2>2, <2>3, <2>4 DEF BlockedIsRegistered
<1>13. KernelTasks'
  BY <1>1, <1>4, <1>11, Basics DEF KernelTasks, Runnable
<1>14. TableMatchesState'
  BY <1>4, <1>5, <1>11 DEF TableMatchesState, Live
<1>15. \A p, c \in Tasks : c \in children[p] => c \notin gone
  BY DEF ChildrenMatchParents, gone
<1>16. ChildrenMatchParents'
  BY <1>4, <1>11, <1>15, EmptyElems DEF ChildrenMatchParents
<1>17. WaitMatchesChildren'
  <2>1. \A p \in Tasks : pc[p] = "wait" => p # current
    BY <1>1 DEF KernelTasks
  <2>2. \A p \in Tasks : \A c \in children[p] : c \in Tasks /\ c \notin gone
    BY <1>15, Basics
  <2> QED
    BY <1>4, <1>11, <2>1, <2>2, SMTT(30) DEF WaitMatchesChildren
<1>18. CleanupIsDead'
  BY <1>4, EmptyElems DEF CleanupIsDead
<1> QED
  BY <1>9, <1>10, <1>12, <1>13, <1>14, <1>16, <1>17, <1>18

(* exit: the zombie is left to a parent that will find it, or queued for   *)
(* the reaper; a waiting parent is woken.                                  *)
LEMMA ExitStep == ASSUME IInv, Exit PROVE IInv'
<1> DEFINE p == parent[current]
           zombie == MarkDead(state, current)
           wakes == WakesParent(current)
           st == IF wakes THEN [zombie EXCEPT ![p] = "Ready"] ELSE zombie
           q == IF wakes THEN Append(rq, p) ELSE rq
<1>1. /\ current \in Users /\ current # Idle /\ current # Reaper
      /\ current \in Tasks /\ pc[current] = "user"
  BY Basics DEF Exit, InUserMode
<1>2. /\ state[current] = "Running" /\ current \in table
      /\ current \notin Elems(rq) /\ current \notin sleeping /\ current \notin waiting
      /\ current \notin Elems(irqWait) /\ current \notin Elems(cleanupQueue)
  BY <1>1, CurrentFacts
<1>3. wakes <=> p \in table /\ p \in waiting
  BY DEF WakesParent, HasParent
<1>4. wakes => /\ p \in Tasks /\ p # current /\ p # Idle /\ p # Reaper /\ state[p] = "Blocked"
               /\ p \notin Elems(rq) /\ p \notin Elems(irqWait) /\ p \notin sleeping
               /\ pc[p] = "wait"
  <2> SUFFICES ASSUME wakes
               PROVE  /\ p \in Tasks /\ p # current /\ p # Idle /\ p # Reaper /\ state[p] = "Blocked"
                      /\ p \notin Elems(rq) /\ p \notin Elems(irqWait) /\ p \notin sleeping
                      /\ pc[p] = "wait"
    OBVIOUS
  <2> HIDE DEF p, wakes
  <2>1. p \in Tasks /\ state[p] = "Blocked" /\ p \notin Elems(irqWait) /\ p \notin sleeping /\ pc[p] = "wait"
    BY <1>3, Basics DEF IInv, BlockedIsRegistered
  <2>2. p # current /\ p # Idle /\ p # Reaper
    BY <1>2, <2>1 DEF IInv, KernelTasks, Runnable
  <2>3. p \notin Elems(rq)
    BY <2>1, <2>2 DEF IInv, RunQueueExact
  <2> QED
    BY <2>1, <2>2, <2>3
<1>5. /\ st \in [Tasks -> TaskStates]
      /\ \A t \in Tasks : st[t] = IF t = current THEN "Zombie"
                                    ELSE IF wakes /\ t = p THEN "Ready" ELSE state[t]
  <2> HIDE DEF p, wakes
  <2> QED
    BY <1>1, <1>4, Basics DEF MarkDead, TaskStates
<1>6. /\ Schedule(st, q)
      /\ children' = [children EXCEPT ![current] = {}]
      /\ waiting' = IF p \in table THEN waiting \ {p} ELSE waiting
      /\ cleanupQueue' = IF p \in table THEN cleanupQueue ELSE Append(cleanupQueue, current)
      /\ UNCHANGED <<pc, sleeping, left, irqWait, parent, table, chars, stdin, locked>>
  BY DEF Exit, HasParent, sleepVars, consoleVars
<1>7. /\ q \in Seq(Tasks)
      /\ NoDup(q)
      /\ Elems(q) = Elems(rq) \cup {t \in Tasks : wakes /\ t = p}
  <2> HIDE DEF p, wakes
  <2>1. CASE wakes
    BY <1>4, <2>1, AppendElems, Basics, SMTT(30) DEF IInv, RunQueueExact
  <2>2. CASE ~wakes
    BY <2>2, Basics DEF IInv, RunQueueExact
  <2> QED
    BY <2>1, <2>2
<1>8. p \in Tasks \cup {None}
  BY <1>1, Basics
<1> HIDE DEF p, wakes, st, q, zombie
<1>9. Schedulable(st, q)
  BY <1>1, <1>2, <1>4, <1>5, <1>7, Basics DEF Schedulable, IInv, RunQueueExact, KernelTasks
<1>10. Scheduled(st)
  BY <1>6, <1>9, ScheduleCorrect DEF IInv, TypeOK
<1>11. SameKind(st) /\ RunQueueExact'
  BY <1>5, <1>10, ScheduledKind DEF Scheduled
<1>12. \A t \in Tasks :
         /\ state'[t] \in Live <=> state[t] \in Live /\ t # current
         /\ state'[t] \in Runnable <=> (state[t] \in Runnable /\ t # current) \/ (wakes /\ t = p)
         /\ state'[t] = "New" <=> state[t] = "New"
         /\ state'[t] = "Blocked" <=> state[t] = "Blocked" /\ ~(wakes /\ t = p)
         /\ state'[t] = "Sleeping" <=> state[t] = "Sleeping"
         /\ state'[t] = "Zombie" <=> state[t] = "Zombie" \/ t = current
         /\ state'[t] = "Exited" <=> state[t] = "Exited"
  BY <1>1, <1>2, <1>4, <1>5, <1>11, SMTT(30) DEF SameKind, Live, Runnable
<1>13. /\ cleanupQueue' \in Seq(Tasks)
       /\ NoDup(cleanupQueue')
       /\ Elems(cleanupQueue') = Elems(cleanupQueue) \cup {t \in {current} : p \notin table}
  <2>1. CASE p \in table
    BY <1>6, <2>1, Basics DEF IInv, CleanupIsDead
  <2>2. CASE p \notin table
    BY <1>1, <1>2, <1>6, <2>2, AppendElems, Basics, SMTT(30) DEF IInv, CleanupIsDead
  <2> QED
    BY <2>1, <2>2
<1>14. /\ children'[current] = {}
       /\ \A t \in Tasks \ {current} : children'[t] = children[t]
       /\ waiting' = {t \in waiting : ~(wakes /\ t = p)}
  BY <1>1, <1>3, <1>6, Basics
<1>15. TypeOK'
  <2>1. /\ current' \in Tasks /\ state' \in [Tasks -> TaskStates]
        /\ rq' \in Seq(Tasks) /\ slice' \in 0..Quantum
    BY <1>10 DEF Scheduled
  <2>2. children' \in [Tasks -> SUBSET Tasks] /\ waiting' \subseteq Tasks
    BY <1>6, <1>14, Basics
  <2> QED
    BY <1>6, <1>13, <2>1, <2>2 DEF IInv, TypeOK
<1> USE DEF IInv
<1>16. BlockedIsRegistered'
  <2>1. irqWait' = irqWait /\ sleeping' = sleeping /\ pc' = pc
    BY <1>6
  <2>2. waiting' \cap Elems(irqWait) = {} /\ \A t \in waiting' : pc[t] = "wait"
    BY <1>14 DEF BlockedIsRegistered
  <2>3. waiting' \cup Elems(irqWait) = {t \in Tasks : state'[t] = "Blocked"}
    <3>1. waiting \cup Elems(irqWait) = {t \in Tasks : state[t] = "Blocked"}
      BY DEF BlockedIsRegistered
    <3>2. \A t \in Tasks : state'[t] = "Blocked" <=> state[t] = "Blocked" /\ ~(wakes /\ t = p)
      BY <1>12
    <3>3. wakes => p \notin Elems(irqWait)
      BY <1>4
    <3> QED
      BY <1>14, <3>1, <3>2, <3>3
  <2>4. sleeping = {t \in Tasks : state'[t] = "Sleeping"}
    BY <1>12 DEF BlockedIsRegistered
  <2> QED
    BY <2>1, <2>2, <2>3, <2>4 DEF BlockedIsRegistered
<1>17. KernelTasks'
  <2>1. pc' = pc /\ parent' = parent
    BY <1>6
  <2>2. Idle \in Tasks \ {current} /\ Reaper \in Tasks \ {current}
    BY <1>1, Basics
  <2>3. /\ state[Idle] \in Runnable /\ state[Reaper] \in Runnable \cup {"Sleeping"}
        /\ pc[Idle] \in {"boot", "user"} /\ pc[Reaper] = "user"
        /\ \A t \in {Idle, Reaper} : children[t] = {} /\ parent[t] = None
    BY DEF KernelTasks
  <2> HIDE DEF IInv
  <2>4. state'[Idle] \in Runnable
    BY <1>12, <2>2, <2>3
  <2>5. CASE state[Reaper] \in Runnable
    <3>1. state'[Reaper] \in Runnable
      BY <1>12, <2>2, <2>5
    <3> QED
      BY <2>1, <2>2, <2>3, <2>4, <1>14, <3>1 DEF KernelTasks
  <2>6. CASE state[Reaper] = "Sleeping"
    <3>1. state'[Reaper] = "Sleeping"
      BY <1>12, <2>2, <2>6
    <3> QED
      BY <2>1, <2>2, <2>3, <2>4, <1>14, <3>1 DEF KernelTasks
  <2> QED
    BY <2>3, <2>5, <2>6
<1>18. TableMatchesState'
  <2>1. pc' = pc /\ parent' = parent /\ table' = table
    BY <1>6
  <2> SUFFICES ASSUME NEW t \in Tasks
               PROVE  /\ state'[t] = "New" => /\ t \notin table /\ parent[t] = None
                                              /\ children'[t] = {} /\ pc[t] = "user"
                      /\ state'[t] \in Live => t \in table
    BY <2>1 DEF TableMatchesState
  <2>2. /\ state[t] = "New" => /\ t \notin table /\ parent[t] = None
                               /\ children[t] = {} /\ pc[t] = "user"
        /\ state[t] \in Live => t \in table
    BY DEF TableMatchesState
  <2> HIDE DEF IInv
  <2>3. state'[t] = "New" => state[t] = "New" /\ t # current
    BY <1>2, <1>12
  <2>4. state'[t] \in Live => state[t] \in Live
    BY <1>12
  <2> QED
    BY <1>14, <2>2, <2>3, <2>4
<1>19. \A t \in Tasks : current \in children[t] => t = p /\ p \in table
  <2>1. \A t \in Tasks : current \in children[t] => parent[current] = t /\ state[t] \in Live
    BY <1>1 DEF ChildrenMatchParents
  <2> QED
    BY <2>1 DEF TableMatchesState, p
<1>20. ChildrenMatchParents'
  <2>1. ASSUME NEW a \in Tasks, NEW c \in Tasks, c \in children'[a]
        PROVE  /\ c \in Users
               /\ parent'[c] = a
               /\ c \in table'
               /\ state'[c] \in Live \cup {"Zombie"}
               /\ c \notin Elems(cleanupQueue')
               /\ state'[a] \in Live
    <3>1. a # current /\ c \in children[a]
      BY <1>14, <2>1
    <3>2. c \notin Elems(cleanupQueue')
      BY <1>13, <1>19, <3>1, SMTT(30) DEF ChildrenMatchParents
    <3> QED
      BY <1>6, <1>12, <3>1, <3>2 DEF ChildrenMatchParents
  <2>2. ASSUME NEW a \in Tasks, NEW c \in Tasks, parent'[c] = a
        PROVE  /\ state'[a] # "New"
               /\ (state'[c] \in Live \cup {"Zombie"} /\ state'[a] \in Live) => c \in children'[a]
    BY <1>2, <1>6, <1>12, <1>14, <2>2, SMTT(30) DEF ChildrenMatchParents, Live
  <2> QED
    BY <2>1, <2>2 DEF ChildrenMatchParents
<1>21. WaitMatchesChildren'
  <2> SUFFICES ASSUME NEW a \in Tasks
               PROVE  /\ pc[a] # "panic"
                      /\ a \in waiting' => children'[a] # {} /\ \A c \in children'[a] : state'[c] \in Live
                      /\ (pc[a] = "wait" /\ a \notin waiting') =>
                           /\ state'[a] \in Runnable
                           /\ \E c \in children'[a] : state'[c] = "Zombie"
    BY <1>6 DEF WaitMatchesChildren
  <2>1. CASE a = current
    BY <1>1, <1>2, <1>14, <2>1
  <2>2. CASE a # current /\ wakes /\ a = p
    <3>1. current \in children[a]
      BY <1>1, <1>2, <1>4, <2>2 DEF ChildrenMatchParents, Live, p
    <3> QED
      BY <1>1, <1>4, <1>12, <1>14, <2>2, <3>1
  <2>3. CASE a # current /\ ~(wakes /\ a = p)
    <3>1. a \in waiting' <=> a \in waiting
      BY <1>14, <2>3
    <3>2. a \in waiting => current \notin children[a]
      BY <1>3, <1>19, <2>3
    <3>3. children'[a] = children[a] /\ \A c \in children[a] : c \in Tasks
      BY <1>14, <2>3, Basics
    <3> QED
      BY <1>12, <2>3, <3>1, <3>2, <3>3 DEF WaitMatchesChildren
  <2> QED
    BY <2>1, <2>2, <2>3
<1>22. CleanupIsDead'
  BY <1>1, <1>2, <1>6, <1>12, <1>13, Basics DEF CleanupIsDead
<1> QED
  BY <1>11, <1>15, <1>16, <1>17, <1>18, <1>20, <1>21, <1>22

(* The timer interrupt: due sleepers become Ready and are queued.          *)
LEMMA TimerStep == ASSUME IInv, TimerInterrupt PROVE IInv'
<1> DEFINE due   == {t \in sleeping : left[t] = 0}
           woken == {t \in due : Upgrades(t)}
           st    == [t \in Tasks |-> IF t \in woken THEN "Ready" ELSE state[t]]
<1>1. PICK order \in Orders(woken), over \in BOOLEAN :
         IF NeedsSchedule(over, woken, rq \o order)
         THEN Schedule(st, rq \o order)
         ELSE /\ slice' = IF slice < Quantum THEN slice + 1 ELSE slice
              /\ UNCHANGED <<current, state, rq>>
  BY DEF TimerInterrupt
<1>2. /\ sleeping' = sleeping \ due
      /\ left' = [t \in Tasks |-> IF left[t] = 0 THEN 0 ELSE left[t] - 1]
      /\ UNCHANGED <<pc, irqWait, waiting, parent, children, table, cleanupQueue,
                     chars, stdin, locked>>
  BY DEF TimerInterrupt, familyVars, consoleVars
<1>3. woken = due /\ woken \subseteq Tasks /\ \A t \in woken : state[t] = "Sleeping"
  BY Basics DEF Upgrades, IInv, BlockedIsRegistered, TableMatchesState, Live
<1>5. /\ st \in [Tasks -> TaskStates]
      /\ \A t \in Tasks : st[t] = IF t \in woken THEN "Ready" ELSE state[t]
  BY Basics DEF TaskStates
<1>6. woken # {} => NeedsSchedule(over, woken, rq \o order)
  BY DEF NeedsSchedule
<1>7. sleeping' = sleeping \ woken
  BY <1>2, <1>3
<1> HIDE DEF due, woken, st
<1>8. order \in Seq(Tasks) /\ Elems(order) = woken /\ NoDup(order)
  BY <1>3, SMTT(30) DEF Orders
<1>9. Elems(rq) \cap woken = {}
  BY <1>3, Basics DEF IInv, RunQueueExact, KernelTasks, Runnable
<1>10. /\ rq \o order \in Seq(Tasks)
       /\ Elems(rq \o order) = Elems(rq) \cup woken
       /\ NoDup(rq \o order)
  BY <1>8, <1>9, ConcatElems, Basics, SMTT(30) DEF IInv, RunQueueExact
<1>11. Schedulable(st, rq \o order)
  BY <1>3, <1>5, <1>10, CurrentFacts, Basics DEF Schedulable, IInv, RunQueueExact, KernelTasks, Runnable
<1>12. /\ current' \in Tasks /\ state' \in [Tasks -> TaskStates]
       /\ rq' \in Seq(Tasks) /\ slice' \in 0..Quantum
       /\ RunQueueExact' /\ SameKind(st)
  <2>1. CASE NeedsSchedule(over, woken, rq \o order)
    <3>1. Scheduled(st)
      BY <1>1, <1>11, <2>1, ScheduleCorrect DEF IInv, TypeOK
    <3> QED
      BY <1>5, <3>1, ScheduledKind DEF Scheduled
  <2>2. CASE ~NeedsSchedule(over, woken, rq \o order)
    <3>1. woken = {} /\ UNCHANGED <<current, state, rq>>
          /\ slice' = IF slice < Quantum THEN slice + 1 ELSE slice
      BY <1>1, <1>6, <2>2
    <3>2. st = state
      BY <1>5, <3>1, Basics, SMTT(30)
    <3>3. slice' \in 0..Quantum
      BY <3>1, SchedAssumption, SMTT(30) DEF IInv, TypeOK
    <3> QED
      BY <3>1, <3>2, <3>3 DEF SameKind, IInv, TypeOK, RunQueueExact
  <2> QED
    BY <2>1, <2>2
<1>13. \A t \in Tasks :
         /\ state'[t] \in Live <=> state[t] \in Live
         /\ state'[t] \in Runnable <=> state[t] \in Runnable \/ t \in woken
         /\ state'[t] = "New" <=> state[t] = "New"
         /\ state'[t] = "Blocked" <=> state[t] = "Blocked"
         /\ state'[t] = "Sleeping" <=> state[t] = "Sleeping" /\ t \notin woken
         /\ state'[t] = "Zombie" <=> state[t] = "Zombie"
         /\ state'[t] = "Exited" <=> state[t] = "Exited"
  BY <1>3, <1>5, <1>12 DEF SameKind, Live, Runnable
<1>14. TypeOK'
  <2>1. left' \in [Tasks -> 0..MaxSleep]
    BY <1>2, SchedAssumption, SMTT(30) DEF IInv, TypeOK
  <2>2. sleeping' \subseteq Tasks
    BY <1>7, Basics DEF IInv, TypeOK
  <2> QED
    BY <1>2, <1>12, <2>1, <2>2 DEF IInv, TypeOK
<1> USE DEF IInv
<1>15. BlockedIsRegistered'
  BY <1>2, <1>7, <1>13 DEF BlockedIsRegistered
<1>16. KernelTasks'
  BY <1>2, <1>13, Basics DEF KernelTasks, Runnable
<1>17. TableMatchesState'
  BY <1>2, <1>13 DEF TableMatchesState
<1>18. ChildrenMatchParents'
  BY <1>2, <1>13, FamilyKept
<1>19. WaitMatchesChildren'
  BY <1>2, <1>13, Basics DEF WaitMatchesChildren
<1>20. CleanupIsDead'
  BY <1>2, <1>13, Basics DEF CleanupIsDead
<1> QED
  BY <1>12, <1>14, <1>15, <1>16, <1>17, <1>18, <1>19, <1>20

-----------------------------------------------------------------------------
(* The console.                                                            *)

(* Steps that leave everything but the places of running tasks and the     *)
(* console alone.                                                          *)
LEMMA ConsoleStep ==
  ASSUME IInv, TypeOK', current \in Users, pc[current] # "wait",
         NEW where \in {"user", "read", "spin"},
         pc' = [pc EXCEPT ![current] = where],
         UNCHANGED <<current, state, rq, slice, sleeping, left, irqWait, waiting,
                     parent, children, table, cleanupQueue>>
  PROVE  IInv'
<1> USE DEF IInv
<1>1. /\ current \in Tasks /\ current # Idle /\ state[current] = "Running"
      /\ current \notin waiting /\ current \notin Elems(irqWait)
      /\ pc'[current] = where
      /\ \A t \in Tasks \ {current} : pc'[t] = pc[t]
  BY Basics, CurrentFacts
<1>2. RunQueueExact'
  BY DEF RunQueueExact
<1>3. BlockedIsRegistered'
  BY <1>1, Basics DEF BlockedIsRegistered
<1>4. KernelTasks'
  BY <1>1, Basics DEF KernelTasks
<1>5. TableMatchesState' /\ ChildrenMatchParents' /\ CleanupIsDead'
  BY <1>1, SMTT(30) DEF TableMatchesState, ChildrenMatchParents, CleanupIsDead
<1>6. WaitMatchesChildren'
  BY <1>1 DEF WaitMatchesChildren
<1> QED
  BY <1>2, <1>3, <1>4, <1>5, <1>6

(* sys_read takes the lock of the file, or starts to spin for it.          *)
LEMMA SysReadStep == ASSUME IInv, SysRead PROVE IInv'
<1>1. TypeOK'
  BY Basics DEF IInv, TypeOK, SysRead, InUserMode, schedVars, sleepVars, familyVars
<1>2. CASE stdin[current] \in locked
  BY <1>1, <1>2, ConsoleStep DEF SysRead, InUserMode, schedVars, sleepVars, familyVars
<1>3. CASE stdin[current] \notin locked
  BY <1>1, <1>3, ConsoleStep DEF SysRead, InUserMode, schedVars, sleepVars, familyVars
<1> QED
  BY <1>2, <1>3

(* A console read that completes.                                          *)
LEMMA ReadReturnStep == ASSUME IInv, ReadReturn PROVE IInv'
<1>1. TypeOK'
  <2>1. chars' \in 0..(BUF_SIZE - 1)
    BY SchedAssumption, SMTT(30) DEF IInv, TypeOK, ReadReturn
  <2> QED
    BY <2>1, Basics DEF IInv, TypeOK, ReadReturn, schedVars, sleepVars, familyVars
<1> QED
  BY <1>1, ConsoleStep DEF ReadReturn, schedVars, sleepVars, familyVars

(* A UART interrupt that wakes a reader.                                   *)
LEMMA UartIrqStep == ASSUME IInv, UartIrq PROVE IInv'
<1> USE DEF IInv
<1>1. chars' \in 0..(BUF_SIZE - 1)
  <2>1. PICK n \in 1..MaxBurst : chars' = (chars + n) % BUF_SIZE
    BY DEF UartIrq, RingAfter
  <2>2. chars + n \in Nat /\ BUF_SIZE \in Nat \ {0}
    BY SchedAssumption, SMTT(30) DEF TypeOK
  <2> QED
    BY <2>1, <2>2, SMTT(30)
<1>2. UNCHANGED <<current, pc, sleeping, left, slice, waiting, parent, children, table,
                  cleanupQueue, stdin, locked>>
  BY DEF UartIrq, sleepVars, familyVars
<1>3. CASE irqWait = <<>>
  <2>1. UNCHANGED <<state, rq, irqWait>>
    BY <1>3 DEF UartIrq, PopFront
  <2>2. TypeOK'
    BY <1>1, <1>2, <2>1 DEF TypeOK
  <2> QED
    BY <1>2, <2>1, <2>2, SMTT(30) DEF RunQueueExact, BlockedIsRegistered, KernelTasks,
       TableMatchesState, ChildrenMatchParents, WaitMatchesChildren, CleanupIsDead
<1>4. CASE irqWait # <<>>
  <2> DEFINE r == Head(irqWait)
  <2>1. /\ irqWait' \in Seq(Tasks)
        /\ r \in Elems(irqWait) /\ r \in Tasks
        /\ Elems(irqWait') = Elems(irqWait) \ {r}
        /\ NoDup(irqWait')
    BY <1>4, TailElems, Basics DEF UartIrq, PopFront, BlockedIsRegistered
  <2>2. /\ state[r] = "Blocked" /\ pc[r] = "read" /\ r \notin waiting
        /\ r # Idle /\ r # Reaper /\ r # current
    BY <2>1, Basics, CurrentFacts DEF BlockedIsRegistered, KernelTasks, Runnable
  <2>3. r \in table
    BY <2>1, <2>2 DEF TableMatchesState, Live
  <2>4. state' = [state EXCEPT ![r] = "Ready"] /\ rq' = Append(rq, r)
    BY <1>4, <2>3 DEF UartIrq, Upgrades
  <2> HIDE DEF r
  <2>5. /\ \A t \in Tasks \ {r} : state'[t] = state[t]
        /\ state'[r] = "Ready"
    BY <2>1, <2>4, Basics
  <2>6. r \notin Elems(rq)
    BY <2>1, <2>2 DEF RunQueueExact
  <2>7. rq' \in Seq(Tasks) /\ Elems(rq') = Elems(rq) \cup {r} /\ NoDup(rq')
    BY <2>1, <2>4, <2>6, AppendElems, Basics, SMTT(30) DEF RunQueueExact
  <2>8. TypeOK'
    BY <1>1, <1>2, <2>1, <2>4, <2>7, Basics DEF TypeOK, TaskStates
  <2>9. RunQueueExact'
    BY <1>2, <2>1, <2>2, <2>5, <2>7, Basics DEF RunQueueExact
  <2>10. BlockedIsRegistered'
    BY <1>2, <2>1, <2>2, <2>5, Basics DEF BlockedIsRegistered
  <2>11. KernelTasks'
    BY <1>2, <2>2, <2>5, Basics DEF KernelTasks
  <2>12. TableMatchesState'
    BY <1>2, <2>3, <2>5 DEF TableMatchesState, Live
  <2>13. ChildrenMatchParents'
    BY <1>2, <2>2, <2>5, SMTT(30) DEF ChildrenMatchParents, Live
  <2>14. WaitMatchesChildren'
    <3>1. \A p, k \in Tasks : k \in children[p] =>
            /\ state[k] \in Live => state'[k] \in Live
            /\ state[k] = "Zombie" => state'[k] = "Zombie"
      BY <2>2, <2>5 DEF Live
    <3>2. \A p \in Tasks : state[p] \in Runnable => state'[p] \in Runnable
      BY <2>5 DEF Runnable
    <3> QED
      BY <1>2, <3>1, <3>2, Basics DEF WaitMatchesChildren
  <2>15. CleanupIsDead'
    BY <1>2, <2>2, <2>5, Basics DEF CleanupIsDead
  <2> QED
    BY <2>8, <2>9, <2>10, <2>11, <2>12, <2>13, <2>14, <2>15
<1> QED
  BY <1>3, <1>4

-----------------------------------------------------------------------------
(* All steps.                                                              *)

(* Every step of the kernel preserves IInv.                                *)
LEMMA NextIInv == IInv /\ [Next]_vars => IInv'
<1> SUFFICES ASSUME IInv, [Next]_vars PROVE IInv'
  OBVIOUS
<1>1. CASE Boot
  BY <1>1, BootStep
<1>2. ASSUME NEW c \in Users, Fork(c) PROVE IInv'
  <2>1. stdin[current] \in Tasks
    BY DEF IInv, TypeOK
  <2> QED
    BY <1>2, <2>1, CreateStep DEF Fork
<1>3. ASSUME NEW c \in Users, Spawn(c) PROVE IInv'
  <2>1. c \in Tasks
    BY Basics
  <2> QED
    BY <1>3, <2>1, CreateStep DEF Spawn
<1>4. CASE Exit
  BY <1>4, ExitStep
<1>5. CASE WaitReap
  BY <1>5, WaitReapStep
<1>6. CASE WaitBlock
  BY <1>6, WaitBlockStep
<1>7. CASE WaitResume
  BY <1>7, WaitResumeStep
<1>8. CASE Sleep
  BY <1>8, SleepStep
<1>9. CASE ReaperRound
  BY <1>9, ReaperStep
<1>10. CASE SysRead
  BY <1>10, SysReadStep
<1>11. CASE Spin \/ UNCHANGED vars
  <2>1. UNCHANGED <<current, state, pc, rq, sleeping, left, slice, irqWait, waiting, parent,
                    children, table, cleanupQueue, chars, stdin, locked>>
    BY <1>11 DEF Spin, vars
  <2>2. TypeOK' /\ RunQueueExact' /\ BlockedIsRegistered'
    BY <2>1 DEF IInv, TypeOK, RunQueueExact, BlockedIsRegistered
  <2>3. KernelTasks' /\ TableMatchesState' /\ CleanupIsDead'
    BY <2>1 DEF IInv, KernelTasks, TableMatchesState, CleanupIsDead
  <2>4. ChildrenMatchParents'
    BY <2>1, FamilyKept DEF IInv
  <2>5. WaitMatchesChildren'
    BY <2>1 DEF IInv, WaitMatchesChildren
  <2> QED
    BY <2>2, <2>3, <2>4, <2>5 DEF IInv
<1>12. CASE ReadReturn
  BY <1>12, ReadReturnStep
<1>13. CASE ReadBlock
  BY <1>13, ReadBlockStep
<1>14. CASE UartIrq
  BY <1>14, UartIrqStep
<1>15. CASE TimerInterrupt
  BY <1>15, TimerStep
<1> QED
  BY <1>1, <1>2, <1>3, <1>4, <1>5, <1>6, <1>7, <1>8, <1>9, <1>10, <1>11, <1>12, <1>13,
     <1>14, <1>15 DEF Next

(* The inductive invariant holds in every reachable state.                 *)
THEOREM Inductive == Spec => []IInv
<1>1. Init => IInv
  BY InitIInv
<1>2. IInv /\ [Next]_vars => IInv'
  BY NextIInv
<1> QED
  BY <1>1, <1>2, PTL DEF Spec

(* Type correctness; in particular the distance of the two positions of    *)
(* the UART ring stays below its size.                                     *)
THEOREM TypeCorrect == Spec => []TypeOK
<1>1. IInv => TypeOK
  BY DEF IInv
<1> QED
  BY <1>1, Inductive, PTL

(* schedule() and all wake-up paths keep the run queue exact.              *)
THEOREM RunQueueCorrect == Spec => []RunQueueExact
<1>1. IInv => RunQueueExact
  BY DEF IInv
<1> QED
  BY <1>1, Inductive, PTL

(* No task is blocked or asleep without something that will wake it.       *)
THEOREM NoLostWakeUp == Spec => []BlockedIsRegistered
<1>1. IInv => BlockedIsRegistered
  BY DEF IInv
<1> QED
  BY <1>1, Inductive, PTL

(* A parent blocked in wait has only children that have yet to exit, and   *)
(* each of them will find it.                                              *)
THEOREM WaitersCorrect == Spec => []WaitersHaveLiveChildren
<1>1. IInv => WaitersHaveLiveChildren
  <2> SUFFICES ASSUME IInv, NEW p \in waiting
               PROVE  /\ children[p] # {}
                      /\ \A c \in children[p] :
                           /\ c \in table
                           /\ parent[c] = p
                           /\ state[c] \in Live
    BY DEF WaitersHaveLiveChildren, Live
  <2>1. p \in Tasks /\ children[p] \subseteq Tasks
    BY Basics DEF IInv, TypeOK
  <2> QED
    BY <2>1 DEF IInv, WaitMatchesChildren, ChildrenMatchParents
<1> QED
  BY <1>1, Inductive, PTL

(* The expect() of Task::wait never fails.                                 *)
THEOREM WaitCorrect == Spec => []WaitNeverPanics
<1>1. IInv => WaitNeverPanics
  <2> SUFFICES ASSUME IInv, NEW p \in Tasks
               PROVE  /\ pc[p] # "panic"
                      /\ (pc[p] = "wait" /\ p \notin waiting) => ZombieChildren(p) # {}
    BY DEF WaitNeverPanics
  <2>1. children[p] \subseteq Tasks
    BY Basics
  <2> QED
    BY <2>1 DEF IInv, WaitMatchesChildren, ChildrenMatchParents, ZombieChildren
<1> QED
  BY <1>1, Inductive, PTL

(* What the reaper frees is dead and unreachable, and is freed once.       *)
THEOREM CleanupCorrect == Spec => []CleanupIsSafe
<1>1. IInv => CleanupIsSafe
  <2> SUFFICES ASSUME IInv PROVE CleanupIsSafe
    OBVIOUS
  <2>1. ASSUME NEW t \in Elems(cleanupQueue)
        PROVE  /\ t \in Users /\ t \in Tasks /\ t # Idle /\ t \in table
               /\ state[t] \in {"Zombie", "Exited"}
    BY Basics DEF IInv, CleanupIsDead
  <2>2. ASSUME NEW t \in Elems(cleanupQueue)
        PROVE  /\ t # current
               /\ t \notin Elems(rq) \cup sleeping \cup Elems(irqWait) \cup waiting
    BY <2>1 DEF IInv, RunQueueExact, BlockedIsRegistered
  <2>3. ASSUME NEW t \in Elems(cleanupQueue), NEW p \in Tasks
        PROVE  t \notin children[p]
    BY <2>1 DEF IInv, ChildrenMatchParents
  <2>4. NoDup(cleanupQueue)
    BY DEF IInv, CleanupIsDead
  <2> QED
    BY <2>1, <2>2, <2>3, <2>4 DEF CleanupIsSafe
<1> QED
  BY <1>1, Inductive, PTL

-----------------------------------------------------------------------------
(* The dead.                                                               *)
Dead == {"Zombie", "Exited"}

(* The inductive form of DeadAreAccountedFor.                              *)
Unreaped ==
  \A t \in Users :
    (t \in table /\ state[t] \in Dead /\ t \notin Elems(cleanupQueue)) =>
      state[t] = "Zombie" /\ parent[t] # None

(* What a step may do to the dead: the step formula of DeathIsFinal.       *)
Final ==
  \A t \in Tasks :
    /\ state[t] = "Zombie" => state'[t] \in {"Zombie", "Exited"}
    /\ state[t] = "Exited" => state'[t] = "Exited"
    /\ (state[t] = "Exited" /\ t \notin table) => t \notin table'

(* schedule() neither kills nor revives: the dead of st are the dead       *)
(* afterwards.                                                             *)
Spares(st) ==
  \A t \in Tasks : /\ st[t] \in Dead => state'[t] = st[t]
                   /\ st[t] \notin Dead => state'[t] \notin Dead

(* schedule() does so whatever states and queue it is called with.        *)
LEMMA ScheduleSparesDead ==
  ASSUME NEW st \in [Tasks -> TaskStates], NEW q \in Seq(Tasks), current \in Tasks,
         st[Idle] \in Runnable, Schedule(st, q)
  PROVE  Spares(st)
<1>1. \A t \in Tasks : /\ st[t] \notin Runnable => state'[t] = st[t]
                       /\ st[t] \in Runnable => state'[t] \in Runnable
  BY ScheduleSparesRest
<1> QED
  BY <1>1 DEF Spares, Dead, Runnable

(* A step in which nobody dies and nobody is reaped.                       *)
LEMMA QuietStep ==
  ASSUME Unreaped, Users \subseteq Tasks, Spares(state),
         UNCHANGED <<parent, table, cleanupQueue>>
  PROVE  Final /\ Unreaped'
<1>1. parent' = parent /\ table' = table /\ cleanupQueue' = cleanupQueue
  OBVIOUS
<1>2. Final
  BY <1>1 DEF Final, Spares, Dead
<1>3. Unreaped'
  <2> SUFFICES ASSUME NEW t \in Users, t \in table, state'[t] \in Dead,
                      t \notin Elems(cleanupQueue)
               PROVE  state'[t] = "Zombie" /\ parent[t] # None
    BY <1>1 DEF Unreaped
  <2>1. t \in Tasks /\ state[t] \in Dead /\ state'[t] = state[t]
    BY DEF Spares
  <2> QED
    BY <2>1 DEF Unreaped
<1> QED
  BY <1>2, <1>3

(* fork and spawn: the new task was never in the table.                    *)
LEMMA CreateDeath ==
  ASSUME IInv, Unreaped, NEW c \in Users, NEW f, Create(c, f)
  PROVE  Final /\ Unreaped'
<1>1. /\ state[c] = "New" /\ c \in Tasks
      /\ state' = [state EXCEPT ![c] = "Ready"]
      /\ table' = table \cup {c}
      /\ parent' = [parent EXCEPT ![c] = current]
      /\ cleanupQueue' = cleanupQueue
  BY Basics DEF Create, FreshPid
<1>2. Final
  BY <1>1, Basics DEF Final
<1>3. Unreaped'
  BY <1>1, Basics DEF Unreaped, Dead
<1> QED
  BY <1>2, <1>3

(* exit: a task with a parent in the table stays for that parent, any      *)
(* other goes to the reaper at once.                                       *)
LEMMA ExitDeath ==
  ASSUME IInv, Unreaped, Exit
  PROVE  Final /\ Unreaped'
<1> DEFINE p == parent[current]
           wakes == WakesParent(current)
           zombie == [state EXCEPT ![current] = "Zombie"]
           st == IF wakes THEN [zombie EXCEPT ![p] = "Ready"] ELSE zombie
           q == IF wakes THEN Append(rq, p) ELSE rq
<1>1. current \in Users /\ current # Idle /\ current \in Tasks /\ state[current] = "Running"
  BY Basics, CurrentFacts DEF Exit, InUserMode
<1>2. wakes => p \in Tasks /\ state[p] = "Blocked" /\ p # current
  BY <1>1, Basics DEF WakesParent, HasParent, IInv, BlockedIsRegistered
<1>3. /\ st \in [Tasks -> TaskStates]
      /\ q \in Seq(Tasks)
      /\ st[Idle] \in Runnable
      /\ \A t \in Tasks : /\ t = current => st[t] = "Zombie"
                          /\ t # current /\ state[t] \in Dead => st[t] = state[t]
                          /\ t # current /\ state[t] \notin Dead => st[t] \notin Dead
  <2>1. st \in [Tasks -> TaskStates]
    BY <1>1, <1>2, Basics DEF TaskStates
  <2>2. q \in Seq(Tasks)
    BY <1>2, Basics, SMTT(30)
  <2>3. \A t \in Tasks : /\ t = current => st[t] = "Zombie"
                         /\ t # current /\ wakes /\ t = p => st[t] = "Ready" /\ state[t] = "Blocked"
                         /\ t # current /\ ~(wakes /\ t = p) => st[t] = state[t]
    BY <1>1, <1>2, Basics
  <2> HIDE DEF st, wakes, p
  <2>4. st[Idle] \in Runnable
    BY <1>1, <2>3, Basics DEF IInv, KernelTasks, Runnable
  <2> QED
    BY <2>1, <2>2, <2>3, <2>4 DEF Dead
<1>4. /\ Schedule(st, q)
      /\ cleanupQueue' = IF HasParent(current) THEN cleanupQueue
                         ELSE Append(cleanupQueue, current)
      /\ UNCHANGED <<parent, table>>
  BY DEF Exit, MarkDead
<1> HIDE DEF st, q
<1>5. Spares(st)
  BY <1>1, <1>3, <1>4, ScheduleSparesDead
<1>6. Final
  BY <1>1, <1>3, <1>4, <1>5 DEF Final, Spares, Dead
<1>7. HasParent(current) => parent[current] # None
  BY Basics DEF HasParent
<1>8. /\ cleanupQueue \in Seq(Tasks)
      /\ Elems(cleanupQueue) \subseteq Elems(cleanupQueue')
      /\ ~HasParent(current) => current \in Elems(cleanupQueue')
  <2>1. Elems(Append(cleanupQueue, current)) = Elems(cleanupQueue) \cup {current}
    BY <1>1, Basics, AppendElems
  <2> QED
    BY <1>4, <2>1, Basics
<1>9. Unreaped'
  <2> SUFFICES ASSUME NEW t \in Users, t \in table, state'[t] \in Dead,
                      t \notin Elems(cleanupQueue')
               PROVE  state'[t] = "Zombie" /\ parent[t] # None
    BY <1>4 DEF Unreaped
  <2>1. t \in Tasks /\ t \notin Elems(cleanupQueue)
    BY <1>8, Basics
  <2>2. CASE t = current
    BY <1>3, <1>5, <1>7, <1>8, <2>1, <2>2 DEF Spares, Dead
  <2>3. CASE t # current
    <3>1. state[t] \in Dead /\ state'[t] = state[t]
      BY <1>3, <1>5, <2>1, <2>3 DEF Spares
    <3> QED
      BY <2>1, <3>1 DEF Unreaped
  <2> QED
    BY <2>2, <2>3
<1> QED
  BY <1>6, <1>9

(* wait: the child that is reaped goes to the reaper.                      *)
LEMMA ReapDeath ==
  ASSUME IInv, Unreaped, current \in Users, NEW c \in ZombieChildren(current),
         ReapZombieChild(c), UNCHANGED <<parent, table>>
  PROVE  Final /\ Unreaped'
<1>1. /\ c \in Tasks /\ state[c] = "Zombie"
      /\ state' = [state EXCEPT ![c] = "Exited"]
      /\ cleanupQueue' = Append(cleanupQueue, c)
  BY Basics DEF ZombieChildren, ReapZombieChild
<1>2. Elems(cleanupQueue') = Elems(cleanupQueue) \cup {c}
  BY <1>1, Basics, AppendElems
<1>3. Final
  BY <1>1, Basics DEF Final
<1>4. Unreaped'
  BY <1>1, <1>2, Basics DEF Unreaped, Dead
<1> QED
  BY <1>3, <1>4

(* The reaper: what it cleans up leaves the table.                         *)
LEMMA ReaperDeath ==
  ASSUME IInv, Unreaped, ReaperRound
  PROVE  Final /\ Unreaped'
<1> DEFINE gone == Elems(cleanupQueue)
           s0 == [t \in Tasks |-> IF t \in gone THEN "Exited" ELSE state[t]]
           st == [s0 EXCEPT ![current] = "Sleeping"]
<1>1. current = Reaper /\ current # Idle /\ current \in Tasks /\ current \notin gone
      /\ state[current] = "Running"
  BY Basics, CurrentFacts DEF ReaperRound
<1>2. PICK n \in 0..MaxSleep : SleepCurrentTask(s0, n)
  BY DEF ReaperRound
<1>3. /\ st \in [Tasks -> TaskStates]
      /\ \A t \in Tasks : st[t] = IF t = current THEN "Sleeping"
                                    ELSE IF t \in gone THEN "Exited" ELSE state[t]
  BY <1>1, Basics DEF TaskStates
<1>4. Schedule(st, rq) /\ table' = table \ gone /\ cleanupQueue' = <<>> /\ parent' = parent
  BY <1>2 DEF SleepCurrentTask, ReaperRound
<1>5. /\ \A t \in gone : t \in Users /\ state[t] \in Dead
      /\ state[Idle] \in Runnable
  BY DEF IInv, CleanupIsDead, KernelTasks, Dead
<1> HIDE DEF st, gone
<1>6. st[Idle] \in Runnable
  BY <1>1, <1>3, <1>5, Basics
<1>7. Spares(st)
  BY <1>1, <1>3, <1>4, <1>6, Basics, ScheduleSparesDead
<1>8. \A t \in Tasks : /\ t \in gone => state'[t] = "Exited"
                       /\ t \notin gone /\ state[t] \in Dead => state'[t] = state[t]
                       /\ t \notin gone /\ state[t] \notin Dead => state'[t] \notin Dead
  BY <1>1, <1>3, <1>7, Basics DEF Spares, Dead
<1>9. Final
  BY <1>4, <1>5, <1>8 DEF Final, Dead
<1>10. Unreaped'
  <2> SUFFICES ASSUME NEW t \in Users, t \in table, t \notin gone, state'[t] \in Dead
               PROVE  state'[t] = "Zombie" /\ parent[t] # None
    BY <1>4 DEF Unreaped
  <2>1. state[t] \in Dead /\ state'[t] = state[t]
    BY <1>8, Basics
  <2> QED
    BY <2>1 DEF Unreaped, gone
<1> QED
  BY <1>9, <1>10

(* A task that stops: wait, sleep and the console read.                    *)
LEMMA StopDeath ==
  ASSUME IInv, Unreaped, current \in Users, NEW k \in {"Blocked", "Sleeping"},
         Schedule([state EXCEPT ![current] = k], rq),
         UNCHANGED <<parent, table, cleanupQueue>>
  PROVE  Final /\ Unreaped'
<1> DEFINE st == [state EXCEPT ![current] = k]
<1>1. current # Idle /\ current \in Tasks /\ state[current] = "Running"
  BY Basics, CurrentFacts
<1>2. /\ st \in [Tasks -> TaskStates] /\ st[current] = k
      /\ \A t \in Tasks \ {current} : st[t] = state[t]
  BY <1>1, Basics DEF TaskStates
<1> HIDE DEF st
<1>3. st[Idle] \in Runnable
  BY <1>1, <1>2, Basics DEF IInv, KernelTasks
<1>4. Spares(st)
  <2>1. Schedule(st, rq)
    BY DEF st
  <2> QED
    BY <1>1, <1>2, <1>3, <2>1, Basics, ScheduleSparesDead
<1>5. Spares(state)
  BY <1>1, <1>2, <1>4 DEF Spares, Dead
<1> QED
  BY <1>5, Basics, QuietStep

(* The timer interrupt wakes sleepers only.                                *)
LEMMA TimerDeath ==
  ASSUME IInv, Unreaped, TimerInterrupt
  PROVE  Final /\ Unreaped'
<1> DEFINE due   == {t \in sleeping : left[t] = 0}
           woken == {t \in due : Upgrades(t)}
           st    == [t \in Tasks |-> IF t \in woken THEN "Ready" ELSE state[t]]
<1>1. PICK order \in Orders(woken), over \in BOOLEAN :
         IF NeedsSchedule(over, woken, rq \o order)
         THEN Schedule(st, rq \o order)
         ELSE UNCHANGED <<current, state, rq>>
  BY DEF TimerInterrupt
<1>2. UNCHANGED <<parent, table, cleanupQueue>>
  BY DEF TimerInterrupt, familyVars
<1>3. \A t \in woken : t \in Tasks /\ state[t] = "Sleeping"
  BY Basics DEF IInv, BlockedIsRegistered
<1> HIDE DEF woken
<1>4. /\ st \in [Tasks -> TaskStates]
      /\ \A t \in Tasks : st[t] = state[t] \/ (st[t] = "Ready" /\ state[t] = "Sleeping")
  BY <1>3, Basics DEF TaskStates
<1>5. CASE Schedule(st, rq \o order)
  <2>1. order \in Seq(Tasks)
    BY <1>3, SMTT(30) DEF Orders
  <2>2. rq \o order \in Seq(Tasks)
    BY <2>1, Basics, SMTT(30)
  <2>3. current \in Tasks
    BY DEF IInv, TypeOK
  <2> HIDE DEF st
  <2>4. st[Idle] \in Runnable
    BY <1>4, Basics DEF IInv, KernelTasks, Runnable
  <2>5. Spares(st)
    BY <1>4, <1>5, <2>2, <2>3, <2>4, ScheduleSparesDead
  <2>6. Spares(state)
    BY <1>4, <2>5 DEF Spares, Dead
  <2> QED
    BY <1>2, <2>6, Basics, QuietStep
<1>6. CASE UNCHANGED <<current, state, rq>>
  <2>1. Spares(state)
    BY <1>6 DEF Spares
  <2> QED
    BY <1>2, <2>1, Basics, QuietStep
<1> QED
  BY <1>1, <1>5, <1>6

(* The UART interrupt wakes a blocked reader only.                         *)
LEMMA UartDeath ==
  ASSUME IInv, Unreaped, UartIrq
  PROVE  Final /\ Unreaped'
<1>1. UNCHANGED <<parent, table, cleanupQueue>>
  BY DEF UartIrq, familyVars
<1>2. CASE state' = state
  <2>1. Spares(state)
    BY <1>2 DEF Spares
  <2> QED
    BY <1>1, <2>1, Basics, QuietStep
<1>3. CASE irqWait # <<>> /\ state' = [state EXCEPT ![Head(irqWait)] = "Ready"]
  <2>1. Head(irqWait) \in Elems(irqWait)
    BY <1>3, Basics, TailElems DEF IInv, BlockedIsRegistered
  <2>2. Head(irqWait) \in Tasks /\ state[Head(irqWait)] = "Blocked"
    BY <2>1, Basics DEF IInv, BlockedIsRegistered
  <2>3. Spares(state)
    BY <1>3, <2>2, Basics DEF Spares, Dead
  <2> QED
    BY <1>1, <2>3, Basics, QuietStep
<1> QED
  BY <1>2, <1>3 DEF UartIrq

(* Every step of the kernel.                                               *)
LEMMA NextDeath == IInv /\ Unreaped /\ [Next]_vars => Final /\ Unreaped'
<1> SUFFICES ASSUME IInv, Unreaped, [Next]_vars PROVE Final /\ Unreaped'
  OBVIOUS
<1>1. CASE Boot
  <2>1. Spares(state)
    BY <1>1, Basics, ScheduleSparesDead DEF Boot, IInv, KernelTasks
  <2> QED
    BY <1>1, <2>1, Basics, QuietStep DEF Boot, familyVars
<1>2. ASSUME NEW c \in Users, Fork(c) \/ Spawn(c) PROVE Final /\ Unreaped'
  BY <1>2, CreateDeath DEF Fork, Spawn
<1>3. CASE Exit
  BY <1>3, ExitDeath
<1>4. CASE WaitReap
  BY <1>4, ReapDeath DEF WaitReap, InUserMode
<1>5. CASE WaitResume
  <2>1. CASE ZombieChildren(current) # {}
    BY <1>5, <2>1, ReapDeath DEF WaitResume
  <2>2. CASE ZombieChildren(current) = {}
    <3>1. UNCHANGED <<state, parent, table, cleanupQueue>>
      BY <1>5, <2>2 DEF WaitResume
    <3>2. Spares(state)
      BY <3>1 DEF Spares
    <3> QED
      BY <3>1, <3>2, Basics, QuietStep
  <2> QED
    BY <2>1, <2>2
<1>6. CASE WaitBlock
  BY <1>6, StopDeath DEF WaitBlock, InUserMode, familyVars
<1>7. CASE Sleep
  BY <1>7, StopDeath DEF Sleep, SleepCurrentTask, InUserMode, familyVars
<1>8. CASE ReadBlock
  BY <1>8, StopDeath DEF ReadBlock, familyVars
<1>9. CASE ReaperRound
  BY <1>9, ReaperDeath
<1>10. CASE SysRead \/ Spin \/ ReadReturn \/ UNCHANGED vars
  <2>1. UNCHANGED <<state, parent, table, cleanupQueue>>
    BY <1>10 DEF SysRead, Spin, ReadReturn, vars, schedVars, familyVars
  <2>2. Spares(state)
    BY <2>1 DEF Spares
  <2> QED
    BY <2>1, <2>2, Basics, QuietStep
<1>11. CASE UartIrq
  BY <1>11, UartDeath
<1>12. CASE TimerInterrupt
  BY <1>12, TimerDeath
<1> QED
  BY <1>1, <1>2, <1>3, <1>4, <1>5, <1>6, <1>7, <1>8, <1>9, <1>10, <1>11, <1>12 DEF Next

(* At boot nobody is dead.                                                *)
LEMMA InitUnreaped == Init => Unreaped
  BY SchedAssumption DEF Init, Unreaped, Dead, Tasks

(* With IInv, what Unreaped says of parents becomes a statement about the  *)
(* lists of children.                                                      *)
LEMMA UnreapedIsAccounted == IInv /\ Unreaped => DeadAreAccountedFor
<1> SUFFICES ASSUME IInv, Unreaped, NEW t \in Users, t \in table, state[t] \in Dead,
                    t \notin Elems(cleanupQueue)
             PROVE  /\ state[t] = "Zombie"
                    /\ parent[t] # None
                    /\ t \in children[parent[t]] \/ state[parent[t]] \in Dead
  BY DEF DeadAreAccountedFor, Dead
<1>1. state[t] = "Zombie" /\ parent[t] # None
  BY DEF Unreaped
<1>2. parent[t] \in Tasks /\ t \in Tasks
  BY <1>1, Basics
<1>3. state[parent[t]] # "New" /\ (state[parent[t]] \in Live => t \in children[parent[t]])
  BY <1>1, <1>2 DEF IInv, ChildrenMatchParents
<1>4. state[parent[t]] \in TaskStates
  BY <1>2, Basics
<1> QED
  BY <1>1, <1>3, <1>4 DEF TaskStates, Live, Dead

(* Both facts hold in every reachable state.                               *)
LEMMA UnreapedInvariant == Spec => [](IInv /\ Unreaped)
<1>1. Init => Unreaped
  BY InitUnreaped
<1>2. IInv /\ Unreaped /\ [Next]_vars => Unreaped'
  BY NextDeath
<1> QED
  BY <1>1, <1>2, Inductive, PTL DEF Spec

(* A dead task in the table is queued for the reaper or waits for a parent *)
(* that can still reap it, unless that parent is dead too.                 *)
THEOREM DeadAccounted == Spec => []DeadAreAccountedFor
<1>1. IInv /\ Unreaped => DeadAreAccountedFor
  BY UnreapedIsAccounted
<1> QED
  BY <1>1, UnreapedInvariant, PTL

(* No step of the kernel revives a dead task or brings back a pid.         *)
THEOREM DeathFinal == Spec => DeathIsFinal
<1>1. IInv /\ Unreaped /\ [Next]_vars => [Final]_vars
  BY NextDeath
<1>2. Spec => [][Final]_vars
  BY <1>1, UnreapedInvariant, PTL DEF Spec
<1> QED
  BY <1>2 DEF DeathIsFinal, Final
=============================================================================
