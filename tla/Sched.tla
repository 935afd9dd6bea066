-------------------------------- MODULE Sched --------------------------------
(***************************************************************************)
(* The scheduler and the task life cycle of the default (single hart)      *)
(* build: kernel/src/sched, kernel/src/task, the console reader that       *)
(* blocks on the UART interrupt, and the trap handler that drives them.    *)
(*                                                                         *)
(* On one hart a trap clears sstatus.SIE, so a handler runs without        *)
(* interruption until it returns to user mode or calls schedule().  One    *)
(* action is one such stretch.  A task that was switched out inside a      *)
(* handler resumes there with interrupts still disabled: pc[t] names the   *)
(* place ("wait": after block_on_wait, "read": in the loop of the console  *)
(* read), and while the current task is at such a place no interrupt is    *)
(* taken.  Only user mode and the wfi loop of the idle task are            *)
(* interruptible.                                                          *)
(***************************************************************************)
EXTENDS Integers, Sequences, FiniteSets, Queues

CONSTANTS
  Users,     \* pids of the user tasks that can be created; a pid is used once
  Shell,     \* the first user task, spawned by kmain without a parent
  Idle,      \* the idle task of the hart
  Reaper,    \* the reaper task of the hart
  None,      \* no parent
  BUF_SIZE,  \* size of the UART ring
  MaxBurst,  \* bound: characters one UART interrupt drains
  MaxSleep,  \* bound: timer interrupts a sleeper sleeps through
  Quantum    \* timer interrupts after which a time slice is surely over

Tasks == Users \cup {Idle, Reaper}

ASSUME SchedAssumption ==
  /\ Shell \in Users
  /\ Idle \notin Users
  /\ Reaper \notin Users
  /\ Idle # Reaper
  /\ None \notin Tasks
  /\ BUF_SIZE \in Nat \ {0}
  /\ MaxBurst \in Nat
  /\ MaxSleep \in Nat
  /\ Quantum \in Nat

VARIABLES
  current,        \* PerCoreContext.current_task
  state,          \* Task.state; "New" before the task is created
  pc,             \* where the task resumes
  rq,             \* PerCoreScheduler.runqueue
  sleeping,       \* PerCoreScheduler.sleeping_tasks
  left,           \* timer interrupts until wake_up_at is reached
  slice,          \* timer interrupts since last_entrance_time
  irqWait,        \* GlobalScheduler.irq_wait_queue[UART0_IRQ]
  waiting,        \* GlobalScheduler.waiting_tasks
  parent,         \* TaskRuntime.parent
  children,       \* TaskRuntime.children
  table,          \* pids in the task table
  cleanupQueue,   \* ReaperTaskCtx.cleanup_queue
  chars,          \* characters in the UART ring
  stdin,          \* the File behind descriptor 0 of each task
  locked          \* the Files whose SpinLock is held

schedVars == <<current, state, rq, slice>>
sleepVars == <<sleeping, left>>
familyVars == <<parent, children, table>>
consoleVars == <<chars, stdin, locked>>
vars == <<current, state, pc, rq, sleeping, left, slice, irqWait, waiting,
          parent, children, table, cleanupQueue, chars, stdin, locked>>

TaskStates ==
  {"New", "Ready", "Running", "Sleeping", "Blocked", "Zombie", "Exited"}

-----------------------------------------------------------------------------
(* kmain: the idle and the reaper task are created, the reaper is the only *)
(* entry of the run queue, the shell is spawned, and core_boot_entry is    *)
(* about to call schedule() on the context of the idle task.               *)
Init ==
  /\ current = Idle
  /\ state = [t \in Tasks |-> IF t \in {Idle, Reaper, Shell} THEN "Ready" ELSE "New"]
  /\ pc = [t \in Tasks |-> IF t = Idle THEN "boot" ELSE "user"]
  /\ rq = <<Reaper, Shell>>
  /\ sleeping = {}
  /\ left = [t \in Tasks |-> 0]
  /\ slice = 0
  /\ irqWait = <<>>
  /\ waiting = {}
  /\ parent = [t \in Tasks |-> None]
  /\ children = [t \in Tasks |-> {}]
  /\ table = {Idle, Reaper, Shell}
  /\ cleanupQueue = <<>>
  /\ chars = 0
  /\ stdin = [t \in Tasks |-> t]
  /\ locked = {}

InUserMode == current \in Users /\ pc[current] = "user"

Interruptible == InUserMode \/ (current = Idle /\ pc[Idle] = "user")

(* A Weak<Task> can be upgraded while some Arc<Task> is left.              *)
Upgrades(t) ==
  t = current \/ t \in table \/ t \in Elems(rq) \/ t \in Elems(cleanupQueue)

(* Whether schedule() puts the current task back: the idle task is never   *)
(* queued.  Mutant: the idle task is queued like any other.                *)
GoesBack_IdleToo(st) == st[current] \in {"Running", "Ready"}

GoesBack(st) == current # Idle /\ st[current] \in {"Running", "Ready"}

(* schedule() on states st and run queue q: entries that are not Ready are *)
(* dropped, the first Ready one runs, the current task goes to the back if *)
(* it can still run.  Without a Ready entry the current task goes on, or   *)
(* the idle task runs.                                                     *)
Schedule(st, q) ==
  LET ready == {i \in 1..Len(q) : st[q[i]] = "Ready"}
  IN  IF ready # {}
      THEN \E k \in {i \in ready : \A j \in ready : i <= j} :
             LET new  == q[k]
                 rest == SubSeq(q, k + 1, Len(q))
                 st1  == [st EXCEPT ![new] = "Running"]
                 back == GoesBack(st1)
             IN  /\ current' = new
                 /\ state' = IF back THEN [st1 EXCEPT ![current] = "Ready"] ELSE st1
                 /\ rq' = IF back THEN Append(rest, current) ELSE rest
                 /\ slice' = 0
      ELSE /\ rq' = <<>>
           /\ IF st[current] \in {"Ready", "Running"}
              THEN /\ state' = [st EXCEPT ![current] = "Running"]
                   /\ UNCHANGED <<current, slice>>
              ELSE /\ state' = [st EXCEPT ![Idle] = "Running"]
                   /\ current' = Idle
                   /\ slice' = 0

-----------------------------------------------------------------------------
(* The first schedule() of core_boot_entry; the idle task's saved context  *)
(* is the one that goes on to idle_task_main.                              *)
Boot ==
  /\ current = Idle
  /\ pc[Idle] = "boot"
  /\ Schedule(state, rq)
  /\ pc' = [pc EXCEPT ![Idle] = "user"]
  /\ UNCHANGED <<sleepVars, irqWait, waiting, familyVars, cleanupQueue, consoleVars>>

(* Pid::create_next never hands out a pid again.  Mutant: any pid that is  *)
(* not in the table.                                                       *)
FreshPid_Reuse(c) == c \notin table

FreshPid(c) == state[c] = "New"

(* The common tail of fork and spawn: a fresh pid c with descriptor 0 open *)
(* on file f joins the children, the table and the run queue.              *)
Create(c, f) ==
  /\ InUserMode
  /\ FreshPid(c)
  /\ state' = [state EXCEPT ![c] = "Ready"]
  /\ rq' = Append(rq, c)
  /\ parent' = [parent EXCEPT ![c] = current]
  /\ children' = [children EXCEPT ![current] = @ \cup {c}]
  /\ table' = table \cup {c}
  /\ stdin' = [stdin EXCEPT ![c] = f]
  /\ UNCHANGED <<current, pc, sleepVars, slice, irqWait, waiting,
                 cleanupQueue, chars, locked>>

(* clone(SIGCHLD, 0): the file table is cloned, so the child's descriptor  *)
(* 0 is the same Arc<SpinLock<File>>.                                      *)
Fork(c) == Create(c, stdin[current])

(* spawn: FileTable::init opens a console file of the child's own.         *)
Spawn(c) == Create(c, c)

(* The state exit leaves a task in.  Mutant: Exited at once.               *)
MarkDead_Exited(st, t) == [st EXCEPT ![t] = "Exited"]

MarkDead(st, t) == [st EXCEPT ![t] = "Zombie"]

(* on_task_exit finds the parent in the task table.  Mutant: only a parent *)
(* that waits counts as one.                                               *)
HasParent_Waiting(t) == parent[t] \in waiting

HasParent(t) == parent[t] \in table

(* The parent is woken if waiting_tasks holds it.  Mutant: the exiting     *)
(* task's own pid is looked up.                                            *)
WakesParent_OwnPid(t) == HasParent(t) /\ t \in waiting

WakesParent(t) == HasParent(t) /\ parent[t] \in waiting

(* exit, from sys_exit or from a page fault that cannot be handled: the    *)
(* task becomes a zombie, drops its children, and on_task_exit wakes a     *)
(* waiting parent, or queues a task without a parent for the reaper.       *)
Exit ==
  LET p      == parent[current]
      zombie == MarkDead(state, current)
  IN  /\ InUserMode
      /\ state[current] # "Exited"
      /\ children' = [children EXCEPT ![current] = {}]
      /\ IF WakesParent(current)
         THEN Schedule([zombie EXCEPT ![p] = "Ready"], Append(rq, p))
         ELSE Schedule(zombie, rq)
      /\ waiting' = IF HasParent(current) THEN waiting \ {p} ELSE waiting
      /\ cleanupQueue' = IF HasParent(current) THEN cleanupQueue
                         ELSE Append(cleanupQueue, current)
      /\ UNCHANGED <<pc, sleepVars, irqWait, parent, table, consoleVars>>

(* reap_zombie_child: a zombie child in the table leaves the children, is  *)
(* Exited, and goes to the reaper.  The code takes the first such child of *)
(* the vector; which one it is does not matter here.  Mutant: it is not    *)
(* handed to the reaper.                                                   *)
ZombieChildren(t) == {c \in children[t] \cap table : state[c] = "Zombie"}

ReapZombieChild_NotQueued(c) ==
  /\ children' = [children EXCEPT ![current] = @ \ {c}]
  /\ state' = [state EXCEPT ![c] = "Exited"]
  /\ UNCHANGED cleanupQueue

ReapZombieChild(c) ==
  /\ children' = [children EXCEPT ![current] = @ \ {c}]
  /\ state' = [state EXCEPT ![c] = "Exited"]
  /\ cleanupQueue' = Append(cleanupQueue, c)

(* The closure of wait that decides whether to block.  Mutant: it does not *)
(* look for a zombie.                                                      *)
ShouldBlock_Always(t) == TRUE

ShouldBlock(t) == ZombieChildren(t) = {}

(* wait with a zombie child at hand returns at once; wait without children *)
(* is ECHILD and changes nothing.                                          *)
WaitReap ==
  /\ InUserMode
  /\ \E c \in ZombieChildren(current) : ReapZombieChild(c)
  /\ UNCHANGED <<current, pc, rq, sleepVars, slice, irqWait, waiting,
                 parent, table, consoleVars>>

WaitBlock ==
  /\ InUserMode
  /\ children[current] # {}
  /\ ShouldBlock(current)
  /\ waiting' = waiting \cup {current}
  /\ pc' = [pc EXCEPT ![current] = "wait"]
  /\ Schedule([state EXCEPT ![current] = "Blocked"], rq)
  /\ UNCHANGED <<sleepVars, irqWait, familyVars, cleanupQueue, consoleVars>>

(* The rest of wait after block_on_wait: reap again; the expect() panics   *)
(* if there is nothing to reap.                                            *)
WaitResume ==
  /\ current \in Users
  /\ pc[current] = "wait"
  /\ IF ZombieChildren(current) # {}
     THEN /\ \E c \in ZombieChildren(current) : ReapZombieChild(c)
          /\ pc' = [pc EXCEPT ![current] = "user"]
     ELSE /\ pc' = [pc EXCEPT ![current] = "panic"]
          /\ UNCHANGED <<children, state, cleanupQueue>>
  /\ UNCHANGED <<current, rq, sleepVars, slice, irqWait, waiting, parent,
                 table, consoleVars>>

(* sleep_current_task on states st.  The deadline is any of the next       *)
(* MaxSleep + 1 timer interrupts; a deadline that overflows is 0, due at   *)
(* the next one.  Requests for which the unchecked product in              *)
(* nanos_to_ticks overflows, half an hour and more, are left out: they     *)
(* panic a build with overflow checks.  Mutant: the task is not pushed on  *)
(* the heap.                                                               *)
SleepCurrentTask_NotPushed(st, n) ==
  /\ left' = [left EXCEPT ![current] = n]
  /\ Schedule([st EXCEPT ![current] = "Sleeping"], rq)
  /\ UNCHANGED sleeping

SleepCurrentTask(st, n) ==
  /\ left' = [left EXCEPT ![current] = n]
  /\ sleeping' = sleeping \cup {current}
  /\ Schedule([st EXCEPT ![current] = "Sleeping"], rq)

Sleep ==
  /\ InUserMode
  /\ \E n \in 0..MaxSleep : SleepCurrentTask(state, n)
  /\ UNCHANGED <<pc, irqWait, waiting, familyVars, cleanupQueue, consoleVars>>

(* One round of reaper_task_main: every queued task is cleaned up (Exited, *)
(* address space freed, out of the table), then the reaper sleeps.         *)
ReaperRound ==
  LET gone == Elems(cleanupQueue)
  IN  /\ current = Reaper
      /\ table' = table \ gone
      /\ cleanupQueue' = <<>>
      /\ \E n \in 0..MaxSleep :
           SleepCurrentTask([t \in Tasks |-> IF t \in gone THEN "Exited" ELSE state[t]], n)
      /\ UNCHANGED <<pc, irqWait, waiting, parent, children, consoleVars>>

-----------------------------------------------------------------------------
(* sys_read on descriptor 0: the SpinLock of the File is taken for the     *)
(* whole read; if it is held the hart spins with interrupts disabled.      *)
SysRead ==
  /\ InUserMode
  /\ pc' = [pc EXCEPT ![current] = IF stdin[current] \in locked THEN "spin" ELSE "read"]
  /\ locked' = locked \cup {stdin[current]}
  /\ UNCHANGED <<schedVars, sleepVars, irqWait, waiting, familyVars,
                 cleanupQueue, chars, stdin>>

Spin ==
  /\ pc[current] = "spin"
  /\ stdin[current] \in locked
  /\ UNCHANGED vars

(* ConsoleVNode::read takes characters until a line or the buffer is       *)
(* complete, and returns ...                                               *)
ReadReturn ==
  /\ current \in Users
  /\ pc[current] = "read"
  /\ \E n \in 1..chars : chars' = chars - n
  /\ pc' = [pc EXCEPT ![current] = "user"]
  /\ locked' = locked \ {stdin[current]}
  /\ UNCHANGED <<schedVars, sleepVars, irqWait, waiting, familyVars,
                 cleanupQueue, stdin>>

(* ... or takes all of them and blocks on the UART interrupt.              *)
ReadBlock ==
  /\ current \in Users
  /\ pc[current] = "read"
  /\ chars' = 0
  /\ irqWait' = Append(irqWait, current)
  /\ Schedule([state EXCEPT ![current] = "Blocked"], rq)
  /\ UNCHANGED <<pc, sleepVars, waiting, familyVars, cleanupQueue, stdin, locked>>

(* The ring after n more characters: read_char_into_buf never checks for a *)
(* full ring, so what it holds is the distance of its two positions modulo *)
(* its size.  Mutant: end_pos does not wrap.                               *)
RingAfter_NoWrap(n) == chars + n

RingAfter(n) == (chars + n) % BUF_SIZE

(* queue.pop_front().  Mutant: the entry is only looked at.                *)
PopFront_Peek(q) == q

PopFront(q) == IF q = <<>> THEN <<>> ELSE Tail(q)

(* The UART interrupt: characters enter the ring, then on_external_irq     *)
(* wakes the first waiter, and only that one.                              *)
UartIrq ==
  /\ Interruptible
  /\ \E n \in 1..MaxBurst : chars' = RingAfter(n)
  /\ irqWait' = PopFront(irqWait)
  /\ IF irqWait # <<>> /\ Upgrades(Head(irqWait))
     THEN /\ state' = [state EXCEPT ![Head(irqWait)] = "Ready"]
          /\ rq' = Append(rq, Head(irqWait))
     ELSE UNCHANGED <<state, rq>>
  /\ UNCHANGED <<current, pc, sleepVars, slice, waiting, familyVars,
                 cleanupQueue, stdin, locked>>

(* on_timer_interrupt: the sleepers whose deadline has passed are woken in *)
(* deadline order (any order, as several deadlines may fall between two    *)
(* interrupts); schedule() runs when the slice of the current task is      *)
(* over, when a sleeper woke, or when the idle task leaves a Ready task    *)
(* waiting.  How much of the slice an interrupt finds used up depends on   *)
(* latency, but after Quantum of them it is over.  Mutant: the slice is    *)
(* not looked at.                                                          *)
NeedsSchedule_NoSlice(over, woken, q) ==
  woken # {} \/ (current = Idle /\ q # <<>>)

NeedsSchedule(over, woken, q) ==
  \/ current # Idle /\ over
  \/ woken # {}
  \/ current = Idle /\ q # <<>>

TimerInterrupt ==
  LET due   == {t \in sleeping : left[t] = 0}
      woken == {t \in due : Upgrades(t)}
      st    == [t \in Tasks |-> IF t \in woken THEN "Ready" ELSE state[t]]
  IN  /\ Interruptible
      /\ sleeping' = sleeping \ due
      /\ left' = [t \in Tasks |-> IF left[t] = 0 THEN 0 ELSE left[t] - 1]
      /\ \E order \in Orders(woken), over \in BOOLEAN :
           /\ slice >= Quantum => over
           /\ IF NeedsSchedule(over, woken, rq \o order)
              THEN Schedule(st, rq \o order)
              ELSE /\ slice' = IF slice < Quantum THEN slice + 1 ELSE slice
                   /\ UNCHANGED <<current, state, rq>>
      /\ UNCHANGED <<pc, irqWait, waiting, familyVars, cleanupQueue, consoleVars>>

Next ==
  \/ Boot
  \/ \E c \in Users : Fork(c)
  \/ \E c \in Users : Spawn(c)
  \/ Exit
  \/ WaitReap
  \/ WaitBlock
  \/ WaitResume
  \/ Sleep
  \/ ReaperRound
  \/ SysRead
  \/ Spin
  \/ ReadReturn
  \/ ReadBlock
  \/ UartIrq
  \/ TimerInterrupt

Spec == Init /\ [][Next]_vars

(* A pending timer interrupt is taken at the next interruptible            *)
(* instruction, so it cannot be passed over for ever (strong fairness);    *)
(* kernel code that is running with interrupts disabled goes on (weak      *)
(* fairness).  Nothing is assumed about user programs or the keyboard.     *)
Fairness ==
  /\ SF_vars(TimerInterrupt)
  /\ WF_vars(Boot \/ WaitResume \/ ReaperRound \/ ReadReturn \/ ReadBlock)

FairSpec == Spec /\ Fairness

-----------------------------------------------------------------------------
(* The type invariant.                                                     *)
TypeOK ==
  /\ current \in Tasks
  /\ state \in [Tasks -> TaskStates]
  /\ pc \in [Tasks -> {"boot", "user", "wait", "read", "spin", "panic"}]
  /\ rq \in Seq(Tasks)
  /\ sleeping \in SUBSET Tasks
  /\ left \in [Tasks -> 0..MaxSleep]
  /\ slice \in 0..Quantum
  /\ irqWait \in Seq(Tasks)
  /\ waiting \in SUBSET Tasks
  /\ parent \in [Tasks -> Tasks \cup {None}]
  /\ children \in [Tasks -> SUBSET Tasks]
  /\ table \in SUBSET Tasks
  /\ cleanupQueue \in Seq(Tasks)
  /\ chars \in 0..(BUF_SIZE - 1)
  /\ stdin \in [Tasks -> Tasks]
  /\ locked \in SUBSET Tasks

(* The run queue holds every Ready task exactly once and nothing else, and *)
(* the current task is the only Running one: the stale entries schedule()  *)
(* is prepared to discard never occur on one hart, and no wake-up path     *)
(* queues a task twice or forgets to queue it.                             *)
RunQueueExact ==
  /\ NoDup(rq)
  /\ \A t \in Tasks \ {Idle} :
       /\ t \in Elems(rq) <=> state[t] = "Ready"
       /\ t = current <=> state[t] = "Running"
  /\ Idle \notin Elems(rq)

(* No lost wake-up: a Blocked task is registered with exactly one of the   *)
(* two things that can wake it, a Sleeping one with the sleeper heap, and  *)
(* nothing else is; each resumes at the place that belongs to it.          *)
BlockedIsRegistered ==
  /\ NoDup(irqWait)
  /\ waiting \cap Elems(irqWait) = {}
  /\ waiting \cup Elems(irqWait) = {t \in Tasks : state[t] = "Blocked"}
  /\ sleeping = {t \in Tasks : state[t] = "Sleeping"}
  /\ \A t \in waiting : pc[t] = "wait"
  /\ \A t \in Elems(irqWait) : pc[t] = "read"

(* A parent blocked in wait can still be woken: it has children, and each  *)
(* of them is a task in the table that has yet to exit and will find this  *)
(* parent.  A zombie among them would be an exit the parent missed.        *)
WaitersHaveLiveChildren ==
  \A p \in waiting :
    /\ children[p] # {}
    /\ \A c \in children[p] :
         /\ c \in table
         /\ parent[c] = p
         /\ state[c] \in {"Ready", "Running", "Sleeping", "Blocked"}

(* The expect() in wait holds: a parent that runs again after blocking     *)
(* finds a zombie child ("the parent process should not be scheduled until *)
(* a child exits").                                                        *)
WaitNeverPanics ==
  \A p \in Tasks :
    /\ pc[p] # "panic"
    /\ (pc[p] = "wait" /\ p \notin waiting) => ZombieChildren(p) # {}

(* What the reaper is about to free is dead, still in the table, queued    *)
(* once, and out of reach of everything that could run, wake or reap it:   *)
(* its address space is freed exactly once and never under a task in use.  *)
CleanupIsSafe ==
  /\ NoDup(cleanupQueue)
  /\ \A t \in Elems(cleanupQueue) :
       /\ t \in table
       /\ state[t] \in {"Zombie", "Exited"}
       /\ t # current
       /\ t \notin Elems(rq) \cup sleeping \cup Elems(irqWait) \cup waiting
       /\ \A p \in Tasks : t \notin children[p]

(* The README's "Deferred task and address-space cleanup", as far as it    *)
(* goes: a dead task in the table is queued for the reaper, or can still   *)
(* be reaped by its parent, unless that parent is dead too.  (The zombies  *)
(* of a dead parent keep their address space for ever: exit drops the      *)
(* children of a task without looking at them.)                            *)
DeadAreAccountedFor ==
  \A t \in Users :
    (t \in table /\ state[t] \in {"Zombie", "Exited"} /\ t \notin Elems(cleanupQueue)) =>
      /\ state[t] = "Zombie"
      /\ parent[t] # None
      /\ t \in children[parent[t]] \/ state[parent[t]] \in {"Zombie", "Exited"}

(* Death is final: a zombie only becomes Exited, an Exited task stays so,  *)
(* and a pid that left the table never comes back.                         *)
DeathIsFinal ==
  [][\A t \in Tasks :
       /\ state[t] = "Zombie" => state'[t] \in {"Zombie", "Exited"}
       /\ state[t] = "Exited" => state'[t] = "Exited"
       /\ (state[t] = "Exited" /\ t \notin table) => t \notin table']_vars

-----------------------------------------------------------------------------
(* The hart spins for the lock of a File whose holder it will never run.   *)
Hung == pc[current] = "spin"

(* Round robin without starvation: a Ready task runs, unless the hart      *)
(* hangs in a read.                                                        *)
ReadyRuns ==
  \A t \in Tasks \ {Idle} : state[t] = "Ready" ~> (state[t] = "Running" \/ Hung)

(* A task handed to the reaper is freed and leaves the table.              *)
CleanupHappens ==
  \A t \in Users : t \in Elems(cleanupQueue) ~> (t \notin table \/ Hung)

(* A parent in wait returns to user mode once one of its children exited.  *)
ExitEndsWait ==
  \A p \in Users :
    (pc[p] = "wait" /\ ZombieChildren(p) # {}) ~> (pc[p] = "user" \/ Hung)
=============================================================================
