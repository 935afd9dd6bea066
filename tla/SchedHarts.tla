------------------------------ MODULE SchedHarts ------------------------------
(***************************************************************************)
(* The scheduler of the multi-core build: several harts, each with a run   *)
(* queue, a sleep heap, a reaper and a current task of its own, that share *)
(* the task table, irq_wait_queue, waiting_tasks and the UART ring.        *)
(*                                                                         *)
(* A handler still runs with interrupts disabled, but the other harts go   *)
(* on meanwhile.  An action is therefore one stretch of a handler between  *)
(* two accesses that another hart can come between: at[h] names the place  *)
(* hart h has reached.  A SpinLock section is one action.                  *)
(*                                                                         *)
(* The kernel finds the context of "this hart" through the running task    *)
(* (load_core_ctx), and enqueue_new_task overwrites that pointer.  A task  *)
(* that is woken on another hart between its registration and its          *)
(* switch_to is thus run twice, or takes another hart's context for its    *)
(* own, and a task that its parent reaps before it has left its hart can   *)
(* be freed while it runs.  From there on the code computes on garbage.    *)
(* The model takes that step, records it in wild, and stops.               *)
(***************************************************************************)
EXTENDS Integers, Sequences, FiniteSets, Queues

CONSTANTS
  CORE_COUNT,  \* percpu::get_core_count(): harts are 0..CORE_COUNT - 1
  Users,       \* pids of the user tasks that can be created
  Shell,       \* the first user task, spawned by kmain without a parent
  None,        \* no task
  MaxTyped,    \* bound: UART interrupts, each with one character
  MaxTicks     \* bound: timer interrupts that reach schedule()

Harts == 0..(CORE_COUNT - 1)

Idle(h) == <<"idle", h>>

Reaper(h) == <<"reaper", h>>

Kernel == {Idle(h) : h \in Harts} \cup {Reaper(h) : h \in Harts}

Tasks == Users \cup Kernel

ASSUME SchedHartsAssumption ==
  /\ CORE_COUNT \in Nat \ {0}
  /\ Shell \in Users
  /\ Users \cap Kernel = {}
  /\ None \notin Tasks
  /\ MaxTyped \in Nat
  /\ MaxTicks \in Nat

VARIABLES
  on,            \* the task whose stack hart h executes (the tp register)
  at,            \* the place hart h has reached
  who,           \* the task hart h is waking
  ctx,           \* the hart ThreadInfo.per_cpu_ctx of a task points to
  current,       \* PerCoreContext.current_task
  state,         \* Task.state; "New" before the task is created
  resume,        \* the place where a task goes on after schedule()
  rq,            \* PerCoreScheduler.runqueue
  sleeping,      \* PerCoreScheduler.sleeping_tasks
  cleanupQueue,  \* ReaperTaskCtx.cleanup_queue
  last,          \* GlobalScheduler.last_rq_hart_idx
  irqWait,       \* GlobalScheduler.irq_wait_queue[UART0_IRQ]
  waiting,       \* GlobalScheduler.waiting_tasks
  parent,        \* TaskRuntime.parent
  children,      \* TaskRuntime.children
  table,         \* pids in the task table
  chars,         \* characters in the UART ring
  typed, ticks,  \* interrupts taken so far
  wild           \* what a hart did to a task that it must not touch

hartVars == <<on, at, who>>
coreVars == <<current, rq, last>>
queueVars == <<sleeping, cleanupQueue, irqWait, waiting>>
familyVars == <<parent, children, table>>
vars == <<on, at, who, ctx, current, state, resume, rq, sleeping, cleanupQueue,
          last, irqWait, waiting, parent, children, table, chars, typed,
          ticks, wild>>
irqVars == <<chars, typed, ticks>>

(* The round robin of enqueue_new_task.                                    *)
NextHart == IF last + 1 >= CORE_COUNT THEN 0 ELSE last + 1

-----------------------------------------------------------------------------
(* kmain: every hart has an idle task and a reaper, the reaper is the only *)
(* entry of its run queue; the shell is spawned on the next hart of the    *)
(* round robin, which starts at 0; each hart is in core_boot_entry, about  *)
(* to call schedule() on the context of its idle task.                     *)
Init ==
  LET first == IF CORE_COUNT = 1 THEN 0 ELSE 1
  IN  /\ on = [h \in Harts |-> Idle(h)]
      /\ at = [h \in Harts |-> "schedule"]
      /\ who = [h \in Harts |-> None]
      /\ ctx = [t \in Tasks |-> IF t \in Kernel THEN t[2] ELSE first]
      /\ current = [h \in Harts |-> Idle(h)]
      /\ state = [t \in Tasks |-> IF t \in Kernel \cup {Shell} THEN "Ready" ELSE "New"]
      /\ resume = [t \in Tasks |-> "run"]
      /\ rq = [h \in Harts |-> IF h = first THEN <<Reaper(h), Shell>> ELSE <<Reaper(h)>>]
      /\ sleeping = [h \in Harts |-> {}]
      /\ cleanupQueue = [h \in Harts |-> <<>>]
      /\ last = first
      /\ irqWait = <<>>
      /\ waiting = {}
      /\ parent = [t \in Tasks |-> None]
      /\ children = [t \in Tasks |-> {}]
      /\ table = Kernel \cup {Shell}
      /\ chars = 0
      /\ typed = 0
      /\ ticks = 0
      /\ wild = "no"

(* Hart h, which is at place p, finds its own context when it looks for    *)
(* one.                                                                    *)
At(h, p) == wild = "no" /\ at[h] = p /\ ctx[on[h]] = h

InUserMode(h) == At(h, "run") /\ on[h] \in Users

(* Only user mode and the wfi loop of the idle task take interrupts.       *)
Interruptible(h) == At(h, "run") /\ on[h] \in Users \cup {Idle(h)}

Goto(h, p) == at' = [at EXCEPT ![h] = p]

-----------------------------------------------------------------------------
(* schedule(), up to the switch: entries that are not Ready are dropped,   *)
(* the first Ready one becomes the current task, and the one that was goes *)
(* to the back if it can still run.  Without a Ready entry the current     *)
(* task goes on, or the idle task takes over.  The scheduler's lock is     *)
(* dropped before the switch.                                              *)
Schedule(h) ==
  LET t     == on[h]
      q     == rq[h]
      ready == {i \in 1..Len(q) : state[q[i]] = "Ready"}
  IN  /\ At(h, "schedule")
      /\ IF ready # {}
         THEN \E k \in {i \in ready : \A j \in ready : i <= j} :
                LET rest == SubSeq(q, k + 1, Len(q))
                    st   == [state EXCEPT ![q[k]] = "Running"]
                    back == t # Idle(h) /\ st[t] \in {"Running", "Ready"}
                IN  /\ current' = [current EXCEPT ![h] = q[k]]
                    /\ state' = IF back THEN [st EXCEPT ![t] = "Ready"] ELSE st
                    /\ rq' = [rq EXCEPT ![h] = IF back THEN Append(rest, t) ELSE rest]
                    /\ Goto(h, "switch")
         ELSE /\ rq' = [rq EXCEPT ![h] = <<>>]
              /\ IF state[t] \in {"Ready", "Running"}
                 THEN /\ state' = [state EXCEPT ![t] = "Running"]
                      /\ Goto(h, resume[t])
                      /\ UNCHANGED current
                 ELSE /\ state' = [state EXCEPT ![Idle(h)] = "Running"]
                      /\ current' = [current EXCEPT ![h] = Idle(h)]
                      /\ Goto(h, "switch")
      /\ UNCHANGED <<on, who, ctx, resume, last, queueVars, familyVars, irqVars, wild>>

(* switch_to: the registers of the old task are saved and those of the new *)
(* one are loaded.                                                         *)
SwitchTo(h) ==
  LET new == current[h]
  IN  /\ wild = "no"
      /\ at[h] = "switch"
      /\ \A g \in Harts \ {h} : on[g] # new
      /\ on' = [on EXCEPT ![h] = new]
      /\ Goto(h, resume[new])
      /\ UNCHANGED <<who, ctx, coreVars, state, resume, queueVars, familyVars,
                     irqVars, wild>>

(* switch_to to a task that another hart has not switched away from yet:   *)
(* what is loaded is not where that task is.                               *)
SwitchToUnsaved(h) ==
  /\ wild = "no"
  /\ at[h] = "switch"
  /\ \E g \in Harts \ {h} : on[g] = current[h]
  /\ wild' = "unsaved context"
  /\ UNCHANGED <<hartVars, ctx, coreVars, state, resume, queueVars, familyVars, irqVars>>

(* The kernel is entered, or goes on, on hart h with a task whose          *)
(* per_cpu_ctx points to another hart: load_core_ctx returns that one's.   *)
WrongContext(h) ==
  /\ wild = "no"
  /\ at[h] \notin {"switch", "ready", "enqueue", "panic"}
  /\ ctx[on[h]] # h
  /\ wild' = "wrong context"
  /\ UNCHANGED <<hartVars, ctx, coreVars, state, resume, queueVars, familyVars, irqVars>>

-----------------------------------------------------------------------------
(* The two writes by which on_external_irq and on_task_exit wake who[h]:   *)
(* first it is Ready, then enqueue_new_task moves it to the next hart and  *)
(* queues it there.  An interrupt handler returns; an exiting task goes on *)
(* to schedule().  Mutant: the task is queued before it is Ready.          *)
AfterWake(h) == IF state[on[h]] \in {"Zombie", "Exited"} THEN "schedule" ELSE "run"

MakeReady(h, p) ==
  /\ state' = [state EXCEPT ![who[h]] = "Ready"]
  /\ Goto(h, p)
  /\ UNCHANGED <<ctx, rq, last>>

Enqueue(h, p) ==
  /\ last' = NextHart
  /\ ctx' = [ctx EXCEPT ![who[h]] = NextHart]
  /\ rq' = [rq EXCEPT ![NextHart] = Append(@, who[h])]
  /\ Goto(h, p)
  /\ UNCHANGED state

WakeUp_QueuedFirst(h) ==
  \/ at[h] = "ready" /\ Enqueue(h, "enqueue") /\ UNCHANGED who
  \/ at[h] = "enqueue" /\ MakeReady(h, AfterWake(h)) /\ who' = [who EXCEPT ![h] = None]

WakeUp(h) ==
  \/ at[h] = "ready" /\ MakeReady(h, "enqueue") /\ UNCHANGED who
  \/ at[h] = "enqueue" /\ Enqueue(h, AfterWake(h)) /\ who' = [who EXCEPT ![h] = None]

Wake(h) ==
  /\ wild = "no"
  /\ WakeUp(h)
  /\ UNCHANGED <<on, current, resume, queueVars, familyVars, irqVars, wild>>

-----------------------------------------------------------------------------
(* fork and spawn: nobody else knows the new task until it is queued.      *)
(* That a forked reader shares the lock of its File is left out: the lock  *)
(* only delays a read, which may take any time here anyway.                *)
Create(h, c) ==
  /\ InUserMode(h)
  /\ state[c] = "New"
  /\ state' = [state EXCEPT ![c] = "Ready"]
  /\ parent' = [parent EXCEPT ![c] = on[h]]
  /\ children' = [children EXCEPT ![on[h]] = @ \cup {c}]
  /\ table' = table \cup {c}
  /\ last' = NextHart
  /\ ctx' = [ctx EXCEPT ![c] = NextHart]
  /\ rq' = [rq EXCEPT ![NextHart] = Append(@, c)]
  /\ UNCHANGED <<hartVars, current, resume, queueVars, irqVars, wild>>

(* exit, from sys_exit or from a page fault that cannot be handled, up to  *)
(* on_task_exit.                                                           *)
MarkDead(h) == [state EXCEPT ![on[h]] = "Zombie"]

Exit(h) ==
  /\ InUserMode(h)
  /\ state' = MarkDead(h)
  /\ children' = [children EXCEPT ![on[h]] = {}]
  /\ Goto(h, "exit")
  /\ UNCHANGED <<on, who, ctx, coreVars, resume, queueVars, parent, table, irqVars, wild>>

(* on_task_exit up to the wake-up: a parent in the table is taken out of   *)
(* waiting_tasks, and woken if it was there; a task without a parent goes  *)
(* to the reaper of its hart.                                              *)
OnTaskExit(h) ==
  LET t == on[h]
      p == parent[t]
  IN  /\ At(h, "exit")
      /\ waiting' = IF p \in table THEN waiting \ {p} ELSE waiting
      /\ cleanupQueue' = IF p \in table THEN cleanupQueue
                         ELSE [cleanupQueue EXCEPT ![h] = Append(@, t)]
      /\ IF p \in table \cap waiting
         THEN who' = [who EXCEPT ![h] = p] /\ Goto(h, "ready")
         ELSE UNCHANGED who /\ Goto(h, "schedule")
      /\ UNCHANGED <<on, ctx, coreVars, state, resume, sleeping, irqWait,
                     familyVars, irqVars, wild>>

ZombieChildren(t) == {c \in children[t] \cap table : state[c] = "Zombie"}

(* wait: the task is Blocked before the lock is taken.                     *)
Wait(h) ==
  /\ InUserMode(h)
  /\ children[on[h]] # {}
  /\ state' = [state EXCEPT ![on[h]] = "Blocked"]
  /\ Goto(h, "block")
  /\ UNCHANGED <<on, who, ctx, coreVars, resume, queueVars, familyVars, irqVars, wild>>

(* reap_zombie_child hands a zombie child to the reaper of this hart.      *)
ReapZombieChild(h, st) ==
  \E c \in ZombieChildren(on[h]) :
    /\ children' = [children EXCEPT ![on[h]] = @ \ {c}]
    /\ state' = [st EXCEPT ![c] = "Exited"]
    /\ cleanupQueue' = [cleanupQueue EXCEPT ![h] = Append(@, c)]

(* The closure of wait.  Mutant: it does not look for a zombie.            *)
ShouldBlock_Always(h) == TRUE

ShouldBlock(h) == ZombieChildren(on[h]) = {}

(* block_on_wait, under the lock: register, or take a zombie and go on.    *)
BlockOnWait(h) ==
  /\ At(h, "block")
  /\ IF ShouldBlock(h)
     THEN /\ waiting' = waiting \cup {on[h]}
          /\ resume' = [resume EXCEPT ![on[h]] = "wait"]
          /\ Goto(h, "schedule")
          /\ UNCHANGED <<children, state, cleanupQueue>>
     ELSE /\ ReapZombieChild(h, [state EXCEPT ![on[h]] = "Running"])
          /\ Goto(h, "run")
          /\ UNCHANGED <<waiting, resume>>
  /\ UNCHANGED <<on, who, ctx, coreVars, sleeping, irqWait, parent, table, irqVars, wild>>

(* The rest of wait: reap again, the expect() panics on nothing to reap.   *)
WaitResume(h) ==
  /\ At(h, "wait")
  /\ IF ZombieChildren(on[h]) # {}
     THEN ReapZombieChild(h, state) /\ Goto(h, "run")
     ELSE Goto(h, "panic") /\ UNCHANGED <<children, state, cleanupQueue>>
  /\ resume' = [resume EXCEPT ![on[h]] = "run"]
  /\ UNCHANGED <<on, who, ctx, coreVars, sleeping, irqWait, waiting, parent,
                 table, irqVars, wild>>

-----------------------------------------------------------------------------
(* The console read: a character ends it (the buffer has room for one),    *)
(* and without one the task is Blocked, then registered, then switched     *)
(* away from.                                                              *)
SysRead(h) ==
  /\ InUserMode(h)
  /\ Goto(h, "read")
  /\ UNCHANGED <<on, who, ctx, coreVars, state, resume, queueVars, familyVars,
                 irqVars, wild>>

ReadLoop(h) ==
  /\ At(h, "read")
  /\ IF chars > 0
     THEN /\ chars' = chars - 1
          /\ resume' = [resume EXCEPT ![on[h]] = "run"]
          /\ Goto(h, "run")
          /\ UNCHANGED state
     ELSE /\ state' = [state EXCEPT ![on[h]] = "Blocked"]
          /\ resume' = [resume EXCEPT ![on[h]] = "read"]
          /\ Goto(h, "register")
          /\ UNCHANGED chars
  /\ UNCHANGED <<on, who, ctx, coreVars, queueVars, familyVars, typed, ticks, wild>>

(* The queue of the interrupt with t at its end.  Mutant: an occupied      *)
(* entry is replaced.                                                      *)
Registered_Replaced(t) == <<t>>

Registered(t) == Append(irqWait, t)

BlockOnExternalIrq(h) ==
  /\ At(h, "register")
  /\ irqWait' = Registered(on[h])
  /\ Goto(h, "schedule")
  /\ UNCHANGED <<on, who, ctx, coreVars, state, resume, sleeping, cleanupQueue,
                 waiting, familyVars, irqVars, wild>>

(* The UART interrupt: a character enters the ring, on_external_irq takes  *)
(* the first reader out of the queue and wakes it.  The upgrade of its     *)
(* Weak succeeds: a blocked task is in the table.                          *)
UartIrq(h) ==
  /\ Interruptible(h)
  /\ typed < MaxTyped
  /\ typed' = typed + 1
  /\ chars' = chars + 1
  /\ IF irqWait = <<>>
     THEN UNCHANGED <<at, who, irqWait>>
     ELSE /\ who' = [who EXCEPT ![h] = Head(irqWait)]
          /\ irqWait' = Tail(irqWait)
          /\ Goto(h, "ready")
  /\ UNCHANGED <<on, ctx, coreVars, state, resume, sleeping, cleanupQueue,
                 waiting, familyVars, ticks, wild>>

-----------------------------------------------------------------------------
(* sleep_current_task, by a user task or by a reaper with nothing to do.   *)
Sleep(h) ==
  /\ At(h, "run")
  /\ on[h] \in Users \/ (on[h] = Reaper(h) /\ cleanupQueue[h] = <<>>)
  /\ state' = [state EXCEPT ![on[h]] = "Sleeping"]
  /\ sleeping' = [sleeping EXCEPT ![h] = @ \cup {on[h]}]
  /\ Goto(h, "schedule")
  /\ UNCHANGED <<on, who, ctx, coreVars, resume, cleanupQueue, irqWait, waiting,
                 familyVars, irqVars, wild>>

(* The timer interrupt: the sleepers that are due, which may be any, are   *)
(* Ready and queued on this hart; schedule() runs when one woke up, when   *)
(* the idle hart has something queued, or when the slice is over, which it *)
(* may be at any time.  An interrupt that does none of this is no step.    *)
Timer(h) ==
  \E due \in SUBSET sleeping[h] : \E order \in Orders(due) :
    /\ Interruptible(h)
    /\ ticks < MaxTicks
    /\ ticks' = ticks + 1
    /\ sleeping' = [sleeping EXCEPT ![h] = @ \ due]
    /\ state' = [t \in Tasks |-> IF t \in due THEN "Ready" ELSE state[t]]
    /\ rq' = [rq EXCEPT ![h] = @ \o order]
    /\ due # {} \/ on[h] # Idle(h) \/ rq[h] # <<>>
    /\ Goto(h, "schedule")
    /\ UNCHANGED <<on, who, ctx, current, last, resume, cleanupQueue, irqWait,
                   waiting, familyVars, chars, typed, wild>>

OnHart(t) == \E h \in Harts : on[h] = t

(* The reaper takes one task off its queue and cleans it up.  If a hart    *)
(* still executes the task, or if it is cleaned up already, the frames it  *)
(* frees are in use.                                                       *)
Cleanup(h) ==
  LET t == Head(cleanupQueue[h])
  IN  /\ At(h, "run")
      /\ on[h] = Reaper(h)
      /\ cleanupQueue[h] # <<>>
      /\ cleanupQueue' = [cleanupQueue EXCEPT ![h] = Tail(@)]
      /\ state' = [state EXCEPT ![t] = "Exited"]
      /\ table' = table \ {t}
      /\ wild' = IF OnHart(t) \/ t \notin table THEN "freed in use" ELSE "no"
      /\ UNCHANGED <<hartVars, ctx, coreVars, resume, sleeping, irqWait, waiting,
                     parent, children, irqVars>>

Next ==
  \E h \in Harts :
    \/ Schedule(h)
    \/ SwitchTo(h)
    \/ SwitchToUnsaved(h)
    \/ WrongContext(h)
    \/ Wake(h)
    \/ \E c \in Users : Create(h, c)
    \/ Exit(h)
    \/ OnTaskExit(h)
    \/ Wait(h)
    \/ BlockOnWait(h)
    \/ WaitResume(h)
    \/ SysRead(h)
    \/ ReadLoop(h)
    \/ BlockOnExternalIrq(h)
    \/ UartIrq(h)
    \/ Sleep(h)
    \/ Timer(h)
    \/ Cleanup(h)

Spec == Init /\ [][Next]_vars

-----------------------------------------------------------------------------
BeingWoken(t) == \E h \in Harts : who[h] = t

(* A parent that waits while a child of it is already a zombie is about to *)
(* be woken: the child's hart has stored Zombie and has not looked at      *)
(* waiting_tasks yet.  No order of wait and exit on two harts loses the    *)
(* wake-up (block_on_wait looks for zombies under the same lock under      *)
(* which on_task_exit removes the parent).                                 *)
ExitFindsWaiter ==
  \A p \in waiting : \A c \in ZombieChildren(p) :
    \E h \in Harts : on[h] = c /\ at[h] = "exit"

(* The expect() of wait holds on every hart: whoever resumes after         *)
(* block_on_wait finds a zombie child.                                     *)
WaitNeverPanics == \A h \in Harts : at[h] # "panic"

(* A Ready task is in a run queue, or a hart executes it, or a hart is     *)
(* about to queue it: schedule() discards entries that are not Ready, and  *)
(* that never loses a task that another hart is waking at the same time.   *)
ReadyIsPlaced ==
  \A t \in Tasks : state[t] = "Ready" /\ ~ OnHart(t) =>
    \/ \E h \in Harts : t \in Elems(rq[h])
    \/ BeingWoken(t)
    \/ \E h \in Harts : t = Idle(h)

(* A Blocked task that has left its hart is registered with whatever is to *)
(* wake it, or has been taken out of there by a hart that is waking it.    *)
BlockedIsPlaced ==
  \A t \in Tasks : state[t] = "Blocked" /\ ~ OnHart(t) =>
    t \in waiting \/ t \in Elems(irqWait) \/ BeingWoken(t)
=============================================================================
