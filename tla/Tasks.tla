------------------------------- MODULE Tasks -------------------------------
(***************************************************************************)
(* The task table of src/src/kernel/sched.c and everything that creates,   *)
(* switches, ends or reaps a task: the round-robin scheduler driven by the *)
(* PIT, task_spawn / task_exit, SYS_FORK, SYS_EXIT, SYS_WAITPID and        *)
(* SYS_EXEC (syscall.c), elf_exec (elf.c), the single saved kernel context *)
(* of usermode.asm, the ring-3 fault path of idt.c, and the points where   *)
(* the window manager (wm.c, task 0) spawns and kills tasks.               *)
(*                                                                         *)
(* The machine has one CPU.  Code between cli and sti, and code between    *)
(* sched_lock and sched_unlock (sched_tick returns at once then), cannot   *)
(* be preempted: each such section is one action.  At every value of pc    *)
(* below interrupts are on, so Tick may happen between any two actions.    *)
(* A system call that returns -1 and changes nothing is a stuttering step. *)
(***************************************************************************)
EXTENDS Naturals

CONSTANTS
  MaxTasks,   \* MAX_TASKS: length of tasks[]
  Spaces,     \* user page tables the frame allocator has room for
  Blocks,     \* heap blocks that can hold a kernel stack or an IRQ stack
  KernelPT,   \* the kernel's own page table
  NULL,       \* a null pointer, a zero cr3, no saved context
  Events      \* the rare events this instance lets happen (EventNames)

(***************************************************************************)
(* Rare events.  "forkOOM": kmalloc fails inside sched_fork.  "childFault": *)
(* a fork child takes a ring-3 exception.  "foreignWait": waitpid on a      *)
(* child of another task, or on oneself.  "kill": the window manager kills *)
(* a program with its window, or every task when the GUI ends.             *)
(* "killChild": it kills a fork child that has a closed window's number in *)
(* its slot.  "secondElf": a program is started while another one runs,     *)
(* after the close button of some other window cleared elf_running.        *)
(***************************************************************************)
EventNames == {"forkOOM", "childFault", "foreignWait", "kill",
               "killChild", "secondElf"}

ASSUME MaxTasksAssumption == MaxTasks \in Nat /\ MaxTasks >= 2
ASSUME ResourceAssumption == /\ KernelPT \notin Spaces
                             /\ NULL \notin Spaces \cup Blocks
                             /\ NULL # KernelPT
ASSUME NullIsNoTask == NULL \notin Nat
ASSUME EventsAssumption == Events \subseteq EventNames

VARIABLES
  state,        \* tasks[t].state
  forked,       \* tasks[t].is_forked
  parent,       \* tasks[t].parent_id
  code,         \* tasks[t].exit_code: 0, or 1 for the status passed to SYS_EXIT
  cr3,          \* tasks[t].cr3
  stack,        \* tasks[t].stack
  irq,          \* tasks[t].irq_stack
  pc,           \* what the thread saved in tasks[t].rsp does next
  wchild,       \* child_id of the SYS_WAITPID task t is in
  task_count, current,
  spaces,       \* page tables whose frames are allocated
  heap,         \* stack blocks that are allocated
  saved,        \* the task whose elf_exec frame saved_kernel_rsp points into
  elf_running,  \* wm.c: an ELF window task is starting or running
  cmd_running,  \* wm.c, wm_cmd_running: a background shell command is
  gui           \* task 0 is inside wm_run

table == <<state, forked, parent, code, cr3, stack, irq, task_count>>
wm    == <<elf_running, cmd_running, gui>>
vars  == <<table, pc, wchild, current, spaces, heap, saved, wm>>

Slots    == 0 .. MaxTasks - 1
UserPCs  == {"user", "wait", "reap"}           \* running a program
OtherPCs == {"shell", "elf", "cmd", "tail", "leaving", "exited", "stale"}

Fresh(S)    == CHOOSE x \in S : TRUE           \* the allocators are deterministic
Schedulable == {"READY", "RUNNING"}

(***************************************************************************)
(* Execution is modelled up to the first step on memory that is not there: *)
(* a thread needs its two stacks, a program also its page table.           *)
(***************************************************************************)
CanRun(t) == /\ pc[t] # "stale"
             /\ t # 0 => stack[t] \in heap /\ irq[t] \in heap
             /\ pc[t] \in UserPCs => cr3[t] \in spaces

At(p) == pc[current] = p /\ CanRun(current)
Goto(p) == pc' = [pc EXCEPT ![current] = p]

Init ==
  /\ state  = [t \in Slots |-> IF t = 0 THEN "RUNNING" ELSE "READY"]
  /\ forked = [t \in Slots |-> FALSE]
  /\ parent = [t \in Slots |-> 0]
  /\ code   = [t \in Slots |-> 0]
  /\ cr3    = [t \in Slots |-> IF t = 0 THEN KernelPT ELSE NULL]
  /\ stack  = [t \in Slots |-> NULL]
  /\ irq    = [t \in Slots |-> NULL]
  /\ pc     = [t \in Slots |-> IF t = 0 THEN "shell" ELSE "stale"]
  /\ wchild = [t \in Slots |-> NULL]
  /\ task_count = 1 /\ current = 0
  /\ spaces = {} /\ heap = {} /\ saved = NULL
  /\ elf_running = FALSE /\ cmd_running = FALSE /\ gui = FALSE

-----------------------------------------------------------------------------
(***************************************************************************)
(* The scheduler.                                                          *)
(***************************************************************************)

\* Mutant of Distance: the scan starts at slot 0 instead of after current.
DistanceFromZero(t) == t

\* How many slots round robin looks at before it reaches t: 1 .. task_count,
\* the running task itself last.
Distance(t) == IF t > current THEN t - current ELSE t + task_count - current

Runnable == {t \in 0 .. task_count - 1 : state[t] \in Schedulable}

NextTask == IF Runnable = {} THEN current
            ELSE CHOOSE t \in Runnable :
                   \A u \in Runnable : Distance(t) <= Distance(u)

\* Mutant of Demoted: a task that loses the CPU stays RUNNING.
KeptRunning(s) == s

\* The running task becomes READY; one that has just died or exited does not.
Demoted(s) == IF s = "RUNNING" THEN "READY" ELSE s

\* sched_tick, from the PIT interrupt or from sched_yield.
Tick ==
  /\ CanRun(current)
  /\ NextTask # current
  /\ state' = [state EXCEPT
                 ![current] = Demoted(@),
                 ![NextTask] = "RUNNING"]
  /\ current' = NextTask
  /\ UNCHANGED <<forked, parent, code, cr3, stack, irq, task_count, pc, wchild,
                 spaces, heap, saved, wm>>

-----------------------------------------------------------------------------
(***************************************************************************)
(* Creating tasks.                                                         *)
(***************************************************************************)

Block1 == Fresh(Blocks \ heap)
Block2 == Fresh(Blocks \ (heap \cup {Block1}))
TwoBlocks == Blocks \ heap # {} /\ Blocks \ (heap \cup {Block1}) # {}

\* task_spawn(what): always a new slot.  Neither is_forked nor fds is set.
Spawn(what) ==
  /\ task_count < MaxTasks /\ TwoBlocks
  /\ state'  = [state  EXCEPT ![task_count] = "READY"]
  /\ cr3'    = [cr3    EXCEPT ![task_count] = KernelPT]
  /\ stack'  = [stack  EXCEPT ![task_count] = Block1]
  /\ irq'    = [irq    EXCEPT ![task_count] = Block2]
  /\ pc'     = [pc     EXCEPT ![task_count] = what]
  /\ heap'   = heap \cup {Block1, Block2}
  /\ task_count' = task_count + 1
  /\ UNCHANGED <<forked, parent, code, wchild, current, spaces, saved, gui>>

\* wm_spawn_elf: one program at a time.
SpawnElf ==
  /\ At("shell") /\ gui /\ ~elf_running
  /\ Spawn("elf")
  /\ elf_running' = TRUE
  /\ UNCHANGED cmd_running

\* wm_run hands a shell command to a background task; wm_cmd_running admits one.
SpawnCmd ==
  /\ At("shell") /\ gui /\ ~cmd_running
  /\ Spawn("cmd")
  /\ cmd_running' = TRUE
  /\ UNCHANGED elf_running

\* Either kmalloc of task_spawn fails: the slot stays beyond task_count.
SpawnOOM ==
  /\ At("shell") /\ gui /\ ~(elf_running /\ cmd_running)
  /\ task_count < MaxTasks
  /\ \/ stack' = [stack EXCEPT ![task_count] = NULL] /\ UNCHANGED irq
     \/ /\ Blocks \ heap # {}
        /\ stack' = [stack EXCEPT ![task_count] = Block1]
        /\ irq' = [irq EXCEPT ![task_count] = NULL]
  /\ state' = [state EXCEPT ![task_count] = "READY"]
  /\ cr3' = [cr3 EXCEPT ![task_count] = KernelPT]
  /\ UNCHANGED <<forked, parent, code, task_count, pc, wchild, current, spaces,
                 heap, saved, wm>>

\* sched_fork takes the first DEAD slot whose fork child was reaped, or appends.
Recyclable == {t \in 1 .. task_count - 1 : state[t] = "DEAD" /\ ~forked[t]}
ForkSlot   == IF Recyclable = {} THEN task_count
              ELSE CHOOSE t \in Recyclable : \A u \in Recyclable : t <= u

\* Mutant of CanFork: the test against MAX_TASKS is missing.
CanForkUnbounded == At("user") /\ Spaces \ spaces # {}

CanFork == /\ At("user")
           /\ ForkSlot < MaxTasks
           /\ Spaces \ spaces # {}             \* vmm_clone_user_pt succeeds

\* Mutant of ForkHead: the child runs on its parent's page table.
ForkHeadShared(s) ==
  /\ state'  = [state  EXCEPT ![ForkSlot] = "READY"]
  /\ forked' = [forked EXCEPT ![ForkSlot] = TRUE]
  /\ parent' = [parent EXCEPT ![ForkSlot] = current]
  /\ code'   = [code   EXCEPT ![ForkSlot] = 0]
  /\ cr3'    = [cr3    EXCEPT ![ForkSlot] = cr3[current]]

\* The fields sched_fork sets before it allocates the stacks.
ForkHead(s) ==
  /\ state'  = [state  EXCEPT ![ForkSlot] = "READY"]
  /\ forked' = [forked EXCEPT ![ForkSlot] = TRUE]
  /\ parent' = [parent EXCEPT ![ForkSlot] = current]
  /\ code'   = [code   EXCEPT ![ForkSlot] = 0]
  /\ cr3'    = [cr3    EXCEPT ![ForkSlot] = s]

\* SYS_FORK: the child starts in user mode on a copy of the address space.
Fork ==
  LET s == Fresh(Spaces \ spaces)
  IN /\ CanFork /\ TwoBlocks
     /\ ForkHead(s)
     /\ spaces' = spaces \cup {s}
     /\ heap'   = heap \cup {Block1, Block2}
     /\ stack'  = [stack EXCEPT ![ForkSlot] = Block1]
     /\ irq'    = [irq   EXCEPT ![ForkSlot] = Block2]
     /\ pc'     = [pc    EXCEPT ![ForkSlot] = "user"]
     /\ wchild' = [wchild EXCEPT ![ForkSlot] = NULL]
     /\ task_count' = IF ForkSlot = task_count THEN task_count + 1 ELSE task_count
     /\ UNCHANGED <<current, saved, wm>>

\* SYS_FORK when a stack cannot be allocated: what was allocated is freed, the
\* slot keeps the fields of ForkHead and its old rsp, and fork returns -1.
ForkOOM ==
  LET s == Fresh(Spaces \ spaces)
  IN /\ "forkOOM" \in Events
     /\ CanFork
     /\ ForkHead(s)
     /\ \/ stack' = [stack EXCEPT ![ForkSlot] = NULL] /\ UNCHANGED irq
        \/ /\ Blocks \ heap # {}
           /\ stack' = [stack EXCEPT ![ForkSlot] = Block1]
           /\ irq' = [irq EXCEPT ![ForkSlot] = NULL]
     /\ pc' = [pc EXCEPT ![ForkSlot] = "stale"]
     /\ UNCHANGED <<task_count, wchild, current, spaces, heap, saved,
                    wm>>

-----------------------------------------------------------------------------
(***************************************************************************)
(* Running a program: elf_exec enters user mode through user_mode_enter,   *)
(* which saves the one kernel context kernel_exit_restore jumps back to.   *)
(***************************************************************************)

\* Mutant of MayExec: the window manager runs a program on task 0 itself.
MayExecInline == At("elf") \/ At("shell")

\* An ELF window task, or the text shell (task 0 itself).
MayExec == At("elf") \/ (At("shell") /\ ~gui)

ElfExec ==
  LET s == Fresh(Spaces \ spaces)
  IN /\ MayExec
     /\ Spaces \ spaces # {}
     /\ spaces' = spaces \cup {s}
     /\ cr3' = [cr3 EXCEPT ![current] = s]
     /\ saved' = current
     /\ Goto("user")
     /\ UNCHANGED <<state, forked, parent, code, stack, irq, task_count, wchild,
                    current, heap, wm>>

\* elf_exec returns -1: no memory, no file, not an ELF64 executable.
ElfLoadFails ==
  /\ At("elf")
  /\ Goto("tail")
  /\ UNCHANGED <<table, wchild, current, spaces, heap, saved, wm>>

\* Mutant of Exec: the old page table is not freed.
ExecLeaks ==
  LET s == Fresh(Spaces \ spaces)
  IN /\ At("user")
     /\ Spaces \ spaces # {}
     /\ spaces' = spaces \cup {s}
     /\ cr3' = [cr3 EXCEPT ![current] = s]
     /\ UNCHANGED <<state, forked, parent, code, stack, irq, task_count, pc,
                    wchild, current, heap, saved, wm>>

\* SYS_EXEC: a new page table replaces the caller's, which is freed.
Exec ==
  LET s == Fresh(Spaces \ spaces)
  IN /\ At("user")
     /\ Spaces \ spaces # {}
     /\ spaces' = (spaces \cup {s}) \ {cr3[current]}
     /\ cr3' = [cr3 EXCEPT ![current] = s]
     /\ UNCHANGED <<state, forked, parent, code, stack, irq, task_count, pc,
                    wchild, current, heap, saved, wm>>

\* kernel_exit_restore, then the end of elf_exec on the stack of the task that
\* saved the context: `cur` is that task's id, whichever task is running.
ExitRestore ==
  /\ saved # NULL
  /\ spaces' = spaces \ {cr3[saved]}
  /\ cr3' = [cr3 EXCEPT ![saved] = KernelPT]
  /\ Goto(IF saved = 0 THEN "shell" ELSE "tail")
  /\ UNCHANGED <<state, forked, parent, stack, irq, task_count, wchild, current,
                 heap, saved, wm>>

\* Mutant of ExitChild: the child frees its stack at once, and not its waiter.
ExitChildFrees ==
  /\ At("user") /\ forked[current]
  /\ code'  = [code  EXCEPT ![current] = 1]
  /\ state' = [state EXCEPT ![current] = "ZOMBIE"]
  /\ heap'  = heap \ {stack[current]}
  /\ Goto("exited")
  /\ UNCHANGED <<forked, parent, cr3, stack, irq, task_count, wchild, current,
                 spaces, saved, wm>>

\* SYS_EXIT.  A fork child becomes a zombie that keeps everything it owns.
ExitChild ==
  /\ At("user") /\ forked[current]
  /\ code'  = [code  EXCEPT ![current] = 1]
  /\ state' = [state EXCEPT ![current] = "ZOMBIE"]
  /\ Goto("exited")
  /\ UNCHANGED <<forked, parent, cr3, stack, irq, task_count, wchild, current,
                 spaces, heap, saved, wm>>

ExitMain ==
  /\ At("user") /\ ~forked[current]
  /\ code' = [code EXCEPT ![current] = 1]
  /\ ExitRestore

\* isr_handler on an exception with a ring-3 CS; is_forked is not looked at.
\* GFX_INIT without a window manager leaves the program the same way.
Fault ==
  /\ At("user")
  /\ ~forked[current] \/ "childFault" \in Events
  /\ UNCHANGED code
  /\ ExitRestore

\* The rest of elf_task_trampoline, then task_exit; sched_yield is a Tick.
Tail ==
  /\ At("tail")
  /\ elf_running' = FALSE
  /\ Goto("leaving")
  /\ UNCHANGED <<table, wchild, current, spaces, heap, saved, cmd_running, gui>>

\* The end of wm_shell_cmd_task; a command runs no program here.
CmdDone ==
  /\ At("cmd")
  /\ cmd_running' = FALSE
  /\ Goto("leaving")
  /\ UNCHANGED <<table, wchild, current, spaces, heap, saved, elf_running, gui>>

TaskExit ==
  /\ At("leaving")
  /\ state' = [state EXCEPT ![current] = "DEAD"]
  /\ Goto("exited")
  /\ UNCHANGED <<forked, parent, code, cr3, stack, irq, task_count, wchild,
                 current, spaces, heap, saved, wm>>

-----------------------------------------------------------------------------
(***************************************************************************)
(* SYS_WAITPID.                                                            *)
(***************************************************************************)
WaitBegin(c) ==
  /\ At("user")
  /\ 1 <= c /\ c < task_count /\ forked[c]
  /\ (parent[c] = current /\ c # current) \/ "foreignWait" \in Events
  /\ wchild' = [wchild EXCEPT ![current] = c]
  /\ Goto("wait")
  /\ UNCHANGED <<table, current, spaces, heap, saved, wm>>

\* Mutants of WaitSees: the loop also ends for a child that was killed, or ends
\* only for one.
WaitSeesDead ==
  /\ At("wait")
  /\ state[wchild[current]] \in {"ZOMBIE", "DEAD"}
  /\ Goto("reap")
  /\ UNCHANGED <<table, wchild, current, spaces, heap, saved, wm>>

WaitSeesOnlyDead ==
  /\ At("wait")
  /\ state[wchild[current]] = "DEAD"
  /\ Goto("reap")
  /\ UNCHANGED <<table, wchild, current, spaces, heap, saved, wm>>

\* The polling loop sees the zombie; interrupts stay on until the cli.
WaitSees ==
  /\ At("wait")
  /\ state[wchild[current]] = "ZOMBIE"
  /\ Goto("reap")
  /\ UNCHANGED <<table, wchild, current, spaces, heap, saved, wm>>

\* Mutant of Reap: is_forked is not reset.
ReapStaysForked ==
  LET c == wchild[current]
  IN /\ At("reap")
     /\ spaces' = spaces \ {cr3[c]}
     /\ heap'   = heap \ {stack[c]}
     /\ cr3'    = [cr3    EXCEPT ![c] = NULL]
     /\ stack'  = [stack  EXCEPT ![c] = NULL]
     /\ state'  = [state  EXCEPT ![c] = "DEAD"]
     /\ wchild' = [wchild EXCEPT ![current] = NULL]
     /\ Goto("user")
     /\ UNCHANGED <<forked, parent, code, irq, task_count, current, saved, wm>>

\* The irq_stack of the child is not freed and its pointer is kept.
Reap ==
  LET c == wchild[current]
  IN /\ At("reap")
     /\ spaces' = spaces \ {cr3[c]}
     /\ heap'   = heap \ {stack[c]}
     /\ cr3'    = [cr3    EXCEPT ![c] = NULL]
     /\ stack'  = [stack  EXCEPT ![c] = NULL]
     /\ forked' = [forked EXCEPT ![c] = FALSE]
     /\ state'  = [state  EXCEPT ![c] = "DEAD"]
     /\ wchild' = [wchild EXCEPT ![current] = NULL]
     /\ Goto("user")
     /\ UNCHANGED <<parent, code, irq, task_count, current, saved, wm>>

-----------------------------------------------------------------------------
(***************************************************************************)
(* The window manager, on task 0.                                          *)
(***************************************************************************)
EnterGui ==
  /\ At("shell") /\ ~gui
  /\ gui' = TRUE
  /\ UNCHANGED <<table, pc, wchild, current, spaces, heap, saved, elf_running,
                 cmd_running>>

\* The end of wm_run: every slot but 0 that is READY or RUNNING is killed,
\* unused slots (zero-initialised, hence READY) included.
LeaveGui ==
  /\ At("shell") /\ gui
  /\ (\A t \in 1 .. task_count - 1 : state[t] \notin Schedulable)
       \/ "kill" \in Events
  /\ state' = [t \in Slots |-> IF t # 0 /\ state[t] \in Schedulable
                               THEN "DEAD" ELSE state[t]]
  /\ elf_running' = FALSE
  /\ gui' = FALSE
  /\ UNCHANGED <<forked, parent, code, cr3, stack, irq, task_count, pc, wchild,
                 current, spaces, heap, saved, cmd_running>>

\* handle_mouse, close button: kills the task bound to the window.
CloseWindow(t) ==
  /\ (IF forked[t] THEN "killChild" ELSE "kill") \in Events
  /\ At("shell") /\ gui
  /\ t \in 1 .. task_count - 1 /\ state[t] \in Schedulable
  /\ pc[t] \notin {"cmd", "leaving"}
  /\ state' = [state EXCEPT ![t] = "DEAD"]
  /\ elf_running' = FALSE
  /\ UNCHANGED <<forked, parent, code, cr3, stack, irq, task_count, pc, wchild,
                 current, spaces, heap, saved, cmd_running, gui>>

\* The same button on a window that no task is bound to: a tool window of the
\* window manager, or the window of a program that has ended.
CloseOther ==
  /\ "secondElf" \in Events
  /\ At("shell") /\ gui /\ elf_running
  /\ elf_running' = FALSE
  /\ UNCHANGED <<table, pc, wchild, current, spaces, heap, saved, cmd_running,
                 gui>>

-----------------------------------------------------------------------------
Wait   == \E c \in Slots : WaitBegin(c)
Close  == \E t \in Slots : CloseWindow(t)

\* Steps of kernel code the running task has entered: they need no decision of
\* a user or of a program.
KernelStep == Tail \/ CmdDone \/ TaskExit \/ WaitSees \/ Reap

Next == \/ Tick
        \/ SpawnElf \/ SpawnCmd \/ SpawnOOM
        \/ Fork \/ ForkOOM
        \/ ElfExec \/ ElfLoadFails \/ Exec
        \/ ExitChild \/ ExitMain \/ Fault
        \/ Tail \/ CmdDone \/ TaskExit
        \/ Wait \/ WaitSees \/ Reap
        \/ EnterGui \/ LeaveGui \/ Close \/ CloseOther

Spec == Init /\ [][Next]_vars

(***************************************************************************)
(* Fairness: the PIT keeps ticking, and between two ticks a task executes  *)
(* thousands of instructions, so kernel code a task is in makes progress   *)
(* when the task is scheduled again and again.  Programs and the user owe  *)
(* nothing.                                                                *)
(***************************************************************************)
Fairness == /\ WF_vars(Tick)
            /\ \A t \in Slots : SF_vars(current = t /\ KernelStep)
FairSpec == Spec /\ Fairness
-----------------------------------------------------------------------------
(***************************************************************************)
(* Properties.                                                             *)
(***************************************************************************)
TypeOK ==
  /\ state  \in [Slots -> {"READY", "RUNNING", "DEAD", "ZOMBIE"}]
  /\ forked \in [Slots -> BOOLEAN]
  /\ parent \in [Slots -> Slots]
  /\ code   \in [Slots -> {0, 1}]
  /\ cr3    \in [Slots -> Spaces \cup {KernelPT, NULL}]
  /\ stack  \in [Slots -> Blocks \cup {NULL}]
  /\ irq    \in [Slots -> Blocks \cup {NULL}]
  /\ pc     \in [Slots -> UserPCs \cup OtherPCs]
  /\ wchild \in [Slots -> Slots \cup {NULL}]
  /\ task_count \in 1 .. MaxTasks
  /\ current \in 0 .. task_count - 1
  /\ spaces \subseteq Spaces
  /\ heap   \subseteq Blocks
  /\ saved  \in Slots \cup {NULL}
  /\ elf_running \in BOOLEAN
  /\ cmd_running \in BOOLEAN
  /\ gui \in BOOLEAN

Alive(t)   == t < task_count /\ state[t] \in Schedulable \cup {"ZOMBIE"}
Stacks(t)  == {stack[t], irq[t]}
HasSpace(t) == pc[t] \in UserPCs \/ state[t] = "ZOMBIE"

\* sched_tick switches the CPU and the state fields together: no slot but the
\* current one is RUNNING, and the current one is never READY, so a task is
\* never on the CPU twice and its saved rsp is never resumed while it runs.
OneRunning ==
  /\ state[current] # "READY"
  /\ \A t \in Slots : state[t] = "RUNNING" => t = current

\* Every task the scheduler may pick, and every zombie, has a saved context and
\* its two stacks, and no other such task uses them: fork, spawn, recycling and
\* reaping never hand out or free a stack a thread still runs on.
StacksOwned ==
  \A t \in Slots \ {0} : Alive(t) =>
    /\ pc[t] # "stale"
    /\ Stacks(t) \subseteq heap /\ stack[t] # irq[t]
    /\ \A u \in Slots \ {0, t} : Alive(u) => Stacks(t) \cap Stacks(u) = {}

\* A program, and a zombie until it is reaped, has an allocated address space
\* that no other one uses: fork, exec, exit and waitpid never free or share it.
SpacesOwned ==
  \A t \in Slots : Alive(t) /\ HasSpace(t) =>
    /\ cr3[t] \in spaces
    /\ \A u \in Slots \ {t} : Alive(u) /\ HasSpace(u) => cr3[t] # cr3[u]

\* No address space is lost: each allocated one is the cr3 of a live task, so
\* exit, exec and waitpid together give back what fork and exec took.
NoSpaceLeak == \A s \in spaces : \E t \in Slots : Alive(t) /\ cr3[t] = s

\* The single saved kernel context belongs to the program that is not a fork
\* child: its SYS_EXIT, or crash, resumes its own elf_exec and no other task's.
ExitReturnsHome ==
  \A t \in Slots : Alive(t) /\ pc[t] \in UserPCs /\ ~forked[t] => saved = t

\* A task inside waitpid waits for a child of its own that was not reaped and
\* can still become a zombie: the loop has an end.
WaiterHasChild ==
  \A t \in Slots : Alive(t) /\ pc[t] \in {"wait", "reap"} =>
    /\ wchild[t] \in Slots \ {t}
    /\ Alive(wchild[t]) /\ forked[wchild[t]] /\ parent[wchild[t]] = t
    /\ pc[t] = "reap" => state[wchild[t]] = "ZOMBIE"

\* waitpid tears down a child only after the child's SYS_EXIT, and returns the
\* status the child passed to it.
ReapExited ==
  [][\A c \in Slots : forked[c] /\ ~forked'[c] =>
       state[c] = "ZOMBIE" /\ code[c] = 1]_vars

\* Round robin starves nobody: a READY task gets the CPU, unless it is killed.
NoStarvation ==
  \A t \in Slots : (t < task_count /\ state[t] = "READY")
                     ~> (current = t \/ state[t] = "DEAD")

\* When the awaited child has exited, waitpid returns.
WaitReturns ==
  \A t \in Slots : (pc[t] = "wait" /\ state[wchild[t]] = "ZOMBIE")
                     ~> (pc[t] = "user" \/ state[t] = "DEAD")
=============================================================================
